-------------------------- MODULE ScannerReference --------------------------
(***************************************************************************)
(* A reference for module Scanner: the tokens and what may stand between   *)
(* them, as sets of texts, and how lines are counted.                      *)
(***************************************************************************)
EXTENDS Scanner, FiniteSets

(***************************************************************************)
(* The texts of the tokens.                                                *)
(***************************************************************************)
SymbolTexts ==
    {<<c>> : c \in SymbolStarts}
        \cup {<<c, "=">> : c \in {":", "*", "+", "/", "%", "=", "!", "&", "|", "^",
                                  "<", ">", "-"}}
        \cup {<<c, c>> : c \in {"+", "-", "&", "|", "<", ">"}}
        \cup {<<"-", ">">>, <<"<", "<", "=">>, <<">", ">", "=">>}

WordCharacters == Letters \cup Digits \cup {"_"}

IsWord(text) ==
    /\ text # <<>>
    /\ text[1] \notin Digits
    /\ \A k \in DOMAIN text : text[k] \in WordCharacters
IsInteger(text) == text # <<>> /\ \A k \in DOMAIN text : text[k] \in Digits
IsFloat(text) ==
    \E p \in DOMAIN text :
        /\ text[p] = "."
        /\ IsInteger(SubSeq(text, 1, p - 1))
        /\ IsInteger(SubSeq(text, p + 1, Len(text)))
IsString(text) ==
    /\ Len(text) > 1
    /\ \A k \in DOMAIN text : text[k] = "\"" <=> k \in {1, Len(text)}
IsCharacter(text) ==
    \/ Len(text) = 3 /\ text[1] = "'" /\ text[2] # "\\" /\ text[3] = "'"
    \/ Len(text) = 4 /\ text[1] = "'" /\ text[2] = "\\" /\ text[4] = "'"

\* The kinds of token that a text can be; none, if it is not a token.
KindsOf(text) ==
    {kind \in Kinds :
        \/ kind = "Symbol" /\ text \in SymbolTexts
        \/ kind = "Keyword" /\ IsWord(text) /\ text \in s_Keywords
        \/ kind = "Identifier" /\ IsWord(text) /\ text \notin s_Keywords
        \/ kind = "NumberLiteral" /\ IsInteger(text)
        \/ kind = "FloatLiteral" /\ IsFloat(text)
        \/ kind = "StringLiteral" /\ IsString(text)
        \/ kind = "CharLiteral" /\ IsCharacter(text)}

\* The last token and where it stands.
LastToken == m_Tokens[Len(m_Tokens)]
LastStart == spans[Len(spans)][1]
LastEnd == spans[Len(spans)][2]

\* Every token is the longest that begins where it does, and is of the kind
\* that its text has; an Unknown token stands where no token begins.
LongestMatch ==
    m_Tokens # <<>> /\ ~done =>
        /\ KindsOf(Text(LastStart, LastEnd)) = {LastToken.m_type} \ {"Unknown"}
        /\ \A end \in (LastEnd + 1)..Len(m_Source) : KindsOf(Text(LastStart, end)) = {}
        /\ LastToken.m_type = "Unknown" =>
              \A end \in (LastStart + 1)..LastEnd : KindsOf(Text(LastStart, end)) = {}

(***************************************************************************)
(* What may stand between tokens.                                          *)
(***************************************************************************)
IsLineComment(from, to) ==
    /\ CharAt(from) = "/" /\ CharAt(from + 1) = "/"
    /\ \A i \in from..(to - 1) : CharAt(i) # "\n"
    /\ EndAt(to) \/ CharAt(to) = "\n"

\* Where "*/" stands in a comment that begins at from.
Closings(from, to) ==
    {i \in (from + 2)..(to - 2) : CharAt(i) = "*" /\ CharAt(i + 1) = "/"}
IsBlockComment(from, to) ==
    /\ CharAt(from) = "/" /\ CharAt(from + 1) = "*"
    /\ Closings(from, to) = {to - 2} \/ (EndAt(to) /\ Closings(from, to) = {})

\* A string that the end of the text leaves open (ScannerTests.cpp:767-775).
IsOpenString(from, to) ==
    /\ EndAt(to)
    /\ \A i \in from..(to - 1) : CharAt(i) = "\"" <=> i = from

\* The text between two positions is made of nothing but these and blanks.
NoTokens(from, to) ==
    LET rest[i \in from..to] ==    \* from i on it is
            \/ i = to
            \/ \E j \in (i + 1)..to :
                  /\ \/ j = i + 1 /\ CharAt(i) \in Blanks
                     \/ IsLineComment(i, j)
                     \/ IsBlockComment(i, j)
                     \/ IsOpenString(i, j)
                  /\ rest[j]
    IN  rest[from]

\* No character is lost: what lies between the last two tokens, or before the
\* first, is blank or comment, or the open string at the end of the text, which
\* disappears without a token or a message.
NothingDropped ==
    m_Tokens # <<>> =>
        NoTokens(IF Len(spans) = 1 THEN 0 ELSE spans[Len(spans) - 1][2], LastStart)

\* A token carries the line on which it ends: one more than the newlines before
\* that, those in comments and strings included, but not those that a
\* character literal, or what is left of one, swallows.
InCharacter(i) ==
    \E k \in DOMAIN m_Tokens :
        m_Tokens[k].m_type \in {"CharLiteral", "Unknown"} /\ i \in spans[k][1]..(spans[k][2] - 1)

LineNumbers ==
    m_Tokens # <<>> =>
        LastToken.m_CurrentLine =
            1 + Cardinality({i \in 0..(LastEnd - 1) : CharAt(i) = "\n" /\ ~InCharacter(i)})
=============================================================================
