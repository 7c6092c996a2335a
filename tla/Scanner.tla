------------------------------ MODULE Scanner ------------------------------
(***************************************************************************)
(* jlang's Scanner (src/Scanner/Scanner.cpp): an automaton that reads a    *)
(* source character by character, skips blanks and comments, and gives the *)
(* longest token that begins at the next character.  It prints nothing:    *)
(* what it cannot make a token of becomes an Unknown token, or none.       *)
(*                                                                         *)
(* A character is a string of length one, a text a sequence of them.  The  *)
(* TokenType of a keyword or symbol is its kind together with its lexeme.  *)
(***************************************************************************)
EXTENDS Integers, Sequences

CONSTANTS
    Characters,  \* those a file may hold
    Letters,     \* those of which isalpha holds
    Digits,      \* those of which isdigit holds
    Sources      \* the texts of the files

Quote == "\""
NUL == "\\0"    \* no character: what is looked at past the end

Blanks == {" ", "\r", "\t", "\n"}

\* The characters that begin a symbol.
SymbolStarts ==
    {"{", "}", "(", ")", ";", ":", ",", ".", "*", "+", "/", "%", "=", "!", "&",
     "|", "^", "~", "<", ">", "?", "-"}

ASSUME SourceAssumption ==
    /\ Sources \subseteq Seq(Characters)
    /\ Letters \subseteq Characters /\ Digits \subseteq Characters
    /\ {"\n", "\t", "\r", NUL} \subseteq Characters
    /\ Letters \cap Digits = {}
    /\ (Letters \cup Digits)
         \cap (Blanks \cup SymbolStarts \cup {Quote, "'", "\\", "_", NUL}) = {}

s_Keywords ==
    {<<"i", "f">>, <<"e", "l", "s", "e">>, <<"w", "h", "i", "l", "e">>,
     <<"f", "o", "r">>, <<"r", "e", "t", "u", "r", "n">>, <<"f", "n">>,
     <<"v", "a", "r">>, <<"v", "a", "l">>, <<"s", "t", "r", "u", "c", "t">>,
     <<"i", "n", "t", "e", "r", "f", "a", "c", "e">>, <<"v", "o", "i", "d">>,
     <<"i", "8">>, <<"i", "1", "6">>, <<"i", "3", "2">>, <<"i", "6", "4">>,
     <<"u", "8">>, <<"u", "1", "6">>, <<"u", "3", "2">>, <<"u", "6", "4">>,
     <<"f", "3", "2">>, <<"f", "6", "4">>, <<"b", "o", "o", "l">>,
     <<"c", "h", "a", "r">>, <<"n", "u", "l", "l">>, <<"t", "r", "u", "e">>,
     <<"f", "a", "l", "s", "e">>, <<"a", "l", "l", "o", "c">>,
     <<"a", "n", "d">>, <<"o", "r">>}

Kinds ==
    {"Symbol", "Keyword", "Identifier", "NumberLiteral", "FloatLiteral",
     "StringLiteral", "CharLiteral", "Unknown", "EndOfFile"}

Modes ==
    {"Skip", "LineComment", "BlockComment", "Identifier", "Number", "Fraction",
     "String"}

VARIABLES
    m_Source,           \* the text
    m_CurrentPosition,  \* how many characters have been read
    m_CurrentLine,
    m_Start,            \* where the token that is being read begins
    m_Tokens,
    doing,              \* the loop that is running
    done,               \* Tokenize has returned
    spans               \* history: from where to where each token was read

vars ==
    <<m_Source, m_CurrentPosition, m_CurrentLine, m_Start, m_Tokens, doing, done, spans>>

(***************************************************************************)
(* Looking at the character at position i, counted from 0; past the end    *)
(* Peek and PeekNext return NUL.                                          *)
(***************************************************************************)
Here == m_CurrentPosition
EndAt(i) == i >= Len(m_Source)                        \* IsEndReached
CharAt(i) == IF EndAt(i) THEN NUL ELSE m_Source[i + 1]
Text(from, to) == SubSeq(m_Source, from + 1, to)

Peek == CharAt(Here)
PeekNext == CharAt(Here + 1)

Doing(mode) == ~done /\ doing = mode

\* Reads n characters and goes on in a mode; no token is complete.
Read(n, mode) ==
    /\ m_CurrentPosition' = Here + n
    /\ doing' = mode
    /\ UNCHANGED <<m_Source, m_Tokens, done, spans>>

CountLine == m_CurrentLine' = m_CurrentLine + (IF Peek = "\n" THEN 1 ELSE 0)
SameLine == UNCHANGED m_CurrentLine

\* The token that begins at start and ends before the position end.
AddToken(kind, lexeme, start, end) ==
    /\ m_Tokens' = Append(m_Tokens, [m_type |-> kind, m_lexeme |-> lexeme,
                                     m_CurrentLine |-> m_CurrentLine])
    /\ spans' = Append(spans, <<start, end>>)
    /\ m_CurrentPosition' = end
    /\ m_Start' = start
    /\ doing' = "Skip"
    /\ UNCHANGED <<m_Source, m_CurrentLine, done>>

(***************************************************************************)
(* SkipWhitespace.                                                         *)
(***************************************************************************)
SkipBlank ==
    /\ Doing("Skip")
    /\ Peek \in Blanks
    /\ Read(1, "Skip") /\ CountLine
    /\ UNCHANGED m_Start

CommentAhead == Peek = "/" /\ PeekNext \in {"/", "*"}

BeginComment ==
    /\ Doing("Skip")
    /\ CommentAhead
    /\ IF PeekNext = "/" THEN Read(0, "LineComment") ELSE Read(2, "BlockComment")
    /\ SameLine
    /\ UNCHANGED m_Start

LineComment ==
    /\ Doing("LineComment")
    /\ IF Peek # "\n" /\ ~EndAt(Here) THEN Read(1, "LineComment") ELSE Read(0, "Skip")
    /\ SameLine
    /\ UNCHANGED m_Start

\* Fault: looks for the end of the comment past the end of the text.
FaultyBlockComment ==
    /\ Doing("BlockComment")
    /\ IF Peek = "*" /\ PeekNext = "/" THEN Read(2, "Skip") /\ SameLine
       ELSE Read(1, "BlockComment") /\ CountLine
    /\ UNCHANGED m_Start

\* Fault: leaves the last character of the comment.
FaultyCommentEnd ==
    /\ Doing("BlockComment")
    /\ IF EndAt(Here) THEN Read(0, "Skip") /\ SameLine
       ELSE IF Peek = "*" /\ PeekNext = "/" THEN Read(1, "Skip") /\ SameLine
       ELSE Read(1, "BlockComment") /\ CountLine
    /\ UNCHANGED m_Start

\* The end of the file ends it too.
BlockComment ==
    /\ Doing("BlockComment")
    /\ IF EndAt(Here) THEN Read(0, "Skip") /\ SameLine
       ELSE IF Peek = "*" /\ PeekNext = "/" THEN Read(2, "Skip") /\ SameLine
       ELSE Read(1, "BlockComment") /\ CountLine
    /\ UNCHANGED m_Start

(***************************************************************************)
(* ScanToken.                                                              *)
(***************************************************************************)
TokenAhead == Doing("Skip") /\ ~EndAt(Here) /\ Peek \notin Blanks /\ ~CommentAhead

\* What a symbol of one character goes on with, and one of two.
Second(c) ==
    CASE c \in {":", "*", "/", "%", "=", "!", "^"} -> {"="}
      [] c \in {"+", "&", "|", "<", ">"} -> {c, "="}
      [] c = "-" -> {"-", ">", "="}
      [] OTHER -> {}
\* Fault: <<= and >>= are forgotten.
FaultyThird(c, d) == {}
Third(c, d) == IF c \in {"<", ">"} /\ d = c THEN {"="} ELSE {}

ScanSymbol ==
    /\ TokenAhead
    /\ Peek \in SymbolStarts
    /\ LET end == IF PeekNext \notin Second(Peek) THEN Here + 1
                  ELSE IF CharAt(Here + 2) \notin Third(Peek, PeekNext) THEN Here + 2
                  ELSE Here + 3
       IN  AddToken("Symbol", Text(Here, end), Here, end)

\* A token of several characters begins, or one that is only its first.
BeginToken(chars, mode) ==
    /\ TokenAhead
    /\ Peek \in chars
    /\ Read(1, mode)
    /\ m_Start' = Here
    /\ SameLine

ScanUnknown ==
    /\ TokenAhead
    /\ Peek \notin SymbolStarts \cup Letters \cup Digits \cup {"_", Quote, "'"}
    /\ AddToken("Unknown", Text(Here, Here + 1), Here, Here + 1)

\* Reads one more character of the token.
More(mode, chars) ==
    /\ Doing(mode)
    /\ Peek \in chars
    /\ Read(1, mode)
    /\ SameLine
    /\ UNCHANGED m_Start

(***************************************************************************)
(* Identifiers and keywords.                                               *)
(***************************************************************************)
BeginIdentifier == BeginToken(Letters \cup {"_"}, "Identifier")

Identifier == More("Identifier", Letters \cup Digits \cup {"_"})

EndIdentifier ==
    /\ Doing("Identifier")
    /\ Peek \notin Letters \cup Digits \cup {"_"}
    /\ LET text == Text(m_Start, Here)
       IN  AddToken(IF text \in s_Keywords THEN "Keyword" ELSE "Identifier",
                    text, m_Start, Here)

(***************************************************************************)
(* Numbers.  A point belongs to a number if a digit follows it.            *)
(***************************************************************************)
BeginNumber == BeginToken(Digits, "Number")

Number == More("Number", Digits)

EndNumber ==
    /\ Doing("Number")
    /\ Peek \notin Digits
    /\ IF Peek = "." /\ PeekNext \in Digits
       THEN Read(1, "Fraction") /\ SameLine /\ UNCHANGED m_Start
       ELSE AddToken("NumberLiteral", Text(m_Start, Here), m_Start, Here)

Fraction == More("Fraction", Digits)

EndFraction ==
    /\ Doing("Fraction")
    /\ Peek \notin Digits
    /\ AddToken("FloatLiteral", Text(m_Start, Here), m_Start, Here)

(***************************************************************************)
(* Strings, without escapes.  One that is not closed is no token at all.   *)
(***************************************************************************)
BeginString == BeginToken({Quote}, "String")

\* Fault: the newlines of a string are not counted.
FaultyStringCharacter ==
    /\ Doing("String")
    /\ ~EndAt(Here) /\ Peek # Quote
    /\ Read(1, "String") /\ SameLine
    /\ UNCHANGED m_Start

StringCharacter ==
    /\ Doing("String")
    /\ ~EndAt(Here) /\ Peek # Quote
    /\ Read(1, "String") /\ CountLine
    /\ UNCHANGED m_Start

\* Fault: waits for the quote of an open string.
FaultyEndString ==
    /\ Doing("String")
    /\ Peek = Quote
    /\ AddToken("StringLiteral", Text(m_Start + 1, Here), m_Start, Here + 1)

EndString ==
    /\ Doing("String")
    /\ EndAt(Here) \/ Peek = Quote
    /\ IF EndAt(Here) THEN Read(0, "Skip") /\ SameLine /\ UNCHANGED m_Start
       ELSE AddToken("StringLiteral", Text(m_Start + 1, Here), m_Start, Here + 1)

(***************************************************************************)
(* Characters: one, or a backslash and one; any of them may be a newline,  *)
(* which no line counts.                                                   *)
(***************************************************************************)
Escaped(c) ==
    CASE c = "n" -> "\n"
      [] c = "t" -> "\t"
      [] c = "r" -> "\r"
      [] c = "0" -> NUL
      [] OTHER -> c

ScanChar ==
    /\ TokenAhead
    /\ Peek = "'"
    /\ LET isEscape == PeekNext = "\\" /\ ~EndAt(Here + 2)
           value == IF isEscape THEN Escaped(CharAt(Here + 2)) ELSE PeekNext
           close == IF EndAt(Here + 1) THEN Here + 1
                    ELSE IF isEscape THEN Here + 3 ELSE Here + 2
       IN  IF close > Here + 1 /\ CharAt(close) = "'"
           THEN AddToken("CharLiteral", <<value>>, Here, close + 1)
           ELSE AddToken("Unknown", Text(Here, close), Here, close)

(***************************************************************************)
(* Tokenize.                                                               *)
(***************************************************************************)
\* Fault: forgets the EndOfFile token.
FaultyEndTokenize ==
    /\ Doing("Skip")
    /\ EndAt(Here)
    /\ done' = TRUE
    /\ UNCHANGED <<m_Source, m_CurrentPosition, m_CurrentLine, m_Start, m_Tokens,
                   doing, spans>>

EndTokenize ==
    /\ Doing("Skip")
    /\ EndAt(Here)
    /\ m_Tokens' = Append(m_Tokens, [m_type |-> "EndOfFile", m_lexeme |-> <<>>,
                                     m_CurrentLine |-> m_CurrentLine])
    /\ spans' = Append(spans, <<Here, Here>>)
    /\ done' = TRUE
    /\ UNCHANGED <<m_Source, m_CurrentPosition, m_CurrentLine, m_Start, doing>>

Init ==
    /\ m_Source \in Sources
    /\ m_CurrentPosition = 0
    /\ m_CurrentLine = 1
    /\ m_Start = 0
    /\ m_Tokens = <<>>
    /\ doing = "Skip"
    /\ done = FALSE
    /\ spans = <<>>

Next ==
    \/ SkipBlank \/ BeginComment \/ LineComment \/ BlockComment
    \/ ScanSymbol \/ ScanUnknown \/ ScanChar
    \/ BeginIdentifier \/ Identifier \/ EndIdentifier
    \/ BeginNumber \/ Number \/ EndNumber \/ Fraction \/ EndFraction
    \/ BeginString \/ StringCharacter \/ EndString
    \/ EndTokenize

Spec == Init /\ [][Next]_vars

\* Nothing else runs: the scanner is a plain call that takes its next step.
FairSpec == Spec /\ WF_vars(Next)

(***************************************************************************)
(* Properties.                                                             *)
(***************************************************************************)

\* The state has the shape the code gives it; the position stays within the
\* text, and EndOfFile is the last token of a complete sequence and no other,
\* as the parser takes for granted (module Parser, InputAssumption).
TypeOK ==
    /\ m_Source \in Sources
    /\ m_CurrentPosition \in 0..Len(m_Source)
    /\ m_CurrentLine \in 1..(Here + 1)
    /\ m_Start \in 0..Here
    /\ m_Tokens \in Seq([m_type : Kinds, m_lexeme : Seq(Characters),
                         m_CurrentLine : 1..(Here + 1)])
    /\ doing \in Modes
    /\ done \in BOOLEAN
    /\ spans \in Seq((0..Here) \X (0..Here))
    /\ Len(spans) = Len(m_Tokens)
    /\ \A k \in DOMAIN m_Tokens :
          m_Tokens[k].m_type = "EndOfFile" <=> done /\ k = Len(m_Tokens)

\* What Compile takes for granted (module Phase): the scanner moves through the
\* text from left to right, only adds tokens, returns at the end of the text
\* and nowhere else, and does return, whatever the text is.
Reading == INSTANCE Phase WITH
    unread <- Len(m_Source) - m_CurrentPosition,
    output <- m_Tokens,
    stopped <- done

ReadsText == Reading!Spec
=============================================================================
