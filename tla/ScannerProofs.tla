--------------------------- MODULE ScannerProofs ---------------------------
(***************************************************************************)
(* Safety of Scanner, for every set of texts and every alphabet: TypeOK is *)
(* inductive, and under it every step is a step of Phase or changes        *)
(* nothing that Phase sees.  Then what ScannerReference says of the tokens *)
(* that have been found: their lines, what lies between them, and that     *)
(* each is the longest that begins where it does.  None of the three is    *)
(* inductive; the invariant of each adds what the loops have read of the   *)
(* token, or of the gap, that is under way.                                *)
(***************************************************************************)
EXTENDS ScannerReference, SequenceTheorems, FiniteSetTheorems, TLAPS

(***************************************************************************)
(* Characters and texts.                                                   *)
(***************************************************************************)
\* A character other than NUL has been read from the text.
LEMMA CharacterRead ==
    ASSUME TypeOK, NEW i \in Nat
    PROVE  /\ CharAt(i) \in Characters
           /\ CharAt(i) # NUL => i < Len(m_Source)
<1>1. m_Source \in Seq(Characters) /\ NUL \in Characters
  BY SourceAssumption DEF TypeOK
<1>2. CASE EndAt(i)
  BY <1>1, <1>2 DEF CharAt
<1>3. CASE ~EndAt(i)
  <2>1. i < Len(m_Source) /\ i + 1 \in 1..Len(m_Source)
    BY <1>1, <1>3 DEF EndAt
  <2>. QED
    BY <1>1, <1>3, <2>1, ElementOfSeq DEF CharAt
<1>. QED
  BY <1>2, <1>3

\* A part of the text is a text.
LEMMA Texts ==
    ASSUME TypeOK, NEW from \in Nat, NEW to \in 0..Len(m_Source)
    PROVE  Text(from, to) \in Seq(Characters)
<1>1. m_Source \in Seq(Characters)
  BY SourceAssumption DEF TypeOK
<1>. QED
  BY <1>1, SubSeqProperties DEF Text

(***************************************************************************)
(* What TypeOK says of the output, when i characters have been read.       *)
(***************************************************************************)
Tokens(i) == [m_type : Kinds, m_lexeme : Seq(Characters), m_CurrentLine : 1..(i + 1)]
Spans(i) == (0..i) \X (0..i)

LEMMA MoreRead ==
    ASSUME NEW i \in Nat, NEW j \in Nat, i <= j
    PROVE  /\ Seq(Tokens(i)) \subseteq Seq(Tokens(j))
           /\ Seq(Spans(i)) \subseteq Seq(Spans(j))
<1>1. Tokens(i) \subseteq Tokens(j)
  <2>1. 1..(i + 1) \subseteq 1..(j + 1)
    OBVIOUS
  <2>. QED
    BY <2>1 DEF Tokens
<1>2. Spans(i) \subseteq Spans(j)
  BY DEF Spans
<1>. QED
  BY <1>1, <1>2, SeqMonotonic

LEMMA TypeParts ==
    TypeOK <=>
      /\ m_Source \in Sources
      /\ m_CurrentPosition \in 0..Len(m_Source)
      /\ m_CurrentLine \in 1..(Here + 1)
      /\ m_Start \in 0..Here
      /\ m_Tokens \in Seq(Tokens(Here))
      /\ doing \in Modes
      /\ done \in BOOLEAN
      /\ spans \in Seq(Spans(Here))
      /\ Len(spans) = Len(m_Tokens)
      /\ \A k \in DOMAIN m_Tokens :
            m_Tokens[k].m_type = "EndOfFile" <=> done /\ k = Len(m_Tokens)
BY DEF TypeOK, Tokens, Spans

(***************************************************************************)
(* The two ways to go on.  The lines and the start of the token stay       *)
(* behind the position, so that what has been counted remains within its   *)
(* bounds when the position grows.                                         *)
(***************************************************************************)
LEMMA ReadKeeps ==
    ASSUME TypeOK, ~done,
           NEW n \in Nat, NEW mode \in Modes, Read(n, mode), Here + n <= Len(m_Source),
           m_CurrentLine' \in m_CurrentLine..(m_CurrentLine + n),
           m_Start' \in {m_Start, Here}
    PROVE  TypeOK' /\ [Reading!Next]_(Reading!vars)
<1>1. /\ Here' = Here + n /\ Here \in Nat /\ m_Source' = m_Source
      /\ m_Tokens' = m_Tokens /\ spans' = spans /\ done' = done /\ doing' = mode
      /\ Len(m_Source) \in Nat
  BY DEF Read, Here, TypeOK
<1>2. m_CurrentPosition' \in 0..Len(m_Source')
  BY <1>1 DEF Here
<1>3. m_CurrentLine' \in 1..(Here' + 1) /\ m_Start' \in 0..Here'
  BY <1>1 DEF TypeOK
<1>4. m_Tokens' \in Seq(Tokens(Here')) /\ spans' \in Seq(Spans(Here'))
  BY <1>1, MoreRead, TypeParts
<1>5. TypeOK'
  <2>1. /\ m_Source' \in Sources /\ doing' \in Modes /\ done' \in BOOLEAN
        /\ Len(spans') = Len(m_Tokens')
        /\ \A k \in DOMAIN m_Tokens' :
              m_Tokens'[k].m_type = "EndOfFile" <=> done' /\ k = Len(m_Tokens')
    BY <1>1 DEF TypeOK
  <2>. QED
    BY <1>2, <1>3, <1>4, <2>1 DEF TypeOK, Tokens, Spans
<1>6. [Reading!Next]_(Reading!vars)
  BY <1>1 DEF Here, Reading!Next, Reading!Read, Reading!vars
<1>. QED
  BY <1>5, <1>6

\* A token is read up to a position within the text.
LEMMA AddTokenKeeps ==
    ASSUME TypeOK, ~done,
           NEW kind \in Kinds \ {"EndOfFile"}, NEW lexeme \in Seq(Characters),
           NEW start \in 0..Here, NEW end \in Here..Len(m_Source),
           AddToken(kind, lexeme, start, end)
    PROVE  TypeOK' /\ [Reading!Next]_(Reading!vars)
<1>. DEFINE token == [m_type |-> kind, m_lexeme |-> lexeme,
                      m_CurrentLine |-> m_CurrentLine]
<1>1. /\ Here' = end /\ Here \in Nat /\ end \in Nat /\ Here <= end
      /\ m_Source' = m_Source /\ m_CurrentLine' = m_CurrentLine /\ m_Start' = start
      /\ m_Tokens' = Append(m_Tokens, token) /\ spans' = Append(spans, <<start, end>>)
      /\ done' = done /\ doing' = "Skip" /\ Len(m_Source) \in Nat
  BY DEF AddToken, Here, TypeOK
<1>2. m_Tokens \in Seq(Tokens(end)) /\ spans \in Seq(Spans(end))
  BY <1>1, MoreRead, TypeParts
<1>3. token \in Tokens(end) /\ token.m_type # "EndOfFile"
  BY <1>1 DEF Tokens, TypeOK
<1>4. <<start, end>> \in Spans(end)
  BY <1>1 DEF Spans
<1>. HIDE DEF token
<1>5. /\ m_Tokens' \in Seq(Tokens(end)) /\ Len(m_Tokens') = Len(m_Tokens) + 1
      /\ spans' \in Seq(Spans(end)) /\ Len(spans') = Len(spans) + 1
  BY <1>1, <1>2, <1>3, <1>4, AppendProperties
<1>6. \A k \in DOMAIN m_Tokens' : m_Tokens'[k].m_type # "EndOfFile"
  <2>1. \A k \in 1..Len(m_Tokens) : m_Tokens[k].m_type # "EndOfFile"
    <3>1. DOMAIN m_Tokens = 1..Len(m_Tokens)
      BY <1>2
    <3>. QED
      BY <3>1, Zenon DEF TypeOK
  <2>2. /\ \A k \in 1..Len(m_Tokens) : m_Tokens'[k] = m_Tokens[k]
        /\ m_Tokens'[Len(m_Tokens) + 1] = token
        /\ DOMAIN m_Tokens' = 1..(Len(m_Tokens) + 1) /\ Len(m_Tokens) \in Nat
    <3>1. Len(m_Tokens) \in Nat /\ DOMAIN m_Tokens' = 1..Len(m_Tokens')
      BY <1>1, <1>2, <1>5
    <3>. QED
      BY <1>1, <1>2, <1>3, <1>5, <3>1, AppendProperties
  <2>3. \A k \in 1..(Len(m_Tokens) + 1) :
            k \in 1..Len(m_Tokens) \/ k = Len(m_Tokens) + 1
    BY <2>2
  <2>. QED
    BY <1>3, <2>1, <2>2, <2>3
<1>7. TypeOK'
  <2>1. /\ m_CurrentPosition' \in 0..Len(m_Source') /\ m_Start' \in 0..Here'
        /\ m_CurrentLine' \in 1..(Here' + 1)
    BY <1>1 DEF Here, TypeOK
  <2>2. doing' \in Modes
    BY <1>1 DEF Modes
  <2>3. m_Source' \in Sources /\ ~done' /\ Len(spans') = Len(m_Tokens')
    BY <1>1, <1>5 DEF TypeOK
  <2>. QED
    BY <1>1, <1>5, <1>6, <2>1, <2>2, <2>3 DEF TypeOK, Tokens, Spans
<1>8. Reading!Appended
  BY <1>1, <1>2, <1>3, AppendProperties DEF Reading!Appended
<1>9. [Reading!Next]_(Reading!vars)
  <2>1. CASE end = Here
    BY <1>1, <1>8, <2>1 DEF Here, Reading!Next, Reading!Write
  <2>2. CASE end # Here
    <3>1. /\ Len(m_Source') - m_CurrentPosition' \in Nat
          /\ Len(m_Source') - m_CurrentPosition' < Len(m_Source) - m_CurrentPosition
      BY <1>1, <2>2 DEF Here
    <3>. QED
      BY <1>1, <1>8, <3>1 DEF Reading!Next, Reading!Read
  <2>. QED
    BY <2>1, <2>2
<1>. QED
  BY <1>7, <1>9

(***************************************************************************)
(* The automaton.                                                          *)
(***************************************************************************)
\* No letter and no digit is NUL.
LEMMA Alphabet ==
    NUL \notin Letters \cup Digits \cup {"_"}
<1>1. NUL \notin Letters \cup Digits
  BY SourceAssumption
<1>2. NUL # "_"
  BY DEF NUL
<1>. QED
  BY <1>1, <1>2

LEMMA Position ==
    ASSUME TypeOK
    PROVE  /\ Here \in Nat /\ m_CurrentLine \in Nat \ {0} /\ m_Start \in Nat
           /\ Len(m_Source) \in Nat /\ Here <= Len(m_Source) /\ m_Start <= Here
           /\ EndAt(Here) <=> Here = Len(m_Source)
<1>1. Len(m_Source) \in Nat
  <2>1. m_Source \in Seq(Characters)
    BY SourceAssumption DEF TypeOK
  <2>. QED
    BY <2>1
<1>2. Here \in 0..Len(m_Source) /\ m_CurrentLine \in 1..(Here + 1) /\ m_Start \in 0..Here
  BY DEF TypeOK, Here
<1>. HIDE DEF Here
<1>. QED
  BY <1>1, <1>2 DEF EndAt

\* The line of the character that is read, whether it counts or not.
LEMMA Lines ==
    ASSUME TypeOK, CountLine \/ SameLine
    PROVE  m_CurrentLine' \in m_CurrentLine..(m_CurrentLine + 1)
BY Position DEF CountLine, SameLine

\* SkipWhitespace.
LEMMA SkipStep ==
    ASSUME TypeOK, SkipBlank \/ BeginComment \/ LineComment \/ BlockComment
    PROVE  TypeOK' /\ [Reading!Next]_(Reading!vars)
<1>. USE Position
<1>1. CASE SkipBlank
  <2>1. Peek # NUL
    BY <1>1 DEF SkipBlank, Blanks, NUL
  <2>2. Here + 1 <= Len(m_Source)
    BY <2>1, CharacterRead DEF Peek
  <2>. QED
    BY <1>1, <2>2, Lines, ReadKeeps DEF SkipBlank, Doing, Modes
<1>2. CASE BeginComment
  <2>1. PeekNext # NUL
    BY <1>2 DEF BeginComment, CommentAhead, NUL
  <2>2. Here + 2 <= Len(m_Source)
    BY <2>1, CharacterRead DEF PeekNext
  <2>. QED
    BY <1>2, <2>2, ReadKeeps DEF BeginComment, Doing, Modes, SameLine
<1>3. CASE LineComment
  <2>1. ~EndAt(Here) => Here + 1 <= Len(m_Source)
    OBVIOUS
  <2>. QED
    BY <1>3, <2>1, ReadKeeps DEF LineComment, Doing, Modes, SameLine
<1>4. CASE BlockComment
  <2>1. ~EndAt(Here) => Here + 1 <= Len(m_Source)
    OBVIOUS
  <2>2. PeekNext = "/" => Here + 2 <= Len(m_Source)
    BY CharacterRead DEF PeekNext, NUL
  <2>. QED
    BY <1>4, <2>1, <2>2, Lines, ReadKeeps DEF BlockComment, Doing, Modes, SameLine
<1>. QED
  BY <1>1, <1>2, <1>3, <1>4

\* Tokens of one character or a few.
LEMMA SymbolStep ==
    ASSUME TypeOK, ScanSymbol \/ ScanUnknown \/ ScanChar
    PROVE  TypeOK' /\ [Reading!Next]_(Reading!vars)
<1>. USE Position
<1>1. ~done /\ Here + 1 <= Len(m_Source)
  <2>1. TokenAhead
    BY DEF ScanSymbol, ScanUnknown, ScanChar
  <2>2. ~done /\ ~EndAt(Here)
    BY <2>1 DEF TokenAhead, Doing
  <2>. QED
    BY <2>2
<1>2. ASSUME NEW kind \in Kinds \ {"EndOfFile"}, NEW end \in (Here + 1)..Len(m_Source),
             AddToken(kind, Text(Here, end), Here, end)
      PROVE  TypeOK' /\ [Reading!Next]_(Reading!vars)
  <2>1. Text(Here, end) \in Seq(Characters)
    BY <1>1, Texts
  <2>. QED
    BY <1>1, <1>2, <2>1, AddTokenKeeps
<1>0. "Symbol" \in Kinds \ {"EndOfFile"} /\ "Unknown" \in Kinds \ {"EndOfFile"}
  BY DEF Kinds
<1>3. CASE ScanSymbol
  <2>1. NUL \notin Second(Peek) /\ NUL \notin Third(Peek, PeekNext)
    <3>1. ASSUME NUL \in Second(Peek)
          PROVE  NUL = Peek
      BY <3>1 DEF Second, NUL
    <3>2. Peek # NUL
      BY <1>3 DEF ScanSymbol, SymbolStarts, NUL
    <3>. QED
      BY <3>1, <3>2 DEF Third, NUL
  <2>2. /\ PeekNext \in Second(Peek) => Here + 2 <= Len(m_Source)
        /\ CharAt(Here + 2) \in Third(Peek, PeekNext) => Here + 3 <= Len(m_Source)
    BY <2>1, CharacterRead DEF PeekNext
  <2>. DEFINE end == IF PeekNext \notin Second(Peek) THEN Here + 1
                     ELSE IF CharAt(Here + 2) \notin Third(Peek, PeekNext) THEN Here + 2
                     ELSE Here + 3
  <2>3. end \in (Here + 1)..Len(m_Source)
    BY <1>1, <2>2
  <2>4. AddToken("Symbol", Text(Here, end), Here, end)
    BY <1>3 DEF ScanSymbol
  <2>. HIDE DEF end
  <2>. QED
    BY <1>0, <1>2, <2>3, <2>4
<1>4. CASE ScanUnknown
  <2>1. Here + 1 \in (Here + 1)..Len(m_Source)
    BY <1>1
  <2>. QED
    BY <1>0, <1>2, <1>4, <2>1 DEF ScanUnknown
<1>5. CASE ScanChar
  <2>. DEFINE isEscape == PeekNext = "\\" /\ ~EndAt(Here + 2)
              value == IF isEscape THEN Escaped(CharAt(Here + 2)) ELSE PeekNext
              close == IF EndAt(Here + 1) THEN Here + 1
                       ELSE IF isEscape THEN Here + 3 ELSE Here + 2
  <2>1. close \in (Here + 1)..Len(m_Source)
    BY <1>1 DEF EndAt
  <2>2. CharAt(close) = "'" => close + 1 <= Len(m_Source)
    <3>1. "'" # NUL
      BY DEF NUL
    <3>. HIDE DEF close
    <3>. QED
      BY <2>1, <3>1, CharacterRead
  <2>3. <<value>> \in Seq(Characters)
    <3>1. CharAt(Here + 2) \in Characters /\ PeekNext \in Characters
      BY CharacterRead DEF PeekNext
    <3>2. Escaped(CharAt(Here + 2)) \in Characters
      BY <3>1, SourceAssumption DEF Escaped
    <3>. QED
      BY <3>1, <3>2
  <2>4. \/ /\ CharAt(close) = "'"
           /\ AddToken("CharLiteral", <<value>>, Here, close + 1)
        \/ AddToken("Unknown", Text(Here, close), Here, close)
    BY <1>5 DEF ScanChar
  <2>. HIDE DEF value, close
  <2>5. CASE AddToken("Unknown", Text(Here, close), Here, close)
    BY <1>2, <2>1, <2>5 DEF Kinds
  <2>6. CASE /\ CharAt(close) = "'"
             /\ AddToken("CharLiteral", <<value>>, Here, close + 1)
    <3>1. close + 1 \in Here..Len(m_Source) /\ Here \in 0..Here
      BY <2>1, <2>2, <2>6
    <3>. QED
      BY <1>1, <2>3, <2>6, <3>1, AddTokenKeeps DEF Kinds
  <2>. QED
    BY <2>4, <2>5, <2>6
<1>. QED
  BY <1>3, <1>4, <1>5

\* Identifiers, numbers and strings.
LEMMA LoopStep ==
    ASSUME TypeOK,
           \/ BeginIdentifier \/ Identifier \/ EndIdentifier
           \/ BeginNumber \/ Number \/ EndNumber \/ Fraction \/ EndFraction
           \/ BeginString \/ StringCharacter \/ EndString
    PROVE  TypeOK' /\ [Reading!Next]_(Reading!vars)
<1>. USE Position
<1>1. ASSUME NEW chars, NEW mode \in Modes, BeginToken(chars, mode)
      PROVE  TypeOK' /\ [Reading!Next]_(Reading!vars)
  BY <1>1, ReadKeeps DEF BeginToken, TokenAhead, Doing, SameLine
<1>2. ASSUME NEW chars, NUL \notin chars, NEW mode \in Modes, More(mode, chars)
      PROVE  TypeOK' /\ [Reading!Next]_(Reading!vars)
  <2>1. Here + 1 <= Len(m_Source)
    BY <1>2, CharacterRead DEF More, Peek
  <2>. QED
    BY <1>2, <2>1, ReadKeeps DEF More, Doing, SameLine
<1>3. ASSUME ~done, NEW kind \in Kinds \ {"EndOfFile"}, AddToken(kind, Text(m_Start, Here), m_Start, Here)
      PROVE  TypeOK' /\ [Reading!Next]_(Reading!vars)
  <2>1. Text(m_Start, Here) \in Seq(Characters)
    BY Texts
  <2>. QED
    BY <1>3, <2>1, AddTokenKeeps
<1>4. CASE BeginIdentifier \/ BeginNumber \/ BeginString
  BY <1>1, <1>4 DEF BeginIdentifier, BeginNumber, BeginString, Modes
<1>5. CASE Identifier \/ Number \/ Fraction
  BY <1>2, <1>5, Alphabet DEF Identifier, Number, Fraction, Modes
<1>6. CASE EndIdentifier \/ EndFraction
  BY <1>3, <1>6 DEF EndIdentifier, EndFraction, Doing, Kinds
<1>7. CASE EndNumber
  <2>1. CASE Peek = "." /\ PeekNext \in Digits
    <3>1. Here + 1 <= Len(m_Source)
      BY <2>1, CharacterRead DEF Peek, NUL
    <3>. QED
      BY <1>7, <2>1, <3>1, ReadKeeps DEF EndNumber, Doing, Modes, SameLine
  <2>2. CASE ~(Peek = "." /\ PeekNext \in Digits)
    BY <1>3, <1>7, <2>2 DEF EndNumber, Doing, Kinds
  <2>. QED
    BY <2>1, <2>2
<1>8. CASE StringCharacter
  BY <1>8, Lines, ReadKeeps DEF StringCharacter, Doing, Modes
<1>9. CASE EndString
  <2>1. CASE EndAt(Here)
    BY <1>9, <2>1, ReadKeeps DEF EndString, Doing, Modes, SameLine
  <2>2. CASE ~EndAt(Here)
    <3>1. Text(m_Start + 1, Here) \in Seq(Characters)
      BY Texts
    <3>2. AddToken("StringLiteral", Text(m_Start + 1, Here), m_Start, Here + 1) /\ ~done
      BY <1>9, <2>2 DEF EndString, Doing
    <3>3. Here + 1 \in Here..Len(m_Source) /\ m_Start \in 0..Here
      BY <2>2
    <3>. QED
      BY <3>1, <3>2, <3>3, AddTokenKeeps DEF Kinds
  <2>. QED
    BY <2>1, <2>2
<1>. QED
  BY <1>4, <1>5, <1>6, <1>7, <1>8, <1>9

LEMMA EndStep ==
    ASSUME TypeOK, EndTokenize
    PROVE  TypeOK' /\ [Reading!Next]_(Reading!vars)
<1>. USE Position
<1>. DEFINE token == [m_type |-> "EndOfFile", m_lexeme |-> <<>>,
                      m_CurrentLine |-> m_CurrentLine]
<1>1. ~done /\ Here = Len(m_Source)
  BY DEF EndTokenize, Doing
<1>2. /\ m_Tokens' = Append(m_Tokens, token) /\ spans' = Append(spans, <<Here, Here>>)
      /\ done' = TRUE
      /\ UNCHANGED <<m_Source, m_CurrentPosition, m_CurrentLine, m_Start, doing>>
  BY DEF EndTokenize
<1>3. /\ m_Tokens \in Seq(Tokens(Here)) /\ spans \in Seq(Spans(Here))
      /\ Len(spans) = Len(m_Tokens) /\ m_CurrentLine \in 1..(Here + 1)
  BY TypeParts
<1>4. token \in Tokens(Here) /\ token.m_type = "EndOfFile"
  BY <1>3 DEF Tokens, Kinds
<1>5. <<Here, Here>> \in Spans(Here)
  BY DEF Spans
<1>. HIDE DEF token
<1>6. /\ m_Tokens' \in Seq(Tokens(Here)) /\ Len(m_Tokens') = Len(m_Tokens) + 1
      /\ spans' \in Seq(Spans(Here)) /\ Len(spans') = Len(spans) + 1
  BY <1>2, <1>3, <1>4, <1>5, AppendProperties
<1>7. \A k \in DOMAIN m_Tokens' :
          m_Tokens'[k].m_type = "EndOfFile" <=> k = Len(m_Tokens')
  <2>1. \A k \in 1..Len(m_Tokens) : m_Tokens[k].m_type # "EndOfFile"
    <3>1. DOMAIN m_Tokens = 1..Len(m_Tokens)
      BY <1>3
    <3>. QED
      BY <1>1, <3>1, Zenon DEF TypeOK
  <2>2. /\ \A k \in 1..Len(m_Tokens) : m_Tokens'[k] = m_Tokens[k]
        /\ m_Tokens'[Len(m_Tokens) + 1] = token
        /\ DOMAIN m_Tokens' = 1..(Len(m_Tokens) + 1) /\ Len(m_Tokens) \in Nat
    <3>1. Len(m_Tokens) \in Nat /\ DOMAIN m_Tokens' = 1..Len(m_Tokens')
      BY <1>2, <1>3, <1>6
    <3>. QED
      BY <1>2, <1>3, <1>4, <1>6, <3>1, AppendProperties
  <2>3. \A k \in 1..(Len(m_Tokens) + 1) :
            /\ k \in 1..Len(m_Tokens) \/ k = Len(m_Tokens) + 1
            /\ k \in 1..Len(m_Tokens) => k # Len(m_Tokens) + 1
    BY <2>2
  <2>. QED
    BY <1>4, <1>6, <2>1, <2>2, <2>3
<1>8. TypeOK'
  <2>1. Here' = Here
    BY <1>2 DEF Here
  <2>2. /\ m_Source' \in Sources /\ m_CurrentPosition' \in 0..Len(m_Source')
        /\ m_CurrentLine' \in 1..(Here' + 1) /\ m_Start' \in 0..Here'
        /\ doing' \in Modes
    BY <1>2, <2>1 DEF TypeOK
  <2>. QED
    BY <1>2, <1>3, <1>6, <1>7, <2>1, <2>2 DEF TypeOK, Tokens, Spans
<1>9. Reading!Appended
  BY <1>2, <1>3, <1>4, AppendProperties DEF Reading!Appended
<1>10. Len(m_Source) - m_CurrentPosition = 0
  BY <1>1 DEF Here
<1>. QED
  BY <1>1, <1>2, <1>8, <1>9, <1>10 DEF Reading!Next, Reading!Stop

LEMMA InitStep ==
    ASSUME Init
    PROVE  TypeOK /\ Reading!Init
<1>1. m_Source \in Seq(Characters)
  BY SourceAssumption DEF Init
<1>2. Len(m_Source) \in Nat
  BY <1>1
<1>3. /\ m_CurrentPosition = 0 /\ Here = 0 /\ m_CurrentLine = 1 /\ m_Start = 0
      /\ m_Tokens = <<>> /\ spans = <<>> /\ m_Source \in Sources
      /\ doing = "Skip" /\ done = FALSE
  BY DEF Init, Here
<1>4. m_Tokens \in Seq(Tokens(Here)) /\ spans \in Seq(Spans(Here))
      /\ Len(spans) = Len(m_Tokens) /\ DOMAIN m_Tokens = {}
  BY <1>3
<1>5. TypeOK
  <2>1. m_CurrentPosition \in 0..Len(m_Source) /\ m_CurrentLine \in 1..(Here + 1)
        /\ m_Start \in 0..Here
    BY <1>2, <1>3
  <2>2. doing \in Modes /\ done \in BOOLEAN
    BY <1>3 DEF Modes
  <2>. QED
    BY <1>3, <1>4, <2>1, <2>2, TypeParts
<1>. QED
  BY <1>2, <1>3, <1>5 DEF Reading!Init

LEMMA NextStep ==
    ASSUME TypeOK, [Next]_vars
    PROVE  TypeOK' /\ [Reading!Next]_(Reading!vars)
<1>1. CASE UNCHANGED vars
  BY <1>1 DEF vars, TypeOK, Here, Reading!vars
<1>2. CASE Next
  BY <1>2, SkipStep, SymbolStep, LoopStep, EndStep DEF Next
<1>. QED
  BY <1>1, <1>2

(***************************************************************************)
(* The theorems.                                                           *)
(***************************************************************************)
\* Whatever the texts and the alphabet: the position stays within the text, the
\* lines counted and the tokens' spans behind it, and EndOfFile ends a complete
\* sequence and nothing else, which is what the parser's bounds rest on.
THEOREM TypeCorrect == Spec => []TypeOK
<1>. QED
  BY InitStep, NextStep, PTL DEF Spec

\* Whatever the texts: Tokenize moves through the text from left to right, only
\* adds tokens and returns at the end of the text and nowhere else.
THEOREM ScannerReads == Spec => Reading!Safety
<1>. QED
  BY InitStep, NextStep, TypeCorrect, PTL DEF Spec, Reading!Safety

(***************************************************************************)
(* Lines.  LineNumbers speaks of the moment a token is complete; between   *)
(* two tokens m_CurrentLine counts the newlines up to the position.        *)
(***************************************************************************)
\* The newlines before a position that count.
Newlines(end) == {i \in 0..(end - 1) : CharAt(i) = "\n" /\ ~InCharacter(i)}

Counted == m_CurrentLine = 1 + Cardinality(Newlines(Here))

SwallowsLines == {"CharLiteral", "Unknown"}
NoNewline(from, to) == \A i \in from..(to - 1) : CharAt(i) # "\n"

LEMMA FiniteNewlines ==
    ASSUME NEW end \in Nat
    PROVE  IsFiniteSet(Newlines(end)) /\ Cardinality(Newlines(end)) \in Nat
<1>1. IsFiniteSet(0..(end - 1))
  BY FS_Interval
<1>2. Newlines(end) \subseteq 0..(end - 1)
  BY DEF Newlines
<1>. QED
  BY <1>1, <1>2, FS_Subset, FS_CardinalityType

\* The tokens so far end before the position.
LEMMA NotYetRead ==
    ASSUME TypeOK, NEW i \in Nat, i >= Here
    PROVE  ~InCharacter(i)
<1>. SUFFICES ASSUME NEW k \in DOMAIN m_Tokens, i \in spans[k][1]..(spans[k][2] - 1)
              PROVE  FALSE
  BY DEF InCharacter
<1>1. k \in DOMAIN spans
  <2>1. /\ m_Tokens \in Seq(Tokens(Here)) /\ spans \in Seq(Spans(Here))
        /\ Len(spans) = Len(m_Tokens)
    BY TypeParts
  <2>. QED
    BY <2>1
<1>2. spans[k] \in Spans(Here)
  BY <1>1, TypeParts, ElementOfSeq
<1>. QED
  BY <1>2, Position DEF Spans

\* The text is read on within a token or between two.
LEMMA ReadCounts ==
    ASSUME TypeOK, Counted, LineNumbers, NEW n \in Nat, NEW mode, Read(n, mode),
           \/ SameLine /\ NoNewline(Here, Here + n)
           \/ CountLine /\ n = 1
    PROVE  Counted' /\ LineNumbers'
<1>1. /\ UNCHANGED <<m_Source, m_Tokens, spans>> /\ Here' = Here + n
      /\ Here \in Nat /\ m_CurrentLine \in Nat
  BY Position DEF Read, Here
<1>2. LineNumbers'
  BY <1>1 DEF LineNumbers, LastToken, LastEnd, CharAt, EndAt, InCharacter
<1>3. Newlines(Here)' = Newlines(Here + n)
  BY <1>1 DEF Newlines, CharAt, EndAt, InCharacter
<1>5. CASE SameLine /\ NoNewline(Here, Here + n)
  <2>1. Newlines(Here + n) = Newlines(Here)
    BY <1>1, <1>5 DEF Newlines, NoNewline
  <2>. QED
    BY <1>2, <1>3, <1>5, <2>1 DEF Counted, SameLine
<1>6. CASE CountLine /\ n = 1 /\ Peek # "\n"
  <2>1. Newlines(Here + n) = Newlines(Here)
    BY <1>1, <1>6 DEF Newlines, Peek
  <2>. QED
    BY <1>1, <1>2, <1>3, <1>6, <2>1 DEF Counted, CountLine
<1>7. CASE CountLine /\ n = 1 /\ Peek = "\n"
  <2>1. ~InCharacter(Here)
    BY <1>1, NotYetRead
  <2>2. Newlines(Here + n) = Newlines(Here) \cup {Here} /\ Here \notin Newlines(Here)
    BY <1>1, <1>7, <2>1 DEF Newlines, Peek
  <2>3. Cardinality(Newlines(Here + n)) = Cardinality(Newlines(Here)) + 1
    BY <1>1, <2>2, FiniteNewlines, FS_AddElement
  <2>4. m_CurrentLine' = m_CurrentLine + 1 /\ Cardinality(Newlines(Here)) \in Nat
    BY <1>1, <1>7, FiniteNewlines DEF CountLine
  <2>. QED
    BY <1>2, <1>3, <2>3, <2>4 DEF Counted
<1>. QED
  BY <1>5, <1>6, <1>7

\* A token is complete: it carries the line of its last character.
LEMMA TokenCounts ==
    ASSUME TypeOK, Counted, NEW kind, NEW lexeme, NEW start \in Nat, NEW end \in Nat,
           end >= Here,
           m_Tokens' = Append(m_Tokens, [m_type |-> kind, m_lexeme |-> lexeme,
                                         m_CurrentLine |-> m_CurrentLine]),
           spans' = Append(spans, <<start, end>>),
           m_CurrentPosition' = end, UNCHANGED <<m_Source, m_CurrentLine>>,
           \/ kind \in SwallowsLines /\ start = Here
           \/ kind \notin SwallowsLines /\ NoNewline(Here, end)
    PROVE  Counted' /\ LineNumbers'
<1>. DEFINE token == [m_type |-> kind, m_lexeme |-> lexeme, m_CurrentLine |-> m_CurrentLine]
            last == Len(m_Tokens) + 1
            S == Tokens(Here) \cup {token}
            T == Spans(Here) \cup {<<start, end>>}
<1>1. /\ m_Tokens \in Seq(Tokens(Here)) /\ spans \in Seq(Spans(Here))
      /\ Len(spans) = Len(m_Tokens) /\ Len(m_Tokens) \in Nat /\ Here \in Nat
  BY TypeParts, Position
<1>2. /\ token.m_type = kind /\ token.m_CurrentLine = m_CurrentLine
      /\ m_Tokens' = Append(m_Tokens, token)
  OBVIOUS
<1>. HIDE DEF token
<1>3. m_Tokens \in Seq(S) /\ token \in S /\ spans \in Seq(T) /\ <<start, end>> \in T
  BY <1>1
<1>4. /\ DOMAIN m_Tokens' = 1..last /\ Len(m_Tokens') = last /\ last \in DOMAIN m_Tokens'
      /\ DOMAIN m_Tokens = 1..(last - 1) /\ last \in Nat /\ last > 0
      /\ m_Tokens'[last] = token
      /\ \A k \in 1..(last - 1) : m_Tokens'[k] = m_Tokens[k]
  <2>. HIDE DEF S
  <2>1. m_Tokens' \in Seq(S) /\ Len(m_Tokens') = last /\ m_Tokens'[last] = token
        /\ \A k \in 1..(last - 1) : m_Tokens'[k] = m_Tokens[k]
    BY <1>1, <1>2, <1>3, AppendProperties
  <2>. QED
    BY <1>1, <1>3, <2>1
<1>5. /\ Len(spans') = last /\ spans'[last] = <<start, end>>
      /\ \A k \in 1..(last - 1) : spans'[k] = spans[k]
  <2>. HIDE DEF T
  <2>. QED
    BY <1>1, <1>3, AppendProperties
<1>. HIDE DEF last
<1>6. m_Tokens' # <<>> /\ LastToken' = token /\ LastEnd' = end /\ Here' = end
  <2>1. m_Tokens' # <<>>
    BY <1>4
  <2>. QED
    BY <1>4, <1>5, <2>1 DEF LastToken, LastEnd, Here
<1>7. \A i : InCharacter(i)' <=>
                 InCharacter(i) \/ (kind \in SwallowsLines /\ i \in start..(end - 1))
  <2>. SUFFICES ASSUME NEW i
                PROVE  InCharacter(i)' <=>
                          InCharacter(i) \/ (kind \in SwallowsLines /\ i \in start..(end - 1))
    OBVIOUS
  <2>. DEFINE In(k) == m_Tokens[k].m_type \in SwallowsLines /\ i \in spans[k][1]..(spans[k][2] - 1)
  <2>0. InCharacter(i) <=> \E k \in 1..(last - 1) : In(k)
    BY <1>4 DEF InCharacter, SwallowsLines
  <2>1. InCharacter(i)' <=>
           \E k \in 1..last : /\ m_Tokens'[k].m_type \in SwallowsLines
                              /\ i \in spans'[k][1]..(spans'[k][2] - 1)
    BY <1>4 DEF InCharacter, SwallowsLines
  <2>2. \A k \in 1..last : k \in 1..(last - 1) \/ k = last
    BY <1>4
  <2>3. \A k \in 1..(last - 1) :
           In(k) <=> /\ m_Tokens'[k].m_type \in SwallowsLines
                     /\ i \in spans'[k][1]..(spans'[k][2] - 1)
    BY <1>4, <1>5
  <2>4. (/\ m_Tokens'[last].m_type \in SwallowsLines
         /\ i \in spans'[last][1]..(spans'[last][2] - 1))
           <=> (kind \in SwallowsLines /\ i \in start..(end - 1))
    BY <1>2, <1>4, <1>5
  <2>5. last \in 1..last /\ 1..(last - 1) \subseteq 1..last
    BY <1>4
  <2>. HIDE DEF In
  <2>. QED
    BY <2>0, <2>1, <2>2, <2>3, <2>4, <2>5
<1>8. Newlines(Here) = {i \in 0..(end - 1) : CharAt(i)' = "\n" /\ ~InCharacter(i)'}
  <2>1. \A i : CharAt(i)' = CharAt(i)
    BY DEF CharAt, EndAt
  <2>2. CASE kind \notin SwallowsLines /\ NoNewline(Here, end)
    BY <1>1, <1>7, <2>1, <2>2 DEF Newlines, NoNewline
  <2>3. CASE kind \in SwallowsLines /\ start = Here
    BY <1>1, <1>7, <2>1, <2>3 DEF Newlines
  <2>. QED
    BY <2>2, <2>3
<1>9. m_CurrentLine' = 1 + Cardinality({i \in 0..(end - 1) : CharAt(i)' = "\n" /\ ~InCharacter(i)'})
  BY <1>8 DEF Counted
<1>10. LineNumbers'
  BY <1>2, <1>6, <1>9 DEF LineNumbers
<1>11. Counted'
  BY <1>6, <1>9 DEF Counted, Newlines
<1>. QED
  BY <1>10, <1>11

\* The characters of symbols, words and numbers are not newlines.
LEMMA NewlineAlphabet ==
    /\ "\n" \notin Letters \cup Digits \cup {"_"}
    /\ "\n" \notin SymbolStarts
    /\ \A c \in SymbolStarts : "\n" \notin Second(c)
    /\ \A c, d : "\n" \notin Third(c, d)
<1>1. "\n" \notin Letters \cup Digits
  BY SourceAssumption DEF Blanks
<1>2. \A c : "\n" \in Second(c) => c = "\n"
  BY DEF Second
<1>3. "\n" \notin SymbolStarts
  BY DEF SymbolStarts
<1>. QED
  BY <1>1, <1>2, <1>3 DEF Third

LEMMA SkipCounts ==
    ASSUME TypeOK, Counted, LineNumbers,
           SkipBlank \/ BeginComment \/ LineComment \/ BlockComment
    PROVE  Counted' /\ LineNumbers'
<1>. USE Position
<1>1. CASE SkipBlank
  BY <1>1, ReadCounts DEF SkipBlank
<1>2. CASE BeginComment
  <2>1. Peek # "\n" /\ PeekNext # "\n"
    BY <1>2 DEF BeginComment, CommentAhead
  <2>2. NoNewline(Here, Here + 0) /\ NoNewline(Here, Here + 2)
    BY <2>1 DEF NoNewline, Peek, PeekNext
  <2>. QED
    BY <1>2, <2>2, ReadCounts DEF BeginComment
<1>3. CASE LineComment
  <2>1. NoNewline(Here, Here + 0) /\ (Peek # "\n" => NoNewline(Here, Here + 1))
    BY DEF NoNewline, Peek
  <2>. QED
    BY <1>3, <2>1, ReadCounts DEF LineComment
<1>4. CASE BlockComment
  <2>1. /\ NoNewline(Here, Here + 0)
        /\ Peek = "*" /\ PeekNext = "/" => NoNewline(Here, Here + 2)
    BY DEF NoNewline, Peek, PeekNext
  <2>. QED
    BY <1>4, <2>1, ReadCounts DEF BlockComment
<1>. QED
  BY <1>1, <1>2, <1>3, <1>4

\* A token is added in the way of AddToken.
LEMMA AddTokenCounts ==
    ASSUME TypeOK, Counted, NEW kind, NEW lexeme, NEW start \in Nat, NEW end \in Nat,
           end >= Here, AddToken(kind, lexeme, start, end),
           \/ kind \in SwallowsLines /\ start = Here
           \/ kind \notin SwallowsLines /\ NoNewline(Here, end)
    PROVE  Counted' /\ LineNumbers'
BY TokenCounts DEF AddToken

LEMMA SymbolCounts ==
    ASSUME TypeOK, Counted, ScanSymbol \/ ScanUnknown \/ ScanChar
    PROVE  Counted' /\ LineNumbers'
<1>. USE Position
<1>1. CASE ScanSymbol
  <2>. DEFINE end == IF PeekNext \notin Second(Peek) THEN Here + 1
                     ELSE IF CharAt(Here + 2) \notin Third(Peek, PeekNext) THEN Here + 2
                     ELSE Here + 3
  <2>1. Peek \in SymbolStarts /\ AddToken("Symbol", Text(Here, end), Here, end)
    BY <1>1 DEF ScanSymbol
  <2>2. /\ Peek # "\n" /\ (PeekNext \in Second(Peek) => PeekNext # "\n")
        /\ CharAt(Here + 2) \in Third(Peek, PeekNext) => CharAt(Here + 2) # "\n"
    BY <2>1, NewlineAlphabet
  <2>3. end \in Nat /\ end >= Here /\ NoNewline(Here, end)
    <3>1. CASE PeekNext \notin Second(Peek)
      BY <2>2, <3>1 DEF NoNewline, Peek
    <3>2. CASE /\ PeekNext \in Second(Peek)
               /\ CharAt(Here + 2) \notin Third(Peek, PeekNext)
      BY <2>2, <3>2 DEF NoNewline, Peek, PeekNext
    <3>3. CASE /\ PeekNext \in Second(Peek)
               /\ CharAt(Here + 2) \in Third(Peek, PeekNext)
      BY <2>2, <3>3 DEF NoNewline, Peek, PeekNext
    <3>. QED
      BY <3>1, <3>2, <3>3
  <2>. HIDE DEF end
  <2>. QED
    BY <2>1, <2>3, AddTokenCounts DEF SwallowsLines
<1>2. CASE ScanUnknown
  <2>1. AddToken("Unknown", Text(Here, Here + 1), Here, Here + 1)
    BY <1>2 DEF ScanUnknown
  <2>2. "Unknown" \in SwallowsLines /\ Here + 1 \in Nat /\ Here + 1 >= Here
    BY DEF SwallowsLines
  <2>. QED
    BY <2>1, <2>2, AddTokenCounts
<1>3. CASE ScanChar
  <2>. DEFINE isEscape == PeekNext = "\\" /\ ~EndAt(Here + 2)
              value == IF isEscape THEN Escaped(CharAt(Here + 2)) ELSE PeekNext
              close == IF EndAt(Here + 1) THEN Here + 1
                       ELSE IF isEscape THEN Here + 3 ELSE Here + 2
  <2>1. \/ AddToken("CharLiteral", <<value>>, Here, close + 1)
        \/ AddToken("Unknown", Text(Here, close), Here, close)
    BY <1>3 DEF ScanChar
  <2>2. close \in Nat /\ close >= Here
    OBVIOUS
  <2>3. "Unknown" \in SwallowsLines /\ "CharLiteral" \in SwallowsLines
    BY DEF SwallowsLines
  <2>. HIDE DEF value, close
  <2>. QED
    BY <2>1, <2>2, <2>3, AddTokenCounts
<1>. QED
  BY <1>1, <1>2, <1>3

LEMMA LoopCounts ==
    ASSUME TypeOK, Counted, LineNumbers,
           \/ BeginIdentifier \/ Identifier \/ EndIdentifier
           \/ BeginNumber \/ Number \/ EndNumber \/ Fraction \/ EndFraction
           \/ BeginString \/ StringCharacter \/ EndString
    PROVE  Counted' /\ LineNumbers'
<1>. USE Position
<1>1. /\ Peek # "\n" => NoNewline(Here, Here + 1)
      /\ NoNewline(Here, Here + 0) /\ NoNewline(Here, Here)
  BY DEF NoNewline, Peek
<1>2. ASSUME NEW chars, "\n" \notin chars, NEW mode,
             BeginToken(chars, mode) \/ More(mode, chars)
      PROVE  Counted' /\ LineNumbers'
  BY <1>1, <1>2, ReadCounts DEF BeginToken, More
<1>3. ASSUME NEW kind, kind \notin SwallowsLines, NEW lexeme,
             AddToken(kind, lexeme, m_Start, Here)
      PROVE  Counted' /\ LineNumbers'
  BY <1>1, <1>3, AddTokenCounts
<1>4. CASE BeginIdentifier \/ BeginNumber \/ Identifier \/ Number \/ Fraction
  BY <1>2, <1>4, NewlineAlphabet DEF BeginIdentifier, BeginNumber, Identifier, Number,
     Fraction
<1>5. CASE BeginString
  BY <1>2, <1>5 DEF BeginString, Quote
<1>6. CASE EndIdentifier \/ EndFraction
  BY <1>3, <1>6 DEF EndIdentifier, EndFraction, SwallowsLines
<1>7. CASE EndNumber
  <2>1. \/ Peek = "." /\ Read(1, "Fraction") /\ SameLine
        \/ AddToken("NumberLiteral", Text(m_Start, Here), m_Start, Here)
    BY <1>7 DEF EndNumber
  <2>. QED
    BY <1>1, <1>3, <2>1, ReadCounts DEF SwallowsLines
<1>8. CASE StringCharacter
  BY <1>8, ReadCounts DEF StringCharacter
<1>9. CASE EndString
  <2>1. \/ Read(0, "Skip") /\ SameLine
        \/ /\ Peek = Quote
           /\ AddToken("StringLiteral", Text(m_Start + 1, Here), m_Start, Here + 1)
    BY <1>9 DEF EndString
  <2>2. Peek = Quote => NoNewline(Here, Here + 1)
    BY <1>1 DEF Quote
  <2>. QED
    BY <1>1, <2>1, <2>2, ReadCounts, AddTokenCounts DEF SwallowsLines
<1>. QED
  BY <1>4, <1>5, <1>6, <1>7, <1>8, <1>9

LEMMA EndCounts ==
    ASSUME TypeOK, Counted, EndTokenize
    PROVE  Counted' /\ LineNumbers'
<1>1. NoNewline(Here, Here) /\ Here \in Nat
  BY Position DEF NoNewline
<1>. QED
  BY <1>1, TokenCounts DEF EndTokenize, SwallowsLines, Here

\* Whatever the texts and the alphabet: a token carries the line on which it
\* ends.  Newlines in comments and strings count, and the only ones that no line
\* counts are those within a character literal or what is left of one.
THEOREM LinesAreCounted == Spec => []LineNumbers
<1>. DEFINE IInv == TypeOK /\ Counted /\ LineNumbers
<1>1. Init => IInv
  <2>. SUFFICES ASSUME Init PROVE IInv
    OBVIOUS
  <2>1. /\ TypeOK /\ Here = 0 /\ m_CurrentLine = 1 /\ m_Tokens = <<>>
    BY InitStep DEF Init, Here
  <2>2. Newlines(Here) = {}
    BY <2>1 DEF Newlines
  <2>. QED
    BY <2>1, <2>2, FS_EmptySet DEF Counted, LineNumbers
<1>2. IInv /\ [Next]_vars => IInv'
  <2>. SUFFICES ASSUME TypeOK, Counted, LineNumbers, [Next]_vars
                PROVE  TypeOK' /\ Counted' /\ LineNumbers'
    OBVIOUS
  <2>1. TypeOK'
    BY NextStep
  <2>2. CASE UNCHANGED vars
    <3>1. /\ UNCHANGED <<m_Source, m_CurrentPosition, m_CurrentLine, m_Tokens, spans>>
          /\ Here' = Here
      BY <2>2 DEF vars, Here
    <3>. QED
      BY <2>1, <3>1 DEF Counted, Newlines, LineNumbers, LastToken, LastEnd, CharAt, EndAt,
         InCharacter
  <2>3. CASE Next
    BY <2>1, <2>3, SkipCounts, SymbolCounts, LoopCounts, EndCounts DEF Next
  <2>. QED
    BY <2>2, <2>3
<1>3. IInv => LineNumbers
  OBVIOUS
<1>. QED
  BY <1>1, <1>2, <1>3, PTL DEF Spec

(***************************************************************************)
(* Between tokens.  NoTokens is a recursive function; what follows says    *)
(* the same without recursion, as the least relation that allows for       *)
(* another blank, comment or open string in front.                         *)
(***************************************************************************)
Piece(i, j) ==
    /\ i < j
    /\ \/ j = i + 1 /\ CharAt(i) \in Blanks
       \/ IsLineComment(i, j)
       \/ IsBlockComment(i, j)
       \/ IsOpenString(i, j)
Pieces == {e \in Nat \X Nat : Piece(e[1], e[2])}

Closed(E, X) == \A a \in Nat, b \in X : <<a, b>> \in E => a \in X
Fills(E, from, to) == \A X \in SUBSET Nat : to \in X /\ Closed(E, X) => from \in X
Filled(from, to) == Fills(Pieces, from, to)

LEMMA PieceOrder == \A a, b : <<a, b>> \in Pieces <=> a \in Nat /\ b \in Nat /\ Piece(a, b)
BY DEF Pieces

LEMMA FilledBasics ==
    ASSUME NEW to \in Nat
    PROVE  /\ Filled(to, to)
           /\ \A from : Filled(from, to) => from \in 0..to
           /\ \A a, b : <<a, b>> \in Pieces /\ Filled(b, to) => Filled(a, to)
           /\ \A from : Filled(from, to) =>
                 from = to \/ \E j \in Nat : <<from, j>> \in Pieces /\ Filled(j, to)
<1>1. Filled(to, to)
  BY DEF Filled, Fills
<1>2. ASSUME NEW from, Filled(from, to) PROVE from \in 0..to
  <2>1. 0..to \in SUBSET Nat /\ to \in 0..to /\ Closed(Pieces, 0..to)
    BY PieceOrder DEF Closed, Piece
  <2>. QED
    BY <1>2, <2>1 DEF Filled, Fills
<1>3. ASSUME NEW a, NEW b, <<a, b>> \in Pieces, Filled(b, to) PROVE Filled(a, to)
  <2>1. a \in Nat
    BY <1>3, PieceOrder
  <2>. QED
    BY <1>3, <2>1 DEF Filled, Fills, Closed
<1>4. ASSUME NEW from, Filled(from, to)
      PROVE  from = to \/ \E j \in Nat : <<from, j>> \in Pieces /\ Filled(j, to)
  <2>. DEFINE X == {i \in Nat : i = to \/ \E j \in Nat : <<i, j>> \in Pieces /\ Filled(j, to)}
  <2>1. \A b \in X : Filled(b, to)
    BY <1>1, <1>3
  <2>2. Closed(Pieces, X)
    BY <2>1, PieceOrder DEF Closed
  <2>3. X \in SUBSET Nat /\ to \in X
    OBVIOUS
  <2>4. from \in X
    BY <1>4, <2>2, <2>3 DEF Filled, Fills
  <2>. QED
    BY <2>4
<1>. QED
  BY <1>1, <1>2, <1>3, <1>4

\* One more piece at the end.
LEMMA FilledMore ==
    ASSUME NEW from, NEW to \in Nat, NEW end \in Nat, Filled(from, to), Piece(to, end)
    PROVE  Filled(from, end)
<1>. SUFFICES ASSUME NEW X \in SUBSET Nat, end \in X, Closed(Pieces, X) PROVE from \in X
  BY DEF Filled, Fills
<1>1. to \in X
  BY PieceOrder DEF Closed
<1>. QED
  BY <1>1 DEF Filled, Fills

\* What is filled in this sense holds no token.
LEMMA FilledHasNoTokens ==
    ASSUME NEW from \in Nat, NEW to \in Nat, Filled(from, to)
    PROVE  NoTokens(from, to)
<1>. DEFINE Between(i, j) ==
                \/ j = i + 1 /\ CharAt(i) \in Blanks
                \/ IsLineComment(i, j)
                \/ IsBlockComment(i, j)
                \/ IsOpenString(i, j)
            Goes(f, i) == i = to \/ \E j \in (i + 1)..to : Between(i, j) /\ f[j]
            Def(f) == [i \in from..to |-> Goes(f, i)]
            rest == CHOOSE f : f = Def(f)
            least == [i \in from..to |-> Filled(i, to)]
<1>1. NoTokens(from, to) <=> rest[from]
  BY DEF NoTokens
<1>2. \A i, j \in Nat : <<i, j>> \in Pieces <=> j \in Nat /\ i < j /\ Between(i, j)
  BY PieceOrder DEF Piece
<1>3. from <= to
  BY FilledBasics
<1>. HIDE DEF Between
<1>4. \A i \in from..to : least[i] <=> Filled(i, to)
  OBVIOUS
<1>5. \A i \in from..to : Filled(i, to) <=> Goes(least, i)
  <2>. SUFFICES ASSUME NEW i \in from..to PROVE Filled(i, to) <=> Goes(least, i)
    OBVIOUS
  <2>. HIDE DEF least
  <2>1. i \in Nat /\ (i + 1)..to \subseteq from..to /\ (i + 1)..to \subseteq Nat
    OBVIOUS
  <2>2. Goes(least, i) <=> i = to \/ \E j \in (i + 1)..to : Between(i, j) /\ Filled(j, to)
    BY <1>4, <2>1
  <2>3. Filled(i, to) => i = to \/ \E j \in Nat : <<i, j>> \in Pieces /\ Filled(j, to)
    BY FilledBasics
  <2>4. ASSUME NEW j \in Nat, <<i, j>> \in Pieces, Filled(j, to)
        PROVE  j \in (i + 1)..to /\ Between(i, j)
    BY <1>2, <2>1, <2>4, FilledBasics
  <2>5. ASSUME NEW j \in (i + 1)..to, Between(i, j), Filled(j, to)
        PROVE  Filled(i, to)
    <3>1. <<i, j>> \in Pieces
      BY <1>2, <2>1, <2>5
    <3>. QED
      BY <2>5, <3>1, FilledBasics
  <2>6. Filled(to, to)
    BY FilledBasics
  <2>. QED
    BY <2>2, <2>3, <2>4, <2>5, <2>6
<1>6. least = Def(least)
  <2>1. \A i : Filled(i, to) \in BOOLEAN /\ Goes(least, i) \in BOOLEAN
    BY DEF Filled, Fills
  <2>. HIDE DEF Goes
  <2>2. \A i \in from..to : Filled(i, to) = Goes(least, i)
    BY <1>5, <2>1
  <2>. QED
    BY <2>2
<1>7. rest = Def(rest)
  BY <1>6
<1>. HIDE DEF rest
<1>8. \A i \in from..to : rest[i] <=> Goes(rest, i)
  <2>. HIDE DEF Goes
  <2>. QED
    BY <1>7
<1>. HIDE DEF Def
<1>. DEFINE X == {i \in 0..to : i < from \/ rest[i]}
<1>9. to \in X
  BY <1>3, <1>8
<1>10. Closed(Pieces, X)
  <2>. SUFFICES ASSUME NEW a \in Nat, NEW b \in X, <<a, b>> \in Pieces, ~(a < from)
                PROVE  a \in 0..to /\ rest[a]
    BY <1>2, PieceOrder DEF Closed, Piece
  <2>1. a < b /\ b \in 0..to /\ Between(a, b) /\ rest[b]
    BY <1>2
  <2>2. Goes(rest, a)
    BY <2>1
  <2>. QED
    BY <1>8, <2>1, <2>2
<1>11. from \in X
  <2>1. X \in SUBSET Nat
    OBVIOUS
  <2>. HIDE DEF X
  <2>. QED
    BY <1>9, <1>10, <2>1 DEF Filled, Fills
<1>. QED
  BY <1>1, <1>11

\* Where the last token ends, and where the one before it does.
Before == IF spans = <<>> THEN 0 ELSE spans[Len(spans)][2]
BeforeLast == IF Len(spans) = 1 THEN 0 ELSE spans[Len(spans) - 1][2]

\* What has been read since the last token, in each of the loops.
Unread ==
    /\ doing = "Skip" => Filled(Before, Here)
    /\ doing \in {"Identifier", "Number", "Fraction", "String"} => Filled(Before, m_Start)
    /\ doing = "LineComment" =>
          \E s \in 0..Here :
             /\ Filled(Before, s) /\ CharAt(s) = "/" /\ CharAt(s + 1) = "/"
             /\ \A i \in s..(Here - 1) : CharAt(i) # "\n"
    /\ doing = "BlockComment" =>
          \E s \in 0..(Here - 2) :
             /\ Filled(Before, s) /\ CharAt(s) = "/" /\ CharAt(s + 1) = "*"
             /\ \A i \in (s + 2)..(Here - 1) : ~(CharAt(i) = "*" /\ CharAt(i + 1) = "/")
    /\ doing = "String" =>
          /\ m_Start < Here
          /\ \A i \in m_Start..(Here - 1) : CharAt(i) = Quote <=> i = m_Start

Kept == Unread /\ (m_Tokens # <<>> => Filled(BeforeLast, LastStart))

LEMMA PiecesStay ==
    ASSUME UNCHANGED m_Source
    PROVE  Pieces' = Pieces /\ \A i : CharAt(i)' = CharAt(i) /\ (EndAt(i)' <=> EndAt(i))
<1>1. \A i : CharAt(i)' = CharAt(i) /\ (EndAt(i)' <=> EndAt(i))
  BY DEF CharAt, EndAt
<1>2. \A i, j : Piece(i, j)' <=> Piece(i, j)
  <2>. SUFFICES ASSUME NEW i, NEW j PROVE Piece(i, j)' <=> Piece(i, j)
    OBVIOUS
  <2>1. IsLineComment(i, j)' <=> IsLineComment(i, j)
    BY <1>1 DEF IsLineComment
  <2>2. Closings(i, j)' = Closings(i, j)
    BY <1>1 DEF Closings
  <2>3. IsBlockComment(i, j)' <=> IsBlockComment(i, j)
    BY <1>1, <2>2 DEF IsBlockComment
  <2>4. IsOpenString(i, j)' <=> IsOpenString(i, j)
    BY <1>1 DEF IsOpenString
  <2>. QED
    BY <1>1, <2>1, <2>3, <2>4 DEF Piece
<1>. QED
  BY <1>1, <1>2 DEF Pieces

LEMMA ReadFills ==
    ASSUME TypeOK, Kept, NEW n \in Nat, NEW mode, Read(n, mode)
    PROVE  /\ doing' = mode /\ Here' = Here + n /\ Before' = Before
           /\ \A i : CharAt(i)' = CharAt(i) /\ (EndAt(i)' <=> EndAt(i))
           /\ \A s : Filled(Before, s)' <=> Filled(Before, s)
           /\ Unread' => Kept'
<1>1. /\ UNCHANGED <<m_Source, m_Tokens, spans>> /\ doing' = mode /\ Here' = Here + n
      /\ Before' = Before /\ BeforeLast' = BeforeLast /\ LastStart' = LastStart
  BY DEF Read, Here, Before, BeforeLast, LastStart
<1>2. Pieces' = Pieces /\ \A i : CharAt(i)' = CharAt(i) /\ (EndAt(i)' <=> EndAt(i))
  BY <1>1, PiecesStay
<1>. QED
  BY <1>1, <1>2 DEF Kept, Filled

\* A token is complete.
LEMMA TokenFills ==
    ASSUME TypeOK, NEW token, NEW start \in Nat, NEW end \in Nat,
           Filled(Before, start), UNCHANGED m_Source,
           m_Tokens' = Append(m_Tokens, token), spans' = Append(spans, <<start, end>>),
           m_CurrentPosition' = end, doing' = "Skip"
    PROVE  Kept'
<1>. DEFINE T == Spans(Here) \cup {<<start, end>>}
            last == Len(spans) + 1
<1>1. spans \in Seq(T) /\ <<start, end>> \in T /\ Len(spans) \in Nat
  BY TypeParts
<1>2. /\ Len(spans') = last /\ spans'[last] = <<start, end>> /\ spans' # <<>>
      /\ \A k \in 1..Len(spans) : spans'[k] = spans[k]
  <2>. HIDE DEF T
  <2>. QED
    BY <1>1, AppendProperties
<1>3. Before' = end /\ LastStart' = start /\ Here' = end
  BY <1>2 DEF Before, LastStart, Here
<1>4. BeforeLast' = Before
  <2>1. spans = <<>> <=> Len(spans) = 0
    BY <1>1, EmptySeq
  <2>. QED
    BY <1>1, <1>2, <2>1 DEF Before, BeforeLast
<1>5. Pieces' = Pieces
  BY PiecesStay
<1>6. Filled(end, end)
  BY FilledBasics
<1>. QED
  BY <1>3, <1>4, <1>5, <1>6 DEF Kept, Unread, Filled


LEMMA OpenString ==
    ASSUME NEW from, NEW to
    PROVE  IsOpenString(from, to) <=>
              /\ EndAt(to)
              /\ \A i \in from..(to - 1) : CharAt(i) = Quote <=> i = from
BY Zenon DEF IsOpenString, Quote

LEMMA SkipFills ==
    ASSUME TypeOK, Kept, SkipBlank \/ BeginComment \/ LineComment \/ BlockComment
    PROVE  Kept'
<1>. USE Position
<1>1. CASE SkipBlank
  <2>1. Read(1, "Skip") /\ Filled(Before, Here)
    BY <1>1 DEF SkipBlank, Doing, Kept, Unread
  <2>2. Piece(Here, Here + 1)
    BY <1>1 DEF SkipBlank, Piece, Peek
  <2>3. Filled(Before, Here + 1)
    BY <2>1, <2>2, FilledMore
  <2>. QED
    BY <2>1, <2>3, ReadFills DEF Unread
<1>2. CASE BeginComment
  <2>1. Filled(Before, Here) /\ Peek = "/" /\ PeekNext \in {"/", "*"}
    BY <1>2 DEF BeginComment, CommentAhead, Doing, Kept, Unread
  <2>2. CASE PeekNext = "/"
    <3>1. Read(0, "LineComment")
      BY <1>2, <2>2 DEF BeginComment
    <3>. QED
      BY <2>1, <2>2, <3>1, ReadFills DEF Unread, Peek, PeekNext
  <2>3. CASE PeekNext # "/"
    <3>1. Read(2, "BlockComment") /\ PeekNext = "*"
      BY <1>2, <2>1, <2>3 DEF BeginComment
    <3>. QED
      BY <2>1, <3>1, ReadFills DEF Unread, Peek, PeekNext
  <2>. QED
    BY <2>2, <2>3
<1>3. CASE LineComment
  <2>1. PICK s \in 0..Here :
             /\ Filled(Before, s) /\ CharAt(s) = "/" /\ CharAt(s + 1) = "/"
             /\ \A i \in s..(Here - 1) : CharAt(i) # "\n"
    BY <1>3 DEF LineComment, Doing, Kept, Unread
  <2>2. CASE Peek # "\n" /\ ~EndAt(Here)
    <3>1. Read(1, "LineComment")
      BY <1>3, <2>2 DEF LineComment
    <3>2. \A i \in s..Here : CharAt(i) # "\n"
      BY <2>1, <2>2 DEF Peek
    <3>. QED
      BY <2>1, <3>1, <3>2, ReadFills DEF Unread
  <2>3. CASE Peek = "\n" \/ EndAt(Here)
    <3>1. Read(0, "Skip")
      BY <1>3, <2>3 DEF LineComment
    <3>2. s < Here
      BY <2>1, <2>3, CharacterRead DEF Peek, NUL
    <3>3. Piece(s, Here)
      BY <2>1, <2>3, <3>2 DEF Piece, IsLineComment, Peek
    <3>4. Filled(Before, Here)
      BY <2>1, <3>3, FilledMore
    <3>. QED
      BY <3>1, <3>4, ReadFills DEF Unread
  <2>. QED
    BY <2>2, <2>3
<1>4. CASE BlockComment
  <2>1. PICK s \in 0..(Here - 2) :
             /\ Filled(Before, s) /\ CharAt(s) = "/" /\ CharAt(s + 1) = "*"
             /\ \A i \in (s + 2)..(Here - 1) : ~(CharAt(i) = "*" /\ CharAt(i + 1) = "/")
    BY <1>4 DEF BlockComment, Doing, Kept, Unread
  <2>2. CASE EndAt(Here)
    <3>1. Read(0, "Skip")
      BY <1>4, <2>2 DEF BlockComment
    <3>2. Closings(s, Here) = {}
      BY <2>1 DEF Closings
    <3>3. Piece(s, Here)
      BY <2>1, <2>2, <3>2 DEF Piece, IsBlockComment
    <3>4. Filled(Before, Here)
      BY <2>1, <3>3, FilledMore
    <3>. QED
      BY <3>1, <3>4, ReadFills DEF Unread
  <2>3. CASE ~EndAt(Here) /\ Peek = "*" /\ PeekNext = "/"
    <3>1. Read(2, "Skip")
      BY <1>4, <2>3 DEF BlockComment
    <3>2. Closings(s, Here + 2) = {Here + 2 - 2}
      BY <2>1, <2>3 DEF Closings, Peek, PeekNext
    <3>3. Piece(s, Here + 2)
      BY <2>1, <3>2 DEF Piece, IsBlockComment
    <3>4. Filled(Before, Here + 2)
      BY <2>1, <3>3, FilledMore
    <3>. QED
      BY <3>1, <3>4, ReadFills DEF Unread
  <2>4. CASE ~EndAt(Here) /\ ~(Peek = "*" /\ PeekNext = "/")
    <3>1. Read(1, "BlockComment")
      BY <1>4, <2>4 DEF BlockComment
    <3>2. \A i \in (s + 2)..Here : ~(CharAt(i) = "*" /\ CharAt(i + 1) = "/")
      BY <2>1, <2>4 DEF Peek, PeekNext
    <3>. QED
      BY <2>1, <3>1, <3>2, ReadFills DEF Unread
  <2>. QED
    BY <2>2, <2>3, <2>4
<1>. QED
  BY <1>1, <1>2, <1>3, <1>4

LEMMA AddTokenFills ==
    ASSUME TypeOK, NEW kind, NEW lexeme, NEW start \in Nat, NEW end \in Nat,
           Filled(Before, start), AddToken(kind, lexeme, start, end)
    PROVE  Kept'
BY TokenFills DEF AddToken

LEMMA SymbolFills ==
    ASSUME TypeOK, Kept, ScanSymbol \/ ScanUnknown \/ ScanChar
    PROVE  Kept'
<1>. USE Position
<1>1. Filled(Before, Here)
  BY DEF ScanSymbol, ScanUnknown, ScanChar, TokenAhead, Doing, Kept, Unread
<1>2. \E kind, lexeme : \E end \in Nat : AddToken(kind, lexeme, Here, end)
  <2>0. Here + 1 \in Nat /\ Here + 2 \in Nat /\ Here + 3 \in Nat
    OBVIOUS
  <2>1. CASE ScanSymbol
    <3>. DEFINE end == IF PeekNext \notin Second(Peek) THEN Here + 1
                       ELSE IF CharAt(Here + 2) \notin Third(Peek, PeekNext) THEN Here + 2
                       ELSE Here + 3
    <3>1. end \in Nat
      BY <2>0
    <3>2. AddToken("Symbol", Text(Here, end), Here, end)
      BY <2>1 DEF ScanSymbol
    <3>. HIDE DEF end
    <3>. QED
      BY <3>1, <3>2
  <2>2. CASE ScanUnknown
    <3>1. AddToken("Unknown", Text(Here, Here + 1), Here, Here + 1)
      BY <2>2 DEF ScanUnknown
    <3>. QED
      BY <2>0, <3>1
  <2>3. CASE ScanChar
    BY <2>3 DEF ScanChar
  <2>. QED
    BY <2>1, <2>2, <2>3
<1>. QED
  BY <1>1, <1>2, AddTokenFills

LEMMA LoopFills ==
    ASSUME TypeOK, Kept,
           \/ BeginIdentifier \/ Identifier \/ EndIdentifier
           \/ BeginNumber \/ Number \/ EndNumber \/ Fraction \/ EndFraction
           \/ BeginString \/ StringCharacter \/ EndString
    PROVE  Kept'
<1>. USE Position
<1>. DEFINE Loops == {"Identifier", "Number", "Fraction", "String"}
<1>1. ASSUME NEW chars, NEW mode \in Loops \ {"String"}, BeginToken(chars, mode)
      PROVE  Kept'
  BY <1>1, ReadFills DEF BeginToken, TokenAhead, Doing, Kept, Unread
<1>2. ASSUME NEW n \in Nat, NEW mode \in Loops \ {"String"}, doing \in Loops, Read(n, mode),
             UNCHANGED m_Start
      PROVE  Kept'
  BY <1>2, ReadFills DEF Kept, Unread
<1>3. ASSUME doing \in Loops, NEW kind, NEW lexeme, NEW end \in Nat,
             AddToken(kind, lexeme, m_Start, end)
      PROVE  Kept'
  BY <1>3, AddTokenFills DEF Kept, Unread
<1>4. CASE BeginIdentifier \/ BeginNumber
  BY <1>1, <1>4 DEF BeginIdentifier, BeginNumber
<1>5. CASE Identifier \/ Number \/ Fraction
  BY <1>2, <1>5 DEF Identifier, Number, Fraction, More, Doing
<1>6. CASE EndIdentifier \/ EndFraction
  BY <1>3, <1>6 DEF EndIdentifier, EndFraction, Doing
<1>7. CASE EndNumber
  <2>1. \/ Read(1, "Fraction") /\ UNCHANGED m_Start
        \/ AddToken("NumberLiteral", Text(m_Start, Here), m_Start, Here)
    BY <1>7 DEF EndNumber
  <2>2. doing = "Number"
    BY <1>7 DEF EndNumber, Doing
  <2>. QED
    BY <1>2, <1>3, <2>1, <2>2
<1>8. CASE BeginString
  <2>1. /\ Read(1, "String") /\ m_Start' = Here /\ Filled(Before, Here) /\ Peek = Quote
    BY <1>8 DEF BeginString, BeginToken, TokenAhead, Doing, Kept, Unread
  <2>. QED
    BY <2>1, ReadFills DEF Unread, Peek
<1>9. CASE StringCharacter
  <2>1. /\ Read(1, "String") /\ UNCHANGED m_Start /\ CharAt(Here) # Quote
        /\ Filled(Before, m_Start) /\ m_Start < Here
        /\ \A i \in m_Start..(Here - 1) : CharAt(i) = Quote <=> i = m_Start
    BY <1>9 DEF StringCharacter, Doing, Kept, Unread, Peek
  <2>2. \A i \in m_Start..Here : CharAt(i) = Quote <=> i = m_Start
    BY <2>1
  <2>. QED
    BY <2>1, <2>2, ReadFills DEF Unread
<1>10. CASE EndString
  <2>1. /\ Filled(Before, m_Start) /\ m_Start < Here /\ doing = "String"
        /\ \A i \in m_Start..(Here - 1) : CharAt(i) = Quote <=> i = m_Start
    BY <1>10 DEF EndString, Doing, Kept, Unread
  <2>2. CASE EndAt(Here)
    <3>1. Read(0, "Skip")
      BY <1>10, <2>2 DEF EndString
    <3>2. Piece(m_Start, Here)
      BY <2>1, <2>2, OpenString DEF Piece
    <3>3. Filled(Before, Here)
      BY <2>1, <3>2, FilledMore
    <3>. QED
      BY <3>1, <3>3, ReadFills DEF Unread
  <2>3. CASE ~EndAt(Here)
    <3>1. AddToken("StringLiteral", Text(m_Start + 1, Here), m_Start, Here + 1)
      BY <1>10, <2>3 DEF EndString
    <3>. QED
      BY <1>3, <2>1, <3>1
  <2>. QED
    BY <2>2, <2>3
<1>. QED
  BY <1>4, <1>5, <1>6, <1>7, <1>8, <1>9, <1>10

LEMMA EndFills ==
    ASSUME TypeOK, Kept, EndTokenize
    PROVE  Kept'
<1>1. Filled(Before, Here) /\ doing = "Skip"
  BY DEF EndTokenize, Doing, Kept, Unread
<1>. QED
  BY <1>1, Position, TokenFills DEF EndTokenize, Here

\* Whatever the texts and the alphabet: no character is lost.  What lies between
\* two tokens, or before the first, is blank or comment, or the open string at
\* the end of the text.
THEOREM NothingIsDropped == Spec => []NothingDropped
<1>. DEFINE IInv == TypeOK /\ Kept
<1>1. Init => IInv
  <2>. SUFFICES ASSUME Init PROVE IInv
    OBVIOUS
  <2>1. TypeOK /\ Here = 0 /\ m_Tokens = <<>> /\ Before = 0 /\ doing = "Skip"
    BY InitStep DEF Init, Here, Before
  <2>2. Filled(Before, Here)
    BY <2>1, FilledBasics
  <2>. QED
    BY <2>1, <2>2 DEF Kept, Unread
<1>2. IInv /\ [Next]_vars => IInv'
  <2>. SUFFICES ASSUME TypeOK, Kept, [Next]_vars
                PROVE  TypeOK' /\ Kept'
    OBVIOUS
  <2>1. TypeOK'
    BY NextStep
  <2>2. CASE UNCHANGED vars
    <3>1. /\ UNCHANGED <<m_Source, m_Tokens, spans, doing, m_Start>> /\ Here' = Here
      BY <2>2 DEF vars, Here
    <3>2. /\ Before' = Before /\ BeforeLast' = BeforeLast /\ LastStart' = LastStart
      BY <3>1 DEF Before, BeforeLast, LastStart
    <3>3. Pieces' = Pieces /\ \A i : CharAt(i)' = CharAt(i)
      BY <3>1, PiecesStay
    <3>. QED
      BY <2>1, <3>1, <3>2, <3>3 DEF Kept, Unread, Filled
  <2>3. CASE Next
    BY <2>1, <2>3, SkipFills, SymbolFills, LoopFills, EndFills DEF Next
  <2>. QED
    BY <2>2, <2>3
<1>3. IInv => NothingDropped
  <2>. SUFFICES ASSUME TypeOK, m_Tokens # <<>>, Filled(BeforeLast, LastStart)
                PROVE  NoTokens(BeforeLast, LastStart)
    BY DEF Kept, NothingDropped, BeforeLast
  <2>1. /\ m_Tokens \in Seq(Tokens(Here)) /\ spans \in Seq(Spans(Here))
        /\ Len(spans) = Len(m_Tokens)
    BY TypeParts
  <2>2. Len(spans) \in Nat \ {0}
    BY <2>1, EmptySeq
  <2>3. spans[Len(spans)] \in Spans(Here)
        /\ (Len(spans) # 1 => spans[Len(spans) - 1] \in Spans(Here))
    BY <2>1, <2>2, ElementOfSeq
  <2>4. LastStart \in Nat /\ BeforeLast \in Nat
    BY <2>3, Position DEF LastStart, BeforeLast, Spans
  <2>. QED
    BY <2>4, FilledHasNoTokens
<1>. QED
  BY <1>1, <1>2, <1>3, PTL DEF Spec

(***************************************************************************)
(* The longest token.  The reference says which texts are tokens; here it  *)
(* is put in terms of the characters of m_Source from s up to e.           *)
(***************************************************************************)
WordAt(s, e) ==
    s < e /\ CharAt(s) \notin Digits /\ \A i \in s..(e - 1) : CharAt(i) \in WordCharacters
IntegerAt(s, e) == s < e /\ \A i \in s..(e - 1) : CharAt(i) \in Digits
FloatAt(s, e) ==
    \E p \in s..(e - 1) : CharAt(p) = "." /\ IntegerAt(s, p) /\ IntegerAt(p + 1, e)
StringAt(s, e) ==
    e - s > 1 /\ \A i \in s..(e - 1) : CharAt(i) = Quote <=> i \in {s, e - 1}
CharacterAt(s, e) ==
    /\ CharAt(s) = "'"
    /\ \/ e = s + 3 /\ CharAt(s + 1) # "\\" /\ CharAt(s + 2) = "'"
       \/ e = s + 4 /\ CharAt(s + 1) = "\\" /\ CharAt(s + 3) = "'"
SymbolAt(s, e) ==
    /\ CharAt(s) \in SymbolStarts
    /\ \/ e = s + 1
       \/ e = s + 2 /\ CharAt(s + 1) \in Second(CharAt(s))
       \/ /\ e = s + 3 /\ CharAt(s + 1) \in Second(CharAt(s))
          /\ CharAt(s + 2) \in Third(CharAt(s), CharAt(s + 1))

LEMMA TextCharacters ==
    ASSUME TypeOK, NEW s \in Nat, NEW e \in s..Len(m_Source)
    PROVE  /\ Text(s, e) \in Seq(Characters)
           /\ Len(Text(s, e)) = e - s /\ DOMAIN Text(s, e) = 1..(e - s)
           /\ \A k \in 1..(e - s) : Text(s, e)[k] = CharAt(s + k - 1)
           /\ e \in Nat /\ e - s \in Nat
<1>1. /\ m_Source \in Seq(Characters) /\ Len(m_Source) \in Nat
      /\ e \in Nat /\ e <= Len(m_Source) /\ s <= e
  <2>1. m_Source \in Seq(Characters)
    BY SourceAssumption DEF TypeOK
  <2>2. Len(m_Source) \in Nat
    BY Position
  <2>. QED
    BY <2>1, <2>2
<1>2. \A i \in (s + 1)..e : m_Source[i] \in Characters
  BY <1>1, ElementOfSeq
<1>3. /\ Text(s, e) \in Seq(Characters)
      /\ Len(Text(s, e)) = e - s
      /\ \A k \in 1..(e - s) : Text(s, e)[k] = m_Source[s + k]
  <2>1. s + 1 \in Int /\ e \in Int
    BY <1>1
  <2>2. /\ SubSeq(m_Source, s + 1, e) \in Seq(Characters)
        /\ Len(SubSeq(m_Source, s + 1, e)) = IF s + 1 <= e THEN e - (s + 1) + 1 ELSE 0
        /\ \A k \in 1..(e - (s + 1) + 1) :
              SubSeq(m_Source, s + 1, e)[k] = m_Source[s + 1 + k - 1]
    BY <1>2, <2>1, SubSeqProperties
  <2>3. s + 1 <= e \/ e = s
    BY <1>1
  <2>. QED
    BY <1>1, <2>2, <2>3 DEF Text
<1>4. \A k \in 1..(e - s) : CharAt(s + k - 1) = m_Source[s + k]
  BY <1>1 DEF CharAt, EndAt
<1>. QED
  BY <1>1, <1>3, <1>4, LenProperties

\* Part of a text.
LEMMA IntegerPart ==
    ASSUME NEW text \in Seq(Characters), NEW a \in Nat \ {0}, NEW b \in 0..Len(text)
    PROVE  IsInteger(SubSeq(text, a, b)) <=> a <= b /\ \A k \in a..b : text[k] \in Digits
<1>. DEFINE part == SubSeq(text, a, b)
<1>1. \A k \in a..b : text[k] \in Characters
  BY ElementOfSeq
<1>2. /\ part \in Seq(Characters)
      /\ Len(part) = IF a <= b THEN b - a + 1 ELSE 0
      /\ \A k \in 1..(b - a + 1) : part[k] = text[a + k - 1]
  BY <1>1, SubSeqProperties
<1>. HIDE DEF part
<1>3. part # <<>> <=> a <= b
  BY <1>2, EmptySeq
<1>4. ASSUME a <= b
      PROVE  (\A k \in DOMAIN part : part[k] \in Digits) <=> \A k \in a..b : text[k] \in Digits
  <2>1. DOMAIN part = 1..(b - a + 1)
    BY <1>2, <1>4
  <2>2. \A k \in a..b : k - a + 1 \in 1..(b - a + 1) /\ part[k - a + 1] = text[k]
    <3>1. \A k \in a..b : k - a + 1 \in 1..(b - a + 1) /\ a + (k - a + 1) - 1 = k
      BY <1>4
    <3>. QED
      BY <1>2, <3>1
  <2>3. \A k \in 1..(b - a + 1) : a + k - 1 \in a..b
    BY <1>4
  <2>. QED
    BY <1>2, <2>1, <2>2, <2>3
<1>. QED
  BY <1>3, <1>4 DEF IsInteger, part

LEMMA WordsAt ==
    ASSUME TypeOK, NEW s \in Nat, NEW e \in s..Len(m_Source)
    PROVE  /\ IsWord(Text(s, e)) <=> WordAt(s, e)
           /\ IsInteger(Text(s, e)) <=> IntegerAt(s, e)
<1>. DEFINE text == Text(s, e)
<1>1. /\ text \in Seq(Characters) /\ Len(text) = e - s /\ DOMAIN text = 1..(e - s)
      /\ \A k \in 1..(e - s) : text[k] = CharAt(s + k - 1)
      /\ e \in Nat /\ e - s \in Nat
  BY TextCharacters
<1>. HIDE DEF text
<1>2. text # <<>> <=> s < e
  BY <1>1, EmptySeq
<1>3. \A i \in s..(e - 1) : i - s + 1 \in 1..(e - s) /\ text[i - s + 1] = CharAt(i)
  <2>1. \A i \in s..(e - 1) : i - s + 1 \in 1..(e - s) /\ s + (i - s + 1) - 1 = i
    BY <1>1
  <2>. QED
    BY <1>1, <2>1
<1>4. \A k \in 1..(e - s) : s + k - 1 \in s..(e - 1) /\ text[k] = CharAt(s + k - 1)
  BY <1>1
<1>5. s < e => text[1] = CharAt(s)
  BY <1>1
<1>6. \A C : (\A k \in DOMAIN text : text[k] \in C) <=> \A i \in s..(e - 1) : CharAt(i) \in C
  BY <1>1, <1>3, <1>4
<1>. QED
  BY <1>2, <1>5, <1>6 DEF IsWord, WordAt, IsInteger, IntegerAt, text

LEMMA FloatsAt ==
    ASSUME TypeOK, NEW s \in Nat, NEW e \in s..Len(m_Source)
    PROVE  IsFloat(Text(s, e)) <=> FloatAt(s, e)
<1>. DEFINE text == Text(s, e)
<1>1. /\ text \in Seq(Characters) /\ Len(text) = e - s /\ DOMAIN text = 1..(e - s)
      /\ \A k \in 1..(e - s) : text[k] = CharAt(s + k - 1)
      /\ e \in Nat /\ e - s \in Nat
  BY TextCharacters
<1>. HIDE DEF text
<1>2. \A i \in s..(e - 1) : i - s + 1 \in 1..(e - s) /\ text[i - s + 1] = CharAt(i)
  <2>1. \A i \in s..(e - 1) : i - s + 1 \in 1..(e - s) /\ s + (i - s + 1) - 1 = i
    BY <1>1
  <2>. QED
    BY <1>1, <2>1
<1>3. ASSUME NEW p \in 1..(e - s)
      PROVE  /\ s + p - 1 \in s..(e - 1) /\ CharAt(s + p - 1) = text[p]
             /\ IsInteger(SubSeq(text, 1, p - 1)) <=> IntegerAt(s, s + p - 1)
             /\ IsInteger(SubSeq(text, p + 1, Len(text))) <=> IntegerAt(s + p, e)
  <2>1. /\ IsInteger(SubSeq(text, 1, p - 1))
             <=> 1 <= p - 1 /\ \A k \in 1..(p - 1) : text[k] \in Digits
        /\ IsInteger(SubSeq(text, p + 1, Len(text)))
             <=> p + 1 <= e - s /\ \A k \in (p + 1)..(e - s) : text[k] \in Digits
    <3>1. /\ 1 \in Nat \ {0} /\ p - 1 \in 0..Len(text)
          /\ p + 1 \in Nat \ {0} /\ Len(text) \in 0..Len(text)
      BY <1>1
    <3>2. IsInteger(SubSeq(text, 1, p - 1))
            <=> 1 <= p - 1 /\ \A k \in 1..(p - 1) : text[k] \in Digits
      BY <1>1, <3>1, IntegerPart
    <3>3. IsInteger(SubSeq(text, p + 1, Len(text)))
            <=> p + 1 <= Len(text) /\ \A k \in (p + 1)..Len(text) : text[k] \in Digits
      BY <1>1, <3>1, IntegerPart
    <3>. QED
      BY <1>1, <3>2, <3>3
  <2>2. \A a \in 1..(e - s + 1), b \in 0..(e - s) :
           (\A k \in a..b : text[k] \in Digits)
              <=> \A i \in (s + a - 1)..(s + b - 1) : CharAt(i) \in Digits
    <3>. SUFFICES ASSUME NEW a \in 1..(e - s + 1), NEW b \in 0..(e - s)
                  PROVE  (\A k \in a..b : text[k] \in Digits)
                            <=> \A i \in (s + a - 1)..(s + b - 1) : CharAt(i) \in Digits
      OBVIOUS
    <3>1. \A k \in a..b : /\ s + k - 1 \in (s + a - 1)..(s + b - 1)
                          /\ text[k] = CharAt(s + k - 1)
      BY <1>1
    <3>2. \A i \in (s + a - 1)..(s + b - 1) : /\ i - s + 1 \in a..b
                                              /\ text[i - s + 1] = CharAt(i)
      BY <1>1, <1>2
    <3>. QED
      BY <3>1, <3>2
  <2>3. (\A k \in 1..(p - 1) : text[k] \in Digits)
           <=> \A i \in s..(s + p - 1 - 1) : CharAt(i) \in Digits
    <3>1. 1 \in 1..(e - s + 1) /\ p - 1 \in 0..(e - s) /\ s + 1 - 1 = s
          /\ s + (p - 1) - 1 = s + p - 1 - 1
      BY <1>1
    <3>. QED
      BY <2>2, <3>1
  <2>4. (\A k \in (p + 1)..(e - s) : text[k] \in Digits)
           <=> \A i \in (s + p)..(e - 1) : CharAt(i) \in Digits
    <3>1. p + 1 \in 1..(e - s + 1) /\ e - s \in 0..(e - s) /\ s + (p + 1) - 1 = s + p
          /\ s + (e - s) - 1 = e - 1
      BY <1>1
    <3>. QED
      BY <2>2, <3>1
  <2>5. (1 <= p - 1 <=> s < s + p - 1) /\ (p + 1 <= e - s <=> s + p < e)
    BY <1>1
  <2>6. s + p - 1 \in s..(e - 1) /\ CharAt(s + p - 1) = text[p]
    BY <1>1
  <2>7. IsInteger(SubSeq(text, 1, p - 1)) <=> IntegerAt(s, s + p - 1)
    BY <2>1, <2>3, <2>5 DEF IntegerAt
  <2>8. IsInteger(SubSeq(text, p + 1, Len(text))) <=> IntegerAt(s + p, e)
    BY <2>1, <2>4, <2>5 DEF IntegerAt
  <2>. QED
    BY <2>6, <2>7, <2>8
<1>4. IsFloat(text) => FloatAt(s, e)
  <2>. SUFFICES ASSUME NEW p \in 1..(e - s), text[p] = ".",
                       IsInteger(SubSeq(text, 1, p - 1)),
                       IsInteger(SubSeq(text, p + 1, Len(text)))
                PROVE  FloatAt(s, e)
    BY <1>1 DEF IsFloat
  <2>1. /\ s + p - 1 \in s..(e - 1) /\ CharAt(s + p - 1) = "."
        /\ IntegerAt(s, s + p - 1) /\ IntegerAt(s + p, e)
    BY <1>3
  <2>2. s + p - 1 + 1 = s + p
    OBVIOUS
  <2>. QED
    BY <2>1, <2>2 DEF FloatAt
<1>5. FloatAt(s, e) => IsFloat(text)
  <2>. SUFFICES ASSUME NEW q \in s..(e - 1), CharAt(q) = ".",
                       IntegerAt(s, q), IntegerAt(q + 1, e)
                PROVE  IsFloat(text)
    BY DEF FloatAt
  <2>. DEFINE p == q - s + 1
  <2>1. p \in 1..(e - s) /\ s + p - 1 = q /\ s + p = q + 1
    BY <1>1
  <2>. HIDE DEF p
  <2>2. /\ text[p] = "." /\ IsInteger(SubSeq(text, 1, p - 1))
        /\ IsInteger(SubSeq(text, p + 1, Len(text)))
    BY <1>3, <2>1
  <2>. QED
    BY <1>1, <2>1, <2>2 DEF IsFloat
<1>. QED
  BY <1>4, <1>5 DEF text

LEMMA StringsAt ==
    ASSUME TypeOK, NEW s \in Nat, NEW e \in s..Len(m_Source)
    PROVE  IsString(Text(s, e)) <=> StringAt(s, e)
<1>. DEFINE text == Text(s, e)
<1>1. /\ text \in Seq(Characters) /\ Len(text) = e - s /\ DOMAIN text = 1..(e - s)
      /\ \A k \in 1..(e - s) : text[k] = CharAt(s + k - 1)
      /\ e \in Nat /\ e - s \in Nat
  BY TextCharacters
<1>. HIDE DEF text
<1>2. IsString(text)
        <=> Len(text) > 1 /\ \A k \in DOMAIN text : text[k] = Quote <=> k \in {1, Len(text)}
  BY Zenon DEF IsString, Quote
<1>3. (\A k \in 1..(e - s) : text[k] = Quote <=> k \in {1, e - s})
         <=> \A i \in s..(e - 1) : CharAt(i) = Quote <=> i \in {s, e - 1}
  <2>1. ASSUME \A k \in 1..(e - s) : text[k] = Quote <=> k \in {1, e - s},
               NEW i \in s..(e - 1)
        PROVE  CharAt(i) = Quote <=> i \in {s, e - 1}
    <3>1. /\ i - s + 1 \in 1..(e - s) /\ text[i - s + 1] = CharAt(i)
          /\ i \in {s, e - 1} <=> i - s + 1 \in {1, e - s}
      <4>1. /\ i - s + 1 \in 1..(e - s) /\ s + (i - s + 1) - 1 = i
            /\ i \in {s, e - 1} <=> i - s + 1 \in {1, e - s}
        BY <1>1
      <4>. QED
        BY <1>1, <4>1
    <3>2. text[i - s + 1] = Quote <=> i - s + 1 \in {1, e - s}
      BY <2>1, <3>1
    <3>. QED
      BY <3>1, <3>2, Zenon
  <2>2. ASSUME \A i \in s..(e - 1) : CharAt(i) = Quote <=> i \in {s, e - 1},
               NEW k \in 1..(e - s)
        PROVE  text[k] = Quote <=> k \in {1, e - s}
    <3>1. /\ s + k - 1 \in s..(e - 1) /\ text[k] = CharAt(s + k - 1)
          /\ s + k - 1 \in {s, e - 1} <=> k \in {1, e - s}
      BY <1>1
    <3>2. CharAt(s + k - 1) = Quote <=> s + k - 1 \in {s, e - 1}
      BY <2>2, <3>1
    <3>. QED
      BY <3>1, <3>2, Zenon
  <2>. QED
    BY <2>1, <2>2, Zenon
<1>. QED
  BY <1>1, <1>2, <1>3 DEF StringAt, text

LEMMA CharactersAt ==
    ASSUME TypeOK, NEW s \in Nat, NEW e \in s..Len(m_Source)
    PROVE  IsCharacter(Text(s, e)) <=> CharacterAt(s, e)
<1>. DEFINE text == Text(s, e)
<1>1. /\ Len(text) = e - s /\ \A k \in 1..(e - s) : text[k] = CharAt(s + k - 1)
      /\ e \in Nat /\ e - s \in Nat
  BY TextCharacters
<1>. HIDE DEF text
<1>2. CASE e = s + 3
  <2>1. Len(text) = 3 /\ s + 1 - 1 = s /\ s + 2 - 1 = s + 1 /\ s + 3 - 1 = s + 2 /\ e # s + 4
    BY <1>1, <1>2
  <2>2. text[1] = CharAt(s) /\ text[2] = CharAt(s + 1) /\ text[3] = CharAt(s + 2)
    <3>1. 1 \in 1..(e - s) /\ 2 \in 1..(e - s) /\ 3 \in 1..(e - s)
      BY <1>2
    <3>. QED
      BY <1>1, <2>1, <3>1
  <2>. QED
    BY <1>2, <2>1, <2>2 DEF IsCharacter, CharacterAt, text
<1>3. CASE e = s + 4
  <2>1. Len(text) = 4 /\ s + 1 - 1 = s /\ s + 2 - 1 = s + 1 /\ s + 4 - 1 = s + 3 /\ e # s + 3
    BY <1>1, <1>3
  <2>2. text[1] = CharAt(s) /\ text[2] = CharAt(s + 1) /\ text[4] = CharAt(s + 3)
    <3>1. 1 \in 1..(e - s) /\ 2 \in 1..(e - s) /\ 4 \in 1..(e - s)
      BY <1>3
    <3>. QED
      BY <1>1, <2>1, <3>1
  <2>. QED
    BY <1>3, <2>1, <2>2 DEF IsCharacter, CharacterAt, text
<1>4. CASE e # s + 3 /\ e # s + 4
  <2>1. Len(text) # 3 /\ Len(text) # 4
    BY <1>1, <1>4
  <2>. QED
    BY <1>4, <2>1 DEF IsCharacter, CharacterAt, text
<1>. QED
  BY <1>2, <1>3, <1>4

LEMMA SymbolsAt ==
    ASSUME TypeOK, NEW s \in Nat, NEW e \in s..Len(m_Source)
    PROVE  Text(s, e) \in SymbolTexts <=> SymbolAt(s, e)
<1>. DEFINE text == Text(s, e)
<1>1. /\ text \in Seq(Characters)
      /\ Len(text) = e - s /\ \A k \in 1..(e - s) : text[k] = CharAt(s + k - 1)
      /\ e \in Nat /\ e - s \in Nat
  BY TextCharacters
<1>. HIDE DEF text
<1>2. CASE e = s + 1
  <2>1. text = <<CharAt(s)>>
    <3>1. Len(text) = 1 /\ text[1] = CharAt(s)
      BY <1>1, <1>2
    <3>. QED
      BY <1>1, <3>1
  <2>2. <<CharAt(s)>> \in SymbolTexts <=> CharAt(s) \in SymbolStarts
    BY DEF SymbolTexts
  <2>. QED
    BY <1>2, <2>1, <2>2 DEF SymbolAt, text
<1>3. CASE e = s + 2
  <2>1. text = <<CharAt(s), CharAt(s + 1)>>
    <3>1. Len(text) = 2 /\ text[1] = CharAt(s) /\ text[2] = CharAt(s + 1)
      BY <1>1, <1>3
    <3>. QED
      BY <1>1, <3>1
  <2>2. \A c, d : <<c, d>> \in SymbolTexts <=> c \in SymbolStarts /\ d \in Second(c)
    BY DEF SymbolTexts, SymbolStarts, Second
  <2>. QED
    BY <1>3, <2>1, <2>2 DEF SymbolAt, text
<1>4. CASE e = s + 3
  <2>1. text = <<CharAt(s), CharAt(s + 1), CharAt(s + 2)>>
    <3>1. Len(text) = 3 /\ text[1] = CharAt(s) /\ text[2] = CharAt(s + 1) /\ text[3] = CharAt(s + 2)
      BY <1>1, <1>4
    <3>. QED
      BY <1>1, <3>1
  <2>2. \A c, d, f : <<c, d, f>> \in SymbolTexts
                      <=> c \in SymbolStarts /\ d \in Second(c) /\ f \in Third(c, d)
    BY DEF SymbolTexts, SymbolStarts, Second, Third
  <2>. QED
    BY <1>4, <2>1, <2>2 DEF SymbolAt, text
<1>5. CASE e \notin {s + 1, s + 2, s + 3}
  <2>1. Len(text) \notin {1, 2, 3}
    BY <1>1, <1>5
  <2>2. \A t \in SymbolTexts : Len(t) \in {1, 2, 3}
    BY DEF SymbolTexts
  <2>. QED
    BY <1>5, <2>1, <2>2 DEF SymbolAt, text
<1>. QED
  BY <1>2, <1>3, <1>4, <1>5

(***************************************************************************)
(* The first character decides which tokens may begin.                     *)
(***************************************************************************)
WordStarts == Letters \cup {"_"}

LEMMA Starts ==
    /\ WordStarts \cap Digits = {} /\ WordCharacters \ Digits = WordStarts
    /\ WordStarts \cap SymbolStarts = {} /\ Digits \cap SymbolStarts = {}
    /\ Quote \notin WordStarts \cup Digits \cup SymbolStarts
    /\ "'" \notin WordStarts \cup Digits \cup SymbolStarts /\ Quote # "'"
    /\ "." \notin Digits
<1>1. Letters \cap Digits = {}
  BY SourceAssumption
<1>2. \A c \in Letters \cup Digits :
         c \notin SymbolStarts /\ c # Quote /\ c # "'" /\ c # "_"
  BY SourceAssumption, Zenon
<1>3. "_" \notin SymbolStarts /\ "'" \notin SymbolStarts /\ "_" # "'" /\ "." \in SymbolStarts
  BY DEF SymbolStarts
<1>4. Quote \notin SymbolStarts /\ Quote # "'" /\ Quote # "_"
  BY Zenon DEF SymbolStarts, Quote
<1>. QED
  BY <1>1, <1>2, <1>3, <1>4 DEF WordStarts, WordCharacters

LEMMA FirstCharacter ==
    ASSUME TypeOK, NEW s \in Nat, NEW e \in s..Len(m_Source)
    PROVE  /\ WordAt(s, e) => CharAt(s) \in WordStarts
           /\ IntegerAt(s, e) => CharAt(s) \in Digits
           /\ FloatAt(s, e) => CharAt(s) \in Digits
           /\ StringAt(s, e) => CharAt(s) = Quote
           /\ CharacterAt(s, e) => CharAt(s) = "'"
           /\ SymbolAt(s, e) => CharAt(s) \in SymbolStarts
<1>1. e \in Nat
  BY TextCharacters
<1>2. \A t \in Nat : s < t => s \in s..(t - 1)
  OBVIOUS
<1>3. WordAt(s, e) => CharAt(s) \in WordStarts
  <2>1. WordAt(s, e) => CharAt(s) \in WordCharacters \ Digits
    BY <1>1, <1>2 DEF WordAt
  <2>. QED
    BY <2>1, Starts
<1>4. \A t \in Nat : IntegerAt(s, t) => CharAt(s) \in Digits
  BY <1>2 DEF IntegerAt
<1>5. FloatAt(s, e) => CharAt(s) \in Digits
  <2>1. \A p \in s..(e - 1) : p \in Nat
    OBVIOUS
  <2>. QED
    BY <1>4, <2>1 DEF FloatAt
<1>6. StringAt(s, e) => CharAt(s) = Quote
  <2>1. e - s > 1 => s \in s..(e - 1) /\ s \in {s, e - 1}
    BY <1>1
  <2>. QED
    BY <2>1 DEF StringAt
<1>. QED
  BY <1>1, <1>3, <1>4, <1>5, <1>6 DEF CharacterAt, SymbolAt

LEMMA KindsAt ==
    ASSUME TypeOK, NEW s \in Nat, NEW e \in s..Len(m_Source)
    PROVE  /\ CharAt(s) \in WordStarts =>
                KindsOf(Text(s, e)) =
                    IF ~WordAt(s, e) THEN {}
                    ELSE {IF Text(s, e) \in s_Keywords THEN "Keyword" ELSE "Identifier"}
           /\ CharAt(s) \in Digits =>
                KindsOf(Text(s, e)) = (IF IntegerAt(s, e) THEN {"NumberLiteral"} ELSE {})
                                        \cup (IF FloatAt(s, e) THEN {"FloatLiteral"} ELSE {})
           /\ CharAt(s) = Quote =>
                KindsOf(Text(s, e)) = IF StringAt(s, e) THEN {"StringLiteral"} ELSE {}
           /\ CharAt(s) = "'" =>
                KindsOf(Text(s, e)) = IF CharacterAt(s, e) THEN {"CharLiteral"} ELSE {}
           /\ CharAt(s) \in SymbolStarts =>
                KindsOf(Text(s, e)) = IF SymbolAt(s, e) THEN {"Symbol"} ELSE {}
           /\ CharAt(s) \notin WordStarts \cup Digits \cup SymbolStarts \cup {Quote, "'"} =>
                KindsOf(Text(s, e)) = {}
<1>. DEFINE text == Text(s, e)
            At(kind) == \/ kind = "Symbol" /\ SymbolAt(s, e)
                        \/ kind = "Keyword" /\ WordAt(s, e) /\ text \in s_Keywords
                        \/ kind = "Identifier" /\ WordAt(s, e) /\ text \notin s_Keywords
                        \/ kind = "NumberLiteral" /\ IntegerAt(s, e)
                        \/ kind = "FloatLiteral" /\ FloatAt(s, e)
                        \/ kind = "StringLiteral" /\ StringAt(s, e)
                        \/ kind = "CharLiteral" /\ CharacterAt(s, e)
<1>1. KindsOf(text) = {kind \in Kinds : At(kind)}
  BY WordsAt, FloatsAt, StringsAt, CharactersAt, SymbolsAt DEF KindsOf
<1>2. \A kind : At(kind) => kind \in Kinds
  BY DEF Kinds
<1>. HIDE DEF text
<1>3. \A kind : kind \in KindsOf(text) <=> At(kind)
  BY <1>1, <1>2
<1>4. CASE CharAt(s) \in WordStarts
  <2>1. /\ ~IntegerAt(s, e) /\ ~FloatAt(s, e) /\ ~StringAt(s, e) /\ ~CharacterAt(s, e)
        /\ ~SymbolAt(s, e)
        /\ CharAt(s) \notin Digits \cup SymbolStarts \cup {Quote, "'"}
    BY <1>4, FirstCharacter, Starts
  <2>. QED
    BY <1>3, <1>4, <2>1 DEF text
<1>5. CASE CharAt(s) \in Digits
  <2>1. /\ ~WordAt(s, e) /\ ~StringAt(s, e) /\ ~CharacterAt(s, e) /\ ~SymbolAt(s, e)
        /\ CharAt(s) \notin WordStarts \cup SymbolStarts \cup {Quote, "'"}
    BY <1>5, FirstCharacter, Starts
  <2>. QED
    BY <1>3, <1>5, <2>1 DEF text
<1>6. CASE CharAt(s) \in SymbolStarts
  <2>1. /\ ~WordAt(s, e) /\ ~StringAt(s, e) /\ ~CharacterAt(s, e) /\ ~IntegerAt(s, e)
        /\ ~FloatAt(s, e)
        /\ CharAt(s) \notin WordStarts \cup Digits \cup {Quote, "'"}
    BY <1>6, FirstCharacter, Starts
  <2>. QED
    BY <1>3, <1>6, <2>1 DEF text
<1>7. CASE CharAt(s) = Quote
  <2>1. /\ ~WordAt(s, e) /\ ~SymbolAt(s, e) /\ ~CharacterAt(s, e) /\ ~IntegerAt(s, e)
        /\ ~FloatAt(s, e)
        /\ CharAt(s) \notin WordStarts \cup Digits \cup SymbolStarts /\ CharAt(s) # "'"
    BY <1>7, FirstCharacter, Starts
  <2>. QED
    BY <1>3, <1>7, <2>1 DEF text
<1>8. CASE CharAt(s) = "'"
  <2>1. /\ ~WordAt(s, e) /\ ~SymbolAt(s, e) /\ ~StringAt(s, e) /\ ~IntegerAt(s, e)
        /\ ~FloatAt(s, e)
        /\ CharAt(s) \notin WordStarts \cup Digits \cup SymbolStarts /\ CharAt(s) # Quote
    BY <1>8, FirstCharacter, Starts
  <2>. QED
    BY <1>3, <1>8, <2>1 DEF text
<1>9. CASE CharAt(s) \notin WordStarts \cup Digits \cup SymbolStarts \cup {Quote, "'"}
  <2>1. /\ ~WordAt(s, e) /\ ~SymbolAt(s, e) /\ ~StringAt(s, e) /\ ~IntegerAt(s, e)
        /\ ~FloatAt(s, e) /\ ~CharacterAt(s, e)
    BY <1>9, FirstCharacter
  <2>. QED
    BY <1>3, <1>9, <2>1 DEF text
<1>. QED
  BY <1>4, <1>5, <1>6, <1>7, <1>8, <1>9

(***************************************************************************)
(* What the loops have read of the token that is under way.                *)
(***************************************************************************)
Partial ==
    /\ doing = "Identifier" => WordAt(m_Start, Here)
    /\ doing = "Number" => IntegerAt(m_Start, Here)
    /\ doing = "Fraction" =>
          \E p \in m_Start..(Here - 1) :
              /\ CharAt(p) = "." /\ IntegerAt(m_Start, p)
              /\ \A i \in (p + 1)..(Here - 1) : CharAt(i) \in Digits
              /\ p + 1 < Here \/ CharAt(Here) \in Digits
    /\ doing = "String" =>
          /\ m_Start < Here
          /\ \A i \in m_Start..(Here - 1) : CharAt(i) = Quote <=> i = m_Start

\* The token from start to end is the longest there, and of this kind.
Longest(kind, start, end) ==
    /\ KindsOf(Text(start, end)) = {kind} \ {"Unknown"}
    /\ \A e \in (end + 1)..Len(m_Source) : KindsOf(Text(start, e)) = {}
    /\ kind = "Unknown" =>
          \A e \in (start + 1)..end : KindsOf(Text(start, e)) = {}

LEMMA LongestAdded ==
    ASSUME TypeOK, NEW kind, NEW lexeme, NEW start, NEW end,
           AddToken(kind, lexeme, start, end), Longest(kind, start, end)
    PROVE  LongestMatch'
<1>. DEFINE token == [m_type |-> kind, m_lexeme |-> lexeme, m_CurrentLine |-> m_CurrentLine]
            span == <<start, end>>
<1>1. /\ m_Tokens' = Append(m_Tokens, token) /\ spans' = Append(spans, span)
      /\ m_Source' = m_Source
  BY DEF AddToken
<1>2. token.m_type = kind /\ span[1] = start /\ span[2] = end
  OBVIOUS
<1>. HIDE DEF token, span
<1>3. \E T : m_Tokens \in Seq(T)
  BY TypeParts
<1>4. \E T : spans \in Seq(T)
  BY TypeParts
<1>5. LastToken' = token
  <2>1. PICK T : m_Tokens \in Seq(T)
    BY <1>3
  <2>2. m_Tokens \in Seq(T \cup {token})
    BY <2>1, SeqMonotonic
  <2>. QED
    BY <1>1, <2>2, AppendProperties DEF LastToken
<1>6. spans'[Len(spans')] = span
  <2>1. PICK T : spans \in Seq(T)
    BY <1>4
  <2>2. spans \in Seq(T \cup {span})
    BY <2>1, SeqMonotonic
  <2>. QED
    BY <1>1, <2>2, AppendProperties
<1>7. LastStart' = start /\ LastEnd' = end
  BY <1>2, <1>6 DEF LastStart, LastEnd
<1>8. \A a, b : Text(a, b)' = Text(a, b)
  BY <1>1 DEF Text
<1>9. LastToken'.m_type = kind
  BY <1>2, <1>5
<1>. QED
  BY <1>1, <1>7, <1>8, <1>9 DEF LongestMatch, Longest, KindsOf

\* The ends of the tokens of each kind.
LEMMA WordLongest ==
    ASSUME TypeOK, NEW s \in Nat, NEW e \in s..Len(m_Source),
           WordAt(s, e), CharAt(e) \notin WordCharacters
    PROVE  Longest(IF Text(s, e) \in s_Keywords THEN "Keyword" ELSE "Identifier", s, e)
<1>1. CharAt(s) \in WordStarts
  BY FirstCharacter
<1>2. ASSUME NEW t \in (e + 1)..Len(m_Source)
      PROVE  KindsOf(Text(s, t)) = {}
  <2>1. t \in s..Len(m_Source) /\ e \in s..(t - 1)
    BY Position
  <2>2. ~WordAt(s, t)
    BY <2>1 DEF WordAt
  <2>. QED
    BY <1>1, <2>1, <2>2, KindsAt
<1>3. KindsOf(Text(s, e)) =
          {IF Text(s, e) \in s_Keywords THEN "Keyword" ELSE "Identifier"}
  BY <1>1, KindsAt
<1>. QED
  BY <1>2, <1>3 DEF Longest

LEMMA NumberLongest ==
    ASSUME TypeOK, NEW s \in Nat, NEW e \in s..Len(m_Source),
           IntegerAt(s, e), CharAt(e) \notin Digits,
           ~(CharAt(e) = "." /\ CharAt(e + 1) \in Digits)
    PROVE  Longest("NumberLiteral", s, e)
<1>1. CharAt(s) \in Digits
  BY FirstCharacter
<1>2. ASSUME NEW t \in e..Len(m_Source), FloatAt(s, t)
      PROVE  FALSE
  <2>1. PICK p \in s..(t - 1) : CharAt(p) = "." /\ IntegerAt(s, p) /\ IntegerAt(p + 1, t)
    BY <1>2 DEF FloatAt
  <2>2. CASE p < e
    <3>1. p \in s..(e - 1)
      BY <2>2
    <3>. QED
      BY <2>1, <3>1, Starts DEF IntegerAt
  <2>3. CASE p > e
    <3>1. e \in s..(p - 1)
      BY <2>3
    <3>. QED
      BY <2>1, <3>1 DEF IntegerAt
  <2>4. CASE p = e
    <3>1. CharAt(e) = "." /\ e + 1 < t /\ \A i \in (e + 1)..(t - 1) : CharAt(i) \in Digits
      BY <2>1, <2>4 DEF IntegerAt
    <3>2. e + 1 \in (e + 1)..(t - 1)
      BY <3>1
    <3>. QED
      BY <3>1, <3>2
  <2>. QED
    BY <2>2, <2>3, <2>4
<1>3. ASSUME NEW t \in (e + 1)..Len(m_Source)
      PROVE  KindsOf(Text(s, t)) = {}
  <2>1. t \in s..Len(m_Source) /\ e \in s..(t - 1) /\ t \in e..Len(m_Source)
    BY Position
  <2>2. ~IntegerAt(s, t)
    BY <2>1 DEF IntegerAt
  <2>. QED
    BY <1>1, <1>2, <2>1, <2>2, KindsAt
<1>4. KindsOf(Text(s, e)) = {"NumberLiteral"}
  <2>1. e \in e..Len(m_Source)
    BY Position
  <2>. QED
    BY <1>1, <1>2, <2>1, KindsAt
<1>. QED
  BY <1>3, <1>4 DEF Longest

LEMMA FractionLongest ==
    ASSUME TypeOK, NEW s \in Nat, NEW e \in s..Len(m_Source), NEW p \in s..(e - 1),
           CharAt(p) = ".", IntegerAt(s, p), IntegerAt(p + 1, e), CharAt(e) \notin Digits
    PROVE  Longest("FloatLiteral", s, e)
<1>1. FloatAt(s, e) /\ CharAt(s) \in Digits
  BY FirstCharacter DEF FloatAt
<1>2. ASSUME NEW t \in e..Len(m_Source)
      PROVE  ~IntegerAt(s, t)
  <2>1. p \in s..(t - 1)
    OBVIOUS
  <2>. QED
    BY <2>1, Starts DEF IntegerAt
<1>3. ASSUME NEW t \in (e + 1)..Len(m_Source), FloatAt(s, t)
      PROVE  FALSE
  <2>1. PICK q \in s..(t - 1) : CharAt(q) = "." /\ IntegerAt(s, q) /\ IntegerAt(q + 1, t)
    BY <1>3 DEF FloatAt
  <2>2. CASE q < p
    <3>1. q \in s..(p - 1)
      BY <2>2
    <3>. QED
      BY <2>1, <3>1, Starts DEF IntegerAt
  <2>3. CASE q > p
    <3>1. p \in s..(q - 1)
      BY <2>3
    <3>. QED
      BY <2>1, <3>1, Starts DEF IntegerAt
  <2>4. CASE q = p
    <3>1. e \in (p + 1)..(t - 1)
      OBVIOUS
    <3>2. IntegerAt(p + 1, t)
      BY <2>1, <2>4
    <3>. QED
      BY <3>1, <3>2 DEF IntegerAt
  <2>. QED
    BY <2>2, <2>3, <2>4
<1>4. ASSUME NEW t \in (e + 1)..Len(m_Source)
      PROVE  KindsOf(Text(s, t)) = {}
  <2>1. t \in s..Len(m_Source) /\ t \in e..Len(m_Source)
    BY Position
  <2>. QED
    BY <1>1, <1>2, <1>3, <2>1, KindsAt
<1>5. KindsOf(Text(s, e)) = {"FloatLiteral"}
  <2>1. e \in e..Len(m_Source)
    BY Position
  <2>. QED
    BY <1>1, <1>2, <2>1, KindsAt
<1>. QED
  BY <1>4, <1>5 DEF Longest

LEMMA StringLongest ==
    ASSUME TypeOK, NEW s \in Nat, NEW e \in s..Len(m_Source), s < e, e + 1 <= Len(m_Source),
           \A i \in s..(e - 1) : CharAt(i) = Quote <=> i = s,
           CharAt(e) = Quote
    PROVE  Longest("StringLiteral", s, e + 1)
<1>0. e \in Nat /\ Len(m_Source) \in Nat /\ e + 1 \in s..Len(m_Source)
  BY Position
<1>1. StringAt(s, e + 1)
  <2>1. e + 1 - s > 1 /\ e + 1 - 1 = e /\ s # e
    BY <1>0
  <2>2. \A i \in s..e : i \in s..(e - 1) \/ i = e
    BY <1>0
  <2>3. \A i \in s..e : CharAt(i) = Quote <=> i \in {s, e}
    BY <2>1, <2>2
  <2>. QED
    BY <2>1, <2>3 DEF StringAt
<1>2. CharAt(s) = Quote
  BY <1>0, <1>1, FirstCharacter
<1>3. ASSUME NEW t \in (e + 2)..Len(m_Source)
      PROVE  KindsOf(Text(s, t)) = {}
  <2>1. t \in s..Len(m_Source) /\ e \in s..(t - 1) /\ e # s /\ e # t - 1
    BY <1>0
  <2>2. ~StringAt(s, t)
    BY <2>1 DEF StringAt
  <2>. QED
    BY <1>2, <2>1, <2>2, KindsAt
<1>4. KindsOf(Text(s, e + 1)) = {"StringLiteral"}
  BY <1>0, <1>1, <1>2, KindsAt
<1>5. e + 1 + 1 = e + 2
  BY <1>0
<1>. QED
  BY <1>3, <1>4, <1>5 DEF Longest

LEMMA SymbolLongest ==
    ASSUME TypeOK, NEW s \in Nat, NEW e \in s..Len(m_Source), SymbolAt(s, e),
           e = s + 1 => CharAt(s + 1) \notin Second(CharAt(s)),
           e = s + 2 => CharAt(s + 2) \notin Third(CharAt(s), CharAt(s + 1))
    PROVE  Longest("Symbol", s, e)
<1>1. CharAt(s) \in SymbolStarts
  BY DEF SymbolAt
<1>2. ASSUME NEW t \in (e + 1)..Len(m_Source)
      PROVE  KindsOf(Text(s, t)) = {}
  <2>1. t \in s..Len(m_Source) /\ t > e
    BY Position
  <2>2. ~SymbolAt(s, t)
    BY <2>1 DEF SymbolAt
  <2>. QED
    BY <1>1, <2>1, <2>2, KindsAt
<1>. QED
  BY <1>1, <1>2, KindsAt DEF Longest

LEMMA CharacterLongest ==
    ASSUME TypeOK, NEW s \in Nat, NEW e \in s..Len(m_Source), CharacterAt(s, e)
    PROVE  Longest("CharLiteral", s, e)
<1>1. CharAt(s) = "'"
  BY DEF CharacterAt
<1>2. ASSUME NEW t \in (e + 1)..Len(m_Source)
      PROVE  KindsOf(Text(s, t)) = {}
  <2>1. t \in s..Len(m_Source) /\ t > e
    BY Position
  <2>2. ~CharacterAt(s, t)
    BY <2>1 DEF CharacterAt
  <2>. QED
    BY <1>1, <2>1, <2>2, KindsAt
<1>. QED
  BY <1>1, <1>2, KindsAt DEF Longest

(***************************************************************************)
(* The steps.                                                              *)
(***************************************************************************)
LEMMA SkipLongest ==
    ASSUME TypeOK, Partial, LongestMatch,
           SkipBlank \/ BeginComment \/ LineComment \/ BlockComment
    PROVE  Partial' /\ LongestMatch'
<1>1. /\ UNCHANGED <<m_Source, m_Tokens, done, spans>>
      /\ doing' \in {"Skip", "LineComment", "BlockComment"}
  BY DEF SkipBlank, BeginComment, LineComment, BlockComment, Read
<1>2. LongestMatch'
  BY <1>1 DEF LongestMatch, LastToken, LastStart, LastEnd, Text, KindsOf
<1>. QED
  BY <1>1, <1>2 DEF Partial

LEMMA SymbolLongestStep ==
    ASSUME TypeOK, ScanSymbol \/ ScanUnknown \/ ScanChar
    PROVE  Partial' /\ LongestMatch'
<1>. USE Position
<1>1. Here < Len(m_Source)
  <2>1. TokenAhead
    BY DEF ScanSymbol, ScanUnknown, ScanChar
  <2>. QED
    BY <2>1 DEF TokenAhead, EndAt
<1>2. \A i \in Nat : CharAt(i) # NUL => i + 1 <= Len(m_Source)
  BY CharacterRead
<1>3. CASE ScanSymbol
  <2>. DEFINE end == IF PeekNext \notin Second(Peek) THEN Here + 1
                     ELSE IF CharAt(Here + 2) \notin Third(Peek, PeekNext) THEN Here + 2
                     ELSE Here + 3
  <2>1. Peek = CharAt(Here) /\ PeekNext = CharAt(Here + 1)
    BY DEF Peek, PeekNext
  <2>2. SymbolAt(Here, end)
    BY <1>3, <2>1 DEF ScanSymbol, SymbolAt
  <2>3. \A c, d : NUL \notin Second(c) /\ NUL \notin Third(c, d)
    <3>1. \A c : NUL \in Second(c) => c = NUL
      BY DEF Second, NUL
    <3>2. NUL \notin Second(NUL)
      BY DEF Second, NUL
    <3>. QED
      BY <3>1, <3>2 DEF Third, NUL
  <2>4. end \in Here..Len(m_Source)
    BY <1>1, <1>2, <2>1, <2>3
  <2>5. /\ end = Here + 1 => CharAt(Here + 1) \notin Second(CharAt(Here))
        /\ end = Here + 2 => CharAt(Here + 2) \notin Third(CharAt(Here), CharAt(Here + 1))
    BY <2>1
  <2>6. AddToken("Symbol", Text(Here, end), Here, end)
    BY <1>3 DEF ScanSymbol
  <2>. HIDE DEF end
  <2>7. Longest("Symbol", Here, end)
    BY <2>2, <2>4, <2>5, SymbolLongest
  <2>. QED
    BY <2>6, <2>7, LongestAdded DEF Partial, AddToken
<1>4. CASE ScanUnknown
  <2>1. Peek = CharAt(Here) /\ AddToken("Unknown", Text(Here, Here + 1), Here, Here + 1)
    BY <1>4 DEF ScanUnknown, Peek
  <2>2. CharAt(Here) \notin WordStarts \cup Digits \cup SymbolStarts \cup {Quote, "'"}
    BY <1>4, <2>1 DEF ScanUnknown, WordStarts
  <2>3. \A t \in (Here + 1)..Len(m_Source) : KindsOf(Text(Here, t)) = {}
    <3>1. \A t \in (Here + 1)..Len(m_Source) : t \in Here..Len(m_Source)
      OBVIOUS
    <3>. QED
      BY <2>2, <3>1, KindsAt
  <2>4. /\ \A t \in (Here + 1 + 1)..Len(m_Source) : t \in (Here + 1)..Len(m_Source)
        /\ \A t \in (Here + 1)..(Here + 1) : t \in (Here + 1)..Len(m_Source)
        /\ Here + 1 \in (Here + 1)..Len(m_Source)
    BY <1>1
  <2>5. Longest("Unknown", Here, Here + 1)
    BY <2>3, <2>4 DEF Longest
  <2>. QED
    BY <2>1, <2>5, LongestAdded DEF Partial, AddToken
<1>5. CASE ScanChar
  <2>. DEFINE isEscape == PeekNext = "\\" /\ ~EndAt(Here + 2)
              value == IF isEscape THEN Escaped(CharAt(Here + 2)) ELSE PeekNext
              close == IF EndAt(Here + 1) THEN Here + 1
                       ELSE IF isEscape THEN Here + 3 ELSE Here + 2
              literal == close > Here + 1 /\ CharAt(close) = "'"
  <2>1. /\ literal => AddToken("CharLiteral", <<value>>, Here, close + 1)
        /\ ~literal => AddToken("Unknown", Text(Here, close), Here, close)
    BY <1>5 DEF ScanChar
  <2>2. Peek = CharAt(Here) /\ Peek = "'" /\ PeekNext = CharAt(Here + 1)
    BY <1>5 DEF Peek, PeekNext, ScanChar
  <2>3. close \in (Here + 1)..Len(m_Source)
    BY <1>1 DEF EndAt
  <2>4. CASE literal
    <3>1. close + 1 <= Len(m_Source)
      <4>1. CharAt(close) # NUL
        BY <2>4 DEF NUL
      <4>. QED
        BY <1>2, <2>3, <4>1
    <3>2. CharacterAt(Here, close + 1)
      <4>1. CASE isEscape
        <5>1. close = Here + 3
          BY <2>4, <4>1
        <5>. QED
          BY <2>2, <2>4, <4>1, <5>1 DEF CharacterAt
      <4>2. CASE ~isEscape
        <5>1. close = Here + 2 /\ ~EndAt(Here + 2)
          BY <2>4, <3>1, <4>2 DEF EndAt
        <5>. QED
          BY <2>2, <2>4, <4>2, <5>1 DEF CharacterAt
      <4>. QED
        BY <4>1, <4>2
    <3>3. close + 1 \in Here..Len(m_Source)
      BY <2>3, <3>1
    <3>4. AddToken("CharLiteral", <<value>>, Here, close + 1)
      BY <2>1, <2>4
    <3>. HIDE DEF close, value
    <3>5. Longest("CharLiteral", Here, close + 1)
      BY <3>2, <3>3, CharacterLongest
    <3>. QED
      BY <3>4, <3>5, LongestAdded DEF Partial, AddToken
  <2>5. CASE ~literal
    <3>1. ASSUME NEW t \in Here..Len(m_Source), CharacterAt(Here, t)
          PROVE  FALSE
      <4>1. CASE t = Here + 3
        <5>1. CharAt(Here + 1) # "\\" /\ CharAt(Here + 2) = "'" /\ ~EndAt(Here + 1)
          BY <3>1, <4>1 DEF CharacterAt, EndAt
        <5>. QED
          BY <2>2, <2>5, <5>1
      <4>2. CASE t = Here + 4
        <5>1. /\ CharAt(Here + 1) = "\\" /\ CharAt(Here + 3) = "'"
              /\ ~EndAt(Here + 1) /\ ~EndAt(Here + 2)
          BY <3>1, <4>2 DEF CharacterAt, EndAt
        <5>. QED
          BY <2>2, <2>5, <5>1
      <4>. QED
        BY <3>1, <4>1, <4>2 DEF CharacterAt
    <3>. HIDE DEF close
    <3>2. \A t \in (Here + 1)..Len(m_Source) : KindsOf(Text(Here, t)) = {}
      <4>1. \A t \in (Here + 1)..Len(m_Source) : t \in Here..Len(m_Source)
        OBVIOUS
      <4>. QED
        BY <2>2, <3>1, <4>1, KindsAt
    <3>3. /\ \A t \in (close + 1)..Len(m_Source) : t \in (Here + 1)..Len(m_Source)
          /\ \A t \in (Here + 1)..close : t \in (Here + 1)..Len(m_Source)
      BY <2>3
    <3>4. Longest("Unknown", Here, close)
      BY <2>3, <3>2, <3>3 DEF Longest
    <3>. QED
      BY <2>1, <2>5, <3>4, LongestAdded DEF Partial, AddToken
  <2>. QED
    BY <2>4, <2>5
<1>. QED
  BY <1>3, <1>4, <1>5

\* A loop reads one more character, or another loop begins.
LEMMA LoopReads ==
    ASSUME TypeOK, LongestMatch, NEW n, NEW mode, Read(n, mode)
    PROVE  /\ LongestMatch' /\ Here' = Here + n /\ doing' = mode
           /\ \A i : CharAt(i)' = CharAt(i)
<1>1. UNCHANGED <<m_Source, m_Tokens, done, spans>> /\ Here' = Here + n /\ doing' = mode
  BY DEF Read, Here
<1>. QED
  BY <1>1 DEF LongestMatch, LastToken, LastStart, LastEnd, Text, KindsOf, CharAt, EndAt

LEMMA LoopLongest ==
    ASSUME TypeOK, Partial, LongestMatch,
           \/ BeginIdentifier \/ Identifier \/ EndIdentifier
           \/ BeginNumber \/ Number \/ EndNumber \/ Fraction \/ EndFraction
           \/ BeginString \/ StringCharacter \/ EndString
    PROVE  Partial' /\ LongestMatch'
<1>. USE Position
<1>1. Peek = CharAt(Here) /\ PeekNext = CharAt(Here + 1)
  BY DEF Peek, PeekNext
<1>2. Here \in m_Start..Len(m_Source)
  OBVIOUS
<1>3. ASSUME NEW kind, NEW lexeme, NEW end,
             AddToken(kind, lexeme, m_Start, end), Longest(kind, m_Start, end)
      PROVE  Partial' /\ LongestMatch'
  BY <1>3, LongestAdded DEF Partial, AddToken
<1>4. CASE BeginIdentifier
  <2>1. Read(1, "Identifier") /\ m_Start' = Here /\ CharAt(Here) \in WordStarts
    BY <1>1, <1>4 DEF BeginIdentifier, BeginToken, WordStarts
  <2>2. Here < Here + 1 /\ \A i \in Here..(Here + 1 - 1) : i = Here
    OBVIOUS
  <2>3. CharAt(Here) \notin Digits /\ CharAt(Here) \in WordCharacters
    BY <2>1, Starts
  <2>. QED
    BY <2>1, <2>2, <2>3, LoopReads DEF Partial, WordAt
<1>5. CASE Identifier
  <2>1. /\ Read(1, "Identifier") /\ m_Start' = m_Start /\ CharAt(Here) \in WordCharacters
        /\ WordAt(m_Start, Here)
    BY <1>1, <1>5 DEF Identifier, More, Doing, WordCharacters, Partial
  <2>2. /\ m_Start < Here + 1
        /\ \A i \in m_Start..(Here + 1 - 1) : i \in m_Start..(Here - 1) \/ i = Here
    OBVIOUS
  <2>. QED
    BY <2>1, <2>2, LoopReads DEF Partial, WordAt
<1>6. CASE EndIdentifier
  <2>1. WordAt(m_Start, Here) /\ CharAt(Here) \notin WordCharacters
    BY <1>1, <1>6 DEF EndIdentifier, Doing, WordCharacters, Partial
  <2>. QED
    BY <1>2, <1>3, <1>6, <2>1, WordLongest DEF EndIdentifier
<1>7. CASE BeginNumber
  <2>1. Read(1, "Number") /\ m_Start' = Here /\ CharAt(Here) \in Digits
    BY <1>1, <1>7 DEF BeginNumber, BeginToken
  <2>2. Here < Here + 1 /\ \A i \in Here..(Here + 1 - 1) : i = Here
    OBVIOUS
  <2>. QED
    BY <2>1, <2>2, LoopReads DEF Partial, IntegerAt
<1>8. CASE Number
  <2>1. /\ Read(1, "Number") /\ m_Start' = m_Start /\ CharAt(Here) \in Digits
        /\ IntegerAt(m_Start, Here)
    BY <1>1, <1>8 DEF Number, More, Doing, Partial
  <2>2. /\ m_Start < Here + 1
        /\ \A i \in m_Start..(Here + 1 - 1) : i \in m_Start..(Here - 1) \/ i = Here
    OBVIOUS
  <2>. QED
    BY <2>1, <2>2, LoopReads DEF Partial, IntegerAt
<1>9. CASE EndNumber
  <2>1. IntegerAt(m_Start, Here) /\ CharAt(Here) \notin Digits
    BY <1>1, <1>9 DEF EndNumber, Doing, Partial
  <2>2. CASE CharAt(Here) = "." /\ CharAt(Here + 1) \in Digits
    <3>1. Read(1, "Fraction") /\ m_Start' = m_Start
      BY <1>1, <1>9, <2>2 DEF EndNumber
    <3>2. Here \in m_Start..(Here + 1 - 1) /\ \A i \in (Here + 1)..(Here + 1 - 1) : FALSE
      OBVIOUS
    <3>3. /\ LongestMatch' /\ Here' = Here + 1 /\ doing' = "Fraction"
          /\ \A i : CharAt(i)' = CharAt(i)
      BY <3>1, LoopReads
    <3>4. \E p \in m_Start..(Here + 1 - 1) :
              /\ CharAt(p) = "." /\ IntegerAt(m_Start, p)
              /\ \A i \in (p + 1)..(Here + 1 - 1) : CharAt(i) \in Digits
              /\ p + 1 < Here + 1 \/ CharAt(Here + 1) \in Digits
      BY <2>1, <2>2, <3>2
    <3>. QED
      BY <3>1, <3>3, <3>4 DEF Partial, IntegerAt
  <2>3. CASE ~(CharAt(Here) = "." /\ CharAt(Here + 1) \in Digits)
    <3>1. AddToken("NumberLiteral", Text(m_Start, Here), m_Start, Here)
      BY <1>1, <1>9, <2>3 DEF EndNumber
    <3>2. Longest("NumberLiteral", m_Start, Here)
      BY <1>2, <2>1, <2>3, NumberLongest
    <3>. QED
      BY <1>3, <3>1, <3>2
  <2>. QED
    BY <2>2, <2>3
<1>10. CASE Fraction
  <2>1. /\ Read(1, "Fraction") /\ m_Start' = m_Start /\ CharAt(Here) \in Digits
        /\ doing = "Fraction"
    BY <1>1, <1>10 DEF Fraction, More, Doing
  <2>2. PICK p \in m_Start..(Here - 1) :
              /\ CharAt(p) = "." /\ IntegerAt(m_Start, p)
              /\ \A i \in (p + 1)..(Here - 1) : CharAt(i) \in Digits
    BY <2>1 DEF Partial
  <2>3. /\ p \in m_Start..(Here + 1 - 1) /\ p + 1 < Here + 1
        /\ \A i \in (p + 1)..(Here + 1 - 1) : i \in (p + 1)..(Here - 1) \/ i = Here
    OBVIOUS
  <2>4. /\ LongestMatch' /\ Here' = Here + 1 /\ doing' = "Fraction"
        /\ \A i : CharAt(i)' = CharAt(i)
    BY <2>1, LoopReads
  <2>5. \A i \in (p + 1)..(Here + 1 - 1) : CharAt(i) \in Digits
    BY <2>1, <2>2, <2>3
  <2>. QED
    BY <2>1, <2>2, <2>3, <2>4, <2>5 DEF Partial, IntegerAt
<1>11. CASE EndFraction
  <2>1. /\ doing = "Fraction" /\ CharAt(Here) \notin Digits
        /\ AddToken("FloatLiteral", Text(m_Start, Here), m_Start, Here)
    BY <1>1, <1>11 DEF EndFraction, Doing
  <2>2. PICK p \in m_Start..(Here - 1) :
              /\ CharAt(p) = "." /\ IntegerAt(m_Start, p)
              /\ \A i \in (p + 1)..(Here - 1) : CharAt(i) \in Digits
              /\ p + 1 < Here
    BY <2>1 DEF Partial
  <2>3. IntegerAt(p + 1, Here)
    BY <2>2 DEF IntegerAt
  <2>4. Longest("FloatLiteral", m_Start, Here)
    BY <1>2, <2>1, <2>2, <2>3, FractionLongest
  <2>. QED
    BY <1>3, <2>1, <2>4
<1>12. CASE BeginString
  <2>1. Read(1, "String") /\ m_Start' = Here /\ CharAt(Here) = Quote
    BY <1>1, <1>12 DEF BeginString, BeginToken
  <2>2. Here < Here + 1 /\ \A i \in Here..(Here + 1 - 1) : i = Here
    OBVIOUS
  <2>. QED
    BY <2>1, <2>2, LoopReads DEF Partial
<1>13. CASE StringCharacter
  <2>1. /\ Read(1, "String") /\ m_Start' = m_Start /\ CharAt(Here) # Quote
        /\ m_Start < Here
        /\ \A i \in m_Start..(Here - 1) : CharAt(i) = Quote <=> i = m_Start
    BY <1>1, <1>13 DEF StringCharacter, Doing, Partial
  <2>2. /\ m_Start < Here + 1 /\ Here # m_Start
        /\ \A i \in m_Start..(Here + 1 - 1) : i \in m_Start..(Here - 1) \/ i = Here
    BY <2>1
  <2>3. \A i \in m_Start..(Here + 1 - 1) : CharAt(i) = Quote <=> i = m_Start
    BY <2>1, <2>2
  <2>4. /\ LongestMatch' /\ Here' = Here + 1 /\ doing' = "String"
        /\ \A i : CharAt(i)' = CharAt(i)
    BY <2>1, LoopReads
  <2>. QED
    BY <2>1, <2>2, <2>3, <2>4 DEF Partial
<1>14. CASE EndString
  <2>1. /\ m_Start < Here
        /\ \A i \in m_Start..(Here - 1) : CharAt(i) = Quote <=> i = m_Start
    BY <1>14 DEF EndString, Doing, Partial
  <2>2. CASE EndAt(Here)
    <3>1. Read(0, "Skip")
      BY <1>14, <2>2 DEF EndString
    <3>. QED
      BY <3>1, LoopReads DEF Partial
  <2>3. CASE ~EndAt(Here)
    <3>1. /\ AddToken("StringLiteral", Text(m_Start + 1, Here), m_Start, Here + 1)
          /\ CharAt(Here) = Quote
      BY <1>1, <1>14, <2>3 DEF EndString
    <3>2. Here + 1 <= Len(m_Source)
      BY <2>3
    <3>3. Longest("StringLiteral", m_Start, Here + 1)
      BY <1>2, <2>1, <3>1, <3>2, StringLongest
    <3>. QED
      BY <1>3, <3>1, <3>3
  <2>. QED
    BY <2>2, <2>3
<1>. QED
  BY <1>4, <1>5, <1>6, <1>7, <1>8, <1>9, <1>10, <1>11, <1>12, <1>13, <1>14

\* Whatever the texts and the alphabet: every token is the longest that begins
\* where it does and of the kind its text has, and an Unknown token stands only
\* where no token begins.
THEOREM TokensAreLongest == Spec => []LongestMatch
<1>. DEFINE IInv == TypeOK /\ Partial /\ LongestMatch
<1>1. Init => IInv
  BY InitStep DEF Init, Partial, LongestMatch
<1>2. IInv /\ [Next]_vars => IInv'
  <2>. SUFFICES ASSUME TypeOK, Partial, LongestMatch, [Next]_vars
                PROVE  TypeOK' /\ Partial' /\ LongestMatch'
    OBVIOUS
  <2>1. TypeOK'
    BY NextStep
  <2>2. CASE UNCHANGED vars
    <3>1. UNCHANGED <<m_Source, m_Tokens, done, spans, doing, m_Start>> /\ Here' = Here
      BY <2>2 DEF vars, Here
    <3>2. \A i : CharAt(i)' = CharAt(i)
      BY <3>1 DEF CharAt, EndAt
    <3>3. Partial'
      BY <3>1, <3>2 DEF Partial, WordAt, IntegerAt
    <3>4. LongestMatch'
      BY <3>1 DEF LongestMatch, LastToken, LastStart, LastEnd, Text, KindsOf
    <3>. QED
      BY <2>1, <3>3, <3>4
  <2>3. CASE EndTokenize
    <3>1. done' = TRUE /\ doing' = "Skip"
      BY <2>3 DEF EndTokenize, Doing
    <3>2. Partial'
      BY <3>1 DEF Partial
    <3>3. LongestMatch'
      BY <3>1, Zenon DEF LongestMatch
    <3>. QED
      BY <2>1, <3>2, <3>3
  <2>4. CASE SkipBlank \/ BeginComment \/ LineComment \/ BlockComment
    BY <2>1, <2>4, SkipLongest
  <2>5. CASE ScanSymbol \/ ScanUnknown \/ ScanChar
    BY <2>1, <2>5, SymbolLongestStep
  <2>6. CASE \/ BeginIdentifier \/ Identifier \/ EndIdentifier
             \/ BeginNumber \/ Number \/ EndNumber \/ Fraction \/ EndFraction
             \/ BeginString \/ StringCharacter \/ EndString
    BY <2>1, <2>6, LoopLongest
  <2>. QED
    BY <2>2, <2>3, <2>4, <2>5, <2>6 DEF Next
<1>3. IInv => LongestMatch
  OBVIOUS
<1>. QED
  BY <1>1, <1>2, <1>3, PTL DEF Spec
=============================================================================
