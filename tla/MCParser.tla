------------------------------ MODULE MCParser ------------------------------
(***************************************************************************)
(* Token sequences for TLC: all the short ways to go on, right or wrong,   *)
(* from each place where the parser can be, and the programs of            *)
(* ProgramFamilies as Spell writes them.                                   *)
(***************************************************************************)
EXTENDS ParserReference, ProgramFamilies

\* The tokens of which each of the texts names one: a keyword or a symbol, a
\* literal, or else a name.
Words ==
    {"struct", "fn", "interface", "if", "else", "while", "for", "return", "var",
     "val", "alloc", "(", ")", "{", "}", "[", ":", ";", ",", ".", "?", "->", ":=",
     "=", "!", "~", "++", "--"}
        \cup UNION {Levels[k] : k \in DOMAIN Levels}
        \cup {pair[1] : pair \in CompoundOperators} \cup TypeKeywords

Numbers == 0..4 \cup {127}

\* Every literal has a token of its own.
Literals ==
    [t \in {Token("NumberLiteral", ToString(k)) : k \in Numbers}
            \cup {Token("FloatLiteral", "0.5"), Token("FloatLiteral", "10^400.0"),
                  Token("StringLiteral", "text"), Token("CharLiteral", "c"),
                  Token("NumberLiteral", "10^20")}
            \cup {Symbol(word) : word \in {"null", "true", "false"}} |->
        CASE t.m_lexeme = "10^400.0" -> [class |-> "hugeFloat", num |-> 0]
          [] t.m_lexeme = "0.5" -> [class |-> "float", num |-> 0]
          [] t.m_type = "StringLiteral" -> [class |-> "string", num |-> 0]
          [] t.m_type = "CharLiteral" -> [class |-> "char", num |-> 0]
          [] t.m_lexeme = "10^20" -> [class |-> "huge", num |-> 0]
          [] t.m_type = "NumberLiteral" ->
                [class |-> "int", num |-> CHOOSE k \in Numbers : ToString(k) = t.m_lexeme]
          [] OTHER -> [class |-> t.m_lexeme, num |-> 0]]
LiteralTokens == Literals

TokenOf(text) ==
    IF text \in Words THEN Symbol(text)
    ELSE IF \E t \in DOMAIN LiteralTokens : t.m_lexeme = text
    THEN CHOOSE t \in DOMAIN LiteralTokens : t.m_lexeme = text
    ELSE Token("Identifier", text)

TokensOf(words) == [k \in DOMAIN words |-> TokenOf(words[k])]

\* The ways to go on after before with up to length of the words, and then
\* after.
GoingOn(before, words, length, after) ==
    LET head == TokensOf(before)
        choices == {TokenOf(word) : word \in words}
        tail == Append(TokensOf(after), EndOfFile)
    IN  {head \o middle \o tail : middle \in UNION {[1..n -> choices] : n \in 0..length}}

InF == <<"fn", "f", "(", ")", "{">>
EndF == <<";", "}">>

TopLevel ==
    GoingOn(<<>>, {"struct", "fn", "interface", "S", "{", "}", ":", "("}, 3, <<>>)

MemberTexts ==
    GoingOn(<<"struct", "S", "{", "x">>, {"x", ":", "i32", "*", "?", ";", "}"}, 3, <<>>)
    \cup GoingOn(<<"struct", "S", "{", "X", ":", "T", "*">>,
                 {"?", ";", "y", ":", "i32", "}"}, 2, <<";", "}">>)
    \cup GoingOn(<<"interface", "I", "{">>, {"fn", "m", "(", ")", ";", "}"}, 2, <<>>)
    \cup GoingOn(<<"interface", "I", "{", "fn", "m">>,
                 {"fn", "m", "(", ")", ";", "}"}, 3, <<"}">>)

Signatures ==
    GoingOn(<<"fn", "f", "(">>, {"a", ":", "i32", "*", "?", ",", ")", "->"}, 3,
            <<"{", "}">>)
    \cup GoingOn(<<"fn", "f", "(", "a", ":", "i32">>,
                 {",", ")", "->", "void", "T", "*", "?"}, 3, <<"{", "}">>)

StatementTexts ==
    GoingOn(InF, {"if", "else", "while", "for", "return", "var", "(", ")", "{", "}",
                  ";", "a"}, 2, <<"}">>)
    \cup GoingOn(InF \o <<"if", "(", "a", ")">>,
                 {"if", "else", "while", "(", "{", "}", ";", "a"}, 3, <<"}">>)
    \cup GoingOn(InF \o <<"var">>, {"a", ":", ":=", "=", "i32", "?", ";", "}"}, 3, <<>>)
    \cup GoingOn(InF \o <<"for", "(">>, {";", ")", "var", "a", "=", "}"}, 3, EndF)

ExpressionTexts ==
    GoingOn(InF, {"a", "1", "=", "+=", "-", "*", "!", "++", "(", ")", ".", ","}, 3, EndF)
    \cup GoingOn(InF \o <<"alloc", "<", "T">>, {"T", ">", "(", ")"}, 3, EndF)
    \cup GoingOn(InF \o <<"alloc">>, {"T", "<", "("}, 2, EndF)
    \cup GoingOn(InF \o <<"(", "T">>, {"*", "?", ")", "1"}, 3, EndF)
    \cup GoingOn(InF \o <<"(", "struct">>, {"T", ")", "1"}, 3, EndF)
    \cup GoingOn(InF \o <<"f", "(">>, {"a", ",", ")", "("}, 3, EndF)

(***************************************************************************)
(* Trees and their texts.                                                  *)
(***************************************************************************)
Operators == UNION {Levels[k] : k \in DOMAIN Levels}

\* Every operator below every level, on both sides, and the unary ones.
OperatorTrees ==
    LET some == {CHOOSE op \in Levels[k] : TRUE : k \in DOMAIN Levels}
        unary == {UnaryExpr("!", One), PrefixExpr("++", V("a")), PostfixExpr("--", One),
                  UnaryExpr("~", PostfixExpr("++", PostfixExpr("++", One))),
                  PrefixExpr("--", UnaryExpr("!", V("a")))}
        operands == {BinaryExpr(op, One, Two) : op \in Operators} \cup unary
    IN  UNION {{BinaryExpr(op, e, V("a")), BinaryExpr(op, V("a"), e)} :
                   op \in some, e \in operands}
        \cup UNION {{UnaryExpr("~", e), PrefixExpr("++", e), PostfixExpr("--", e),
                     CastExpr(PPtr, e), AssignExpr("a", AssignExpr("a", e))} :
                       e \in operands}

Trees ==
    {<<FunctionDecl("f", <<>>, Void, Block1(Do(e)))>> : e \in OperatorTrees}
    \cup {<<FunctionDecl("f", <<>>, Void, BlockStatement(<<s>>))>> :
             s \in Outer \cup DeclarationsOfX \cup UsesOfX
                    \cup UNION {StatementsWith(e) : e \in Failing \ {Null}}
                    \cup Counting({Var("i", Inferred, Num(0))}, {">="}, {Two}, {Increment}, Bodies)}
    \cup {<<InterfaceDecl("I", <<"m", "n">>), StructP, StructDecl("T", "I", <<>>),
             FunctionOf("f", PPtr, <<>>), FunctionOf("g", NullableTo("P"), <<>>)>>}

SpelledTrees == {SpellProgram(decls) : decls \in Trees}
SpelledInputs == SpelledTrees
AllTrees == Trees

AllInputs ==
    TopLevel \cup MemberTexts \cup Signatures \cup StatementTexts \cup ExpressionTexts
        \cup SpelledInputs
ParserInputs == AllInputs

\* No two of the trees are spelled alike, so the text tells the tree.
ASSUME OneTreePerText == Cardinality(SpelledInputs) = Cardinality(AllTrees)

\* The parser inverts Spell: it builds the very trees whose texts it is given,
\* with every operand under the operator that precedence, associativity and
\* parentheses give it.  These are the programs the code generator runs on.
RoundTrip ==
    parsed /\ m_Tokens \in SpelledInputs =>
        /\ errors = {}
        /\ program \in AllTrees
        /\ SpellProgram(program) = m_Tokens
=============================================================================
