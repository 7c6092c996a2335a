-------------------------- MODULE ProgramFamilies --------------------------
(***************************************************************************)
(* Families of programs for TLC.  Every member is a tree that Parser.cpp   *)
(* builds from some source text (the run "parser" parses a part of them);  *)
(* a Null in the place of a mandatory child is what the parser leaves      *)
(* behind an error it has printed.  An operand that needs parentheses does *)
(* not begin with a name: "(" and a name open a cast.                      *)
(***************************************************************************)
EXTENDS Ast

(***************************************************************************)
(* Building blocks.                                                        *)
(***************************************************************************)
I32 == Plain("i32")
Void == Plain("void")

One == LiteralExpr("int", 1)
Two == LiteralExpr("int", 2)
Num(k) == LiteralExpr("int", k)
NullLit == LiteralExpr("null", 0)
Text == LiteralExpr("string", 0)
V(name) == VarExpr(name)
Do(expr) == IF expr = Null THEN Null ELSE ExprStatement(expr)
Set(name, expr) == Do(AssignExpr(name, expr))
Empty == BlockStatement(<<>>)
Block1(s) == BlockStatement(<<s>>)
And(l, r) == BinaryExpr("&&", l, r)
Or(l, r) == BinaryExpr("||", l, r)
Use(name) == Do(CallExpr("printf", <<Text, V(name)>>))
Var(name, type, init) == VariableDecl(name, type, init, TRUE)
Const(name, type, init) == VariableDecl(name, type, init, FALSE)

\* struct P { X: i32; y: i32; V: void*; }
StructP == StructDecl("P", "none", <<StructField("X", I32, TRUE),
                                     StructField("y", I32, FALSE),
                                     StructField("V", PointerTo("void"), TRUE)>>)

\* fn f(a: i32, p: P*, q: P*?) -> void { body }
FunctionOf(name, returnType, body) ==
    FunctionDecl(name, <<Parameter("a", I32), Parameter("p", PointerTo("P")),
                         Parameter("q", NullableTo("P"))>>,
                 returnType, BlockStatement(body))

Accepted(decls) == [decls |-> decls, rejected |-> FALSE]
RejectedByParser(decls) == [decls |-> decls, rejected |-> TRUE]

InFunction(body) == Accepted(<<StructP, FunctionOf("f", Void, body)>>)

(***************************************************************************)
(* Control flow: statements nested two deep, short-circuit operators in    *)
(* their conditions, and conditions that fail.                             *)
(***************************************************************************)
Conditions ==
    {V("a"), BinaryExpr("<", V("a"), Two), And(V("a"), V("a")),
     Or(V("a"), And(V("a"), UnaryExpr("!", V("a")))),
     And(Or(One, V("a")), V("a")), V("u")}

Loops(conds, bodies) ==
    {WhileStatement(c, s) : c \in conds, s \in bodies}
        \cup {ForStatement(Var("i", Inferred, One), c, PostfixExpr("++", V("i")), s) :
                 c \in conds \cup {BinaryExpr("<", V("i"), V("a")), Null}, s \in bodies}

Ifs(conds, bodies) ==
    {IfStatement(c, s, e) : c \in conds, s \in bodies, e \in bodies \cup {Null}}

Braced(statements) == {Block1(s) : s \in statements}
Simple == {Empty, Use("a")}
Inner == Ifs({V("a"), And(V("a"), V("a")), V("u")}, {Use("a")})
            \cup Loops({V("a"), V("u")}, {Use("a")})
Outer == Ifs({V("a"), Or(V("a"), V("a"))}, Braced(Inner) \cup {Use("a")})
            \cup Loops({Or(V("a"), V("a"))}, Braced(Inner))
            \cup Ifs(Conditions, Simple) \cup Loops(Conditions, Simple)

Nested == {InFunction(<<s, Use("a"), Use("p"), Use("q")>>) : s \in Outer}
Sequences == {InFunction(<<s, t>>) : s, t \in Inner \cup Loops(Conditions, {Empty})}

ControlFlowPrograms == Nested \cup Sequences
ControlFlow == ControlFlowPrograms

(***************************************************************************)
(* Symbols: a declaration of x followed by two statements that name it, and*)
(* a second function that must not see it.                                 *)
(***************************************************************************)
PPtr == PointerTo("P")
CastNull == CastExpr(PPtr, NullLit)

DeclarationsOfX ==
    {Var("x", I32, One), Const("x", I32, One), Var("x", Inferred, V("a")),
     Const("x", Inferred, V("p")), Var("x", I32, Null), Var("x", PPtr, Null),
     Var("x", PPtr, V("p")), Const("x", PPtr, V("p")), Var("x", PPtr, NullLit),
     Var("x", PPtr, CastNull), Var("x", NullableTo("P"), NullLit),
     Var("x", PPtr, AllocExpr(PPtr))}

UsesOfX ==
    {Set("x", Two), Set("x", NullLit), Set("x", CastNull), Set("x", V("p")),
     Do(PrefixExpr("++", V("x"))), Do(PostfixExpr("--", V("x"))), Use("x"),
     WhileStatement(V("a"), Set("x", V("a"))),
     ForStatement(Var("i", Inferred, Num(0)), BinaryExpr("<", V("i"), Two),
                  PostfixExpr("++", V("i")), Set("x", One)),
     Set("a", One), Do(PrefixExpr("--", V("a"))), Empty}

SymbolsPrograms ==
    {Accepted(<<StructP, FunctionOf("f", Void, <<d, s, t>>),
                FunctionOf("g", I32, <<Use("x"), ReturnStatement(V("a"))>>)>>) :
        d \in DeclarationsOfX, s \in UsesOfX, t \in UsesOfX}
Symbols == SymbolsPrograms

(***************************************************************************)
(* Errors: every expression that can fail, in every place an expression    *)
(* can stand, first in its function or after a value has been computed.    *)
(***************************************************************************)
Failing ==
    {V("u"), LiteralExpr("huge", 0), LiteralExpr("hugeFloat", 0), Null, CallExpr("nobody", <<One>>),
     CastExpr(PPtr, One), CastExpr(Plain("P"), V("p")), CastExpr(PPtr, V("u")),
     BinaryExpr("==", Text, One), PrefixExpr("++", One), PostfixExpr("++", V("p")),
     PrefixExpr("--", V("u")), AssignExpr("u", One), AssignExpr("p", NullLit),
     AssignExpr("a", V("u")), MemberAccessExpr(V("u"), "X"),
     MemberAccessExpr(V("q"), "X"), MemberAccessExpr(V("p"), "y"),
     MemberAccessExpr(V("p"), "Z"), MemberAccessExpr(V("a"), "X"),
     MemberAccessExpr(MemberAccessExpr(V("p"), "X"), "X"),
     MemberAccessExpr(V("p"), "V"), MemberAccessExpr(V("p"), "X"),
     LiteralExpr("true", 0), V("a"), V("p"),
     CallExpr("free", <<V("p")>>)}

\* Where any expression can stand.
Places(e) ==
    {Do(e), Set("a", e), ReturnStatement(e), IfStatement(e, Empty, Null),
     WhileStatement(e, Empty), ForStatement(Null, e, Null, Empty),
     Var("x", Inferred, e), Var("x", I32, e), Var("x", PPtr, e),
     Var("x", PointerTo("void"), e), Do(CallExpr("printf", <<e, e>>)),
     IfStatement(V("a"), Do(e), Do(e)), ForStatement(Do(e), Null, e, Empty)}

\* Where an operand can stand.
OperandPlaces(e) ==
    {Do(BinaryExpr("+", e, One)), Do(BinaryExpr("==", One, e)),
     Do(BinaryExpr("and", LiteralExpr("false", 0), e)), Do(And(e, V("a"))),
     Do(Or(V("a"), e)), Do(UnaryExpr("!", e)), Do(UnaryExpr("~", e))}

\* The parser itself rejects an inferred declaration without an initializer,
\* and leaves null statements out of a block.
StatementsWith(e) ==
    (Places(e)
        \cup (IF e.kind = "AssignExpr" THEN {} ELSE OperandPlaces(e))
        \cup (IF e.kind \in {"AssignExpr", "PostfixExpr"} THEN {}
              ELSE {Do(CastExpr(PPtr, e))}))
    \ {Null, Var("x", Inferred, Null)}

ErrorPrograms ==
    UNION {{[decls |-> <<InterfaceDecl("I", <<>>), StructP,
                         FunctionOf("f", Plain("P"), before \o <<s>>)>>,
             rejected |-> e = Null] :
                s \in StatementsWith(e), before \in {<<>>, <<Use("a")>>}} :
           e \in Failing}
Errors == ErrorPrograms

(***************************************************************************)
(* Unrolling: counting loops in both directions around the bound, with     *)
(* bodies that leave the counter alone or modify it somewhere.             *)
(***************************************************************************)
Increment == PostfixExpr("++", V("i"))

Bodies ==
    {Empty, Use("i"), Block1(Set("i", One)), Do(Increment),
     WhileStatement(V("a"), Do(PrefixExpr("--", V("i")))),
     IfStatement(V("a"), Empty, Set("i", Two)),
     Do(CallExpr("printf", <<Text, Increment>>)),
     ReturnStatement(BinaryExpr("+", V("a"), Increment)),
     ForStatement(Null, V("a"), Increment, Empty),
     Do(UnaryExpr("!", Increment)), Set("a", Increment),
     Var("y", I32, V("i"))}

Counting(inits, ops, ends, updates, bodies) ==
    {ForStatement(init, BinaryExpr(op, V("i"), end), update, s) :
        init \in inits, op \in ops, end \in ends, update \in updates, s \in bodies}

CountingLoops ==
    Counting({Var("i", Inferred, Num(k)) : k \in {0, 2}} \cup {Var("i", Plain("i64"), Num(2))},
             {"<", "<=", ">", ">=", "!="}, {Num(k) : k \in 0..4},
             {Increment, PrefixExpr("++", V("i")), PostfixExpr("--", V("i"))},
             {Use("i")})
    \cup Counting({Var("i", I32, Num(0))}, {"<", "<="}, {Two}, {Increment}, Bodies)

UnrollPrograms == {InFunction(<<s>>) : s \in CountingLoops}
Unroll == UnrollPrograms

(***************************************************************************)
(* Single programs on which the code and its documentation disagree.       *)
(***************************************************************************)
UpTo2(init, body) ==
    ForStatement(init, BinaryExpr("<", V(init.name), Two),
                 PostfixExpr("++", V(init.name)), body)

\* var x: P* = q;
NullByCopy == {InFunction(<<Var("x", PPtr, V("q"))>>)}
\* for (val i: i32 = 0; i < 2; i++) printf("", i);
ValCounter == {InFunction(<<UpTo2(Const("i", I32, Num(0)), Use("i"))>>)}
\* var x: i8 = 127;
SmallInteger == {InFunction(<<Var("x", Plain("i8"), Num(127))>>)}
\* if (a == 1) { return; }
EarlyReturn == {InFunction(<<IfStatement(BinaryExpr("==", V("a"), One),
                                         Block1(ReturnStatement(Null)), Null)>>)}
\* printf("", a); var h: u64 = 18446744073709551615;
HugeLiteral == {InFunction(<<Use("a"), Var("h", Plain("u64"), LiteralExpr("huge", 0))>>)}
=============================================================================
