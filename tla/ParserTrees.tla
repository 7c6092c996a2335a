---------------------------- MODULE ParserTrees ----------------------------
(***************************************************************************)
(* The trees that Parser makes, for every set of token sequences: they are *)
(* what module CodeGen assumes of its input.  The nodes that Parser has    *)
(* made so far are a set W that each step may add to; it holds the         *)
(* children of its members, so that no recursion over trees is needed.     *)
(***************************************************************************)
EXTENDS ParserProofs

IsValue(n) == n = Null \/ n.kind \in ExpressionKinds

\* What CodeGen assumes of a node whose children are in W (AstAssumption,
\* OperandAssumption, OperatorAssumption).
Visitable(n, W) == WellFormed(n, W) /\ OperandsHaveValues(n) /\ OperatorKnown(n)

(***************************************************************************)
(* The children of each kind of node, and the strings that are needed.     *)
(***************************************************************************)
LEMMA ChildrenOf ==
    /\ \A n : n.kind \in {"VarExpr", "LiteralExpr", "AllocExpr", "StructDecl",
                          "InterfaceDecl", "nullptr"} => Children(n) = <<>>
    /\ \A n : n.kind = "CallExpr" => Children(n) = n.arguments
    /\ \A n : n.kind = "BinaryExpr" => Children(n) = <<n.left, n.right>>
    /\ \A n : n.kind \in {"UnaryExpr", "PrefixExpr", "PostfixExpr"} =>
                 Children(n) = <<n.operand>>
    /\ \A n : n.kind = "CastExpr" => Children(n) = <<n.expr>>
    /\ \A n : n.kind \in {"AssignExpr", "ReturnStatement"} => Children(n) = <<n.value>>
    /\ \A n : n.kind = "MemberAccessExpr" => Children(n) = <<n.object>>
    /\ \A n : n.kind = "IfStatement" =>
                 Children(n) = <<n.condition, n.thenBranch, n.elseBranch>>
    /\ \A n : n.kind = "WhileStatement" => Children(n) = <<n.condition, n.body>>
    /\ \A n : n.kind = "ForStatement" =>
                 Children(n) = <<n.init, n.condition, n.update, n.body>>
    /\ \A n : n.kind = "BlockStatement" => Children(n) = n.statements
    /\ \A n : n.kind = "ExprStatement" => Children(n) = <<n.expression>>
    /\ \A n : n.kind = "VariableDecl" => Children(n) = <<n.initializer>>
    /\ \A n : n.kind = "FunctionDecl" => Children(n) = <<n.body>>
BY DEF Children

LEMMA OperandsOf ==
    /\ \A n : n.kind \in ExpressionKinds \cup {"ReturnStatement", "VariableDecl"} =>
                 Operands(n) = Children(n)
    /\ \A n : n.kind \in {"IfStatement", "WhileStatement", "ForStatement"} =>
                 Operands(n) = <<n.condition>>
    /\ \A n : n.kind \in {"BlockStatement", "ExprStatement", "FunctionDecl", "StructDecl",
                          "InterfaceDecl", "nullptr"} => Operands(n) = <<>>
BY DEF Operands, ExpressionKinds

LEMMA Texts ==
    /\ \A kind \in NodeKinds : kind \in STRING
    /\ \A op \in BinaryOperators : op \in STRING
    /\ "none" \in STRING /\ "void" \in STRING
BY StringAssumption

\* A node without children.
LEMMA Leaves ==
    ASSUME NEW W
    PROVE  /\ Visitable(Null, W) /\ IsValue(Null)
           /\ \A name \in STRING : Visitable(VarExpr(name), W)
           /\ \A value \in [class : STRING, num : Int] :
                 Visitable(LiteralExpr(value.class, value.num), W)
           /\ \A type \in TypeRefs : Visitable(AllocExpr(type), W)
           /\ \A name \in STRING : \A implemented : \A fields \in Seq(StructFields) :
                 Visitable(StructDecl(name, implemented, fields), W)
           /\ \A name : \A methods : Visitable(InterfaceDecl(name, methods), W)
<1>1. ASSUME NEW n, n.kind \in {"VarExpr", "LiteralExpr", "AllocExpr", "StructDecl",
                               "InterfaceDecl", "nullptr"}
      PROVE  /\ Children(n) = <<>> /\ Children(n) \in Seq(W) /\ n.kind \in STRING
             /\ OperandsHaveValues(n) /\ OperatorKnown(n)
  <2>1. Children(n) = <<>>
    BY <1>1, ChildrenOf
  <2>2. Operands(n) = <<>>
    BY <1>1, <2>1, OperandsOf DEF ExpressionKinds
  <2>3. n.kind \in STRING
    BY <1>1, Texts DEF NodeKinds, ExpressionKinds
  <2>4. OperandsHaveValues(n) /\ OperatorKnown(n)
    BY <1>1, <2>2 DEF OperandsHaveValues, OperatorKnown
  <2>. QED
    BY <2>1, <2>3, <2>4
<1>2. Visitable(Null, W) /\ IsValue(Null)
  BY <1>1 DEF Null, Visitable, WellFormed, IsValue
<1>3. \A name \in STRING : Visitable(VarExpr(name), W)
  BY <1>1 DEF VarExpr, Visitable, WellFormed
<1>4. \A value \in [class : STRING, num : Int] :
         Visitable(LiteralExpr(value.class, value.num), W)
  BY <1>1 DEF LiteralExpr, Visitable, WellFormed
<1>5. \A type \in TypeRefs : Visitable(AllocExpr(type), W)
  BY <1>1 DEF AllocExpr, Visitable, WellFormed
<1>6. \A name \in STRING : \A implemented : \A fields \in Seq(StructFields) :
         Visitable(StructDecl(name, implemented, fields), W)
  BY <1>1 DEF StructDecl, Visitable, WellFormed
<1>7. \A name : \A methods : Visitable(InterfaceDecl(name, methods), W)
  BY <1>1 DEF InterfaceDecl, Visitable, WellFormed
<1>. QED
  BY <1>2, <1>3, <1>4, <1>5, <1>6, <1>7

\* An expression, whose operands are its children.
LEMMA Operations ==
    ASSUME NEW W
    PROVE  /\ \A l \in W : \A r \in W : \A op \in BinaryOperators :
                 IsValue(l) /\ IsValue(r) => Visitable(BinaryExpr(op, l, r), W)
           /\ \A n \in W : IsValue(n) =>
                 /\ \A op \in STRING : op \in {"!", "~"} => Visitable(UnaryExpr(op, n), W)
                 /\ \A op \in STRING : op \in {"++", "--"} =>
                       Visitable(PrefixExpr(op, n), W) /\ Visitable(PostfixExpr(op, n), W)
                 /\ \A type \in TypeRefs : Visitable(CastExpr(type, n), W)
                 /\ \A name \in STRING : Visitable(AssignExpr(name, n), W)
                 /\ \A name \in STRING : Visitable(MemberAccessExpr(n, name), W)
           /\ \A callee \in STRING : \A arguments \in Seq({n \in W : IsValue(n)}) :
                 Visitable(CallExpr(callee, arguments), W)
<1>. DEFINE V == {n \in W : IsValue(n)}
<1>1. ASSUME NEW n, n.kind \in ExpressionKinds, Children(n) \in Seq(V)
      PROVE  Children(n) \in Seq(W) /\ n.kind \in STRING /\ OperandsHaveValues(n)
  <2>1. \A k \in DOMAIN Children(n) : Children(n)[k] \in V
    <3>. HIDE DEF V
    <3>. QED
      BY <1>1, ElementOfSeq, LenProperties
  <2>2. Children(n) \in Seq(W)
    <3>1. V \subseteq W
      OBVIOUS
    <3>. HIDE DEF V
    <3>. QED
      BY <1>1, <3>1, SeqMonotonic
  <2>3. Operands(n) = Children(n)
    BY <1>1, OperandsOf
  <2>. QED
    BY <1>1, <2>1, <2>2, <2>3, Texts DEF OperandsHaveValues, IsValue, NodeKinds
<1>2. ASSUME NEW l \in V, NEW r \in V
      PROVE  <<l, r>> \in Seq(V) /\ <<l>> \in Seq(V)
  <2>. HIDE DEF V
  <2>. QED
    BY <1>2
<1>3. ASSUME NEW l \in V, NEW r \in V, NEW op \in BinaryOperators
      PROVE  Visitable(BinaryExpr(op, l, r), W)
  <2>. DEFINE n == BinaryExpr(op, l, r)
  <2>1. n.kind = "BinaryExpr" /\ n.op = op /\ n.left = l /\ n.right = r
    BY DEF BinaryExpr
  <2>. HIDE DEF n
  <2>2. Children(n) = <<l, r>> /\ n.kind \in ExpressionKinds
    BY <2>1, ChildrenOf DEF ExpressionKinds
  <2>3. Children(n) \in Seq(W) /\ n.kind \in STRING /\ OperandsHaveValues(n)
    BY <1>1, <1>2, <2>2
  <2>4. WellFormed(n, W)
    BY <2>1, <2>3, Texts DEF WellFormed
  <2>5. OperatorKnown(n)
    BY <2>1 DEF OperatorKnown
  <2>. QED
    BY <2>3, <2>4, <2>5 DEF Visitable, n
<1>4. ASSUME NEW n, n.kind \in {"UnaryExpr", "PrefixExpr", "PostfixExpr"}, n.op \in STRING,
             n.operand \in V, OperatorKnown(n)
      PROVE  Visitable(n, W)
  <2>1. Children(n) = <<n.operand>> /\ n.kind \in ExpressionKinds
    BY <1>4, ChildrenOf DEF ExpressionKinds
  <2>2. Children(n) \in Seq(W) /\ n.kind \in STRING /\ OperandsHaveValues(n)
    BY <1>1, <1>2, <1>4, <2>1
  <2>3. WellFormed(n, W)
    BY <1>4, <2>2 DEF WellFormed
  <2>. QED
    BY <1>4, <2>2, <2>3 DEF Visitable
<1>5. ASSUME NEW n \in V, NEW op \in STRING
      PROVE  /\ op \in {"!", "~"} => Visitable(UnaryExpr(op, n), W)
             /\ op \in {"++", "--"} =>
                   Visitable(PrefixExpr(op, n), W) /\ Visitable(PostfixExpr(op, n), W)
  <2>. HIDE DEF V
  <2>1. op \in {"!", "~"} => Visitable(UnaryExpr(op, n), W)
    BY <1>4 DEF UnaryExpr, OperatorKnown
  <2>2. op \in {"++", "--"} => Visitable(PrefixExpr(op, n), W)
    BY <1>4 DEF PrefixExpr, OperatorKnown
  <2>3. op \in {"++", "--"} => Visitable(PostfixExpr(op, n), W)
    BY <1>4 DEF PostfixExpr, OperatorKnown
  <2>. QED
    BY <2>1, <2>2, <2>3
<1>6. ASSUME NEW n, NEW c \in V, n.kind \in {"CastExpr", "AssignExpr", "MemberAccessExpr"},
             n.kind = "CastExpr" => n.expr = c /\ n.targetType \in TypeRefs,
             n.kind = "AssignExpr" => n.value = c /\ n.name \in STRING,
             n.kind = "MemberAccessExpr" => n.object = c /\ n.memberName \in STRING
      PROVE  Visitable(n, W)
  <2>. HIDE DEF V
  <2>1. Children(n) = <<c>> /\ n.kind \in ExpressionKinds
    BY <1>6, ChildrenOf DEF ExpressionKinds
  <2>2. Children(n) \in Seq(W) /\ n.kind \in STRING /\ OperandsHaveValues(n)
    BY <1>1, <1>2, <2>1
  <2>3. WellFormed(n, W)
    BY <1>6, <2>2 DEF WellFormed
  <2>4. OperatorKnown(n)
    BY <1>6 DEF OperatorKnown
  <2>. QED
    BY <2>2, <2>3, <2>4 DEF Visitable
<1>7. ASSUME NEW n \in V
      PROVE  /\ \A type \in TypeRefs : Visitable(CastExpr(type, n), W)
             /\ \A name \in STRING : Visitable(AssignExpr(name, n), W)
             /\ \A name \in STRING : Visitable(MemberAccessExpr(n, name), W)
  <2>. HIDE DEF V
  <2>1. \A type \in TypeRefs : Visitable(CastExpr(type, n), W)
    BY <1>6 DEF CastExpr
  <2>2. \A name \in STRING : Visitable(AssignExpr(name, n), W)
    BY <1>6 DEF AssignExpr
  <2>3. \A name \in STRING : Visitable(MemberAccessExpr(n, name), W)
    BY <1>6 DEF MemberAccessExpr
  <2>. QED
    BY <2>1, <2>2, <2>3
<1>8. ASSUME NEW callee \in STRING, NEW arguments \in Seq(V)
      PROVE  Visitable(CallExpr(callee, arguments), W)
  <2>. DEFINE n == CallExpr(callee, arguments)
  <2>1. n.kind = "CallExpr" /\ n.callee = callee /\ n.arguments = arguments
    BY DEF CallExpr
  <2>. HIDE DEF n, V
  <2>2. Children(n) = arguments /\ n.kind \in ExpressionKinds
    BY <2>1, ChildrenOf DEF ExpressionKinds
  <2>3. Children(n) \in Seq(W) /\ n.kind \in STRING /\ OperandsHaveValues(n)
    BY <1>1, <2>2
  <2>4. WellFormed(n, W)
    BY <2>1, <2>3 DEF WellFormed
  <2>5. OperatorKnown(n)
    BY <2>1 DEF OperatorKnown
  <2>. QED
    BY <2>3, <2>4, <2>5 DEF Visitable, n
<1>. QED
  BY <1>3, <1>5, <1>7, <1>8

(***************************************************************************)
(* Statements and declarations.                                            *)
(***************************************************************************)
\* A node whose operands are none, or its first child.
LEMMA Compounds ==
    ASSUME NEW W
    PROVE  /\ \A c, t, e \in W : IsValue(c) => Visitable(IfStatement(c, t, e), W)
           /\ \A c, b \in W : IsValue(c) => Visitable(WhileStatement(c, b), W)
           /\ \A i, c, u, b \in W : IsValue(c) => Visitable(ForStatement(i, c, u, b), W)
           /\ \A statements \in Seq(W) : Visitable(BlockStatement(statements), W)
           /\ \A n \in W : Visitable(ExprStatement(n), W)
           /\ \A n \in W : IsValue(n) => Visitable(ReturnStatement(n), W)
           /\ \A name \in STRING, type \in TypeRefs, n \in W, isMutable \in BOOLEAN :
                 IsValue(n) => Visitable(VariableDecl(name, type, n, isMutable), W)
           /\ \A name \in STRING, params \in Seq(Parameters), type \in TypeRefs, n \in W :
                 Visitable(FunctionDecl(name, params, type, n), W)
<1>1. ASSUME NEW n, n.kind \in NodeKinds \ ExpressionKinds, Children(n) \in Seq(W),
             \/ Operands(n) = <<>>
             \/ \E c : Operands(n) = <<c>> /\ IsValue(c),
             n.kind = "VariableDecl" =>
                /\ n.name \in STRING /\ n.varType \in TypeRefs /\ n.isMutable \in BOOLEAN,
             n.kind = "FunctionDecl" =>
                /\ n.name \in STRING /\ n.params \in Seq(Parameters)
                /\ n.returnType \in TypeRefs,
             n.kind # "StructDecl"
      PROVE  Visitable(n, W)
  <2>1. n.kind \in STRING
    BY <1>1, Texts
  <2>2. n.kind \notin ExpressionKinds
    BY <1>1
  <2>3. WellFormed(n, W)
    BY <1>1, <2>1, <2>2 DEF WellFormed, ExpressionKinds
  <2>4. OperandsHaveValues(n)
    <3>1. CASE Operands(n) = <<>>
      BY <3>1 DEF OperandsHaveValues
    <3>2. CASE \E c : Operands(n) = <<c>> /\ IsValue(c)
      BY <3>2 DEF OperandsHaveValues, IsValue
    <3>. QED
      BY <1>1, <3>1, <3>2
  <2>5. OperatorKnown(n)
    BY <2>2 DEF OperatorKnown, ExpressionKinds
  <2>. QED
    BY <2>3, <2>4, <2>5 DEF Visitable
<1>2. \A a, b, c, d \in W : /\ <<a>> \in Seq(W) /\ <<a, b>> \in Seq(W)
                            /\ <<a, b, c>> \in Seq(W) /\ <<a, b, c, d>> \in Seq(W)
  OBVIOUS
<1>0. {"IfStatement", "WhileStatement", "ForStatement", "BlockStatement",
       "ExprStatement", "ReturnStatement", "VariableDecl", "FunctionDecl"}
      \subseteq NodeKinds \ ExpressionKinds
  BY DEF NodeKinds, ExpressionKinds
<1>3. ASSUME NEW c \in W, NEW t \in W, NEW e \in W, IsValue(c)
      PROVE  Visitable(IfStatement(c, t, e), W)
  <2>. DEFINE n == IfStatement(c, t, e)
  <2>1. n.kind = "IfStatement" /\ n.condition = c /\ n.thenBranch = t /\ n.elseBranch = e
    BY DEF IfStatement
  <2>. HIDE DEF n
  <2>2. Children(n) = <<c, t, e>> /\ Operands(n) = <<c>>
    BY <2>1, ChildrenOf, OperandsOf
  <2>3. Visitable(n, W)
    BY <1>0, <1>1, <1>2, <1>3, <2>1, <2>2
  <2>. QED
    BY <2>3 DEF n
<1>4. ASSUME NEW c \in W, NEW b \in W, IsValue(c)
      PROVE  Visitable(WhileStatement(c, b), W)
  <2>. DEFINE n == WhileStatement(c, b)
  <2>1. n.kind = "WhileStatement" /\ n.condition = c /\ n.body = b
    BY DEF WhileStatement
  <2>. HIDE DEF n
  <2>2. Children(n) = <<c, b>> /\ Operands(n) = <<c>>
    BY <2>1, ChildrenOf, OperandsOf
  <2>3. Visitable(n, W)
    BY <1>0, <1>1, <1>2, <1>4, <2>1, <2>2
  <2>. QED
    BY <2>3 DEF n
<1>5. ASSUME NEW i \in W, NEW c \in W, NEW u \in W, NEW b \in W, IsValue(c)
      PROVE  Visitable(ForStatement(i, c, u, b), W)
  <2>. DEFINE n == ForStatement(i, c, u, b)
  <2>1. /\ n.kind = "ForStatement" /\ n.init = i /\ n.condition = c /\ n.update = u
        /\ n.body = b
    BY DEF ForStatement
  <2>. HIDE DEF n
  <2>2. Children(n) = <<i, c, u, b>> /\ Operands(n) = <<c>>
    BY <2>1, ChildrenOf, OperandsOf
  <2>3. Children(n) \in Seq(W)
    BY <1>2, <1>5, <2>2
  <2>4. n.kind \in NodeKinds \ ExpressionKinds
    BY <1>0, <2>1
  <2>5. Visitable(n, W)
    BY <1>1, <1>5, <2>1, <2>2, <2>3, <2>4
  <2>. QED
    BY <2>5 DEF n
<1>6. ASSUME NEW statements \in Seq(W)
      PROVE  Visitable(BlockStatement(statements), W)
  <2>. DEFINE n == BlockStatement(statements)
  <2>1. n.kind = "BlockStatement" /\ n.statements = statements
    BY DEF BlockStatement
  <2>. HIDE DEF n
  <2>2. Children(n) = statements /\ Operands(n) = <<>>
    BY <2>1, ChildrenOf, OperandsOf
  <2>3. Visitable(n, W)
    BY <1>0, <1>1, <1>6, <2>1, <2>2
  <2>. QED
    BY <2>3 DEF n
<1>7. ASSUME NEW c \in W
      PROVE  Visitable(ExprStatement(c), W)
  <2>. DEFINE n == ExprStatement(c)
  <2>1. n.kind = "ExprStatement" /\ n.expression = c
    BY DEF ExprStatement
  <2>. HIDE DEF n
  <2>2. Children(n) = <<c>> /\ Operands(n) = <<>>
    BY <2>1, ChildrenOf, OperandsOf
  <2>3. Visitable(n, W)
    BY <1>0, <1>1, <1>2, <2>1, <2>2
  <2>. QED
    BY <2>3 DEF n
<1>8. ASSUME NEW c \in W, IsValue(c)
      PROVE  Visitable(ReturnStatement(c), W)
  <2>. DEFINE n == ReturnStatement(c)
  <2>1. n.kind = "ReturnStatement" /\ n.value = c
    BY DEF ReturnStatement
  <2>. HIDE DEF n
  <2>2. Children(n) = <<c>> /\ Operands(n) = <<c>>
    BY <2>1, ChildrenOf, OperandsOf
  <2>3. Visitable(n, W)
    BY <1>0, <1>1, <1>2, <1>8, <2>1, <2>2
  <2>. QED
    BY <2>3 DEF n
<1>9. ASSUME NEW name \in STRING, NEW type \in TypeRefs, NEW c \in W,
             NEW isMutable \in BOOLEAN, IsValue(c)
      PROVE  Visitable(VariableDecl(name, type, c, isMutable), W)
  <2>. DEFINE n == VariableDecl(name, type, c, isMutable)
  <2>1. /\ n.kind = "VariableDecl" /\ n.name = name /\ n.varType = type
        /\ n.initializer = c /\ n.isMutable = isMutable
    BY DEF VariableDecl
  <2>. HIDE DEF n
  <2>2. Children(n) = <<c>> /\ Operands(n) = <<c>>
    BY <2>1, ChildrenOf, OperandsOf
  <2>3. Visitable(n, W)
    BY <1>0, <1>1, <1>2, <1>9, <2>1, <2>2
  <2>. QED
    BY <2>3 DEF n
<1>10. ASSUME NEW name \in STRING, NEW params \in Seq(Parameters), NEW type \in TypeRefs,
              NEW c \in W
       PROVE  Visitable(FunctionDecl(name, params, type, c), W)
  <2>. DEFINE n == FunctionDecl(name, params, type, c)
  <2>1. /\ n.kind = "FunctionDecl" /\ n.name = name /\ n.params = params
        /\ n.returnType = type /\ n.body = c
    BY DEF FunctionDecl
  <2>. HIDE DEF n
  <2>2. Children(n) = <<c>> /\ Operands(n) = <<>>
    BY <2>1, ChildrenOf, OperandsOf
  <2>3. Visitable(n, W)
    BY <1>0, <1>1, <1>2, <1>10, <2>1, <2>2
  <2>. QED
    BY <2>3 DEF n
<1>. QED
  BY <1>3, <1>4, <1>5, <1>6, <1>7, <1>8, <1>9, <1>10

(***************************************************************************)
(* What is known of the members of a node.                                 *)
(***************************************************************************)
LEMMA Wider ==
    ASSUME NEW W, NEW V, W \subseteq V, NEW n, Visitable(n, W)
    PROVE  Visitable(n, V)
<1>1. Children(n) \in Seq(W) => Children(n) \in Seq(V)
  BY SeqMonotonic
<1>. QED
  BY <1>1 DEF Visitable, WellFormed

LEMMA Members ==
    ASSUME NEW W, NEW n, Visitable(n, W)
    PROVE  /\ n.kind = "IfStatement" =>
                 n.condition \in W /\ n.thenBranch \in W /\ IsValue(n.condition)
           /\ n.kind = "WhileStatement" => n.condition \in W /\ IsValue(n.condition)
           /\ n.kind = "ForStatement" =>
                 /\ n.init \in W /\ n.condition \in W /\ n.update \in W
                 /\ IsValue(n.condition)
           /\ n.kind = "BlockStatement" => n.statements \in Seq(W)
           /\ n.kind = "CallExpr" =>
                 n.callee \in STRING /\ n.arguments \in Seq({c \in W : IsValue(c)})
           /\ n.kind = "BinaryExpr" =>
                 n.op \in BinaryOperators /\ n.left \in W /\ IsValue(n.left)
           /\ n.kind = "UnaryExpr" => n.op \in STRING /\ n.op \in {"!", "~"}
           /\ n.kind = "PrefixExpr" => n.op \in STRING /\ n.op \in {"++", "--"}
           /\ n.kind = "CastExpr" => n.targetType \in TypeRefs
           /\ n.kind = "VarExpr" => n.name \in STRING
           /\ n.kind = "VariableDecl" =>
                 /\ n.name \in STRING /\ n.varType \in TypeRefs
                 /\ n.isMutable \in BOOLEAN
           /\ n.kind = "FunctionDecl" =>
                 /\ n.name \in STRING /\ n.params \in Seq(Parameters)
                 /\ n.returnType \in TypeRefs
           /\ n.kind = "StructDecl" => n.name \in STRING /\ n.fields \in Seq(StructFields)
<1>1. WellFormed(n, W) /\ OperandsHaveValues(n) /\ OperatorKnown(n)
  BY DEF Visitable
<1>2. \A k \in DOMAIN Children(n) : Children(n)[k] \in W
  <2>1. Children(n) \in Seq(W)
    BY <1>1 DEF WellFormed
  <2>. QED
    BY <2>1, ElementOfSeq, LenProperties
<1>3. \A k \in DOMAIN Operands(n) : IsValue(Operands(n)[k])
  BY <1>1 DEF OperandsHaveValues, IsValue
<1>4. n.kind = "IfStatement" =>
         n.condition \in W /\ n.thenBranch \in W /\ IsValue(n.condition)
  <2>. SUFFICES ASSUME n.kind = "IfStatement"
                PROVE  n.condition \in W /\ n.thenBranch \in W /\ IsValue(n.condition)
    OBVIOUS
  <2>1. /\ Children(n) = <<n.condition, n.thenBranch, n.elseBranch>>
        /\ Operands(n) = <<n.condition>>
    BY ChildrenOf, OperandsOf
  <2>. QED
    BY <1>2, <1>3, <2>1
<1>5. n.kind = "WhileStatement" => n.condition \in W /\ IsValue(n.condition)
  <2>. SUFFICES ASSUME n.kind = "WhileStatement"
                PROVE  n.condition \in W /\ IsValue(n.condition)
    OBVIOUS
  <2>1. Children(n) = <<n.condition, n.body>> /\ Operands(n) = <<n.condition>>
    BY ChildrenOf, OperandsOf
  <2>. QED
    BY <1>2, <1>3, <2>1
<1>6. n.kind = "ForStatement" =>
         n.init \in W /\ n.condition \in W /\ n.update \in W /\ IsValue(n.condition)
  <2>. SUFFICES ASSUME n.kind = "ForStatement"
                PROVE  /\ n.init \in W /\ n.condition \in W /\ n.update \in W
                       /\ IsValue(n.condition)
    OBVIOUS
  <2>1. /\ Children(n) = <<n.init, n.condition, n.update, n.body>>
        /\ Operands(n) = <<n.condition>>
    BY ChildrenOf, OperandsOf
  <2>2. n.init \in W /\ n.condition \in W /\ n.update \in W
    BY <1>2, <2>1
  <2>3. IsValue(n.condition)
    BY <1>3, <2>1
  <2>. QED
    BY <2>2, <2>3
<1>7. n.kind = "BlockStatement" => n.statements \in Seq(W)
  BY <1>1, ChildrenOf DEF WellFormed
<1>8. n.kind = "CallExpr" =>
         n.callee \in STRING /\ n.arguments \in Seq({c \in W : IsValue(c)})
  <2>. SUFFICES ASSUME n.kind = "CallExpr"
                PROVE  n.callee \in STRING /\ n.arguments \in Seq({c \in W : IsValue(c)})
    OBVIOUS
  <2>1. Children(n) = n.arguments /\ Operands(n) = n.arguments
    BY ChildrenOf, OperandsOf DEF ExpressionKinds
  <2>2. n.arguments \in Seq(W) /\ n.callee \in STRING
    BY <1>1, <2>1 DEF WellFormed
  <2>3. /\ DOMAIN n.arguments = 1..Len(n.arguments) /\ Len(n.arguments) \in Nat
        /\ n.arguments \in [1..Len(n.arguments) -> W]
    BY <2>2, LenProperties
  <2>4. \A k \in 1..Len(n.arguments) : n.arguments[k] \in {c \in W : IsValue(c)}
    BY <1>2, <1>3, <2>1, <2>3
  <2>5. n.arguments \in [1..Len(n.arguments) -> {c \in W : IsValue(c)}]
    BY <2>3, <2>4
  <2>. QED
    BY <2>2, <2>3, <2>5, SeqDef
<1>9. n.kind = "BinaryExpr" =>
         n.op \in BinaryOperators /\ n.left \in W /\ IsValue(n.left)
  <2>. SUFFICES ASSUME n.kind = "BinaryExpr"
                PROVE  n.op \in BinaryOperators /\ n.left \in W /\ IsValue(n.left)
    OBVIOUS
  <2>1. Children(n) = <<n.left, n.right>> /\ Operands(n) = <<n.left, n.right>>
    BY ChildrenOf, OperandsOf DEF ExpressionKinds
  <2>2. n.op \in BinaryOperators
    BY <1>1 DEF OperatorKnown
  <2>. QED
    BY <1>2, <1>3, <2>1, <2>2
<1>10. /\ n.kind = "UnaryExpr" => n.op \in STRING /\ n.op \in {"!", "~"}
       /\ n.kind = "PrefixExpr" => n.op \in STRING /\ n.op \in {"++", "--"}
       /\ n.kind = "CastExpr" => n.targetType \in TypeRefs
       /\ n.kind = "VarExpr" => n.name \in STRING
  BY <1>1 DEF WellFormed, OperatorKnown
<1>11. /\ n.kind = "VariableDecl" =>
             n.name \in STRING /\ n.varType \in TypeRefs /\ n.isMutable \in BOOLEAN
       /\ n.kind = "FunctionDecl" =>
             /\ n.name \in STRING /\ n.params \in Seq(Parameters)
             /\ n.returnType \in TypeRefs
       /\ n.kind = "StructDecl" => n.name \in STRING /\ n.fields \in Seq(StructFields)
  BY <1>1 DEF WellFormed
<1>. QED
  BY <1>4, <1>5, <1>6, <1>7, <1>8, <1>9, <1>10, <1>11

(***************************************************************************)
(* The invariant.  A task that waits holds a node whose children so far    *)
(* have been made.                                                         *)
(***************************************************************************)
\* The tasks that leave an expression, or null, behind.
Values ==
    {"Expression", "Unary", "Primary", "Operators", "Right", "Assignment", "Compound",
     "Assign", "CompoundAssign", "Operand", "Postfix", "Cast", "Group", "Argument",
     "Members"}

\* The tasks that take what was returned for one.
Users ==
    (Values \ {"Expression", "Unary", "Primary"})
        \cup {"ReturnValue", "Initializer", "IfCondition", "WhileCondition",
              "ForConditionEnd"}

Fits(t, W) ==
    /\ Visitable(t.node, W)
    /\ t.do = "Methods" => t.node.kind = "InterfaceDecl"
    /\ t.do = "Fields" => t.node.kind = "StructDecl"
    /\ t.do \in {"Parameter", "Signature", "Body"} => t.node.kind = "FunctionDecl"
    /\ t.do \in {"Statements", "AddStatement"} => t.node.kind = "BlockStatement"
    /\ t.do = "Initializer" => t.node.kind = "VariableDecl"
    /\ t.do \in {"IfThen", "IfElse"} => t.node.kind = "IfStatement"
    /\ t.do = "WhileBody" => t.node.kind = "WhileStatement"
    /\ t.do \in {"ForCondition", "ForConditionEnd", "ForUpdate", "ForUpdateEnd", "ForBody"} =>
          t.node.kind = "ForStatement"
    /\ t.do \in {"Right", "CompoundAssign"} => t.node.kind = "BinaryExpr"
    /\ t.do = "Operand" => t.node.kind \in {"UnaryExpr", "PrefixExpr"}
    /\ t.do = "Cast" => t.node.kind = "CastExpr"
    /\ t.do = "Argument" => t.node.kind = "CallExpr"
    /\ t.do = "Assign" => t.node \in W /\ IsValue(t.node)

\* In an agenda, what is taken for an expression comes from a task that leaves one.
Handed(tasks) ==
    \A k \in DOMAIN tasks :
        k + 1 \in DOMAIN tasks /\ tasks[k + 1].do \in Users => tasks[k].do \in Values

TopLevelKinds == {"FunctionDecl", "StructDecl", "InterfaceDecl"}

\* W is a set of nodes that holds all that have been made, and is what CodeGen
\* assumes its nodes to be.
Made(W) ==
    /\ Null \in W /\ returned \in W
    /\ \A k \in DOMAIN program :
          /\ program[k] \in W
          /\ program[k].kind \in TopLevelKinds
    /\ \A n \in W : Visitable(n, W)
    /\ errors = {} => \A n \in W : ~Hole(n)
    /\ \A k \in DOMAIN todo : Fits(todo[k], W)
    /\ Handed(todo)
    /\ todo # <<>> /\ Top.do \in Users => IsValue(returned)

\* Another node is made.
LEMMA Grows ==
    ASSUME NEW W, Made(W), NEW n, Visitable(n, W), errors = {} => ~Hole(n)
    PROVE  Made(W \cup {n})
<1>. DEFINE V == W \cup {n}
<1>1. W \subseteq V /\ n \in V
  OBVIOUS
<1>2. \A m \in V : m \in W \/ m = n
  OBVIOUS
<1>. HIDE DEF V
<1>3. \A m \in V : Visitable(m, V)
  BY <1>1, <1>2, Wider DEF Made
<1>4. errors = {} => \A m \in V : ~Hole(m)
  BY <1>2 DEF Made
<1>5. \A k \in DOMAIN todo : Fits(todo[k], V)
  BY <1>1, Wider DEF Made, Fits
<1>6. Made(V)
  BY <1>1, <1>3, <1>4, <1>5 DEF Made
<1>. QED
  BY <1>6 DEF V

\* The agenda when the first task of s has been replaced by t.
LEMMA Spliced ==
    ASSUME NEW s, IsSeq(s), s # <<>>, NEW t, IsSeq(t)
    PROVE  /\ Len(s) \in Nat /\ Len(t) \in Nat /\ Len(s) > 0
           /\ DOMAIN s = 1..Len(s) /\ DOMAIN t = 1..Len(t)
           /\ DOMAIN (t \o Tail(s)) = 1..(Len(t) + Len(s) - 1)
           /\ \A k \in 1..Len(t) : (t \o Tail(s))[k] = t[k]
           /\ \A k \in 2..Len(s) : (t \o Tail(s))[Len(t) + k - 1] = s[k]
           /\ Head(s) = s[1]
           /\ t # <<>> <=> Len(t) > 0
           /\ t \o Tail(s) # <<>> => Head(t \o Tail(s)) = (t \o Tail(s))[1]
<1>. DEFINE T == {s[k] : k \in DOMAIN s} \cup {t[k] : k \in DOMAIN t}
<1>1. s \in Seq(T) /\ t \in Seq(T)
  BY SeqMonotonic DEF IsSeq
<1>. HIDE DEF T
<1>2. /\ Len(s) \in Nat /\ Len(s) > 0 /\ DOMAIN s = 1..Len(s)
      /\ Len(t) \in Nat /\ DOMAIN t = 1..Len(t)
      /\ t # <<>> <=> Len(t) > 0
  BY <1>1, EmptySeq, LenProperties
<1>3. /\ Tail(s) \in Seq(T) /\ Len(Tail(s)) = Len(s) - 1
      /\ \A k \in 1..(Len(s) - 1) : Tail(s)[k] = s[k + 1]
      /\ Head(s) = s[1]
  BY <1>1, HeadTailProperties
<1>4. /\ t \o Tail(s) \in Seq(T) /\ Len(t \o Tail(s)) = Len(t) + Len(s) - 1
      /\ \A k \in 1..(Len(t) + Len(s) - 1) :
            (t \o Tail(s))[k] = IF k <= Len(t) THEN t[k] ELSE Tail(s)[k - Len(t)]
  BY <1>1, <1>2, <1>3, ConcatProperties
<1>5. DOMAIN (t \o Tail(s)) = 1..(Len(t) + Len(s) - 1)
  BY <1>4, LenProperties
<1>6. \A k \in 1..Len(t) : (t \o Tail(s))[k] = t[k]
  BY <1>2, <1>4
<1>7. ASSUME NEW k \in 2..Len(s)
      PROVE  (t \o Tail(s))[Len(t) + k - 1] = s[k]
  <2>1. /\ Len(t) + k - 1 \in 1..(Len(t) + Len(s) - 1) /\ ~(Len(t) + k - 1 <= Len(t))
        /\ Len(t) + k - 1 - Len(t) = k - 1 /\ k - 1 \in 1..(Len(s) - 1) /\ k - 1 + 1 = k
    BY <1>2
  <2>. QED
    BY <1>3, <1>4, <2>1
<1>8. t \o Tail(s) # <<>> => Head(t \o Tail(s)) = (t \o Tail(s))[1]
  BY <1>4, HeadTailProperties
<1>. QED
  BY <1>2, <1>3, <1>5, <1>6, <1>7, <1>8

\* The tasks in t, of which the last stands for the task do they replace, with n
\* as what was returned.
Fitting(do, n, t, W) ==
    /\ IsSeq(t) /\ \A k \in DOMAIN t : Fits(t[k], W)
    /\ Handed(t)
    /\ t # <<>> /\ t[1].do \in Users => IsValue(n)
    /\ do \in Values => IF t = <<>> THEN IsValue(n) ELSE t[Len(t)].do \in Values

LEMMA Replaced ==
    ASSUME NEW W, Made(W), Inv, Inv', todo # <<>>,
           NEW n, Visitable(n, W), NEW t, Fitting(Top.do, n, t, W),
           returned' = n, todo' = t \o Tail(todo), errors \subseteq errors',
           \/ program' = program
           \/ /\ program' = Append(program, n)
              /\ n.kind \in TopLevelKinds
    PROVE  \E V : Made(V)'
<1>. DEFINE V == W \cup {n}
<1>1. W \subseteq V /\ n \in V
  OBVIOUS
<1>2. \A m \in V : m \in W \/ m = n
  OBVIOUS
<1>. HIDE DEF V
<1>3. Null \in V /\ returned' \in V
  BY <1>1 DEF Made
<1>4. \A m \in V : Visitable(m, V)
  BY <1>1, <1>2, Wider DEF Made
<1>5. errors' = {} => \A m \in V : ~Hole(m)
  <2>1. errors' = {} => errors = {} /\ ~Hole(n)
    BY DEF Inv, HolesReported, Hole
  <2>. QED
    BY <1>2, <2>1 DEF Made
<1>6. \A k \in DOMAIN program' :
         /\ program'[k] \in V
         /\ program'[k].kind \in TopLevelKinds
  <2>1. IsSeq(program)
    BY DEF Inv
  <2>2. \A k \in DOMAIN program :
           /\ program[k] \in V
           /\ program[k].kind \in TopLevelKinds
    BY <1>1 DEF Made
  <2>3. CASE program' = program
    BY <2>2, <2>3
  <2>4. CASE /\ program' = Append(program, n)
             /\ n.kind \in TopLevelKinds
    <3>1. \A k \in DOMAIN Append(program, n) :
             \/ Append(program, n)[k] = n
             \/ \E j \in DOMAIN program : Append(program, n)[k] = program[j]
      BY <2>1, Appending
    <3>. QED
      BY <1>1, <2>2, <2>4, <3>1
  <2>. QED
    BY <2>3, <2>4
<1>7. IsSeq(todo) /\ IsSeq(t) /\ Top = Head(todo)
  BY DEF Inv, AgendaOK, Fitting, Top
<1>8. /\ Len(todo) \in Nat /\ Len(t) \in Nat /\ Len(todo) > 0
      /\ DOMAIN todo = 1..Len(todo) /\ DOMAIN t = 1..Len(t)
      /\ DOMAIN todo' = 1..(Len(t) + Len(todo) - 1)
      /\ \A k \in 1..Len(t) : todo'[k] = t[k]
      /\ \A k \in 2..Len(todo) : todo'[Len(t) + k - 1] = todo[k]
      /\ Top = todo[1]
      /\ t # <<>> <=> Len(t) > 0
      /\ todo' # <<>> => Top' = todo'[1]
  BY <1>7, Spliced DEF Top
<1>9. ASSUME NEW k \in DOMAIN todo', ~(k \in 1..Len(t))
      PROVE  /\ k - Len(t) + 1 \in 2..Len(todo) /\ k - Len(t) + 1 \in DOMAIN todo
             /\ todo'[k] = todo[k - Len(t) + 1]
  <2>1. /\ k \in 1..(Len(t) + Len(todo) - 1)
        /\ Len(t) + (k - Len(t) + 1) - 1 = k
        /\ k - Len(t) + 1 \in 2..Len(todo)
    BY <1>8, <1>9
  <2>. QED
    BY <1>8, <2>1
<1>10. \A k \in DOMAIN todo' : Fits(todo'[k], V)
  <2>1. \A u : Fits(u, W) => Fits(u, V)
    BY <1>1, Wider DEF Fits
  <2>2. \A k \in 1..Len(t) : Fits(todo'[k], V)
    BY <1>8, <2>1 DEF Fitting
  <2>3. ASSUME NEW k \in DOMAIN todo', ~(k \in 1..Len(t))
        PROVE  Fits(todo'[k], V)
    BY <1>9, <2>1, <2>3 DEF Made
  <2>. QED
    BY <2>2, <2>3
\* The second task of the agenda takes over from Top or from what replaces it.
<1>11. ASSUME 2 \in DOMAIN todo, todo[2].do \in Users
       PROVE  Top.do \in Values
  <2>1. 1 \in DOMAIN todo /\ 1 + 1 = 2
    BY <1>8
  <2>. QED
    BY <1>8, <1>11, <2>1 DEF Made, Handed
<1>12. Handed(todo')
  <2>. SUFFICES ASSUME NEW k \in DOMAIN todo', k + 1 \in DOMAIN todo',
                       todo'[k + 1].do \in Users
                PROVE  todo'[k].do \in Values
    BY DEF Handed
  <2>0. k \in Nat /\ k >= 1
    BY <1>8
  <2>1. CASE k + 1 \in 1..Len(t)
    <3>1. k \in 1..Len(t)
      BY <1>8, <2>0, <2>1
    <3>. QED
      BY <1>8, <2>1, <3>1 DEF Fitting, Handed
  <2>2. CASE k + 1 \notin 1..Len(t) /\ k \in 1..Len(t)
    <3>1. k = Len(t) /\ k + 1 - Len(t) + 1 = 2
      BY <1>8, <2>0, <2>2
    <3>2. 2 \in DOMAIN todo /\ todo'[k + 1] = todo[2]
      BY <1>9, <2>2, <3>1
    <3>3. Top.do \in Values /\ t # <<>>
      BY <1>8, <1>11, <2>2, <3>1, <3>2
    <3>. QED
      BY <1>8, <2>2, <3>1, <3>3 DEF Fitting
  <2>3. CASE k + 1 \notin 1..Len(t) /\ k \notin 1..Len(t)
    <3>. DEFINE j == k - Len(t) + 1
    <3>1. j \in DOMAIN todo /\ todo'[k] = todo[j]
      BY <1>9, <2>3
    <3>2. k + 1 - Len(t) + 1 = j + 1
      BY <1>8, <2>0
    <3>3. j + 1 \in DOMAIN todo /\ todo'[k + 1] = todo[j + 1]
      BY <1>9, <2>3, <3>2
    <3>. HIDE DEF j
    <3>. QED
      BY <3>1, <3>3 DEF Made, Handed
  <2>. QED
    BY <2>1, <2>2, <2>3
<1>13. todo' # <<>> /\ Top'.do \in Users => IsValue(returned')
  <2>. SUFFICES ASSUME todo' # <<>>, Top'.do \in Users
                PROVE  IsValue(n)
    OBVIOUS
  <2>1. CASE t # <<>>
    BY <1>8, <2>1 DEF Fitting
  <2>2. CASE t = <<>>
    <3>1. Len(t) = 0
      BY <1>8, <2>2
    <3>2. 1 \in DOMAIN todo'
      <4>1. IsSeq(todo')
        BY DEF Inv, AgendaOK
      <4>. QED
        BY <4>1, EmptySeq, LenProperties DEF IsSeq
    <3>3. 1 - Len(t) + 1 = 2 /\ ~(1 \in 1..Len(t))
      BY <3>1
    <3>4. 2 \in DOMAIN todo /\ todo'[1] = todo[2]
      BY <1>9, <3>2, <3>3
    <3>5. Top.do \in Values
      BY <1>8, <1>11, <3>4
    <3>. QED
      BY <2>2, <3>5 DEF Fitting
  <2>. QED
    BY <2>1, <2>2
<1>14. Made(V)'
  BY <1>3, <1>4, <1>5, <1>6, <1>10, <1>12, <1>13 DEF Made, Handed
<1>. QED
  BY <1>14

(***************************************************************************)
(* The ways to go on.                                                      *)
(***************************************************************************)
Grown == \E V : Made(V)'

\* What replaces a task is one, two or three others.
LEMMA Chains ==
    ASSUME NEW W, NEW do, NEW n
    PROVE  /\ (do \in Values => IsValue(n)) => Fitting(do, n, <<>>, W)
           /\ \A t : /\ Fits(t, W) /\ (t.do \in Users => IsValue(n))
                    /\ (do \in Values => t.do \in Values)
                   => Fitting(do, n, <<t>>, W)
           /\ \A t, u : /\ Fits(t, W) /\ (t.do \in Users => IsValue(n))
                       /\ Fits(u, W) /\ (u.do \in Users => t.do \in Values)
                       /\ (do \in Values => u.do \in Values)
                      => Fitting(do, n, <<t, u>>, W)
           /\ \A t, u, v : /\ Fits(t, W) /\ (t.do \in Users => IsValue(n))
                          /\ Fits(u, W) /\ (u.do \in Users => t.do \in Values)
                          /\ Fits(v, W) /\ (v.do \in Users => u.do \in Values)
                          /\ (do \in Values => v.do \in Values)
                         => Fitting(do, n, <<t, u, v>>, W)
<1>1. ASSUME NEW t
      PROVE  /\ IsSeq(<<>>) /\ IsSeq(<<t>>)
             /\ \A u : IsSeq(<<t, u>>)
             /\ \A u, v : IsSeq(<<t, u, v>>)
  <2>1. ASSUME NEW u, NEW v
        PROVE  <<t, u, v>> \in Seq({t, u, v})
    <3>. DEFINE S == {t, u, v}
    <3>1. t \in S /\ u \in S /\ v \in S
      OBVIOUS
    <3>. HIDE DEF S
    <3>2. <<t, u, v>> \in Seq(S)
      BY <3>1
    <3>. QED
      BY <3>2 DEF S
  <2>. QED
    BY <2>1, Pair, IsSeqOf DEF IsSeq
<1>2. (do \in Values => IsValue(n)) => Fitting(do, n, <<>>, W)
  <2>1. IsSeq(<<>>) /\ DOMAIN <<>> = {}
    <3>1. DOMAIN <<>> = {}
      OBVIOUS
    <3>. QED
      BY <3>1, Nothing DEF AgendaOK
  <2>2. Handed(<<>>)
    BY <2>1 DEF Handed
  <2>. QED
    BY <2>1, <2>2 DEF Fitting
<1>3. ASSUME NEW t, Fits(t, W), t.do \in Users => IsValue(n), do \in Values => t.do \in Values
      PROVE  Fitting(do, n, <<t>>, W)
  <2>1. /\ DOMAIN <<t>> = 1..1 /\ <<t>>[1] = t /\ Len(<<t>>) = 1 /\ <<t>> # <<>>
        /\ \A k \in 1..1 : k = 1
    OBVIOUS
  <2>2. IsSeq(<<t>>)
    BY <1>1
  <2>3. Handed(<<t>>)
    BY <2>1 DEF Handed
  <2>. QED
    BY <1>3, <2>1, <2>2, <2>3 DEF Fitting
<1>4. ASSUME NEW t, NEW u, Fits(t, W), t.do \in Users => IsValue(n),
             Fits(u, W), u.do \in Users => t.do \in Values, do \in Values => u.do \in Values
      PROVE  Fitting(do, n, <<t, u>>, W)
  <2>1. /\ DOMAIN <<t, u>> = 1..2 /\ <<t, u>>[1] = t /\ <<t, u>>[2] = u
        /\ Len(<<t, u>>) = 2 /\ <<t, u>> # <<>>
        /\ \A k \in 1..2 : k = 1 \/ k = 2
    OBVIOUS
  <2>2. IsSeq(<<t, u>>)
    BY <1>1
  <2>3. Handed(<<t, u>>)
    BY <1>4, <2>1 DEF Handed
  <2>. QED
    BY <1>4, <2>1, <2>2, <2>3 DEF Fitting
<1>5. ASSUME NEW t, NEW u, NEW v, Fits(t, W), t.do \in Users => IsValue(n),
             Fits(u, W), u.do \in Users => t.do \in Values,
             Fits(v, W), v.do \in Users => u.do \in Values, do \in Values => v.do \in Values
      PROVE  Fitting(do, n, <<t, u, v>>, W)
  <2>1. IsSeq(<<t, u, v>>)
    BY <1>1
  <2>2. /\ DOMAIN <<t, u, v>> = 1..3 /\ <<t, u, v>>[1] = t /\ <<t, u, v>>[2] = u
        /\ <<t, u, v>>[3] = v /\ Len(<<t, u, v>>) = 3 /\ <<t, u, v>> # <<>>
    OBVIOUS
  <2>3. \A k \in 1..3 : k = 1 \/ k = 2 \/ k = 3
    OBVIOUS
  <2>4. Handed(<<t, u, v>>)
    BY <1>5, <2>2, <2>3 DEF Handed
  <2>. QED
    BY <1>5, <2>1, <2>2, <2>3, <2>4 DEF Fitting
<1>. QED
  BY <1>2, <1>3, <1>4, <1>5

\* What is there when a task runs.
LEMMA Standing ==
    ASSUME NEW W, Made(W), Inv, NEW do, Running(do)
    PROVE  /\ Fits(Top, W) /\ Node = Top.node /\ Top.do = do /\ Visitable(Node, W)
           /\ todo # <<>> /\ returned \in W /\ Visitable(returned, W) /\ Null \in W
           /\ do \in Users => IsValue(returned)
           /\ IsValue(Null) /\ Visitable(Null, W)
<1>1. todo # <<>> /\ Top.do = do /\ Node = Top.node
  BY DEF Running, Node
<1>2. Top = todo[1] /\ 1 \in DOMAIN todo
  <2>1. todo \in Seq({todo[k] : k \in DOMAIN todo})
    BY DEF Inv, AgendaOK, IsSeq
  <2>. QED
    BY <1>1, <2>1, EmptySeq, LenProperties DEF Top
<1>. QED
  BY <1>1, <1>2, Leaves DEF Made, Fits

LEMMA Ways ==
    ASSUME NEW W, Made(W), Inv, Inv', NEW do, Running(do)
    PROVE  /\ \A n, i, messages :
                 /\ Visitable(n, W) /\ (do \in Values => IsValue(n))
                 /\ Complete(n, i, messages)
                => Grown
           /\ \A n, i, messages :
                 /\ Visitable(n, W) /\ do \notin Values /\ n.kind \in TopLevelKinds
                 /\ Declare(n, i, messages)
                => Grown
           /\ \A n, t, i, messages :
                 /\ Visitable(n, W) /\ Fits(t, W) /\ (t.do \in Users => IsValue(n))
                 /\ (do \in Values => t.do \in Values)
                 /\ Step(n, <<t>>, i, messages)
                => Grown
           /\ \A t, u, i, messages :
                 /\ Fits(t, W) /\ t.do \notin Users
                 /\ Fits(u, W) /\ (u.do \in Users => t.do \in Values)
                 /\ (do \in Values => u.do \in Values)
                 /\ Step(returned, <<t, u>>, i, messages)
                => Grown
           /\ \A t, u, v, i, messages :
                 /\ Fits(t, W) /\ t.do \notin Users
                 /\ Fits(u, W) /\ (u.do \in Users => t.do \in Values)
                 /\ Fits(v, W) /\ (v.do \in Users => u.do \in Values)
                 /\ (do \in Values => v.do \in Values)
                 /\ Step(returned, <<t, u, v>>, i, messages)
                => Grown
<1>1. /\ todo # <<>> /\ Top.do = do /\ Visitable(returned, W)
  BY Standing
<1>2. ASSUME NEW n, NEW t, NEW i, NEW messages, Visitable(n, W), Fitting(do, n, t, W),
             Step(n, t, i, messages)
      PROVE  Grown
  <2>1. /\ returned' = n /\ todo' = t \o Tail(todo) /\ errors \subseteq errors'
        /\ program' = program
    BY <1>2 DEF Step, Proceed, Report
  <2>. QED
    BY <1>1, <1>2, <2>1, Replaced DEF Grown
<1>3. ASSUME NEW n, NEW i, NEW messages, Visitable(n, W), do \notin Values,
             n.kind \in TopLevelKinds, Declare(n, i, messages)
      PROVE  Grown
  <2>1. /\ returned' = n /\ todo' = <<>> \o Tail(todo) /\ errors \subseteq errors'
        /\ program' = Append(program, n)
    BY <1>3 DEF Declare, Proceed, Report
  <2>2. Fitting(do, n, <<>>, W)
    BY <1>3, Chains
  <2>. QED
    BY <1>1, <1>3, <2>1, <2>2, Replaced DEF Grown
<1>4. ASSUME NEW n, NEW i, NEW messages, Visitable(n, W), do \in Values => IsValue(n),
             Complete(n, i, messages)
      PROVE  Grown
  BY <1>2, <1>4, Chains DEF Complete
<1>. QED
  BY <1>1, <1>2, <1>3, <1>4, Chains

\* The tasks that hold no node.
Bare ==
    Calls \cup {"ReturnValue", "IfCondition", "WhileCondition", "ForInit",
               "ExprStatementEnd", "Operators", "Assignment", "Compound", "Postfix",
               "Group", "Members"}

LEMMA BareTasks ==
    ASSUME NEW W, NEW do \in Bare, NEW levels
    PROVE  /\ Fits(Task(do, levels, Null), W) /\ Task(do, levels, Null).do = do
           /\ Fits(Rest(do, Null), W) /\ Rest(do, Null).do = do
           /\ Fits(Parse(do), W) /\ Parse(do).do = do
<1>1. ASSUME NEW l
      PROVE  Fits(Task(do, l, Null), W) /\ Task(do, l, Null).do = do
  <2>1. Task(do, l, Null).do = do /\ Task(do, l, Null).node = Null
    BY DEF Task
  <2>. QED
    BY <2>1, Leaves DEF Fits, Bare, Calls
<1>. QED
  BY <1>1 DEF Rest, Parse

LEMMA Holding ==
    ASSUME NEW do, NEW levels, NEW n
    PROVE  /\ Rest(do, n).do = do /\ Rest(do, n).node = n
           /\ Task(do, levels, n).do = do /\ Task(do, levels, n).node = n
BY DEF Rest, Task

LEMMA Sorts ==
    /\ Calls \subseteq Bare /\ Calls \cap Users = {}
    /\ \A do \in {"ReturnValue", "IfCondition", "WhileCondition", "ForInit",
                  "ExprStatementEnd", "Operators", "Assignment", "Compound", "Postfix",
                  "Group", "Members"} : do \in Bare
    /\ {"Expression", "Unary", "Primary"} \subseteq Calls
    /\ {"Expression", "Unary", "Primary"} \subseteq Values
    /\ Values \ {"Expression", "Unary", "Primary"} \subseteq Users
    /\ {"ReturnValue", "Initializer", "IfCondition", "WhileCondition", "ForConditionEnd"}
          \subseteq Users \ Values
    /\ \A do \in Calls \ {"Expression", "Unary", "Primary"} : do \notin Values
    /\ \A do \in Lists \cup {"Body", "AddStatement", "IfThen", "IfElse", "WhileBody",
                           "ForInit", "ForUpdateEnd", "ForBody", "ExprStatementEnd"} :
          do \notin Values /\ do \notin Users
BY DEF Bare, Calls, Users, Values, Lists

(***************************************************************************)
(* Tokens and types.                                                       *)
(***************************************************************************)
LEMMA Spelling ==
    ASSUME Inv, NEW i, Ahead(i)
    PROVE  /\ Lexeme(i) \in STRING
           /\ \A types : /\ AtAny(i, types)
                        /\ types \subseteq BinaryOperators \cup {"!", "~", "++", "--"}
                       => Lexeme(i) \in types
           /\ AtAny(i, LiteralTypes) =>
                 LiteralValue[m_Tokens[i + 1]] \in [class : STRING, num : Int]
<1>1. /\ m_Tokens \in Inputs /\ m_Tokens \in Seq(TokenTypes) /\ Readable(m_Tokens)
  BY InputAssumption, TokenAssumption DEF Inv, Within
<1>2. i + 1 \in DOMAIN m_Tokens
  <2>1. Last \in Nat /\ Here \in 0..Last
    BY TokenAt DEF Inv, Within
  <2>2. i \in Here..Last
    BY DEF Ahead
  <2>3. DOMAIN m_Tokens = 1..Len(m_Tokens) /\ Len(m_Tokens) \in Nat
    BY <1>1, LenProperties
  <2>. QED
    BY <2>1, <2>2, <2>3 DEF Last
<1>3. m_Tokens[i + 1] \in TokenTypes
  BY <1>1, <1>2, ElementOfSeq, LenProperties
<1>. QED
  BY <1>1, <1>2, <1>3 DEF Readable, Lexeme, AtAny, Type, TokenTypes

LEMMA TypesOfNodes ==
    /\ \A name \in STRING : \A i : TypeFrom(name, i).type \in TypeRefs
    /\ \A name \in STRING : Plain(name) \in TypeRefs /\ PointerTo(name) \in TypeRefs
    /\ Inferred \in TypeRefs
<1>1. \A name \in STRING : \A i : TypeFrom(name, i).type \in TypeRefs
  BY DEF TypeFrom, TypeRef, TypeRefs, At
<1>2. \A name \in STRING : Plain(name) \in TypeRefs /\ PointerTo(name) \in TypeRefs
  BY DEF Plain, PointerTo, TypeRef, TypeRefs
<1>. QED
  BY <1>1, <1>2, Texts DEF Inferred

LEMMA ParsedType ==
    ASSUME Inv, NEW i, Ahead(i)
    PROVE  ParseType(i).type \in TypeRefs
BY Spelling, TypesOfNodes DEF ParseType

\* The name of a declaration is read from the token behind its keyword, or from the
\* keyword itself.
LEMMA NameBefore ==
    ASSUME Inv, NEW keyword, keyword # "EndOfFile", At(Here, keyword)
    PROVE  Lexeme(Match(Here + 1, "Identifier") - 1) \in STRING
<1>1. Within /\ Ahead(Here) /\ Here \in Int
  BY Further DEF Inv
<1>2. Ahead(Here + 1)
  BY <1>1, Passing
<1>3. /\ Match(Here + 1, "Identifier") \in {Here + 1, Here + 1 + 1}
      /\ Here + 1 - 1 = Here /\ Here + 1 + 1 - 1 = Here + 1
  BY <1>1 DEF Match
<1>. QED
  BY <1>1, <1>2, <1>3, Spelling

\* A call, whose result may wait for a task, or a list that goes on.
LEMMA Turns ==
    ASSUME NEW W, Made(W), Inv, Inv', NEW do, Running(do)
    PROVE  /\ \A what \in Calls : \A u, i, messages :
                 /\ Fits(u, W) /\ (u.do \in Users => what \in Values)
                 /\ (do \in Values => u.do \in Values)
                 /\ \/ Continue(<<Parse(what), u>>, i, messages)
                    \/ Call(i, <<Parse(what), u>>)
                => Grown
           /\ \A what \in Calls : \A i :
                 /\ (do \in Values => what \in Values) /\ Call(i, <<Parse(what)>>)
                => Grown
           /\ \A t, i, messages :
                 /\ Fits(t, W) /\ t.do \notin Users /\ (do \in Values => t.do \in Values)
                 /\ Continue(<<t>>, i, messages) \/ Call(i, <<t>>)
                => Grown
           /\ \A i, messages :
                 /\ (do \in Values => do \in Users)
                 /\ Continue(<<>>, i, messages) \/ Call(i, <<>>)
                => Grown
           /\ \A i, message : Fail(i, message) => Grown
<1>1. Visitable(returned, W) /\ (do \in Users => IsValue(returned))
      /\ IsValue(Null) /\ Visitable(Null, W)
  BY Standing
<1>2. \A what \in Calls : /\ Fits(Parse(what), W) /\ Parse(what).do = what
                          /\ what \notin Users
  BY BareTasks, Sorts
<1>3. \A tasks, i, messages :
         Continue(tasks, i, messages) => Step(returned, tasks, i, messages)
  BY DEF Continue
<1>4. \A tasks, i : Call(i, tasks) => Step(returned, tasks, i, {})
  BY DEF Call
<1>5. ASSUME NEW what \in Calls, NEW u, NEW i, NEW messages,
             Fits(u, W), u.do \in Users => what \in Values, do \in Values => u.do \in Values,
             \/ Continue(<<Parse(what), u>>, i, messages)
             \/ Call(i, <<Parse(what), u>>)
      PROVE  Grown
  <2>1. \E m : Step(returned, <<Parse(what), u>>, i, m)
    BY <1>3, <1>4, <1>5
  <2>. QED
    BY <1>2, <1>5, <2>1, Ways
<1>6. ASSUME NEW what \in Calls, NEW i, do \in Values => what \in Values,
             Call(i, <<Parse(what)>>)
      PROVE  Grown
  BY <1>1, <1>2, <1>4, <1>6, Ways
<1>7. ASSUME NEW t, NEW i, NEW messages, Fits(t, W), t.do \notin Users,
             do \in Values => t.do \in Values,
             Continue(<<t>>, i, messages) \/ Call(i, <<t>>)
      PROVE  Grown
  <2>1. \E m : Step(returned, <<t>>, i, m)
    BY <1>3, <1>4, <1>7
  <2>. QED
    BY <1>1, <1>7, <2>1, Ways
<1>8. ASSUME NEW i, NEW messages, do \in Values => do \in Users,
             Continue(<<>>, i, messages) \/ Call(i, <<>>)
      PROVE  Grown
  <2>1. \E m : Complete(returned, i, m)
    BY <1>8 DEF Continue, Call, Complete
  <2>. QED
    BY <1>1, <1>8, <2>1, Ways
<1>9. ASSUME NEW i, NEW message, Fail(i, message)
      PROVE  Grown
  <2>1. Complete(Null, i, {message})
    BY <1>9 DEF Fail, Complete
  <2>. QED
    BY <1>1, <2>1, Ways
<1>. QED
  BY <1>5, <1>6, <1>7, <1>8, <1>9

(***************************************************************************)
(* Declarations.                                                           *)
(***************************************************************************)
LEMMA TopLevelTrees ==
    ASSUME NEW W, Made(W), SkipStray \/ ParseEnd
    PROVE  Grown
<1>1. /\ todo' = todo /\ returned' = returned /\ program' = program /\ errors' = errors
  BY DEF SkipStray, ParseEnd
<1>2. Made(W)'
  BY <1>1 DEF Made, Handed, Top
<1>. QED
  BY <1>2 DEF Grown

LEMMA Begins ==
    ASSUME NEW W, Made(W), Inv, Inv', NEW do \in Lists, NEW n, Fits(Rest(do, n), W),
           NEW i, NEW messages, Begin(do, n, i, messages)
    PROVE  Grown
<1>. DEFINE t == Rest(do, n)
<1>1. /\ todo' = <<t>> /\ returned' = returned /\ program' = program
      /\ errors' = {} => errors = {}
  BY DEF Begin, Report
<1>2. Fits(t, W) /\ t.do \notin Users
  BY Holding, Sorts
<1>. HIDE DEF t
<1>3. /\ DOMAIN <<t>> = 1..1 /\ <<t>>[1] = t /\ Head(<<t>>) = t
      /\ \A k \in 1..1 : k = 1 /\ k + 1 \notin 1..1
  OBVIOUS
<1>4. Handed(todo') /\ (\A k \in DOMAIN todo' : Fits(todo'[k], W)) /\ Top' = t
  BY <1>1, <1>2, <1>3 DEF Handed, Top
<1>5. Made(W)'
  BY <1>1, <1>2, <1>4 DEF Made, Handed
<1>. QED
  BY <1>5 DEF Grown

LEMMA RecoverTrees ==
    ASSUME NEW W, Made(W), Inv, Inv', Recover
    PROVE  Grown
<1>1. /\ Running("Recover")
      /\ \/ Call(Match(Here, Semicolon), <<>>)
         \/ Call(Here + 1, <<Top>>)
  BY DEF Recover
<1>2. "Recover" \notin Values /\ "Recover" \notin Users
  BY DEF Users, Values
<1>3. Fits(Top, W) /\ Top.do = "Recover"
  BY <1>1, Standing
<1>. QED
  BY <1>1, <1>2, <1>3, Turns

LEMMA InterfaceTrees ==
    ASSUME NEW W, Made(W), Inv, Inv', ParseInterface \/ InterfaceMethod \/ EndInterface
    PROVE  Grown
<1>1. /\ "Methods" \in Lists /\ "Methods" \notin Values /\ "Methods" \notin Users
      /\ "Recover" \in Calls
  BY Sorts DEF Lists, Calls
<1>2. \A name, methods : /\ Fits(Rest("Methods", InterfaceDecl(name, methods)), W)
                         /\ Rest("Methods", InterfaceDecl(name, methods)).do = "Methods"
  <2>. TAKE name, methods
  <2>. DEFINE n == InterfaceDecl(name, methods)
              t == Rest("Methods", n)
  <2>1. n.kind = "InterfaceDecl" /\ Visitable(n, W)
    BY Leaves DEF InterfaceDecl
  <2>2. t.do = "Methods" /\ t.node = n
    BY Holding
  <2>. HIDE DEF n, t
  <2>3. Fits(t, W)
    BY <2>1, <2>2 DEF Fits
  <2>. QED
    BY <2>2, <2>3 DEF n, t
<1>3. CASE ParseInterface
  BY <1>1, <1>2, <1>3, Begins DEF ParseInterface
<1>4. CASE InterfaceMethod
  <2>. DEFINE t == Rest("Methods", InterfaceDecl(Node.name, Append(Node.methods, Lexeme(Here + 1))))
  <2>1. /\ Running("Methods")
        /\ \/ \E i, message : Continue(<<Top>>, i, {message})
           \/ \E i, message : Continue(<<Parse("Recover"), Top>>, i, {message})
           \/ \E i : Call(i, <<t>>)
    BY <1>4 DEF InterfaceMethod
  <2>2. Fits(Top, W) /\ Top.do = "Methods" /\ Fits(t, W) /\ t.do = "Methods"
    BY <1>2, <2>1, Standing
  <2>. HIDE DEF t
  <2>. QED
    BY <1>1, <2>1, <2>2, Turns
<1>5. CASE EndInterface
  <2>1. Running("Methods") /\ \E i, messages : Declare(Node, i, messages)
    BY <1>5 DEF EndInterface
  <2>2. Visitable(Node, W) /\ Node.kind = "InterfaceDecl"
    BY <2>1, Standing DEF Fits
  <2>. QED
    BY <1>1, <2>1, <2>2, Ways DEF TopLevelKinds
<1>. QED
  BY <1>3, <1>4, <1>5

LEMMA StructTrees ==
    ASSUME NEW W, Made(W), Inv, Inv', ParseStruct \/ ParseField \/ EndStruct
    PROVE  Grown
<1>1. /\ "Fields" \in Lists /\ "Fields" \notin Values /\ "Fields" \notin Users
      /\ "Recover" \in Calls
  BY Sorts DEF Lists, Calls
<1>2. ASSUME NEW name \in STRING, NEW implemented, NEW fields \in Seq(StructFields)
      PROVE  /\ Fits(Rest("Fields", StructDecl(name, implemented, fields)), W)
             /\ Rest("Fields", StructDecl(name, implemented, fields)).do = "Fields"
  <2>. DEFINE n == StructDecl(name, implemented, fields)
              t == Rest("Fields", n)
  <2>1. n.kind = "StructDecl" /\ Visitable(n, W)
    BY Leaves DEF StructDecl
  <2>2. t.do = "Fields" /\ t.node = n
    BY Holding
  <2>. HIDE DEF n, t
  <2>3. Fits(t, W)
    BY <2>1, <2>2 DEF Fits
  <2>. QED
    BY <2>2, <2>3 DEF n, t
<1>3. CASE ParseStruct
  <2>. DEFINE colon == Match(Here + 1, "Identifier")
  <2>1. /\ At(Here, "struct")
        /\ \E implemented, i, messages :
              Begin("Fields", StructDecl(Lexeme(colon - 1), implemented, <<>>), i, messages)
    BY <1>3 DEF ParseStruct, AtDeclaration
  <2>2. Lexeme(colon - 1) \in STRING
    BY <2>1, NameBefore
  <2>3. <<>> \in Seq(StructFields)
    OBVIOUS
  <2>. HIDE DEF colon
  <2>. QED
    BY <1>1, <1>2, <2>1, <2>2, <2>3, Begins
<1>4. CASE ParseField
  <2>. DEFINE name == Lexeme(Here)
              type == ParseType(Here + 2)
              field == StructField(name, type.type, name \in UppercaseNames)
              fields == Append(Node.fields, field)
              t == Rest("Fields", StructDecl(Node.name, Node.interfaceImplemented, fields))
  <2>1. /\ Running("Fields")
        /\ \/ \E i, message : Continue(<<Parse("Recover"), Top>>, i, {message})
           \/ /\ At(Here, "Identifier") /\ At(Here + 1, ":") /\ HasTypeName(Here + 2)
              /\ \E i, messages : Continue(<<t>>, i, messages)
    BY <1>4 DEF ParseField
  <2>2. Fits(Top, W) /\ Top.do = "Fields" /\ Visitable(Node, W) /\ Node.kind = "StructDecl"
    BY <2>1, Standing DEF Fits
  <2>3. ASSUME At(Here, "Identifier"), At(Here + 1, ":")
        PROVE  Fits(t, W) /\ t.do = "Fields"
    <3>1. Ahead(Here) /\ Ahead(Here + 1) /\ Ahead(Here + 2)
      BY <2>1, <2>3, Ready, Named
    <3>2. name \in STRING /\ type.type \in TypeRefs /\ (name \in UppercaseNames) \in BOOLEAN
      BY <3>1, Spelling, ParsedType
    <3>. HIDE DEF name, type
    <3>3. field \in StructFields
      BY <3>2 DEF StructField, StructFields
    <3>. HIDE DEF field
    <3>4. Node.name \in STRING /\ fields \in Seq(StructFields)
      BY <2>2, <3>3, Members, AppendProperties
    <3>. HIDE DEF fields
    <3>. QED
      BY <1>2, <3>4
  <2>. HIDE DEF t
  <2>. QED
    BY <1>1, <2>1, <2>2, <2>3, Turns
<1>5. CASE EndStruct
  <2>1. Running("Fields") /\ \E i, messages : Declare(Node, i, messages)
    BY <1>5 DEF EndStruct
  <2>2. Visitable(Node, W) /\ Node.kind = "StructDecl"
    BY <2>1, Standing DEF Fits
  <2>. QED
    BY <1>1, <2>1, <2>2, Ways DEF TopLevelKinds
<1>. QED
  BY <1>3, <1>4, <1>5

LEMMA FunctionTrees ==
    ASSUME NEW W, Made(W), Inv, Inv',
           ParseFunction \/ ParseParameter \/ ParseSignature \/ EndFunction
    PROVE  Grown
<1>1. \A do \in {"Parameter", "Signature", "Body"} : do \notin Values /\ do \notin Users
  BY Sorts DEF Lists
<1>2. ASSUME NEW do \in {"Parameter", "Signature", "Body"}, NEW name \in STRING,
             NEW params \in Seq(Parameters), NEW type \in TypeRefs
      PROVE  /\ Fits(Rest(do, FunctionDecl(name, params, type, Null)), W)
             /\ Rest(do, FunctionDecl(name, params, type, Null)).do = do
  <2>. DEFINE n == FunctionDecl(name, params, type, Null)
              t == Rest(do, n)
  <2>1. n.kind = "FunctionDecl" /\ Visitable(n, W)
    BY Compounds DEF FunctionDecl, Made
  <2>2. t.do = do /\ t.node = n
    BY Holding
  <2>. HIDE DEF n, t
  <2>3. Fits(t, W)
    BY <2>1, <2>2 DEF Fits
  <2>. QED
    BY <2>2, <2>3 DEF n, t
<1>3. ASSUME NEW do \in {"Parameter", "Signature", "Body"}, Running(do)
      PROVE  /\ Fits(Top, W) /\ Visitable(Node, W) /\ Node.kind = "FunctionDecl"
             /\ Node.name \in STRING /\ Node.params \in Seq(Parameters)
             /\ Node.returnType \in TypeRefs
  <2>1. Fits(Top, W) /\ Node = Top.node /\ Top.do = do
    BY <1>3, Standing
  <2>2. Visitable(Node, W) /\ Node.kind = "FunctionDecl"
    BY <1>3, <2>1 DEF Fits
  <2>. QED
    BY <2>1, <2>2, Members
<1>4. CASE ParseFunction
  <2>. DEFINE paren == Match(Here + 1, "Identifier")
  <2>1. /\ At(Here, "fn")
        /\ \E do \in {"Parameter", "Signature"} : \E i, messages :
              Begin(do, FunctionDecl(Lexeme(paren - 1), <<>>, Plain("void"), Null), i, messages)
    BY <1>4 DEF ParseFunction, AtDeclaration
  <2>2. Lexeme(paren - 1) \in STRING
    BY <2>1, NameBefore
  <2>3. <<>> \in Seq(Parameters) /\ Plain("void") \in TypeRefs
    BY Texts, TypesOfNodes
  <2>4. "Parameter" \in Lists /\ "Signature" \in Lists
    BY DEF Lists
  <2>. HIDE DEF paren
  <2>. QED
    BY <1>2, <2>1, <2>2, <2>3, <2>4, Begins
<1>5. CASE ParseParameter
  <2>. DEFINE type == ParseType(Here + 2)
              parameter == Parameter(Lexeme(Here), type.type)
              params == Append(Node.params, parameter)
              next == IF At(type.after, Comma) THEN "Parameter" ELSE "Signature"
              t == Rest(next, FunctionDecl(Node.name, params, Node.returnType, Null))
  <2>1. /\ Running("Parameter")
        /\ \/ \E i, message : Continue(<<Rest("Signature", Node)>>, i, {message})
           \/ /\ At(Here, "Identifier") /\ At(Here + 1, ":")
              /\ \E i, messages : Continue(<<t>>, i, messages)
    BY <1>5 DEF ParseParameter
  <2>2. /\ Fits(Top, W) /\ Visitable(Node, W) /\ Node.kind = "FunctionDecl"
        /\ Node.name \in STRING /\ Node.params \in Seq(Parameters)
        /\ Node.returnType \in TypeRefs
    BY <1>3, <2>1
  <2>3. ASSUME At(Here, "Identifier"), At(Here + 1, ":")
        PROVE  Fits(t, W) /\ t.do \in {"Parameter", "Signature"}
    <3>1. Ahead(Here) /\ Ahead(Here + 1) /\ Ahead(Here + 2)
      BY <2>1, <2>3, Ready, Named
    <3>2. Lexeme(Here) \in STRING /\ type.type \in TypeRefs
      BY <3>1, Spelling, ParsedType
    <3>3. next \in {"Parameter", "Signature"}
      OBVIOUS
    <3>. HIDE DEF type, next
    <3>4. parameter \in Parameters
      BY <3>2 DEF Parameter, Parameters
    <3>. HIDE DEF parameter
    <3>5. params \in Seq(Parameters)
      BY <2>2, <3>4, AppendProperties
    <3>. HIDE DEF params
    <3>6. next \in {"Parameter", "Signature", "Body"}
      BY <3>3
    <3>7. \A name \in STRING : \A list \in Seq(Parameters) : \A returnType \in TypeRefs :
             /\ Fits(Rest(next, FunctionDecl(name, list, returnType, Null)), W)
             /\ Rest(next, FunctionDecl(name, list, returnType, Null)).do = next
      BY <1>2, <3>6
    <3>8. Fits(t, W) /\ t.do = next
      BY <2>2, <3>5, <3>7
    <3>. HIDE DEF t
    <3>. QED
      BY <3>3, <3>8
  <2>4. Fits(Rest("Signature", Node), W) /\ Rest("Signature", Node).do = "Signature"
    <3>. DEFINE u == Rest("Signature", Node)
    <3>1. u.do = "Signature" /\ u.node = Node
      BY Holding
    <3>. HIDE DEF u
    <3>2. Fits(u, W)
      BY <2>2, <3>1 DEF Fits
    <3>. QED
      BY <3>1, <3>2 DEF u
  <2>. HIDE DEF t
  <2>. QED
    BY <1>1, <2>1, <2>3, <2>4, Turns
<1>6. CASE ParseSignature
  <2>. DEFINE arrow == Match(Here, ")")
              type == IF HasTypeName(arrow + 1) THEN ParseType(arrow + 1)
                      ELSE TypeFrom("none", arrow + 1)
              t(returnType) ==
                Rest("Body", FunctionDecl(Node.name, Node.params, returnType, Null))
  <2>1. /\ Running("Signature")
        /\ \E i, messages :
              \/ Continue(<<Parse("Block"), t(Node.returnType)>>, i, messages)
              \/ /\ At(arrow, "->")
                 /\ Continue(<<Parse("Block"), t(type.type)>>, i, messages)
    BY <1>6 DEF ParseSignature
  <2>2. /\ Node.name \in STRING /\ Node.params \in Seq(Parameters)
        /\ Node.returnType \in TypeRefs
    BY <1>3, <2>1
  <2>3. At(arrow, "->") => type.type \in TypeRefs
    <3>1. At(arrow, "->") => Ahead(arrow + 1)
      BY <2>1, Ready, Passing
    <3>2. At(arrow, "->") => ParseType(arrow + 1).type \in TypeRefs
      BY <3>1, ParsedType
    <3>3. TypeFrom("none", arrow + 1).type \in TypeRefs
      BY Texts, TypesOfNodes
    <3>. QED
      BY <3>2, <3>3
  <2>. HIDE DEF arrow, type
  <2>4. /\ Fits(t(Node.returnType), W) /\ t(Node.returnType).do = "Body"
        /\ At(arrow, "->") => Fits(t(type.type), W) /\ t(type.type).do = "Body"
    BY <1>2, <2>2, <2>3
  <2>5. "Block" \in Calls
    BY DEF Calls
  <2>. HIDE DEF t
  <2>. QED
    BY <1>1, <2>1, <2>4, <2>5, Turns
<1>7. CASE EndFunction
  <2>. DEFINE n == FunctionDecl(Node.name, Node.params, Node.returnType, returned)
  <2>1. Running("Body") /\ \E i, messages : Declare(n, i, messages)
    BY <1>7 DEF EndFunction
  <2>2. /\ Node.name \in STRING /\ Node.params \in Seq(Parameters)
        /\ Node.returnType \in TypeRefs
    BY <1>3, <2>1
  <2>3. Visitable(n, W) /\ n.kind = "FunctionDecl"
    BY <2>2, Compounds DEF Made, FunctionDecl
  <2>. HIDE DEF n
  <2>. QED
    BY <1>1, <2>1, <2>3, Ways DEF TopLevelKinds
<1>. QED
  BY <1>4, <1>5, <1>6, <1>7

(***************************************************************************)
(* Statements.                                                             *)
(***************************************************************************)
\* A task that waits with the node n.
LEMMA Waits ==
    ASSUME NEW W, NEW n, Visitable(n, W), NEW do, NEW levels,
           \/ do \in {"Statements", "AddStatement"} /\ n.kind = "BlockStatement"
           \/ do = "Initializer" /\ n.kind = "VariableDecl"
           \/ do \in {"IfThen", "IfElse"} /\ n.kind = "IfStatement"
           \/ do = "WhileBody" /\ n.kind = "WhileStatement"
           \/ /\ do \in {"ForCondition", "ForConditionEnd", "ForUpdate", "ForUpdateEnd",
                         "ForBody"}
              /\ n.kind = "ForStatement"
           \/ do \in {"Right", "CompoundAssign"} /\ n.kind = "BinaryExpr"
           \/ do = "Operand" /\ n.kind \in {"UnaryExpr", "PrefixExpr"}
           \/ do = "Cast" /\ n.kind = "CastExpr"
           \/ do = "Argument" /\ n.kind = "CallExpr"
           \/ do = "Assign" /\ n \in W /\ IsValue(n)
    PROVE  /\ Fits(Task(do, levels, n), W) /\ Task(do, levels, n).do = do
           /\ Fits(Rest(do, n), W) /\ Rest(do, n).do = do
<1>1. ASSUME NEW t, t.do = do, t.node = n
      PROVE  Fits(t, W)
  BY <1>1 DEF Fits
<1>. QED
  BY <1>1, Holding

LEMMA BlockTrees ==
    ASSUME NEW W, Made(W), Inv, Inv',
           ParseBlock \/ NextStatement \/ AddStatement \/ EndBlock
    PROVE  Grown
<1>1. \A do \in {"Block", "Statements", "AddStatement"} : do \notin Values /\ do \notin Users
  BY DEF Values, Users
<1>2. CASE ParseBlock
  <2>. DEFINE n == BlockStatement(<<>>)
  <2>1. /\ Running("Block")
        /\ \E i, messages : Continue(<<Rest("Statements", n)>>, i, messages)
    BY <1>2 DEF ParseBlock
  <2>2. n.kind = "BlockStatement" /\ Visitable(n, W)
    <3>1. <<>> \in Seq(W)
      OBVIOUS
    <3>. QED
      BY <3>1, Compounds DEF BlockStatement
  <2>. HIDE DEF n
  <2>3. Fits(Rest("Statements", n), W) /\ Rest("Statements", n).do = "Statements"
    BY <2>2, Waits
  <2>. QED
    BY <1>1, <2>1, <2>3, Turns
<1>3. CASE NextStatement
  <2>1. /\ Running("Statements")
        /\ \E i : Call(i, <<Parse("Statement"), Rest("AddStatement", Node)>>)
    BY <1>3 DEF NextStatement
  <2>2. Visitable(Node, W) /\ Node.kind = "BlockStatement"
    BY <2>1, Standing DEF Fits
  <2>3. Fits(Rest("AddStatement", Node), W) /\ Rest("AddStatement", Node).do = "AddStatement"
    BY <2>2, Waits
  <2>4. "Statement" \in Calls
    BY DEF Calls
  <2>. QED
    BY <1>1, <2>1, <2>3, <2>4, Turns
<1>4. CASE AddStatement
  <2>. DEFINE more == BlockStatement(Append(Node.statements, returned))
              block == IF returned = Null THEN Node ELSE more
  <2>1. /\ Running("AddStatement")
        /\ \E i : Call(i, <<Rest("Statements", block)>>)
    BY <1>4 DEF AddStatement
  <2>2. Visitable(Node, W) /\ Node.kind = "BlockStatement" /\ returned \in W
    BY <2>1, Standing DEF Fits
  <2>3. Append(Node.statements, returned) \in Seq(W)
    BY <2>2, Members, AppendProperties
  <2>4. Visitable(more, W) /\ more.kind = "BlockStatement"
    BY <2>3, Compounds DEF BlockStatement
  <2>. HIDE DEF more
  <2>5. Visitable(block, W) /\ block.kind = "BlockStatement"
    BY <2>2, <2>4
  <2>. HIDE DEF block
  <2>6. Fits(Rest("Statements", block), W) /\ Rest("Statements", block).do = "Statements"
    BY <2>5, Waits
  <2>. QED
    BY <1>1, <2>1, <2>6, Turns
<1>5. CASE EndBlock
  <2>1. Running("Statements") /\ \E i, messages : Complete(Node, i, messages)
    BY <1>5 DEF EndBlock
  <2>2. Visitable(Node, W)
    BY <2>1, Standing
  <2>. QED
    BY <1>1, <2>1, <2>2, Ways
<1>. QED
  BY <1>2, <1>3, <1>4, <1>5

LEMMA ReturnTrees ==
    ASSUME NEW W, Made(W), Inv, Inv', ParseStatement \/ ParseReturn \/ ReturnValue
    PROVE  Grown
<1>1. /\ \A do \in {"Statement", "Return", "ReturnValue"} : do \notin Values
      /\ "ReturnValue" \in Users /\ "ReturnValue" \in Bare
      /\ "Expression" \in Calls /\ "Expression" \in Values
  BY DEF Values, Users, Bare, Calls
<1>2. \A n \in W : IsValue(n) => Visitable(ReturnStatement(n), W)
  BY Compounds
<1>3. CASE ParseStatement
  <2>1. Running("Statement") /\ Call(Here, <<Parse(StatementAt(Here))>>)
    BY <1>3 DEF ParseStatement
  <2>2. StatementAt(Here) \in Calls
    BY DEF StatementAt, Calls
  <2>. QED
    BY <1>1, <2>1, <2>2, Turns
<1>4. CASE ParseReturn
  <2>1. /\ Running("Return")
        /\ \/ \E i : Complete(ReturnStatement(Null), i, {})
           \/ \E i : Call(i, <<Parse("Expression"), Rest("ReturnValue", Null)>>)
    BY <1>4 DEF ParseReturn
  <2>2. Visitable(ReturnStatement(Null), W)
    BY <1>2, <2>1, Standing
  <2>3. Fits(Rest("ReturnValue", Null), W) /\ Rest("ReturnValue", Null).do = "ReturnValue"
    BY <1>1, BareTasks
  <2>4. CASE \E i : Complete(ReturnStatement(Null), i, {})
    BY <1>1, <2>1, <2>2, <2>4, Ways
  <2>5. CASE \E i : Call(i, <<Parse("Expression"), Rest("ReturnValue", Null)>>)
    BY <1>1, <2>1, <2>3, <2>5, Turns
  <2>. QED
    BY <2>1, <2>4, <2>5
<1>5. CASE ReturnValue
  <2>1. Running("ReturnValue") /\ \E i, messages : Complete(ReturnStatement(returned), i, messages)
    BY <1>5 DEF ReturnValue
  <2>2. Visitable(ReturnStatement(returned), W)
    BY <1>1, <1>2, <2>1, Standing
  <2>. QED
    BY <1>1, <2>1, <2>2, Ways
<1>. QED
  BY <1>3, <1>4, <1>5

LEMMA VarDeclTrees ==
    ASSUME NEW W, Made(W), Inv, Inv', ParseVarDecl \/ VarDeclEnd
    PROVE  Grown
<1>1. /\ "VarDecl" \notin Values /\ "Initializer" \notin Values
      /\ "Initializer" \in Users /\ "Expression" \in Calls /\ "Expression" \in Values
  BY DEF Values, Users, Calls
<1>2. ASSUME NEW name \in STRING, NEW type \in TypeRefs, NEW n \in W, IsValue(n),
             NEW isMutable \in BOOLEAN
      PROVE  LET v == VariableDecl(name, type, n, isMutable)
             IN  /\ Visitable(v, W)
                 /\ Fits(Rest("Initializer", v), W) /\ Rest("Initializer", v).do = "Initializer"
  <2>. DEFINE v == VariableDecl(name, type, n, isMutable)
  <2>1. Visitable(v, W) /\ v.kind = "VariableDecl"
    BY <1>2, Compounds DEF VariableDecl
  <2>. HIDE DEF v
  <2>2. Fits(Rest("Initializer", v), W) /\ Rest("Initializer", v).do = "Initializer"
    BY <2>1, Waits
  <2>. QED
    BY <2>1, <2>2 DEF v
<1>3. CASE ParseVarDecl
  <2>. DEFINE i == Advance(Here)
              type == ParseType(i + 2)
              decl(t) == VariableDecl(Lexeme(i), t, Null, At(Here, "var"))
              wait(t) == Rest("Initializer", decl(t))
  <2>1. /\ Running("VarDecl")
        /\ \/ \E j, message : Fail(j, message)
           \/ /\ At(i, "Identifier")
              /\ \E j : Call(j, <<Parse("Expression"), wait(Inferred)>>)
           \/ /\ At(i, "Identifier") /\ At(i + 1, ":")
              /\ \E j, messages :
                    \/ Continue(<<Parse("Expression"), wait(type.type)>>, j, messages)
                    \/ Complete(decl(type.type), j, messages)
    BY <1>3 DEF ParseVarDecl
  <2>2. Within /\ Ahead(i)
    BY <2>1, Ready, Keyword
  <2>3. i + 1 + 1 = i + 2
    <3>1. i \in Int
      BY <2>2, Further
    <3>. HIDE DEF i
    <3>. QED
      BY <3>1
  <2>4. Null \in W /\ IsValue(Null)
    BY <2>1, Standing
  <2>5. Lexeme(i) \in STRING /\ At(Here, "var") \in BOOLEAN
    BY <2>2, Spelling DEF At
  <2>6. At(i, "Identifier") /\ At(i + 1, ":") => type.type \in TypeRefs
    <3>1. At(i, "Identifier") /\ At(i + 1, ":") => Ahead(i + 2)
      <4>. HIDE DEF i
      <4>. QED
        BY <2>2, <2>3, Passing
    <3>. QED
      BY <3>1, ParsedType
  <2>. HIDE DEF i, type
  <2>7. ASSUME NEW t \in TypeRefs
        PROVE  /\ Visitable(decl(t), W)
               /\ Fits(wait(t), W) /\ wait(t).do = "Initializer"
    BY <1>2, <2>4, <2>5
  <2>8. Inferred \in TypeRefs
    BY TypesOfNodes
  <2>. HIDE DEF decl, wait
  <2>9. CASE \E j, message : Fail(j, message)
    BY <2>1, <2>9, Turns
  <2>10. CASE \E j : Call(j, <<Parse("Expression"), wait(Inferred)>>)
    BY <1>1, <2>1, <2>7, <2>8, <2>10, Turns
  <2>11. ASSUME type.type \in TypeRefs, NEW j, NEW messages,
                Continue(<<Parse("Expression"), wait(type.type)>>, j, messages)
         PROVE  Grown
    BY <1>1, <2>1, <2>7, <2>11, Turns
  <2>12. ASSUME type.type \in TypeRefs, NEW j, NEW messages,
                Complete(decl(type.type), j, messages)
         PROVE  Grown
    BY <1>1, <2>1, <2>7, <2>12, Ways
  <2>. QED
    BY <2>1, <2>6, <2>9, <2>10, <2>11, <2>12
<1>4. CASE VarDeclEnd
  <2>. DEFINE n == VariableDecl(Node.name, Node.varType, returned, Node.isMutable)
  <2>1. /\ Running("Initializer")
        /\ \/ \E j, message : Fail(j, message)
           \/ \E j, messages : Complete(n, j, messages)
    BY <1>4 DEF VarDeclEnd
  <2>2. Visitable(Node, W) /\ Node.kind = "VariableDecl" /\ returned \in W /\ IsValue(returned)
    BY <1>1, <2>1, Standing DEF Fits
  <2>3. Visitable(n, W)
    BY <1>2, <2>2, Members
  <2>. HIDE DEF n
  <2>4. CASE \E j, message : Fail(j, message)
    BY <2>1, <2>4, Turns
  <2>5. CASE \E j, messages : Complete(n, j, messages)
    BY <1>1, <2>1, <2>3, <2>5, Ways
  <2>. QED
    BY <2>1, <2>4, <2>5
<1>. QED
  BY <1>3, <1>4

LEMMA IfTrees ==
    ASSUME NEW W, Made(W), Inv, Inv', ParseIf \/ IfCondition \/ IfThen \/ IfElse
    PROVE  Grown
<1>1. /\ \A do \in {"If", "IfCondition", "IfThen", "IfElse"} : do \notin Values
      /\ "IfCondition" \in Users /\ "IfThen" \notin Users /\ "IfElse" \notin Users
      /\ "IfCondition" \in Bare
      /\ "Expression" \in Calls /\ "Expression" \in Values /\ "Statement" \in Calls
  BY DEF Values, Users, Calls, Bare
<1>2. ASSUME NEW c \in W, NEW t \in W, NEW e \in W, IsValue(c)
      PROVE  /\ Visitable(IfStatement(c, t, e), W)
             /\ \A do \in {"IfThen", "IfElse"} :
                   /\ Fits(Rest(do, IfStatement(c, t, e)), W)
                   /\ Rest(do, IfStatement(c, t, e)).do = do
  <2>. DEFINE n == IfStatement(c, t, e)
  <2>1. Visitable(n, W) /\ n.kind = "IfStatement"
    BY <1>2, Compounds DEF IfStatement
  <2>. HIDE DEF n
  <2>2. \A do \in {"IfThen", "IfElse"} : Fits(Rest(do, n), W) /\ Rest(do, n).do = do
    BY <2>1, Waits
  <2>. QED
    BY <2>1, <2>2 DEF n
<1>3. CASE ParseIf
  <2>1. /\ Running("If")
        /\ \E i, messages :
              Continue(<<Parse("Expression"), Rest("IfCondition", Null)>>, i, messages)
    BY <1>3 DEF ParseIf
  <2>2. Fits(Rest("IfCondition", Null), W) /\ Rest("IfCondition", Null).do = "IfCondition"
    BY <1>1, BareTasks
  <2>. QED
    BY <1>1, <2>1, <2>2, Turns
<1>4. CASE IfCondition
  <2>. DEFINE u == Rest("IfThen", IfStatement(returned, Null, Null))
  <2>1. /\ Running("IfCondition")
        /\ \E i, messages : Continue(<<Parse("Statement"), u>>, i, messages)
    BY <1>4 DEF IfCondition
  <2>2. returned \in W /\ IsValue(returned) /\ Null \in W
    BY <1>1, <2>1, Standing
  <2>3. Fits(u, W) /\ u.do = "IfThen"
    BY <1>2, <2>2
  <2>. HIDE DEF u
  <2>. QED
    BY <1>1, <2>1, <2>3, Turns
<1>5. CASE IfThen
  <2>. DEFINE node == IfStatement(Node.condition, returned, Null)
              u == Rest("IfElse", node)
  <2>1. /\ Running("IfThen")
        /\ \/ \E i : Call(i, <<Parse("Statement"), u>>)
           \/ Complete(node, Here, {})
    BY <1>5 DEF IfThen
  <2>2. Visitable(Node, W) /\ Node.kind = "IfStatement" /\ returned \in W /\ Null \in W
    BY <2>1, Standing DEF Fits
  <2>3. Node.condition \in W /\ IsValue(Node.condition)
    BY <2>2, Members
  <2>4. Visitable(node, W) /\ Fits(u, W) /\ u.do = "IfElse"
    BY <1>2, <2>2, <2>3
  <2>. HIDE DEF u, node
  <2>5. CASE \E i : Call(i, <<Parse("Statement"), u>>)
    BY <1>1, <2>1, <2>4, <2>5, Turns
  <2>6. CASE Complete(node, Here, {})
    BY <1>1, <2>1, <2>4, <2>6, Ways
  <2>. QED
    BY <2>1, <2>5, <2>6
<1>6. CASE IfElse
  <2>. DEFINE node == IfStatement(Node.condition, Node.thenBranch, returned)
  <2>1. Running("IfElse") /\ Complete(node, Here, {})
    BY <1>6 DEF IfElse
  <2>2. Visitable(Node, W) /\ Node.kind = "IfStatement" /\ returned \in W
    BY <2>1, Standing DEF Fits
  <2>3. Node.condition \in W /\ IsValue(Node.condition) /\ Node.thenBranch \in W
    BY <2>2, Members
  <2>4. Visitable(node, W)
    BY <1>2, <2>2, <2>3
  <2>. HIDE DEF node
  <2>. QED
    BY <1>1, <2>1, <2>4, Ways
<1>. QED
  BY <1>3, <1>4, <1>5, <1>6

LEMMA WhileTrees ==
    ASSUME NEW W, Made(W), Inv, Inv', ParseWhile \/ WhileCondition \/ WhileBody
    PROVE  Grown
<1>1. /\ \A do \in {"While", "WhileCondition", "WhileBody"} : do \notin Values
      /\ "WhileCondition" \in Users /\ "WhileBody" \notin Users
      /\ "WhileCondition" \in Bare
      /\ "Expression" \in Calls /\ "Expression" \in Values /\ "Statement" \in Calls
  BY DEF Values, Users, Calls, Bare
<1>2. CASE ParseWhile
  <2>1. /\ Running("While")
        /\ \E i, messages :
              Continue(<<Parse("Expression"), Rest("WhileCondition", Null)>>, i, messages)
    BY <1>2 DEF ParseWhile
  <2>2. Fits(Rest("WhileCondition", Null), W) /\ Rest("WhileCondition", Null).do = "WhileCondition"
    BY <1>1, BareTasks
  <2>. QED
    BY <1>1, <2>1, <2>2, Turns
<1>3. CASE WhileCondition
  <2>. DEFINE n == WhileStatement(returned, Null)
  <2>1. /\ Running("WhileCondition")
        /\ \E i, messages : Continue(<<Parse("Statement"), Rest("WhileBody", n)>>, i, messages)
    BY <1>3 DEF WhileCondition
  <2>2. returned \in W /\ IsValue(returned) /\ Null \in W
    BY <1>1, <2>1, Standing
  <2>3. Visitable(n, W) /\ n.kind = "WhileStatement"
    BY <2>2, Compounds DEF WhileStatement
  <2>. HIDE DEF n
  <2>4. Fits(Rest("WhileBody", n), W) /\ Rest("WhileBody", n).do = "WhileBody"
    BY <2>3, Waits
  <2>. QED
    BY <1>1, <2>1, <2>4, Turns
<1>4. CASE WhileBody
  <2>. DEFINE n == WhileStatement(Node.condition, returned)
  <2>1. Running("WhileBody") /\ Complete(n, Here, {})
    BY <1>4 DEF WhileBody
  <2>2. Visitable(Node, W) /\ Node.kind = "WhileStatement" /\ returned \in W
    BY <2>1, Standing DEF Fits
  <2>3. Node.condition \in W /\ IsValue(Node.condition)
    BY <2>2, Members
  <2>4. Visitable(n, W)
    BY <2>2, <2>3, Compounds
  <2>. HIDE DEF n
  <2>. QED
    BY <1>1, <2>1, <2>4, Ways
<1>. QED
  BY <1>2, <1>3, <1>4

LEMMA ForTrees ==
    ASSUME NEW W, Made(W), Inv, Inv',
           \/ ParseFor \/ ForInit \/ ForCondition \/ ForConditionEnd
           \/ ForUpdate \/ ForUpdateEnd \/ ForBody
    PROVE  Grown
<1>. DEFINE Fors == {"ForCondition", "ForConditionEnd", "ForUpdate", "ForUpdateEnd",
                     "ForBody"}
<1>1. /\ \A do \in Fors \cup {"For", "ForInit"} : do \notin Values
      /\ \A do \in {"ForInit", "ForCondition", "ForUpdate", "ForUpdateEnd", "ForBody"} :
            do \notin Users
      /\ "ForConditionEnd" \in Users /\ "ForInit" \in Bare
      /\ "Expression" \in Calls /\ "Expression" \in Values /\ "Statement" \in Calls
      /\ "VarDecl" \in Calls /\ "ExprStatement" \in Calls
  BY DEF Values, Users, Calls, Bare
<1>2. ASSUME NEW n, Visitable(n, W), n.kind = "ForStatement"
      PROVE  \A do \in Fors : Fits(Rest(do, n), W) /\ Rest(do, n).do = do
  BY <1>2, Waits
<1>3. ASSUME NEW i \in W, NEW c \in W, NEW u \in W, NEW b \in W, IsValue(c)
      PROVE  /\ Visitable(ForStatement(i, c, u, b), W)
             /\ \A do \in Fors : /\ Fits(Rest(do, ForStatement(i, c, u, b)), W)
                                 /\ Rest(do, ForStatement(i, c, u, b)).do = do
  <2>. DEFINE n == ForStatement(i, c, u, b)
  <2>1. Visitable(n, W) /\ n.kind = "ForStatement"
    BY <1>3, Compounds DEF ForStatement
  <2>. HIDE DEF n
  <2>2. \A do \in Fors : Fits(Rest(do, n), W) /\ Rest(do, n).do = do
    BY <1>2, <2>1
  <2>. QED
    BY <2>1, <2>2 DEF n
<1>4. ASSUME NEW do \in Fors, Running(do)
      PROVE  /\ Visitable(Node, W) /\ Node.kind = "ForStatement"
             /\ Node.init \in W /\ Node.condition \in W /\ Node.update \in W
             /\ IsValue(Node.condition)
             /\ \A next \in Fors : Fits(Rest(next, Node), W) /\ Rest(next, Node).do = next
  <2>1. Visitable(Node, W) /\ Node.kind = "ForStatement"
    BY <1>4, Standing DEF Fits
  <2>. QED
    BY <1>2, <2>1, Members
<1>5. CASE ParseFor
  <2>. DEFINE n == ForStatement(Null, Null, Null, Null)
  <2>1. /\ Running("For")
        /\ \/ \E i, messages : Continue(<<Rest("ForCondition", n)>>, i, messages)
           \/ \E i, messages : \E what \in {"VarDecl", "ExprStatement"} :
                 Continue(<<Parse(what), Rest("ForInit", Null)>>, i, messages)
    BY <1>5 DEF ParseFor
  <2>2. Null \in W /\ IsValue(Null)
    BY <2>1, Standing
  <2>3. Fits(Rest("ForCondition", n), W) /\ Rest("ForCondition", n).do = "ForCondition"
    BY <1>3, <2>2
  <2>4. Fits(Rest("ForInit", Null), W) /\ Rest("ForInit", Null).do = "ForInit"
    BY <1>1, BareTasks
  <2>. HIDE DEF n
  <2>5. CASE \E i, messages : Continue(<<Rest("ForCondition", n)>>, i, messages)
    BY <1>1, <2>1, <2>3, <2>5, Turns
  <2>6. CASE \E i, messages : \E what \in {"VarDecl", "ExprStatement"} :
                Continue(<<Parse(what), Rest("ForInit", Null)>>, i, messages)
    BY <1>1, <2>1, <2>4, <2>6, Turns
  <2>. QED
    BY <2>1, <2>5, <2>6
<1>6. CASE ForInit
  <2>. DEFINE t == Rest("ForCondition", ForStatement(returned, Null, Null, Null))
  <2>1. Running("ForInit") /\ Call(Here, <<t>>)
    BY <1>6 DEF ForInit
  <2>2. returned \in W /\ Null \in W /\ IsValue(Null)
    BY <2>1, Standing
  <2>3. Fits(t, W) /\ t.do = "ForCondition"
    BY <1>3, <2>2
  <2>. HIDE DEF t
  <2>. QED
    BY <1>1, <2>1, <2>3, Turns
<1>7. CASE ForCondition
  <2>1. /\ Running("ForCondition")
        /\ \/ Call(Here + 1, <<Rest("ForUpdate", Node)>>)
           \/ Call(Here, <<Parse("Expression"), Rest("ForConditionEnd", Node)>>)
    BY <1>7 DEF ForCondition
  <2>2. \A next \in Fors : Fits(Rest(next, Node), W) /\ Rest(next, Node).do = next
    BY <1>4, <2>1
  <2>3. CASE Call(Here + 1, <<Rest("ForUpdate", Node)>>)
    BY <1>1, <2>1, <2>2, <2>3, Turns
  <2>4. CASE Call(Here, <<Parse("Expression"), Rest("ForConditionEnd", Node)>>)
    BY <1>1, <2>1, <2>2, <2>4, Turns
  <2>. QED
    BY <2>1, <2>3, <2>4
<1>8. CASE ForConditionEnd
  <2>. DEFINE t == Rest("ForUpdate", ForStatement(Node.init, returned, Null, Null))
  <2>1. Running("ForConditionEnd") /\ \E i, messages : Continue(<<t>>, i, messages)
    BY <1>8 DEF ForConditionEnd
  <2>2. returned \in W /\ IsValue(returned) /\ Null \in W
    BY <1>1, <2>1, Standing
  <2>3. Node.init \in W
    BY <1>4, <2>1
  <2>4. Fits(t, W) /\ t.do = "ForUpdate"
    BY <1>3, <2>2, <2>3
  <2>. HIDE DEF t
  <2>. QED
    BY <1>1, <2>1, <2>4, Turns
<1>9. CASE ForUpdate
  <2>1. /\ Running("ForUpdate")
        /\ \/ Call(Here + 1, <<Parse("Statement"), Rest("ForBody", Node)>>)
           \/ Call(Here, <<Parse("Expression"), Rest("ForUpdateEnd", Node)>>)
    BY <1>9 DEF ForUpdate
  <2>2. \A next \in Fors : Fits(Rest(next, Node), W) /\ Rest(next, Node).do = next
    BY <1>4, <2>1
  <2>3. CASE Call(Here + 1, <<Parse("Statement"), Rest("ForBody", Node)>>)
    BY <1>1, <2>1, <2>2, <2>3, Turns
  <2>4. CASE Call(Here, <<Parse("Expression"), Rest("ForUpdateEnd", Node)>>)
    BY <1>1, <2>1, <2>2, <2>4, Turns
  <2>. QED
    BY <2>1, <2>3, <2>4
<1>10. CASE ForUpdateEnd
  <2>. DEFINE u == Rest("ForBody", ForStatement(Node.init, Node.condition, returned, Null))
  <2>1. /\ Running("ForUpdateEnd")
        /\ \E i, messages : Continue(<<Parse("Statement"), u>>, i, messages)
    BY <1>10 DEF ForUpdateEnd
  <2>2. returned \in W /\ Null \in W
    BY <2>1, Standing
  <2>3. Node.init \in W /\ Node.condition \in W /\ IsValue(Node.condition)
    BY <1>4, <2>1
  <2>4. Fits(u, W) /\ u.do = "ForBody"
    <3>. DEFINE i == Node.init
                c == Node.condition
                r == returned
    <3>1. i \in W /\ c \in W /\ r \in W /\ Null \in W /\ IsValue(c)
      BY <2>2, <2>3
    <3>. HIDE DEF i, c, r
    <3>2. \A do \in Fors : /\ Fits(Rest(do, ForStatement(i, c, r, Null)), W)
                          /\ Rest(do, ForStatement(i, c, r, Null)).do = do
      BY <1>3, <3>1
    <3>. QED
      BY <3>2 DEF i, c, r
  <2>. HIDE DEF u
  <2>. QED
    BY <1>1, <2>1, <2>4, Turns
<1>11. CASE ForBody
  <2>. DEFINE n == ForStatement(Node.init, Node.condition, Node.update, returned)
  <2>1. Running("ForBody") /\ Complete(n, Here, {})
    BY <1>11 DEF ForBody
  <2>2. returned \in W
    BY <2>1, Standing
  <2>3. /\ Node.init \in W /\ Node.condition \in W /\ Node.update \in W
        /\ IsValue(Node.condition)
    BY <1>4, <2>1
  <2>4. Visitable(n, W)
    BY <1>3, <2>2, <2>3
  <2>. HIDE DEF n
  <2>. QED
    BY <1>1, <2>1, <2>4, Ways
<1>. QED
  BY <1>5, <1>6, <1>7, <1>8, <1>9, <1>10, <1>11

LEMMA ExprStatementTrees ==
    ASSUME NEW W, Made(W), Inv, Inv', ParseExprStatement \/ ExprStatementEnd
    PROVE  Grown
<1>1. /\ "ExprStatement" \notin Values /\ "ExprStatementEnd" \notin Values
      /\ "ExprStatementEnd" \notin Users /\ "ExprStatementEnd" \in Bare
      /\ "Expression" \in Calls /\ "Recover" \in Calls
  BY DEF Values, Users, Calls, Bare
<1>2. CASE ParseExprStatement
  <2>1. /\ Running("ExprStatement")
        /\ Call(Here, <<Parse("Expression"), Rest("ExprStatementEnd", Null)>>)
    BY <1>2 DEF ParseExprStatement
  <2>2. /\ Fits(Rest("ExprStatementEnd", Null), W)
        /\ Rest("ExprStatementEnd", Null).do = "ExprStatementEnd"
    BY <1>1, BareTasks
  <2>. QED
    BY <1>1, <2>1, <2>2, Turns
<1>3. CASE ExprStatementEnd
  <2>. DEFINE n == ExprStatement(returned)
  <2>1. /\ Running("ExprStatementEnd")
        /\ \/ Call(Here, <<Parse("Recover")>>)
           \/ \E i, messages : Complete(n, i, messages)
    BY <1>3 DEF ExprStatementEnd
  <2>2. returned \in W
    BY <2>1, Standing
  <2>3. Visitable(n, W)
    BY <2>2, Compounds
  <2>. HIDE DEF n
  <2>4. CASE Call(Here, <<Parse("Recover")>>)
    BY <1>1, <2>1, <2>4, Turns
  <2>5. CASE \E i, messages : Complete(n, i, messages)
    BY <1>1, <2>1, <2>3, <2>5, Ways
  <2>. QED
    BY <2>1, <2>4, <2>5
<1>. QED
  BY <1>2, <1>3

(***************************************************************************)
(* Expressions.                                                            *)
(***************************************************************************)
LEMMA OperatorTrees ==
    ASSUME NEW W, Made(W), Inv, Inv',
           ParseExpression \/ Operator \/ RightOperand \/ EndOperators
    PROVE  Grown
<1>1. /\ {"Expression", "Unary", "Operators", "Right", "Assignment"} \subseteq Values
      /\ {"Operators", "Right", "Assignment"} \subseteq Users
      /\ "Unary" \notin Users
      /\ {"Unary", "Operators", "Assignment"} \subseteq Bare
  BY DEF Values, Users, Bare, Calls
<1>2. \A levels : /\ Fits(Task("Operators", levels, Null), W)
                  /\ Task("Operators", levels, Null).do = "Operators"
  BY <1>1, BareTasks
<1>3. /\ Fits(Parse("Unary"), W) /\ Parse("Unary").do = "Unary"
      /\ Fits(Parse("Assignment"), W) /\ Parse("Assignment").do = "Assignment"
  BY <1>1, BareTasks
<1>4. \A l, t : Append(Descent(l), t) = <<Parse("Unary"), Task("Operators", l..10, Null), t>>
  <2>1. ASSUME NEW a, NEW b, NEW c
        PROVE  Append(<<a, b>>, c) = <<a, b, c>>
    <3>. DEFINE S == {a, b, c}
    <3>1. a \in S /\ b \in S /\ c \in S
      OBVIOUS
    <3>. HIDE DEF S
    <3>2. <<a, b>> \in Seq(S) /\ <<a, b, c>> \in Seq(S)
      BY <3>1
    <3>3. Len(<<a, b>>) = 2 /\ <<a, b>>[1] = a /\ <<a, b>>[2] = b
      OBVIOUS
    <3>4. /\ Len(<<a, b, c>>) = 3 /\ <<a, b, c>>[1] = a /\ <<a, b, c>>[2] = b
          /\ <<a, b, c>>[3] = c
      OBVIOUS
    <3>. DEFINE s == Append(<<a, b>>, c)
    <3>5. s \in Seq(S) /\ Len(s) = 3 /\ s[1] = a /\ s[2] = b /\ s[3] = c
      BY <3>1, <3>2, <3>3, AppendProperties
    <3>. HIDE DEF s
    <3>6. \A i \in 1..3 : s[i] = <<a, b, c>>[i]
      <4>1. \A i \in 1..3 : i = 1 \/ i = 2 \/ i = 3
        OBVIOUS
      <4>. QED
        BY <3>4, <3>5, <4>1
    <3>7. s = <<a, b, c>>
      BY <3>2, <3>4, <3>5, <3>6, SeqEqual
    <3>. QED
      BY <3>7 DEF s
  <2>. QED
    BY <2>1 DEF Descent
<1>5. ASSUME NEW do \in {"Expression", "Operators"}, Running(do), NEW l, NEW v, NEW i,
             Fits(v, W), v.do \in Values \cap Users, Call(i, Append(Descent(l), v))
      PROVE  Grown
  <2>. DEFINE u == Task("Operators", l..10, Null)
  <2>1. Step(returned, <<Parse("Unary"), u, v>>, i, {})
    BY <1>4, <1>5 DEF Call
  <2>2. Fits(u, W) /\ u.do = "Operators"
    BY <1>2
  <2>. HIDE DEF u
  <2>. QED
    BY <1>1, <1>3, <1>5, <2>1, <2>2, Ways
<1>6. CASE ParseExpression
  <2>1. Running("Expression") /\ Call(Here, Append(Descent(1), Parse("Assignment")))
    BY <1>6 DEF ParseExpression
  <2>. QED
    BY <1>1, <1>3, <1>5, <2>1
<1>7. CASE Operator
  <2>1. PICK level \in Top.levels :
           /\ AtAny(Here, Levels[level])
           /\ Call(Here + 1, Append(Descent(level + 1),
                                    Task("Right", Top.levels \cap (1..level),
                                         BinaryExpr(Lexeme(Here), returned, Null))))
    BY <1>7 DEF Operator
  <2>. DEFINE n == BinaryExpr(Lexeme(Here), returned, Null)
              v == Task("Right", Top.levels \cap (1..level), n)
  <2>2. Running("Operators")
    BY <1>7 DEF Operator
  <2>3. level \in 1..10 /\ Ahead(Here)
    BY <2>1, <2>2, Ready DEF Shape
  <2>4. Levels[level] \subseteq BinaryOperators
    <3>1. level \in {1, 2, 3, 4, 5, 6, 7, 8, 9, 10}
      BY <2>3
    <3>. QED
      BY <3>1 DEF Levels, BinaryOperators
  <2>5. Lexeme(Here) \in BinaryOperators
    <3>1. Lexeme(Here) \in Levels[level]
      BY <2>1, <2>3, <2>4, Spelling
    <3>. QED
      BY <2>4, <3>1
  <2>6. returned \in W /\ IsValue(returned) /\ Null \in W /\ IsValue(Null)
    BY <1>1, <2>2, Standing
  <2>7. Visitable(n, W) /\ n.kind = "BinaryExpr"
    BY <2>5, <2>6, Operations DEF BinaryExpr
  <2>. HIDE DEF n
  <2>8. Fits(v, W) /\ v.do = "Right"
    BY <2>7, Waits
  <2>9. Call(Here + 1, Append(Descent(level + 1), v))
    BY <2>1 DEF n
  <2>. HIDE DEF v
  <2>. QED
    BY <1>1, <1>5, <2>2, <2>8, <2>9
<1>8. CASE RightOperand
  <2>. DEFINE n == BinaryExpr(Node.op, Node.left, returned)
              t == Task("Operators", Top.levels, Null)
  <2>1. Running("Right") /\ Step(n, <<t>>, Here, {})
    BY <1>8 DEF RightOperand
  <2>2. Visitable(Node, W) /\ Node.kind = "BinaryExpr" /\ returned \in W /\ IsValue(returned)
    BY <1>1, <2>1, Standing DEF Fits
  <2>3. Node.op \in BinaryOperators /\ Node.left \in W /\ IsValue(Node.left)
    BY <2>2, Members
  <2>4. Visitable(n, W) /\ IsValue(n)
    BY <2>2, <2>3, Operations DEF BinaryExpr, IsValue, ExpressionKinds
  <2>5. Fits(t, W) /\ t.do = "Operators"
    BY <1>2
  <2>. HIDE DEF n, t
  <2>. QED
    BY <1>1, <2>1, <2>4, <2>5, Ways
<1>9. CASE EndOperators
  <2>1. Running("Operators") /\ Call(Here, <<>>)
    BY <1>9 DEF EndOperators
  <2>. QED
    BY <1>1, <2>1, Turns
<1>. QED
  BY <1>6, <1>7, <1>8, <1>9

LEMMA AssignmentTrees ==
    ASSUME NEW W, Made(W), Inv, Inv',
           Assignment \/ AssignmentEnd \/ CompoundAssignment \/ CompoundAssignmentEnd
    PROVE  Grown
<1>1. /\ {"Expression", "Assignment", "Assign", "Compound", "CompoundAssign"} \subseteq Values
      /\ {"Assignment", "Assign", "Compound", "CompoundAssign"} \subseteq Users
      /\ "Expression" \in Calls /\ "Compound" \in Bare
  BY DEF Values, Users, Bare, Calls
<1>2. CASE Assignment
  <2>1. /\ Running("Assignment")
        /\ Call(Here + 1, <<Parse("Expression"), Rest("Assign", returned)>>)
    BY <1>2 DEF Assignment
  <2>2. returned \in W /\ IsValue(returned) /\ Visitable(returned, W)
    BY <1>1, <2>1, Standing
  <2>3. Fits(Rest("Assign", returned), W) /\ Rest("Assign", returned).do = "Assign"
    BY <2>2, Waits
  <2>. QED
    BY <1>1, <2>1, <2>3, Turns
<1>3. CASE AssignmentEnd
  <2>. DEFINE n == AssignExpr(Node.name, returned)
  <2>1. /\ Running("Assign")
        /\ \/ Node.kind = "VarExpr" /\ Complete(n, Here, {})
           \/ Step(Node, <<Parse("Compound")>>, Here, {"InvalidAssignmentTarget"})
    BY <1>3 DEF AssignmentEnd
  <2>2. Visitable(Node, W) /\ IsValue(Node) /\ returned \in W /\ IsValue(returned)
    BY <1>1, <2>1, Standing DEF Fits
  <2>3. Node.kind = "VarExpr" => Visitable(n, W) /\ IsValue(n)
    BY <2>2, Members, Operations DEF AssignExpr, IsValue, ExpressionKinds
  <2>4. Fits(Parse("Compound"), W) /\ Parse("Compound").do = "Compound"
    BY <1>1, BareTasks
  <2>. HIDE DEF n
  <2>5. CASE Node.kind = "VarExpr" /\ Complete(n, Here, {})
    BY <2>1, <2>3, <2>5, Ways
  <2>6. CASE Step(Node, <<Parse("Compound")>>, Here, {"InvalidAssignmentTarget"})
    BY <1>1, <2>1, <2>2, <2>4, <2>6, Ways
  <2>. QED
    BY <2>1, <2>5, <2>6
<1>4. CASE CompoundAssignment
  <2>. DEFINE n == BinaryExpr(CompoundOp(Type(Here)), returned, Null)
  <2>1. PICK do \in {"Compound", "Assignment"} : Running(do)
    BY <1>4 DEF CompoundAssignment
  <2>2. \/ /\ \E pair \in CompoundOperators : pair[1] = Type(Here)
           /\ Call(Here + 1, <<Parse("Expression"), Rest("CompoundAssign", n)>>)
        \/ Call(Here, <<>>)
    BY <1>4 DEF CompoundAssignment, At
  <2>3. ASSUME NEW type, \E pair \in CompoundOperators : pair[1] = type
        PROVE  CompoundOp(type) \in BinaryOperators
    <3>1. \A pair \in CompoundOperators : pair[2] \in BinaryOperators
      BY DEF CompoundOperators, BinaryOperators
    <3>2. (CHOOSE pair \in CompoundOperators : pair[1] = type) \in CompoundOperators
      BY <2>3
    <3>. QED
      BY <3>1, <3>2 DEF CompoundOp
  <2>4. returned \in W /\ IsValue(returned) /\ Null \in W /\ IsValue(Null)
    BY <1>1, <2>1, Standing
  <2>5. CASE Call(Here, <<>>)
    BY <1>1, <2>1, <2>5, Turns
  <2>6. CASE /\ \E pair \in CompoundOperators : pair[1] = Type(Here)
             /\ Call(Here + 1, <<Parse("Expression"), Rest("CompoundAssign", n)>>)
    <3>1. CompoundOp(Type(Here)) \in BinaryOperators
      BY <2>3, <2>6
    <3>2. Visitable(n, W) /\ n.kind = "BinaryExpr"
      BY <2>4, <3>1, Operations DEF BinaryExpr
    <3>. HIDE DEF n
    <3>3. Fits(Rest("CompoundAssign", n), W) /\ Rest("CompoundAssign", n).do = "CompoundAssign"
      BY <3>2, Waits
    <3>. QED
      BY <1>1, <2>1, <2>6, <3>3, Turns
  <2>. QED
    BY <2>2, <2>5, <2>6
<1>5. CASE CompoundAssignmentEnd
  <2>. DEFINE value == BinaryExpr(Node.op, Node.left, returned)
              n == AssignExpr(Node.left.name, value)
  <2>1. /\ Running("CompoundAssign")
        /\ \/ Node.left.kind = "VarExpr" /\ Complete(n, Here, {})
           \/ Complete(Node.left, Here, {"InvalidCompoundAssignmentTarget"})
    BY <1>5 DEF CompoundAssignmentEnd
  <2>2. Visitable(Node, W) /\ Node.kind = "BinaryExpr" /\ returned \in W /\ IsValue(returned)
    BY <1>1, <2>1, Standing DEF Fits
  <2>3. Node.op \in BinaryOperators /\ Node.left \in W /\ IsValue(Node.left)
    BY <2>2, Members
  <2>4. Visitable(Node.left, W)
    BY <2>3 DEF Made
  <2>5. CASE Complete(Node.left, Here, {"InvalidCompoundAssignmentTarget"})
    BY <2>1, <2>3, <2>4, <2>5, Ways
  \* Two nodes are made.
  <2>6. CASE Node.left.kind = "VarExpr" /\ Complete(n, Here, {})
    <3>1. Visitable(value, W) /\ value.kind = "BinaryExpr"
      BY <2>2, <2>3, Operations DEF BinaryExpr
    <3>2. errors = {} => ~Hole(value)
      <4>1. errors = {} => returned # Null /\ Node.left # Null
        <5>1. todo # <<>> /\ Top.do = "CompoundAssign" /\ Node = Top.node
          BY <2>1, Standing
        <5>. QED
          BY <5>1, TopOK DEF Filled, Takers
      <4>2. value.left = Node.left /\ value.right = returned
        BY DEF BinaryExpr
      <4>. HIDE DEF value
      <4>. QED
        BY <3>1, <4>1, <4>2 DEF Hole
    <3>. HIDE DEF value
    <3>. DEFINE V == W \cup {value}
    <3>3. Made(V) /\ value \in V
      BY <3>1, <3>2, Grows
    <3>. HIDE DEF V
    <3>4. Node.left.name \in STRING
      BY <2>4, <2>6, Members
    <3>5. IsValue(value)
      BY <3>1 DEF IsValue, ExpressionKinds
    <3>6. Visitable(n, V) /\ n.kind = "AssignExpr"
      BY <3>3, <3>4, <3>5, Operations DEF AssignExpr
    <3>. HIDE DEF n
    <3>7. IsValue(n)
      BY <3>6 DEF IsValue, ExpressionKinds
    <3>. QED
      BY <2>1, <2>6, <3>3, <3>6, <3>7, Ways
  <2>. QED
    BY <2>1, <2>5, <2>6
<1>. QED
  BY <1>2, <1>3, <1>4, <1>5

LEMMA UnaryTrees ==
    ASSUME NEW W, Made(W), Inv, Inv', ParseUnary \/ Operand \/ ParsePostfix
    PROVE  Grown
<1>1. /\ {"Unary", "Operand", "Primary", "Postfix"} \subseteq Values
      /\ {"Operand", "Postfix"} \subseteq Users
      /\ {"Unary", "Primary"} \subseteq Calls /\ "Postfix" \in Bare
  BY DEF Values, Users, Bare, Calls
<1>2. CASE ParseUnary
  <2>. DEFINE u == UnaryExpr(Lexeme(Here), Null)
              p == PrefixExpr(Lexeme(Here), Null)
  <2>1. /\ Running("Unary")
        /\ \/ /\ AtAny(Here, {"!", "~"})
              /\ Call(Here + 1, <<Parse("Unary"), Rest("Operand", u)>>)
           \/ /\ AtAny(Here, {"++", "--"})
              /\ Call(Here + 1, <<Parse("Unary"), Rest("Operand", p)>>)
           \/ Call(Here, <<Parse("Primary"), Parse("Postfix")>>)
    BY <1>2 DEF ParseUnary
  <2>2. Ahead(Here) /\ Null \in W /\ IsValue(Null)
    BY <2>1, Ready, Standing
  <2>3. Lexeme(Here) \in STRING
    BY <2>2, Spelling
  <2>4. CASE /\ AtAny(Here, {"!", "~"})
             /\ Call(Here + 1, <<Parse("Unary"), Rest("Operand", u)>>)
    <3>1. Lexeme(Here) \in {"!", "~"}
      BY <2>2, <2>4, Spelling
    <3>2. Visitable(u, W) /\ u.kind = "UnaryExpr"
      BY <2>2, <2>3, <3>1, Operations DEF UnaryExpr
    <3>. HIDE DEF u
    <3>3. Fits(Rest("Operand", u), W) /\ Rest("Operand", u).do = "Operand"
      BY <3>2, Waits
    <3>. QED
      BY <1>1, <2>1, <2>4, <3>3, Turns
  <2>5. CASE /\ AtAny(Here, {"++", "--"})
             /\ Call(Here + 1, <<Parse("Unary"), Rest("Operand", p)>>)
    <3>1. Lexeme(Here) \in {"++", "--"}
      BY <2>2, <2>5, Spelling
    <3>2. Visitable(p, W) /\ p.kind = "PrefixExpr"
      BY <2>2, <2>3, <3>1, Operations DEF PrefixExpr
    <3>. HIDE DEF p
    <3>3. Fits(Rest("Operand", p), W) /\ Rest("Operand", p).do = "Operand"
      BY <3>2, Waits
    <3>. QED
      BY <1>1, <2>1, <2>5, <3>3, Turns
  <2>6. CASE Call(Here, <<Parse("Primary"), Parse("Postfix")>>)
    <3>1. Fits(Parse("Postfix"), W) /\ Parse("Postfix").do = "Postfix"
      BY <1>1, BareTasks
    <3>. QED
      BY <1>1, <2>1, <2>6, <3>1, Turns
  <2>. QED
    BY <2>1, <2>4, <2>5, <2>6
<1>3. CASE Operand
  <2>. DEFINE n == IF Node.kind = "UnaryExpr" THEN UnaryExpr(Node.op, returned)
                   ELSE PrefixExpr(Node.op, returned)
  <2>1. Running("Operand") /\ Complete(n, Here, {})
    BY <1>3 DEF Operand
  <2>2. /\ Visitable(Node, W) /\ Node.kind \in {"UnaryExpr", "PrefixExpr"}
        /\ returned \in W /\ IsValue(returned)
    BY <1>1, <2>1, Standing DEF Fits
  <2>3. /\ Node.op \in STRING
        /\ Node.kind = "UnaryExpr" => Node.op \in {"!", "~"}
        /\ Node.kind = "PrefixExpr" => Node.op \in {"++", "--"}
    BY <2>2, Members
  <2>4. Node.kind = "UnaryExpr" =>
           /\ Visitable(UnaryExpr(Node.op, returned), W)
           /\ IsValue(UnaryExpr(Node.op, returned))
    BY <2>2, <2>3, Operations DEF UnaryExpr, IsValue, ExpressionKinds
  <2>5. Node.kind = "PrefixExpr" =>
           /\ Visitable(PrefixExpr(Node.op, returned), W)
           /\ IsValue(PrefixExpr(Node.op, returned))
    BY <2>2, <2>3, Operations DEF PrefixExpr, IsValue, ExpressionKinds
  <2>6. Visitable(n, W) /\ IsValue(n)
    BY <2>2, <2>4, <2>5
  <2>. HIDE DEF n
  <2>. QED
    BY <2>1, <2>6, Ways
<1>4. CASE ParsePostfix
  <2>. DEFINE n == PostfixExpr(Lexeme(Here), returned)
  <2>1. /\ Running("Postfix")
        /\ \/ AtAny(Here, {"++", "--"}) /\ Step(n, <<Top>>, Here + 1, {})
           \/ Call(Here, <<>>)
    BY <1>4 DEF ParsePostfix
  <2>2. /\ Ahead(Here) /\ Fits(Top, W) /\ Top.do = "Postfix"
        /\ returned \in W /\ IsValue(returned)
    BY <1>1, <2>1, Ready, Standing
  <2>3. CASE AtAny(Here, {"++", "--"}) /\ Step(n, <<Top>>, Here + 1, {})
    <3>1. Lexeme(Here) \in STRING /\ Lexeme(Here) \in {"++", "--"}
      BY <2>2, <2>3, Spelling
    <3>2. Visitable(n, W) /\ n.kind = "PostfixExpr"
      BY <2>2, <3>1, Operations DEF PostfixExpr
    <3>. HIDE DEF n
    <3>3. IsValue(n)
      BY <3>2 DEF IsValue, ExpressionKinds
    <3>. QED
      BY <1>1, <2>1, <2>2, <2>3, <3>2, <3>3, Ways
  <2>4. CASE Call(Here, <<>>)
    BY <1>1, <2>1, <2>4, Turns
  <2>. QED
    BY <2>1, <2>3, <2>4
<1>. QED
  BY <1>2, <1>3, <1>4

LEMMA LiteralTrees ==
    ASSUME NEW W, Made(W), Inv, Inv', Literal \/ Alloc
    PROVE  Grown
<1>1. CASE Literal
  <2>. DEFINE value == LiteralValue[m_Tokens[Here + 1]]
              n == LiteralExpr(value.class, value.num)
  <2>1. Running("Primary") /\ AtAny(Here, LiteralTypes) /\ Complete(n, Here + 1, {})
    BY <1>1 DEF Literal
  <2>2. value \in [class : STRING, num : Int]
    BY <2>1, Ready, Spelling
  <2>. HIDE DEF value
  <2>3. Visitable(n, W) /\ n.kind = "LiteralExpr"
    BY <2>2, Leaves DEF LiteralExpr
  <2>. HIDE DEF n
  <2>4. IsValue(n)
    BY <2>3 DEF IsValue, ExpressionKinds
  <2>. QED
    BY <2>1, <2>3, <2>4, Ways
<1>2. CASE Alloc
  <2>. DEFINE n == AllocExpr(PointerTo(Lexeme(Here + 2)))
  <2>1. /\ Running("Primary")
        /\ \/ \E i, message : Fail(i, message)
           \/ At(Here, "alloc") /\ At(Here + 1, "<") /\ Complete(n, Here + 6, {})
    BY <1>2 DEF Alloc
  <2>2. CASE At(Here, "alloc") /\ At(Here + 1, "<") /\ Complete(n, Here + 6, {})
    <3>1. Ahead(Here + 2)
      BY <2>1, <2>2, Ready, Passing
    <3>2. PointerTo(Lexeme(Here + 2)) \in TypeRefs
      BY <3>1, Spelling, TypesOfNodes
    <3>3. Visitable(n, W) /\ n.kind = "AllocExpr"
      BY <3>2, Leaves DEF AllocExpr
    <3>. HIDE DEF n
    <3>4. IsValue(n)
      BY <3>3 DEF IsValue, ExpressionKinds
    <3>. QED
      BY <2>1, <2>2, <3>3, <3>4, Ways
  <2>. HIDE DEF n
  <2>3. CASE \E i, message : Fail(i, message)
    BY <2>1, <2>3, Turns
  <2>. QED
    BY <2>1, <2>2, <2>3
<1>. QED
  BY <1>1, <1>2

LEMMA CastTrees ==
    ASSUME NEW W, Made(W), Inv, Inv', Cast \/ CastEnd \/ Group \/ GroupEnd
    PROVE  Grown
<1>1. /\ {"Primary", "Cast", "Group", "Expression"} \subseteq Values
      /\ {"Cast", "Group"} \subseteq Users
      /\ {"Primary", "Expression"} \subseteq Calls /\ "Group" \in Bare
  BY DEF Values, Users, Bare, Calls
<1>2. CASE Cast
  <2>. DEFINE name == Match(Here + 1, "struct")
              type == TypeFrom(Lexeme(name), name + 1)
              n == CastExpr(type.type, Null)
  <2>1. /\ Running("Primary") /\ At(Here, "(")
        /\ \/ \E i, message : Fail(i, message)
           \/ \E i, messages : Complete(Null, i, messages)
           \/ \E i, messages : Continue(<<Parse("Primary"), Rest("Cast", n)>>, i, messages)
    BY <1>2 DEF Cast, CastAhead, Complete
  <2>2. Null \in W /\ IsValue(Null) /\ Visitable(Null, W)
    BY <2>1, Standing
  <2>3. Ahead(name)
    BY <2>1, Ready, Passing
  <2>4. type.type \in TypeRefs
    BY <2>3, Spelling, TypesOfNodes
  <2>. HIDE DEF name, type
  <2>5. Visitable(n, W) /\ n.kind = "CastExpr"
    BY <2>2, <2>4, Operations DEF CastExpr
  <2>. HIDE DEF n
  <2>6. Fits(Rest("Cast", n), W) /\ Rest("Cast", n).do = "Cast"
    BY <2>5, Waits
  <2>7. CASE \E i, message : Fail(i, message)
    BY <2>1, <2>7, Turns
  <2>8. CASE \E i, messages : Complete(Null, i, messages)
    BY <2>1, <2>2, <2>8, Ways
  <2>9. CASE \E i, messages : Continue(<<Parse("Primary"), Rest("Cast", n)>>, i, messages)
    BY <1>1, <2>1, <2>6, <2>9, Turns
  <2>. QED
    BY <2>1, <2>7, <2>8, <2>9
<1>3. CASE CastEnd
  <2>. DEFINE n == CastExpr(Node.targetType, returned)
  <2>1. Running("Cast") /\ Complete(n, Here, {})
    BY <1>3 DEF CastEnd
  <2>2. Visitable(Node, W) /\ Node.kind = "CastExpr" /\ returned \in W /\ IsValue(returned)
    BY <1>1, <2>1, Standing DEF Fits
  <2>3. Node.targetType \in TypeRefs
    BY <2>2, Members
  <2>4. Visitable(n, W) /\ n.kind = "CastExpr"
    BY <2>2, <2>3, Operations DEF CastExpr
  <2>. HIDE DEF n
  <2>5. IsValue(n)
    BY <2>4 DEF IsValue, ExpressionKinds
  <2>. QED
    BY <2>1, <2>4, <2>5, Ways
<1>4. CASE Group
  <2>1. /\ Running("Primary")
        /\ Call(Here + 1, <<Parse("Expression"), Parse("Group")>>)
    BY <1>4 DEF Group
  <2>2. Fits(Parse("Group"), W) /\ Parse("Group").do = "Group"
    BY <1>1, BareTasks
  <2>. QED
    BY <1>1, <2>1, <2>2, Turns
<1>5. CASE GroupEnd
  <2>1. Running("Group") /\ \E i, messages : Complete(returned, i, messages)
    BY <1>5 DEF GroupEnd
  <2>2. Visitable(returned, W) /\ IsValue(returned)
    BY <1>1, <2>1, Standing
  <2>. QED
    BY <2>1, <2>2, Ways
<1>. QED
  BY <1>2, <1>3, <1>4, <1>5

LEMMA CallTrees ==
    ASSUME NEW W, Made(W), Inv, Inv', CallFunction \/ Argument
    PROVE  Grown
<1>1. /\ {"Primary", "Argument", "Expression"} \subseteq Values
      /\ "Argument" \in Users /\ "Expression" \in Calls
  BY DEF Values, Users, Calls
<1>2. ASSUME NEW callee \in STRING, NEW arguments \in Seq({n \in W : IsValue(n)})
      PROVE  LET c == CallExpr(callee, arguments)
             IN  /\ Visitable(c, W) /\ IsValue(c)
                 /\ Fits(Rest("Argument", c), W) /\ Rest("Argument", c).do = "Argument"
  <2>. DEFINE c == CallExpr(callee, arguments)
  <2>1. Visitable(c, W) /\ c.kind = "CallExpr"
    BY <1>2, Operations DEF CallExpr
  <2>. HIDE DEF c
  <2>2. IsValue(c)
    BY <2>1 DEF IsValue, ExpressionKinds
  <2>3. Fits(Rest("Argument", c), W) /\ Rest("Argument", c).do = "Argument"
    BY <2>1, Waits
  <2>. QED
    BY <2>1, <2>2, <2>3 DEF c
<1>3. ASSUME NEW do \in {"Primary", "Argument"}, Running(do), NEW c,
             Visitable(c, W), IsValue(c),
             Fits(Rest("Argument", c), W), Rest("Argument", c).do = "Argument",
             \/ \E i, messages : Complete(c, i, messages)
             \/ \E i : Call(i, <<Parse("Expression"), Rest("Argument", c)>>)
      PROVE  Grown
  <2>1. CASE \E i, messages : Complete(c, i, messages)
    BY <1>3, <2>1, Ways
  <2>2. CASE \E i : Call(i, <<Parse("Expression"), Rest("Argument", c)>>)
    BY <1>1, <1>3, <2>2, Turns
  <2>. QED
    BY <1>3, <2>1, <2>2
<1>4. CASE CallFunction
  <2>. DEFINE c == CallExpr(Lexeme(Here), <<>>)
  <2>1. /\ Running("Primary")
        /\ \/ \E i, messages : Complete(c, i, messages)
           \/ \E i : Call(i, <<Parse("Expression"), Rest("Argument", c)>>)
    BY <1>4 DEF CallFunction
  <2>2. Lexeme(Here) \in STRING
    BY <2>1, Ready, Spelling
  <2>3. <<>> \in Seq({n \in W : IsValue(n)})
    OBVIOUS
  <2>4. /\ Visitable(c, W) /\ IsValue(c)
        /\ Fits(Rest("Argument", c), W) /\ Rest("Argument", c).do = "Argument"
    BY <1>2, <2>2, <2>3
  <2>. HIDE DEF c
  <2>. QED
    BY <1>3, <2>1, <2>4
<1>5. CASE Argument
  <2>. DEFINE arguments == Append(Node.arguments, returned)
              c == CallExpr(Node.callee, arguments)
  <2>1. /\ Running("Argument")
        /\ \/ \E i, messages : Complete(c, i, messages)
           \/ \E i : Call(i, <<Parse("Expression"), Rest("Argument", c)>>)
    BY <1>5 DEF Argument
  <2>2. Visitable(Node, W) /\ Node.kind = "CallExpr" /\ returned \in W /\ IsValue(returned)
    BY <1>1, <2>1, Standing DEF Fits
  <2>3. Node.callee \in STRING /\ Node.arguments \in Seq({n \in W : IsValue(n)})
    BY <2>2, Members
  <2>4. arguments \in Seq({n \in W : IsValue(n)})
    <3>. DEFINE S == {n \in W : IsValue(n)}
    <3>1. returned \in S
      BY <2>2
    <3>. HIDE DEF S
    <3>2. Node.arguments \in Seq(S)
      BY <2>3 DEF S
    <3>3. arguments \in Seq(S)
      BY <3>1, <3>2, AppendProperties
    <3>. QED
      BY <3>3 DEF S
  <2>. HIDE DEF arguments
  <2>5. /\ Visitable(c, W) /\ IsValue(c)
        /\ Fits(Rest("Argument", c), W) /\ Rest("Argument", c).do = "Argument"
    BY <1>2, <2>3, <2>4
  <2>. HIDE DEF c
  <2>. QED
    BY <1>3, <2>1, <2>5
<1>. QED
  BY <1>4, <1>5

LEMMA VariableTrees ==
    ASSUME NEW W, Made(W), Inv, Inv', Variable \/ Member \/ NoExpression
    PROVE  Grown
<1>1. "Members" \in Values /\ "Members" \in Users /\ "Members" \in Bare
  BY DEF Values, Users, Bare
<1>2. CASE Variable
  <2>. DEFINE n == VarExpr(Lexeme(Here))
  <2>1. Running("Primary") /\ Step(n, <<Parse("Members")>>, Here + 1, {})
    BY <1>2 DEF Variable
  <2>2. Lexeme(Here) \in STRING
    BY <2>1, Ready, Spelling
  <2>3. Visitable(n, W) /\ n.kind = "VarExpr"
    BY <2>2, Leaves DEF VarExpr
  <2>. HIDE DEF n
  <2>4. IsValue(n)
    BY <2>3 DEF IsValue, ExpressionKinds
  <2>5. Fits(Parse("Members"), W) /\ Parse("Members").do = "Members"
    BY <1>1, BareTasks
  <2>. QED
    BY <1>1, <2>1, <2>3, <2>4, <2>5, Ways
<1>3. CASE Member
  <2>. DEFINE n == MemberAccessExpr(returned, Lexeme(Here + 1))
  <2>1. /\ Running("Members")
        /\ \/ Call(Here, <<>>)
           \/ \E i, messages : Continue(<<>>, i, messages)
           \/ At(Here, ".") /\ Step(n, <<Top>>, Here + 2, {})
    BY <1>3 DEF Member
  <2>2. Fits(Top, W) /\ Top.do = "Members" /\ returned \in W /\ IsValue(returned)
    BY <1>1, <2>1, Standing
  <2>3. CASE At(Here, ".") /\ Step(n, <<Top>>, Here + 2, {})
    <3>1. Ahead(Here + 1)
      BY <2>1, <2>3, Ready, Passing
    <3>2. Lexeme(Here + 1) \in STRING
      BY <3>1, Spelling
    <3>3. Visitable(n, W) /\ n.kind = "MemberAccessExpr"
      BY <2>2, <3>2, Operations DEF MemberAccessExpr
    <3>. HIDE DEF n
    <3>4. IsValue(n)
      BY <3>3 DEF IsValue, ExpressionKinds
    <3>. QED
      BY <1>1, <2>1, <2>2, <2>3, <3>3, <3>4, Ways
  <2>. HIDE DEF n
  <2>4. CASE Call(Here, <<>>) \/ \E i, messages : Continue(<<>>, i, messages)
    BY <1>1, <2>1, <2>4, Turns
  <2>. QED
    BY <2>1, <2>3, <2>4
<1>4. CASE NoExpression
  BY <1>4, Turns DEF NoExpression
<1>. QED
  BY <1>2, <1>3, <1>4

(***************************************************************************)
(* The steps together, and the theorem.                                    *)
(***************************************************************************)
Trees == Inv /\ \E W : Made(W)

LEMMA InitTrees == Init => Trees
<1>. SUFFICES ASSUME Init
              PROVE  Inv /\ Made({Null})
  BY DEF Trees
<1>1. todo = <<>> /\ returned = Null /\ program = <<>> /\ errors = {}
  BY DEF Init
<1>2. DOMAIN <<>> = {}
  OBVIOUS
<1>3. \A n \in {Null} : Visitable(n, {Null}) /\ ~Hole(n)
  BY Leaves DEF Hole, Null
<1>4. Made({Null})
  BY <1>1, <1>2, <1>3 DEF Made, Handed
<1>. QED
  BY <1>4, InitStep

LEMMA NextTrees == Trees /\ [Next]_vars => Trees'
<1>. SUFFICES ASSUME Trees, [Next]_vars
              PROVE  Trees'
  OBVIOUS
<1>1. PICK W : Made(W)
  BY DEF Trees
<1>2. Inv /\ Inv'
  BY NextStep DEF Trees
<1>. SUFFICES Grown
  BY <1>2 DEF Trees, Grown
<1>3. CASE UNCHANGED vars
  <2>1. UNCHANGED <<todo, returned, program, errors>>
    BY <1>3 DEF vars
  <2>2. Made(W)'
    BY <1>1, <2>1 DEF Made, Handed, Top
  <2>. QED
    BY <2>2 DEF Grown
<1>4. CASE Declarations
  BY <1>1, <1>2, <1>4, TopLevelTrees, RecoverTrees, InterfaceTrees, StructTrees, FunctionTrees
     DEF Declarations
<1>5. CASE Statements
  BY <1>1, <1>2, <1>5, BlockTrees, ReturnTrees, VarDeclTrees, IfTrees, WhileTrees, ForTrees,
     ExprStatementTrees DEF Statements
<1>6. CASE Expressions
  BY <1>1, <1>2, <1>6, OperatorTrees, AssignmentTrees, UnaryTrees, LiteralTrees, CastTrees,
     CallTrees, VariableTrees DEF Expressions
<1>. QED
  BY <1>3, <1>4, <1>5, <1>6 DEF Next

\* There is a set of nodes, closed under the children, that holds every declaration
\* and every node below it, and in which every node is what CodeGen takes for granted:
\* its members have the types of the headers, its operands leave values, its operator
\* is one that the generator knows, and if nothing was printed it has no hole.
VisitableProgram ==
    \E W :
        /\ Null \in W
        /\ \A n \in W : WellFormed(n, W) /\ OperandsHaveValues(n) /\ OperatorKnown(n)
        /\ program \in Seq({n \in W : n.kind \in TopLevelKinds})
        /\ errors = {} => \A n \in W : ~Hole(n)

LEMMA TreesVisitable == Trees => VisitableProgram
<1>. SUFFICES ASSUME NEW W, Made(W), Inv
              PROVE  VisitableProgram
  BY DEF Trees
<1>. DEFINE S == {n \in W : n.kind \in TopLevelKinds}
<1>1. \A k \in DOMAIN program : program[k] \in S
  BY DEF Made
<1>. HIDE DEF S
<1>2. {program[k] : k \in DOMAIN program} \subseteq S
  BY <1>1
<1>3. program \in Seq(S)
  BY <1>2, SeqMonotonic DEF Inv, IsSeq
<1>. QED
  BY <1>3 DEF Made, Visitable, VisitableProgram, S

\* Whatever the tokens: the trees that Parse returns are what CodeGen's Visit
\* functions take for granted, which cast, compare and dereference without checking:
\* the assumptions that the theorems about CodeGen rest on (AstAssumption,
\* OperandAssumption, OperatorAssumption, HoleAssumption) hold of this parser's trees.
THEOREM TreesAreVisitable == Spec => []VisitableProgram
<1>1. Init => Trees
  BY InitTrees
<1>2. Trees /\ [Next]_vars => Trees'
  BY NextTrees
<1>. QED
  BY <1>1, <1>2, TreesVisitable, PTL DEF Spec
=============================================================================
