-------------------------------- MODULE Ast --------------------------------
(***************************************************************************)
(* The abstract syntax tree that Parser.cpp builds and CodeGen.cpp walks   *)
(* (src/AST).  A node is a record: "kind" stands for its dynamic C++ class *)
(* and the other fields are the members of that class.  A null             *)
(* shared_ptr, which the parser leaves behind a construct it rejected, is  *)
(* the node Null.                                                          *)
(***************************************************************************)
EXTENDS Integers, Sequences

Null == [kind |-> "nullptr"]

(***************************************************************************)
(* Types (TypeRef).  A type without a name asks for inference; the empty   *)
(* string is written "none" throughout.                                    *)
(***************************************************************************)
TypeRef(name, isPointer, isNullable) ==
    [name |-> name, isPointer |-> isPointer, isNullable |-> isNullable]

Plain(name) == TypeRef(name, FALSE, FALSE)
PointerTo(name) == TypeRef(name, TRUE, FALSE)
NullableTo(name) == TypeRef(name, TRUE, TRUE)
Inferred == Plain("none")

(***************************************************************************)
(* Expressions.  The text of a literal is abstracted to its class:         *)
(*   "null", "true", "false", "string", "char";                            *)
(*   "int", an integer literal that fits i32, whose value is num;          *)
(*   "float", whose integral part is num;                                  *)
(*   "huge", an integer literal that std::stoll refuses;                   *)
(*   "hugeFloat", a float literal that std::stoll and std::stod refuse.    *)
(***************************************************************************)
LiteralExpr(class, num) ==
    [kind |-> "LiteralExpr", value |-> [class |-> class, num |-> num]]
VarExpr(name) == [kind |-> "VarExpr", name |-> name]
CallExpr(callee, arguments) ==
    [kind |-> "CallExpr", callee |-> callee, arguments |-> arguments]
BinaryExpr(op, left, right) ==
    [kind |-> "BinaryExpr", op |-> op, left |-> left, right |-> right]
UnaryExpr(op, operand) ==
    [kind |-> "UnaryExpr", op |-> op, operand |-> operand]
CastExpr(targetType, expr) ==
    [kind |-> "CastExpr", targetType |-> targetType, expr |-> expr]
AllocExpr(allocType) == [kind |-> "AllocExpr", allocType |-> allocType]
AssignExpr(name, value) ==
    [kind |-> "AssignExpr", name |-> name, value |-> value]
MemberAccessExpr(object, memberName) ==
    [kind |-> "MemberAccessExpr", object |-> object, memberName |-> memberName]
PrefixExpr(op, operand) ==
    [kind |-> "PrefixExpr", op |-> op, operand |-> operand]
PostfixExpr(op, operand) ==
    [kind |-> "PostfixExpr", op |-> op, operand |-> operand]

(***************************************************************************)
(* Statements.                                                             *)
(***************************************************************************)
IfStatement(condition, thenBranch, elseBranch) ==
    [kind |-> "IfStatement", condition |-> condition,
     thenBranch |-> thenBranch, elseBranch |-> elseBranch]
WhileStatement(condition, body) ==
    [kind |-> "WhileStatement", condition |-> condition, body |-> body]
ForStatement(init, condition, update, body) ==
    [kind |-> "ForStatement", init |-> init, condition |-> condition,
     update |-> update, body |-> body]
BlockStatement(statements) ==
    [kind |-> "BlockStatement", statements |-> statements]
ExprStatement(expression) ==
    [kind |-> "ExprStatement", expression |-> expression]
ReturnStatement(value) == [kind |-> "ReturnStatement", value |-> value]
VariableDecl(name, varType, initializer, isMutable) ==
    [kind |-> "VariableDecl", name |-> name, varType |-> varType,
     initializer |-> initializer, isMutable |-> isMutable]

(***************************************************************************)
(* Top-level declarations.                                                 *)
(***************************************************************************)
Parameter(name, type) == [name |-> name, type |-> type]
StructField(name, type, isPublic) ==
    [name |-> name, type |-> type, isPublic |-> isPublic]
FunctionDecl(name, params, returnType, body) ==
    [kind |-> "FunctionDecl", name |-> name, params |-> params,
     returnType |-> returnType, body |-> body]
StructDecl(name, interfaceImplemented, fields) ==
    [kind |-> "StructDecl", name |-> name,
     interfaceImplemented |-> interfaceImplemented, fields |-> fields]
InterfaceDecl(name, methods) ==
    [kind |-> "InterfaceDecl", name |-> name, methods |-> methods]

(***************************************************************************)
(* The nodes a node points to, null ones included, in source order.        *)
(***************************************************************************)
Children(n) ==
    CASE n.kind = "CallExpr" -> n.arguments
      [] n.kind = "BinaryExpr" -> <<n.left, n.right>>
      [] n.kind \in {"UnaryExpr", "PrefixExpr", "PostfixExpr"} -> <<n.operand>>
      [] n.kind = "CastExpr" -> <<n.expr>>
      [] n.kind \in {"AssignExpr", "ReturnStatement"} -> <<n.value>>
      [] n.kind = "MemberAccessExpr" -> <<n.object>>
      [] n.kind = "IfStatement" -> <<n.condition, n.thenBranch, n.elseBranch>>
      [] n.kind = "WhileStatement" -> <<n.condition, n.body>>
      [] n.kind = "ForStatement" -> <<n.init, n.condition, n.update, n.body>>
      [] n.kind = "BlockStatement" -> n.statements
      [] n.kind = "ExprStatement" -> <<n.expression>>
      [] n.kind = "VariableDecl" -> <<n.initializer>>
      [] n.kind = "FunctionDecl" -> <<n.body>>
      [] OTHER -> <<>>

\* The classes derived from Expression, and the members visited for the value
\* they leave.  The headers declare these as AstNode: that they are expressions,
\* or null, is for the parser to see to.
ExpressionKinds ==
    {"CallExpr", "BinaryExpr", "UnaryExpr", "VarExpr", "LiteralExpr", "CastExpr",
     "AllocExpr", "AssignExpr", "MemberAccessExpr", "PrefixExpr", "PostfixExpr"}

Operands(n) ==
    CASE n.kind \in ExpressionKinds \cup {"ReturnStatement", "VariableDecl"} ->
            Children(n)
      [] n.kind \in {"IfStatement", "WhileStatement", "ForStatement"} ->
            <<n.condition>>
      [] OTHER -> <<>>

OperandsHaveValues(n) ==
    \A k \in DOMAIN Operands(n) :
        Operands(n)[k] = Null \/ Operands(n)[k].kind \in ExpressionKinds

\* The headers declare an operator as a string: that it is one of those below is
\* for the parser to see to as well.
BinaryOperators ==
    {"||", "or", "&&", "and", "|", "^", "&", "==", "!=", "<", "<=", ">", ">=",
     "<<", ">>", "+", "-", "*", "/", "%"}

\* The classes, and what stands for a null pointer.
NodeKinds ==
    ExpressionKinds
        \cup {"IfStatement", "WhileStatement", "ForStatement", "BlockStatement",
              "ExprStatement", "ReturnStatement", "VariableDecl", "FunctionDecl",
              "StructDecl", "InterfaceDecl", "nullptr"}

\* A literal is a string, which the provers are not told.
ASSUME StringAssumption ==
    NodeKinds \cup BinaryOperators \cup {"none", "void"} \subseteq STRING

OperatorKnown(n) ==
    /\ n.kind = "BinaryExpr" => n.op \in BinaryOperators
    /\ n.kind = "UnaryExpr" => n.op \in {"!", "~"}
    /\ n.kind \in {"PrefixExpr", "PostfixExpr"} => n.op \in {"++", "--"}

\* A node without a child that the grammar demands of it.
Hole(n) ==
    \/ n.kind = "BinaryExpr" /\ Null \in {n.left, n.right}
    \/ n.kind \in {"UnaryExpr", "PrefixExpr", "PostfixExpr"} /\ n.operand = Null
    \/ n.kind = "CastExpr" /\ n.expr = Null
    \/ n.kind = "AssignExpr" /\ n.value = Null
    \/ n.kind = "CallExpr" /\ \E k \in DOMAIN n.arguments : n.arguments[k] = Null
    \/ n.kind = "MemberAccessExpr" /\ n.object = Null
    \/ n.kind = "IfStatement" /\ Null \in {n.condition, n.thenBranch}
    \/ n.kind = "WhileStatement" /\ Null \in {n.condition, n.body}
    \/ n.kind = "ForStatement" /\ n.body = Null
    \/ n.kind = "ExprStatement" /\ n.expression = Null
    \/ n.kind = "BlockStatement" /\ \E k \in DOMAIN n.statements : n.statements[k] = Null
    \/ n.kind = "VariableDecl" /\ n.varType = Inferred /\ n.initializer = Null
    \/ n.kind = "FunctionDecl" /\ n.body = Null

IsVar(n, name) == n.kind = "VarExpr" /\ n.name = name

(***************************************************************************)
(* The members of a node have the types that the headers give them; nodes  *)
(* is the set of all nodes.                                                *)
(***************************************************************************)
TypeRefs == [name : STRING, isPointer : BOOLEAN, isNullable : BOOLEAN]
Parameters == [name : STRING, type : TypeRefs]
StructFields == [name : STRING, type : TypeRefs, isPublic : BOOLEAN]

WellFormed(n, nodes) ==
    /\ n.kind \in STRING
    /\ Children(n) \in Seq(nodes)
    /\ n.kind = "LiteralExpr" => n.value.class \in STRING /\ n.value.num \in Int
    /\ n.kind \in {"VarExpr", "AssignExpr", "VariableDecl", "FunctionDecl",
                   "StructDecl"} => n.name \in STRING
    /\ n.kind \in {"BinaryExpr", "UnaryExpr", "PrefixExpr", "PostfixExpr"} =>
          n.op \in STRING
    /\ n.kind = "CallExpr" => n.callee \in STRING
    /\ n.kind = "CastExpr" => n.targetType \in TypeRefs
    /\ n.kind = "AllocExpr" => n.allocType \in TypeRefs
    /\ n.kind = "MemberAccessExpr" => n.memberName \in STRING
    /\ n.kind = "VariableDecl" => n.varType \in TypeRefs /\ n.isMutable \in BOOLEAN
    /\ n.kind = "FunctionDecl" =>
          n.params \in Seq(Parameters) /\ n.returnType \in TypeRefs
    /\ n.kind = "StructDecl" => n.fields \in Seq(StructFields)
=============================================================================
