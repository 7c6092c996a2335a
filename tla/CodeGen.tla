------------------------------ MODULE CodeGen ------------------------------
(***************************************************************************)
(* jlang's CodeGenerator (src/CodeGen/CodeGen.cpp): the visitor that walks *)
(* the syntax tree once and drives LLVM's IRBuilder, one declaration at a  *)
(* time.  The handlers are sequential but deeply interleaved: a handler    *)
(* visits a child, and resumes with whatever the child left in m_LastValue,*)
(* in m_variables and at the insert point.  The C++ call stack below       *)
(* VisitFunctionDecl is therefore explicit here: "todo" is the agenda of   *)
(* what is left to run, a handler that visits a child pushes the visit and *)
(* the rest of itself, and each action is the code between two such calls. *)
(***************************************************************************)
EXTENDS Ast, LlvmIr, FiniteSets

CONSTANTS
    Programs,          \* the inputs: [decls: Seq(AstNode), rejected: BOOLEAN]
    AstNode,           \* every node of every program, and Null
    WholeNode,         \* the nodes of the programs that are not rejected
    MAX_UNROLL_COUNT   \* the largest trip count that is unrolled

ASSUME AstAssumption ==
    /\ Null \in AstNode
    /\ \A n \in AstNode : WellFormed(n, AstNode)
    /\ \A p \in Programs : p.decls \in Seq(AstNode)

ASSUME OperandAssumption == \A n \in AstNode : OperandsHaveValues(n)

ASSUME OperatorAssumption == \A n \in AstNode : OperatorKnown(n)

\* The parser leaves no hole without rejecting the program (module Parser,
\* HolesReported).
ASSUME HoleAssumption ==
    /\ WholeNode \subseteq AstNode \ {Null}
    /\ \A n \in WholeNode : ~Hole(n) /\ Children(n) \in Seq(WholeNode \cup {Null})
    /\ \A p \in Programs : ~p.rejected => p.decls \in Seq(WholeNode)

ASSUME UnrollAssumption == MAX_UNROLL_COUNT \in Nat

VARIABLES
    pending,                     \* declarations Generate has yet to visit
    function,                    \* the FunctionDecl being visited, or Null
    todo,                        \* the agenda within that function
    m_variables,                 \* name -> VariableInfo
    m_currentFunctionVariables,  \* names declared in the current function
    m_LastValue,                 \* what the last expression visited left
    m_structTypes,               \* name -> (field name -> field)
    m_functions,                 \* the functions of m_Module: name -> type
    ir,                          \* the LLVM function under construction
    errors,                      \* messages printed, by text and subject
    crashed,                     \* LLVM was handed what it has no answer for
    valueOf,                     \* ghost: the node m_LastValue comes from
    slots                        \* ghost: allocas of the current function,
                                 \* with the declaration they stand for

symbols == <<m_variables, m_currentFunctionVariables, slots>>
result == <<m_LastValue, valueOf>>
module == <<pending, function, m_structTypes, m_functions>>
vars == <<module, todo, symbols, result, ir, errors, crashed>>

(***************************************************************************)
(* The agenda.  A task is a visit of a node, or the rest of the handler of *)
(* a node, with the values and blocks that its local variables hold.       *)
(***************************************************************************)
Task(do, node, vals, blks) ==
    [do |-> do, node |-> node, vals |-> vals, blks |-> blks]
Visit(n) == Task("Visit", n, <<>>, <<>>)

Top == Head(todo)
Node == Top.node

Then(do) == Task(do, Node, <<>>, <<>>)
ThenWith(do, vals) == Task(do, Node, vals, <<>>)
ThenAt(do, blks) == Task(do, Node, <<>>, blks)

Running == ~crashed /\ todo # <<>>
Visiting(kind) == Running /\ Top.do = "Visit" /\ Node.kind = kind
Resuming(do) == Running /\ Top.do = do

\* The current task is over; run these tasks next.
Proceed(tasks) == todo' = tasks \o Tail(todo)
Finish == Proceed(<<>>)

(***************************************************************************)
(* What handlers do to the rest of the state.                              *)
(***************************************************************************)
Report(text, subject) == errors' = errors \cup {<<text, subject>>}
Yield(v) == m_LastValue' = v /\ valueOf' = Node

\* Prints an error and returns, leaving m_LastValue as it was.
Reject(text, subject) ==
    /\ Report(text, subject)
    /\ Finish
    /\ UNCHANGED <<module, symbols, result, ir, crashed>>

\* A null or ill-typed pointer is dereferenced, in the handler or in LLVM.
Crash ==
    /\ crashed' = TRUE
    /\ UNCHANGED <<module, todo, symbols, result, ir, errors>>

\* Only visits children: nothing but the agenda changes.
Descend(kind, tasks) ==
    /\ Visiting(kind)
    /\ Proceed(tasks)
    /\ UNCHANGED <<module, symbols, result, ir, errors, crashed>>

IfPresent(n) == IF n = Null THEN <<>> ELSE <<Visit(n)>>

(***************************************************************************)
(* Types.                                                                  *)
(***************************************************************************)
Lowered ==
    [i8 |-> "i8", u8 |-> "i8", char |-> "i8", i16 |-> "i16", u16 |-> "i16",
     i32 |-> "i32", u32 |-> "i32", i64 |-> "i64", u64 |-> "i64",
     f32 |-> "float", f64 |-> "double", bool |-> "i1"]

MapType(t) ==
    CASE t.name = "void" -> "void"
      [] t.name # "void" /\ t.isPointer -> "ptr"
      [] t.name # "void" /\ ~t.isPointer /\ t.name \in DOMAIN Lowered ->
            Lowered[t.name]
      [] OTHER -> IF t.name \in DOMAIN m_structTypes THEN t.name ELSE "i8"

InferTypeRef(type) ==
    CASE type = "ptr" -> PointerTo("char")
      [] type = "i1" -> Plain("bool")
      [] type \in IntegerTypes \ {"i1"} -> Plain(type)
      [] type = "float" -> Plain("f32")
      [] type = "double" -> Plain("f64")
      [] type \in DOMAIN m_structTypes -> Plain(type)
      [] OTHER -> Plain("i32")

NonNullable(t) == t.isPointer /\ ~t.isNullable

(***************************************************************************)
(* Conversions to i1.  The first is for the operands of logical operators  *)
(* and builds ConstantInt::get(type, 0), which only integer types have;    *)
(* the second is for the conditions of statements and converts only i32.   *)
(***************************************************************************)
ToBool(g, v) ==
    IF v.type = "i1" THEN [ir |-> g, val |-> v]
    ELSE Build(g, Compute("icmp.ne", "i1", <<v, ConstInt(v.type, 0)>>))

CondBool(g, v) ==
    IF v.type = "i32"
    THEN Build(g, Compute("icmp.ne", "i1", <<v, ConstInt("i32", 0)>>))
    ELSE [ir |-> g, val |-> v]

(***************************************************************************)
(* Symbols.                                                                *)
(***************************************************************************)
\* The definitions named Faulty... are faults a maintainer could introduce.
\* Nothing refers to them: each is put in the place of the definition it is
\* named after to see that a property notices.

\* Fault: a variable counts as used from its declaration on.
FaultyVariableInfo(value, type, isMutable) ==
    [value |-> value, type |-> type, used |-> TRUE, isMutable |-> isMutable]

VariableInfo(value, type, isMutable) ==
    [value |-> value, type |-> type, used |-> FALSE, isMutable |-> isMutable]

\* Fault: the name is not added to m_currentFunctionVariables.
FaultyDeclare(name, info) ==
    /\ m_variables' = [x \in DOMAIN m_variables \cup {name} |->
                          IF x = name THEN info ELSE m_variables[x]]
    /\ slots' = slots \cup {<<info.value, Node>>}
    /\ UNCHANGED m_currentFunctionVariables

Declare(name, info) ==
    /\ m_variables' = [x \in DOMAIN m_variables \cup {name} |->
                          IF x = name THEN info ELSE m_variables[x]]
    /\ m_currentFunctionVariables' = m_currentFunctionVariables \cup {name}
    /\ slots' = slots \cup {<<info.value, Node>>}

MarkUsed(name) == m_variables' = [m_variables EXCEPT ![name].used = TRUE]

(***************************************************************************)
(* Leaf expressions.                                                       *)
(***************************************************************************)
Constant(lit) ==
    CASE lit.class = "null" -> ConstNull
      [] lit.class = "true" -> ConstInt("i1", 1)
      [] lit.class = "false" -> ConstInt("i1", 0)
      [] lit.class = "string" -> GlobalString
      [] lit.class = "char" -> ConstInt("i8", lit.num)
      [] lit.class = "float" -> ConstFP
      [] OTHER -> ConstInt("i32", lit.num)

\* The literals that the conversions to a number throw for.
OutOfRange == {"huge", "hugeFloat"}

\* Fault: the exception of std::stoll or std::stod is swallowed.
FaultyVisitLiteralExpr ==
    /\ Visiting("LiteralExpr")
    /\ IF Node.value.class \in OutOfRange THEN UNCHANGED result
       ELSE Yield(Constant(Node.value))
    /\ Finish
    /\ UNCHANGED <<module, symbols, ir, errors, crashed>>

VisitLiteralExpr ==
    /\ Visiting("LiteralExpr")
    /\ \/ /\ Node.value.class = "huge"
          /\ Reject("Unknown literal", "none")
       \/ /\ Node.value.class = "hugeFloat"
          /\ Reject("Invalid float literal", "none")
       \/ /\ Node.value.class \notin OutOfRange
          /\ Yield(Constant(Node.value))
          /\ Finish
          /\ UNCHANGED <<module, symbols, ir, errors, crashed>>

VisitVarExpr ==
    /\ Visiting("VarExpr")
    /\ \/ /\ Node.name \notin DOMAIN m_variables
          /\ Reject("Undefined variable", Node.name)
       \/ /\ Node.name \in DOMAIN m_variables
          /\ MarkUsed(Node.name)
          /\ LET stored == m_variables[Node.name].value
                 load == Build(ir, Load(stored.elem, stored))
             IN  IF IsAlloca(stored)
                 THEN ir' = load.ir /\ Yield(load.val)
                 ELSE Yield(stored) /\ UNCHANGED ir
          /\ Finish
          /\ UNCHANGED <<module, m_currentFunctionVariables, slots, errors,
                         crashed>>

\* The size is that of the struct if it is declared by now, 8 if not.
VisitAllocExpr ==
    /\ Visiting("AllocExpr")
    /\ LET name == Node.allocType.name
           size == IF name \in DOMAIN m_structTypes THEN SizeOf(name)
                   ELSE ConstInt("i64", 8)
           call == Build(ir, Inst("call", "ptr", "malloc", <<size>>, <<>>))
       IN  ir' = call.ir /\ Yield(call.val)
    /\ Finish
    /\ UNCHANGED <<module, symbols, errors, crashed>>

(***************************************************************************)
(* Increment and decrement, prefix and postfix: the same handler but for   *)
(* the value it leaves.                                                    *)
(***************************************************************************)
\* Fault: ++ and -- do not look at isMutable.
FaultyIncDecError ==
    IF Node.operand.kind # "VarExpr"
    THEN <<"Increment/decrement requires a variable operand", "none">>
    ELSE IF Node.operand.name \notin DOMAIN m_variables
    THEN <<"Undefined variable", Node.operand.name>>
    ELSE <<>>

IncDecError ==
    IF Node.operand.kind # "VarExpr"
    THEN <<"Increment/decrement requires a variable operand", "none">>
    ELSE IF Node.operand.name \notin DOMAIN m_variables
    THEN <<"Undefined variable", Node.operand.name>>
    ELSE IF ~m_variables[Node.operand.name].isMutable
    THEN <<"Cannot modify immutable variable", Node.operand.name>>
    ELSE <<>>

IncDec(prefix) ==
    \/ /\ IncDecError # <<>>
       /\ Reject(IncDecError[1], IncDecError[2])
    \/ /\ IncDecError = <<>>
       /\ ~IsAlloca(m_variables[Node.operand.name].value)
       /\ MarkUsed(Node.operand.name)
       /\ Report("Cannot increment/decrement non-variable", "none")
       /\ Finish
       /\ UNCHANGED <<module, m_currentFunctionVariables, slots, result, ir,
                      crashed>>
    \/ /\ IncDecError = <<>>
       /\ IsAlloca(m_variables[Node.operand.name].value)
       /\ LET slot == m_variables[Node.operand.name].value
              load == Build(ir, Load(slot.elem, slot))
              op == IF Node.op = "++" THEN "add" ELSE "sub"
              next == Build(load.ir, Compute(op, slot.elem,
                                <<load.val, ConstInt(slot.elem, 1)>>))
          IN  IF slot.elem \notin IntegerTypes THEN Crash
              ELSE /\ MarkUsed(Node.operand.name)
                   /\ ir' = Emit(next.ir, Store(next.val, slot))
                   /\ Yield(IF prefix THEN next.val ELSE load.val)
                   /\ Finish
                   /\ UNCHANGED <<module, m_currentFunctionVariables, slots,
                                  errors, crashed>>

VisitPrefixExpr == Visiting("PrefixExpr") /\ IncDec(TRUE)
VisitPostfixExpr == Visiting("PostfixExpr") /\ IncDec(FALSE)

(***************************************************************************)
(* Short-circuit && and ||.  The merge block takes the constant that the   *)
(* left operand decides from the block the left operand ends in, and the   *)
(* right operand from the block the right operand ends in.                 *)
(***************************************************************************)
VisitBinaryExpr ==
    Descend("BinaryExpr",
            <<Visit(Node.left),
              Then(IF Node.op \in {"&&", "||"} THEN "ShortLeft" ELSE "BinLeft")>>)

ShortLeft ==
    /\ Resuming("ShortLeft")
    /\ \/ /\ m_LastValue = NoValue
          /\ Reject("Invalid left operand", Node.op)
       \/ /\ m_LastValue # NoValue
          /\ IF ~IsInteger(m_LastValue) THEN Crash
             ELSE LET bool == ToBool(ir, m_LastValue)
                      rhs == Len(ir.blocks) + 1
                      merge == Len(ir.blocks) + 2
                      branch == IF Node.op = "&&" THEN CondBr(bool.val, rhs, merge)
                                ELSE CondBr(bool.val, merge, rhs)
                  IN  /\ ir' = Leave(AddBlocks(bool.ir, 2), branch, rhs)
                      /\ Proceed(<<Visit(Node.right),
                                   ThenAt("ShortRight", <<ir.at, merge>>)>>)
                      /\ UNCHANGED <<module, symbols, result, errors, crashed>>

\* Fault: the block where the right operand begins, not where it ends.
FaultyFromBlock(bool, from) ==
    LET merge == Top.blks[2]
        decided == ConstInt("i1", IF Node.op = "&&" THEN 0 ELSE 1)
    IN  Build(Leave(bool.ir, Br(merge), merge),
              Phi(decided, Top.blks[1], bool.val, merge - 1))

\* Fault: the incoming blocks of the phi are swapped.
FaultyIncoming(bool, from) ==
    LET merge == Top.blks[2]
        decided == ConstInt("i1", IF Node.op = "&&" THEN 0 ELSE 1)
    IN  Build(Leave(bool.ir, Br(merge), merge),
              Phi(decided, from, bool.val, Top.blks[1]))

\* What is left of an operator once its right operand is i1, given the block
\* that the right operand's value comes from.
MergeShort(bool, from) ==
    LET merge == Top.blks[2]
        decided == ConstInt("i1", IF Node.op = "&&" THEN 0 ELSE 1)
    IN  Build(Leave(bool.ir, Br(merge), merge),
              Phi(decided, Top.blks[1], bool.val, from))

ShortRight ==
    /\ Resuming("ShortRight")
    /\ IF m_LastValue = NoValue THEN Reject("Invalid right operand", Node.op)
       ELSE IF ~IsInteger(m_LastValue) THEN Crash
       ELSE LET phi == MergeShort(ToBool(ir, m_LastValue), ir.at)
            IN  /\ ir' = phi.ir
                /\ Yield(phi.val)
                /\ Finish
                /\ UNCHANGED <<module, symbols, errors, crashed>>

(***************************************************************************)
(* The other binary operators evaluate both operands.                      *)
(***************************************************************************)
Comparisons == {"<", "<=", ">", ">="}
Arithmetic == {"+", "-", "*", "/", "%", "&", "|", "^", "<<", ">>"}

BinLeft ==
    /\ Resuming("BinLeft")
    /\ Proceed(<<Visit(Node.right), ThenWith("BinRight", <<m_LastValue>>)>>)
    /\ UNCHANGED <<module, symbols, result, ir, errors, crashed>>

\* What the operator makes of its operands: [ir, val].
Operate(op, left, right) ==
    CASE op \in {"==", "!="} \cup Comparisons ->
            Build(ir, Compute(op, "i1", <<left, right>>))
      [] op \in Arithmetic -> Build(ir, Compute(op, left.type, <<left, right>>))
      [] OTHER ->
            LET l == ToBool(ir, left)
                r == ToBool(l.ir, right)
            IN  Build(r.ir, Compute(op, "i1", <<l.val, r.val>>))

Comparable(v, w) ==
    (IsPointer(v) /\ IsPointer(w)) \/ (IsInteger(v) /\ IsInteger(w))

BinRight ==
    /\ Resuming("BinRight")
    /\ LET left == Top.vals[1]
           right == m_LastValue
       IN  IF left = NoValue \/ right = NoValue
           THEN Reject("Invalid operands in binary expression", "none")
           ELSE IF Node.op \in {"==", "!="} /\ ~Comparable(left, right)
           THEN Reject("Unsupported types for comparison", Node.op)
           ELSE IF Node.op \in {"and", "or"} /\ ~(IsInteger(left) /\ IsInteger(right))
           THEN Crash
           ELSE /\ ir' = Operate(Node.op, left, right).ir
                /\ Yield(Operate(Node.op, left, right).val)
                /\ Finish
                /\ UNCHANGED <<module, symbols, errors, crashed>>

(***************************************************************************)
(* Unary operators, casts and calls.                                       *)
(***************************************************************************)
VisitUnaryExpr == Descend("UnaryExpr", <<Visit(Node.operand), Then("UnaryOp")>>)

UnaryOp ==
    /\ Resuming("UnaryOp")
    /\ LET v == m_LastValue
           bool == ToBool(ir, v)
           not == IF Node.op = "!"
                  THEN Build(bool.ir, Compute("xor", "i1",
                                              <<bool.val, ConstInt("i1", 1)>>))
                  ELSE Build(ir, Compute("not", v.type, <<v>>))
       IN  IF v = NoValue THEN Reject("Invalid operand in unary expression", "none")
           ELSE IF ~IsInteger(v) /\ (Node.op = "!" \/ v.type \notin FloatTypes) THEN Crash
           ELSE /\ ir' = not.ir
                /\ Yield(not.val)
                /\ Finish
                /\ UNCHANGED <<module, symbols, errors, crashed>>

VisitCastExpr == Descend("CastExpr", <<Visit(Node.expr), Then("CastOp")>>)

\* A missing value is reported, and its type is asked for all the same.
CastOp ==
    /\ Resuming("CastOp")
    /\ \/ /\ m_LastValue = NoValue
          /\ Report("Invalid expression in cast", "none")
          /\ crashed' = TRUE
          /\ UNCHANGED <<module, todo, symbols, result, ir>>
       \/ /\ m_LastValue # NoValue
          /\ IF IsPointer(m_LastValue) /\ MapType(Node.targetType) = "ptr"
             THEN /\ Yield(m_LastValue)
                  /\ Finish
                  /\ UNCHANGED <<module, symbols, ir, errors, crashed>>
             ELSE Reject("Unsupported cast", "none")

\* The arguments evaluated so far, and what comes after them.
NextArgument(args) ==
    IF Len(args) < Len(Node.arguments)
    THEN <<Visit(Node.arguments[Len(args) + 1]), ThenWith("CallArg", args)>>
    ELSE <<ThenWith("CallEnd", args)>>

\* Fault: an unknown callee is not reported.
FaultyVisitCallExpr ==
    /\ Visiting("CallExpr")
    /\ Proceed(NextArgument(<<>>))
    /\ UNCHANGED <<module, symbols, result, ir, errors, crashed>>

VisitCallExpr ==
    /\ Visiting("CallExpr")
    /\ IF Node.callee \in DOMAIN m_functions THEN UNCHANGED errors
       ELSE Report("Unknown function", Node.callee)
    /\ Proceed(NextArgument(<<>>))
    /\ UNCHANGED <<module, symbols, result, ir, crashed>>

CallArg ==
    /\ Resuming("CallArg")
    /\ IF m_LastValue # NoValue THEN UNCHANGED errors
       ELSE Report("Invalid argument in call", Node.callee)
    /\ Proceed(NextArgument(Append(Top.vals, m_LastValue)))
    /\ UNCHANGED <<module, symbols, result, ir, crashed>>

\* CreateCall dereferences the callee, which may be null.
CallEnd ==
    /\ Resuming("CallEnd")
    /\ IF Node.callee \notin DOMAIN m_functions THEN Crash
       ELSE LET call == Build(ir, Inst("call", m_functions[Node.callee],
                                       Node.callee, Top.vals, <<>>))
            IN  /\ ir' = call.ir
                /\ Yield(call.val)
                /\ Finish
                /\ UNCHANGED <<module, symbols, errors, crashed>>

(***************************************************************************)
(* Assignment and member access.                                           *)
(***************************************************************************)
VisitAssignExpr == Descend("AssignExpr", <<Visit(Node.value), Then("AssignStore")>>)

\* Fault: assignment does not look at nullability.
FaultyAssignError ==
    IF m_LastValue = NoValue
    THEN <<"Invalid value in assignment", "none">>
    ELSE IF Node.name \notin DOMAIN m_variables
    THEN <<"Undefined variable in assignment", Node.name>>
    ELSE IF ~m_variables[Node.name].isMutable
    THEN <<"Cannot assign to immutable variable", Node.name>>
    ELSE IF ~IsAlloca(m_variables[Node.name].value)
    THEN <<"Cannot assign to non-variable", "none">>
    ELSE <<>>

AssignError ==
    LET info == m_variables[Node.name] IN
    IF m_LastValue = NoValue
    THEN <<"Invalid value in assignment", "none">>
    ELSE IF Node.name \notin DOMAIN m_variables
    THEN <<"Undefined variable in assignment", Node.name>>
    ELSE IF ~info.isMutable
    THEN <<"Cannot assign to immutable variable", Node.name>>
    ELSE IF NonNullable(info.type) /\ IsNullConstant(m_LastValue)
    THEN <<"Cannot assign null to non-nullable variable", Node.name>>
    ELSE IF ~IsAlloca(info.value)
    THEN <<"Cannot assign to non-variable", "none">>
    ELSE <<>>

AssignStore ==
    /\ Resuming("AssignStore")
    /\ IF AssignError # <<>> THEN Reject(AssignError[1], AssignError[2])
       ELSE IF ~IsSized(m_LastValue.type) THEN Crash
       ELSE /\ ir' = Emit(ir, Store(m_LastValue, m_variables[Node.name].value))
            /\ Yield(m_LastValue)
            /\ Finish
            /\ UNCHANGED <<module, symbols, errors, crashed>>

VisitMemberAccessExpr ==
    Descend("MemberAccessExpr", <<Visit(Node.object), Then("MemberLoad")>>)

\* The declared type of the object, known only when it is a variable.
ObjectType ==
    IF Node.object.kind = "VarExpr" /\ Node.object.name \in DOMAIN m_variables
    THEN m_variables[Node.object.name].type
    ELSE Inferred

MemberError ==
    LET struct == ObjectType.name IN
    IF m_LastValue = NoValue
    THEN <<"Invalid object in member access", "none">>
    ELSE IF ObjectType.isNullable
    THEN <<"Cannot access member on nullable type", struct>>
    ELSE IF struct = "none"
    THEN <<"Cannot determine struct type for member access", "none">>
    ELSE IF struct \notin DOMAIN m_structTypes
    THEN <<"Unknown struct type", struct>>
    ELSE IF Node.memberName \notin DOMAIN m_structTypes[struct]
    THEN <<"Unknown field", Node.memberName>>
    ELSE IF ~m_structTypes[struct][Node.memberName].isPublic
    THEN <<"Cannot access private field", Node.memberName>>
    ELSE <<>>

MemberLoad ==
    /\ Resuming("MemberLoad")
    /\ LET field == m_structTypes[ObjectType.name][Node.memberName]
           type == MapType(field.type)
           gep == Build(ir, Inst("gep", "ptr", ObjectType.name,
                    <<m_LastValue, ConstInt("i32", field.index)>>, <<>>))
           load == Build(gep.ir, Load(type, gep.val))
       IN  IF MemberError # <<>> THEN Reject(MemberError[1], MemberError[2])
           ELSE IF ~IsSized(type) THEN Crash
           ELSE /\ ir' = load.ir
                /\ Yield(load.val)
                /\ Finish
                /\ UNCHANGED <<module, symbols, errors, crashed>>

(***************************************************************************)
(* Variable declarations.                                                  *)
(***************************************************************************)
VisitVariableDecl ==
    /\ Visiting("VariableDecl")
    /\ LET inferring == Node.varType.name = "none"
           type == MapType(Node.varType)
           slot == Build(ir, Alloca(type))
       IN  IF Node.initializer = Null /\ (inferring \/ NonNullable(Node.varType))
           THEN Reject("Variable must be initialized", Node.name)
           ELSE IF inferring
           THEN /\ Proceed(<<Visit(Node.initializer), Then("InferredInit")>>)
                /\ UNCHANGED <<module, symbols, result, ir, errors, crashed>>
           ELSE IF ~IsSized(type) THEN Crash
           ELSE /\ ir' = slot.ir
                /\ \/ /\ Node.initializer # Null
                      /\ Proceed(<<Visit(Node.initializer),
                                   ThenWith("ExplicitInit", <<slot.val>>)>>)
                      /\ UNCHANGED symbols
                   \/ /\ Node.initializer = Null
                      /\ Declare(Node.name, VariableInfo(slot.val, Node.varType,
                                                         Node.isMutable))
                      /\ Finish
                /\ UNCHANGED <<module, result, errors, crashed>>

InferredInit ==
    /\ Resuming("InferredInit")
    /\ LET slot == Build(ir, Alloca(m_LastValue.type))
       IN  IF m_LastValue = NoValue THEN Reject("Invalid initializer", Node.name)
           ELSE IF ~IsSized(m_LastValue.type) THEN Crash
           ELSE /\ ir' = Emit(slot.ir, Store(m_LastValue, slot.val))
                /\ Declare(Node.name,
                           VariableInfo(slot.val, InferTypeRef(m_LastValue.type),
                                        Node.isMutable))
                /\ Finish
                /\ UNCHANGED <<module, result, errors, crashed>>

ExplicitInit ==
    /\ Resuming("ExplicitInit")
    /\ LET slot == Top.vals[1]
       IN  IF NonNullable(Node.varType) /\ IsNullConstant(m_LastValue)
           THEN Reject("Cannot assign null to non-nullable pointer", Node.name)
           ELSE IF m_LastValue # NoValue /\ ~IsSized(m_LastValue.type) THEN Crash
           ELSE /\ ir' = IF m_LastValue = NoValue THEN ir
                         ELSE Emit(ir, Store(m_LastValue, slot))
                /\ Declare(Node.name,
                           VariableInfo(slot, Node.varType, Node.isMutable))
                /\ Finish
                /\ UNCHANGED <<module, result, errors, crashed>>

(***************************************************************************)
(* Simple statements and if.                                               *)
(***************************************************************************)
VisitNull == Running /\ Top.do = "Visit" /\ Node = Null /\ Crash

\* Fault: the block visits itself in place of its statements.
FaultyVisitBlockStatement == Descend("BlockStatement", <<Visit(Node)>>)

VisitBlockStatement ==
    Descend("BlockStatement",
            [k \in DOMAIN Node.statements |->
                Task("Statement", Node.statements[k], <<>>, <<>>)])

\* A null statement is passed over.
Statement ==
    /\ Resuming("Statement")
    /\ Proceed(IfPresent(Node))
    /\ UNCHANGED <<module, symbols, result, ir, errors, crashed>>

VisitExprStatement == Descend("ExprStatement", IfPresent(Node.expression))

VisitReturnStatement ==
    /\ Visiting("ReturnStatement")
    /\ \/ /\ Node.value # Null
          /\ Proceed(<<Visit(Node.value), Then("ReturnValue")>>)
          /\ UNCHANGED ir
       \/ /\ Node.value = Null
          /\ ir' = Emit(ir, RetVoid)
          /\ Finish
    /\ UNCHANGED <<module, symbols, result, errors, crashed>>

ReturnValue ==
    /\ Resuming("ReturnValue")
    /\ ir' = Emit(ir, Ret(m_LastValue))
    /\ Finish
    /\ UNCHANGED <<module, symbols, result, errors, crashed>>

VisitIfStatement ==
    Descend("IfStatement", <<Visit(Node.condition), Then("IfCond")>>)

IfCond ==
    /\ Resuming("IfCond")
    /\ \/ /\ m_LastValue = NoValue
          /\ Reject("Invalid condition in if statement", "none")
       \/ /\ m_LastValue # NoValue
          /\ LET cond == CondBool(ir, m_LastValue)
                 then == Len(ir.blocks) + 1
                 else == Len(ir.blocks) + 2
                 merge == Len(ir.blocks) + 3
             IN  /\ ir' = Leave(AddBlocks(cond.ir, 3),
                                CondBr(cond.val, then, else), then)
                 /\ Proceed(<<Visit(Node.thenBranch),
                              ThenAt("IfElse", <<else, merge>>)>>)
          /\ UNCHANGED <<module, symbols, result, errors, crashed>>

\* Fault: no branch at the end of the then block.
FaultyIfElse ==
    /\ Resuming("IfElse")
    /\ ir' = Enter(ir, Top.blks[1])
    /\ Proceed(IfPresent(Node.elseBranch)
                 \o <<ThenAt("IfMerge", <<Top.blks[2]>>)>>)
    /\ UNCHANGED <<module, symbols, result, errors, crashed>>

IfElse ==
    /\ Resuming("IfElse")
    /\ LET else == Top.blks[1]
           merge == Top.blks[2]
       IN  /\ ir' = Leave(ir, Br(merge), else)
           /\ Proceed(IfPresent(Node.elseBranch)
                        \o <<ThenAt("IfMerge", <<merge>>)>>)
    /\ UNCHANGED <<module, symbols, result, errors, crashed>>

\* Fault: the merge block is never inserted.
FaultyIfMerge ==
    /\ Resuming("IfMerge")
    /\ ir' = Emit(ir, Br(Top.blks[1]))
    /\ Finish
    /\ UNCHANGED <<module, symbols, result, errors, crashed>>

IfMerge ==
    /\ Resuming("IfMerge")
    /\ ir' = Leave(ir, Br(Top.blks[1]), Top.blks[1])
    /\ Finish
    /\ UNCHANGED <<module, symbols, result, errors, crashed>>

(***************************************************************************)
(* While.                                                                  *)
(***************************************************************************)
\* Fault: the exit block is not created.
FaultyVisitWhileStatement ==
    /\ Visiting("WhileStatement")
    /\ LET cond == Len(ir.blocks) + 1
       IN  /\ ir' = Leave(AddBlocks(ir, 2), Br(cond), cond)
           /\ Proceed(<<Visit(Node.condition),
                        ThenAt("WhileCond", <<cond, cond + 1, cond + 2>>)>>)
    /\ UNCHANGED <<module, symbols, result, errors, crashed>>

VisitWhileStatement ==
    /\ Visiting("WhileStatement")
    /\ LET cond == Len(ir.blocks) + 1
       IN  /\ ir' = Leave(AddBlocks(ir, 3), Br(cond), cond)
           /\ Proceed(<<Visit(Node.condition),
                        ThenAt("WhileCond", <<cond, cond + 1, cond + 2>>)>>)
    /\ UNCHANGED <<module, symbols, result, errors, crashed>>

WhileCond ==
    /\ Resuming("WhileCond")
    /\ \/ /\ m_LastValue = NoValue
          /\ Reject("Invalid condition in while statement", "none")
       \/ /\ m_LastValue # NoValue
          /\ LET cond == CondBool(ir, m_LastValue)
                 body == Top.blks[2]
                 exit == Top.blks[3]
             IN  /\ ir' = Leave(cond.ir, CondBr(cond.val, body, exit), body)
                 /\ Proceed(<<Visit(Node.body), ThenAt("WhileEnd", Top.blks)>>)
          /\ UNCHANGED <<module, symbols, result, errors, crashed>>

WhileEnd ==
    /\ Resuming("WhileEnd")
    /\ ir' = Leave(ir, Br(Top.blks[1]), Top.blks[3])
    /\ Finish
    /\ UNCHANGED <<module, symbols, result, errors, crashed>>

(***************************************************************************)
(* Which for loops are unrolled.                                           *)
(***************************************************************************)
\* std::stoll succeeds on the literals that begin with an integer.
HasNumber(n) == n.kind = "LiteralExpr" /\ n.value.class \in {"int", "float"}

IsCounter(n, name) ==
    /\ n.kind \in {"PrefixExpr", "PostfixExpr"}
    /\ IsVar(n.operand, name)

\* Fault: <= counts like <.
FaultyTripCount(op, update, start, end) ==
    CASE update = "++" /\ op \in {"<", "<="} -> end - start
      [] update = "--" /\ op = ">"  -> start - end
      [] update = "--" /\ op = ">=" -> start - end + 1
      [] OTHER -> 0

\* Counts with the comparison in the direction of the update, and 0 otherwise.
TripCount(op, update, start, end) ==
    CASE update = "++" /\ op = "<"  -> end - start
      [] update = "++" /\ op = "<=" -> end - start + 1
      [] update = "--" /\ op = ">"  -> start - end
      [] update = "--" /\ op = ">=" -> start - end + 1
      [] OTHER -> 0

NoUnroll == [varName |-> "none", start |-> 0, step |-> 0, tripCount |-> 0]

AnalyzeForUnroll(n) ==
    IF /\ n.body # Null
       /\ n.init.kind = "VariableDecl"
       /\ HasNumber(n.init.initializer)
       /\ n.condition.kind = "BinaryExpr"
       /\ IsVar(n.condition.left, n.init.name)
       /\ HasNumber(n.condition.right)
       /\ IsCounter(n.update, n.init.name)
    THEN LET start == n.init.initializer.value.num
             end == n.condition.right.value.num
             count == TripCount(n.condition.op, n.update.op, start, end)
         IN  IF count \in 1..MAX_UNROLL_COUNT
             THEN [varName |-> n.init.name, start |-> start,
                   step |-> IF n.update.op = "++" THEN 1 ELSE -1,
                   tripCount |-> count]
             ELSE NoUnroll
    ELSE NoUnroll

\* The children the search looks into: it has no case for declarations or
\* member accesses.
Searched(n) ==
    IF n.kind \in {"VariableDecl", "MemberAccessExpr"} THEN <<>> ELSE Children(n)

\* Fault: only assignments are looked for.
FaultyModifies(n, varName) == n.kind = "AssignExpr" /\ n.name = varName

Modifies(n, varName) ==
    \/ n.kind = "AssignExpr" /\ n.name = varName
    \/ IsCounter(n, varName)

\* Level by level below the body, as long as there is another level.
BodyModifiesVar(body, varName) ==
    LET level[k \in Nat] ==
            IF k = 0 THEN {body} ELSE UNION {ToSet(Searched(n)) : n \in level[k - 1]}
        modifies[k \in Nat] ==
            \/ \E n \in level[k] : Modifies(n, varName)
            \/ level[k] # {} /\ modifies[k + 1]
    IN  modifies[0]

(***************************************************************************)
(* For.                                                                    *)
(***************************************************************************)
Unrolled(n) ==
    LET info == AnalyzeForUnroll(n)
    IN  info # NoUnroll /\ ~BodyModifiesVar(n.body, info.varName)

VisitForStatement ==
    Descend("ForStatement",
            IF Unrolled(Node) THEN <<Visit(Node.init), Then("UnrollStart")>>
            ELSE IfPresent(Node.init) \o <<Then("ForBlocks")>>)

\* One store of the counter and one visit of the body for each iteration.
Iterations(info, slot) ==
    [k \in 1..2 * info.tripCount |->
        IF k % 2 = 0 THEN Visit(Node.body)
        ELSE ThenWith("UnrollStore",
                <<slot, ConstInt(slot.elem, info.start + (k \div 2) * info.step)>>)]

UnrollStart ==
    /\ Resuming("UnrollStart")
    /\ LET info == AnalyzeForUnroll(Node)
           slot == m_variables[info.varName].value
       IN  IF info.varName \notin DOMAIN m_variables
           THEN Reject("Loop unroll: variable not found after init", info.varName)
           ELSE IF ~IsAlloca(slot)
           THEN Reject("Loop unroll: variable is not an alloca", "none")
           ELSE IF slot.elem \notin IntegerTypes THEN Crash
           ELSE /\ Proceed(Iterations(info, slot))
                /\ UNCHANGED <<module, symbols, result, ir, errors, crashed>>

UnrollStore ==
    /\ Resuming("UnrollStore")
    /\ ir' = Emit(ir, Store(Top.vals[2], Top.vals[1]))
    /\ Finish
    /\ UNCHANGED <<module, symbols, result, errors, crashed>>

\* Blocks: condition, body, update, exit.
ForBlocks ==
    /\ Resuming("ForBlocks")
    /\ LET cond == Len(ir.blocks) + 1
           blks == <<cond, cond + 1, cond + 2, cond + 3>>
       IN  /\ ir' = Leave(AddBlocks(ir, 4), Br(cond), cond)
           /\ Proceed(IfPresent(Node.condition) \o <<ThenAt("ForCond", blks)>>)
    /\ UNCHANGED <<module, symbols, result, errors, crashed>>

\* Without a condition m_LastValue is not looked at.
ForCond ==
    /\ Resuming("ForCond")
    /\ LET body == Top.blks[2]
           exit == Top.blks[4]
           cond == CondBool(ir, m_LastValue)
       IN  \/ /\ Node.condition # Null /\ m_LastValue = NoValue
              /\ Reject("Invalid condition in for statement", "none")
           \/ /\ Node.condition = Null \/ m_LastValue # NoValue
              /\ ir' = IF Node.condition = Null THEN Leave(ir, Br(body), body)
                       ELSE Leave(cond.ir, CondBr(cond.val, body, exit), body)
              /\ Proceed(<<Visit(Node.body), ThenAt("ForUpdate", Top.blks)>>)
              /\ UNCHANGED <<module, symbols, result, errors, crashed>>

ForUpdate ==
    /\ Resuming("ForUpdate")
    /\ ir' = Leave(ir, Br(Top.blks[3]), Top.blks[3])
    /\ Proceed(IfPresent(Node.update) \o <<ThenAt("ForEnd", Top.blks)>>)
    /\ UNCHANGED <<module, symbols, result, errors, crashed>>

ForEnd ==
    /\ Resuming("ForEnd")
    /\ ir' = Leave(ir, Br(Top.blks[1]), Top.blks[4])
    /\ Finish
    /\ UNCHANGED <<module, symbols, result, errors, crashed>>

(***************************************************************************)
(* Top-level declarations, in source order.                                *)
(***************************************************************************)
Between == ~crashed /\ todo = <<>>
AtDeclaration(kind) ==
    Between /\ function = Null /\ pending # <<>> /\ Head(pending).kind = kind

VisitInterfaceDecl ==
    /\ AtDeclaration("InterfaceDecl")
    /\ pending' = Tail(pending)
    /\ UNCHANGED <<function, m_structTypes, m_functions, todo, symbols, result,
                   ir, errors, crashed>>

\* Of two fields or parameters of one name the second is remembered.
LastNamed(entries, name) ==
    CHOOSE k \in DOMAIN entries :
        /\ entries[k].name = name
        /\ \A j \in DOMAIN entries : entries[j].name = name => j <= k

FieldInfo(fields, name) ==
    LET k == LastNamed(fields, name)
    IN  [index |-> k - 1, type |-> fields[k].type, isPublic |-> fields[k].isPublic]

VisitStructDecl ==
    /\ AtDeclaration("StructDecl")
    /\ LET decl == Head(pending)
           names == {decl.fields[k].name : k \in DOMAIN decl.fields}
           info == [f \in names |-> FieldInfo(decl.fields, f)]
       IN  m_structTypes' = [s \in DOMAIN m_structTypes \cup {decl.name} |->
                                IF s = decl.name THEN info ELSE m_structTypes[s]]
    /\ pending' = Tail(pending)
    /\ UNCHANGED <<function, m_functions, todo, symbols, result, ir, errors,
                   crashed>>

ParameterInfo(params, name) ==
    LET k == LastNamed(params, name)
    IN  VariableInfo(Argument(MapType(params[k].type), ir.fn + 1, k),
                     params[k].type, TRUE)

\* LLVM renames a second function of the same name: the first stays known.
VisitFunctionDecl ==
    /\ AtDeclaration("FunctionDecl")
    /\ LET decl == Head(pending)
           names == {decl.params[k].name : k \in DOMAIN decl.params}
       IN  /\ m_functions' = [f \in DOMAIN m_functions \cup {decl.name} |->
                                 IF f \in DOMAIN m_functions THEN m_functions[f]
                                 ELSE MapType(decl.returnType)]
           /\ m_variables' = [x \in DOMAIN m_variables \cup names |->
                                 IF x \in names THEN ParameterInfo(decl.params, x)
                                 ELSE m_variables[x]]
           /\ m_currentFunctionVariables' = names
           /\ todo' = IfPresent(decl.body)
           /\ function' = decl
    /\ ir' = NewFunction(ir)
    /\ slots' = {}
    /\ pending' = Tail(pending)
    /\ UNCHANGED <<m_structTypes, result, errors, crashed>>

CheckUnusedVariables ==
    errors' = errors \cup
        {<<"Unused variable", x>> :
            x \in {y \in m_currentFunctionVariables \cap DOMAIN m_variables :
                      ~m_variables[y].used}}

\* The rest of VisitFunctionDecl.  The verdict of verifyFunction is dropped.
EndFunctionDecl ==
    /\ Between
    /\ function # Null
    /\ CheckUnusedVariables
    /\ ir' = IF function.returnType.name = "void" THEN Emit(ir, RetVoid) ELSE ir
    /\ m_variables' = [x \in DOMAIN m_variables \ m_currentFunctionVariables |->
                          m_variables[x]]
    /\ m_currentFunctionVariables' = {}
    /\ function' = Null
    /\ UNCHANGED <<pending, m_structTypes, m_functions, todo, slots, result,
                   crashed>>

(***************************************************************************)
(* The specification.                                                      *)
(***************************************************************************)
ExternalFunctions == [printf |-> "i32", malloc |-> "ptr", free |-> "void"]

\* The parser has printed the errors of a rejected program, and what it could
\* make of it is compiled all the same.
Init ==
    /\ \E program \in Programs :
          /\ pending = program.decls
          /\ errors = IF program.rejected THEN {<<"Syntax error", "none">>} ELSE {}
    /\ function = Null
    /\ todo = <<>>
    /\ m_variables = <<>>
    /\ m_currentFunctionVariables = {}
    /\ m_LastValue = NoValue
    /\ m_structTypes = <<>>
    /\ m_functions = ExternalFunctions
    /\ ir = NoFunction
    /\ crashed = FALSE
    /\ valueOf = Null
    /\ slots = {}

Expressions ==
    \/ VisitLiteralExpr \/ VisitVarExpr \/ VisitAllocExpr
    \/ VisitPrefixExpr \/ VisitPostfixExpr
    \/ VisitBinaryExpr \/ ShortLeft \/ ShortRight \/ BinLeft \/ BinRight
    \/ VisitUnaryExpr \/ UnaryOp \/ VisitCastExpr \/ CastOp
    \/ VisitCallExpr \/ CallArg \/ CallEnd
    \/ VisitAssignExpr \/ AssignStore \/ VisitMemberAccessExpr \/ MemberLoad

Statements ==
    \/ VisitNull \/ VisitBlockStatement \/ Statement \/ VisitExprStatement
    \/ VisitVariableDecl \/ InferredInit \/ ExplicitInit
    \/ VisitReturnStatement \/ ReturnValue
    \/ VisitIfStatement \/ IfCond \/ IfElse \/ IfMerge
    \/ VisitWhileStatement \/ WhileCond \/ WhileEnd
    \/ VisitForStatement \/ UnrollStart \/ UnrollStore
    \/ ForBlocks \/ ForCond \/ ForUpdate \/ ForEnd

Declarations ==
    \/ VisitInterfaceDecl \/ VisitStructDecl
    \/ VisitFunctionDecl \/ EndFunctionDecl

Next == Expressions \/ Statements \/ Declarations

Spec == Init /\ [][Next]_vars

\* The compiler is one thread that runs until it returns.
FairSpec == Spec /\ WF_vars(Next)

(***************************************************************************)
(* Types of the state.                                                     *)
(***************************************************************************)
\* STRING.  The provers do not know a literal for a string, hence the list of
\* those that handlers put into the state.
Strings ==
    STRING \cup IntegerTypes \cup FloatTypes \cup Terminators
           \cup {"none", "void", "ptr", "char", "bool", "f32", "f64"}
           \cup {"nullptr", "const", "null", "global", "arg", "alloca", "load",
                 "store", "phi", "gep", "call", "malloc", "icmp.ne", "add",
                 "sub", "xor", "not"}

Values ==
    [op : Strings, type : Strings, elem : Strings, num : Int,
     at : [fn : Nat, block : Nat, index : Nat]]

Instructions ==
    [op : Strings, type : Strings, elem : Strings, args : Seq(Values),
     to : Seq(Nat)]

Functions ==
    [fn : Nat, blocks : Seq([placed : BOOLEAN, code : Seq(Instructions)]), at : Nat]

VariableTypes == [name : Strings, isPointer : BOOLEAN, isNullable : BOOLEAN]
VariableInfos ==
    [value : Values, type : VariableTypes, used : BOOLEAN, isMutable : BOOLEAN]

FieldInfos == [index : Nat, type : TypeRefs, isPublic : BOOLEAN]

Labels ==
    {"Visit", "Statement", "ShortLeft", "ShortRight", "BinLeft", "BinRight",
     "UnaryOp", "CastOp", "CallArg", "CallEnd", "AssignStore", "MemberLoad",
     "InferredInit", "ExplicitInit", "ReturnValue", "IfCond", "IfElse",
     "IfMerge", "WhileCond", "WhileEnd", "UnrollStart", "UnrollStore",
     "ForBlocks", "ForCond", "ForUpdate", "ForEnd"}

\* The rest of a handler belongs to a node of its kind, and holds the values
\* and the blocks that its local variables name.
OwnKind(t) ==
    /\ t.do \in {"ShortLeft", "ShortRight", "BinLeft", "BinRight"} =>
          t.node.kind = "BinaryExpr"
    /\ t.do = "UnaryOp" => t.node.kind = "UnaryExpr"
    /\ t.do = "CastOp" => t.node.kind = "CastExpr"
    /\ t.do \in {"CallArg", "CallEnd"} => t.node.kind = "CallExpr"
    /\ t.do = "AssignStore" => t.node.kind = "AssignExpr"
    /\ t.do = "MemberLoad" => t.node.kind = "MemberAccessExpr"
    /\ t.do \in {"InferredInit", "ExplicitInit"} => t.node.kind = "VariableDecl"
    /\ t.do = "ReturnValue" => t.node.kind = "ReturnStatement"
    /\ t.do \in {"IfCond", "IfElse", "IfMerge"} => t.node.kind = "IfStatement"
    /\ t.do \in {"WhileCond", "WhileEnd"} => t.node.kind = "WhileStatement"
    /\ t.do \in {"UnrollStart", "UnrollStore", "ForBlocks", "ForCond",
                 "ForUpdate", "ForEnd"} => t.node.kind = "ForStatement"

OwnLocals(t) ==
    /\ t.do \in {"BinRight", "ExplicitInit"} => Len(t.vals) = 1
    /\ t.do = "UnrollStore" => Len(t.vals) = 2
    /\ t.do = "CallArg" => Len(t.vals) < Len(t.node.arguments)
    /\ t.do = "IfMerge" => Len(t.blks) = 1
    /\ t.do \in {"ShortRight", "IfElse"} => Len(t.blks) = 2
    /\ t.do \in {"WhileCond", "WhileEnd"} => Len(t.blks) = 3
    /\ t.do \in {"ForCond", "ForUpdate", "ForEnd"} => Len(t.blks) = 4

TasksIn(g) ==
    {t \in [do : Labels, node : AstNode, vals : Seq(Values),
           blks : Seq(DOMAIN g.blocks)] : OwnKind(t) /\ OwnLocals(t)}

\* The shape of the state.  A function is under construction while there is
\* anything to do, and every block a handler will come back to is one of its
\* own.
TypeOK ==
    /\ pending \in Seq(AstNode)
    /\ function \in AstNode /\ function.kind \in {"nullptr", "FunctionDecl"}
    /\ todo \in Seq(TasksIn(ir)) /\ (todo # <<>> => function # Null)
    /\ m_variables \in [DOMAIN m_variables -> VariableInfos]
    /\ m_currentFunctionVariables \subseteq STRING
    /\ m_LastValue \in Values
    /\ \A s \in DOMAIN m_structTypes :
          m_structTypes[s] \in [DOMAIN m_structTypes[s] -> FieldInfos]
    /\ m_functions \in [DOMAIN m_functions -> Strings]
    /\ ir \in Functions /\ (function # Null => ir.at \in DOMAIN ir.blocks)
    /\ \A e \in errors : e[2] \in Strings
    /\ crashed \in BOOLEAN
    /\ valueOf \in AstNode
    /\ slots \subseteq Values \X AstNode

Done == pending = <<>> /\ function = Null /\ todo = <<>>
Clean == errors = {} /\ ~crashed

(***************************************************************************)
(* Symbols.                                                                *)
(***************************************************************************)
\* m_variables holds the names of the function being visited and no others:
\* whatever path a body takes, VisitFunctionDecl's clean-up (lines 106-111)
\* leaves nothing for the next function to see.
SymbolsScoped ==
    /\ DOMAIN m_variables = m_currentFunctionVariables
    /\ function = Null => m_currentFunctionVariables = {}

\* A local variable that no instruction of a finished function loads is
\* reported as unused (VisitVarExpr, CheckUnusedVariables).
UnusedReported ==
    function = Null /\ todo = <<>> =>
        \A s \in slots :
            LoadsFrom(ir, s[1]) = {} => <<"Unused variable", s[2].name>> \in errors

\* The slot of a val is stored to at most once, whatever statements name it
\* (the isMutable checks of VisitAssignExpr and of ++ and --).
ValStoredOnce ==
    \A s \in slots :
        ~s[2].isMutable => Cardinality(StoresTo(ir, s[1])) <= 1

\* The null constant is never stored into a variable that the symbol table
\* records as a non-nullable pointer, by a declaration or an assignment and
\* through whatever casts.
NoNullStored ==
    \A x \in DOMAIN m_variables :
        NonNullable(m_variables[x].type) =>
            \A pos \in StoresTo(ir, m_variables[x].value) :
                ~IsNullConstant(InstAt(ir, pos).args[1])

(***************************************************************************)
(* Control flow.                                                           *)
(***************************************************************************)
\* Only the block of the insert point can lack a terminator: no handler moves
\* away from a block it leaves open, error paths included.
OneOpenBlock ==
    \A b \in DOMAIN ir.blocks :
        ir.blocks[b].placed /\ b # ir.at => Terminated(ir.blocks[b])

\* When a body has been visited without an error, every block it created has
\* been inserted into the function, so no branch leads outside it.
BlocksPlaced ==
    todo = <<>> /\ Clean =>
        \A b \in DOMAIN ir.blocks : ir.blocks[b].placed

\* The phi of a short-circuit operator names exactly the blocks that branch
\* to it, however many blocks its operands created.
PhiCoversPredecessors ==
    \A pos \in Positions(ir) :
        InstAt(ir, pos).op = "phi" =>
            ToSet(InstAt(ir, pos).to) = Predecessors(ir, pos[1])

\* Every operand is a constant, an argument of this function, or computed in
\* a block that dominates its use.  The operands of a phi are used at the end
\* of the block they come from.
UseBlock(pos, k) ==
    LET inst == InstAt(ir, pos) IN IF inst.op = "phi" THEN inst.to[k] ELSE pos[1]

DefinitionsDominateUses ==
    todo = <<>> /\ Clean =>
        \A pos \in Positions(ir) :
            \A k \in DOMAIN InstAt(ir, pos).args :
                LET def == InstAt(ir, pos).args[k].at
                IN  \/ def = NoPlace
                    \/ def.fn = ir.fn /\ def.block = 0
                    \/ def.fn = ir.fn /\ Dominates(ir, def.block, UseBlock(pos, k))

\* No block of a function visited without an error has two terminators.
OneTerminator ==
    todo = <<>> /\ Clean =>
        \A b \in DOMAIN ir.blocks :
            Cardinality(TerminatorsOf(ir.blocks[b])) <= 1

(***************************************************************************)
(* The m_LastValue protocol.                                               *)
(***************************************************************************)
\* The child whose value the rest of a handler reads.
Awaited(t) ==
    CASE t.do \in {"IfCond", "WhileCond", "ForCond"} -> t.node.condition
      [] t.do \in {"ShortLeft", "BinLeft"} -> t.node.left
      [] t.do \in {"ShortRight", "BinRight"} -> t.node.right
      [] t.do = "UnaryOp" -> t.node.operand
      [] t.do = "CastOp" -> t.node.expr
      [] t.do = "CallArg" -> t.node.arguments[Len(t.vals) + 1]
      [] t.do \in {"AssignStore", "ReturnValue"} -> t.node.value
      [] t.do = "MemberLoad" -> t.node.object
      [] t.do \in {"InferredInit", "ExplicitInit"} -> t.node.initializer
      [] OTHER -> Null

\* As long as nothing has been reported, a handler that reads m_LastValue
\* reads what the child it has just visited left there.
FreshValue ==
    todo # <<>> /\ errors = {} =>
        Awaited(Top) \in {Null, valueOf}

\* Only an operand or a variable of a wrong type makes code generation fail in
\* silence: a child the parser left null, an unknown callee or a missing value
\* is dereferenced only after an error has been printed.
NullDereferenceReported ==
    crashed /\ errors = {} => Node # Null /\ Top.do \notin {"CastOp", "CallEnd"}

\* In an unrolled loop of a function body the counter is stored to by the
\* initializer and by the unrolled iterations only, which all store constants:
\* the body's own stores are what BodyModifiesVar looks for.
UnrolledLoops ==
    IF function = Null THEN {}
    ELSE {n \in ToSet(function.body.statements) :
             n.kind = "ForStatement" /\ Unrolled(n)}

CounterStoresConstant ==
    \A n \in UnrolledLoops : \A s \in slots :
        s[2] = n.init =>
            \A pos \in StoresTo(ir, s[1]) : InstAt(ir, pos).args[1].op = "const"

\* The values the counter is given by the unrolled iterations are exactly the
\* values for which the rolled loop would run its body.
Holds(op, x, y) ==
    CASE op = "<" -> x < y
      [] op = "<=" -> x <= y
      [] op = ">" -> x > y
      [] op = ">=" -> x >= y
      [] OTHER -> FALSE

RolledValues(n) ==
    LET start == n.init.initializer.value.num
        end == n.condition.right.value.num
        span == IF n.update.op = "++" THEN start..(start + MAX_UNROLL_COUNT)
                ELSE (start - MAX_UNROLL_COUNT)..start
    IN  {x \in span : Holds(n.condition.op, x, end)}

UnrollMatchesLoop ==
    todo = <<>> /\ errors = {} =>
        \A n \in UnrolledLoops : \A s \in slots :
            s[2] = n.init =>
                {InstAt(ir, pos).args[1].num : pos \in StoresTo(ir, s[1])}
                    = RolledValues(n) \cup {n.init.initializer.value.num}

(***************************************************************************)
(* Termination.                                                            *)
(***************************************************************************)
\* Generate returns, or the compiler crashes, on every program.
Terminates == <>(Done \/ crashed)

(***************************************************************************)
(* What the documentation, the samples and the comments say.               *)
(***************************************************************************)
\* A non-nullable pointer is safe to dereference: nothing stored in it is the
\* null constant or comes from a nullable variable.
MayBeNull(v) ==
    \/ IsNullConstant(v)
    \/ \E x \in DOMAIN m_variables :
          /\ m_variables[x].type.isNullable
          /\ \/ m_variables[x].value = v
             \/ \E pos \in LoadsFrom(ir, m_variables[x].value) :
                   v.at = Place(ir.fn, pos[1], pos[2])

NonNullableNeverNull ==
    \A x \in DOMAIN m_variables :
        NonNullable(m_variables[x].type) =>
            \A pos \in StoresTo(ir, m_variables[x].value) :
                ~MayBeNull(InstAt(ir, pos).args[1])

\* What is stored in a variable has the size its declared type gives it.
StoresMatchSlots ==
    \A s \in slots : \A pos \in StoresTo(ir, s[1]) :
        InstAt(ir, pos).args[1].type = s[1].elem

\* A handler that reads m_LastValue reads its own child's value, reported
\* errors or not.
AlwaysFreshValue == todo # <<>> => Awaited(Top) \in {Null, valueOf}
=============================================================================
