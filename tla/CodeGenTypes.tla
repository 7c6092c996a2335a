---------------------------- MODULE CodeGenTypes ----------------------------
(***************************************************************************)
(* Type correctness of CodeGen, for every set of programs and every        *)
(* unrolling bound.                                                        *)
(***************************************************************************)
EXTENDS CodeGen, SequenceTheorems, WellFoundedInduction, TLAPS

(***************************************************************************)
(* Sequences.                                                              *)
(***************************************************************************)
\* What is left of an agenda, behind what is put in front of it.
LEMMA Prefixed ==
    ASSUME NEW S, NEW T, S \subseteq T,
           NEW s \in Seq(S), s # <<>>, NEW t \in Seq(T)
    PROVE  t \o Tail(s) \in Seq(T)
<1>1. Tail(s) \in Seq(S)
  BY HeadTailProperties
<1>2. Tail(s) \in Seq(T)
  BY <1>1, SeqMonotonic
<1>. QED
  BY <1>2, ConcatProperties

LEMMA PairSeq ==
    ASSUME NEW S, NEW a \in S, NEW b \in S
    PROVE  <<a>> \in Seq(S) /\ <<a, b>> \in Seq(S)
OBVIOUS

LEMMA LongerSeq ==
    ASSUME NEW S, NEW a \in S, NEW b \in S, NEW c \in S, NEW d \in S
    PROVE  /\ <<a, b, c>> \in Seq(S) /\ Len(<<a, b, c>>) = 3
           /\ <<a, b, c, d>> \in Seq(S) /\ Len(<<a, b, c, d>>) = 4
<1>1. <<a, b>> \in Seq(S) /\ Len(<<a, b>>) = 2
  OBVIOUS
<1>2. <<a, b, c>> = Append(<<a, b>>, c)
  OBVIOUS
<1>3. <<a, b, c, d>> = Append(<<a, b, c>>, d)
  OBVIOUS
<1>. QED
  BY <1>1, <1>2, <1>3, AppendProperties

(***************************************************************************)
(* Strings.                                                                *)
(***************************************************************************)
LEMMA Literals ==
    /\ \A s \in STRING : s \in Strings
    /\ "i1" \in Strings /\ "i8" \in Strings /\ "i16" \in Strings
    /\ "i32" \in Strings /\ "i64" \in Strings /\ "float" \in Strings
    /\ "double" \in Strings /\ "none" \in Strings /\ "void" \in Strings
    /\ "ptr" \in Strings /\ "char" \in Strings /\ "bool" \in Strings
    /\ "f32" \in Strings /\ "f64" \in Strings /\ "nullptr" \in Strings
    /\ "const" \in Strings /\ "null" \in Strings /\ "global" \in Strings
    /\ "arg" \in Strings /\ "alloca" \in Strings /\ "load" \in Strings
    /\ "store" \in Strings /\ "phi" \in Strings /\ "gep" \in Strings
    /\ "call" \in Strings /\ "malloc" \in Strings /\ "icmp.ne" \in Strings
    /\ "add" \in Strings /\ "sub" \in Strings /\ "xor" \in Strings
    /\ "not" \in Strings /\ "br" \in Strings /\ "condbr" \in Strings
    /\ "ret" \in Strings
BY DEF Strings, IntegerTypes, FloatTypes, Terminators

(***************************************************************************)
(* The values and the functions that LlvmIr builds have their shapes, and  *)
(* no block is ever lost.                                                  *)
(***************************************************************************)
Blocks == [placed : BOOLEAN, code : Seq(Instructions)]

\* A function under construction whose insert point is one of its blocks.
WellBuilt == {g \in Functions : g.at \in DOMAIN g.blocks}

\* Constants and arguments have the shape of values.
LEMMA ConstantType ==
    /\ NoValue \in Values /\ ConstFP \in Values /\ ConstNull \in Values
    /\ GlobalString \in Values
    /\ \A type \in Strings, num \in Int : ConstInt(type, num) \in Values
    /\ \A struct \in Strings : SizeOf(struct) \in Values
    /\ \A type \in Strings, fn, k \in Nat : Argument(type, fn, k) \in Values
<1>1. NoPlace \in [fn : Nat, block : Nat, index : Nat]
  BY DEF NoPlace, Place
<1>2. \A op, type, elem \in Strings, num \in Int :
          Val(op, type, elem, num, NoPlace) \in Values
  BY <1>1 DEF Val, Values
<1>3. /\ "nullptr" \in Strings /\ "const" \in Strings /\ "null" \in Strings
      /\ "global" \in Strings /\ "arg" \in Strings /\ "none" \in Strings
      /\ "double" \in Strings /\ "ptr" \in Strings /\ "i64" \in Strings
  BY Literals
<1>4. /\ NoValue \in Values /\ ConstFP \in Values /\ ConstNull \in Values
      /\ GlobalString \in Values
  BY <1>2, <1>3 DEF NoValue, ConstFP, ConstNull, GlobalString
<1>5. ASSUME NEW type \in Strings, NEW num \in Int
      PROVE  ConstInt(type, num) \in Values /\ SizeOf(type) \in Values
  BY <1>2, <1>3 DEF ConstInt, SizeOf
<1>6. ASSUME NEW type \in Strings, NEW fn \in Nat, NEW k \in Nat
      PROVE  Argument(type, fn, k) \in Values
  <2>1. Place(fn, 0, k) \in [fn : Nat, block : Nat, index : Nat]
    BY DEF Place
  <2>. QED
    BY <1>3, <2>1 DEF Argument, Val, Values
<1>. QED
  BY <1>4, <1>5, <1>6

\* An instruction of typed parts has the shape of instructions.
LEMMA InstType ==
    ASSUME NEW op \in Strings, NEW type \in Strings, NEW elem \in Strings,
           NEW args \in Seq(Values), NEW to \in Seq(Nat)
    PROVE  Inst(op, type, elem, args, to) \in Instructions
BY DEF Inst, Instructions

\* The instructions that the handlers emit.
LEMMA EmittedType ==
    ASSUME NEW v \in Values, NEW w \in Values, NEW type \in Strings
    PROVE  /\ Alloca(type) \in Instructions
           /\ Load(type, v) \in Instructions
           /\ Store(v, w) \in Instructions
           /\ Ret(v) \in Instructions
           /\ \A op \in Strings :
                 /\ Compute(op, type, <<v>>) \in Instructions
                 /\ Compute(op, type, <<v, w>>) \in Instructions
           /\ \A b, c \in Nat :
                 /\ Br(b) \in Instructions
                 /\ CondBr(v, b, c) \in Instructions
                 /\ Phi(v, b, w, c) \in Instructions
<1>1. /\ <<>> \in Seq(Values) /\ <<>> \in Seq(Nat)
      /\ <<v>> \in Seq(Values) /\ <<v, w>> \in Seq(Values)
      /\ \A b, c \in Nat : <<b>> \in Seq(Nat) /\ <<b, c>> \in Seq(Nat)
  OBVIOUS
<1>2. /\ Inst("alloca", "ptr", type, <<>>, <<>>) \in Instructions
      /\ Inst("load", type, "none", <<v>>, <<>>) \in Instructions
      /\ Inst("store", "void", "none", <<v, w>>, <<>>) \in Instructions
      /\ Inst("ret", "void", "none", <<v>>, <<>>) \in Instructions
  BY <1>1, InstType, Literals
<1>3. \A op \in Strings : /\ Inst(op, type, "none", <<v>>, <<>>) \in Instructions
                         /\ Inst(op, type, "none", <<v, w>>, <<>>) \in Instructions
  BY <1>1, InstType, Literals
<1>4. \A b, c \in Nat :
          /\ Inst("br", "void", "none", <<>>, <<b>>) \in Instructions
          /\ Inst("condbr", "void", "none", <<v>>, <<b, c>>) \in Instructions
          /\ Inst("phi", "i1", "none", <<v, w>>, <<b, c>>) \in Instructions
  BY <1>1, InstType, Literals
<1>. QED
  BY <1>2, <1>3, <1>4 DEF Alloca, Load, Store, Ret, Compute, Br, CondBr, Phi

\* Emitting an instruction changes neither the blocks nor the insert point.
LEMMA EmitType ==
    ASSUME NEW g \in WellBuilt, NEW inst \in Instructions
    PROVE  /\ Emit(g, inst) \in WellBuilt
           /\ DOMAIN Emit(g, inst).blocks = DOMAIN g.blocks
           /\ Emit(g, inst).at = g.at /\ Emit(g, inst).fn = g.fn
<1>. DEFINE here == g.blocks[g.at]
            longer == Block(here.placed, Append(here.code, inst))
            blocks == [g.blocks EXCEPT ![g.at] = longer]
<1>1. g.blocks \in Seq(Blocks) /\ g.at \in 1..Len(g.blocks)
  BY DEF WellBuilt, Functions, Blocks
<1>2. here \in Blocks
  BY <1>1
<1>3. longer \in Blocks
  BY <1>2 DEF Blocks, Block
<1>4. blocks \in Seq(Blocks) /\ DOMAIN blocks = DOMAIN g.blocks
  BY <1>1, <1>3
<1>5. Emit(g, inst) = Func(g.fn, blocks, g.at)
  BY DEF Emit
<1>. HIDE DEF blocks
<1>. QED
  BY <1>4, <1>5 DEF WellBuilt, Functions, Blocks, Func

\* Nor does building an instruction, whose value has the shape of values.
LEMMA BuildType ==
    ASSUME NEW g \in WellBuilt, NEW inst \in Instructions
    PROVE  /\ Build(g, inst).ir \in WellBuilt
           /\ DOMAIN Build(g, inst).ir.blocks = DOMAIN g.blocks
           /\ Build(g, inst).ir.at = g.at
           /\ Build(g, inst).val \in Values
<1>1. g.blocks \in Seq(Blocks) /\ g.at \in DOMAIN g.blocks
  BY DEF WellBuilt, Functions, Blocks
<1>2. g.blocks[g.at] \in Blocks
  BY <1>1
<1>3. Len(g.blocks[g.at].code) \in Nat
  BY <1>2 DEF Blocks
<1>4. Place(g.fn, g.at, Len(g.blocks[g.at].code) + 1)
        \in [fn : Nat, block : Nat, index : Nat]
  BY <1>3 DEF WellBuilt, Functions, Place
<1>5. Result(g, inst) \in Values
  BY <1>4 DEF Result, Val, Values, Instructions
<1>. QED
  BY <1>5, EmitType DEF Build

\* Blocks are added behind the others.
LEMMA AddBlocksType ==
    ASSUME NEW g \in WellBuilt, NEW n \in Nat
    PROVE  /\ AddBlocks(g, n) \in WellBuilt
           /\ DOMAIN g.blocks \subseteq DOMAIN AddBlocks(g, n).blocks
           /\ \A k \in 1..n : Len(g.blocks) + k \in DOMAIN AddBlocks(g, n).blocks
           /\ AddBlocks(g, n).at = g.at
<1>. DEFINE empty == Block(FALSE, <<>>)
            new == [k \in 1..n |-> empty]
            blocks == g.blocks \o new
<1>1. g.blocks \in Seq(Blocks) /\ g.at \in 1..Len(g.blocks)
  BY DEF WellBuilt, Functions, Blocks
<1>2. empty \in Blocks
  BY DEF Blocks, Block
<1>. HIDE DEF empty
<1>3. new \in Seq(Blocks)
  BY <1>2
<1>3a. Len(new) = n
  BY <1>3, LenProperties
<1>. HIDE DEF new
<1>4. blocks \in Seq(Blocks) /\ Len(blocks) = Len(g.blocks) + n
  BY <1>1, <1>3, <1>3a, ConcatProperties
<1>5. /\ DOMAIN g.blocks = 1..Len(g.blocks)
      /\ DOMAIN blocks = 1..(Len(g.blocks) + n)
      /\ Len(g.blocks) \in Nat
  BY <1>1, <1>4
<1>6. AddBlocks(g, n) = Func(g.fn, blocks, g.at)
  BY DEF AddBlocks, new, empty
<1>. HIDE DEF blocks
<1>7. AddBlocks(g, n) \in Functions /\ AddBlocks(g, n).blocks = blocks
      /\ AddBlocks(g, n).at = g.at
  BY <1>4, <1>6 DEF WellBuilt, Functions, Blocks, Func
<1>8. DOMAIN g.blocks \subseteq DOMAIN blocks
      /\ \A k \in 1..n : Len(g.blocks) + k \in DOMAIN blocks
  BY <1>5
<1>. QED
  BY <1>7, <1>8 DEF WellBuilt

\* The insert point moves among the blocks.
LEMMA EnterType ==
    ASSUME NEW g \in WellBuilt, NEW b \in DOMAIN g.blocks
    PROVE  /\ Enter(g, b) \in WellBuilt
           /\ DOMAIN Enter(g, b).blocks = DOMAIN g.blocks
           /\ Enter(g, b).at = b
<1>. DEFINE entered == Block(TRUE, g.blocks[b].code)
            blocks == [g.blocks EXCEPT ![b] = entered]
<1>1. g.blocks \in Seq(Blocks)
  BY DEF WellBuilt, Functions, Blocks
<1>2. g.blocks[b] \in Blocks /\ b \in Nat
  BY <1>1
<1>3. entered \in Blocks
  BY <1>2 DEF Blocks, Block
<1>. HIDE DEF entered
<1>4. blocks \in Seq(Blocks) /\ DOMAIN blocks = DOMAIN g.blocks
  BY <1>1, <1>3
<1>5. Enter(g, b) = Func(g.fn, blocks, b)
  BY DEF Enter, entered
<1>. HIDE DEF blocks
<1>. QED
  BY <1>2, <1>4, <1>5 DEF WellBuilt, Functions, Blocks, Func

LEMMA LeaveType ==
    ASSUME NEW g \in WellBuilt, NEW branch \in Instructions,
           NEW b \in DOMAIN g.blocks
    PROVE  /\ Leave(g, branch, b) \in WellBuilt
           /\ DOMAIN Leave(g, branch, b).blocks = DOMAIN g.blocks
           /\ Leave(g, branch, b).at = b
BY EmitType, EnterType DEF Leave

\* A conversion to i1 builds at most one instruction.
LEMMA ToBoolType ==
    ASSUME NEW g \in WellBuilt, NEW v \in Values
    PROVE  /\ ToBool(g, v).ir \in WellBuilt
           /\ DOMAIN ToBool(g, v).ir.blocks = DOMAIN g.blocks
           /\ ToBool(g, v).ir.at = g.at
           /\ ToBool(g, v).val \in Values
<1>1. v.type \in Strings
  BY DEF Values
<1>2. ConstInt(v.type, 0) \in Values
  BY <1>1, ConstantType
<1>3. Compute("icmp.ne", "i1", <<v, ConstInt(v.type, 0)>>) \in Instructions
  BY <1>2, EmittedType, Literals
<1>. QED
  BY <1>3, BuildType DEF ToBool

LEMMA CondBoolType ==
    ASSUME NEW g \in WellBuilt, NEW v \in Values
    PROVE  /\ CondBool(g, v).ir \in WellBuilt
           /\ DOMAIN CondBool(g, v).ir.blocks = DOMAIN g.blocks
           /\ CondBool(g, v).ir.at = g.at
           /\ CondBool(g, v).val \in Values
<1>0. "i32" \in Strings
  BY Literals
<1>1. ConstInt("i32", 0) \in Values
  BY <1>0, ConstantType
<1>2. Compute("icmp.ne", "i1", <<v, ConstInt("i32", 0)>>) \in Instructions
  BY <1>1, EmittedType, Literals
<1>. QED
  BY <1>2, BuildType DEF CondBool

(***************************************************************************)
(* The members of a node have the types of their class.                    *)
(***************************************************************************)
LEMMA ExpressionMembers ==
    ASSUME NEW n \in AstNode
    PROVE  /\ n.kind = "LiteralExpr" => n.value.class \in STRING /\ n.value.num \in Int
           /\ n.kind = "VarExpr" => n.name \in STRING
           /\ n.kind = "CallExpr" => n.callee \in STRING /\ n.arguments \in Seq(AstNode)
           /\ n.kind = "BinaryExpr" =>
                 n.op \in STRING /\ n.left \in AstNode /\ n.right \in AstNode
           /\ n.kind \in {"UnaryExpr", "PrefixExpr", "PostfixExpr"} =>
                 n.op \in STRING /\ n.operand \in AstNode
           /\ n.kind = "CastExpr" => n.targetType \in TypeRefs /\ n.expr \in AstNode
           /\ n.kind = "AllocExpr" => n.allocType \in TypeRefs
           /\ n.kind = "AssignExpr" => n.name \in STRING /\ n.value \in AstNode
           /\ n.kind = "MemberAccessExpr" =>
                 n.memberName \in STRING /\ n.object \in AstNode
BY AstAssumption DEF WellFormed, Children

LEMMA StatementMembers ==
    ASSUME NEW n \in AstNode
    PROVE  /\ n.kind = "IfStatement" => /\ n.condition \in AstNode
                                       /\ n.thenBranch \in AstNode
                                       /\ n.elseBranch \in AstNode
           /\ n.kind = "WhileStatement" => n.condition \in AstNode /\ n.body \in AstNode
           /\ n.kind = "ForStatement" => /\ n.init \in AstNode
                                        /\ n.condition \in AstNode
                                        /\ n.update \in AstNode
                                        /\ n.body \in AstNode
           /\ n.kind = "BlockStatement" => n.statements \in Seq(AstNode)
           /\ n.kind = "ExprStatement" => n.expression \in AstNode
           /\ n.kind = "ReturnStatement" => n.value \in AstNode
           /\ n.kind = "VariableDecl" =>
                 /\ n.name \in STRING /\ n.varType \in TypeRefs
                 /\ n.initializer \in AstNode /\ n.isMutable \in BOOLEAN
           /\ n.kind = "FunctionDecl" =>
                 /\ n.name \in STRING /\ n.params \in Seq(Parameters)
                 /\ n.returnType \in TypeRefs /\ n.body \in AstNode
           /\ n.kind = "StructDecl" => n.name \in STRING /\ n.fields \in Seq(StructFields)
BY AstAssumption DEF WellFormed, Children

(***************************************************************************)
(* The agenda.                                                             *)
(***************************************************************************)
\* Blocks are only added, so a task stays one.
LEMMA TasksMonotone ==
    ASSUME NEW g, NEW h, DOMAIN g.blocks \subseteq DOMAIN h.blocks
    PROVE  TasksIn(g) \subseteq TasksIn(h)
<1>. SUFFICES ASSUME NEW t \in TasksIn(g) PROVE t \in TasksIn(h)
  OBVIOUS
<1>1. t.blks \in Seq(DOMAIN g.blocks)
  BY DEF TasksIn
<1>2. t.blks \in Seq(DOMAIN h.blocks)
  BY <1>1, SeqMonotonic
<1>. QED
  BY <1>2 DEF TasksIn

LEMMA TaskType ==
    ASSUME NEW g, NEW do \in Labels, NEW n \in AstNode, NEW vals \in Seq(Values),
           NEW blks \in Seq(DOMAIN g.blocks),
           OwnKind(Task(do, n, vals, blks)), OwnLocals(Task(do, n, vals, blks))
    PROVE  Task(do, n, vals, blks) \in TasksIn(g)
BY DEF TasksIn, Task

LEMMA VisitType ==
    ASSUME NEW g, NEW n \in AstNode
    PROVE  Visit(n) \in TasksIn(g) /\ Task("Statement", n, <<>>, <<>>) \in TasksIn(g)
           /\ IfPresent(n) \in Seq(TasksIn(g))
<1>1. ASSUME NEW do, do \in {"Visit", "Statement"}
      PROVE  Task(do, n, <<>>, <<>>) \in TasksIn(g)
  <2>1. do \in Labels
    BY <1>1 DEF Labels
  <2>2. <<>> \in Seq(Values) /\ <<>> \in Seq(DOMAIN g.blocks)
    OBVIOUS
  <2>3. OwnKind(Task(do, n, <<>>, <<>>))
    BY <1>1 DEF OwnKind, Task
  <2>4. OwnLocals(Task(do, n, <<>>, <<>>))
    BY <1>1 DEF OwnLocals, Task
  <2>. QED
    BY <2>1, <2>2, <2>3, <2>4, TaskType
<1>2. Visit(n) \in TasksIn(g) /\ Task("Statement", n, <<>>, <<>>) \in TasksIn(g)
  BY <1>1 DEF Visit
<1>. QED
  BY <1>2 DEF IfPresent

\* The rest of a handler that holds nothing.
LEMMA PlainRest ==
    ASSUME NEW g, NEW n \in AstNode, NEW do,
           \/ do \in {"ShortLeft", "BinLeft"} /\ n.kind = "BinaryExpr"
           \/ do = "UnaryOp" /\ n.kind = "UnaryExpr"
           \/ do = "CastOp" /\ n.kind = "CastExpr"
           \/ do = "AssignStore" /\ n.kind = "AssignExpr"
           \/ do = "MemberLoad" /\ n.kind = "MemberAccessExpr"
           \/ do = "InferredInit" /\ n.kind = "VariableDecl"
           \/ do = "ReturnValue" /\ n.kind = "ReturnStatement"
           \/ do = "IfCond" /\ n.kind = "IfStatement"
           \/ do \in {"UnrollStart", "ForBlocks"} /\ n.kind = "ForStatement"
    PROVE  Task(do, n, <<>>, <<>>) \in TasksIn(g)
<1>1. do \in Labels
  BY DEF Labels
<1>2. <<>> \in Seq(Values) /\ <<>> \in Seq(DOMAIN g.blocks)
  OBVIOUS
<1>3. OwnKind(Task(do, n, <<>>, <<>>))
  BY DEF OwnKind, Task
<1>4. OwnLocals(Task(do, n, <<>>, <<>>))
  BY DEF OwnLocals, Task
<1>. QED
  BY <1>1, <1>2, <1>3, <1>4, TaskType

\* The rest of a handler that holds values.
LEMMA ValueRest ==
    ASSUME NEW g, NEW n \in AstNode, NEW do, NEW vals \in Seq(Values),
           \/ do = "BinRight" /\ n.kind = "BinaryExpr" /\ Len(vals) = 1
           \/ do = "ExplicitInit" /\ n.kind = "VariableDecl" /\ Len(vals) = 1
           \/ do = "UnrollStore" /\ n.kind = "ForStatement" /\ Len(vals) = 2
           \/ do = "CallArg" /\ n.kind = "CallExpr" /\ Len(vals) < Len(n.arguments)
           \/ do = "CallEnd" /\ n.kind = "CallExpr"
    PROVE  Task(do, n, vals, <<>>) \in TasksIn(g)
<1>1. do \in Labels
  BY DEF Labels
<1>2. <<>> \in Seq(DOMAIN g.blocks)
  OBVIOUS
<1>3. OwnKind(Task(do, n, vals, <<>>))
  BY DEF OwnKind, Task
<1>4. OwnLocals(Task(do, n, vals, <<>>))
  BY DEF OwnLocals, Task
<1>. QED
  BY <1>1, <1>2, <1>3, <1>4, TaskType

\* The rest of a handler that holds blocks.
LEMMA BlockRest ==
    ASSUME NEW g, NEW n \in AstNode, NEW do, NEW blks \in Seq(DOMAIN g.blocks),
           \/ do = "ShortRight" /\ n.kind = "BinaryExpr" /\ Len(blks) = 2
           \/ do = "IfElse" /\ n.kind = "IfStatement" /\ Len(blks) = 2
           \/ do = "IfMerge" /\ n.kind = "IfStatement" /\ Len(blks) = 1
           \/ /\ do \in {"WhileCond", "WhileEnd"}
              /\ n.kind = "WhileStatement" /\ Len(blks) = 3
           \/ /\ do \in {"ForCond", "ForUpdate", "ForEnd"}
              /\ n.kind = "ForStatement" /\ Len(blks) = 4
    PROVE  Task(do, n, <<>>, blks) \in TasksIn(g)
<1>1. do \in Labels
  BY DEF Labels
<1>2. <<>> \in Seq(Values)
  OBVIOUS
<1>3. OwnKind(Task(do, n, <<>>, blks))
  BY DEF OwnKind, Task
<1>4. OwnLocals(Task(do, n, <<>>, blks))
  BY DEF OwnLocals, Task
<1>. QED
  BY <1>1, <1>2, <1>3, <1>4, TaskType

\* The current task, while something is left to do.
LEMMA TopType ==
    ASSUME TypeOK, todo # <<>>
    PROVE  /\ Top \in TasksIn(ir) /\ Node \in AstNode
           /\ OwnKind(Top) /\ OwnLocals(Top)
           /\ Top.vals \in Seq(Values) /\ Top.blks \in Seq(DOMAIN ir.blocks)
           /\ ir \in WellBuilt /\ function # Null
<1>1. Top \in TasksIn(ir)
  BY HeadTailProperties DEF TypeOK, Top
<1>2. ir \in WellBuilt /\ function # Null
  BY DEF TypeOK, WellBuilt
<1>. QED
  BY <1>1, <1>2 DEF TasksIn, Node

\* A step that keeps every part in its type and whose new tasks are typed.
LEMMA StepType ==
    ASSUME TypeOK, todo # <<>>, UNCHANGED module,
           ir' \in WellBuilt, DOMAIN ir.blocks \subseteq DOMAIN ir'.blocks,
           NEW tasks, tasks \in Seq(TasksIn(ir')), Proceed(tasks),
           m_variables' \in [DOMAIN m_variables' -> VariableInfos],
           m_currentFunctionVariables' \subseteq STRING,
           slots' \subseteq Values \X AstNode,
           m_LastValue' \in Values, valueOf' \in AstNode,
           \A e \in errors' : e[2] \in Strings, crashed' \in BOOLEAN
    PROVE  TypeOK'
<1>1. todo' \in Seq(TasksIn(ir'))
  <2>1. TasksIn(ir) \subseteq TasksIn(ir')
    BY TasksMonotone
  <2>2. todo \in Seq(TasksIn(ir))
    BY DEF TypeOK
  <2>. QED
    BY <2>1, <2>2, Prefixed DEF Proceed
<1>2. ir' \in Functions /\ ir'.at \in DOMAIN ir'.blocks
  BY DEF WellBuilt
<1>. QED
  BY <1>1, <1>2 DEF TypeOK, module

LEMMA ReportType ==
    ASSUME TypeOK, NEW text, NEW subject \in Strings, Report(text, subject)
    PROVE  \A e \in errors' : e[2] \in Strings
BY DEF Report, TypeOK

\* Its instances: an error message, a crash, a value, a move along the blocks.
LEMMA RejectType ==
    ASSUME TypeOK, todo # <<>>, NEW text, NEW subject \in Strings,
           Reject(text, subject)
    PROVE  TypeOK'
<1>1. <<>> \in Seq(TasksIn(ir')) /\ Proceed(<<>>)
  BY DEF Reject, Finish
<1>2. \A e \in errors' : e[2] \in Strings
  BY DEF Reject, Report, TypeOK
<1>3. /\ UNCHANGED module /\ ir' = ir /\ m_variables' = m_variables
      /\ m_currentFunctionVariables' = m_currentFunctionVariables
      /\ slots' = slots /\ m_LastValue' = m_LastValue /\ valueOf' = valueOf
      /\ crashed' = crashed
  BY DEF Reject, symbols, result
<1>4. ir \in WellBuilt
  BY TopType
<1>. QED
  BY <1>1, <1>2, <1>3, <1>4, StepType DEF TypeOK

LEMMA CrashType ==
    ASSUME TypeOK, Crash
    PROVE  TypeOK'
BY DEF Crash, TypeOK, module, symbols, result

LEMMA YieldType ==
    ASSUME TypeOK, todo # <<>>, NEW v \in Values, Yield(v), Finish,
           ir' \in WellBuilt, DOMAIN ir.blocks \subseteq DOMAIN ir'.blocks,
           UNCHANGED <<module, symbols, errors, crashed>>
    PROVE  TypeOK'
<1>1. <<>> \in Seq(TasksIn(ir')) /\ Proceed(<<>>)
  BY DEF Finish
<1>2. m_LastValue' \in Values /\ valueOf' \in AstNode
  BY TopType DEF Yield
<1>3. UNCHANGED <<m_variables, m_currentFunctionVariables, slots>>
  BY DEF symbols
<1>. QED
  BY <1>1, <1>2, <1>3, StepType DEF TypeOK

LEMMA FlowType ==
    ASSUME TypeOK, todo # <<>>, ir' \in WellBuilt,
           DOMAIN ir.blocks \subseteq DOMAIN ir'.blocks,
           NEW tasks \in Seq(TasksIn(ir')), Proceed(tasks),
           UNCHANGED <<module, symbols, result, crashed>>,
           \A e \in errors' : e[2] \in Strings
    PROVE  TypeOK'
<1>1. UNCHANGED <<m_variables, m_currentFunctionVariables, slots>>
  BY DEF symbols
<1>2. UNCHANGED <<m_LastValue, valueOf>>
  BY DEF result
<1>. QED
  BY <1>1, <1>2, StepType DEF TypeOK

LEMMA DescendType ==
    ASSUME TypeOK, NEW kind, NEW tasks \in Seq(TasksIn(ir)), Descend(kind, tasks)
    PROVE  TypeOK'
<1>1. todo # <<>> /\ Proceed(tasks) /\ ir' = ir /\ errors' = errors
      /\ UNCHANGED <<module, symbols, result, crashed>>
  BY DEF Descend, Visiting, Running
<1>2. ir \in WellBuilt
  BY <1>1, TopType
<1>. QED
  BY <1>1, <1>2, FlowType DEF TypeOK

(***************************************************************************)
(* Types of the source and of LLVM.                                        *)
(***************************************************************************)
LEMMA LoweredType == \A name \in DOMAIN Lowered : Lowered[name] \in Strings
<1>1. /\ "i8" \in Strings /\ "i16" \in Strings /\ "i32" \in Strings
      /\ "i64" \in Strings /\ "float" \in Strings /\ "double" \in Strings
      /\ "i1" \in Strings
  BY Literals
<1>. QED
  BY <1>1 DEF Lowered

\* Every type of the source has an LLVM type.
LEMMA MapTypeType ==
    ASSUME NEW t \in TypeRefs
    PROVE  MapType(t) \in Strings
<1>1. "void" \in Strings /\ "ptr" \in Strings /\ "i8" \in Strings
  BY Literals
<1>2. t.name \in Strings
  BY Literals DEF TypeRefs
<1>. QED
  BY <1>1, <1>2, LoweredType DEF MapType

LEMMA TypeRefsType == TypeRefs \subseteq VariableTypes
BY Literals DEF TypeRefs, VariableTypes

\* Inference finds a type for every LLVM type.
LEMMA InferTypeRefType ==
    ASSUME NEW type \in Strings
    PROVE  InferTypeRef(type) \in VariableTypes
<1>1. "char" \in Strings /\ "bool" \in Strings /\ "f32" \in Strings
      /\ "f64" \in Strings /\ "i32" \in Strings
  BY Literals
<1>2. ASSUME NEW name \in Strings, NEW p \in BOOLEAN, NEW q \in BOOLEAN
      PROVE  TypeRef(name, p, q) \in VariableTypes
  BY DEF TypeRef, VariableTypes
<1>3. \A name \in Strings :
          Plain(name) \in VariableTypes /\ PointerTo(name) \in VariableTypes
  BY <1>2 DEF Plain, PointerTo
<1>. QED
  BY <1>1, <1>3 DEF InferTypeRef

(***************************************************************************)
(* Symbols.                                                                *)
(***************************************************************************)
LEMMA DeclareType ==
    ASSUME TypeOK, Node \in AstNode, NEW name \in STRING,
           NEW info \in VariableInfos, Declare(name, info)
    PROVE  /\ m_variables' \in [DOMAIN m_variables' -> VariableInfos]
           /\ m_currentFunctionVariables' \subseteq STRING
           /\ slots' \subseteq Values \X AstNode
<1>1. <<info.value, Node>> \in Values \X AstNode
  BY DEF VariableInfos
<1>2. slots' \subseteq Values \X AstNode
  BY <1>1 DEF Declare, TypeOK
<1>3. m_variables' \in [DOMAIN m_variables' -> VariableInfos]
  BY DEF Declare, TypeOK
<1>. QED
  BY <1>2, <1>3 DEF Declare, TypeOK

LEMMA MarkUsedType ==
    ASSUME TypeOK, NEW name \in DOMAIN m_variables, MarkUsed(name)
    PROVE  /\ m_variables' \in [DOMAIN m_variables' -> VariableInfos]
           /\ DOMAIN m_variables' = DOMAIN m_variables
<1>1. m_variables[name] \in VariableInfos
  BY DEF TypeOK
<1>2. [m_variables[name] EXCEPT !.used = TRUE] \in VariableInfos
  BY <1>1 DEF VariableInfos
<1>. QED
  BY <1>2 DEF MarkUsed, TypeOK

LEMMA NewVariableType ==
    ASSUME NEW value \in Values, NEW type \in VariableTypes,
           NEW isMutable \in BOOLEAN
    PROVE  VariableInfo(value, type, isMutable) \in VariableInfos
BY DEF VariableInfo, VariableInfos

(***************************************************************************)
(* Leaf expressions.                                                       *)
(***************************************************************************)
LEMMA LiteralTypes ==
    ASSUME TypeOK, VisitLiteralExpr
    PROVE  TypeOK'
<1>1. todo # <<>> /\ Node \in AstNode /\ Node.kind = "LiteralExpr" /\ ir \in WellBuilt
  BY TopType DEF VisitLiteralExpr, Visiting, Running
<1>2. CASE Reject("Unknown literal", "none") \/ Reject("Invalid float literal", "none")
  BY <1>1, <1>2, RejectType, Literals
<1>3. CASE /\ Yield(Constant(Node.value)) /\ Finish
           /\ UNCHANGED <<module, symbols, ir, errors, crashed>>
  <2>1. Node.value.num \in Int
    BY <1>1, ExpressionMembers
  <2>2. "i1" \in Strings /\ "i8" \in Strings /\ "i32" \in Strings
    BY Literals
  <2>3. Constant(Node.value) \in Values
    BY <2>1, <2>2, ConstantType DEF Constant
  <2>. QED
    BY <1>1, <1>3, <2>3, YieldType
<1>. QED
  BY <1>2, <1>3 DEF VisitLiteralExpr

LEMMA VarTypes ==
    ASSUME TypeOK, VisitVarExpr
    PROVE  TypeOK'
<1>1. todo # <<>> /\ Node \in AstNode /\ Node.kind = "VarExpr" /\ ir \in WellBuilt
  BY TopType DEF VisitVarExpr, Visiting, Running
<1>2. CASE Reject("Undefined variable", Node.name)
  <2>1. Node.name \in Strings
    BY <1>1, ExpressionMembers, Literals
  <2>. QED
    BY <1>1, <1>2, <2>1, RejectType
<1>3. CASE /\ Node.name \in DOMAIN m_variables
           /\ ~Reject("Undefined variable", Node.name)
  <2>. DEFINE stored == m_variables[Node.name].value
              load == Build(ir, Load(stored.elem, stored))
  <2>1. stored \in Values
    BY <1>3 DEF TypeOK, VariableInfos
  <2>2. Load(stored.elem, stored) \in Instructions
    BY <2>1, EmittedType DEF Values
  <2>3. load.ir \in WellBuilt /\ DOMAIN load.ir.blocks = DOMAIN ir.blocks
        /\ load.val \in Values
    BY <1>1, <2>2, BuildType
  <2>4. /\ \/ ir' = load.ir /\ Yield(load.val)
           \/ Yield(stored) /\ UNCHANGED ir
        /\ MarkUsed(Node.name) /\ Finish
        /\ UNCHANGED <<module, m_currentFunctionVariables, slots, errors, crashed>>
    BY <1>3 DEF VisitVarExpr
  <2>. HIDE DEF load, stored
  <2>5. ir' \in WellBuilt /\ DOMAIN ir.blocks \subseteq DOMAIN ir'.blocks
        /\ m_LastValue' \in Values /\ valueOf' \in AstNode
    BY <1>1, <2>1, <2>3, <2>4 DEF Yield
  <2>6. m_variables' \in [DOMAIN m_variables' -> VariableInfos]
    BY <1>3, <2>4, MarkUsedType
  <2>7. <<>> \in Seq(TasksIn(ir')) /\ Proceed(<<>>)
    BY <2>4 DEF Finish
  <2>. QED
    BY <1>1, <2>4, <2>5, <2>6, <2>7, StepType DEF TypeOK
<1>. QED
  BY <1>2, <1>3 DEF VisitVarExpr

LEMMA AllocTypes ==
    ASSUME TypeOK, VisitAllocExpr
    PROVE  TypeOK'
<1>. DEFINE name == Node.allocType.name
            size == IF name \in DOMAIN m_structTypes THEN SizeOf(name)
                    ELSE ConstInt("i64", 8)
            inst == Inst("call", "ptr", "malloc", <<size>>, <<>>)
<1>1. todo # <<>> /\ Node \in AstNode /\ Node.kind = "AllocExpr" /\ ir \in WellBuilt
  BY TopType DEF VisitAllocExpr, Visiting, Running
<1>2. name \in Strings
  BY <1>1, ExpressionMembers, Literals DEF TypeRefs
<1>3. size \in Values
  <2>1. "i64" \in Strings
    BY Literals
  <2>. QED
    BY <1>2, <2>1, ConstantType
<1>4. inst \in Instructions
  <2>. HIDE DEF size
  <2>1. "call" \in Strings /\ "ptr" \in Strings /\ "malloc" \in Strings
    BY Literals
  <2>2. <<size>> \in Seq(Values) /\ <<>> \in Seq(Nat)
    BY <1>3
  <2>. QED
    BY <2>1, <2>2, InstType
<1>5. /\ ir' = Build(ir, inst).ir /\ Yield(Build(ir, inst).val) /\ Finish
      /\ UNCHANGED <<module, symbols, errors, crashed>>
  BY DEF VisitAllocExpr
<1>. HIDE DEF inst
<1>. QED
  BY <1>1, <1>4, <1>5, BuildType, YieldType

(***************************************************************************)
(* Increment and decrement.                                                *)
(***************************************************************************)
LEMMA IncDecTypes ==
    ASSUME TypeOK, todo # <<>>, Node.kind \in {"PrefixExpr", "PostfixExpr"},
           IncDec(TRUE) \/ IncDec(FALSE)
    PROVE  TypeOK'
<1>1. Node \in AstNode /\ ir \in WellBuilt
  BY TopType
<1>2. Node.operand \in AstNode
  BY <1>1, ExpressionMembers
<1>3. IncDecError # <<>> => IncDecError[2] \in Strings
  <2>1. Node.operand.kind = "VarExpr" => Node.operand.name \in Strings
    BY <1>2, ExpressionMembers, Literals
  <2>2. "none" \in Strings
    BY Literals
  <2>. QED
    BY <2>1, <2>2 DEF IncDecError
<1>4. CASE IncDecError # <<>> /\ Reject(IncDecError[1], IncDecError[2])
  BY <1>3, <1>4, RejectType
<1>5. CASE Crash
  BY <1>5, CrashType
<1>6. ASSUME IncDecError = <<>>
      PROVE  Node.operand.name \in DOMAIN m_variables
  BY <1>6 DEF IncDecError
<1>7. CASE /\ IncDecError = <<>> /\ MarkUsed(Node.operand.name)
           /\ Report("Cannot increment/decrement non-variable", "none")
           /\ Finish
           /\ UNCHANGED <<module, m_currentFunctionVariables, slots, result, ir,
                          crashed>>
  <2>1. m_variables' \in [DOMAIN m_variables' -> VariableInfos]
    BY <1>6, <1>7, MarkUsedType
  <2>2. <<>> \in Seq(TasksIn(ir')) /\ Proceed(<<>>)
    <3>1. Finish
      BY <1>7
    <3>. QED
      BY <3>1 DEF Finish
  <2>3. \A e \in errors' : e[2] \in Strings
    <3>1. Report("Cannot increment/decrement non-variable", "none")
      BY <1>7
    <3>2. "none" \in Strings
      BY Literals
    <3>. QED
      BY <3>1, <3>2, ReportType
  <2>4. UNCHANGED <<m_LastValue, valueOf>>
    BY <1>7 DEF result
  <2>. QED
    BY <1>1, <1>7, <2>1, <2>2, <2>3, <2>4, StepType DEF TypeOK
<1>. DEFINE slot == m_variables[Node.operand.name].value
            load == Build(ir, Load(slot.elem, slot))
            op == IF Node.op = "++" THEN "add" ELSE "sub"
            next == Build(load.ir, Compute(op, slot.elem,
                              <<load.val, ConstInt(slot.elem, 1)>>))
<1>8. CASE /\ IncDecError = <<>> /\ MarkUsed(Node.operand.name)
           /\ ir' = Emit(next.ir, Store(next.val, slot))
           /\ Yield(next.val) \/ Yield(load.val)
           /\ Finish
           /\ UNCHANGED <<module, m_currentFunctionVariables, slots, errors, crashed>>
  <2>1. slot \in Values /\ slot.elem \in Strings
    BY <1>6, <1>8 DEF TypeOK, VariableInfos, Values
  <2>2. Load(slot.elem, slot) \in Instructions
    BY <2>1, EmittedType
  <2>3. load.ir \in WellBuilt /\ DOMAIN load.ir.blocks = DOMAIN ir.blocks
        /\ load.val \in Values
    BY <1>1, <2>2, BuildType
  <2>4. op \in Strings
    BY Literals
  <2>5. ConstInt(slot.elem, 1) \in Values
    BY <2>1, ConstantType
  <2>. HIDE DEF op, load, slot
  <2>6. Compute(op, slot.elem, <<load.val, ConstInt(slot.elem, 1)>>) \in Instructions
    BY <2>1, <2>3, <2>4, <2>5, EmittedType
  <2>7. next.ir \in WellBuilt /\ DOMAIN next.ir.blocks = DOMAIN ir.blocks
        /\ next.val \in Values
    BY <2>3, <2>6, BuildType
  <2>. HIDE DEF next
  <2>8. Store(next.val, slot) \in Instructions
    BY <2>1, <2>7, EmittedType
  <2>9. ir' \in WellBuilt /\ DOMAIN ir'.blocks = DOMAIN ir.blocks
    BY <1>8, <2>7, <2>8, EmitType
  <2>10. m_variables' \in [DOMAIN m_variables' -> VariableInfos]
    BY <1>6, <1>8, MarkUsedType
  <2>11. <<>> \in Seq(TasksIn(ir')) /\ Proceed(<<>>)
    BY <1>8 DEF Finish
  <2>12. m_LastValue' \in Values /\ valueOf' \in AstNode
    BY <1>1, <1>8, <2>3, <2>7 DEF Yield
  <2>. QED
    BY <1>8, <2>9, <2>10, <2>11, <2>12, StepType DEF TypeOK
<1>. QED
  BY <1>4, <1>5, <1>7, <1>8 DEF IncDec

(***************************************************************************)
(* Short-circuit operators.                                                *)
(***************************************************************************)
LEMMA ShortLeftTypes ==
    ASSUME TypeOK, ShortLeft
    PROVE  TypeOK'
<1>1. /\ todo # <<>> /\ Node \in AstNode /\ Node.kind = "BinaryExpr"
      /\ ir \in WellBuilt /\ m_LastValue \in Values
  BY TopType DEF ShortLeft, Resuming, Running, OwnKind, Node, TypeOK
<1>2. Node.op \in Strings /\ Node.right \in AstNode
  BY <1>1, ExpressionMembers, Literals
<1>3. CASE Reject("Invalid left operand", Node.op)
  BY <1>1, <1>2, <1>3, RejectType
<1>4. CASE Crash
  BY <1>4, CrashType
<1>. DEFINE bool == ToBool(ir, m_LastValue)
            rhs == Len(ir.blocks) + 1
            merge == Len(ir.blocks) + 2
            branch == IF Node.op = "&&" THEN CondBr(bool.val, rhs, merge)
                      ELSE CondBr(bool.val, merge, rhs)
            added == AddBlocks(bool.ir, 2)
            rest == Task("ShortRight", Node, <<>>, <<ir.at, merge>>)
<1>5. CASE /\ ir' = Leave(added, branch, rhs)
           /\ Proceed(<<Visit(Node.right), rest>>)
           /\ UNCHANGED <<module, symbols, result, errors, crashed>>
  <2>1. bool.ir \in WellBuilt /\ DOMAIN bool.ir.blocks = DOMAIN ir.blocks
        /\ bool.val \in Values /\ bool.ir.at = ir.at
    BY <1>1, ToBoolType
  <2>. HIDE DEF bool
  <2>2. Len(bool.ir.blocks) = Len(ir.blocks) /\ Len(ir.blocks) \in Nat
        /\ ir.at \in DOMAIN ir.blocks
    BY <1>1, <2>1, LenProperties DEF WellBuilt, Functions
  <2>3. added \in WellBuilt /\ DOMAIN ir.blocks \subseteq DOMAIN added.blocks
        /\ rhs \in DOMAIN added.blocks /\ merge \in DOMAIN added.blocks
    <3>1. /\ added \in WellBuilt /\ DOMAIN bool.ir.blocks \subseteq DOMAIN added.blocks
          /\ \A k \in 1..2 : Len(bool.ir.blocks) + k \in DOMAIN added.blocks
      BY <2>1, AddBlocksType
    <3>2. 1 \in 1..2 /\ 2 \in 1..2
      OBVIOUS
    <3>. QED
      BY <2>1, <2>2, <3>1, <3>2
  <2>4. rhs \in Nat /\ merge \in Nat
    BY <2>2
  <2>. HIDE DEF rhs, merge, added
  <2>5. branch \in Instructions
    BY <2>1, <2>4, EmittedType, Literals
  <2>. HIDE DEF branch
  <2>6. ir' \in WellBuilt /\ DOMAIN ir'.blocks = DOMAIN added.blocks
    BY <1>5, <2>3, <2>5, LeaveType
  <2>7. <<ir.at, merge>> \in Seq(DOMAIN ir'.blocks)
    <3>1. ir.at \in DOMAIN ir'.blocks /\ merge \in DOMAIN ir'.blocks
      BY <2>2, <2>3, <2>6
    <3>. QED
      BY <3>1, PairSeq
  <2>8. rest \in TasksIn(ir')
    BY <1>1, <2>7, BlockRest
  <2>. HIDE DEF rest
  <2>9. <<Visit(Node.right), rest>> \in Seq(TasksIn(ir'))
    BY <1>2, <2>8, VisitType
  <2>. QED
    BY <1>1, <1>5, <2>3, <2>6, <2>9, FlowType DEF TypeOK
<1>. QED
  BY <1>3, <1>4, <1>5 DEF ShortLeft, ThenAt

LEMMA ShortRightTypes ==
    ASSUME TypeOK, ShortRight
    PROVE  TypeOK'
<1>1. /\ todo # <<>> /\ Node \in AstNode /\ Node.kind = "BinaryExpr"
      /\ ir \in WellBuilt /\ m_LastValue \in Values
      /\ Top.blks \in Seq(DOMAIN ir.blocks) /\ Len(Top.blks) = 2
  BY TopType DEF ShortRight, Resuming, Running, OwnKind, OwnLocals, Node, TypeOK
<1>2. Node.op \in Strings
  BY <1>1, ExpressionMembers, Literals
<1>3. CASE Reject("Invalid right operand", Node.op)
  BY <1>1, <1>2, <1>3, RejectType
<1>4. CASE Crash
  BY <1>4, CrashType
<1>. DEFINE bool == ToBool(ir, m_LastValue)
            phi == MergeShort(bool, ir.at)
            from == Top.blks[1]
            merge == Top.blks[2]
            decided == ConstInt("i1", IF Node.op = "&&" THEN 0 ELSE 1)
            left == Leave(bool.ir, Br(merge), merge)
            inst == Phi(decided, from, bool.val, ir.at)
<1>5. CASE /\ ir' = phi.ir /\ Yield(phi.val) /\ Finish
           /\ UNCHANGED <<module, symbols, errors, crashed>>
  <2>1. bool.ir \in WellBuilt /\ DOMAIN bool.ir.blocks = DOMAIN ir.blocks
        /\ bool.val \in Values
    BY <1>1, ToBoolType
  <2>2. phi = Build(left, inst)
    BY DEF MergeShort
  <2>. HIDE DEF bool, phi
  <2>3. from \in DOMAIN ir.blocks /\ merge \in DOMAIN ir.blocks
        /\ ir.at \in DOMAIN ir.blocks /\ DOMAIN ir.blocks \subseteq Nat
    BY <1>1 DEF WellBuilt, Functions
  <2>. HIDE DEF from, merge
  <2>4. decided \in Values
    BY ConstantType, Literals
  <2>5. Br(merge) \in Instructions
    BY <2>1, <2>3, EmittedType, Literals
  <2>6. left \in WellBuilt /\ DOMAIN left.blocks = DOMAIN ir.blocks
    BY <2>1, <2>3, <2>5, LeaveType
  <2>. HIDE DEF decided, left
  <2>7. inst \in Instructions
    BY <2>1, <2>3, <2>4, EmittedType, Literals
  <2>. HIDE DEF inst
  <2>8. phi.ir \in WellBuilt /\ DOMAIN phi.ir.blocks = DOMAIN ir.blocks
        /\ phi.val \in Values
    BY <2>2, <2>6, <2>7, BuildType
  <2>. QED
    BY <1>1, <1>5, <2>8, YieldType
<1>. QED
  BY <1>3, <1>4, <1>5 DEF ShortRight

(***************************************************************************)
(* The other operators, casts and calls.                                   *)
(***************************************************************************)
LEMMA BinLeftTypes ==
    ASSUME TypeOK, BinLeft
    PROVE  TypeOK'
<1>. DEFINE rest == Task("BinRight", Node, <<m_LastValue>>, <<>>)
<1>1. /\ todo # <<>> /\ Node \in AstNode /\ Node.kind = "BinaryExpr"
      /\ ir \in WellBuilt /\ m_LastValue \in Values
  BY TopType DEF BinLeft, Resuming, Running, OwnKind, Node, TypeOK
<1>2. Node.right \in AstNode
  BY <1>1, ExpressionMembers
<1>3. <<m_LastValue>> \in Seq(Values) /\ Len(<<m_LastValue>>) = 1
  BY <1>1
<1>4. /\ Proceed(<<Visit(Node.right), rest>>) /\ ir' = ir /\ errors' = errors
      /\ UNCHANGED <<module, symbols, result, crashed>>
  BY DEF BinLeft, ThenWith
<1>5. rest \in TasksIn(ir')
  BY <1>1, <1>3, ValueRest
<1>. HIDE DEF rest
<1>6. <<Visit(Node.right), rest>> \in Seq(TasksIn(ir'))
  BY <1>2, <1>5, VisitType, PairSeq
<1>. QED
  BY <1>1, <1>4, <1>6, FlowType DEF TypeOK

\* An operator builds its result from its operands.
LEMMA OperateType ==
    ASSUME ir \in WellBuilt, NEW op \in Strings,
           NEW left \in Values, NEW right \in Values
    PROVE  /\ Operate(op, left, right).ir \in WellBuilt
           /\ DOMAIN Operate(op, left, right).ir.blocks = DOMAIN ir.blocks
           /\ Operate(op, left, right).val \in Values
<1>. DEFINE l == ToBool(ir, left)
            r == ToBool(l.ir, right)
            compare == Compute(op, "i1", <<left, right>>)
            compute == Compute(op, left.type, <<left, right>>)
            combine == Compute(op, "i1", <<l.val, r.val>>)
<1>1. "i1" \in Strings /\ left.type \in Strings
  BY Literals DEF Values
<1>2. l.ir \in WellBuilt /\ DOMAIN l.ir.blocks = DOMAIN ir.blocks /\ l.val \in Values
  BY ToBoolType
<1>. HIDE DEF l
<1>3. r.ir \in WellBuilt /\ DOMAIN r.ir.blocks = DOMAIN ir.blocks /\ r.val \in Values
  BY <1>2, ToBoolType
<1>. HIDE DEF r
<1>4. compare \in Instructions /\ compute \in Instructions /\ combine \in Instructions
  BY <1>1, <1>2, <1>3, EmittedType
<1>5. \/ Operate(op, left, right) = Build(ir, compare)
      \/ Operate(op, left, right) = Build(ir, compute)
      \/ Operate(op, left, right) = Build(r.ir, combine)
  BY DEF Operate, l, r
<1>. HIDE DEF compare, compute, combine
<1>. QED
  BY <1>3, <1>4, <1>5, BuildType

LEMMA BinRightTypes ==
    ASSUME TypeOK, BinRight
    PROVE  TypeOK'
<1>. DEFINE left == Top.vals[1]
            right == m_LastValue
<1>1. /\ todo # <<>> /\ Node \in AstNode /\ Node.kind = "BinaryExpr"
      /\ ir \in WellBuilt /\ m_LastValue \in Values
      /\ Top.vals \in Seq(Values) /\ Len(Top.vals) = 1
  BY TopType DEF BinRight, Resuming, Running, OwnKind, OwnLocals, Node, TypeOK
<1>2. Node.op \in Strings /\ "none" \in Strings
  BY <1>1, ExpressionMembers, Literals
<1>3. left \in Values
  BY <1>1
<1>4. CASE \/ Reject("Invalid operands in binary expression", "none")
           \/ Reject("Unsupported types for comparison", Node.op)
  BY <1>1, <1>2, <1>4, RejectType
<1>5. CASE Crash
  BY <1>5, CrashType
<1>6. CASE /\ ir' = Operate(Node.op, left, right).ir
           /\ Yield(Operate(Node.op, left, right).val)
           /\ Finish
           /\ UNCHANGED <<module, symbols, errors, crashed>>
  <2>. HIDE DEF left, right
  <2>1. /\ Operate(Node.op, left, right).ir \in WellBuilt
        /\ DOMAIN Operate(Node.op, left, right).ir.blocks = DOMAIN ir.blocks
        /\ Operate(Node.op, left, right).val \in Values
    BY <1>1, <1>2, <1>3, OperateType DEF right
  <2>. QED
    BY <1>1, <1>6, <2>1, YieldType
<1>. QED
  BY <1>4, <1>5, <1>6 DEF BinRight

LEMMA UnaryOpTypes ==
    ASSUME TypeOK, UnaryOp
    PROVE  TypeOK'
<1>. DEFINE v == m_LastValue
            bool == ToBool(ir, v)
            one == ConstInt("i1", 1)
            flip == Compute("xor", "i1", <<bool.val, one>>)
            invert == Compute("not", v.type, <<v>>)
            not == IF Node.op = "!" THEN Build(bool.ir, flip) ELSE Build(ir, invert)
<1>1. /\ todo # <<>> /\ Node \in AstNode /\ ir \in WellBuilt /\ v \in Values
  BY TopType DEF UnaryOp, Resuming, Running, TypeOK
<1>2. CASE Reject("Invalid operand in unary expression", "none")
  BY <1>1, <1>2, RejectType, Literals
<1>3. CASE Crash
  BY <1>3, CrashType
<1>4. CASE /\ ir' = not.ir /\ Yield(not.val) /\ Finish
           /\ UNCHANGED <<module, symbols, errors, crashed>>
  <2>1. /\ "i1" \in Strings /\ "xor" \in Strings /\ "not" \in Strings
        /\ v.type \in Strings
    BY <1>1, Literals DEF Values
  <2>2. /\ bool.ir \in WellBuilt /\ DOMAIN bool.ir.blocks = DOMAIN ir.blocks
        /\ bool.val \in Values
    BY <1>1, ToBoolType
  <2>. HIDE DEF bool
  <2>3. one \in Values
    BY <2>1, ConstantType
  <2>. HIDE DEF one
  <2>4. flip \in Instructions /\ invert \in Instructions
    BY <1>1, <2>1, <2>2, <2>3, EmittedType
  <2>. HIDE DEF flip, invert
  <2>5. /\ not.ir \in WellBuilt /\ DOMAIN not.ir.blocks = DOMAIN ir.blocks
        /\ not.val \in Values
    BY <1>1, <2>2, <2>4, BuildType
  <2>. HIDE DEF not
  <2>. QED
    BY <1>1, <1>4, <2>5, YieldType
<1>. QED
  BY <1>2, <1>3, <1>4 DEF UnaryOp

LEMMA CastOpTypes ==
    ASSUME TypeOK, CastOp
    PROVE  TypeOK'
<1>1. /\ todo # <<>> /\ Node \in AstNode /\ ir \in WellBuilt /\ m_LastValue \in Values
  BY TopType DEF CastOp, Resuming, Running, TypeOK
<1>2. CASE /\ Report("Invalid expression in cast", "none") /\ crashed' = TRUE
           /\ UNCHANGED <<module, todo, symbols, result, ir>>
  <2>1. \A e \in errors' : e[2] \in Strings
    <3>1. "none" \in Strings
      BY Literals
    <3>. QED
      BY <1>2, <3>1, ReportType
  <2>. QED
    BY <1>2, <2>1 DEF TypeOK, module, symbols, result
<1>3. CASE Yield(m_LastValue) /\ Finish /\ UNCHANGED <<module, symbols, ir, errors, crashed>>
  BY <1>1, <1>3, YieldType
<1>4. CASE Reject("Unsupported cast", "none")
  BY <1>1, <1>4, RejectType, Literals
<1>. QED
  BY <1>2, <1>3, <1>4 DEF CastOp

\* After each argument comes another one or the call.
LEMMA NextArgumentType ==
    ASSUME NEW g, Node \in AstNode, Node.kind = "CallExpr", NEW args \in Seq(Values)
    PROVE  NextArgument(args) \in Seq(TasksIn(g))
<1>. DEFINE next == Task("CallArg", Node, args, <<>>)
            call == Task("CallEnd", Node, args, <<>>)
<1>1. Node.arguments \in Seq(AstNode) /\ Len(args) \in Nat
  BY ExpressionMembers, LenProperties
<1>2. CASE Len(args) < Len(Node.arguments)
  <2>1. Node.arguments[Len(args) + 1] \in AstNode
    BY <1>1, <1>2
  <2>2. Visit(Node.arguments[Len(args) + 1]) \in TasksIn(g)
    BY <2>1, VisitType
  <2>3. next \in TasksIn(g)
    BY <1>2, ValueRest
  <2>. HIDE DEF next
  <2>4. NextArgument(args) = <<Visit(Node.arguments[Len(args) + 1]), next>>
    BY <1>2 DEF NextArgument, ThenWith, next
  <2>. QED
    BY <2>2, <2>3, <2>4, PairSeq
<1>3. CASE ~(Len(args) < Len(Node.arguments))
  <2>1. call \in TasksIn(g)
    BY ValueRest
  <2>. HIDE DEF call
  <2>2. NextArgument(args) = <<call>>
    BY <1>3 DEF NextArgument, ThenWith, call
  <2>. QED
    BY <2>1, <2>2
<1>. QED
  BY <1>2, <1>3

LEMMA CallTypes ==
    ASSUME TypeOK, VisitCallExpr \/ CallArg
    PROVE  TypeOK'
<1>1. /\ todo # <<>> /\ Node \in AstNode /\ Node.kind = "CallExpr"
      /\ ir \in WellBuilt /\ m_LastValue \in Values /\ Top.vals \in Seq(Values)
  BY TopType DEF VisitCallExpr, CallArg, Visiting, Resuming, Running, OwnKind, Node, TypeOK
<1>2. Node.callee \in Strings
  BY <1>1, ExpressionMembers, Literals
<1>3. /\ \/ UNCHANGED errors
         \/ Report("Unknown function", Node.callee)
         \/ Report("Invalid argument in call", Node.callee)
      /\ \/ Proceed(NextArgument(<<>>))
         \/ Proceed(NextArgument(Append(Top.vals, m_LastValue)))
      /\ UNCHANGED <<module, symbols, result, ir, crashed>>
  BY DEF VisitCallExpr, CallArg
<1>4. \A e \in errors' : e[2] \in Strings
  BY <1>2, <1>3, ReportType DEF TypeOK
<1>5. <<>> \in Seq(Values) /\ Append(Top.vals, m_LastValue) \in Seq(Values)
  BY <1>1, AppendProperties
<1>6. /\ NextArgument(<<>>) \in Seq(TasksIn(ir'))
      /\ NextArgument(Append(Top.vals, m_LastValue)) \in Seq(TasksIn(ir'))
  BY <1>1, <1>5, NextArgumentType
<1>. QED
  BY <1>1, <1>3, <1>4, <1>6, FlowType

LEMMA CallEndTypes ==
    ASSUME TypeOK, CallEnd
    PROVE  TypeOK'
<1>. DEFINE inst == Inst("call", m_functions[Node.callee], Node.callee, Top.vals, <<>>)
<1>1. /\ todo # <<>> /\ Node \in AstNode /\ Node.kind = "CallExpr"
      /\ ir \in WellBuilt /\ Top.vals \in Seq(Values)
  BY TopType DEF CallEnd, Resuming, Running, OwnKind, Node
<1>2. CASE Crash
  BY <1>2, CrashType
<1>3. CASE /\ Node.callee \in DOMAIN m_functions
           /\ ir' = Build(ir, inst).ir /\ Yield(Build(ir, inst).val) /\ Finish
           /\ UNCHANGED <<module, symbols, errors, crashed>>
  <2>1. /\ m_functions[Node.callee] \in Strings /\ Node.callee \in Strings
        /\ "call" \in Strings /\ <<>> \in Seq(Nat)
    BY <1>1, <1>3, ExpressionMembers, Literals DEF TypeOK
  <2>2. inst \in Instructions
    BY <1>1, <2>1, InstType
  <2>. HIDE DEF inst
  <2>. QED
    BY <1>1, <1>3, <2>2, BuildType, YieldType
<1>. QED
  BY <1>2, <1>3 DEF CallEnd

(***************************************************************************)
(* Assignment, member access and variable declarations.                    *)
(***************************************************************************)
LEMMA AssignStoreTypes ==
    ASSUME TypeOK, AssignStore
    PROVE  TypeOK'
<1>. DEFINE slot == m_variables[Node.name].value
            store == Store(m_LastValue, slot)
<1>1. /\ todo # <<>> /\ Node \in AstNode /\ Node.kind = "AssignExpr"
      /\ ir \in WellBuilt /\ m_LastValue \in Values
  BY TopType DEF AssignStore, Resuming, Running, OwnKind, Node, TypeOK
<1>2. Node.name \in Strings /\ "none" \in Strings
  BY <1>1, ExpressionMembers, Literals
<1>3. CASE AssignError # <<>> /\ Reject(AssignError[1], AssignError[2])
  <2>1. AssignError[2] \in Strings
    BY <1>2, <1>3 DEF AssignError
  <2>. QED
    BY <1>1, <1>3, <2>1, RejectType
<1>4. CASE Crash
  BY <1>4, CrashType
<1>5. CASE /\ AssignError = <<>>
           /\ ir' = Emit(ir, store) /\ Yield(m_LastValue) /\ Finish
           /\ UNCHANGED <<module, symbols, errors, crashed>>
  <2>1. Node.name \in DOMAIN m_variables
    BY <1>5 DEF AssignError
  <2>2. slot \in Values
    BY <2>1 DEF TypeOK, VariableInfos
  <2>. HIDE DEF slot
  <2>3. store \in Instructions
    BY <1>1, <2>2, EmittedType, Literals
  <2>. HIDE DEF store
  <2>. QED
    BY <1>1, <1>5, <2>3, EmitType, YieldType
<1>. QED
  BY <1>3, <1>4, <1>5 DEF AssignStore

LEMMA MemberErrorType ==
    ASSUME TypeOK, Node \in AstNode, Node.kind = "MemberAccessExpr", MemberError # <<>>
    PROVE  MemberError[2] \in Strings
<1>1. Node.memberName \in Strings /\ Node.object \in AstNode /\ "none" \in Strings
  BY ExpressionMembers, Literals
<1>2. ObjectType.name \in Strings
  <2>1. \A x \in DOMAIN m_variables : m_variables[x].type.name \in Strings
    BY DEF TypeOK, VariableInfos, VariableTypes
  <2>. QED
    BY <1>1, <2>1 DEF ObjectType, Inferred, Plain, TypeRef
<1>. QED
  BY <1>1, <1>2 DEF MemberError

LEMMA MemberLoadTypes ==
    ASSUME TypeOK, MemberLoad
    PROVE  TypeOK'
<1>. DEFINE field == m_structTypes[ObjectType.name][Node.memberName]
            type == MapType(field.type)
            address == Inst("gep", "ptr", ObjectType.name,
                            <<m_LastValue, ConstInt("i32", field.index)>>, <<>>)
            gep == Build(ir, address)
            load == Build(gep.ir, Load(type, gep.val))
<1>1. /\ todo # <<>> /\ Node \in AstNode /\ Node.kind = "MemberAccessExpr"
      /\ ir \in WellBuilt /\ m_LastValue \in Values
  BY TopType DEF MemberLoad, Resuming, Running, OwnKind, Node, TypeOK
<1>2. CASE MemberError # <<>> /\ Reject(MemberError[1], MemberError[2])
  BY <1>1, <1>2, MemberErrorType, RejectType
<1>3. CASE Crash
  BY <1>3, CrashType
<1>4. CASE /\ MemberError = <<>> /\ ir' = load.ir /\ Yield(load.val) /\ Finish
           /\ UNCHANGED <<module, symbols, errors, crashed>>
  <2>1. /\ ObjectType.name \in DOMAIN m_structTypes
        /\ Node.memberName \in DOMAIN m_structTypes[ObjectType.name]
        /\ ObjectType.name # "none"
    BY <1>4 DEF MemberError
  <2>2. field \in FieldInfos
    BY <2>1 DEF TypeOK
  <2>3. field.index \in Int /\ field.type \in TypeRefs
    BY <2>2 DEF FieldInfos
  <2>4. type \in Strings
    BY <2>3, MapTypeType
  <2>. HIDE DEF type
  <2>5. ObjectType.name \in Strings
    <3>1. \A x \in DOMAIN m_variables : m_variables[x].type.name \in Strings
      BY DEF TypeOK, VariableInfos, VariableTypes
    <3>. QED
      BY <2>1, <3>1 DEF ObjectType, Inferred, Plain, TypeRef
  <2>6. "gep" \in Strings /\ "ptr" \in Strings /\ "i32" \in Strings
    BY Literals
  <2>7. ConstInt("i32", field.index) \in Values
    BY <2>3, <2>6, ConstantType
  <2>8. /\ <<m_LastValue, ConstInt("i32", field.index)>> \in Seq(Values)
        /\ <<>> \in Seq(Nat)
    BY <1>1, <2>7, PairSeq
  <2>. HIDE DEF field
  <2>9. address \in Instructions
    BY <2>5, <2>6, <2>8, InstType
  <2>. HIDE DEF address
  <2>10. /\ gep.ir \in WellBuilt /\ DOMAIN gep.ir.blocks = DOMAIN ir.blocks
         /\ gep.val \in Values
    BY <1>1, <2>9, BuildType
  <2>. HIDE DEF gep
  <2>11. Load(type, gep.val) \in Instructions
    BY <2>4, <2>10, EmittedType
  <2>12. /\ load.ir \in WellBuilt /\ DOMAIN load.ir.blocks = DOMAIN ir.blocks
         /\ load.val \in Values
    BY <2>10, <2>11, BuildType
  <2>. HIDE DEF load
  <2>. QED
    BY <1>1, <1>4, <2>12, YieldType
<1>. QED
  BY <1>2, <1>3, <1>4 DEF MemberLoad

\* A declaration is a step if the variable and the function are typed.
LEMMA DeclareStepType ==
    ASSUME TypeOK, todo # <<>>, ir' \in WellBuilt,
           DOMAIN ir.blocks \subseteq DOMAIN ir'.blocks,
           NEW value \in Values, Node.kind = "VariableDecl", NEW type \in VariableTypes,
           Declare(Node.name, VariableInfo(value, type, Node.isMutable)),
           Finish, UNCHANGED <<module, result, errors, crashed>>
    PROVE  TypeOK'
<1>. DEFINE info == VariableInfo(value, type, Node.isMutable)
<1>1. Node \in AstNode
  BY TopType
<1>2. Node.name \in STRING /\ Node.isMutable \in BOOLEAN
  BY <1>1, StatementMembers
<1>3. info \in VariableInfos
  BY <1>2, NewVariableType
<1>. HIDE DEF info
<1>4. Declare(Node.name, info)
  BY DEF info
<1>5. /\ m_variables' \in [DOMAIN m_variables' -> VariableInfos]
      /\ m_currentFunctionVariables' \subseteq STRING
      /\ slots' \subseteq Values \X AstNode
  BY <1>1, <1>2, <1>3, <1>4, DeclareType
<1>6. <<>> \in Seq(TasksIn(ir')) /\ Proceed(<<>>)
  BY DEF Finish
<1>7. UNCHANGED <<m_LastValue, valueOf>>
  BY DEF result
<1>. QED
  BY <1>5, <1>6, <1>7, StepType DEF TypeOK

LEMMA VariableDeclTypes ==
    ASSUME TypeOK, VisitVariableDecl
    PROVE  TypeOK'
<1>. DEFINE type == MapType(Node.varType)
            slot == Build(ir, Alloca(type))
            rest == Task("ExplicitInit", Node, <<slot.val>>, <<>>)
            infer == Task("InferredInit", Node, <<>>, <<>>)
<1>1. /\ todo # <<>> /\ Node \in AstNode /\ Node.kind = "VariableDecl" /\ ir \in WellBuilt
  BY TopType DEF VisitVariableDecl, Visiting, Running
<1>2. /\ Node.name \in Strings /\ Node.varType \in TypeRefs
      /\ Node.varType \in VariableTypes /\ Node.initializer \in AstNode
  BY <1>1, StatementMembers, Literals, TypeRefsType
<1>3. type \in Strings
  BY <1>2, MapTypeType
<1>4. /\ slot.ir \in WellBuilt /\ DOMAIN slot.ir.blocks = DOMAIN ir.blocks
      /\ slot.val \in Values
  <2>. HIDE DEF type
  <2>1. NoValue \in Values
    BY ConstantType
  <2>2. Alloca(type) \in Instructions
    BY <1>3, <2>1, EmittedType
  <2>. QED
    BY <1>1, <2>2, BuildType
<1>5. CASE Reject("Variable must be initialized", Node.name)
  BY <1>1, <1>2, <1>5, RejectType
<1>6. CASE /\ Proceed(<<Visit(Node.initializer), infer>>)
           /\ UNCHANGED <<module, symbols, result, ir, errors, crashed>>
  <2>1. infer \in TasksIn(ir')
    BY <1>1, PlainRest
  <2>. HIDE DEF infer
  <2>2. <<Visit(Node.initializer), infer>> \in Seq(TasksIn(ir'))
    BY <1>2, <2>1, VisitType, PairSeq
  <2>. QED
    BY <1>1, <1>6, <2>2, FlowType DEF TypeOK
<1>7. CASE Crash
  BY <1>7, CrashType
<1>8. CASE /\ ir' = slot.ir
           /\ Proceed(<<Visit(Node.initializer), rest>>)
           /\ UNCHANGED <<module, symbols, result, errors, crashed>>
  <2>. HIDE DEF slot
  <2>1. <<slot.val>> \in Seq(Values) /\ Len(<<slot.val>>) = 1
    BY <1>4
  <2>2. rest \in TasksIn(ir')
    BY <1>1, <2>1, ValueRest
  <2>. HIDE DEF rest
  <2>3. <<Visit(Node.initializer), rest>> \in Seq(TasksIn(ir'))
    BY <1>2, <2>2, VisitType, PairSeq
  <2>. QED
    BY <1>1, <1>4, <1>8, <2>3, FlowType DEF TypeOK
<1>9. CASE /\ ir' = slot.ir
           /\ Declare(Node.name, VariableInfo(slot.val, Node.varType, Node.isMutable))
           /\ Finish
           /\ UNCHANGED <<module, result, errors, crashed>>
  <2>. HIDE DEF slot
  <2>. QED
    BY <1>1, <1>2, <1>4, <1>9, DeclareStepType
<1>. QED
  BY <1>5, <1>6, <1>7, <1>8, <1>9 DEF VisitVariableDecl, Then, ThenWith

LEMMA InferredInitTypes ==
    ASSUME TypeOK, InferredInit
    PROVE  TypeOK'
<1>. DEFINE slot == Build(ir, Alloca(m_LastValue.type))
            store == Store(m_LastValue, slot.val)
            type == InferTypeRef(m_LastValue.type)
<1>1. /\ todo # <<>> /\ Node \in AstNode /\ Node.kind = "VariableDecl"
      /\ ir \in WellBuilt /\ m_LastValue \in Values
  BY TopType DEF InferredInit, Resuming, Running, OwnKind, Node, TypeOK
<1>2. Node.name \in Strings
  BY <1>1, StatementMembers, Literals
<1>3. CASE Reject("Invalid initializer", Node.name)
  BY <1>1, <1>2, <1>3, RejectType
<1>4. CASE Crash
  BY <1>4, CrashType
<1>5. CASE /\ ir' = Emit(slot.ir, store)
           /\ Declare(Node.name, VariableInfo(slot.val, type, Node.isMutable))
           /\ Finish
           /\ UNCHANGED <<module, result, errors, crashed>>
  <2>1. m_LastValue.type \in Strings
    BY <1>1 DEF Values
  <2>2. Alloca(m_LastValue.type) \in Instructions
    BY <1>1, <2>1, EmittedType
  <2>3. /\ slot.ir \in WellBuilt /\ DOMAIN slot.ir.blocks = DOMAIN ir.blocks
        /\ slot.val \in Values
    BY <1>1, <2>2, BuildType
  <2>. HIDE DEF slot
  <2>4. store \in Instructions
    BY <1>1, <2>1, <2>3, EmittedType
  <2>. HIDE DEF store
  <2>5. ir' \in WellBuilt /\ DOMAIN ir'.blocks = DOMAIN ir.blocks
    BY <1>5, <2>3, <2>4, EmitType
  <2>6. type \in VariableTypes
    BY <2>1, InferTypeRefType
  <2>. HIDE DEF type
  <2>. QED
    BY <1>1, <1>5, <2>3, <2>5, <2>6, DeclareStepType
<1>. QED
  BY <1>3, <1>4, <1>5 DEF InferredInit

LEMMA ExplicitInitTypes ==
    ASSUME TypeOK, ExplicitInit
    PROVE  TypeOK'
<1>. DEFINE slot == Top.vals[1]
            store == Store(m_LastValue, slot)
<1>1. /\ todo # <<>> /\ Node \in AstNode /\ Node.kind = "VariableDecl"
      /\ ir \in WellBuilt /\ m_LastValue \in Values
      /\ Top.vals \in Seq(Values) /\ Len(Top.vals) = 1
  BY TopType DEF ExplicitInit, Resuming, Running, OwnKind, OwnLocals, Node, TypeOK
<1>2. Node.name \in Strings /\ Node.varType \in VariableTypes
  BY <1>1, StatementMembers, Literals, TypeRefsType
<1>3. slot \in Values
  BY <1>1
<1>4. CASE Reject("Cannot assign null to non-nullable pointer", Node.name)
  BY <1>1, <1>2, <1>4, RejectType
<1>5. CASE Crash
  BY <1>5, CrashType
<1>6. CASE /\ ir' = IF m_LastValue = NoValue THEN ir ELSE Emit(ir, store)
           /\ Declare(Node.name, VariableInfo(slot, Node.varType, Node.isMutable))
           /\ Finish
           /\ UNCHANGED <<module, result, errors, crashed>>
  <2>. HIDE DEF slot
  <2>1. store \in Instructions
    BY <1>1, <1>3, EmittedType, Literals
  <2>. HIDE DEF store
  <2>2. ir' \in WellBuilt /\ DOMAIN ir'.blocks = DOMAIN ir.blocks
    BY <1>1, <1>6, <2>1, EmitType
  <2>. QED
    BY <1>1, <1>2, <1>3, <1>6, <2>2, DeclareStepType
<1>. QED
  BY <1>4, <1>5, <1>6 DEF ExplicitInit

(***************************************************************************)
(* Statements.                                                             *)
(***************************************************************************)
\* Two agendas one after the other.
LEMMA AgendaConcat ==
    ASSUME NEW g, NEW s \in Seq(TasksIn(g)), NEW t \in TasksIn(g)
    PROVE  s \o <<t>> \in Seq(TasksIn(g))
BY ConcatProperties

LEMMA DescendTypes ==
    ASSUME TypeOK,
           \/ VisitBinaryExpr \/ VisitUnaryExpr \/ VisitCastExpr \/ VisitAssignExpr
           \/ VisitMemberAccessExpr \/ VisitExprStatement \/ VisitIfStatement
    PROVE  TypeOK'
<1>1. ASSUME NEW kind, Visiting(kind)
      PROVE  Node \in AstNode /\ Node.kind = kind
  BY <1>1, TopType DEF Visiting, Running
<1>2. ASSUME NEW do, NEW n \in AstNode, Task(do, Node, <<>>, <<>>) \in TasksIn(ir)
      PROVE  <<Visit(n), Then(do)>> \in Seq(TasksIn(ir))
  BY <1>2, VisitType, PairSeq DEF Then
<1>3. CASE VisitBinaryExpr
  <2>. DEFINE do == IF Node.op \in {"&&", "||"} THEN "ShortLeft" ELSE "BinLeft"
  <2>1. Node \in AstNode /\ Node.kind = "BinaryExpr"
    BY <1>1, <1>3 DEF VisitBinaryExpr, Descend
  <2>2. Task(do, Node, <<>>, <<>>) \in TasksIn(ir)
    BY <2>1, PlainRest
  <2>3. Descend("BinaryExpr", <<Visit(Node.left), Then(do)>>)
    BY <1>3 DEF VisitBinaryExpr
  <2>. HIDE DEF do
  <2>4. <<Visit(Node.left), Then(do)>> \in Seq(TasksIn(ir))
    BY <1>2, <2>1, <2>2, ExpressionMembers
  <2>. QED
    BY <2>3, <2>4, DescendType
<1>4. CASE VisitUnaryExpr
  <2>1. Node \in AstNode /\ Node.kind = "UnaryExpr"
    BY <1>1, <1>4 DEF VisitUnaryExpr, Descend
  <2>2. Task("UnaryOp", Node, <<>>, <<>>) \in TasksIn(ir)
    BY <2>1, PlainRest
  <2>3. <<Visit(Node.operand), Then("UnaryOp")>> \in Seq(TasksIn(ir))
    BY <1>2, <2>1, <2>2, ExpressionMembers
  <2>. QED
    BY <1>4, <2>3, DescendType DEF VisitUnaryExpr
<1>5. CASE VisitCastExpr
  <2>1. Node \in AstNode /\ Node.kind = "CastExpr"
    BY <1>1, <1>5 DEF VisitCastExpr, Descend
  <2>2. Task("CastOp", Node, <<>>, <<>>) \in TasksIn(ir)
    BY <2>1, PlainRest
  <2>3. <<Visit(Node.expr), Then("CastOp")>> \in Seq(TasksIn(ir))
    BY <1>2, <2>1, <2>2, ExpressionMembers
  <2>. QED
    BY <1>5, <2>3, DescendType DEF VisitCastExpr
<1>6. CASE VisitAssignExpr
  <2>1. Node \in AstNode /\ Node.kind = "AssignExpr"
    BY <1>1, <1>6 DEF VisitAssignExpr, Descend
  <2>2. Task("AssignStore", Node, <<>>, <<>>) \in TasksIn(ir)
    BY <2>1, PlainRest
  <2>3. <<Visit(Node.value), Then("AssignStore")>> \in Seq(TasksIn(ir))
    BY <1>2, <2>1, <2>2, ExpressionMembers
  <2>. QED
    BY <1>6, <2>3, DescendType DEF VisitAssignExpr
<1>7. CASE VisitMemberAccessExpr
  <2>1. Node \in AstNode /\ Node.kind = "MemberAccessExpr"
    BY <1>1, <1>7 DEF VisitMemberAccessExpr, Descend
  <2>2. Task("MemberLoad", Node, <<>>, <<>>) \in TasksIn(ir)
    BY <2>1, PlainRest
  <2>3. <<Visit(Node.object), Then("MemberLoad")>> \in Seq(TasksIn(ir))
    BY <1>2, <2>1, <2>2, ExpressionMembers
  <2>. QED
    BY <1>7, <2>3, DescendType DEF VisitMemberAccessExpr
<1>8. CASE VisitExprStatement
  <2>1. Node \in AstNode /\ Node.kind = "ExprStatement"
    BY <1>1, <1>8 DEF VisitExprStatement, Descend
  <2>2. IfPresent(Node.expression) \in Seq(TasksIn(ir))
    BY <2>1, StatementMembers, VisitType
  <2>. QED
    BY <1>8, <2>2, DescendType DEF VisitExprStatement
<1>9. CASE VisitIfStatement
  <2>1. Node \in AstNode /\ Node.kind = "IfStatement"
    BY <1>1, <1>9 DEF VisitIfStatement, Descend
  <2>2. Task("IfCond", Node, <<>>, <<>>) \in TasksIn(ir)
    BY <2>1, PlainRest
  <2>3. <<Visit(Node.condition), Then("IfCond")>> \in Seq(TasksIn(ir))
    BY <1>2, <2>1, <2>2, StatementMembers
  <2>. QED
    BY <1>9, <2>3, DescendType DEF VisitIfStatement
<1>. QED
  BY <1>3, <1>4, <1>5, <1>6, <1>7, <1>8, <1>9

LEMMA BlockTypes ==
    ASSUME TypeOK, VisitNull \/ VisitBlockStatement \/ Statement
    PROVE  TypeOK'
<1>1. CASE VisitNull
  BY <1>1, CrashType DEF VisitNull
<1>2. CASE VisitBlockStatement
  <2>. DEFINE tasks == [k \in DOMAIN Node.statements |->
                           Task("Statement", Node.statements[k], <<>>, <<>>)]
  <2>1. Node \in AstNode /\ Node.kind = "BlockStatement"
    BY <1>2, TopType DEF VisitBlockStatement, Descend, Visiting, Running
  <2>2. Node.statements \in Seq(AstNode)
    BY <2>1, StatementMembers
  <2>3. ASSUME NEW k \in DOMAIN Node.statements
        PROVE  Task("Statement", Node.statements[k], <<>>, <<>>) \in TasksIn(ir)
    <3>1. Node.statements[k] \in AstNode
      BY <2>2
    <3>. QED
      BY <3>1, VisitType
  <2>4. DOMAIN Node.statements = 1..Len(Node.statements) /\ Len(Node.statements) \in Nat
    BY <2>2, LenProperties
  <2>5. tasks \in Seq(TasksIn(ir))
    BY <2>3, <2>4
  <2>6. Descend("BlockStatement", tasks)
    BY <1>2 DEF VisitBlockStatement
  <2>. HIDE DEF tasks
  <2>. QED
    BY <2>5, <2>6, DescendType
<1>3. CASE Statement
  <2>1. todo # <<>> /\ Node \in AstNode /\ ir \in WellBuilt
    BY <1>3, TopType DEF Statement, Resuming, Running
  <2>2. /\ Proceed(IfPresent(Node))
        /\ UNCHANGED <<module, symbols, result, ir, errors, crashed>>
    BY <1>3 DEF Statement
  <2>3. IfPresent(Node) \in Seq(TasksIn(ir'))
    BY <2>1, VisitType
  <2>. QED
    BY <2>1, <2>2, <2>3, FlowType DEF TypeOK
<1>. QED
  BY <1>1, <1>2, <1>3

\* A step that emits an instruction and is over.
LEMMA EmitStepType ==
    ASSUME TypeOK, todo # <<>>, NEW inst \in Instructions, ir' = Emit(ir, inst),
           Finish, UNCHANGED <<module, symbols, result, errors, crashed>>
    PROVE  TypeOK'
<1>1. ir \in WellBuilt
  BY TopType
<1>2. ir' \in WellBuilt /\ DOMAIN ir'.blocks = DOMAIN ir.blocks
  BY <1>1, EmitType
<1>3. <<>> \in Seq(TasksIn(ir')) /\ Proceed(<<>>)
  BY DEF Finish
<1>. QED
  BY <1>2, <1>3, FlowType DEF TypeOK

\* A step that moves the insert point along a branch.
LEMMA LeaveStepType ==
    ASSUME TypeOK, todo # <<>>, NEW g \in WellBuilt,
           DOMAIN ir.blocks \subseteq DOMAIN g.blocks,
           NEW branch \in Instructions, NEW b \in DOMAIN g.blocks,
           ir' = Leave(g, branch, b), NEW tasks \in Seq(TasksIn(ir')),
           Proceed(tasks), UNCHANGED <<module, symbols, result, errors, crashed>>
    PROVE  TypeOK'
<1>1. ir' \in WellBuilt /\ DOMAIN ir'.blocks = DOMAIN g.blocks
  BY LeaveType
<1>. QED
  BY <1>1, FlowType DEF TypeOK

LEMMA ReturnTypes ==
    ASSUME TypeOK, VisitReturnStatement \/ ReturnValue
    PROVE  TypeOK'
<1>1. todo # <<>> /\ Node \in AstNode /\ Node.kind = "ReturnStatement"
      /\ ir \in WellBuilt /\ m_LastValue \in Values
  BY TopType DEF VisitReturnStatement, ReturnValue, Visiting, Resuming, Running,
                 OwnKind, Node, TypeOK
<1>2. RetVoid \in Instructions /\ Ret(m_LastValue) \in Instructions
  BY <1>1, ConstantType, EmittedType, Literals DEF RetVoid
<1>. DEFINE rest == Task("ReturnValue", Node, <<>>, <<>>)
<1>3. CASE /\ Proceed(<<Visit(Node.value), rest>>) /\ UNCHANGED ir
           /\ UNCHANGED <<module, symbols, result, errors, crashed>>
  <2>1. Node.value \in AstNode
    BY <1>1, StatementMembers
  <2>2. rest \in TasksIn(ir')
    BY <1>1, PlainRest
  <2>. HIDE DEF rest
  <2>3. <<Visit(Node.value), rest>> \in Seq(TasksIn(ir'))
    BY <2>1, <2>2, VisitType, PairSeq
  <2>. QED
    BY <1>1, <1>3, <2>3, FlowType DEF TypeOK
<1>4. CASE /\ ir' = Emit(ir, RetVoid) \/ ir' = Emit(ir, Ret(m_LastValue))
           /\ Finish
           /\ UNCHANGED <<module, symbols, result, errors, crashed>>
  BY <1>1, <1>2, <1>4, EmitStepType
<1>. QED
  BY <1>3, <1>4 DEF VisitReturnStatement, ReturnValue, Then

LEMMA IfTypes ==
    ASSUME TypeOK, IfElse \/ IfMerge
    PROVE  TypeOK'
<1>1. CASE IfElse
  <2>. DEFINE else == Top.blks[1]
              merge == Top.blks[2]
              rest == Task("IfMerge", Node, <<>>, <<merge>>)
  <2>1. /\ todo # <<>> /\ Node \in AstNode /\ Node.kind = "IfStatement"
        /\ ir \in WellBuilt
        /\ Top.blks \in Seq(DOMAIN ir.blocks) /\ Len(Top.blks) = 2
    BY <1>1, TopType DEF IfElse, Resuming, Running, OwnKind, OwnLocals, Node
  <2>2. /\ ir' = Leave(ir, Br(merge), else)
        /\ Proceed(IfPresent(Node.elseBranch) \o <<rest>>)
        /\ UNCHANGED <<module, symbols, result, errors, crashed>>
    BY <1>1 DEF IfElse, ThenAt
  <2>3. /\ else \in DOMAIN ir.blocks /\ merge \in DOMAIN ir.blocks
        /\ DOMAIN ir.blocks \subseteq Nat
    BY <2>1 DEF WellBuilt, Functions
  <2>. HIDE DEF else, merge
  <2>4. Br(merge) \in Instructions
    BY <2>3, ConstantType, EmittedType, Literals
  <2>5. DOMAIN ir'.blocks = DOMAIN ir.blocks
    BY <2>1, <2>2, <2>3, <2>4, LeaveType
  <2>6. <<merge>> \in Seq(DOMAIN ir'.blocks) /\ Len(<<merge>>) = 1
    BY <2>3, <2>5, PairSeq
  <2>7. rest \in TasksIn(ir')
    BY <2>1, <2>6, BlockRest
  <2>. HIDE DEF rest
  <2>8. Node.elseBranch \in AstNode
    BY <2>1, StatementMembers
  <2>9. IfPresent(Node.elseBranch) \o <<rest>> \in Seq(TasksIn(ir'))
    BY <2>7, <2>8, VisitType, AgendaConcat
  <2>. QED
    BY <2>1, <2>2, <2>3, <2>4, <2>9, LeaveStepType
<1>2. CASE IfMerge
  <2>. DEFINE merge == Top.blks[1]
  <2>1. /\ todo # <<>> /\ ir \in WellBuilt
        /\ Top.blks \in Seq(DOMAIN ir.blocks) /\ Len(Top.blks) = 1
    BY <1>2, TopType DEF IfMerge, Resuming, Running, OwnLocals
  <2>2. /\ ir' = Leave(ir, Br(merge), merge) /\ Proceed(<<>>)
        /\ UNCHANGED <<module, symbols, result, errors, crashed>>
    BY <1>2 DEF IfMerge, Finish
  <2>3. merge \in DOMAIN ir.blocks /\ DOMAIN ir.blocks \subseteq Nat
    BY <2>1 DEF WellBuilt, Functions
  <2>. HIDE DEF merge
  <2>4. Br(merge) \in Instructions
    BY <2>3, ConstantType, EmittedType, Literals
  <2>5. <<>> \in Seq(TasksIn(ir'))
    OBVIOUS
  <2>. QED
    BY <2>1, <2>2, <2>3, <2>4, <2>5, LeaveStepType
<1>. QED
  BY <1>1, <1>2

LEMMA IfCondTypes ==
    ASSUME TypeOK, IfCond
    PROVE  TypeOK'
<1>. DEFINE cond == CondBool(ir, m_LastValue)
            then == Len(ir.blocks) + 1
            else == Len(ir.blocks) + 2
            merge == Len(ir.blocks) + 3
            added == AddBlocks(cond.ir, 3)
            branch == CondBr(cond.val, then, else)
            rest == Task("IfElse", Node, <<>>, <<else, merge>>)
<1>1. /\ todo # <<>> /\ Node \in AstNode /\ Node.kind = "IfStatement"
      /\ ir \in WellBuilt /\ m_LastValue \in Values
  BY TopType DEF IfCond, Resuming, Running, OwnKind, Node, TypeOK
<1>2. CASE Reject("Invalid condition in if statement", "none")
  BY <1>1, <1>2, RejectType, Literals
<1>3. CASE /\ ir' = Leave(added, branch, then)
           /\ Proceed(<<Visit(Node.thenBranch), rest>>)
           /\ UNCHANGED <<module, symbols, result, errors, crashed>>
  <2>1. /\ cond.ir \in WellBuilt /\ DOMAIN cond.ir.blocks = DOMAIN ir.blocks
        /\ cond.val \in Values
    BY <1>1, CondBoolType
  <2>. HIDE DEF cond
  <2>2. Len(cond.ir.blocks) = Len(ir.blocks) /\ Len(ir.blocks) \in Nat
    BY <1>1, <2>1, LenProperties DEF WellBuilt, Functions
  <2>3. /\ added \in WellBuilt /\ DOMAIN ir.blocks \subseteq DOMAIN added.blocks
        /\ then \in DOMAIN added.blocks /\ else \in DOMAIN added.blocks
        /\ merge \in DOMAIN added.blocks
    <3>1. /\ added \in WellBuilt /\ DOMAIN cond.ir.blocks \subseteq DOMAIN added.blocks
          /\ \A k \in 1..3 : Len(cond.ir.blocks) + k \in DOMAIN added.blocks
      BY <2>1, AddBlocksType
    <3>2. 1 \in 1..3 /\ 2 \in 1..3 /\ 3 \in 1..3
      OBVIOUS
    <3>. QED
      BY <2>1, <2>2, <3>1, <3>2
  <2>4. then \in Nat /\ else \in Nat
    BY <2>2
  <2>. HIDE DEF then, else, merge, added
  <2>5. branch \in Instructions
    BY <2>1, <2>4, EmittedType, Literals
  <2>. HIDE DEF branch
  <2>6. DOMAIN ir'.blocks = DOMAIN added.blocks
    BY <1>3, <2>3, <2>5, LeaveType
  <2>7. <<else, merge>> \in Seq(DOMAIN ir'.blocks) /\ Len(<<else, merge>>) = 2
    BY <2>3, <2>6, PairSeq
  <2>8. rest \in TasksIn(ir')
    BY <1>1, <2>7, BlockRest
  <2>. HIDE DEF rest
  <2>9. <<Visit(Node.thenBranch), rest>> \in Seq(TasksIn(ir'))
    BY <1>1, <2>8, StatementMembers, VisitType, PairSeq
  <2>. QED
    BY <1>1, <1>3, <2>3, <2>5, <2>9, LeaveStepType
<1>. QED
  BY <1>2, <1>3 DEF IfCond, ThenAt

\* The blocks that the rest of a handler holds are blocks of the function.
LEMMA HeldBlocks ==
    ASSUME ir \in WellBuilt, NEW blks \in Seq(DOMAIN ir.blocks)
    PROVE  /\ \A k \in 1..Len(blks) : blks[k] \in DOMAIN ir.blocks
           /\ DOMAIN ir.blocks \subseteq Nat
BY DEF WellBuilt, Functions

(***************************************************************************)
(* Loops.                                                                  *)
(***************************************************************************)
\* The first step of a rolled loop: n blocks are added, and the builder moves
\* to the first of them.
LEMMA LoopEntry ==
    ASSUME ir \in WellBuilt, NEW n \in Nat, n >= 1,
           NEW g, g = Leave(AddBlocks(ir, n), Br(Len(ir.blocks) + 1), Len(ir.blocks) + 1)
    PROVE  /\ AddBlocks(ir, n) \in WellBuilt
           /\ DOMAIN ir.blocks \subseteq DOMAIN AddBlocks(ir, n).blocks
           /\ Br(Len(ir.blocks) + 1) \in Instructions
           /\ Len(ir.blocks) + 1 \in DOMAIN AddBlocks(ir, n).blocks
           /\ \A k \in 1..n : Len(ir.blocks) + k \in DOMAIN g.blocks
           /\ Len(ir.blocks) \in Nat
<1>1. /\ AddBlocks(ir, n) \in WellBuilt
      /\ DOMAIN ir.blocks \subseteq DOMAIN AddBlocks(ir, n).blocks
      /\ \A k \in 1..n : Len(ir.blocks) + k \in DOMAIN AddBlocks(ir, n).blocks
  BY AddBlocksType
<1>2. Len(ir.blocks) \in Nat /\ Len(ir.blocks) + 1 \in Nat
  BY LenProperties DEF WellBuilt, Functions
<1>3. Len(ir.blocks) + 1 \in DOMAIN AddBlocks(ir, n).blocks
  <2>1. 1 \in 1..n
    OBVIOUS
  <2>. QED
    BY <1>1, <2>1
<1>4. Br(Len(ir.blocks) + 1) \in Instructions
  BY <1>2, ConstantType, EmittedType, Literals
<1>. QED
  BY <1>1, <1>2, <1>3, <1>4, LeaveType

LEMMA WhileVisitTypes ==
    ASSUME TypeOK, VisitWhileStatement
    PROVE  TypeOK'
<1>. DEFINE cond == Len(ir.blocks) + 1
            added == AddBlocks(ir, 3)
            blks == <<cond, cond + 1, cond + 2>>
            rest == Task("WhileCond", Node, <<>>, blks)
<1>1. /\ todo # <<>> /\ Node \in AstNode /\ Node.kind = "WhileStatement" /\ ir \in WellBuilt
  BY TopType DEF VisitWhileStatement, Visiting, Running
<1>2. /\ ir' = Leave(added, Br(cond), cond)
      /\ Proceed(<<Visit(Node.condition), rest>>)
      /\ UNCHANGED <<module, symbols, result, errors, crashed>>
  BY DEF VisitWhileStatement, ThenAt
<1>3. /\ added \in WellBuilt /\ DOMAIN ir.blocks \subseteq DOMAIN added.blocks
      /\ Br(cond) \in Instructions /\ cond \in DOMAIN added.blocks
      /\ \A k \in 1..3 : Len(ir.blocks) + k \in DOMAIN ir'.blocks
      /\ Len(ir.blocks) \in Nat
  BY <1>1, <1>2, LoopEntry
<1>4. blks \in Seq(DOMAIN ir'.blocks) /\ Len(blks) = 3
  <2>1. /\ cond \in DOMAIN ir'.blocks /\ cond + 1 \in DOMAIN ir'.blocks
        /\ cond + 2 \in DOMAIN ir'.blocks
    <3>1. cond = Len(ir.blocks) + 1 /\ cond + 1 = Len(ir.blocks) + 2
          /\ cond + 2 = Len(ir.blocks) + 3
      BY <1>3
    <3>2. 1 \in 1..3 /\ 2 \in 1..3 /\ 3 \in 1..3
      OBVIOUS
    <3>. QED
      BY <1>3, <3>1, <3>2
  <2>. HIDE DEF cond
  <2>. QED
    BY <2>1, LongerSeq
<1>. HIDE DEF blks, added
<1>5. rest \in TasksIn(ir')
  BY <1>1, <1>4, BlockRest
<1>. HIDE DEF rest
<1>6. <<Visit(Node.condition), rest>> \in Seq(TasksIn(ir'))
  BY <1>1, <1>5, StatementMembers, VisitType, PairSeq
<1>. QED
  BY <1>1, <1>2, <1>3, <1>6, LeaveStepType

LEMMA WhileCondTypes ==
    ASSUME TypeOK, WhileCond
    PROVE  TypeOK'
<1>. DEFINE cond == CondBool(ir, m_LastValue)
            body == Top.blks[2]
            exit == Top.blks[3]
            branch == CondBr(cond.val, body, exit)
            rest == Task("WhileEnd", Node, <<>>, Top.blks)
<1>1. /\ todo # <<>> /\ Node \in AstNode /\ Node.kind = "WhileStatement"
      /\ ir \in WellBuilt /\ m_LastValue \in Values
      /\ Top.blks \in Seq(DOMAIN ir.blocks) /\ Len(Top.blks) = 3
  BY TopType DEF WhileCond, Resuming, Running, OwnKind, OwnLocals, Node, TypeOK
<1>2. CASE Reject("Invalid condition in while statement", "none")
  BY <1>1, <1>2, RejectType, Literals
<1>3. CASE /\ ir' = Leave(cond.ir, branch, body)
           /\ Proceed(<<Visit(Node.body), rest>>)
           /\ UNCHANGED <<module, symbols, result, errors, crashed>>
  <2>1. /\ cond.ir \in WellBuilt /\ DOMAIN cond.ir.blocks = DOMAIN ir.blocks
        /\ cond.val \in Values
    BY <1>1, CondBoolType
  <2>. HIDE DEF cond
  <2>2. body \in DOMAIN ir.blocks /\ exit \in DOMAIN ir.blocks /\ DOMAIN ir.blocks \subseteq Nat
    BY <1>1, HeldBlocks
  <2>. HIDE DEF body, exit
  <2>3. branch \in Instructions
    BY <2>1, <2>2, EmittedType, Literals
  <2>. HIDE DEF branch
  <2>4. DOMAIN ir'.blocks = DOMAIN ir.blocks
    BY <1>3, <2>1, <2>2, <2>3, LeaveType
  <2>5. rest \in TasksIn(ir')
    BY <1>1, <2>4, BlockRest
  <2>. HIDE DEF rest
  <2>6. <<Visit(Node.body), rest>> \in Seq(TasksIn(ir'))
    BY <1>1, <2>5, StatementMembers, VisitType, PairSeq
  <2>. QED
    BY <1>1, <1>3, <2>1, <2>2, <2>3, <2>6, LeaveStepType
<1>. QED
  BY <1>2, <1>3 DEF WhileCond, ThenAt

\* The end of a loop: a branch back, and on to the exit.
LEMMA LoopEndTypes ==
    ASSUME TypeOK, WhileEnd \/ ForEnd
    PROVE  TypeOK'
<1>1. PICK exit \in {3, 4} :
          /\ ir' = Leave(ir, Br(Top.blks[1]), Top.blks[exit])
          /\ Len(Top.blks) = exit
          /\ todo # <<>> /\ Proceed(<<>>)
          /\ UNCHANGED <<module, symbols, result, errors, crashed>>
  BY TopType DEF WhileEnd, ForEnd, Resuming, Running, OwnLocals, Finish
<1>2. ir \in WellBuilt /\ Top.blks \in Seq(DOMAIN ir.blocks)
  BY <1>1, TopType
<1>3. /\ Top.blks[1] \in DOMAIN ir.blocks /\ Top.blks[exit] \in DOMAIN ir.blocks
      /\ DOMAIN ir.blocks \subseteq Nat
  BY <1>1, <1>2, HeldBlocks
<1>4. Br(Top.blks[1]) \in Instructions
  BY <1>3, ConstantType, EmittedType, Literals
<1>5. <<>> \in Seq(TasksIn(ir'))
  OBVIOUS
<1>. QED
  BY <1>1, <1>2, <1>3, <1>4, <1>5, LeaveStepType

LEMMA ForBlocksTypes ==
    ASSUME TypeOK, ForBlocks
    PROVE  TypeOK'
<1>. DEFINE cond == Len(ir.blocks) + 1
            added == AddBlocks(ir, 4)
            blks == <<cond, cond + 1, cond + 2, cond + 3>>
            rest == Task("ForCond", Node, <<>>, blks)
<1>1. /\ todo # <<>> /\ Node \in AstNode /\ Node.kind = "ForStatement" /\ ir \in WellBuilt
  BY TopType DEF ForBlocks, Resuming, Running, OwnKind, Node
<1>2. /\ ir' = Leave(added, Br(cond), cond)
      /\ Proceed(IfPresent(Node.condition) \o <<rest>>)
      /\ UNCHANGED <<module, symbols, result, errors, crashed>>
  BY DEF ForBlocks, ThenAt
<1>3. /\ added \in WellBuilt /\ DOMAIN ir.blocks \subseteq DOMAIN added.blocks
      /\ Br(cond) \in Instructions /\ cond \in DOMAIN added.blocks
      /\ \A k \in 1..4 : Len(ir.blocks) + k \in DOMAIN ir'.blocks
      /\ Len(ir.blocks) \in Nat
  BY <1>1, <1>2, LoopEntry
<1>4. blks \in Seq(DOMAIN ir'.blocks) /\ Len(blks) = 4
  <2>1. /\ cond \in DOMAIN ir'.blocks /\ cond + 1 \in DOMAIN ir'.blocks
        /\ cond + 2 \in DOMAIN ir'.blocks /\ cond + 3 \in DOMAIN ir'.blocks
    <3>1. cond = Len(ir.blocks) + 1 /\ cond + 1 = Len(ir.blocks) + 2
          /\ cond + 2 = Len(ir.blocks) + 3 /\ cond + 3 = Len(ir.blocks) + 4
      BY <1>3
    <3>2. 1 \in 1..4 /\ 2 \in 1..4 /\ 3 \in 1..4 /\ 4 \in 1..4
      OBVIOUS
    <3>. QED
      BY <1>3, <3>1, <3>2
  <2>. HIDE DEF cond
  <2>. QED
    BY <2>1, LongerSeq
<1>. HIDE DEF blks, added
<1>5. rest \in TasksIn(ir')
  BY <1>1, <1>4, BlockRest
<1>. HIDE DEF rest
<1>6. IfPresent(Node.condition) \o <<rest>> \in Seq(TasksIn(ir'))
  BY <1>1, <1>5, StatementMembers, VisitType, AgendaConcat
<1>. QED
  BY <1>1, <1>2, <1>3, <1>6, LeaveStepType

LEMMA ForCondTypes ==
    ASSUME TypeOK, ForCond
    PROVE  TypeOK'
<1>. DEFINE cond == CondBool(ir, m_LastValue)
            body == Top.blks[2]
            exit == Top.blks[4]
            branch == CondBr(cond.val, body, exit)
            rest == Task("ForUpdate", Node, <<>>, Top.blks)
<1>1. /\ todo # <<>> /\ Node \in AstNode /\ Node.kind = "ForStatement"
      /\ ir \in WellBuilt /\ m_LastValue \in Values
      /\ Top.blks \in Seq(DOMAIN ir.blocks) /\ Len(Top.blks) = 4
  BY TopType DEF ForCond, Resuming, Running, OwnKind, OwnLocals, Node, TypeOK
<1>2. CASE Reject("Invalid condition in for statement", "none")
  BY <1>1, <1>2, RejectType, Literals
<1>3. CASE /\ \/ ir' = Leave(ir, Br(body), body)
              \/ ir' = Leave(cond.ir, branch, body)
           /\ Proceed(<<Visit(Node.body), rest>>)
           /\ UNCHANGED <<module, symbols, result, errors, crashed>>
  <2>1. /\ cond.ir \in WellBuilt /\ DOMAIN cond.ir.blocks = DOMAIN ir.blocks
        /\ cond.val \in Values
    BY <1>1, CondBoolType
  <2>. HIDE DEF cond
  <2>2. body \in DOMAIN ir.blocks /\ exit \in DOMAIN ir.blocks /\ DOMAIN ir.blocks \subseteq Nat
    BY <1>1, HeldBlocks
  <2>. HIDE DEF body, exit
  <2>3. branch \in Instructions /\ Br(body) \in Instructions
    BY <2>1, <2>2, EmittedType, Literals
  <2>. HIDE DEF branch
  <2>4. DOMAIN ir'.blocks = DOMAIN ir.blocks
    BY <1>1, <1>3, <2>1, <2>2, <2>3, LeaveType
  <2>5. rest \in TasksIn(ir')
    BY <1>1, <2>4, BlockRest
  <2>. HIDE DEF rest
  <2>6. <<Visit(Node.body), rest>> \in Seq(TasksIn(ir'))
    BY <1>1, <2>5, StatementMembers, VisitType, PairSeq
  <2>. QED
    BY <1>1, <1>3, <2>1, <2>2, <2>3, <2>6, LeaveStepType
<1>. QED
  BY <1>2, <1>3 DEF ForCond, ThenAt

LEMMA ForUpdateTypes ==
    ASSUME TypeOK, ForUpdate
    PROVE  TypeOK'
<1>. DEFINE update == Top.blks[3]
            rest == Task("ForEnd", Node, <<>>, Top.blks)
<1>1. /\ todo # <<>> /\ Node \in AstNode /\ Node.kind = "ForStatement" /\ ir \in WellBuilt
      /\ Top.blks \in Seq(DOMAIN ir.blocks) /\ Len(Top.blks) = 4
  BY TopType DEF ForUpdate, Resuming, Running, OwnKind, OwnLocals, Node
<1>2. /\ ir' = Leave(ir, Br(update), update)
      /\ Proceed(IfPresent(Node.update) \o <<rest>>)
      /\ UNCHANGED <<module, symbols, result, errors, crashed>>
  BY DEF ForUpdate, ThenAt
<1>3. update \in DOMAIN ir.blocks /\ DOMAIN ir.blocks \subseteq Nat
  BY <1>1 DEF WellBuilt, Functions
<1>. HIDE DEF update
<1>4. Br(update) \in Instructions
  BY <1>3, ConstantType, EmittedType, Literals
<1>5. DOMAIN ir'.blocks = DOMAIN ir.blocks
  BY <1>1, <1>2, <1>3, <1>4, LeaveType
<1>6. rest \in TasksIn(ir')
  BY <1>1, <1>5, BlockRest
<1>. HIDE DEF rest
<1>7. IfPresent(Node.update) \o <<rest>> \in Seq(TasksIn(ir'))
  BY <1>1, <1>6, StatementMembers, VisitType, AgendaConcat
<1>. QED
  BY <1>1, <1>2, <1>3, <1>4, <1>7, LeaveStepType

\* What the analysis finds out about a loop.
LEMMA AnalysisType ==
    ASSUME NEW n \in AstNode, n.kind = "ForStatement"
    PROVE  /\ AnalyzeForUnroll(n).varName \in Strings
           /\ AnalyzeForUnroll(n).start \in Int /\ AnalyzeForUnroll(n).step \in Int
           /\ AnalyzeForUnroll(n).tripCount \in Nat
<1>1. n.init \in AstNode /\ n.condition \in AstNode
  BY StatementMembers
<1>. DEFINE start == n.init.initializer.value.num
            end == n.condition.right.value.num
            count == TripCount(n.condition.op, n.update.op, start, end)
            found == [varName |-> n.init.name, start |-> start,
                      step |-> IF n.update.op = "++" THEN 1 ELSE -1,
                      tripCount |-> count]
<1>2. CASE AnalyzeForUnroll(n) = NoUnroll
  <2>1. "none" \in Strings
    BY Literals
  <2>. QED
    BY <1>2, <2>1 DEF NoUnroll
<1>3. CASE /\ n.init.kind = "VariableDecl" /\ HasNumber(n.init.initializer)
           /\ n.condition.kind = "BinaryExpr" /\ HasNumber(n.condition.right)
           /\ count \in 1..MAX_UNROLL_COUNT /\ AnalyzeForUnroll(n) = found
  <2>1. n.init.name \in Strings /\ n.init.initializer \in AstNode
    BY <1>1, <1>3, StatementMembers, Literals
  <2>2. n.condition.right \in AstNode
    BY <1>1, <1>3, ExpressionMembers
  <2>3. start \in Int /\ end \in Int
    BY <1>3, <2>1, <2>2, ExpressionMembers DEF HasNumber
  <2>4. count \in Nat
    BY <1>3, UnrollAssumption
  <2>. HIDE DEF start, count
  <2>. QED
    BY <1>3, <2>1, <2>3, <2>4
<1>. QED
  BY <1>2, <1>3 DEF AnalyzeForUnroll

\* The stores of an unrolled loop alternate with visits of its body.
LEMMA IterationsType ==
    ASSUME NEW g, Node \in AstNode, Node.kind = "ForStatement", NEW slot \in Values,
           NEW info, info.start \in Int, info.step \in Int, info.tripCount \in Nat
    PROVE  Iterations(info, slot) \in Seq(TasksIn(g))
<1>1. ASSUME NEW k \in 1..2 * info.tripCount
      PROVE  Iterations(info, slot)[k] \in TasksIn(g)
  <2>. DEFINE value == ConstInt(slot.elem, info.start + (k \div 2) * info.step)
              store == Task("UnrollStore", Node, <<slot, value>>, <<>>)
  <2>1. Visit(Node.body) \in TasksIn(g)
    BY StatementMembers, VisitType
  <2>2. k \div 2 \in Int
    OBVIOUS
  <2>3. info.start + (k \div 2) * info.step \in Int
    <3>. DEFINE half == k \div 2
    <3>1. half \in Int
      BY <2>2
    <3>. HIDE DEF half
    <3>2. half * info.step \in Int
      BY <3>1
    <3>3. info.start + half * info.step \in Int
      BY <3>2
    <3>. QED
      BY <3>3 DEF half
  <2>4. slot.elem \in Strings
    BY DEF Values
  <2>5. value \in Values
    BY <2>3, <2>4, ConstantType
  <2>. HIDE DEF value
  <2>6. <<slot, value>> \in Seq(Values) /\ Len(<<slot, value>>) = 2
    BY <2>5, PairSeq
  <2>7. store \in TasksIn(g)
    BY <2>6, ValueRest
  <2>. HIDE DEF store
  <2>8. Iterations(info, slot)[k] = IF k % 2 = 0 THEN Visit(Node.body) ELSE store
    BY DEF Iterations, ThenWith, store, value
  <2>. QED
    BY <2>1, <2>7, <2>8
<1>2. Iterations(info, slot)
        = [k \in 1..2 * info.tripCount |-> Iterations(info, slot)[k]]
  BY DEF Iterations
<1>. DEFINE n == 2 * info.tripCount
            iterations == Iterations(info, slot)
<1>3. n \in Nat
  OBVIOUS
<1>4. iterations \in [1..n -> TasksIn(g)]
  BY <1>1, <1>2
<1>. HIDE DEF n, iterations
<1>5. iterations \in Seq(TasksIn(g))
  BY <1>3, <1>4
<1>. QED
  BY <1>5 DEF iterations

LEMMA ForVisitTypes ==
    ASSUME TypeOK, VisitForStatement
    PROVE  TypeOK'
<1>. DEFINE unroll == Task("UnrollStart", Node, <<>>, <<>>)
            roll == Task("ForBlocks", Node, <<>>, <<>>)
            tasks == IF Unrolled(Node) THEN <<Visit(Node.init), unroll>>
                     ELSE IfPresent(Node.init) \o <<roll>>
<1>1. Node \in AstNode /\ Node.kind = "ForStatement"
  BY TopType DEF VisitForStatement, Descend, Visiting, Running
<1>2. unroll \in TasksIn(ir) /\ roll \in TasksIn(ir)
  BY <1>1, PlainRest
<1>3. Descend("ForStatement", tasks)
  BY DEF VisitForStatement, Then
<1>. HIDE DEF unroll, roll
<1>4. <<Visit(Node.init), unroll>> \in Seq(TasksIn(ir))
  BY <1>1, <1>2, StatementMembers, VisitType, PairSeq
<1>5. IfPresent(Node.init) \o <<roll>> \in Seq(TasksIn(ir))
  BY <1>1, <1>2, StatementMembers, VisitType, AgendaConcat
<1>6. tasks \in Seq(TasksIn(ir))
  BY <1>4, <1>5
<1>. HIDE DEF tasks
<1>. QED
  BY <1>3, <1>6, DescendType

LEMMA UnrollTypes ==
    ASSUME TypeOK, UnrollStart \/ UnrollStore
    PROVE  TypeOK'
<1>1. /\ todo # <<>> /\ Node \in AstNode /\ Node.kind = "ForStatement" /\ ir \in WellBuilt
  BY TopType DEF UnrollStart, UnrollStore, Resuming, Running, OwnKind, Node
<1>2. CASE UnrollStart
  <2>. DEFINE info == AnalyzeForUnroll(Node)
              slot == m_variables[info.varName].value
  <2>1. /\ info.varName \in Strings /\ info.start \in Int /\ info.step \in Int
        /\ info.tripCount \in Nat
    BY <1>1, AnalysisType
  <2>2. CASE \/ Reject("Loop unroll: variable not found after init", info.varName)
             \/ Reject("Loop unroll: variable is not an alloca", "none")
    BY <1>1, <2>1, <2>2, RejectType, Literals
  <2>3. CASE Crash
    BY <2>3, CrashType
  <2>4. CASE /\ info.varName \in DOMAIN m_variables /\ Proceed(Iterations(info, slot))
             /\ UNCHANGED <<module, symbols, result, ir, errors, crashed>>
    <3>1. slot \in Values
      BY <2>4 DEF TypeOK, VariableInfos
    <3>. HIDE DEF info, slot
    <3>2. Iterations(info, slot) \in Seq(TasksIn(ir'))
      BY <1>1, <2>1, <3>1, IterationsType
    <3>. QED
      BY <1>1, <2>4, <3>2, FlowType DEF TypeOK
  <2>. QED
    BY <1>2, <2>2, <2>3, <2>4 DEF UnrollStart
<1>3. CASE UnrollStore
  <2>1. Top.vals \in Seq(Values) /\ Len(Top.vals) = 2
    BY <1>1, <1>3, TopType DEF UnrollStore, Resuming, OwnLocals
  <2>2. Top.vals[1] \in Values /\ Top.vals[2] \in Values
    BY <2>1
  <2>3. Store(Top.vals[2], Top.vals[1]) \in Instructions
    BY <2>2, EmittedType, Literals
  <2>. QED
    BY <1>1, <1>3, <2>3, EmitStepType DEF UnrollStore
<1>. QED
  BY <1>2, <1>3

(***************************************************************************)
(* Top-level declarations.                                                 *)
(***************************************************************************)
\* A set of numbers that is not empty has a least element.
LEMMA Minimum ==
    ASSUME NEW T, T \subseteq Nat, T # {}
    PROVE  \E m \in T : \A k \in T : m <= k
<1>. DEFINE R == {s \in Nat \X Nat : s[1] < s[2]}
<1>1. IsWellFoundedOn(R, Nat)
  BY NatLessThanWellFounded, Zenon DEF OpToRel
<1>. HIDE DEF R
<1>2. PICK m \in T : \A k \in T : ~(<<k, m>> \in R)
  BY <1>1, WFMin
<1>3. m \in Nat /\ \A k \in T : k \in Nat /\ ~(k < m)
  BY <1>2 DEF R
<1>. QED
  BY <1>3

\* Among the entries of a name there is a last one.
LEMMA LastNamedType ==
    ASSUME NEW S, NEW entries \in Seq(S), NEW i \in DOMAIN entries
    PROVE  LastNamed(entries, entries[i].name) \in DOMAIN entries
<1>. DEFINE name == entries[i].name
            bounds == {m \in Nat : \A j \in DOMAIN entries :
                                      entries[j].name = name => j <= m}
            IsLast(k) == /\ entries[k].name = name
                         /\ \A j \in DOMAIN entries : entries[j].name = name => j <= k
<1>1. DOMAIN entries = 1..Len(entries) /\ Len(entries) \in Nat
  BY LenProperties
<1>2. Len(entries) \in bounds
  BY <1>1
<1>3. PICK m \in bounds : \A k \in bounds : m <= k
  BY <1>2, Minimum
<1>4. i <= m /\ i >= 1 /\ m \in Nat
  BY <1>1
<1>5. \E k \in DOMAIN entries : IsLast(k)
  <2>1. CASE \E k \in DOMAIN entries : entries[k].name = name /\ k = m
    BY <2>1
  <2>2. CASE \A k \in DOMAIN entries : entries[k].name = name => k # m
    <3>1. \A j \in DOMAIN entries : entries[j].name = name => j <= m - 1
      BY <1>1, <2>2
    <3>2. m - 1 \in bounds
      BY <1>4, <3>1
    <3>. QED
      BY <1>3, <1>4, <3>2
  <2>. QED
    BY <2>1, <2>2
<1>6. LastNamed(entries, name) = CHOOSE k \in DOMAIN entries : IsLast(k)
  BY DEF LastNamed
<1>. HIDE DEF name, IsLast
<1>7. LastNamed(entries, name) \in DOMAIN entries
  BY <1>5, <1>6
<1>. QED
  BY <1>7 DEF name

\* What a struct declaration remembers of a field, and a function of a
\* parameter.
LEMMA FieldInfoType ==
    ASSUME NEW fields \in Seq(StructFields), NEW i \in DOMAIN fields
    PROVE  FieldInfo(fields, fields[i].name) \in FieldInfos
<1>. DEFINE k == LastNamed(fields, fields[i].name)
<1>1. k \in DOMAIN fields
  BY LastNamedType
<1>. HIDE DEF k
<1>2. k \in Nat /\ k >= 1 /\ fields[k] \in StructFields
  BY <1>1
<1>3. k - 1 \in Nat
  BY <1>2
<1>4. FieldInfo(fields, fields[i].name)
        = [index |-> k - 1, type |-> fields[k].type, isPublic |-> fields[k].isPublic]
  BY DEF FieldInfo, k
<1>. QED
  BY <1>2, <1>3, <1>4 DEF StructFields, FieldInfos

LEMMA ParameterInfoType ==
    ASSUME ir.fn \in Nat, NEW params \in Seq(Parameters), NEW i \in DOMAIN params
    PROVE  ParameterInfo(params, params[i].name) \in VariableInfos
<1>. DEFINE k == LastNamed(params, params[i].name)
            value == Argument(MapType(params[k].type), ir.fn + 1, k)
            mutable == TRUE
<1>1. k \in DOMAIN params
  BY LastNamedType
<1>2. ParameterInfo(params, params[i].name) = VariableInfo(value, params[k].type, mutable)
  BY DEF ParameterInfo
<1>. HIDE DEF k
<1>3. k \in Nat /\ params[k] \in Parameters /\ ir.fn + 1 \in Nat
  BY <1>1
<1>4. params[k].type \in TypeRefs
  BY <1>3 DEF Parameters
<1>5. value \in Values
  BY <1>3, <1>4, MapTypeType, ConstantType
<1>6. params[k].type \in VariableTypes
  BY <1>4, TypeRefsType
<1>7. mutable \in BOOLEAN
  OBVIOUS
<1>. HIDE DEF value, mutable
<1>. QED
  BY <1>2, <1>5, <1>6, <1>7, NewVariableType

\* The next declaration.
LEMMA PendingType ==
    ASSUME TypeOK, pending # <<>>
    PROVE  Head(pending) \in AstNode /\ Tail(pending) \in Seq(AstNode)
BY HeadTailProperties DEF TypeOK

LEMMA InterfaceTypes ==
    ASSUME TypeOK, VisitInterfaceDecl
    PROVE  TypeOK'
<1>1. /\ pending' \in Seq(AstNode)
      /\ UNCHANGED <<function, m_structTypes, m_functions, todo, symbols, result,
                     ir, errors, crashed>>
  BY PendingType DEF VisitInterfaceDecl, AtDeclaration
<1>2. /\ UNCHANGED <<m_variables, m_currentFunctionVariables, slots>>
      /\ UNCHANGED <<m_LastValue, valueOf>>
  BY <1>1 DEF symbols, result
<1>. QED
  BY <1>1, <1>2 DEF TypeOK

LEMMA StructTypes ==
    ASSUME TypeOK, VisitStructDecl
    PROVE  TypeOK'
<1>. DEFINE decl == Head(pending)
            names == {decl.fields[k].name : k \in DOMAIN decl.fields}
            info == [f \in names |-> FieldInfo(decl.fields, f)]
<1>1. /\ decl \in AstNode /\ decl.kind = "StructDecl" /\ pending' \in Seq(AstNode)
  BY PendingType DEF VisitStructDecl, AtDeclaration
<1>2. decl.fields \in Seq(StructFields)
  BY <1>1, StatementMembers
<1>3. \A f \in names : FieldInfo(decl.fields, f) \in FieldInfos
  BY <1>2, FieldInfoType
<1>4. info \in [DOMAIN info -> FieldInfos]
  BY <1>3
<1>5. m_structTypes' = [s \in DOMAIN m_structTypes \cup {decl.name} |->
                           IF s = decl.name THEN info ELSE m_structTypes[s]]
  BY DEF VisitStructDecl
<1>. HIDE DEF info
<1>6. \A s \in DOMAIN m_structTypes' :
          m_structTypes'[s] \in [DOMAIN m_structTypes'[s] -> FieldInfos]
  BY <1>4, <1>5 DEF TypeOK
<1>7. UNCHANGED <<function, m_functions, todo, symbols, result, ir, errors, crashed>>
  BY DEF VisitStructDecl
<1>8. /\ UNCHANGED <<m_variables, m_currentFunctionVariables, slots>>
      /\ UNCHANGED <<m_LastValue, valueOf>>
  BY <1>7 DEF symbols, result
<1>. QED
  BY <1>1, <1>6, <1>7, <1>8 DEF TypeOK

LEMMA NewFunctionType ==
    ASSUME NEW g \in Functions
    PROVE  NewFunction(g) \in WellBuilt
<1>. DEFINE empty == Block(TRUE, <<>>)
<1>1. empty \in Blocks
  BY DEF Block, Blocks
<1>. HIDE DEF empty
<1>2. <<empty>> \in Seq(Blocks) /\ 1 \in DOMAIN <<empty>>
  BY <1>1
<1>3. g.fn + 1 \in Nat
  BY DEF Functions
<1>4. NewFunction(g) = Func(g.fn + 1, <<empty>>, 1)
  BY DEF NewFunction, empty
<1>. QED
  BY <1>2, <1>3, <1>4 DEF WellBuilt, Functions, Blocks, Func

LEMMA FunctionTypes ==
    ASSUME TypeOK, VisitFunctionDecl
    PROVE  TypeOK'
<1>. DEFINE decl == Head(pending)
            names == {decl.params[k].name : k \in DOMAIN decl.params}
<1>1. /\ decl \in AstNode /\ decl.kind = "FunctionDecl" /\ pending' \in Seq(AstNode)
  BY PendingType DEF VisitFunctionDecl, AtDeclaration
<1>2. /\ decl.params \in Seq(Parameters) /\ decl.returnType \in TypeRefs
      /\ decl.body \in AstNode
  BY <1>1, StatementMembers
<1>3. ir.fn \in Nat
  BY DEF TypeOK, Functions
<1>4. \A x \in names : ParameterInfo(decl.params, x) \in VariableInfos
  BY <1>2, <1>3, ParameterInfoType
<1>5. names \subseteq STRING
  <2>1. \A k \in DOMAIN decl.params : decl.params[k] \in Parameters
    BY <1>2
  <2>. QED
    BY <2>1 DEF Parameters
<1>6. /\ m_functions' = [f \in DOMAIN m_functions \cup {decl.name} |->
                            IF f \in DOMAIN m_functions THEN m_functions[f]
                            ELSE MapType(decl.returnType)]
      /\ m_variables' = [x \in DOMAIN m_variables \cup names |->
                            IF x \in names THEN ParameterInfo(decl.params, x)
                            ELSE m_variables[x]]
      /\ m_currentFunctionVariables' = names
      /\ todo' = IfPresent(decl.body)
      /\ function' = decl
      /\ ir' = NewFunction(ir) /\ slots' = {}
      /\ UNCHANGED <<m_structTypes, result, errors, crashed>>
  BY DEF VisitFunctionDecl
<1>7. m_functions' \in [DOMAIN m_functions' -> Strings]
  BY <1>2, <1>6, MapTypeType DEF TypeOK
<1>8. m_variables' \in [DOMAIN m_variables' -> VariableInfos]
  BY <1>4, <1>6 DEF TypeOK
<1>9. ir' \in Functions /\ ir'.at \in DOMAIN ir'.blocks
  BY <1>6, NewFunctionType DEF TypeOK, WellBuilt
<1>10. todo' \in Seq(TasksIn(ir'))
  BY <1>2, <1>6, VisitType
<1>11. function' # Null
  BY <1>1, <1>6 DEF Null
<1>12. UNCHANGED <<m_LastValue, valueOf>>
  BY <1>6 DEF result
<1>13. m_currentFunctionVariables' \subseteq STRING /\ slots' \subseteq Values \X AstNode
  BY <1>5, <1>6
<1>14. function' \in AstNode /\ function'.kind \in {"nullptr", "FunctionDecl"}
  BY <1>1, <1>6
<1>15. /\ UNCHANGED <<m_structTypes, errors, crashed>>
  BY <1>6
<1>. HIDE DEF decl, names
<1>. QED
  BY <1>1, <1>7, <1>8, <1>9, <1>10, <1>11, <1>12, <1>13, <1>14, <1>15 DEF TypeOK

LEMMA EndFunctionTypes ==
    ASSUME TypeOK, EndFunctionDecl
    PROVE  TypeOK'
<1>1. ir \in WellBuilt
  BY DEF EndFunctionDecl, TypeOK, WellBuilt
<1>2. RetVoid \in Instructions
  BY ConstantType, EmittedType, Literals DEF RetVoid
<1>3. ir' \in WellBuilt /\ DOMAIN ir'.blocks = DOMAIN ir.blocks
  BY <1>1, <1>2, EmitType DEF EndFunctionDecl
<1>4. ir' \in Functions /\ todo' = <<>> /\ todo' \in Seq(TasksIn(ir'))
  BY <1>3 DEF EndFunctionDecl, Between, WellBuilt
<1>5. \A e \in errors' : e[2] \in Strings
  <2>1. \A x \in m_currentFunctionVariables : x \in Strings
    BY Literals DEF TypeOK
  <2>2. PICK text : errors' = errors \cup
           {<<text, x>> :
               x \in {y \in m_currentFunctionVariables \cap DOMAIN m_variables :
                         ~m_variables[y].used}}
    BY DEF EndFunctionDecl, CheckUnusedVariables
  <2>. QED
    BY <2>1, <2>2 DEF TypeOK
<1>6. m_variables' \in [DOMAIN m_variables' -> VariableInfos]
  BY DEF EndFunctionDecl, TypeOK
<1>7. /\ function' = Null /\ Null.kind = "nullptr" /\ Null \in AstNode
      /\ m_currentFunctionVariables' = {}
      /\ UNCHANGED <<pending, m_structTypes, m_functions, slots, result, crashed>>
  BY AstAssumption DEF EndFunctionDecl, Null
<1>8. UNCHANGED <<m_LastValue, valueOf>>
  BY <1>7 DEF result
<1>. QED
  BY <1>4, <1>5, <1>6, <1>7, <1>8 DEF TypeOK

LEMMA InitTypes == Init => TypeOK
<1>. SUFFICES ASSUME Init PROVE TypeOK
  OBVIOUS
<1>1. PICK program \in Programs :
          /\ pending = program.decls
          /\ errors = IF program.rejected THEN {<<"Syntax error", "none">>} ELSE {}
  BY DEF Init
<1>2. pending \in Seq(AstNode) /\ Null \in AstNode /\ Null.kind = "nullptr"
  BY <1>1, AstAssumption DEF Null
<1>3. \A e \in errors : e[2] \in Strings
  <2>1. "none" \in Strings
    BY Literals
  <2>2. PICK text : errors \subseteq {<<text, "none">>}
    BY <1>1
  <2>. QED
    BY <2>1, <2>2
<1>4. m_functions \in [DOMAIN m_functions -> Strings]
  <2>1. "i32" \in Strings /\ "ptr" \in Strings /\ "void" \in Strings
    BY Literals
  <2>2. ExternalFunctions \in [DOMAIN ExternalFunctions -> Strings]
    BY <2>1 DEF ExternalFunctions
  <2>. QED
    BY <2>2 DEF Init
<1>5. ir \in Functions
  <2>1. <<>> \in Seq(Blocks)
    OBVIOUS
  <2>2. ir = Func(0, <<>>, 0)
    BY DEF Init, NoFunction
  <2>. QED
    BY <2>1, <2>2 DEF Functions, Blocks, Func
<1>6. m_LastValue \in Values
  BY ConstantType DEF Init
<1>7. /\ function = Null /\ todo = <<>> /\ m_variables = <<>>
      /\ m_currentFunctionVariables = {} /\ m_structTypes = <<>>
      /\ crashed = FALSE /\ valueOf = Null /\ slots = {}
  BY DEF Init
<1>8. /\ m_variables \in [DOMAIN m_variables -> VariableInfos]
      /\ DOMAIN m_structTypes = {} /\ todo \in Seq(TasksIn(ir))
  BY <1>7
<1>. QED
  BY <1>2, <1>3, <1>4, <1>5, <1>6, <1>7, <1>8 DEF TypeOK

(***************************************************************************)
(* Type correctness.                                                       *)
(***************************************************************************)
LEMMA StutterTypes == ASSUME TypeOK, UNCHANGED vars PROVE TypeOK'
BY DEF TypeOK, vars, module, symbols, result

LEMMA NextTypes == ASSUME TypeOK, Next PROVE TypeOK'
<1>1. CASE Expressions
  <2>1. CASE VisitPrefixExpr \/ VisitPostfixExpr
    <3>1. todo # <<>> /\ Node.kind \in {"PrefixExpr", "PostfixExpr"}
      BY <2>1 DEF VisitPrefixExpr, VisitPostfixExpr, Visiting, Running
    <3>2. IncDec(TRUE) \/ IncDec(FALSE)
      BY <2>1 DEF VisitPrefixExpr, VisitPostfixExpr
    <3>. QED
      BY <3>1, <3>2, IncDecTypes
  <2>2. CASE \/ VisitLiteralExpr \/ VisitVarExpr \/ VisitAllocExpr
             \/ ShortLeft \/ ShortRight \/ BinLeft \/ BinRight \/ UnaryOp \/ CastOp
             \/ VisitCallExpr \/ CallArg \/ CallEnd \/ AssignStore \/ MemberLoad
    BY <2>2, LiteralTypes, VarTypes, AllocTypes, ShortLeftTypes, ShortRightTypes,
       BinLeftTypes, BinRightTypes, UnaryOpTypes, CastOpTypes, CallTypes,
       CallEndTypes, AssignStoreTypes, MemberLoadTypes
  <2>3. CASE \/ VisitBinaryExpr \/ VisitUnaryExpr \/ VisitCastExpr
             \/ VisitAssignExpr \/ VisitMemberAccessExpr
    BY <2>3, DescendTypes
  <2>. QED
    BY <1>1, <2>1, <2>2, <2>3 DEF Expressions
<1>2. CASE Statements
  BY <1>2, BlockTypes, DescendTypes, VariableDeclTypes, InferredInitTypes,
     ExplicitInitTypes, ReturnTypes, IfCondTypes, IfTypes, WhileVisitTypes,
     WhileCondTypes, LoopEndTypes, ForVisitTypes, UnrollTypes, ForBlocksTypes,
     ForCondTypes, ForUpdateTypes DEF Statements
<1>3. CASE Declarations
  BY <1>3, InterfaceTypes, StructTypes, FunctionTypes, EndFunctionTypes
     DEF Declarations
<1>. QED
  BY <1>1, <1>2, <1>3 DEF Next

\* The state has its shape throughout code generation, whatever the program:
\* in particular a handler that resumes finds the locals it left, the blocks
\* it goes back to are blocks of the function it builds, and there is an
\* insert point as long as anything is left to do.
THEOREM TypeCorrect == Spec => []TypeOK
<1>1. TypeOK /\ [Next]_vars => TypeOK'
  BY NextTypes, StutterTypes
<1>. QED
  BY InitTypes, <1>1, PTL DEF Spec

(***************************************************************************)
(* Steps of the agenda, for the proofs about what waits on it.             *)
(***************************************************************************)
\* Where a task of the agenda after a step waited before it.
Was(k, tasks) == k - Len(tasks) + 1

\* The agenda after a step: the new tasks, then those that waited.
LEMMA Agenda ==
    ASSUME TypeOK, todo # <<>>, NEW S, NEW tasks \in Seq(S), Proceed(tasks)
    PROVE  /\ 1 \in DOMAIN todo /\ Top = todo[1]
           /\ DOMAIN tasks \subseteq DOMAIN todo'
           /\ \A k \in DOMAIN tasks : todo'[k] = tasks[k]
           /\ \A k \in DOMAIN todo' \ DOMAIN tasks :
                 /\ Was(k, tasks) \in DOMAIN todo /\ Was(k, tasks) # 1
                 /\ todo'[k] = todo[Was(k, tasks)]
           /\ \A j, k \in DOMAIN todo' \ DOMAIN tasks :
                 j # k => Was(j, tasks) # Was(k, tasks)
<1>. DEFINE rest == Tail(todo)
            T == TasksIn(ir)
            n == Len(tasks)
<1>1. /\ todo \in Seq(T) /\ Len(todo) \in Nat /\ Len(todo) > 0 /\ Top = todo[1]
      /\ DOMAIN todo = 1..Len(todo)
  BY LenProperties DEF TypeOK, Top
<1>2. /\ rest \in Seq(T) /\ Len(rest) = Len(todo) - 1
      /\ \A k \in 1..Len(rest) : rest[k] = todo[k + 1]
  BY <1>1, HeadTailProperties
<1>3. todo' = tasks \o rest
  BY DEF Proceed
<1>4. tasks \in Seq(S \cup T) /\ rest \in Seq(S \cup T)
  BY <1>2, SeqMonotonic
<1>. HIDE DEF rest, T
<1>5. /\ todo' \in Seq(S \cup T) /\ Len(todo') = n + Len(rest)
      /\ \A k \in 1..n + Len(rest) : todo'[k] = IF k <= n THEN tasks[k] ELSE rest[k - n]
  BY <1>3, <1>4, ConcatProperties
<1>6. /\ DOMAIN todo' = 1..n + Len(rest) /\ DOMAIN tasks = 1..n
      /\ n \in Nat /\ Len(rest) \in Nat
  BY <1>4, <1>5, LenProperties
<1>. HIDE DEF n
<1>7. DOMAIN tasks \subseteq DOMAIN todo' /\ \A k \in DOMAIN tasks : todo'[k] = tasks[k]
  BY <1>5, <1>6
<1>8. ASSUME NEW k \in DOMAIN todo' \ DOMAIN tasks
      PROVE  /\ k - n + 1 \in DOMAIN todo \ {1}
             /\ todo'[k] = todo[k - n + 1]
  <2>1. k - n \in 1..Len(rest) /\ ~(k <= n) /\ k \in 1..n + Len(rest)
        /\ (k - n) + 1 = k - n + 1 /\ k - n + 1 \in DOMAIN todo /\ k - n + 1 # 1
    BY <1>1, <1>2, <1>6
  <2>2. todo'[k] = rest[k - n]
    BY <1>5, <2>1
  <2>3. rest[k - n] = todo[(k - n) + 1]
    BY <1>2, <2>1
  <2>. QED
    BY <2>1, <2>2, <2>3
<1>9. ASSUME NEW j \in DOMAIN todo' \ DOMAIN tasks, NEW k \in DOMAIN todo' \ DOMAIN tasks,
             j # k
      PROVE  j - n + 1 # k - n + 1
  BY <1>6, <1>9
<1>10. 1 \in DOMAIN todo
  BY <1>1
<1>. QED
  BY <1>1, <1>7, <1>8, <1>9, <1>10 DEF Was, n

\* A handler visits a child, if there is one, and goes on as u.
Hands(n, u) == Proceed(<<Visit(n), u>>) \/ Proceed(IfPresent(n) \o <<u>>)

\* Of the tasks that go on, one is u and the others are visits to n.
Carries(tasks, n, u) ==
    /\ Proceed(tasks)
    /\ \E k \in DOMAIN tasks :
          tasks[k] = u /\ \A j \in DOMAIN tasks \ {k} : tasks[j] = Visit(n)

LEMMA HandsTasks ==
    ASSUME NEW n, NEW u, Hands(n, u)
    PROVE  \E tasks \in Seq({Visit(n), u}) : Carries(tasks, n, u)
<1>. DEFINE S == {Visit(n), u}
            one == <<Visit(n), u>>
            two == IfPresent(n) \o <<u>>
            l == Len(IfPresent(n))
<1>1. <<>> \in Seq(S) /\ <<Visit(n)>> \in Seq(S) /\ <<u>> \in Seq(S)
  OBVIOUS
<1>2. /\ one \in Seq(S) /\ 2 \in DOMAIN one /\ one[2] = u
      /\ \A j \in DOMAIN one \ {2} : one[j] = Visit(n)
  OBVIOUS
<1>3. /\ IfPresent(n) \in Seq(S) /\ l \in Nat /\ Len(<<u>>) = 1 /\ <<u>>[1] = u
      /\ \A j \in 1..l : IfPresent(n)[j] = Visit(n)
  <2>1. CASE n = Null
    <3>1. IfPresent(n) = <<>>
      BY <2>1 DEF IfPresent
    <3>. QED
      BY <1>1, <3>1
  <2>2. CASE n # Null
    <3>1. IfPresent(n) = <<Visit(n)>>
      BY <2>2 DEF IfPresent
    <3>2. Len(<<Visit(n)>>) = 1 /\ \A j \in 1..1 : <<Visit(n)>>[j] = Visit(n)
      OBVIOUS
    <3>. QED
      BY <1>1, <3>1, <3>2
  <2>. QED
    BY <2>1, <2>2
<1>. HIDE DEF S
<1>4. /\ two \in Seq(S) /\ Len(two) = l + 1
      /\ \A i \in 1..l + 1 : two[i] = IF i <= l THEN IfPresent(n)[i] ELSE <<u>>[i - l]
  BY <1>1, <1>3, ConcatProperties
<1>5. DOMAIN two = 1..l + 1
  BY <1>4, LenProperties
<1>6. Proceed(one) \/ Proceed(two)
  BY DEF Hands
<1>. HIDE DEF one, two, l
<1>7. two[l + 1] = u /\ l + 1 \in DOMAIN two
  BY <1>3, <1>4, <1>5
<1>8. \A j \in DOMAIN two \ {l + 1} : two[j] = Visit(n)
  BY <1>3, <1>4, <1>5
<1>9. (Proceed(one) => Carries(one, n, u)) /\ (Proceed(two) => Carries(two, n, u))
  BY <1>2, <1>7, <1>8 DEF Carries
<1>10. \E tasks \in Seq(S) : Carries(tasks, n, u)
  BY <1>2, <1>4, <1>6, <1>9
<1>. QED
  BY <1>10 DEF S
=============================================================================
