--------------------------- MODULE CodeGenProtocol ---------------------------
(***************************************************************************)
(* The m_LastValue protocol of CodeGen, for every set of programs: each    *)
(* handler that reads m_LastValue reads what its own child left there.     *)
(* FreshValue speaks of the next task only; the invariant that carries it  *)
(* speaks of every task that waits on the agenda.                          *)
(***************************************************************************)
EXTENDS CodeGenTypes

(***************************************************************************)
(* The agenda.                                                             *)
(***************************************************************************)
\* The rests of handlers of expressions, and the tasks that end with the value
\* of their node in m_LastValue.
Rests ==
    {"ShortLeft", "ShortRight", "BinLeft", "BinRight", "UnaryOp", "CastOp",
     "CallArg", "CallEnd", "AssignStore", "MemberLoad"}

Answers(t) ==
    \/ t.do \in Rests
    \/ t.do = "Visit" /\ t.node.kind \in ExpressionKinds

\* What waits for a value runs right after the task that leaves it.
Linked(t, u) == Awaited(u) = Null \/ (Answers(t) /\ t.node = Awaited(u))
Chained(s) == \A k \in 1..Len(s) - 1 : Linked(s[k], s[k + 1])

ChildrenFirst == errors = {} => Chained(todo)

IsOperand(n) == n = Null \/ n.kind \in ExpressionKinds

LEMMA OperandKinds ==
    ASSUME NEW n \in AstNode
    PROVE  /\ n.kind = "BinaryExpr" => IsOperand(n.left) /\ IsOperand(n.right)
           /\ n.kind = "UnaryExpr" => IsOperand(n.operand)
           /\ n.kind = "CastExpr" => IsOperand(n.expr)
           /\ n.kind = "AssignExpr" => IsOperand(n.value)
           /\ n.kind = "MemberAccessExpr" => IsOperand(n.object)
           /\ n.kind = "CallExpr" =>
                 \A k \in DOMAIN n.arguments : IsOperand(n.arguments[k])
           /\ n.kind = "ReturnStatement" => IsOperand(n.value)
           /\ n.kind = "VariableDecl" => IsOperand(n.initializer)
           /\ n.kind \in {"IfStatement", "WhileStatement", "ForStatement"} =>
                 IsOperand(n.condition)
<1>1. \A k \in DOMAIN Operands(n) : IsOperand(Operands(n)[k])
  BY OperandAssumption DEF OperandsHaveValues, IsOperand
<1>2. ASSUME NEW a, Operands(n) = <<a>> PROVE IsOperand(a)
  <2>1. 1 \in DOMAIN Operands(n) /\ Operands(n)[1] = a
    BY <1>2
  <2>. QED
    BY <1>1, <2>1
<1>3. n.kind \in ExpressionKinds \cup {"ReturnStatement", "VariableDecl"} =>
         Operands(n) = Children(n)
  BY DEF Operands, ExpressionKinds
<1>4. CASE n.kind = "BinaryExpr"
  <2>0. Operands(n) = Children(n)
    BY <1>3, <1>4 DEF ExpressionKinds
  <2>1. Operands(n) = <<n.left, n.right>>
    BY <1>4, <2>0 DEF Children
  <2>2. /\ 1 \in DOMAIN Operands(n) /\ Operands(n)[1] = n.left
        /\ 2 \in DOMAIN Operands(n) /\ Operands(n)[2] = n.right
    BY <2>1
  <2>. QED
    BY <1>1, <1>4, <2>2
<1>5. CASE n.kind = "CallExpr"
  <2>0. Operands(n) = Children(n)
    BY <1>3, <1>5 DEF ExpressionKinds
  <2>1. Operands(n) = n.arguments
    BY <1>5, <2>0 DEF Children
  <2>. QED
    BY <1>1, <1>5, <2>1
<1>6. CASE n.kind \in {"UnaryExpr", "CastExpr", "AssignExpr", "MemberAccessExpr"}
  <2>0. Operands(n) = Children(n)
    BY <1>3, <1>6 DEF ExpressionKinds
  <2>1. /\ n.kind = "UnaryExpr" => Operands(n) = <<n.operand>>
        /\ n.kind = "CastExpr" => Operands(n) = <<n.expr>>
        /\ n.kind = "AssignExpr" => Operands(n) = <<n.value>>
        /\ n.kind = "MemberAccessExpr" => Operands(n) = <<n.object>>
    BY <1>6, <2>0 DEF Children
  <2>. QED
    BY <1>2, <1>6, <2>1
<1>7. CASE n.kind \in {"ReturnStatement", "VariableDecl"}
  <2>1. /\ n.kind = "ReturnStatement" => Operands(n) = <<n.value>>
        /\ n.kind = "VariableDecl" => Operands(n) = <<n.initializer>>
    BY <1>3, <1>7 DEF Children
  <2>. QED
    BY <1>2, <1>7, <2>1
<1>8. CASE n.kind \in {"IfStatement", "WhileStatement", "ForStatement"}
  <2>1. n.kind \notin ExpressionKinds \cup {"ReturnStatement", "VariableDecl"}
    BY <1>8 DEF ExpressionKinds
  <2>2. Operands(n) = <<n.condition>>
    BY <1>8, <2>1 DEF Operands
  <2>. QED
    BY <1>2, <1>8, <2>2
<1>. QED
  BY <1>4, <1>5, <1>6, <1>7, <1>8

\* Which tasks wait for a value.
LEMMA AwaitedBy ==
    ASSUME NEW n, NEW vals, NEW blks
    PROVE  /\ \A do \in {"IfCond", "WhileCond", "ForCond"} :
                 Awaited(Task(do, n, vals, blks)) = n.condition
           /\ \A do \in {"ShortLeft", "BinLeft"} :
                 Awaited(Task(do, n, vals, blks)) = n.left
           /\ \A do \in {"ShortRight", "BinRight"} :
                 Awaited(Task(do, n, vals, blks)) = n.right
           /\ Awaited(Task("UnaryOp", n, vals, blks)) = n.operand
           /\ Awaited(Task("CastOp", n, vals, blks)) = n.expr
           /\ Awaited(Task("CallArg", n, vals, blks)) = n.arguments[Len(vals) + 1]
           /\ \A do \in {"AssignStore", "ReturnValue"} :
                 Awaited(Task(do, n, vals, blks)) = n.value
           /\ Awaited(Task("MemberLoad", n, vals, blks)) = n.object
           /\ \A do \in {"InferredInit", "ExplicitInit"} :
                 Awaited(Task(do, n, vals, blks)) = n.initializer
BY DEF Awaited, Task

LEMMA AwaitsNothing ==
    ASSUME NEW n, NEW vals, NEW blks,
           NEW do \in {"Visit", "Statement", "CallEnd", "IfElse", "IfMerge",
                       "WhileEnd", "UnrollStart", "UnrollStore", "ForBlocks",
                       "ForUpdate", "ForEnd"}
    PROVE  Awaited(Task(do, n, vals, blks)) = Null
BY DEF Awaited, Task

(***************************************************************************)
(* Steps of the agenda.                                                    *)
(***************************************************************************)
\* In general: the tasks put on the agenda are chained, wait for nothing from
\* before, and end with the value that whoever follows waits for.
LEMMA AgendaStep ==
    ASSUME TypeOK, FreshValue, ChildrenFirst, todo # <<>>,
           errors' = {} => errors = {},
           NEW S, NEW tasks \in Seq(S), Proceed(tasks), Chained(tasks),
           tasks # <<>> => /\ Awaited(tasks[1]) = Null
                           /\ \/ ~Answers(Top)
                              \/ /\ Answers(tasks[Len(tasks)])
                                 /\ tasks[Len(tasks)].node = Node,
           tasks = <<>> => ~Answers(Top) \/ valueOf' = Node
    PROVE  FreshValue' /\ ChildrenFirst'
<1>. SUFFICES ASSUME errors' = {}
              PROVE  /\ todo' # <<>> => Awaited(Head(todo')) \in {Null, valueOf'}
                     /\ Chained(todo')
  BY DEF FreshValue, ChildrenFirst, Top
<1>. DEFINE rest == Tail(todo)
            T == TasksIn(ir)
            n == Len(tasks)
<1>1. /\ todo \in Seq(T) /\ Len(todo) \in Nat /\ Len(todo) > 0
      /\ Chained(todo) /\ Top = todo[1]
  BY DEF TypeOK, ChildrenFirst, Top
<1>2. /\ rest \in Seq(T) /\ Len(rest) = Len(todo) - 1
      /\ \A k \in 1..Len(rest) : rest[k] = todo[k + 1]
  BY <1>1, HeadTailProperties
<1>3. rest # <<>> => Linked(Top, rest[1])
  <2>. SUFFICES ASSUME rest # <<>> PROVE Linked(Top, rest[1])
    OBVIOUS
  <2>1. Len(rest) > 0
    BY <1>2, EmptySeq
  <2>. HIDE DEF rest
  <2>2. 1 \in 1..Len(todo) - 1 /\ 1 \in 1..Len(rest)
    BY <1>1, <1>2, <2>1
  <2>3. Linked(todo[1], todo[1 + 1]) /\ rest[1] = todo[1 + 1]
    BY <1>1, <1>2, <2>2 DEF Chained
  <2>. QED
    BY <1>1, <2>3
<1>4. Chained(rest)
  <2>. SUFFICES ASSUME NEW k \in 1..Len(rest) - 1 PROVE Linked(rest[k], rest[k + 1])
    BY DEF Chained
  <2>. HIDE DEF rest
  <2>1. k + 1 \in 1..Len(todo) - 1 /\ k \in 1..Len(rest) /\ k + 1 \in 1..Len(rest)
    BY <1>1, <1>2
  <2>2. Linked(todo[k + 1], todo[k + 1 + 1])
    BY <1>1, <2>1 DEF Chained
  <2>3. rest[k] = todo[k + 1] /\ rest[k + 1] = todo[k + 1 + 1]
    BY <1>2, <2>1
  <2>. QED
    BY <2>2, <2>3
<1>5. todo' = tasks \o rest
  BY DEF Proceed
<1>. HIDE DEF rest, T
<1>6. CASE tasks = <<>>
  <2>1. todo' = rest
    BY <1>2, <1>5, <1>6
  <2>2. ASSUME todo' # <<>> PROVE Awaited(Head(todo')) \in {Null, valueOf'}
    <3>1. Head(todo') = rest[1] /\ Linked(Top, rest[1])
      BY <1>2, <1>3, <2>1, <2>2
    <3>. QED
      BY <1>6, <3>1 DEF Linked, Node
  <2>. QED
    BY <1>4, <2>1, <2>2
<1>7. CASE tasks # <<>>
  <2>1. n \in Nat /\ n > 0
    BY <1>7, LenProperties, EmptySeq
  <2>2. /\ todo' \in Seq(S \cup T) /\ Len(todo') = n + Len(rest)
        /\ \A k \in 1..Len(todo') : todo'[k] = IF k <= n THEN tasks[k] ELSE rest[k - n]
        /\ Len(rest) \in Nat
    <3>1. tasks \in Seq(S \cup T) /\ rest \in Seq(S \cup T)
      BY <1>2, SeqMonotonic
    <3>. QED
      BY <1>5, <3>1, ConcatProperties, LenProperties
  <2>3. Awaited(Head(todo')) = Null
    <3>1. 1 \in 1..Len(todo') /\ todo'[1] = tasks[1]
      BY <2>1, <2>2
    <3>2. Head(todo') = todo'[1]
      BY <2>1, <2>2, EmptySeq
    <3>. QED
      BY <1>7, <3>1, <3>2
  <2>4. Chained(todo')
    <3>. SUFFICES ASSUME NEW k \in 1..Len(todo') - 1
                  PROVE  Linked(todo'[k], todo'[k + 1])
      BY DEF Chained
    <3>. HIDE DEF n
    <3>1. CASE k < n
      <4>1. /\ k \in 1..n - 1 /\ k \in 1..Len(todo') /\ k + 1 \in 1..Len(todo')
            /\ k <= n /\ k + 1 <= n
        BY <2>1, <2>2, <3>1
      <4>2. todo'[k] = tasks[k] /\ todo'[k + 1] = tasks[k + 1]
        BY <2>2, <4>1
      <4>3. Linked(tasks[k], tasks[k + 1])
        BY <4>1 DEF Chained, n
      <4>. QED
        BY <4>2, <4>3
    <3>2. CASE k = n
      <4>1. /\ k \in 1..Len(todo') /\ k + 1 \in 1..Len(todo') /\ k <= n
            /\ ~(k + 1 <= n) /\ (k + 1) - n = 1 /\ Len(rest) > 0
        BY <2>1, <2>2, <3>2
      <4>2. todo'[k] = tasks[n] /\ todo'[k + 1] = rest[1]
        BY <2>2, <3>2, <4>1
      <4>3. rest # <<>>
        BY <4>1
      <4>4. Linked(Top, rest[1]) /\ (~Answers(Top) \/ (Answers(tasks[n]) /\ tasks[n].node = Node))
        BY <1>3, <1>7, <4>3 DEF n
      <4>5. Linked(tasks[n], rest[1])
        BY <4>4 DEF Linked, Node
      <4>. QED
        BY <4>2, <4>5
    <3>3. CASE k > n
      <4>1. /\ k \in 1..Len(todo') /\ k + 1 \in 1..Len(todo') /\ ~(k <= n)
            /\ ~(k + 1 <= n) /\ (k + 1) - n = (k - n) + 1 /\ k - n \in 1..Len(rest) - 1
        BY <2>1, <2>2, <3>3
      <4>2. todo'[k] = rest[k - n] /\ todo'[k + 1] = rest[(k - n) + 1]
        BY <2>2, <4>1
      <4>3. Linked(rest[k - n], rest[(k - n) + 1])
        BY <1>4, <4>1 DEF Chained
      <4>. QED
        BY <4>2, <4>3
    <3>. QED
      BY <2>1, <2>2, <3>1, <3>2, <3>3
  <2>. QED
    BY <2>3, <2>4
<1>. QED
  BY <1>6, <1>7

\* A handler that visits a child and resumes with the child's value.
LEMMA PairStep ==
    ASSUME TypeOK, FreshValue, ChildrenFirst, todo # <<>>,
           errors' = {} => errors = {},
           NEW n, IsOperand(n), NEW do, NEW vals, NEW blks,
           Proceed(<<Visit(n), Task(do, Node, vals, blks)>>),
           Awaited(Task(do, Node, vals, blks)) = n,
           ~Answers(Top) \/ do \in Rests
    PROVE  FreshValue' /\ ChildrenFirst'
<1>. DEFINE u == Task(do, Node, vals, blks)
            tasks == <<Visit(n), u>>
<1>1. u.do = do /\ u.node = Node /\ Visit(n).do = "Visit" /\ Visit(n).node = n
  BY DEF Task, Visit
<1>2. Linked(Visit(n), u)
  BY <1>1 DEF Linked, IsOperand, Answers
<1>3. Awaited(Visit(n)) = Null
  BY AwaitsNothing DEF Visit
<1>4. ~Answers(Top) \/ (Answers(u) /\ u.node = Node)
  BY <1>1 DEF Answers
<1>. HIDE DEF u
<1>5. /\ tasks \in Seq({Visit(n), u}) /\ tasks # <<>> /\ Len(tasks) = 2
      /\ tasks[1] = Visit(n) /\ tasks[2] = u
  OBVIOUS
<1>6. Chained(tasks)
  <2>. SUFFICES ASSUME NEW k \in 1..Len(tasks) - 1 PROVE Linked(tasks[k], tasks[k + 1])
    BY DEF Chained
  <2>1. k = 1
    BY <1>5
  <2>. QED
    BY <1>2, <1>5, <2>1
<1>7. Proceed(tasks)
  BY DEF u
<1>. HIDE DEF tasks
<1>. QED
  BY <1>3, <1>4, <1>5, <1>6, <1>7, AgendaStep

\* A statement's handler whose next tasks wait for nothing.
LEMMA QuietStep ==
    ASSUME TypeOK, FreshValue, ChildrenFirst, todo # <<>>,
           errors' = {} => errors = {}, ~Answers(Top),
           NEW S, NEW tasks \in Seq(S), Proceed(tasks),
           \A k \in DOMAIN tasks : Awaited(tasks[k]) = Null
    PROVE  FreshValue' /\ ChildrenFirst'
<1>1. DOMAIN tasks = 1..Len(tasks) /\ Len(tasks) \in Nat
  BY LenProperties
<1>2. Chained(tasks)
  <2>. SUFFICES ASSUME NEW k \in 1..Len(tasks) - 1 PROVE Linked(tasks[k], tasks[k + 1])
    BY DEF Chained
  <2>1. k + 1 \in DOMAIN tasks
    BY <1>1
  <2>. QED
    BY <2>1 DEF Linked
<1>3. tasks # <<>> => 1 \in DOMAIN tasks
  BY <1>1, EmptySeq
<1>. QED
  BY <1>2, <1>3, AgendaStep

LEMMA FinishStep ==
    ASSUME TypeOK, FreshValue, ChildrenFirst, todo # <<>>,
           errors' = {} => errors = {}, Finish,
           ~Answers(Top) \/ valueOf' = Node
    PROVE  FreshValue' /\ ChildrenFirst'
<1>1. <<>> \in Seq({}) /\ Proceed(<<>>)
  BY DEF Finish
<1>2. Chained(<<>>)
  BY DEF Chained
<1>. QED
  BY <1>1, <1>2, AgendaStep

\* With an error on stderr nothing is promised any more.
LEMMA ReportStep ==
    ASSUME NEW text, NEW subject, Report(text, subject)
    PROVE  FreshValue' /\ ChildrenFirst'
<1>1. errors' # {}
  BY DEF Report
<1>. QED
  BY <1>1 DEF FreshValue, ChildrenFirst

LEMMA RejectStep ==
    ASSUME NEW text, NEW subject, Reject(text, subject)
    PROVE  FreshValue' /\ ChildrenFirst'
BY ReportStep DEF Reject

LEMMA StillStep ==
    ASSUME FreshValue, ChildrenFirst, UNCHANGED <<todo, errors, valueOf>>
    PROVE  FreshValue' /\ ChildrenFirst'
BY DEF FreshValue, ChildrenFirst, Top

LEMMA CrashStep ==
    ASSUME FreshValue, ChildrenFirst, Crash
    PROVE  FreshValue' /\ ChildrenFirst'
BY StillStep DEF Crash, result

\* Statements and the rests of their handlers answer nobody.
LEMMA NoAnswer ==
    /\ Top.do \notin Rests \cup {"Visit"} => ~Answers(Top)
    /\ Top.do = "Visit" /\ Node.kind \notin ExpressionKinds => ~Answers(Top)
BY DEF Answers, Node, Rests

(***************************************************************************)
(* Expressions.                                                            *)
(***************************************************************************)
\* Handlers that leave a value, or say why they do not, or crash.
LEMMA ValuesFresh ==
    ASSUME TypeOK, FreshValue, ChildrenFirst,
           \/ VisitLiteralExpr \/ VisitVarExpr \/ VisitAllocExpr
           \/ VisitPrefixExpr \/ VisitPostfixExpr
           \/ ShortRight \/ BinRight \/ UnaryOp \/ CastOp \/ CallEnd
           \/ AssignStore \/ MemberLoad
    PROVE  FreshValue' /\ ChildrenFirst'
<1>. DEFINE Ends ==
         \/ Crash
         \/ \E text, subject : Report(text, subject)
         \/ Finish /\ valueOf' = Node /\ errors' = errors
<1>1. todo # <<>>
  BY DEF VisitLiteralExpr, VisitVarExpr, VisitAllocExpr, VisitPrefixExpr,
         VisitPostfixExpr, ShortRight, BinRight, UnaryOp, CastOp, CallEnd,
         AssignStore, MemberLoad, Visiting, Resuming, Running
<1>2. ASSUME VisitLiteralExpr \/ VisitVarExpr \/ VisitAllocExpr PROVE Ends
  BY <1>2 DEF VisitLiteralExpr, VisitVarExpr, VisitAllocExpr, Yield, Reject
<1>3. ASSUME VisitPrefixExpr \/ VisitPostfixExpr PROVE Ends
  <2>1. IncDec(TRUE) => Ends
    BY DEF IncDec, Yield, Reject
  <2>2. IncDec(FALSE) => Ends
    BY DEF IncDec, Yield, Reject
  <2>. QED
    BY <1>3, <2>1, <2>2 DEF VisitPrefixExpr, VisitPostfixExpr
<1>4. ASSUME ShortRight \/ BinRight \/ UnaryOp PROVE Ends
  BY <1>4 DEF ShortRight, BinRight, UnaryOp, Yield, Reject
<1>5. ASSUME CastOp \/ CallEnd \/ AssignStore \/ MemberLoad PROVE Ends
  BY <1>5 DEF CastOp, CallEnd, AssignStore, MemberLoad, Yield, Reject
<1>6. Ends
  BY <1>2, <1>3, <1>4, <1>5
<1>. QED
  BY <1>1, <1>6, CrashStep, ReportStep, FinishStep

\* Handlers that visit an operand and resume with its value.
LEMMA OperandsFresh ==
    ASSUME TypeOK, FreshValue, ChildrenFirst,
           \/ VisitBinaryExpr \/ ShortLeft \/ BinLeft \/ VisitUnaryExpr
           \/ VisitCastExpr \/ VisitAssignExpr \/ VisitMemberAccessExpr
    PROVE  FreshValue' /\ ChildrenFirst'
<1>1. todo # <<>> /\ Node \in AstNode /\ OwnKind(Top)
  BY TopType DEF VisitBinaryExpr, ShortLeft, BinLeft, VisitUnaryExpr, VisitCastExpr,
       VisitAssignExpr, VisitMemberAccessExpr, Descend, Visiting, Resuming, Running
<1>. DEFINE Visits(n, do) ==
         /\ \E vals, blks : Proceed(<<Visit(n), Task(do, Node, vals, blks)>>)
         /\ errors' = errors
<1>2. ASSUME NEW n, NEW do \in Rests, IsOperand(n), Visits(n, do),
             \A vals, blks : Awaited(Task(do, Node, vals, blks)) = n
      PROVE  FreshValue' /\ ChildrenFirst'
  BY <1>1, <1>2, PairStep
<1>3. CASE VisitBinaryExpr
  <2>1. Node.kind = "BinaryExpr"
    BY <1>3 DEF VisitBinaryExpr, Descend, Visiting
  <2>2. Visits(Node.left, "ShortLeft") \/ Visits(Node.left, "BinLeft")
    BY <1>3 DEF VisitBinaryExpr, Descend, Then
  <2>3. "ShortLeft" \in Rests /\ "BinLeft" \in Rests
    BY DEF Rests
  <2>. QED
    BY <1>1, <1>2, <2>1, <2>2, <2>3, OperandKinds, AwaitedBy
<1>4. CASE ShortLeft
  <2>1. Node.kind = "BinaryExpr"
    BY <1>1, <1>4 DEF ShortLeft, Resuming, OwnKind, Node
  <2>2. \/ Crash
        \/ \E text, subject : Reject(text, subject)
        \/ Visits(Node.right, "ShortRight")
    BY <1>4 DEF ShortLeft, ThenAt
  <2>3. "ShortRight" \in Rests
    BY DEF Rests
  <2>. QED
    BY <1>1, <1>2, <2>1, <2>2, <2>3, OperandKinds, AwaitedBy, CrashStep, RejectStep
<1>5. CASE BinLeft
  <2>1. Node.kind = "BinaryExpr"
    BY <1>1, <1>5 DEF BinLeft, Resuming, OwnKind, Node
  <2>2. Visits(Node.right, "BinRight")
    BY <1>5 DEF BinLeft, ThenWith
  <2>3. "BinRight" \in Rests
    BY DEF Rests
  <2>. QED
    BY <1>1, <1>2, <2>1, <2>2, <2>3, OperandKinds, AwaitedBy
<1>6. CASE VisitUnaryExpr
  <2>1. Node.kind = "UnaryExpr" /\ Visits(Node.operand, "UnaryOp")
    BY <1>6 DEF VisitUnaryExpr, Descend, Visiting, Then
  <2>2. "UnaryOp" \in Rests
    BY DEF Rests
  <2>. QED
    BY <1>1, <1>2, <2>1, <2>2, OperandKinds, AwaitedBy
<1>7. CASE VisitCastExpr
  <2>1. Node.kind = "CastExpr" /\ Visits(Node.expr, "CastOp")
    BY <1>7 DEF VisitCastExpr, Descend, Visiting, Then
  <2>2. "CastOp" \in Rests
    BY DEF Rests
  <2>. QED
    BY <1>1, <1>2, <2>1, <2>2, OperandKinds, AwaitedBy
<1>8. CASE VisitAssignExpr
  <2>1. Node.kind = "AssignExpr" /\ Visits(Node.value, "AssignStore")
    BY <1>8 DEF VisitAssignExpr, Descend, Visiting, Then
  <2>2. "AssignStore" \in Rests
    BY DEF Rests
  <2>. QED
    BY <1>1, <1>2, <2>1, <2>2, OperandKinds, AwaitedBy
<1>9. CASE VisitMemberAccessExpr
  <2>1. Node.kind = "MemberAccessExpr" /\ Visits(Node.object, "MemberLoad")
    BY <1>9 DEF VisitMemberAccessExpr, Descend, Visiting, Then
  <2>2. "MemberLoad" \in Rests
    BY DEF Rests
  <2>. QED
    BY <1>1, <1>2, <2>1, <2>2, OperandKinds, AwaitedBy
<1>. QED
  BY <1>3, <1>4, <1>5, <1>6, <1>7, <1>8, <1>9

\* A call visits its arguments one after the other, then ends.
LEMMA CallsFresh ==
    ASSUME TypeOK, FreshValue, ChildrenFirst, VisitCallExpr \/ CallArg
    PROVE  FreshValue' /\ ChildrenFirst'
<1>1. /\ todo # <<>> /\ Node \in AstNode /\ Node.kind = "CallExpr"
      /\ Top.vals \in Seq(Values) /\ m_LastValue \in Values
  BY TopType DEF VisitCallExpr, CallArg, Visiting, Resuming, Running, OwnKind, Node,
                 TypeOK
<1>2. PICK args \in Seq(Values) : Proceed(NextArgument(args))
  <2>1. <<>> \in Seq(Values) /\ Append(Top.vals, m_LastValue) \in Seq(Values)
    BY <1>1
  <2>. QED
    BY <2>1 DEF VisitCallExpr, CallArg
<1>3. CASE errors' # {}
  BY <1>3 DEF FreshValue, ChildrenFirst
<1>4. errors' = {} => errors = {}
  BY DEF VisitCallExpr, CallArg, Report
<1>5. CASE Len(args) < Len(Node.arguments)
  <2>. DEFINE n == Node.arguments[Len(args) + 1]
  <2>1. Proceed(<<Visit(n), Task("CallArg", Node, args, <<>>)>>)
    BY <1>2, <1>5 DEF NextArgument, ThenWith
  <2>2. Awaited(Task("CallArg", Node, args, <<>>)) = n
    BY AwaitedBy
  <2>3. IsOperand(n)
    <3>1. Node.arguments \in Seq(AstNode)
      BY <1>1, ExpressionMembers
    <3>2. Len(args) + 1 \in DOMAIN Node.arguments
      BY <1>2, <1>5, <3>1, LenProperties
    <3>. QED
      BY <1>1, <3>2, OperandKinds
  <2>. HIDE DEF n
  <2>. QED
    BY <1>1, <1>4, <2>1, <2>2, <2>3, PairStep DEF Rests
<1>6. CASE ~(Len(args) < Len(Node.arguments))
  <2>. DEFINE u == Task("CallEnd", Node, args, <<>>)
  <2>1. Proceed(<<u>>)
    BY <1>2, <1>6 DEF NextArgument, ThenWith
  <2>2. Awaited(u) = Null
    BY AwaitsNothing
  <2>3. Answers(u) /\ u.node = Node
    BY DEF Answers, Rests, Task
  <2>. HIDE DEF u
  <2>4. <<u>> \in Seq({u}) /\ <<u>> # <<>> /\ Len(<<u>>) = 1 /\ <<u>>[1] = u
    OBVIOUS
  <2>5. Chained(<<u>>)
    BY <2>4 DEF Chained
  <2>. QED
    BY <1>1, <1>4, <2>1, <2>2, <2>3, <2>4, <2>5, AgendaStep
<1>. QED
  BY <1>5, <1>6

(***************************************************************************)
(* Statements.                                                             *)
(***************************************************************************)
\* Statements that visit an expression and resume with its value.
LEMMA ConditionsFresh ==
    ASSUME TypeOK, FreshValue, ChildrenFirst,
           \/ VisitVariableDecl \/ VisitReturnStatement \/ VisitIfStatement
           \/ VisitWhileStatement
    PROVE  FreshValue' /\ ChildrenFirst'
<1>1. /\ todo # <<>> /\ Node \in AstNode /\ Top.do = "Visit"
      /\ Node.kind \in {"VariableDecl", "ReturnStatement", "IfStatement",
                        "WhileStatement"}
  BY TopType DEF VisitVariableDecl, VisitReturnStatement, VisitIfStatement,
       VisitWhileStatement, Descend, Visiting, Running
<1>2. ~Answers(Top)
  BY <1>1, NoAnswer DEF ExpressionKinds
<1>. DEFINE Visits(n, do) ==
         /\ \E vals, blks : Proceed(<<Visit(n), Task(do, Node, vals, blks)>>)
         /\ errors' = errors
<1>3. ASSUME NEW n, NEW do, IsOperand(n), Visits(n, do),
             \A vals, blks : Awaited(Task(do, Node, vals, blks)) = n
      PROVE  FreshValue' /\ ChildrenFirst'
  BY <1>1, <1>2, <1>3, PairStep
<1>4. CASE VisitVariableDecl
  <2>1. Node.kind = "VariableDecl"
    BY <1>4 DEF VisitVariableDecl, Visiting
  <2>2. \/ Crash
        \/ \E text, subject : Reject(text, subject)
        \/ Visits(Node.initializer, "InferredInit")
        \/ Visits(Node.initializer, "ExplicitInit")
        \/ Finish /\ errors' = errors
    BY <1>4 DEF VisitVariableDecl, Then, ThenWith
  <2>3. IsOperand(Node.initializer)
    BY <1>1, <2>1, OperandKinds
  <2>4. \A do \in {"InferredInit", "ExplicitInit"} : \A vals, blks :
           Awaited(Task(do, Node, vals, blks)) = Node.initializer
    BY AwaitedBy
  <2>5. ASSUME NEW do \in {"InferredInit", "ExplicitInit"}, Visits(Node.initializer, do)
        PROVE  FreshValue' /\ ChildrenFirst'
    BY <1>3, <2>3, <2>4, <2>5
  <2>. HIDE DEF Visits
  <2>. QED
    BY <1>1, <1>2, <2>2, <2>5, CrashStep, RejectStep, FinishStep
<1>5. CASE VisitReturnStatement
  <2>1. Node.kind = "ReturnStatement"
    BY <1>5 DEF VisitReturnStatement, Visiting
  <2>2. Visits(Node.value, "ReturnValue") \/ (Finish /\ errors' = errors)
    BY <1>5 DEF VisitReturnStatement, Then
  <2>. QED
    BY <1>1, <1>2, <1>3, <2>1, <2>2, OperandKinds, AwaitedBy, FinishStep
<1>6. CASE VisitIfStatement
  <2>1. Node.kind = "IfStatement" /\ Visits(Node.condition, "IfCond")
    BY <1>6 DEF VisitIfStatement, Descend, Visiting, Then
  <2>2. /\ IsOperand(Node.condition)
        /\ \A vals, blks : Awaited(Task("IfCond", Node, vals, blks)) = Node.condition
    BY <1>1, <2>1, OperandKinds, AwaitedBy
  <2>. QED
    BY <1>3, <2>1, <2>2
<1>7. CASE VisitWhileStatement
  <2>1. Node.kind = "WhileStatement" /\ Visits(Node.condition, "WhileCond")
    BY <1>7 DEF VisitWhileStatement, Visiting, ThenAt
  <2>2. /\ IsOperand(Node.condition)
        /\ \A vals, blks : Awaited(Task("WhileCond", Node, vals, blks)) = Node.condition
    BY <1>1, <2>1, OperandKinds, AwaitedBy
  <2>. QED
    BY <1>3, <2>1, <2>2
<1>. QED
  BY <1>4, <1>5, <1>6, <1>7

\* Nothing, or one visit: such a part of an agenda waits for nothing.
LEMMA IfPresentQuiet ==
    ASSUME NEW n, NEW u, Awaited(u) = Null
    PROVE  /\ IfPresent(n) \in Seq({Visit(n), u})
           /\ IfPresent(n) \o <<u>> \in Seq({Visit(n), u})
           /\ \A k \in DOMAIN IfPresent(n) : Awaited(IfPresent(n)[k]) = Null
           /\ \A k \in DOMAIN (IfPresent(n) \o <<u>>) :
                 Awaited((IfPresent(n) \o <<u>>)[k]) = Null
<1>. DEFINE S == {Visit(n), u}
<1>1. \A t \in S : Awaited(t) = Null
  BY AwaitsNothing DEF Visit
<1>2. ASSUME NEW s \in Seq(S) PROVE \A k \in DOMAIN s : Awaited(s[k]) = Null
  <2>1. \A k \in DOMAIN s : s[k] \in S
    BY <1>2
  <2>. QED
    BY <1>1, <2>1
<1>3. <<>> \in Seq(S) /\ <<Visit(n)>> \in Seq(S) /\ <<u>> \in Seq(S)
  OBVIOUS
<1>4. IfPresent(n) \in Seq(S)
  BY <1>3 DEF IfPresent
<1>. HIDE DEF S
<1>5. IfPresent(n) \o <<u>> \in Seq(S)
  BY <1>3, <1>4, ConcatProperties
<1>. QED
  BY <1>2, <1>4, <1>5 DEF S

\* Statements that start others and wait for no value.
LEMMA StartersFresh ==
    ASSUME TypeOK, FreshValue, ChildrenFirst,
           \/ VisitBlockStatement \/ Statement \/ VisitExprStatement
           \/ VisitForStatement \/ IfCond \/ IfElse \/ WhileCond
           \/ UnrollStart \/ ForCond \/ ForUpdate
    PROVE  FreshValue' /\ ChildrenFirst'
<1>1. todo # <<>> /\ Node \in AstNode
  BY TopType DEF VisitBlockStatement, Statement, VisitExprStatement,
       VisitForStatement, IfCond, IfElse, WhileCond, UnrollStart, ForCond, ForUpdate,
       Descend, Visiting, Resuming, Running
<1>2. ~Answers(Top)
  <2>1. CASE VisitBlockStatement \/ VisitExprStatement \/ VisitForStatement
    BY <2>1, NoAnswer DEF VisitBlockStatement, VisitExprStatement, VisitForStatement,
         Descend, Visiting, ExpressionKinds
  <2>2. CASE ~(VisitBlockStatement \/ VisitExprStatement \/ VisitForStatement)
    <3>1. Top.do \in {"Statement", "IfCond", "IfElse", "WhileCond", "UnrollStart",
                      "ForCond", "ForUpdate"}
      BY <2>2 DEF Statement, IfCond, IfElse, WhileCond, UnrollStart, ForCond,
           ForUpdate, Resuming
    <3>. QED
      BY <3>1, NoAnswer DEF Rests
  <2>. QED
    BY <2>1, <2>2
<1>3. ASSUME NEW S, NEW tasks \in Seq(S), Proceed(tasks), errors' = errors,
             \A k \in DOMAIN tasks : Awaited(tasks[k]) = Null
      PROVE  FreshValue' /\ ChildrenFirst'
  BY <1>1, <1>2, <1>3, QuietStep
<1>4. ASSUME NEW n, NEW do \in {"IfElse", "WhileEnd", "ForUpdate"}, NEW blks,
             Proceed(<<Visit(n), Task(do, Node, <<>>, blks)>>), errors' = errors
      PROVE  FreshValue' /\ ChildrenFirst'
  <2>. DEFINE u == Task(do, Node, <<>>, blks)
              tasks == <<Visit(n), u>>
  <2>1. Awaited(Visit(n)) = Null /\ Awaited(u) = Null
    BY AwaitsNothing DEF Visit
  <2>2. Proceed(tasks)
    BY <1>4
  <2>. HIDE DEF u
  <2>3. tasks \in Seq({Visit(n), u}) /\ \A k \in DOMAIN tasks : Awaited(tasks[k]) = Null
    BY <2>1
  <2>. HIDE DEF tasks
  <2>. QED
    BY <1>3, <1>4, <2>2, <2>3
<1>5. ASSUME NEW n, NEW do \in {"UnrollStart", "ForBlocks", "IfMerge", "ForEnd"}, NEW blks,
             errors' = errors,
             \/ Proceed(IfPresent(n))
             \/ Proceed(IfPresent(n) \o <<Task(do, Node, <<>>, blks)>>)
      PROVE  FreshValue' /\ ChildrenFirst'
  <2>. DEFINE u == Task(do, Node, <<>>, blks)
  <2>1. Awaited(u) = Null
    BY AwaitsNothing
  <2>. HIDE DEF u
  <2>2. /\ IfPresent(n) \in Seq({Visit(n), u})
        /\ IfPresent(n) \o <<u>> \in Seq({Visit(n), u})
        /\ \A k \in DOMAIN IfPresent(n) : Awaited(IfPresent(n)[k]) = Null
        /\ \A k \in DOMAIN (IfPresent(n) \o <<u>>) :
              Awaited((IfPresent(n) \o <<u>>)[k]) = Null
    BY <2>1, IfPresentQuiet
  <2>. DEFINE one == IfPresent(n)
              two == IfPresent(n) \o <<u>>
  <2>3. errors' = errors /\ (Proceed(one) \/ Proceed(two))
    BY <1>5 DEF u
  <2>. HIDE DEF one, two
  <2>4. CASE Proceed(one)
    BY <1>3, <2>2, <2>3, <2>4 DEF one
  <2>5. CASE Proceed(two)
    BY <1>3, <2>2, <2>3, <2>5 DEF two
  <2>. QED
    BY <2>3, <2>4, <2>5
<1>6. CASE VisitBlockStatement
  <2>. DEFINE tasks == [k \in DOMAIN Node.statements |->
                           Task("Statement", Node.statements[k], <<>>, <<>>)]
              S == {Task("Statement", n, <<>>, <<>>) : n \in AstNode}
  <2>1. Node.statements \in Seq(AstNode)
    BY <1>1, <1>6, StatementMembers DEF VisitBlockStatement, Descend, Visiting
  <2>2. DOMAIN Node.statements = 1..Len(Node.statements) /\ Len(Node.statements) \in Nat
    BY <2>1, LenProperties
  <2>3. \A k \in DOMAIN Node.statements : tasks[k] \in S
    BY <2>1
  <2>4. tasks \in Seq(S)
    <3>. HIDE DEF S
    <3>1. \A k \in 1..Len(Node.statements) : tasks[k] \in S
      BY <2>2, <2>3
    <3>2. tasks = [k \in 1..Len(Node.statements) |-> tasks[k]]
      BY <2>2
    <3>. DEFINE len == Len(Node.statements)
    <3>3. tasks \in [1..len -> S] /\ len \in Nat
      BY <2>2, <3>1, <3>2
    <3>. HIDE DEF tasks, len
    <3>. QED
      BY <3>3
  <2>5. \A k \in DOMAIN tasks : Awaited(tasks[k]) = Null
    BY AwaitsNothing
  <2>6. Proceed(tasks) /\ errors' = errors
    BY <1>6 DEF VisitBlockStatement, Descend
  <2>. HIDE DEF tasks, S
  <2>. QED
    BY <1>3, <2>4, <2>5, <2>6
<1>7. CASE Statement \/ VisitExprStatement \/ IfElse \/ ForUpdate
  BY <1>5, <1>7 DEF Statement, VisitExprStatement, IfElse, ForUpdate, Descend, ThenAt
<1>8. CASE VisitForStatement
  <2>1. CASE Unrolled(Node)
    <3>. DEFINE u == Task("UnrollStart", Node, <<>>, <<>>)
                tasks == <<Visit(Node.init), u>>
    <3>1. Awaited(Visit(Node.init)) = Null /\ Awaited(u) = Null
      BY AwaitsNothing DEF Visit
    <3>2. Proceed(tasks) /\ errors' = errors
      BY <1>8, <2>1 DEF VisitForStatement, Descend, Then
    <3>. HIDE DEF u
    <3>3. /\ tasks \in Seq({Visit(Node.init), u})
          /\ \A k \in DOMAIN tasks : Awaited(tasks[k]) = Null
      BY <3>1
    <3>. HIDE DEF tasks
    <3>. QED
      BY <1>3, <3>2, <3>3
  <2>2. CASE ~Unrolled(Node)
    BY <1>5, <1>8, <2>2 DEF VisitForStatement, Descend, Then
  <2>. QED
    BY <2>1, <2>2
<1>9. CASE IfCond \/ WhileCond \/ ForCond
  <2>1. \/ \E text, subject : Reject(text, subject)
        \/ /\ errors' = errors
           /\ \E n, blks : \E do \in {"IfElse", "WhileEnd", "ForUpdate"} :
                 Proceed(<<Visit(n), Task(do, Node, <<>>, blks)>>)
    BY <1>9 DEF IfCond, WhileCond, ForCond, ThenAt
  <2>. QED
    BY <1>4, <2>1, RejectStep
<1>10. CASE UnrollStart
  <2>. DEFINE info == AnalyzeForUnroll(Node)
              slot == m_variables[info.varName].value
              tasks == Iterations(info, slot)
  <2>1. \/ Crash
        \/ \E text, subject : Reject(text, subject)
        \/ info.varName \in DOMAIN m_variables /\ Proceed(tasks) /\ errors' = errors
    BY <1>10 DEF UnrollStart
  <2>2. ASSUME info.varName \in DOMAIN m_variables, Proceed(tasks), errors' = errors
        PROVE  FreshValue' /\ ChildrenFirst'
    <3>1. Node.kind = "ForStatement"
      BY <1>1, <1>10, TopType DEF UnrollStart, Resuming, OwnKind, Node
    <3>2. info.start \in Int /\ info.step \in Int /\ info.tripCount \in Nat
      BY <1>1, <3>1, AnalysisType
    <3>3. slot \in Values
      BY <2>2 DEF TypeOK, VariableInfos
    <3>. HIDE DEF info, slot
    <3>4. tasks \in Seq(TasksIn(ir))
      BY <1>1, <3>1, <3>2, <3>3, IterationsType
    <3>5. \A k \in DOMAIN tasks : Awaited(tasks[k]) = Null
      <4>. SUFFICES ASSUME NEW k \in DOMAIN tasks PROVE Awaited(tasks[k]) = Null
        OBVIOUS
      <4>1. \/ tasks[k] = Visit(Node.body)
            \/ \E vals : tasks[k] = Task("UnrollStore", Node, vals, <<>>)
        BY DEF Iterations, ThenWith
      <4>. QED
        BY <4>1, AwaitsNothing DEF Visit
    <3>. HIDE DEF tasks
    <3>. QED
      BY <1>3, <2>2, <3>4, <3>5 DEF tasks
  <2>. QED
    BY <2>1, <2>2, CrashStep, RejectStep
<1>. QED
  BY <1>6, <1>7, <1>8, <1>9, <1>10

\* Without a condition the for loop resumes with nothing to read.
LEMMA ForBlocksFresh ==
    ASSUME TypeOK, FreshValue, ChildrenFirst, ForBlocks
    PROVE  FreshValue' /\ ChildrenFirst'
<1>1. /\ todo # <<>> /\ Node \in AstNode /\ Node.kind = "ForStatement"
      /\ Top.do = "ForBlocks" /\ errors' = errors
  BY TopType DEF ForBlocks, Resuming, Running, OwnKind, Node
<1>2. ~Answers(Top) /\ IsOperand(Node.condition)
  BY <1>1, NoAnswer, OperandKinds DEF Rests
<1>3. PICK blks : Proceed(IfPresent(Node.condition) \o <<Task("ForCond", Node, <<>>, blks)>>)
  BY DEF ForBlocks, ThenAt
<1>. DEFINE u == Task("ForCond", Node, <<>>, blks)
<1>4. Awaited(u) = Node.condition
  BY AwaitedBy
<1>5. CASE Node.condition = Null
  <2>. HIDE DEF u
  <2>1. /\ IfPresent(Node.condition) \o <<u>> \in Seq({Visit(Node.condition), u})
        /\ \A k \in DOMAIN (IfPresent(Node.condition) \o <<u>>) :
              Awaited((IfPresent(Node.condition) \o <<u>>)[k]) = Null
    BY <1>4, <1>5, IfPresentQuiet
  <2>. DEFINE tasks == IfPresent(Node.condition) \o <<u>>
  <2>2. Proceed(tasks)
    BY <1>3 DEF u
  <2>. HIDE DEF tasks
  <2>. QED
    BY <1>1, <1>2, <2>1, <2>2, QuietStep DEF tasks
<1>6. CASE Node.condition # Null
  <2>1. IfPresent(Node.condition) \o <<u>> = <<Visit(Node.condition), u>>
    <3>. DEFINE v == Visit(Node.condition)
    <3>1. IfPresent(Node.condition) = <<v>>
      BY <1>6 DEF IfPresent
    <3>. HIDE DEF u, v
    <3>2. <<v>> \o <<u>> = <<v, u>>
      <4>1. <<v>> \in Seq({v, u}) /\ <<v, u>> = Append(<<v>>, u)
        OBVIOUS
      <4>. QED
        BY <4>1, AppendIsConcat
    <3>3. IfPresent(Node.condition) \o <<u>> = <<v, u>>
      BY <3>1, <3>2
    <3>. QED
      BY <3>3 DEF v
  <2>2. Proceed(<<Visit(Node.condition), Task("ForCond", Node, <<>>, blks)>>)
    BY <1>3, <2>1
  <2>. QED
    BY <1>1, <1>2, <1>4, <2>2, PairStep
<1>. QED
  BY <1>5, <1>6

\* The rests of statements that end them.
LEMMA EndersFresh ==
    ASSUME TypeOK, FreshValue, ChildrenFirst,
           \/ InferredInit \/ ExplicitInit \/ ReturnValue \/ IfMerge
           \/ WhileEnd \/ UnrollStore \/ ForEnd
    PROVE  FreshValue' /\ ChildrenFirst'
<1>1. /\ todo # <<>>
      /\ Top.do \in {"InferredInit", "ExplicitInit", "ReturnValue", "IfMerge",
                     "WhileEnd", "UnrollStore", "ForEnd"}
  BY DEF InferredInit, ExplicitInit, ReturnValue, IfMerge, WhileEnd, UnrollStore,
         ForEnd, Resuming, Running
<1>2. ~Answers(Top)
  BY <1>1, NoAnswer DEF Rests
<1>3. \/ Crash
      \/ \E text, subject : Reject(text, subject)
      \/ Finish /\ errors' = errors
  BY DEF InferredInit, ExplicitInit, ReturnValue, IfMerge, WhileEnd, UnrollStore, ForEnd
<1>. QED
  BY <1>1, <1>2, <1>3, CrashStep, RejectStep, FinishStep

\* A function starts with its body, a statement, and ends with an empty agenda.
LEMMA DeclarationsFresh ==
    ASSUME TypeOK, FreshValue, ChildrenFirst, Declarations
    PROVE  FreshValue' /\ ChildrenFirst'
<1>1. CASE VisitInterfaceDecl \/ VisitStructDecl
  BY <1>1, StillStep DEF VisitInterfaceDecl, VisitStructDecl, result
<1>2. CASE VisitFunctionDecl
  <2>. DEFINE body == Head(pending).body
  <2>1. todo' = <<>> \/ todo' = <<Visit(body)>>
    BY <1>2 DEF VisitFunctionDecl, IfPresent
  <2>2. Awaited(Visit(body)) = Null
    BY AwaitsNothing DEF Visit
  <2>. HIDE DEF body
  <2>3. Len(todo') - 1 <= 0 /\ (todo' # <<>> => Head(todo') = Visit(body))
    BY <2>1
  <2>. QED
    BY <2>2, <2>3 DEF FreshValue, ChildrenFirst, Chained, Top
<1>3. CASE EndFunctionDecl
  <2>1. todo' = <<>>
    BY <1>3 DEF EndFunctionDecl, Between
  <2>. QED
    BY <2>1 DEF FreshValue, ChildrenFirst, Chained
<1>. QED
  BY <1>1, <1>2, <1>3 DEF Declarations

(***************************************************************************)
(* The theorem.                                                            *)
(***************************************************************************)
\* As long as nothing has been reported, a handler that reads m_LastValue reads
\* what the child it has just visited left there, whatever the program: no
\* statement, call or nested operator between the two leaves another value in
\* its place.
THEOREM ValuesAreFresh == Spec => []FreshValue
<1>. DEFINE IInv == TypeOK /\ FreshValue /\ ChildrenFirst
<1>1. Init => IInv
  <2>1. Init => FreshValue /\ ChildrenFirst
    <3>1. Init => todo = <<>>
      BY DEF Init
    <3>2. Chained(<<>>)
      BY DEF Chained
    <3>. QED
      BY <3>1, <3>2 DEF FreshValue, ChildrenFirst
  <2>. QED
    BY <2>1, InitTypes
<1>2. IInv /\ [Next]_vars => IInv'
  <2>. SUFFICES ASSUME TypeOK, FreshValue, ChildrenFirst, [Next]_vars
                PROVE  TypeOK' /\ FreshValue' /\ ChildrenFirst'
    OBVIOUS
  <2>1. TypeOK'
    BY NextTypes, StutterTypes
  <2>2. CASE Expressions
    BY <2>1, <2>2, ValuesFresh, OperandsFresh, CallsFresh DEF Expressions
  <2>3. CASE Statements
    <3>1. VisitNull => Crash
      BY DEF VisitNull
    <3>. QED
      BY <2>1, <2>3, <3>1, CrashStep, ConditionsFresh, StartersFresh, ForBlocksFresh,
         EndersFresh DEF Statements
  <2>4. CASE Declarations
    BY <2>1, <2>4, DeclarationsFresh
  <2>5. CASE UNCHANGED vars
    BY <2>1, <2>5, StillStep DEF vars, result
  <2>. QED
    BY <2>2, <2>3, <2>4, <2>5 DEF Next
<1>3. IInv => FreshValue
  OBVIOUS
<1>. QED
  BY <1>1, <1>2, <1>3, PTL DEF Spec

(***************************************************************************)
(* Null pointers.  As long as nothing has been reported, whatever waits on *)
(* the agenda belongs to a whole tree, and calls that are under way have   *)
(* their callee.                                                           *)
(***************************************************************************)
Sound(t) ==
    /\ t.node \in WholeNode
    /\ t.do \in {"CallArg", "CallEnd"} => t.node.callee \in DOMAIN m_functions

AllSound ==
    errors = {} =>
        /\ pending \in Seq(WholeNode)
        /\ \A k \in DOMAIN todo : Sound(todo[k])

\* The children that a handler visits without looking whether they are there.
LEMMA WholeMembers ==
    ASSUME NEW n \in WholeNode
    PROVE  /\ n \in AstNode /\ n # Null
           /\ n.kind = "BinaryExpr" => n.left \in WholeNode /\ n.right \in WholeNode
           /\ n.kind = "UnaryExpr" => n.operand \in WholeNode
           /\ n.kind = "CastExpr" => n.expr \in WholeNode
           /\ n.kind = "AssignExpr" => n.value \in WholeNode
           /\ n.kind = "MemberAccessExpr" => n.object \in WholeNode
           /\ n.kind = "CallExpr" =>
                 \A k \in DOMAIN n.arguments : n.arguments[k] \in WholeNode
           /\ n.kind = "IfStatement" =>
                 n.condition \in WholeNode /\ n.thenBranch \in WholeNode
           /\ n.kind = "WhileStatement" =>
                 n.condition \in WholeNode /\ n.body \in WholeNode
           /\ n.kind = "ForStatement" => n.body \in WholeNode
           /\ n.kind = "BlockStatement" =>
                 \A k \in DOMAIN n.statements : n.statements[k] \in WholeNode
<1>. DEFINE W == WholeNode \cup {Null}
<1>1. ~Hole(n) /\ Children(n) \in Seq(W) /\ n \in AstNode /\ n # Null
  BY HoleAssumption
<1>2. \A k \in DOMAIN Children(n) : Children(n)[k] \in W
  BY <1>1
<1>3. ASSUME NEW a, Children(n) = <<a>> PROVE a \in W
  <2>1. 1 \in DOMAIN Children(n) /\ Children(n)[1] = a
    BY <1>3
  <2>. QED
    BY <1>2, <2>1
<1>4. ASSUME NEW a, NEW b, Children(n) = <<a, b>> PROVE a \in W /\ b \in W
  <2>1. /\ 1 \in DOMAIN Children(n) /\ Children(n)[1] = a
        /\ 2 \in DOMAIN Children(n) /\ Children(n)[2] = b
    BY <1>4
  <2>. QED
    BY <1>2, <2>1
<1>5. n.kind \in {"UnaryExpr", "CastExpr", "AssignExpr", "MemberAccessExpr"} =>
         /\ n.kind = "UnaryExpr" => Children(n) = <<n.operand>> /\ n.operand # Null
         /\ n.kind = "CastExpr" => Children(n) = <<n.expr>> /\ n.expr # Null
         /\ n.kind = "AssignExpr" => Children(n) = <<n.value>> /\ n.value # Null
         /\ n.kind = "MemberAccessExpr" => Children(n) = <<n.object>> /\ n.object # Null
  BY <1>1 DEF Children, Hole
<1>6. /\ n.kind = "BinaryExpr" =>
            Children(n) = <<n.left, n.right>> /\ n.left # Null /\ n.right # Null
      /\ n.kind = "WhileStatement" =>
            Children(n) = <<n.condition, n.body>> /\ n.condition # Null /\ n.body # Null
  BY <1>1 DEF Children, Hole
<1>7. n.kind = "IfStatement" => n.condition \in WholeNode /\ n.thenBranch \in WholeNode
  <2>. SUFFICES ASSUME n.kind = "IfStatement"
                PROVE  n.condition \in WholeNode /\ n.thenBranch \in WholeNode
    OBVIOUS
  <2>1. Children(n) = <<n.condition, n.thenBranch, n.elseBranch>>
    BY DEF Children
  <2>2. /\ 1 \in DOMAIN Children(n) /\ Children(n)[1] = n.condition
        /\ 2 \in DOMAIN Children(n) /\ Children(n)[2] = n.thenBranch
    BY <2>1
  <2>3. n.condition # Null /\ n.thenBranch # Null
    BY <1>1 DEF Hole
  <2>. QED
    BY <1>2, <2>2, <2>3
<1>8. n.kind = "ForStatement" => n.body \in WholeNode
  <2>. SUFFICES ASSUME n.kind = "ForStatement"
                PROVE  n.body \in WholeNode
    OBVIOUS
  <2>1. Children(n) = <<n.init, n.condition, n.update, n.body>>
    BY DEF Children
  <2>2. 4 \in DOMAIN Children(n) /\ Children(n)[4] = n.body
    BY <2>1
  <2>3. n.body # Null
    BY <1>1 DEF Hole
  <2>. QED
    BY <1>2, <2>2, <2>3
<1>9. n.kind = "CallExpr" => \A k \in DOMAIN n.arguments : n.arguments[k] \in WholeNode
  <2>1. n.kind = "CallExpr" =>
           Children(n) = n.arguments /\ \A k \in DOMAIN n.arguments : n.arguments[k] # Null
    BY <1>1 DEF Children, Hole
  <2>. QED
    BY <1>2, <2>1
<1>10. n.kind = "BlockStatement" =>
          \A k \in DOMAIN n.statements : n.statements[k] \in WholeNode
  <2>1. n.kind = "BlockStatement" =>
           Children(n) = n.statements /\ \A k \in DOMAIN n.statements : n.statements[k] # Null
    BY <1>1 DEF Children, Hole
  <2>. QED
    BY <1>2, <2>1
<1>11. /\ n.kind = "UnaryExpr" => n.operand \in WholeNode
       /\ n.kind = "CastExpr" => n.expr \in WholeNode
       /\ n.kind = "AssignExpr" => n.value \in WholeNode
       /\ n.kind = "MemberAccessExpr" => n.object \in WholeNode
  BY <1>3, <1>5
<1>12. /\ n.kind = "BinaryExpr" => n.left \in WholeNode /\ n.right \in WholeNode
       /\ n.kind = "WhileStatement" => n.condition \in WholeNode /\ n.body \in WholeNode
  BY <1>4, <1>6
<1>. QED
  BY <1>1, <1>7, <1>8, <1>9, <1>10, <1>11, <1>12

\* The children that a handler visits only if they are there.
LEMMA OptionalMembers ==
    ASSUME NEW n \in WholeNode
    PROVE  /\ n.kind = "VariableDecl" => n.initializer \in WholeNode \cup {Null}
           /\ n.kind = "ReturnStatement" => n.value \in WholeNode \cup {Null}
           /\ n.kind = "ExprStatement" => n.expression \in WholeNode \cup {Null}
           /\ n.kind = "FunctionDecl" => n.body \in WholeNode \cup {Null}
           /\ n.kind = "IfStatement" => n.elseBranch \in WholeNode \cup {Null}
           /\ n.kind = "ForStatement" =>
                 /\ n.init \in WholeNode \cup {Null}
                 /\ n.condition \in WholeNode \cup {Null}
                 /\ n.update \in WholeNode \cup {Null}
<1>. DEFINE W == WholeNode \cup {Null}
<1>1. Children(n) \in Seq(W)
  BY HoleAssumption
<1>2. \A k \in DOMAIN Children(n) : Children(n)[k] \in W
  BY <1>1
<1>3. ASSUME NEW a, Children(n) = <<a>> PROVE a \in W
  <2>1. 1 \in DOMAIN Children(n) /\ Children(n)[1] = a
    BY <1>3
  <2>. QED
    BY <1>2, <2>1
<1>4. /\ n.kind = "VariableDecl" => Children(n) = <<n.initializer>>
      /\ n.kind = "ReturnStatement" => Children(n) = <<n.value>>
      /\ n.kind = "ExprStatement" => Children(n) = <<n.expression>>
      /\ n.kind = "FunctionDecl" => Children(n) = <<n.body>>
  BY DEF Children
<1>5. n.kind = "IfStatement" => n.elseBranch \in W
  <2>. SUFFICES ASSUME n.kind = "IfStatement" PROVE n.elseBranch \in W
    OBVIOUS
  <2>1. Children(n) = <<n.condition, n.thenBranch, n.elseBranch>>
    BY DEF Children
  <2>2. 3 \in DOMAIN Children(n) /\ Children(n)[3] = n.elseBranch
    BY <2>1
  <2>. QED
    BY <1>2, <2>2
<1>6. n.kind = "ForStatement" => n.init \in W /\ n.condition \in W /\ n.update \in W
  <2>. SUFFICES ASSUME n.kind = "ForStatement"
                PROVE  n.init \in W /\ n.condition \in W /\ n.update \in W
    OBVIOUS
  <2>1. Children(n) = <<n.init, n.condition, n.update, n.body>>
    BY DEF Children
  <2>2. /\ 1 \in DOMAIN Children(n) /\ Children(n)[1] = n.init
        /\ 2 \in DOMAIN Children(n) /\ Children(n)[2] = n.condition
        /\ 3 \in DOMAIN Children(n) /\ Children(n)[3] = n.update
    BY <2>1
  <2>. QED
    BY <1>2, <2>2
<1>. QED
  BY <1>3, <1>4, <1>5, <1>6

Silence == AllSound /\ NullDereferenceReported

LEMMA TopSound ==
    ASSUME TypeOK, AllSound, todo # <<>>, errors = {}
    PROVE  /\ Sound(Top) /\ Node \in WholeNode /\ Node # Null
<1>1. Len(todo) > 0 /\ Top = todo[1] /\ DOMAIN todo = 1..Len(todo) /\ Len(todo) \in Nat
  BY LenProperties DEF TypeOK, Top
<1>2. 1 \in DOMAIN todo
  BY <1>1
<1>3. Sound(Top)
  BY <1>1, <1>2 DEF AllSound
<1>. QED
  BY <1>3, WholeMembers DEF Sound, Node

LEMMA ReportSound ==
    ASSUME NEW text, NEW subject, Report(text, subject) \/ Reject(text, subject)
    PROVE  Silence'
<1>1. errors' # {}
  BY DEF Report, Reject
<1>. QED
  BY <1>1 DEF Silence, AllSound, NullDereferenceReported

LEMMA CrashSound ==
    ASSUME TypeOK, Silence, todo # <<>>, Crash, Top.do \notin {"CastOp", "CallEnd"}
    PROVE  Silence'
<1>1. UNCHANGED <<pending, m_functions, todo, errors>>
  BY DEF Crash, module
<1>2. errors = {} => Node # Null
  BY TopSound DEF Silence
<1>. QED
  BY <1>1, <1>2 DEF Silence, AllSound, Sound, NullDereferenceReported, Node, Top

\* In general: the tasks put on the agenda are sound if those on it are.
LEMMA SoundStep ==
    ASSUME TypeOK, Silence, todo # <<>>, UNCHANGED <<pending, m_functions>>,
           ~crashed', errors' = {} => errors = {},
           NEW S, NEW tasks \in Seq(S), Proceed(tasks),
           errors' = {} => \A k \in DOMAIN tasks : Sound(tasks[k])
    PROVE  Silence'
<1>. SUFFICES ASSUME errors' = {}
              PROVE  /\ pending' \in Seq(WholeNode)
                     /\ \A k \in DOMAIN todo' : Sound(todo'[k])
  BY DEF Silence, AllSound, NullDereferenceReported, Sound
<1>1. /\ pending \in Seq(WholeNode)
      /\ \A k \in DOMAIN todo : Sound(todo[k])
      /\ \A k \in DOMAIN tasks : Sound(tasks[k])
  BY DEF Silence, AllSound
<1>2. /\ \A k \in DOMAIN tasks : todo'[k] = tasks[k]
      /\ \A k \in DOMAIN todo' \ DOMAIN tasks :
            /\ Was(k, tasks) \in DOMAIN todo
            /\ todo'[k] = todo[Was(k, tasks)]
  BY Agenda
<1>. QED
  BY <1>1, <1>2

LEMMA FinishSound ==
    ASSUME TypeOK, Silence, todo # <<>>, UNCHANGED <<pending, m_functions>>,
           ~crashed', errors' = {} => errors = {}, Finish
    PROVE  Silence'
<1>. DEFINE tasks == <<>>
<1>1. tasks \in Seq({}) /\ Proceed(tasks) /\ DOMAIN tasks = {}
  BY DEF Finish
<1>. HIDE DEF tasks
<1>. QED
  BY <1>1, SoundStep

\* A handler visits a child and goes on as u, or ends with the visit.
LEMMA VisitSound ==
    ASSUME TypeOK, Silence, todo # <<>>, UNCHANGED <<pending, m_functions>>,
           ~crashed', errors' = errors,
           NEW n, NEW u, u.node = Node, u.do \notin {"CallArg", "CallEnd"},
           \/ /\ errors = {} => n \in WholeNode
              /\ Proceed(<<Visit(n), u>>)
           \/ /\ errors = {} => n \in WholeNode \cup {Null}
              /\ Proceed(IfPresent(n)) \/ Proceed(IfPresent(n) \o <<u>>)
    PROVE  Silence'
<1>1. errors = {} => Sound(u)
  BY TopSound DEF Silence, Sound
<1>2. n \in WholeNode => Sound(Visit(n))
  BY DEF Sound, Visit, Task
<1>. DEFINE one == <<Visit(n), u>>
            two == IfPresent(n)
            three == IfPresent(n) \o <<u>>
            S == {Visit(n), u}
<1>3. one \in Seq(S) /\ <<u>> \in Seq(S) /\ <<u>> \in Seq({u}) /\ <<>> \in Seq({u})
      /\ <<Visit(n)>> \in Seq(S) /\ <<>> \in Seq(S)
  OBVIOUS
<1>4. two \in Seq(S) /\ (n = Null => two = <<>>)
  BY <1>3 DEF IfPresent
<1>. HIDE DEF S, two
<1>5. three \in Seq(S) /\ (n = Null => three = <<u>>)
  <2>1. IfPresent(n) = two
    BY DEF two
  <2>2. <<>> \o <<u>> = <<u>>
    BY <1>3, ConcatEmptySeq
  <2>. QED
    BY <1>3, <1>4, <2>1, <2>2, ConcatProperties
<1>. HIDE DEF one, three
<1>6. \A s \in Seq(S) : \A k \in DOMAIN s : s[k] = Visit(n) \/ s[k] = u
  <2>1. \A s \in Seq(S) : \A k \in DOMAIN s : s[k] \in S
    OBVIOUS
  <2>. QED
    BY <2>1 DEF S
<1>7. \A s \in Seq({u}) : \A k \in DOMAIN s : s[k] = u
  OBVIOUS
<1>8. Proceed(one) \/ Proceed(two) \/ Proceed(three)
  BY DEF one, two, three
<1>9. CASE errors # {}
  BY <1>3, <1>4, <1>5, <1>8, <1>9, SoundStep
<1>10. CASE errors = {} /\ n \in WholeNode
  <2>1. \A s \in Seq(S) : \A k \in DOMAIN s : Sound(s[k])
    BY <1>1, <1>2, <1>6, <1>10
  <2>. QED
    BY <1>3, <1>4, <1>5, <1>8, <2>1, SoundStep
<1>11. CASE errors = {} /\ n = Null /\ (Proceed(two) \/ Proceed(three))
  <2>1. \A s \in Seq({u}) : \A k \in DOMAIN s : Sound(s[k])
    BY <1>1, <1>7, <1>11
  <2>. QED
    BY <1>3, <1>4, <1>5, <1>11, <2>1, SoundStep
<1>. QED
  BY <1>9, <1>10, <1>11 DEF one, two, three

\* Handlers that visit a child they need.
LEMMA NeedersSound ==
    ASSUME TypeOK, Silence,
           \/ VisitBinaryExpr \/ BinLeft \/ ShortLeft \/ VisitUnaryExpr \/ VisitCastExpr
           \/ VisitAssignExpr \/ VisitMemberAccessExpr \/ VisitIfStatement \/ IfCond
           \/ VisitWhileStatement \/ WhileCond \/ ForCond
    PROVE  Silence'
<1>1. /\ todo # <<>> /\ ~crashed /\ OwnKind(Top)
      /\ Top.do \notin {"CastOp", "CallEnd"}
  BY TopType DEF VisitBinaryExpr, BinLeft, ShortLeft, VisitUnaryExpr, VisitCastExpr,
       VisitAssignExpr, VisitMemberAccessExpr, VisitIfStatement, IfCond,
       VisitWhileStatement, WhileCond, ForCond, Descend, Visiting, Resuming, Running
<1>. DEFINE Child(n) == errors = {} => n \in WholeNode
            Goes(n, do) ==
               /\ \E vals, blks : Proceed(<<Visit(n), Task(do, Node, vals, blks)>>)
               /\ UNCHANGED <<module, errors, crashed>>
            Rest == {"ShortLeft", "BinLeft", "ShortRight", "BinRight", "UnaryOp", "CastOp",
                     "AssignStore", "MemberLoad", "IfCond", "IfElse", "WhileCond",
                     "WhileEnd", "ForUpdate"}
<1>2. ASSUME NEW n, NEW do \in Rest, Child(n), Goes(n, do)
      PROVE  Silence'
  <2>1. PICK vals, blks : Proceed(<<Visit(n), Task(do, Node, vals, blks)>>)
    BY <1>2
  <2>. DEFINE u == Task(do, Node, vals, blks)
  <2>2. u.node = Node /\ u.do \notin {"CallArg", "CallEnd"}
    BY <1>2 DEF Task
  <2>3. Proceed(<<Visit(n), u>>)
    BY <2>1
  <2>4. UNCHANGED <<pending, m_functions>> /\ ~crashed' /\ errors' = errors
    BY <1>1, <1>2 DEF module
  <2>5. errors = {} => n \in WholeNode
    BY <1>2
  <2>. HIDE DEF u
  <2>. QED
    BY <1>1, <2>2, <2>3, <2>4, <2>5, VisitSound
<1>3. errors = {} => Node \in WholeNode
  BY <1>1, TopSound DEF Silence
<1>4. /\ Node.kind = "BinaryExpr" => Child(Node.left) /\ Child(Node.right)
      /\ Node.kind = "UnaryExpr" => Child(Node.operand)
      /\ Node.kind = "CastExpr" => Child(Node.expr)
      /\ Node.kind = "AssignExpr" => Child(Node.value)
      /\ Node.kind = "MemberAccessExpr" => Child(Node.object)
      /\ Node.kind = "IfStatement" => Child(Node.condition) /\ Child(Node.thenBranch)
      /\ Node.kind = "WhileStatement" => Child(Node.condition) /\ Child(Node.body)
      /\ Node.kind = "ForStatement" => Child(Node.body)
  BY <1>3, WholeMembers
<1>. HIDE DEF Child
<1>5. /\ Top.do \in {"ShortLeft", "BinLeft"} => Node.kind = "BinaryExpr"
      /\ Top.do = "IfCond" => Node.kind = "IfStatement"
      /\ Top.do = "WhileCond" => Node.kind = "WhileStatement"
      /\ Top.do = "ForCond" => Node.kind = "ForStatement"
  BY <1>1 DEF OwnKind, Node
<1>6. CASE VisitBinaryExpr \/ BinLeft \/ ShortLeft
  <2>1. CASE VisitBinaryExpr
    <3>1. Node.kind = "BinaryExpr" /\ (Goes(Node.left, "ShortLeft") \/ Goes(Node.left, "BinLeft"))
      BY <2>1 DEF VisitBinaryExpr, Descend, Visiting, Then, module
    <3>. QED
      BY <1>2, <1>4, <3>1
  <2>2. CASE BinLeft
    <3>1. Node.kind = "BinaryExpr" /\ Goes(Node.right, "BinRight")
      BY <1>5, <2>2 DEF BinLeft, Resuming, ThenWith, module
    <3>. QED
      BY <1>2, <1>4, <3>1
  <2>3. CASE ShortLeft
    <3>1. /\ Node.kind = "BinaryExpr"
          /\ \/ Crash
             \/ \E text, subject : Reject(text, subject)
             \/ Goes(Node.right, "ShortRight")
      BY <1>5, <2>3 DEF ShortLeft, Resuming, ThenAt, module
    <3>. HIDE DEF Goes
    <3>. QED
      BY <1>1, <1>2, <1>4, <3>1, CrashSound, ReportSound
  <2>. QED
    BY <1>6, <2>1, <2>2, <2>3
<1>7. CASE VisitUnaryExpr \/ VisitCastExpr \/ VisitAssignExpr \/ VisitMemberAccessExpr
  <2>1. \/ Node.kind = "UnaryExpr" /\ Goes(Node.operand, "UnaryOp")
        \/ Node.kind = "CastExpr" /\ Goes(Node.expr, "CastOp")
        \/ Node.kind = "AssignExpr" /\ Goes(Node.value, "AssignStore")
        \/ Node.kind = "MemberAccessExpr" /\ Goes(Node.object, "MemberLoad")
    BY <1>7 DEF VisitUnaryExpr, VisitCastExpr, VisitAssignExpr, VisitMemberAccessExpr,
         Descend, Visiting, Then, module
  <2>. HIDE DEF Goes
  <2>. QED
    BY <1>2, <1>4, <2>1
<1>8. CASE VisitIfStatement \/ VisitWhileStatement
  <2>1. \/ Node.kind = "IfStatement" /\ Goes(Node.condition, "IfCond")
        \/ Node.kind = "WhileStatement" /\ Goes(Node.condition, "WhileCond")
    BY <1>8 DEF VisitIfStatement, VisitWhileStatement, Descend, Visiting, Then, ThenAt, module
  <2>. HIDE DEF Goes
  <2>. QED
    BY <1>2, <1>4, <2>1
<1>9. CASE IfCond \/ WhileCond \/ ForCond
  <2>1. \/ \E text, subject : Reject(text, subject)
        \/ Node.kind = "IfStatement" /\ Goes(Node.thenBranch, "IfElse")
        \/ Node.kind = "WhileStatement" /\ Goes(Node.body, "WhileEnd")
        \/ Node.kind = "ForStatement" /\ Goes(Node.body, "ForUpdate")
    BY <1>5, <1>9 DEF IfCond, WhileCond, ForCond, Resuming, ThenAt, module
  <2>. HIDE DEF Goes
  <2>. QED
    BY <1>2, <1>4, <2>1, ReportSound
<1>. QED
  BY <1>6, <1>7, <1>8, <1>9

\* Handlers that visit a child if it is there.
LEMMA OptionalSound ==
    ASSUME TypeOK, Silence,
           \/ Statement \/ VisitExprStatement \/ VisitForStatement
           \/ VisitReturnStatement \/ VisitVariableDecl
           \/ IfElse \/ ForBlocks \/ ForUpdate
    PROVE  Silence'
<1>1. /\ todo # <<>> /\ ~crashed /\ OwnKind(Top)
      /\ Top.do \notin {"CastOp", "CallEnd"}
  BY TopType DEF Statement, VisitExprStatement, VisitForStatement, VisitReturnStatement,
       VisitVariableDecl, IfElse, ForBlocks, ForUpdate, Descend, Visiting, Resuming, Running
<1>. DEFINE Child(n) == errors = {} => n \in WholeNode \cup {Null}
            Same == UNCHANGED <<module, errors, crashed>>
            Pair(n, do) ==
               \E vals, blks : Proceed(<<Visit(n), Task(do, Node, vals, blks)>>)
            Present(n, do) ==
               \/ Proceed(IfPresent(n))
               \/ \E vals, blks :
                     Proceed(IfPresent(n) \o <<Task(do, Node, vals, blks)>>)
            Rest == {"InferredInit", "ExplicitInit", "ReturnValue", "IfMerge",
                     "UnrollStart", "ForBlocks", "ForCond", "ForEnd"}
<1>2. Same => UNCHANGED <<pending, m_functions>> /\ ~crashed' /\ errors' = errors
  BY <1>1 DEF module
<1>3. ASSUME NEW n, NEW do \in Rest, Child(n), n # Null, Same, Pair(n, do)
      PROVE  Silence'
  <2>1. PICK vals, blks : Proceed(<<Visit(n), Task(do, Node, vals, blks)>>)
    BY <1>3
  <2>. DEFINE u == Task(do, Node, vals, blks)
  <2>2. u.node = Node /\ u.do \notin {"CallArg", "CallEnd"}
    BY <1>3 DEF Task
  <2>3. Proceed(<<Visit(n), u>>)
    BY <2>1
  <2>4. errors = {} => n \in WholeNode
    BY <1>3
  <2>. HIDE DEF u
  <2>. QED
    BY <1>1, <1>2, <1>3, <2>2, <2>3, <2>4, VisitSound
<1>4. ASSUME NEW n, NEW do \in Rest, Child(n), Same, Present(n, do)
      PROVE  Silence'
  <2>1. PICK vals, blks : \/ Proceed(IfPresent(n))
                          \/ Proceed(IfPresent(n) \o <<Task(do, Node, vals, blks)>>)
    BY <1>4
  <2>. DEFINE u == Task(do, Node, vals, blks)
  <2>2. u.node = Node /\ u.do \notin {"CallArg", "CallEnd"}
    BY <1>4 DEF Task
  <2>3. Proceed(IfPresent(n)) \/ Proceed(IfPresent(n) \o <<u>>)
    BY <2>1
  <2>4. errors = {} => n \in WholeNode \cup {Null}
    BY <1>4
  <2>. HIDE DEF u
  <2>. QED
    BY <1>1, <1>2, <1>4, <2>2, <2>3, <2>4, VisitSound
<1>5. errors = {} => Node \in WholeNode
  BY <1>1, TopSound DEF Silence
<1>6. /\ Child(Node)
      /\ Node.kind = "ExprStatement" => Child(Node.expression)
      /\ Node.kind = "ReturnStatement" => Child(Node.value)
      /\ Node.kind = "VariableDecl" => Child(Node.initializer)
      /\ Node.kind = "IfStatement" => Child(Node.elseBranch)
      /\ Node.kind = "ForStatement" =>
            Child(Node.init) /\ Child(Node.condition) /\ Child(Node.update)
  BY <1>5, OptionalMembers
<1>. HIDE DEF Child
<1>7. /\ Top.do = "IfElse" => Node.kind = "IfStatement"
      /\ Top.do \in {"ForBlocks", "ForUpdate"} => Node.kind = "ForStatement"
  BY <1>1 DEF OwnKind, Node
<1>8. CASE Statement \/ VisitExprStatement
  <2>1. /\ Same
        /\ \/ Present(Node, "IfMerge")
           \/ Node.kind = "ExprStatement" /\ Present(Node.expression, "IfMerge")
    BY <1>8 DEF Statement, VisitExprStatement, Descend, Visiting, module
  <2>. HIDE DEF Same, Present
  <2>. QED
    BY <1>4, <1>6, <2>1
<1>9. CASE IfElse \/ ForBlocks \/ ForUpdate
  <2>1. /\ Same
        /\ \/ Node.kind = "IfStatement" /\ Present(Node.elseBranch, "IfMerge")
           \/ Node.kind = "ForStatement" /\ Present(Node.condition, "ForCond")
           \/ Node.kind = "ForStatement" /\ Present(Node.update, "ForEnd")
    BY <1>7, <1>9 DEF IfElse, ForBlocks, ForUpdate, Resuming, ThenAt, module
  <2>. HIDE DEF Same, Present
  <2>. QED
    BY <1>4, <1>6, <2>1
<1>10. CASE VisitForStatement
  <2>1. Node.kind = "ForStatement" /\ Same
    BY <1>10 DEF VisitForStatement, Descend, Visiting, module
  <2>2. CASE Unrolled(Node)
    <3>1. Node.init.kind = "VariableDecl"
      BY <2>2 DEF Unrolled, AnalyzeForUnroll
    <3>2. Node.init # Null
      BY <3>1 DEF Null
    <3>3. Pair(Node.init, "UnrollStart")
      BY <1>10, <2>2 DEF VisitForStatement, Descend, Then
    <3>. HIDE DEF Same, Pair
    <3>. QED
      BY <1>3, <1>6, <2>1, <3>2, <3>3
  <2>3. CASE ~Unrolled(Node)
    <3>1. Present(Node.init, "ForBlocks")
      BY <1>10, <2>3 DEF VisitForStatement, Descend, Then
    <3>. HIDE DEF Same, Present
    <3>. QED
      BY <1>4, <1>6, <2>1, <3>1
  <2>. QED
    BY <2>2, <2>3
<1>11. CASE VisitReturnStatement
  <2>1. /\ Node.kind = "ReturnStatement" /\ Same
        /\ Finish \/ (Node.value # Null /\ Pair(Node.value, "ReturnValue"))
    BY <1>11 DEF VisitReturnStatement, Visiting, Then, module
  <2>. HIDE DEF Same, Pair
  <2>. QED
    BY <1>1, <1>2, <1>3, <1>6, <2>1, FinishSound
<1>12. CASE VisitVariableDecl
  <2>0. Node.kind = "VariableDecl"
    BY <1>12 DEF VisitVariableDecl, Visiting
  <2>1. \/ Crash
        \/ \E text, subject : Reject(text, subject)
        \/ Same /\ Finish
        \/ Same /\ Node.initializer # Null /\ Pair(Node.initializer, "InferredInit")
        \/ Same /\ Node.initializer # Null /\ Pair(Node.initializer, "ExplicitInit")
    BY <1>12 DEF VisitVariableDecl, Then, ThenWith, module
  <2>. HIDE DEF Same, Pair
  <2>. QED
    BY <1>1, <1>2, <1>3, <1>6, <2>0, <2>1, FinishSound, CrashSound, ReportSound
<1>. QED
  BY <1>8, <1>9, <1>10, <1>11, <1>12

\* Handlers that end without another visit.
LEMMA EndersSound ==
    ASSUME TypeOK, Silence,
           \/ VisitLiteralExpr \/ VisitVarExpr \/ VisitAllocExpr
           \/ VisitPrefixExpr \/ VisitPostfixExpr
           \/ ShortRight \/ BinRight \/ UnaryOp \/ AssignStore \/ MemberLoad
           \/ InferredInit \/ ExplicitInit \/ ReturnValue
           \/ IfMerge \/ WhileEnd \/ UnrollStore \/ ForEnd
    PROVE  Silence'
<1>. DEFINE Ends == \/ Crash
                    \/ \E text, subject : Report(text, subject)
                    \/ UNCHANGED <<module, errors, crashed>> /\ Finish
<1>1. CASE VisitLiteralExpr \/ VisitVarExpr \/ VisitAllocExpr
           \/ VisitPrefixExpr \/ VisitPostfixExpr
  <2>1. /\ todo # <<>> /\ ~crashed /\ Top.do \notin {"CastOp", "CallEnd"}
    BY <1>1 DEF VisitLiteralExpr, VisitVarExpr, VisitAllocExpr, VisitPrefixExpr,
         VisitPostfixExpr, Visiting, Running
  <2>2. Ends
    BY <1>1 DEF VisitLiteralExpr, VisitVarExpr, VisitAllocExpr, VisitPrefixExpr,
         VisitPostfixExpr, IncDec, Reject, module
  <2>. QED
    BY <2>1, <2>2, CrashSound, ReportSound, FinishSound DEF module
<1>2. CASE ShortRight \/ BinRight \/ UnaryOp \/ AssignStore \/ MemberLoad
  <2>1. /\ todo # <<>> /\ ~crashed /\ Top.do \notin {"CastOp", "CallEnd"}
    BY <1>2 DEF ShortRight, BinRight, UnaryOp, AssignStore, MemberLoad, Resuming, Running
  <2>2. Ends
    BY <1>2 DEF ShortRight, BinRight, UnaryOp, AssignStore, MemberLoad, Reject, module
  <2>. QED
    BY <2>1, <2>2, CrashSound, ReportSound, FinishSound DEF module
<1>3. CASE InferredInit \/ ExplicitInit \/ ReturnValue \/ IfMerge \/ WhileEnd
           \/ UnrollStore \/ ForEnd
  <2>1. /\ todo # <<>> /\ ~crashed /\ Top.do \notin {"CastOp", "CallEnd"}
    BY <1>3 DEF InferredInit, ExplicitInit, ReturnValue, IfMerge, WhileEnd, UnrollStore,
         ForEnd, Resuming, Running
  <2>2. Ends
    BY <1>3 DEF InferredInit, ExplicitInit, ReturnValue, IfMerge, WhileEnd, UnrollStore,
         ForEnd, Reject, module
  <2>. QED
    BY <2>1, <2>2, CrashSound, ReportSound, FinishSound DEF module
<1>. QED
  BY <1>1, <1>2, <1>3

\* A cast dereferences a missing value right after it has reported it.
LEMMA CastSound ==
    ASSUME TypeOK, Silence, CastOp
    PROVE  Silence'
<1>1. todo # <<>> /\ ~crashed
  BY DEF CastOp, Resuming, Running
<1>2. \/ \E text, subject : Report(text, subject)
      \/ UNCHANGED <<module, errors, crashed>> /\ Finish
  BY DEF CastOp, Reject, module
<1>. QED
  BY <1>1, <1>2, ReportSound, FinishSound DEF module

\* A call goes on only if its callee is known, or has been reported.
LEMMA CallsSound ==
    ASSUME TypeOK, Silence, VisitCallExpr \/ CallArg
    PROVE  Silence'
<1>1. /\ todo # <<>> /\ ~crashed /\ Node \in AstNode /\ Node.kind = "CallExpr"
      /\ Top.vals \in Seq(Values) /\ m_LastValue \in Values
  BY TopType DEF VisitCallExpr, CallArg, Visiting, Resuming, Running, OwnKind, Node,
                 TypeOK
<1>2. UNCHANGED <<pending, m_functions>> /\ ~crashed' /\ (errors' = {} => errors = {})
  <2>1. UNCHANGED module /\ UNCHANGED crashed
    BY DEF VisitCallExpr, CallArg
  <2>2. errors' = errors \/ \E text, subject : Report(text, subject)
    BY DEF VisitCallExpr, CallArg
  <2>. QED
    BY <1>1, <2>1, <2>2 DEF module, Report
<1>3. CASE errors' # {}
  BY <1>3 DEF Silence, AllSound, NullDereferenceReported
<1>4. CASE errors' = {}
  <2>1. errors = {} /\ Node \in WholeNode
    BY <1>1, <1>2, <1>4, TopSound DEF Silence
  <2>2. Node.callee \in DOMAIN m_functions
    <3>1. CASE VisitCallExpr
      BY <1>4, <3>1 DEF VisitCallExpr, Report
    <3>2. CASE CallArg
      BY <1>1, <2>1, <3>2, TopSound DEF CallArg, Resuming, Sound, Node, Silence
    <3>. QED
      BY <3>1, <3>2
  <2>3. PICK args \in Seq(Values) : Proceed(NextArgument(args))
    <3>1. <<>> \in Seq(Values) /\ Append(Top.vals, m_LastValue) \in Seq(Values)
      BY <1>1
    <3>. QED
      BY <3>1 DEF VisitCallExpr, CallArg
  <2>. DEFINE n == Node.arguments[Len(args) + 1]
              more == Task("CallArg", Node, args, <<>>)
              end == Task("CallEnd", Node, args, <<>>)
              both == <<Visit(n), more>>
              last == <<end>>
  <2>4. /\ Sound(more) /\ Sound(end)
        /\ n \in WholeNode => Sound(Visit(n))
    BY <2>1, <2>2 DEF Sound, Task, Visit
  <2>5. CASE Len(args) < Len(Node.arguments)
    <3>1. Proceed(both)
      BY <2>3, <2>5 DEF NextArgument, ThenWith
    <3>2. n \in WholeNode
      <4>1. Node.arguments \in Seq(AstNode)
        BY <1>1, ExpressionMembers
      <4>2. Len(args) + 1 \in DOMAIN Node.arguments
        BY <2>3, <2>5, <4>1, LenProperties
      <4>. QED
        BY <1>1, <2>1, <4>2, WholeMembers
    <3>3. Sound(Visit(n)) /\ Sound(more)
      BY <2>4, <3>2
    <3>. HIDE DEF n, more
    <3>4. both \in Seq({Visit(n), more}) /\ \A k \in DOMAIN both : Sound(both[k])
      BY <3>3
    <3>. HIDE DEF both
    <3>. QED
      BY <1>1, <1>2, <2>1, <3>1, <3>4, SoundStep
  <2>6. CASE ~(Len(args) < Len(Node.arguments))
    <3>1. Proceed(last)
      BY <2>3, <2>6 DEF NextArgument, ThenWith
    <3>. HIDE DEF end
    <3>2. last \in Seq({end}) /\ \A k \in DOMAIN last : Sound(last[k])
      BY <2>4
    <3>. HIDE DEF last
    <3>. QED
      BY <1>1, <1>2, <2>1, <3>1, <3>2, SoundStep
  <2>. QED
    BY <2>5, <2>6
<1>. QED
  BY <1>3, <1>4

LEMMA CallEndSound ==
    ASSUME TypeOK, Silence, CallEnd
    PROVE  Silence'
<1>1. todo # <<>> /\ ~crashed /\ Top.do = "CallEnd"
  BY DEF CallEnd, Resuming, Running
<1>2. errors = {} => Node.callee \in DOMAIN m_functions
  BY <1>1, TopSound DEF Sound, Node, Silence
<1>3. \/ errors' # {}
      \/ UNCHANGED <<module, errors, crashed>> /\ Finish
  BY <1>2 DEF CallEnd, Crash, module
<1>4. CASE errors' # {}
  BY <1>4 DEF Silence, AllSound, NullDereferenceReported
<1>. QED
  BY <1>1, <1>3, <1>4, FinishSound DEF module

\* A block visits its statements; a loop is unrolled into visits of its body.
LEMMA RunsSound ==
    ASSUME TypeOK, Silence, VisitBlockStatement \/ UnrollStart
    PROVE  Silence'
<1>1. /\ todo # <<>> /\ ~crashed /\ Node \in AstNode /\ OwnKind(Top)
      /\ Top.do \notin {"CastOp", "CallEnd"}
  BY TopType DEF VisitBlockStatement, UnrollStart, Descend, Visiting, Resuming, Running
<1>2. errors = {} => Node \in WholeNode
  BY <1>1, TopSound DEF Silence
<1>3. CASE VisitBlockStatement
  <2>. DEFINE tasks == [k \in DOMAIN Node.statements |->
                           Task("Statement", Node.statements[k], <<>>, <<>>)]
              S == {Task("Statement", n, <<>>, <<>>) : n \in AstNode}
  <2>0. Node.kind = "BlockStatement"
    BY <1>3 DEF VisitBlockStatement, Descend, Visiting
  <2>1. Node.statements \in Seq(AstNode)
    BY <1>1, <2>0, StatementMembers
  <2>2. DOMAIN Node.statements = 1..Len(Node.statements) /\ Len(Node.statements) \in Nat
    BY <2>1, LenProperties
  <2>3. \A k \in DOMAIN Node.statements : tasks[k] \in S
    BY <2>1
  <2>4. tasks \in Seq(S)
    <3>. HIDE DEF S
    <3>1. \A k \in 1..Len(Node.statements) : tasks[k] \in S
      BY <2>2, <2>3
    <3>2. tasks = [k \in 1..Len(Node.statements) |-> tasks[k]]
      BY <2>2
    <3>. DEFINE len == Len(Node.statements)
    <3>3. tasks \in [1..len -> S] /\ len \in Nat
      BY <2>2, <3>1, <3>2
    <3>. HIDE DEF tasks, len
    <3>. QED
      BY <3>3
  <2>5. errors = {} => \A k \in DOMAIN tasks : Sound(tasks[k])
    BY <1>2, <2>0, WholeMembers DEF Sound, Task
  <2>6. Proceed(tasks) /\ UNCHANGED <<module, errors, crashed>>
    BY <1>3 DEF VisitBlockStatement, Descend, module
  <2>. HIDE DEF tasks, S
  <2>. QED
    BY <1>1, <2>4, <2>5, <2>6, SoundStep DEF module
<1>4. CASE UnrollStart
  <2>. DEFINE info == AnalyzeForUnroll(Node)
              slot == m_variables[info.varName].value
              tasks == Iterations(info, slot)
  <2>1. \/ Crash
        \/ \E text, subject : Reject(text, subject)
        \/ /\ info.varName \in DOMAIN m_variables /\ Proceed(tasks)
           /\ UNCHANGED <<module, errors, crashed>>
    BY <1>4 DEF UnrollStart, module
  <2>2. ASSUME info.varName \in DOMAIN m_variables, Proceed(tasks),
               UNCHANGED <<module, errors, crashed>>
        PROVE  Silence'
    <3>1. Node.kind = "ForStatement"
      BY <1>1, <1>4 DEF UnrollStart, Resuming, OwnKind, Node
    <3>2. info.start \in Int /\ info.step \in Int /\ info.tripCount \in Nat
      BY <1>1, <3>1, AnalysisType
    <3>3. slot \in Values
      BY <2>2 DEF TypeOK, VariableInfos
    <3>. HIDE DEF info, slot
    <3>4. tasks \in Seq(TasksIn(ir))
      BY <1>1, <3>1, <3>2, <3>3, IterationsType
    <3>5. errors = {} => \A k \in DOMAIN tasks : Sound(tasks[k])
      <4>. SUFFICES ASSUME errors = {}, NEW k \in DOMAIN tasks PROVE Sound(tasks[k])
        OBVIOUS
      <4>1. \/ tasks[k] = Visit(Node.body)
            \/ \E vals : tasks[k] = Task("UnrollStore", Node, vals, <<>>)
        BY DEF Iterations, ThenWith
      <4>2. Node \in WholeNode /\ Node.body \in WholeNode
        BY <1>2, <3>1, WholeMembers
      <4>. QED
        BY <4>1, <4>2 DEF Visit, Task, Sound
    <3>. HIDE DEF tasks
    <3>. QED
      BY <1>1, <2>2, <3>4, <3>5, SoundStep DEF module, tasks
  <2>. QED
    BY <1>1, <2>1, <2>2, CrashSound, ReportSound
<1>. QED
  BY <1>3, <1>4

\* Between two functions; the body of a function may be null only in a program
\* that has been rejected.
LEMMA DeclarationsSound ==
    ASSUME TypeOK, Silence, Declarations
    PROVE  Silence'
<1>1. CASE EndFunctionDecl
  <2>1. todo' = <<>> /\ pending' = pending /\ ~crashed' /\ (errors' = {} => errors = {})
    BY <1>1 DEF EndFunctionDecl, Between, CheckUnusedVariables
  <2>2. DOMAIN todo' = {}
    BY <2>1
  <2>. QED
    BY <2>1, <2>2 DEF Silence, AllSound, NullDereferenceReported
<1>2. CASE VisitInterfaceDecl \/ VisitStructDecl \/ VisitFunctionDecl
  <2>1. /\ pending # <<>> /\ pending' = Tail(pending)
        /\ ~crashed' /\ errors' = errors
    BY <1>2 DEF VisitInterfaceDecl, VisitStructDecl, VisitFunctionDecl, AtDeclaration,
         Between
  <2>2. \/ todo' = <<>>
        \/ /\ Head(pending).kind = "FunctionDecl"
           /\ todo' = IfPresent(Head(pending).body)
    BY <1>2 DEF VisitInterfaceDecl, VisitStructDecl, VisitFunctionDecl, AtDeclaration,
         Between
  <2>. SUFFICES ASSUME errors' = {}
                PROVE  /\ pending' \in Seq(WholeNode)
                       /\ \A k \in DOMAIN todo' :
                             todo'[k].node \in WholeNode /\ todo'[k].do = "Visit"
    BY <2>1 DEF Silence, AllSound, NullDereferenceReported, Sound
  <2>3. pending \in Seq(WholeNode)
    BY <2>1 DEF Silence, AllSound
  <2>4. Head(pending) \in WholeNode /\ Tail(pending) \in Seq(WholeNode)
    BY <2>1, <2>3, HeadTailProperties
  <2>. DEFINE body == Head(pending).body
  <2>5. Head(pending).kind = "FunctionDecl" => body \in WholeNode \cup {Null}
    BY <2>4, OptionalMembers
  <2>. HIDE DEF body
  <2>6. \/ todo' = <<>>
        \/ body \in WholeNode /\ todo' = <<Visit(body)>>
    BY <2>2, <2>5 DEF IfPresent, body
  <2>7. \A k \in DOMAIN todo' : body \in WholeNode /\ todo'[k] = Visit(body)
    BY <2>6
  <2>. QED
    BY <2>1, <2>4, <2>7 DEF Visit, Task
<1>. QED
  BY <1>1, <1>2 DEF Declarations

\* As long as nothing has been reported, no handler and no call into LLVM is
\* handed a null child, an unknown callee or a missing operand of a cast,
\* whatever the program: what crashes in silence is an operand or a variable of
\* a wrong type (CodeGen.cpp, every handler that visits a child).
THEOREM NullDereferencesReported == Spec => []NullDereferenceReported
<1>. DEFINE IInv == TypeOK /\ Silence
<1>1. Init => IInv
  <2>. SUFFICES ASSUME Init PROVE Silence
    BY InitTypes
  <2>1. ~crashed /\ DOMAIN todo = {}
    <3>1. crashed = FALSE /\ todo = <<>>
      BY DEF Init
    <3>. QED
      BY <3>1
  <2>2. errors = {} => pending \in Seq(WholeNode)
    <3>1. PICK program \in Programs :
             /\ pending = program.decls
             /\ program.rejected => errors = {<<"Syntax error", "none">>}
      BY DEF Init
    <3>. QED
      BY <3>1, HoleAssumption
  <2>. QED
    BY <2>1, <2>2 DEF Silence, AllSound, NullDereferenceReported
<1>2. IInv /\ [Next]_vars => IInv'
  <2>. SUFFICES ASSUME TypeOK, Silence, [Next]_vars
                PROVE  TypeOK' /\ Silence'
    OBVIOUS
  <2>1. TypeOK'
    BY NextTypes, StutterTypes
  <2>2. CASE Expressions
    BY <2>1, <2>2, NeedersSound, EndersSound, CastSound, CallsSound, CallEndSound
       DEF Expressions
  <2>3. CASE Statements
    <3>1. VisitNull => Running /\ Top.do = "Visit" /\ Crash
      BY DEF VisitNull
    <3>. QED
      BY <2>1, <2>3, <3>1, NeedersSound, OptionalSound, EndersSound, RunsSound, CrashSound
         DEF Statements, Running
  <2>4. CASE Declarations
    BY <2>1, <2>4, DeclarationsSound
  <2>5. CASE UNCHANGED vars
    BY <2>1, <2>5 DEF vars, module, Silence, AllSound, Sound, NullDereferenceReported, Node,
         Top
  <2>. QED
    BY <2>2, <2>3, <2>4, <2>5 DEF Next
<1>3. IInv => NullDereferenceReported
  BY DEF Silence
<1>. QED
  BY <1>1, <1>2, <1>3, PTL DEF Spec
=============================================================================
