------------------------- MODULE CodeGenUnrolling --------------------------
(***************************************************************************)
(* The unrolled loops of CodeGen, for every set of programs: what can be   *)
(* stored into the counter of one.  A handler visits only nodes below its  *)
(* own, and modifies only variables that its own node names; of the nodes  *)
(* below the body BodyModifiesVar has seen that none names the counter.    *)
(* So what is left are the declaration of the counter and the iterations,  *)
(* and these are followed from the visit of the loop to its last store.    *)
(***************************************************************************)
EXTENDS CodeGenMemory

(***************************************************************************)
(* What BodyModifiesVar finds.                                             *)
(***************************************************************************)
\* A set of numbers that no step leaves.
LEMMA Everywhere ==
    ASSUME NEW S, S \subseteq Nat, 0 \in S, \A k \in S : k + 1 \in S
    PROVE  S = Nat
<1>. SUFFICES ASSUME Nat \ S # {} PROVE FALSE
  OBVIOUS
<1>1. PICK m \in Nat \ S : \A k \in Nat \ S : m <= k
  BY Minimum
<1>2. m # 0 /\ m - 1 \in Nat /\ (m - 1) + 1 = m
  BY <1>1
<1>3. m - 1 \in S
  BY <1>1, <1>2
<1>. QED
  BY <1>2, <1>3

\* A function of the numbers, each value of which is made from the one before.
LEMMA Recurrence ==
    ASSUME NEW S, NEW a \in S, NEW F \in [S -> S]
    PROVE  \E f \in [Nat -> S] : f[0] = a /\ \A k \in Nat : f[k + 1] = F[f[k]]
<1>. DEFINE Approx(h, m) == /\ h \in [0..m -> S] /\ h[0] = a
                            /\ \A k \in 0..(m - 1) : h[k + 1] = F[h[k]]
            N == {m \in Nat : \E h : Approx(h, m)}
            U == {m \in Nat : \A g, h : Approx(g, m) /\ Approx(h, m) => g[m] = h[m]}
            best(m) == CHOOSE h : Approx(h, m)
            f == [m \in Nat |-> best(m)[m]]
<1>1. N = Nat
  <2>1. 0 \in N
    <3>1. Approx([k \in 0..0 |-> a], 0)
      OBVIOUS
    <3>. QED
      BY <3>1
  <2>2. ASSUME NEW m \in N
        PROVE  m + 1 \in N
    <3>1. PICK h : Approx(h, m)
      OBVIOUS
    <3>. DEFINE g == [k \in 0..(m + 1) |-> IF k = m + 1 THEN F[h[m]] ELSE h[k]]
    <3>2. Approx(g, m + 1) /\ m + 1 \in Nat
      BY <3>1
    <3>. HIDE DEF g, Approx
    <3>. QED
      BY <3>2
  <2>. HIDE DEF N
  <2>3. N \subseteq Nat
    BY DEF N
  <2>. QED
    BY <2>1, <2>2, <2>3, Everywhere
<1>2. U = Nat
  <2>1. 0 \in U
    OBVIOUS
  <2>2. ASSUME NEW m \in U
        PROVE  m + 1 \in U
    <3>. SUFFICES ASSUME NEW g, NEW h, Approx(g, m + 1), Approx(h, m + 1)
                  PROVE  g[m + 1] = h[m + 1]
      OBVIOUS
    <3>. DEFINE gg == [k \in 0..m |-> g[k]]
                hh == [k \in 0..m |-> h[k]]
    <3>1. Approx(gg, m) /\ Approx(hh, m)
      OBVIOUS
    <3>2. gg[m] = hh[m]
      <4>. HIDE DEF gg, hh, Approx
      <4>. QED
        BY <3>1
    <3>3. g[m + 1] = F[g[m]] /\ h[m + 1] = F[h[m]]
      OBVIOUS
    <3>. QED
      BY <3>2, <3>3
  <2>. HIDE DEF U
  <2>3. U \subseteq Nat
    BY DEF U
  <2>. QED
    BY <2>1, <2>2, <2>3, Everywhere
<1>3. \A m \in Nat : Approx(best(m), m)
  BY <1>1
<1>. HIDE DEF best
<1>4. f \in [Nat -> S] /\ f[0] = a
  BY <1>3
<1>5. ASSUME NEW m \in Nat
      PROVE  f[m + 1] = F[f[m]]
  <2>. DEFINE g == best(m + 1)
              gg == [k \in 0..m |-> g[k]]
  <2>1. Approx(g, m + 1)
    BY <1>3
  <2>2. Approx(gg, m)
    BY <2>1
  <2>3. g[m + 1] = F[g[m]]
    BY <2>1
  <2>4. gg[m] = best(m)[m]
    BY <1>2, <1>3, <2>2
  <2>. QED
    BY <2>3, <2>4
<1>. QED
  BY <1>4, <1>5

\* The nodes that the search for modifications comes to.
Below(body) ==
    {m \in AstNode :
        \A S \in SUBSET AstNode :
            body \in S /\ (\A k \in S : ToSet(Searched(k)) \subseteq S) => m \in S}

LEMMA SearchedNodes ==
    ASSUME NEW n \in AstNode
    PROVE  ToSet(Searched(n)) \subseteq AstNode
<1>1. Searched(n) = <<>> \/ Searched(n) = Children(n)
  BY DEF Searched
<1>2. Searched(n) \in Seq(AstNode)
  <2>1. Children(n) \in Seq(AstNode) /\ <<>> \in Seq(AstNode)
    BY AstAssumption DEF WellFormed
  <2>. QED
    BY <1>1, <2>1
<1>. HIDE DEF Searched
<1>. QED
  BY <1>2, LenProperties DEF ToSet

\* The search looks at everything it comes to.
LEMMA SearchIsSound ==
    ASSUME NEW body \in AstNode, NEW x, ~BodyModifiesVar(body, x)
    PROVE  \A m \in Below(body) : ~Modifies(m, x)
<1>. DEFINE Step(S) == UNION {ToSet(Searched(n)) : n \in S}
            From(f) == [k \in Nat |-> IF k = 0 THEN {body} ELSE Step(f[k - 1])]
            level == CHOOSE f : f = From(f)
            Some(k) == \E n \in level[k] : Modifies(n, x)
            Ahead(g) == [k \in Nat |-> Some(k) \/ (level[k] # {} /\ g[k + 1])]
            modifies == CHOOSE g : g = Ahead(g)
<1>1. BodyModifiesVar(body, x) = modifies[0]
  BY DEF BodyModifiesVar
<1>2. \A S \in SUBSET AstNode : Step(S) \in SUBSET AstNode
  BY SearchedNodes
<1>3. \A S : Step(S) = {} \/ S # {}
  OBVIOUS
<1>4. \A S, n : n \in S => ToSet(Searched(n)) \subseteq Step(S)
  OBVIOUS
<1>. HIDE DEF Step
<1>5. \E f \in [Nat -> SUBSET AstNode] : f = From(f)
  <2>. DEFINE F == [S \in SUBSET AstNode |-> Step(S)]
              T == SUBSET AstNode
  <2>1. F \in [T -> T] /\ {body} \in T
    BY <1>2
  <2>2. \A S \in T : F[S] = Step(S)
    OBVIOUS
  <2>. HIDE DEF F, T
  <2>3. PICK f \in [Nat -> T] : f[0] = {body} /\ \A k \in Nat : f[k + 1] = F[f[k]]
    BY <2>1, Recurrence
  <2>4. \A k \in Nat : f[k] = IF k = 0 THEN {body} ELSE Step(f[k - 1])
    <3>. SUFFICES ASSUME NEW k \in Nat, k # 0 PROVE f[k] = Step(f[k - 1])
      BY <2>3
    <3>1. k - 1 \in Nat /\ (k - 1) + 1 = k
      OBVIOUS
    <3>. QED
      BY <2>2, <2>3, <3>1
  <2>5. f = From(f)
    BY <2>4
  <2>. QED
    BY <2>5 DEF T
<1>6. level = From(level)
  BY <1>5
<1>. HIDE DEF level
<1>7. level[0] = {body} /\ \A k \in Nat : level[k + 1] = Step(level[k])
  <2>1. level[0] = {body}
    BY <1>6
  <2>2. ASSUME NEW k \in Nat PROVE level[k + 1] = Step(level[k])
    <3>1. k + 1 \in Nat /\ k + 1 # 0 /\ (k + 1) - 1 = k
      OBVIOUS
    <3>. QED
      BY <1>6, <3>1
  <2>. QED
    BY <2>1, <2>2
<1>8. \A k \in Nat : level[k] \in SUBSET AstNode
  <2>. DEFINE K == {k \in Nat : level[k] \in SUBSET AstNode}
  <2>1. 0 \in K /\ K \subseteq Nat /\ \A k \in K : k + 1 \in K
    BY <1>2, <1>7
  <2>. HIDE DEF K
  <2>2. K = Nat
    BY <2>1, Everywhere
  <2>. QED
    BY <2>2 DEF K
<1>9. \A k \in Nat : level[k] = {} => level[k + 1] = {}
  BY <1>3, <1>7
<1>. HIDE DEF Some
<1>10. \E g : g = Ahead(g)
  <2>. DEFINE Reached(k, j) == Some(j) /\ \A i \in k..(j - 1) : level[i] # {}
              g == [k \in Nat |-> \E j \in Nat : k <= j /\ Reached(k, j)]
  <2>1. ASSUME NEW k \in Nat
        PROVE  (\E j \in Nat : k <= j /\ Reached(k, j))
                  <=> Some(k) \/ (level[k] # {} /\ \E j \in Nat : k + 1 <= j /\ Reached(k + 1, j))
    <3>1. Some(k) => Reached(k, k)
      OBVIOUS
    <3>2. \A j \in Nat : k + 1 <= j /\ level[k] # {} /\ Reached(k + 1, j) => Reached(k, j) /\ k <= j
      OBVIOUS
    <3>3. \A j \in Nat : k <= j /\ Reached(k, j) /\ j # k
                            => k + 1 <= j /\ level[k] # {} /\ Reached(k + 1, j)
      OBVIOUS
    <3>4. k <= k
      OBVIOUS
    <3>. HIDE DEF Reached
    <3>5. ASSUME NEW j \in Nat, k <= j, Reached(k, j)
          PROVE  Some(k) \/ (level[k] # {} /\ \E i \in Nat : k + 1 <= i /\ Reached(k + 1, i))
      <4>1. CASE j = k
        BY <3>5, <4>1 DEF Reached
      <4>2. CASE j # k
        BY <3>3, <3>5, <4>2
      <4>. QED
        BY <4>1, <4>2
    <3>. QED
      BY <3>1, <3>2, <3>4, <3>5
  <2>2. \A k \in Nat : g[k] <=> \E j \in Nat : k <= j /\ Reached(k, j)
    OBVIOUS
  <2>3. \A k \in Nat : g[k] \in BOOLEAN
    OBVIOUS
  <2>4. \A k \in Nat : k + 1 \in Nat
    OBVIOUS
  <2>5. \A k \in Nat : Some(k) \in BOOLEAN
    BY DEF Some
  <2>. DEFINE h == Ahead(g)
  <2>6. \A k \in Nat : g[k] <=> Some(k) \/ (level[k] # {} /\ g[k + 1])
    BY <2>1, <2>2, <2>4
  <2>7. \A k \in Nat : (Some(k) \/ (level[k] # {} /\ g[k + 1])) \in BOOLEAN
    BY <2>5
  <2>. HIDE DEF Reached
  <2>8. \A k \in Nat : g[k] = (Some(k) \/ (level[k] # {} /\ g[k + 1]))
    <3>. HIDE DEF g
    <3>. QED
      BY <2>3, <2>6, <2>7
  <2>9. g = h
    BY <2>8
  <2>. QED
    BY <2>9
<1>11. modifies = Ahead(modifies)
  BY <1>10
<1>. HIDE DEF modifies
<1>12. \A k \in Nat : modifies[k] <=> Some(k) \/ (level[k] # {} /\ modifies[k + 1])
  BY <1>11
<1>13. \A k \in Nat : ~modifies[k] \/ level[k] = {}
  <2>. DEFINE K == {k \in Nat : ~modifies[k] \/ level[k] = {}}
  <2>1. 0 \in K /\ K \subseteq Nat /\ \A k \in K : k + 1 \in K
    <3>1. ASSUME NEW k \in Nat, ~modifies[k] \/ level[k] = {}
          PROVE  ~modifies[k + 1] \/ level[k + 1] = {}
      BY <1>9, <1>12, <3>1
    <3>2. ~modifies[0]
      BY <1>1
    <3>. QED
      BY <3>1, <3>2
  <2>. HIDE DEF K
  <2>2. K = Nat
    BY <2>1, Everywhere
  <2>. QED
    BY <2>2 DEF K
<1>14. \A k \in Nat : \A n \in level[k] : ~Modifies(n, x)
  BY <1>12, <1>13 DEF Some
<1>15. ASSUME NEW m \in Below(body)
       PROVE  \E k \in Nat : m \in level[k]
  <2>. DEFINE S == {n \in AstNode : \E k \in Nat : n \in level[k]}
  <2>1. body \in S
    BY <1>7
  <2>2. ASSUME NEW n \in S
        PROVE  ToSet(Searched(n)) \subseteq S
    <3>1. PICK k \in Nat : n \in level[k]
      OBVIOUS
    <3>2. ToSet(Searched(n)) \subseteq level[k + 1] /\ k + 1 \in Nat
      BY <1>4, <1>7, <3>1
    <3>. QED
      BY <1>8, <3>2
  <2>3. S \in SUBSET AstNode
    OBVIOUS
  <2>. HIDE DEF S
  <2>4. m \in S
    BY <2>1, <2>2, <2>3 DEF Below
  <2>. QED
    BY <2>4 DEF S
<1>. QED
  BY <1>14, <1>15

(***************************************************************************)
(* Where the agenda leads.                                                 *)
(***************************************************************************)
\* The nodes that the handlers of a node visit: of an unrolled loop neither the
\* condition nor the update.
Visited(n) ==
    IF n.kind = "ForStatement" /\ Unrolled(n) THEN {n.init, n.body}
    ELSE ToSet(Children(n))

Initializers == {"InferredInit", "ExplicitInit"}
ForTasks == {"ForBlocks", "ForCond", "ForUpdate", "ForEnd"}

\* The rest of a rolled loop's handler is that of a rolled loop.
Rolled == \A k \in DOMAIN todo : todo[k].do \in ForTasks => ~Unrolled(todo[k].node)

\* The tasks a handler puts on the agenda: it goes on itself, last, and visits
\* nodes below its own.
Orderly(tasks) ==
    \A k \in DOMAIN tasks :
        /\ \/ tasks[k].node \in Visited(Node)
           \/ tasks[k].node = Node /\ (k = Len(tasks) \/ Top.do = "UnrollStart")
        /\ tasks[k].do \in ForTasks => ~Unrolled(tasks[k].node)
        /\ tasks[k].do \in Initializers => Top.do = "Visit" /\ Node.kind = "VariableDecl"
        /\ tasks[k].do = "UnrollStore" => Top.do = "UnrollStart"

Moves ==
    /\ function' = function
    /\ \/ todo' = todo
       \/ \E S : \E tasks \in Seq(S) : Proceed(tasks) /\ Orderly(tasks)

LEMMA ShortLists ==
    /\ \A a : ToSet(<<a>>) = {a}
    /\ \A a, b : ToSet(<<a, b>>) = {a, b}
    /\ \A a, b, c : ToSet(<<a, b, c>>) = {a, b, c}
    /\ \A a, b, c, d : ToSet(<<a, b, c, d>>) = {a, b, c, d}
BY DEF ToSet

LEMMA VisitedNodes ==
    ASSUME NEW n
    PROVE  /\ n.kind = "BinaryExpr" => Visited(n) = {n.left, n.right}
           /\ n.kind = "UnaryExpr" => Visited(n) = {n.operand}
           /\ n.kind = "CastExpr" => Visited(n) = {n.expr}
           /\ n.kind \in {"AssignExpr", "ReturnStatement"} => Visited(n) = {n.value}
           /\ n.kind = "MemberAccessExpr" => Visited(n) = {n.object}
           /\ n.kind = "IfStatement" =>
                 Visited(n) = {n.condition, n.thenBranch, n.elseBranch}
           /\ n.kind = "WhileStatement" => Visited(n) = {n.condition, n.body}
           /\ n.kind = "ExprStatement" => Visited(n) = {n.expression}
           /\ n.kind = "VariableDecl" => Visited(n) = {n.initializer}
           /\ n.kind = "FunctionDecl" => Visited(n) = {n.body}
           /\ n.kind = "CallExpr" => Visited(n) = ToSet(n.arguments)
           /\ n.kind = "BlockStatement" => Visited(n) = ToSet(n.statements)
           /\ n.kind = "ForStatement" /\ ~Unrolled(n) =>
                 Visited(n) = {n.init, n.condition, n.update, n.body}
           /\ n.kind = "ForStatement" /\ Unrolled(n) => Visited(n) = {n.init, n.body}
<1>1. n.kind # "ForStatement" => Visited(n) = ToSet(Children(n))
  BY DEF Visited
<1>2. n.kind = "ForStatement" =>
        Visited(n) = IF Unrolled(n) THEN {n.init, n.body} ELSE ToSet(Children(n))
  BY DEF Visited
<1>. QED
  BY <1>1, <1>2, ShortLists DEF Children

LEMMA Pair ==
    ASSUME NEW a, NEW b
    PROVE  <<a>> \o <<b>> = <<a, b>>
<1>1. <<a>> \in Seq({a, b}) /\ <<a, b>> = Append(<<a>>, b)
  OBVIOUS
<1>. QED
  BY <1>1, AppendIsConcat

LEMMA FollowMoves ==
    ASSUME function' = function, NEW n, NEW u, Follows(n, u),
           n \in Visited(Node) \/ Finish, u.node = Node,
           u.do \in ForTasks => ~Unrolled(Node),
           u.do \in Initializers => Top.do = "Visit" /\ Node.kind = "VariableDecl",
           u.do # "UnrollStore"
    PROVE  Moves
<1>. DEFINE first == Visit(n)
            S == {first, u}
            one == <<first>>
            two == <<first, u>>
            last == <<u>>
<1>1. /\ <<>> \in Seq(S) /\ DOMAIN <<>> = {}
      /\ one \in Seq(S) /\ DOMAIN one = {1} /\ one[1] = first
      /\ two \in Seq(S) /\ DOMAIN two = {1, 2} /\ two[1] = first /\ two[2] = u /\ Len(two) = 2
      /\ last \in Seq(S) /\ DOMAIN last = {1} /\ last[1] = u /\ Len(last) = 1
  OBVIOUS
<1>2. first.node = n /\ first.do = "Visit"
  BY DEF Visit, Task
<1>3. Proceed(<<>>) \/ (n \in Visited(Node) /\ (Proceed(one) \/ Proceed(two) \/ Proceed(last)))
  <2>1. CASE n = Null
    <3>1. IfPresent(n) = <<>> /\ IfPresent(n) \o <<u>> = last
      BY <2>1 DEF IfPresent
    <3>. QED
      BY <3>1 DEF Follows, Finish
  <2>2. CASE n # Null
    <3>1. IfPresent(n) = one
      BY <2>2 DEF IfPresent
    <3>. HIDE DEF first
    <3>2. one \o <<u>> = two
      BY Pair
    <3>3. Proceed(<<Visit(n), u>>) => Proceed(two)
      BY DEF first
    <3>. HIDE DEF one, two
    <3>. QED
      BY <3>1, <3>2, <3>3 DEF Follows, Finish
  <2>. QED
    BY <2>1, <2>2
<1>. HIDE DEF one, two, last, first, S
<1>4. Orderly(<<>>)
  BY <1>1 DEF Orderly
<1>5. first.do \notin ForTasks /\ first.do \notin Initializers /\ first.do # "UnrollStore"
  BY <1>2 DEF ForTasks, Initializers
<1>6. n \in Visited(Node) => Orderly(one) /\ Orderly(two) /\ Orderly(last)
  BY <1>1, <1>2, <1>5 DEF Orderly
<1>. QED
  BY <1>1, <1>3, <1>4, <1>6 DEF Moves

LEMMA FinishMoves ==
    ASSUME function' = function, Finish
    PROVE  Moves
<1>. DEFINE u == Task("Visit", Node, <<>>, <<>>)
<1>1. u.node = Node /\ u.do = "Visit"
  BY DEF Task
<1>2. Follows(Node, u)
  BY DEF Follows
<1>. HIDE DEF u
<1>. QED
  BY <1>1, <1>2, FollowMoves DEF ForTasks, Initializers

LEMMA RejectMoves ==
    ASSUME NEW text, NEW subject, Reject(text, subject)
    PROVE  Moves
BY FinishMoves DEF Reject, module

LEMMA CrashMoves ==
    ASSUME Crash
    PROVE  Moves
BY DEF Crash, Moves, module

\* What the tasks that go on are called.
LEMMA GoesOn ==
    ASSUME NEW do, NEW vals, NEW blks
    PROVE  /\ Then(do).node = Node /\ Then(do).do = do
           /\ ThenWith(do, vals).node = Node /\ ThenWith(do, vals).do = do
           /\ ThenAt(do, blks).node = Node /\ ThenAt(do, blks).do = do
           /\ Visit(Node).node = Node /\ Visit(Node).do = "Visit"
BY DEF Then, ThenWith, ThenAt, Visit, Task

LEMMA SameFunction ==
    ASSUME UNCHANGED module
    PROVE  function' = function
BY DEF module

\* A handler visits a child and goes on as u, or is over.
LEMMA VisitMoves ==
    ASSUME function' = function, NEW n \in Visited(Node), NEW do, NEW vals, NEW blks,
           \/ Follows(n, Then(do)) \/ Follows(n, ThenWith(do, vals))
           \/ Follows(n, ThenAt(do, blks)),
           do \notin ForTasks \cup Initializers \cup {"UnrollStore"}
    PROVE  Moves
BY GoesOn, FollowMoves

LEMMA OperandMoves ==
    ASSUME TypeOK,
           \/ VisitBinaryExpr \/ VisitUnaryExpr \/ VisitCastExpr
           \/ VisitAssignExpr \/ VisitMemberAccessExpr \/ VisitIfStatement
    PROVE  Moves
<1>1. function' = function
  BY SameFunction DEF VisitBinaryExpr, VisitUnaryExpr, VisitCastExpr, VisitAssignExpr,
       VisitMemberAccessExpr, VisitIfStatement, Descend
<1>2. \A n, do : Proceed(<<Visit(n), Then(do)>>) => Follows(n, Then(do))
  BY DEF Follows
<1>. DEFINE dos == {"ShortLeft", "BinLeft", "UnaryOp", "CastOp", "AssignStore",
                    "MemberLoad", "IfCond"}
<1>3. \A do \in dos : do \notin ForTasks \cup Initializers \cup {"UnrollStore"}
  BY DEF ForTasks, Initializers
<1>4. \E n \in Visited(Node), do \in dos : Proceed(<<Visit(n), Then(do)>>)
  <2>1. CASE VisitBinaryExpr
    <3>1. Node.left \in Visited(Node)
      BY <2>1, VisitedNodes DEF VisitBinaryExpr, Descend, Visiting
    <3>. QED
      BY <2>1, <3>1 DEF VisitBinaryExpr, Descend
  <2>2. CASE VisitUnaryExpr
    <3>1. Node.operand \in Visited(Node)
      BY <2>2, VisitedNodes DEF VisitUnaryExpr, Descend, Visiting
    <3>. QED
      BY <2>2, <3>1 DEF VisitUnaryExpr, Descend
  <2>3. CASE VisitCastExpr
    <3>1. Node.expr \in Visited(Node)
      BY <2>3, VisitedNodes DEF VisitCastExpr, Descend, Visiting
    <3>. QED
      BY <2>3, <3>1 DEF VisitCastExpr, Descend
  <2>4. CASE VisitAssignExpr
    <3>1. Node.value \in Visited(Node)
      BY <2>4, VisitedNodes DEF VisitAssignExpr, Descend, Visiting
    <3>. QED
      BY <2>4, <3>1 DEF VisitAssignExpr, Descend
  <2>5. CASE VisitMemberAccessExpr
    <3>1. Node.object \in Visited(Node)
      BY <2>5, VisitedNodes DEF VisitMemberAccessExpr, Descend, Visiting
    <3>. QED
      BY <2>5, <3>1 DEF VisitMemberAccessExpr, Descend
  <2>6. CASE VisitIfStatement
    <3>1. Node.condition \in Visited(Node)
      BY <2>6, VisitedNodes DEF VisitIfStatement, Descend, Visiting
    <3>. QED
      BY <2>6, <3>1 DEF VisitIfStatement, Descend
  <2>. QED
    BY <2>1, <2>2, <2>3, <2>4, <2>5, <2>6
<1>. HIDE DEF dos
<1>. QED
  BY <1>1, <1>2, <1>3, <1>4, VisitMoves

\* Handlers that end here, or print an error, or crash.
LEMMA LastMoves ==
    ASSUME TypeOK,
           \/ VisitLiteralExpr \/ VisitVarExpr \/ VisitAllocExpr
           \/ VisitPrefixExpr \/ VisitPostfixExpr \/ ShortRight \/ BinRight
           \/ UnaryOp \/ CastOp \/ CallEnd \/ AssignStore \/ MemberLoad
           \/ VisitNull \/ InferredInit \/ ExplicitInit \/ ReturnValue \/ IfMerge
           \/ WhileEnd \/ UnrollStore \/ ForEnd
    PROVE  Moves
<1>1. \/ Crash
      \/ todo' = todo /\ UNCHANGED module
      \/ Finish /\ UNCHANGED module
      \/ \E text, subject : Reject(text, subject)
  <2>1. CASE VisitLiteralExpr \/ VisitVarExpr \/ VisitAllocExpr
    BY <2>1 DEF VisitLiteralExpr, VisitVarExpr, VisitAllocExpr
  <2>2. CASE VisitPrefixExpr \/ VisitPostfixExpr
    <3>1. \E prefix : IncDec(prefix)
      BY <2>2 DEF VisitPrefixExpr, VisitPostfixExpr
    <3>. QED
      BY <3>1 DEF IncDec
  <2>3. CASE ShortRight \/ BinRight
    BY <2>3 DEF ShortRight, BinRight
  <2>4. CASE UnaryOp \/ CastOp
    BY <2>4 DEF UnaryOp, CastOp
  <2>5. CASE CallEnd \/ AssignStore \/ MemberLoad
    BY <2>5 DEF CallEnd, AssignStore, MemberLoad
  <2>6. CASE VisitNull \/ InferredInit \/ ExplicitInit
    BY <2>6 DEF VisitNull, InferredInit, ExplicitInit
  <2>7. CASE ReturnValue \/ IfMerge \/ WhileEnd \/ UnrollStore \/ ForEnd
    BY <2>7 DEF ReturnValue, IfMerge, WhileEnd, UnrollStore, ForEnd
  <2>. QED
    BY <2>1, <2>2, <2>3, <2>4, <2>5, <2>6, <2>7
<1>2. CASE Crash
  BY <1>2, CrashMoves
<1>3. CASE todo' = todo /\ UNCHANGED module
  BY <1>3, SameFunction DEF Moves
<1>4. CASE Finish /\ UNCHANGED module
  BY <1>4, SameFunction, FinishMoves
<1>. QED
  BY <1>1, <1>2, <1>3, <1>4, RejectMoves

\* Handlers that come back to visit one more child.
LEMMA SecondMoves ==
    ASSUME TypeOK, ShortLeft \/ BinLeft \/ IfCond \/ IfElse \/ WhileCond
    PROVE  Moves
<1>1. /\ todo # <<>> /\ OwnKind(Top)
      /\ Top.do \in {"ShortLeft", "BinLeft", "IfCond", "IfElse", "WhileCond"}
  BY TopType DEF ShortLeft, BinLeft, IfCond, IfElse, WhileCond, Resuming, Running
<1>2. \A do \in {"ShortRight", "BinRight", "IfElse", "IfMerge", "WhileEnd"} :
          do \notin ForTasks \cup Initializers \cup {"UnrollStore"}
  BY DEF ForTasks, Initializers
<1>3. \/ Crash
      \/ \E text, subject : Reject(text, subject)
      \/ UNCHANGED module
  BY DEF ShortLeft, BinLeft, IfCond, IfElse, WhileCond
<1>4. CASE ShortLeft /\ UNCHANGED module
  <2>1. Node.right \in Visited(Node)
    BY <1>1, <1>4, VisitedNodes DEF ShortLeft, Resuming, OwnKind, Node
  <2>2. \/ Crash
        \/ \E text, subject : Reject(text, subject)
        \/ \E blks : Proceed(<<Visit(Node.right), ThenAt("ShortRight", blks)>>)
    BY <1>4 DEF ShortLeft
  <2>3. ASSUME NEW blks, Proceed(<<Visit(Node.right), ThenAt("ShortRight", blks)>>)
        PROVE  Moves
    <3>1. Follows(Node.right, ThenAt("ShortRight", blks))
      BY <2>3 DEF Follows
    <3>. QED
      BY <1>2, <1>4, <2>1, <3>1, SameFunction, VisitMoves
  <2>. QED
    BY <2>2, <2>3, CrashMoves, RejectMoves
<1>5. CASE BinLeft /\ UNCHANGED module
  <2>1. Node.right \in Visited(Node)
    BY <1>1, <1>5, VisitedNodes DEF BinLeft, Resuming, OwnKind, Node
  <2>2. Follows(Node.right, ThenWith("BinRight", <<m_LastValue>>))
    BY <1>5 DEF BinLeft, Follows
  <2>. QED
    BY <1>2, <1>5, <2>1, <2>2, SameFunction, VisitMoves
<1>6. CASE IfCond /\ UNCHANGED module
  <2>1. Node.thenBranch \in Visited(Node)
    BY <1>1, <1>6, VisitedNodes DEF IfCond, Resuming, OwnKind, Node
  <2>2. \/ \E text, subject : Reject(text, subject)
        \/ \E blks : Proceed(<<Visit(Node.thenBranch), ThenAt("IfElse", blks)>>)
    BY <1>6 DEF IfCond
  <2>3. ASSUME NEW blks, Proceed(<<Visit(Node.thenBranch), ThenAt("IfElse", blks)>>)
        PROVE  Moves
    <3>1. Follows(Node.thenBranch, ThenAt("IfElse", blks))
      BY <2>3 DEF Follows
    <3>. QED
      BY <1>2, <1>6, <2>1, <3>1, SameFunction, VisitMoves
  <2>. QED
    BY <2>2, <2>3, RejectMoves
<1>7. CASE IfElse /\ UNCHANGED module
  <2>1. Node.elseBranch \in Visited(Node)
    BY <1>1, <1>7, VisitedNodes DEF IfElse, Resuming, OwnKind, Node
  <2>2. PICK blks : Proceed(IfPresent(Node.elseBranch) \o <<ThenAt("IfMerge", blks)>>)
    BY <1>7 DEF IfElse
  <2>3. Follows(Node.elseBranch, ThenAt("IfMerge", blks))
    BY <2>2 DEF Follows
  <2>. QED
    BY <1>2, <1>7, <2>1, <2>3, SameFunction, VisitMoves
<1>8. CASE WhileCond /\ UNCHANGED module
  <2>1. Node.body \in Visited(Node)
    BY <1>1, <1>8, VisitedNodes DEF WhileCond, Resuming, OwnKind, Node
  <2>2. \/ \E text, subject : Reject(text, subject)
        \/ Proceed(<<Visit(Node.body), ThenAt("WhileEnd", Top.blks)>>)
    BY <1>8 DEF WhileCond
  <2>3. ASSUME Proceed(<<Visit(Node.body), ThenAt("WhileEnd", Top.blks)>>)
        PROVE  Moves
    <3>1. Follows(Node.body, ThenAt("WhileEnd", Top.blks))
      BY <2>3 DEF Follows
    <3>. QED
      BY <1>2, <1>8, <2>1, <3>1, SameFunction, VisitMoves
  <2>. QED
    BY <2>2, <2>3, RejectMoves
<1>. QED
  BY <1>3, <1>4, <1>5, <1>6, <1>7, <1>8, CrashMoves, RejectMoves

\* Other statements, and calls.
LEMMA StatementMoves ==
    ASSUME TypeOK, Statement
    PROVE  Moves
<1>1. Proceed(IfPresent(Node)) /\ function' = function
  BY SameFunction DEF Statement
<1>2. Proceed(<<>>) \/ Proceed(<<Visit(Node)>>)
  BY <1>1 DEF IfPresent
<1>. DEFINE v == Visit(Node)
<1>3. v.node = Node /\ v.do = "Visit"
  BY GoesOn
<1>4. Proceed(<<v>>) \/ Finish
  BY <1>2 DEF Finish
<1>. HIDE DEF v
<1>5. <<v>> \in Seq({v}) /\ DOMAIN <<v>> = {1} /\ <<v>>[1] = v /\ Len(<<v>>) = 1
  OBVIOUS
<1>6. Orderly(<<v>>)
  BY <1>3, <1>5 DEF Orderly, ForTasks, Initializers
<1>7. CASE Proceed(<<v>>)
  BY <1>1, <1>5, <1>6, <1>7 DEF Moves
<1>. QED
  BY <1>1, <1>4, <1>7, FinishMoves

LEMMA SimpleMoves ==
    ASSUME TypeOK, VisitExprStatement \/ VisitReturnStatement \/ VisitWhileStatement
    PROVE  Moves
<1>1. \A do \in {"ReturnValue", "WhileCond"} :
          do \notin ForTasks \cup Initializers \cup {"UnrollStore"}
  BY DEF ForTasks, Initializers
<1>2. function' = function
  BY SameFunction DEF VisitExprStatement, VisitReturnStatement, VisitWhileStatement, Descend
<1>3. CASE VisitExprStatement
  <2>1. Node.expression \in Visited(Node)
    BY <1>3, VisitedNodes DEF VisitExprStatement, Descend, Visiting
  <2>2. Follows(Node.expression, Then("ReturnValue"))
    BY <1>3 DEF VisitExprStatement, Descend, Follows
  <2>. QED
    BY <1>1, <1>2, <2>1, <2>2, VisitMoves
<1>4. CASE VisitReturnStatement
  <2>1. Node.value \in Visited(Node)
    BY <1>4, VisitedNodes DEF VisitReturnStatement, Visiting
  <2>2. Follows(Node.value, Then("ReturnValue"))
    BY <1>4 DEF VisitReturnStatement, Follows
  <2>. QED
    BY <1>1, <1>2, <2>1, <2>2, VisitMoves
<1>5. CASE VisitWhileStatement
  <2>1. Node.condition \in Visited(Node)
    BY <1>5, VisitedNodes DEF VisitWhileStatement, Visiting
  <2>2. PICK blks : Proceed(<<Visit(Node.condition), ThenAt("WhileCond", blks)>>)
    BY <1>5 DEF VisitWhileStatement
  <2>3. Follows(Node.condition, ThenAt("WhileCond", blks))
    BY <2>2 DEF Follows
  <2>. QED
    BY <1>1, <1>2, <2>1, <2>3, VisitMoves
<1>. QED
  BY <1>3, <1>4, <1>5

LEMMA VariableDeclMoves ==
    ASSUME TypeOK, VisitVariableDecl
    PROVE  Moves
<1>1. Top.do = "Visit" /\ Node.kind = "VariableDecl"
  BY DEF VisitVariableDecl, Visiting
<1>2. Node.initializer \in Visited(Node)
  BY <1>1, VisitedNodes
<1>3. \/ Crash
      \/ \E text, subject : Reject(text, subject)
      \/ UNCHANGED module /\ Follows(Node.initializer, Then("InferredInit"))
      \/ /\ UNCHANGED module
         /\ \E vals : Follows(Node.initializer, ThenWith("ExplicitInit", vals))
  <2>1. \A u : Proceed(<<Visit(Node.initializer), u>>) \/ Finish => Follows(Node.initializer, u)
    BY DEF Follows
  <2>. QED
    BY <2>1 DEF VisitVariableDecl
<1>4. \A u : /\ UNCHANGED module /\ Follows(Node.initializer, u)
             /\ u.node = Node /\ u.do \in Initializers
             => Moves
  BY <1>1, <1>2, SameFunction, FollowMoves DEF ForTasks, Initializers
<1>5. \A vals : /\ Then("InferredInit").node = Node /\ Then("InferredInit").do \in Initializers
                /\ ThenWith("ExplicitInit", vals).node = Node
                /\ ThenWith("ExplicitInit", vals).do \in Initializers
  BY GoesOn DEF Initializers
<1>. QED
  BY <1>3, <1>4, <1>5, CrashMoves, RejectMoves

LEMMA RolledMoves ==
    ASSUME TypeOK, Rolled, ForBlocks \/ ForCond \/ ForUpdate
    PROVE  Moves
<1>1. /\ todo # <<>> /\ OwnKind(Top) /\ Top.do \in ForTasks
  BY TopType DEF ForBlocks, ForCond, ForUpdate, Resuming, Running, ForTasks
<1>2. Node.kind = "ForStatement"
  BY <1>1 DEF OwnKind, ForTasks, Node
<1>3. ~Unrolled(Node)
  <2>1. 1 \in DOMAIN todo /\ Top = todo[1]
    BY <1>1, LenProperties, HeadTailProperties DEF TypeOK, Top
  <2>. QED
    BY <1>1, <2>1 DEF Rolled, Node
<1>4. Visited(Node) = {Node.init, Node.condition, Node.update, Node.body}
  BY <1>2, <1>3, VisitedNodes
<1>5. \A n \in Visited(Node), do \in ForTasks : \A blks :
          UNCHANGED module /\ Follows(n, ThenAt(do, blks)) => Moves
  <2>1. \A do \in ForTasks : do \notin Initializers /\ do # "UnrollStore"
    BY DEF ForTasks, Initializers
  <2>. QED
    BY <1>3, <2>1, GoesOn, SameFunction, FollowMoves
<1>6. \/ \E text, subject : Reject(text, subject)
      \/ /\ UNCHANGED module
         /\ \E n \in Visited(Node), do \in ForTasks : \E blks : Follows(n, ThenAt(do, blks))
  <2>1. CASE ForBlocks
    <3>1. /\ UNCHANGED module
          /\ \E blks : Proceed(IfPresent(Node.condition) \o <<ThenAt("ForCond", blks)>>)
      BY <2>1 DEF ForBlocks
    <3>. QED
      BY <1>4, <3>1 DEF Follows, ForTasks
  <2>2. CASE ForCond
    <3>1. \/ \E text, subject : Reject(text, subject)
          \/ /\ UNCHANGED module
             /\ Proceed(<<Visit(Node.body), ThenAt("ForUpdate", Top.blks)>>)
      BY <2>2 DEF ForCond
    <3>2. Proceed(<<Visit(Node.body), ThenAt("ForUpdate", Top.blks)>>)
            => Follows(Node.body, ThenAt("ForUpdate", Top.blks))
      BY DEF Follows
    <3>3. Node.body \in Visited(Node) /\ "ForUpdate" \in ForTasks
      BY <1>4 DEF ForTasks
    <3>. QED
      BY <3>1, <3>2, <3>3
  <2>3. CASE ForUpdate
    <3>1. /\ UNCHANGED module
          /\ Proceed(IfPresent(Node.update) \o <<ThenAt("ForEnd", Top.blks)>>)
      BY <2>3 DEF ForUpdate
    <3>. QED
      BY <1>4, <3>1 DEF Follows, ForTasks
  <2>. QED
    BY <2>1, <2>2, <2>3
<1>. QED
  BY <1>5, <1>6, RejectMoves

LEMMA ForMoves ==
    ASSUME TypeOK, VisitForStatement
    PROVE  Moves
<1>1. /\ Node.kind = "ForStatement" /\ function' = function
      /\ \/ Unrolled(Node) /\ Proceed(<<Visit(Node.init), Then("UnrollStart")>>)
         \/ ~Unrolled(Node) /\ Proceed(IfPresent(Node.init) \o <<Then("ForBlocks")>>)
  BY SameFunction DEF VisitForStatement, Descend, Visiting
<1>2. Node.init \in Visited(Node)
  BY <1>1, VisitedNodes
<1>3. "ForBlocks" \notin Initializers \cup {"UnrollStore"}
      /\ "UnrollStart" \notin ForTasks \cup Initializers \cup {"UnrollStore"}
  BY DEF ForTasks, Initializers
<1>4. CASE Proceed(<<Visit(Node.init), Then("UnrollStart")>>)
  <2>1. Follows(Node.init, Then("UnrollStart"))
    BY <1>4 DEF Follows
  <2>. QED
    BY <1>1, <1>2, <1>3, <2>1, VisitMoves
<1>5. CASE ~Unrolled(Node) /\ Proceed(IfPresent(Node.init) \o <<Then("ForBlocks")>>)
  <2>1. Follows(Node.init, Then("ForBlocks"))
    BY <1>5 DEF Follows
  <2>. QED
    BY <1>1, <1>2, <1>3, <1>5, <2>1, GoesOn, FollowMoves
<1>. QED
  BY <1>1, <1>4, <1>5

LEMMA CallMoves ==
    ASSUME TypeOK, VisitCallExpr \/ CallArg
    PROVE  Moves
<1>1. /\ todo # <<>> /\ Node.kind = "CallExpr" /\ Node \in AstNode
      /\ Top.vals \in Seq(Values) /\ m_LastValue \in Values /\ function' = function
  BY TopType, SameFunction DEF VisitCallExpr, CallArg, Visiting, Resuming, Running,
     OwnKind, Node, TypeOK
<1>2. <<>> \in Seq(Values) /\ Append(Top.vals, m_LastValue) \in Seq(Values)
  BY <1>1
<1>3. PICK args \in Seq(Values) : Proceed(NextArgument(args))
  BY <1>2 DEF VisitCallExpr, CallArg
<1>4. /\ Node.arguments \in Seq(AstNode) /\ Visited(Node) = ToSet(Node.arguments)
      /\ Len(args) \in Nat
  BY <1>1, ExpressionMembers, VisitedNodes, LenProperties
<1>5. "CallArg" \notin ForTasks \cup Initializers \cup {"UnrollStore"}
      /\ "CallEnd" \notin ForTasks \cup Initializers \cup {"UnrollStore"}
  BY DEF ForTasks, Initializers
<1>6. CASE Len(args) < Len(Node.arguments)
  <2>. DEFINE n == Node.arguments[Len(args) + 1]
  <2>1. n \in Visited(Node)
    <3>1. Len(args) + 1 \in DOMAIN Node.arguments
      BY <1>4, <1>6, LenProperties
    <3>. QED
      BY <1>4, <3>1 DEF ToSet
  <2>2. Follows(n, ThenWith("CallArg", args))
    BY <1>3, <1>6 DEF NextArgument, Follows
  <2>. HIDE DEF n
  <2>. QED
    BY <1>1, <1>5, <2>1, <2>2, VisitMoves
<1>7. CASE ~(Len(args) < Len(Node.arguments))
  <2>. DEFINE u == ThenWith("CallEnd", args)
  <2>1. Proceed(<<u>>)
    BY <1>3, <1>7 DEF NextArgument
  <2>2. u.node = Node /\ u.do = "CallEnd"
    BY GoesOn
  <2>. HIDE DEF u
  <2>3. <<u>> \in Seq({u}) /\ DOMAIN <<u>> = {1} /\ <<u>>[1] = u /\ Len(<<u>>) = 1
    OBVIOUS
  <2>4. Orderly(<<u>>)
    BY <1>5, <2>2, <2>3 DEF Orderly
  <2>. QED
    BY <1>1, <2>1, <2>3, <2>4 DEF Moves
<1>. QED
  BY <1>6, <1>7

LEMMA BlockMoves ==
    ASSUME TypeOK, VisitBlockStatement
    PROVE  Moves
<1>. DEFINE tasks == [k \in DOMAIN Node.statements |->
                         Task("Statement", Node.statements[k], <<>>, <<>>)]
            S == {Task("Statement", n, <<>>, <<>>) : n \in AstNode}
<1>1. /\ todo # <<>> /\ Node \in AstNode /\ Node.kind = "BlockStatement"
      /\ Proceed(tasks) /\ function' = function
  BY TopType, SameFunction DEF VisitBlockStatement, Descend, Visiting, Running
<1>2. Node.statements \in Seq(AstNode) /\ Visited(Node) = ToSet(Node.statements)
  BY <1>1, StatementMembers, VisitedNodes
<1>3. DOMAIN Node.statements = 1..Len(Node.statements) /\ Len(Node.statements) \in Nat
  BY <1>2, LenProperties
<1>4. \A k \in DOMAIN Node.statements : tasks[k] \in S
  BY <1>2
<1>5. tasks \in Seq(S)
  BY <1>3, <1>4
<1>6. \A k \in DOMAIN tasks : tasks[k].do = "Statement" /\ tasks[k].node \in Visited(Node)
  <2>. SUFFICES ASSUME NEW k \in DOMAIN Node.statements
                PROVE  tasks[k].do = "Statement" /\ tasks[k].node \in Visited(Node)
    OBVIOUS
  <2>1. tasks[k] = Task("Statement", Node.statements[k], <<>>, <<>>)
    OBVIOUS
  <2>2. Node.statements[k] \in Visited(Node)
    BY <1>2 DEF ToSet
  <2>. QED
    BY <2>1, <2>2 DEF Task
<1>. HIDE DEF tasks, S
<1>7. Orderly(tasks)
  BY <1>6 DEF Orderly, ForTasks, Initializers
<1>. QED
  BY <1>1, <1>5, <1>7 DEF Moves

LEMMA UnrollMoves ==
    ASSUME TypeOK, UnrollStart, Unrolled(Node)
    PROVE  Moves
<1>. DEFINE info == AnalyzeForUnroll(Node)
            slot == m_variables[info.varName].value
            tasks == Iterations(info, slot)
<1>1. todo # <<>> /\ Top.do = "UnrollStart"
  BY DEF UnrollStart, Resuming, Running
<1>2. Node \in AstNode /\ Node.kind = "ForStatement"
  BY <1>1, TopType DEF OwnKind, Node
<1>3. \/ Crash
      \/ \E text, subject : Reject(text, subject)
      \/ info.varName \in DOMAIN m_variables /\ Proceed(tasks) /\ UNCHANGED module
  BY DEF UnrollStart
<1>4. CASE info.varName \in DOMAIN m_variables /\ Proceed(tasks) /\ UNCHANGED module
  <2>1. info.start \in Int /\ info.step \in Int /\ info.tripCount \in Nat
    BY <1>2, AnalysisType
  <2>2. slot \in Values
    BY <1>4 DEF TypeOK, VariableInfos
  <2>3. Node.body \in Visited(Node)
    BY <1>2, VisitedNodes
  <2>. HIDE DEF info, slot
  <2>4. tasks \in Seq(TasksIn(ir))
    BY <1>2, <2>1, <2>2, IterationsType
  <2>5. \A k \in DOMAIN tasks :
            \/ tasks[k].node = Node.body /\ tasks[k].do = "Visit"
            \/ tasks[k].node = Node /\ tasks[k].do = "UnrollStore"
    <3>1. \A vals : /\ ThenWith("UnrollStore", vals).node = Node
                    /\ ThenWith("UnrollStore", vals).do = "UnrollStore"
      BY GoesOn
    <3>2. Visit(Node.body).node = Node.body /\ Visit(Node.body).do = "Visit"
      BY DEF Visit, Task
    <3>. QED
      BY <3>1, <3>2 DEF Iterations
  <2>. HIDE DEF tasks
  <2>6. Orderly(tasks)
    BY <1>1, <2>3, <2>5 DEF Orderly, ForTasks, Initializers
  <2>. QED
    BY <1>4, <2>4, <2>6, SameFunction DEF Moves, tasks
<1>. QED
  BY <1>3, <1>4, CrashMoves, RejectMoves

\* Every handler.
LEMMA HandlersMove ==
    ASSUME TypeOK, Rolled, Expressions \/ Statements,
           UnrollStart => Unrolled(Node)
    PROVE  Moves
<1>1. CASE Expressions
  BY <1>1, LastMoves, OperandMoves, SecondMoves, CallMoves DEF Expressions
<1>2. CASE Statements
  BY <1>2, LastMoves, OperandMoves, SecondMoves, StatementMoves, SimpleMoves,
     VariableDeclMoves, RolledMoves, ForMoves, BlockMoves, UnrollMoves DEF Statements
<1>. QED
  BY <1>1, <1>2

(***************************************************************************)
(* The nodes of a function.                                                *)
(***************************************************************************)
\* The nodes that the handlers come to from a node.
Reached(root) ==
    {m \in AstNode :
        \A S \in SUBSET AstNode :
            root \in S /\ (\A k \in S : Visited(k) \subseteq S) => m \in S}

Inside == function # Null => \A k \in DOMAIN todo : todo[k].node \in Reached(function)

LEMMA VisitedInAst ==
    ASSUME NEW n \in AstNode
    PROVE  Visited(n) \subseteq AstNode
<1>1. ToSet(Children(n)) \subseteq AstNode
  <2>1. Children(n) \in Seq(AstNode)
    BY AstAssumption DEF WellFormed
  <2>. HIDE DEF Children
  <2>. QED
    BY <2>1, LenProperties DEF ToSet
<1>2. n.kind = "ForStatement" => n.init \in AstNode /\ n.body \in AstNode
  BY StatementMembers
<1>. QED
  BY <1>1, <1>2 DEF Visited

LEMMA ReachedNodes ==
    ASSUME NEW root \in AstNode
    PROVE  /\ root \in Reached(root) /\ Reached(root) \subseteq AstNode
           /\ \A m \in Reached(root) : Visited(m) \subseteq Reached(root)
<1>1. root \in Reached(root) /\ Reached(root) \subseteq AstNode
  BY DEF Reached
<1>2. ASSUME NEW m \in Reached(root), NEW k \in Visited(m)
      PROVE  k \in Reached(root)
  <2>1. k \in AstNode
    BY <1>1, <1>2, VisitedInAst
  <2>2. \A S \in SUBSET AstNode :
            root \in S /\ (\A j \in S : Visited(j) \subseteq S) => k \in S
    BY <1>2 DEF Reached
  <2>. QED
    BY <2>1, <2>2 DEF Reached
<1>. QED
  BY <1>1, <1>2

(***************************************************************************)
(* Where the agenda stays.                                                 *)
(***************************************************************************)
LEMMA InsideKept ==
    ASSUME TypeOK, Inside, todo # <<>>, Moves
    PROVE  Inside'
<1>1. function # Null /\ function \in AstNode /\ function' = function
  BY DEF TypeOK, Moves
<1>2. \A m \in Reached(function) : Visited(m) \subseteq Reached(function)
  BY <1>1, ReachedNodes
<1>3. CASE todo' = todo
  BY <1>1, <1>3 DEF Inside
<1>4. CASE \E S : \E tasks \in Seq(S) : Proceed(tasks) /\ Orderly(tasks)
  <2>1. PICK S : \E tasks \in Seq(S) : Proceed(tasks) /\ Orderly(tasks)
    BY <1>4
  <2>2. PICK tasks \in Seq(S) : Proceed(tasks) /\ Orderly(tasks)
    BY <2>1
  <2>3. /\ 1 \in DOMAIN todo /\ Top = todo[1]
        /\ \A k \in DOMAIN tasks : todo'[k] = tasks[k]
        /\ \A k \in DOMAIN todo' \ DOMAIN tasks :
              Was(k, tasks) \in DOMAIN todo /\ todo'[k] = todo[Was(k, tasks)]
    BY <2>2, Agenda
  <2>4. Node \in Reached(function)
    BY <1>1, <2>3 DEF Inside, Node
  <2>5. ASSUME NEW k \in DOMAIN todo'
        PROVE  todo'[k].node \in Reached(function)
    <3>1. CASE k \in DOMAIN tasks
      <4>1. tasks[k].node \in Visited(Node) \/ tasks[k].node = Node
        BY <2>2, <3>1 DEF Orderly
      <4>. QED
        BY <1>2, <2>3, <2>4, <3>1, <4>1
    <3>2. CASE k \notin DOMAIN tasks
      BY <1>1, <2>3, <3>2 DEF Inside
    <3>. QED
      BY <3>1, <3>2
  <2>. QED
    BY <1>1, <2>5 DEF Inside
<1>. QED
  BY <1>3, <1>4 DEF Moves

LEMMA RolledKept ==
    ASSUME TypeOK, Rolled, todo # <<>>, Moves
    PROVE  Rolled'
<1>1. CASE todo' = todo
  BY <1>1 DEF Rolled
<1>2. CASE \E S : \E tasks \in Seq(S) : Proceed(tasks) /\ Orderly(tasks)
  <2>1. PICK S : \E tasks \in Seq(S) : Proceed(tasks) /\ Orderly(tasks)
    BY <1>2
  <2>2. PICK tasks \in Seq(S) : Proceed(tasks) /\ Orderly(tasks)
    BY <2>1
  <2>3. /\ \A k \in DOMAIN tasks : todo'[k] = tasks[k]
        /\ \A k \in DOMAIN todo' \ DOMAIN tasks :
              Was(k, tasks) \in DOMAIN todo /\ todo'[k] = todo[Was(k, tasks)]
    BY <2>2, Agenda
  <2>4. \A k \in DOMAIN tasks : tasks[k].do \in ForTasks => ~Unrolled(tasks[k].node)
    BY <2>2 DEF Orderly
  <2>5. ASSUME NEW k \in DOMAIN todo', todo'[k].do \in ForTasks
        PROVE  ~Unrolled(todo'[k].node)
    BY <2>3, <2>4, <2>5 DEF Rolled
  <2>. QED
    BY <2>5 DEF Rolled
<1>. QED
  BY <1>1, <1>2 DEF Moves

(***************************************************************************)
(* The initializers that are numbers.                                      *)
(***************************************************************************)
\* Nothing comes between the visit of a literal and the initialization it is for.
NumbersFirst ==
    \A k \in DOMAIN todo :
        todo[k].do \in Initializers /\ HasNumber(todo[k].node.initializer) =>
            LET literal == todo[k].node.initializer
            IN  \/ k = 1 /\ m_LastValue = Constant(literal.value)
                \/ k = 2 /\ todo[1] = Visit(literal)

\* No such initialization waits behind a task that is about something else.
LEMMA NoneWaits ==
    ASSUME TypeOK, NumbersFirst, todo # <<>>, ~Special(Top)
    PROVE  \A k \in DOMAIN todo :
              ~(todo[k].do \in Initializers /\ HasNumber(todo[k].node.initializer))
<1>. SUFFICES ASSUME NEW k \in DOMAIN todo, todo[k].do \in Initializers,
                     HasNumber(todo[k].node.initializer)
              PROVE  FALSE
  OBVIOUS
<1>. DEFINE literal == todo[k].node.initializer
<1>1. Top = todo[1]
  BY LenProperties, HeadTailProperties DEF TypeOK, Top
<1>2. k = 1 \/ todo[1] = Visit(literal)
  BY DEF NumbersFirst
<1>3. literal.kind = "LiteralExpr"
  BY NumberConstant
<1>4. Visit(literal).do = "Visit" /\ Visit(literal).node = literal
  BY DEF Visit, Task
<1>. QED
  BY <1>1, <1>2, <1>3, <1>4 DEF Special, Initializers

LEMMA NumbersKept ==
    ASSUME TypeOK, NumbersFirst, todo # <<>>, ~Special(Top), Moves
    PROVE  NumbersFirst'
<1>1. \A k \in DOMAIN todo :
          ~(todo[k].do \in Initializers /\ HasNumber(todo[k].node.initializer))
  BY NoneWaits
<1>2. CASE todo' = todo
  BY <1>1, <1>2 DEF NumbersFirst
<1>3. CASE \E S : \E tasks \in Seq(S) : Proceed(tasks) /\ Orderly(tasks)
  <2>1. PICK S : \E tasks \in Seq(S) : Proceed(tasks) /\ Orderly(tasks)
    BY <1>3
  <2>2. PICK tasks \in Seq(S) : Proceed(tasks) /\ Orderly(tasks)
    BY <2>1
  <2>3. /\ \A k \in DOMAIN tasks : todo'[k] = tasks[k]
        /\ \A k \in DOMAIN todo' \ DOMAIN tasks :
              Was(k, tasks) \in DOMAIN todo /\ todo'[k] = todo[Was(k, tasks)]
    BY <2>2, Agenda
  <2>4. \A k \in DOMAIN tasks : tasks[k].do \notin Initializers
    BY <2>2 DEF Orderly, Special, Node
  <2>. QED
    BY <1>1, <2>3, <2>4 DEF NumbersFirst
<1>. QED
  BY <1>2, <1>3 DEF Moves

\* The step over a task that is a visit leaves the initialization behind it first.
LEMMA NumberFinished ==
    ASSUME TypeOK, NumbersFirst, todo # <<>>, Finish, NEW k \in DOMAIN todo',
           todo'[k].do \in Initializers, HasNumber(todo'[k].node.initializer)
    PROVE  k = 1 /\ Top = Visit(todo'[k].node.initializer)
<1>. DEFINE tasks == <<>>
<1>1. Proceed(tasks) /\ tasks \in Seq({}) /\ Len(tasks) = 0 /\ DOMAIN tasks = {}
  BY DEF Finish
<1>. HIDE DEF tasks
<1>2. /\ 1 \in DOMAIN todo /\ Top = todo[1]
      /\ \A j \in DOMAIN todo' \ DOMAIN tasks :
            /\ Was(j, tasks) \in DOMAIN todo /\ Was(j, tasks) # 1
            /\ todo'[j] = todo[Was(j, tasks)]
  BY <1>1, Agenda
<1>3. /\ Was(k, tasks) \in DOMAIN todo /\ Was(k, tasks) # 1
      /\ todo'[k] = todo[Was(k, tasks)]
  BY <1>1, <1>2
<1>4. Was(k, tasks) = 2 /\ Top = Visit(todo'[k].node.initializer)
  BY <1>2, <1>3 DEF NumbersFirst
<1>5. todo' = Tail(todo)
  <2>1. todo' = tasks \o Tail(todo) /\ Tail(todo) \in Seq(TasksIn(ir))
    BY <1>1, HeadTailProperties DEF Proceed, TypeOK
  <2>2. tasks = <<>>
    BY DEF tasks
  <2>. QED
    BY <2>1, <2>2, EmptySeq, ConcatProperties
<1>6. k \in Nat
  <2>1. Tail(todo) \in Seq(TasksIn(ir))
    BY HeadTailProperties DEF TypeOK
  <2>2. DOMAIN todo' = 1..Len(todo') /\ Len(todo') \in Nat
    BY <1>5, <2>1, LenProperties
  <2>. QED
    BY <2>2
<1>7. k - 0 + 1 = 2
  BY <1>1, <1>4 DEF Was
<1>. QED
  BY <1>4, <1>6, <1>7

LEMMA NumbersFinished ==
    ASSUME TypeOK, NumbersFirst, todo # <<>>, Finish,
           Top.do # "Visit" \/ Node.kind # "LiteralExpr"
    PROVE  NumbersFirst'
<1>. SUFFICES ASSUME NEW k \in DOMAIN todo', todo'[k].do \in Initializers,
                     HasNumber(todo'[k].node.initializer)
              PROVE  FALSE
  BY DEF NumbersFirst
<1>1. Top = Visit(todo'[k].node.initializer)
  BY NumberFinished
<1>2. todo'[k].node.initializer.kind = "LiteralExpr"
  BY NumberConstant
<1>. QED
  BY <1>1, <1>2 DEF Visit, Task, Node

LEMMA SpecialNumbers ==
    ASSUME TypeOK, NumbersFirst, todo # <<>>,
           VisitLiteralExpr \/ VisitVariableDecl \/ InferredInit \/ ExplicitInit
    PROVE  NumbersFirst'
<1>1. CASE UNCHANGED <<todo, m_LastValue>>
  BY <1>1 DEF NumbersFirst
<1>2. CASE VisitLiteralExpr
  <2>1. /\ Top.do = "Visit" /\ Node.kind = "LiteralExpr" /\ Finish
        /\ \/ Node.value.class \in OutOfRange
           \/ m_LastValue' = Constant(Node.value)
    BY <1>2 DEF VisitLiteralExpr, Visiting, Reject, Yield, OutOfRange
  <2>. SUFFICES ASSUME NEW k \in DOMAIN todo', todo'[k].do \in Initializers,
                       HasNumber(todo'[k].node.initializer)
                PROVE  k = 1 /\ m_LastValue' = Constant(todo'[k].node.initializer.value)
    BY DEF NumbersFirst
  <2>2. k = 1 /\ Top = Visit(todo'[k].node.initializer)
    BY <2>1, NumberFinished
  <2>3. Node = todo'[k].node.initializer
    BY <2>2 DEF Visit, Task, Node
  <2>4. Node.value.class \notin OutOfRange
    BY <2>3, NumberConstant
  <2>. QED
    BY <2>1, <2>2, <2>3, <2>4
<1>3. CASE InferredInit \/ ExplicitInit
  <2>1. Top.do # "Visit" /\ (Crash \/ Finish)
    BY <1>3 DEF InferredInit, ExplicitInit, Resuming, Reject
  <2>2. Crash => UNCHANGED <<todo, m_LastValue>>
    BY DEF Crash, result
  <2>. QED
    BY <1>1, <2>1, <2>2, NumbersFinished
<1>4. CASE VisitVariableDecl
  <2>1. Top.do = "Visit" /\ Node.kind = "VariableDecl"
    BY <1>4 DEF VisitVariableDecl, Visiting
  <2>2. \/ Crash \/ Finish
        \/ \E u : u.node = Node /\ Proceed(<<Visit(Node.initializer), u>>)
    <3>1. \A vals : Then("InferredInit").node = Node
                    /\ ThenWith("ExplicitInit", vals).node = Node
      BY GoesOn
    <3>. QED
      BY <1>4, <3>1 DEF VisitVariableDecl, Reject
  <2>3. Crash => UNCHANGED <<todo, m_LastValue>>
    BY DEF Crash, result
  <2>4. ASSUME NEW u, u.node = Node, Proceed(<<Visit(Node.initializer), u>>)
        PROVE  NumbersFirst'
    <3>. DEFINE first == Visit(Node.initializer)
                tasks == <<first, u>>
    <3>1. /\ tasks \in Seq({first, u}) /\ DOMAIN tasks = {1, 2}
          /\ tasks[1] = first /\ tasks[2] = u
      OBVIOUS
    <3>2. Proceed(tasks)
      BY <2>4
    <3>3. first.do = "Visit"
      BY DEF Visit, Task
    <3>. HIDE DEF tasks
    <3>4. /\ 1 \in DOMAIN todo /\ Top = todo[1]
          /\ DOMAIN tasks \subseteq DOMAIN todo'
          /\ \A k \in DOMAIN tasks : todo'[k] = tasks[k]
          /\ \A k \in DOMAIN todo' \ DOMAIN tasks :
                /\ Was(k, tasks) \in DOMAIN todo /\ Was(k, tasks) # 1
                /\ todo'[k] = todo[Was(k, tasks)]
      BY <3>1, <3>2, Agenda
    <3>5. \A k \in DOMAIN todo :
              k # 1 => ~(todo[k].do \in Initializers /\ HasNumber(todo[k].node.initializer))
      <4>. SUFFICES ASSUME NEW k \in DOMAIN todo, k # 1, todo[k].do \in Initializers,
                           HasNumber(todo[k].node.initializer)
                    PROVE  FALSE
        OBVIOUS
      <4>1. Top = Visit(todo[k].node.initializer)
        BY <3>4 DEF NumbersFirst
      <4>2. todo[k].node.initializer.kind = "LiteralExpr"
        BY NumberConstant
      <4>. QED
        BY <2>1, <4>1, <4>2 DEF Visit, Task, Node
    <3>. SUFFICES ASSUME NEW k \in DOMAIN todo', todo'[k].do \in Initializers,
                         HasNumber(todo'[k].node.initializer)
                  PROVE  k = 2 /\ todo'[1] = Visit(todo'[k].node.initializer)
      BY DEF NumbersFirst
    <3>6. k \in DOMAIN tasks
      BY <3>4, <3>5
    <3>7. k = 2
      BY <3>1, <3>3, <3>4, <3>6 DEF Initializers
    <3>. QED
      BY <2>4, <3>1, <3>4, <3>7
  <2>. QED
    BY <1>1, <2>1, <2>2, <2>3, <2>4, NumbersFinished
<1>. QED
  BY <1>2, <1>3, <1>4

(***************************************************************************)
(* What a step within a function does to slots.                            *)
(***************************************************************************)
\* It leaves them alone, or modifies a variable by its name, or declares one
\* whose slot it stores to at most once; an unrolled iteration apart.
Spares == slots' = slots /\ Quiet(ir, ir')

Alters ==
    /\ slots' = slots /\ Finish /\ ~Special(Top)
    /\ \E x \in DOMAIN m_variables :
          /\ IsAlloca(m_variables[x].value) /\ Modifies(Node, x)
          /\ \E g : \E w : /\ Quiet(ir, g) /\ Built(g)
                           /\ ir' = Emit(g, Store(w, m_variables[x].value))

Adds(g, v) ==
    /\ Quiet(ir, g) /\ Built(g) /\ Reserved(g, slots, v)
    /\ slots' = slots \cup {<<v, Node>>}
    /\ Node.name \in DOMAIN m_variables' /\ m_variables'[Node.name].value = v
    /\ \/ ir' = g /\ (Node.initializer = Null \/ (Top.do \in Initializers /\ m_LastValue = NoValue))
       \/ ir' = Emit(g, Store(m_LastValue, v)) /\ Top.do \in Initializers

Declares == Node.kind = "VariableDecl" /\ Finish /\ \E g : \E v : Adds(g, v)

Touches == Spares \/ Alters \/ Declares

LEMMA StillSpares ==
    ASSUME Still
    PROVE  Spares
BY QuietSame DEF Still, Spares

LEMMA SameCodeSpares ==
    ASSUME UNCHANGED <<slots, ir>>
    PROVE  Spares
BY QuietSame DEF Spares

LEMMA RejectSpares ==
    ASSUME Crash \/ \E text, subject : Reject(text, subject)
    PROVE  Spares
<1>1. UNCHANGED <<slots, ir>>
  BY DEF Crash, Reject, symbols
<1>. QED
  BY <1>1, SameCodeSpares

LEMMA VarTouches ==
    ASSUME TypeOK, VisitVarExpr
    PROVE  Spares
<1>. DEFINE stored == m_variables[Node.name].value
            load == Build(ir, Load(stored.elem, stored))
<1>1. todo # <<>>
  BY DEF VisitVarExpr, Visiting, Running
<1>2. Built(ir)
  BY <1>1, TopType, WellBuiltIsBuilt
<1>3. \/ Reject("Undefined variable", Node.name)
      \/ slots' = slots /\ (ir' = load.ir \/ ir' = ir)
  BY DEF VisitVarExpr
<1>4. Quiet(ir, load.ir)
  BY <1>2, Operations, EmitQuiet
<1>. QED
  BY <1>3, <1>4, QuietSame, RejectSpares DEF Spares

LEMMA IncDecTouches ==
    ASSUME TypeOK, todo # <<>>, ~Special(Top), NEW prefix, IncDec(prefix),
           Node.kind \in {"PrefixExpr", "PostfixExpr"}
    PROVE  Spares \/ Alters
<1>. DEFINE x == Node.operand.name
            slot == m_variables[x].value
<1>1. Built(ir)
  BY TopType, WellBuiltIsBuilt
<1>2. CASE Crash \/ \E text, subject : Reject(text, subject)
  BY <1>2, RejectSpares
<1>3. IncDecError = <<>> => x \in DOMAIN m_variables /\ Node.operand.kind = "VarExpr"
  BY DEF IncDecError
<1>4. CASE IncDecError = <<>> /\ ~IsAlloca(slot)
  <2>1. UNCHANGED <<slots, ir>>
    BY <1>4 DEF IncDec
  <2>. QED
    BY <2>1, SameCodeSpares
<1>5. CASE IncDecError = <<>> /\ IsAlloca(slot) /\ ~Crash
  <2>. DEFINE load == Build(ir, Load(slot.elem, slot))
              op == IF Node.op = "++" THEN "add" ELSE "sub"
              inst == Compute(op, slot.elem, <<load.val, ConstInt(slot.elem, 1)>>)
              next == Build(load.ir, inst)
  <2>1. /\ Finish /\ ir' = Emit(next.ir, Store(next.val, slot)) /\ slots' = slots
    BY <1>5 DEF IncDec
  <2>2. inst.op # "store"
    BY Operations
  <2>3. Quiet(ir, load.ir) /\ Built(load.ir)
    BY <1>1, Operations, EmitQuiet
  <2>. HIDE DEF load, inst
  <2>4. Quiet(load.ir, next.ir) /\ Built(next.ir)
    BY <2>2, <2>3, EmitQuiet
  <2>5. Quiet(ir, next.ir)
    BY <2>3, <2>4, QuietChain
  <2>6. Modifies(Node, x) /\ x \in DOMAIN m_variables
    BY <1>3, <1>5 DEF Modifies, IsCounter, IsVar
  <2>. HIDE DEF next
  <2>. QED
    BY <1>5, <2>1, <2>4, <2>5, <2>6 DEF Alters
<1>6. \/ \E text, subject : Reject(text, subject)
      \/ Crash
      \/ IncDecError = <<>>
  BY DEF IncDec
<1>. QED
  BY <1>2, <1>4, <1>5, <1>6

LEMMA AssignTouches ==
    ASSUME TypeOK, AssignStore
    PROVE  Spares \/ Alters
<1>1. todo # <<>> /\ ~Special(Top) /\ Top.do = "AssignStore"
  BY DEF AssignStore, Resuming, Running, Special
<1>2. Built(ir) /\ Node.kind = "AssignExpr"
  BY <1>1, TopType, WellBuiltIsBuilt DEF OwnKind, Node
<1>3. CASE Crash \/ \E text, subject : Reject(text, subject)
  BY <1>3, RejectSpares
<1>4. CASE ~(Crash \/ \E text, subject : Reject(text, subject))
  <2>. DEFINE x == Node.name
              slot == m_variables[x].value
  <2>1. /\ AssignError = <<>> /\ Finish
        /\ ir' = Emit(ir, Store(m_LastValue, slot)) /\ slots' = slots
    BY <1>4 DEF AssignStore, symbols
  <2>2. x \in DOMAIN m_variables /\ IsAlloca(slot)
    BY <2>1 DEF AssignError
  <2>3. Modifies(Node, x)
    BY <1>2 DEF Modifies
  <2>. QED
    BY <1>1, <1>2, <2>1, <2>2, <2>3, QuietSame DEF Alters
<1>. QED
  BY <1>3, <1>4

\* What the declaration of a slot tells.
LEMMA DeclareAdds ==
    ASSUME NEW info, Declare(Node.name, info)
    PROVE  /\ slots' = slots \cup {<<info.value, Node>>}
           /\ Node.name \in DOMAIN m_variables' /\ m_variables'[Node.name] = info
BY DEF Declare

\* A new alloca is a slot to come.
LEMMA NewReserved ==
    ASSUME TypeOK, Memory, todo # <<>>, NEW type
    PROVE  LET slot == Build(ir, Alloca(type))
           IN  /\ Quiet(ir, slot.ir) /\ Built(slot.ir)
               /\ Reserved(slot.ir, slots, slot.val)
<1>. DEFINE slot == Build(ir, Alloca(type))
<1>1. Built(ir) /\ Agree(ir, slots, m_variables)
  BY TopType, WellBuiltIsBuilt DEF Memory
<1>2. /\ IsSlot(slot.ir, slot.val) /\ ~IsSlot(ir, slot.val)
      /\ Quiet(ir, slot.ir) /\ Built(slot.ir)
  BY <1>1, NewSlot
<1>. HIDE DEF slot
<1>3. StoresTo(ir, slot.val) = {}
  BY <1>1, <1>2, NoStores
<1>4. StoresTo(slot.ir, slot.val) = {}
  BY <1>2, <1>3, QuietSlots
<1>5. \A s \in slots : s[1] # slot.val
  BY <1>1, <1>2 DEF Agree
<1>6. Reserved(slot.ir, slots, slot.val)
  BY <1>2, <1>4, <1>5 DEF Reserved
<1>. QED
  BY <1>2, <1>6 DEF slot

LEMMA VariableDeclTouches ==
    ASSUME TypeOK, Memory, VisitVariableDecl
    PROVE  Spares \/ Declares
<1>. DEFINE slot == Build(ir, Alloca(MapType(Node.varType)))
            bare == VariableInfo(slot.val, Node.varType, Node.isMutable)
<1>1. todo # <<>> /\ Node.kind = "VariableDecl"
  BY DEF VisitVariableDecl, Visiting, Running
<1>2. /\ Quiet(ir, slot.ir) /\ Built(slot.ir)
      /\ Reserved(slot.ir, slots, slot.val)
  BY <1>1, NewReserved
<1>. HIDE DEF slot
<1>3. \/ Crash \/ \E text, subject : Reject(text, subject)
      \/ slots' = slots /\ (ir' = ir \/ ir' = slot.ir)
      \/ /\ ir' = slot.ir /\ Node.initializer = Null
         /\ Declare(Node.name, bare) /\ Finish
  BY DEF VisitVariableDecl, symbols, slot
<1>4. CASE slots' = slots /\ (ir' = ir \/ ir' = slot.ir)
  BY <1>2, <1>4, QuietSame DEF Spares
<1>5. CASE /\ ir' = slot.ir /\ Node.initializer = Null
           /\ Declare(Node.name, bare) /\ Finish
  <2>1. bare.value = slot.val
    BY DEF VariableInfo
  <2>. HIDE DEF bare
  <2>2. Adds(slot.ir, slot.val)
    BY <1>2, <1>5, <2>1, DeclareAdds DEF Adds
  <2>. QED
    BY <1>1, <1>5, <2>2 DEF Declares
<1>. QED
  BY <1>3, <1>4, <1>5, RejectSpares

LEMMA InferredTouches ==
    ASSUME TypeOK, Memory, InferredInit
    PROVE  Spares \/ Declares
<1>. DEFINE slot == Build(ir, Alloca(m_LastValue.type))
            info == VariableInfo(slot.val, InferTypeRef(m_LastValue.type), Node.isMutable)
<1>1. todo # <<>> /\ Top.do = "InferredInit"
  BY DEF InferredInit, Resuming, Running
<1>2. Node.kind = "VariableDecl" /\ Top.do \in Initializers
  BY <1>1, TopType DEF OwnKind, Node, Initializers
<1>3. /\ Quiet(ir, slot.ir) /\ Built(slot.ir)
      /\ Reserved(slot.ir, slots, slot.val)
  BY <1>1, NewReserved
<1>4. \/ Crash \/ \E text, subject : Reject(text, subject)
      \/ /\ ir' = Emit(slot.ir, Store(m_LastValue, slot.val))
         /\ Declare(Node.name, info) /\ Finish
  BY DEF InferredInit
<1>5. info.value = slot.val
  BY DEF VariableInfo
<1>. HIDE DEF slot, info
<1>6. CASE /\ ir' = Emit(slot.ir, Store(m_LastValue, slot.val))
           /\ Declare(Node.name, info) /\ Finish
  <2>1. Adds(slot.ir, slot.val)
    BY <1>2, <1>3, <1>5, <1>6, DeclareAdds DEF Adds
  <2>. QED
    BY <1>2, <1>6, <2>1 DEF Declares
<1>. QED
  BY <1>4, <1>6, RejectSpares

LEMMA ExplicitTouches ==
    ASSUME TypeOK, Memory, ExplicitInit
    PROVE  Spares \/ Declares
<1>. DEFINE slot == Top.vals[1]
            info == VariableInfo(slot, Node.varType, Node.isMutable)
<1>1. todo # <<>> /\ Top.do = "ExplicitInit"
  BY DEF ExplicitInit, Resuming, Running
<1>2. Node.kind = "VariableDecl" /\ Top.do \in Initializers /\ Built(ir)
  BY <1>1, TopType, WellBuiltIsBuilt DEF OwnKind, Node, Initializers
<1>3. Reserved(ir, slots, slot)
  <2>1. 1 \in DOMAIN todo /\ Top = todo[1]
    BY <1>1, LenProperties, HeadTailProperties DEF TypeOK, Top
  <2>. QED
    BY <1>1, <2>1 DEF Memory, Pending
<1>4. \/ Crash \/ \E text, subject : Reject(text, subject)
      \/ /\ ir' = IF m_LastValue = NoValue THEN ir ELSE Emit(ir, Store(m_LastValue, slot))
         /\ Declare(Node.name, info) /\ Finish
  BY DEF ExplicitInit
<1>5. info.value = slot
  BY DEF VariableInfo
<1>. HIDE DEF slot, info
<1>6. CASE /\ ir' = IF m_LastValue = NoValue THEN ir ELSE Emit(ir, Store(m_LastValue, slot))
           /\ Declare(Node.name, info) /\ Finish
  <2>1. Adds(ir, slot)
    BY <1>2, <1>3, <1>5, <1>6, DeclareAdds, QuietSame DEF Adds
  <2>. QED
    BY <1>2, <1>6, <2>1 DEF Declares
<1>. QED
  BY <1>4, <1>6, RejectSpares

\* Every handler but that of an unrolled iteration.
LEMMA HandlersTouch ==
    ASSUME TypeOK, Memory, Expressions \/ Statements, ~UnrollStore
    PROVE  Touches
<1>1. CASE Expressions
  <2>1. CASE VisitPrefixExpr \/ VisitPostfixExpr
    <3>1. /\ todo # <<>> /\ ~Special(Top) /\ \E prefix : IncDec(prefix)
          /\ Node.kind \in {"PrefixExpr", "PostfixExpr"}
      BY <2>1 DEF VisitPrefixExpr, VisitPostfixExpr, Visiting, Running, Special, Node
    <3>. QED
      BY <3>1, IncDecTouches DEF Touches
  <2>2. CASE VisitLiteralExpr
    <3>1. UNCHANGED <<slots, ir>>
      BY <2>2 DEF VisitLiteralExpr, Reject, symbols
    <3>. QED
      BY <3>1, SameCodeSpares DEF Touches
  <2>3. CASE ~(VisitPrefixExpr \/ VisitPostfixExpr \/ VisitLiteralExpr \/ VisitVarExpr \/ AssignStore)
    BY <1>1, <2>3, ValuesCalm, VisitsCalm, ShortCalm, CallCalm, StillSpares
       DEF Expressions, Touches
  <2>. QED
    BY <2>1, <2>2, <2>3, VarTouches, AssignTouches DEF Touches
<1>2. CASE Statements
  <2>1. CASE VisitVariableDecl \/ InferredInit \/ ExplicitInit
    BY <2>1, VariableDeclTouches, InferredTouches, ExplicitTouches DEF Touches
  <2>2. CASE VisitForStatement \/ UnrollStart
    <3>1. UNCHANGED <<slots, ir>>
      BY <2>2 DEF VisitForStatement, UnrollStart, Descend, Reject, Crash, symbols
    <3>. QED
      BY <3>1, SameCodeSpares DEF Touches
  <2>3. CASE VisitNull
    BY <2>3, RejectSpares DEF VisitNull, Touches
  <2>4. CASE ~(VisitVariableDecl \/ InferredInit \/ ExplicitInit
               \/ VisitForStatement \/ UnrollStart \/ VisitNull)
    BY <1>2, <2>4, BlockCalm, VisitsCalm, ReturnCalm, JumpsCalm, LoopsCalm, ConditionsCalm,
       StillSpares DEF Statements, Touches
  <2>. QED
    BY <2>1, <2>2, <2>3, <2>4
<1>. QED
  BY <1>1, <1>2

(***************************************************************************)
(* The stores to the counter of an unrolled loop.                          *)
(***************************************************************************)
Loops == {n \in AstNode : n.kind = "ForStatement" /\ Unrolled(n)}

\* What the function modifies by the name of the loop's counter is in its body.
Alone(n) ==
    /\ n \in Reached(function)
    /\ \A m \in Reached(function) : Modifies(m, n.init.name) => m \in Below(n.body)

Constants ==
    function # Null =>
        \A n \in Loops : Alone(n) =>
            \A s \in slots :
                s[2] = n.init =>
                    \A p \in StoresTo(ir, s[1]) : InstAt(ir, p).args[1].op = "const"

LEMMA Spared ==
    ASSUME NEW n \in Loops, Alone(n)
    PROVE  \A m \in Reached(function) : ~Modifies(m, n.init.name)
<1>1. n \in AstNode /\ n.kind = "ForStatement" /\ Unrolled(n)
  BY DEF Loops
<1>2. n.body \in AstNode
  BY <1>1, StatementMembers
<1>3. ~BodyModifiesVar(n.body, n.init.name)
  BY <1>1, UnrolledLoop DEF Unrolled
<1>. QED
  BY <1>2, <1>3, SearchIsSound DEF Alone

\* A store leaves the other slots alone.
LEMMA OtherStores ==
    ASSUME NEW g, Built(g), NEW w, NEW slot, NEW h, h = Emit(g, Store(w, slot)),
           NEW v, v # slot
    PROVE  /\ StoresTo(h, v) = StoresTo(g, v)
           /\ \A p \in StoresTo(g, v) : InstAt(h, p) = InstAt(g, p)
<1>1. LET k == Emit(g, Store(w, slot))
      IN  /\ StoresTo(k, v) = StoresTo(g, v) \cup (IF v = slot THEN {NextPlace(g)} ELSE {})
          /\ \A p \in StoresTo(g, v) : InstAt(k, p) = InstAt(g, p)
  BY StoreSlots
<1>. QED
  BY <1>1

\* The slot s has the stores it had.
SameStores(s) ==
    /\ StoresTo(ir', s[1]) = StoresTo(ir, s[1])
    /\ \A p \in StoresTo(ir, s[1]) : InstAt(ir', p) = InstAt(ir, p)

\* The slot s is that of the variable just declared, with its initial value.
First(s) ==
    /\ s[2] = Node /\ \A t \in slots : t[1] # s[1]
    /\ Node.name \in DOMAIN m_variables' /\ m_variables'[Node.name].value = s[1]
    /\ Finish /\ Top.do \in Initializers
    /\ \E p : /\ StoresTo(ir', s[1]) = {p}
              /\ InstAt(ir', p).args[1] = Constant(Node.initializer.value)

LEMMA TouchedSlots ==
    ASSUME TypeOK, Memory, Inside, NumbersFirst, todo # <<>>, function # Null, Touches,
           NEW n \in Loops, Alone(n), NEW s \in slots', s[2] = n.init
    PROVE  (s \in slots /\ SameStores(s)) \/ First(s)
<1>1. 1 \in DOMAIN todo /\ Top = todo[1]
  BY LenProperties, HeadTailProperties DEF TypeOK, Top
<1>2. CASE Spares
  BY <1>2, QuietSlots DEF Spares, SameStores
<1>3. CASE Alters
  <2>1. PICK x \in DOMAIN m_variables :
            /\ IsAlloca(m_variables[x].value) /\ Modifies(Node, x)
            /\ \E g : \E w : /\ Quiet(ir, g) /\ Built(g)
                             /\ ir' = Emit(g, Store(w, m_variables[x].value))
    BY <1>3 DEF Alters
  <2>. DEFINE slot == m_variables[x].value
  <2>2. PICK g : \E w : Quiet(ir, g) /\ Built(g) /\ ir' = Emit(g, Store(w, slot))
    BY <2>1
  <2>3. PICK w : Quiet(ir, g) /\ Built(g) /\ ir' = Emit(g, Store(w, slot))
    BY <2>2
  <2>4. s \in slots
    BY <1>3 DEF Alters
  <2>5. s[1] # slot
    <3>. SUFFICES ASSUME s[1] = slot
                  PROVE  FALSE
      OBVIOUS
    <3>1. Stands(s, x, m_variables[x])
      BY <2>1, <2>4, SlotOf DEF Memory
    <3>2. x = n.init.name
      BY <3>1 DEF Stands
    <3>3. Node \in Reached(function)
      BY <1>1 DEF Inside, Node
    <3>. QED
      BY <2>1, <3>2, <3>3, Spared
  <2>. HIDE DEF slot
  <2>6. /\ StoresTo(g, s[1]) = StoresTo(ir, s[1])
        /\ \A p \in StoresTo(ir, s[1]) : InstAt(g, p) = InstAt(ir, p)
    BY <2>3, QuietSlots
  <2>7. /\ StoresTo(ir', s[1]) = StoresTo(g, s[1])
        /\ \A p \in StoresTo(g, s[1]) : InstAt(ir', p) = InstAt(g, p)
    BY <2>3, <2>5, OtherStores
  <2>. QED
    BY <2>4, <2>6, <2>7 DEF SameStores
<1>4. CASE Declares
  <2>1. PICK g : \E v : Adds(g, v)
    BY <1>4 DEF Declares
  <2>2. PICK v : Adds(g, v)
    BY <2>1
  <2>. DEFINE new == <<v, Node>>
  <2>3. /\ Quiet(ir, g) /\ Built(g) /\ slots' = slots \cup {new}
        /\ new[1] = v /\ new[2] = Node
        /\ StoresTo(g, v) = {} /\ \A t \in slots : t[1] # v
        /\ ir' = g \/ ir' = Emit(g, Store(m_LastValue, v))
    <3>1. new[1] = v /\ new[2] = Node
      OBVIOUS
    <3>2. slots' = slots \cup {new}
      BY <2>2 DEF Adds
    <3>. HIDE DEF new
    <3>. QED
      BY <2>2, <3>1, <3>2 DEF Adds, Reserved
  <2>. HIDE DEF new
  <2>4. CASE s \in slots
    <3>1. /\ StoresTo(g, s[1]) = StoresTo(ir, s[1])
          /\ \A p \in StoresTo(ir, s[1]) : InstAt(g, p) = InstAt(ir, p)
      BY <2>3, QuietSlots
    <3>2. /\ StoresTo(ir', s[1]) = StoresTo(g, s[1])
          /\ \A p \in StoresTo(g, s[1]) : InstAt(ir', p) = InstAt(g, p)
      <4>1. s[1] # v
        BY <2>3, <2>4
      <4>. QED
        BY <2>3, <4>1, OtherStores
    <3>. QED
      BY <2>4, <3>1, <3>2 DEF SameStores
  <2>5. CASE s \notin slots
    <3>1. s[1] = v /\ s[2] = Node /\ Node = n.init
      BY <2>3, <2>5
    <3>2. HasNumber(Node.initializer)
      BY <3>1, UnrolledLoop DEF Loops
    <3>3. Constant(Node.initializer.value) # NoValue /\ Node.initializer # Null
      BY <3>2, NumberConstant
    <3>4. Top.do \in Initializers
      BY <2>2, <3>3 DEF Adds
    <3>5. m_LastValue = Constant(Node.initializer.value)
      BY <1>1, <3>2, <3>4 DEF NumbersFirst, Node
    <3>6. ir' = Emit(g, Store(m_LastValue, v))
      BY <2>2, <3>3, <3>5 DEF Adds
    <3>7. /\ StoresTo(ir', v) = {NextPlace(g)}
          /\ InstAt(ir', NextPlace(g)).args[1] = m_LastValue
      BY <2>3, <3>6, StoreSlots
    <3>. QED
      BY <1>4, <2>2, <2>3, <3>1, <3>4, <3>5, <3>7 DEF First, Adds, Declares
  <2>. QED
    BY <2>4, <2>5
<1>. QED
  BY <1>2, <1>3, <1>4 DEF Touches

LEMMA TouchConstants ==
    ASSUME TypeOK, Memory, Inside, NumbersFirst, Constants, todo # <<>>,
           function # Null, function' = function, Touches
    PROVE  Constants'
<1>. SUFFICES ASSUME NEW n \in Loops, Alone(n), NEW s \in slots', s[2] = n.init
              PROVE  \A p \in StoresTo(ir', s[1]) : InstAt(ir', p).args[1].op = "const"
  BY DEF Constants, Alone
<1>1. CASE s \in slots /\ SameStores(s)
  BY <1>1 DEF SameStores, Constants
<1>2. CASE First(s)
  <2>1. HasNumber(Node.initializer)
    BY <1>2, UnrolledLoop DEF First, Loops
  <2>. QED
    BY <1>2, <2>1, NumberConstant DEF First
<1>. QED
  BY <1>1, <1>2, TouchedSlots

LEMMA StoreConstants ==
    ASSUME TypeOK, Memory, Constants, function # Null, UnrollStore
    PROVE  Constants'
<1>. DEFINE slot == Top.vals[1]
            w == Top.vals[2]
<1>1. /\ todo # <<>> /\ Top.do = "UnrollStore" /\ ir' = Emit(ir, Store(w, slot))
      /\ function' = function /\ slots' = slots
  BY DEF UnrollStore, Resuming, Running, module, symbols
<1>2. 1 \in DOMAIN todo /\ Top = todo[1] /\ Built(ir)
  BY <1>1, TopType, WellBuiltIsBuilt, LenProperties, HeadTailProperties DEF TypeOK, Top
<1>3. w.op = "const"
  BY <1>1, <1>2 DEF Memory, Steps
<1>. HIDE DEF slot, w
<1>. SUFFICES ASSUME NEW n \in Loops, Alone(n), NEW s \in slots, s[2] = n.init,
                     NEW p \in StoresTo(ir', s[1])
              PROVE  InstAt(ir', p).args[1].op = "const"
  BY <1>1 DEF Constants, Alone
<1>4. /\ p \in StoresTo(ir, s[1]) \/ p = NextPlace(ir)
      /\ \A q \in StoresTo(ir, s[1]) : InstAt(ir', q) = InstAt(ir, q)
      /\ InstAt(ir', NextPlace(ir)).args[1] = w
  BY <1>1, <1>2, StoreSlots
<1>. QED
  BY <1>3, <1>4 DEF Constants
(***************************************************************************)
(* The handlers run on an agenda.                                          *)
(***************************************************************************)
LEMMA ExpressionsRun ==
    ASSUME Expressions
    PROVE  /\ todo # <<>> /\ Top.do \notin {"UnrollStart", "UnrollStore"}
           /\ Special(Top) => VisitLiteralExpr
<1>1. CASE VisitLiteralExpr \/ VisitVarExpr \/ VisitAllocExpr \/ VisitPrefixExpr \/ VisitPostfixExpr
  BY <1>1 DEF VisitLiteralExpr, VisitVarExpr, VisitAllocExpr, VisitPrefixExpr,
     VisitPostfixExpr, Visiting, Running, Special, Node
<1>2. CASE VisitBinaryExpr \/ VisitUnaryExpr \/ VisitCastExpr \/ VisitCallExpr
           \/ VisitAssignExpr \/ VisitMemberAccessExpr
  BY <1>2 DEF VisitBinaryExpr, VisitUnaryExpr, VisitCastExpr, VisitCallExpr,
     VisitAssignExpr, VisitMemberAccessExpr, Descend, Visiting, Running, Special, Node
<1>3. CASE ShortLeft \/ ShortRight \/ BinLeft \/ BinRight \/ UnaryOp \/ CastOp
           \/ CallArg \/ CallEnd \/ AssignStore \/ MemberLoad
  BY <1>3 DEF ShortLeft, ShortRight, BinLeft, BinRight, UnaryOp, CastOp, CallArg, CallEnd,
     AssignStore, MemberLoad, Resuming, Running, Special
<1>. QED
  BY <1>1, <1>2, <1>3 DEF Expressions

LEMMA StatementsRun ==
    ASSUME Statements
    PROVE  /\ todo # <<>>
           /\ Special(Top) => VisitVariableDecl \/ InferredInit \/ ExplicitInit
           /\ Top.do = "UnrollStart" => UnrollStart
           /\ Top.do = "UnrollStore" => UnrollStore
<1>1. CASE VisitVariableDecl \/ InferredInit \/ ExplicitInit
  BY <1>1 DEF VisitVariableDecl, InferredInit, ExplicitInit, Visiting, Resuming, Running
<1>2. CASE VisitBlockStatement \/ VisitExprStatement \/ VisitReturnStatement
           \/ VisitIfStatement \/ VisitWhileStatement \/ VisitForStatement
  BY <1>2 DEF VisitBlockStatement, VisitExprStatement, VisitReturnStatement,
     VisitIfStatement, VisitWhileStatement, VisitForStatement, Descend, Visiting, Running,
     Special, Node
<1>3. CASE VisitNull
  <2>1. Null.kind \notin {"VariableDecl", "LiteralExpr"}
    BY DEF Null
  <2>. QED
    BY <1>3, <2>1 DEF VisitNull, Running, Special, Node
<1>4. CASE Statement \/ ReturnValue \/ IfCond \/ IfElse \/ IfMerge \/ WhileCond \/ WhileEnd
           \/ UnrollStart \/ UnrollStore \/ ForBlocks \/ ForCond \/ ForUpdate \/ ForEnd
  BY <1>4 DEF Statement, ReturnValue, IfCond, IfElse, IfMerge, WhileCond, WhileEnd,
     UnrollStart, UnrollStore, ForBlocks, ForCond, ForUpdate, ForEnd, Resuming, Running,
     Special
<1>. QED
  BY <1>1, <1>2, <1>3, <1>4 DEF Statements

(***************************************************************************)
(* The invariant.                                                          *)
(***************************************************************************)
CourseInv == TypeOK /\ Memory /\ Rolled /\ Inside /\ NumbersFirst /\ Constants

LEMMA StartUnrolled ==
    ASSUME TypeOK, Memory, UnrollStart
    PROVE  Unrolled(Node)
<1>1. todo # <<>> /\ Top.do = "UnrollStart"
  BY DEF UnrollStart, Resuming, Running
<1>2. 1 \in DOMAIN todo /\ Top = todo[1]
  BY <1>1, LenProperties, HeadTailProperties DEF TypeOK, Top
<1>. QED
  BY <1>1, <1>2 DEF Memory, Starts, Node

LEMMA HandlersCourse ==
    ASSUME CourseInv, function # Null, Expressions \/ Statements
    PROVE  Rolled' /\ Inside' /\ NumbersFirst' /\ Constants'
<1>. USE DEF CourseInv
<1>1. /\ todo # <<>>
      /\ Special(Top) => VisitLiteralExpr \/ VisitVariableDecl \/ InferredInit \/ ExplicitInit
  BY ExpressionsRun, StatementsRun
<1>2. Moves
  BY StartUnrolled, HandlersMove
<1>3. NumbersFirst'
  BY <1>1, <1>2, NumbersKept, SpecialNumbers
<1>4. Constants'
  <2>1. function' = function
    BY <1>2 DEF Moves
  <2>2. ~UnrollStore => Touches
    BY HandlersTouch
  <2>. QED
    BY <1>1, <2>1, <2>2, TouchConstants, StoreConstants
<1>. QED
  BY <1>1, <1>2, <1>3, <1>4, RolledKept, InsideKept

LEMMA DeclarationsCourse ==
    ASSUME CourseInv, Declarations
    PROVE  Rolled' /\ Inside' /\ NumbersFirst' /\ Constants'
<1>. USE DEF CourseInv
<1>1. CASE VisitInterfaceDecl \/ VisitStructDecl
  <2>1. UNCHANGED <<todo, ir, slots, m_LastValue, function>>
    BY <1>1 DEF VisitInterfaceDecl, VisitStructDecl, symbols, result
  <2>. QED
    BY <2>1 DEF Rolled, Inside, NumbersFirst, Constants, Alone
<1>2. CASE VisitFunctionDecl
  <2>. DEFINE decl == Head(pending)
              first == Visit(decl.body)
  <2>1. /\ decl.kind = "FunctionDecl" /\ pending # <<>>
        /\ slots' = {} /\ function' = decl /\ todo' = IfPresent(decl.body)
    BY <1>2 DEF VisitFunctionDecl, AtDeclaration
  <2>2. decl \in AstNode
    BY <2>1, HeadTailProperties DEF TypeOK
  <2>3. decl.body \in Visited(decl)
    BY <2>1, VisitedNodes
  <2>4. decl.body \in Reached(decl)
    BY <2>2, <2>3, ReachedNodes
  <2>5. first.do = "Visit" /\ first.node = decl.body
    BY DEF Visit, Task
  <2>. HIDE DEF first
  <2>6. /\ todo' = <<>> \/ todo' = <<first>>
        /\ DOMAIN <<first>> = {1} /\ <<first>>[1] = first
    BY <2>1 DEF IfPresent, first
  <2>7. \A k \in DOMAIN todo' : todo'[k] = first
    BY <2>6
  <2>. QED
    BY <2>1, <2>4, <2>5, <2>7 DEF Rolled, Inside, NumbersFirst, Constants, ForTasks,
       Initializers
<1>3. CASE EndFunctionDecl
  <2>1. function' = Null /\ todo' = <<>>
    BY <1>3 DEF EndFunctionDecl, Between
  <2>2. DOMAIN todo' = {}
    BY <2>1
  <2>. QED
    BY <2>1, <2>2 DEF Rolled, Inside, NumbersFirst, Constants
<1>. QED
  BY <1>1, <1>2, <1>3 DEF Declarations
LEMMA NextCourse ==
    ASSUME CourseInv, [Next]_vars, TypeOK', Memory'
    PROVE  CourseInv'
<1>1. CASE Expressions \/ Statements
  <2>1. todo # <<>>
    BY <1>1, ExpressionsRun, StatementsRun
  <2>2. function # Null
    BY <2>1 DEF CourseInv, TypeOK
  <2>. QED
    BY <1>1, <2>2, HandlersCourse DEF CourseInv
<1>2. CASE Declarations
  BY <1>2, DeclarationsCourse DEF CourseInv
<1>3. CASE UNCHANGED vars
  <2>1. UNCHANGED <<todo, ir, slots, m_LastValue, function>>
    BY <1>3 DEF vars, symbols, result, module
  <2>. QED
    BY <2>1 DEF CourseInv, Rolled, Inside, NumbersFirst, Constants, Alone
<1>. QED
  BY <1>1, <1>2, <1>3 DEF Next

\* At every step of a visit, the tasks that remain are those of the nodes that a
\* visit of the function can reach, each copy of an unrolled body is preceded by
\* the store of its number, and the counters of the loops that are Alone hold
\* constants (VisitForStatement, UnrollForLoop, BodyModifiesVar).
THEOREM CourseCorrect == Spec => []CourseInv
<1>1. Init => Rolled /\ Inside /\ NumbersFirst /\ Constants
  <2>. SUFFICES ASSUME Init
                PROVE  Rolled /\ Inside /\ NumbersFirst /\ Constants
    OBVIOUS
  <2>1. todo = <<>> /\ function = Null
    BY DEF Init
  <2>2. DOMAIN todo = {}
    BY <2>1
  <2>. QED
    BY <2>1, <2>2 DEF Rolled, Inside, NumbersFirst, Constants
<1>2. CourseInv /\ [Next]_vars /\ TypeOK' /\ Memory' => CourseInv'
  BY NextCourse
<1>3. MemoryInv => TypeOK /\ Memory
  BY DEF MemoryInv
<1>4. TypeOK /\ Memory /\ (Rolled /\ Inside /\ NumbersFirst /\ Constants) => CourseInv
  BY DEF CourseInv
<1>. QED
  BY <1>1, <1>2, <1>3, <1>4, MemoryCorrect, PTL DEF Spec

\* Only constants are stored into the counter of an unrolled loop: its initial
\* value and the numbers of its iterations, never what the code of an iteration
\* computes (BodyModifiesVar, UnrollForLoop). The theorem is about the functions
\* that modify the counter's name nowhere but in the part of the loop's body that
\* BodyModifiesVar searches: Alone excludes a change the search does not look for,
\* such as i++ in the initializer of a declaration of the body.
THEOREM CountersStoreConstants ==
    Spec => []((\A n \in UnrolledLoops : Alone(n)) => CounterStoresConstant)
<1>1. CourseInv => ((\A n \in UnrolledLoops : Alone(n)) => CounterStoresConstant)
  <2>. SUFFICES ASSUME CourseInv, \A n \in UnrolledLoops : Alone(n),
                       NEW n \in UnrolledLoops, NEW s \in slots, s[2] = n.init
                PROVE  \A p \in StoresTo(ir, s[1]) : InstAt(ir, p).args[1].op = "const"
    BY DEF CounterStoresConstant
  <2>1. function # Null /\ n.kind = "ForStatement" /\ Unrolled(n) /\ Alone(n)
    BY DEF UnrolledLoops
  <2>2. n \in Loops
    BY <2>1, ReachedNodes DEF Alone, Loops, Reached
  <2>. QED
    BY <2>1, <2>2 DEF CourseInv, Constants
<1>. QED
  BY <1>1, CourseCorrect, PTL

(***************************************************************************)
(* Sets of tasks.                                                          *)
(***************************************************************************)
LEMMA AgendaSets ==
    ASSUME TypeOK, todo # <<>>, NEW S, NEW tasks \in Seq(S), Proceed(tasks)
    PROVE  /\ ToSet(todo) = {Top} \cup ToSet(Tail(todo))
           /\ ToSet(todo') = ToSet(tasks) \cup ToSet(Tail(todo))
<1>. DEFINE rest == Tail(todo)
            T == TasksIn(ir)
<1>1. /\ todo \in Seq(T) /\ Len(todo) \in Nat /\ Len(todo) > 0 /\ Top = todo[1]
      /\ DOMAIN todo = 1..Len(todo)
  BY LenProperties DEF TypeOK, Top
<1>2. /\ rest \in Seq(T) /\ Len(rest) = Len(todo) - 1
      /\ \A k \in 1..Len(rest) : rest[k] = todo[k + 1]
  BY <1>1, HeadTailProperties
<1>3. DOMAIN rest = 1..Len(rest) /\ DOMAIN tasks = 1..Len(tasks) /\ Len(tasks) \in Nat
  BY <1>2, LenProperties
<1>4. /\ Len(todo') = Len(tasks) + Len(rest) /\ DOMAIN todo' = 1..Len(todo')
      /\ \A k \in 1..Len(tasks) + Len(rest) :
            todo'[k] = IF k <= Len(tasks) THEN tasks[k] ELSE rest[k - Len(tasks)]
  <2>1. tasks \in Seq(S \cup T) /\ rest \in Seq(S \cup T)
    BY <1>2, SeqMonotonic
  <2>2. todo' = tasks \o rest
    BY DEF Proceed
  <2>. HIDE DEF rest, T
  <2>. QED
    BY <2>1, <2>2, ConcatProperties, LenProperties
<1>. HIDE DEF rest
<1>5. ToSet(todo) = {Top} \cup ToSet(rest)
  <2>1. ASSUME NEW k \in DOMAIN todo
        PROVE  todo[k] = Top \/ \E j \in DOMAIN rest : todo[k] = rest[j]
    <3>1. CASE k = 1
      BY <1>1, <3>1
    <3>2. CASE k # 1
      <4>1. k - 1 \in 1..Len(rest) /\ (k - 1) + 1 = k
        BY <1>1, <1>2, <3>2
      <4>. QED
        BY <1>2, <1>3, <4>1
    <3>. QED
      BY <3>1, <3>2
  <2>2. ASSUME NEW j \in DOMAIN rest
        PROVE  j + 1 \in DOMAIN todo /\ rest[j] = todo[j + 1]
    BY <1>1, <1>2, <1>3
  <2>3. 1 \in DOMAIN todo
    BY <1>1
  <2>. QED
    BY <1>1, <2>1, <2>2, <2>3 DEF ToSet
<1>6. ToSet(todo') = ToSet(tasks) \cup ToSet(rest)
  <2>1. ASSUME NEW k \in DOMAIN todo'
        PROVE  \/ \E j \in DOMAIN tasks : todo'[k] = tasks[j]
               \/ \E j \in DOMAIN rest : todo'[k] = rest[j]
    <3>1. CASE k <= Len(tasks)
      <4>1. k \in DOMAIN tasks
        BY <1>3, <1>4, <3>1
      <4>. QED
        BY <1>2, <1>3, <1>4, <3>1, <4>1
    <3>2. CASE ~(k <= Len(tasks))
      <4>1. k - Len(tasks) \in DOMAIN rest /\ k \in 1..Len(tasks) + Len(rest)
        BY <1>1, <1>2, <1>3, <1>4, <3>2
      <4>. QED
        BY <1>4, <3>2, <4>1
    <3>. QED
      BY <3>1, <3>2
  <2>2. \A j \in DOMAIN tasks : j \in DOMAIN todo' /\ todo'[j] = tasks[j]
    BY Agenda DEF rest
  <2>3. ASSUME NEW j \in DOMAIN rest
        PROVE  j + Len(tasks) \in DOMAIN todo' /\ todo'[j + Len(tasks)] = rest[j]
    <3>1. /\ j + Len(tasks) \in 1..Len(tasks) + Len(rest) /\ ~(j + Len(tasks) <= Len(tasks))
          /\ (j + Len(tasks)) - Len(tasks) = j
      BY <1>1, <1>2, <1>3
    <3>. QED
      BY <1>4, <3>1
  <2>. QED
    BY <2>1, <2>2, <2>3 DEF ToSet
<1>. QED
  BY <1>5, <1>6 DEF rest

(***************************************************************************)
(* The values that a slot has been and will be given.                      *)
(***************************************************************************)
Given(g, v) == {InstAt(g, p).args[1].num : p \in StoresTo(g, v)}

Storing(T, v) == {t \in T : t.do = "UnrollStore" /\ t.vals[1] = v}
Due(T, v) == {t.vals[2].num : t \in Storing(T, v)}

Start(n) == n.init.initializer.value.num

LEMMA DueTogether ==
    ASSUME NEW A, NEW B, NEW v
    PROVE  /\ Due(A \cup B, v) = Due(A, v) \cup Due(B, v)
           /\ (\A t \in A : t.do # "UnrollStore") => Due(A, v) = {}
<1>1. Storing(A \cup B, v) = Storing(A, v) \cup Storing(B, v)
  BY DEF Storing
<1>2. (\A t \in A : t.do # "UnrollStore") => Storing(A, v) = {}
  BY DEF Storing
<1>. QED
  BY <1>1, <1>2 DEF Due

\* A step that neither begins nor performs iterations leaves them due.
LEMMA DueKept ==
    ASSUME TypeOK, todo # <<>>, Moves, Top.do \notin {"UnrollStart", "UnrollStore"}, NEW v
    PROVE  Due(ToSet(todo'), v) = Due(ToSet(todo), v)
<1>1. CASE \E S : \E tasks \in Seq(S) : Proceed(tasks) /\ Orderly(tasks)
  <2>1. PICK S : \E tasks \in Seq(S) : Proceed(tasks) /\ Orderly(tasks)
    BY <1>1
  <2>2. PICK tasks \in Seq(S) : Proceed(tasks) /\ Orderly(tasks)
    BY <2>1
  <2>3. /\ ToSet(todo) = {Top} \cup ToSet(Tail(todo))
        /\ ToSet(todo') = ToSet(tasks) \cup ToSet(Tail(todo))
    BY <2>2, AgendaSets
  <2>4. \A t \in ToSet(tasks) : t.do # "UnrollStore"
    BY <2>2 DEF Orderly, ToSet
  <2>5. \A t \in {Top} : t.do # "UnrollStore"
    OBVIOUS
  <2>6. Due(ToSet(todo'), v) = Due(ToSet(tasks), v) \cup Due(ToSet(Tail(todo)), v)
        /\ Due(ToSet(tasks), v) = {}
    BY <2>3, <2>4, DueTogether
  <2>7. Due(ToSet(todo), v) = Due({Top}, v) \cup Due(ToSet(Tail(todo)), v)
        /\ Due({Top}, v) = {}
    BY <2>3, <2>5, DueTogether
  <2>. QED
    BY <2>6, <2>7
<1>. QED
  BY <1>1 DEF Moves

\* The iterations of a loop give its counter the values of the rolled loop.
LEMMA IterationsDue ==
    ASSUME Node \in AstNode, Node.kind = "ForStatement", AnalyzeForUnroll(Node) # NoUnroll,
           NEW slot, NEW v
    PROVE  Due(ToSet(Iterations(AnalyzeForUnroll(Node), slot)), v) =
              IF v = slot THEN RolledValues(Node) ELSE {}
<1>. DEFINE iterations == Iterations(AnalyzeForUnroll(Node), slot)
            stores == {k \in DOMAIN iterations : iterations[k].do = "UnrollStore"}
            value(k) == iterations[k].vals[2].num
<1>1. /\ {value(k) : k \in stores} = RolledValues(Node)
      /\ \A k \in stores : iterations[k].vals[1] = slot
  BY UnrollsLikeLoop
<1>. HIDE DEF iterations
<1>2. CASE v = slot
  <2>1. Storing(ToSet(iterations), v) = {iterations[k] : k \in stores}
    BY <1>1, <1>2 DEF Storing, ToSet
  <2>2. Due(ToSet(iterations), v) = {value(k) : k \in stores}
    BY <2>1 DEF Due
  <2>. QED
    BY <1>1, <1>2, <2>2 DEF iterations
<1>3. CASE v # slot
  <2>1. Storing(ToSet(iterations), v) = {}
    BY <1>1, <1>3 DEF Storing, ToSet
  <2>. QED
    BY <1>3, <2>1 DEF Due, iterations
<1>. QED
  BY <1>2, <1>3

(***************************************************************************)
(* The loop waits right behind the declaration of its counter.             *)
(***************************************************************************)
LEMMA AgendaShape ==
    ASSUME TypeOK, todo # <<>>, NEW S, NEW tasks \in Seq(S), Proceed(tasks)
    PROVE  /\ Len(todo) \in Nat /\ Len(todo) > 0 /\ DOMAIN todo = 1..Len(todo)
           /\ Len(tasks) \in Nat /\ DOMAIN tasks = 1..Len(tasks)
           /\ DOMAIN todo' = 1..Len(tasks) + Len(todo) - 1
           /\ \A k \in DOMAIN todo' :
                 todo'[k] = IF k <= Len(tasks) THEN tasks[k] ELSE todo[k - Len(tasks) + 1]
<1>. DEFINE rest == Tail(todo)
            T == TasksIn(ir)
            n == Len(tasks)
<1>1. /\ todo \in Seq(T) /\ Len(todo) \in Nat /\ Len(todo) > 0
      /\ DOMAIN todo = 1..Len(todo)
  BY LenProperties DEF TypeOK
<1>2. /\ rest \in Seq(T) /\ Len(rest) = Len(todo) - 1
      /\ \A k \in 1..Len(rest) : rest[k] = todo[k + 1]
  BY <1>1, HeadTailProperties
<1>3. DOMAIN tasks = 1..n /\ n \in Nat
  BY LenProperties
<1>4. /\ DOMAIN todo' = 1..n + Len(rest)
      /\ \A k \in 1..n + Len(rest) : todo'[k] = IF k <= n THEN tasks[k] ELSE rest[k - n]
  <2>1. tasks \in Seq(S \cup T) /\ rest \in Seq(S \cup T)
    BY <1>2, SeqMonotonic
  <2>2. todo' = tasks \o rest
    BY DEF Proceed
  <2>. HIDE DEF rest, T
  <2>. QED
    BY <2>1, <2>2, ConcatProperties, LenProperties
<1>. HIDE DEF rest, n, T
<1>5. DOMAIN todo' = 1..n + Len(todo) - 1
  BY <1>1, <1>2, <1>3, <1>4
<1>6. ASSUME NEW k \in DOMAIN todo', ~(k <= n)
      PROVE  todo'[k] = todo[k - n + 1]
  <2>1. k - n \in 1..Len(rest) /\ (k - n) + 1 = k - n + 1 /\ k \in 1..n + Len(rest)
    BY <1>1, <1>2, <1>3, <1>4, <1>6
  <2>2. todo'[k] = rest[k - n]
    BY <1>4, <1>6, <2>1
  <2>3. rest[k - n] = todo[(k - n) + 1]
    BY <1>2, <2>1
  <2>. QED
    BY <2>1, <2>2, <2>3
<1>7. \A k \in DOMAIN todo' : todo'[k] = IF k <= n THEN tasks[k] ELSE todo[k - n + 1]
  BY <1>1, <1>2, <1>4, <1>6
<1>. QED
  BY <1>1, <1>3, <1>5, <1>7 DEF n

LedFor(q, n) ==
    \A k \in DOMAIN q :
        q[k].node = n.init =>
            k + 1 \in DOMAIN q /\ q[k + 1].do = "UnrollStart" /\ q[k + 1].node = n

LEMMA LedStep ==
    ASSUME TypeOK, todo # <<>>, NEW S, NEW tasks \in Seq(S), Proceed(tasks),
           NEW n, LedFor(todo, n),
           \A k \in DOMAIN tasks :
              tasks[k].node = n.init =>
                  \/ k = Len(tasks) /\ Node = n.init
                  \/ /\ k + 1 \in DOMAIN tasks
                     /\ tasks[k + 1].do = "UnrollStart" /\ tasks[k + 1].node = n
    PROVE  LedFor(todo', n)
<1>. DEFINE l == Len(tasks)
            m == Len(todo)
<1>1. /\ m \in Nat /\ m > 0 /\ DOMAIN todo = 1..m
      /\ l \in Nat /\ DOMAIN tasks = 1..l /\ DOMAIN todo' = 1..l + m - 1
      /\ \A k \in DOMAIN todo' :
            todo'[k] = IF k <= l THEN tasks[k] ELSE todo[k - l + 1]
  BY AgendaShape
<1>2. Node = todo[1].node
  BY Agenda DEF Node
<1>. SUFFICES ASSUME NEW k \in DOMAIN todo', todo'[k].node = n.init
              PROVE  /\ k + 1 \in DOMAIN todo' /\ todo'[k + 1].do = "UnrollStart"
                     /\ todo'[k + 1].node = n
  BY DEF LedFor
<1>. HIDE DEF l, m
<1>3. CASE k < l
  <2>1. k \in DOMAIN tasks /\ k + 1 \in DOMAIN todo' /\ k + 1 <= l /\ k <= l /\ k # l
    BY <1>1, <1>3
  <2>2. todo'[k] = tasks[k] /\ todo'[k + 1] = tasks[k + 1]
    BY <1>1, <2>1
  <2>. QED
    BY <2>1, <2>2 DEF l
<1>4. CASE k = l
  <2>1. k \in DOMAIN tasks /\ k <= l /\ k + 1 \notin DOMAIN tasks /\ ~(k + 1 <= l)
        /\ (k + 1) - l + 1 = 2 /\ 1 \in DOMAIN todo /\ 1 + 1 = 2
    BY <1>1, <1>4
  <2>2. todo'[k] = tasks[k]
    BY <1>1, <2>1
  <2>3. todo[1].node = n.init
    BY <1>2, <2>1, <2>2 DEF l
  <2>4. 2 \in DOMAIN todo /\ todo[2].do = "UnrollStart" /\ todo[2].node = n
    BY <2>1, <2>3 DEF LedFor
  <2>5. k + 1 \in DOMAIN todo'
    BY <1>1, <1>4, <2>4
  <2>. QED
    BY <1>1, <2>1, <2>4, <2>5
<1>5. CASE k > l
  <2>1. /\ ~(k <= l) /\ ~(k + 1 <= l) /\ k - l + 1 \in DOMAIN todo
        /\ (k + 1) - l + 1 = (k - l + 1) + 1
    BY <1>1, <1>5
  <2>2. todo[k - l + 1].node = n.init
    BY <1>1, <2>1
  <2>3. /\ (k - l + 1) + 1 \in DOMAIN todo /\ todo[(k - l + 1) + 1].do = "UnrollStart"
        /\ todo[(k - l + 1) + 1].node = n
    BY <2>1, <2>2 DEF LedFor
  <2>4. k + 1 \in DOMAIN todo'
    BY <1>1, <1>5, <2>3
  <2>. QED
    BY <1>1, <2>1, <2>3, <2>4
<1>. QED
  BY <1>1, <1>3, <1>4, <1>5

\* The counter is that of one loop, which starts from an integer.
Lone(n) ==
    /\ Alone(n)
    /\ \A m \in Reached(function) : n.init \in Visited(m) => m = n
    /\ n.body # n.init /\ n.init.initializer.value.class = "int"

Led == function # Null => \A n \in Loops : Lone(n) => LedFor(todo, n)

LEMMA ForRuns ==
    ASSUME TypeOK, Expressions \/ Statements, Node.kind = "ForStatement"
    PROVE  \/ VisitForStatement \/ UnrollStart \/ UnrollStore \/ Statement
           \/ Top.do \in ForTasks
<1>1. CASE Expressions
  <2>1. OwnKind(Top) /\ Node = Top.node
    BY <1>1, ExpressionsRun, TopType DEF Node
  <2>2. CASE VisitLiteralExpr \/ VisitVarExpr \/ VisitAllocExpr \/ VisitPrefixExpr
             \/ VisitPostfixExpr
    BY <2>2 DEF VisitLiteralExpr, VisitVarExpr, VisitAllocExpr, VisitPrefixExpr,
       VisitPostfixExpr, Visiting
  <2>3. CASE VisitBinaryExpr \/ VisitUnaryExpr \/ VisitCastExpr \/ VisitCallExpr
             \/ VisitAssignExpr \/ VisitMemberAccessExpr
    BY <2>3 DEF VisitBinaryExpr, VisitUnaryExpr, VisitCastExpr, VisitCallExpr,
       VisitAssignExpr, VisitMemberAccessExpr, Descend, Visiting
  <2>4. CASE ShortLeft \/ ShortRight \/ BinLeft \/ BinRight \/ UnaryOp \/ CastOp
             \/ CallArg \/ CallEnd \/ AssignStore \/ MemberLoad
    BY <2>1, <2>4 DEF ShortLeft, ShortRight, BinLeft, BinRight, UnaryOp, CastOp, CallArg,
       CallEnd, AssignStore, MemberLoad, Resuming, OwnKind
  <2>. QED
    BY <1>1, <2>2, <2>3, <2>4 DEF Expressions
<1>2. CASE Statements
  <2>1. OwnKind(Top) /\ Node = Top.node
    BY <1>2, StatementsRun, TopType DEF Node
  <2>2. CASE VisitBlockStatement \/ VisitExprStatement \/ VisitReturnStatement
             \/ VisitIfStatement \/ VisitWhileStatement \/ VisitVariableDecl
    BY <2>2 DEF VisitBlockStatement, VisitExprStatement, VisitReturnStatement,
       VisitIfStatement, VisitWhileStatement, VisitVariableDecl, Descend, Visiting
  <2>3. CASE InferredInit \/ ExplicitInit \/ ReturnValue \/ IfCond \/ IfElse \/ IfMerge
             \/ WhileCond \/ WhileEnd
    BY <2>1, <2>3 DEF InferredInit, ExplicitInit, ReturnValue, IfCond, IfElse, IfMerge,
       WhileCond, WhileEnd, Resuming, OwnKind
  <2>4. CASE VisitNull
    BY <2>4 DEF VisitNull, Null
  <2>5. CASE ForBlocks \/ ForCond \/ ForUpdate \/ ForEnd
    BY <2>5 DEF ForBlocks, ForCond, ForUpdate, ForEnd, Resuming, ForTasks
  <2>. QED
    BY <1>2, <2>2, <2>3, <2>4, <2>5 DEF Statements
<1>. QED
  BY <1>1, <1>2

LEMMA LoopNodes ==
    ASSUME NEW n \in Loops
    PROVE  /\ n \in AstNode /\ n.kind = "ForStatement" /\ Unrolled(n)
           /\ n.init.kind = "VariableDecl" /\ HasNumber(n.init.initializer) /\ n # n.init
           /\ AnalyzeForUnroll(n).varName = n.init.name /\ AnalyzeForUnroll(n) # NoUnroll
<1>1. n \in AstNode /\ n.kind = "ForStatement" /\ Unrolled(n)
  BY DEF Loops
<1>2. n.init.kind = "VariableDecl" /\ HasNumber(n.init.initializer)
      /\ AnalyzeForUnroll(n).varName = n.init.name /\ AnalyzeForUnroll(n) # NoUnroll
  BY <1>1, UnrolledLoop
<1>. QED
  BY <1>1, <1>2

\* The steps of the loop itself.
LEMMA LoopLed ==
    ASSUME CourseInv, function # Null, NEW n \in Loops, Lone(n), LedFor(todo, n),
           Expressions \/ Statements, Node = n
    PROVE  LedFor(todo', n)
<1>1. todo # <<>> /\ TypeOK
  BY ExpressionsRun, StatementsRun DEF CourseInv
<1>2. /\ n \in AstNode /\ n.kind = "ForStatement" /\ Unrolled(n)
      /\ n.init.kind = "VariableDecl" /\ n # n.init
  BY LoopNodes
<1>3. Top.do \notin ForTasks
  <2>1. 1 \in DOMAIN todo /\ Top = todo[1]
    BY <1>1, LenProperties, HeadTailProperties DEF TypeOK, Top
  <2>. QED
    BY <1>2, <2>1 DEF CourseInv, Rolled, Node
<1>4. ASSUME NEW S, NEW tasks \in Seq(S), Proceed(tasks),
             \A k \in DOMAIN tasks : tasks[k].node # n.init
      PROVE  LedFor(todo', n)
  BY <1>1, <1>4, LedStep
<1>5. Finish => LedFor(todo', n)
  <2>1. <<>> \in Seq({}) /\ DOMAIN <<>> = {}
    OBVIOUS
  <2>. QED
    BY <1>4, <2>1 DEF Finish
<1>6. CASE VisitForStatement
  <2>. DEFINE first == Visit(n.init)
              u == Then("UnrollStart")
              tasks == <<first, u>>
  <2>1. Proceed(tasks)
    BY <1>2, <1>6 DEF VisitForStatement, Descend
  <2>2. /\ tasks \in Seq({first, u}) /\ DOMAIN tasks = {1, 2}
        /\ tasks[1] = first /\ tasks[2] = u /\ 1 + 1 = 2
    OBVIOUS
  <2>3. u.do = "UnrollStart" /\ u.node = n
    BY GoesOn
  <2>. HIDE DEF tasks, u, first
  <2>4. \A k \in DOMAIN tasks :
            tasks[k].node = n.init =>
                /\ k + 1 \in DOMAIN tasks
                /\ tasks[k + 1].do = "UnrollStart" /\ tasks[k + 1].node = n
    BY <1>2, <2>2, <2>3
  <2>. QED
    BY <1>1, <2>1, <2>2, <2>4, LedStep
<1>7. CASE UnrollStart
  <2>. DEFINE info == AnalyzeForUnroll(Node)
              slot == m_variables[info.varName].value
              tasks == Iterations(info, slot)
  <2>1. \/ Crash
        \/ \E text, subject : Reject(text, subject)
        \/ info.varName \in DOMAIN m_variables /\ Proceed(tasks)
    BY <1>7 DEF UnrollStart
  <2>2. CASE Crash
    BY <2>2 DEF Crash
  <2>3. CASE \E text, subject : Reject(text, subject)
    BY <1>5, <2>3 DEF Reject
  <2>4. CASE info.varName \in DOMAIN m_variables /\ Proceed(tasks)
    <3>1. info.start \in Int /\ info.step \in Int /\ info.tripCount \in Nat
      BY <1>2, AnalysisType
    <3>2. slot \in Values
      BY <1>1, <2>4 DEF TypeOK, VariableInfos
    <3>. HIDE DEF info, slot
    <3>3. tasks \in Seq(TasksIn(ir))
      BY <1>2, <3>1, <3>2, IterationsType
    <3>4. \A k \in DOMAIN tasks : tasks[k].node = n.body \/ tasks[k].node = n
      <4>1. \A vals : ThenWith("UnrollStore", vals).node = Node
        BY GoesOn
      <4>2. Visit(Node.body).node = Node.body
        BY DEF Visit, Task
      <4>. QED
        BY <4>1, <4>2 DEF Iterations
    <3>. HIDE DEF tasks
    <3>. QED
      BY <1>2, <1>4, <2>4, <3>3, <3>4 DEF Lone
  <2>. QED
    BY <2>1, <2>2, <2>3, <2>4
<1>8. CASE UnrollStore
  BY <1>5, <1>8 DEF UnrollStore
<1>9. CASE Statement
  <2>. DEFINE first == Visit(n)
  <2>1. Proceed(<<>>) \/ Proceed(<<first>>)
    BY <1>9 DEF Statement, IfPresent
  <2>2. <<first>> \in Seq({first}) /\ DOMAIN <<first>> = {1} /\ <<first>>[1] = first
    OBVIOUS
  <2>3. first.node = n
    BY DEF Visit, Task
  <2>. HIDE DEF first
  <2>. QED
    BY <1>2, <1>4, <1>5, <2>1, <2>2, <2>3 DEF Finish
<1>. QED
  BY <1>1, <1>2, <1>3, <1>6, <1>7, <1>8, <1>9, ForRuns

LEMMA OthersLed ==
    ASSUME CourseInv, function # Null, NEW n \in Loops, Lone(n), LedFor(todo, n),
           todo # <<>>, Moves, Node # n
    PROVE  LedFor(todo', n)
<1>1. CASE \E S : \E tasks \in Seq(S) : Proceed(tasks) /\ Orderly(tasks)
  <2>1. PICK S : \E tasks \in Seq(S) : Proceed(tasks) /\ Orderly(tasks)
    BY <1>1
  <2>2. PICK tasks \in Seq(S) : Proceed(tasks) /\ Orderly(tasks)
    BY <2>1
  <2>3. Node \in Reached(function)
    <3>1. 1 \in DOMAIN todo /\ Top = todo[1]
      BY <2>2, Agenda DEF CourseInv
    <3>. QED
      BY <3>1 DEF CourseInv, Inside, Node
  <2>4. Top.do = "UnrollStart" => Node.kind = "ForStatement"
    BY TopType DEF CourseInv, OwnKind, Node
  <2>5. n.init.kind = "VariableDecl"
    BY LoopNodes
  <2>6. \A k \in DOMAIN tasks : tasks[k].node = n.init => k = Len(tasks) /\ Node = n.init
    BY <2>2, <2>3, <2>4, <2>5 DEF Orderly, Lone
  <2>. QED
    BY <2>2, <2>6, LedStep DEF CourseInv
<1>. QED
  BY <1>1 DEF Moves

(***************************************************************************)
(* What has been printed stays printed.                                    *)
(***************************************************************************)
LEMMA ErrorsStay ==
    ASSUME Expressions \/ Statements
    PROVE  errors \subseteq errors'
<1>1. ASSUME NEW kind, NEW tasks, Descend(kind, tasks)
      PROVE  errors \subseteq errors'
  BY <1>1 DEF Descend
<1>10. ASSUME NEW text, NEW subject, Reject(text, subject) \/ Report(text, subject)
       PROVE  errors \subseteq errors'
  BY <1>10 DEF Reject, Report
<1>11. Crash => errors \subseteq errors'
  BY DEF Crash
<1>2. CASE \/ VisitBinaryExpr \/ VisitUnaryExpr \/ VisitCastExpr \/ VisitAssignExpr
           \/ VisitMemberAccessExpr \/ VisitBlockStatement \/ VisitExprStatement
           \/ VisitIfStatement \/ VisitForStatement
  BY <1>1, <1>2 DEF VisitBinaryExpr, VisitUnaryExpr, VisitCastExpr, VisitAssignExpr,
     VisitMemberAccessExpr, VisitBlockStatement, VisitExprStatement, VisitIfStatement,
     VisitForStatement
<1>3. CASE \/ VisitLiteralExpr \/ VisitAllocExpr \/ VisitNull \/ VisitReturnStatement
           \/ VisitWhileStatement \/ VisitCallExpr
  BY <1>3, <1>10, <1>11 DEF VisitLiteralExpr, VisitAllocExpr, VisitNull,
     VisitReturnStatement, VisitWhileStatement, VisitCallExpr
<1>4. CASE ShortLeft \/ ShortRight \/ BinLeft \/ BinRight \/ UnaryOp \/ CastOp
  BY <1>4, <1>10, <1>11 DEF ShortLeft, ShortRight, BinLeft, BinRight, UnaryOp, CastOp
<1>5. CASE CallArg \/ CallEnd \/ AssignStore \/ MemberLoad \/ Statement \/ ReturnValue
  BY <1>5, <1>10, <1>11 DEF CallArg, CallEnd, AssignStore, MemberLoad, Statement,
     ReturnValue
<1>6. CASE IfCond \/ IfElse \/ IfMerge \/ WhileCond \/ WhileEnd \/ UnrollStart \/ UnrollStore
  BY <1>6, <1>10, <1>11 DEF IfCond, IfElse, IfMerge, WhileCond, WhileEnd, UnrollStart,
     UnrollStore
<1>7. CASE ForBlocks \/ ForCond \/ ForUpdate \/ ForEnd
  BY <1>7, <1>10, <1>11 DEF ForBlocks, ForCond, ForUpdate, ForEnd
<1>8. CASE VisitVarExpr \/ VisitVariableDecl \/ InferredInit \/ ExplicitInit
  BY <1>8, <1>10, <1>11 DEF VisitVarExpr, VisitVariableDecl, InferredInit, ExplicitInit
<1>9. CASE VisitPrefixExpr \/ VisitPostfixExpr
  <2>1. ASSUME NEW prefix, IncDec(prefix)
        PROVE  errors \subseteq errors'
    BY <2>1, <1>10, <1>11 DEF IncDec
  <2>. QED
    BY <1>9, <2>1 DEF VisitPrefixExpr, VisitPostfixExpr
<1>. QED
  BY <1>2, <1>3, <1>4, <1>5, <1>6, <1>7, <1>8, <1>9 DEF Expressions, Statements

(***************************************************************************)
(* What the counter has been and will be given.                            *)
(***************************************************************************)
Met(n, s) ==
    Given(ir, s[1]) \cup Due(ToSet(todo), s[1]) = RolledValues(n) \cup {Start(n)}

\* The iterations are about to be put on the agenda.
Entering(n, s) ==
    /\ todo # <<>> /\ Top.do = "UnrollStart" /\ Node = n
    /\ m_variables[n.init.name].value = s[1]
    /\ Given(ir, s[1]) = {Start(n)} /\ Due(ToSet(todo), s[1]) = {}

Course ==
    function # Null /\ errors = {} =>
        \A n \in Loops : Lone(n) =>
            \A s \in slots : s[2] = n.init => Entering(n, s) \/ Met(n, s)

LEMMA FirstDue ==
    ASSUME Memory, NEW v, \A t \in slots : t[1] # v
    PROVE  Due(ToSet(todo), v) = {}
<1>1. Storing(ToSet(todo), v) = {}
  BY DEF Memory, Steps, Storing, ToSet
<1>. QED
  BY <1>1 DEF Due

LEMMA TouchCourse ==
    ASSUME CourseInv, Led, Course, errors = {}, todo # <<>>, function # Null, Touches, Moves,
           Top.do \notin {"UnrollStart", "UnrollStore"},
           NEW n \in Loops, Lone(n), NEW s \in slots', s[2] = n.init
    PROVE  Entering(n, s)' \/ Met(n, s)'
<1>. DEFINE v == s[1]
<1>1. (s \in slots /\ SameStores(s)) \/ First(s)
  BY TouchedSlots DEF CourseInv, Lone
<1>2. Due(ToSet(todo'), v) = Due(ToSet(todo), v)
  BY DueKept DEF CourseInv
<1>3. CASE s \in slots /\ SameStores(s)
  <2>1. Met(n, s)
    BY <1>3 DEF Course, Entering
  <2>2. Given(ir', v) = Given(ir, v)
    BY <1>3 DEF SameStores, Given
  <2>. HIDE DEF v
  <2>. QED
    BY <1>2, <2>1, <2>2 DEF Met, v
<1>4. CASE First(s)
  <2>1. /\ Node = n.init /\ Finish
        /\ Node.name \in DOMAIN m_variables' /\ m_variables'[Node.name].value = v
        /\ \A t \in slots : t[1] # v
    BY <1>4 DEF First
  <2>2. Due(ToSet(todo'), v) = {}
    BY <1>2, <2>1, FirstDue DEF CourseInv
  <2>3. Given(ir', v) = {Start(n)}
    <3>1. PICK p : /\ StoresTo(ir', v) = {p}
                   /\ InstAt(ir', p).args[1] = Constant(Node.initializer.value)
      BY <1>4 DEF First
    <3>2. n.init.initializer.value.class = "int"
      BY DEF Lone
    <3>3. Constant(n.init.initializer.value) = ConstInt("i32", Start(n))
      BY <3>2 DEF Constant, Start
    <3>4. ConstInt("i32", Start(n)).num = Start(n)
      BY DEF ConstInt, Val
    <3>. HIDE DEF v
    <3>. QED
      BY <2>1, <3>1, <3>3, <3>4 DEF Given
  <2>4. todo' # <<>> /\ Head(todo').do = "UnrollStart" /\ Head(todo').node = n
    <3>. DEFINE tasks == <<>>
    <3>1. /\ tasks \in Seq({}) /\ Len(tasks) = 0 /\ DOMAIN tasks = {} /\ Proceed(tasks)
      BY <2>1 DEF Finish
    <3>. HIDE DEF tasks
    <3>2. /\ Len(todo) \in Nat /\ DOMAIN todo = 1..Len(todo)
          /\ DOMAIN todo' = 1..Len(tasks) + Len(todo) - 1
          /\ \A k \in DOMAIN todo' :
                todo'[k] = IF k <= Len(tasks) THEN tasks[k] ELSE todo[k - Len(tasks) + 1]
      BY <3>1, AgendaShape DEF CourseInv
    <3>3. 1 \in DOMAIN todo /\ Top = todo[1]
      BY <3>1, Agenda DEF CourseInv
    <3>4. 1 + 1 \in DOMAIN todo /\ todo[1 + 1].do = "UnrollStart" /\ todo[1 + 1].node = n
      BY <2>1, <3>3 DEF Led, LedFor, Node
    <3>5. 1 \in DOMAIN todo' /\ todo'[1] = todo[1 + 1]
      <4>1. 1 \in DOMAIN todo' /\ ~(1 <= Len(tasks)) /\ 1 - Len(tasks) + 1 = 1 + 1
        BY <3>1, <3>2, <3>4
      <4>. QED
        BY <3>2, <4>1
    <3>6. Head(todo') = todo'[1] /\ todo' # <<>>
      <4>1. Tail(todo) \in Seq(TasksIn(ir)) /\ todo' = Tail(todo)
        <5>1. todo' = tasks \o Tail(todo) /\ Tail(todo) \in Seq(TasksIn(ir))
          BY <3>1, HeadTailProperties DEF Proceed, CourseInv, TypeOK
        <5>2. tasks = <<>>
          BY DEF tasks
        <5>. QED
          BY <5>1, <5>2, EmptySeq, ConcatProperties
      <4>2. todo' # <<>>
        <5>1. DOMAIN <<>> = {}
          OBVIOUS
        <5>. QED
          BY <3>5, <5>1
      <4>. QED
        BY <4>1, <4>2, HeadTailProperties
    <3>. QED
      BY <3>4, <3>5, <3>6
  <2>5. m_variables'[n.init.name].value = v
    BY <2>1
  <2>. HIDE DEF v
  <2>. QED
    BY <2>2, <2>3, <2>4, <2>5 DEF Entering, Top, Node, v
<1>. QED
  BY <1>1, <1>3, <1>4

LEMMA StoreCourse ==
    ASSUME CourseInv, Course, errors = {}, function # Null, UnrollStore,
           NEW n \in Loops, Lone(n), NEW s \in slots', s[2] = n.init
    PROVE  Met(n, s)'
<1>. DEFINE v == s[1]
            slot == Top.vals[1]
            w == Top.vals[2]
<1>1. /\ todo # <<>> /\ Top.do = "UnrollStore" /\ Finish
      /\ ir' = Emit(ir, Store(w, slot)) /\ slots' = slots
  BY DEF UnrollStore, Resuming, Running, symbols
<1>2. Built(ir)
  BY <1>1, TopType, WellBuiltIsBuilt DEF CourseInv
<1>3. Met(n, s)
  BY <1>1 DEF Course, Entering
<1>4. /\ ToSet(todo) = {Top} \cup ToSet(Tail(todo))
      /\ ToSet(todo') = ToSet(Tail(todo))
  <2>. DEFINE tasks == <<>>
  <2>1. tasks \in Seq({}) /\ ToSet(tasks) = {}
    BY DEF ToSet
  <2>2. Proceed(tasks) /\ TypeOK
    BY <1>1 DEF Finish, CourseInv
  <2>. HIDE DEF tasks
  <2>3. /\ ToSet(todo) = {Top} \cup ToSet(Tail(todo))
        /\ ToSet(todo') = ToSet(tasks) \cup ToSet(Tail(todo))
    BY <1>1, <2>1, <2>2, AgendaSets
  <2>. QED
    BY <2>1, <2>3
<1>5. Due(ToSet(todo), v) = Due({Top}, v) \cup Due(ToSet(todo'), v)
  BY <1>4, DueTogether
<1>6. Due({Top}, v) = IF v = slot THEN {w.num} ELSE {}
  <2>1. Storing({Top}, v) = IF v = slot THEN {Top} ELSE {}
    BY <1>1 DEF Storing
  <2>. QED
    BY <2>1 DEF Due
<1>. HIDE DEF v, slot, w
<1>7. Given(ir', v) = Given(ir, v) \cup (IF v = slot THEN {w.num} ELSE {})
  <2>1. LET h == Emit(ir, Store(w, slot))
        IN  /\ StoresTo(h, v) =
                  StoresTo(ir, v) \cup (IF v = slot THEN {NextPlace(ir)} ELSE {})
            /\ \A p \in StoresTo(ir, v) : InstAt(h, p) = InstAt(ir, p)
            /\ InstAt(h, NextPlace(ir)).args[1] = w
    BY <1>2, StoreSlots
  <2>. QED
    BY <1>1, <2>1 DEF Given
<1>8. Given(ir', v) \cup Due(ToSet(todo'), v) = Given(ir, v) \cup Due(ToSet(todo), v)
  BY <1>5, <1>6, <1>7
<1>. QED
  BY <1>3, <1>8 DEF Met, v

LEMMA StartCourse ==
    ASSUME CourseInv, Course, errors = {}, errors' = {}, function # Null, UnrollStart,
           NEW n \in Loops, Lone(n), NEW s \in slots', s[2] = n.init
    PROVE  Entering(n, s)' \/ Met(n, s)'
<1>. DEFINE v == s[1]
            info == AnalyzeForUnroll(Node)
            slot == m_variables[info.varName].value
            tasks == Iterations(info, slot)
<1>1. todo # <<>> /\ Top.do = "UnrollStart" /\ TypeOK
  BY DEF UnrollStart, Resuming, Running, CourseInv
<1>2. \/ Crash
      \/ \E text, subject : Reject(text, subject)
      \/ /\ info.varName \in DOMAIN m_variables /\ Proceed(tasks)
         /\ slots' = slots /\ ir' = ir
  BY DEF UnrollStart, symbols
<1>3. CASE Crash
  <2>1. UNCHANGED <<slots, ir, todo, m_variables>>
    BY <1>3 DEF Crash, symbols
  <2>2. Entering(n, s) \/ Met(n, s)
    BY <2>1 DEF Course
  <2>3. (Entering(n, s) => Entering(n, s)') /\ (Met(n, s) => Met(n, s)')
    BY <2>1 DEF Entering, Met, Top, Node
  <2>. QED
    BY <2>2, <2>3
<1>4. CASE \E text, subject : Reject(text, subject)
  BY <1>4 DEF Reject, Report
<1>5. CASE /\ info.varName \in DOMAIN m_variables /\ Proceed(tasks)
           /\ slots' = slots /\ ir' = ir
  <2>1. /\ 1 \in DOMAIN todo /\ Top = todo[1]
        /\ Node \in AstNode /\ Node.kind = "ForStatement" /\ Node \in Reached(function)
    <3>1. 1 \in DOMAIN todo /\ Top = todo[1]
      BY <1>1, LenProperties, HeadTailProperties DEF TypeOK, Top
    <3>2. Node \in Reached(function)
      BY <3>1 DEF CourseInv, Inside, Node
    <3>. QED
      BY <1>1, <3>1, <3>2, TopType DEF OwnKind, Node
  <2>2. /\ Unrolled(Node)
        /\ <<m_variables[Node.init.name].value, Node.init>> \in slots
    BY <1>1, <2>1 DEF CourseInv, Memory, Starts, Node
  <2>3. info.varName = Node.init.name /\ info # NoUnroll
    BY <2>2, UnrolledLoop
  <2>4. v = slot => Node = n
    <3>. SUFFICES ASSUME v = slot
                  PROVE  Node = n
      OBVIOUS
    <3>. DEFINE t == <<m_variables[Node.init.name].value, Node.init>>
    <3>1. t \in slots /\ t[1] = slot /\ t[2] = Node.init
      BY <2>2, <2>3
    <3>. HIDE DEF t, slot
    <3>2. s = t
      BY <1>5, <3>1 DEF CourseInv, Memory, Agree
    <3>3. n.init \in Visited(Node)
      BY <2>1, <2>2, <3>1, <3>2, VisitedNodes
    <3>. QED
      BY <2>1, <3>3 DEF Lone
  <2>5. tasks \in Seq(TasksIn(ir))
    <3>1. /\ info.start \in Int /\ info.step \in Int /\ info.tripCount \in Nat
      BY <2>1, AnalysisType
    <3>2. slot \in Values
      BY <1>1, <1>5 DEF TypeOK, VariableInfos
    <3>. HIDE DEF info, slot
    <3>. QED
      BY <2>1, <3>1, <3>2, IterationsType
  <2>6. Due(ToSet(tasks), v) = IF v = slot THEN RolledValues(Node) ELSE {}
    <3>. HIDE DEF v, slot
    <3>. QED
      BY <2>1, <2>3, IterationsDue
  <2>. HIDE DEF tasks
  <2>7. /\ ToSet(todo) = {Top} \cup ToSet(Tail(todo))
        /\ ToSet(todo') = ToSet(tasks) \cup ToSet(Tail(todo))
    BY <1>1, <1>5, <2>5, AgendaSets
  <2>8. Due(ToSet(todo'), v) = Due(ToSet(tasks), v) \cup Due(ToSet(todo), v)
    <3>1. /\ Due(ToSet(todo), v) = Due({Top}, v) \cup Due(ToSet(Tail(todo)), v)
          /\ Due(ToSet(todo'), v) = Due(ToSet(tasks), v) \cup Due(ToSet(Tail(todo)), v)
      BY <2>7, DueTogether
    <3>2. Due({Top}, v) = {}
      <4>1. \A t \in {Top} : t.do # "UnrollStore"
        BY <1>1
      <4>. QED
        BY <4>1, DueTogether
    <3>. QED
      BY <3>1, <3>2
  <2>9. Entering(n, s) \/ Met(n, s)
    BY <1>5 DEF Course
  <2>10. Entering(n, s) => v = slot
    BY <2>3 DEF Entering
  <2>11. Given(ir', v) \cup Due(ToSet(todo'), v) = RolledValues(n) \cup {Start(n)}
    <3>. HIDE DEF slot
    <3>1. CASE Entering(n, s)
      <4>1. Given(ir, v) = {Start(n)} /\ Due(ToSet(todo), v) = {} /\ v = slot /\ Node = n
        BY <2>4, <2>10, <3>1 DEF Entering
      <4>. HIDE DEF v
      <4>. QED
        BY <1>5, <2>6, <2>8, <4>1
    <3>2. CASE Met(n, s)
      <4>1. Given(ir, v) \cup Due(ToSet(todo), v) = RolledValues(n) \cup {Start(n)}
        BY <3>2 DEF Met
      <4>. HIDE DEF v
      <4>. QED
        BY <1>5, <2>4, <2>6, <2>8, <4>1
    <3>. QED
      BY <2>9, <3>1, <3>2
  <2>. QED
    BY <2>11 DEF Met
<1>. QED
  BY <1>2, <1>3, <1>4, <1>5

LEMMA HandlersUnroll ==
    ASSUME CourseInv, Led, Course, function # Null, Expressions \/ Statements
    PROVE  Led' /\ Course'
<1>1. todo # <<>> /\ errors \subseteq errors'
  BY ExpressionsRun, StatementsRun, ErrorsStay
<1>2. Moves
  BY StartUnrolled, HandlersMove DEF CourseInv
<1>3. function' = function
  BY <1>2 DEF Moves
<1>4. ASSUME NEW n \in Loops, Lone(n)
      PROVE  LedFor(todo', n)
  <2>1. LedFor(todo, n)
    BY <1>4 DEF Led
  <2>. QED
    BY <1>1, <1>2, <1>4, <2>1, LoopLed, OthersLed
<1>5. ASSUME errors' = {}, NEW n \in Loops, Lone(n), NEW s \in slots', s[2] = n.init
      PROVE  Entering(n, s)' \/ Met(n, s)'
  <2>1. errors = {}
    BY <1>1, <1>5
  <2>2. CASE UnrollStart
    BY <1>5, <2>1, <2>2, StartCourse
  <2>3. CASE UnrollStore
    BY <1>5, <2>1, <2>3, StoreCourse
  <2>4. CASE ~UnrollStart /\ ~UnrollStore
    <3>1. Top.do \notin {"UnrollStart", "UnrollStore"}
      BY <2>4, ExpressionsRun, StatementsRun
    <3>2. Touches
      BY <2>4, HandlersTouch DEF CourseInv
    <3>. QED
      BY <1>1, <1>2, <1>5, <2>1, <3>1, <3>2, TouchCourse
  <2>. QED
    BY <2>2, <2>3, <2>4
<1>6. Led'
  BY <1>3, <1>4 DEF Led, Lone, Alone
<1>7. Course'
  BY <1>3, <1>5 DEF Course, Lone, Alone
<1>. QED
  BY <1>6, <1>7

LEMMA DeclarationsUnroll ==
    ASSUME CourseInv, Led, Course, Declarations
    PROVE  Led' /\ Course'
<1>1. CASE VisitInterfaceDecl \/ VisitStructDecl
  <2>1. UNCHANGED <<todo, ir, slots, m_variables, function, errors>>
    BY <1>1 DEF VisitInterfaceDecl, VisitStructDecl, symbols, result
  <2>. QED
    BY <2>1 DEF Led, Course, Lone, Alone, Entering, Met, Top, Node
<1>2. CASE VisitFunctionDecl
  <2>. DEFINE decl == Head(pending)
              first == Visit(decl.body)
  <2>1. /\ decl.kind = "FunctionDecl" /\ pending # <<>>
        /\ slots' = {} /\ function' = decl /\ todo' = IfPresent(decl.body)
    BY <1>2 DEF VisitFunctionDecl, AtDeclaration
  <2>2. decl \in AstNode
    BY <2>1, HeadTailProperties DEF CourseInv, TypeOK
  <2>3. decl \in Reached(decl) /\ decl.body \in Visited(decl)
    BY <2>1, <2>2, VisitedNodes, ReachedNodes
  <2>4. first.node = decl.body
    BY DEF Visit, Task
  <2>. HIDE DEF first
  <2>5. /\ todo' = <<>> \/ todo' = <<first>>
        /\ DOMAIN <<first>> = {1} /\ <<first>>[1] = first
    BY <2>1 DEF IfPresent, first
  <2>6. \A k \in DOMAIN todo' : todo'[k].node = decl.body
    BY <2>4, <2>5
  <2>7. ASSUME NEW n \in Loops, Lone(n)'
        PROVE  decl.body # n.init
    <3>1. n.kind = "ForStatement"
      BY LoopNodes
    <3>. QED
      BY <2>1, <2>3, <2>7, <3>1 DEF Lone
  <2>8. Led'
    BY <2>6, <2>7 DEF Led, LedFor
  <2>. QED
    BY <2>1, <2>8 DEF Course
<1>3. CASE EndFunctionDecl
  <2>1. function' = Null
    BY <1>3 DEF EndFunctionDecl
  <2>. QED
    BY <2>1 DEF Led, Course
<1>. QED
  BY <1>1, <1>2, <1>3 DEF Declarations

UnrollInv == CourseInv /\ Led /\ Course

LEMMA NextUnroll ==
    ASSUME UnrollInv, [Next]_vars, CourseInv'
    PROVE  UnrollInv'
<1>1. CASE Expressions \/ Statements
  <2>1. todo # <<>>
    BY <1>1, ExpressionsRun, StatementsRun
  <2>2. function # Null
    BY <2>1 DEF UnrollInv, CourseInv, TypeOK
  <2>. QED
    BY <1>1, <2>2, HandlersUnroll DEF UnrollInv
<1>2. CASE Declarations
  BY <1>2, DeclarationsUnroll DEF UnrollInv
<1>3. CASE UNCHANGED vars
  <2>1. UNCHANGED <<todo, ir, slots, m_variables, function, errors>>
    BY <1>3 DEF vars, symbols, result, module
  <2>. QED
    BY <2>1 DEF UnrollInv, Led, Course, Lone, Alone, Entering, Met, Top, Node
<1>. QED
  BY <1>1, <1>2, <1>3 DEF Next

\* At every step of a visit without an error, the numbers stored so far into the
\* counter of an unrolled loop, and those that the remaining tasks will store, are
\* together the initial value and the values for which the rolled loop runs its
\* body (UnrollForLoop, VisitVariableDecl).
THEOREM UnrollCorrect == Spec => []UnrollInv
<1>1. Init => Led /\ Course
  BY DEF Init, Led, Course
<1>2. UnrollInv /\ [Next]_vars /\ CourseInv' => UnrollInv'
  BY NextUnroll
<1>3. CourseInv /\ (Led /\ Course) => UnrollInv
  BY DEF UnrollInv
<1>. QED
  BY <1>1, <1>2, <1>3, CourseCorrect, PTL DEF Spec

\* In a function that has been visited without an error, the counter of an
\* unrolled loop that nothing else is called like has been given its initial
\* value and the values for which the rolled loop would run its body, and no
\* others (AnalyzeForUnroll, UnrollForLoop and VisitVariableDecl together).
THEOREM UnrolledLoopsMatch ==
    Spec => []((\A n \in UnrolledLoops : Lone(n)) => UnrollMatchesLoop)
<1>1. UnrollInv => ((\A n \in UnrolledLoops : Lone(n)) => UnrollMatchesLoop)
  <2>. SUFFICES ASSUME UnrollInv, \A n \in UnrolledLoops : Lone(n),
                       todo = <<>>, errors = {},
                       NEW n \in UnrolledLoops, NEW s \in slots, s[2] = n.init
                PROVE  {InstAt(ir, p).args[1].num : p \in StoresTo(ir, s[1])}
                           = RolledValues(n) \cup {n.init.initializer.value.num}
    BY DEF UnrollMatchesLoop
  <2>1. function # Null /\ n.kind = "ForStatement" /\ Unrolled(n) /\ Lone(n)
    BY DEF UnrolledLoops
  <2>2. n \in Loops
    BY <2>1 DEF Lone, Alone, Loops, Reached
  <2>3. Met(n, s)
    BY <2>1, <2>2 DEF UnrollInv, Course, Entering
  <2>4. Due(ToSet(todo), s[1]) = {}
    <3>1. ToSet(todo) = {}
      BY DEF ToSet
    <3>. QED
      BY <3>1 DEF Due, Storing
  <2>. QED
    BY <2>3, <2>4 DEF Met, Given, Start
<1>. QED
  BY <1>1, UnrollCorrect, PTL
=============================================================================
