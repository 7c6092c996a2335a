---------------------------- MODULE ParserProofs ----------------------------
(***************************************************************************)
(* Safety of Parser, for every set of token sequences: the position stays  *)
(* within the tokens, no tree has a hole without a message, and under that *)
(* every step is a step of Phase or changes nothing that Phase sees.       *)
(***************************************************************************)
EXTENDS Parser, SequenceTheorems, TLAPS

(***************************************************************************)
(* Positions.  Every token but EndOfFile has one behind it, so that what   *)
(* has been looked at and is not EndOfFile may be passed.                  *)
(***************************************************************************)
Last == Len(m_Tokens) - 1
Ahead(i) == i \in Here..Last

\* The part of TypeOK that the positions rest on.
Within == m_Tokens \in Inputs /\ Here \in 0..Last

LEMMA TokenAt ==
    ASSUME Within, NEW i \in 0..Last
    PROVE  /\ Type(i) = "EndOfFile" <=> i = Last
           /\ Lexeme(i) # "none"
           /\ Last \in Nat
<1>1. /\ m_Tokens \in Seq(TokenTypes) /\ m_Tokens # <<>>
      /\ \A k \in DOMAIN m_Tokens : m_Tokens[k].m_type = "EndOfFile" <=> k = Len(m_Tokens)
  BY InputAssumption DEF Within
<1>2. Len(m_Tokens) \in Nat /\ DOMAIN m_Tokens = 1..Len(m_Tokens)
  BY <1>1, LenProperties
<1>3. i + 1 \in 1..Len(m_Tokens) /\ (i + 1 = Len(m_Tokens) <=> i = Last) /\ Last \in Nat
  BY <1>2 DEF Last
<1>4. Type(i) = "EndOfFile" <=> i = Last
  BY <1>1, <1>2, <1>3 DEF Type
<1>5. m_Tokens[i + 1] \in TokenTypes
  BY <1>1, <1>3, ElementOfSeq
<1>. QED
  BY <1>3, <1>4, <1>5 DEF Lexeme, TokenTypes

LEMMA Further ==
    ASSUME Within
    PROVE  /\ Ahead(Here) /\ Here \in Int
           /\ \A i : Ahead(i) => i \in Int /\ i >= Here /\ Lexeme(i) # "none"
           /\ \A i : Ahead(i) /\ Type(i) # "EndOfFile" => Ahead(i + 1)
<1>1. Last \in Nat /\ Here \in 0..Last
  BY TokenAt DEF Within
<1>2. ASSUME NEW i, Ahead(i)
      PROVE  /\ i \in 0..Last /\ i \in Int /\ i >= Here /\ Lexeme(i) # "none"
             /\ Type(i) # "EndOfFile" => Ahead(i + 1)
  <2>1. i \in 0..Last /\ i >= Here
    BY <1>1, <1>2 DEF Ahead
  <2>. HIDE DEF Here
  <2>. QED
    BY <1>1, <2>1, TokenAt DEF Ahead
<1>. HIDE DEF Here
<1>. QED
  BY <1>1, <1>2 DEF Ahead

LEMMA SymbolsDiffer ==
    /\ Semicolon # "EndOfFile" /\ Comma # "EndOfFile"
    /\ LBrace # "EndOfFile" /\ RBrace # "EndOfFile"
    /\ "EndOfFile" \notin TypeKeywords \cup LiteralTypes
BY DEF Semicolon, Comma, LBrace, RBrace, TypeKeywords, LiteralTypes

\* Passing what has been looked for.
LEMMA Passing ==
    ASSUME Within, NEW i, Ahead(i)
    PROVE  /\ \A type : At(i, type) /\ type # "EndOfFile" => Ahead(i + 1)
           /\ \A types : AtAny(i, types) /\ "EndOfFile" \notin types => Ahead(i + 1)
           /\ \A type : type # "EndOfFile" => Ahead(Match(i, type))
           /\ \A type : At(i, type) => Match(i, type) = i + 1
           /\ HasTypeName(i) => Ahead(i + 1)
           /\ ~EndAt(i) => Ahead(i + 1)
           /\ Ahead(Advance(i))
           /\ Ahead(AfterParens(i))
<1>. USE Further
<1>1. /\ \A type : At(i, type) /\ type # "EndOfFile" => Ahead(i + 1)
      /\ \A types : AtAny(i, types) /\ "EndOfFile" \notin types => Ahead(i + 1)
      /\ ~EndAt(i) => Ahead(i + 1)
  BY DEF At, AtAny, EndAt
<1>2. ASSUME NEW j, Ahead(j), NEW type, type # "EndOfFile"
      PROVE  Ahead(Match(j, type))
  BY <1>2 DEF At, Match
<1>3. HasTypeName(i) => Ahead(i + 1)
  BY <1>1, SymbolsDiffer DEF HasTypeName
<1>4. Ahead(Advance(i))
  BY <1>1 DEF Advance
<1>5. Ahead(AfterParens(i))
  <2>1. At(i, "(") => Ahead(i + 1)
    BY <1>1
  <2>. QED
    BY <1>2, <2>1 DEF AfterParens
<1>. QED
  BY <1>1, <1>2, <1>3, <1>4, <1>5 DEF Match

LEMMA Types ==
    ASSUME Within, NEW i, Ahead(i), NEW name
    PROVE  /\ Ahead(TypeFrom(name, i).after)
           /\ TypeFrom(name, i).errors \subseteq Messages
           /\ name # "none" => TypeFrom(name, i).type # Inferred
<1>1. Ahead(Match(i, "*"))
  BY Passing
<1>2. Ahead(Match(Match(i, "*"), "?"))
  BY <1>1, Passing
<1>3. TypeFrom(name, i).after = Match(Match(i, "*"), "?")
  BY DEF TypeFrom
<1>4. TypeFrom(name, i).errors \subseteq {"OnlyPointerTypesCanBeNullable"}
  BY DEF TypeFrom
<1>5. TypeFrom(name, i).type.name = name /\ Inferred.name = "none"
  BY DEF TypeFrom, TypeRef, Inferred, Plain
<1>. QED
  BY <1>2, <1>3, <1>4, <1>5 DEF Messages

(***************************************************************************)
(* Sequences, whatever they hold.                                          *)
(***************************************************************************)
IsSeq(s) == s \in Seq({s[k] : k \in DOMAIN s})

LEMMA IsSeqOf ==
    ASSUME NEW S, NEW s \in Seq(S)
    PROVE  IsSeq(s)
<1>1. DOMAIN s = 1..Len(s) /\ Len(s) \in Nat
  BY LenProperties
<1>2. s \in [1..Len(s) -> {s[k] : k \in DOMAIN s}]
  BY <1>1, LenProperties
<1>. QED
  BY <1>1, <1>2, SeqDef DEF IsSeq

LEMMA Appending ==
    ASSUME NEW s, IsSeq(s), NEW x
    PROVE  /\ IsSeq(Append(s, x))
           /\ Append(s, x) # <<>>
           /\ Append(s, x)[Len(Append(s, x))] = x
           /\ \A k \in DOMAIN Append(s, x) :
                 Append(s, x)[k] = x \/ \E j \in DOMAIN s : Append(s, x)[k] = s[j]
<1>. DEFINE T == {s[k] : k \in DOMAIN s} \cup {x}
<1>1. s \in Seq(T) /\ x \in T
  BY SeqMonotonic DEF IsSeq
<1>. HIDE DEF T
<1>2. /\ Append(s, x) \in Seq(T) /\ Len(Append(s, x)) = Len(s) + 1
      /\ Append(s, x)[Len(s) + 1] = x
      /\ \A k \in 1..Len(s) : Append(s, x)[k] = s[k]
      /\ Len(s) \in Nat /\ DOMAIN s = 1..Len(s)
  BY <1>1, AppendProperties, LenProperties
<1>3. DOMAIN Append(s, x) = 1..(Len(s) + 1)
  BY <1>2, LenProperties
<1>4. \A k \in 1..(Len(s) + 1) : k = Len(s) + 1 \/ k \in 1..Len(s)
  BY <1>2
<1>5. Append(s, x) # <<>>
  <2>1. Len(s) + 1 # 0
    BY <1>2
  <2>. QED
    BY <1>2, <2>1, EmptySeq
<1>. QED
  BY <1>2, <1>3, <1>4, <1>5, IsSeqOf

(***************************************************************************)
(* The agenda: what a task waits with.  As long as nothing has been        *)
(* printed, the children that its node already has are not null.           *)
(***************************************************************************)
Do == Calls \cup Takers \cup Lists

Shape(t) ==
    /\ t = [do |-> t.do, levels |-> t.levels, node |-> t.node]
    /\ t.do \in Do /\ t.levels \in SUBSET (1..10)
    /\ t.do = "Methods" => t.node.kind = "InterfaceDecl"
    /\ t.do = "Fields" => t.node.kind = "StructDecl"
    /\ t.do \in {"Statements", "AddStatement"} =>
          t.node.kind = "BlockStatement" /\ IsSeq(t.node.statements)
    /\ t.do = "Argument" => IsSeq(t.node.arguments)

Filled(t) ==
    /\ t.do # "Recover"
    /\ t.do \in {"Right", "CompoundAssign"} => t.node.left # Null
    /\ t.do = "Assign" => t.node # Null
    /\ t.do = "Argument" =>
          \A k \in DOMAIN t.node.arguments : t.node.arguments[k] # Null
    /\ t.do \in {"Statements", "AddStatement"} =>
          \A k \in DOMAIN t.node.statements : t.node.statements[k] # Null
    /\ t.do \in {"IfThen", "IfElse", "WhileBody"} => t.node.condition # Null
    /\ t.do = "IfElse" => t.node.thenBranch # Null

TaskOK(t, silent) == Shape(t) /\ (silent => Filled(t))

AgendaOK(tasks, silent) ==
    IsSeq(tasks) /\ \A k \in DOMAIN tasks : TaskOK(tasks[k], silent)

\* The tasks of which nothing more is asked.
Simple ==
    Do \ {"Methods", "Fields", "Statements", "AddStatement", "Argument", "Recover",
          "Right", "CompoundAssign", "Assign", "IfThen", "IfElse", "WhileBody"}

LEMMA SimpleTask ==
    ASSUME NEW do \in Simple, NEW levels \in SUBSET (1..10), NEW node, NEW silent
    PROVE  /\ TaskOK(Task(do, levels, node), silent)
           /\ TaskOK(Rest(do, node), silent)
           /\ TaskOK(Parse(do), silent)
<1>1. ASSUME NEW l \in SUBSET (1..10), NEW n
      PROVE  TaskOK(Task(do, l, n), silent)
  <2>1. Task(do, l, n).do = do /\ Task(do, l, n).levels = l /\ Task(do, l, n).node = n
    BY DEF Task
  <2>2. Shape(Task(do, l, n))
    BY <2>1 DEF Shape, Simple, Task
  <2>3. Filled(Task(do, l, n))
    BY <2>1 DEF Filled, Simple
  <2>. QED
    BY <2>2, <2>3 DEF TaskOK
<1>. QED
  BY <1>1 DEF Rest, Parse

LEMMA Recovering == TaskOK(Parse("Recover"), FALSE)
<1>1. /\ Parse("Recover") = [do |-> "Recover", levels |-> {}, node |-> Null]
      /\ "Recover" \in Do
  BY DEF Parse, Task, Do, Calls
<1>. QED
  BY <1>1 DEF TaskOK, Shape

LEMMA Pair ==
    ASSUME NEW a, NEW b
    PROVE  <<a>> \in Seq({a}) /\ <<a, b>> \in Seq({a, b})
<1>1. ASSUME NEW S, NEW x \in S, NEW y \in S
      PROVE  <<x>> \in Seq(S) /\ <<x, y>> \in Seq(S)
  BY <1>1
<1>. QED
  BY <1>1

\* The tasks that are put on the agenda together.
LEMMA Nothing == \A silent : AgendaOK(<<>>, silent)
BY DEF AgendaOK, IsSeq

LEMMA Short ==
    ASSUME NEW silent, NEW a, TaskOK(a, silent)
    PROVE  /\ AgendaOK(<<a>>, silent)
           /\ \A b : TaskOK(b, silent) => AgendaOK(<<a, b>>, silent)
           /\ Head(<<a>>) = a /\ \A b : Head(<<a, b>>) = a
<1>1. AgendaOK(<<a>>, silent)
  <2>1. IsSeq(<<a>>)
    BY Pair, IsSeqOf
  <2>. QED
    BY <2>1 DEF AgendaOK
<1>2. ASSUME NEW b, TaskOK(b, silent)
      PROVE  AgendaOK(<<a, b>>, silent)
  <2>1. IsSeq(<<a, b>>)
    BY Pair, IsSeqOf
  <2>. QED
    BY <1>2, <2>1 DEF AgendaOK
<1>. QED
  BY <1>1, <1>2

LEMMA Behind ==
    ASSUME NEW silent, NEW tasks, AgendaOK(tasks, silent), NEW t, TaskOK(t, silent)
    PROVE  AgendaOK(Append(tasks, t), silent)
BY Appending DEF AgendaOK

\* What is left of the agenda, behind what is put in the place of its first task.
LEMMA InPlace ==
    ASSUME NEW was, NEW is, is \in BOOLEAN, was \in BOOLEAN, is => was,
           NEW s, AgendaOK(s, was), s # <<>>, NEW t, AgendaOK(t, is)
    PROVE  AgendaOK(t \o Tail(s), is)
<1>. DEFINE T == {x \in {s[k] : k \in DOMAIN s} \cup {t[k] : k \in DOMAIN t} :
                    TaskOK(x, is)}
<1>1. s \in Seq(T) /\ t \in Seq(T)
  <2>1. {s[k] : k \in DOMAIN s} \subseteq T /\ {t[k] : k \in DOMAIN t} \subseteq T
    BY DEF AgendaOK, TaskOK
  <2>. HIDE DEF T
  <2>. QED
    BY <2>1, SeqMonotonic DEF AgendaOK, IsSeq
<1>2. Tail(s) \in Seq(T)
  <2>. HIDE DEF T
  <2>. QED
    BY <1>1, HeadTailProperties
<1>3. t \o Tail(s) \in Seq(T)
  <2>. HIDE DEF T
  <2>. QED
    BY <1>1, <1>2, ConcatProperties
<1>4. \A k \in DOMAIN (t \o Tail(s)) : (t \o Tail(s))[k] \in T
  <2>. HIDE DEF T
  <2>. QED
    BY <1>3, ElementOfSeq, LenProperties
<1>. QED
  BY <1>3, <1>4, IsSeqOf DEF AgendaOK

LEMMA FirstOf ==
    ASSUME NEW s, IsSeq(s), s # <<>>, NEW t, IsSeq(t), t # <<>>
    PROVE  Head(t \o Tail(s)) = Head(t)
<1>. DEFINE T == {s[k] : k \in DOMAIN s} \cup {t[k] : k \in DOMAIN t}
<1>1. s \in Seq(T) /\ t \in Seq(T)
  BY SeqMonotonic DEF IsSeq
<1>. HIDE DEF T
<1>2. Tail(s) \in Seq(T)
  BY <1>1, HeadTailProperties
<1>3. Len(t) \in Nat /\ Len(t) > 0
  BY <1>1, EmptySeq, LenProperties
<1>. QED
  BY <1>1, <1>2, <1>3, ConcatProperties

(***************************************************************************)
(* The inductive invariant, and the ways to go on that keep it.            *)
(***************************************************************************)
Inv ==
    /\ Within
    /\ IsSeq(program)
    /\ errors \subseteq Messages
    /\ parsed \in BOOLEAN
    /\ AgendaOK(todo, errors = {})
    /\ HolesReported

LEMMA InvType == Inv => TypeOK
<1>. SUFFICES ASSUME Inv
              PROVE  TypeOK
  OBVIOUS
<1>. DEFINE T == [do : Do, levels : SUBSET (1..10),
                  node : {todo[k].node : k \in DOMAIN todo}]
<1>1. \A k \in DOMAIN todo : todo[k] \in T
  <2>. TAKE k \in DOMAIN todo
  <2>1. Shape(todo[k])
    BY DEF Inv, AgendaOK, TaskOK
  <2>. QED
    BY <2>1 DEF Shape
<1>2. todo \in Seq(T)
  <2>1. {todo[k] : k \in DOMAIN todo} \subseteq T
    BY <1>1
  <2>. HIDE DEF T
  <2>. QED
    BY <2>1, SeqMonotonic DEF Inv, AgendaOK, IsSeq
<1>. QED
  BY <1>2 DEF Inv, TypeOK, Within, Here, Last, Do, IsSeq

Silent(messages) == errors \cup messages = {}

\* The arguments of a Step that keeps the invariant.
Sound(n, tasks, i, messages) ==
    /\ Ahead(i)
    /\ messages \subseteq Messages
    /\ AgendaOK(tasks, Silent(messages))
    /\ Silent(messages) =>
          /\ ~Hole(n)
          /\ tasks = <<>> \/ Head(tasks).do \in Takers => n # Null

LEMMA Moved ==
    ASSUME Inv, NEW i, Ahead(i), Goto(i), m_Tokens' = m_Tokens
    PROVE  /\ Within'
           /\ i = Here => Last' - m_CurrentPosition' = Last - m_CurrentPosition
           /\ i # Here => /\ Last' - m_CurrentPosition' \in Nat
                          /\ Last' - m_CurrentPosition' < Last - m_CurrentPosition
<1>1. Last \in Nat /\ Here \in 0..Last /\ Within
  BY TokenAt DEF Inv, Within
<1>2. i \in Here..Last /\ m_CurrentPosition' = i /\ Here = m_CurrentPosition
      /\ Last' = Last /\ m_Tokens' = m_Tokens
  BY DEF Ahead, Goto, Here, Last
<1>3. i \in 0..Last
  BY <1>1, <1>2
<1>4. Within'
  BY <1>1, <1>2, <1>3 DEF Within, Here
<1>. QED
  BY <1>1, <1>2, <1>4

LEMMA StepKeeps ==
    ASSUME Inv, ~parsed, todo # <<>>,
           NEW n, NEW tasks, NEW i, NEW messages,
           Sound(n, tasks, i, messages), Step(n, tasks, i, messages)
    PROVE  Inv' /\ [Reading!Next]_(Reading!vars)
<1>1. /\ returned' = n /\ todo' = tasks \o Tail(todo) /\ Goto(i)
      /\ errors' = errors \cup messages
      /\ m_Tokens' = m_Tokens /\ program' = program /\ parsed' = parsed
  BY DEF Step, Proceed, Report
<1>2. Within'
  BY <1>1, Moved DEF Sound
<1>3. AgendaOK(todo', Silent(messages))
  <2>1. Silent(messages) => errors = {}
    BY DEF Silent
  <2>2. AgendaOK(todo, errors = {}) /\ AgendaOK(tasks, Silent(messages))
    BY DEF Inv, Sound
  <2>3. (errors = {}) \in BOOLEAN /\ Silent(messages) \in BOOLEAN
    BY DEF Silent
  <2>. QED
    BY <1>1, <2>1, <2>2, <2>3, InPlace
<1>4. HolesReported'
  <2>1. tasks # <<>> => Head(todo') = Head(tasks)
    BY <1>1, FirstOf DEF Inv, Sound, AgendaOK
  <2>. SUFFICES ASSUME Silent(messages)
                PROVE  ~Hole(n) /\ (Head(todo').do \in Takers => n # Null)
    BY <1>1 DEF HolesReported, Hole, Silent, Top
  <2>. QED
    BY <2>1 DEF Sound
<1>5. Inv'
  BY <1>1, <1>2, <1>3, <1>4 DEF Inv, Sound, Silent, IsSeq, AgendaOK, TaskOK, Shape, Filled
<1>6. [Reading!Next]_(Reading!vars)
  <2>1. Last = Len(m_Tokens) - 1 /\ Last' = Len(m_Tokens') - 1
    BY DEF Last
  <2>2. CASE i = Here
    BY <1>1, <2>1, <2>2, Moved DEF Sound, Reading!vars
  <2>3. CASE i # Here
    BY <1>1, <2>1, <2>3, Moved DEF Sound, Reading!Next, Reading!Read
  <2>. QED
    BY <2>2, <2>3
<1>. QED
  BY <1>5, <1>6

LEMMA DeclareKeeps ==
    ASSUME Inv, ~parsed, todo # <<>>,
           NEW n, NEW i, NEW messages,
           Sound(n, <<>>, i, messages), Declare(n, i, messages)
    PROVE  Inv' /\ [Reading!Next]_(Reading!vars)
<1>1. /\ returned' = n /\ todo' = <<>> \o Tail(todo) /\ Goto(i)
      /\ errors' = errors \cup messages
      /\ m_Tokens' = m_Tokens /\ program' = Append(program, n) /\ parsed' = parsed
  BY DEF Declare, Proceed, Report
<1>2. Within'
  BY <1>1, Moved DEF Sound
<1>3. AgendaOK(todo', Silent(messages))
  <2>1. Silent(messages) => errors = {}
    BY DEF Silent
  <2>2. AgendaOK(todo, errors = {}) /\ AgendaOK(<<>>, Silent(messages))
    BY Nothing DEF Inv
  <2>3. (errors = {}) \in BOOLEAN /\ Silent(messages) \in BOOLEAN
    BY DEF Silent
  <2>. QED
    BY <1>1, <2>1, <2>2, <2>3, InPlace
<1>4. HolesReported'
  BY <1>1 DEF HolesReported, Hole, Silent, Sound
<1>5. /\ IsSeq(program') /\ program' # <<>>
      /\ program' = Append(program, program'[Len(program')])
  BY <1>1, Appending DEF Inv
<1>6. Inv'
  BY <1>1, <1>2, <1>3, <1>4, <1>5
     DEF Inv, Sound, Silent, IsSeq, AgendaOK, TaskOK, Shape, Filled
<1>7. [Reading!Next]_(Reading!vars)
  <2>1. Last = Len(m_Tokens) - 1 /\ Last' = Len(m_Tokens') - 1
    BY DEF Last
  <2>2. CASE i = Here
    BY <1>1, <1>5, <2>1, <2>2, Moved
       DEF Sound, Reading!Next, Reading!Write, Reading!Appended
  <2>3. CASE i # Here
    BY <1>1, <1>5, <2>1, <2>3, Moved
       DEF Sound, Reading!Next, Reading!Read, Reading!Appended
  <2>. QED
    BY <2>2, <2>3
<1>. QED
  BY <1>6, <1>7

Kept == Inv' /\ [Reading!Next]_(Reading!vars)

LEMMA TopOK ==
    ASSUME Inv, todo # <<>>
    PROVE  /\ TaskOK(Top, errors = {}) /\ Shape(Top)
           /\ errors = {} => Filled(Top) /\ ~Hole(returned)
           /\ errors = {} /\ Top.do \in Takers => returned # Null
           /\ Within
<1>1. todo \in Seq({todo[k] : k \in DOMAIN todo})
  BY DEF Inv, AgendaOK, IsSeq
<1>2. Top = todo[1] /\ 1 \in DOMAIN todo
  BY <1>1, EmptySeq, LenProperties DEF Top
<1>3. TaskOK(Top, errors = {})
  BY <1>2 DEF Inv, AgendaOK
<1>. QED
  BY <1>3 DEF Inv, HolesReported, TaskOK

LEMMA Missed ==
    \A i, type, message : message \in Messages => Missing(i, type, message) \subseteq Messages
BY DEF Missing

LEMMA Roles ==
    ASSUME NEW do \in Do
    PROVE  do \in Calls \cup Lists <=> do \notin Takers
BY DEF Do, Calls, Takers, Lists

\* A call, or a list that goes on: what was returned last is not looked at.
LEMMA Asks ==
    ASSUME Inv, ~parsed, todo # <<>>,
           NEW i, Ahead(i), NEW messages, messages \subseteq Messages,
           NEW t, TaskOK(t, Silent(messages)), t.do \notin Takers
    PROVE  /\ Continue(<<t>>, i, messages) => Kept
           /\ \A u : TaskOK(u, Silent(messages)) /\ Continue(<<t, u>>, i, messages) => Kept
           /\ messages = {} /\ Call(i, <<t>>) => Kept
           /\ \A u : TaskOK(u, Silent(messages)) /\ messages = {} /\ Call(i, <<t, u>>) => Kept
<1>1. ASSUME NEW tasks, AgendaOK(tasks, Silent(messages)), tasks # <<>>,
             Head(tasks).do \notin Takers, Continue(tasks, i, messages)
      PROVE  Kept
  <2>1. Silent(messages) => ~Hole(returned)
    BY TopOK DEF Silent
  <2>2. Sound(returned, tasks, i, messages)
    BY <1>1, <2>1 DEF Sound
  <2>. QED
    BY <1>1, <2>2, StepKeeps DEF Continue, Kept
<1>2. /\ AgendaOK(<<t>>, Silent(messages)) /\ <<t>> # <<>> /\ Head(<<t>>) = t
      /\ \A u : TaskOK(u, Silent(messages)) =>
            AgendaOK(<<t, u>>, Silent(messages)) /\ <<t, u>> # <<>> /\ Head(<<t, u>>) = t
  BY Short
<1>3. \A tasks : messages = {} /\ Call(i, tasks) => Continue(tasks, i, messages)
  BY DEF Call, Continue
<1>. QED
  BY <1>1, <1>2, <1>3

\* A node that is returned, to the task below or to one that goes on with it.
LEMMA Answers ==
    ASSUME Inv, ~parsed, todo # <<>>,
           NEW i, Ahead(i), NEW messages, messages \subseteq Messages,
           NEW n, Silent(messages) => ~Hole(n) /\ n # Null
    PROVE  /\ Complete(n, i, messages) => Kept
           /\ \A t : TaskOK(t, Silent(messages)) /\ Step(n, <<t>>, i, messages) => Kept
           /\ Declare(n, i, messages) => Kept
<1>1. AgendaOK(<<>>, Silent(messages))
  BY Nothing
<1>2. Sound(n, <<>>, i, messages)
  BY <1>1 DEF Sound
<1>3. ASSUME NEW t, TaskOK(t, Silent(messages)), Step(n, <<t>>, i, messages)
      PROVE  Kept
  <2>1. Sound(n, <<t>>, i, messages)
    BY <1>3, Short DEF Sound
  <2>. QED
    BY <1>3, <2>1, StepKeeps DEF Kept
<1>4. Complete(n, i, messages) => Kept
  BY <1>2, StepKeeps DEF Complete, Kept
<1>5. Declare(n, i, messages) => Kept
  BY <1>2, DeclareKeeps DEF Kept
<1>. QED
  BY <1>3, <1>4, <1>5

\* Once something is printed, nothing more is asked of nodes.
LEMMA Complains ==
    ASSUME Inv, ~parsed, todo # <<>>,
           NEW i, Ahead(i), NEW message \in Messages
    PROVE  /\ Fail(i, message) => Kept
           /\ Continue(<<>>, i, {message}) => Kept
           /\ \A n, messages : messages \subseteq Messages
                 /\ Step(n, <<>>, i, messages \cup {message}) => Kept
           /\ \A n, t : TaskOK(t, FALSE) /\ Step(n, <<t>>, i, {message}) => Kept
           /\ \A t : TaskOK(t, FALSE) /\ Continue(<<t>>, i, {message}) => Kept
           /\ \A t : /\ TaskOK(t, FALSE)
                    /\ Continue(<<Parse("Recover"), t>>, i, {message})
                   => Kept
<1>1. ASSUME NEW n, NEW tasks, NEW messages, messages \subseteq Messages,
             AgendaOK(tasks, FALSE), Step(n, tasks, i, messages \cup {message})
      PROVE  Kept
  <2>1. Silent(messages \cup {message}) = FALSE
    BY DEF Silent
  <2>2. Sound(n, tasks, i, messages \cup {message})
    BY <1>1, <2>1 DEF Sound
  <2>. QED
    BY <1>1, <2>2, StepKeeps DEF Kept
<1>2. ASSUME NEW n, NEW tasks, AgendaOK(tasks, FALSE), Step(n, tasks, i, {message})
      PROVE  Kept
  <2>1. {message} = {} \cup {message} /\ {} \subseteq Messages
    OBVIOUS
  <2>. QED
    BY <1>1, <1>2, <2>1
<1>3. /\ AgendaOK(<<>>, FALSE)
      /\ \A t : TaskOK(t, FALSE) =>
            AgendaOK(<<t>>, FALSE) /\ AgendaOK(<<Parse("Recover"), t>>, FALSE)
  BY Nothing, Short, Recovering
<1>. QED
  BY <1>1, <1>2, <1>3 DEF Fail, Continue

\* What was returned is passed on.
LEMMA Passes ==
    ASSUME Inv, ~parsed, todo # <<>>, Top.do \in Takers,
           NEW i, Ahead(i)
    PROVE  /\ Call(i, <<>>) => Kept
           /\ \A messages : messages \subseteq Messages /\ Complete(returned, i, messages) => Kept
           /\ \A t : TaskOK(t, errors = {}) /\ Call(i, <<t>>) => Kept
<1>1. \A messages : Silent(messages) => ~Hole(returned) /\ returned # Null
  BY TopOK DEF Silent
<1>2. ASSUME NEW messages, messages \subseteq Messages, Complete(returned, i, messages)
      PROVE  Kept
  BY <1>1, <1>2, Answers
<1>3. Call(i, <<>>) => Complete(returned, i, {})
  BY DEF Call, Complete
<1>4. ASSUME NEW t, TaskOK(t, errors = {}), Call(i, <<t>>)
      PROVE  Kept
  <2>1. Silent({}) <=> errors = {}
    BY DEF Silent
  <2>2. TaskOK(t, Silent({}))
    BY <1>4, <2>1 DEF TaskOK
  <2>3. Step(returned, <<t>>, i, {})
    BY <1>4 DEF Call
  <2>4. {} \subseteq Messages
    OBVIOUS
  <2>. QED
    BY <1>1, <2>2, <2>3, <2>4, Answers
<1>. QED
  BY <1>2, <1>3, <1>4

(***************************************************************************)
(* Declarations.                                                           *)
(***************************************************************************)
LEMMA RecoverStep ==
    ASSUME Inv, Recover
    PROVE  Kept
<1>. USE TopOK, Further, Passing
<1>1. ~parsed /\ todo # <<>> /\ Top.do = "Recover"
  BY DEF Recover, Running
<1>0. Within /\ Ahead(Here)
  BY <1>1
<1>2. errors # {} /\ Top.do \notin Takers /\ ~Silent({})
  BY <1>1 DEF Filled, Takers, Silent
<1>3. CASE AtAny(Here, {Semicolon, RBrace, "EndOfFile"})
  <2>1. Call(Match(Here, Semicolon), <<>>)
    BY <1>3 DEF Recover
  <2>2. Ahead(Match(Here, Semicolon))
    BY <1>0, SymbolsDiffer
  <2>3. Sound(returned, <<>>, Match(Here, Semicolon), {})
    BY <1>2, <2>2, Nothing DEF Sound
  <2>. QED
    BY <1>1, <2>1, <2>3, StepKeeps DEF Call, Kept
<1>4. CASE ~AtAny(Here, {Semicolon, RBrace, "EndOfFile"})
  <2>1. Call(Here + 1, <<Top>>)
    BY <1>4 DEF Recover
  <2>2. Ahead(Here + 1)
    BY <1>0, <1>4 DEF AtAny
  <2>3. TaskOK(Top, Silent({}))
    BY <1>1, <1>2 DEF TaskOK
  <2>. QED
    BY <1>1, <1>2, <2>1, <2>2, <2>3, Asks
<1>. QED
  BY <1>3, <1>4

\* A declaration begins on an empty agenda.
LEMMA BeginKeeps ==
    ASSUME Inv, ~parsed, NEW do \in Lists, NEW n, NEW i, NEW messages,
           TaskOK(Rest(do, n), TRUE), Ahead(i), messages \subseteq Messages,
           Begin(do, n, i, messages)
    PROVE  Kept
<1>1. /\ todo' = <<Rest(do, n)>> /\ Goto(i) /\ errors' = errors \cup messages
      /\ UNCHANGED <<m_Tokens, returned, program, parsed>>
  BY DEF Begin, Report
<1>2. TaskOK(Rest(do, n), errors' = {})
  BY DEF TaskOK
<1>3. AgendaOK(todo', errors' = {})
  BY <1>1, <1>2, Short
<1>4. Within'
  BY <1>1, Moved
<1>5. Head(todo').do \notin Takers
  BY <1>1 DEF Rest, Task, Lists, Takers
<1>6. HolesReported'
  BY <1>1, <1>5 DEF Inv, HolesReported, Hole, Top
<1>7. Inv'
  BY <1>1, <1>3, <1>4, <1>6 DEF Inv, IsSeq, AgendaOK, TaskOK, Shape, Filled
<1>8. [Reading!Next]_(Reading!vars)
  <2>1. Last = Len(m_Tokens) - 1 /\ Last' = Len(m_Tokens') - 1
    BY DEF Last
  <2>2. CASE i = Here
    BY <1>1, <2>1, <2>2, Moved DEF Reading!vars
  <2>3. CASE i # Here
    BY <1>1, <2>1, <2>3, Moved DEF Reading!Next, Reading!Read
  <2>. QED
    BY <2>2, <2>3
<1>. QED
  BY <1>7, <1>8 DEF Kept

LEMMA TopLevelStep ==
    ASSUME Inv, SkipStray \/ ParseEnd
    PROVE  Kept
<1>. USE Further, Passing
<1>0. Within
  BY DEF Inv
<1>1. CASE SkipStray
  <2>1. Ahead(Here + 1)
    BY <1>0, <1>1 DEF SkipStray, AtAny
  <2>2. /\ Goto(Here + 1) /\ ~parsed /\ Here \in Int
        /\ UNCHANGED <<m_Tokens, todo, returned, program, errors, parsed>>
    BY <1>0, <1>1 DEF SkipStray
  <2>3. /\ Within' /\ Last' - m_CurrentPosition' \in Nat
        /\ Last' - m_CurrentPosition' < Last - m_CurrentPosition
    BY <2>1, <2>2, Moved
  <2>4. HolesReported'
    BY <2>2 DEF Inv, HolesReported, Hole, Top
  <2>5. Inv'
    <3>1. AgendaOK(todo', errors' = {})
      BY <2>2 DEF Inv
    <3>. QED
      BY <2>2, <2>3, <2>4, <3>1 DEF Inv, IsSeq, AgendaOK, TaskOK, Shape, Filled
  <2>6. Last = Len(m_Tokens) - 1 /\ Last' = Len(m_Tokens') - 1
    BY DEF Last
  <2>. QED
    BY <2>2, <2>3, <2>5, <2>6 DEF Kept, Reading!Next, Reading!Read
<1>2. CASE ParseEnd
  <2>1. /\ Type(Here) = "EndOfFile" /\ ~parsed /\ parsed' = TRUE
        /\ UNCHANGED <<m_Tokens, m_CurrentPosition, todo, returned, program, errors>>
    BY <1>2 DEF ParseEnd, AtDeclaration, At
  <2>2. m_CurrentPosition = Last /\ Last \in Nat
    BY <1>0, <2>1, TokenAt DEF Within, Here
  <2>3. Within' /\ HolesReported'
    BY <2>1 DEF Inv, Within, Here, Last, HolesReported, Hole, Top
  <2>4. Inv'
    <3>1. AgendaOK(todo', errors' = {})
      BY <2>1 DEF Inv
    <3>. QED
      BY <2>1, <2>3, <3>1 DEF Inv, IsSeq, AgendaOK, TaskOK, Shape, Filled
  <2>5. Len(m_Tokens) - 1 - m_CurrentPosition = 0
    BY <2>2 DEF Last
  <2>. QED
    BY <2>1, <2>4, <2>5 DEF Kept, Reading!Next, Reading!Stop
<1>. QED
  BY <1>1, <1>2

\* Nodes that are not null and have no hole.
Whole(n) == n # Null /\ ~Hole(n)

LEMMA WholeExpressions ==
    /\ \A name : Whole(VarExpr(name))
    /\ \A class, num : Whole(LiteralExpr(class, num))
    /\ \A type : Whole(AllocExpr(type))
    /\ \A object, name : object # Null => Whole(MemberAccessExpr(object, name))
    /\ \A op, left, right : left # Null /\ right # Null => Whole(BinaryExpr(op, left, right))
    /\ \A op, n : n # Null => /\ Whole(UnaryExpr(op, n))
                             /\ Whole(PrefixExpr(op, n)) /\ Whole(PostfixExpr(op, n))
    /\ \A name, n : n # Null => Whole(AssignExpr(name, n)) /\ Whole(CastExpr(name, n))
    /\ \A name, args : (\A k \in DOMAIN args : args[k] # Null) => Whole(CallExpr(name, args))
<1>1. ASSUME NEW n, n.kind \in {"VarExpr", "LiteralExpr", "AllocExpr"}
      PROVE  Whole(n)
  BY <1>1 DEF Whole, Hole, Null
<1>2. ASSUME NEW n, n.kind \in {"UnaryExpr", "PrefixExpr", "PostfixExpr"}, n.operand # Null
      PROVE  Whole(n)
  BY <1>2 DEF Whole, Hole, Null
<1>3. ASSUME NEW n, n.kind = "BinaryExpr", n.left # Null, n.right # Null
      PROVE  Whole(n)
  BY <1>3 DEF Whole, Hole, Null
<1>4. ASSUME NEW n, \/ n.kind = "AssignExpr" /\ n.value # Null
                    \/ n.kind = "CastExpr" /\ n.expr # Null
                    \/ n.kind = "MemberAccessExpr" /\ n.object # Null
      PROVE  Whole(n)
  BY <1>4 DEF Whole, Hole, Null
<1>5. ASSUME NEW n, n.kind = "CallExpr", \A k \in DOMAIN n.arguments : n.arguments[k] # Null
      PROVE  Whole(n)
  BY <1>5 DEF Whole, Hole, Null
<1>6. /\ \A name : Whole(VarExpr(name))
      /\ \A class, num : Whole(LiteralExpr(class, num))
      /\ \A type : Whole(AllocExpr(type))
  BY <1>1 DEF VarExpr, LiteralExpr, AllocExpr
<1>7. \A op, left, right : left # Null /\ right # Null => Whole(BinaryExpr(op, left, right))
  BY <1>3 DEF BinaryExpr
<1>8. \A op, n : n # Null => /\ Whole(UnaryExpr(op, n))
                            /\ Whole(PrefixExpr(op, n)) /\ Whole(PostfixExpr(op, n))
  BY <1>2 DEF UnaryExpr, PrefixExpr, PostfixExpr
<1>9. \A name, n : n # Null => /\ Whole(AssignExpr(name, n)) /\ Whole(CastExpr(name, n))
                               /\ Whole(MemberAccessExpr(n, name))
  BY <1>4 DEF AssignExpr, CastExpr, MemberAccessExpr
<1>10. \A name, args : (\A k \in DOMAIN args : args[k] # Null) => Whole(CallExpr(name, args))
  BY <1>5 DEF CallExpr
<1>. QED
  BY <1>6, <1>7, <1>8, <1>9, <1>10

LEMMA WholeStatements ==
    /\ \A value : Whole(ReturnStatement(value))
    /\ \A n : n # Null => Whole(ExprStatement(n))
    /\ \A a, b, c, n : n # Null => Whole(ForStatement(a, b, c, n))
    /\ \A a, n : a # Null /\ n # Null => Whole(WhileStatement(a, n))
    /\ \A a, n, b : a # Null /\ n # Null => Whole(IfStatement(a, n, b))
    /\ \A name, type, n, mut : type # Inferred \/ n # Null => Whole(VariableDecl(name, type, n, mut))
    /\ \A n : n.kind = "BlockStatement" /\ (\A k \in DOMAIN n.statements : n.statements[k] # Null)
           => Whole(n)
    /\ \A n : n.kind \in {"InterfaceDecl", "StructDecl"} => Whole(n)
    /\ \A name, params, type, n : n # Null => Whole(FunctionDecl(name, params, type, n))
<1>1. ASSUME NEW n, n.kind \in {"ReturnStatement", "InterfaceDecl", "StructDecl"}
      PROVE  Whole(n)
  BY <1>1 DEF Whole, Hole, Null
<1>2. ASSUME NEW n, \/ n.kind = "ExprStatement" /\ n.expression # Null
                    \/ n.kind = "ForStatement" /\ n.body # Null
                    \/ n.kind = "FunctionDecl" /\ n.body # Null
      PROVE  Whole(n)
  BY <1>2 DEF Whole, Hole, Null
<1>3. ASSUME NEW n, \/ n.kind = "IfStatement" /\ n.condition # Null /\ n.thenBranch # Null
                    \/ n.kind = "WhileStatement" /\ n.condition # Null /\ n.body # Null
      PROVE  Whole(n)
  BY <1>3 DEF Whole, Hole, Null
<1>4. ASSUME NEW n, n.kind = "VariableDecl", n.varType # Inferred \/ n.initializer # Null
      PROVE  Whole(n)
  BY <1>4 DEF Whole, Hole, Null
<1>5. ASSUME NEW n, n.kind = "BlockStatement", \A k \in DOMAIN n.statements : n.statements[k] # Null
      PROVE  Whole(n)
  BY <1>5 DEF Whole, Hole, Null
<1>6. \A value : Whole(ReturnStatement(value))
  BY <1>1 DEF ReturnStatement
<1>7. /\ \A n : n # Null => Whole(ExprStatement(n))
      /\ \A a, b, c, n : n # Null => Whole(ForStatement(a, b, c, n))
      /\ \A name, params, type, n : n # Null => Whole(FunctionDecl(name, params, type, n))
  BY <1>2 DEF ExprStatement, ForStatement, FunctionDecl
<1>8. /\ \A a, n : a # Null /\ n # Null => Whole(WhileStatement(a, n))
      /\ \A a, n, b : a # Null /\ n # Null => Whole(IfStatement(a, n, b))
  BY <1>3 DEF WhileStatement, IfStatement
<1>9. \A name, type, n, mut : type # Inferred \/ n # Null => Whole(VariableDecl(name, type, n, mut))
  BY <1>4 DEF VariableDecl
<1>. QED
  BY <1>1, <1>5, <1>6, <1>7, <1>8, <1>9

\* What holds when a task runs.
LEMMA Ready ==
    ASSUME Inv, NEW do, Running(do)
    PROVE  /\ ~parsed /\ todo # <<>> /\ Top.do = do /\ Node = Top.node
           /\ Within /\ Ahead(Here) /\ Shape(Top) /\ TaskOK(Top, FALSE)
           /\ Here + 1 + 1 = Here + 2 /\ Here + 2 + 1 = Here + 3 /\ Here + 3 + 1 = Here + 4
           /\ Here + 4 + 1 = Here + 5 /\ Here + 5 + 1 = Here + 6
<1>1. ~parsed /\ todo # <<>> /\ Top.do = do /\ Node = Top.node
  BY DEF Running, Node
<1>2. Within /\ Ahead(Here) /\ Shape(Top) /\ TaskOK(Top, FALSE)
  BY <1>1, TopOK, Further DEF TaskOK
<1>3. Here \in Int
  BY <1>2, Further
<1>4. /\ Here + 1 + 1 = Here + 2 /\ Here + 2 + 1 = Here + 3 /\ Here + 3 + 1 = Here + 4
      /\ Here + 4 + 1 = Here + 5 /\ Here + 5 + 1 = Here + 6
  BY <1>3
<1>. QED
  BY <1>1, <1>2, <1>4

\* A list that takes a node of the right kind.
LEMMA DeclarationTask ==
    ASSUME NEW silent
    PROVE  /\ \A a, b : TaskOK(Rest("Methods", InterfaceDecl(a, b)), silent)
           /\ \A a, b, c : TaskOK(Rest("Fields", StructDecl(a, b, c)), silent)
           /\ \A n : TaskOK(Rest("Signature", n), silent) /\ TaskOK(Rest("Parameter", n), silent)
           /\ \A n : /\ Rest("Methods", n).do \notin Takers /\ Rest("Fields", n).do \notin Takers
                    /\ Rest("Signature", n).do \notin Takers
                    /\ Rest("Parameter", n).do \notin Takers
<1>1. "Methods" \in Do /\ "Fields" \in Do /\ "Signature" \in Simple /\ "Parameter" \in Simple
  BY DEF Do, Lists, Simple
<1>2. \A n, do : /\ Rest(do, n).do = do /\ Rest(do, n).node = n /\ Rest(do, n).levels = {}
                 /\ Rest(do, n) = [do |-> do, levels |-> {}, node |-> n]
  BY DEF Rest, Task
<1>3. \A a, b : TaskOK(Rest("Methods", InterfaceDecl(a, b)), silent)
  BY <1>1, <1>2 DEF TaskOK, Shape, Filled, InterfaceDecl
<1>4. \A a, b, c : TaskOK(Rest("Fields", StructDecl(a, b, c)), silent)
  BY <1>1, <1>2 DEF TaskOK, Shape, Filled, StructDecl
<1>5. \A n : TaskOK(Rest("Signature", n), silent) /\ TaskOK(Rest("Parameter", n), silent)
  BY <1>1, SimpleTask
<1>6. \A do \in {"Methods", "Fields", "Signature", "Parameter"} : do \notin Takers
  BY DEF Takers
<1>. QED
  BY <1>2, <1>3, <1>4, <1>5, <1>6

LEMMA InterfaceStep ==
    ASSUME Inv, ParseInterface \/ InterfaceMethod \/ EndInterface
    PROVE  Kept
<1>. USE SymbolsDiffer
<1>1. CASE ParseInterface
  <2>1. ~parsed /\ Within /\ Ahead(Here) /\ Ahead(Here + 1)
    BY <1>1, Further DEF ParseInterface, AtDeclaration, At, Inv
  <2>. DEFINE brace == Match(Here + 1, "Identifier")
              n == InterfaceDecl(Lexeme(brace - 1), <<>>)
              messages == Missing(Here + 1, "Identifier", "ExpectedInterfaceName")
                   \cup Missing(brace, LBrace, "ExpectedLBraceAfterInterfaceName")
  <2>2. Begin("Methods", n, Match(brace, LBrace), messages)
    BY <1>1 DEF ParseInterface
  <2>3. Ahead(Match(brace, LBrace))
    BY <2>1, Passing
  <2>4. messages \subseteq Messages
    BY Missed DEF Messages
  <2>5. TaskOK(Rest("Methods", n), TRUE) /\ "Methods" \in Lists
    BY DeclarationTask DEF Lists
  <2>. HIDE DEF n, messages, brace
  <2>. QED
    BY <2>1, <2>2, <2>3, <2>4, <2>5, BeginKeeps
<1>2. CASE InterfaceMethod
  <2>1. Running("Methods") /\ ~EndAt(Here)
    BY <1>2 DEF InterfaceMethod, AtAny, EndAt, At
  <2>2. /\ ~parsed /\ todo # <<>> /\ Top.do = "Methods" /\ Within /\ Ahead(Here + 1)
        /\ TaskOK(Top, FALSE) /\ Here + 1 + 1 = Here + 2
    BY <2>1, Ready, Passing
  <2>. DEFINE end == AfterParens(Here + 2)
              method == InterfaceDecl(Node.name, Append(Node.methods, Lexeme(Here + 1)))
  <2>3. CASE ~At(Here, "fn")
    <3>1. Continue(<<Top>>, Here + 1, {"ExpectedFnInInterfaceMethod"})
      BY <1>2, <2>3 DEF InterfaceMethod
    <3>. QED
      BY <2>2, <3>1, Complains DEF Messages
  <2>4. CASE At(Here, "fn") /\ ~At(Here + 1, "Identifier")
    <3>1. Continue(<<Top>>, Advance(Here + 1), {"ExpectedMethodName"})
      BY <1>2, <2>4 DEF InterfaceMethod
    <3>. QED
      BY <2>2, <3>1, Passing, Complains DEF Messages
  <2>5. CASE At(Here, "fn") /\ At(Here + 1, "Identifier")
    <3>1. Ahead(Here + 2)
      BY <2>2, <2>5, Passing
    <3>2. Ahead(end)
      BY <2>2, <3>1, Passing
    <3>3. \/ Continue(<<Parse("Recover"), Top>>, end,
                      {"ExpectedParensAndSemicolonAfterMethodName"})
          \/ At(end, Semicolon) /\ Call(end + 1, <<Rest("Methods", method)>>)
      BY <1>2, <2>5 DEF InterfaceMethod
    <3>. HIDE DEF end, method
    <3>4. CASE Continue(<<Parse("Recover"), Top>>, end,
                        {"ExpectedParensAndSemicolonAfterMethodName"})
      BY <2>2, <3>2, <3>4, Complains DEF Messages
    <3>5. CASE At(end, Semicolon) /\ Call(end + 1, <<Rest("Methods", method)>>)
      <4>1. Ahead(end + 1)
        BY <2>2, <3>2, <3>5, Passing
      <4>2. TaskOK(Rest("Methods", method), Silent({})) /\ Rest("Methods", method).do \notin Takers
        BY DeclarationTask DEF method
      <4>. QED
        BY <2>2, <3>5, <4>1, <4>2, Asks
    <3>. QED
      BY <3>3, <3>4, <3>5
  <2>. QED
    BY <2>3, <2>4, <2>5
<1>3. CASE EndInterface
  <2>1. Running("Methods")
        /\ Declare(Node, Match(Here, RBrace), Missing(Here, RBrace, "ExpectedRBraceAtEndOfInterface"))
    BY <1>3 DEF EndInterface
  <2>2. /\ ~parsed /\ todo # <<>> /\ Ahead(Match(Here, RBrace)) /\ Whole(Node)
    <3>1. /\ ~parsed /\ todo # <<>> /\ Within /\ Ahead(Here)
          /\ Top.do = "Methods" /\ Shape(Top) /\ Node = Top.node
      BY <2>1, Ready
    <3>2. Node.kind = "InterfaceDecl"
      BY <3>1 DEF Shape
    <3>. QED
      BY <3>1, <3>2, Passing, WholeStatements
  <2>3. Missing(Here, RBrace, "ExpectedRBraceAtEndOfInterface") \subseteq Messages
    BY Missed DEF Messages
  <2>. QED
    BY <2>1, <2>2, <2>3, Answers DEF Whole
<1>. QED
  BY <1>1, <1>2, <1>3

\* A field, a parameter or a variable: name : Type.
LEMMA Named ==
    ASSUME Inv, NEW i, Ahead(i), NEW j, j = i + 1, NEW k, k = j + 1, NEW l, l = k + 1
    PROVE  /\ At(i, "Identifier") => Ahead(j)
           /\ At(i, "Identifier") /\ At(j, ":") => Ahead(k)
           /\ At(i, "Identifier") /\ At(j, ":") /\ HasTypeName(k) =>
                 /\ Ahead(ParseType(k).after)
                 /\ ParseType(k).errors \subseteq Messages
                 /\ ParseType(k).type # Inferred
<1>1. Within
  BY DEF Inv
<1>2. /\ At(i, "Identifier") => Ahead(j)
      /\ At(i, "Identifier") /\ At(j, ":") => Ahead(k)
  BY <1>1, Passing
<1>3. ASSUME Ahead(k), HasTypeName(k)
      PROVE  Ahead(l) /\ Lexeme(k) # "none"
  BY <1>1, <1>3, Passing, Further
<1>4. ParseType(k) = TypeFrom(Lexeme(k), l)
  BY DEF ParseType
<1>. QED
  BY <1>1, <1>2, <1>3, <1>4, Types

LEMMA StructStep ==
    ASSUME Inv, ParseStruct \/ ParseField \/ EndStruct
    PROVE  Kept
<1>. USE SymbolsDiffer
<1>1. CASE ParseStruct
  <2>1. ~parsed /\ Within /\ Ahead(Here) /\ Ahead(Here + 1)
    BY <1>1, Further DEF ParseStruct, AtDeclaration, At, Inv
  <2>. DEFINE colon == Match(Here + 1, "Identifier")
              implements == At(colon, ":")
              brace == IF implements THEN Match(colon + 1, "Identifier") ELSE colon
              n == StructDecl(Lexeme(colon - 1),
                              IF implements THEN Lexeme(brace - 1) ELSE "none", <<>>)
              messages == Missing(Here + 1, "Identifier", "ExpectedStructName")
                   \cup (IF implements
                         THEN Missing(colon + 1, "Identifier", "ExpectedInterfaceNameAfterColon")
                         ELSE {})
                   \cup Missing(brace, LBrace, "ExpectedLBraceAfterStructDeclaration")
  <2>2. Begin("Fields", n, Match(brace, LBrace), messages)
    BY <1>1 DEF ParseStruct
  <2>3. Ahead(Match(brace, LBrace))
    <3>1. Ahead(colon) /\ (implements => Ahead(colon + 1))
      BY <2>1, Passing
    <3>2. Ahead(brace)
      BY <2>1, <3>1, Passing
    <3>. QED
      BY <2>1, <3>2, Passing
  <2>4. messages \subseteq Messages
    BY Missed DEF Messages
  <2>5. TaskOK(Rest("Fields", n), TRUE) /\ "Fields" \in Lists
    BY DeclarationTask DEF Lists
  <2>. HIDE DEF n, messages, brace, implements, colon
  <2>. QED
    BY <2>1, <2>2, <2>3, <2>4, <2>5, BeginKeeps
<1>2. CASE ParseField
  <2>1. Running("Fields")
    BY <1>2 DEF ParseField
  <2>2. /\ ~parsed /\ todo # <<>> /\ Within /\ Ahead(Here) /\ TaskOK(Top, FALSE)
        /\ Here + 1 + 1 = Here + 2 /\ Here + 2 + 1 = Here + 3
    BY <2>1, Ready
  <2>. DEFINE name == Lexeme(Here)
              type == ParseType(Here + 2)
              field == StructField(name, type.type, name \in UppercaseNames)
              decl == StructDecl(Node.name, Node.interfaceImplemented,
                                 Append(Node.fields, field))
              messages == type.errors
                            \cup Missing(type.after, Semicolon, "ExpectedSemicolonAfterStructField")
  <2>3. \A i, message : message \in Messages /\ Ahead(i)
            /\ Continue(<<Parse("Recover"), Top>>, i, {message}) => Kept
    BY <2>2, Complains
  <2>4. /\ "ExpectedFieldName" \in Messages /\ "ExpectedColonAfterFieldName" \in Messages
        /\ "ExpectedFieldType" \in Messages
    BY DEF Messages
  <2>5. CASE ~At(Here, "Identifier")
    <3>1. Continue(<<Parse("Recover"), Top>>, Here, {"ExpectedFieldName"})
      BY <1>2, <2>5 DEF ParseField
    <3>. QED
      BY <2>2, <2>3, <2>4, <3>1
  <2>6. CASE At(Here, "Identifier") /\ ~At(Here + 1, ":")
    <3>1. Continue(<<Parse("Recover"), Top>>, Here + 1, {"ExpectedColonAfterFieldName"})
      BY <1>2, <2>6 DEF ParseField
    <3>2. Ahead(Here + 1)
      BY <2>2, <2>6, Passing
    <3>. QED
      BY <2>3, <2>4, <3>1, <3>2
  <2>7. CASE At(Here, "Identifier") /\ At(Here + 1, ":") /\ ~HasTypeName(Here + 2)
    <3>1. Continue(<<Parse("Recover"), Top>>, Here + 2, {"ExpectedFieldType"})
      BY <1>2, <2>7 DEF ParseField
    <3>2. Ahead(Here + 2)
      BY <2>2, <2>7, Named
    <3>. QED
      BY <2>3, <2>4, <3>1, <3>2
  <2>8. CASE At(Here, "Identifier") /\ At(Here + 1, ":") /\ HasTypeName(Here + 2)
    <3>1. Continue(<<Rest("Fields", decl)>>, Match(type.after, Semicolon), messages)
      BY <1>2, <2>8 DEF ParseField
    <3>2. Ahead(type.after) /\ type.errors \subseteq Messages
      BY <2>2, <2>8, Named
    <3>3. Ahead(Match(type.after, Semicolon))
      BY <2>2, <3>2, Passing
    <3>4. messages \subseteq Messages
      BY <3>2, Missed DEF Messages
    <3>5. TaskOK(Rest("Fields", decl), Silent(messages)) /\ Rest("Fields", decl).do \notin Takers
      BY DeclarationTask
    <3>. HIDE DEF messages, decl
    <3>. QED
      BY <2>2, <3>1, <3>3, <3>4, <3>5, Asks
  <2>. QED
    BY <2>5, <2>6, <2>7, <2>8
<1>3. CASE EndStruct
  <2>1. Running("Fields")
        /\ Declare(Node, Match(Here, RBrace), Missing(Here, RBrace, "ExpectedRBraceAfterStructBody"))
    BY <1>3 DEF EndStruct
  <2>2. /\ ~parsed /\ todo # <<>> /\ Within /\ Ahead(Here)
        /\ Top.do = "Fields" /\ Shape(Top) /\ Node = Top.node
    BY <2>1, Ready
  <2>3. Node.kind = "StructDecl"
    BY <2>2 DEF Shape
  <2>4. Ahead(Match(Here, RBrace)) /\ Whole(Node)
    BY <2>2, <2>3, Passing, WholeStatements
  <2>5. Missing(Here, RBrace, "ExpectedRBraceAfterStructBody") \subseteq Messages
    BY Missed DEF Messages
  <2>. QED
    BY <2>1, <2>2, <2>4, <2>5, Answers DEF Whole
<1>. QED
  BY <1>1, <1>2, <1>3

(***************************************************************************)
(* Functions and blocks.                                                   *)
(***************************************************************************)
LEMMA TypeAhead ==
    ASSUME Inv, NEW k, Ahead(k), HasTypeName(k)
    PROVE  Ahead(ParseType(k).after) /\ ParseType(k).errors \subseteq Messages
<1>1. Within
  BY DEF Inv
<1>2. Ahead(k + 1)
  BY <1>1, Passing
<1>. QED
  BY <1>1, <1>2, Types DEF ParseType

\* A call whose result waits for a task, or that is the last of its function.
LEMMA Descends ==
    ASSUME Inv, ~parsed, todo # <<>>, NEW i, Ahead(i)
    PROVE  \A what \in Calls \ {"Recover"} :
             /\ \A u : TaskOK(u, errors = {}) /\ Call(i, <<Parse(what), u>>) => Kept
             /\ \A do \in Simple : \A n : Call(i, <<Parse(what), Rest(do, n)>>) => Kept
             /\ \A do \in Simple : Call(i, <<Parse(what), Parse(do)>>) => Kept
             /\ Call(i, <<Parse(what)>>) => Kept
             /\ \A do \in Simple : \A messages, n : messages \subseteq Messages
                  /\ Continue(<<Parse(what), Rest(do, n)>>, i, messages) => Kept
             /\ \A messages, u : /\ messages \subseteq Messages
                                 /\ TaskOK(u, Silent(messages))
                                 /\ Continue(<<Parse(what), u>>, i, messages)
                                => Kept
<1>. SUFFICES ASSUME NEW what \in Calls \ {"Recover"}
              PROVE  /\ \A u : TaskOK(u, errors = {}) /\ Call(i, <<Parse(what), u>>) => Kept
                     /\ \A do \in Simple : \A n : Call(i, <<Parse(what), Rest(do, n)>>) => Kept
                     /\ \A do \in Simple : Call(i, <<Parse(what), Parse(do)>>) => Kept
                     /\ Call(i, <<Parse(what)>>) => Kept
                     /\ \A do \in Simple : \A messages, n : messages \subseteq Messages
                          /\ Continue(<<Parse(what), Rest(do, n)>>, i, messages) => Kept
                     /\ \A messages, u : /\ messages \subseteq Messages
                                         /\ TaskOK(u, Silent(messages))
                                         /\ Continue(<<Parse(what), u>>, i, messages)
                                        => Kept
  OBVIOUS
<1>1. what \in Simple /\ what \notin Takers
  BY DEF Simple, Do, Calls, Takers, Lists
<1>2. Parse(what).do = what
  BY DEF Parse, Task
<1>3. /\ \A messages : TaskOK(Parse(what), Silent(messages))
      /\ \A do \in Simple : \A messages, n :
            /\ TaskOK(Rest(do, n), Silent(messages))
            /\ TaskOK(Parse(do), Silent(messages))
  <2>1. ASSUME NEW do \in Simple, NEW n
        PROVE  TaskOK(Rest(do, n), TRUE) /\ TaskOK(Parse(do), TRUE)
    BY <2>1, SimpleTask
  <2>. QED
    BY <1>1, <2>1 DEF TaskOK
<1>4. \A t : TaskOK(t, errors = {}) => TaskOK(t, Silent({}))
  BY DEF Silent, TaskOK
<1>5. {} \subseteq Messages
  OBVIOUS
<1>6. \A messages, u : /\ messages \subseteq Messages
                       /\ TaskOK(u, Silent(messages))
                       /\ Continue(<<Parse(what), u>>, i, messages)
                      => Kept
  BY <1>1, <1>2, <1>3, Asks
<1>7. \A u : TaskOK(u, Silent({})) /\ Call(i, <<Parse(what), u>>) => Kept
  BY <1>1, <1>2, <1>3, <1>5, Asks
<1>8. Call(i, <<Parse(what)>>) => Kept
  BY <1>1, <1>2, <1>3, <1>5, Asks
<1>9. \A u : TaskOK(u, errors = {}) /\ Call(i, <<Parse(what), u>>) => Kept
  BY <1>4, <1>7
<1>10. ASSUME NEW do \in Simple, NEW n
       PROVE  /\ Call(i, <<Parse(what), Rest(do, n)>>) => Kept
              /\ Call(i, <<Parse(what), Parse(do)>>) => Kept
  <2>1. TaskOK(Rest(do, n), Silent({})) /\ TaskOK(Parse(do), Silent({}))
    BY <1>3, <1>10
  <2>. QED
    BY <1>7, <2>1
<1>11. ASSUME NEW do \in Simple, NEW n, NEW messages, messages \subseteq Messages,
              Continue(<<Parse(what), Rest(do, n)>>, i, messages)
       PROVE  Kept
  <2>1. TaskOK(Rest(do, n), Silent(messages))
    BY <1>3, <1>11
  <2>. QED
    BY <1>6, <1>11, <2>1
<1>. QED
  BY <1>6, <1>8, <1>9, <1>10, <1>11

\* What a task is handed, and what its node has, if nothing has been printed.
LEMMA Given ==
    ASSUME Inv, NEW do \in Takers, Running(do)
    PROVE  \A messages : Silent(messages) => returned # Null /\ Filled(Top)
<1>1. todo # <<>> /\ Top.do = do
  BY DEF Running
<1>. QED
  BY <1>1, TopOK DEF Silent

LEMMA FunctionStep ==
    ASSUME Inv, ParseFunction \/ ParseParameter \/ ParseSignature \/ EndFunction
    PROVE  Kept
<1>. USE SymbolsDiffer
<1>1. CASE ParseFunction
  <2>1. ~parsed /\ Within /\ Ahead(Here) /\ Ahead(Here + 1)
    BY <1>1, Further DEF ParseFunction, AtDeclaration, At, Inv
  <2>. DEFINE paren == Match(Here + 1, "Identifier")
              first == Match(paren, "(")
              do == IF At(first, ")") THEN "Signature" ELSE "Parameter"
              n == FunctionDecl(Lexeme(paren - 1), <<>>, Plain("void"), Null)
              messages == Missing(Here + 1, "Identifier", "ExpectedFunctionName")
                            \cup Missing(paren, "(", "ExpectedLParenAfterFunctionName")
  <2>2. Begin(do, n, first, messages)
    BY <1>1 DEF ParseFunction
  <2>3. Ahead(first)
    BY <2>1, Passing
  <2>4. messages \subseteq Messages
    BY Missed DEF Messages
  <2>5. TaskOK(Rest(do, n), TRUE) /\ do \in Lists
    BY DeclarationTask DEF Lists
  <2>. HIDE DEF n, messages, do, first, paren
  <2>. QED
    BY <2>1, <2>2, <2>3, <2>4, <2>5, BeginKeeps
<1>2. CASE ParseParameter
  <2>1. Running("Parameter")
    BY <1>2 DEF ParseParameter
  <2>2. /\ ~parsed /\ todo # <<>> /\ Within /\ Ahead(Here)
        /\ Here + 1 + 1 = Here + 2 /\ Here + 2 + 1 = Here + 3
    BY <2>1, Ready
  <2>. DEFINE type == ParseType(Here + 2)
              params == Append(Node.params, Parameter(Lexeme(Here), type.type))
              decl == FunctionDecl(Node.name, params, Node.returnType, Null)
              do == IF At(type.after, Comma) THEN "Parameter" ELSE "Signature"
  <2>3. \A what \in {"Parameter", "Signature"} : \A i, messages, n : /\ messages \subseteq Messages
            /\ Ahead(i) /\ Continue(<<Rest(what, n)>>, i, messages) => Kept
    BY <2>2, DeclarationTask, Asks
  <2>4. \/ Continue(<<Rest("Signature", Node)>>, Here, {"ExpectedParameterName"})
        \/ /\ At(Here, "Identifier")
           /\ Continue(<<Rest("Signature", Node)>>, Here + 1, {"ExpectedColonAfterParameterName"})
        \/ /\ At(Here, "Identifier") /\ At(Here + 1, ":")
           /\ Continue(<<Rest("Signature", Node)>>, Here + 2, {"ExpectedParameterType"})
        \/ /\ At(Here, "Identifier") /\ At(Here + 1, ":") /\ HasTypeName(Here + 2)
           /\ Continue(<<Rest(do, decl)>>, Match(type.after, Comma), type.errors)
    BY <1>2 DEF ParseParameter
  <2>5. /\ {"ExpectedParameterName"} \subseteq Messages
        /\ {"ExpectedColonAfterParameterName"} \subseteq Messages
        /\ {"ExpectedParameterType"} \subseteq Messages
    BY DEF Messages
  <2>6. /\ At(Here, "Identifier") => Ahead(Here + 1)
        /\ At(Here, "Identifier") /\ At(Here + 1, ":") => Ahead(Here + 2)
        /\ At(Here, "Identifier") /\ At(Here + 1, ":") /\ HasTypeName(Here + 2) =>
              Ahead(Match(type.after, Comma)) /\ type.errors \subseteq Messages
    BY <2>2, Named, Passing
  <2>7. do \in {"Parameter", "Signature"}
    OBVIOUS
  <2>. HIDE DEF do, decl, type
  <2>8. CASE Continue(<<Rest("Signature", Node)>>, Here, {"ExpectedParameterName"})
    BY <2>2, <2>3, <2>5, <2>8
  <2>9. CASE /\ At(Here, "Identifier")
             /\ Continue(<<Rest("Signature", Node)>>, Here + 1, {"ExpectedColonAfterParameterName"})
    BY <2>3, <2>5, <2>6, <2>9
  <2>10. CASE /\ At(Here, "Identifier") /\ At(Here + 1, ":")
              /\ Continue(<<Rest("Signature", Node)>>, Here + 2, {"ExpectedParameterType"})
    BY <2>3, <2>5, <2>6, <2>10
  <2>11. CASE /\ At(Here, "Identifier") /\ At(Here + 1, ":") /\ HasTypeName(Here + 2)
              /\ Continue(<<Rest(do, decl)>>, Match(type.after, Comma), type.errors)
    BY <2>3, <2>6, <2>7, <2>11
  <2>. QED
    BY <2>4, <2>8, <2>9, <2>10, <2>11
<1>3. CASE ParseSignature
  <2>1. Running("Signature")
    BY <1>3 DEF ParseSignature
  <2>2. /\ ~parsed /\ todo # <<>> /\ Within /\ Ahead(Here)
    BY <2>1, Ready
  <2>. DEFINE arrow == Match(Here, ")")
              named == HasTypeName(arrow + 1)
              type == IF named THEN ParseType(arrow + 1) ELSE TypeFrom("none", arrow + 1)
              closed == Missing(Here, ")", "ExpectedRParenAfterParameters")
              body(t) == FunctionDecl(Node.name, Node.params, t, Null)
              messages == closed \cup type.errors
                            \cup (IF named THEN {} ELSE {"ExpectedReturnTypeAfterArrow"})
  <2>3. \/ Continue(<<Parse("Block"), Rest("Body", body(Node.returnType))>>, arrow, closed)
        \/ /\ At(arrow, "->")
           /\ Continue(<<Parse("Block"), Rest("Body", body(type.type))>>, type.after, messages)
    BY <1>3 DEF ParseSignature
  <2>4. Ahead(arrow) /\ (At(arrow, "->") => Ahead(arrow + 1))
    BY <2>2, Passing
  <2>5. At(arrow, "->") => Ahead(type.after) /\ type.errors \subseteq Messages
    <3>1. CASE named
      BY <2>4, <3>1, TypeAhead
    <3>2. CASE ~named
      BY <2>2, <2>4, <3>2, Types
    <3>. QED
      BY <3>1, <3>2
  <2>6. closed \subseteq Messages /\ {"ExpectedReturnTypeAfterArrow"} \subseteq Messages
    BY Missed DEF Messages
  <2>7. At(arrow, "->") => messages \subseteq Messages
    BY <2>5, <2>6
  <2>8. "Block" \in Calls \ {"Recover"} /\ "Body" \in Simple
    BY DEF Calls, Simple, Do, Takers
  <2>. HIDE DEF arrow, type, closed, messages, body
  <2>9. \A i, msgs, n : /\ Ahead(i) /\ msgs \subseteq Messages
                       /\ Continue(<<Parse("Block"), Rest("Body", n)>>, i, msgs)
                      => Kept
    BY <2>2, <2>8, Descends
  <2>. QED
    BY <2>3, <2>4, <2>5, <2>6, <2>7, <2>9
<1>4. CASE EndFunction
  <2>1. Running("Body")
        /\ Declare(FunctionDecl(Node.name, Node.params, Node.returnType, returned), Here, {})
    BY <1>4 DEF EndFunction
  <2>2. "Body" \in Takers /\ {} \subseteq Messages
    BY DEF Takers
  <2>3. Silent({}) => Whole(FunctionDecl(Node.name, Node.params, Node.returnType, returned))
    BY <2>1, <2>2, Given, WholeStatements
  <2>. QED
    BY <2>1, <2>2, <2>3, Ready, Answers DEF Whole
<1>. QED
  BY <1>1, <1>2, <1>3, <1>4

LEMMA BlockTask ==
    ASSUME NEW do \in {"Statements", "AddStatement"}, NEW n, NEW silent,
           n.kind = "BlockStatement", IsSeq(n.statements),
           silent => \A k \in DOMAIN n.statements : n.statements[k] # Null
    PROVE  TaskOK(Rest(do, n), silent)
<1>1. /\ Rest(do, n) = [do |-> do, levels |-> {}, node |-> n]
      /\ Rest(do, n).do = do /\ Rest(do, n).levels = {} /\ Rest(do, n).node = n
  BY DEF Rest, Task
<1>2. Shape(Rest(do, n))
  BY <1>1 DEF Shape, Do, Lists, Takers
<1>3. silent => Filled(Rest(do, n))
  BY <1>1 DEF Filled
<1>. QED
  BY <1>2, <1>3 DEF TaskOK

LEMMA BlockStep ==
    ASSUME Inv, ParseBlock \/ NextStatement \/ AddStatement \/ EndBlock
    PROVE  Kept
<1>. USE SymbolsDiffer
<1>1. CASE ParseBlock
  <2>. DEFINE t == Rest("Statements", BlockStatement(<<>>))
              messages == Missing(Here, LBrace, "ExpectedLBraceAtTheBeginningOfTheBlock")
  <2>1. Running("Block") /\ Continue(<<t>>, Match(Here, LBrace), messages)
    BY <1>1 DEF ParseBlock
  <2>2. ~parsed /\ todo # <<>> /\ Ahead(Match(Here, LBrace))
    BY <2>1, Ready, Passing
  <2>3. messages \subseteq Messages
    BY Missed DEF Messages
  <2>4. TaskOK(t, Silent(messages))
    <3>1. /\ BlockStatement(<<>>).kind = "BlockStatement"
          /\ BlockStatement(<<>>).statements = <<>> /\ IsSeq(<<>>)
      BY DEF BlockStatement, IsSeq
    <3>. QED
      BY <3>1, BlockTask
  <2>5. t.do \notin Takers
    BY DEF Rest, Task, Takers
  <2>. HIDE DEF t, messages
  <2>. QED
    BY <2>1, <2>2, <2>3, <2>4, <2>5, Asks
<1>2. CASE NextStatement
  <2>1. Running("Statements")
        /\ Call(Here, <<Parse("Statement"), Rest("AddStatement", Node)>>)
    BY <1>2 DEF NextStatement
  <2>2. /\ ~parsed /\ todo # <<>> /\ Ahead(Here) /\ Shape(Top)
        /\ Top.do = "Statements" /\ Node = Top.node
    BY <2>1, Ready
  <2>3. Node.kind = "BlockStatement" /\ IsSeq(Node.statements)
    BY <2>2 DEF Shape
  <2>4. errors = {} => \A k \in DOMAIN Node.statements : Node.statements[k] # Null
    BY <2>2, TopOK DEF Filled
  <2>5. TaskOK(Rest("AddStatement", Node), errors = {})
    BY <2>3, <2>4, BlockTask
  <2>6. "Statement" \in Calls \ {"Recover"}
    BY DEF Calls
  <2>. QED
    BY <2>1, <2>2, <2>5, <2>6, Descends
<1>3. CASE AddStatement
  <2>. DEFINE block == IF returned = Null THEN Node
                       ELSE BlockStatement(Append(Node.statements, returned))
  <2>1. Running("AddStatement") /\ Call(Here, <<Rest("Statements", block)>>)
    BY <1>3 DEF AddStatement
  <2>2. /\ ~parsed /\ todo # <<>> /\ Ahead(Here) /\ Shape(Top)
        /\ Top.do = "AddStatement" /\ Node = Top.node
    BY <2>1, Ready
  <2>3. Node.kind = "BlockStatement" /\ IsSeq(Node.statements)
    BY <2>2 DEF Shape
  <2>4. errors = {} => \A k \in DOMAIN Node.statements : Node.statements[k] # Null
    BY <2>2, TopOK DEF Filled
  <2>5. /\ block.kind = "BlockStatement" /\ IsSeq(block.statements)
        /\ errors = {} => \A k \in DOMAIN block.statements : block.statements[k] # Null
    <3>1. CASE returned = Null
      BY <2>3, <2>4, <3>1
    <3>2. CASE returned # Null
      <4>1. /\ block.kind = "BlockStatement"
            /\ block.statements = Append(Node.statements, returned)
        BY <3>2 DEF BlockStatement
      <4>. HIDE DEF block
      <4>. QED
        BY <2>3, <2>4, <3>2, <4>1, Appending
    <3>. QED
      BY <3>1, <3>2
  <2>. HIDE DEF block
  <2>6. TaskOK(Rest("Statements", block), errors = {})
    BY <2>5, BlockTask
  <2>7. TaskOK(Rest("Statements", block), Silent({}))
    BY <2>6 DEF TaskOK, Silent
  <2>8. Rest("Statements", block).do \notin Takers /\ {} \subseteq Messages
    BY DEF Rest, Task, Takers
  <2>. QED
    BY <2>1, <2>2, <2>7, <2>8, Asks
<1>4. CASE EndBlock
  <2>. DEFINE messages == Missing(Here, RBrace, "ExpectedRBraceAfterBlock")
  <2>1. Running("Statements") /\ Complete(Node, Match(Here, RBrace), messages)
    BY <1>4 DEF EndBlock
  <2>2. /\ ~parsed /\ todo # <<>> /\ Within /\ Ahead(Here) /\ Shape(Top)
        /\ Top.do = "Statements" /\ Node = Top.node
    BY <2>1, Ready
  <2>3. Node.kind = "BlockStatement"
    BY <2>2 DEF Shape
  <2>4. errors = {} => \A k \in DOMAIN Node.statements : Node.statements[k] # Null
    BY <2>2, TopOK DEF Filled
  <2>5. Silent(messages) => Whole(Node)
    BY <2>3, <2>4, WholeStatements DEF Silent
  <2>6. messages \subseteq Messages
    BY Missed DEF Messages
  <2>7. Ahead(Match(Here, RBrace))
    BY <2>2, Passing
  <2>. HIDE DEF messages
  <2>. QED
    BY <2>1, <2>2, <2>5, <2>6, <2>7, Answers DEF Whole
<1>. QED
  BY <1>1, <1>2, <1>3, <1>4

(***************************************************************************)
(* Statements.                                                             *)
(***************************************************************************)
LEMMA Keyword ==
    ASSUME Inv
    PROVE  Ahead(Advance(Here))
<1>1. Within
  BY DEF Inv
<1>. QED
  BY <1>1, Further, Passing

LEMMA ReturnStep ==
    ASSUME Inv, ParseStatement \/ ParseReturn \/ ReturnValue
    PROVE  Kept
<1>. USE SymbolsDiffer
<1>1. CASE ParseStatement
  <2>1. Running("Statement") /\ Call(Here, <<Parse(StatementAt(Here))>>)
    BY <1>1 DEF ParseStatement
  <2>2. ~parsed /\ todo # <<>> /\ Ahead(Here)
    BY <2>1, Ready
  <2>3. StatementAt(Here) \in Calls \ {"Recover"}
    BY DEF StatementAt, Calls
  <2>. QED
    BY <2>1, <2>2, <2>3, Descends
<1>2. CASE ParseReturn
  <2>. DEFINE i == Advance(Here)
  <2>1. Running("Return")
    BY <1>2 DEF ParseReturn
  <2>2. ~parsed /\ todo # <<>> /\ Within /\ Ahead(i)
    BY <2>1, Ready, Keyword
  <2>3. \/ At(i, Semicolon) /\ Complete(ReturnStatement(Null), i + 1, {})
        \/ Call(i, <<Parse("Expression"), Rest("ReturnValue", Null)>>)
    BY <1>2 DEF ParseReturn
  <2>4. "Expression" \in Calls \ {"Recover"} /\ "ReturnValue" \in Simple
    BY DEF Calls, Simple, Do, Takers
  <2>5. Whole(ReturnStatement(Null)) /\ {} \subseteq Messages
    BY WholeStatements
  <2>. HIDE DEF i
  <2>6. CASE At(i, Semicolon) /\ Complete(ReturnStatement(Null), i + 1, {})
    <3>1. Ahead(i + 1)
      BY <2>2, <2>6, Passing
    <3>. QED
      BY <2>2, <2>5, <2>6, <3>1, Answers DEF Whole
  <2>7. CASE Call(i, <<Parse("Expression"), Rest("ReturnValue", Null)>>)
    BY <2>2, <2>4, <2>7, Descends
  <2>. QED
    BY <2>3, <2>6, <2>7
<1>3. CASE ReturnValue
  <2>. DEFINE messages == Missing(Here, Semicolon, "ExpectedSemicolonAfterReturnStatement")
  <2>1. Running("ReturnValue")
        /\ Complete(ReturnStatement(returned), Match(Here, Semicolon), messages)
    BY <1>3 DEF ReturnValue
  <2>2. ~parsed /\ todo # <<>> /\ Ahead(Match(Here, Semicolon))
    BY <2>1, Ready, Passing
  <2>3. Whole(ReturnStatement(returned)) /\ messages \subseteq Messages
    BY Missed, WholeStatements DEF Messages
  <2>. HIDE DEF messages
  <2>. QED
    BY <2>1, <2>2, <2>3, Answers DEF Whole
<1>. QED
  BY <1>1, <1>2, <1>3

LEMMA VarDeclStep ==
    ASSUME Inv, ParseVarDecl \/ VarDeclEnd
    PROVE  Kept
<1>. USE SymbolsDiffer
<1>1. CASE ParseVarDecl
  <2>. DEFINE i == Advance(Here)
              type == ParseType(i + 2)
              decl(t) == VariableDecl(Lexeme(i), t, Null, At(Here, "var"))
              messages == type.errors \cup Missing(type.after, Semicolon,
                                        "ExpectedSemicolonAfterVariableDeclaration")
  <2>1. Running("VarDecl")
    BY <1>1 DEF ParseVarDecl
  <2>2. ~parsed /\ todo # <<>> /\ Within /\ Ahead(i)
    BY <2>1, Ready, Keyword
  <2>3. i + 1 + 1 = i + 2 /\ i + 2 + 1 = i + 3
    <3>1. i \in Int
      BY <2>2, Further
    <3>. HIDE DEF i
    <3>. QED
      BY <3>1
  <2>4. \/ Fail(Advance(i), "ExpectedVariableName")
        \/ /\ At(i, "Identifier") /\ At(i + 1, ":=")
           /\ Call(i + 2, <<Parse("Expression"), Rest("Initializer", decl(Inferred))>>)
        \/ /\ At(i, "Identifier")
           /\ Fail(i + 1, "ExpectedColonOrColonEqualAfterVariableName")
        \/ At(i, "Identifier") /\ At(i + 1, ":") /\ Fail(i + 2, "ExpectedVariableType")
        \/ /\ At(i, "Identifier") /\ At(i + 1, ":") /\ HasTypeName(i + 2)
           /\ At(type.after, "=")
           /\ Continue(<<Parse("Expression"), Rest("Initializer", decl(type.type))>>,
                       type.after + 1, type.errors)
        \/ /\ At(i, "Identifier") /\ At(i + 1, ":") /\ HasTypeName(i + 2)
           /\ Complete(decl(type.type), Match(type.after, Semicolon), messages)
    BY <1>1 DEF ParseVarDecl
  <2>5. /\ "ExpectedVariableName" \in Messages
        /\ "ExpectedColonOrColonEqualAfterVariableName" \in Messages
        /\ "ExpectedVariableType" \in Messages
    BY DEF Messages
  <2>6. "Expression" \in Calls \ {"Recover"} /\ "Initializer" \in Simple
    BY DEF Calls, Simple, Do, Takers
  <2>7. /\ Ahead(Advance(i))
        /\ At(i, "Identifier") => Ahead(i + 1)
        /\ At(i, "Identifier") /\ At(i + 1, ":") => Ahead(i + 2)
        /\ At(i, "Identifier") /\ At(i + 1, ":=") => Ahead(i + 2)
    BY <2>2, <2>3, Passing
  <2>8. At(i, "Identifier") /\ At(i + 1, ":") /\ HasTypeName(i + 2) =>
           /\ Ahead(type.after) /\ type.errors \subseteq Messages /\ type.type # Inferred
    BY <2>2, <2>3, Named
  <2>9. type.type # Inferred => Whole(decl(type.type))
    BY WholeStatements
  <2>10. Missing(type.after, Semicolon, "ExpectedSemicolonAfterVariableDeclaration")
            \subseteq Messages
    BY Missed DEF Messages
  <2>11. type.errors \subseteq Messages => messages \subseteq Messages
    BY <2>10
  <2>. HIDE DEF i, type, decl, messages
  <2>12. CASE Fail(Advance(i), "ExpectedVariableName")
    BY <2>2, <2>5, <2>7, <2>12, Complains
  <2>13. CASE /\ At(i, "Identifier") /\ At(i + 1, ":=")
              /\ Call(i + 2, <<Parse("Expression"), Rest("Initializer", decl(Inferred))>>)
    BY <2>2, <2>6, <2>7, <2>13, Descends
  <2>14. CASE /\ At(i, "Identifier")
              /\ Fail(i + 1, "ExpectedColonOrColonEqualAfterVariableName")
    BY <2>2, <2>5, <2>7, <2>14, Complains
  <2>15. CASE At(i, "Identifier") /\ At(i + 1, ":") /\ Fail(i + 2, "ExpectedVariableType")
    BY <2>2, <2>5, <2>7, <2>15, Complains
  <2>16. CASE /\ At(i, "Identifier") /\ At(i + 1, ":") /\ HasTypeName(i + 2)
              /\ At(type.after, "=")
              /\ Continue(<<Parse("Expression"), Rest("Initializer", decl(type.type))>>,
                          type.after + 1, type.errors)
    <3>1. Ahead(type.after + 1)
      BY <2>2, <2>8, <2>16, Passing
    <3>. QED
      BY <2>2, <2>6, <2>8, <2>16, <3>1, Descends
  <2>17. CASE /\ At(i, "Identifier") /\ At(i + 1, ":") /\ HasTypeName(i + 2)
              /\ Complete(decl(type.type), Match(type.after, Semicolon), messages)
    <3>1. Ahead(Match(type.after, Semicolon))
      BY <2>2, <2>8, <2>17, Passing
    <3>. QED
      BY <2>2, <2>8, <2>9, <2>11, <2>17, <3>1, Answers DEF Whole
  <2>. QED
    BY <2>4, <2>12, <2>13, <2>14, <2>15, <2>16, <2>17
<1>2. CASE VarDeclEnd
  <2>. DEFINE messages == Missing(Here, Semicolon,
                                  "ExpectedSemicolonAfterVariableDeclaration")
              n == VariableDecl(Node.name, Node.varType, returned, Node.isMutable)
  <2>1. /\ Running("Initializer")
        /\ \/ Fail(Here, "ExpectedInitializerExpressionAfterColonEqual")
           \/ Complete(n, Match(Here, Semicolon), messages)
    BY <1>2 DEF VarDeclEnd
  <2>2. /\ ~parsed /\ todo # <<>> /\ Ahead(Here) /\ Ahead(Match(Here, Semicolon))
        /\ "Initializer" \in Takers
    BY <2>1, Ready, Passing DEF Takers
  <2>3. messages \subseteq Messages
        /\ "ExpectedInitializerExpressionAfterColonEqual" \in Messages
    BY Missed DEF Messages
  <2>4. returned # Null => Whole(n)
    BY WholeStatements
  <2>5. Silent(messages) => returned # Null
    BY <2>1, <2>2, Given
  <2>. HIDE DEF messages, n
  <2>6. CASE Fail(Here, "ExpectedInitializerExpressionAfterColonEqual")
    BY <2>2, <2>3, <2>6, Complains
  <2>7. CASE Complete(n, Match(Here, Semicolon), messages)
    BY <2>2, <2>3, <2>4, <2>5, <2>7, Answers DEF Whole
  <2>. QED
    BY <2>1, <2>6, <2>7
<1>. QED
  BY <1>1, <1>2

\* A task that waits with a node that has some of its children.
LEMMA WaitingTask ==
    ASSUME NEW do \in {"IfThen", "IfElse", "WhileBody", "Assign", "Right",
                       "CompoundAssign"},
           NEW levels \in SUBSET (1..10), NEW n, NEW silent,
           silent => /\ do \in {"IfThen", "IfElse", "WhileBody"} => n.condition # Null
                     /\ do = "IfElse" => n.thenBranch # Null
                     /\ do = "Assign" => n # Null
                     /\ do \in {"Right", "CompoundAssign"} => n.left # Null
    PROVE  TaskOK(Task(do, levels, n), silent)
<1>1. /\ Task(do, levels, n) = [do |-> do, levels |-> levels, node |-> n]
      /\ Task(do, levels, n).do = do /\ Task(do, levels, n).levels = levels
      /\ Task(do, levels, n).node = n
  BY DEF Task
<1>2. Shape(Task(do, levels, n))
  BY <1>1 DEF Shape, Do, Takers
<1>3. silent => Filled(Task(do, levels, n))
  BY <1>1 DEF Filled
<1>. QED
  BY <1>2, <1>3 DEF TaskOK

LEMMA IfStep ==
    ASSUME Inv, ParseIf \/ IfCondition \/ IfThen \/ IfElse
    PROVE  Kept
<1>. USE SymbolsDiffer
<1>0. /\ "Expression" \in Calls \ {"Recover"} /\ "Statement" \in Calls \ {"Recover"}
      /\ "IfCondition" \in Simple /\ "IfCondition" \in Takers /\ "IfThen" \in Takers
      /\ "IfElse" \in Takers /\ {} \subseteq Messages
  BY DEF Calls, Simple, Do, Takers
<1>1. CASE ParseIf
  <2>. DEFINE i == Advance(Here)
              messages == Missing(i, "(", "ExpectedLParenAfterIf")
  <2>1. /\ Running("If")
        /\ Continue(<<Parse("Expression"), Rest("IfCondition", Null)>>, Match(i, "("), messages)
    BY <1>1 DEF ParseIf
  <2>2. ~parsed /\ todo # <<>> /\ Ahead(Match(i, "("))
    BY <2>1, Ready, Keyword, Passing
  <2>3. messages \subseteq Messages
    BY Missed DEF Messages
  <2>. HIDE DEF messages, i
  <2>. QED
    BY <1>0, <2>1, <2>2, <2>3, Descends
<1>2. CASE IfCondition
  <2>. DEFINE n == IfStatement(returned, Null, Null)
              messages == Missing(Here, ")", "ExpectedRParenAfterCondition")
  <2>1. /\ Running("IfCondition")
        /\ Continue(<<Parse("Statement"), Rest("IfThen", n)>>, Match(Here, ")"), messages)
    BY <1>2 DEF IfCondition
  <2>2. ~parsed /\ todo # <<>> /\ Ahead(Match(Here, ")"))
    BY <2>1, Ready, Passing
  <2>3. messages \subseteq Messages
    BY Missed DEF Messages
  <2>4. n.condition = returned
    BY DEF IfStatement
  <2>5. Silent(messages) => returned # Null
    BY <1>0, <2>1, Given
  <2>6. TaskOK(Rest("IfThen", n), Silent(messages))
    BY <2>4, <2>5, WaitingTask DEF Rest
  <2>. HIDE DEF messages, n
  <2>. QED
    BY <1>0, <2>1, <2>2, <2>3, <2>6, Descends
<1>3. CASE IfThen
  <2>. DEFINE n == IfStatement(Node.condition, returned, Null)
  <2>1. /\ Running("IfThen")
        /\ \/ At(Here, "else") /\ Call(Here + 1, <<Parse("Statement"), Rest("IfElse", n)>>)
           \/ Complete(n, Here, {})
    BY <1>3 DEF IfThen
  <2>2. /\ ~parsed /\ todo # <<>> /\ Ahead(Here) /\ (At(Here, "else") => Ahead(Here + 1))
        /\ Top.do = "IfThen" /\ Node = Top.node
    BY <2>1, Ready, Passing
  <2>3. errors = {} => returned # Null /\ Node.condition # Null
    BY <1>0, <2>2, TopOK DEF Filled
  <2>4. n.condition = Node.condition /\ n.thenBranch = returned
    BY DEF IfStatement
  <2>5. errors = {} => Whole(n)
    BY <2>3, WholeStatements
  <2>6. TaskOK(Rest("IfElse", n), errors = {})
    <3>1. errors = {} => n.condition # Null /\ n.thenBranch # Null
      BY <2>3, <2>4
    <3>. HIDE DEF n
    <3>2. ASSUME NEW silent, silent => n.condition # Null /\ n.thenBranch # Null
          PROVE  TaskOK(Task("IfElse", {}, n), silent)
      BY <3>2, WaitingTask
    <3>. QED
      BY <3>1, <3>2 DEF Rest
  <2>. HIDE DEF n
  <2>7. CASE At(Here, "else") /\ Call(Here + 1, <<Parse("Statement"), Rest("IfElse", n)>>)
    BY <1>0, <2>2, <2>6, <2>7, Descends
  <2>8. CASE Complete(n, Here, {})
    BY <1>0, <2>2, <2>5, <2>8, Answers DEF Whole, Silent
  <2>. QED
    BY <2>1, <2>7, <2>8
<1>4. CASE IfElse
  <2>1. /\ Running("IfElse")
        /\ Complete(IfStatement(Node.condition, Node.thenBranch, returned), Here, {})
    BY <1>4 DEF IfElse
  <2>2. /\ ~parsed /\ todo # <<>> /\ Ahead(Here) /\ Top.do = "IfElse" /\ Node = Top.node
    BY <2>1, Ready
  <2>3. errors = {} => /\ returned # Null
                       /\ Node.condition # Null /\ Node.thenBranch # Null
    BY <1>0, <2>2, TopOK DEF Filled
  <2>4. errors = {} => Whole(IfStatement(Node.condition, Node.thenBranch, returned))
    BY <2>3, WholeStatements
  <2>. QED
    BY <1>0, <2>1, <2>2, <2>4, Answers DEF Whole, Silent
<1>. QED
  BY <1>1, <1>2, <1>3, <1>4

LEMMA WhileStep ==
    ASSUME Inv, ParseWhile \/ WhileCondition \/ WhileBody
    PROVE  Kept
<1>. USE SymbolsDiffer
<1>0. /\ "Expression" \in Calls \ {"Recover"} /\ "Statement" \in Calls \ {"Recover"}
      /\ "WhileCondition" \in Simple /\ "WhileCondition" \in Takers
      /\ "WhileBody" \in Takers /\ {} \subseteq Messages
  BY DEF Calls, Simple, Do, Takers
<1>1. CASE ParseWhile
  <2>. DEFINE i == Advance(Here)
              messages == Missing(i, "(", "ExpectedLParenAfterWhile")
  <2>1. /\ Running("While")
        /\ Continue(<<Parse("Expression"), Rest("WhileCondition", Null)>>, Match(i, "("),
                    messages)
    BY <1>1 DEF ParseWhile
  <2>2. ~parsed /\ todo # <<>> /\ Ahead(Match(i, "("))
    BY <2>1, Ready, Keyword, Passing
  <2>3. messages \subseteq Messages
    BY Missed DEF Messages
  <2>. HIDE DEF messages, i
  <2>. QED
    BY <1>0, <2>1, <2>2, <2>3, Descends
<1>2. CASE WhileCondition
  <2>. DEFINE n == WhileStatement(returned, Null)
              messages == Missing(Here, ")", "ExpectedRParenAfterCondition")
  <2>1. /\ Running("WhileCondition")
        /\ Continue(<<Parse("Statement"), Rest("WhileBody", n)>>, Match(Here, ")"), messages)
    BY <1>2 DEF WhileCondition
  <2>2. ~parsed /\ todo # <<>> /\ Ahead(Match(Here, ")"))
    BY <2>1, Ready, Passing
  <2>3. messages \subseteq Messages
    BY Missed DEF Messages
  <2>4. n.condition = returned
    BY DEF WhileStatement
  <2>5. Silent(messages) => returned # Null
    BY <1>0, <2>1, Given
  <2>6. TaskOK(Rest("WhileBody", n), Silent(messages))
    BY <2>4, <2>5, WaitingTask DEF Rest
  <2>. HIDE DEF messages, n
  <2>. QED
    BY <1>0, <2>1, <2>2, <2>3, <2>6, Descends
<1>3. CASE WhileBody
  <2>1. Running("WhileBody") /\ Complete(WhileStatement(Node.condition, returned), Here, {})
    BY <1>3 DEF WhileBody
  <2>2. /\ ~parsed /\ todo # <<>> /\ Ahead(Here) /\ Top.do = "WhileBody" /\ Node = Top.node
    BY <2>1, Ready
  <2>3. errors = {} => returned # Null /\ Node.condition # Null
    BY <1>0, <2>2, TopOK DEF Filled
  <2>4. errors = {} => Whole(WhileStatement(Node.condition, returned))
    BY <2>3, WholeStatements
  <2>. QED
    BY <1>0, <2>1, <2>2, <2>4, Answers DEF Whole, Silent
<1>. QED
  BY <1>1, <1>2, <1>3

LEMMA ForStep ==
    ASSUME Inv,
           \/ ParseFor \/ ForInit \/ ForCondition \/ ForConditionEnd
           \/ ForUpdate \/ ForUpdateEnd \/ ForBody
    PROVE  Kept
<1>. USE SymbolsDiffer
<1>0. /\ "Expression" \in Calls \ {"Recover"} /\ "Statement" \in Calls \ {"Recover"}
      /\ {"ForInit", "ForCondition", "ForConditionEnd", "ForUpdate", "ForUpdateEnd",
          "ForBody"} \subseteq Simple
      /\ "ForBody" \in Takers /\ {} \subseteq Messages
      /\ "ForCondition" \notin Takers /\ "ForUpdate" \notin Takers
  BY DEF Calls, Simple, Do, Takers, Lists
<1>1. \A do \in {"ForCondition", "ForUpdate"} : \A n, silent :
         TaskOK(Rest(do, n), silent) /\ Rest(do, n).do \notin Takers
  <2>1. \A do, n : Rest(do, n).do = do
    BY DEF Rest, Task
  <2>. QED
    BY <1>0, <2>1, SimpleTask
<1>2. ASSUME ~parsed, todo # <<>>, NEW i, Ahead(i)
      PROVE  /\ \A do \in {"ForCondition", "ForUpdate"} : \A n, messages :
                   messages \subseteq Messages /\ Continue(<<Rest(do, n)>>, i, messages) => Kept
             /\ \A do \in {"ForCondition", "ForUpdate"} : \A n :
                   Call(i, <<Rest(do, n)>>) => Kept
  <2>1. ASSUME NEW do \in {"ForCondition", "ForUpdate"}, NEW n
        PROVE  /\ \A messages :
                    messages \subseteq Messages /\ Continue(<<Rest(do, n)>>, i, messages) => Kept
               /\ Call(i, <<Rest(do, n)>>) => Kept
    <3>. DEFINE t == Rest(do, n)
    <3>1. \A silent : TaskOK(t, silent)
      BY <1>1, <2>1
    <3>2. t.do \notin Takers
      BY <1>1, <2>1
    <3>. HIDE DEF t
    <3>3. \A messages :
             messages \subseteq Messages /\ Continue(<<t>>, i, messages) => Kept
      BY <1>2, <3>1, <3>2, Asks
    <3>4. Call(i, <<t>>) => Kept
      BY <1>0, <1>2, <3>1, <3>2, Asks
    <3>. QED
      BY <3>3, <3>4 DEF t
  <2>. QED
    BY <2>1
<1>3. CASE ParseFor
  <2>. DEFINE init == Match(Advance(Here), "(")
              messages == Missing(Advance(Here), "(", "ExpectedLParenAfterFor")
              what == IF AtAny(init, {"var", "val"}) THEN "VarDecl" ELSE "ExprStatement"
              n == ForStatement(Null, Null, Null, Null)
  <2>1. /\ Running("For")
        /\ \/ At(init, Semicolon) /\ Continue(<<Rest("ForCondition", n)>>, init + 1, messages)
           \/ Continue(<<Parse(what), Rest("ForInit", Null)>>, init, messages)
    BY <1>3 DEF ParseFor
  <2>2. ~parsed /\ todo # <<>> /\ Within /\ Ahead(init)
    BY <2>1, Ready, Keyword, Passing
  <2>3. messages \subseteq Messages
    BY Missed DEF Messages
  <2>4. what \in Calls \ {"Recover"}
    BY DEF Calls
  <2>. HIDE DEF messages, init, what, n
  <2>5. CASE At(init, Semicolon) /\ Continue(<<Rest("ForCondition", n)>>, init + 1, messages)
    <3>1. Ahead(init + 1)
      BY <2>2, <2>5, Passing
    <3>. QED
      BY <1>2, <2>2, <2>3, <2>5, <3>1
  <2>6. CASE Continue(<<Parse(what), Rest("ForInit", Null)>>, init, messages)
    BY <1>0, <2>2, <2>3, <2>4, <2>6, Descends
  <2>. QED
    BY <2>1, <2>5, <2>6
<1>4. CASE ForInit
  <2>1. /\ Running("ForInit")
        /\ Call(Here, <<Rest("ForCondition", ForStatement(returned, Null, Null, Null))>>)
    BY <1>4 DEF ForInit
  <2>. QED
    BY <1>2, <2>1, Ready
<1>5. CASE ForCondition
  <2>1. /\ Running("ForCondition")
        /\ \/ At(Here, Semicolon) /\ Call(Here + 1, <<Rest("ForUpdate", Node)>>)
           \/ Call(Here, <<Parse("Expression"), Rest("ForConditionEnd", Node)>>)
    BY <1>5 DEF ForCondition
  <2>2. ~parsed /\ todo # <<>> /\ Ahead(Here) /\ (At(Here, Semicolon) => Ahead(Here + 1))
    BY <2>1, Ready, Passing
  <2>3. CASE At(Here, Semicolon) /\ Call(Here + 1, <<Rest("ForUpdate", Node)>>)
    BY <1>2, <2>2, <2>3
  <2>4. CASE Call(Here, <<Parse("Expression"), Rest("ForConditionEnd", Node)>>)
    BY <1>0, <2>2, <2>4, Descends
  <2>. QED
    BY <2>1, <2>3, <2>4
<1>6. CASE ForConditionEnd
  <2>. DEFINE messages == Missing(Here, Semicolon, "ExpectedSemicolonAfterForLoopCondition")
              n == ForStatement(Node.init, returned, Null, Null)
  <2>1. /\ Running("ForConditionEnd")
        /\ Continue(<<Rest("ForUpdate", n)>>, Match(Here, Semicolon), messages)
    BY <1>6 DEF ForConditionEnd
  <2>2. ~parsed /\ todo # <<>> /\ Ahead(Match(Here, Semicolon))
    BY <2>1, Ready, Passing
  <2>3. messages \subseteq Messages
    BY Missed DEF Messages
  <2>. HIDE DEF messages, n
  <2>. QED
    BY <1>2, <2>1, <2>2, <2>3
<1>7. CASE ForUpdate
  <2>1. /\ Running("ForUpdate")
        /\ \/ At(Here, ")") /\ Call(Here + 1, <<Parse("Statement"), Rest("ForBody", Node)>>)
           \/ Call(Here, <<Parse("Expression"), Rest("ForUpdateEnd", Node)>>)
    BY <1>7 DEF ForUpdate
  <2>2. ~parsed /\ todo # <<>> /\ Ahead(Here) /\ (At(Here, ")") => Ahead(Here + 1))
    BY <2>1, Ready, Passing
  <2>3. CASE At(Here, ")") /\ Call(Here + 1, <<Parse("Statement"), Rest("ForBody", Node)>>)
    BY <1>0, <2>2, <2>3, Descends
  <2>4. CASE Call(Here, <<Parse("Expression"), Rest("ForUpdateEnd", Node)>>)
    BY <1>0, <2>2, <2>4, Descends
  <2>. QED
    BY <2>1, <2>3, <2>4
<1>8. CASE ForUpdateEnd
  <2>. DEFINE messages == Missing(Here, ")", "ExpectedRParenAfterForClauses")
              n == ForStatement(Node.init, Node.condition, returned, Null)
  <2>1. /\ Running("ForUpdateEnd")
        /\ Continue(<<Parse("Statement"), Rest("ForBody", n)>>, Match(Here, ")"), messages)
    BY <1>8 DEF ForUpdateEnd
  <2>2. ~parsed /\ todo # <<>> /\ Ahead(Match(Here, ")"))
    BY <2>1, Ready, Passing
  <2>3. messages \subseteq Messages
    BY Missed DEF Messages
  <2>. HIDE DEF messages, n
  <2>. QED
    BY <1>0, <2>1, <2>2, <2>3, Descends
<1>9. CASE ForBody
  <2>. DEFINE n == ForStatement(Node.init, Node.condition, Node.update, returned)
  <2>1. Running("ForBody") /\ Complete(n, Here, {})
    BY <1>9 DEF ForBody
  <2>2. Silent({}) => Whole(n)
    BY <1>0, <2>1, Given, WholeStatements
  <2>. HIDE DEF n
  <2>. QED
    BY <1>0, <2>1, <2>2, Ready, Answers DEF Whole
<1>. QED
  BY <1>3, <1>4, <1>5, <1>6, <1>7, <1>8, <1>9

LEMMA ExprStatementStep ==
    ASSUME Inv, ParseExprStatement \/ ExprStatementEnd
    PROVE  Kept
<1>. USE SymbolsDiffer
<1>0. /\ "Expression" \in Calls \ {"Recover"} /\ "ExprStatementEnd" \in Simple
      /\ "ExprStatementEnd" \in Takers /\ "Recover" \notin Takers /\ {} \subseteq Messages
  BY DEF Calls, Simple, Do, Takers
<1>1. CASE ParseExprStatement
  <2>1. /\ Running("ExprStatement")
        /\ Call(Here, <<Parse("Expression"), Rest("ExprStatementEnd", Null)>>)
    BY <1>1 DEF ParseExprStatement
  <2>. QED
    BY <1>0, <2>1, Ready, Descends
<1>2. CASE ExprStatementEnd
  <2>. DEFINE messages == Missing(Here, Semicolon, "ExpectedSemicolonAfterExpression")
  <2>1. /\ Running("ExprStatementEnd")
        /\ \/ returned = Null /\ Call(Here, <<Parse("Recover")>>)
           \/ /\ returned # Null
              /\ Complete(ExprStatement(returned), Match(Here, Semicolon), messages)
    BY <1>2 DEF ExprStatementEnd
  <2>2. /\ ~parsed /\ todo # <<>> /\ Ahead(Here) /\ Ahead(Match(Here, Semicolon))
    BY <2>1, Ready, Passing
  <2>3. messages \subseteq Messages
    BY Missed DEF Messages
  <2>4. returned # Null => Whole(ExprStatement(returned))
    BY WholeStatements
  <2>. HIDE DEF messages
  <2>5. CASE returned = Null /\ Call(Here, <<Parse("Recover")>>)
    <3>1. Silent({}) = FALSE
      BY <1>0, <2>1, <2>5, Given
    <3>2. TaskOK(Parse("Recover"), Silent({})) /\ Parse("Recover").do \notin Takers
      BY <1>0, <3>1, Recovering DEF Parse, Task
    <3>. QED
      BY <1>0, <2>2, <2>5, <3>2, Asks
  <2>6. CASE /\ returned # Null
             /\ Complete(ExprStatement(returned), Match(Here, Semicolon), messages)
    BY <2>2, <2>3, <2>4, <2>6, Answers DEF Whole
  <2>. QED
    BY <2>1, <2>5, <2>6
<1>. QED
  BY <1>1, <1>2

(***************************************************************************)
(* Expressions.                                                            *)
(***************************************************************************)
LEMMA DescentTasks ==
    ASSUME NEW level \in 1..11, NEW silent
    PROVE  /\ AgendaOK(Descent(level), silent)
           /\ Descent(level) # <<>> /\ Head(Descent(level)) = Parse("Unary")
<1>1. level..10 \in SUBSET (1..10)
  OBVIOUS
<1>2. "Unary" \in Simple /\ "Operators" \in Simple
  BY DEF Simple, Do, Calls, Takers
<1>3. TaskOK(Parse("Unary"), silent) /\ TaskOK(Task("Operators", level..10, Null), silent)
  BY <1>1, <1>2, SimpleTask
<1>. QED
  BY <1>3, Short DEF Descent

\* The calls down to ParseUnary, before a task.
LEMMA GoesDown ==
    ASSUME Inv, ~parsed, todo # <<>>, NEW i, Ahead(i), NEW level \in 1..11,
           NEW t, TaskOK(t, errors = {}), Call(i, Append(Descent(level), t))
    PROVE  Kept
<1>. DEFINE s == Descent(level)
<1>1. Silent({}) <=> errors = {}
  BY DEF Silent
<1>2. AgendaOK(s, Silent({})) /\ s # <<>> /\ Head(s).do = "Unary"
  <2>1. Parse("Unary").do = "Unary"
    BY DEF Parse, Task
  <2>. HIDE DEF s
  <2>2. AgendaOK(Descent(level), Silent({})) /\ Descent(level) # <<>>
        /\ Head(Descent(level)) = Parse("Unary")
    BY DescentTasks
  <2>. QED
    BY <2>1, <2>2 DEF s
<1>. HIDE DEF s
<1>3. TaskOK(t, Silent({}))
  BY <1>1 DEF TaskOK
<1>4. AgendaOK(Append(s, t), Silent({})) /\ Append(s, t) # <<>>
  BY <1>2, <1>3, Behind, Appending DEF AgendaOK
<1>5. Head(Append(s, t)) = Head(s)
  <2>. DEFINE T == {s[k] : k \in DOMAIN s} \cup {t}
  <2>1. s \in Seq(T) /\ t \in T
    BY <1>2, SeqMonotonic DEF AgendaOK, IsSeq
  <2>. HIDE DEF T
  <2>2. Len(s) \in Nat /\ Len(s) > 0
    BY <1>2, <2>1, EmptySeq, LenProperties
  <2>. QED
    BY <1>4, <2>1, <2>2, AppendProperties
<1>6. "Unary" \notin Takers
  BY DEF Takers
<1>7. errors = {} => ~Hole(returned)
  BY TopOK
<1>8. Sound(returned, Append(s, t), i, {})
  BY <1>1, <1>2, <1>4, <1>5, <1>6, <1>7 DEF Sound
<1>9. Step(returned, Append(s, t), i, {})
  BY DEF Call, s
<1>. QED
  BY <1>8, <1>9, StepKeeps DEF Kept

\* No level has EndOfFile among its operators.
LEMMA OperatorTokens ==
    ASSUME NEW level \in 1..10
    PROVE  "EndOfFile" \notin Levels[level]
<1>1. level \in {1, 2, 3, 4, 5, 6, 7, 8, 9, 10}
  OBVIOUS
<1>. QED
  BY <1>1 DEF Levels

LEMMA OperatorStep ==
    ASSUME Inv, ParseExpression \/ Operator \/ RightOperand \/ EndOperators
    PROVE  Kept
<1>0. /\ "Assignment" \in Simple /\ "Operators" \in Simple
      /\ "Operators" \in Takers /\ "Right" \in Takers /\ {} \subseteq Messages
  BY DEF Simple, Do, Takers
<1>1. CASE ParseExpression
  <2>1. Running("Expression") /\ Call(Here, Append(Descent(1), Parse("Assignment")))
    BY <1>1 DEF ParseExpression
  <2>2. ~parsed /\ todo # <<>> /\ Ahead(Here)
    BY <2>1, Ready
  <2>3. TaskOK(Parse("Assignment"), errors = {}) /\ 1 \in 1..11
    <3>1. ASSUME NEW silent
          PROVE  TaskOK(Parse("Assignment"), silent)
      BY <1>0, SimpleTask
    <3>. QED
      BY <3>1
  <2>. QED
    BY <2>1, <2>2, <2>3, GoesDown
<1>2. CASE Operator
  <2>1. Running("Operators")
    BY <1>2 DEF Operator
  <2>2. PICK level \in Top.levels :
           /\ AtAny(Here, Levels[level])
           /\ Call(Here + 1,
                   Append(Descent(level + 1),
                          Task("Right", Top.levels \cap (1..level),
                               BinaryExpr(Lexeme(Here), returned, Null))))
    BY <1>2 DEF Operator
  <2>. DEFINE n == BinaryExpr(Lexeme(Here), returned, Null)
              levels == Top.levels \cap (1..level)
  <2>3. /\ ~parsed /\ todo # <<>> /\ Within /\ Ahead(Here) /\ Shape(Top)
        /\ Top.do = "Operators"
    BY <2>1, Ready
  <2>4. level \in 1..10 /\ Top.levels \in SUBSET (1..10)
    BY <2>3 DEF Shape
  <2>5. level + 1 \in 1..11 /\ levels \in SUBSET (1..10)
    BY <2>4
  <2>6. Ahead(Here + 1)
    BY <2>2, <2>3, <2>4, OperatorTokens, Passing
  <2>7. n.left = returned /\ (errors = {} => returned # Null)
    BY <1>0, <2>3, TopOK DEF BinaryExpr
  <2>. HIDE DEF n, levels
  <2>8. TaskOK(Task("Right", levels, n), errors = {})
    <3>1. ASSUME NEW silent, silent => n.left # Null
          PROVE  TaskOK(Task("Right", levels, n), silent)
      BY <2>5, <3>1, WaitingTask
    <3>. QED
      BY <2>7, <3>1
  <2>9. Call(Here + 1, Append(Descent(level + 1), Task("Right", levels, n)))
    BY <2>2 DEF n, levels
  <2>. QED
    BY <2>3, <2>5, <2>6, <2>8, <2>9, GoesDown
<1>3. CASE RightOperand
  <2>. DEFINE n == BinaryExpr(Node.op, Node.left, returned)
              t == Task("Operators", Top.levels, Null)
  <2>1. Running("Right") /\ Step(n, <<t>>, Here, {})
    BY <1>3 DEF RightOperand
  <2>2. /\ ~parsed /\ todo # <<>> /\ Ahead(Here) /\ Shape(Top)
        /\ Top.do = "Right" /\ Node = Top.node
    BY <2>1, Ready
  <2>3. TaskOK(t, Silent({}))
    BY <1>0, <2>2, SimpleTask DEF Shape
  <2>4. errors = {} => returned # Null /\ Node.left # Null
    BY <1>0, <2>2, TopOK DEF Filled
  <2>5. Silent({}) => Whole(n)
    BY <2>4, WholeExpressions DEF Silent
  <2>. HIDE DEF n, t
  <2>. QED
    BY <1>0, <2>1, <2>2, <2>3, <2>5, Answers DEF Whole
<1>4. CASE EndOperators
  <2>1. Running("Operators") /\ Call(Here, <<>>)
    BY <1>4 DEF EndOperators
  <2>. QED
    BY <1>0, <2>1, Ready, Passes
<1>. QED
  BY <1>1, <1>2, <1>3, <1>4

LEMMA AssignmentStep ==
    ASSUME Inv,
           Assignment \/ AssignmentEnd \/ CompoundAssignment \/ CompoundAssignmentEnd
    PROVE  Kept
<1>0. /\ "Expression" \in Calls \ {"Recover"} /\ "Compound" \in Simple
      /\ "Assignment" \in Takers /\ "Assign" \in Takers /\ "Compound" \in Takers
      /\ "CompoundAssign" \in Takers /\ {} \subseteq Messages
      /\ "InvalidAssignmentTarget" \in Messages
      /\ "InvalidCompoundAssignmentTarget" \in Messages
  BY DEF Calls, Simple, Do, Takers, Messages
<1>1. CASE Assignment
  <2>1. /\ Running("Assignment") /\ At(Here, "=")
        /\ Call(Here + 1, <<Parse("Expression"), Rest("Assign", returned)>>)
    BY <1>1 DEF Assignment
  <2>2. ~parsed /\ todo # <<>> /\ Ahead(Here + 1) /\ Top.do = "Assignment"
    BY <2>1, Ready, Passing
  <2>3. errors = {} => returned # Null
    BY <1>0, <2>2, TopOK
  <2>4. TaskOK(Rest("Assign", returned), errors = {})
    <3>1. ASSUME NEW silent, silent => returned # Null
          PROVE  TaskOK(Task("Assign", {}, returned), silent)
      BY <3>1, WaitingTask
    <3>. QED
      BY <2>3, <3>1 DEF Rest
  <2>. QED
    BY <1>0, <2>1, <2>2, <2>4, Descends
<1>2. CASE AssignmentEnd
  <2>. DEFINE n == AssignExpr(Node.name, returned)
  <2>1. /\ Running("Assign")
        /\ \/ Complete(n, Here, {})
           \/ Step(Node, <<Parse("Compound")>>, Here, {"InvalidAssignmentTarget"})
    BY <1>2 DEF AssignmentEnd
  <2>2. ~parsed /\ todo # <<>> /\ Ahead(Here)
    BY <2>1, Ready
  <2>3. Silent({}) => Whole(n)
    BY <1>0, <2>1, Given, WholeExpressions
  <2>4. TaskOK(Parse("Compound"), FALSE)
    BY <1>0, SimpleTask
  <2>. HIDE DEF n
  <2>5. CASE Complete(n, Here, {})
    BY <1>0, <2>2, <2>3, <2>5, Answers DEF Whole
  <2>6. CASE Step(Node, <<Parse("Compound")>>, Here, {"InvalidAssignmentTarget"})
    BY <1>0, <2>2, <2>4, <2>6, Complains
  <2>. QED
    BY <2>1, <2>5, <2>6
<1>3. CASE CompoundAssignment
  <2>. DEFINE n == BinaryExpr(CompoundOp(Type(Here)), returned, Null)
  <2>1. /\ Running("Compound") \/ Running("Assignment")
        /\ \/ /\ \E pair \in CompoundOperators : At(Here, pair[1])
              /\ Call(Here + 1, <<Parse("Expression"), Rest("CompoundAssign", n)>>)
           \/ Call(Here, <<>>)
    BY <1>3 DEF CompoundAssignment
  <2>2. /\ ~parsed /\ todo # <<>> /\ Within /\ Ahead(Here) /\ Top.do \in Takers
    <3>1. PICK do \in {"Compound", "Assignment"} : Running(do)
      BY <2>1
    <3>2. ~parsed /\ todo # <<>> /\ Within /\ Ahead(Here) /\ Top.do = do
      BY <3>1, Ready
    <3>. QED
      BY <1>0, <3>2
  <2>3. errors = {} => returned # Null
    BY <2>2, TopOK
  <2>4. n.left = returned
    BY DEF BinaryExpr
  <2>. HIDE DEF n
  <2>5. CASE /\ \E pair \in CompoundOperators : At(Here, pair[1])
             /\ Call(Here + 1, <<Parse("Expression"), Rest("CompoundAssign", n)>>)
    <3>1. \A pair \in CompoundOperators : pair[1] # "EndOfFile"
      BY DEF CompoundOperators
    <3>2. Ahead(Here + 1)
      BY <2>2, <2>5, <3>1, Passing
    <3>3. ASSUME NEW silent, silent => n.left # Null
          PROVE  TaskOK(Task("CompoundAssign", {}, n), silent)
      BY <3>3, WaitingTask
    <3>4. TaskOK(Rest("CompoundAssign", n), errors = {})
      BY <2>3, <2>4, <3>3 DEF Rest
    <3>. QED
      BY <1>0, <2>2, <2>5, <3>2, <3>4, Descends
  <2>6. CASE Call(Here, <<>>)
    BY <2>2, <2>6, Passes
  <2>. QED
    BY <2>1, <2>5, <2>6
<1>4. CASE CompoundAssignmentEnd
  <2>. DEFINE n == AssignExpr(Node.left.name, BinaryExpr(Node.op, Node.left, returned))
  <2>1. /\ Running("CompoundAssign")
        /\ \/ Complete(n, Here, {})
           \/ Complete(Node.left, Here, {"InvalidCompoundAssignmentTarget"})
    BY <1>4 DEF CompoundAssignmentEnd
  <2>2. ~parsed /\ todo # <<>> /\ Ahead(Here) /\ Top.do = "CompoundAssign" /\ Node = Top.node
    BY <2>1, Ready
  <2>3. errors = {} => returned # Null /\ Node.left # Null
    BY <1>0, <2>2, TopOK DEF Filled
  <2>4. errors = {} => Whole(BinaryExpr(Node.op, Node.left, returned))
    BY <2>3, WholeExpressions
  <2>5. Silent({}) => Whole(n)
    BY <2>4, WholeExpressions DEF Silent, Whole
  <2>. HIDE DEF n
  <2>6. CASE Complete(n, Here, {})
    BY <1>0, <2>2, <2>5, <2>6, Answers DEF Whole
  <2>7. CASE Complete(Node.left, Here, {"InvalidCompoundAssignmentTarget"})
    <3>1. {} \cup {"InvalidCompoundAssignmentTarget"} = {"InvalidCompoundAssignmentTarget"}
      OBVIOUS
    <3>2. Step(Node.left, <<>>, Here, {} \cup {"InvalidCompoundAssignmentTarget"})
      BY <2>7, <3>1 DEF Complete
    <3>. QED
      BY <1>0, <2>2, <3>2, Complains
  <2>. QED
    BY <2>1, <2>6, <2>7
<1>. QED
  BY <1>1, <1>2, <1>3, <1>4

LEMMA UnaryStep ==
    ASSUME Inv, ParseUnary \/ Operand \/ ParsePostfix
    PROVE  Kept
<1>0. /\ "Unary" \in Calls \ {"Recover"} /\ "Primary" \in Calls \ {"Recover"}
      /\ "Operand" \in Simple /\ "Postfix" \in Simple
      /\ "Operand" \in Takers /\ "Postfix" \in Takers /\ {} \subseteq Messages
  BY DEF Calls, Simple, Do, Takers
<1>1. CASE ParseUnary
  <2>. DEFINE n == UnaryExpr(Lexeme(Here), Null)
              m == PrefixExpr(Lexeme(Here), Null)
  <2>1. /\ Running("Unary")
        /\ \/ /\ AtAny(Here, {"!", "~"})
              /\ Call(Here + 1, <<Parse("Unary"), Rest("Operand", n)>>)
           \/ /\ AtAny(Here, {"++", "--"})
              /\ Call(Here + 1, <<Parse("Unary"), Rest("Operand", m)>>)
           \/ Call(Here, <<Parse("Primary"), Parse("Postfix")>>)
    BY <1>1 DEF ParseUnary
  <2>2. /\ ~parsed /\ todo # <<>> /\ Ahead(Here)
        /\ AtAny(Here, {"!", "~"}) \/ AtAny(Here, {"++", "--"}) => Ahead(Here + 1)
    BY <2>1, Ready, Passing
  <2>. HIDE DEF n, m
  <2>3. CASE /\ AtAny(Here, {"!", "~"})
             /\ Call(Here + 1, <<Parse("Unary"), Rest("Operand", n)>>)
    BY <1>0, <2>2, <2>3, Descends
  <2>4. CASE /\ AtAny(Here, {"++", "--"})
             /\ Call(Here + 1, <<Parse("Unary"), Rest("Operand", m)>>)
    BY <1>0, <2>2, <2>4, Descends
  <2>5. CASE Call(Here, <<Parse("Primary"), Parse("Postfix")>>)
    BY <1>0, <2>2, <2>5, Descends
  <2>. QED
    BY <2>1, <2>3, <2>4, <2>5
<1>2. CASE Operand
  <2>. DEFINE n == IF Node.kind = "UnaryExpr" THEN UnaryExpr(Node.op, returned)
                   ELSE PrefixExpr(Node.op, returned)
  <2>1. Running("Operand") /\ Complete(n, Here, {})
    BY <1>2 DEF Operand
  <2>2. ~parsed /\ todo # <<>> /\ Ahead(Here)
    BY <2>1, Ready
  <2>3. Silent({}) => Whole(n)
    BY <1>0, <2>1, Given, WholeExpressions
  <2>. HIDE DEF n
  <2>. QED
    BY <1>0, <2>1, <2>2, <2>3, Answers DEF Whole
<1>3. CASE ParsePostfix
  <2>. DEFINE n == PostfixExpr(Lexeme(Here), returned)
  <2>1. /\ Running("Postfix")
        /\ \/ AtAny(Here, {"++", "--"}) /\ Step(n, <<Top>>, Here + 1, {})
           \/ Call(Here, <<>>)
    BY <1>3 DEF ParsePostfix
  <2>2. /\ ~parsed /\ todo # <<>> /\ Ahead(Here) /\ Top.do \in Takers
        /\ AtAny(Here, {"++", "--"}) => Ahead(Here + 1)
    BY <1>0, <2>1, Ready, Passing
  <2>3. Silent({}) => Whole(n)
    BY <1>0, <2>1, Given, WholeExpressions
  <2>4. TaskOK(Top, Silent({}))
    BY <2>2, TopOK DEF Silent, TaskOK
  <2>. HIDE DEF n
  <2>5. CASE AtAny(Here, {"++", "--"}) /\ Step(n, <<Top>>, Here + 1, {})
    BY <1>0, <2>2, <2>3, <2>4, <2>5, Answers DEF Whole
  <2>6. CASE Call(Here, <<>>)
    BY <2>2, <2>6, Passes
  <2>. QED
    BY <2>1, <2>5, <2>6
<1>. QED
  BY <1>1, <1>2, <1>3

LEMMA LiteralStep ==
    ASSUME Inv, Literal \/ Alloc \/ NoExpression
    PROVE  Kept
<1>. USE SymbolsDiffer
<1>0. /\ {} \subseteq Messages
      /\ "ExpectedExpression" \in Messages /\ "ExpectedLessAfterAlloc" \in Messages
      /\ "ExpectedTypeNameInAlloc" \in Messages
      /\ "ExpectedGreaterAfterTypeInAlloc" \in Messages
      /\ "ExpectedParensAfterAlloc" \in Messages
  BY DEF Messages
<1>1. CASE Literal
  <2>. DEFINE value == LiteralValue[m_Tokens[Here + 1]]
  <2>1. /\ Running("Primary") /\ AtAny(Here, LiteralTypes)
        /\ Complete(LiteralExpr(value.class, value.num), Here + 1, {})
    BY <1>1 DEF Literal
  <2>2. ~parsed /\ todo # <<>> /\ Ahead(Here + 1)
    BY <2>1, Ready, Passing
  <2>3. Whole(LiteralExpr(value.class, value.num))
    BY WholeExpressions
  <2>. HIDE DEF value
  <2>. QED
    BY <1>0, <2>1, <2>2, <2>3, Answers DEF Whole
<1>2. CASE Alloc
  <2>. DEFINE n == AllocExpr(PointerTo(Lexeme(Here + 2)))
              end == AfterParens(Here + 4)
  <2>1. /\ Running("Primary") /\ At(Here, "alloc")
        /\ \/ Fail(Here + 1, "ExpectedLessAfterAlloc")
           \/ At(Here + 1, "<") /\ Fail(Here + 2, "ExpectedTypeNameInAlloc")
           \/ /\ At(Here + 1, "<") /\ At(Here + 2, "Identifier")
              /\ Fail(Here + 3, "ExpectedGreaterAfterTypeInAlloc")
           \/ /\ At(Here + 1, "<") /\ At(Here + 2, "Identifier") /\ At(Here + 3, ">")
              /\ \/ Fail(end, "ExpectedParensAfterAlloc")
                 \/ end = Here + 6 /\ Complete(n, end, {})
    BY <1>2 DEF Alloc
  <2>2. /\ ~parsed /\ todo # <<>> /\ Within /\ Ahead(Here) /\ Ahead(Here + 1)
        /\ Here + 1 + 1 = Here + 2 /\ Here + 2 + 1 = Here + 3 /\ Here + 3 + 1 = Here + 4
    BY <2>1, Ready, Passing
  <2>3. /\ At(Here + 1, "<") => Ahead(Here + 2)
        /\ At(Here + 1, "<") /\ At(Here + 2, "Identifier") => Ahead(Here + 3)
        /\ At(Here + 1, "<") /\ At(Here + 2, "Identifier") /\ At(Here + 3, ">") =>
              Ahead(Here + 4)
    BY <2>2, Passing
  <2>4. /\ At(Here + 1, "<") /\ At(Here + 2, "Identifier") /\ At(Here + 3, ">") =>
              Ahead(end)
    BY <2>2, <2>3, Passing
  <2>5. Whole(n)
    BY WholeExpressions
  <2>. HIDE DEF n, end
  <2>6. CASE Fail(Here + 1, "ExpectedLessAfterAlloc")
    BY <1>0, <2>2, <2>6, Complains
  <2>7. CASE At(Here + 1, "<") /\ Fail(Here + 2, "ExpectedTypeNameInAlloc")
    BY <1>0, <2>2, <2>3, <2>7, Complains
  <2>8. CASE /\ At(Here + 1, "<") /\ At(Here + 2, "Identifier")
             /\ Fail(Here + 3, "ExpectedGreaterAfterTypeInAlloc")
    BY <1>0, <2>2, <2>3, <2>8, Complains
  <2>9. CASE /\ At(Here + 1, "<") /\ At(Here + 2, "Identifier") /\ At(Here + 3, ">")
             /\ Fail(end, "ExpectedParensAfterAlloc")
    BY <1>0, <2>2, <2>4, <2>9, Complains
  <2>10. CASE /\ At(Here + 1, "<") /\ At(Here + 2, "Identifier") /\ At(Here + 3, ">")
              /\ Complete(n, end, {})
    BY <1>0, <2>2, <2>4, <2>5, <2>10, Answers DEF Whole
  <2>. QED
    BY <2>1, <2>6, <2>7, <2>8, <2>9, <2>10
<1>3. CASE NoExpression
  <2>1. Running("Primary") /\ Fail(Here, "ExpectedExpression")
    BY <1>3 DEF NoExpression
  <2>. QED
    BY <1>0, <2>1, Ready, Complains
<1>. QED
  BY <1>1, <1>2, <1>3

LEMMA CastStep ==
    ASSUME Inv, Cast \/ CastEnd \/ Group \/ GroupEnd
    PROVE  Kept
<1>. USE SymbolsDiffer
<1>0. /\ "Primary" \in Calls \ {"Recover"} /\ "Expression" \in Calls \ {"Recover"}
      /\ "Cast" \in Simple /\ "Group" \in Simple
      /\ "Cast" \in Takers /\ "Group" \in Takers /\ {} \subseteq Messages
      /\ "ExpectedTypeNameInCast" \in Messages /\ "ExpectedRParenAfterCastType" \in Messages
  BY DEF Calls, Simple, Do, Takers, Messages
<1>1. CASE Cast
  <2>. DEFINE name == Match(Here + 1, "struct")
              type == TypeFrom(Lexeme(name), name + 1)
              n == CastExpr(type.type, Null)
  <2>1. /\ Running("Primary") /\ At(Here, "(")
        /\ \/ Fail(name, "ExpectedTypeNameInCast")
           \/ /\ At(name, "Identifier")
              /\ \/ Step(Null, <<>>, type.after,
                         type.errors \cup {"ExpectedRParenAfterCastType"})
                 \/ /\ At(type.after, ")")
                    /\ Continue(<<Parse("Primary"), Rest("Cast", n)>>, type.after + 1,
                                type.errors)
    BY <1>1 DEF Cast, CastAhead
  <2>2. ~parsed /\ todo # <<>> /\ Within /\ Ahead(Here) /\ Ahead(Here + 1)
    BY <2>1, Ready, Passing
  <2>3. Ahead(name) /\ (At(name, "Identifier") => Ahead(name + 1))
    BY <2>2, Passing
  <2>4. At(name, "Identifier") => Ahead(type.after) /\ type.errors \subseteq Messages
    BY <2>2, <2>3, Types
  <2>. HIDE DEF name, type, n
  <2>5. CASE Fail(name, "ExpectedTypeNameInCast")
    BY <1>0, <2>2, <2>3, <2>5, Complains
  <2>6. CASE /\ At(name, "Identifier")
             /\ Step(Null, <<>>, type.after, type.errors \cup {"ExpectedRParenAfterCastType"})
    BY <1>0, <2>2, <2>4, <2>6, Complains
  <2>7. CASE /\ At(name, "Identifier") /\ At(type.after, ")")
             /\ Continue(<<Parse("Primary"), Rest("Cast", n)>>, type.after + 1, type.errors)
    <3>1. Ahead(type.after + 1)
      BY <2>2, <2>4, <2>7, Passing
    <3>. QED
      BY <1>0, <2>2, <2>4, <2>7, <3>1, Descends
  <2>. QED
    BY <2>1, <2>5, <2>6, <2>7
<1>2. CASE CastEnd
  <2>. DEFINE n == CastExpr(Node.targetType, returned)
  <2>1. Running("Cast") /\ Complete(n, Here, {})
    BY <1>2 DEF CastEnd
  <2>2. Silent({}) => Whole(n)
    BY <1>0, <2>1, Given, WholeExpressions
  <2>. HIDE DEF n
  <2>. QED
    BY <1>0, <2>1, <2>2, Ready, Answers DEF Whole
<1>3. CASE Group
  <2>1. /\ Running("Primary") /\ At(Here, "(")
        /\ Call(Here + 1, <<Parse("Expression"), Parse("Group")>>)
    BY <1>3 DEF Group
  <2>2. ~parsed /\ todo # <<>> /\ Ahead(Here + 1)
    BY <2>1, Ready, Passing
  <2>. QED
    BY <1>0, <2>1, <2>2, Descends
<1>4. CASE GroupEnd
  <2>. DEFINE messages == Missing(Here, ")", "ExpectedRParenAfterGroupedExpression")
  <2>1. Running("Group") /\ Complete(returned, Match(Here, ")"), messages)
    BY <1>4 DEF GroupEnd
  <2>2. ~parsed /\ todo # <<>> /\ Ahead(Match(Here, ")")) /\ Top.do \in Takers
    BY <1>0, <2>1, Ready, Passing
  <2>3. messages \subseteq Messages
    BY Missed DEF Messages
  <2>. HIDE DEF messages
  <2>. QED
    BY <2>1, <2>2, <2>3, Passes
<1>. QED
  BY <1>1, <1>2, <1>3, <1>4

LEMMA ArgumentTask ==
    ASSUME NEW n, NEW silent, IsSeq(n.arguments),
           silent => \A k \in DOMAIN n.arguments : n.arguments[k] # Null
    PROVE  TaskOK(Rest("Argument", n), silent)
<1>1. /\ Rest("Argument", n) = [do |-> "Argument", levels |-> {}, node |-> n]
      /\ Rest("Argument", n).do = "Argument" /\ Rest("Argument", n).levels = {}
      /\ Rest("Argument", n).node = n
  BY DEF Rest, Task
<1>2. Shape(Rest("Argument", n))
  BY <1>1 DEF Shape, Do, Takers
<1>3. silent => Filled(Rest("Argument", n))
  BY <1>1 DEF Filled
<1>. QED
  BY <1>2, <1>3 DEF TaskOK

LEMMA CallStep ==
    ASSUME Inv, CallFunction \/ Argument
    PROVE  Kept
<1>. USE SymbolsDiffer
<1>0. /\ "Expression" \in Calls \ {"Recover"} /\ "Argument" \in Takers
      /\ {} \subseteq Messages
  BY DEF Calls, Takers
<1>1. CASE CallFunction
  <2>. DEFINE n == CallExpr(Lexeme(Here), <<>>)
  <2>1. /\ Running("Primary") /\ At(Here, "Identifier") /\ At(Here + 1, "(")
        /\ \/ At(Here + 2, ")") /\ Complete(n, Here + 3, {})
           \/ Call(Here + 2, <<Parse("Expression"), Rest("Argument", n)>>)
    BY <1>1 DEF CallFunction, CallAhead
  <2>2. /\ ~parsed /\ todo # <<>> /\ Within /\ Ahead(Here)
        /\ Here + 1 + 1 = Here + 2 /\ Here + 2 + 1 = Here + 3
    BY <2>1, Ready
  <2>3. Ahead(Here + 1)
    BY <2>1, <2>2, Passing
  <2>4. Ahead(Here + 2)
    BY <2>1, <2>2, <2>3, Passing
  <2>5. At(Here + 2, ")") => Ahead(Here + 3)
    BY <2>2, <2>4, Passing
  <2>6. n.arguments = <<>> /\ IsSeq(<<>>)
    BY DEF CallExpr, IsSeq
  <2>7. Whole(n)
    BY WholeExpressions
  <2>. HIDE DEF n
  <2>8. TaskOK(Rest("Argument", n), errors = {})
    <3>1. ASSUME NEW silent
          PROVE  TaskOK(Rest("Argument", n), silent)
      BY <2>6, ArgumentTask
    <3>. QED
      BY <3>1
  <2>9. CASE At(Here + 2, ")") /\ Complete(n, Here + 3, {})
    BY <1>0, <2>2, <2>5, <2>7, <2>9, Answers DEF Whole
  <2>10. CASE Call(Here + 2, <<Parse("Expression"), Rest("Argument", n)>>)
    BY <1>0, <2>2, <2>4, <2>8, <2>10, Descends
  <2>. QED
    BY <2>1, <2>9, <2>10
<1>2. CASE Argument
  <2>. DEFINE n == CallExpr(Node.callee, Append(Node.arguments, returned))
              messages == Missing(Here, ")", "ExpectedRParenAfterArguments")
  <2>1. /\ Running("Argument")
        /\ \/ /\ At(Here, Comma)
              /\ Call(Here + 1, <<Parse("Expression"), Rest("Argument", n)>>)
           \/ Complete(n, Match(Here, ")"), messages)
    BY <1>2 DEF Argument
  <2>2. /\ ~parsed /\ todo # <<>> /\ Within /\ Ahead(Here) /\ Shape(Top)
        /\ Top.do = "Argument" /\ Node = Top.node
    BY <2>1, Ready
  <2>3. Ahead(Match(Here, ")")) /\ (At(Here, Comma) => Ahead(Here + 1))
    BY <2>2, Passing
  <2>4. messages \subseteq Messages
    BY Missed DEF Messages
  <2>5. IsSeq(Node.arguments)
    BY <2>2 DEF Shape
  <2>6. errors = {} =>
           returned # Null /\ \A k \in DOMAIN Node.arguments : Node.arguments[k] # Null
    BY <1>0, <2>2, TopOK DEF Filled
  <2>7. /\ IsSeq(n.arguments)
        /\ errors = {} => \A k \in DOMAIN n.arguments : n.arguments[k] # Null
    <3>1. n.arguments = Append(Node.arguments, returned)
      BY DEF CallExpr
    <3>. HIDE DEF n
    <3>. QED
      BY <2>5, <2>6, <3>1, Appending
  <2>8. errors = {} => Whole(n)
    <3>1. (\A k \in DOMAIN n.arguments : n.arguments[k] # Null) => Whole(n)
      <4>1. n.arguments = Append(Node.arguments, returned)
        BY DEF CallExpr
      <4>. QED
        BY <4>1, WholeExpressions
    <3>. HIDE DEF n
    <3>. QED
      BY <2>7, <3>1
  <2>. HIDE DEF n, messages
  <2>9. TaskOK(Rest("Argument", n), errors = {})
    <3>1. ASSUME NEW silent, silent => \A k \in DOMAIN n.arguments : n.arguments[k] # Null
          PROVE  TaskOK(Rest("Argument", n), silent)
      BY <2>7, <3>1, ArgumentTask
    <3>. QED
      BY <2>7, <3>1
  <2>10. CASE /\ At(Here, Comma)
              /\ Call(Here + 1, <<Parse("Expression"), Rest("Argument", n)>>)
    BY <1>0, <2>2, <2>3, <2>9, <2>10, Descends
  <2>11. CASE Complete(n, Match(Here, ")"), messages)
    BY <2>2, <2>3, <2>4, <2>8, <2>11, Answers DEF Whole, Silent
  <2>. QED
    BY <2>1, <2>10, <2>11
<1>. QED
  BY <1>1, <1>2

LEMMA VariableStep ==
    ASSUME Inv, Variable \/ Member
    PROVE  Kept
<1>0. /\ "Members" \in Simple /\ "Members" \in Takers /\ {} \subseteq Messages
      /\ "ExpectedMemberNameAfterDot" \in Messages
  BY DEF Simple, Do, Takers, Messages
<1>1. CASE Variable
  <2>1. /\ Running("Primary") /\ At(Here, "Identifier")
        /\ Step(VarExpr(Lexeme(Here)), <<Parse("Members")>>, Here + 1, {})
    BY <1>1 DEF Variable
  <2>2. ~parsed /\ todo # <<>> /\ Ahead(Here + 1)
    BY <2>1, Ready, Passing
  <2>3. TaskOK(Parse("Members"), Silent({}))
    <3>1. ASSUME NEW silent
          PROVE  TaskOK(Parse("Members"), silent)
      BY <1>0, SimpleTask
    <3>. QED
      BY <3>1
  <2>4. Whole(VarExpr(Lexeme(Here)))
    BY WholeExpressions
  <2>. QED
    BY <1>0, <2>1, <2>2, <2>3, <2>4, Answers DEF Whole
<1>2. CASE Member
  <2>. DEFINE n == MemberAccessExpr(returned, Lexeme(Here + 1))
  <2>1. /\ Running("Members")
        /\ \/ Call(Here, <<>>)
           \/ At(Here, ".") /\ Continue(<<>>, Here + 1, {"ExpectedMemberNameAfterDot"})
           \/ /\ At(Here, ".") /\ At(Here + 1, "Identifier")
              /\ Step(n, <<Top>>, Here + 2, {})
    BY <1>2 DEF Member
  <2>2. /\ ~parsed /\ todo # <<>> /\ Within /\ Ahead(Here) /\ Here + 1 + 1 = Here + 2
        /\ Top.do \in Takers
    BY <1>0, <2>1, Ready
  <2>3. At(Here, ".") => Ahead(Here + 1)
    BY <2>2, Passing
  <2>4. At(Here, ".") /\ At(Here + 1, "Identifier") => Ahead(Here + 2)
    BY <2>2, <2>3, Passing
  <2>5. Silent({}) => Whole(n)
    <3>1. Silent({}) => returned # Null
      BY <2>2, TopOK DEF Silent
    <3>. QED
      BY <3>1, WholeExpressions
  <2>6. TaskOK(Top, Silent({}))
    BY <2>2, TopOK DEF Silent, TaskOK
  <2>. HIDE DEF n
  <2>7. CASE Call(Here, <<>>)
    BY <2>2, <2>7, Passes
  <2>8. CASE At(Here, ".") /\ Continue(<<>>, Here + 1, {"ExpectedMemberNameAfterDot"})
    BY <1>0, <2>2, <2>3, <2>8, Complains
  <2>9. CASE /\ At(Here, ".") /\ At(Here + 1, "Identifier")
             /\ Step(n, <<Top>>, Here + 2, {})
    BY <1>0, <2>2, <2>4, <2>5, <2>6, <2>9, Answers DEF Whole
  <2>. QED
    BY <2>1, <2>7, <2>8, <2>9
<1>. QED
  BY <1>1, <1>2

(***************************************************************************)
(* The steps together, and the theorems.                                   *)
(***************************************************************************)
LEMMA InitStep ==
    ASSUME Init
    PROVE  Inv /\ Reading!Init
<1>1. /\ m_Tokens \in Inputs /\ m_CurrentPosition = 0 /\ Here = 0 /\ todo = <<>>
      /\ returned = Null /\ program = <<>> /\ errors = {} /\ parsed = FALSE
  BY DEF Init, Here
<1>2. m_Tokens \in Seq(TokenTypes) /\ m_Tokens # <<>>
  BY <1>1, InputAssumption
<1>3. Len(m_Tokens) \in Nat /\ Len(m_Tokens) > 0
  BY <1>2, EmptySeq, LenProperties
<1>4. Len(m_Tokens) - 1 - m_CurrentPosition \in Nat
  BY <1>1, <1>3
<1>5. Within
  BY <1>1, <1>3 DEF Within, Last
<1>6. HolesReported
  BY <1>1 DEF HolesReported, Hole, Null
<1>7. AgendaOK(todo, errors = {}) /\ IsSeq(program)
  BY <1>1, Nothing DEF IsSeq
<1>. QED
  BY <1>1, <1>4, <1>5, <1>6, <1>7 DEF Inv, Reading!Init

LEMMA NextStep ==
    ASSUME Inv, [Next]_vars
    PROVE  Inv' /\ [Reading!Next]_(Reading!vars)
<1>1. CASE UNCHANGED vars
  <2>1. UNCHANGED <<m_Tokens, m_CurrentPosition, todo, returned, program, errors, parsed>>
    BY <1>1 DEF vars
  <2>2. Within' /\ HolesReported'
    BY <2>1 DEF Inv, Within, Here, Last, HolesReported, Hole, Top
  <2>3. AgendaOK(todo', errors' = {})
    BY <2>1 DEF Inv
  <2>. QED
    BY <2>1, <2>2, <2>3 DEF Inv, IsSeq, AgendaOK, TaskOK, Shape, Filled, Reading!vars
<1>2. CASE Declarations
  BY <1>2, TopLevelStep, RecoverStep, InterfaceStep, StructStep, FunctionStep
     DEF Declarations, Kept
<1>3. CASE Statements
  BY <1>3, BlockStep, ReturnStep, VarDeclStep, IfStep, WhileStep, ForStep,
     ExprStatementStep DEF Statements, Kept
<1>4. CASE Expressions
  BY <1>4, OperatorStep, AssignmentStep, UnaryStep, LiteralStep, CastStep, CallStep,
     VariableStep DEF Expressions, Kept
<1>. QED
  BY <1>1, <1>2, <1>3, <1>4 DEF Next

LEMMA Invariance == Spec => []Inv
<1>1. Init => Inv
  BY InitStep
<1>2. Inv /\ [Next]_vars => Inv'
  BY NextStep
<1>. QED
  BY <1>1, <1>2, PTL DEF Spec

\* Whatever the tokens: Peek and Previous, which check nothing, read within the
\* token vector, and what waits on the call stack is what the code can call.
THEOREM TypeCorrect == Spec => []TypeOK
<1>. QED
  BY Invariance, InvType, PTL

\* Whatever the tokens: a tree that lacks a child never comes without a message,
\* which is what lets CodeGen stay silent about the null children it meets.
THEOREM NoSilentHole == Spec => []HolesReported
<1>1. Inv => HolesReported
  BY DEF Inv
<1>. QED
  BY <1>1, Invariance, PTL

\* Whatever the tokens: Parse moves through them from left to right, only adds
\* declarations, and returns at EndOfFile and nowhere else.
THEOREM ParserReads == Spec => Reading!Safety
<1>1. Init => Reading!Init
  BY InitStep
<1>2. Inv /\ [Next]_vars => [Reading!Next]_(Reading!vars)
  BY NextStep
<1>. QED
  BY <1>1, <1>2, Invariance, PTL DEF Spec, Reading!Safety
=============================================================================
