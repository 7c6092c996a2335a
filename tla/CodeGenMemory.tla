--------------------------- MODULE CodeGenMemory ----------------------------
(***************************************************************************)
(* The local variables of CodeGen, for every set of programs: what is      *)
(* stored into their slots, when, and whether a load of them is accounted  *)
(* for.  The alloca of a variable is made before its initializer is        *)
(* visited and declared behind it, so the invariants speak of the slots    *)
(* that have been declared, of those that wait on the agenda, and of the   *)
(* counters of unrolled loops, which are stored to without a look at       *)
(* isMutable.                                                              *)
(***************************************************************************)
EXTENDS CodeGenProofs, FiniteSetTheorems

(***************************************************************************)
(* The properties.                                                         *)
(***************************************************************************)
\* The declarations that are counters of loops that are unrolled.
Counters == {n.init : n \in {m \in AstNode : m.kind = "ForStatement" /\ Unrolled(m)}}

\* The slot of a val that is not the counter of an unrolled loop is stored to
\* at most once.
ValsKept ==
    \A s \in slots :
        ~s[2].isMutable /\ s[2] \notin Counters =>
            \A p, q \in StoresTo(ir, s[1]) : p = q

HasType(decl) == decl.varType.name # "none"

\* The null constant is stored neither into a slot that is declared as a
\* non-nullable pointer, nor into a variable that has the type of one, unless
\* its declaration infers that type, and then by that declaration: right after
\* the alloca.
NullKeptOut ==
    /\ \A s \in slots :
          HasType(s[2]) /\ NonNullable(s[2].varType) =>
              \A p \in StoresTo(ir, s[1]) : ~IsNullConstant(InstAt(ir, p).args[1])
    /\ \A x \in DOMAIN m_variables :
          NonNullable(m_variables[x].type) =>
              \A p \in StoresTo(ir, m_variables[x].value) :
                  IsNullConstant(InstAt(ir, p).args[1]) =>
                      \E s \in slots :
                          /\ s[1] = m_variables[x].value /\ ~HasType(s[2])
                          /\ p = <<s[1].at.block, s[1].at.index + 1>>

\* The only variable of its name in the function.
Sole(s) == \A t \in slots : t[2].name = s[2].name => t = s

\* A slot that a finished function does not load, and whose name stands for no
\* other slot of it, has been reported.
SoleReported ==
    function = Null =>
        \A s \in slots :
            Sole(s) /\ LoadsFrom(ir, s[1]) = {} =>
                <<"Unused variable", s[2].name>> \in errors

(***************************************************************************)
(* What carries them.                                                      *)
(***************************************************************************)
\* The value of an instruction that g has.
Resides(g, v) == v.at.fn = g.fn /\ <<v.at.block, v.at.index>> \in Positions(g)

IsSlot(g, v) == IsAlloca(v) /\ Resides(g, v)

\* The symbol table says of a variable what the declaration of its slot says.
Stands(s, x, info) ==
    /\ s[1] = info.value /\ s[2].name = x
    /\ s[2].isMutable = info.isMutable
    /\ HasType(s[2]) => s[2].varType = info.type

\* The function g, its slots S and its symbol table V agree: every slot is an
\* alloca of g and one declaration's, stores are to allocas of g, a variable in
\* an alloca stands for a slot, one that counts as used has been loaded, and the
\* first two properties hold.
Agree(g, S, V) ==
    /\ \A s \in S : IsSlot(g, s[1])
    /\ \A s, t \in S : s[1] = t[1] => s = t
    /\ \A p \in Positions(g) : InstAt(g, p).op = "store" => IsSlot(g, InstAt(g, p).args[2])
    /\ \A x \in DOMAIN V : IsAlloca(V[x].value) => \E s \in S : Stands(s, x, V[x])
    /\ \A x \in DOMAIN V :
          IsAlloca(V[x].value) /\ V[x].used => LoadsFrom(g, V[x].value) # {}
    /\ \A s \in S :
          ~s[2].isMutable /\ s[2] \notin Counters =>
              \A p, q \in StoresTo(g, s[1]) : p = q
    /\ \A s \in S :
          HasType(s[2]) /\ NonNullable(s[2].varType) =>
              \A p \in StoresTo(g, s[1]) : ~IsNullConstant(InstAt(g, p).args[1])
    /\ \A x \in DOMAIN V :
          NonNullable(V[x].type) =>
              \A p \in StoresTo(g, V[x].value) :
                  IsNullConstant(InstAt(g, p).args[1]) =>
                      \E s \in S : /\ s[1] = V[x].value /\ ~HasType(s[2])
                                  /\ p = <<s[1].at.block, s[1].at.index + 1>>

\* The table knows a variable of every slot's name.
SlotsNamed ==
    function # Null =>
        \A s \in slots : /\ s[2].name \in DOMAIN m_variables
                         /\ IsAlloca(m_variables[s[2].name].value)

\* A slot whose initializer is being visited holds nothing and is nobody's yet.
Reserved(g, S, v) == IsSlot(g, v) /\ StoresTo(g, v) = {} /\ \A s \in S : s[1] # v

Pending ==
    /\ \A k \in DOMAIN todo :
          todo[k].do = "ExplicitInit" =>
              /\ Reserved(ir, slots, todo[k].vals[1])
              /\ \A j \in DOMAIN todo \ {k} :
                    todo[j].do = "ExplicitInit" => todo[j].vals[1] # todo[k].vals[1]
    /\ \A k \in DOMAIN todo : todo[k].do = "InferredInit" => ~HasType(todo[k].node)

\* An unrolled iteration stores a constant into the slot of its loop's counter.
Steps ==
    \A k \in DOMAIN todo :
        todo[k].do = "UnrollStore" =>
            /\ todo[k].vals[2].op = "const"
            /\ \E s \in slots : s[1] = todo[k].vals[1] /\ s[2] \in Counters

\* Between the declaration of the counter and the first iteration nothing can
\* happen to it.
Initializing(t, decl) == t.do \in {"InferredInit", "ExplicitInit"} /\ t.node = decl

Starts ==
    \A k \in DOMAIN todo :
        todo[k].do = "UnrollStart" =>
            LET decl == todo[k].node.init
            IN  /\ Unrolled(todo[k].node)
                /\ \/ /\ k = 1 /\ decl.name \in DOMAIN m_variables
                      /\ <<m_variables[decl.name].value, decl>> \in slots
                   \/ k = 2 /\ todo[1] = Visit(decl)
                   \/ /\ k = 2 /\ Initializing(todo[1], decl)
                      /\ m_LastValue = Constant(decl.initializer.value)
                   \/ /\ k = 3 /\ todo[1] = Visit(decl.initializer)
                      /\ Initializing(todo[2], decl)

Memory ==
    /\ Agree(ir, slots, m_variables)
    /\ SlotsNamed /\ SoleReported
    /\ Pending /\ Steps /\ Starts

(***************************************************************************)
(* What the builder does to the code that is there.                        *)
(***************************************************************************)
\* What has been emitted stays.
Kept(g, h) ==
    /\ h.fn = g.fn
    /\ \A p \in Positions(g) : p \in Positions(h) /\ InstAt(h, p) = InstAt(g, p)

\* And nothing is stored.
Quiet(g, h) ==
    /\ Kept(g, h)
    /\ \A p \in Positions(h) : p \in Positions(g) \/ InstAt(h, p).op # "store"

LEMMA QuietChain ==
    ASSUME NEW f, NEW g, NEW h, Quiet(f, g), Quiet(g, h)
    PROVE  Quiet(f, h)
BY DEF Quiet, Kept

LEMMA QuietSame ==
    ASSUME NEW g
    PROVE  Quiet(g, g)
BY DEF Quiet, Kept

LEMMA PositionsRead ==
    ASSUME NEW g, NEW b, NEW k
    PROVE  <<b, k>> \in Positions(g) <=> b \in DOMAIN g.blocks /\ k \in DOMAIN g.blocks[b].code
BY DEF Positions

LEMMA PositionsArePairs ==
    ASSUME NEW g, NEW p \in Positions(g)
    PROVE  p = <<p[1], p[2]>> /\ p[1] \in DOMAIN g.blocks /\ p[2] \in DOMAIN g.blocks[p[1]].code
BY DEF Positions

\* The place where g emits next.
NextPlace(g) == <<g.at, Len(g.blocks[g.at].code) + 1>>

LEMMA EmitPlaces ==
    ASSUME NEW g, Built(g), NEW inst
    PROVE  /\ Positions(Emit(g, inst)) = Positions(g) \cup {NextPlace(g)}
           /\ NextPlace(g) \notin Positions(g)
           /\ InstAt(Emit(g, inst), NextPlace(g)) = inst
           /\ Kept(g, Emit(g, inst))
<1>. DEFINE h == Emit(g, inst)
            here == g.blocks[g.at]
            longer == Block(here.placed, Append(here.code, inst))
            blocks == [g.blocks EXCEPT ![g.at] = longer]
            old == here.code
            new == Append(old, inst)
            n == Len(old) + 1
<1>1. PICK S : \A b \in DOMAIN g.blocks : g.blocks[b].code \in Seq(S)
  BY DEF Built
<1>2. g.at \in DOMAIN g.blocks
  BY DEF Built
<1>3. h = Func(g.fn, blocks, g.at)
  BY DEF Emit
<1>4. h.blocks = blocks /\ h.fn = g.fn
  BY <1>3 DEF Func
<1>5. longer.code = new
  BY DEF Block
<1>. HIDE DEF longer
<1>6. /\ DOMAIN h.blocks = DOMAIN g.blocks
      /\ h.blocks[g.at].code = new
      /\ \A b \in DOMAIN g.blocks : b # g.at => h.blocks[b] = g.blocks[b]
  BY <1>2, <1>4, <1>5
<1>7. old \in Seq(S) /\ S \subseteq S \cup {inst} /\ old = g.blocks[g.at].code
  BY <1>1, <1>2
<1>. HIDE DEF old, h, blocks
<1>8. old \in Seq(S \cup {inst}) /\ inst \in S \cup {inst}
  BY <1>7, SeqMonotonic
<1>9. /\ new \in Seq(S \cup {inst}) /\ Len(new) = n /\ Len(old) \in Nat
      /\ \A k \in 1..Len(old) : new[k] = old[k]
      /\ new[n] = inst
  BY <1>8, AppendProperties, LenProperties
<1>10. DOMAIN old = 1..Len(old) /\ DOMAIN new = 1..n
  BY <1>8, <1>9, LenProperties
<1>11. /\ DOMAIN new = DOMAIN old \cup {n} /\ n \notin DOMAIN old
       /\ \A k \in DOMAIN old : new[k] = old[k]
       /\ new[n] = inst
  BY <1>9, <1>10
<1>12. NextPlace(g) = <<g.at, n>>
  BY <1>7 DEF NextPlace
<1>. HIDE DEF new, n
<1>13. NextPlace(g) \notin Positions(g)
  BY <1>7, <1>11, <1>12, PositionsRead
<1>14. \A b, k : <<b, k>> \in Positions(h) <=> <<b, k>> \in Positions(g) \/ <<b, k>> = <<g.at, n>>
  <2>. SUFFICES ASSUME NEW b, NEW k
                PROVE  <<b, k>> \in Positions(h)
                          <=> <<b, k>> \in Positions(g) \/ <<b, k>> = <<g.at, n>>
    OBVIOUS
  <2>1. CASE b = g.at
    BY <1>2, <1>6, <1>7, <1>11, <2>1, PositionsRead
  <2>2. CASE b # g.at
    BY <1>6, <2>2, PositionsRead
  <2>. QED
    BY <2>1, <2>2
<1>15. Positions(h) = Positions(g) \cup {<<g.at, n>>}
  <2>1. \A p : p \in Positions(h) => p \in Positions(g) \cup {<<g.at, n>>}
    BY <1>14, PositionsArePairs
  <2>2. \A p : p \in Positions(g) => p \in Positions(h)
    BY <1>14, PositionsArePairs
  <2>3. <<g.at, n>> \in Positions(h)
    BY <1>14
  <2>. QED
    BY <2>1, <2>2, <2>3
<1>16. InstAt(h, <<g.at, n>>) = inst
  BY <1>6, <1>11 DEF InstAt
<1>17. \A p \in Positions(g) : InstAt(h, p) = InstAt(g, p)
  <2>. SUFFICES ASSUME NEW p \in Positions(g)
                PROVE  InstAt(h, p) = InstAt(g, p)
    OBVIOUS
  <2>1. p[1] \in DOMAIN g.blocks /\ p[2] \in DOMAIN g.blocks[p[1]].code
    BY PositionsArePairs
  <2>2. CASE p[1] = g.at
    BY <1>6, <1>7, <1>11, <2>1, <2>2 DEF InstAt
  <2>3. CASE p[1] # g.at
    BY <1>6, <2>1, <2>3 DEF InstAt
  <2>. QED
    BY <2>2, <2>3
<1>. QED
  BY <1>4, <1>12, <1>13, <1>15, <1>16, <1>17 DEF h, Kept

LEMMA EmitQuiet ==
    ASSUME NEW g, Built(g), NEW inst, inst.op # "store"
    PROVE  /\ Quiet(g, Emit(g, inst)) /\ Built(Emit(g, inst))
           /\ Quiet(g, Build(g, inst).ir) /\ Built(Build(g, inst).ir)
           /\ DOMAIN Build(g, inst).ir.blocks = DOMAIN g.blocks
           /\ DOMAIN Emit(g, inst).blocks = DOMAIN g.blocks
<1>1. Quiet(g, Emit(g, inst)) /\ Built(Emit(g, inst)) /\ DOMAIN Emit(g, inst).blocks = DOMAIN g.blocks
  BY EmitPlaces, EmitEffect DEF Quiet
<1>2. Build(g, inst).ir = Emit(g, inst)
  BY DEF Build
<1>. QED
  BY <1>1, <1>2

\* The instructions of the same blocks.
LEMMA SameCodeQuiet ==
    ASSUME NEW g, NEW h, h.fn = g.fn,
           \A b \in DOMAIN g.blocks : b \in DOMAIN h.blocks /\ h.blocks[b].code = g.blocks[b].code,
           \A b \in DOMAIN h.blocks \ DOMAIN g.blocks : h.blocks[b].code = <<>>
    PROVE  Quiet(g, h)
<1>1. ASSUME NEW p \in Positions(g)
      PROVE  p \in Positions(h) /\ InstAt(h, p) = InstAt(g, p)
  BY PositionsArePairs, PositionsRead DEF InstAt
<1>2. ASSUME NEW p \in Positions(h)
      PROVE  p \in Positions(g)
  <2>1. p = <<p[1], p[2]>> /\ p[1] \in DOMAIN h.blocks /\ p[2] \in DOMAIN h.blocks[p[1]].code
    BY PositionsArePairs
  <2>2. p[1] \in DOMAIN g.blocks
    BY <2>1
  <2>. QED
    BY <2>1, <2>2, PositionsRead
<1>. QED
  BY <1>1, <1>2 DEF Quiet, Kept

LEMMA EnterQuiet ==
    ASSUME NEW g, Built(g), NEW b \in DOMAIN g.blocks
    PROVE  Quiet(g, Enter(g, b)) /\ Built(Enter(g, b))
<1>. DEFINE h == Enter(g, b)
            entered == Block(TRUE, g.blocks[b].code)
            blocks == [g.blocks EXCEPT ![b] = entered]
<1>1. h.blocks = blocks /\ h.fn = g.fn
  BY DEF Enter, Func
<1>2. entered.code = g.blocks[b].code
  BY DEF Block
<1>. HIDE DEF entered, h
<1>3. /\ DOMAIN h.blocks = DOMAIN g.blocks
      /\ \A c \in DOMAIN g.blocks : h.blocks[c].code = g.blocks[c].code
  BY <1>1, <1>2
<1>4. Quiet(g, h)
  BY <1>1, <1>3, SameCodeQuiet
<1>. QED
  BY <1>4, EnterEffect DEF h

LEMMA LeaveQuiet ==
    ASSUME NEW g, Built(g), NEW branch, branch.op # "store", NEW b \in DOMAIN g.blocks
    PROVE  Quiet(g, Leave(g, branch, b)) /\ Built(Leave(g, branch, b))
BY EmitQuiet, EnterQuiet, QuietChain DEF Leave

LEMMA AddBlocksQuiet ==
    ASSUME NEW g \in WellBuilt, NEW n \in Nat
    PROVE  Quiet(g, AddBlocks(g, n)) /\ Built(AddBlocks(g, n))
<1>. DEFINE h == AddBlocks(g, n)
            empty == Block(FALSE, <<>>)
            new == [k \in 1..n |-> empty]
            blocks == g.blocks \o new
<1>1. g.blocks \in Seq(Blocks) /\ Len(g.blocks) \in Nat
      /\ DOMAIN g.blocks = 1..Len(g.blocks)
  BY LenProperties DEF WellBuilt, Functions, Blocks
<1>2. empty \in Blocks /\ empty.code = <<>>
  BY DEF Blocks, Block
<1>3. h.blocks = blocks /\ h.fn = g.fn
  BY DEF AddBlocks, Func
<1>. HIDE DEF empty
<1>4. new \in Seq(Blocks) /\ \A k \in 1..n : new[k] = empty
  BY <1>2
<1>5. Len(new) = n
  BY <1>4, LenProperties
<1>. HIDE DEF new
<1>6. /\ blocks \in Seq(Blocks) /\ Len(blocks) = Len(g.blocks) + n
      /\ \A b \in 1..Len(g.blocks) + n :
            blocks[b] = IF b <= Len(g.blocks) THEN g.blocks[b]
                        ELSE new[b - Len(g.blocks)]
  BY <1>1, <1>4, <1>5, ConcatProperties
<1>7. DOMAIN h.blocks = 1..Len(g.blocks) + n
  BY <1>3, <1>6, LenProperties
<1>. HIDE DEF blocks, h
<1>8. \A b \in DOMAIN g.blocks : b \in DOMAIN h.blocks /\ h.blocks[b] = g.blocks[b]
  BY <1>1, <1>3, <1>6, <1>7
<1>9. \A b \in DOMAIN h.blocks \ DOMAIN g.blocks : h.blocks[b].code = <<>>
  <2>1. ASSUME NEW b \in DOMAIN h.blocks, b \notin DOMAIN g.blocks
        PROVE  h.blocks[b] = empty
    <3>1. b - Len(g.blocks) \in 1..n /\ ~(b <= Len(g.blocks)) /\ b \in 1..Len(g.blocks) + n
      BY <1>1, <1>7, <2>1
    <3>. QED
      BY <1>3, <1>4, <1>6, <3>1
  <2>. QED
    BY <1>2, <2>1
<1>10. Quiet(g, h)
  BY <1>3, <1>8, <1>9, SameCodeQuiet
<1>. QED
  BY <1>10, AddBlocksEffect DEF h

LEMMA ConvertQuiet ==
    ASSUME NEW g, Built(g), NEW v
    PROVE  /\ Quiet(g, ToBool(g, v).ir) /\ Built(ToBool(g, v).ir)
           /\ Quiet(g, CondBool(g, v).ir) /\ Built(CondBool(g, v).ir)
           /\ DOMAIN ToBool(g, v).ir.blocks = DOMAIN g.blocks
           /\ DOMAIN CondBool(g, v).ir.blocks = DOMAIN g.blocks
<1>1. \A a : Compute("icmp.ne", "i1", a).op = "icmp.ne"
  BY DEF Compute, Inst
<1>. QED
  BY <1>1, EmitQuiet, QuietSame DEF ToBool, CondBool

(***************************************************************************)
(* What that means for slots.                                              *)
(***************************************************************************)
LEMMA QuietSlots ==
    ASSUME NEW g, NEW h, Quiet(g, h), NEW v
    PROVE  /\ StoresTo(h, v) = StoresTo(g, v)
           /\ \A p \in StoresTo(g, v) : InstAt(h, p) = InstAt(g, p)
           /\ LoadsFrom(g, v) \subseteq LoadsFrom(h, v)
           /\ IsSlot(g, v) => IsSlot(h, v)
<1>1. \A p : p \in StoresTo(h, v) <=> p \in StoresTo(g, v)
  BY DEF StoresTo, Quiet, Kept
<1>. QED
  BY <1>1 DEF StoresTo, LoadsFrom, Quiet, Kept, IsSlot, Resides

LEMMA StoreSlots ==
    ASSUME NEW g, Built(g), NEW w, NEW slot, NEW v
    PROVE  LET h == Emit(g, Store(w, slot))
           IN  /\ StoresTo(h, v) =
                     StoresTo(g, v) \cup (IF v = slot THEN {NextPlace(g)} ELSE {})
               /\ \A p \in StoresTo(g, v) : InstAt(h, p) = InstAt(g, p)
               /\ InstAt(h, NextPlace(g)).args[1] = w
               /\ LoadsFrom(g, v) \subseteq LoadsFrom(h, v)
               /\ IsSlot(g, v) => IsSlot(h, v)
<1>. DEFINE store == Store(w, slot)
            h == Emit(g, store)
<1>1. store.op = "store" /\ store.args[1] = w /\ store.args[2] = slot
  BY DEF Store, Inst
<1>. HIDE DEF store
<1>2. /\ Positions(h) = Positions(g) \cup {NextPlace(g)}
      /\ NextPlace(g) \notin Positions(g)
      /\ InstAt(h, NextPlace(g)) = store
      /\ Kept(g, h)
  BY EmitPlaces
<1>. HIDE DEF h
<1>3. \A p : p \in StoresTo(h, v)
              <=> p \in StoresTo(g, v) \/ (v = slot /\ p = NextPlace(g))
  BY <1>1, <1>2 DEF StoresTo, Kept
<1>4. StoresTo(h, v) = StoresTo(g, v) \cup (IF v = slot THEN {NextPlace(g)} ELSE {})
  BY <1>3
<1>5. \A p \in StoresTo(g, v) : InstAt(h, p) = InstAt(g, p)
  BY <1>2 DEF StoresTo, Kept
<1>6. LoadsFrom(g, v) \subseteq LoadsFrom(h, v)
  BY <1>2 DEF LoadsFrom, Kept
<1>7. IsSlot(g, v) => IsSlot(h, v)
  BY <1>2 DEF Kept, IsSlot, Resides
<1>8. InstAt(h, NextPlace(g)).args[1] = w
  BY <1>1, <1>2
<1>. QED
  BY <1>4, <1>5, <1>6, <1>7, <1>8 DEF h, store

\* An alloca made now is of the function, and is no slot of it so far.
LEMMA NewSlot ==
    ASSUME NEW g, Built(g), NEW type
    PROVE  LET slot == Build(g, Alloca(type)) IN
           /\ IsSlot(slot.ir, slot.val) /\ ~IsSlot(g, slot.val)
           /\ Quiet(g, slot.ir) /\ Built(slot.ir)
           /\ slot.val.elem = type
           /\ <<slot.val.at.block, slot.val.at.index>> = NextPlace(g)
           /\ NextPlace(slot.ir) = <<slot.val.at.block, slot.val.at.index + 1>>
<1>. DEFINE slot == Build(g, Alloca(type))
            inst == Alloca(type)
<1>1. inst.op = "alloca" /\ inst.elem = type
  BY DEF Alloca, Inst
<1>2. slot.ir = Emit(g, inst) /\ slot.val = Result(g, inst)
  BY DEF Build
<1>. HIDE DEF inst, slot
<1>3. /\ slot.val.op = "alloca" /\ slot.val.elem = type
      /\ slot.val.at = Place(g.fn, g.at, Len(g.blocks[g.at].code) + 1)
  BY <1>1, <1>2 DEF Result, Val
<1>4. /\ slot.val.at.fn = g.fn /\ slot.val.at.block = g.at
      /\ slot.val.at.index = Len(g.blocks[g.at].code) + 1
  BY <1>3 DEF Place
<1>5. <<slot.val.at.block, slot.val.at.index>> = NextPlace(g)
  BY <1>4 DEF NextPlace
<1>6. /\ NextPlace(g) \in Positions(slot.ir) /\ NextPlace(g) \notin Positions(g)
      /\ slot.ir.fn = g.fn /\ Quiet(g, slot.ir) /\ Built(slot.ir)
  BY <1>1, <1>2, EmitPlaces, EmitQuiet DEF Kept
<1>7. IsSlot(slot.ir, slot.val) /\ ~IsSlot(g, slot.val)
  BY <1>3, <1>4, <1>5, <1>6 DEF IsSlot, Resides, IsAlloca
<1>8. NextPlace(slot.ir) = <<g.at, Len(g.blocks[g.at].code) + 2>>
  <2>1. PICK S : \A b \in DOMAIN g.blocks : g.blocks[b].code \in Seq(S)
    BY DEF Built
  <2>2. g.at \in DOMAIN g.blocks
    BY DEF Built
  <2>. DEFINE code == g.blocks[g.at].code
              longer == Block(g.blocks[g.at].placed, Append(code, inst))
              blocks == [g.blocks EXCEPT ![g.at] = longer]
  <2>3. slot.ir = Func(g.fn, blocks, g.at)
    BY <1>2 DEF Emit
  <2>4. longer.code = Append(code, inst)
    BY DEF Block
  <2>. HIDE DEF longer
  <2>5. slot.ir.blocks[g.at].code = Append(code, inst) /\ slot.ir.at = g.at
    BY <2>2, <2>3, <2>4 DEF Func
  <2>6. code \in Seq(S)
    BY <2>1, <2>2
  <2>. HIDE DEF code
  <2>7. code \in Seq(S \cup {inst}) /\ inst \in S \cup {inst}
    BY <2>6, SeqMonotonic
  <2>8. Len(Append(code, inst)) = Len(code) + 1 /\ Len(code) \in Nat
    BY <2>7, AppendProperties, LenProperties
  <2>9. Len(Append(code, inst)) + 1 = Len(code) + 2
    BY <2>8
  <2>. QED
    BY <2>5, <2>9 DEF NextPlace, code
<1>9. (Len(g.blocks[g.at].code) + 1) + 1 = Len(g.blocks[g.at].code) + 2
  <2>1. PICK S : \A b \in DOMAIN g.blocks : g.blocks[b].code \in Seq(S)
    BY DEF Built
  <2>2. g.blocks[g.at].code \in Seq(S)
    BY <2>1 DEF Built
  <2>3. Len(g.blocks[g.at].code) \in Nat
    BY <2>2, LenProperties
  <2>. QED
    BY <2>3
<1>. QED
  BY <1>3, <1>4, <1>5, <1>6, <1>7, <1>8, <1>9 DEF slot

(***************************************************************************)
(* The agreement of code, slots and symbol table.                          *)
(***************************************************************************)
\* Instructions that store nothing do not disturb it.
LEMMA QuietAgrees ==
    ASSUME NEW g, NEW h, NEW S, NEW V, Agree(g, S, V), Quiet(g, h)
    PROVE  Agree(h, S, V)
<1>1. \A v : /\ StoresTo(h, v) = StoresTo(g, v)
             /\ \A p \in StoresTo(g, v) : InstAt(h, p) = InstAt(g, p)
             /\ LoadsFrom(g, v) \subseteq LoadsFrom(h, v)
             /\ IsSlot(g, v) => IsSlot(h, v)
  BY QuietSlots
<1>2. \A p \in Positions(h) : InstAt(h, p).op = "store" => IsSlot(h, InstAt(h, p).args[2])
  BY <1>1 DEF Agree, Quiet, Kept
<1>3. \A s \in S : IsSlot(h, s[1])
  BY <1>1 DEF Agree
<1>4. \A x \in DOMAIN V :
          IsAlloca(V[x].value) /\ V[x].used => LoadsFrom(h, V[x].value) # {}
  BY <1>1 DEF Agree
<1>5. \A s \in S :
          ~s[2].isMutable /\ s[2] \notin Counters =>
              \A p, q \in StoresTo(h, s[1]) : p = q
  BY <1>1 DEF Agree
<1>6. \A s \in S :
          HasType(s[2]) /\ NonNullable(s[2].varType) =>
              \A p \in StoresTo(h, s[1]) : ~IsNullConstant(InstAt(h, p).args[1])
  BY <1>1 DEF Agree
<1>7. \A x \in DOMAIN V :
          NonNullable(V[x].type) =>
              \A p \in StoresTo(h, V[x].value) :
                  IsNullConstant(InstAt(h, p).args[1]) =>
                      \E s \in S : /\ s[1] = V[x].value /\ ~HasType(s[2])
                                  /\ p = <<s[1].at.block, s[1].at.index + 1>>
  BY <1>1 DEF Agree
<1>. QED
  BY <1>2, <1>3, <1>4, <1>5, <1>6, <1>7 DEF Agree

\* A store into a slot that may be stored to again, or has not been, of a value
\* that its variable may hold.
LEMMA StoreAgrees ==
    ASSUME NEW g, Built(g), NEW S, NEW V, Agree(g, S, V), NEW w, NEW slot, IsSlot(g, slot),
           \A s \in S : s[1] = slot =>
              s[2].isMutable \/ s[2] \in Counters \/ StoresTo(g, slot) = {},
           IsNullConstant(w) =>
              /\ \A s \in S : s[1] = slot => ~(HasType(s[2]) /\ NonNullable(s[2].varType))
              /\ \A x \in DOMAIN V : V[x].value = slot => ~NonNullable(V[x].type)
    PROVE  Agree(Emit(g, Store(w, slot)), S, V)
<1>. DEFINE h == Emit(g, Store(w, slot))
<1>1. \A v : /\ StoresTo(h, v) =
                   StoresTo(g, v) \cup (IF v = slot THEN {NextPlace(g)} ELSE {})
             /\ \A p \in StoresTo(g, v) : InstAt(h, p) = InstAt(g, p)
             /\ InstAt(h, NextPlace(g)).args[1] = w
             /\ LoadsFrom(g, v) \subseteq LoadsFrom(h, v)
             /\ IsSlot(g, v) => IsSlot(h, v)
  BY StoreSlots
<1>2. \A p \in Positions(h) : InstAt(h, p).op = "store" => IsSlot(h, InstAt(h, p).args[2])
  <2>1. /\ Positions(h) = Positions(g) \cup {NextPlace(g)} /\ Kept(g, h)
        /\ InstAt(h, NextPlace(g)) = Store(w, slot)
    BY EmitPlaces
  <2>2. Store(w, slot).args[2] = slot
    BY DEF Store, Inst
  <2>. HIDE DEF h
  <2>. QED
    BY <1>1, <2>1, <2>2 DEF Agree, Kept
<1>. HIDE DEF h
<1>3. \A s \in S : IsSlot(h, s[1])
  BY <1>1 DEF Agree
<1>4. \A x \in DOMAIN V :
          IsAlloca(V[x].value) /\ V[x].used => LoadsFrom(h, V[x].value) # {}
  BY <1>1 DEF Agree
<1>5. ASSUME NEW s \in S, ~s[2].isMutable, s[2] \notin Counters
      PROVE  \A p, q \in StoresTo(h, s[1]) : p = q
  <2>1. CASE s[1] = slot
    <3>1. StoresTo(h, s[1]) = {NextPlace(g)}
      BY <1>1, <1>5, <2>1
    <3>. QED
      BY <3>1
  <2>2. CASE s[1] # slot
    BY <1>1, <1>5, <2>2 DEF Agree
  <2>. QED
    BY <2>1, <2>2
<1>6. ASSUME NEW s \in S, HasType(s[2]), NonNullable(s[2].varType),
             NEW p \in StoresTo(h, s[1])
      PROVE  ~IsNullConstant(InstAt(h, p).args[1])
  <2>1. CASE p \in StoresTo(g, s[1])
    BY <1>1, <1>6, <2>1 DEF Agree
  <2>2. CASE p \notin StoresTo(g, s[1])
    <3>1. p = NextPlace(g) /\ s[1] = slot
      BY <1>1, <1>6, <2>2
    <3>. QED
      BY <1>1, <1>6, <3>1
  <2>. QED
    BY <2>1, <2>2
<1>7. ASSUME NEW x \in DOMAIN V, NonNullable(V[x].type), NEW p \in StoresTo(h, V[x].value),
             IsNullConstant(InstAt(h, p).args[1])
      PROVE  \E s \in S : /\ s[1] = V[x].value /\ ~HasType(s[2])
                          /\ p = <<s[1].at.block, s[1].at.index + 1>>
  <2>1. CASE p \in StoresTo(g, V[x].value)
    BY <1>1, <1>7, <2>1 DEF Agree
  <2>2. CASE p \notin StoresTo(g, V[x].value)
    <3>1. p = NextPlace(g) /\ V[x].value = slot
      BY <1>1, <1>7, <2>2
    <3>. QED
      BY <1>1, <1>7, <3>1
  <2>. QED
    BY <2>1, <2>2
<1>8. Agree(h, S, V)
  BY <1>2, <1>3, <1>4, <1>5, <1>6, <1>7 DEF Agree
<1>. QED
  BY <1>8 DEF h

Declared(V, name, info) ==
    [x \in DOMAIN V \cup {name} |-> IF x = name THEN info ELSE V[x]]

\* A slot is declared after at most one store into it.
LEMMA DeclareAgrees ==
    ASSUME NEW g, NEW S, NEW V, Agree(g, S, V), NEW n, NEW info,
           IsSlot(g, info.value), \A s \in S : s[1] # info.value,
           ~info.used, info.isMutable = n.isMutable, HasType(n) => info.type = n.varType,
           \A p, q \in StoresTo(g, info.value) : p = q,
           \A p \in StoresTo(g, info.value) :
              NonNullable(info.type) /\ IsNullConstant(InstAt(g, p).args[1]) =>
                  /\ ~HasType(n)
                  /\ p = <<info.value.at.block, info.value.at.index + 1>>
    PROVE  Agree(g, S \cup {<<info.value, n>>}, Declared(V, n.name, info))
<1>. DEFINE new == <<info.value, n>>
            T == S \cup {new}
            W == Declared(V, n.name, info)
<1>1. /\ DOMAIN W = DOMAIN V \cup {n.name} /\ W[n.name] = info
      /\ \A x \in DOMAIN W : x # n.name => x \in DOMAIN V /\ W[x] = V[x]
  BY DEF Declared
<1>2. new[1] = info.value /\ new[2] = n
  OBVIOUS
<1>3. new \in T /\ S \subseteq T /\ \A s \in T : s \in S \/ s = new
  OBVIOUS
<1>. HIDE DEF new, T, W
<1>4. \A s \in T : IsSlot(g, s[1])
  BY <1>2, <1>3 DEF Agree
<1>5. \A s, t \in T : s[1] = t[1] => s = t
  BY <1>2, <1>3 DEF Agree
<1>6. ASSUME NEW x \in DOMAIN W, IsAlloca(W[x].value)
      PROVE  \E s \in T : Stands(s, x, W[x])
  <2>1. CASE x = n.name
    <3>1. Stands(new, x, W[x])
      BY <1>1, <1>2, <2>1 DEF Stands
    <3>. QED
      BY <1>3, <3>1
  <2>2. CASE x # n.name
    BY <1>1, <1>3, <1>6, <2>2 DEF Agree
  <2>. QED
    BY <2>1, <2>2
<1>7. \A x \in DOMAIN W :
          IsAlloca(W[x].value) /\ W[x].used => LoadsFrom(g, W[x].value) # {}
  BY <1>1 DEF Agree
<1>8. \A s \in T :
          ~s[2].isMutable /\ s[2] \notin Counters =>
              \A p, q \in StoresTo(g, s[1]) : p = q
  BY <1>2, <1>3 DEF Agree
<1>9. \A s \in T :
          HasType(s[2]) /\ NonNullable(s[2].varType) =>
              \A p \in StoresTo(g, s[1]) : ~IsNullConstant(InstAt(g, p).args[1])
  BY <1>2, <1>3 DEF Agree
<1>10. ASSUME NEW x \in DOMAIN W, NonNullable(W[x].type), NEW p \in StoresTo(g, W[x].value),
              IsNullConstant(InstAt(g, p).args[1])
       PROVE  \E s \in T : /\ s[1] = W[x].value /\ ~HasType(s[2])
                           /\ p = <<s[1].at.block, s[1].at.index + 1>>
  <2>1. CASE x = n.name
    BY <1>1, <1>2, <1>3, <1>10, <2>1
  <2>2. CASE x # n.name
    BY <1>1, <1>3, <1>10, <2>2 DEF Agree
  <2>. QED
    BY <2>1, <2>2
<1>11. \A p \in Positions(g) : InstAt(g, p).op = "store" => IsSlot(g, InstAt(g, p).args[2])
  BY DEF Agree
<1>12. Agree(g, T, W)
  BY <1>4, <1>5, <1>6, <1>7, <1>8, <1>9, <1>10, <1>11 DEF Agree
<1>. QED
  BY <1>12 DEF T, W, new

\* A variable counts as used from its first load on.
LEMMA UseAgrees ==
    ASSUME NEW g, NEW S, NEW V, Agree(g, S, V), NEW W, DOMAIN W = DOMAIN V,
           \A x \in DOMAIN V :
              /\ W[x].value = V[x].value /\ W[x].type = V[x].type
              /\ W[x].isMutable = V[x].isMutable
              /\ \/ W[x].used = V[x].used
                 \/ IsAlloca(V[x].value) => LoadsFrom(g, V[x].value) # {}
    PROVE  Agree(g, S, W)
<1>1. \A x \in DOMAIN W : IsAlloca(W[x].value) => \E s \in S : Stands(s, x, W[x])
  <2>. SUFFICES ASSUME NEW x \in DOMAIN W, IsAlloca(W[x].value)
                PROVE  \E s \in S : Stands(s, x, W[x])
    OBVIOUS
  <2>1. PICK s \in S : Stands(s, x, V[x])
    BY DEF Agree
  <2>2. Stands(s, x, W[x])
    BY <2>1 DEF Stands
  <2>. QED
    BY <2>2
<1>2. \A x \in DOMAIN W :
          IsAlloca(W[x].value) /\ W[x].used => LoadsFrom(g, W[x].value) # {}
  BY DEF Agree
<1>3. \A x \in DOMAIN W :
          NonNullable(W[x].type) =>
              \A p \in StoresTo(g, W[x].value) :
                  IsNullConstant(InstAt(g, p).args[1]) =>
                      \E s \in S : /\ s[1] = W[x].value /\ ~HasType(s[2])
                                  /\ p = <<s[1].at.block, s[1].at.index + 1>>
  BY DEF Agree
<1>. QED
  BY <1>1, <1>2, <1>3 DEF Agree

\* Leaving names out does not disturb it either.
LEMMA FewerAgree ==
    ASSUME NEW g, NEW S, NEW V, Agree(g, S, V), NEW W, DOMAIN W \subseteq DOMAIN V,
           \A x \in DOMAIN W : W[x] = V[x]
    PROVE  Agree(g, S, W)
<1>1. /\ \A x \in DOMAIN W : IsAlloca(W[x].value) => \E s \in S : Stands(s, x, W[x])
      /\ \A x \in DOMAIN W :
            IsAlloca(W[x].value) /\ W[x].used => LoadsFrom(g, W[x].value) # {}
  BY DEF Agree
<1>2. \A x \in DOMAIN W :
          NonNullable(W[x].type) =>
              \A p \in StoresTo(g, W[x].value) :
                  IsNullConstant(InstAt(g, p).args[1]) =>
                      \E s \in S : /\ s[1] = W[x].value /\ ~HasType(s[2])
                                  /\ p = <<s[1].at.block, s[1].at.index + 1>>
  BY DEF Agree
<1>. QED
  BY <1>1, <1>2 DEF Agree

\* A function begins with no code, no slots and its arguments.
LEMMA NewAgrees ==
    ASSUME NEW g, Positions(g) = {}, NEW V, \A x \in DOMAIN V : ~IsAlloca(V[x].value)
    PROVE  Agree(g, {}, V)
BY DEF Agree, StoresTo

(***************************************************************************)
(* The agenda.                                                             *)
(***************************************************************************)
\* The tasks that the invariants speak of.
Watched == {"InferredInit", "ExplicitInit", "UnrollStart", "UnrollStore"}

Calm(tasks) == \A k \in DOMAIN tasks : tasks[k].do \notin Watched

\* What a task must satisfy when it is put on the agenda.
Admitted(tasks) ==
    \A k \in DOMAIN tasks :
        /\ tasks[k].do = "ExplicitInit" =>
              /\ Reserved(ir', slots', tasks[k].vals[1])
              /\ \A j \in DOMAIN tasks \ {k} : tasks[j].do # "ExplicitInit"
              /\ \A j \in DOMAIN todo \ {1} :
                    todo[j].do = "ExplicitInit" => todo[j].vals[1] # tasks[k].vals[1]
        /\ tasks[k].do = "InferredInit" => ~HasType(tasks[k].node)
        /\ tasks[k].do = "UnrollStore" =>
              /\ tasks[k].vals[2].op = "const"
              /\ \E s \in slots' : s[1] = tasks[k].vals[1] /\ s[2] \in Counters

LEMMA WaitingKept ==
    ASSUME TypeOK, Pending, Steps, todo # <<>>, NEW S, NEW tasks \in Seq(S),
           Proceed(tasks), Admitted(tasks), slots \subseteq slots',
           \A k \in DOMAIN todo \ {1} :
              todo[k].do = "ExplicitInit" => Reserved(ir', slots', todo[k].vals[1])
    PROVE  Pending' /\ Steps'
<1>1. /\ 1 \in DOMAIN todo /\ Top = todo[1]
      /\ DOMAIN tasks \subseteq DOMAIN todo'
      /\ \A k \in DOMAIN tasks : todo'[k] = tasks[k]
      /\ \A k \in DOMAIN todo' \ DOMAIN tasks :
            /\ Was(k, tasks) \in DOMAIN todo /\ Was(k, tasks) # 1
            /\ todo'[k] = todo[Was(k, tasks)]
      /\ \A j, k \in DOMAIN todo' \ DOMAIN tasks :
            j # k => Was(j, tasks) # Was(k, tasks)
  BY Agenda
<1>2. ASSUME NEW k \in DOMAIN todo', todo'[k].do = "ExplicitInit"
      PROVE  /\ Reserved(ir', slots', todo'[k].vals[1])
             /\ \A j \in DOMAIN todo' \ {k} :
                   todo'[j].do = "ExplicitInit" => todo'[j].vals[1] # todo'[k].vals[1]
  <2>1. CASE k \in DOMAIN tasks
    <3>1. /\ Reserved(ir', slots', tasks[k].vals[1]) /\ todo'[k] = tasks[k]
          /\ \A j \in DOMAIN tasks \ {k} : tasks[j].do # "ExplicitInit"
          /\ \A j \in DOMAIN todo \ {1} :
                todo[j].do = "ExplicitInit" => todo[j].vals[1] # tasks[k].vals[1]
      BY <1>1, <1>2, <2>1 DEF Admitted
    <3>2. ASSUME NEW j \in DOMAIN todo' \ {k}, todo'[j].do = "ExplicitInit"
          PROVE  todo'[j].vals[1] # todo'[k].vals[1]
      BY <1>1, <3>1, <3>2
    <3>. QED
      BY <3>1, <3>2
  <2>2. CASE k \notin DOMAIN tasks
    <3>1. /\ Was(k, tasks) \in DOMAIN todo \ {1} /\ todo'[k] = todo[Was(k, tasks)]
      BY <1>1, <2>2
    <3>2. Reserved(ir', slots', todo'[k].vals[1])
      BY <1>2, <3>1
    <3>3. ASSUME NEW j \in DOMAIN todo' \ {k}, todo'[j].do = "ExplicitInit"
          PROVE  todo'[j].vals[1] # todo'[k].vals[1]
      <4>1. CASE j \in DOMAIN tasks
        BY <1>1, <1>2, <3>1, <3>3, <4>1 DEF Admitted
      <4>2. CASE j \notin DOMAIN tasks
        <5>1. /\ Was(j, tasks) \in DOMAIN todo \ {Was(k, tasks)}
              /\ todo'[j] = todo[Was(j, tasks)]
          BY <1>1, <2>2, <4>2
        <5>. QED
          BY <1>2, <3>1, <3>3, <5>1 DEF Pending
      <4>. QED
        BY <4>1, <4>2
    <3>. QED
      BY <3>2, <3>3
  <2>. QED
    BY <2>1, <2>2
<1>3. ASSUME NEW k \in DOMAIN todo', todo'[k].do = "InferredInit"
      PROVE  ~HasType(todo'[k].node)
  BY <1>1, <1>3 DEF Admitted, Pending
<1>4. ASSUME NEW k \in DOMAIN todo', todo'[k].do = "UnrollStore"
      PROVE  /\ todo'[k].vals[2].op = "const"
             /\ \E s \in slots' : s[1] = todo'[k].vals[1] /\ s[2] \in Counters
  <2>1. CASE k \in DOMAIN tasks
    BY <1>1, <1>4, <2>1 DEF Admitted
  <2>2. CASE k \notin DOMAIN tasks
    BY <1>1, <1>4, <2>2 DEF Steps
  <2>. QED
    BY <2>1, <2>2
<1>5. Pending'
  BY <1>2, <1>3 DEF Pending
<1>6. Steps'
  BY <1>4 DEF Steps
<1>. QED
  BY <1>5, <1>6

\* The loops that are unrolled.
LEMMA UnrolledLoop ==
    ASSUME NEW n, Unrolled(n)
    PROVE  /\ n.init.kind = "VariableDecl" /\ HasNumber(n.init.initializer)
           /\ AnalyzeForUnroll(n).varName = n.init.name
           /\ AnalyzeForUnroll(n) # NoUnroll
<1>1. AnalyzeForUnroll(n) # NoUnroll
  BY DEF Unrolled
<1>. QED
  BY <1>1 DEF AnalyzeForUnroll

LEMMA NumberConstant ==
    ASSUME NEW n, HasNumber(n)
    PROVE  /\ n.kind = "LiteralExpr" /\ n # Null /\ n.value.class \notin OutOfRange
           /\ Constant(n.value).op = "const" /\ Constant(n.value) # NoValue
           /\ IsSized(Constant(n.value).type)
<1>1. n.kind = "LiteralExpr" /\ n.value.class \in {"int", "float"}
  BY DEF HasNumber
<1>2. n # Null
  BY <1>1 DEF Null
<1>3. Constant(n.value) = ConstFP \/ Constant(n.value) = ConstInt("i32", n.value.num)
  BY <1>1 DEF Constant
<1>4. /\ ConstFP.op = "const" /\ ConstFP.type = "double" /\ NoValue.op = "nullptr"
      /\ \A num : ConstInt("i32", num).op = "const" /\ ConstInt("i32", num).type = "i32"
  BY DEF ConstFP, ConstInt, NoValue, Val
<1>. QED
  BY <1>1, <1>2, <1>3, <1>4 DEF IsSized, OutOfRange

\* The tasks behind which a loop waits to be unrolled.
Special(t) ==
    \/ t.do \in {"InferredInit", "ExplicitInit"}
    \/ t.do = "Visit" /\ t.node.kind \in {"VariableDecl", "LiteralExpr"}

LEMMA NoStartBehind ==
    ASSUME Starts, todo # <<>>, Top = todo[1], ~Special(Top)
    PROVE  \A k \in DOMAIN todo : k # 1 => todo[k].do # "UnrollStart"
<1>. SUFFICES ASSUME NEW k \in DOMAIN todo, k # 1, todo[k].do = "UnrollStart"
              PROVE  FALSE
  OBVIOUS
<1>. DEFINE decl == todo[k].node.init
<1>1. Unrolled(todo[k].node)
  BY DEF Starts
<1>2. decl.kind = "VariableDecl" /\ decl.initializer.kind = "LiteralExpr"
  BY <1>1, UnrolledLoop, NumberConstant
<1>3. \/ todo[1] = Visit(decl)
      \/ Initializing(todo[1], decl)
      \/ todo[1] = Visit(decl.initializer)
  BY DEF Starts
<1>4. Special(todo[1])
  BY <1>2, <1>3 DEF Special, Initializing, Visit, Task
<1>. QED
  BY <1>4

LEMMA StartsKept ==
    ASSUME TypeOK, Starts, todo # <<>>, NEW S, NEW tasks \in Seq(S), Proceed(tasks),
           \A k \in DOMAIN tasks : tasks[k].do # "UnrollStart", ~Special(Top)
    PROVE  Starts'
<1>1. /\ 1 \in DOMAIN todo /\ Top = todo[1]
      /\ \A k \in DOMAIN tasks : todo'[k] = tasks[k]
      /\ \A k \in DOMAIN todo' \ DOMAIN tasks :
            /\ Was(k, tasks) \in DOMAIN todo /\ Was(k, tasks) # 1
            /\ todo'[k] = todo[Was(k, tasks)]
  BY Agenda
<1>2. \A k \in DOMAIN todo' : todo'[k].do # "UnrollStart"
  BY <1>1, NoStartBehind
<1>. QED
  BY <1>2 DEF Starts

(***************************************************************************)
(* Steps that store nothing and declare nothing.                           *)
(***************************************************************************)
\* Either the step is taken by a handler that has nothing to do with variables,
\* or it does nothing but print.
Still ==
    /\ UNCHANGED <<function, slots, m_variables>>
    /\ \/ Quiet(ir, ir') /\ ~Special(Top)
       \/ UNCHANGED <<todo, ir, m_LastValue>>

LEMMA ReservedQuiet ==
    ASSUME NEW g, NEW h, NEW S, NEW v, Quiet(g, h), Reserved(g, S, v)
    PROVE  Reserved(h, S, v)
BY QuietSlots DEF Reserved

\* Below a function the properties of a finished one are not at stake.
LEMMA UnderWay ==
    ASSUME TypeOK, todo # <<>>, function' = function
    PROVE  SoleReported' /\ function # Null
BY DEF TypeOK, SoleReported

LEMMA CalmStep ==
    ASSUME TypeOK, Memory, todo # <<>>, function' = function,
           UNCHANGED <<slots, m_variables>>, Quiet(ir, ir'),
           NEW S, NEW tasks \in Seq(S), Proceed(tasks), Calm(tasks), ~Special(Top)
    PROVE  Memory' /\ Still
<1>1. Agree(ir', slots', m_variables')
  BY QuietAgrees DEF Memory
<1>2. SlotsNamed' /\ SoleReported'
  BY UnderWay DEF Memory, SlotsNamed
<1>3. Admitted(tasks)
  BY DEF Admitted, Calm, Watched
<1>4. Pending' /\ Steps'
  BY <1>3, WaitingKept, ReservedQuiet DEF Memory, Pending
<1>5. Starts'
  BY StartsKept DEF Memory, Calm, Watched
<1>. QED
  BY <1>1, <1>2, <1>4, <1>5 DEF Memory, Still

\* Nothing the invariants speak of changes but the messages.
LEMMA IdleStep ==
    ASSUME TypeOK, Memory, errors \subseteq errors',
           UNCHANGED <<todo, ir, slots, m_variables, m_LastValue, function>>
    PROVE  Memory' /\ Still
<1>1. Agree(ir', slots', m_variables') /\ SlotsNamed' /\ SoleReported'
  BY DEF Memory, SlotsNamed, SoleReported, Sole
<1>2. Pending' /\ Steps'
  BY DEF Memory, Pending, Steps
<1>3. Starts'
  BY DEF Memory, Starts
<1>. QED
  BY <1>1, <1>2, <1>3 DEF Memory, Still

LEMMA CrashIdle ==
    ASSUME TypeOK, Memory, Crash
    PROVE  Memory' /\ Still
<1>1. UNCHANGED <<todo, ir, slots, m_variables, m_LastValue, function>> /\ errors' = errors
  BY DEF Crash, module, symbols, result
<1>. QED
  BY <1>1, IdleStep

(***************************************************************************)
(* The handlers that do not touch variables.                               *)
(***************************************************************************)
LEMMA FollowsCalm ==
    ASSUME NEW n, NEW u, Follows(n, u), u.do \notin Watched
    PROVE  \E S : \E tasks \in Seq(S) : Proceed(tasks) /\ Calm(tasks)
<1>. DEFINE S == {Visit(n), u}
<1>1. <<>> \in Seq(S) /\ <<Visit(n)>> \in Seq(S) /\ <<Visit(n), u>> \in Seq(S)
      /\ <<u>> \in Seq(S)
  OBVIOUS
<1>2. IfPresent(n) \in Seq(S)
  BY <1>1 DEF IfPresent
<1>3. \A s \in S : s.do \notin Watched
  BY DEF Visit, Task, Watched
<1>4. \A tasks \in Seq(S) : Calm(tasks)
  BY <1>3 DEF Calm
<1>. HIDE DEF S
<1>5. IfPresent(n) \o <<u>> \in Seq(S)
  BY <1>1, <1>2, ConcatProperties
<1>. QED
  BY <1>1, <1>2, <1>4, <1>5 DEF Follows, Finish

LEMMA FollowCalm ==
    ASSUME TypeOK, Memory, todo # <<>>, function' = function,
           UNCHANGED <<slots, m_variables>>, Quiet(ir, ir'),
           NEW n, NEW u, Follows(n, u), u.do \notin Watched, ~Special(Top)
    PROVE  Memory' /\ Still
<1>1. PICK S : \E tasks \in Seq(S) : Proceed(tasks) /\ Calm(tasks)
  BY FollowsCalm
<1>2. PICK tasks \in Seq(S) : Proceed(tasks) /\ Calm(tasks)
  BY <1>1
<1>. QED
  BY <1>2, CalmStep

\* The tasks that Follows is used with.
LEMMA CalmTasks ==
    ASSUME NEW n, NEW do, do \notin Watched, NEW vals, NEW blks
    PROVE  Task(do, n, vals, blks).do \notin Watched
BY DEF Task

\* A handler is over.
LEMMA FinishCalm ==
    ASSUME TypeOK, Memory, todo # <<>>, function' = function,
           UNCHANGED <<slots, m_variables>>, Quiet(ir, ir'), Finish, ~Special(Top)
    PROVE  Memory' /\ Still
<1>1. Follows(Null, Visit(Null)) /\ Visit(Null).do \notin Watched
  BY DEF Follows, Visit, Task, Watched
<1>. QED
  BY <1>1, FollowCalm

LEMMA RejectCalm ==
    ASSUME TypeOK, Memory, todo # <<>>, NEW text, NEW subject, Reject(text, subject),
           ~Special(Top)
    PROVE  Memory' /\ Still
<1>1. Finish /\ function' = function /\ UNCHANGED <<slots, m_variables>> /\ ir' = ir
  BY DEF Reject, module, symbols
<1>. QED
  BY <1>1, QuietSame, FinishCalm

LEMMA Operations ==
    /\ \A op, type, args : Compute(op, type, args).op = op
    /\ \A op, type, elem, args, to : Inst(op, type, elem, args, to).op = op
    /\ \A type, v : Load(type, v).op = "load" /\ Load(type, v).args[1] = v
    /\ \A b : Br(b).op = "br"
    /\ \A v, b, c : CondBr(v, b, c).op = "condbr"
    /\ \A v, b, w, c : Phi(v, b, w, c).op = "phi"
    /\ \A v : Ret(v).op = "ret"
    /\ RetVoid.op = "ret"
BY DEF Compute, Load, Br, CondBr, Phi, Ret, RetVoid, Inst

\* Handlers that only visit one child.
LEMMA VisitsCalm ==
    ASSUME TypeOK, Memory,
           \/ VisitBinaryExpr \/ BinLeft \/ VisitUnaryExpr \/ VisitCastExpr
           \/ VisitAssignExpr \/ VisitMemberAccessExpr \/ Statement
           \/ VisitExprStatement \/ VisitIfStatement
    PROVE  Memory' /\ Still
<1>1. /\ todo # <<>> /\ ir' = ir /\ function' = function
      /\ UNCHANGED <<slots, m_variables>> /\ ~Special(Top)
  BY DEF VisitBinaryExpr, BinLeft, VisitUnaryExpr, VisitCastExpr, VisitAssignExpr,
       VisitMemberAccessExpr, Statement, VisitExprStatement, VisitIfStatement,
       Descend, Visiting, Resuming, Running, Special, Node, module, symbols
<1>2. \E n, u : Follows(n, u) /\ u.do \notin Watched
  <2>1. CASE \/ VisitBinaryExpr \/ VisitUnaryExpr \/ VisitCastExpr \/ VisitAssignExpr
             \/ VisitMemberAccessExpr \/ VisitIfStatement
    <3>1. \E do \in {"ShortLeft", "BinLeft", "UnaryOp", "CastOp", "AssignStore",
                      "MemberLoad", "IfCond"} : \E n : Proceed(<<Visit(n), Then(do)>>)
      <4>1. CASE VisitBinaryExpr
        BY <4>1 DEF VisitBinaryExpr, Descend
      <4>2. CASE VisitUnaryExpr \/ VisitCastExpr \/ VisitAssignExpr
        BY <4>2 DEF VisitUnaryExpr, VisitCastExpr, VisitAssignExpr, Descend
      <4>3. CASE VisitMemberAccessExpr \/ VisitIfStatement
        BY <4>3 DEF VisitMemberAccessExpr, VisitIfStatement, Descend
      <4>. QED
        BY <2>1, <4>1, <4>2, <4>3
    <3>2. PICK n, do : Proceed(<<Visit(n), Then(do)>>) /\ do \notin Watched
      BY <3>1 DEF Watched
    <3>3. Follows(n, Then(do))
      BY <3>2 DEF Follows
    <3>. QED
      BY <3>2, <3>3, CalmTasks DEF Then
  <2>2. CASE BinLeft
    <3>1. Follows(Node.right, ThenWith("BinRight", <<m_LastValue>>))
      BY <2>2 DEF BinLeft, Follows
    <3>. QED
      BY <3>1, CalmTasks DEF ThenWith, Watched
  <2>3. CASE Statement \/ VisitExprStatement
    <3>1. \E n : Follows(n, Visit(Null))
      BY <2>3 DEF Statement, VisitExprStatement, Descend, Follows
    <3>. QED
      BY <3>1, CalmTasks DEF Visit, Watched
  <2>. QED
    BY <2>1, <2>2, <2>3
<1>. QED
  BY <1>1, <1>2, QuietSame, FollowCalm

LEMMA BlockCalm ==
    ASSUME TypeOK, Memory, VisitBlockStatement
    PROVE  Memory' /\ Still
<1>. DEFINE tasks == [k \in DOMAIN Node.statements |->
                         Task("Statement", Node.statements[k], <<>>, <<>>)]
            S == {Task("Statement", n, <<>>, <<>>) : n \in AstNode}
<1>1. /\ todo # <<>> /\ ir' = ir /\ function' = function /\ Node \in AstNode
      /\ UNCHANGED <<slots, m_variables>> /\ ~Special(Top)
      /\ Node.kind = "BlockStatement" /\ Proceed(tasks)
  BY TopType DEF VisitBlockStatement, Descend, Visiting, Running, Special, Node,
       module, symbols
<1>2. Node.statements \in Seq(AstNode)
  BY <1>1, StatementMembers
<1>3. DOMAIN Node.statements = 1..Len(Node.statements) /\ Len(Node.statements) \in Nat
  BY <1>2, LenProperties
<1>4. \A k \in DOMAIN Node.statements : tasks[k] \in S
  BY <1>2
<1>5. tasks \in Seq(S)
  BY <1>3, <1>4
<1>6. \A k \in DOMAIN tasks : tasks[k].do = "Statement"
  BY DEF Task
<1>. HIDE DEF tasks, S
<1>7. Calm(tasks)
  BY <1>6 DEF Calm, Watched
<1>. QED
  BY <1>1, <1>5, <1>7, QuietSame, CalmStep

LEMMA CallCalm ==
    ASSUME TypeOK, Memory, VisitCallExpr \/ CallArg
    PROVE  Memory' /\ Still
<1>1. /\ todo # <<>> /\ ir' = ir /\ function' = function
      /\ UNCHANGED <<slots, m_variables>> /\ ~Special(Top)
      /\ \/ Proceed(NextArgument(<<>>))
         \/ Proceed(NextArgument(Append(Top.vals, m_LastValue)))
  BY DEF VisitCallExpr, CallArg, Visiting, Resuming, Running, Special, Node, module,
       symbols
<1>2. ASSUME NEW args, Proceed(NextArgument(args))
      PROVE  Memory' /\ Still
  <2>1. CASE Len(args) < Len(Node.arguments)
    <3>1. Follows(Node.arguments[Len(args) + 1], ThenWith("CallArg", args))
      BY <1>2, <2>1 DEF NextArgument, Follows
    <3>2. ThenWith("CallArg", args).do \notin Watched
      BY CalmTasks DEF ThenWith, Watched
    <3>. QED
      BY <1>1, <3>1, <3>2, QuietSame, FollowCalm
  <2>2. CASE ~(Len(args) < Len(Node.arguments))
    <3>1. Proceed(<<ThenWith("CallEnd", args)>>)
      BY <1>2, <2>2 DEF NextArgument
    <3>2. ThenWith("CallEnd", args).do \notin Watched
      BY CalmTasks DEF ThenWith, Watched
    <3>. DEFINE u == ThenWith("CallEnd", args)
    <3>3. <<u>> \in Seq({u})
      OBVIOUS
    <3>4. Calm(<<u>>)
      BY <3>2 DEF Calm
    <3>. QED
      BY <1>1, <3>1, <3>3, <3>4, QuietSame, CalmStep
  <2>. QED
    BY <2>1, <2>2
<1>. QED
  BY <1>1, <1>2

\* Expressions that compute a value in the block of the insert point.
LEMMA OperateQuiet ==
    ASSUME NEW op, op # "store", NEW left, NEW right, Built(ir)
    PROVE  Quiet(ir, Operate(op, left, right).ir)
<1>. DEFINE l == ToBool(ir, left)
            r == ToBool(l.ir, right)
<1>1. Quiet(ir, l.ir) /\ Built(l.ir)
  BY ConvertQuiet
<1>2. Quiet(l.ir, r.ir) /\ Built(r.ir)
  BY <1>1, ConvertQuiet
<1>3. Quiet(ir, r.ir)
  BY <1>1, <1>2, QuietChain
<1>4. \/ \E inst : inst.op = op /\ Operate(op, left, right) = Build(ir, inst)
      \/ \E inst : inst.op = op /\ Operate(op, left, right) = Build(r.ir, inst)
  BY Operations DEF Operate
<1>. HIDE DEF l, r
<1>. QED
  BY <1>2, <1>3, <1>4, EmitQuiet, QuietChain

LEMMA ValuesCalm ==
    ASSUME TypeOK, Memory,
           VisitAllocExpr \/ BinRight \/ UnaryOp \/ CastOp \/ CallEnd \/ MemberLoad
    PROVE  Memory' /\ Still
<1>1. /\ todo # <<>> /\ ~Special(Top) /\ function' = function
      /\ UNCHANGED <<slots, m_variables>>
  BY OtherSymbols DEF VisitAllocExpr, BinRight, UnaryOp, CastOp, CallEnd, MemberLoad,
       Visiting, Resuming, Special, Node, symbols
<1>2. Built(ir) /\ Node \in AstNode
  BY <1>1, TopType, WellBuiltIsBuilt
<1>3. CASE Crash
  BY <1>3, CrashIdle
<1>4. CASE \E text, subject : Reject(text, subject)
  BY <1>1, <1>4, RejectCalm
<1>5. CASE VisitAllocExpr
  <2>1. \E inst : inst.op = "call" /\ ir' = Build(ir, inst).ir /\ Finish
    BY <1>5, Operations DEF VisitAllocExpr
  <2>. QED
    BY <1>1, <1>2, <2>1, EmitQuiet, FinishCalm
<1>6. CASE BinRight /\ ~Crash /\ ~\E text, subject : Reject(text, subject)
  <2>1. /\ ir' = Operate(Node.op, Top.vals[1], m_LastValue).ir /\ Finish
    BY <1>6 DEF BinRight
  <2>2. Node.kind = "BinaryExpr"
    BY <1>1, <1>6, TopType DEF BinRight, Resuming, OwnKind, Node
  <2>3. Node.op \in BinaryOperators
    BY <1>2, <2>2, OperatorAssumption DEF OperatorKnown
  <2>4. Node.op # "store"
    BY <2>3 DEF BinaryOperators
  <2>. QED
    BY <1>1, <1>2, <2>1, <2>4, OperateQuiet, FinishCalm
<1>7. CASE UnaryOp /\ ~Crash /\ ~\E text, subject : Reject(text, subject)
  <2>. DEFINE v == m_LastValue
              bool == ToBool(ir, v)
              xor == Compute("xor", "i1", <<bool.val, ConstInt("i1", 1)>>)
              not == Compute("not", v.type, <<v>>)
  <2>1. /\ Finish
        /\ ir' = IF Node.op = "!" THEN Build(bool.ir, xor).ir ELSE Build(ir, not).ir
    BY <1>7 DEF UnaryOp
  <2>2. Quiet(ir, bool.ir) /\ Built(bool.ir) /\ xor.op = "xor" /\ not.op = "not"
    BY <1>2, ConvertQuiet, Operations
  <2>. HIDE DEF bool, xor, not
  <2>3. Quiet(bool.ir, Build(bool.ir, xor).ir) /\ Quiet(ir, Build(ir, not).ir)
    BY <1>2, <2>2, EmitQuiet
  <2>4. Quiet(ir, ir')
    BY <2>1, <2>2, <2>3, QuietChain
  <2>. QED
    BY <1>1, <2>1, <2>4, FinishCalm
<1>8. CASE CastOp /\ ~\E text, subject : Reject(text, subject)
  <2>1. CASE m_LastValue = NoValue
    <3>1. UNCHANGED <<todo, ir, slots, m_variables, m_LastValue, function>>
          /\ errors \subseteq errors'
      BY <1>8, <2>1 DEF CastOp, Report, module, symbols, result
    <3>. QED
      BY <3>1, IdleStep
  <2>2. CASE m_LastValue # NoValue
    <3>1. Finish /\ ir' = ir
      BY <1>8, <2>2 DEF CastOp
    <3>. QED
      BY <1>1, <3>1, QuietSame, FinishCalm
  <2>. QED
    BY <2>1, <2>2
<1>9. CASE CallEnd /\ ~Crash
  <2>. DEFINE inst == Inst("call", m_functions[Node.callee], Node.callee, Top.vals, <<>>)
  <2>1. ir' = Build(ir, inst).ir /\ Finish
    BY <1>9 DEF CallEnd
  <2>2. inst.op = "call"
    BY Operations
  <2>. QED
    BY <1>1, <1>2, <2>1, <2>2, EmitQuiet, FinishCalm
<1>10. CASE MemberLoad /\ ~Crash /\ ~\E text, subject : Reject(text, subject)
  <2>. DEFINE field == m_structTypes[ObjectType.name][Node.memberName]
              type == MapType(field.type)
              inst == Inst("gep", "ptr", ObjectType.name,
                        <<m_LastValue, ConstInt("i32", field.index)>>, <<>>)
              gep == Build(ir, inst)
              load == Build(gep.ir, Load(type, gep.val))
  <2>1. ir' = load.ir /\ Finish
    BY <1>10 DEF MemberLoad
  <2>2. inst.op = "gep" /\ Load(type, gep.val).op = "load"
    BY Operations
  <2>. HIDE DEF inst, type
  <2>3. Quiet(ir, gep.ir) /\ Built(gep.ir)
    BY <1>2, <2>2, EmitQuiet
  <2>4. Quiet(gep.ir, load.ir)
    BY <2>2, <2>3, EmitQuiet
  <2>5. Quiet(ir, ir')
    BY <2>1, <2>3, <2>4, QuietChain
  <2>. QED
    BY <1>1, <2>1, <2>5, FinishCalm
<1>. QED
  BY <1>3, <1>4, <1>5, <1>6, <1>7, <1>8, <1>9, <1>10

(***************************************************************************)
(* Control flow.                                                           *)
(***************************************************************************)
LEMMA ShortCalm ==
    ASSUME TypeOK, Memory, ShortLeft \/ ShortRight
    PROVE  Memory' /\ Still
<1>1. /\ todo # <<>> /\ ~Special(Top) /\ function' = function
      /\ UNCHANGED <<slots, m_variables>>
  BY OtherSymbols DEF ShortLeft, ShortRight, Resuming, Special, symbols
<1>2. /\ Built(ir) /\ ir \in WellBuilt /\ OwnLocals(Top) /\ Top.blks \in Seq(DOMAIN ir.blocks)
      /\ m_LastValue \in Values
  BY <1>1, TopType, WellBuiltIsBuilt DEF TypeOK
<1>3. CASE Crash
  BY <1>3, CrashIdle
<1>4. CASE \E text, subject : Reject(text, subject)
  BY <1>1, <1>4, RejectCalm
<1>. DEFINE bool == ToBool(ir, m_LastValue)
<1>5. /\ Quiet(ir, bool.ir) /\ Built(bool.ir) /\ bool.ir \in WellBuilt
      /\ DOMAIN bool.ir.blocks = DOMAIN ir.blocks
  BY <1>2, ConvertQuiet, ToBoolType
<1>6. CASE ShortLeft /\ ~Crash /\ ~\E text, subject : Reject(text, subject)
  <2>. DEFINE rhs == Len(ir.blocks) + 1
              merge == Len(ir.blocks) + 2
              branch == IF Node.op = "&&" THEN CondBr(bool.val, rhs, merge)
                        ELSE CondBr(bool.val, merge, rhs)
              wide == AddBlocks(bool.ir, 2)
              u == ThenAt("ShortRight", <<ir.at, merge>>)
  <2>1. ir' = Leave(wide, branch, rhs) /\ Proceed(<<Visit(Node.right), u>>)
    BY <1>6 DEF ShortLeft
  <2>2. branch.op = "condbr" /\ u.do \notin Watched
    BY Operations, CalmTasks DEF ThenAt, Watched
  <2>3. Quiet(bool.ir, wide) /\ Built(wide)
    BY <1>5, AddBlocksQuiet
  <2>4. rhs \in DOMAIN wide.blocks
    <3>1. Len(bool.ir.blocks) = Len(ir.blocks) /\ 1 \in 1..2
      BY <1>2, <1>5, LenProperties DEF WellBuilt, Functions
    <3>2. \A k \in 1..2 : Len(bool.ir.blocks) + k \in DOMAIN wide.blocks
      BY <1>5, AddBlocksType
    <3>. QED
      BY <3>1, <3>2
  <2>. HIDE DEF bool, wide, branch, rhs, u
  <2>5. Quiet(wide, ir')
    BY <2>1, <2>2, <2>3, <2>4, LeaveQuiet
  <2>6. Quiet(ir, ir')
    BY <1>5, <2>3, <2>5, QuietChain
  <2>7. Follows(Node.right, u)
    BY <2>1 DEF Follows
  <2>. QED
    BY <1>1, <2>2, <2>6, <2>7, FollowCalm
<1>7. CASE ShortRight /\ ~Crash /\ ~\E text, subject : Reject(text, subject)
  <2>. DEFINE merge == Top.blks[2]
              decided == ConstInt("i1", IF Node.op = "&&" THEN 0 ELSE 1)
              phi == Phi(decided, Top.blks[1], bool.val, ir.at)
              g == Leave(bool.ir, Br(merge), merge)
  <2>1. ir' = Build(g, phi).ir /\ Finish
    BY <1>7 DEF ShortRight, MergeShort
  <2>2. merge \in DOMAIN bool.ir.blocks
    <3>1. Top.do = "ShortRight"
      BY <1>7 DEF ShortRight, Resuming
    <3>2. Len(Top.blks) = 2
      BY <1>2, <3>1 DEF OwnLocals
    <3>. QED
      BY <1>2, <1>5, <3>2
  <2>3. phi.op = "phi" /\ Br(merge).op = "br"
    BY Operations
  <2>. HIDE DEF bool, phi, merge
  <2>4. Quiet(bool.ir, g) /\ Built(g)
    BY <1>5, <2>2, <2>3, LeaveQuiet
  <2>. HIDE DEF g
  <2>5. Quiet(g, ir')
    BY <2>1, <2>3, <2>4, EmitQuiet
  <2>6. Quiet(ir, ir')
    BY <1>5, <2>4, <2>5, QuietChain
  <2>. QED
    BY <1>1, <2>1, <2>6, FinishCalm
<1>. QED
  BY <1>3, <1>4, <1>6, <1>7

LEMMA ReturnCalm ==
    ASSUME TypeOK, Memory, VisitReturnStatement \/ ReturnValue
    PROVE  Memory' /\ Still
<1>1. /\ todo # <<>> /\ ~Special(Top) /\ function' = function
      /\ UNCHANGED <<slots, m_variables>>
  BY OtherSymbols DEF VisitReturnStatement, ReturnValue, Visiting, Resuming, Special,
     Node, symbols
<1>2. Built(ir)
  BY <1>1, TopType, WellBuiltIsBuilt
<1>3. ir' = ir \/ ir' = Emit(ir, RetVoid) \/ ir' = Emit(ir, Ret(m_LastValue))
  BY DEF VisitReturnStatement, ReturnValue
<1>4. Quiet(ir, ir')
  BY <1>2, <1>3, Operations, EmitQuiet, QuietSame
<1>5. Follows(Node.value, Then("ReturnValue"))
  BY DEF VisitReturnStatement, ReturnValue, Follows
<1>6. Then("ReturnValue").do \notin Watched
  BY CalmTasks DEF Then, Watched
<1>. QED
  BY <1>1, <1>4, <1>5, <1>6, FollowCalm

\* The blocks that a handler comes back to.
LEMMA OwnBlocks ==
    ASSUME TypeOK, todo # <<>>
    PROVE  /\ Top.do = "IfMerge" => Top.blks[1] \in DOMAIN ir.blocks
           /\ Top.do = "IfElse" => Top.blks[1] \in DOMAIN ir.blocks
           /\ Top.do \in {"WhileCond", "WhileEnd"} =>
                 /\ Top.blks[2] \in DOMAIN ir.blocks
                 /\ Top.blks[3] \in DOMAIN ir.blocks
           /\ Top.do \in {"ForCond", "ForUpdate", "ForEnd"} =>
                 /\ Top.blks[2] \in DOMAIN ir.blocks
                 /\ Top.blks[3] \in DOMAIN ir.blocks
                 /\ Top.blks[4] \in DOMAIN ir.blocks
BY TopType DEF OwnLocals

\* A block is left by an unconditional branch.
LEMMA JumpsCalm ==
    ASSUME TypeOK, Memory, IfElse \/ IfMerge \/ WhileEnd \/ ForUpdate \/ ForEnd
    PROVE  Memory' /\ Still
<1>1. /\ todo # <<>> /\ ~Special(Top) /\ function' = function
      /\ UNCHANGED <<slots, m_variables>>
  BY OtherSymbols DEF IfElse, IfMerge, WhileEnd, ForUpdate, ForEnd, Resuming, Special,
     symbols
<1>2. Built(ir)
  BY <1>1, TopType, WellBuiltIsBuilt
<1>3. \E b, c : ir' = Leave(ir, Br(b), c) /\ c \in DOMAIN ir.blocks
  <2>1. CASE IfElse
    <3>1. Top.do = "IfElse" /\ ir' = Leave(ir, Br(Top.blks[2]), Top.blks[1])
      BY <2>1 DEF IfElse, Resuming
    <3>. QED
      BY <1>1, <3>1, OwnBlocks
  <2>2. CASE IfMerge
    <3>1. Top.do = "IfMerge" /\ ir' = Leave(ir, Br(Top.blks[1]), Top.blks[1])
      BY <2>2 DEF IfMerge, Resuming
    <3>. QED
      BY <1>1, <3>1, OwnBlocks
  <2>3. CASE WhileEnd
    <3>1. Top.do = "WhileEnd" /\ ir' = Leave(ir, Br(Top.blks[1]), Top.blks[3])
      BY <2>3 DEF WhileEnd, Resuming
    <3>. QED
      BY <1>1, <3>1, OwnBlocks
  <2>4. CASE ForUpdate
    <3>1. Top.do = "ForUpdate" /\ ir' = Leave(ir, Br(Top.blks[3]), Top.blks[3])
      BY <2>4 DEF ForUpdate, Resuming
    <3>. QED
      BY <1>1, <3>1, OwnBlocks
  <2>5. CASE ForEnd
    <3>1. Top.do = "ForEnd" /\ ir' = Leave(ir, Br(Top.blks[1]), Top.blks[4])
      BY <2>5 DEF ForEnd, Resuming
    <3>. QED
      BY <1>1, <3>1, OwnBlocks
  <2>. QED
    BY <2>1, <2>2, <2>3, <2>4, <2>5
<1>4. Quiet(ir, ir')
  BY <1>2, <1>3, Operations, LeaveQuiet
<1>5. \E n, do, blks : Follows(n, Task(do, Node, <<>>, blks)) /\ do \in {"IfMerge", "ForEnd"}
  BY DEF IfElse, IfMerge, WhileEnd, ForUpdate, ForEnd, Follows, ThenAt
<1>6. \E n, u : Follows(n, u) /\ u.do \notin Watched
  BY <1>5, CalmTasks DEF Watched
<1>. QED
  BY <1>1, <1>4, <1>6, FollowCalm

\* The loops begin with new blocks and a branch to the first of them.
LEMMA LoopsCalm ==
    ASSUME TypeOK, Memory, VisitWhileStatement \/ ForBlocks
    PROVE  Memory' /\ Still
<1>1. /\ todo # <<>> /\ ~Special(Top) /\ function' = function
      /\ UNCHANGED <<slots, m_variables>>
  BY OtherSymbols DEF VisitWhileStatement, ForBlocks, Visiting, Resuming, Special, Node,
     symbols
<1>2. ir \in WellBuilt
  BY <1>1, TopType
<1>. DEFINE cond == Len(ir.blocks) + 1
<1>3. \E n \in 3..4 : ir' = Leave(AddBlocks(ir, n), Br(cond), cond)
  BY DEF VisitWhileStatement, ForBlocks
<1>4. ASSUME NEW n \in 3..4, ir' = Leave(AddBlocks(ir, n), Br(cond), cond)
      PROVE  Quiet(ir, ir')
  <2>1. Quiet(ir, AddBlocks(ir, n)) /\ Built(AddBlocks(ir, n))
    BY <1>2, AddBlocksQuiet
  <2>2. cond \in DOMAIN AddBlocks(ir, n).blocks
    BY <1>2, LoopEntry
  <2>3. Quiet(AddBlocks(ir, n), ir')
    BY <1>4, <2>1, <2>2, Operations, LeaveQuiet
  <2>. QED
    BY <2>1, <2>3, QuietChain
<1>5. \E do, blks : Follows(Node.condition, Task(do, Node, <<>>, blks))
                    /\ do \in {"WhileCond", "ForCond"}
  BY DEF VisitWhileStatement, ForBlocks, Follows, ThenAt
<1>6. \E n, u : Follows(n, u) /\ u.do \notin Watched
  BY <1>5, CalmTasks DEF Watched
<1>. QED
  BY <1>1, <1>3, <1>4, <1>6, FollowCalm

LEMMA ConditionsCalm ==
    ASSUME TypeOK, Memory, IfCond \/ WhileCond \/ ForCond
    PROVE  Memory' /\ Still
<1>1. /\ todo # <<>> /\ ~Special(Top) /\ function' = function
      /\ UNCHANGED <<slots, m_variables>>
  BY OtherSymbols DEF IfCond, WhileCond, ForCond, Resuming, Special, symbols
<1>2. Built(ir) /\ ir \in WellBuilt /\ m_LastValue \in Values
  BY <1>1, TopType, WellBuiltIsBuilt DEF TypeOK
<1>3. CASE \E text, subject : Reject(text, subject)
  BY <1>1, <1>3, RejectCalm
<1>. DEFINE cond == CondBool(ir, m_LastValue)
<1>4. /\ Quiet(ir, cond.ir) /\ Built(cond.ir) /\ cond.ir \in WellBuilt
      /\ DOMAIN cond.ir.blocks = DOMAIN ir.blocks
  BY <1>2, ConvertQuiet, CondBoolType
<1>5. CASE IfCond /\ ~\E text, subject : Reject(text, subject)
  <2>. DEFINE then == Len(ir.blocks) + 1
              else == Len(ir.blocks) + 2
              merge == Len(ir.blocks) + 3
              wide == AddBlocks(cond.ir, 3)
              branch == CondBr(cond.val, then, else)
              u == ThenAt("IfElse", <<else, merge>>)
  <2>1. ir' = Leave(wide, branch, then) /\ Proceed(<<Visit(Node.thenBranch), u>>)
    BY <1>5 DEF IfCond
  <2>2. branch.op = "condbr" /\ u.do \notin Watched
    BY Operations, CalmTasks DEF ThenAt, Watched
  <2>3. Quiet(cond.ir, wide) /\ Built(wide)
    BY <1>4, AddBlocksQuiet
  <2>4. then \in DOMAIN wide.blocks
    <3>1. Len(cond.ir.blocks) = Len(ir.blocks) /\ 1 \in 1..3
      BY <1>2, <1>4, LenProperties DEF WellBuilt, Functions
    <3>2. \A k \in 1..3 : Len(cond.ir.blocks) + k \in DOMAIN wide.blocks
      BY <1>4, AddBlocksType
    <3>. QED
      BY <3>1, <3>2
  <2>. HIDE DEF cond, wide, branch, then, u
  <2>5. Quiet(wide, ir')
    BY <2>1, <2>2, <2>3, <2>4, LeaveQuiet
  <2>6. Quiet(ir, ir')
    BY <1>4, <2>3, <2>5, QuietChain
  <2>7. Follows(Node.thenBranch, u)
    BY <2>1 DEF Follows
  <2>. QED
    BY <1>1, <2>2, <2>6, <2>7, FollowCalm
<1>6. CASE WhileCond /\ ~\E text, subject : Reject(text, subject)
  <2>. DEFINE branch == CondBr(cond.val, Top.blks[2], Top.blks[3])
              u == ThenAt("WhileEnd", Top.blks)
  <2>1. /\ ir' = Leave(cond.ir, branch, Top.blks[2])
        /\ Proceed(<<Visit(Node.body), u>>) /\ Top.do = "WhileCond"
    BY <1>6 DEF WhileCond, Resuming
  <2>2. branch.op = "condbr" /\ u.do \notin Watched
    BY Operations, CalmTasks DEF ThenAt, Watched
  <2>3. Top.blks[2] \in DOMAIN cond.ir.blocks
    BY <1>1, <1>4, <2>1, OwnBlocks
  <2>. HIDE DEF cond, branch, u
  <2>4. Quiet(ir, ir')
    BY <1>4, <2>1, <2>2, <2>3, LeaveQuiet, QuietChain
  <2>5. Follows(Node.body, u)
    BY <2>1 DEF Follows
  <2>. QED
    BY <1>1, <2>2, <2>4, <2>5, FollowCalm
<1>7. CASE ForCond /\ ~\E text, subject : Reject(text, subject)
  <2>. DEFINE branch == CondBr(cond.val, Top.blks[2], Top.blks[4])
              u == ThenAt("ForUpdate", Top.blks)
  <2>1. /\ ir' = IF Node.condition = Null THEN Leave(ir, Br(Top.blks[2]), Top.blks[2])
                 ELSE Leave(cond.ir, branch, Top.blks[2])
        /\ Proceed(<<Visit(Node.body), u>>) /\ Top.do = "ForCond"
    BY <1>7 DEF ForCond, Resuming
  <2>2. /\ branch.op = "condbr" /\ u.do \notin Watched
        /\ Br(Top.blks[2]).op = "br"
    BY Operations, CalmTasks DEF ThenAt, Watched
  <2>3. Top.blks[2] \in DOMAIN cond.ir.blocks
    BY <1>1, <1>4, <2>1, OwnBlocks
  <2>. HIDE DEF cond, branch, u
  <2>4. Quiet(ir, ir')
    BY <1>2, <1>4, <2>1, <2>2, <2>3, LeaveQuiet, QuietChain
  <2>5. Follows(Node.body, u)
    BY <2>1 DEF Follows
  <2>. QED
    BY <1>1, <2>2, <2>4, <2>5, FollowCalm
<1>. QED
  BY <1>3, <1>5, <1>6, <1>7

(***************************************************************************)
(* The handlers of variables.                                              *)
(***************************************************************************)
\* Nothing has been stored into what is no slot of g.
LEMMA NoStores ==
    ASSUME NEW g, NEW S, NEW V, Agree(g, S, V), NEW v, ~IsSlot(g, v)
    PROVE  StoresTo(g, v) = {}
BY DEF Agree, StoresTo

\* A variable in an alloca stands for one slot.
LEMMA SlotOf ==
    ASSUME NEW g, NEW S, NEW V, Agree(g, S, V), NEW x \in DOMAIN V, IsAlloca(V[x].value)
    PROVE  /\ IsSlot(g, V[x].value)
           /\ \A s \in S : s[1] = V[x].value => Stands(s, x, V[x])
           /\ \E s \in S : s[1] = V[x].value
<1>1. PICK t \in S : Stands(t, x, V[x])
  BY DEF Agree
<1>2. t[1] = V[x].value
  BY <1>1 DEF Stands
<1>3. \A s \in S : s[1] = V[x].value => s = t
  BY <1>2 DEF Agree
<1>. QED
  BY <1>1, <1>2, <1>3 DEF Agree

\* The slots that wait are left alone by a store into a declared one.
LEMMA ReservedStore ==
    ASSUME NEW g, Built(g), NEW S, NEW w, NEW slot, \E s \in S : s[1] = slot,
           NEW v, Reserved(g, S, v)
    PROVE  Reserved(Emit(g, Store(w, slot)), S, v)
<1>1. v # slot
  BY DEF Reserved
<1>2. /\ StoresTo(Emit(g, Store(w, slot)), v) =
            StoresTo(g, v) \cup (IF v = slot THEN {NextPlace(g)} ELSE {})
      /\ IsSlot(g, v) => IsSlot(Emit(g, Store(w, slot)), v)
  BY StoreSlots
<1>. QED
  BY <1>1, <1>2 DEF Reserved

LEMMA NothingPut ==
    ASSUME NEW S
    PROVE  /\ <<>> \in Seq(S) /\ Admitted(<<>>) /\ Calm(<<>>)
           /\ \A k \in DOMAIN <<>> : <<>>[k].do # "UnrollStart"
BY DEF Admitted, Calm

\* The marks of MarkUsed.
LEMMA Marked ==
    ASSUME NEW x \in DOMAIN m_variables, MarkUsed(x), TypeOK
    PROVE  /\ DOMAIN m_variables' = DOMAIN m_variables
           /\ \A y \in DOMAIN m_variables :
                 /\ m_variables'[y].value = m_variables[y].value
                 /\ m_variables'[y].type = m_variables[y].type
                 /\ m_variables'[y].isMutable = m_variables[y].isMutable
                 /\ y # x => m_variables'[y].used = m_variables[y].used
<1>1. m_variables \in [DOMAIN m_variables -> VariableInfos]
  BY DEF TypeOK
<1>2. m_variables' = [m_variables EXCEPT ![x].used = TRUE]
  BY DEF MarkUsed
<1>3. /\ DOMAIN m_variables' = DOMAIN m_variables
      /\ \A y \in DOMAIN m_variables : y # x => m_variables'[y] = m_variables[y]
      /\ m_variables'[x] = [m_variables[x] EXCEPT !.used = TRUE]
  BY <1>2
<1>4. m_variables[x] \in VariableInfos
  BY <1>1
<1>5. /\ m_variables'[x].value = m_variables[x].value
      /\ m_variables'[x].type = m_variables[x].type
      /\ m_variables'[x].isMutable = m_variables[x].isMutable
  BY <1>3, <1>4 DEF VariableInfos
<1>. QED
  BY <1>3, <1>5

\* A variable is used: loaded, if it has a slot.
LEMMA LoadAgrees ==
    ASSUME TypeOK, Memory, NEW x \in DOMAIN m_variables, MarkUsed(x), NEW g,
           Agree(g, slots, m_variables),
           IsAlloca(m_variables[x].value) => LoadsFrom(g, m_variables[x].value) # {}
    PROVE  Agree(g, slots, m_variables')
BY Marked, UseAgrees

LEMMA LoadFound ==
    ASSUME NEW g, Built(g), NEW type, NEW slot
    PROVE  LoadsFrom(Build(g, Load(type, slot)).ir, slot) # {}
<1>. DEFINE load == Load(type, slot)
            h == Build(g, load).ir
<1>1. load.op = "load" /\ load.args[1] = slot
  BY Operations
<1>. HIDE DEF load
<1>2. NextPlace(g) \in Positions(h) /\ InstAt(h, NextPlace(g)) = load
  BY EmitPlaces DEF Build
<1>3. NextPlace(g) \in LoadsFrom(h, slot)
  BY <1>1, <1>2 DEF LoadsFrom
<1>. QED
  BY <1>3 DEF h, load

\* What a step keeps that changes no slots and puts nothing on the agenda, but
\* may mark a variable or store into a declared slot.
LEMMA VariableStep ==
    ASSUME TypeOK, Memory, todo # <<>>, function' = function, slots' = slots,
           DOMAIN m_variables' = DOMAIN m_variables,
           \A x \in DOMAIN m_variables : m_variables'[x].value = m_variables[x].value,
           Finish, ~Special(Top), Agree(ir', slots, m_variables'),
           \A v : Reserved(ir, slots, v) => Reserved(ir', slots, v)
    PROVE  Memory'
<1>1. SlotsNamed' /\ SoleReported'
  BY UnderWay DEF Memory, SlotsNamed
<1>2. Pending' /\ Steps'
  <2>1. \A k \in DOMAIN todo \ {1} :
            todo[k].do = "ExplicitInit" => Reserved(ir', slots', todo[k].vals[1])
    BY DEF Memory, Pending
  <2>2. Proceed(<<>>) /\ slots \subseteq slots' /\ Pending /\ Steps
    BY DEF Finish, Memory
  <2>. QED
    BY <2>1, <2>2, NothingPut, WaitingKept
<1>3. Starts'
  <2>1. Proceed(<<>>) /\ Starts
    BY DEF Finish, Memory
  <2>. QED
    BY <2>1, NothingPut, StartsKept
<1>. QED
  BY <1>1, <1>2, <1>3 DEF Memory

LEMMA VarMemory ==
    ASSUME TypeOK, Memory, VisitVarExpr
    PROVE  Memory'
<1>1. /\ todo # <<>> /\ ~Special(Top) /\ Node.kind = "VarExpr"
  BY DEF VisitVarExpr, Visiting, Running, Special, Node
<1>2. Built(ir)
  BY <1>1, TopType, WellBuiltIsBuilt
<1>3. CASE \E text, subject : Reject(text, subject)
  BY <1>1, <1>3, RejectCalm
<1>4. CASE ~\E text, subject : Reject(text, subject)
  <2>. DEFINE x == Node.name
              stored == m_variables[x].value
              load == Build(ir, Load(stored.elem, stored))
  <2>1. /\ x \in DOMAIN m_variables /\ MarkUsed(x) /\ Finish
        /\ function' = function /\ slots' = slots
        /\ ir' = IF IsAlloca(stored) THEN load.ir ELSE ir
    BY <1>4 DEF VisitVarExpr, module
  <2>2. Quiet(ir, ir')
    BY <1>2, <2>1, Operations, EmitQuiet, QuietSame
  <2>3. Agree(ir', slots, m_variables)
    BY <2>2, QuietAgrees DEF Memory
  <2>4. IsAlloca(stored) => LoadsFrom(ir', stored) # {}
    BY <1>2, <2>1, LoadFound
  <2>5. Agree(ir', slots, m_variables')
    BY <2>1, <2>3, <2>4, LoadAgrees
  <2>6. \A v : Reserved(ir, slots, v) => Reserved(ir', slots, v)
    BY <2>2, ReservedQuiet
  <2>7. /\ DOMAIN m_variables' = DOMAIN m_variables
        /\ \A y \in DOMAIN m_variables : m_variables'[y].value = m_variables[y].value
    BY <2>1, Marked
  <2>. QED
    BY <1>1, <2>1, <2>5, <2>6, <2>7, VariableStep
<1>. QED
  BY <1>3, <1>4

LEMMA IncDecMemory ==
    ASSUME TypeOK, Memory, todo # <<>>, ~Special(Top), NEW prefix, IncDec(prefix)
    PROVE  Memory'
<1>. DEFINE x == Node.operand.name
            slot == m_variables[x].value
<1>1. Built(ir)
  BY TopType, WellBuiltIsBuilt
<1>2. CASE \E text, subject : Reject(text, subject)
  BY <1>2, RejectCalm
<1>3. CASE Crash
  BY <1>3, CrashIdle
<1>4. IncDecError = <<>> => x \in DOMAIN m_variables /\ m_variables[x].isMutable
  BY DEF IncDecError
<1>5. CASE IncDecError = <<>> /\ ~IsAlloca(slot)
  <2>1. /\ MarkUsed(x) /\ Finish /\ ir' = ir
        /\ function' = function /\ slots' = slots
    BY <1>5 DEF IncDec, module
  <2>2. Agree(ir', slots, m_variables')
    BY <1>4, <1>5, <2>1, LoadAgrees DEF Memory
  <2>3. /\ DOMAIN m_variables' = DOMAIN m_variables
        /\ \A y \in DOMAIN m_variables : m_variables'[y].value = m_variables[y].value
    BY <1>4, <1>5, <2>1, Marked
  <2>. QED
    BY <2>1, <2>2, <2>3, VariableStep
<1>6. CASE IncDecError = <<>> /\ IsAlloca(slot) /\ ~Crash
  <2>. DEFINE load == Build(ir, Load(slot.elem, slot))
              op == IF Node.op = "++" THEN "add" ELSE "sub"
              inst == Compute(op, slot.elem, <<load.val, ConstInt(slot.elem, 1)>>)
              next == Build(load.ir, inst)
  <2>1. /\ MarkUsed(x) /\ Finish /\ ir' = Emit(next.ir, Store(next.val, slot))
        /\ function' = function /\ slots' = slots
    BY <1>6 DEF IncDec, module
  <2>2. x \in DOMAIN m_variables /\ m_variables[x].isMutable
    BY <1>4, <1>6
  <2>3. op \in {"add", "sub"} /\ inst.op = op
    BY Operations
  <2>4. /\ Quiet(ir, load.ir) /\ Built(load.ir) /\ LoadsFrom(load.ir, slot) # {}
    BY <1>1, Operations, EmitQuiet, LoadFound
  <2>5. next.val.op = op
    BY <2>3 DEF Build, Result, Val
  <2>. HIDE DEF load, op, inst
  <2>6. Quiet(load.ir, next.ir) /\ Built(next.ir)
    BY <2>3, <2>4, EmitQuiet
  <2>7. LoadsFrom(next.ir, slot) # {}
    BY <2>4, <2>6, QuietSlots
  <2>. HIDE DEF next, slot
  <2>8. LoadsFrom(ir', slot) # {}
    BY <2>1, <2>6, <2>7, StoreSlots
  <2>9. Quiet(ir, next.ir)
    BY <2>4, <2>6, QuietChain
  <2>10. Agree(next.ir, slots, m_variables)
    BY <2>9, QuietAgrees DEF Memory
  <2>11. ~IsNullConstant(next.val)
    BY <2>3, <2>5 DEF IsNullConstant
  <2>12. /\ IsSlot(next.ir, slot) /\ \E s \in slots : s[1] = slot
         /\ \A s \in slots : s[1] = slot => s[2].isMutable
    BY <1>6, <2>2, <2>10, SlotOf DEF slot, Stands
  <2>13. Agree(ir', slots, m_variables)
    BY <2>1, <2>6, <2>10, <2>11, <2>12, StoreAgrees
  <2>14. Agree(ir', slots, m_variables')
    BY <2>1, <2>2, <2>8, <2>13, LoadAgrees DEF slot
  <2>15. ASSUME NEW v, Reserved(ir, slots, v)
         PROVE  Reserved(ir', slots, v)
    BY <2>1, <2>6, <2>9, <2>12, <2>15, ReservedQuiet, ReservedStore
  <2>16. /\ DOMAIN m_variables' = DOMAIN m_variables
         /\ \A y \in DOMAIN m_variables : m_variables'[y].value = m_variables[y].value
    BY <2>1, <2>2, Marked
  <2>. QED
    BY <2>1, <2>14, <2>15, <2>16, VariableStep
<1>7. \/ \E text, subject : Reject(text, subject)
      \/ Crash
      \/ IncDecError = <<>>
  BY DEF IncDec
<1>. QED
  BY <1>2, <1>3, <1>5, <1>6, <1>7

LEMMA AssignMemory ==
    ASSUME TypeOK, Memory, AssignStore
    PROVE  Memory'
<1>1. todo # <<>> /\ ~Special(Top)
  BY DEF AssignStore, Resuming, Running, Special
<1>2. Built(ir)
  BY <1>1, TopType, WellBuiltIsBuilt
<1>3. CASE \E text, subject : Reject(text, subject)
  BY <1>1, <1>3, RejectCalm
<1>4. CASE Crash
  BY <1>4, CrashIdle
<1>5. CASE ~Crash /\ ~\E text, subject : Reject(text, subject)
  <2>. DEFINE x == Node.name
              info == m_variables[x]
              slot == info.value
  <2>1. /\ AssignError = <<>> /\ Finish
        /\ ir' = Emit(ir, Store(m_LastValue, slot))
        /\ function' = function /\ slots' = slots /\ m_variables' = m_variables
    BY <1>5 DEF AssignStore, module, symbols
  <2>2. /\ x \in DOMAIN m_variables /\ info.isMutable /\ IsAlloca(slot)
        /\ ~(NonNullable(info.type) /\ IsNullConstant(m_LastValue))
    BY <2>1 DEF AssignError
  <2>3. Agree(ir, slots, m_variables)
    BY DEF Memory
  <2>4. /\ IsSlot(ir, slot) /\ \E s \in slots : s[1] = slot
        /\ \A s \in slots : s[1] = slot => Stands(s, x, info)
    BY <2>2, <2>3, SlotOf
  <2>5. ASSUME NEW y \in DOMAIN m_variables, m_variables[y].value = slot
        PROVE  y = x
    <3>1. PICK s \in slots : Stands(s, y, m_variables[y])
      BY <2>2, <2>3, <2>5 DEF Agree
    <3>2. Stands(s, x, info)
      BY <2>4, <2>5, <3>1 DEF Stands
    <3>. QED
      BY <3>1, <3>2 DEF Stands
  <2>6. Agree(ir', slots, m_variables)
    <3>1. \A s \in slots : s[1] = slot =>
              s[2].isMutable \/ s[2] \in Counters \/ StoresTo(ir, slot) = {}
      BY <2>2, <2>4 DEF Stands
    <3>2. ASSUME IsNullConstant(m_LastValue)
          PROVE  /\ \A s \in slots : s[1] = slot =>
                        ~(HasType(s[2]) /\ NonNullable(s[2].varType))
                 /\ \A y \in DOMAIN m_variables :
                        m_variables[y].value = slot => ~NonNullable(m_variables[y].type)
      BY <2>2, <2>4, <2>5, <3>2 DEF Stands
    <3>. HIDE DEF slot
    <3>. QED
      BY <1>2, <2>1, <2>3, <2>4, <3>1, <3>2, StoreAgrees
  <2>7. ASSUME NEW v, Reserved(ir, slots, v)
        PROVE  Reserved(ir', slots, v)
    BY <1>2, <2>1, <2>4, <2>7, ReservedStore
  <2>. QED
    BY <1>1, <2>1, <2>6, <2>7, VariableStep
<1>. QED
  BY <1>3, <1>4, <1>5

(***************************************************************************)
(* Declarations, and the loops that wait behind them.                      *)
(***************************************************************************)
\* Where a loop that waits to be unrolled stands after a step, and what the
\* step was about.
LEMMA StartBehind ==
    ASSUME TypeOK, Starts, todo # <<>>, NEW S, NEW tasks \in Seq(S), Proceed(tasks),
           \A k \in DOMAIN tasks : tasks[k].do # "UnrollStart",
           NEW k \in DOMAIN todo', todo'[k].do = "UnrollStart"
    PROVE  LET decl == todo'[k].node.init
           IN  /\ Unrolled(todo'[k].node)
               /\ decl.kind = "VariableDecl" /\ HasNumber(decl.initializer)
               /\ \/ k = Len(tasks) + 1 /\ Top = Visit(decl)
                  \/ /\ k = Len(tasks) + 1 /\ Initializing(Top, decl)
                     /\ m_LastValue = Constant(decl.initializer.value)
                  \/ /\ k = Len(tasks) + 2 /\ Top = Visit(decl.initializer)
                     /\ todo'[Len(tasks) + 1] = todo[2] /\ Initializing(todo[2], decl)
<1>. DEFINE i == Was(k, tasks)
            decl == todo'[k].node.init
            n == Len(tasks)
<1>1. /\ Top = todo[1] /\ DOMAIN tasks \subseteq DOMAIN todo'
      /\ \A j \in DOMAIN tasks : todo'[j] = tasks[j]
      /\ \A j \in DOMAIN todo' \ DOMAIN tasks :
            /\ Was(j, tasks) \in DOMAIN todo /\ Was(j, tasks) # 1
            /\ todo'[j] = todo[Was(j, tasks)]
  BY Agenda
<1>2. k \notin DOMAIN tasks
  BY <1>1
<1>3. i \in DOMAIN todo /\ i # 1 /\ todo'[k] = todo[i]
  BY <1>1, <1>2
<1>4. n \in Nat /\ DOMAIN tasks = 1..n
  BY LenProperties
<1>5. i = k - n + 1
  BY DEF Was
<1>6. Len(todo) \in Nat /\ DOMAIN todo = 1..Len(todo)
  BY LenProperties DEF TypeOK
<1>7. todo' = tasks \o Tail(todo)
  BY DEF Proceed
<1>8. todo' \in Seq(S \cup TasksIn(ir))
  <2>1. Tail(todo) \in Seq(TasksIn(ir))
    BY HeadTailProperties DEF TypeOK
  <2>2. tasks \in Seq(S \cup TasksIn(ir)) /\ Tail(todo) \in Seq(S \cup TasksIn(ir))
    BY <2>1, SeqMonotonic
  <2>. QED
    BY <1>7, <2>2, ConcatProperties
<1>9. k \in Nat /\ Len(todo') \in Nat /\ DOMAIN todo' = 1..Len(todo')
  BY <1>8, LenProperties
<1>. HIDE DEF n, i
<1>10. /\ Unrolled(todo'[k].node)
       /\ \/ i = 2 /\ Top = Visit(decl)
          \/ i = 2 /\ Initializing(Top, decl) /\ m_LastValue = Constant(decl.initializer.value)
          \/ i = 3 /\ Top = Visit(decl.initializer) /\ Initializing(todo[2], decl)
  BY <1>1, <1>3 DEF Starts
<1>11. (i = 2 => k = n + 1) /\ (i = 3 => k = n + 2 /\ n + 1 \in DOMAIN todo' \ DOMAIN tasks)
  BY <1>4, <1>5, <1>9
<1>12. Was(n + 1, tasks) = 2
  BY <1>4 DEF Was, n
<1>13. i = 3 => todo'[n + 1] = todo[2]
  BY <1>1, <1>11, <1>12
<1>14. decl.kind = "VariableDecl" /\ HasNumber(decl.initializer)
  BY <1>10, UnrolledLoop
<1>. QED
  BY <1>10, <1>11, <1>13, <1>14 DEF n

\* The same for a handler that is over.
LEMMA StartFinished ==
    ASSUME TypeOK, Starts, todo # <<>>, Finish, NEW k \in DOMAIN todo',
           todo'[k].do = "UnrollStart"
    PROVE  LET decl == todo'[k].node.init
           IN  /\ Unrolled(todo'[k].node)
               /\ decl.kind = "VariableDecl" /\ HasNumber(decl.initializer)
               /\ \/ k = 1 /\ Top = Visit(decl)
                  \/ /\ k = 1 /\ Initializing(Top, decl)
                     /\ m_LastValue = Constant(decl.initializer.value)
                  \/ /\ k = 2 /\ Top = Visit(decl.initializer)
                     /\ todo'[1] = todo[2] /\ Initializing(todo[2], decl)
<1>. DEFINE tasks == <<>>
<1>1. Proceed(tasks) /\ tasks \in Seq({}) /\ Len(tasks) = 0 /\ 0 + 1 = 1 /\ 0 + 2 = 2
  BY DEF Finish
<1>2. \A j \in DOMAIN tasks : tasks[j].do # "UnrollStart"
  OBVIOUS
<1>. HIDE DEF tasks
<1>. QED
  BY <1>1, <1>2, StartBehind

\* The conjuncts of Memory, for a step within a function.
LEMMA WithinFunction ==
    ASSUME TypeOK, Memory, todo # <<>>, function' = function,
           NEW S, NEW tasks \in Seq(S), Proceed(tasks), Admitted(tasks),
           Agree(ir', slots', m_variables'), SlotsNamed', Starts', slots \subseteq slots',
           \A k \in DOMAIN todo \ {1} :
              todo[k].do = "ExplicitInit" => Reserved(ir', slots', todo[k].vals[1])
    PROVE  Memory'
<1>1. Pending' /\ Steps'
  BY WaitingKept DEF Memory
<1>. QED
  BY <1>1, UnderWay DEF Memory

LEMMA LiteralMemory ==
    ASSUME TypeOK, Memory, VisitLiteralExpr
    PROVE  Memory'
<1>1. /\ todo # <<>> /\ Top.do = "Visit" /\ Node.kind = "LiteralExpr" /\ Node = Top.node
      /\ Finish /\ ir' = ir /\ UNCHANGED <<slots, m_variables, function>>
      /\ \/ Node.value.class \in OutOfRange
         \/ m_LastValue' = Constant(Node.value)
  BY DEF VisitLiteralExpr, Visiting, Running, Reject, Yield, module, symbols, Node, OutOfRange
<1>2. Proceed(<<>>) /\ <<>> \in Seq({}) /\ Len(<<>>) = 0
  BY <1>1 DEF Finish
<1>3. Starts'
  <2>. SUFFICES ASSUME NEW k \in DOMAIN todo', todo'[k].do = "UnrollStart"
                PROVE  LET decl == todo'[k].node.init
                       IN  /\ Unrolled(todo'[k].node)
                           /\ k = 2 /\ Initializing(todo'[1], decl)
                           /\ m_LastValue' = Constant(decl.initializer.value)
    BY DEF Starts
  <2>. DEFINE decl == todo'[k].node.init
  <2>1. /\ Unrolled(todo'[k].node) /\ decl.kind = "VariableDecl" /\ HasNumber(decl.initializer)
        /\ \/ Top = Visit(decl)
           \/ Initializing(Top, decl)
           \/ k = 2 /\ Top = Visit(decl.initializer) /\ todo'[1] = todo[2]
              /\ Initializing(todo[2], decl)
    BY <1>1, StartFinished DEF Memory
  <2>2. k = 2 /\ Node = decl.initializer /\ Initializing(todo'[1], decl)
    BY <1>1, <2>1 DEF Visit, Task, Initializing
  <2>3. Node.value.class \notin OutOfRange
    BY <2>1, <2>2, NumberConstant
  <2>. QED
    BY <1>1, <2>1, <2>2, <2>3
<1>4. Agree(ir', slots', m_variables') /\ SlotsNamed'
  BY <1>1 DEF Memory, SlotsNamed
<1>5. \A k \in DOMAIN todo \ {1} :
          todo[k].do = "ExplicitInit" => Reserved(ir', slots', todo[k].vals[1])
  BY <1>1 DEF Memory, Pending
<1>. QED
  BY <1>1, <1>2, <1>3, <1>4, <1>5, NothingPut, WithinFunction

\* A declaration that is rejected is no counter's: those are initialized with
\* a number.
LEMMA RejectedDeclaration ==
    ASSUME TypeOK, Memory, todo # <<>>, NEW text, NEW subject, Reject(text, subject),
           \A decl : HasNumber(decl.initializer) =>
              /\ Top # Visit(decl)
              /\ ~(Initializing(Top, decl) /\ m_LastValue = Constant(decl.initializer.value))
              /\ Top # Visit(decl.initializer)
    PROVE  Memory'
<1>1. /\ Finish /\ ir' = ir /\ UNCHANGED <<slots, m_variables, function>>
  BY DEF Reject, module, symbols
<1>2. Proceed(<<>>) /\ <<>> \in Seq({}) /\ Len(<<>>) = 0
  BY <1>1 DEF Finish
<1>3. ASSUME NEW k \in DOMAIN todo', todo'[k].do = "UnrollStart"
      PROVE  FALSE
  BY <1>1, <1>3, StartFinished DEF Memory
<1>4. Starts'
  BY <1>3 DEF Starts
<1>5. Agree(ir', slots', m_variables') /\ SlotsNamed'
  BY <1>1 DEF Memory, SlotsNamed
<1>6. \A k \in DOMAIN todo \ {1} :
          todo[k].do = "ExplicitInit" => Reserved(ir', slots', todo[k].vals[1])
  BY <1>1 DEF Memory, Pending
<1>. QED
  BY <1>1, <1>2, <1>4, <1>5, <1>6, NothingPut, WithinFunction

\* Before its own declaration a slot is no variable's.
LEMMA Undeclared ==
    ASSUME NEW g, NEW S, NEW V, Agree(g, S, V), NEW v, IsAlloca(v), \A s \in S : s[1] # v
    PROVE  \A x \in DOMAIN V : V[x].value # v
<1>. SUFFICES ASSUME NEW x \in DOMAIN V, V[x].value = v
              PROVE  FALSE
  OBVIOUS
<1>1. PICK s \in S : Stands(s, x, V[x])
  BY DEF Agree
<1>. QED
  BY <1>1 DEF Stands

\* What a declaration that is over leaves.
LEMMA DeclareStep ==
    ASSUME TypeOK, Memory, todo # <<>>, function' = function, Finish,
           NEW info, IsAlloca(info.value), Declare(Node.name, info),
           Initializing(Top, Node) \/ (Top.do = "Visit" /\ Node.initializer = Null),
           Node.kind = "VariableDecl", Agree(ir', slots', m_variables'),
           \A k \in DOMAIN todo \ {1} :
              todo[k].do = "ExplicitInit" => Reserved(ir', slots', todo[k].vals[1])
    PROVE  Memory'
<1>1. /\ slots' = slots \cup {<<info.value, Node>>}
      /\ m_variables' = [x \in DOMAIN m_variables \cup {Node.name} |->
                            IF x = Node.name THEN info ELSE m_variables[x]]
  BY DEF Declare
<1>2. /\ slots \subseteq slots' /\ <<info.value, Node>> \in slots'
      /\ \A s \in slots' : s \in slots \/ s = <<info.value, Node>>
      /\ DOMAIN m_variables' = DOMAIN m_variables \cup {Node.name}
      /\ m_variables'[Node.name] = info
      /\ \A x \in DOMAIN m_variables : x # Node.name => m_variables'[x] = m_variables[x]
  BY <1>1
<1>3. SlotsNamed'
  <2>. SUFFICES ASSUME NEW s \in slots'
                PROVE  /\ s[2].name \in DOMAIN m_variables'
                       /\ IsAlloca(m_variables'[s[2].name].value)
    BY DEF SlotsNamed
  <2>1. CASE s \in slots
    <3>1. s[2].name \in DOMAIN m_variables /\ IsAlloca(m_variables[s[2].name].value)
      BY <2>1, UnderWay DEF Memory, SlotsNamed
    <3>. QED
      BY <1>2, <3>1
  <2>2. CASE s = <<info.value, Node>>
    BY <1>2, <2>2
  <2>. QED
    BY <1>2, <2>1, <2>2
<1>4. Starts'
  <2>. SUFFICES ASSUME NEW k \in DOMAIN todo', todo'[k].do = "UnrollStart"
                PROVE  LET decl == todo'[k].node.init
                       IN  /\ Unrolled(todo'[k].node)
                           /\ k = 1 /\ decl.name \in DOMAIN m_variables'
                           /\ <<m_variables'[decl.name].value, decl>> \in slots'
    BY DEF Starts
  <2>. DEFINE decl == todo'[k].node.init
  <2>1. /\ Unrolled(todo'[k].node)
        /\ decl.kind = "VariableDecl" /\ HasNumber(decl.initializer)
        /\ \/ k = 1 /\ Top = Visit(decl)
           \/ k = 1 /\ Initializing(Top, decl)
           \/ k = 2 /\ Top = Visit(decl.initializer)
    BY StartFinished DEF Memory
  <2>2. decl.initializer # Null /\ decl.initializer.kind = "LiteralExpr"
    BY <2>1, NumberConstant
  <2>3. k = 1 /\ decl = Node
    BY <2>1, <2>2 DEF Initializing, Visit, Task, Node
  <2>. QED
    BY <1>2, <2>1, <2>3
<1>5. Proceed(<<>>) /\ <<>> \in Seq({})
  BY DEF Finish
<1>. QED
  BY <1>2, <1>3, <1>4, <1>5, NothingPut, WithinFunction

\* A declaration visits its initializer.
LEMMA InitializerStep ==
    ASSUME TypeOK, Memory, todo # <<>>, function' = function,
           UNCHANGED <<slots, m_variables>>, Agree(ir', slots, m_variables),
           Top.do = "Visit", Node.kind = "VariableDecl", NEW u, Initializing(u, Node),
           Proceed(<<Visit(Node.initializer), u>>),
           Admitted(<<Visit(Node.initializer), u>>),
           \A k \in DOMAIN todo \ {1} :
              todo[k].do = "ExplicitInit" => Reserved(ir', slots, todo[k].vals[1])
    PROVE  Memory'
<1>. DEFINE first == Visit(Node.initializer)
            tasks == <<first, u>>
<1>1. /\ tasks \in Seq({first, u}) /\ Len(tasks) = 2 /\ DOMAIN tasks = {1, 2}
      /\ tasks[1] = first /\ tasks[2] = u
  OBVIOUS
<1>2. first.do = "Visit"
  BY DEF Visit, Task
<1>3. u.do # "UnrollStart"
  BY DEF Initializing
<1>4. /\ DOMAIN tasks \subseteq DOMAIN todo'
      /\ \A k \in DOMAIN tasks : todo'[k] = tasks[k]
  BY <1>1, Agenda
<1>5. Starts'
  <2>. SUFFICES ASSUME NEW k \in DOMAIN todo', todo'[k].do = "UnrollStart"
                PROVE  LET decl == todo'[k].node.init
                       IN  /\ Unrolled(todo'[k].node)
                           /\ k = 3 /\ todo'[1] = Visit(decl.initializer)
                           /\ Initializing(todo'[2], decl)
    BY DEF Starts
  <2>. DEFINE decl == todo'[k].node.init
  <2>1. /\ Unrolled(todo'[k].node)
        /\ decl.kind = "VariableDecl" /\ HasNumber(decl.initializer)
        /\ \/ k = Len(tasks) + 1 /\ Top = Visit(decl)
           \/ Initializing(Top, decl)
           \/ Top = Visit(decl.initializer)
    <3>1. \A j \in DOMAIN tasks : tasks[j].do # "UnrollStart"
      BY <1>1, <1>2, <1>3
    <3>2. Starts /\ Proceed(tasks)
      BY DEF Memory
    <3>. HIDE DEF tasks
    <3>. QED
      BY <1>1, <3>1, <3>2, StartBehind
  <2>2. decl.initializer.kind = "LiteralExpr"
    BY <2>1, NumberConstant
  <2>3. k = 3 /\ decl = Node
    BY <1>1, <2>1, <2>2 DEF Initializing, Visit, Task, Node
  <2>. QED
    BY <1>1, <1>4, <2>1, <2>3
<1>6. Agree(ir', slots', m_variables') /\ SlotsNamed'
  BY DEF Memory, SlotsNamed
<1>7. \A k \in DOMAIN todo \ {1} :
          todo[k].do = "ExplicitInit" => Reserved(ir', slots', todo[k].vals[1])
  OBVIOUS
<1>. HIDE DEF tasks
<1>8. Proceed(tasks) /\ Admitted(tasks)
  BY DEF tasks
<1>. QED
  BY <1>1, <1>5, <1>6, <1>7, <1>8, WithinFunction

LEMMA VariableDeclMemory ==
    ASSUME TypeOK, Memory, VisitVariableDecl
    PROVE  Memory'
<1>. DEFINE type == MapType(Node.varType)
            slot == Build(ir, Alloca(type))
            bare == VariableInfo(slot.val, Node.varType, Node.isMutable)
<1>1. todo # <<>> /\ Top.do = "Visit" /\ Node.kind = "VariableDecl"
  BY DEF VisitVariableDecl, Visiting, Running, Node
<1>2. Built(ir) /\ Agree(ir, slots, m_variables)
  BY <1>1, TopType, WellBuiltIsBuilt DEF Memory
<1>3. CASE Crash
  BY <1>3, CrashIdle
<1>4. CASE /\ Node.initializer = Null
           /\ Reject("Variable must be initialized", Node.name)
  <2>1. ASSUME NEW decl, HasNumber(decl.initializer)
        PROVE  /\ Top # Visit(decl) /\ Top # Visit(decl.initializer)
               /\ ~Initializing(Top, decl)
    <3>1. decl.initializer # Null /\ decl.initializer.kind = "LiteralExpr"
      BY <2>1, NumberConstant
    <3>2. /\ Visit(decl).node = decl /\ Visit(decl.initializer).node = decl.initializer
      BY DEF Visit, Task
    <3>3. Top.node # decl
      BY <1>4, <3>1 DEF Node
    <3>4. Top.node # decl.initializer
      BY <1>1, <3>1 DEF Node
    <3>. QED
      BY <3>2, <3>3, <3>4 DEF Initializing
  <2>. QED
    BY <1>1, <1>4, <2>1, RejectedDeclaration
<1>5. CASE /\ Node.varType.name = "none"
           /\ Proceed(<<Visit(Node.initializer), Then("InferredInit")>>)
           /\ UNCHANGED <<module, symbols, result, ir, errors, crashed>>
  <2>. DEFINE first == Visit(Node.initializer)
              u == Then("InferredInit")
  <2>1. UNCHANGED <<slots, m_variables, function, ir>>
    BY <1>5 DEF module, symbols
  <2>2. first.do = "Visit" /\ u.do = "InferredInit" /\ u.node = Node
    BY DEF Visit, Then, Task
  <2>. HIDE DEF first, u
  <2>3. Admitted(<<first, u>>)
    BY <1>5, <2>2 DEF Admitted, HasType
  <2>4. Initializing(u, Node)
    BY <2>2 DEF Initializing
  <2>5. \A k \in DOMAIN todo \ {1} :
            todo[k].do = "ExplicitInit" => Reserved(ir', slots, todo[k].vals[1])
    BY <2>1 DEF Memory, Pending
  <2>. QED
    BY <1>1, <1>2, <1>5, <2>1, <2>3, <2>4, <2>5, InitializerStep DEF first, u
<1>6. /\ IsSlot(slot.ir, slot.val) /\ ~IsSlot(ir, slot.val)
      /\ Quiet(ir, slot.ir) /\ IsAlloca(slot.val)
  BY <1>2, NewSlot DEF IsSlot
<1>. HIDE DEF slot
<1>7. /\ Agree(slot.ir, slots, m_variables) /\ StoresTo(slot.ir, slot.val) = {}
      /\ \A s \in slots : s[1] # slot.val
  <2>1. StoresTo(ir, slot.val) = {}
    BY <1>2, <1>6, NoStores
  <2>2. StoresTo(slot.ir, slot.val) = {}
    BY <1>6, <2>1, QuietSlots
  <2>3. \A s \in slots : s[1] # slot.val
    BY <1>2, <1>6 DEF Agree
  <2>. QED
    BY <1>2, <1>6, <2>2, <2>3, QuietAgrees
<1>8. \A k \in DOMAIN todo :
          todo[k].do = "ExplicitInit" =>
              Reserved(slot.ir, slots, todo[k].vals[1]) /\ todo[k].vals[1] # slot.val
  <2>1. \A k \in DOMAIN todo :
            todo[k].do = "ExplicitInit" => Reserved(ir, slots, todo[k].vals[1])
    BY DEF Memory, Pending
  <2>. QED
    BY <1>6, <2>1, ReservedQuiet DEF Reserved
<1>9. CASE /\ ir' = slot.ir
           /\ Proceed(<<Visit(Node.initializer), ThenWith("ExplicitInit", <<slot.val>>)>>)
           /\ UNCHANGED <<module, symbols>>
  <2>. DEFINE first == Visit(Node.initializer)
              u == ThenWith("ExplicitInit", <<slot.val>>)
  <2>1. UNCHANGED <<slots, m_variables, function>>
    BY <1>9 DEF module, symbols
  <2>2. /\ first.do = "Visit" /\ u.do = "ExplicitInit" /\ u.node = Node
        /\ u.vals[1] = slot.val
    BY DEF Visit, ThenWith, Task
  <2>. HIDE DEF first, u
  <2>3. Admitted(<<first, u>>)
    <3>. DEFINE tasks == <<first, u>>
    <3>1. DOMAIN tasks = {1, 2} /\ tasks[1] = first /\ tasks[2] = u
      OBVIOUS
    <3>. HIDE DEF tasks
    <3>2. Reserved(ir', slots', slot.val)
      BY <1>6, <1>7, <1>9, <2>1 DEF Reserved
    <3>3. Admitted(tasks)
      BY <1>8, <2>2, <3>1, <3>2 DEF Admitted
    <3>. QED
      BY <3>3 DEF tasks
  <2>4. Initializing(u, Node)
    BY <2>2 DEF Initializing
  <2>5. Agree(ir', slots, m_variables)
        /\ \A k \in DOMAIN todo \ {1} :
              todo[k].do = "ExplicitInit" => Reserved(ir', slots, todo[k].vals[1])
    BY <1>7, <1>8, <1>9
  <2>. QED
    BY <1>1, <1>9, <2>1, <2>3, <2>4, <2>5, InitializerStep DEF first, u
<1>10. CASE /\ ir' = slot.ir /\ Node.initializer = Null /\ Declare(Node.name, bare)
            /\ Finish /\ UNCHANGED module
  <2>1. /\ bare.value = slot.val /\ bare.type = Node.varType /\ ~bare.used
        /\ bare.isMutable = Node.isMutable
    BY DEF VariableInfo
  <2>2. /\ m_variables' = Declared(m_variables, Node.name, bare)
        /\ slots' = slots \cup {<<bare.value, Node>>} /\ function' = function
    BY <1>10 DEF Declare, Declared, module
  <2>. HIDE DEF bare
  <2>3. Agree(slot.ir, slots \cup {<<bare.value, Node>>},
              Declared(m_variables, Node.name, bare))
    BY <1>6, <1>7, <2>1, DeclareAgrees
  <2>4. \A k \in DOMAIN todo \ {1} :
            todo[k].do = "ExplicitInit" => Reserved(ir', slots', todo[k].vals[1])
    BY <1>8, <1>10, <2>1, <2>2 DEF Reserved
  <2>. QED
    BY <1>1, <1>6, <1>10, <2>1, <2>2, <2>3, <2>4, DeclareStep
<1>11. \/ Crash
       \/ /\ Node.initializer = Null
          /\ Reject("Variable must be initialized", Node.name)
       \/ /\ Node.varType.name = "none"
          /\ Proceed(<<Visit(Node.initializer), Then("InferredInit")>>)
          /\ UNCHANGED <<module, symbols, result, ir, errors, crashed>>
       \/ /\ ir' = slot.ir
          /\ Proceed(<<Visit(Node.initializer), ThenWith("ExplicitInit", <<slot.val>>)>>)
          /\ UNCHANGED <<module, symbols>>
       \/ /\ ir' = slot.ir /\ Node.initializer = Null /\ Declare(Node.name, bare)
          /\ Finish /\ UNCHANGED module
  BY DEF VisitVariableDecl, slot, module
<1>. QED
  BY <1>3, <1>4, <1>5, <1>9, <1>10, <1>11

\* The first value of a slot that nobody has declared yet, and its declaration.
LEMMA FirstStoreAgrees ==
    ASSUME NEW g, Built(g), NEW S, NEW V, Agree(g, S, V), NEW w, NEW n, NEW info,
           Reserved(g, S, info.value),
           ~info.used, info.isMutable = n.isMutable, HasType(n) => info.type = n.varType,
           NonNullable(info.type) /\ IsNullConstant(w) =>
              /\ ~HasType(n)
              /\ NextPlace(g) = <<info.value.at.block, info.value.at.index + 1>>
    PROVE  LET h == Emit(g, Store(w, info.value))
           IN  /\ Agree(h, S \cup {<<info.value, n>>}, Declared(V, n.name, info))
               /\ \A v : Reserved(g, S, v) /\ v # info.value =>
                     Reserved(h, S \cup {<<info.value, n>>}, v)
<1>. DEFINE slot == info.value
            h == Emit(g, Store(w, slot))
<1>1. /\ IsSlot(g, slot) /\ StoresTo(g, slot) = {} /\ \A s \in S : s[1] # slot
  BY DEF Reserved
<1>2. \A x \in DOMAIN V : V[x].value # slot
  BY <1>1, Undeclared DEF IsSlot
<1>3. Agree(h, S, V)
  BY <1>1, <1>2, StoreAgrees
<1>4. \A v : /\ StoresTo(h, v) = StoresTo(g, v) \cup (IF v = slot THEN {NextPlace(g)} ELSE {})
             /\ IsSlot(g, v) => IsSlot(h, v)
             /\ InstAt(h, NextPlace(g)).args[1] = w
  BY StoreSlots
<1>. HIDE DEF h
<1>5. StoresTo(h, slot) = {NextPlace(g)}
  BY <1>1, <1>4
<1>6. IsSlot(h, slot)
  BY <1>1, <1>4
<1>7. Agree(h, S \cup {<<slot, n>>}, Declared(V, n.name, info))
  BY <1>1, <1>3, <1>4, <1>5, <1>6, DeclareAgrees
<1>8. ASSUME NEW v, Reserved(g, S, v), v # slot
      PROVE  Reserved(h, S \cup {<<slot, n>>}, v)
  BY <1>4, <1>8 DEF Reserved
<1>. QED
  BY <1>7, <1>8 DEF h

LEMMA InferredMemory ==
    ASSUME TypeOK, Memory, InferredInit
    PROVE  Memory'
<1>. DEFINE slot == Build(ir, Alloca(m_LastValue.type))
            info == VariableInfo(slot.val, InferTypeRef(m_LastValue.type), Node.isMutable)
<1>1. todo # <<>> /\ Top.do = "InferredInit"
  BY DEF InferredInit, Resuming, Running
<1>2. Built(ir) /\ Agree(ir, slots, m_variables) /\ Node.kind = "VariableDecl"
  BY <1>1, TopType, WellBuiltIsBuilt DEF Memory, OwnKind, Node
<1>3. CASE Crash
  BY <1>3, CrashIdle
<1>4. CASE m_LastValue = NoValue /\ Reject("Invalid initializer", Node.name)
  <2>1. ASSUME NEW decl, HasNumber(decl.initializer)
        PROVE  /\ Top # Visit(decl) /\ Top # Visit(decl.initializer)
               /\ m_LastValue # Constant(decl.initializer.value)
    <3>1. Constant(decl.initializer.value) # NoValue
      BY <2>1, NumberConstant
    <3>2. Visit(decl).do = "Visit" /\ Visit(decl.initializer).do = "Visit"
      BY DEF Visit, Task
    <3>. QED
      BY <1>1, <1>4, <3>1, <3>2
  <2>. QED
    BY <1>1, <1>4, <2>1, RejectedDeclaration
<1>5. CASE ~Crash /\ m_LastValue # NoValue
  <2>1. /\ ir' = Emit(slot.ir, Store(m_LastValue, slot.val))
        /\ Declare(Node.name, info) /\ Finish /\ function' = function
    BY <1>5 DEF InferredInit, module
  <2>2. /\ info.value = slot.val /\ ~info.used /\ info.isMutable = Node.isMutable
    BY DEF VariableInfo
  <2>3. /\ m_variables' = Declared(m_variables, Node.name, info)
        /\ slots' = slots \cup {<<info.value, Node>>}
    BY <2>1 DEF Declare, Declared
  <2>4. /\ IsSlot(slot.ir, slot.val) /\ ~IsSlot(ir, slot.val)
        /\ Quiet(ir, slot.ir) /\ Built(slot.ir)
        /\ NextPlace(slot.ir) = <<slot.val.at.block, slot.val.at.index + 1>>
    BY <1>2, NewSlot
  <2>. HIDE DEF slot, info
  <2>5. Agree(slot.ir, slots, m_variables)
    BY <1>2, <2>4, QuietAgrees
  <2>6. Reserved(slot.ir, slots, slot.val)
    <3>1. StoresTo(slot.ir, slot.val) = {}
      BY <1>2, <2>4, NoStores, QuietSlots
    <3>2. \A s \in slots : s[1] # slot.val
      BY <1>2, <2>4 DEF Agree
    <3>. QED
      BY <2>4, <3>1, <3>2 DEF Reserved
  <2>7. ~HasType(Node)
    <3>1. 1 \in DOMAIN todo /\ Top = todo[1]
      BY <1>1, LenProperties, HeadTailProperties DEF TypeOK, Top
    <3>. QED
      BY <1>1, <3>1 DEF Memory, Pending, Node
  <2>8. /\ Agree(ir', slots', m_variables')
        /\ \A v : Reserved(slot.ir, slots, v) /\ v # slot.val => Reserved(ir', slots', v)
    BY <2>1, <2>2, <2>3, <2>4, <2>5, <2>6, <2>7, FirstStoreAgrees
  <2>9. \A k \in DOMAIN todo \ {1} :
            todo[k].do = "ExplicitInit" => Reserved(ir', slots', todo[k].vals[1])
    <3>. SUFFICES ASSUME NEW k \in DOMAIN todo, todo[k].do = "ExplicitInit"
                  PROVE  Reserved(ir', slots', todo[k].vals[1])
      OBVIOUS
    <3>1. Reserved(ir, slots, todo[k].vals[1])
      BY DEF Memory, Pending
    <3>2. Reserved(slot.ir, slots, todo[k].vals[1]) /\ todo[k].vals[1] # slot.val
      BY <2>4, <3>1, ReservedQuiet DEF Reserved
    <3>. QED
      BY <2>8, <3>2
  <2>10. Initializing(Top, Node) /\ IsAlloca(info.value)
    BY <1>1, <2>2, <2>4 DEF Initializing, Node, IsSlot
  <2>. QED
    BY <1>1, <1>2, <2>1, <2>8, <2>9, <2>10, DeclareStep
<1>6. \/ Crash
      \/ m_LastValue = NoValue /\ Reject("Invalid initializer", Node.name)
      \/ m_LastValue # NoValue
  BY DEF InferredInit
<1>. QED
  BY <1>3, <1>4, <1>5, <1>6

LEMMA ExplicitMemory ==
    ASSUME TypeOK, Memory, ExplicitInit
    PROVE  Memory'
<1>. DEFINE slot == Top.vals[1]
            info == VariableInfo(slot, Node.varType, Node.isMutable)
<1>1. todo # <<>> /\ Top.do = "ExplicitInit"
  BY DEF ExplicitInit, Resuming, Running
<1>2. Built(ir) /\ Agree(ir, slots, m_variables) /\ Node.kind = "VariableDecl"
  BY <1>1, TopType, WellBuiltIsBuilt DEF Memory, OwnKind, Node
<1>3. 1 \in DOMAIN todo /\ Top = todo[1]
  BY <1>1, LenProperties, HeadTailProperties DEF TypeOK, Top
<1>4. /\ Reserved(ir, slots, slot)
      /\ \A k \in DOMAIN todo \ {1} :
            todo[k].do = "ExplicitInit" =>
                Reserved(ir, slots, todo[k].vals[1]) /\ todo[k].vals[1] # slot
  BY <1>1, <1>3 DEF Memory, Pending
<1>5. CASE Crash
  BY <1>5, CrashIdle
<1>6. CASE /\ IsNullConstant(m_LastValue)
           /\ Reject("Cannot assign null to non-nullable pointer", Node.name)
  <2>1. ASSUME NEW decl, HasNumber(decl.initializer)
        PROVE  /\ Top # Visit(decl) /\ Top # Visit(decl.initializer)
               /\ m_LastValue # Constant(decl.initializer.value)
    <3>1. Constant(decl.initializer.value).op = "const"
      BY <2>1, NumberConstant
    <3>2. Visit(decl).do = "Visit" /\ Visit(decl.initializer).do = "Visit"
      BY DEF Visit, Task
    <3>. QED
      BY <1>1, <1>6, <3>1, <3>2 DEF IsNullConstant
  <2>. QED
    BY <1>1, <1>6, <2>1, RejectedDeclaration
<1>7. CASE /\ ~Crash
           /\ ~Reject("Cannot assign null to non-nullable pointer", Node.name)
  <2>1. /\ ir' = IF m_LastValue = NoValue THEN ir ELSE Emit(ir, Store(m_LastValue, slot))
        /\ Declare(Node.name, info) /\ Finish /\ function' = function
        /\ ~(NonNullable(Node.varType) /\ IsNullConstant(m_LastValue))
    BY <1>7 DEF ExplicitInit, module
  <2>2. /\ info.value = slot /\ ~info.used /\ info.isMutable = Node.isMutable
        /\ info.type = Node.varType
    BY DEF VariableInfo
  <2>3. /\ m_variables' = Declared(m_variables, Node.name, info)
        /\ slots' = slots \cup {<<info.value, Node>>}
    BY <2>1 DEF Declare, Declared
  <2>. HIDE DEF slot, info
  <2>4. /\ Agree(ir', slots', m_variables')
        /\ \A v : Reserved(ir, slots, v) /\ v # slot => Reserved(ir', slots', v)
    <3>1. CASE m_LastValue = NoValue
      <4>1. /\ IsSlot(ir, info.value) /\ StoresTo(ir, info.value) = {}
            /\ \A s \in slots : s[1] # info.value
        BY <1>4, <2>2 DEF Reserved
      <4>2. Agree(ir, slots \cup {<<info.value, Node>>},
                  Declared(m_variables, Node.name, info))
        BY <1>2, <2>2, <4>1, DeclareAgrees
      <4>. QED
        BY <2>1, <2>2, <2>3, <3>1, <4>2 DEF Reserved
    <3>2. CASE m_LastValue # NoValue
      BY <1>2, <1>4, <2>1, <2>2, <2>3, <3>2, FirstStoreAgrees
    <3>. QED
      BY <3>1, <3>2
  <2>5. \A k \in DOMAIN todo \ {1} :
            todo[k].do = "ExplicitInit" => Reserved(ir', slots', todo[k].vals[1])
    BY <1>4, <2>4 DEF slot
  <2>6. Initializing(Top, Node) /\ IsAlloca(info.value)
    BY <1>1, <1>4, <2>2 DEF Initializing, Node, Reserved, IsSlot
  <2>. QED
    BY <1>1, <1>2, <2>1, <2>4, <2>5, <2>6, DeclareStep
<1>8. ASSUME ~Crash, Reject("Cannot assign null to non-nullable pointer", Node.name)
      PROVE  IsNullConstant(m_LastValue)
  <2>. SUFFICES ASSUME ~IsNullConstant(m_LastValue)
                PROVE  FALSE
    OBVIOUS
  <2>1. m_variables' = Declared(m_variables, Node.name, info)
        /\ slots' = slots \cup {<<slot, Node>>}
    BY <1>8 DEF ExplicitInit, Declare, Declared, VariableInfo
  <2>2. slots' = slots
    BY <1>8 DEF Reject, symbols
  <2>3. <<slot, Node>> \in slots
    BY <2>1, <2>2
  <2>. QED
    BY <1>4, <2>3 DEF Reserved
<1>. QED
  BY <1>5, <1>6, <1>7, <1>8

(***************************************************************************)
(* Unrolled loops.                                                         *)
(***************************************************************************)
\* The tasks that an unrolled loop puts on the agenda.
LEMMA IterationTasks ==
    ASSUME NEW info, NEW slot, NEW k \in DOMAIN Iterations(info, slot)
    PROVE  LET t == Iterations(info, slot)[k]
           IN  \/ t.do = "Visit"
               \/ t.do = "UnrollStore" /\ t.vals[1] = slot /\ t.vals[2].op = "const"
<1>. DEFINE value == ConstInt(slot.elem, info.start + (k \div 2) * info.step)
            store == ThenWith("UnrollStore", <<slot, value>>)
<1>1. value.op = "const"
  BY DEF ConstInt, Val
<1>. HIDE DEF value
<1>2. store.do = "UnrollStore" /\ store.vals[1] = slot /\ store.vals[2] = value
  BY DEF ThenWith, Task
<1>3. Visit(Node.body).do = "Visit"
  BY DEF Visit, Task
<1>. HIDE DEF store
<1>4. k \in 1..2 * info.tripCount
  BY DEF Iterations
<1>5. Iterations(info, slot)[k] = IF k % 2 = 0 THEN Visit(Node.body) ELSE store
  BY <1>4 DEF Iterations, store, value
<1>. QED
  BY <1>1, <1>2, <1>3, <1>5

\* The counter of an unrolled loop is one.
LEMMA IsCounterDecl ==
    ASSUME NEW n \in AstNode, n.kind = "ForStatement", Unrolled(n)
    PROVE  n.init \in Counters
BY DEF Counters

LEMMA UnrollStartMemory ==
    ASSUME TypeOK, Memory, UnrollStart
    PROVE  Memory'
<1>. DEFINE info == AnalyzeForUnroll(Node)
            slot == m_variables[info.varName].value
            tasks == Iterations(info, slot)
<1>1. todo # <<>> /\ Top.do = "UnrollStart" /\ ~Special(Top)
  BY DEF UnrollStart, Resuming, Running, Special
<1>2. /\ Node \in AstNode /\ Node.kind = "ForStatement"
      /\ 1 \in DOMAIN todo /\ Top = todo[1]
  <2>1. 1 \in DOMAIN todo /\ Top = todo[1]
    BY <1>1, LenProperties, HeadTailProperties DEF TypeOK, Top
  <2>. QED
    BY <1>1, <2>1, TopType DEF OwnKind, Node
<1>3. CASE Crash
  BY <1>3, CrashIdle
<1>4. CASE \E text, subject : Reject(text, subject)
  BY <1>1, <1>4, RejectCalm
<1>5. CASE ~Crash /\ ~\E text, subject : Reject(text, subject)
  <2>1. /\ Proceed(tasks) /\ function' = function /\ ir' = ir
        /\ UNCHANGED <<slots, m_variables>>
        /\ info.varName \in DOMAIN m_variables
    BY <1>5 DEF UnrollStart, module, symbols
  <2>2. /\ Unrolled(Node) /\ Node.init.name \in DOMAIN m_variables
        /\ <<m_variables[Node.init.name].value, Node.init>> \in slots
    BY <1>1, <1>2 DEF Memory, Starts, Node
  <2>3. info.varName = Node.init.name
    BY <2>2, UnrolledLoop
  <2>4. Node.init \in Counters
    BY <1>2, <2>2, IsCounterDecl
  <2>5. \E s \in slots : s[1] = slot /\ s[2] \in Counters
    <3>1. <<slot, Node.init>>[1] = slot /\ <<slot, Node.init>>[2] = Node.init
      OBVIOUS
    <3>. QED
      BY <2>2, <2>3, <2>4, <3>1
  <2>6. tasks \in Seq(TasksIn(ir))
    <3>1. /\ info.start \in Int /\ info.step \in Int /\ info.tripCount \in Nat
      BY <1>2, AnalysisType
    <3>2. slot \in Values
      BY <2>1 DEF TypeOK, VariableInfos
    <3>. HIDE DEF info, slot
    <3>. QED
      BY <1>2, <3>1, <3>2, IterationsType
  <2>7. \A k \in DOMAIN tasks :
            \/ tasks[k].do = "Visit"
            \/ /\ tasks[k].do = "UnrollStore" /\ tasks[k].vals[1] = slot
               /\ tasks[k].vals[2].op = "const"
    BY IterationTasks
  <2>. HIDE DEF tasks, slot, info
  <2>8. Admitted(tasks)
    BY <2>1, <2>5, <2>7 DEF Admitted
  <2>9. \A k \in DOMAIN tasks : tasks[k].do # "UnrollStart"
    BY <2>7
  <2>10. Starts'
    BY <1>1, <2>1, <2>6, <2>9, StartsKept DEF Memory
  <2>11. Agree(ir', slots', m_variables') /\ SlotsNamed'
    BY <2>1 DEF Memory, SlotsNamed
  <2>12. \A k \in DOMAIN todo \ {1} :
            todo[k].do = "ExplicitInit" => Reserved(ir', slots', todo[k].vals[1])
    BY <2>1 DEF Memory, Pending
  <2>. QED
    BY <1>1, <2>1, <2>6, <2>8, <2>10, <2>11, <2>12, WithinFunction
<1>. QED
  BY <1>3, <1>4, <1>5

LEMMA UnrollStoreMemory ==
    ASSUME TypeOK, Memory, UnrollStore
    PROVE  Memory'
<1>. DEFINE slot == Top.vals[1]
            w == Top.vals[2]
<1>1. /\ todo # <<>> /\ Top.do = "UnrollStore" /\ ~Special(Top)
      /\ Finish /\ ir' = Emit(ir, Store(w, slot)) /\ function' = function
      /\ slots' = slots /\ m_variables' = m_variables
  BY DEF UnrollStore, Resuming, Running, Special, module, symbols
<1>2. Built(ir) /\ Agree(ir, slots, m_variables)
  BY <1>1, TopType, WellBuiltIsBuilt DEF Memory
<1>3. 1 \in DOMAIN todo /\ Top = todo[1]
  BY <1>1, LenProperties, HeadTailProperties DEF TypeOK, Top
<1>4. /\ w.op = "const"
      /\ \E s \in slots : s[1] = slot /\ s[2] \in Counters
  BY <1>1, <1>3 DEF Memory, Steps
<1>. HIDE DEF slot, w
<1>5. IsSlot(ir, slot) /\ \A s \in slots : s[1] = slot => s[2] \in Counters
  BY <1>2, <1>4 DEF Agree
<1>6. ~IsNullConstant(w)
  BY <1>4 DEF IsNullConstant
<1>7. Agree(ir', slots, m_variables)
  BY <1>1, <1>2, <1>5, <1>6, StoreAgrees
<1>8. ASSUME NEW v, Reserved(ir, slots, v)
      PROVE  Reserved(ir', slots, v)
  BY <1>1, <1>2, <1>4, <1>8, ReservedStore
<1>. QED
  BY <1>1, <1>7, <1>8, VariableStep

LEMMA ForMemory ==
    ASSUME TypeOK, Memory, VisitForStatement
    PROVE  Memory'
<1>1. /\ todo # <<>> /\ ~Special(Top) /\ ir' = ir /\ function' = function
      /\ UNCHANGED <<slots, m_variables>>
      /\ \/ Unrolled(Node) /\ Proceed(<<Visit(Node.init), Then("UnrollStart")>>)
         \/ Proceed(IfPresent(Node.init) \o <<Then("ForBlocks")>>)
  BY DEF VisitForStatement, Descend, Visiting, Running, Special, Node, module, symbols
<1>2. CASE Proceed(IfPresent(Node.init) \o <<Then("ForBlocks")>>)
  <2>1. Follows(Node.init, Then("ForBlocks"))
    BY <1>2 DEF Follows
  <2>2. Then("ForBlocks").do \notin Watched
    BY CalmTasks DEF Then, Watched
  <2>. QED
    BY <1>1, <2>1, <2>2, QuietSame, FollowCalm
<1>3. CASE Unrolled(Node) /\ Proceed(<<Visit(Node.init), Then("UnrollStart")>>)
  <2>. DEFINE first == Visit(Node.init)
              u == Then("UnrollStart")
              tasks == <<first, u>>
  <2>1. /\ tasks \in Seq({first, u}) /\ DOMAIN tasks = {1, 2}
        /\ tasks[1] = first /\ tasks[2] = u
    OBVIOUS
  <2>2. first.do = "Visit" /\ u.do = "UnrollStart" /\ u.node = Node
    BY DEF Visit, Then, Task
  <2>3. Proceed(tasks)
    BY <1>3
  <2>. HIDE DEF tasks, u
  <2>4. Admitted(tasks)
    BY <2>1, <2>2 DEF Admitted
  <2>5. /\ 1 \in DOMAIN todo /\ Top = todo[1]
        /\ \A k \in DOMAIN tasks : todo'[k] = tasks[k]
        /\ \A k \in DOMAIN todo' \ DOMAIN tasks :
              /\ Was(k, tasks) \in DOMAIN todo /\ Was(k, tasks) # 1
              /\ todo'[k] = todo[Was(k, tasks)]
    BY <1>1, <2>1, <2>3, Agenda
  <2>6. \A k \in DOMAIN todo : k # 1 => todo[k].do # "UnrollStart"
    BY <1>1, <2>5, NoStartBehind DEF Memory
  <2>7. Starts'
    <3>. SUFFICES ASSUME NEW k \in DOMAIN todo', todo'[k].do = "UnrollStart"
                  PROVE  /\ Unrolled(todo'[k].node) /\ k = 2
                         /\ todo'[1] = Visit(todo'[k].node.init)
      BY DEF Starts
    <3>1. k \in DOMAIN tasks
      BY <2>5, <2>6
    <3>2. k = 2
      BY <2>1, <2>2, <2>5, <3>1
    <3>. QED
      BY <1>3, <2>1, <2>2, <2>5, <3>2
  <2>8. Agree(ir', slots', m_variables') /\ SlotsNamed'
    BY <1>1 DEF Memory, SlotsNamed
  <2>9. \A k \in DOMAIN todo \ {1} :
            todo[k].do = "ExplicitInit" => Reserved(ir', slots', todo[k].vals[1])
    BY <1>1 DEF Memory, Pending
  <2>. QED
    BY <1>1, <2>1, <2>3, <2>4, <2>7, <2>8, <2>9, WithinFunction
<1>. QED
  BY <1>1, <1>2, <1>3

(***************************************************************************)
(* Top-level declarations.                                                 *)
(***************************************************************************)
\* A function begins with its parameters, which are in no slots.
LEMMA FunctionMemory ==
    ASSUME TypeOK, SymbolsScoped, VisitFunctionDecl
    PROVE  Memory'
<1>. DEFINE decl == Head(pending)
            params == decl.params
            names == {params[k].name : k \in DOMAIN params}
<1>1. /\ function = Null /\ slots' = {} /\ ir' = NewFunction(ir)
      /\ function' = decl /\ todo' = IfPresent(decl.body)
      /\ m_variables' = [x \in DOMAIN m_variables \cup names |->
                            IF x \in names THEN ParameterInfo(params, x)
                            ELSE m_variables[x]]
  BY DEF VisitFunctionDecl, AtDeclaration
<1>2. DOMAIN m_variables = {}
  BY <1>1 DEF SymbolsScoped
<1>3. \A x \in DOMAIN m_variables' : m_variables'[x] = ParameterInfo(params, x)
  BY <1>1, <1>2
<1>4. \A x : ~IsAlloca(ParameterInfo(params, x).value)
  BY DEF ParameterInfo, VariableInfo, Argument, Val, IsAlloca
<1>5. Positions(ir') = {}
  <2>. DEFINE entry == <<Block(TRUE, <<>>)>>
  <2>1. DOMAIN entry = {1} /\ entry[1].code = <<>>
    BY DEF Block
  <2>. HIDE DEF entry
  <2>2. ir'.blocks = entry
    BY <1>1 DEF NewFunction, Func, entry
  <2>. QED
    BY <2>1, <2>2 DEF Positions
<1>6. Agree(ir', slots', m_variables')
  BY <1>1, <1>3, <1>4, <1>5, NewAgrees
<1>7. \A k \in DOMAIN todo' : todo'[k].do = "Visit"
  <2>1. Visit(decl.body).do = "Visit"
    BY DEF Visit, Task
  <2>2. DOMAIN <<Visit(decl.body)>> = {1} /\ <<Visit(decl.body)>>[1] = Visit(decl.body)
    OBVIOUS
  <2>. QED
    BY <1>1, <2>1, <2>2 DEF IfPresent
<1>8. SlotsNamed' /\ SoleReported'
  BY <1>1 DEF SlotsNamed, SoleReported
<1>9. Pending' /\ Steps' /\ Starts'
  BY <1>7 DEF Pending, Steps, Starts
<1>. QED
  BY <1>6, <1>8, <1>9 DEF Memory

\* At its end the variables that were never used are reported.
LEMMA EndFunctionMemory ==
    ASSUME TypeOK, SymbolsScoped, Memory, EndFunctionDecl
    PROVE  Memory'
<1>1. /\ todo = <<>> /\ todo' = todo /\ function # Null /\ function' = Null
      /\ slots' = slots /\ m_LastValue' = m_LastValue
      /\ ir' = ir \/ ir' = Emit(ir, RetVoid)
      /\ m_variables' = [x \in DOMAIN m_variables \ m_currentFunctionVariables |->
                            m_variables[x]]
      /\ errors' = errors \cup
            {<<"Unused variable", x>> :
                x \in {y \in m_currentFunctionVariables \cap DOMAIN m_variables :
                          ~m_variables[y].used}}
  BY DEF EndFunctionDecl, Between, result, CheckUnusedVariables
<1>2. ir \in WellBuilt
  BY <1>1 DEF TypeOK, WellBuilt
<1>3. Quiet(ir, ir')
  <2>1. Built(ir) /\ RetVoid.op # "store"
    BY <1>2, WellBuiltIsBuilt, Operations
  <2>2. Quiet(ir, ir) /\ Quiet(ir, Emit(ir, RetVoid))
    BY <2>1, EmitQuiet, QuietSame
  <2>. QED
    BY <1>1, <2>2
<1>4. Agree(ir', slots, m_variables)
  BY <1>3, QuietAgrees DEF Memory
<1>5. Agree(ir', slots', m_variables')
  BY <1>1, <1>4, FewerAgree
<1>6. SoleReported'
  <2>. SUFFICES ASSUME NEW s \in slots, Sole(s), LoadsFrom(ir', s[1]) = {}
                PROVE  <<"Unused variable", s[2].name>> \in errors'
    BY <1>1 DEF SoleReported, Sole
  <2>. DEFINE x == s[2].name
  <2>1. x \in DOMAIN m_variables /\ IsAlloca(m_variables[x].value)
    BY <1>1 DEF Memory, SlotsNamed
  <2>2. PICK t \in slots : Stands(t, x, m_variables[x])
    BY <2>1 DEF Memory, Agree
  <2>3. t = s
    BY <2>2 DEF Stands, Sole
  <2>4. m_variables[x].value = s[1]
    BY <2>2, <2>3 DEF Stands
  <2>5. ~m_variables[x].used
    BY <1>4, <2>1, <2>4 DEF Agree
  <2>6. x \in m_currentFunctionVariables
    BY <2>1 DEF SymbolsScoped
  <2>. QED
    BY <1>1, <2>1, <2>5, <2>6
<1>7. SlotsNamed'
  BY <1>1 DEF SlotsNamed
<1>8. Pending' /\ Steps' /\ Starts'
  <2>1. todo' = <<>>
    BY <1>1
  <2>2. DOMAIN todo' = {}
    BY <2>1
  <2>. QED
    BY <2>2 DEF Pending, Steps, Starts
<1>. QED
  BY <1>5, <1>6, <1>7, <1>8 DEF Memory

LEMMA DeclarationsMemory ==
    ASSUME TypeOK, SymbolsScoped, Memory, Declarations
    PROVE  Memory'
<1>1. CASE VisitInterfaceDecl \/ VisitStructDecl
  <2>1. UNCHANGED <<todo, ir, slots, m_variables, m_LastValue, function>>
        /\ errors' = errors
    BY <1>1 DEF VisitInterfaceDecl, VisitStructDecl, symbols, result
  <2>. QED
    BY <2>1, IdleStep
<1>. QED
  BY <1>1, FunctionMemory, EndFunctionMemory DEF Declarations

(***************************************************************************)
(* The invariant.                                                          *)
(***************************************************************************)
LEMMA InitMemory == Init => Memory
<1>. SUFFICES ASSUME Init
              PROVE  Memory
  OBVIOUS
<1>1. ir.blocks = <<>> /\ slots = {} /\ m_variables = <<>> /\ todo = <<>> /\ function = Null
  BY DEF Init, NoFunction, Func
<1>2. Positions(ir) = {}
  BY <1>1 DEF Positions
<1>3. Agree(ir, slots, m_variables)
  BY <1>1, <1>2, NewAgrees
<1>. QED
  BY <1>1, <1>3 DEF Memory, SlotsNamed, SoleReported, Pending, Steps, Starts

MemoryInv == TypeOK /\ SymbolsScoped /\ Memory

LEMMA NextMemory ==
    ASSUME MemoryInv, [Next]_vars, TypeOK', SymbolsScoped'
    PROVE  MemoryInv'
<1>. USE DEF MemoryInv
<1>1. CASE Expressions
  <2>1. CASE VisitPrefixExpr \/ VisitPostfixExpr
    <3>1. todo # <<>> /\ ~Special(Top) /\ \E prefix : IncDec(prefix)
      BY <2>1 DEF VisitPrefixExpr, VisitPostfixExpr, Visiting, Running, Special, Node
    <3>. QED
      BY <3>1, IncDecMemory
  <2>. QED
    BY <1>1, <2>1, LiteralMemory, VarMemory, ValuesCalm, VisitsCalm, ShortCalm, CallCalm,
       AssignMemory DEF Expressions
<1>2. CASE Statements
  <2>1. VisitNull => Crash
    BY DEF VisitNull
  <2>. QED
    BY <1>2, <2>1, CrashIdle, BlockCalm, VisitsCalm, VariableDeclMemory, InferredMemory,
       ExplicitMemory, ReturnCalm, JumpsCalm, LoopsCalm, ConditionsCalm, ForMemory,
       UnrollStartMemory, UnrollStoreMemory DEF Statements
<1>3. CASE Declarations
  BY <1>3, DeclarationsMemory
<1>4. CASE UNCHANGED vars
  <2>1. UNCHANGED <<todo, ir, slots, m_variables, m_LastValue, function>>
        /\ errors' = errors
    BY <1>4 DEF vars, symbols, result, module
  <2>. QED
    BY <2>1, IdleStep
<1>. QED
  BY <1>1, <1>2, <1>3, <1>4 DEF Next

\* What the allocas, stores, loads, slots and recorded values of a function say of
\* each other at every step of every visit (VisitVariableDecl, VisitVarExpr,
\* EmitStore, UnrollForLoop and the handlers between them): the inductive
\* invariant that the theorems below follow from.
THEOREM MemoryCorrect == Spec => []MemoryInv
<1>1. Init => Memory
  BY InitMemory
<1>2. MemoryInv /\ [Next]_vars /\ TypeOK' /\ SymbolsScoped' => MemoryInv'
  BY NextMemory
<1>3. Memory /\ TypeOK /\ SymbolsScoped => MemoryInv
  BY DEF MemoryInv
<1>. QED
  BY <1>1, <1>2, <1>3, TypeCorrect, SymbolsCorrect, PTL DEF Spec

\* Whatever names it and however often, the slot of a val is stored to at most
\* once: by its declaration (the isMutable checks of VisitAssignExpr and of ++
\* and --).  The exception are the counters of unrolled loops, which
\* UnrollForLoop stores to without a look at isMutable.
THEOREM ValsAreKept == Spec => []ValsKept
<1>1. MemoryInv => ValsKept
  BY DEF MemoryInv, Memory, Agree, ValsKept
<1>. QED
  BY <1>1, MemoryCorrect, PTL

\* So a program none of whose unrolled loops counts with a val stores into each
\* of its vals at most once.
THEOREM ValsAreStoredOnce ==
    ASSUME \A n \in Counters : n.isMutable
    PROVE  Spec => []ValStoredOnce
<1>1. MemoryInv => ValStoredOnce
  <2>. SUFFICES ASSUME MemoryInv, NEW s \in slots, ~s[2].isMutable
                PROVE  Cardinality(StoresTo(ir, s[1])) <= 1
    BY DEF ValStoredOnce
  <2>. DEFINE stores == StoresTo(ir, s[1])
  <2>1. \A p, q \in stores : p = q
    BY DEF MemoryInv, Memory, Agree
  <2>. HIDE DEF stores
  <2>2. stores = {} \/ \E p : stores = {p}
    BY <2>1
  <2>3. Cardinality(stores) = 0 \/ Cardinality(stores) = 1
    BY <2>2, FS_EmptySet, FS_Singleton
  <2>. QED
    BY <2>3 DEF stores
<1>. QED
  BY <1>1, MemoryCorrect, PTL

\* The null constant is never stored into a slot declared as a non-nullable
\* pointer; and into a variable that has the type of one only by a declaration
\* that infers it, right behind the alloca (VisitVariableDecl and
\* VisitAssignExpr, which check null against the symbol table's type).
THEOREM NullIsKeptOut == Spec => []NullKeptOut
<1>1. MemoryInv => NullKeptOut
  BY DEF MemoryInv, Memory, Agree, NullKeptOut
<1>. QED
  BY <1>1, MemoryCorrect, PTL

\* As long as every variable of the function has its type spelled out, no null
\* is stored into a variable whose type is a non-nullable pointer.
THEOREM NullsAreNotStored == Spec => []((\A s \in slots : HasType(s[2])) => NoNullStored)
<1>1. MemoryInv => ((\A s \in slots : HasType(s[2])) => NoNullStored)
  BY DEF MemoryInv, Memory, Agree, NoNullStored
<1>. QED
  BY <1>1, MemoryCorrect, PTL

\* A local variable that a finished function does not load is reported as
\* unused, as long as no other variable of the function has taken its name
\* (VisitVarExpr, the increments and CheckUnusedVariables, which keep their
\* books by name).
THEOREM UnusedAreReported ==
    Spec => [](SoleReported /\ ((\A s \in slots : Sole(s)) => UnusedReported))
<1>1. MemoryInv => SoleReported /\ ((\A s \in slots : Sole(s)) => UnusedReported)
  BY DEF MemoryInv, Memory, SoleReported, UnusedReported
<1>. QED
  BY <1>1, MemoryCorrect, PTL

(***************************************************************************)
(* The iterations of an unrolled loop.                                     *)
(***************************************************************************)
\* A loop that is unrolled has a literal start and end, a comparison in the
\* direction of its update, and a trip count within bounds.
LEMMA UnrolledBounds ==
    ASSUME NEW n \in AstNode, n.kind = "ForStatement", AnalyzeForUnroll(n) # NoUnroll
    PROVE  LET start == n.init.initializer.value.num
               end == n.condition.right.value.num
               info == AnalyzeForUnroll(n)
           IN  /\ start \in Int /\ end \in Int
               /\ info.start = start
               /\ info.tripCount \in 1..MAX_UNROLL_COUNT
               /\ \/ /\ n.update.op = "++" /\ info.step = 1
                     /\ \/ n.condition.op = "<" /\ info.tripCount = end - start
                        \/ n.condition.op = "<=" /\ info.tripCount = end - start + 1
                  \/ /\ n.update.op = "--" /\ info.step = -1
                     /\ \/ n.condition.op = ">" /\ info.tripCount = start - end
                        \/ n.condition.op = ">=" /\ info.tripCount = start - end + 1
<1>. DEFINE start == n.init.initializer.value.num
            end == n.condition.right.value.num
            op == n.condition.op
            update == n.update.op
            count == TripCount(op, update, start, end)
            step == IF update = "++" THEN 1 ELSE -1
            found == [varName |-> n.init.name, start |-> start, step |-> step,
                      tripCount |-> count]
<1>1. /\ n.init.kind = "VariableDecl" /\ HasNumber(n.init.initializer)
      /\ n.condition.kind = "BinaryExpr" /\ HasNumber(n.condition.right)
      /\ AnalyzeForUnroll(n) = found /\ count \in 1..MAX_UNROLL_COUNT
  BY DEF AnalyzeForUnroll
<1>2. /\ n.init \in AstNode /\ n.condition \in AstNode
  BY StatementMembers
<1>3. n.init.initializer \in AstNode
  BY <1>1, <1>2, StatementMembers
<1>4. n.condition.right \in AstNode
  BY <1>1, <1>2, ExpressionMembers
<1>5. start \in Int /\ end \in Int
  BY <1>1, <1>3, <1>4, AstAssumption DEF HasNumber, WellFormed
<1>6. found.start = start /\ found.step = step /\ found.tripCount = count
  OBVIOUS
<1>. HIDE DEF found, step, start, end, op, update
<1>7. count \in Nat \ {0}
  BY <1>1, UnrollAssumption
<1>8. \/ update = "++" /\ op = "<" /\ count = end - start
      \/ update = "++" /\ op = "<=" /\ count = end - start + 1
      \/ update = "--" /\ op = ">" /\ count = start - end
      \/ update = "--" /\ op = ">=" /\ count = start - end + 1
  BY <1>7 DEF TripCount
<1>9. /\ update = "++" => step = 1
      /\ update = "--" => step = -1
  BY DEF step
<1>. QED
  BY <1>1, <1>5, <1>6, <1>8, <1>9 DEF start, end, op, update

\* The values for which the rolled loop runs its body, one step after another.
LEMMA RolledSteps ==
    ASSUME NEW n \in AstNode, n.kind = "ForStatement", AnalyzeForUnroll(n) # NoUnroll
    PROVE  LET info == AnalyzeForUnroll(n)
           IN  RolledValues(n) = {info.start + j * info.step : j \in 0..(info.tripCount - 1)}
<1>. DEFINE start == n.init.initializer.value.num
            end == n.condition.right.value.num
            op == n.condition.op
            info == AnalyzeForUnroll(n)
            count == info.tripCount
            max == MAX_UNROLL_COUNT
<1>1. /\ start \in Int /\ end \in Int /\ info.start = start /\ count \in 1..max
      /\ \/ /\ n.update.op = "++" /\ info.step = 1
            /\ \/ op = "<" /\ count = end - start
               \/ op = "<=" /\ count = end - start + 1
         \/ /\ n.update.op = "--" /\ info.step = -1
            /\ \/ op = ">" /\ count = start - end
               \/ op = ">=" /\ count = start - end + 1
  BY UnrolledBounds
<1>2. max \in Nat
  BY UnrollAssumption
<1>3. count \in Nat /\ count <= max
  BY <1>1, <1>2
<1>4. RolledValues(n) =
        {x \in (IF n.update.op = "++" THEN start..(start + max) ELSE (start - max)..start) :
            Holds(op, x, end)}
  BY DEF RolledValues
<1>. HIDE DEF start, end, op, count, max
<1>5. CASE n.update.op = "++" /\ info.step = 1
  <2>1. RolledValues(n) = {x \in start..(start + max) : Holds(op, x, end)}
    BY <1>4, <1>5
  <2>2. \A x \in Int : Holds(op, x, end) <=> x <= start + count - 1
    <3>1. CASE op = "<" /\ count = end - start
      BY <1>1, <3>1 DEF Holds
    <3>2. CASE op = "<=" /\ count = end - start + 1
      BY <1>1, <3>2 DEF Holds
    <3>. QED
      BY <1>1, <1>5, <3>1, <3>2
  <2>3. RolledValues(n) = start..(start + count - 1)
    BY <1>1, <1>2, <1>3, <2>1, <2>2
  <2>4. \A j \in 0..(count - 1) : info.start + j * info.step = start + j
    BY <1>1, <1>5
  <2>5. \A x \in start..(start + count - 1) : x - start \in 0..(count - 1) /\ start + (x - start) = x
    BY <1>1, <1>3
  <2>6. \A j \in 0..(count - 1) : start + j \in start..(start + count - 1)
    BY <1>1, <1>3
  <2>. QED
    BY <2>3, <2>4, <2>5, <2>6 DEF count
<1>6. CASE n.update.op = "--" /\ info.step = -1
  <2>1. RolledValues(n) = {x \in (start - max)..start : Holds(op, x, end)}
    BY <1>4, <1>6
  <2>2. \A x \in Int : Holds(op, x, end) <=> x >= start - count + 1
    <3>1. CASE op = ">" /\ count = start - end
      BY <1>1, <3>1 DEF Holds
    <3>2. CASE op = ">=" /\ count = start - end + 1
      BY <1>1, <3>2 DEF Holds
    <3>. QED
      BY <1>1, <1>6, <3>1, <3>2
  <2>3. RolledValues(n) = (start - count + 1)..start
    BY <1>1, <1>2, <1>3, <2>1, <2>2
  <2>4. \A j \in 0..(count - 1) : info.start + j * info.step = start - j
    BY <1>1, <1>6
  <2>5. \A x \in (start - count + 1)..start : start - x \in 0..(count - 1) /\ start - (start - x) = x
    BY <1>1, <1>3
  <2>6. \A j \in 0..(count - 1) : start - j \in (start - count + 1)..start
    BY <1>1, <1>3
  <2>. QED
    BY <2>3, <2>4, <2>5, <2>6 DEF count
<1>. QED
  BY <1>1, <1>5, <1>6

\* Every other task of an unrolled loop stores the counter's next value, and the
\* one behind it visits the body.
LEMMA IterationSteps ==
    ASSUME NEW info, info.tripCount \in Nat, NEW slot
    PROVE  LET iterations == Iterations(info, slot)
           IN  /\ DOMAIN iterations = 1..2 * info.tripCount
               /\ \A j \in 0..(info.tripCount - 1) :
                     /\ 2 * j + 1 \in DOMAIN iterations /\ 2 * j + 2 \in DOMAIN iterations
                     /\ iterations[2 * j + 1].do = "UnrollStore"
                     /\ iterations[2 * j + 1].vals[1] = slot
                     /\ iterations[2 * j + 1].vals[2].num = info.start + j * info.step
                     /\ iterations[2 * j + 2] = Visit(Node.body)
               /\ \A k \in DOMAIN iterations :
                     \E j \in 0..(info.tripCount - 1) : k = 2 * j + 1 \/ k = 2 * j + 2
<1>. DEFINE value(k) == ConstInt(slot.elem, info.start + (k \div 2) * info.step)
            store(k) == ThenWith("UnrollStore", <<slot, value(k)>>)
            iterations == Iterations(info, slot)
            count == info.tripCount
<1>1. /\ DOMAIN iterations = 1..2 * count
      /\ \A k \in 1..2 * count :
            iterations[k] = IF k % 2 = 0 THEN Visit(Node.body) ELSE store(k)
  BY DEF Iterations
<1>2. \A k : /\ store(k).do = "UnrollStore" /\ store(k).vals[1] = slot
             /\ store(k).vals[2].num = info.start + (k \div 2) * info.step
  BY DEF ThenWith, Task, ConstInt, Val
<1>. HIDE DEF iterations, store, count
<1>3. count \in Nat
  BY DEF count
<1>4. \A j \in 0..(count - 1) :
          /\ 2 * j + 1 \in 1..2 * count /\ 2 * j + 2 \in 1..2 * count
          /\ (2 * j + 1) % 2 = 1 /\ (2 * j + 2) % 2 = 0 /\ (2 * j + 1) \div 2 = j
  BY <1>3
<1>5. \A k \in 1..2 * count : \E j \in 0..(count - 1) : k = 2 * j + 1 \/ k = 2 * j + 2
  <2>. SUFFICES ASSUME NEW k \in 1..2 * count
                PROVE  \E j \in 0..(count - 1) : k = 2 * j + 1 \/ k = 2 * j + 2
    OBVIOUS
  <2>1. /\ (k - 1) \div 2 \in 0..(count - 1)
        /\ k = 2 * ((k - 1) \div 2) + 1 \/ k = 2 * ((k - 1) \div 2) + 2
    BY <1>3
  <2>. QED
    BY <2>1
<1>6. ASSUME NEW j \in 0..(count - 1)
      PROVE  /\ 2 * j + 1 \in DOMAIN iterations /\ 2 * j + 2 \in DOMAIN iterations
             /\ iterations[2 * j + 1].do = "UnrollStore"
             /\ iterations[2 * j + 1].vals[1] = slot
             /\ iterations[2 * j + 1].vals[2].num = info.start + j * info.step
             /\ iterations[2 * j + 2] = Visit(Node.body)
  <2>1. /\ iterations[2 * j + 1] = store(2 * j + 1)
        /\ iterations[2 * j + 2] = Visit(Node.body)
    BY <1>1, <1>4
  <2>2. store(2 * j + 1).vals[2].num = info.start + j * info.step
    BY <1>2, <1>4
  <2>. QED
    BY <1>1, <1>2, <1>4, <2>1, <2>2
<1>. QED
  BY <1>1, <1>5, <1>6 DEF count, iterations

\* An unrolled loop stores into its counter, once each and each right before a
\* visit of the body, exactly the values for which the rolled loop would run the
\* body (AnalyzeForUnroll's trip count and the loop of UnrollForLoop).
THEOREM UnrollsLikeLoop ==
    ASSUME Node \in AstNode, Node.kind = "ForStatement",
           AnalyzeForUnroll(Node) # NoUnroll, NEW slot
    PROVE  LET iterations == Iterations(AnalyzeForUnroll(Node), slot)
               stores == {k \in DOMAIN iterations : iterations[k].do = "UnrollStore"}
               value(k) == iterations[k].vals[2].num
           IN  /\ {value(k) : k \in stores} = RolledValues(Node)
               /\ \A j, k \in stores : value(j) = value(k) => j = k
               /\ \A k \in stores : /\ iterations[k].vals[1] = slot
                                    /\ k + 1 \in DOMAIN iterations
                                    /\ iterations[k + 1] = Visit(Node.body)
<1>. DEFINE info == AnalyzeForUnroll(Node)
            iterations == Iterations(info, slot)
            stores == {k \in DOMAIN iterations : iterations[k].do = "UnrollStore"}
            value(k) == iterations[k].vals[2].num
            count == info.tripCount
            start == Node.init.initializer.value.num
<1>1. /\ start \in Int /\ info.start = start /\ count \in 1..MAX_UNROLL_COUNT
      /\ info.step \in {1, -1}
  BY UnrolledBounds
<1>2. RolledValues(Node) = {info.start + j * info.step : j \in 0..(count - 1)}
  BY RolledSteps
<1>. HIDE DEF start, info
<1>3. count \in Nat
  BY <1>1, UnrollAssumption
<1>4. /\ \A j \in 0..(count - 1) :
            /\ 2 * j + 1 \in DOMAIN iterations /\ 2 * j + 2 \in DOMAIN iterations
            /\ iterations[2 * j + 1].do = "UnrollStore"
            /\ iterations[2 * j + 1].vals[1] = slot
            /\ value(2 * j + 1) = info.start + j * info.step
            /\ iterations[2 * j + 2] = Visit(Node.body)
      /\ \A k \in DOMAIN iterations :
            \E j \in 0..(count - 1) : k = 2 * j + 1 \/ k = 2 * j + 2
  BY <1>3, IterationSteps
<1>5. Visit(Node.body).do = "Visit"
  BY DEF Visit, Task
<1>. HIDE DEF iterations, count
<1>6. \A k \in stores : \E j \in 0..(count - 1) : k = 2 * j + 1
  BY <1>4, <1>5
<1>7. \A j \in 0..(count - 1) : 2 * j + 1 \in stores
  BY <1>4
<1>8. {value(k) : k \in stores} = RolledValues(Node)
  <2>. DEFINE at(j) == info.start + j * info.step
  <2>1. RolledValues(Node) = {at(j) : j \in 0..(count - 1)}
    BY <1>2
  <2>2. \A j \in 0..(count - 1) : value(2 * j + 1) = at(j)
    BY <1>4
  <2>. HIDE DEF at, value, stores
  <2>3. \A k \in stores : value(k) \in RolledValues(Node)
    BY <1>6, <2>1, <2>2
  <2>4. \A x \in RolledValues(Node) : \E k \in stores : x = value(k)
    BY <1>7, <2>1, <2>2
  <2>. QED
    BY <2>3, <2>4
<1>9. \A j, k \in stores : value(j) = value(k) => j = k
  <2>. SUFFICES ASSUME NEW j \in stores, NEW k \in stores, value(j) = value(k)
                PROVE  j = k
    OBVIOUS
  <2>1. PICK a \in 0..(count - 1), b \in 0..(count - 1) : j = 2 * a + 1 /\ k = 2 * b + 1
    BY <1>6
  <2>2. info.start + a * info.step = info.start + b * info.step
    BY <1>4, <2>1
  <2>3. info.step = 1 \/ info.step = -1
    BY <1>1
  <2>4. a = b
    BY <1>1, <1>3, <2>2, <2>3
  <2>. QED
    BY <2>1, <2>4
<1>10. \A k \in stores : /\ iterations[k].vals[1] = slot
                         /\ k + 1 \in DOMAIN iterations
                         /\ iterations[k + 1] = Visit(Node.body)
  <2>. SUFFICES ASSUME NEW k \in stores
                PROVE  /\ iterations[k].vals[1] = slot
                       /\ k + 1 \in DOMAIN iterations
                       /\ iterations[k + 1] = Visit(Node.body)
    OBVIOUS
  <2>1. PICK j \in 0..(count - 1) : k = 2 * j + 1
    BY <1>6
  <2>2. k + 1 = 2 * j + 2
    BY <1>3, <2>1
  <2>. QED
    BY <1>4, <2>1, <2>2
<1>. QED
  BY <1>8, <1>9, <1>10 DEF iterations, info
=============================================================================
