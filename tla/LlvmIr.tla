------------------------------- MODULE LlvmIr -------------------------------
(***************************************************************************)
(* The part of LLVM that CodeGen.cpp drives through llvm::IRBuilder: the   *)
(* function under construction, its basic blocks and the insert point.     *)
(* LLVM is not part of the repository; this is what CodeGen.cpp relies on. *)
(*                                                                         *)
(* A function under construction is a record                               *)
(*   fn      which function of the module it is (1, 2, ...), 0 before one; *)
(*   blocks  the basic blocks created so far, each with its instructions   *)
(*           and "placed": inserted into the parent function;              *)
(*   at      the block of the insert point, 0 before there is one.         *)
(*                                                                         *)
(* The builder is modelled without assertions and without constant         *)
(* folding: an ill-typed instruction is built, as by an LLVM release       *)
(* build.  Pointers are opaque, so a cast of a pointer to a pointer is the *)
(* pointer itself.                                                         *)
(***************************************************************************)
EXTENDS Integers, Sequences, SequencesExt

IntegerTypes == {"i1", "i8", "i16", "i32", "i64"}
FloatTypes == {"float", "double"}

\* Memory is allocated, loaded and stored only for types that have a size.
IsSized(type) == type # "void"

(***************************************************************************)
(* Values.  A value is a constant, a function argument or the result of an *)
(* instruction; "at" is the place of that instruction, with block 0 for an   *)
(* argument.  elem is the allocated type of an alloca, num the number of a *)
(* constant.                                                               *)
(***************************************************************************)
Place(fn, block, index) == [fn |-> fn, block |-> block, index |-> index]
NoPlace == Place(0, 0, 0)
Val(op, type, elem, num, at) ==
    [op |-> op, type |-> type, elem |-> elem, num |-> num, at |-> at]

NoValue == Val("nullptr", "none", "none", 0, NoPlace)
ConstInt(type, num) == Val("const", type, "none", num, NoPlace)
ConstFP == Val("const", "double", "none", 0, NoPlace)
ConstNull == Val("null", "ptr", "none", 0, NoPlace)
GlobalString == Val("global", "ptr", "none", 0, NoPlace)
SizeOf(struct) == Val("const", "i64", struct, 0, NoPlace)
Argument(type, fn, k) == Val("arg", type, "none", 0, Place(fn, 0, k))

IsAlloca(v) == v.op = "alloca"
IsNullConstant(v) == v.op = "null"
IsInteger(v) == v.type \in IntegerTypes
IsPointer(v) == v.type = "ptr"

(***************************************************************************)
(* Instructions.                                                           *)
(***************************************************************************)
Inst(op, type, elem, args, to) ==
    [op |-> op, type |-> type, elem |-> elem, args |-> args, to |-> to]

Compute(op, type, args) == Inst(op, type, "none", args, <<>>)
Alloca(elem) == Inst("alloca", "ptr", elem, <<>>, <<>>)
Load(type, slot) == Inst("load", type, "none", <<slot>>, <<>>)
Store(v, slot) == Inst("store", "void", "none", <<v, slot>>, <<>>)
Br(b) == Inst("br", "void", "none", <<>>, <<b>>)
CondBr(v, b, c) == Inst("condbr", "void", "none", <<v>>, <<b, c>>)
Ret(v) == Inst("ret", "void", "none", <<v>>, <<>>)
RetVoid == Ret(NoValue)
Phi(v, b, w, c) == Inst("phi", "i1", "none", <<v, w>>, <<b, c>>)

Terminators == {"br", "condbr", "ret"}

(***************************************************************************)
(* Blocks and the insert point.                                            *)
(***************************************************************************)
Func(fn, blocks, at) == [fn |-> fn, blocks |-> blocks, at |-> at]
Block(placed, code) == [placed |-> placed, code |-> code]
NoFunction == Func(0, <<>>, 0)

\* Function::Create, the entry block and SetInsertPoint(entry).
NewFunction(g) == Func(g.fn + 1, <<Block(TRUE, <<>>)>>, 1)

\* BasicBlock::Create of n blocks that are not yet in the function.
AddBlocks(g, n) ==
    Func(g.fn, g.blocks \o [k \in 1..n |-> Block(FALSE, <<>>)], g.at)

\* Appends an instruction at the insert point.
Emit(g, inst) ==
    LET here == g.blocks[g.at]
        longer == Block(here.placed, Append(here.code, inst))
    IN  Func(g.fn, [g.blocks EXCEPT ![g.at] = longer], g.at)

\* insertInto(parentFunction), unless done at creation, and SetInsertPoint.
Enter(g, b) ==
    Func(g.fn, [g.blocks EXCEPT ![b] = Block(TRUE, g.blocks[b].code)], b)

\* A CreateBr or CreateCondBr followed by the move to another block.
Leave(g, branch, b) == Enter(Emit(g, branch), b)

\* The value of an instruction emitted now.
Result(g, inst) ==
    Val(inst.op, inst.type, inst.elem, 0,
        Place(g.fn, g.at, Len(g.blocks[g.at].code) + 1))

Build(g, inst) == [ir |-> Emit(g, inst), val |-> Result(g, inst)]

(***************************************************************************)
(* Reading the function: instructions, control-flow graph and dominance.   *)
(***************************************************************************)
Positions(g) ==
    UNION {{<<b, k>> : k \in DOMAIN g.blocks[b].code} : b \in DOMAIN g.blocks}

InstAt(g, pos) == g.blocks[pos[1]].code[pos[2]]

StoresTo(g, slot) ==
    {pos \in Positions(g) :
        InstAt(g, pos).op = "store" /\ InstAt(g, pos).args[2] = slot}

LoadsFrom(g, slot) ==
    {pos \in Positions(g) :
        InstAt(g, pos).op = "load" /\ InstAt(g, pos).args[1] = slot}

Terminated(block) ==
    \E k \in DOMAIN block.code : block.code[k].op \in Terminators

\* The positions of a block's terminators: one, if the block is well formed.
TerminatorsOf(block) ==
    {k \in DOMAIN block.code : block.code[k].op \in Terminators}

Successors(g, b) ==
    LET code == g.blocks[b].code
    IN  UNION {ToSet(code[k].to) :
                  k \in {j \in DOMAIN code : code[j].op \in {"br", "condbr"}}}

Predecessors(g, b) == {p \in DOMAIN g.blocks : b \in Successors(g, p)}

\* The blocks that control reaches from the entry without passing through cut.
ReachableAvoiding(g, cut) ==
    LET reach[n \in 0..Len(g.blocks)] ==
            IF n = 0 THEN {1} \ {cut}
            ELSE LET near == reach[n - 1]
                 IN  near \cup (UNION {Successors(g, b) : b \in near} \ {cut})
    IN  reach[Len(g.blocks)]

Dominates(g, d, b) == d = b \/ b \notin ReachableAvoiding(g, d)
=============================================================================
