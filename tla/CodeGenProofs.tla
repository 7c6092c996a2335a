--------------------------- MODULE CodeGenProofs ----------------------------
(***************************************************************************)
(* Safety of CodeGen, for every set of programs and every unrolling bound: *)
(* each invariant is inductive together with TypeOK.                       *)
(***************************************************************************)
EXTENDS CodeGenTypes

(***************************************************************************)
(* The symbol table.                                                       *)
(***************************************************************************)
\* Outside the handlers of variables and functions nothing enters or leaves it.
LEMMA SymbolsStep ==
    ASSUME TypeOK, SymbolsScoped, todo # <<>>, function' = function,
           \/ UNCHANGED symbols
           \/ UNCHANGED <<m_variables, m_currentFunctionVariables>>
           \/ \E x \in DOMAIN m_variables : MarkUsed(x) /\ UNCHANGED m_currentFunctionVariables
           \/ \E x, info : Declare(x, info)
    PROVE  SymbolsScoped'
<1>1. function # Null
  BY DEF TypeOK
<1>2. DOMAIN m_variables' = m_currentFunctionVariables'
  <2>1. CASE \E x, info : Declare(x, info)
    BY <2>1 DEF Declare, SymbolsScoped
  <2>2. CASE \E x \in DOMAIN m_variables :
                MarkUsed(x) /\ UNCHANGED m_currentFunctionVariables
    BY <2>2, MarkUsedType DEF SymbolsScoped
  <2>3. CASE UNCHANGED <<m_variables, m_currentFunctionVariables>>
    BY <2>3 DEF SymbolsScoped
  <2>. QED
    BY <2>1, <2>2, <2>3 DEF symbols
<1>. QED
  BY <1>1, <1>2 DEF SymbolsScoped

LEMMA VisitSymbols ==
    ASSUME TypeOK,
           \/ VisitVarExpr \/ VisitPrefixExpr \/ VisitPostfixExpr
           \/ VisitVariableDecl \/ InferredInit \/ ExplicitInit
    PROVE  /\ todo # <<>> /\ function' = function
           /\ \/ UNCHANGED symbols
              \/ /\ \E x \in DOMAIN m_variables : MarkUsed(x)
                 /\ UNCHANGED m_currentFunctionVariables
              \/ \E x, info : Declare(x, info)
<1>1. CASE VisitVarExpr
  BY <1>1 DEF VisitVarExpr, Visiting, Running, Reject, module
<1>2. CASE VisitPrefixExpr \/ VisitPostfixExpr
  <2>1. IncDecError = <<>> => Node.operand.name \in DOMAIN m_variables
    BY DEF IncDecError
  <2>. DEFINE Done1 ==
         /\ function' = function
         /\ \/ UNCHANGED symbols
            \/ /\ \E x \in DOMAIN m_variables : MarkUsed(x)
               /\ UNCHANGED m_currentFunctionVariables
  <2>2. IncDec(TRUE) => Done1
    BY <2>1 DEF IncDec, Reject, Crash, module
  <2>3. IncDec(FALSE) => Done1
    BY <2>1 DEF IncDec, Reject, Crash, module
  <2>4. todo # <<>> /\ (IncDec(TRUE) \/ IncDec(FALSE))
    BY <1>2 DEF VisitPrefixExpr, VisitPostfixExpr, Visiting, Running
  <2>. QED
    BY <2>2, <2>3, <2>4
<1>3. CASE VisitVariableDecl
  BY <1>3 DEF VisitVariableDecl, Visiting, Running, Reject, Crash, module
<1>4. CASE InferredInit
  BY <1>4 DEF InferredInit, Resuming, Running, Reject, Crash, module
<1>5. CASE ExplicitInit
  BY <1>5 DEF ExplicitInit, Resuming, Running, Reject, Crash, module
<1>. QED
  BY <1>1, <1>2, <1>3, <1>4, <1>5

\* All the other handlers below a function leave the symbols alone.
LEMMA OtherSymbols ==
    ASSUME \/ VisitLiteralExpr \/ VisitAllocExpr
           \/ VisitBinaryExpr \/ ShortLeft \/ ShortRight \/ BinLeft \/ BinRight
           \/ VisitUnaryExpr \/ UnaryOp \/ VisitCastExpr \/ CastOp
           \/ VisitCallExpr \/ CallArg \/ CallEnd
           \/ VisitAssignExpr \/ AssignStore \/ VisitMemberAccessExpr \/ MemberLoad
           \/ VisitNull \/ VisitBlockStatement \/ Statement \/ VisitExprStatement
           \/ VisitReturnStatement \/ ReturnValue
           \/ VisitIfStatement \/ IfCond \/ IfElse \/ IfMerge
           \/ VisitWhileStatement \/ WhileCond \/ WhileEnd
           \/ VisitForStatement \/ UnrollStart \/ UnrollStore
           \/ ForBlocks \/ ForCond \/ ForUpdate \/ ForEnd
    PROVE  todo # <<>> /\ function' = function /\ UNCHANGED symbols
<1>1. ASSUME NEW kind, NEW tasks, Descend(kind, tasks)
      PROVE  todo # <<>> /\ function' = function /\ UNCHANGED symbols
  BY <1>1 DEF Descend, Visiting, Running, module
<1>2. ASSUME NEW text, NEW subject, Reject(text, subject)
      PROVE  function' = function /\ UNCHANGED symbols
  BY <1>2 DEF Reject, module
<1>3. Crash => function' = function /\ UNCHANGED symbols
  BY DEF Crash, module
<1>4. CASE \/ VisitBinaryExpr \/ VisitUnaryExpr \/ VisitCastExpr \/ VisitAssignExpr
           \/ VisitMemberAccessExpr \/ VisitBlockStatement \/ VisitExprStatement
           \/ VisitIfStatement \/ VisitForStatement
  BY <1>1, <1>4 DEF VisitBinaryExpr, VisitUnaryExpr, VisitCastExpr, VisitAssignExpr,
       VisitMemberAccessExpr, VisitBlockStatement, VisitExprStatement,
       VisitIfStatement, VisitForStatement
<1>5. CASE \/ VisitLiteralExpr \/ VisitAllocExpr \/ VisitNull \/ VisitReturnStatement
           \/ VisitWhileStatement \/ VisitCallExpr
  BY <1>2, <1>3, <1>5 DEF VisitLiteralExpr, VisitAllocExpr, VisitNull,
       VisitReturnStatement, VisitWhileStatement, VisitCallExpr, Visiting, Running,
       module
<1>6. CASE ShortLeft \/ ShortRight \/ BinLeft \/ BinRight \/ UnaryOp \/ CastOp
  BY <1>2, <1>3, <1>6 DEF ShortLeft, ShortRight, BinLeft, BinRight, UnaryOp, CastOp,
       Resuming, Running, module
<1>7. CASE CallArg \/ CallEnd \/ AssignStore \/ MemberLoad \/ Statement \/ ReturnValue
  BY <1>2, <1>3, <1>7 DEF CallArg, CallEnd, AssignStore, MemberLoad, Statement,
       ReturnValue, Resuming, Running, module
<1>8. CASE IfCond \/ IfElse \/ IfMerge \/ WhileCond \/ WhileEnd \/ UnrollStart \/ UnrollStore
  BY <1>2, <1>3, <1>8 DEF IfCond, IfElse, IfMerge, WhileCond, WhileEnd, UnrollStart,
       UnrollStore, Resuming, Running, module
<1>9. CASE ForBlocks \/ ForCond \/ ForUpdate \/ ForEnd
  BY <1>2, <1>9 DEF ForBlocks, ForCond, ForUpdate, ForEnd, Resuming, Running, module
<1>. QED
  BY <1>4, <1>5, <1>6, <1>7, <1>8, <1>9

LEMMA DeclarationSymbols ==
    ASSUME TypeOK, SymbolsScoped, Declarations
    PROVE  SymbolsScoped'
<1>1. CASE VisitInterfaceDecl
  BY <1>1 DEF VisitInterfaceDecl, SymbolsScoped, symbols
<1>2. CASE VisitStructDecl
  BY <1>2 DEF VisitStructDecl, SymbolsScoped, symbols
<1>3. CASE VisitFunctionDecl
  <2>. DEFINE names == {Head(pending).params[k].name : k \in DOMAIN Head(pending).params}
  <2>1. function = Null /\ function' = Head(pending) /\ Head(pending).kind = "FunctionDecl"
    BY <1>3 DEF VisitFunctionDecl, AtDeclaration
  <2>2. m_currentFunctionVariables' = names /\ DOMAIN m_variables' = DOMAIN m_variables \cup names
    BY <1>3 DEF VisitFunctionDecl
  <2>3. DOMAIN m_variables = {}
    BY <2>1 DEF SymbolsScoped
  <2>4. function' # Null
    BY <2>1 DEF Null
  <2>. QED
    BY <2>2, <2>3, <2>4 DEF SymbolsScoped
<1>4. CASE EndFunctionDecl
  <2>1. /\ DOMAIN m_variables' = DOMAIN m_variables \ m_currentFunctionVariables
        /\ m_currentFunctionVariables' = {}
    BY <1>4 DEF EndFunctionDecl
  <2>. QED
    BY <2>1 DEF SymbolsScoped
<1>. QED
  BY <1>1, <1>2, <1>3, <1>4 DEF Declarations

\* Whatever a body declares, redeclares or fails to declare, the symbol table
\* holds the names of the current function and of no other, and is empty
\* between functions.
THEOREM SymbolsCorrect == Spec => []SymbolsScoped
<1>. DEFINE IInv == TypeOK /\ SymbolsScoped
<1>1. Init => IInv
  <2>1. m_variables = <<>> => DOMAIN m_variables = {}
    OBVIOUS
  <2>2. Init => SymbolsScoped
    BY <2>1 DEF Init, SymbolsScoped
  <2>. QED
    BY <2>2, InitTypes
<1>2. IInv /\ [Next]_vars => IInv'
  <2>. SUFFICES ASSUME TypeOK, SymbolsScoped, [Next]_vars
                PROVE  TypeOK' /\ SymbolsScoped'
    OBVIOUS
  <2>1. TypeOK'
    BY NextTypes, StutterTypes
  <2>2. CASE \/ VisitVarExpr \/ VisitPrefixExpr \/ VisitPostfixExpr
             \/ VisitVariableDecl \/ InferredInit \/ ExplicitInit
    BY <2>1, <2>2, VisitSymbols, SymbolsStep
  <2>3. CASE (Expressions \/ Statements)
             /\ ~(\/ VisitVarExpr \/ VisitPrefixExpr \/ VisitPostfixExpr
                  \/ VisitVariableDecl \/ InferredInit \/ ExplicitInit)
    <3>1. todo # <<>> /\ function' = function /\ UNCHANGED symbols
      BY <2>3, OtherSymbols DEF Expressions, Statements
    <3>. QED
      BY <2>1, <3>1, SymbolsStep
  <2>4. CASE Declarations
    BY <2>1, <2>4, DeclarationSymbols
  <2>5. CASE UNCHANGED vars
    BY <2>1, <2>5 DEF vars, module, symbols, SymbolsScoped
  <2>. QED
    BY <2>1, <2>2, <2>3, <2>4, <2>5 DEF Next
<1>3. IInv => SymbolsScoped
  OBVIOUS
<1>. QED
  BY <1>1, <1>2, <1>3, PTL DEF Spec

(***************************************************************************)
(* Open blocks.                                                            *)
(***************************************************************************)
\* OneOpenBlock, of any function under construction.
Closed(g) ==
    \A b \in DOMAIN g.blocks :
        g.blocks[b].placed /\ b # g.at => Terminated(g.blocks[b])

\* Emitting changes only the block of the insert point.
LEMMA EmitClosed ==
    ASSUME NEW g, Closed(g), NEW inst
    PROVE  Closed(Emit(g, inst)) /\ Closed(Build(g, inst).ir)
<1>. DEFINE here == g.blocks[g.at]
            longer == Block(here.placed, Append(here.code, inst))
            blocks == [g.blocks EXCEPT ![g.at] = longer]
<1>1. Emit(g, inst) = Func(g.fn, blocks, g.at)
  BY DEF Emit
<1>. HIDE DEF longer
<1>2. /\ DOMAIN blocks = DOMAIN g.blocks
      /\ \A b \in DOMAIN g.blocks : b # g.at => blocks[b] = g.blocks[b]
  OBVIOUS
<1>. HIDE DEF blocks
<1>3. Emit(g, inst).blocks = blocks /\ Emit(g, inst).at = g.at
  BY <1>1 DEF Func
<1>4. Closed(Emit(g, inst))
  BY <1>2, <1>3 DEF Closed
<1>. QED
  BY <1>4 DEF Build

LEMMA ToBoolClosed ==
    ASSUME NEW g, Closed(g), NEW v
    PROVE  Closed(ToBool(g, v).ir) /\ Closed(CondBool(g, v).ir)
BY EmitClosed DEF ToBool, CondBool

\* New blocks are not in the function yet.
LEMMA AddBlocksClosed ==
    ASSUME NEW g \in WellBuilt, Closed(g), NEW n \in Nat
    PROVE  Closed(AddBlocks(g, n))
<1>. DEFINE empty == Block(FALSE, <<>>)
            new == [k \in 1..n |-> empty]
            blocks == g.blocks \o new
<1>1. g.blocks \in Seq(Blocks) /\ Len(g.blocks) \in Nat
  BY LenProperties DEF WellBuilt, Functions, Blocks
<1>2. empty \in Blocks /\ ~empty.placed
  BY DEF Blocks, Block
<1>. HIDE DEF empty
<1>3. new \in Seq(Blocks) /\ \A k \in 1..n : new[k] = empty
  BY <1>2
<1>4. Len(new) = n
  BY <1>3, LenProperties
<1>. HIDE DEF new
<1>5. /\ DOMAIN blocks = 1..(Len(g.blocks) + n) /\ DOMAIN g.blocks = 1..Len(g.blocks)
      /\ \A b \in DOMAIN g.blocks : blocks[b] = g.blocks[b]
      /\ \A b \in DOMAIN blocks \ DOMAIN g.blocks : blocks[b] = empty
  <2>1. blocks \in Seq(Blocks) /\ Len(blocks) = Len(g.blocks) + n
    BY <1>1, <1>3, <1>4, ConcatProperties
  <2>2. \A b \in 1..Len(g.blocks) + n :
            blocks[b] = IF b <= Len(g.blocks) THEN g.blocks[b]
                        ELSE new[b - Len(g.blocks)]
    BY <1>1, <1>3, <1>4, ConcatProperties
  <2>3. DOMAIN blocks = 1..(Len(g.blocks) + n) /\ DOMAIN g.blocks = 1..Len(g.blocks)
    BY <1>1, <2>1, LenProperties
  <2>. HIDE DEF blocks
  <2>4. \A b \in DOMAIN g.blocks : blocks[b] = g.blocks[b]
    BY <1>1, <2>2, <2>3
  <2>5. \A b \in DOMAIN blocks \ DOMAIN g.blocks : b - Len(g.blocks) \in 1..n
    BY <1>1, <2>3
  <2>6. \A b \in DOMAIN blocks \ DOMAIN g.blocks : blocks[b] = empty
    BY <1>1, <1>3, <2>2, <2>3, <2>5
  <2>. QED
    BY <2>3, <2>4, <2>6
<1>6. AddBlocks(g, n) = Func(g.fn, blocks, g.at)
  BY DEF AddBlocks, new, empty
<1>. HIDE DEF blocks
<1>7. AddBlocks(g, n).blocks = blocks /\ AddBlocks(g, n).at = g.at
  BY <1>6 DEF Func
<1>. QED
  BY <1>2, <1>5, <1>7 DEF Closed

\* A branch closes the block that is left.
LEMMA LeaveClosed ==
    ASSUME NEW g \in WellBuilt, Closed(g), NEW branch \in Instructions,
           branch.op \in Terminators, NEW b \in DOMAIN g.blocks
    PROVE  Closed(Leave(g, branch, b))
<1>. DEFINE here == g.blocks[g.at]
            longer == Block(here.placed, Append(here.code, branch))
            middle == [g.blocks EXCEPT ![g.at] = longer]
            blocks == [middle EXCEPT ![b] = Block(TRUE, middle[b].code)]
<1>1. g.blocks \in Seq(Blocks) /\ g.at \in DOMAIN g.blocks
  BY DEF WellBuilt, Functions, Blocks
<1>2. here.code \in Seq(Instructions)
  <2>1. here \in Blocks
    BY <1>1
  <2>. HIDE DEF here
  <2>. QED
    BY <2>1 DEF Blocks
<1>3. Terminated(longer)
  <2>1. longer.code = Append(here.code, branch)
    BY DEF Block
  <2>2. /\ Len(here.code) + 1 \in DOMAIN longer.code
        /\ longer.code[Len(here.code) + 1] = branch
    <3>. DEFINE code == here.code
    <3>1. code \in Seq(Instructions) /\ longer.code = Append(code, branch)
      BY <1>2, <2>1
    <3>. HIDE DEF code
    <3>2. /\ longer.code \in Seq(Instructions)
          /\ Len(longer.code) = Len(code) + 1 /\ Len(code) \in Nat
          /\ longer.code[Len(code) + 1] = branch
      BY <3>1, AppendProperties, LenProperties
    <3>3. DOMAIN longer.code = 1..Len(code) + 1
      BY <3>2, LenProperties
    <3>4. Len(code) + 1 \in DOMAIN longer.code
      BY <3>2, <3>3
    <3>. QED
      BY <3>2, <3>4 DEF code
  <2>. QED
    BY <2>2 DEF Terminated
<1>4. Emit(g, branch) = Func(g.fn, middle, g.at)
  BY DEF Emit
<1>. HIDE DEF longer
<1>5. /\ DOMAIN middle = DOMAIN g.blocks /\ middle[g.at] = longer
      /\ \A c \in DOMAIN g.blocks : c # g.at => middle[c] = g.blocks[c]
  BY <1>1
<1>. HIDE DEF middle
<1>6. Leave(g, branch, b) = Func(g.fn, blocks, b)
  BY <1>4 DEF Leave, Enter, Func
<1>7. /\ DOMAIN blocks = DOMAIN middle
      /\ \A c \in DOMAIN middle : c # b => blocks[c] = middle[c]
  OBVIOUS
<1>. HIDE DEF blocks
<1>8. Leave(g, branch, b).blocks = blocks /\ Leave(g, branch, b).at = b
  BY <1>6 DEF Func
<1>9. \A c \in DOMAIN blocks : blocks[c].placed /\ c # b => Terminated(blocks[c])
  BY <1>3, <1>5, <1>7 DEF Closed
<1>. QED
  BY <1>8, <1>9 DEF Closed

\* The branches that handlers leave a block with.
LEMMA BranchType ==
    ASSUME NEW v \in Values, NEW b \in Nat, NEW c \in Nat
    PROVE  /\ Br(b) \in Instructions /\ Br(b).op \in Terminators
           /\ CondBr(v, b, c) \in Instructions /\ CondBr(v, b, c).op \in Terminators
<1>1. Br(b) \in Instructions /\ CondBr(v, b, c) \in Instructions
  BY EmittedType, Literals
<1>2. Br(b).op = "br" /\ CondBr(v, b, c).op = "condbr"
  BY DEF Br, CondBr, Inst
<1>. QED
  BY <1>1, <1>2 DEF Terminators

\* A step that leaves a block for another.
LEMMA LeaveKeeps ==
    ASSUME OneOpenBlock, NEW g \in WellBuilt, Closed(g), NEW branch \in Instructions,
           branch.op \in Terminators, NEW b \in DOMAIN g.blocks,
           ir' = Leave(g, branch, b)
    PROVE  OneOpenBlock'
BY LeaveClosed DEF OneOpenBlock, Closed

\* Conditions and operands are converted where they are, and n blocks added.
LEMMA ConvertedAndAdded ==
    ASSUME TypeOK, OneOpenBlock, todo # <<>>, NEW n \in Nat, NEW g,
           \/ g = ir
           \/ g = ToBool(ir, m_LastValue).ir
           \/ g = CondBool(ir, m_LastValue).ir
    PROVE  /\ g \in WellBuilt /\ Closed(g)
           /\ AddBlocks(g, n) \in WellBuilt /\ Closed(AddBlocks(g, n))
           /\ DOMAIN g.blocks = DOMAIN ir.blocks
           /\ \A k \in 1..n : Len(ir.blocks) + k \in DOMAIN AddBlocks(g, n).blocks
           /\ Len(ir.blocks) \in Nat
           /\ ToBool(ir, m_LastValue).val \in Values
           /\ CondBool(ir, m_LastValue).val \in Values
<1>1. ir \in WellBuilt /\ m_LastValue \in Values /\ Closed(ir)
  BY TopType DEF TypeOK, OneOpenBlock, Closed
<1>2. g \in WellBuilt /\ Closed(g) /\ DOMAIN g.blocks = DOMAIN ir.blocks
  BY <1>1, ToBoolType, CondBoolType, ToBoolClosed
<1>3. Len(g.blocks) = Len(ir.blocks) /\ Len(ir.blocks) \in Nat
  BY <1>1, <1>2, LenProperties DEF WellBuilt, Functions
<1>4. /\ AddBlocks(g, n) \in WellBuilt
      /\ \A k \in 1..n : Len(g.blocks) + k \in DOMAIN AddBlocks(g, n).blocks
  BY <1>2, AddBlocksType
<1>. QED
  BY <1>1, <1>2, <1>3, <1>4, AddBlocksClosed, ToBoolType, CondBoolType

LEMMA ConditionsOpen ==
    ASSUME TypeOK, OneOpenBlock, ShortLeft \/ IfCond \/ WhileCond \/ ForCond
    PROVE  OneOpenBlock'
<1>1. todo # <<>>
  BY DEF ShortLeft, IfCond, WhileCond, ForCond, Resuming, Running
<1>2. CASE UNCHANGED ir
  BY <1>2 DEF OneOpenBlock
<1>3. CASE ShortLeft /\ ~UNCHANGED ir
  <2>. DEFINE bool == ToBool(ir, m_LastValue)
              rhs == Len(ir.blocks) + 1
              merge == Len(ir.blocks) + 2
              branch == IF Node.op = "&&" THEN CondBr(bool.val, rhs, merge)
                        ELSE CondBr(bool.val, merge, rhs)
              g == AddBlocks(bool.ir, 2)
  <2>1. ir' = Leave(g, branch, rhs)
    BY <1>3 DEF ShortLeft, Reject, Crash
  <2>2. /\ g \in WellBuilt /\ Closed(g) /\ bool.val \in Values
        /\ \A k \in 1..2 : Len(ir.blocks) + k \in DOMAIN g.blocks
        /\ Len(ir.blocks) \in Nat
    BY <1>1, ConvertedAndAdded
  <2>3. rhs \in DOMAIN g.blocks /\ rhs \in Nat /\ merge \in Nat
    <3>1. 1 \in 1..2
      OBVIOUS
    <3>. QED
      BY <2>2, <3>1
  <2>. HIDE DEF g, rhs, merge, bool
  <2>4. branch \in Instructions /\ branch.op \in Terminators
    BY <2>2, <2>3, BranchType
  <2>. HIDE DEF branch
  <2>. QED
    BY <2>1, <2>2, <2>3, <2>4, LeaveKeeps
<1>4. CASE IfCond /\ ~UNCHANGED ir
  <2>. DEFINE cond == CondBool(ir, m_LastValue)
              then == Len(ir.blocks) + 1
              else == Len(ir.blocks) + 2
              branch == CondBr(cond.val, then, else)
              g == AddBlocks(cond.ir, 3)
  <2>1. ir' = Leave(g, branch, then)
    BY <1>4 DEF IfCond, Reject
  <2>2. /\ g \in WellBuilt /\ Closed(g) /\ cond.val \in Values
        /\ \A k \in 1..3 : Len(ir.blocks) + k \in DOMAIN g.blocks
        /\ Len(ir.blocks) \in Nat
    BY <1>1, ConvertedAndAdded
  <2>3. then \in DOMAIN g.blocks /\ then \in Nat /\ else \in Nat
    <3>1. 1 \in 1..3
      OBVIOUS
    <3>. QED
      BY <2>2, <3>1
  <2>. HIDE DEF g, then, else, cond
  <2>4. branch \in Instructions /\ branch.op \in Terminators
    BY <2>2, <2>3, BranchType
  <2>. HIDE DEF branch
  <2>. QED
    BY <2>1, <2>2, <2>3, <2>4, LeaveKeeps
<1>5. CASE (WhileCond \/ ForCond) /\ ~UNCHANGED ir
  <2>. DEFINE cond == CondBool(ir, m_LastValue)
  <2>1. PICK exit \in {3, 4} :
            /\ \/ ir' = Leave(cond.ir, CondBr(cond.val, Top.blks[2], Top.blks[exit]),
                              Top.blks[2])
               \/ ir' = Leave(ir, Br(Top.blks[2]), Top.blks[2])
            /\ Len(Top.blks) = exit
    BY <1>1, <1>5, TopType DEF WhileCond, ForCond, Resuming, OwnLocals, Reject
  <2>2. ir \in WellBuilt /\ Top.blks \in Seq(DOMAIN ir.blocks)
    BY <1>1, TopType
  <2>3. /\ Top.blks[2] \in DOMAIN ir.blocks /\ Top.blks[exit] \in DOMAIN ir.blocks
        /\ DOMAIN ir.blocks \subseteq Nat
    BY <2>1, <2>2, HeldBlocks
  <2>4. /\ cond.ir \in WellBuilt /\ Closed(cond.ir) /\ cond.val \in Values
        /\ DOMAIN cond.ir.blocks = DOMAIN ir.blocks
    BY <1>1, ConvertedAndAdded
  <2>5. Closed(ir)
    BY DEF OneOpenBlock, Closed
  <2>. HIDE DEF cond
  <2>6. /\ CondBr(cond.val, Top.blks[2], Top.blks[exit]) \in Instructions
        /\ CondBr(cond.val, Top.blks[2], Top.blks[exit]).op \in Terminators
        /\ Br(Top.blks[2]) \in Instructions /\ Br(Top.blks[2]).op \in Terminators
    BY <2>3, <2>4, BranchType
  <2>. QED
    BY <2>1, <2>2, <2>3, <2>4, <2>5, <2>6, LeaveKeeps
<1>. QED
  BY <1>2, <1>3, <1>4, <1>5

\* The moves that start a loop or end a part of a statement.
LEMMA MovesOpen ==
    ASSUME TypeOK, OneOpenBlock,
           \/ VisitWhileStatement \/ ForBlocks
           \/ IfElse \/ IfMerge \/ WhileEnd \/ ForUpdate \/ ForEnd
    PROVE  OneOpenBlock'
<1>1. ir \in WellBuilt /\ todo # <<>> /\ Top.blks \in Seq(DOMAIN ir.blocks) /\ OwnLocals(Top)
  BY TopType DEF VisitWhileStatement, ForBlocks, IfElse, IfMerge, WhileEnd, ForUpdate,
                 ForEnd, Visiting, Resuming, Running
<1>2. CASE VisitWhileStatement \/ ForBlocks
  <2>1. PICK n \in {3, 4} : ir' = Leave(AddBlocks(ir, n), Br(Len(ir.blocks) + 1),
                                        Len(ir.blocks) + 1)
    BY <1>2 DEF VisitWhileStatement, ForBlocks
  <2>. DEFINE g == AddBlocks(ir, n)
              b == Len(ir.blocks) + 1
  <2>2. /\ g \in WellBuilt /\ Closed(g) /\ NoValue \in Values
        /\ \A k \in 1..n : Len(ir.blocks) + k \in DOMAIN g.blocks
        /\ Len(ir.blocks) \in Nat
    BY <1>1, ConvertedAndAdded, ConstantType
  <2>3. b \in DOMAIN g.blocks /\ b \in Nat
    <3>1. 1 \in 1..n
      OBVIOUS
    <3>. QED
      BY <2>2, <3>1
  <2>. HIDE DEF g, b
  <2>4. Br(b) \in Instructions /\ Br(b).op \in Terminators
    BY <2>2, <2>3, BranchType
  <2>. QED
    BY <2>1, <2>2, <2>3, <2>4, LeaveKeeps DEF g, b
<1>3. CASE IfElse \/ IfMerge \/ WhileEnd \/ ForUpdate \/ ForEnd
  <2>1. PICK j \in 1..4, k \in 1..4 :
            /\ ir' = Leave(ir, Br(Top.blks[j]), Top.blks[k])
            /\ j <= Len(Top.blks) /\ k <= Len(Top.blks)
    <3>1. CASE IfElse
      <4>1. Len(Top.blks) = 2 /\ ir' = Leave(ir, Br(Top.blks[2]), Top.blks[1])
        BY <1>1, <3>1 DEF IfElse, Resuming, OwnLocals
      <4>. QED
        BY <4>1
    <3>2. CASE IfMerge
      <4>1. Len(Top.blks) = 1 /\ ir' = Leave(ir, Br(Top.blks[1]), Top.blks[1])
        BY <1>1, <3>2 DEF IfMerge, Resuming, OwnLocals
      <4>. QED
        BY <4>1
    <3>3. CASE WhileEnd
      <4>1. Len(Top.blks) = 3 /\ ir' = Leave(ir, Br(Top.blks[1]), Top.blks[3])
        BY <1>1, <3>3 DEF WhileEnd, Resuming, OwnLocals
      <4>. QED
        BY <4>1
    <3>4. CASE ForUpdate
      <4>1. Len(Top.blks) = 4 /\ ir' = Leave(ir, Br(Top.blks[3]), Top.blks[3])
        BY <1>1, <3>4 DEF ForUpdate, Resuming, OwnLocals
      <4>. QED
        BY <4>1
    <3>5. CASE ForEnd
      <4>1. Len(Top.blks) = 4 /\ ir' = Leave(ir, Br(Top.blks[1]), Top.blks[4])
        BY <1>1, <3>5 DEF ForEnd, Resuming, OwnLocals
      <4>. QED
        BY <4>1
    <3>. QED
      BY <1>3, <3>1, <3>2, <3>3, <3>4, <3>5
  <2>2. j \in 1..Len(Top.blks) /\ k \in 1..Len(Top.blks)
    BY <1>1, <2>1, LenProperties
  <2>3. /\ Top.blks[j] \in DOMAIN ir.blocks /\ Top.blks[k] \in DOMAIN ir.blocks
        /\ DOMAIN ir.blocks \subseteq Nat
    BY <1>1, <2>2, HeldBlocks
  <2>4. Br(Top.blks[j]) \in Instructions /\ Br(Top.blks[j]).op \in Terminators
    BY <2>3, ConstantType, BranchType
  <2>5. Closed(ir)
    BY DEF OneOpenBlock, Closed
  <2>. QED
    BY <1>1, <2>1, <2>3, <2>4, <2>5, LeaveKeeps
<1>. QED
  BY <1>2, <1>3

\* The short-circuit operator moves to the merge block and builds the phi there.
LEMMA ShortRightOpen ==
    ASSUME TypeOK, OneOpenBlock, ShortRight
    PROVE  OneOpenBlock'
<1>1. CASE UNCHANGED ir
  BY <1>1 DEF OneOpenBlock
<1>2. CASE ~UNCHANGED ir
  <2>. DEFINE bool == ToBool(ir, m_LastValue)
              merge == Top.blks[2]
              left == Leave(bool.ir, Br(merge), merge)
  <2>1. PICK phi : ir' = Build(left, phi).ir
    BY <1>2 DEF ShortRight, MergeShort, Reject, Crash
  <2>2. /\ todo # <<>> /\ ir \in WellBuilt /\ Top.blks \in Seq(DOMAIN ir.blocks)
        /\ Len(Top.blks) = 2
    BY TopType DEF ShortRight, Resuming, Running, OwnLocals
  <2>3. merge \in DOMAIN ir.blocks /\ DOMAIN ir.blocks \subseteq Nat
    BY <2>2, HeldBlocks
  <2>4. bool.ir \in WellBuilt /\ Closed(bool.ir) /\ DOMAIN bool.ir.blocks = DOMAIN ir.blocks
    BY <2>2, ConvertedAndAdded
  <2>. HIDE DEF merge, bool
  <2>5. Br(merge) \in Instructions /\ Br(merge).op \in Terminators
    BY <2>3, ConstantType, BranchType
  <2>6. Closed(left)
    BY <2>3, <2>4, <2>5, LeaveClosed
  <2>. HIDE DEF left
  <2>. QED
    BY <2>1, <2>6, EmitClosed DEF OneOpenBlock, Closed
<1>. QED
  BY <1>1, <1>2

\* What the other handlers emit stays in the block they are in.
LEMMA EmittersOpen ==
    ASSUME OneOpenBlock,
           \/ VisitLiteralExpr \/ VisitVarExpr \/ VisitAllocExpr
           \/ VisitPrefixExpr \/ VisitPostfixExpr \/ BinRight \/ UnaryOp \/ CastOp
           \/ CallEnd \/ AssignStore \/ MemberLoad \/ VisitVariableDecl
           \/ InferredInit \/ ExplicitInit \/ VisitReturnStatement \/ ReturnValue
           \/ UnrollStore
    PROVE  OneOpenBlock'
<1>. DEFINE Kept == ir' = ir \/ Closed(ir')
<1>1. Closed(ir)
  BY DEF OneOpenBlock, Closed
<1>2. ASSUME Kept PROVE OneOpenBlock'
  BY <1>2 DEF OneOpenBlock, Closed
<1>3. ASSUME NEW g, Closed(g), NEW inst
      PROVE  Closed(Emit(g, inst)) /\ Closed(Build(g, inst).ir)
  BY <1>3, EmitClosed
<1>4. ASSUME NEW text, NEW subject, Reject(text, subject) PROVE Kept
  BY <1>4 DEF Reject
<1>5. Crash => Kept
  BY DEF Crash
<1>6. CASE VisitLiteralExpr \/ VisitVarExpr \/ VisitAllocExpr
  BY <1>1, <1>2, <1>3, <1>4, <1>6 DEF VisitLiteralExpr, VisitVarExpr, VisitAllocExpr
<1>7. CASE VisitPrefixExpr \/ VisitPostfixExpr
  <2>. DEFINE slot == m_variables[Node.operand.name].value
              load == Build(ir, Load(slot.elem, slot))
  <2>1. \/ Crash \/ UNCHANGED ir
        \/ \E inst, store : ir' = Emit(Build(load.ir, inst).ir, store)
    BY <1>7 DEF VisitPrefixExpr, VisitPostfixExpr, IncDec, Reject
  <2>2. Closed(load.ir)
    BY <1>1, <1>3
  <2>. HIDE DEF load
  <2>. QED
    BY <1>2, <1>3, <1>5, <2>1, <2>2
<1>8. CASE BinRight
  <2>1. \A op, left, right : Closed(Operate(op, left, right).ir)
    <3>1. ASSUME NEW op, NEW left, NEW right
          PROVE  \/ \E inst : Operate(op, left, right) = Build(ir, inst)
                 \/ \E inst : Operate(op, left, right)
                                = Build(ToBool(ToBool(ir, left).ir, right).ir, inst)
      BY DEF Operate
    <3>. QED
      BY <1>1, <1>3, <3>1, ToBoolClosed
  <2>. QED
    BY <1>2, <1>4, <1>5, <1>8, <2>1 DEF BinRight
<1>9. CASE UnaryOp
  <2>1. \/ Kept
        \/ \E inst : ir' = Build(ToBool(ir, m_LastValue).ir, inst).ir
        \/ \E inst : ir' = Build(ir, inst).ir
    BY <1>4, <1>5, <1>9 DEF UnaryOp
  <2>. QED
    BY <1>1, <1>2, <1>3, <2>1, ToBoolClosed
<1>10. CASE CastOp \/ CallEnd \/ AssignStore
  BY <1>1, <1>2, <1>3, <1>4, <1>5, <1>10 DEF CastOp, CallEnd, AssignStore
<1>11. CASE MemberLoad
  <2>1. \/ Kept
        \/ \E gep, load : ir' = Build(Build(ir, gep).ir, load).ir
    BY <1>4, <1>5, <1>11 DEF MemberLoad
  <2>. QED
    BY <1>1, <1>2, <1>3, <2>1
<1>12. CASE VisitVariableDecl \/ InferredInit \/ ExplicitInit
  <2>1. \/ Kept
        \/ \E inst : ir' = Build(ir, inst).ir
        \/ \E inst : ir' = Emit(ir, inst)
        \/ \E inst, store : ir' = Emit(Build(ir, inst).ir, store)
    BY <1>4, <1>5, <1>12 DEF VisitVariableDecl, InferredInit, ExplicitInit
  <2>. QED
    BY <1>1, <1>2, <1>3, <2>1
<1>13. CASE VisitReturnStatement \/ ReturnValue \/ UnrollStore
  BY <1>1, <1>2, <1>3, <1>13 DEF VisitReturnStatement, ReturnValue, UnrollStore
<1>. QED
  BY <1>6, <1>7, <1>8, <1>9, <1>10, <1>11, <1>12, <1>13

\* These do not touch the function.
LEMMA OthersOpen ==
    ASSUME OneOpenBlock,
           \/ VisitBinaryExpr \/ BinLeft \/ VisitUnaryExpr \/ VisitCastExpr
           \/ VisitCallExpr \/ CallArg \/ VisitAssignExpr \/ VisitMemberAccessExpr
           \/ VisitNull \/ VisitBlockStatement \/ Statement \/ VisitExprStatement
           \/ VisitIfStatement \/ VisitForStatement \/ UnrollStart
           \/ VisitInterfaceDecl \/ VisitStructDecl
    PROVE  OneOpenBlock'
<1>1. ir' = ir
  BY DEF VisitBinaryExpr, BinLeft, VisitUnaryExpr, VisitCastExpr, VisitCallExpr,
         CallArg, VisitAssignExpr, VisitMemberAccessExpr, VisitNull,
         VisitBlockStatement, Statement, VisitExprStatement, VisitIfStatement,
         VisitForStatement, UnrollStart, VisitInterfaceDecl, VisitStructDecl,
         Descend, Crash, Reject
<1>. QED
  BY <1>1 DEF OneOpenBlock

LEMMA FunctionsOpen ==
    ASSUME OneOpenBlock, VisitFunctionDecl \/ EndFunctionDecl
    PROVE  OneOpenBlock'
<1>1. CASE VisitFunctionDecl
  <2>. DEFINE entry == Block(TRUE, <<>>)
  <2>1. ir' = Func(ir.fn + 1, <<entry>>, 1)
    BY <1>1 DEF VisitFunctionDecl, NewFunction
  <2>. HIDE DEF entry
  <2>2. ir'.blocks = <<entry>> /\ ir'.at = 1
    BY <2>1 DEF Func
  <2>3. \A b \in DOMAIN ir'.blocks : b = ir'.at
    BY <2>2
  <2>. QED
    BY <2>3 DEF OneOpenBlock
<1>2. CASE EndFunctionDecl
  <2>1. ir' = ir \/ ir' = Emit(ir, RetVoid)
    BY <1>2 DEF EndFunctionDecl
  <2>2. Closed(Emit(ir, RetVoid))
    BY EmitClosed DEF OneOpenBlock, Closed
  <2>. QED
    BY <2>1, <2>2 DEF OneOpenBlock, Closed
<1>. QED
  BY <1>1, <1>2

\* No handler moves away from a block it leaves open, whichever way it returns:
\* of the blocks of a function only that of the insert point may still lack a
\* terminator.
THEOREM OneOpenBlockCorrect == Spec => []OneOpenBlock
<1>. DEFINE IInv == TypeOK /\ OneOpenBlock
<1>1. Init => IInv
  <2>1. Init => OneOpenBlock
    <3>1. Init => ir.blocks = <<>>
      <4>1. Init => ir = NoFunction
        BY DEF Init
      <4>2. NoFunction.blocks = <<>>
        BY DEF NoFunction, Func
      <4>. QED
        BY <4>1, <4>2
    <3>2. ir.blocks = <<>> => DOMAIN ir.blocks = {}
      OBVIOUS
    <3>. QED
      BY <3>1, <3>2 DEF OneOpenBlock
  <2>. QED
    BY <2>1, InitTypes
<1>2. IInv /\ [Next]_vars => IInv'
  <2>. SUFFICES ASSUME TypeOK, OneOpenBlock, [Next]_vars
                PROVE  TypeOK' /\ OneOpenBlock'
    OBVIOUS
  <2>1. TypeOK'
    BY NextTypes, StutterTypes
  <2>2. CASE Expressions
    BY <2>1, <2>2, EmittersOpen, OthersOpen, ConditionsOpen, ShortRightOpen
       DEF Expressions
  <2>3. CASE Statements
    BY <2>1, <2>3, EmittersOpen, OthersOpen, ConditionsOpen, MovesOpen DEF Statements
  <2>4. CASE Declarations
    BY <2>1, <2>4, OthersOpen, FunctionsOpen DEF Declarations
  <2>5. CASE UNCHANGED vars
    BY <2>1, <2>5 DEF vars, OneOpenBlock
  <2>. QED
    BY <2>2, <2>3, <2>4, <2>5 DEF Next
<1>3. IInv => OneOpenBlock
  OBVIOUS
<1>. QED
  BY <1>1, <1>2, <1>3, PTL DEF Spec

(***************************************************************************)
(* The blocks of the control-flow statements: every block that a handler   *)
(* creates and branches to ends up in the function.  BlocksPlaced speaks   *)
(* of a finished body; the invariant that carries it accounts for every    *)
(* block of a body under way: it is in the function, or a task that waits  *)
(* on the agenda is going to insert it.                                    *)
(***************************************************************************)
\* The blocks that the rest of a handler inserts into the function.
Owed(t) ==
    CASE t.do = "ShortRight" -> {t.blks[2]}
      [] t.do = "IfElse" -> {t.blks[1], t.blks[2]}
      [] t.do = "IfMerge" -> {t.blks[1]}
      [] t.do = "WhileCond" -> {t.blks[2], t.blks[3]}
      [] t.do = "WhileEnd" -> {t.blks[3]}
      [] t.do = "ForCond" -> {t.blks[2], t.blks[3], t.blks[4]}
      [] t.do = "ForUpdate" -> {t.blks[3], t.blks[4]}
      [] t.do = "ForEnd" -> {t.blks[4]}
      [] OTHER -> {}

NoneLost ==
    Clean => \A b \in DOMAIN ir.blocks :
                 \/ ir.blocks[b].placed
                 \/ \E k \in DOMAIN todo : b \in Owed(todo[k])

Movers ==
    {"ShortRight", "IfElse", "IfMerge", "WhileCond", "WhileEnd", "ForCond",
     "ForUpdate", "ForEnd"}

LEMMA OwedByNone ==
    ASSUME NEW t, t.do \notin Movers
    PROVE  Owed(t) = {}
BY DEF Owed, Movers

LEMMA OwedBy ==
    ASSUME NEW n, NEW vals, NEW blks
    PROVE  /\ Owed(Task("ShortRight", n, vals, blks)) = {blks[2]}
           /\ Owed(Task("IfElse", n, vals, blks)) = {blks[1], blks[2]}
           /\ Owed(Task("IfMerge", n, vals, blks)) = {blks[1]}
           /\ Owed(Task("WhileCond", n, vals, blks)) = {blks[2], blks[3]}
           /\ Owed(Task("WhileEnd", n, vals, blks)) = {blks[3]}
           /\ Owed(Task("ForCond", n, vals, blks)) = {blks[2], blks[3], blks[4]}
           /\ Owed(Task("ForUpdate", n, vals, blks)) = {blks[3], blks[4]}
           /\ Owed(Task("ForEnd", n, vals, blks)) = {blks[4]}
BY DEF Owed, Task

LEMMA OwedByTop ==
    /\ Top.do = "ShortRight" => Owed(Top) = {Top.blks[2]}
    /\ Top.do = "IfElse" => Owed(Top) = {Top.blks[1], Top.blks[2]}
    /\ Top.do = "IfMerge" => Owed(Top) = {Top.blks[1]}
    /\ Top.do = "WhileCond" => Owed(Top) = {Top.blks[2], Top.blks[3]}
    /\ Top.do = "WhileEnd" => Owed(Top) = {Top.blks[3]}
    /\ Top.do = "ForCond" => Owed(Top) = {Top.blks[2], Top.blks[3], Top.blks[4]}
    /\ Top.do = "ForUpdate" => Owed(Top) = {Top.blks[3], Top.blks[4]}
    /\ Top.do = "ForEnd" => Owed(Top) = {Top.blks[4]}
BY DEF Owed

(***************************************************************************)
(* What the builder does to the blocks.                                    *)
(***************************************************************************)
\* The same blocks are in the function.
Alike(g, h) ==
    /\ DOMAIN g.blocks = DOMAIN h.blocks
    /\ \A b \in DOMAIN g.blocks : g.blocks[b].placed = h.blocks[b].placed

LEMMA EmitAlike ==
    ASSUME NEW g, NEW inst
    PROVE  Alike(Emit(g, inst), g) /\ Alike(Build(g, inst).ir, g)
<1>. DEFINE here == g.blocks[g.at]
            longer == Block(here.placed, Append(here.code, inst))
            blocks == [g.blocks EXCEPT ![g.at] = longer]
<1>1. Emit(g, inst).blocks = blocks
  BY DEF Emit, Func
<1>2. longer.placed = g.blocks[g.at].placed
  BY DEF Block
<1>. HIDE DEF longer
<1>3. /\ DOMAIN blocks = DOMAIN g.blocks
      /\ \A b \in DOMAIN g.blocks : blocks[b].placed = g.blocks[b].placed
  BY <1>2
<1>. HIDE DEF blocks
<1>4. Alike(Emit(g, inst), g)
  BY <1>1, <1>3 DEF Alike
<1>. QED
  BY <1>4 DEF Build

LEMMA AlikeChain ==
    ASSUME NEW f, NEW g, NEW h, Alike(f, g), Alike(g, h)
    PROVE  Alike(f, h)
BY DEF Alike

LEMMA ToBoolAlike ==
    ASSUME NEW g, NEW v
    PROVE  Alike(ToBool(g, v).ir, g) /\ Alike(CondBool(g, v).ir, g)
<1>1. Alike(g, g)
  BY DEF Alike
<1>. QED
  BY <1>1, EmitAlike DEF ToBool, CondBool

\* Leaving a block for b inserts b.
LEMMA LeavePlaces ==
    ASSUME NEW g, NEW branch, NEW b
    PROVE  /\ DOMAIN Leave(g, branch, b).blocks = DOMAIN g.blocks
           /\ \A c \in DOMAIN g.blocks :
                 c = b \/ g.blocks[c].placed => Leave(g, branch, b).blocks[c].placed
<1>. DEFINE middle == Emit(g, branch)
            entered == Block(TRUE, middle.blocks[b].code)
            blocks == [middle.blocks EXCEPT ![b] = entered]
<1>1. Leave(g, branch, b).blocks = blocks
  BY DEF Leave, Enter, Func
<1>2. Alike(middle, g)
  BY EmitAlike
<1>3. entered.placed
  BY DEF Block
<1>. HIDE DEF entered, middle
<1>4. /\ DOMAIN blocks = DOMAIN middle.blocks
      /\ \A c \in DOMAIN middle.blocks :
            c = b \/ middle.blocks[c].placed => blocks[c].placed
  BY <1>3
<1>. HIDE DEF blocks
<1>. QED
  BY <1>1, <1>2, <1>4 DEF Alike

LEMMA AddBlocksPlaced ==
    ASSUME NEW g \in WellBuilt, NEW n \in Nat
    PROVE  /\ DOMAIN AddBlocks(g, n).blocks = 1..Len(g.blocks) + n
           /\ DOMAIN g.blocks = 1..Len(g.blocks) /\ Len(g.blocks) \in Nat
           /\ \A b \in DOMAIN g.blocks : AddBlocks(g, n).blocks[b] = g.blocks[b]
<1>. DEFINE empty == Block(FALSE, <<>>)
            new == [k \in 1..n |-> empty]
            blocks == g.blocks \o new
<1>1. g.blocks \in Seq(Blocks) /\ Len(g.blocks) \in Nat
      /\ DOMAIN g.blocks = 1..Len(g.blocks)
  BY LenProperties DEF WellBuilt, Functions, Blocks
<1>2. empty \in Blocks
  BY DEF Blocks, Block
<1>. HIDE DEF empty
<1>3. new \in Seq(Blocks) /\ Len(new) = n
  BY <1>2, LenProperties
<1>. HIDE DEF new
<1>4. /\ blocks \in Seq(Blocks) /\ Len(blocks) = Len(g.blocks) + n
      /\ \A b \in 1..Len(g.blocks) + n :
            blocks[b] = IF b <= Len(g.blocks) THEN g.blocks[b]
                        ELSE new[b - Len(g.blocks)]
  BY <1>1, <1>3, ConcatProperties
<1>5. DOMAIN blocks = 1..Len(g.blocks) + n
  BY <1>4, LenProperties
<1>6. AddBlocks(g, n).blocks = blocks
  BY DEF AddBlocks, Func, new, empty
<1>. HIDE DEF blocks
<1>7. \A b \in DOMAIN g.blocks : blocks[b] = g.blocks[b]
  BY <1>1, <1>4
<1>. QED
  BY <1>1, <1>5, <1>6, <1>7

(***************************************************************************)
(* Steps.                                                                  *)
(***************************************************************************)
\* In general: what the current task owed is in the function by now, or owed by
\* its successors, which also owe the blocks it created.
LEMMA OwedStep ==
    ASSUME TypeOK, NoneLost, todo # <<>>, Clean' => Clean,
           NEW S, NEW tasks \in Seq(S), Proceed(tasks),
           \A b \in DOMAIN ir'.blocks :
              \/ ir'.blocks[b].placed
              \/ b \in DOMAIN ir.blocks /\ ~ir.blocks[b].placed /\ b \notin Owed(Top)
              \/ \E k \in DOMAIN tasks : b \in Owed(tasks[k])
    PROVE  NoneLost'
<1>. SUFFICES ASSUME Clean, NEW b \in DOMAIN ir'.blocks, ~ir'.blocks[b].placed
              PROVE  \E k \in DOMAIN todo' : b \in Owed(todo'[k])
  BY DEF NoneLost
<1>. DEFINE rest == Tail(todo)
            T == TasksIn(ir)
            n == Len(tasks)
<1>1. /\ todo \in Seq(T) /\ Len(todo) \in Nat /\ Len(todo) > 0 /\ Top = todo[1]
      /\ DOMAIN todo = 1..Len(todo)
  BY LenProperties DEF TypeOK, Top
<1>2. /\ rest \in Seq(T) /\ Len(rest) = Len(todo) - 1
      /\ \A k \in 1..Len(rest) : rest[k] = todo[k + 1]
  BY <1>1, HeadTailProperties
<1>3. todo' = tasks \o rest
  BY DEF Proceed
<1>4. tasks \in Seq(S \cup T) /\ rest \in Seq(S \cup T)
  BY <1>2, SeqMonotonic
<1>. HIDE DEF rest, T
<1>5. /\ todo' \in Seq(S \cup T) /\ Len(todo') = n + Len(rest)
      /\ \A k \in 1..n + Len(rest) : todo'[k] = IF k <= n THEN tasks[k] ELSE rest[k - n]
  BY <1>3, <1>4, ConcatProperties
<1>6. /\ DOMAIN todo' = 1..n + Len(rest) /\ DOMAIN tasks = 1..n
      /\ n \in Nat /\ Len(rest) \in Nat
  BY <1>4, <1>5, LenProperties
<1>. HIDE DEF n
<1>7. CASE \E k \in DOMAIN tasks : b \in Owed(tasks[k])
  <2>1. PICK k \in 1..n : b \in Owed(tasks[k])
    BY <1>6, <1>7
  <2>2. k \in DOMAIN todo' /\ todo'[k] = tasks[k]
    BY <1>5, <1>6
  <2>. QED
    BY <2>1, <2>2
<1>8. CASE b \in DOMAIN ir.blocks /\ ~ir.blocks[b].placed /\ b \notin Owed(Top)
  <2>1. PICK k \in DOMAIN todo : b \in Owed(todo[k])
    BY <1>8 DEF NoneLost
  <2>2. k \in 1..Len(todo) /\ k # 1
    BY <1>1, <1>8, <2>1
  <2>3. k - 1 \in 1..Len(rest) /\ (k - 1) + 1 = k
    BY <1>1, <1>2, <2>2
  <2>4. rest[k - 1] = todo[k]
    BY <1>2, <2>3
  <2>5. n + (k - 1) \in 1..n + Len(rest) /\ ~(n + (k - 1) <= n) /\ (n + (k - 1)) - n = k - 1
    BY <1>6, <2>3
  <2>6. todo'[n + (k - 1)] = rest[k - 1]
    BY <1>5, <2>5
  <2>. QED
    BY <1>6, <2>1, <2>4, <2>5, <2>6
<1>. QED
  BY <1>7, <1>8

\* After an error message or a crash nothing is promised any more.
LEMMA DirtyStep ==
    ASSUME \/ \E text, subject : Report(text, subject)
           \/ crashed'
    PROVE  NoneLost'
<1>1. ~Clean'
  BY DEF Clean, Report
<1>. QED
  BY <1>1 DEF NoneLost

LEMMA RejectPlaces ==
    ASSUME NEW text, NEW subject, Reject(text, subject)
    PROVE  NoneLost'
BY DirtyStep DEF Reject

LEMMA CrashPlaces ==
    ASSUME Crash
    PROVE  NoneLost'
BY DirtyStep DEF Crash

\* What owes nothing and creates nothing.
LEMMA EmitStep ==
    ASSUME TypeOK, NoneLost, todo # <<>>, Clean' => Clean,
           NEW S, NEW tasks \in Seq(S), Proceed(tasks),
           Top.do \notin Movers, Alike(ir', ir)
    PROVE  NoneLost'
<1>1. Owed(Top) = {}
  BY OwedByNone
<1>2. \A b \in DOMAIN ir'.blocks :
          ir'.blocks[b].placed \/ (b \in DOMAIN ir.blocks /\ ~ir.blocks[b].placed)
  BY DEF Alike
<1>. QED
  BY <1>1, <1>2, OwedStep

\* The agendas that most handlers leave behind.
Follows(n, u) ==
    \/ Finish
    \/ Proceed(<<Visit(n), u>>)
    \/ Proceed(IfPresent(n))
    \/ Proceed(IfPresent(n) \o <<u>>)

LEMMA FollowsSeq ==
    ASSUME NEW n, NEW u, Follows(n, u)
    PROVE  \E S : \E tasks \in Seq(S) : Proceed(tasks)
<1>. DEFINE S == {Visit(n), u}
<1>1. <<>> \in Seq(S) /\ <<Visit(n)>> \in Seq(S) /\ <<Visit(n), u>> \in Seq(S)
      /\ <<u>> \in Seq(S)
  OBVIOUS
<1>2. IfPresent(n) \in Seq(S)
  BY <1>1 DEF IfPresent
<1>. HIDE DEF S
<1>3. IfPresent(n) \o <<u>> \in Seq(S)
  BY <1>1, <1>2, ConcatProperties
<1>. QED
  BY <1>1, <1>2, <1>3 DEF Follows, Finish

LEMMA FollowStep ==
    ASSUME TypeOK, NoneLost, todo # <<>>, Clean' => Clean,
           NEW n, NEW u, Follows(n, u), Top.do \notin Movers, Alike(ir', ir)
    PROVE  NoneLost'
BY FollowsSeq, EmitStep

\* Handlers that only visit children.
LEMMA VisitsPlace ==
    ASSUME TypeOK, NoneLost,
           \/ VisitBinaryExpr \/ BinLeft \/ VisitUnaryExpr \/ VisitCastExpr
           \/ VisitAssignExpr \/ VisitMemberAccessExpr \/ Statement
           \/ VisitExprStatement \/ VisitIfStatement \/ VisitForStatement
    PROVE  NoneLost'
<1>1. /\ todo # <<>> /\ Top.do \in {"Visit", "BinLeft", "Statement"}
      /\ ir' = ir /\ errors' = errors /\ crashed' = crashed
  BY DEF VisitBinaryExpr, BinLeft, VisitUnaryExpr, VisitCastExpr, VisitAssignExpr,
       VisitMemberAccessExpr, Statement, VisitExprStatement, VisitIfStatement,
       VisitForStatement, Descend, Visiting, Resuming, Running
<1>2. \E n, u : Follows(n, u)
  <2>1. CASE \/ VisitBinaryExpr \/ BinLeft \/ VisitUnaryExpr \/ VisitCastExpr
             \/ VisitAssignExpr \/ VisitMemberAccessExpr \/ VisitIfStatement
    BY <2>1 DEF VisitBinaryExpr, BinLeft, VisitUnaryExpr, VisitCastExpr,
         VisitAssignExpr, VisitMemberAccessExpr, VisitIfStatement, Descend, Follows
  <2>2. CASE Statement \/ VisitExprStatement
    BY <2>2 DEF Statement, VisitExprStatement, Descend, Follows
  <2>3. CASE VisitForStatement
    BY <2>3 DEF VisitForStatement, Descend, Follows
  <2>. QED
    BY <2>1, <2>2, <2>3
<1>3. Alike(ir', ir)
  BY <1>1 DEF Alike
<1>4. (Clean' => Clean) /\ Top.do \notin Movers
  BY <1>1 DEF Clean, Movers
<1>. QED
  BY <1>1, <1>2, <1>3, <1>4, FollowStep

\* Blocks, calls and unrolled loops visit as many children as there are.
LEMMA ListsPlace ==
    ASSUME TypeOK, NoneLost,
           VisitBlockStatement \/ VisitCallExpr \/ CallArg \/ UnrollStart
    PROVE  NoneLost'
<1>1. /\ todo # <<>> /\ Top.do \in {"Visit", "CallArg", "UnrollStart"}
      /\ ir' = ir /\ Node \in AstNode
  BY TopType DEF VisitBlockStatement, VisitCallExpr, CallArg, UnrollStart, Descend,
       Visiting, Resuming, Running, Reject, Crash
<1>2. Alike(ir', ir) /\ Top.do \notin Movers
  BY <1>1 DEF Alike, Movers
<1>3. CASE VisitBlockStatement
  <2>. DEFINE tasks == [k \in DOMAIN Node.statements |->
                           Task("Statement", Node.statements[k], <<>>, <<>>)]
              S == {Task("Statement", n, <<>>, <<>>) : n \in AstNode}
  <2>1. Node.statements \in Seq(AstNode)
    BY <1>1, <1>3, StatementMembers DEF VisitBlockStatement, Descend, Visiting
  <2>2. DOMAIN Node.statements = 1..Len(Node.statements) /\ Len(Node.statements) \in Nat
    BY <2>1, LenProperties
  <2>3. \A k \in DOMAIN Node.statements : tasks[k] \in S
    BY <2>1
  <2>4. tasks \in Seq(S)
    <3>. HIDE DEF S
    <3>1. \A k \in 1..Len(Node.statements) : tasks[k] \in S
      BY <2>2, <2>3
    <3>2. tasks = [k \in 1..Len(Node.statements) |-> tasks[k]]
      BY <2>2
    <3>. DEFINE len == Len(Node.statements)
    <3>3. tasks \in [1..len -> S] /\ len \in Nat
      BY <2>2, <3>1, <3>2
    <3>. HIDE DEF tasks, len
    <3>. QED
      BY <3>3
  <2>5. Proceed(tasks) /\ (Clean' => Clean)
    BY <1>3 DEF VisitBlockStatement, Descend, Clean
  <2>. HIDE DEF tasks, S
  <2>. QED
    BY <1>1, <1>2, <2>4, <2>5, EmitStep
<1>4. CASE VisitCallExpr \/ CallArg
  <2>1. /\ Node.kind = "CallExpr" /\ Top.vals \in Seq(Values) /\ m_LastValue \in Values
        /\ (Clean' => Clean)
    BY <1>1, <1>4, TopType DEF VisitCallExpr, CallArg, Visiting, Resuming, OwnKind, Node,
         TypeOK, Clean, Report
  <2>2. <<>> \in Seq(Values) /\ Append(Top.vals, m_LastValue) \in Seq(Values)
    BY <2>1
  <2>3. PICK args \in Seq(Values) : Proceed(NextArgument(args))
    BY <1>4, <2>2 DEF VisitCallExpr, CallArg
  <2>4. NextArgument(args) \in Seq(TasksIn(ir))
    BY <1>1, <2>1, NextArgumentType
  <2>. QED
    BY <1>1, <1>2, <2>1, <2>3, <2>4, EmitStep
<1>5. CASE UnrollStart
  <2>. DEFINE info == AnalyzeForUnroll(Node)
              slot == m_variables[info.varName].value
              tasks == Iterations(info, slot)
  <2>1. \/ Crash
        \/ \E text, subject : Reject(text, subject)
        \/ /\ info.varName \in DOMAIN m_variables /\ Proceed(tasks)
           /\ errors' = errors /\ crashed' = crashed
    BY <1>5 DEF UnrollStart
  <2>2. ASSUME info.varName \in DOMAIN m_variables, Proceed(tasks),
               errors' = errors, crashed' = crashed
        PROVE  NoneLost'
    <3>1. Node.kind = "ForStatement"
      BY <1>1, <1>5, TopType DEF UnrollStart, Resuming, OwnKind, Node
    <3>2. info.start \in Int /\ info.step \in Int /\ info.tripCount \in Nat
      BY <1>1, <3>1, AnalysisType
    <3>3. slot \in Values
      BY <2>2 DEF TypeOK, VariableInfos
    <3>. HIDE DEF info, slot
    <3>4. tasks \in Seq(TasksIn(ir))
      BY <1>1, <3>1, <3>2, <3>3, IterationsType
    <3>5. Clean' => Clean
      BY <2>2 DEF Clean
    <3>. HIDE DEF tasks
    <3>6. Proceed(tasks) /\ tasks \in Seq(TasksIn(ir))
      BY <2>2, <3>4 DEF tasks
    <3>. QED
      BY <1>1, <1>2, <3>5, <3>6, EmitStep
  <2>. QED
    BY <2>1, <2>2, CrashPlaces, RejectPlaces
<1>. QED
  BY <1>3, <1>4, <1>5

\* What the other handlers emit stays in the block they are in.
LEMMA EmittersPlace ==
    ASSUME TypeOK, NoneLost,
           \/ VisitLiteralExpr \/ VisitVarExpr \/ VisitAllocExpr
           \/ VisitPrefixExpr \/ VisitPostfixExpr \/ BinRight \/ UnaryOp \/ CastOp
           \/ CallEnd \/ AssignStore \/ MemberLoad \/ VisitVariableDecl
           \/ InferredInit \/ ExplicitInit \/ VisitReturnStatement \/ ReturnValue
           \/ UnrollStore
    PROVE  NoneLost'
<1>. DEFINE Ends ==
         \/ crashed'
         \/ \E text, subject : Report(text, subject)
         \/ /\ \E n, u : Follows(n, u)
            /\ Alike(ir', ir) /\ errors' = errors /\ crashed' = crashed
<1>1. /\ todo # <<>>
      /\ Top.do \in {"Visit", "BinRight", "UnaryOp", "CastOp", "CallEnd", "AssignStore",
                     "MemberLoad", "InferredInit", "ExplicitInit", "ReturnValue",
                     "UnrollStore"}
  BY DEF VisitLiteralExpr, VisitVarExpr, VisitAllocExpr, VisitPrefixExpr,
       VisitPostfixExpr, BinRight, UnaryOp, CastOp, CallEnd, AssignStore, MemberLoad,
       VisitVariableDecl, InferredInit, ExplicitInit, VisitReturnStatement,
       ReturnValue, UnrollStore, Visiting, Resuming, Running
<1>2. Alike(ir, ir)
  BY DEF Alike
<1>3. ASSUME NEW g, Alike(g, ir), NEW inst
      PROVE  Alike(Emit(g, inst), ir) /\ Alike(Build(g, inst).ir, ir)
  BY <1>3, EmitAlike, AlikeChain
<1>4. ASSUME NEW g, Alike(g, ir), NEW v
      PROVE  Alike(ToBool(g, v).ir, ir)
  BY <1>4, ToBoolAlike, AlikeChain
<1>5. ASSUME NEW text, NEW subject, Reject(text, subject) PROVE Ends
  BY <1>5 DEF Reject
<1>6. Crash => Ends
  BY DEF Crash
<1>7. ASSUME \/ Finish
             \/ \E n, u : Proceed(<<Visit(n), u>>)
      PROVE  \E n, u : Follows(n, u)
  BY <1>7 DEF Follows
<1>8. ASSUME VisitLiteralExpr \/ VisitVarExpr \/ VisitAllocExpr PROVE Ends
  BY <1>2, <1>3, <1>5, <1>7, <1>8 DEF VisitLiteralExpr, VisitVarExpr, VisitAllocExpr
<1>9. ASSUME VisitPrefixExpr \/ VisitPostfixExpr PROVE Ends
  <2>. DEFINE slot == m_variables[Node.operand.name].value
              load == Build(ir, Load(slot.elem, slot))
  <2>1. \/ Crash
        \/ \E text, subject : Report(text, subject)
        \/ /\ \E inst, store : ir' = Emit(Build(load.ir, inst).ir, store)
           /\ Finish /\ errors' = errors /\ crashed' = crashed
    BY <1>9 DEF VisitPrefixExpr, VisitPostfixExpr, IncDec, Reject
  <2>2. Alike(load.ir, ir)
    BY <1>2, <1>3
  <2>. HIDE DEF load
  <2>3. \A inst, store : Alike(Emit(Build(load.ir, inst).ir, store), ir)
    BY <1>3, <2>2
  <2>. QED
    BY <1>6, <1>7, <2>1, <2>3
<1>10. ASSUME BinRight PROVE Ends
  <2>1. \A op, left, right : Alike(Operate(op, left, right).ir, ir)
    <3>1. ASSUME NEW op, NEW left, NEW right
          PROVE  \/ \E inst : Operate(op, left, right) = Build(ir, inst)
                 \/ \E inst : Operate(op, left, right)
                                = Build(ToBool(ToBool(ir, left).ir, right).ir, inst)
      BY DEF Operate
    <3>. QED
      BY <1>2, <1>3, <1>4, <3>1
  <2>. QED
    BY <1>5, <1>6, <1>7, <1>10, <2>1 DEF BinRight
<1>11. ASSUME UnaryOp PROVE Ends
  <2>1. \/ Ends
        \/ /\ \/ \E inst : ir' = Build(ToBool(ir, m_LastValue).ir, inst).ir
              \/ \E inst : ir' = Build(ir, inst).ir
           /\ Finish /\ errors' = errors /\ crashed' = crashed
    BY <1>5, <1>6, <1>11 DEF UnaryOp
  <2>. QED
    BY <1>2, <1>3, <1>4, <1>7, <2>1
<1>12. ASSUME CastOp \/ CallEnd \/ AssignStore PROVE Ends
  BY <1>2, <1>3, <1>5, <1>6, <1>7, <1>12 DEF CastOp, CallEnd, AssignStore
<1>13. ASSUME MemberLoad PROVE Ends
  <2>1. \/ Ends
        \/ /\ \E gep, load : ir' = Build(Build(ir, gep).ir, load).ir
           /\ Finish /\ errors' = errors /\ crashed' = crashed
    BY <1>5, <1>6, <1>13 DEF MemberLoad
  <2>. QED
    BY <1>2, <1>3, <1>7, <2>1
<1>14. ASSUME VisitVariableDecl \/ InferredInit \/ ExplicitInit PROVE Ends
  <2>1. \/ Ends
        \/ /\ \/ ir' = ir
              \/ \E inst : ir' = Build(ir, inst).ir
              \/ \E inst : ir' = Emit(ir, inst)
              \/ \E inst, store : ir' = Emit(Build(ir, inst).ir, store)
           /\ Finish \/ \E n, u : Proceed(<<Visit(n), u>>)
           /\ errors' = errors /\ crashed' = crashed
    BY <1>5, <1>6, <1>14 DEF VisitVariableDecl, InferredInit, ExplicitInit
  <2>. QED
    BY <1>2, <1>3, <1>7, <2>1
<1>15. ASSUME VisitReturnStatement \/ ReturnValue \/ UnrollStore PROVE Ends
  BY <1>2, <1>3, <1>7, <1>15 DEF VisitReturnStatement, ReturnValue, UnrollStore
<1>16. Ends
  BY <1>8, <1>9, <1>10, <1>11, <1>12, <1>13, <1>14, <1>15
<1>17. Top.do \notin Movers
  BY <1>1 DEF Movers
<1>18. errors' = errors /\ crashed' = crashed => (Clean' => Clean)
  BY DEF Clean
<1>. QED
  BY <1>1, <1>16, <1>17, <1>18, DirtyStep, FollowStep DEF Ends

(***************************************************************************)
(* Handlers that create blocks or move to one.                             *)
(***************************************************************************)
\* A handler that adds n blocks moves to the first and leaves the others to the
\* rest of itself.
LEMMA CreateStep ==
    ASSUME TypeOK, NoneLost, todo # <<>>, Clean' => Clean, Top.do \notin Movers,
           NEW g, Alike(g, ir), g \in WellBuilt, NEW n \in Nat, NEW branch,
           ir' = Leave(AddBlocks(g, n), branch, Len(ir.blocks) + 1),
           NEW S, NEW tasks \in Seq(S), Proceed(tasks), NEW k \in DOMAIN tasks,
           \A j \in 2..n : Len(ir.blocks) + j \in Owed(tasks[k])
    PROVE  NoneLost'
<1>1. Owed(Top) = {}
  BY OwedByNone
<1>. DEFINE h == AddBlocks(g, n)
            len == Len(ir.blocks)
            b == len + 1
<1>2. /\ DOMAIN g.blocks = DOMAIN ir.blocks
      /\ \A c \in DOMAIN g.blocks : g.blocks[c].placed = ir.blocks[c].placed
  BY DEF Alike
<1>3. /\ DOMAIN h.blocks = 1..Len(g.blocks) + n
      /\ DOMAIN g.blocks = 1..Len(g.blocks) /\ Len(g.blocks) \in Nat
      /\ \A c \in DOMAIN g.blocks : h.blocks[c] = g.blocks[c]
  BY AddBlocksPlaced
<1>4. len = Len(g.blocks)
  <2>1. ir.blocks \in Seq(Blocks)
    BY DEF TypeOK, Functions, Blocks
  <2>2. DOMAIN ir.blocks = 1..len /\ len \in Nat
    BY <2>1, LenProperties
  <2>. DEFINE m == Len(g.blocks)
  <2>3. 1..len = 1..m /\ len \in Nat /\ m \in Nat
    BY <1>2, <1>3, <2>2
  <2>. HIDE DEF m, len
  <2>4. (len > 0 => len \in 1..m) /\ (m > 0 => m \in 1..len)
    BY <2>3
  <2>5. len = m
    BY <2>3, <2>4
  <2>. QED
    BY <2>5 DEF m
<1>5. /\ DOMAIN ir'.blocks = DOMAIN h.blocks
      /\ \A c \in DOMAIN h.blocks : c = b \/ h.blocks[c].placed => ir'.blocks[c].placed
  BY LeavePlaces
<1>. HIDE DEF h, len
<1>6. ASSUME NEW c \in DOMAIN ir'.blocks
      PROVE  \/ ir'.blocks[c].placed
             \/ c \in DOMAIN ir.blocks /\ ~ir.blocks[c].placed /\ c \notin Owed(Top)
             \/ \E i \in DOMAIN tasks : c \in Owed(tasks[i])
  <2>1. CASE c \in DOMAIN g.blocks
    BY <1>1, <1>2, <1>3, <1>5, <2>1
  <2>2. CASE c = b
    BY <1>5, <2>2
  <2>3. CASE c \notin DOMAIN g.blocks /\ c # b
    <3>1. c \in 1..len + n /\ ~(c \in 1..len) /\ c # len + 1 /\ len \in Nat
      BY <1>3, <1>4, <1>5, <2>3
    <3>2. c - len \in 2..n /\ len + (c - len) = c
      BY <3>1
    <3>3. c \in Owed(tasks[k])
      BY <3>2 DEF len
    <3>. QED
      BY <3>3
  <2>. QED
    BY <2>1, <2>2, <2>3
<1>. QED
  BY <1>6, OwedStep

\* A handler that moves to a block hands the others it owed to its rest.
LEMMA MoveStep ==
    ASSUME TypeOK, NoneLost, todo # <<>>, Clean' => Clean,
           NEW g, Alike(g, ir), NEW branch, NEW b, Alike(ir', Leave(g, branch, b)),
           NEW S, NEW tasks \in Seq(S), Proceed(tasks),
           \A c \in Owed(Top) : c = b \/ \E k \in DOMAIN tasks : c \in Owed(tasks[k])
    PROVE  NoneLost'
<1>1. /\ DOMAIN g.blocks = DOMAIN ir.blocks
      /\ \A c \in DOMAIN g.blocks : g.blocks[c].placed = ir.blocks[c].placed
  BY DEF Alike
<1>2. /\ DOMAIN ir'.blocks = DOMAIN g.blocks
      /\ \A c \in DOMAIN g.blocks : c = b \/ g.blocks[c].placed => ir'.blocks[c].placed
  BY LeavePlaces DEF Alike
<1>3. ASSUME NEW c \in DOMAIN ir'.blocks
      PROVE  \/ ir'.blocks[c].placed
             \/ c \in DOMAIN ir.blocks /\ ~ir.blocks[c].placed /\ c \notin Owed(Top)
             \/ \E k \in DOMAIN tasks : c \in Owed(tasks[k])
  BY <1>1, <1>2
<1>. QED
  BY <1>3, OwedStep

\* The rest of a handler is one of the tasks that follow.
LEMMA LastTask ==
    ASSUME NEW n, NEW u, Proceed(<<Visit(n), u>>) \/ Proceed(IfPresent(n) \o <<u>>)
    PROVE  \E S : \E tasks \in Seq(S) :
              Proceed(tasks) /\ \E k \in DOMAIN tasks : tasks[k] = u
<1>. DEFINE S == {Visit(n), u}
            one == <<Visit(n), u>>
            two == IfPresent(n) \o <<u>>
            l == Len(IfPresent(n))
<1>1. <<>> \in Seq(S) /\ <<Visit(n)>> \in Seq(S) /\ <<u>> \in Seq(S)
  OBVIOUS
<1>2. one \in Seq(S) /\ 2 \in DOMAIN one /\ one[2] = u
  OBVIOUS
<1>3. IfPresent(n) \in Seq(S) /\ l \in Nat /\ Len(<<u>>) = 1 /\ <<u>>[1] = u
  BY <1>1, LenProperties DEF IfPresent
<1>. HIDE DEF S
<1>4. /\ two \in Seq(S) /\ Len(two) = l + 1
      /\ \A i \in 1..l + 1 : two[i] = IF i <= l THEN IfPresent(n)[i] ELSE <<u>>[i - l]
  BY <1>1, <1>3, ConcatProperties
<1>5. l + 1 \in DOMAIN two
  BY <1>3, <1>4, LenProperties
<1>6. Proceed(one) \/ Proceed(two)
  OBVIOUS
<1>. HIDE DEF one, two, l
<1>7. two[l + 1] = u
  BY <1>3, <1>4
<1>. QED
  BY <1>2, <1>4, <1>5, <1>6, <1>7

LEMMA CreatorsPlace ==
    ASSUME TypeOK, NoneLost,
           ShortLeft \/ IfCond \/ VisitWhileStatement \/ ForBlocks
    PROVE  NoneLost'
<1>1. /\ todo # <<>> /\ Top.do \in {"Visit", "ShortLeft", "IfCond", "ForBlocks"}
      /\ ir \in WellBuilt /\ m_LastValue \in Values
  BY TopType DEF ShortLeft, IfCond, VisitWhileStatement, ForBlocks, Visiting, Resuming,
       Running, TypeOK
<1>2. Top.do \notin Movers
  BY <1>1 DEF Movers
<1>. DEFINE len == Len(ir.blocks)
            bool == ToBool(ir, m_LastValue).ir
            cond == CondBool(ir, m_LastValue).ir
<1>3. /\ Alike(ir, ir) /\ Alike(bool, ir) /\ Alike(cond, ir)
      /\ bool \in WellBuilt /\ cond \in WellBuilt
  BY <1>1, ToBoolAlike, ToBoolType, CondBoolType DEF Alike
<1>. DEFINE Creates(g, n, child, u) ==
         /\ \E branch : ir' = Leave(AddBlocks(g, n), branch, len + 1)
         /\ Proceed(<<Visit(child), u>>) \/ Proceed(IfPresent(child) \o <<u>>)
         /\ errors' = errors /\ crashed' = crashed
<1>4. ASSUME NEW g \in {ir, bool, cond}, NEW n \in Nat, NEW child, NEW u,
             Creates(g, n, child, u), \A j \in 2..n : len + j \in Owed(u)
      PROVE  NoneLost'
  <2>1. PICK branch : ir' = Leave(AddBlocks(g, n), branch, len + 1)
    BY <1>4
  <2>2. PICK S : \E tasks \in Seq(S) : /\ Proceed(tasks)
                                      /\ \E k \in DOMAIN tasks : tasks[k] = u
    BY <1>4, LastTask
  <2>3. PICK tasks \in Seq(S) : Proceed(tasks) /\ \E k \in DOMAIN tasks : tasks[k] = u
    BY <2>2
  <2>4. PICK k \in DOMAIN tasks : tasks[k] = u
    BY <2>3
  <2>5. Alike(g, ir) /\ g \in WellBuilt
    BY <1>1, <1>3, <1>4
  <2>6. Clean' => Clean
    BY <1>4 DEF Clean
  <2>7. \A j \in 2..n : len + j \in Owed(tasks[k])
    BY <1>4, <2>4
  <2>. QED
    BY <1>1, <1>2, <2>1, <2>3, <2>5, <2>6, <2>7, CreateStep
<1>5. CASE ShortLeft
  <2>. DEFINE u == Task("ShortRight", Node, <<>>, <<ir.at, len + 2>>)
  <2>1. \/ Crash
        \/ \E text, subject : Reject(text, subject)
        \/ Creates(bool, 2, Node.right, u)
    BY <1>5 DEF ShortLeft, ThenAt
  <2>2. \A j \in 2..2 : len + j \in Owed(u)
    BY OwedBy
  <2>. HIDE DEF u, Creates
  <2>. QED
    BY <1>4, <2>1, <2>2, CrashPlaces, RejectPlaces
<1>6. CASE IfCond
  <2>. DEFINE u == Task("IfElse", Node, <<>>, <<len + 2, len + 3>>)
  <2>1. \/ \E text, subject : Reject(text, subject)
        \/ Creates(cond, 3, Node.thenBranch, u)
    BY <1>6 DEF IfCond, ThenAt
  <2>2. \A j \in 2..3 : len + j \in Owed(u)
    BY OwedBy
  <2>. HIDE DEF u, Creates
  <2>. QED
    BY <1>4, <2>1, <2>2, RejectPlaces
<1>7. CASE VisitWhileStatement
  <2>. DEFINE u == Task("WhileCond", Node, <<>>, <<len + 1, (len + 1) + 1, (len + 1) + 2>>)
  <2>1. Creates(ir, 3, Node.condition, u)
    BY <1>7 DEF VisitWhileStatement, ThenAt
  <2>2. len \in Nat
    BY <1>1, LenProperties DEF WellBuilt, Functions
  <2>. HIDE DEF len
  <2>3. \A j \in 2..3 : len + j \in Owed(u)
    BY <2>2, OwedBy
  <2>. HIDE DEF u, Creates
  <2>. QED
    BY <1>4, <2>1, <2>3
<1>8. CASE ForBlocks
  <2>. DEFINE cnd == len + 1
              u == Task("ForCond", Node, <<>>, <<cnd, cnd + 1, cnd + 2, cnd + 3>>)
  <2>1. Creates(ir, 4, Node.condition, u)
    BY <1>8 DEF ForBlocks, ThenAt
  <2>2. len \in Nat
    BY <1>1, LenProperties DEF WellBuilt, Functions
  <2>. HIDE DEF len
  <2>3. \A j \in 2..4 : len + j \in Owed(u)
    BY <2>2, OwedBy
  <2>. HIDE DEF u, Creates
  <2>. QED
    BY <1>4, <2>1, <2>3
<1>. QED
  BY <1>5, <1>6, <1>7, <1>8

LEMMA MoversPlace ==
    ASSUME TypeOK, NoneLost,
           \/ ShortRight \/ IfElse \/ IfMerge \/ WhileCond \/ WhileEnd
           \/ ForCond \/ ForUpdate \/ ForEnd
    PROVE  NoneLost'
<1>1. todo # <<>>
  BY DEF ShortRight, IfElse, IfMerge, WhileCond, WhileEnd, ForCond, ForUpdate, ForEnd,
         Resuming, Running
<1>. DEFINE cond == CondBool(ir, m_LastValue).ir
            bool == ToBool(ir, m_LastValue).ir
            Moves(g, b) == \E branch : Alike(ir', Leave(g, branch, b))
            Owes(child, u) ==
              Proceed(<<Visit(child), u>>) \/ Proceed(IfPresent(child) \o <<u>>)
            Same == errors' = errors /\ crashed' = crashed
<1>2. Alike(ir, ir) /\ Alike(bool, ir) /\ Alike(cond, ir)
  BY ToBoolAlike DEF Alike
<1>3. \A g : Alike(g, g)
  BY DEF Alike
<1>4. ASSUME NEW g \in {ir, bool, cond}, NEW b, Moves(g, b), Same, NEW child, NEW u,
             Owes(child, u), \A c \in Owed(Top) : c = b \/ c \in Owed(u)
      PROVE  NoneLost'
  <2>1. PICK S : \E tasks \in Seq(S) : /\ Proceed(tasks)
                                      /\ \E k \in DOMAIN tasks : tasks[k] = u
    BY <1>4, LastTask
  <2>2. PICK tasks \in Seq(S) : Proceed(tasks) /\ \E k \in DOMAIN tasks : tasks[k] = u
    BY <2>1
  <2>3. \A c \in Owed(Top) : c = b \/ \E k \in DOMAIN tasks : c \in Owed(tasks[k])
    BY <1>4, <2>2
  <2>4. Clean' => Clean
    BY <1>4 DEF Clean
  <2>5. PICK branch : Alike(ir', Leave(g, branch, b))
    BY <1>4
  <2>. QED
    BY <1>1, <1>2, <1>4, <2>2, <2>3, <2>4, <2>5, MoveStep
<1>5. ASSUME NEW g \in {ir, bool, cond}, NEW b, Moves(g, b), Same, Finish,
             Owed(Top) \subseteq {b}
      PROVE  NoneLost'
  <2>1. <<>> \in Seq({}) /\ Proceed(<<>>)
    BY <1>5 DEF Finish
  <2>2. Clean' => Clean
    BY <1>5 DEF Clean
  <2>3. PICK branch : Alike(ir', Leave(g, branch, b))
    BY <1>5
  <2>4. \A c \in Owed(Top) : c = b
    BY <1>5
  <2>. QED
    BY <1>1, <1>2, <1>5, <2>1, <2>2, <2>3, <2>4, MoveStep
<1>6. CASE ShortRight
  <2>. DEFINE merge == Top.blks[2]
  <2>1. \/ Crash
        \/ \E text, subject : Reject(text, subject)
        \/ /\ \E branch, phi : ir' = Build(Leave(bool, branch, merge), phi).ir
           /\ Same /\ Finish
    BY <1>6 DEF ShortRight, MergeShort
  <2>2. ASSUME NEW branch, NEW phi, ir' = Build(Leave(bool, branch, merge), phi).ir
        PROVE  Moves(bool, merge)
    BY <2>2, EmitAlike
  <2>3. Owed(Top) \subseteq {merge}
    BY <1>6, OwedByTop DEF ShortRight, Resuming
  <2>. HIDE DEF Moves, merge, bool
  <2>. QED
    BY <1>5, <2>1, <2>2, <2>3, CrashPlaces, RejectPlaces
<1>7. CASE IfElse
  <2>. DEFINE u == Task("IfMerge", Node, <<>>, <<Top.blks[2]>>)
  <2>1. Moves(ir, Top.blks[1]) /\ Same /\ Owes(Node.elseBranch, u)
    BY <1>3, <1>7 DEF IfElse, ThenAt
  <2>2. Owed(Top) = {Top.blks[1], Top.blks[2]} /\ Owed(u) = {Top.blks[2]}
    BY <1>7, OwedByTop, OwedBy DEF IfElse, Resuming
  <2>. HIDE DEF u, Moves, Owes
  <2>. QED
    BY <1>4, <2>1, <2>2
<1>8. CASE IfMerge
  <2>1. Moves(ir, Top.blks[1]) /\ Same /\ Finish
    BY <1>3, <1>8 DEF IfMerge
  <2>2. Owed(Top) = {Top.blks[1]}
    BY <1>8, OwedByTop DEF IfMerge, Resuming
  <2>. HIDE DEF Moves
  <2>. QED
    BY <1>5, <2>1, <2>2
<1>9. CASE WhileCond
  <2>. DEFINE u == Task("WhileEnd", Node, <<>>, Top.blks)
  <2>1. \/ \E text, subject : Reject(text, subject)
        \/ Moves(cond, Top.blks[2]) /\ Same /\ Owes(Node.body, u)
    BY <1>3, <1>9 DEF WhileCond, ThenAt
  <2>2. Top.do = "WhileCond"
    BY <1>9 DEF WhileCond, Resuming
  <2>3. Owed(Top) = {Top.blks[2], Top.blks[3]}
    BY <2>2, OwedByTop
  <2>4. Owed(u) = {Top.blks[3]}
    BY OwedBy
  <2>. HIDE DEF u, Moves, Owes, cond
  <2>. QED
    BY <1>4, <2>1, <2>3, <2>4, RejectPlaces
<1>10. CASE WhileEnd
  <2>1. Moves(ir, Top.blks[3]) /\ Same /\ Finish
    BY <1>3, <1>10 DEF WhileEnd
  <2>2. Owed(Top) = {Top.blks[3]}
    BY <1>10, OwedByTop DEF WhileEnd, Resuming
  <2>. HIDE DEF Moves
  <2>. QED
    BY <1>5, <2>1, <2>2
<1>11. CASE ForCond
  <2>. DEFINE u == Task("ForUpdate", Node, <<>>, Top.blks)
  <2>1. \/ \E text, subject : Reject(text, subject)
        \/ /\ Moves(ir, Top.blks[2]) \/ Moves(cond, Top.blks[2])
           /\ Same /\ Owes(Node.body, u)
    BY <1>3, <1>11 DEF ForCond, ThenAt
  <2>2. Top.do = "ForCond"
    BY <1>11 DEF ForCond, Resuming
  <2>3. Owed(Top) = {Top.blks[2], Top.blks[3], Top.blks[4]}
    BY <2>2, OwedByTop
  <2>4. Owed(u) = {Top.blks[3], Top.blks[4]}
    BY OwedBy
  <2>. HIDE DEF u, Moves, Owes, cond
  <2>. QED
    BY <1>4, <2>1, <2>3, <2>4, RejectPlaces
<1>12. CASE ForUpdate
  <2>. DEFINE u == Task("ForEnd", Node, <<>>, Top.blks)
  <2>1. Moves(ir, Top.blks[3]) /\ Same /\ Owes(Node.update, u)
    BY <1>3, <1>12 DEF ForUpdate, ThenAt
  <2>2. Owed(Top) = {Top.blks[3], Top.blks[4]} /\ Owed(u) = {Top.blks[4]}
    BY <1>12, OwedByTop, OwedBy DEF ForUpdate, Resuming
  <2>. HIDE DEF u, Moves, Owes
  <2>. QED
    BY <1>4, <2>1, <2>2
<1>13. CASE ForEnd
  <2>1. Moves(ir, Top.blks[4]) /\ Same /\ Finish
    BY <1>3, <1>13 DEF ForEnd
  <2>2. Owed(Top) = {Top.blks[4]}
    BY <1>13, OwedByTop DEF ForEnd, Resuming
  <2>. HIDE DEF Moves
  <2>. QED
    BY <1>5, <2>1, <2>2
<1>. QED
  BY <1>6, <1>7, <1>8, <1>9, <1>10, <1>11, <1>12, <1>13

\* A function starts with an entry block that is in place; when its body is over
\* nothing is owed.
LEMMA DeclarationsPlace ==
    ASSUME NoneLost, Declarations
    PROVE  NoneLost'
<1>1. CASE VisitInterfaceDecl \/ VisitStructDecl
  <2>1. UNCHANGED <<ir, todo, errors, crashed>>
    BY <1>1 DEF VisitInterfaceDecl, VisitStructDecl
  <2>. QED
    BY <2>1 DEF NoneLost, Clean
<1>2. CASE VisitFunctionDecl
  <2>. DEFINE entry == Block(TRUE, <<>>)
  <2>1. ir'.blocks = <<entry>>
    BY <1>2 DEF VisitFunctionDecl, NewFunction, Func
  <2>2. entry.placed
    BY DEF Block
  <2>. HIDE DEF entry
  <2>3. \A b \in DOMAIN ir'.blocks : ir'.blocks[b].placed
    BY <2>1, <2>2
  <2>. QED
    BY <2>3 DEF NoneLost
<1>3. CASE EndFunctionDecl
  <2>1. /\ todo = <<>> /\ (Clean' => Clean)
        /\ ir' = ir \/ ir' = Emit(ir, RetVoid)
    BY <1>3 DEF EndFunctionDecl, Between, Clean, CheckUnusedVariables
  <2>2. Alike(ir', ir)
    BY <2>1, EmitAlike DEF Alike
  <2>3. DOMAIN todo = {}
    BY <2>1
  <2>4. Clean' => \A b \in DOMAIN ir'.blocks : ir'.blocks[b].placed
    BY <2>1, <2>2, <2>3 DEF NoneLost, Alike
  <2>. QED
    BY <2>4 DEF NoneLost
<1>. QED
  BY <1>1, <1>2, <1>3 DEF Declarations

(***************************************************************************)
(* The theorem.                                                            *)
(***************************************************************************)
\* When a body has been visited without an error, every block that its ifs,
\* loops and short-circuit operators created is in the function, however they
\* nest: no branch leads to a block that LLVM will never see.
THEOREM BlocksArePlaced == Spec => []BlocksPlaced
<1>. DEFINE IInv == TypeOK /\ NoneLost
<1>1. Init => IInv
  <2>1. Init => NoneLost
    <3>1. Init => ir = NoFunction
      BY DEF Init
    <3>2. NoFunction.blocks = <<>>
      BY DEF NoFunction, Func
    <3>3. ir.blocks = <<>> => DOMAIN ir.blocks = {}
      OBVIOUS
    <3>. QED
      BY <3>1, <3>2, <3>3 DEF NoneLost
  <2>. QED
    BY <2>1, InitTypes
<1>2. IInv /\ [Next]_vars => IInv'
  <2>. SUFFICES ASSUME TypeOK, NoneLost, [Next]_vars
                PROVE  TypeOK' /\ NoneLost'
    OBVIOUS
  <2>1. TypeOK'
    BY NextTypes, StutterTypes
  <2>2. CASE Expressions
    BY <2>1, <2>2, VisitsPlace, ListsPlace, EmittersPlace, CreatorsPlace, MoversPlace
       DEF Expressions
  <2>3. CASE Statements
    <3>1. VisitNull => Crash
      BY DEF VisitNull
    <3>. QED
      BY <2>1, <2>3, <3>1, CrashPlaces, VisitsPlace, ListsPlace, EmittersPlace,
         CreatorsPlace, MoversPlace DEF Statements
  <2>4. CASE Declarations
    BY <2>1, <2>4, DeclarationsPlace
  <2>5. CASE UNCHANGED vars
    <3>1. UNCHANGED <<ir, todo, errors, crashed>>
      BY <2>5 DEF vars
    <3>. QED
      BY <2>1, <3>1 DEF NoneLost, Clean
  <2>. QED
    BY <2>2, <2>3, <2>4, <2>5 DEF Next
<1>3. IInv => BlocksPlaced
  <2>1. todo = <<>> => DOMAIN todo = {}
    OBVIOUS
  <2>. QED
    BY <2>1 DEF NoneLost, BlocksPlaced
<1>. QED
  BY <1>1, <1>2, <1>3, PTL DEF Spec

(***************************************************************************)
(* The phis of the short-circuit operators: each names exactly the blocks  *)
(* that branch to its own.  When the phi is built its handler knows two of *)
(* them.  That there is no other, and never will be, depends on every      *)
(* handler that is under way: none of them may still aim a branch at a     *)
(* merge block that is not its own.                                        *)
(***************************************************************************)
\* The blocks that the rest of a handler may still branch to.
Aims(t) == IF t.do = "ShortRight" THEN {t.blks[2]} ELSE ToSet(t.blks)

\* The sets of blocks that the phis of a block name.
Merges(g, b) ==
    LET code == g.blocks[b].code
    IN  {ToSet(code[k].to) : k \in {j \in DOMAIN code : code[j].op = "phi"}}

\* No branch leads to a block that does not exist yet.
Known == \A p \in DOMAIN ir.blocks : Successors(ir, p) \subseteq DOMAIN ir.blocks

\* While a right operand is visited its merge block is reached from the left
\* operand only, and no other handler under way aims at it.
Waiting ==
    \A k \in DOMAIN todo :
        todo[k].do = "ShortRight" =>
            /\ Predecessors(ir, todo[k].blks[2]) = {todo[k].blks[1]}
            /\ \A j \in DOMAIN todo \ {k} : todo[k].blks[2] \notin Aims(todo[j])

\* A phi names the predecessors of its block, and nobody aims at the block.
Joined ==
    \A b \in DOMAIN ir.blocks : \A from \in Merges(ir, b) :
        /\ from = Predecessors(ir, b)
        /\ \A k \in DOMAIN todo : b \notin Aims(todo[k])

JoinsKept == Known /\ Waiting /\ Joined

(***************************************************************************)
(* What the builder does to branches and phis.                             *)
(***************************************************************************)
Branching == {"br", "condbr"}

LEMMA Read ==
    ASSUME NEW g, NEW b
    PROVE  /\ \A p : p \in Predecessors(g, b) <=>
                 /\ p \in DOMAIN g.blocks
                 /\ \E k \in DOMAIN g.blocks[p].code :
                       /\ g.blocks[p].code[k].op \in Branching
                       /\ b \in ToSet(g.blocks[p].code[k].to)
           /\ \A p : b \in Successors(g, p) <=>
                 \E k \in DOMAIN g.blocks[p].code :
                       /\ g.blocks[p].code[k].op \in Branching
                       /\ b \in ToSet(g.blocks[p].code[k].to)
           /\ \A from : from \in Merges(g, b) <=>
                 \E k \in DOMAIN g.blocks[b].code :
                       /\ g.blocks[b].code[k].op = "phi"
                       /\ from = ToSet(g.blocks[b].code[k].to)
BY DEF Predecessors, Successors, Merges, Branching

\* Reading the same code gives the same answers.
LEMMA SameCode ==
    ASSUME NEW g, NEW h, DOMAIN h.blocks = DOMAIN g.blocks,
           \A b \in DOMAIN g.blocks : h.blocks[b].code = g.blocks[b].code
    PROVE  /\ \A b : Predecessors(h, b) = Predecessors(g, b)
           /\ \A b \in DOMAIN g.blocks : Merges(h, b) = Merges(g, b)
<1>1. ASSUME NEW b PROVE Predecessors(h, b) = Predecessors(g, b)
  <2>1. ASSUME NEW p PROVE p \in Predecessors(h, b) <=> p \in Predecessors(g, b)
    BY Read
  <2>. QED
    BY <2>1
<1>2. ASSUME NEW b \in DOMAIN g.blocks PROVE Merges(h, b) = Merges(g, b)
  BY DEF Merges
<1>. QED
  BY <1>1, <1>2

\* A function whose blocks hold sequences, with an insert point.
Built(g) ==
    /\ g.at \in DOMAIN g.blocks
    /\ \E S : \A b \in DOMAIN g.blocks : g.blocks[b].code \in Seq(S)

LEMMA WellBuiltIsBuilt ==
    ASSUME NEW g \in WellBuilt
    PROVE  Built(g)
<1>1. g.blocks \in Seq(Blocks) /\ g.at \in DOMAIN g.blocks
  BY DEF WellBuilt, Functions, Blocks
<1>2. \A b \in DOMAIN g.blocks : g.blocks[b] \in Blocks
  BY <1>1
<1>3. \A b \in DOMAIN g.blocks : g.blocks[b].code \in Seq(Instructions)
  BY <1>2 DEF Blocks
<1>. QED
  BY <1>1, <1>3 DEF Built

\* An instruction is added to the block of the insert point, and a branch adds
\* that block to the predecessors of those it leads to.
LEMMA EmitEffect ==
    ASSUME NEW g, Built(g), NEW inst
    PROVE  /\ Built(Emit(g, inst))
           /\ Emit(g, inst).at = g.at
           /\ DOMAIN Emit(g, inst).blocks = DOMAIN g.blocks
           /\ \A b : Predecessors(Emit(g, inst), b) =
                 Predecessors(g, b) \cup
                    (IF inst.op \in Branching /\ b \in ToSet(inst.to) THEN {g.at} ELSE {})
           /\ \A b \in DOMAIN g.blocks : Merges(Emit(g, inst), b) =
                 Merges(g, b) \cup
                    (IF inst.op = "phi" /\ b = g.at THEN {ToSet(inst.to)} ELSE {})
<1>. DEFINE h == Emit(g, inst)
            here == g.blocks[g.at]
            longer == Block(here.placed, Append(here.code, inst))
            blocks == [g.blocks EXCEPT ![g.at] = longer]
            old == here.code
            new == Append(old, inst)
            n == Len(old) + 1
<1>1. PICK S : \A b \in DOMAIN g.blocks : g.blocks[b].code \in Seq(S)
  BY DEF Built
<1>2. g.at \in DOMAIN g.blocks
  BY DEF Built
<1>3. h = Func(g.fn, blocks, g.at)
  BY DEF Emit
<1>4. h.blocks = blocks /\ h.at = g.at
  BY <1>3 DEF Func
<1>5. longer.code = new
  BY DEF Block
<1>. HIDE DEF longer
<1>6. /\ DOMAIN h.blocks = DOMAIN g.blocks
      /\ h.blocks[g.at].code = new
      /\ \A b \in DOMAIN g.blocks : b # g.at => h.blocks[b] = g.blocks[b]
  BY <1>2, <1>4, <1>5
<1>7. old \in Seq(S) /\ S \subseteq S \cup {inst}
  BY <1>1, <1>2
<1>. HIDE DEF old, h, blocks
<1>8. old \in Seq(S \cup {inst}) /\ inst \in S \cup {inst}
  BY <1>7, SeqMonotonic
<1>9. /\ new \in Seq(S \cup {inst}) /\ Len(new) = n /\ Len(old) \in Nat
      /\ \A k \in 1..Len(old) : new[k] = old[k]
      /\ new[n] = inst
  BY <1>8, AppendProperties, LenProperties
<1>10. DOMAIN old = 1..Len(old) /\ DOMAIN new = 1..n
  BY <1>8, <1>9, LenProperties
<1>11. /\ DOMAIN new = DOMAIN old \cup {n}
       /\ \A k \in DOMAIN old : new[k] = old[k]
       /\ new[n] = inst
  BY <1>9, <1>10
<1>12. Built(h)
  <2>1. ASSUME NEW b \in DOMAIN h.blocks PROVE h.blocks[b].code \in Seq(S \cup {inst})
    <3>1. CASE b = g.at
      BY <1>6, <1>9, <3>1
    <3>2. CASE b # g.at
      <4>1. h.blocks[b].code \in Seq(S)
        BY <1>1, <1>6, <3>2, <2>1
      <4>. QED
        BY <4>1, <1>7, SeqMonotonic
    <3>. QED
      BY <3>1, <3>2
  <2>. QED
    BY <1>2, <1>4, <1>6, <2>1 DEF Built
<1>. HIDE DEF new, n
<1>13. here.code = old
  BY DEF old
<1>14. ASSUME NEW b
       PROVE  Predecessors(h, b) =
                 Predecessors(g, b) \cup
                    (IF inst.op \in Branching /\ b \in ToSet(inst.to) THEN {g.at} ELSE {})
  <2>1. ASSUME NEW p, p # g.at
        PROVE  p \in Predecessors(h, b) <=> p \in Predecessors(g, b)
    BY <1>6, <2>1, Read
  <2>2. g.at \in Predecessors(h, b) <=>
           \/ g.at \in Predecessors(g, b)
           \/ inst.op \in Branching /\ b \in ToSet(inst.to)
    BY <1>2, <1>6, <1>11, <1>13, Read
  <2>. QED
    BY <2>1, <2>2
<1>15. ASSUME NEW b \in DOMAIN g.blocks
       PROVE  Merges(h, b) =
                 Merges(g, b) \cup
                    (IF inst.op = "phi" /\ b = g.at THEN {ToSet(inst.to)} ELSE {})
  <2>1. CASE b # g.at
    BY <1>6, <2>1 DEF Merges
  <2>2. CASE b = g.at
    <3>1. \A from : from \in Merges(h, b) <=>
              \/ from \in Merges(g, b)
              \/ inst.op = "phi" /\ from = ToSet(inst.to)
      BY <1>6, <1>11, <1>13, <2>2, Read
    <3>. QED
      BY <2>2, <3>1
  <2>. QED
    BY <2>1, <2>2
<1>. QED
  BY <1>4, <1>6, <1>12, <1>14, <1>15 DEF h

\* Entering a block moves the insert point and nothing else.
LEMMA EnterEffect ==
    ASSUME NEW g, Built(g), NEW b \in DOMAIN g.blocks
    PROVE  /\ Built(Enter(g, b))
           /\ Enter(g, b).at = b
           /\ DOMAIN Enter(g, b).blocks = DOMAIN g.blocks
           /\ \A c : Predecessors(Enter(g, b), c) = Predecessors(g, c)
           /\ \A c \in DOMAIN g.blocks : Merges(Enter(g, b), c) = Merges(g, c)
<1>. DEFINE h == Enter(g, b)
            entered == Block(TRUE, g.blocks[b].code)
            blocks == [g.blocks EXCEPT ![b] = entered]
<1>1. h.blocks = blocks /\ h.at = b
  BY DEF Enter, Func
<1>2. entered.code = g.blocks[b].code
  BY DEF Block
<1>. HIDE DEF entered, h
<1>3. /\ DOMAIN h.blocks = DOMAIN g.blocks
      /\ \A c \in DOMAIN g.blocks : h.blocks[c].code = g.blocks[c].code
  BY <1>1, <1>2
<1>4. Built(h)
  BY <1>1, <1>3 DEF Built
<1>. QED
  BY <1>1, <1>3, <1>4, SameCode DEF h

\* A new block is empty: nothing leads out of it.
LEMMA AddBlocksEffect ==
    ASSUME NEW g \in WellBuilt, NEW n \in Nat
    PROVE  /\ Built(AddBlocks(g, n))
           /\ AddBlocks(g, n).at = g.at
           /\ DOMAIN g.blocks = 1..Len(g.blocks) /\ Len(g.blocks) \in Nat
           /\ DOMAIN AddBlocks(g, n).blocks = 1..Len(g.blocks) + n
           /\ \A b : Predecessors(AddBlocks(g, n), b) = Predecessors(g, b)
           /\ \A b \in DOMAIN g.blocks : Merges(AddBlocks(g, n), b) = Merges(g, b)
           /\ \A b \in DOMAIN AddBlocks(g, n).blocks \ DOMAIN g.blocks :
                 Merges(AddBlocks(g, n), b) = {}
<1>. DEFINE h == AddBlocks(g, n)
            empty == Block(FALSE, <<>>)
            new == [k \in 1..n |-> empty]
            blocks == g.blocks \o new
<1>1. g.blocks \in Seq(Blocks) /\ Len(g.blocks) \in Nat
      /\ DOMAIN g.blocks = 1..Len(g.blocks)
  BY LenProperties DEF WellBuilt, Functions, Blocks
<1>2. empty \in Blocks /\ empty.code = <<>>
  BY DEF Blocks, Block
<1>3. h \in WellBuilt /\ h.at = g.at
  BY AddBlocksType
<1>4. h.blocks = blocks
  BY DEF AddBlocks, Func
<1>. HIDE DEF empty
<1>5. new \in Seq(Blocks) /\ \A k \in 1..n : new[k] = empty
  BY <1>2
<1>6. Len(new) = n
  BY <1>5, LenProperties
<1>. HIDE DEF new
<1>7. /\ blocks \in Seq(Blocks) /\ Len(blocks) = Len(g.blocks) + n
      /\ \A b \in 1..Len(g.blocks) + n :
            blocks[b] = IF b <= Len(g.blocks) THEN g.blocks[b]
                        ELSE new[b - Len(g.blocks)]
  BY <1>1, <1>5, <1>6, ConcatProperties
<1>8. DOMAIN h.blocks = 1..Len(g.blocks) + n
  BY <1>4, <1>7, LenProperties
<1>. HIDE DEF blocks, h
<1>9. \A b \in DOMAIN g.blocks : b \in DOMAIN h.blocks /\ h.blocks[b] = g.blocks[b]
  BY <1>1, <1>4, <1>7, <1>8
<1>10. \A b \in DOMAIN h.blocks \ DOMAIN g.blocks : h.blocks[b].code = <<>>
  <2>1. ASSUME NEW b \in DOMAIN h.blocks, b \notin DOMAIN g.blocks
        PROVE  h.blocks[b] = empty
    <3>1. b - Len(g.blocks) \in 1..n /\ ~(b <= Len(g.blocks)) /\ b \in 1..Len(g.blocks) + n
      BY <1>1, <1>8, <2>1
    <3>. QED
      BY <1>4, <1>5, <1>7, <3>1
  <2>. QED
    BY <1>2, <2>1
<1>11. \A b : Predecessors(h, b) = Predecessors(g, b)
  <2>1. ASSUME NEW b, NEW p PROVE p \in Predecessors(h, b) <=> p \in Predecessors(g, b)
    <3>1. CASE p \in DOMAIN g.blocks
      BY <1>9, <3>1, Read
    <3>2. CASE p \in DOMAIN h.blocks \ DOMAIN g.blocks
      <4>1. DOMAIN h.blocks[p].code = {}
        BY <1>10, <3>2
      <4>. QED
        BY <3>2, <4>1, Read
    <3>3. CASE p \notin DOMAIN h.blocks
      BY <1>9, <3>3, Read
    <3>. QED
      BY <3>1, <3>2, <3>3
  <2>2. ASSUME NEW b PROVE Predecessors(h, b) = Predecessors(g, b)
    BY <2>1
  <2>. QED
    BY <2>2
<1>12. \A b \in DOMAIN g.blocks : Merges(h, b) = Merges(g, b)
  BY <1>9 DEF Merges
<1>13. ASSUME NEW b \in DOMAIN h.blocks, b \notin DOMAIN g.blocks
       PROVE  Merges(h, b) = {}
  <2>1. DOMAIN h.blocks[b].code = {}
    BY <1>10, <1>13
  <2>. QED
    BY <2>1, Read
<1>14. Built(h)
  BY <1>3, WellBuiltIsBuilt
<1>. QED
  BY <1>1, <1>3, <1>8, <1>11, <1>12, <1>13, <1>14 DEF h

\* Leaving a block branches from it.
LEMMA LeaveEffect ==
    ASSUME NEW g, Built(g), NEW branch, branch.op # "phi", NEW b \in DOMAIN g.blocks
    PROVE  /\ Built(Leave(g, branch, b))
           /\ DOMAIN Leave(g, branch, b).blocks = DOMAIN g.blocks
           /\ \A c : Predecessors(Leave(g, branch, b), c) =
                 Predecessors(g, c) \cup
                    (IF branch.op \in Branching /\ c \in ToSet(branch.to) THEN {g.at} ELSE {})
           /\ \A c \in DOMAIN g.blocks : Merges(Leave(g, branch, b), c) = Merges(g, c)
           /\ Leave(g, branch, b).at = b
<1>. DEFINE h == Emit(g, branch)
<1>1. /\ Built(h) /\ DOMAIN h.blocks = DOMAIN g.blocks
      /\ \A c : Predecessors(h, c) =
            Predecessors(g, c) \cup
               (IF branch.op \in Branching /\ c \in ToSet(branch.to) THEN {g.at} ELSE {})
      /\ \A c \in DOMAIN g.blocks : Merges(h, c) = Merges(g, c)
  <2>1. ASSUME NEW c \in DOMAIN g.blocks PROVE Merges(h, c) = Merges(g, c)
    <3>1. Merges(h, c) =
             Merges(g, c) \cup
                (IF branch.op = "phi" /\ c = g.at THEN {ToSet(branch.to)} ELSE {})
      BY EmitEffect
    <3>. HIDE DEF h
    <3>. QED
      BY <3>1
  <2>2. /\ Built(h) /\ DOMAIN h.blocks = DOMAIN g.blocks
        /\ \A c : Predecessors(h, c) =
              Predecessors(g, c) \cup
                 (IF branch.op \in Branching /\ c \in ToSet(branch.to) THEN {g.at} ELSE {})
    BY EmitEffect
  <2>. HIDE DEF h
  <2>. QED
    BY <2>1, <2>2
<1>2. Leave(g, branch, b) = Enter(h, b)
  BY DEF Leave
<1>. HIDE DEF h
<1>. QED
  BY <1>1, <1>2, EnterEffect

LEMMA Branches ==
    ASSUME NEW v, NEW b, NEW c
    PROVE  /\ Br(b).op \in Branching /\ Br(b).op # "phi" /\ ToSet(Br(b).to) = {b}
           /\ CondBr(v, b, c).op \in Branching /\ CondBr(v, b, c).op # "phi"
           /\ ToSet(CondBr(v, b, c).to) = {b, c}
<1>1. Br(b).op = "br" /\ Br(b).to = <<b>>
  BY DEF Br, Inst
<1>2. CondBr(v, b, c).op = "condbr" /\ CondBr(v, b, c).to = <<b, c>>
  BY DEF CondBr, Inst
<1>3. ToSet(<<b>>) = {b} /\ ToSet(<<b, c>>) = {b, c}
  BY DEF ToSet
<1>. QED
  BY <1>1, <1>2, <1>3 DEF Branching

\* The same branches and phis, and the same insert point.
Straight(h, g) ==
    /\ Built(h) /\ h.at = g.at /\ DOMAIN h.blocks = DOMAIN g.blocks
    /\ \A b : Predecessors(h, b) = Predecessors(g, b)
    /\ \A b \in DOMAIN g.blocks : Merges(h, b) = Merges(g, b)

Ordinary(inst) == inst.op \notin Branching /\ inst.op # "phi"

LEMMA EmitStraight ==
    ASSUME NEW f, NEW g, Straight(g, f), NEW inst, Ordinary(inst)
    PROVE  Straight(Emit(g, inst), f) /\ Straight(Build(g, inst).ir, f)
<1>. DEFINE h == Emit(g, inst)
<1>1. Built(g) /\ inst.op \notin Branching /\ inst.op # "phi"
  BY DEF Straight, Ordinary
<1>2. /\ Built(h) /\ h.at = g.at /\ DOMAIN h.blocks = DOMAIN g.blocks
      /\ \A b : Predecessors(h, b) =
            Predecessors(g, b) \cup
               (IF inst.op \in Branching /\ b \in ToSet(inst.to) THEN {g.at} ELSE {})
      /\ \A b \in DOMAIN g.blocks : Merges(h, b) =
            Merges(g, b) \cup
               (IF inst.op = "phi" /\ b = g.at THEN {ToSet(inst.to)} ELSE {})
  BY <1>1, EmitEffect
<1>. HIDE DEF h
<1>3. /\ \A b : Predecessors(h, b) = Predecessors(g, b)
      /\ \A b \in DOMAIN g.blocks : Merges(h, b) = Merges(g, b)
  BY <1>1, <1>2
<1>4. Straight(h, f)
  BY <1>2, <1>3 DEF Straight
<1>. QED
  BY <1>4 DEF Build, h

\* None of the instructions that handlers compute, load and store with is one.
LEMMA OrdinaryInstructions ==
    /\ \A type : Ordinary(Alloca(type))
    /\ \A type, v : Ordinary(Load(type, v))
    /\ \A v, w : Ordinary(Store(v, w))
    /\ \A v : Ordinary(Ret(v))
    /\ \A op, type, args :
          op \in BinaryOperators \cup {"icmp.ne", "add", "sub", "xor", "not"} =>
             Ordinary(Compute(op, type, args))
    /\ \A op, type, elem, args, to :
          op \in {"call", "gep"} => Ordinary(Inst(op, type, elem, args, to))
<1>1. \A op, type, elem, args, to : Inst(op, type, elem, args, to).op = op
  BY DEF Inst
<1>2. \A op \in {"alloca", "load", "store", "ret", "call", "gep"} :
          op \notin Branching /\ op # "phi"
  BY DEF Branching
<1>3. \A op \in BinaryOperators \cup {"icmp.ne", "add", "sub", "xor", "not"} :
          op \notin Branching /\ op # "phi"
  BY DEF Branching, BinaryOperators
<1>. QED
  BY <1>1, <1>2, <1>3 DEF Ordinary, Alloca, Load, Store, Ret, Compute

LEMMA ToBoolStraight ==
    ASSUME NEW f, NEW g, Straight(g, f), NEW v
    PROVE  Straight(ToBool(g, v).ir, f) /\ Straight(CondBool(g, v).ir, f)
<1>1. \A type, args : Ordinary(Compute("icmp.ne", type, args))
  BY OrdinaryInstructions
<1>. QED
  BY <1>1, EmitStraight DEF ToBool, CondBool

LEMMA StraightSelf ==
    ASSUME TypeOK, todo # <<>>
    PROVE  Straight(ir, ir) /\ ir \in WellBuilt
BY WellBuiltIsBuilt, TopType DEF Straight

(***************************************************************************)
(* Steps.                                                                  *)
(***************************************************************************)
\* What a waiting task aims at exists.
LEMMA AimsExist ==
    ASSUME TypeOK, NEW k \in DOMAIN todo
    PROVE  /\ Aims(todo[k]) \subseteq DOMAIN ir.blocks
           /\ todo[k].do = "ShortRight" => todo[k].blks[2] \in DOMAIN ir.blocks
<1>1. todo[k] \in TasksIn(ir)
  BY DEF TypeOK
<1>2. todo[k].blks \in Seq(DOMAIN ir.blocks)
      /\ (todo[k].do = "ShortRight" => Len(todo[k].blks) = 2)
  BY <1>1 DEF TasksIn, OwnLocals
<1>3. \A i \in DOMAIN todo[k].blks : todo[k].blks[i] \in DOMAIN ir.blocks
  BY <1>2
<1>4. todo[k].do = "ShortRight" => 2 \in DOMAIN todo[k].blks
  BY <1>2, LenProperties
<1>. QED
  BY <1>3, <1>4 DEF Aims, ToSet

\* In general: the current task branches to blocks it aimed at or has created,
\* hands such blocks on, and adds no phi but that of its own merge block.
Loose(b) == b \in Aims(Top) \/ b \notin DOMAIN ir.blocks

LEMMA JoinStep ==
    ASSUME TypeOK, JoinsKept, todo # <<>>, NEW T, \A b \in T : Loose(b),
           T \subseteq DOMAIN ir'.blocks, DOMAIN ir.blocks \subseteq DOMAIN ir'.blocks,
           \A b : b \notin T => Predecessors(ir', b) = Predecessors(ir, b),
           NEW S, NEW tasks \in Seq(S), Proceed(tasks),
           \A k \in DOMAIN tasks : \A b \in Aims(tasks[k]) : Loose(b),
           \A k \in DOMAIN tasks :
              tasks[k].do = "ShortRight" =>
                 /\ tasks[k].blks[2] \notin DOMAIN ir.blocks
                 /\ Predecessors(ir', tasks[k].blks[2]) = {tasks[k].blks[1]}
                 /\ \A j \in DOMAIN tasks \ {k} : tasks[k].blks[2] \notin Aims(tasks[j]),
           \A b \in DOMAIN ir'.blocks : \A from \in Merges(ir', b) :
              \/ b \in DOMAIN ir.blocks /\ from \in Merges(ir, b)
              \/ /\ Top.do = "ShortRight" /\ b = Top.blks[2] /\ DOMAIN tasks = {}
                 /\ from = Predecessors(ir', b)
    PROVE  JoinsKept'
<1>. DEFINE new == DOMAIN tasks
            rest == DOMAIN todo' \ new
<1>1. /\ 1 \in DOMAIN todo /\ Top = todo[1]
      /\ new \subseteq DOMAIN todo'
      /\ \A k \in new : todo'[k] = tasks[k]
      /\ \A k \in rest : /\ Was(k, tasks) \in DOMAIN todo /\ Was(k, tasks) # 1
                         /\ todo'[k] = todo[Was(k, tasks)]
      /\ \A j, k \in rest : j # k => Was(j, tasks) # Was(k, tasks)
  BY Agenda
<1>4. /\ Known /\ Waiting /\ Joined
      /\ \A k \in DOMAIN todo : Aims(todo[k]) \subseteq DOMAIN ir.blocks
      /\ \A k \in DOMAIN todo :
            todo[k].do = "ShortRight" => todo[k].blks[2] \in DOMAIN ir.blocks
  BY AimsExist DEF JoinsKept
<1>. HIDE DEF new, rest
\* Branches lead to blocks that exist.
<1>5. Known'
  <2>1. ASSUME NEW p \in DOMAIN ir'.blocks, NEW b \in Successors(ir', p)
        PROVE  b \in DOMAIN ir'.blocks
    <3>1. p \in Predecessors(ir', b)
      BY <2>1 DEF Predecessors
    <3>2. CASE b \in T
      BY <3>2
    <3>3. CASE b \notin T
      <4>1. p \in Predecessors(ir, b)
        BY <3>1, <3>3
      <4>2. p \in DOMAIN ir.blocks /\ b \in Successors(ir, p)
        BY <4>1 DEF Predecessors
      <4>. QED
        BY <1>4, <4>2 DEF Known
    <3>. QED
      BY <3>2, <3>3
  <2>. QED
    BY <2>1 DEF Known
\* The tasks that waited keep their merge blocks to themselves.
<1>6. ASSUME NEW k \in rest, todo'[k].do = "ShortRight"
      PROVE  /\ Predecessors(ir', todo'[k].blks[2]) = {todo'[k].blks[1]}
             /\ \A j \in DOMAIN todo' \ {k} : todo'[k].blks[2] \notin Aims(todo'[j])
  <2>. DEFINE i == Was(k, tasks)
              b == todo[i].blks[2]
  <2>1. i \in DOMAIN todo /\ i # 1 /\ todo'[k] = todo[i] /\ todo[i].do = "ShortRight"
    BY <1>1, <1>6
  <2>. HIDE DEF i
  <2>2. /\ Predecessors(ir, b) = {todo[i].blks[1]}
        /\ \A j \in DOMAIN todo \ {i} : b \notin Aims(todo[j])
        /\ b \in DOMAIN ir.blocks
    BY <1>4, <2>1 DEF Waiting
  <2>3. ~Loose(b)
    BY <1>1, <2>1, <2>2 DEF Loose
  <2>4. Predecessors(ir', b) = {todo[i].blks[1]}
    BY <2>2, <2>3
  <2>5. ASSUME NEW j \in DOMAIN todo', j # k PROVE b \notin Aims(todo'[j])
    <3>1. CASE j \in new
      BY <1>1, <2>3, <3>1 DEF new
    <3>2. CASE j \in rest
      <4>1. Was(j, tasks) # i /\ Was(j, tasks) \in DOMAIN todo /\ todo'[j] = todo[Was(j, tasks)]
        BY <1>1, <1>6, <2>5, <3>2 DEF i
      <4>. QED
        BY <2>2, <4>1
    <3>. QED
      BY <2>5, <3>1, <3>2 DEF rest
  <2>. QED
    BY <2>1, <2>4, <2>5
\* So does a new one.
<1>7. ASSUME NEW k \in new, todo'[k].do = "ShortRight"
      PROVE  /\ Predecessors(ir', todo'[k].blks[2]) = {todo'[k].blks[1]}
             /\ \A j \in DOMAIN todo' \ {k} : todo'[k].blks[2] \notin Aims(todo'[j])
  <2>1. todo'[k] = tasks[k] /\ k \in DOMAIN tasks
    BY <1>1, <1>7 DEF new
  <2>2. /\ tasks[k].blks[2] \notin DOMAIN ir.blocks
        /\ Predecessors(ir', tasks[k].blks[2]) = {tasks[k].blks[1]}
        /\ \A j \in DOMAIN tasks \ {k} : tasks[k].blks[2] \notin Aims(tasks[j])
    BY <1>7, <2>1
  <2>3. ASSUME NEW j \in DOMAIN todo', j # k PROVE tasks[k].blks[2] \notin Aims(todo'[j])
    <3>1. CASE j \in new
      BY <1>1, <2>2, <2>3, <3>1 DEF new
    <3>2. CASE j \in rest
      BY <1>1, <1>4, <2>2, <3>2
    <3>. QED
      BY <2>3, <3>1, <3>2 DEF rest
  <2>. QED
    BY <2>1, <2>2, <2>3
<1>8. Waiting'
  BY <1>6, <1>7 DEF Waiting, rest
\* The phis that were there keep their blocks to themselves.
<1>9. ASSUME NEW b \in DOMAIN ir.blocks, NEW from \in Merges(ir, b)
      PROVE  /\ from = Predecessors(ir', b)
             /\ \A k \in DOMAIN todo' : b \notin Aims(todo'[k])
  <2>1. /\ from = Predecessors(ir, b)
        /\ \A k \in DOMAIN todo : b \notin Aims(todo[k])
    BY <1>4, <1>9 DEF Joined
  <2>2. ~Loose(b)
    BY <1>1, <2>1 DEF Loose
  <2>3. from = Predecessors(ir', b)
    BY <2>1, <2>2
  <2>4. ASSUME NEW k \in DOMAIN todo' PROVE b \notin Aims(todo'[k])
    <3>1. CASE k \in new
      BY <1>1, <2>2, <3>1 DEF new
    <3>2. CASE k \in rest
      BY <1>1, <2>1, <3>2
    <3>. QED
      BY <3>1, <3>2 DEF rest
  <2>. QED
    BY <2>3, <2>4
\* So does a new one, whose handler was the only one to aim at its block.
<1>10. ASSUME Top.do = "ShortRight", new = {}
       PROVE  \A k \in DOMAIN todo' : Top.blks[2] \notin Aims(todo'[k])
  <2>1. \A j \in DOMAIN todo \ {1} : Top.blks[2] \notin Aims(todo[j])
    BY <1>1, <1>4, <1>10 DEF Waiting
  <2>. QED
    BY <1>1, <1>10, <2>1 DEF rest
<1>11. Joined'
  BY <1>9, <1>10 DEF Joined, new
<1>. QED
  BY <1>5, <1>8, <1>11 DEF JoinsKept

\* Tasks that hold no block aim at none.
LEMMA Aimless ==
    ASSUME NEW t, t.blks = <<>>, t.do # "ShortRight"
    PROVE  Aims(t) = {}
BY DEF Aims, ToSet

\* Nothing is branched to or joined.
LEMMA StraightStep ==
    ASSUME TypeOK, JoinsKept, todo # <<>>, Straight(ir', ir),
           NEW S, NEW tasks \in Seq(S), Proceed(tasks),
           \A k \in DOMAIN tasks : tasks[k].blks = <<>> /\ tasks[k].do # "ShortRight"
    PROVE  JoinsKept'
<1>1. /\ DOMAIN ir'.blocks = DOMAIN ir.blocks
      /\ \A b : Predecessors(ir', b) = Predecessors(ir, b)
      /\ \A b \in DOMAIN ir.blocks : Merges(ir', b) = Merges(ir, b)
  BY DEF Straight
<1>2. \A k \in DOMAIN tasks : Aims(tasks[k]) = {}
  BY Aimless
<1>. DEFINE T == {}
<1>3. \A b \in T : Loose(b)
  OBVIOUS
<1>4. T \subseteq DOMAIN ir'.blocks
  OBVIOUS
<1>5. \A k \in DOMAIN tasks : \A b \in Aims(tasks[k]) : Loose(b)
  BY <1>2
<1>6. \A b : b \notin T => Predecessors(ir', b) = Predecessors(ir, b)
  BY <1>1
<1>. HIDE DEF T
<1>. QED
  BY <1>1, <1>3, <1>4, <1>5, <1>6, JoinStep

\* The agendas that most handlers leave behind, task by task.
LEMMA Followers ==
    ASSUME NEW n, NEW u, Follows(n, u)
    PROVE  \E S : \E tasks \in Seq(S) :
              /\ Proceed(tasks)
              /\ \A k \in DOMAIN tasks : tasks[k] = Visit(n) \/ tasks[k] = u
<1>. DEFINE S == {Visit(n), u}
<1>1. <<>> \in Seq(S) /\ <<Visit(n)>> \in Seq(S) /\ <<Visit(n), u>> \in Seq(S)
      /\ <<u>> \in Seq(S)
  OBVIOUS
<1>2. IfPresent(n) \in Seq(S)
  BY <1>1 DEF IfPresent
<1>. HIDE DEF S
<1>3. IfPresent(n) \o <<u>> \in Seq(S)
  BY <1>1, <1>2, ConcatProperties
<1>4. PICK tasks \in Seq(S) : Proceed(tasks)
  BY <1>1, <1>2, <1>3 DEF Follows, Finish
<1>5. \A k \in DOMAIN tasks : tasks[k] \in S
  BY <1>4
<1>. QED
  BY <1>4, <1>5 DEF S

LEMMA FollowersStep ==
    ASSUME TypeOK, JoinsKept, todo # <<>>, Straight(ir', ir),
           NEW n, NEW u, Follows(n, u), u.blks = <<>>, u.do # "ShortRight"
    PROVE  JoinsKept'
<1>1. PICK S : \E tasks \in Seq(S) :
         /\ Proceed(tasks)
         /\ \A k \in DOMAIN tasks : tasks[k] = Visit(n) \/ tasks[k] = u
  BY Followers
<1>2. PICK tasks \in Seq(S) :
         /\ Proceed(tasks)
         /\ \A k \in DOMAIN tasks : tasks[k] = Visit(n) \/ tasks[k] = u
  BY <1>1
<1>3. Visit(n).blks = <<>> /\ Visit(n).do # "ShortRight"
  BY DEF Visit, Task
<1>4. \A k \in DOMAIN tasks : tasks[k].blks = <<>> /\ tasks[k].do # "ShortRight"
  BY <1>2, <1>3
<1>. QED
  BY <1>2, <1>4, StraightStep

LEMMA FinishJoins ==
    ASSUME TypeOK, JoinsKept, todo # <<>>, Straight(ir', ir), Finish
    PROVE  JoinsKept'
<1>. DEFINE u == Visit(Null)
<1>1. Follows(Null, u) /\ u.blks = <<>> /\ u.do # "ShortRight"
  BY DEF Follows, Visit, Task
<1>. HIDE DEF u
<1>. QED
  BY <1>1, FollowersStep

LEMMA RejectJoins ==
    ASSUME TypeOK, JoinsKept, todo # <<>>, NEW text, NEW subject, Reject(text, subject)
    PROVE  JoinsKept'
<1>1. ir' = ir /\ Finish
  BY DEF Reject
<1>2. Straight(ir', ir)
  BY <1>1, StraightSelf
<1>. QED
  BY <1>1, <1>2, FinishJoins

LEMMA CrashJoins ==
    ASSUME JoinsKept, UNCHANGED <<ir, todo>>
    PROVE  JoinsKept'
BY DEF JoinsKept, Known, Waiting, Joined

\* Handlers that only visit children.
LEMMA VisitsJoin ==
    ASSUME TypeOK, JoinsKept,
           \/ VisitBinaryExpr \/ BinLeft \/ VisitUnaryExpr \/ VisitCastExpr
           \/ VisitAssignExpr \/ VisitMemberAccessExpr \/ Statement
           \/ VisitExprStatement \/ VisitIfStatement \/ VisitForStatement
    PROVE  JoinsKept'
<1>1. todo # <<>> /\ ir' = ir
  BY DEF VisitBinaryExpr, BinLeft, VisitUnaryExpr, VisitCastExpr, VisitAssignExpr,
       VisitMemberAccessExpr, Statement, VisitExprStatement, VisitIfStatement,
       VisitForStatement, Descend, Visiting, Resuming, Running
<1>. DEFINE Harmless(u) == u.blks = <<>> /\ u.do # "ShortRight"
<1>2. \E n, u : Follows(n, u) /\ Harmless(u)
  <2>1. /\ \A do : do # "ShortRight" => Harmless(Then(do))
        /\ \A vals : Harmless(ThenWith("BinRight", vals))
        /\ \A n : Harmless(Visit(n))
    BY DEF Then, ThenWith, Visit, Task
  <2>. HIDE DEF Harmless
  <2>2. ASSUME NEW n, NEW u, Harmless(u),
               \/ Proceed(<<Visit(n), u>>)
               \/ Proceed(IfPresent(n) \o <<u>>)
        PROVE  \E m, w : Follows(m, w) /\ Harmless(w)
    BY <2>2 DEF Follows
  <2>3. CASE VisitBinaryExpr
    <3>. DEFINE do == IF Node.op \in {"&&", "||"} THEN "ShortLeft" ELSE "BinLeft"
    <3>1. Proceed(<<Visit(Node.left), Then(do)>>) /\ do # "ShortRight"
      BY <2>3 DEF VisitBinaryExpr, Descend
    <3>. HIDE DEF do
    <3>. QED
      BY <2>1, <2>2, <3>1
  <2>4. CASE BinLeft
    BY <2>1, <2>2, <2>4 DEF BinLeft
  <2>5. CASE \/ VisitUnaryExpr \/ VisitCastExpr \/ VisitAssignExpr
             \/ VisitMemberAccessExpr \/ VisitIfStatement
    <3>1. \E n : \E do \in {"UnaryOp", "CastOp", "AssignStore", "MemberLoad", "IfCond"} :
             Proceed(<<Visit(n), Then(do)>>)
      BY <2>5 DEF VisitUnaryExpr, VisitCastExpr, VisitAssignExpr, VisitMemberAccessExpr,
           VisitIfStatement, Descend
    <3>. QED
      BY <2>1, <2>2, <3>1
  <2>6. CASE Statement \/ VisitExprStatement
    <3>1. \E n : Proceed(IfPresent(n))
      BY <2>6 DEF Statement, VisitExprStatement, Descend
    <3>. QED
      BY <2>1, <3>1 DEF Follows
  <2>7. CASE VisitForStatement
    <3>1. \/ Proceed(<<Visit(Node.init), Then("UnrollStart")>>)
          \/ Proceed(IfPresent(Node.init) \o <<Then("ForBlocks")>>)
      BY <2>7 DEF VisitForStatement, Descend
    <3>. QED
      BY <2>1, <2>2, <3>1
  <2>. QED
    BY <2>3, <2>4, <2>5, <2>6, <2>7
<1>3. Straight(ir', ir)
  BY <1>1, StraightSelf
<1>. QED
  BY <1>1, <1>2, <1>3, FollowersStep

\* Blocks, calls and unrolled loops visit as many children as there are.
LEMMA ListsJoin ==
    ASSUME TypeOK, JoinsKept,
           VisitBlockStatement \/ VisitCallExpr \/ CallArg \/ UnrollStart
    PROVE  JoinsKept'
<1>1. todo # <<>> /\ ir' = ir /\ Node \in AstNode
  BY TopType DEF VisitBlockStatement, VisitCallExpr, CallArg, UnrollStart, Descend,
       Visiting, Resuming, Running, Reject, Crash
<1>2. Straight(ir', ir)
  BY <1>1, StraightSelf
<1>3. CASE VisitBlockStatement
  <2>. DEFINE tasks == [k \in DOMAIN Node.statements |->
                           Task("Statement", Node.statements[k], <<>>, <<>>)]
              S == {Task("Statement", n, <<>>, <<>>) : n \in AstNode}
  <2>1. Node.statements \in Seq(AstNode)
    BY <1>1, <1>3, StatementMembers DEF VisitBlockStatement, Descend, Visiting
  <2>. DEFINE len == Len(Node.statements)
  <2>2. DOMAIN Node.statements = 1..len /\ len \in Nat
    BY <2>1, LenProperties
  <2>3. \A k \in DOMAIN Node.statements : tasks[k] \in S
    BY <2>1
  <2>4. \A t \in S : t.blks = <<>> /\ t.do # "ShortRight"
    BY DEF Task
  <2>. HIDE DEF S
  <2>5. DOMAIN tasks = 1..len
    BY <2>2
  <2>6. tasks \in [1..len -> S]
    BY <2>2, <2>3
  <2>7. Proceed(tasks)
    BY <1>3 DEF VisitBlockStatement, Descend
  <2>. HIDE DEF tasks, len
  <2>8. tasks \in Seq(S) /\ \A k \in DOMAIN tasks : tasks[k] \in S
    BY <2>2, <2>5, <2>6
  <2>. QED
    BY <1>1, <1>2, <2>4, <2>7, <2>8, StraightStep
<1>4. CASE VisitCallExpr \/ CallArg
  <2>1. /\ Node.kind = "CallExpr" /\ Top.vals \in Seq(Values) /\ m_LastValue \in Values
    BY <1>1, <1>4, TopType DEF VisitCallExpr, CallArg, Visiting, Resuming, OwnKind, Node,
         TypeOK
  <2>2. <<>> \in Seq(Values) /\ Append(Top.vals, m_LastValue) \in Seq(Values)
    BY <2>1
  <2>3. PICK args \in Seq(Values) : Proceed(NextArgument(args))
    BY <1>4, <2>2 DEF VisitCallExpr, CallArg
  <2>. DEFINE one == Visit(Node.arguments[Len(args) + 1])
              two == ThenWith("CallArg", args)
              last == ThenWith("CallEnd", args)
              S == {one, two, last}
  <2>4. \A t \in S : t.blks = <<>> /\ t.do # "ShortRight"
    BY DEF Visit, ThenWith, Task
  <2>5. NextArgument(args) = <<one, two>> \/ NextArgument(args) = <<last>>
    BY DEF NextArgument
  <2>. HIDE DEF one, two, last
  <2>6. NextArgument(args) \in Seq(S)
    <3>1. <<one, two>> \in Seq(S) /\ <<last>> \in Seq(S)
      OBVIOUS
    <3>. QED
      BY <2>5, <3>1
  <2>. HIDE DEF S
  <2>7. \A k \in DOMAIN NextArgument(args) : NextArgument(args)[k] \in S
    BY <2>6
  <2>. QED
    BY <1>1, <1>2, <2>3, <2>4, <2>6, <2>7, StraightStep
<1>5. CASE UnrollStart
  <2>. DEFINE info == AnalyzeForUnroll(Node)
              slot == m_variables[info.varName].value
              tasks == Iterations(info, slot)
  <2>1. \/ Crash
        \/ \E text, subject : Reject(text, subject)
        \/ info.varName \in DOMAIN m_variables /\ Proceed(tasks)
    BY <1>5 DEF UnrollStart
  <2>2. ASSUME info.varName \in DOMAIN m_variables, Proceed(tasks)
        PROVE  JoinsKept'
    <3>1. Node.kind = "ForStatement"
      BY <1>1, <1>5, TopType DEF UnrollStart, Resuming, OwnKind, Node
    <3>2. info.start \in Int /\ info.step \in Int /\ info.tripCount \in Nat
      BY <1>1, <3>1, AnalysisType
    <3>3. slot \in Values
      BY <2>2 DEF TypeOK, VariableInfos
    <3>. HIDE DEF info, slot
    <3>4. tasks \in Seq(TasksIn(ir))
      BY <1>1, <3>1, <3>2, <3>3, IterationsType
    <3>5. \A k \in DOMAIN tasks : tasks[k].blks = <<>> /\ tasks[k].do # "ShortRight"
      BY DEF Iterations, Visit, ThenWith, Task
    <3>. HIDE DEF tasks
    <3>6. Proceed(tasks) /\ tasks \in Seq(TasksIn(ir))
      BY <2>2, <3>4 DEF tasks
    <3>. QED
      BY <1>1, <1>2, <3>5, <3>6, StraightStep
  <2>3. ASSUME Crash PROVE JoinsKept'
    BY <2>3, CrashJoins DEF Crash
  <2>. QED
    BY <1>1, <2>1, <2>2, <2>3, RejectJoins
<1>. QED
  BY <1>3, <1>4, <1>5

\* What the other handlers emit neither branches nor joins.
LEMMA EmittersJoin ==
    ASSUME TypeOK, JoinsKept,
           \/ VisitLiteralExpr \/ VisitVarExpr \/ VisitAllocExpr
           \/ VisitPrefixExpr \/ VisitPostfixExpr \/ BinRight \/ UnaryOp \/ CastOp
           \/ CallEnd \/ AssignStore \/ MemberLoad \/ VisitVariableDecl
           \/ InferredInit \/ ExplicitInit \/ VisitReturnStatement \/ ReturnValue
           \/ UnrollStore
    PROVE  JoinsKept'
<1>. DEFINE Moves ==
         \/ Finish
         \/ \E n, u : u.blks = <<>> /\ u.do # "ShortRight" /\ Proceed(<<Visit(n), u>>)
            Ends ==
         \/ UNCHANGED <<ir, todo>>
         \/ \E text, subject : Reject(text, subject)
         \/ Moves /\ Straight(ir', ir)
<1>1. todo # <<>>
  BY DEF VisitLiteralExpr, VisitVarExpr, VisitAllocExpr, VisitPrefixExpr,
       VisitPostfixExpr, BinRight, UnaryOp, CastOp, CallEnd, AssignStore, MemberLoad,
       VisitVariableDecl, InferredInit, ExplicitInit, VisitReturnStatement,
       ReturnValue, UnrollStore, Visiting, Resuming, Running
<1>2. Straight(ir, ir)
  BY <1>1, StraightSelf
<1>3. ASSUME NEW g, Straight(g, ir), NEW inst, Ordinary(inst)
      PROVE  Straight(Emit(g, inst), ir) /\ Straight(Build(g, inst).ir, ir)
  BY <1>3, EmitStraight
<1>4. ASSUME NEW g, Straight(g, ir), NEW v
      PROVE  Straight(ToBool(g, v).ir, ir)
  BY <1>4, ToBoolStraight
<1>5. ASSUME NEW text, NEW subject, Reject(text, subject) PROVE Ends
  BY <1>5
<1>6. Crash => Ends
  BY DEF Crash
<1>7. Finish => Moves
  OBVIOUS
<1>8. ASSUME NEW n, NEW do, do # "ShortRight",
             Proceed(<<Visit(n), Then(do)>>)
             \/ \E vals : Proceed(<<Visit(n), ThenWith(do, vals)>>)
      PROVE  Moves
  <2>1. /\ Then(do).blks = <<>> /\ Then(do).do # "ShortRight"
        /\ \A vals : ThenWith(do, vals).blks = <<>> /\ ThenWith(do, vals).do # "ShortRight"
    BY <1>8 DEF Then, ThenWith, Task
  <2>. QED
    BY <1>8, <2>1
<1>. HIDE DEF Moves
<1>9. ASSUME VisitLiteralExpr \/ VisitVarExpr \/ VisitAllocExpr PROVE Ends
  <2>1. \/ Ends
        \/ /\ \/ ir' = ir
              \/ \E type, v : ir' = Build(ir, Load(type, v)).ir
              \/ \E args : ir' = Build(ir, Inst("call", "ptr", "malloc", args, <<>>)).ir
           /\ Finish
    BY <1>5, <1>9 DEF VisitLiteralExpr, VisitVarExpr, VisitAllocExpr
  <2>2. /\ \A type, v : Ordinary(Load(type, v))
        /\ \A args : Ordinary(Inst("call", "ptr", "malloc", args, <<>>))
    BY OrdinaryInstructions
  <2>. QED
    BY <1>2, <1>3, <1>7, <2>1, <2>2
<1>10. ASSUME VisitPrefixExpr \/ VisitPostfixExpr PROVE Ends
  <2>. DEFINE slot == m_variables[Node.operand.name].value
              load == Build(ir, Load(slot.elem, slot))
  <2>1. \/ Crash
        \/ \E text, subject : Reject(text, subject)
        \/ Finish /\ ir' = ir
        \/ /\ \E op \in {"add", "sub"} : \E type, args, v :
                 ir' = Emit(Build(load.ir, Compute(op, type, args)).ir, Store(v, slot))
           /\ Finish
    BY <1>10 DEF VisitPrefixExpr, VisitPostfixExpr, IncDec
  <2>2. Straight(load.ir, ir)
    BY <1>2, <1>3, OrdinaryInstructions
  <2>. HIDE DEF load
  <2>3. \A op \in {"add", "sub"} : \A type, args, v :
            Straight(Emit(Build(load.ir, Compute(op, type, args)).ir, Store(v, slot)), ir)
    BY <1>3, <2>2, OrdinaryInstructions
  <2>. QED
    BY <1>2, <1>6, <1>7, <2>1, <2>3
<1>11. ASSUME BinRight PROVE Ends
  <2>1. Node.op \in BinaryOperators
    BY <1>1, <1>11, TopType, OperatorAssumption
       DEF BinRight, Resuming, OwnKind, Node, OperatorKnown
  <2>2. \A left, right : Straight(Operate(Node.op, left, right).ir, ir)
    <3>1. ASSUME NEW left, NEW right
          PROVE  \/ \E type, args : Operate(Node.op, left, right)
                                      = Build(ir, Compute(Node.op, type, args))
                 \/ \E type, args : Operate(Node.op, left, right)
                                      = Build(ToBool(ToBool(ir, left).ir, right).ir,
                                              Compute(Node.op, type, args))
      BY DEF Operate
    <3>2. \A type, args : Ordinary(Compute(Node.op, type, args))
      BY <2>1, OrdinaryInstructions
    <3>. QED
      BY <1>2, <1>3, <1>4, <3>1, <3>2
  <2>. QED
    BY <1>5, <1>6, <1>7, <1>11, <2>2 DEF BinRight
<1>12. ASSUME UnaryOp PROVE Ends
  <2>1. \/ Ends
        \/ /\ \/ \E type, args : ir' = Build(ToBool(ir, m_LastValue).ir,
                                             Compute("xor", type, args)).ir
              \/ \E type, args : ir' = Build(ir, Compute("not", type, args)).ir
           /\ Finish
    BY <1>5, <1>6, <1>12 DEF UnaryOp
  <2>2. \A type, args : /\ Ordinary(Compute("xor", type, args))
                       /\ Ordinary(Compute("not", type, args))
    BY OrdinaryInstructions
  <2>. QED
    BY <1>2, <1>3, <1>4, <1>7, <2>1, <2>2
<1>13. ASSUME CastOp \/ CallEnd \/ AssignStore PROVE Ends
  <2>1. \/ Ends
        \/ /\ \/ ir' = ir
              \/ \E type, elem, args :
                    ir' = Build(ir, Inst("call", type, elem, args, <<>>)).ir
              \/ \E v, w : ir' = Emit(ir, Store(v, w))
           /\ Finish
    <3>1. CASE CastOp
      BY <1>5, <3>1 DEF CastOp
    <3>2. CASE CallEnd
      BY <1>6, <3>2 DEF CallEnd
    <3>3. CASE AssignStore
      BY <1>5, <1>6, <3>3 DEF AssignStore
    <3>. QED
      BY <1>13, <3>1, <3>2, <3>3
  <2>2. /\ \A v, w : Ordinary(Store(v, w))
        /\ \A type, elem, args : Ordinary(Inst("call", type, elem, args, <<>>))
    BY OrdinaryInstructions
  <2>. QED
    BY <1>2, <1>3, <1>7, <2>1, <2>2
<1>14. ASSUME MemberLoad PROVE Ends
  <2>1. \/ Ends
        \/ /\ \E elem, args, type, v :
                 ir' = Build(Build(ir, Inst("gep", "ptr", elem, args, <<>>)).ir,
                             Load(type, v)).ir
           /\ Finish
    BY <1>5, <1>6, <1>14 DEF MemberLoad
  <2>2. \A elem, args : Ordinary(Inst("gep", "ptr", elem, args, <<>>))
    BY OrdinaryInstructions
  <2>3. \A type, v : Ordinary(Load(type, v))
    BY OrdinaryInstructions
  <2>. QED
    BY <1>2, <1>3, <1>7, <2>1, <2>2, <2>3
<1>15. ASSUME VisitVariableDecl \/ InferredInit \/ ExplicitInit PROVE Ends
  <2>1. \/ Ends
        \/ /\ \/ ir' = ir
              \/ \E type : ir' = Build(ir, Alloca(type)).ir
              \/ \E v, w : ir' = Emit(ir, Store(v, w))
              \/ \E type, v, w : ir' = Emit(Build(ir, Alloca(type)).ir, Store(v, w))
           /\ \/ Finish
              \/ \E n : Proceed(<<Visit(n), Then("InferredInit")>>)
              \/ \E n, vals : Proceed(<<Visit(n), ThenWith("ExplicitInit", vals)>>)
    BY <1>5, <1>6, <1>15 DEF VisitVariableDecl, InferredInit, ExplicitInit
  <2>2. (\A type : Ordinary(Alloca(type))) /\ \A v, w : Ordinary(Store(v, w))
    BY OrdinaryInstructions
  <2>. QED
    BY <1>2, <1>3, <1>7, <1>8, <2>1, <2>2
<1>16. ASSUME VisitReturnStatement \/ ReturnValue \/ UnrollStore PROVE Ends
  <2>1. /\ \/ ir' = ir
           \/ \E v : ir' = Emit(ir, Ret(v))
           \/ \E v, w : ir' = Emit(ir, Store(v, w))
        /\ \/ Finish
           \/ \E n : Proceed(<<Visit(n), Then("ReturnValue")>>)
    BY <1>16 DEF VisitReturnStatement, ReturnValue, UnrollStore, RetVoid
  <2>2. (\A v : Ordinary(Ret(v))) /\ \A v, w : Ordinary(Store(v, w))
    BY OrdinaryInstructions
  <2>. QED
    BY <1>2, <1>3, <1>7, <1>8, <2>1, <2>2
<1>17. Ends
  BY <1>9, <1>10, <1>11, <1>12, <1>13, <1>14, <1>15, <1>16
<1>18. Moves <=> \/ Finish
                 \/ \E n, u : /\ u.blks = <<>> /\ u.do # "ShortRight"
                             /\ Proceed(<<Visit(n), u>>)
  BY DEF Moves
<1>19. ASSUME Moves, Straight(ir', ir) PROVE JoinsKept'
  <2>1. CASE Finish
    BY <1>1, <1>19, <2>1, FinishJoins
  <2>2. ASSUME NEW n, NEW u, u.blks = <<>>, u.do # "ShortRight", Proceed(<<Visit(n), u>>)
        PROVE  JoinsKept'
    <3>1. Follows(n, u)
      BY <2>2 DEF Follows
    <3>. QED
      BY <1>1, <1>19, <2>2, <3>1, FollowersStep
  <2>. QED
    BY <1>18, <1>19, <2>1, <2>2
<1>20. ASSUME UNCHANGED <<ir, todo>> PROVE JoinsKept'
  BY <1>20, CrashJoins
<1>. QED
  BY <1>1, <1>17, <1>19, <1>20, RejectJoins DEF Ends

(***************************************************************************)
(* Handlers that create blocks or move to one.                             *)
(***************************************************************************)
LEMMA HandsStep ==
    ASSUME TypeOK, JoinsKept, todo # <<>>, NEW T, \A b \in T : Loose(b),
           T \subseteq DOMAIN ir'.blocks, DOMAIN ir.blocks \subseteq DOMAIN ir'.blocks,
           \A b : b \notin T => Predecessors(ir', b) = Predecessors(ir, b),
           \A b \in DOMAIN ir'.blocks : \A from \in Merges(ir', b) :
              b \in DOMAIN ir.blocks /\ from \in Merges(ir, b),
           NEW n, NEW u, Hands(n, u), \A b \in Aims(u) : Loose(b),
           u.do = "ShortRight" => /\ u.blks[2] \notin DOMAIN ir.blocks
                                  /\ Predecessors(ir', u.blks[2]) = {u.blks[1]}
    PROVE  JoinsKept'
<1>0. Hands(n, u)
  OBVIOUS
<1>. DEFINE S == {Visit(n), u}
<1>1. PICK tasks \in Seq(S) : Carries(tasks, n, u)
  BY <1>0, HandsTasks
<1>2. Proceed(tasks)
  BY <1>1 DEF Carries
<1>3. PICK k \in DOMAIN tasks :
         tasks[k] = u /\ \A j \in DOMAIN tasks \ {k} : tasks[j] = Visit(n)
  BY <1>1 DEF Carries
<1>. HIDE DEF S
<1>4. Visit(n).do # "ShortRight" /\ Aims(Visit(n)) = {}
  <2>1. Visit(n).do # "ShortRight" /\ Visit(n).blks = <<>>
    BY DEF Visit, Task
  <2>. QED
    BY <2>1, Aimless
<1>5. \A j \in DOMAIN tasks : \A b \in Aims(tasks[j]) : Loose(b)
  BY <1>3, <1>4
<1>6. ASSUME NEW i \in DOMAIN tasks, tasks[i].do = "ShortRight"
      PROVE  /\ tasks[i].blks[2] \notin DOMAIN ir.blocks
             /\ Predecessors(ir', tasks[i].blks[2]) = {tasks[i].blks[1]}
             /\ \A j \in DOMAIN tasks \ {i} : tasks[i].blks[2] \notin Aims(tasks[j])
  BY <1>3, <1>4, <1>6
<1>. QED
  BY <1>1, <1>2, <1>5, <1>6, JoinStep

\* A handler that adds blocks branches to some of them and keeps them to itself.
LEMMA CreatorStep ==
    ASSUME TypeOK, JoinsKept, todo # <<>>, NEW g \in WellBuilt, Straight(g, ir),
           NEW n \in Nat \ {0}, NEW branch, branch.op \in Branching,
           ToSet(branch.to) \subseteq Len(ir.blocks) + 1 .. Len(ir.blocks) + n,
           ir' = Leave(AddBlocks(g, n), branch, Len(ir.blocks) + 1),
           NEW child, NEW u, Hands(child, u),
           \/ /\ u.do # "ShortRight"
              /\ ToSet(u.blks) \subseteq Len(ir.blocks) + 1 .. Len(ir.blocks) + n
           \/ /\ u.do = "ShortRight" /\ u.blks = <<ir.at, Len(ir.blocks) + 2>>
              /\ Len(ir.blocks) + 2 \in ToSet(branch.to)
    PROVE  JoinsKept'
<1>. DEFINE h == AddBlocks(g, n)
            len == Len(ir.blocks)
            T == ToSet(branch.to)
<1>1. /\ DOMAIN g.blocks = DOMAIN ir.blocks /\ g.at = ir.at
      /\ \A b : Predecessors(g, b) = Predecessors(ir, b)
      /\ \A b \in DOMAIN ir.blocks : Merges(g, b) = Merges(ir, b)
  BY DEF Straight
<1>2. /\ Built(h) /\ h.at = g.at
      /\ DOMAIN g.blocks = 1..Len(g.blocks) /\ Len(g.blocks) \in Nat
      /\ DOMAIN h.blocks = 1..Len(g.blocks) + n
      /\ \A b : Predecessors(h, b) = Predecessors(g, b)
      /\ \A b \in DOMAIN g.blocks : Merges(h, b) = Merges(g, b)
      /\ \A b \in DOMAIN h.blocks \ DOMAIN g.blocks : Merges(h, b) = {}
  BY AddBlocksEffect
<1>3. DOMAIN ir.blocks = 1..len /\ len = Len(g.blocks) /\ len \in Nat
  <2>1. ir \in WellBuilt
    BY StraightSelf
  <2>2. DOMAIN ir.blocks = 1..len /\ len \in Nat
    BY <2>1, AddBlocksEffect
  <2>. DEFINE m == Len(g.blocks)
  <2>3. 1..len = 1..m /\ len \in Nat /\ m \in Nat
    BY <1>1, <1>2, <2>2
  <2>. HIDE DEF m, len
  <2>4. (len > 0 => len \in 1..m) /\ (m > 0 => m \in 1..len)
    BY <2>3
  <2>5. len = m
    BY <2>3, <2>4
  <2>. QED
    BY <2>2, <2>5 DEF m
<1>. HIDE DEF h, len
<1>4. len + 1 \in DOMAIN h.blocks /\ branch.op # "phi"
  BY <1>2, <1>3 DEF Branching
<1>5. /\ DOMAIN ir'.blocks = DOMAIN h.blocks
      /\ \A c : Predecessors(ir', c) =
            Predecessors(h, c) \cup
               (IF branch.op \in Branching /\ c \in ToSet(branch.to) THEN {h.at} ELSE {})
      /\ \A c \in DOMAIN h.blocks : Merges(ir', c) = Merges(h, c)
  <2>1. ir' = Leave(h, branch, len + 1)
    BY DEF h, len
  <2>. QED
    BY <1>2, <1>4, <2>1, LeaveEffect
<1>6. \A c : c \in len + 1 .. len + n => c \notin DOMAIN ir.blocks /\ c \in DOMAIN ir'.blocks
  BY <1>2, <1>3, <1>5
<1>7. T \subseteq len + 1 .. len + n
  BY DEF len
<1>8. (\A b \in T : Loose(b)) /\ T \subseteq DOMAIN ir'.blocks
      /\ DOMAIN ir.blocks \subseteq DOMAIN ir'.blocks
  BY <1>2, <1>3, <1>5, <1>6, <1>7 DEF Loose
<1>9. \A b : b \notin T => Predecessors(ir', b) = Predecessors(ir, b)
  BY <1>1, <1>2, <1>5
<1>10. \A b \in DOMAIN ir'.blocks : \A from \in Merges(ir', b) :
            b \in DOMAIN ir.blocks /\ from \in Merges(ir, b)
  BY <1>1, <1>2, <1>5
<1>11. CASE u.do # "ShortRight"
  <2>1. \A b \in Aims(u) : Loose(b)
    BY <1>6, <1>11 DEF Aims, Loose, len
  <2>. HIDE DEF T
  <2>. QED
    BY <1>8, <1>9, <1>10, <1>11, <2>1, HandsStep
<1>12. CASE u.do = "ShortRight"
  <2>1. /\ u.blks[1] = ir.at /\ u.blks[2] = len + 2 /\ len + 2 \in T
        /\ Aims(u) = {len + 2}
    BY <1>12 DEF Aims, len
  <2>2. len + 2 \notin DOMAIN ir.blocks
    BY <1>6, <1>7, <2>1
  <2>3. Predecessors(ir, len + 2) = {}
    <3>1. ASSUME NEW p \in Predecessors(ir, len + 2) PROVE FALSE
      <4>1. p \in DOMAIN ir.blocks /\ len + 2 \in Successors(ir, p)
        BY <3>1 DEF Predecessors
      <4>. QED
        BY <2>2, <4>1 DEF JoinsKept, Known
    <3>. QED
      BY <3>1
  <2>4. Predecessors(ir', len + 2) = {ir.at}
    BY <1>1, <1>2, <1>5, <2>1, <2>3
  <2>5. \A b \in Aims(u) : Loose(b)
    BY <2>1, <2>2 DEF Loose
  <2>. HIDE DEF T
  <2>. QED
    BY <1>8, <1>9, <1>10, <2>1, <2>2, <2>4, <2>5, HandsStep
<1>. QED
  BY <1>11, <1>12

\* A handler that moves on branches to a block it aimed at.
LEMMA MoverEffect ==
    ASSUME TypeOK, todo # <<>>, NEW g, Straight(g, ir), NEW branch,
           branch.op \in Branching, NEW b \in DOMAIN ir.blocks,
           ToSet(branch.to) \subseteq Aims(Top), ir' = Leave(g, branch, b)
    PROVE  /\ DOMAIN ir'.blocks = DOMAIN ir.blocks
           /\ ToSet(branch.to) \subseteq DOMAIN ir'.blocks
           /\ \A c \in ToSet(branch.to) : Loose(c)
           /\ \A c : c \notin ToSet(branch.to) => Predecessors(ir', c) = Predecessors(ir, c)
           /\ \A c \in DOMAIN ir'.blocks : \A from \in Merges(ir', c) :
                 c \in DOMAIN ir.blocks /\ from \in Merges(ir, c)
<1>1. /\ DOMAIN g.blocks = DOMAIN ir.blocks /\ Built(g)
      /\ \A c : Predecessors(g, c) = Predecessors(ir, c)
      /\ \A c \in DOMAIN ir.blocks : Merges(g, c) = Merges(ir, c)
  BY DEF Straight
<1>2. branch.op # "phi"
  BY DEF Branching
<1>3. /\ DOMAIN ir'.blocks = DOMAIN g.blocks
      /\ \A c : Predecessors(ir', c) =
            Predecessors(g, c) \cup
               (IF branch.op \in Branching /\ c \in ToSet(branch.to) THEN {g.at} ELSE {})
      /\ \A c \in DOMAIN g.blocks : Merges(ir', c) = Merges(g, c)
  BY <1>1, <1>2, LeaveEffect
<1>4. Aims(Top) \subseteq DOMAIN ir.blocks
  <2>1. Len(todo) > 0 /\ Top = todo[1] /\ DOMAIN todo = 1..Len(todo) /\ Len(todo) \in Nat
    BY LenProperties DEF TypeOK, Top
  <2>2. 1 \in DOMAIN todo
    BY <2>1
  <2>. QED
    BY <2>1, <2>2, AimsExist
<1>. QED
  BY <1>1, <1>3, <1>4 DEF Loose

LEMMA MoverStep ==
    ASSUME TypeOK, JoinsKept, todo # <<>>, NEW g, Straight(g, ir), NEW branch,
           branch.op \in Branching, NEW b \in DOMAIN ir.blocks,
           ToSet(branch.to) \subseteq Aims(Top), ir' = Leave(g, branch, b),
           \/ Finish
           \/ \E child, u : /\ Hands(child, u) /\ u.do # "ShortRight"
                           /\ ToSet(u.blks) \subseteq Aims(Top)
    PROVE  JoinsKept'
<1>. DEFINE T == ToSet(branch.to)
<1>1. /\ DOMAIN ir'.blocks = DOMAIN ir.blocks
      /\ T \subseteq DOMAIN ir'.blocks
      /\ \A c \in T : Loose(c)
      /\ \A c : c \notin T => Predecessors(ir', c) = Predecessors(ir, c)
      /\ \A c \in DOMAIN ir'.blocks : \A from \in Merges(ir', c) :
            c \in DOMAIN ir.blocks /\ from \in Merges(ir, c)
  BY MoverEffect
<1>. HIDE DEF T
<1>2. CASE Finish
  <2>. DEFINE tasks == <<>>
  <2>1. tasks \in Seq({}) /\ Proceed(tasks) /\ DOMAIN tasks = {}
    BY <1>2 DEF Finish
  <2>. HIDE DEF tasks
  <2>. QED
    BY <1>1, <2>1, JoinStep
<1>3. ASSUME NEW child, NEW u, Hands(child, u), u.do # "ShortRight",
             ToSet(u.blks) \subseteq Aims(Top)
      PROVE  JoinsKept'
  <2>1. \A c \in Aims(u) : Loose(c)
    BY <1>3 DEF Aims, Loose
  <2>. QED
    BY <1>1, <1>3, <2>1, HandsStep
<1>. QED
  BY <1>2, <1>3

LEMMA CreatorsJoin ==
    ASSUME TypeOK, JoinsKept,
           ShortLeft \/ IfCond \/ VisitWhileStatement \/ ForBlocks
    PROVE  JoinsKept'
<1>1. /\ todo # <<>> /\ ir \in WellBuilt /\ m_LastValue \in Values
  BY TopType DEF ShortLeft, IfCond, VisitWhileStatement, ForBlocks, Visiting, Resuming,
       Running, TypeOK
<1>. DEFINE len == Len(ir.blocks)
            bool == ToBool(ir, m_LastValue).ir
            cond == CondBool(ir, m_LastValue).ir
<1>2. /\ Straight(ir, ir) /\ Straight(bool, ir) /\ Straight(cond, ir)
      /\ bool \in WellBuilt /\ cond \in WellBuilt /\ len \in Nat
  BY <1>1, StraightSelf, ToBoolStraight, ToBoolType, CondBoolType, AddBlocksEffect
<1>. DEFINE Creates(g, n, branch, child, u) ==
         /\ ir' = Leave(AddBlocks(g, n), branch, len + 1)
         /\ Hands(child, u)
<1>3. ASSUME NEW g \in {ir, bool, cond}, NEW n \in Nat \ {0}, NEW branch, NEW child, NEW u,
             Creates(g, n, branch, child, u), branch.op \in Branching,
             ToSet(branch.to) \subseteq len + 1 .. len + n,
             \/ u.do # "ShortRight" /\ ToSet(u.blks) \subseteq len + 1 .. len + n
             \/ /\ u.do = "ShortRight" /\ u.blks = <<ir.at, len + 2>>
                /\ len + 2 \in ToSet(branch.to)
      PROVE  JoinsKept'
  <2>1. Straight(g, ir) /\ g \in WellBuilt
    BY <1>1, <1>2, <1>3
  <2>2. ir' = Leave(AddBlocks(g, n), branch, len + 1) /\ Hands(child, u)
    BY <1>3
  <2>. HIDE DEF Creates, bool, cond
  <2>. QED
    BY <1>1, <1>3, <2>1, <2>2, CreatorStep
<1>4. CASE ShortLeft
  <2>. DEFINE u == Task("ShortRight", Node, <<>>, <<ir.at, len + 2>>)
              val == ToBool(ir, m_LastValue).val
              branch == IF Node.op = "&&" THEN CondBr(val, len + 1, len + 2)
                        ELSE CondBr(val, len + 2, len + 1)
  <2>1. \/ Crash
        \/ \E text, subject : Reject(text, subject)
        \/ Creates(bool, 2, branch, Node.right, u)
    BY <1>4 DEF ShortLeft, ThenAt, Hands
  <2>2. u.do = "ShortRight" /\ u.blks = <<ir.at, len + 2>>
    BY DEF Task
  <2>. HIDE DEF u, Creates, bool, val
  <2>3. branch.op \in Branching /\ ToSet(branch.to) = {len + 1, len + 2}
    <3>. DEFINE b == len + 1
                c == len + 2
    <3>1. \/ branch = CondBr(val, b, c)
          \/ branch = CondBr(val, c, b)
      OBVIOUS
    <3>2. \A x, y : /\ CondBr(val, x, y).op \in Branching
                    /\ ToSet(CondBr(val, x, y).to) = {x, y}
      BY Branches
    <3>. HIDE DEF b, c, branch
    <3>3. branch.op \in Branching /\ ToSet(branch.to) = {b, c}
      <4>1. CASE branch = CondBr(val, b, c)
        BY <3>2, <4>1
      <4>2. CASE branch = CondBr(val, c, b)
        <5>1. branch.op \in Branching /\ ToSet(branch.to) = {c, b}
          BY <3>2, <4>2
        <5>. QED
          BY <5>1
      <4>. QED
        BY <3>1, <4>1, <4>2
    <3>. QED
      BY <3>3 DEF b, c
  <2>. HIDE DEF branch
  <2>4. ASSUME Creates(bool, 2, branch, Node.right, u) PROVE JoinsKept'
    <3>1. ToSet(branch.to) \subseteq len + 1 .. len + 2 /\ len + 2 \in ToSet(branch.to)
      BY <1>2, <2>3
    <3>. HIDE DEF len
    <3>. QED
      BY <1>3, <2>2, <2>3, <2>4, <3>1
  <2>5. ASSUME Crash PROVE JoinsKept'
    BY <2>5, CrashJoins DEF Crash
  <2>. QED
    BY <1>1, <2>1, <2>4, <2>5, RejectJoins
<1>5. CASE IfCond
  <2>. DEFINE u == Task("IfElse", Node, <<>>, <<len + 2, len + 3>>)
              val == CondBool(ir, m_LastValue).val
              branch == CondBr(val, len + 1, len + 2)
  <2>1. \/ \E text, subject : Reject(text, subject)
        \/ Creates(cond, 3, branch, Node.thenBranch, u)
    BY <1>5 DEF IfCond, ThenAt, Hands
  <2>2. u.do # "ShortRight" /\ ToSet(u.blks) = {len + 2, len + 3}
    BY DEF Task, ToSet
  <2>. HIDE DEF val
  <2>3. branch.op \in Branching /\ ToSet(branch.to) = {len + 1, len + 2}
    <3>. HIDE DEF len
    <3>. QED
      BY Branches
  <2>. HIDE DEF u, Creates, cond, branch
  <2>4. /\ ToSet(branch.to) \subseteq len + 1 .. len + 3
        /\ ToSet(u.blks) \subseteq len + 1 .. len + 3
    BY <1>2, <2>2, <2>3
  <2>. HIDE DEF len
  <2>. QED
    BY <1>1, <1>3, <2>1, <2>2, <2>3, <2>4, RejectJoins
<1>6. CASE VisitWhileStatement
  <2>. DEFINE u == Task("WhileCond", Node, <<>>, <<len + 1, (len + 1) + 1, (len + 1) + 2>>)
              branch == Br(len + 1)
  <2>1. Creates(ir, 3, branch, Node.condition, u)
    BY <1>6 DEF VisitWhileStatement, ThenAt, Hands
  <2>2. u.do # "ShortRight" /\ ToSet(u.blks) = {len + 1, (len + 1) + 1, (len + 1) + 2}
    BY DEF Task, ToSet
  <2>3. branch.op \in Branching /\ ToSet(branch.to) = {len + 1}
    BY Branches
  <2>. HIDE DEF u, Creates, branch
  <2>4. /\ ToSet(branch.to) \subseteq len + 1 .. len + 3
        /\ ToSet(u.blks) \subseteq len + 1 .. len + 3
    BY <1>2, <2>2, <2>3
  <2>. HIDE DEF len
  <2>. QED
    BY <1>1, <1>3, <2>1, <2>2, <2>3, <2>4
<1>7. CASE ForBlocks
  <2>. DEFINE cnd == len + 1
              u == Task("ForCond", Node, <<>>, <<cnd, cnd + 1, cnd + 2, cnd + 3>>)
              branch == Br(cnd)
  <2>1. Creates(ir, 4, branch, Node.condition, u)
    BY <1>7 DEF ForBlocks, ThenAt, Hands
  <2>2. u.do # "ShortRight" /\ ToSet(u.blks) = {cnd, cnd + 1, cnd + 2, cnd + 3}
    BY DEF Task, ToSet
  <2>3. branch.op \in Branching /\ ToSet(branch.to) = {cnd}
    BY Branches
  <2>. HIDE DEF u, Creates, branch
  <2>4. /\ ToSet(branch.to) \subseteq len + 1 .. len + 4
        /\ ToSet(u.blks) \subseteq len + 1 .. len + 4
    BY <1>2, <2>2, <2>3
  <2>. HIDE DEF len
  <2>. QED
    BY <1>1, <1>3, <2>1, <2>2, <2>3, <2>4
<1>. QED
  BY <1>4, <1>5, <1>6, <1>7

LEMMA MoversJoin ==
    ASSUME TypeOK, JoinsKept,
           \/ IfElse \/ IfMerge \/ WhileCond \/ WhileEnd
           \/ ForCond \/ ForUpdate \/ ForEnd
    PROVE  JoinsKept'
<1>1. todo # <<>>
  BY DEF IfElse, IfMerge, WhileCond, WhileEnd, ForCond, ForUpdate, ForEnd, Resuming,
         Running
<1>. DEFINE cond == CondBool(ir, m_LastValue).ir
            val == CondBool(ir, m_LastValue).val
            Held == DOMAIN Top.blks
<1>2. Straight(ir, ir) /\ Straight(cond, ir)
  BY <1>1, StraightSelf, ToBoolStraight
<1>3. /\ Top.do # "ShortRight"
      /\ Top.do = "IfMerge" => 1 \in Held
      /\ Top.do = "IfElse" => 1 \in Held /\ 2 \in Held
      /\ Top.do \in {"WhileCond", "WhileEnd"} => 1 \in Held /\ 2 \in Held /\ 3 \in Held
      /\ Top.do \in {"ForCond", "ForUpdate", "ForEnd"} =>
            1 \in Held /\ 2 \in Held /\ 3 \in Held /\ 4 \in Held
      /\ \A k \in Held : Top.blks[k] \in DOMAIN ir.blocks /\ Top.blks[k] \in Aims(Top)
      /\ Aims(Top) = ToSet(Top.blks)
  <2>1. Top.do # "ShortRight"
    BY DEF IfElse, IfMerge, WhileCond, WhileEnd, ForCond, ForUpdate, ForEnd, Resuming
  <2>2. Top.blks \in Seq(DOMAIN ir.blocks) /\ OwnLocals(Top)
    BY <1>1, TopType
  <2>3. Held = 1..Len(Top.blks)
    BY <2>2, LenProperties
  <2>4. /\ Top.do = "IfMerge" => Len(Top.blks) = 1
        /\ Top.do = "IfElse" => Len(Top.blks) = 2
        /\ Top.do \in {"WhileCond", "WhileEnd"} => Len(Top.blks) = 3
        /\ Top.do \in {"ForCond", "ForUpdate", "ForEnd"} => Len(Top.blks) = 4
    BY <2>2 DEF OwnLocals
  <2>5. \A k \in Held : Top.blks[k] \in DOMAIN ir.blocks
    BY <2>2
  <2>6. Aims(Top) = {Top.blks[k] : k \in Held} /\ Aims(Top) = ToSet(Top.blks)
    BY <2>1 DEF Aims, ToSet
  <2>7. \A k \in Held : Top.blks[k] \in Aims(Top)
    BY <2>6
  <2>. HIDE DEF Held
  <2>8. /\ Top.do = "IfMerge" => 1 \in Held
        /\ Top.do = "IfElse" => 1 \in Held /\ 2 \in Held
    <3>1. ASSUME Top.do = "IfMerge" PROVE 1 \in Held
      <4>1. Len(Top.blks) = 1
        BY ONLY <2>4, <3>1
      <4>. QED
        BY ONLY <2>3, <4>1
    <3>2. ASSUME Top.do = "IfElse" PROVE 1 \in Held /\ 2 \in Held
      <4>1. Len(Top.blks) = 2
        BY ONLY <2>4, <3>2
      <4>. QED
        BY ONLY <2>3, <4>1
    <3>. QED
      BY <3>1, <3>2
  <2>9. Top.do \in {"WhileCond", "WhileEnd"} => 1 \in Held /\ 2 \in Held /\ 3 \in Held
    BY <2>3, <2>4
  <2>10. Top.do \in {"ForCond", "ForUpdate", "ForEnd"} =>
            1 \in Held /\ 2 \in Held /\ 3 \in Held /\ 4 \in Held
    BY <2>3, <2>4
  <2>. QED
    BY <2>1, <2>5, <2>6, <2>7, <2>8, <2>9, <2>10
<1>. DEFINE Goes(child, u) == Hands(child, u) /\ u.do # "ShortRight"
                              /\ ToSet(u.blks) \subseteq Aims(Top)
<1>4. ASSUME NEW g \in {ir, cond}, NEW i \in Held, NEW j \in Held, NEW k \in Held,
             \/ ir' = Leave(g, Br(Top.blks[j]), Top.blks[i])
             \/ ir' = Leave(g, CondBr(val, Top.blks[j], Top.blks[k]), Top.blks[i]),
             Finish \/ \E child, u : Goes(child, u)
      PROVE  JoinsKept'
  <2>1. PICK branch : /\ ir' = Leave(g, branch, Top.blks[i])
                      /\ \/ branch = Br(Top.blks[j])
                         \/ branch = CondBr(val, Top.blks[j], Top.blks[k])
    BY <1>4
  <2>2. branch.op \in Branching /\ ToSet(branch.to) \subseteq {Top.blks[j], Top.blks[k]}
    <3>. DEFINE b == Top.blks[j]
                c == Top.blks[k]
    <3>1. branch = Br(b) \/ branch = CondBr(val, b, c)
      BY <2>1
    <3>. HIDE DEF b, c, val
    <3>2. Br(b).op \in Branching /\ ToSet(Br(b).to) = {b}
      BY Branches
    <3>3. CondBr(val, b, c).op \in Branching /\ ToSet(CondBr(val, b, c).to) = {b, c}
      BY Branches
    <3>4. branch.op \in Branching /\ ToSet(branch.to) \subseteq {b, c}
      BY <3>1, <3>2, <3>3
    <3>. QED
      BY <3>4 DEF b, c
  <2>3. ToSet(branch.to) \subseteq Aims(Top) /\ Top.blks[i] \in DOMAIN ir.blocks
    BY <1>3, <2>2
  <2>4. Straight(g, ir)
    BY <1>2, <1>4
  <2>5. \/ Finish
        \/ \E child, u : /\ Hands(child, u) /\ u.do # "ShortRight"
                        /\ ToSet(u.blks) \subseteq Aims(Top)
    BY <1>4
  <2>. QED
    BY <1>1, <2>1, <2>2, <2>3, <2>4, <2>5, MoverStep
<1>5. ASSUME NEW child, NEW do, do # "ShortRight", Hands(child, ThenAt(do, Top.blks))
      PROVE  Goes(child, ThenAt(do, Top.blks))
  BY <1>3, <1>5 DEF ThenAt, Task
<1>. HIDE DEF cond, val
<1>6. CASE IfElse
  <2>. DEFINE u == Task("IfMerge", Node, <<>>, <<Top.blks[2]>>)
  <2>1. ir' = Leave(ir, Br(Top.blks[2]), Top.blks[1]) /\ Hands(Node.elseBranch, u)
    BY <1>6 DEF IfElse, ThenAt, Hands
  <2>2. u.do # "ShortRight" /\ ToSet(u.blks) = {Top.blks[2]}
    BY DEF Task, ToSet
  <2>3. 1 \in Held /\ 2 \in Held
    BY <1>3, <1>6 DEF IfElse, Resuming
  <2>. HIDE DEF u
  <2>4. Goes(Node.elseBranch, u)
    BY <1>3, <2>1, <2>2, <2>3
  <2>. HIDE DEF Goes
  <2>. QED
    BY <1>4, <2>1, <2>3, <2>4
<1>7. CASE IfMerge
  <2>1. /\ ir' = Leave(ir, Br(Top.blks[1]), Top.blks[1]) /\ Finish
        /\ 1 \in Held
    BY <1>3, <1>7 DEF IfMerge, Resuming
  <2>. QED
    BY <1>4, <2>1
<1>8. CASE WhileCond
  <2>1. \/ \E text, subject : Reject(text, subject)
        \/ /\ ir' = Leave(cond, CondBr(val, Top.blks[2], Top.blks[3]), Top.blks[2])
           /\ Hands(Node.body, ThenAt("WhileEnd", Top.blks))
    BY <1>8 DEF WhileCond, Hands, cond, val
  <2>2. 2 \in Held /\ 3 \in Held
    BY <1>3, <1>8 DEF WhileCond, Resuming
  <2>3. Hands(Node.body, ThenAt("WhileEnd", Top.blks))
           => Goes(Node.body, ThenAt("WhileEnd", Top.blks))
    BY <1>5
  <2>. HIDE DEF Goes
  <2>. QED
    BY <1>1, <1>4, <2>1, <2>2, <2>3, RejectJoins
<1>9. CASE WhileEnd
  <2>1. /\ ir' = Leave(ir, Br(Top.blks[1]), Top.blks[3]) /\ Finish
        /\ 1 \in Held /\ 3 \in Held
    BY <1>3, <1>9 DEF WhileEnd, Resuming
  <2>. QED
    BY <1>4, <2>1
<1>10. CASE ForCond
  <2>1. \/ \E text, subject : Reject(text, subject)
        \/ /\ \/ ir' = Leave(cond, CondBr(val, Top.blks[2], Top.blks[4]), Top.blks[2])
              \/ ir' = Leave(ir, Br(Top.blks[2]), Top.blks[2])
           /\ Hands(Node.body, ThenAt("ForUpdate", Top.blks))
    BY <1>10 DEF ForCond, Hands, cond, val
  <2>2. 2 \in Held /\ 4 \in Held
    BY <1>3, <1>10 DEF ForCond, Resuming
  <2>3. Hands(Node.body, ThenAt("ForUpdate", Top.blks))
           => Goes(Node.body, ThenAt("ForUpdate", Top.blks))
    BY <1>5
  <2>. HIDE DEF Goes
  <2>. QED
    BY <1>1, <1>4, <2>1, <2>2, <2>3, RejectJoins
<1>11. CASE ForUpdate
  <2>1. /\ ir' = Leave(ir, Br(Top.blks[3]), Top.blks[3])
        /\ Hands(Node.update, ThenAt("ForEnd", Top.blks))
    BY <1>11 DEF ForUpdate, Hands
  <2>2. 3 \in Held
    BY <1>3, <1>11 DEF ForUpdate, Resuming
  <2>3. Goes(Node.update, ThenAt("ForEnd", Top.blks))
    BY <1>5, <2>1
  <2>. HIDE DEF Goes
  <2>. QED
    BY <1>4, <2>1, <2>2, <2>3
<1>12. CASE ForEnd
  <2>1. /\ ir' = Leave(ir, Br(Top.blks[1]), Top.blks[4]) /\ Finish
        /\ 1 \in Held /\ 4 \in Held
    BY <1>3, <1>12 DEF ForEnd, Resuming
  <2>. QED
    BY <1>4, <2>1
<1>. QED
  BY <1>6, <1>7, <1>8, <1>9, <1>10, <1>11, <1>12

\* The phi names the block that the left operand ended in and the one that the
\* right operand ends in: the merge block's only predecessor so far and its last.
LEMMA ShortRightJoins ==
    ASSUME TypeOK, JoinsKept, ShortRight
    PROVE  JoinsKept'
<1>1. todo # <<>> /\ Top.do = "ShortRight"
  BY DEF ShortRight, Resuming, Running
<1>. DEFINE bool == ToBool(ir, m_LastValue)
            merge == Top.blks[2]
            left == Top.blks[1]
            moved == Leave(bool.ir, Br(merge), merge)
<1>2. \/ UNCHANGED <<ir, todo>>
      \/ \E text, subject : Reject(text, subject)
      \/ /\ \E v : ir' = Build(moved, Phi(v, left, bool.val, ir.at)).ir
         /\ Finish
  BY DEF ShortRight, MergeShort, Crash
<1>3. ASSUME NEW v, ir' = Build(moved, Phi(v, left, bool.val, ir.at)).ir, Finish
      PROVE  JoinsKept'
  <2>. DEFINE phi == Phi(v, left, bool.val, ir.at)
              T == {merge}
              tasks == <<>>
  <2>1. phi.op = "phi" /\ ToSet(phi.to) = {left, ir.at}
    BY DEF Phi, Inst, ToSet
  <2>2. ir' = Emit(moved, phi)
    BY <1>3 DEF Build
  <2>3. /\ Built(bool.ir) /\ bool.ir.at = ir.at /\ DOMAIN bool.ir.blocks = DOMAIN ir.blocks
        /\ \A b : Predecessors(bool.ir, b) = Predecessors(ir, b)
        /\ \A b \in DOMAIN ir.blocks : Merges(bool.ir, b) = Merges(ir, b)
    BY <1>1, StraightSelf, ToBoolStraight DEF Straight
  <2>4. /\ 1 \in DOMAIN todo /\ Top = todo[1]
        /\ merge \in DOMAIN ir.blocks /\ Aims(Top) = {merge}
        /\ Predecessors(ir, merge) = {left}
    <3>1. Len(todo) > 0 /\ Top = todo[1] /\ DOMAIN todo = 1..Len(todo) /\ Len(todo) \in Nat
      BY <1>1, LenProperties DEF TypeOK, Top
    <3>2. 1 \in DOMAIN todo
      BY <3>1
    <3>. QED
      BY <1>1, <3>1, <3>2, AimsExist DEF JoinsKept, Waiting, Aims
  <2>. HIDE DEF bool, phi, merge, left
  <2>5. /\ Built(moved) /\ DOMAIN moved.blocks = DOMAIN ir.blocks /\ moved.at = merge
        /\ \A c : Predecessors(moved, c) =
              Predecessors(ir, c) \cup (IF c = merge THEN {ir.at} ELSE {})
        /\ \A c \in DOMAIN ir.blocks : Merges(moved, c) = Merges(ir, c)
    <3>. DEFINE br == Br(merge)
    <3>1. br.op \in Branching /\ br.op # "phi" /\ ToSet(br.to) = {merge}
      BY Branches
    <3>. HIDE DEF br
    <3>2. /\ Built(Leave(bool.ir, br, merge))
          /\ DOMAIN Leave(bool.ir, br, merge).blocks = DOMAIN bool.ir.blocks
          /\ Leave(bool.ir, br, merge).at = merge
          /\ \A c : Predecessors(Leave(bool.ir, br, merge), c) =
                Predecessors(bool.ir, c) \cup
                   (IF br.op \in Branching /\ c \in ToSet(br.to) THEN {bool.ir.at} ELSE {})
          /\ \A c \in DOMAIN bool.ir.blocks :
                Merges(Leave(bool.ir, br, merge), c) = Merges(bool.ir, c)
      BY <2>3, <2>4, <3>1, LeaveEffect
    <3>3. moved = Leave(bool.ir, br, merge)
      BY DEF br
    <3>. HIDE DEF moved
    <3>. QED
      BY <2>3, <3>1, <3>2, <3>3
  <2>. HIDE DEF moved
  <2>6. /\ DOMAIN ir'.blocks = DOMAIN ir.blocks
        /\ \A c : Predecessors(ir', c) =
              Predecessors(moved, c) \cup
                 (IF phi.op \in Branching /\ c \in ToSet(phi.to) THEN {moved.at} ELSE {})
        /\ \A c \in DOMAIN moved.blocks : Merges(ir', c) =
              Merges(moved, c) \cup
                 (IF phi.op = "phi" /\ c = moved.at THEN {ToSet(phi.to)} ELSE {})
    <3>. DEFINE h == Emit(moved, phi)
    <3>1. /\ DOMAIN h.blocks = DOMAIN moved.blocks
          /\ \A c : Predecessors(h, c) =
                Predecessors(moved, c) \cup
                   (IF phi.op \in Branching /\ c \in ToSet(phi.to) THEN {moved.at} ELSE {})
          /\ \A c \in DOMAIN moved.blocks : Merges(h, c) =
                Merges(moved, c) \cup
                   (IF phi.op = "phi" /\ c = moved.at THEN {ToSet(phi.to)} ELSE {})
      BY <2>5, EmitEffect
    <3>2. ir' = h
      BY <2>2
    <3>. HIDE DEF h
    <3>. QED
      BY <2>5, <3>1, <3>2
  <2>7. \A c : Predecessors(ir', c) =
            Predecessors(ir, c) \cup (IF c = merge THEN {ir.at} ELSE {})
    BY <2>1, <2>5, <2>6 DEF Branching
  <2>8. Predecessors(ir', merge) = {left, ir.at}
    BY <2>4, <2>7
  <2>9. ASSUME NEW c \in DOMAIN ir'.blocks, NEW from \in Merges(ir', c)
        PROVE  \/ c \in DOMAIN ir.blocks /\ from \in Merges(ir, c)
               \/ c = merge /\ from = Predecessors(ir', c)
    <3>1. Merges(ir', c) =
             Merges(ir, c) \cup (IF c = merge THEN {{left, ir.at}} ELSE {})
      BY <2>1, <2>5, <2>6
    <3>2. CASE c = merge
      BY <2>6, <2>8, <3>1, <3>2
    <3>3. CASE c # merge
      BY <2>6, <3>1, <3>3
    <3>. QED
      BY <3>2, <3>3
  <2>10. tasks \in Seq({}) /\ Proceed(tasks) /\ DOMAIN tasks = {}
    BY <1>3 DEF Finish
  <2>11. /\ \A b \in T : Loose(b)
         /\ T \subseteq DOMAIN ir'.blocks /\ DOMAIN ir.blocks \subseteq DOMAIN ir'.blocks
         /\ \A b : b \notin T => Predecessors(ir', b) = Predecessors(ir, b)
    BY <2>4, <2>6, <2>7 DEF Loose
  <2>12. /\ \A k \in DOMAIN tasks : \A b \in Aims(tasks[k]) : Loose(b)
         /\ \A k \in DOMAIN tasks : tasks[k].do # "ShortRight"
    BY <2>10
  <2>. HIDE DEF tasks, T
  <2>13. \A c \in DOMAIN ir'.blocks : \A from \in Merges(ir', c) :
            \/ c \in DOMAIN ir.blocks /\ from \in Merges(ir, c)
            \/ /\ Top.do = "ShortRight" /\ c = Top.blks[2] /\ DOMAIN tasks = {}
               /\ from = Predecessors(ir', c)
    BY <1>1, <2>9, <2>10 DEF merge
  <2>. QED
    BY <1>1, <2>10, <2>11, <2>12, <2>13, JoinStep
<1>4. ASSUME UNCHANGED <<ir, todo>> PROVE JoinsKept'
  BY <1>4, CrashJoins
<1>. QED
  BY <1>1, <1>2, <1>3, <1>4, RejectJoins

\* A new function has one block, and nothing leads anywhere in it.
LEMMA DeclarationsJoin ==
    ASSUME TypeOK, JoinsKept, Declarations
    PROVE  JoinsKept'
<1>1. CASE VisitInterfaceDecl \/ VisitStructDecl
  <2>1. UNCHANGED <<ir, todo>>
    BY <1>1 DEF VisitInterfaceDecl, VisitStructDecl
  <2>. QED
    BY <2>1, CrashJoins
<1>2. CASE VisitFunctionDecl
  <2>. DEFINE entry == <<Block(TRUE, <<>>)>>
  <2>1. /\ DOMAIN entry = {1}
        /\ \A b \in DOMAIN entry : entry[b].code = <<>>
    BY DEF Block
  <2>. HIDE DEF entry
  <2>2. ir'.blocks = entry
    BY <1>2 DEF VisitFunctionDecl, NewFunction, Func, entry
  <2>3. \A b \in DOMAIN ir'.blocks : DOMAIN ir'.blocks[b].code = {}
    BY <2>1, <2>2
  <2>4. /\ \A b \in DOMAIN ir'.blocks : Merges(ir', b) = {}
        /\ \A b, p : p \notin Predecessors(ir', b)
    BY <2>3, Read
  <2>5. PICK n : todo' = IfPresent(n)
    BY <1>2 DEF VisitFunctionDecl
  <2>6. /\ Visit(n).do # "ShortRight"
        /\ \A k \in DOMAIN IfPresent(n) : IfPresent(n)[k] = Visit(n)
    <3>1. Visit(n).do # "ShortRight"
      BY DEF Visit, Task
    <3>2. DOMAIN <<Visit(n)>> = {1} /\ <<Visit(n)>>[1] = Visit(n)
      OBVIOUS
    <3>. QED
      BY <3>1, <3>2 DEF IfPresent
  <2>7. Known'
    BY <2>4 DEF Known, Predecessors
  <2>. QED
    BY <2>4, <2>5, <2>6, <2>7 DEF JoinsKept, Waiting, Joined
<1>3. CASE EndFunctionDecl
  <2>1. /\ todo = <<>> /\ todo' = todo /\ function # Null
        /\ ir' = ir \/ ir' = Emit(ir, RetVoid)
    BY <1>3 DEF EndFunctionDecl, Between
  <2>2. ir \in WellBuilt
    BY <2>1 DEF TypeOK, WellBuilt
  <2>3. Straight(ir, ir)
    BY <2>2, WellBuiltIsBuilt DEF Straight
  <2>4. Ordinary(RetVoid)
    BY OrdinaryInstructions DEF RetVoid
  <2>5. Straight(ir', ir)
    BY <2>1, <2>3, <2>4, EmitStraight
  <2>6. /\ DOMAIN ir'.blocks = DOMAIN ir.blocks
        /\ \A b : Predecessors(ir', b) = Predecessors(ir, b)
        /\ \A b \in DOMAIN ir.blocks : Merges(ir', b) = Merges(ir, b)
    BY <2>5 DEF Straight
  <2>7. Known'
    <3>1. ASSUME NEW p \in DOMAIN ir'.blocks, NEW b \in Successors(ir', p)
          PROVE  b \in DOMAIN ir'.blocks
      <4>1. p \in Predecessors(ir', b)
        BY <3>1 DEF Predecessors
      <4>2. p \in DOMAIN ir.blocks /\ b \in Successors(ir, p)
        BY <2>6, <4>1 DEF Predecessors
      <4>. QED
        BY <2>6, <4>2 DEF JoinsKept, Known
    <3>. QED
      BY <3>1 DEF Known
  <2>8. DOMAIN todo = {}
    BY <2>1
  <2>. QED
    BY <2>1, <2>6, <2>7, <2>8 DEF JoinsKept, Waiting, Joined
<1>. QED
  BY <1>1, <1>2, <1>3 DEF Declarations

\* What the invariant says of the phis is what the runs check of them.
LEMMA JoinedPhis ==
    ASSUME JoinsKept
    PROVE  PhiCoversPredecessors
<1>1. ASSUME NEW pos \in Positions(ir), InstAt(ir, pos).op = "phi"
      PROVE  ToSet(InstAt(ir, pos).to) = Predecessors(ir, pos[1])
  <2>1. PICK b \in DOMAIN ir.blocks : pos \in {<<b, k>> : k \in DOMAIN ir.blocks[b].code}
    BY DEF Positions
  <2>2. PICK k \in DOMAIN ir.blocks[b].code : pos = <<b, k>>
    BY <2>1
  <2>3. pos[1] = b /\ pos[2] = k
    BY <2>2
  <2>4. InstAt(ir, pos) = ir.blocks[b].code[k]
    BY <2>3 DEF InstAt
  <2>5. ToSet(ir.blocks[b].code[k].to) \in Merges(ir, b)
    BY <1>1, <2>4, Read
  <2>. QED
    BY <2>1, <2>3, <2>4, <2>5 DEF JoinsKept, Joined
<1>. QED
  BY <1>1 DEF PhiCoversPredecessors

LEMMA InitJoins ==
    ASSUME Init
    PROVE  JoinsKept
<1>1. ir = NoFunction /\ todo = <<>>
  BY DEF Init
<1>2. NoFunction.blocks = <<>>
  BY DEF NoFunction, Func
<1>3. (ir.blocks = <<>> => DOMAIN ir.blocks = {}) /\ (todo = <<>> => DOMAIN todo = {})
  OBVIOUS
<1>. QED
  BY <1>1, <1>2, <1>3 DEF JoinsKept, Known, Waiting, Joined

\* Whatever the operands of && and || contain, the phi that ends one names
\* every block that branches to its own, and no other (MergeShort of
\* CodeGen.cpp's VisitBinaryExpr, with the blocks as they are when it is built
\* and at every step that follows).
THEOREM PhisCoverPredecessors == Spec => []PhiCoversPredecessors
<1>. DEFINE IInv == TypeOK /\ JoinsKept
<1>1. Init => IInv
  BY InitTypes, InitJoins
<1>2. IInv /\ [Next]_vars => IInv'
  <2>. SUFFICES ASSUME TypeOK, JoinsKept, [Next]_vars
                PROVE  TypeOK' /\ JoinsKept'
    OBVIOUS
  <2>1. TypeOK'
    BY NextTypes, StutterTypes
  <2>2. CASE Expressions
    BY <2>1, <2>2, VisitsJoin, ListsJoin, EmittersJoin, CreatorsJoin, ShortRightJoins
       DEF Expressions
  <2>3. CASE Statements
    <3>1. VisitNull => UNCHANGED <<ir, todo>>
      BY DEF VisitNull, Crash
    <3>. QED
      BY <2>1, <2>3, <3>1, CrashJoins, VisitsJoin, ListsJoin, EmittersJoin,
         CreatorsJoin, MoversJoin DEF Statements
  <2>4. CASE Declarations
    BY <2>1, <2>4, DeclarationsJoin
  <2>5. CASE UNCHANGED vars
    <3>1. UNCHANGED <<ir, todo>>
      BY <2>5 DEF vars
    <3>. QED
      BY <2>1, <3>1, CrashJoins
  <2>. QED
    BY <2>2, <2>3, <2>4, <2>5 DEF Next
<1>3. IInv => PhiCoversPredecessors
  BY JoinedPhis
<1>. QED
  BY <1>1, <1>2, <1>3, PTL DEF Spec
=============================================================================
