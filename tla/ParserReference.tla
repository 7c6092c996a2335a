-------------------------- MODULE ParserReference --------------------------
(***************************************************************************)
(* A reference for module Parser: the grammar, read the other way round.   *)
(* Spell writes a tree as tokens, with no parentheses but those that it    *)
(* needs.                                                                  *)
(***************************************************************************)
EXTENDS Parser, SequencesExt

RECURSIVE Spell(_)

\* How tightly an expression binds: 0 for an assignment, the level of its
\* operator for a binary one, and above these.
Binding(n) ==
    CASE n.kind = "AssignExpr" -> 0
      [] n.kind = "BinaryExpr" -> CHOOSE k \in DOMAIN Levels : n.op \in Levels[k]
      [] n.kind \in {"UnaryExpr", "PrefixExpr"} -> 11
      [] n.kind = "PostfixExpr" -> 12
      [] OTHER -> 13

\* The operand n of an operator that binds as tightly as level.
InPlace(n, level) ==
    IF Binding(n) >= level THEN Spell(n)
    ELSE <<Symbol("(")>> \o Spell(n) \o <<Symbol(")")>>

Name(text) == <<Token("Identifier", text)>>
TypeName(text) == IF text \in TypeKeywords THEN <<Symbol(text)>> ELSE Name(text)
TypeTokens(type) ==
    TypeName(type.name)
        \o (IF type.isPointer THEN <<Symbol("*")>> ELSE <<>>)
        \o (IF type.isNullable THEN <<Symbol("?")>> ELSE <<>>)

LiteralToken(value) == CHOOSE t \in DOMAIN LiteralValue : LiteralValue[t] = value

Optional(n) == IF n = Null THEN <<>> ELSE Spell(n)

\* The texts, one after the other, with a separator between them.
Joined(texts, separator) ==
    FoldLeft(LAMBDA all, text : IF all = <<>> THEN text ELSE all \o separator \o text,
             <<>>, texts)
Concatenated(texts) == Joined(texts, <<>>)

Declared(name, type) == Name(name) \o <<Symbol(":")>> \o TypeTokens(type)

Spell(n) ==
    CASE n.kind = "LiteralExpr" -> <<LiteralToken(n.value)>>
      [] n.kind = "VarExpr" -> Name(n.name)
      [] n.kind = "MemberAccessExpr" ->
            Spell(n.object) \o <<Symbol(".")>> \o Name(n.memberName)
      [] n.kind = "CallExpr" ->
            Name(n.callee) \o <<Symbol("(")>>
              \o Joined([k \in DOMAIN n.arguments |-> Spell(n.arguments[k])],
                        <<Symbol(",")>>)
              \o <<Symbol(")")>>
      [] n.kind = "AllocExpr" ->
            <<Symbol("alloc"), Symbol("<")>> \o Name(n.allocType.name)
              \o <<Symbol(">"), Symbol("("), Symbol(")")>>
      [] n.kind = "CastExpr" ->
            <<Symbol("(")>> \o TypeTokens(n.targetType) \o <<Symbol(")")>>
              \o InPlace(n.expr, 13)
      [] n.kind \in {"UnaryExpr", "PrefixExpr"} ->
            <<Symbol(n.op)>> \o InPlace(n.operand, 11)
      [] n.kind = "PostfixExpr" -> InPlace(n.operand, 12) \o <<Symbol(n.op)>>
      [] n.kind = "BinaryExpr" ->
            InPlace(n.left, Binding(n)) \o <<Symbol(n.op)>>
              \o InPlace(n.right, Binding(n) + 1)
      [] n.kind = "AssignExpr" -> Name(n.name) \o <<Symbol("=")>> \o Spell(n.value)
      [] n.kind = "ExprStatement" -> Spell(n.expression) \o <<Symbol(";")>>
      [] n.kind = "ReturnStatement" ->
            <<Symbol("return")>> \o Optional(n.value) \o <<Symbol(";")>>
      [] n.kind = "VariableDecl" ->
            <<Symbol(IF n.isMutable THEN "var" ELSE "val")>>
              \o (IF n.varType = Inferred THEN Name(n.name) \o <<Symbol(":=")>>
                  ELSE Declared(n.name, n.varType)
                         \o (IF n.initializer = Null THEN <<>> ELSE <<Symbol("=")>>))
              \o Optional(n.initializer) \o <<Symbol(";")>>
      [] n.kind = "IfStatement" ->
            <<Symbol("if"), Symbol("(")>> \o Spell(n.condition) \o <<Symbol(")")>>
              \o Spell(n.thenBranch)
              \o (IF n.elseBranch = Null THEN <<>>
                  ELSE <<Symbol("else")>> \o Spell(n.elseBranch))
      [] n.kind = "WhileStatement" ->
            <<Symbol("while"), Symbol("(")>> \o Spell(n.condition) \o <<Symbol(")")>>
              \o Spell(n.body)
      [] n.kind = "ForStatement" ->
            <<Symbol("for"), Symbol("(")>>
              \o (IF n.init = Null THEN <<Symbol(";")>> ELSE Spell(n.init))
              \o Optional(n.condition) \o <<Symbol(";")>>
              \o Optional(n.update) \o <<Symbol(")")>> \o Spell(n.body)
      [] n.kind = "BlockStatement" ->
            <<Symbol("{")>>
              \o Concatenated([k \in DOMAIN n.statements |-> Spell(n.statements[k])])
              \o <<Symbol("}")>>
      [] n.kind = "FunctionDecl" ->
            <<Symbol("fn")>> \o Name(n.name) \o <<Symbol("(")>>
              \o Joined([k \in DOMAIN n.params |->
                            Declared(n.params[k].name, n.params[k].type)],
                        <<Symbol(",")>>)
              \o <<Symbol(")")>>
              \o (IF n.returnType = Plain("void") THEN <<>>
                  ELSE <<Symbol("->")>> \o TypeTokens(n.returnType))
              \o Spell(n.body)
      [] n.kind = "StructDecl" ->
            <<Symbol("struct")>> \o Name(n.name)
              \o (IF n.interfaceImplemented = "none" THEN <<>>
                  ELSE <<Symbol(":")>> \o Name(n.interfaceImplemented))
              \o <<Symbol("{")>>
              \o Concatenated([k \in DOMAIN n.fields |->
                     Declared(n.fields[k].name, n.fields[k].type) \o <<Symbol(";")>>])
              \o <<Symbol("}")>>
      [] n.kind = "InterfaceDecl" ->
            <<Symbol("interface")>> \o Name(n.name) \o <<Symbol("{")>>
              \o Concatenated([k \in DOMAIN n.methods |->
                     <<Symbol("fn")>> \o Name(n.methods[k])
                       \o <<Symbol("("), Symbol(")"), Symbol(";")>>])
              \o <<Symbol("}")>>

SpellDeclarations(decls) == Concatenated([k \in DOMAIN decls |-> Spell(decls[k])])
SpellProgram(decls) == Append(SpellDeclarations(decls), EndOfFile)

(***************************************************************************)
(* An input in the form in which Spell writes it, parentheses aside: the   *)
(* compound assignments written out, "struct" left out of casts, an        *)
(* explicit void result left out, and nothing outside of the declarations. *)
(***************************************************************************)
IsParenthesis(t) == t.m_type \in {"(", ")"}
WithoutParentheses(tokens) == SelectSeq(tokens, LAMBDA t : ~IsParenthesis(t))

\* The tokens that belong to a declaration, from its keyword to its last "}",
\* but for the "struct" of a cast.
InDeclarations(tokens) ==
    LET read[k \in 0..Len(tokens)] ==
            IF k = 0 THEN [kept |-> <<>>, depth |-> 0, inside |-> FALSE]
            ELSE LET was == read[k - 1]
                     type == tokens[k].m_type
                     inside == was.inside \/ type \in {"interface", "struct", "fn"}
                     depth == was.depth + (IF ~inside THEN 0
                                           ELSE IF type = "{" THEN 1
                                           ELSE IF type = "}" THEN -1 ELSE 0)
                 IN  [kept |-> IF inside /\ ~(was.inside /\ type = "struct")
                               THEN Append(was.kept, tokens[k]) ELSE was.kept,
                      depth |-> depth,
                      inside |-> inside /\ ~(type = "}" /\ depth = 0)]
    IN  read[Len(tokens)].kept

\* Token k and the next one are "-> void", the result that goes without saying.
VoidResult(tokens, k) ==
    /\ k \in 1..(Len(tokens) - 2)
    /\ tokens[k].m_type = "->"
    /\ tokens[k + 1].m_type = "void"
    /\ tokens[k + 2].m_type # "*"

\* What token k of the sequence is written as.
WrittenOut(tokens, k) ==
    LET type == tokens[k].m_type
    IN  CASE \E pair \in CompoundOperators : pair[1] = type ->
                <<Symbol("="), tokens[k - 1], Symbol(CompoundOp(type))>>
          [] VoidResult(tokens, k) \/ VoidResult(tokens, k - 1) -> <<>>
          [] OTHER -> <<tokens[k]>>

Normal(tokens) ==
    LET bare == WithoutParentheses(InDeclarations(tokens))
    IN  Concatenated([k \in DOMAIN bare |-> WrittenOut(bare, k)])

\* Nothing is lost, made up or moved in silence: when nothing was printed, the
\* tree spells the input, token by token.
TreeSpellsInput ==
    parsed /\ errors = {} =>
        WithoutParentheses(SpellDeclarations(program)) = Normal(m_Tokens)
=============================================================================
