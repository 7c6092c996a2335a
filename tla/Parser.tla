------------------------------- MODULE Parser -------------------------------
(***************************************************************************)
(* jlang's Parser (src/Parser/Parser.cpp): recursive descent over the      *)
(* tokens of a file.  Errors are printed and parsing goes on: a construct  *)
(* that cannot be completed leaves a null child, a missing token is passed *)
(* over, and only some errors skip tokens to find a place to resume.       *)
(*                                                                         *)
(* The C++ call stack is the agenda "todo", as in module CodeGen: a task   *)
(* is a call of a Parse function that is still to be made, or the rest of  *)
(* one that waits for the node another call returns.  The node of a task   *)
(* is the node that function is building, with the children it has so far. *)
(***************************************************************************)
EXTENDS Ast

CONSTANTS
    Inputs,         \* the token sequences that Scanner::Tokenize returns
    LiteralValue,   \* literal token -> what its text stands for (LiteralExpr)
    UppercaseNames  \* the names that begin with an uppercase letter

(***************************************************************************)
(* Tokens.  The TokenType of a keyword or symbol is written as the keyword *)
(* or symbol itself, its lexeme.  No token has the text that stands for    *)
(* no text (module Ast).                                                   *)
(***************************************************************************)
TokenTypes == [m_type : STRING, m_lexeme : STRING \ {"none"}]

Token(type, lexeme) == [m_type |-> type, m_lexeme |-> lexeme]
Symbol(text) == Token(text, text)
EndOfFile == Token("EndOfFile", "")

Semicolon == ";"
Comma == ","
LBrace == "{"
RBrace == "}"

TypeKeywords ==
    {"void", "i8", "i16", "i32", "i64", "u8", "u16", "u32", "u64", "f32", "f64",
     "bool", "char"}

LiteralTypes ==
    {"null", "true", "false", "StringLiteral", "NumberLiteral", "FloatLiteral",
     "CharLiteral"}

\* What is printed, named by its text.
Messages ==
    {"OnlyPointerTypesCanBeNullable", "ExpectedInterfaceName",
     "ExpectedLBraceAfterInterfaceName", "ExpectedFnInInterfaceMethod",
     "ExpectedMethodName", "ExpectedParensAndSemicolonAfterMethodName",
     "ExpectedRBraceAtEndOfInterface", "ExpectedStructName",
     "ExpectedInterfaceNameAfterColon", "ExpectedLBraceAfterStructDeclaration",
     "ExpectedFieldName", "ExpectedColonAfterFieldName", "ExpectedFieldType",
     "ExpectedSemicolonAfterStructField", "ExpectedRBraceAfterStructBody",
     "ExpectedFunctionName", "ExpectedLParenAfterFunctionName",
     "ExpectedParameterName", "ExpectedColonAfterParameterName",
     "ExpectedParameterType", "ExpectedRParenAfterParameters",
     "ExpectedReturnTypeAfterArrow", "ExpectedLBraceAtTheBeginningOfTheBlock",
     "ExpectedRBraceAfterBlock", "ExpectedSemicolonAfterReturnStatement",
     "ExpectedVariableName", "ExpectedColonOrColonEqualAfterVariableName",
     "ExpectedVariableType", "ExpectedSemicolonAfterVariableDeclaration",
     "ExpectedInitializerExpressionAfterColonEqual", "ExpectedLParenAfterIf",
     "ExpectedRParenAfterCondition", "ExpectedLParenAfterWhile",
     "ExpectedLParenAfterFor", "ExpectedSemicolonAfterForLoopCondition",
     "ExpectedRParenAfterForClauses", "ExpectedSemicolonAfterExpression",
     "InvalidAssignmentTarget", "InvalidCompoundAssignmentTarget",
     "ExpectedLessAfterAlloc", "ExpectedTypeNameInAlloc",
     "ExpectedGreaterAfterTypeInAlloc", "ExpectedParensAfterAlloc",
     "ExpectedTypeNameInCast", "ExpectedRParenAfterCastType",
     "ExpectedRParenAfterGroupedExpression", "ExpectedRParenAfterArguments",
     "ExpectedMemberNameAfterDot", "ExpectedExpression"}

\* Tokenize ends every sequence with the one EndOfFile.
ASSUME InputAssumption ==
    \A tokens \in Inputs :
        /\ tokens \in Seq(TokenTypes)
        /\ tokens # <<>>
        /\ \A k \in DOMAIN tokens :
              tokens[k].m_type = "EndOfFile" <=> k = Len(tokens)

\* The text of an operator's token is the operator, and LiteralExpr can hold what
\* a literal stands for.
Readable(tokens) ==
    \A k \in DOMAIN tokens :
        /\ tokens[k].m_type \in BinaryOperators \cup {"!", "~", "++", "--"} =>
              tokens[k].m_lexeme = tokens[k].m_type
        /\ tokens[k].m_type \in LiteralTypes =>
              LiteralValue[tokens[k]] \in [class : STRING, num : Int]

ASSUME TokenAssumption == \A tokens \in Inputs : Readable(tokens)

VARIABLES
    m_Tokens,           \* the input
    m_CurrentPosition,  \* how many tokens have been consumed
    todo,               \* the agenda
    returned,           \* the node the last Parse function to end returned
    program,            \* the declarations parsed so far
    errors,             \* the messages printed
    parsed              \* Parse has returned

vars == <<m_Tokens, m_CurrentPosition, todo, returned, program, errors, parsed>>

(***************************************************************************)
(* Looking at the token at position i, counted from 0.                     *)
(***************************************************************************)
Here == m_CurrentPosition
Type(i) == m_Tokens[i + 1].m_type
Lexeme(i) == m_Tokens[i + 1].m_lexeme

At(i, type) == Type(i) = type              \* Check
AtAny(i, types) == Type(i) \in types
EndAt(i) == At(i, "EndOfFile")             \* IsEndReached
\* Fault: does not stop at the end.
FaultyAdvance(i) == i + 1
Advance(i) == IF EndAt(i) THEN i ELSE i + 1

\* IsMatched: the position after it, and the error if it does not match.
Match(i, type) == IF At(i, type) THEN i + 1 ELSE i
Missing(i, type, message) == IF At(i, type) THEN {} ELSE {message}

(***************************************************************************)
(* Types: a name, '*', and '?' which only a pointer may have.              *)
(***************************************************************************)
HasTypeName(i) == AtAny(i, TypeKeywords \cup {"Identifier"})   \* ParseTypeName

\* Fault: a '?' is passed over in silence where it means nothing.
FaultyTypeFrom(name, i) ==
    LET isPointer == At(i, "*")
        j == Match(i, "*")
    IN  [type |-> TypeRef(name, isPointer, isPointer /\ At(j, "?")),
         after |-> Match(j, "?"),
         errors |-> {}]

\* The type whose name has been read, with what follows the name at i.
TypeFrom(name, i) ==
    LET isPointer == At(i, "*")
        j == Match(i, "*")
    IN  [type |-> TypeRef(name, isPointer, isPointer /\ At(j, "?")),
         after |-> Match(j, "?"),
         errors |-> IF ~isPointer /\ At(j, "?")
                    THEN {"OnlyPointerTypesCanBeNullable"} ELSE {}]

ParseType(i) == TypeFrom(Lexeme(i), i + 1)

(***************************************************************************)
(* The agenda.                                                             *)
(***************************************************************************)
Task(do, levels, node) == [do |-> do, levels |-> levels, node |-> node]
Parse(what) == Task(what, {}, Null)
Rest(do, node) == Task(do, {}, node)

Top == Head(todo)
Node == Top.node

Running(do) == ~parsed /\ todo # <<>> /\ Top.do = do

Goto(i) == m_CurrentPosition' = i
Proceed(tasks) == todo' = tasks \o Tail(todo)
Report(messages) == errors' = errors \cup messages

\* One step: reads up to i, prints messages, leaves n as what was returned
\* last, and goes on with tasks in the place of the one that was running.
Step(n, tasks, i, messages) ==
    /\ returned' = n
    /\ Proceed(tasks)
    /\ Goto(i)
    /\ Report(messages)
    /\ UNCHANGED <<m_Tokens, program, parsed>>

Complete(n, i, messages) == Step(n, <<>>, i, messages)    \* return n
Fail(i, message) == Step(Null, <<>>, i, {message})        \* return nullptr
Continue(tasks, i, messages) == Step(returned, tasks, i, messages)
Call(i, tasks) == Step(returned, tasks, i, {})

\* Error recovery: past the next ';', or to the next '}' or the end.
Recover ==
    /\ Running("Recover")
    /\ IF AtAny(Here, {Semicolon, RBrace, "EndOfFile"})
       THEN Call(Match(Here, Semicolon), <<>>)
       ELSE Call(Here + 1, <<Top>>)

(***************************************************************************)
(* Parse and ParseDeclaration.                                             *)
(***************************************************************************)
AtDeclaration(type) == ~parsed /\ todo = <<>> /\ At(Here, type)

\* Begins the declaration n, having read up to i.
Begin(do, n, i, messages) ==
    /\ Report(messages)
    /\ Goto(i)
    /\ todo' = <<Rest(do, n)>>
    /\ UNCHANGED <<m_Tokens, returned, program, parsed>>

\* The declaration n is complete, having read up to i.
Declare(n, i, messages) ==
    /\ program' = Append(program, n)
    /\ Report(messages)
    /\ Goto(i)
    /\ returned' = n
    /\ Proceed(<<>>)
    /\ UNCHANGED <<m_Tokens, parsed>>

\* Fault: what follows the token is passed over with it.
FaultySkipStray ==
    /\ ~parsed /\ todo = <<>>
    /\ ~AtAny(Here, {"interface", "struct", "fn", "EndOfFile"})
    /\ Goto(Advance(Here + 1))
    /\ UNCHANGED <<m_Tokens, todo, returned, program, errors, parsed>>

\* Anything else at the top level is passed over, and nothing is printed.
SkipStray ==
    /\ ~parsed /\ todo = <<>>
    /\ ~AtAny(Here, {"interface", "struct", "fn", "EndOfFile"})
    /\ Goto(Here + 1)
    /\ UNCHANGED <<m_Tokens, todo, returned, program, errors, parsed>>

ParseEnd ==
    /\ AtDeclaration("EndOfFile")
    /\ parsed' = TRUE
    /\ UNCHANGED <<m_Tokens, m_CurrentPosition, todo, returned, program, errors>>

(***************************************************************************)
(* Interfaces.                                                             *)
(***************************************************************************)
ParseInterface ==
    /\ AtDeclaration("interface")
    /\ LET brace == Match(Here + 1, "Identifier")
       IN  Begin("Methods", InterfaceDecl(Lexeme(brace - 1), <<>>),
                 Match(brace, LBrace),
                 Missing(Here + 1, "Identifier", "ExpectedInterfaceName")
                   \cup Missing(brace, LBrace, "ExpectedLBraceAfterInterfaceName"))

\* After "(" and ")", as far as they are there.
AfterParens(i) == IF At(i, "(") THEN Match(i + 1, ")") ELSE i

\* fn name ( ) ;
InterfaceMethod ==
    /\ Running("Methods")
    /\ ~AtAny(Here, {RBrace, "EndOfFile"})
    /\ LET end == AfterParens(Here + 2)
           method == InterfaceDecl(Node.name, Append(Node.methods, Lexeme(Here + 1)))
       IN  IF ~At(Here, "fn")
           THEN Continue(<<Top>>, Here + 1, {"ExpectedFnInInterfaceMethod"})
           ELSE IF ~At(Here + 1, "Identifier")
           THEN Continue(<<Top>>, Advance(Here + 1), {"ExpectedMethodName"})
           ELSE IF end # Here + 4 \/ ~At(end, Semicolon)
           THEN Continue(<<Parse("Recover"), Top>>, end,
                         {"ExpectedParensAndSemicolonAfterMethodName"})
           ELSE Call(end + 1, <<Rest("Methods", method)>>)

EndInterface ==
    /\ Running("Methods")
    /\ AtAny(Here, {RBrace, "EndOfFile"})
    /\ Declare(Node, Match(Here, RBrace),
               Missing(Here, RBrace, "ExpectedRBraceAtEndOfInterface"))

(***************************************************************************)
(* Structs.                                                                *)
(***************************************************************************)
ParseStruct ==
    /\ AtDeclaration("struct")
    /\ LET colon == Match(Here + 1, "Identifier")
           implements == At(colon, ":")
           brace == IF implements THEN Match(colon + 1, "Identifier") ELSE colon
       IN  Begin("Fields",
                 StructDecl(Lexeme(colon - 1),
                            IF implements THEN Lexeme(brace - 1) ELSE "none", <<>>),
                 Match(brace, LBrace),
                 Missing(Here + 1, "Identifier", "ExpectedStructName")
                   \cup (IF implements
                         THEN Missing(colon + 1, "Identifier",
                                      "ExpectedInterfaceNameAfterColon")
                         ELSE {})
                   \cup Missing(brace, LBrace, "ExpectedLBraceAfterStructDeclaration"))

\* name : Type ;
ParseField ==
    /\ Running("Fields")
    /\ ~AtAny(Here, {RBrace, "EndOfFile"})
    /\ LET abandon(i, message) ==
               Continue(<<Parse("Recover"), Top>>, i, {message})
           name == Lexeme(Here)
           type == ParseType(Here + 2)
           field == StructField(name, type.type, name \in UppercaseNames)
           decl == StructDecl(Node.name, Node.interfaceImplemented,
                              Append(Node.fields, field))
       IN  IF ~At(Here, "Identifier") THEN abandon(Here, "ExpectedFieldName")
           ELSE IF ~At(Here + 1, ":")
           THEN abandon(Here + 1, "ExpectedColonAfterFieldName")
           ELSE IF ~HasTypeName(Here + 2) THEN abandon(Here + 2, "ExpectedFieldType")
           ELSE Continue(<<Rest("Fields", decl)>>, Match(type.after, Semicolon),
                         type.errors \cup Missing(type.after, Semicolon,
                                                  "ExpectedSemicolonAfterStructField"))

EndStruct ==
    /\ Running("Fields")
    /\ AtAny(Here, {RBrace, "EndOfFile"})
    /\ Declare(Node, Match(Here, RBrace),
               Missing(Here, RBrace, "ExpectedRBraceAfterStructBody"))

(***************************************************************************)
(* Functions.                                                              *)
(***************************************************************************)
ParseFunction ==
    /\ AtDeclaration("fn")
    /\ LET paren == Match(Here + 1, "Identifier")
           first == Match(paren, "(")
       IN  Begin(IF At(first, ")") THEN "Signature" ELSE "Parameter",
                 FunctionDecl(Lexeme(paren - 1), <<>>, Plain("void"), Null),
                 first,
                 Missing(Here + 1, "Identifier", "ExpectedFunctionName")
                   \cup Missing(paren, "(", "ExpectedLParenAfterFunctionName"))

\* An error ends the list.
ParseParameter ==
    /\ Running("Parameter")
    /\ LET break(i, message) == Continue(<<Rest("Signature", Node)>>, i, {message})
           type == ParseType(Here + 2)
           params == Append(Node.params, Parameter(Lexeme(Here), type.type))
           decl == FunctionDecl(Node.name, params, Node.returnType, Null)
       IN  IF ~At(Here, "Identifier") THEN break(Here, "ExpectedParameterName")
           ELSE IF ~At(Here + 1, ":")
           THEN break(Here + 1, "ExpectedColonAfterParameterName")
           ELSE IF ~HasTypeName(Here + 2)
           THEN break(Here + 2, "ExpectedParameterType")
           ELSE Continue(<<Rest(IF At(type.after, Comma) THEN "Parameter"
                                ELSE "Signature", decl)>>,
                         Match(type.after, Comma), type.errors)

\* ) -> Type, and then the body.
ParseSignature ==
    /\ Running("Signature")
    /\ LET arrow == Match(Here, ")")
           named == HasTypeName(arrow + 1)
           type == IF named THEN ParseType(arrow + 1)
                   ELSE TypeFrom("none", arrow + 1)
           closed == Missing(Here, ")", "ExpectedRParenAfterParameters")
           tasks(returnType) ==
               <<Parse("Block"),
                 Rest("Body", FunctionDecl(Node.name, Node.params, returnType, Null))>>
       IN  IF ~At(arrow, "->")
           THEN Continue(tasks(Node.returnType), arrow, closed)
           ELSE Continue(tasks(type.type), type.after,
                         closed \cup type.errors
                           \cup (IF named THEN {}
                                 ELSE {"ExpectedReturnTypeAfterArrow"}))

EndFunction ==
    /\ Running("Body")
    /\ Declare(FunctionDecl(Node.name, Node.params, Node.returnType, returned),
               Here, {})

(***************************************************************************)
(* Blocks.  A statement that comes back null is left out.                  *)
(***************************************************************************)
ParseBlock ==
    /\ Running("Block")
    /\ Continue(<<Rest("Statements", BlockStatement(<<>>))>>, Match(Here, LBrace),
                Missing(Here, LBrace, "ExpectedLBraceAtTheBeginningOfTheBlock"))

NextStatement ==
    /\ Running("Statements")
    /\ ~AtAny(Here, {RBrace, "EndOfFile"})
    /\ Call(Here, <<Parse("Statement"), Rest("AddStatement", Node)>>)

AddStatement ==
    /\ Running("AddStatement")
    /\ LET block == IF returned = Null THEN Node
                    ELSE BlockStatement(Append(Node.statements, returned))
       IN  Call(Here, <<Rest("Statements", block)>>)

EndBlock ==
    /\ Running("Statements")
    /\ AtAny(Here, {RBrace, "EndOfFile"})
    /\ Complete(Node, Match(Here, RBrace), Missing(Here, RBrace, "ExpectedRBraceAfterBlock"))

(***************************************************************************)
(* Statements.                                                             *)
(***************************************************************************)
StatementAt(i) ==
    CASE At(i, "if") -> "If"
      [] At(i, "while") -> "While"
      [] At(i, "for") -> "For"
      [] AtAny(i, {"var", "val"}) -> "VarDecl"
      [] At(i, "return") -> "Return"
      [] At(i, LBrace) -> "Block"
      [] OTHER -> "ExprStatement"

ParseStatement ==
    Running("Statement") /\ Call(Here, <<Parse(StatementAt(Here))>>)

ParseReturn ==
    /\ Running("Return")
    /\ LET i == Advance(Here)
       IN  IF At(i, Semicolon)
           THEN Complete(ReturnStatement(Null), i + 1, {})
           ELSE Call(i, <<Parse("Expression"), Rest("ReturnValue", Null)>>)

ReturnValue ==
    /\ Running("ReturnValue")
    /\ Complete(ReturnStatement(returned), Match(Here, Semicolon),
                Missing(Here, Semicolon, "ExpectedSemicolonAfterReturnStatement"))

\* Without a name, the token that stands in its place is lost with it.
ParseVarDecl ==
    /\ Running("VarDecl")
    /\ LET isMutable == At(Here, "var")
           i == Advance(Here)
           name == Lexeme(i)
           type == ParseType(i + 2)
           decl(t) == VariableDecl(name, t, Null, isMutable)
           init(t) == <<Parse("Expression"), Rest("Initializer", decl(t))>>
       IN  IF ~At(i, "Identifier") THEN Fail(Advance(i), "ExpectedVariableName")
           ELSE IF At(i + 1, ":=") THEN Call(i + 2, init(Inferred))
           ELSE IF ~At(i + 1, ":")
           THEN Fail(i + 1, "ExpectedColonOrColonEqualAfterVariableName")
           ELSE IF ~HasTypeName(i + 2) THEN Fail(i + 2, "ExpectedVariableType")
           ELSE IF At(type.after, "=")
           THEN Continue(init(type.type), type.after + 1, type.errors)
           ELSE Complete(decl(type.type), Match(type.after, Semicolon),
                         type.errors \cup Missing(type.after, Semicolon,
                                        "ExpectedSemicolonAfterVariableDeclaration"))

\* After the initializer.
VarDeclEnd ==
    /\ Running("Initializer")
    /\ IF Node.varType = Inferred /\ returned = Null
       THEN Fail(Here, "ExpectedInitializerExpressionAfterColonEqual")
       ELSE Complete(VariableDecl(Node.name, Node.varType, returned, Node.isMutable),
                     Match(Here, Semicolon),
                     Missing(Here, Semicolon, "ExpectedSemicolonAfterVariableDeclaration"))

ParseIf ==
    /\ Running("If")
    /\ Continue(<<Parse("Expression"), Rest("IfCondition", Null)>>,
                Match(Advance(Here), "("),
                Missing(Advance(Here), "(", "ExpectedLParenAfterIf"))

IfCondition ==
    /\ Running("IfCondition")
    /\ Continue(<<Parse("Statement"), Rest("IfThen", IfStatement(returned, Null, Null))>>,
                Match(Here, ")"), Missing(Here, ")", "ExpectedRParenAfterCondition"))

IfThen ==
    /\ Running("IfThen")
    /\ LET node == IfStatement(Node.condition, returned, Null)
       IN  IF At(Here, "else")
           THEN Call(Here + 1, <<Parse("Statement"), Rest("IfElse", node)>>)
           ELSE Complete(node, Here, {})

IfElse ==
    /\ Running("IfElse")
    /\ Complete(IfStatement(Node.condition, Node.thenBranch, returned), Here, {})

ParseWhile ==
    /\ Running("While")
    /\ Continue(<<Parse("Expression"), Rest("WhileCondition", Null)>>,
                Match(Advance(Here), "("),
                Missing(Advance(Here), "(", "ExpectedLParenAfterWhile"))

WhileCondition ==
    /\ Running("WhileCondition")
    /\ Continue(<<Parse("Statement"), Rest("WhileBody", WhileStatement(returned, Null))>>,
                Match(Here, ")"), Missing(Here, ")", "ExpectedRParenAfterCondition"))

WhileBody ==
    /\ Running("WhileBody")
    /\ Complete(WhileStatement(Node.condition, returned), Here, {})

\* A declaration or an expression statement reads the ';' of its clause.
ParseFor ==
    /\ Running("For")
    /\ LET init == Match(Advance(Here), "(")
           missing == Missing(Advance(Here), "(", "ExpectedLParenAfterFor")
       IN  IF At(init, Semicolon)
           THEN Continue(<<Rest("ForCondition", ForStatement(Null, Null, Null, Null))>>,
                         init + 1, missing)
           ELSE Continue(<<Parse(IF AtAny(init, {"var", "val"}) THEN "VarDecl"
                                 ELSE "ExprStatement"), Rest("ForInit", Null)>>,
                         init, missing)

ForInit ==
    /\ Running("ForInit")
    /\ Call(Here, <<Rest("ForCondition", ForStatement(returned, Null, Null, Null))>>)

ForCondition ==
    /\ Running("ForCondition")
    /\ IF At(Here, Semicolon) THEN Call(Here + 1, <<Rest("ForUpdate", Node)>>)
       ELSE Call(Here, <<Parse("Expression"), Rest("ForConditionEnd", Node)>>)

ForConditionEnd ==
    /\ Running("ForConditionEnd")
    /\ Continue(<<Rest("ForUpdate", ForStatement(Node.init, returned, Null, Null))>>,
                Match(Here, Semicolon),
                Missing(Here, Semicolon, "ExpectedSemicolonAfterForLoopCondition"))

ForUpdate ==
    /\ Running("ForUpdate")
    /\ IF At(Here, ")")
       THEN Call(Here + 1, <<Parse("Statement"), Rest("ForBody", Node)>>)
       ELSE Call(Here, <<Parse("Expression"), Rest("ForUpdateEnd", Node)>>)

ForUpdateEnd ==
    /\ Running("ForUpdateEnd")
    /\ Continue(<<Parse("Statement"),
                  Rest("ForBody", ForStatement(Node.init, Node.condition, returned, Null))>>,
                Match(Here, ")"), Missing(Here, ")", "ExpectedRParenAfterForClauses"))

ForBody ==
    /\ Running("ForBody")
    /\ Complete(ForStatement(Node.init, Node.condition, Node.update, returned), Here, {})

\* Recovery skips what could not be read as an expression.
ParseExprStatement ==
    /\ Running("ExprStatement")
    /\ Call(Here, <<Parse("Expression"), Rest("ExprStatementEnd", Null)>>)

\* Fault: no recovery, so that what is no expression is tried again.
FaultyExprStatementEnd ==
    /\ Running("ExprStatementEnd")
    /\ IF returned = Null THEN Call(Here, <<>>)
       ELSE Complete(ExprStatement(returned), Match(Here, Semicolon),
                     Missing(Here, Semicolon, "ExpectedSemicolonAfterExpression"))

ExprStatementEnd ==
    /\ Running("ExprStatementEnd")
    /\ IF returned = Null THEN Call(Here, <<Parse("Recover")>>)
       ELSE Complete(ExprStatement(returned), Match(Here, Semicolon),
                     Missing(Here, Semicolon, "ExpectedSemicolonAfterExpression"))

(***************************************************************************)
(* Expressions: one binary level per function, weakest first, all of them  *)
(* left associative; assignment is right associative and above them.       *)
(***************************************************************************)
Levels ==
    <<{"||", "or"}, {"&&", "and"}, {"|"}, {"^"}, {"&"}, {"==", "!="},
      {"<", "<=", ">", ">="}, {"<<", ">>"}, {"+", "-"}, {"*", "/", "%"}>>

\* The calls from the function of a level down to ParseUnary.  On the way back
\* each of the functions looks for its operators: levels is the set of those
\* that are still to do so.
Descent(level) == <<Parse("Unary"), Task("Operators", level..10, Null)>>

ParseExpression ==
    /\ Running("Expression")
    /\ Call(Here, Append(Descent(1), Parse("Assignment")))

\* Fault: the right operand may hold operators of the same level.
FaultyOperator ==
    /\ Running("Operators")
    /\ \E level \in Top.levels :
          /\ AtAny(Here, Levels[level])
          /\ Call(Here + 1,
                  Append(Descent(level),
                         Task("Right", Top.levels \cap (1..level),
                              BinaryExpr(Lexeme(Here), returned, Null))))

\* Consumes an operator, whose left operand is what was returned.  The tighter
\* levels have ended by then.
Operator ==
    /\ Running("Operators")
    /\ \E level \in Top.levels :
          /\ AtAny(Here, Levels[level])
          /\ Call(Here + 1,
                  Append(Descent(level + 1),
                         Task("Right", Top.levels \cap (1..level),
                              BinaryExpr(Lexeme(Here), returned, Null))))

\* The level of the operator looks for another one.
RightOperand ==
    /\ Running("Right")
    /\ Step(BinaryExpr(Node.op, Node.left, returned),
            <<Task("Operators", Top.levels, Null)>>, Here, {})

EndOperators ==
    /\ Running("Operators")
    /\ \A level \in Top.levels : ~AtAny(Here, Levels[level])
    /\ Call(Here, <<>>)

CompoundOperators ==
    {<<"+=", "+">>, <<"-=", "-">>, <<"*=", "*">>, <<"/=", "/">>, <<"%=", "%">>,
     <<"&=", "&">>, <<"|=", "|">>, <<"^=", "^">>, <<"<<=", "<<">>, <<">>=", ">>">>}
CompoundOp(type) == (CHOOSE pair \in CompoundOperators : pair[1] = type)[2]

Assignment ==
    /\ Running("Assignment")
    /\ At(Here, "=")
    /\ Call(Here + 1, <<Parse("Expression"), Rest("Assign", returned)>>)

\* After an invalid target, a compound operator is looked for all the same.
AssignmentEnd ==
    /\ Running("Assign")
    /\ IF Node.kind = "VarExpr"
       THEN Complete(AssignExpr(Node.name, returned), Here, {})
       ELSE Step(Node, <<Parse("Compound")>>, Here, {"InvalidAssignmentTarget"})

CompoundAssignment ==
    /\ Running("Compound") \/ (Running("Assignment") /\ ~At(Here, "="))
    /\ IF \E pair \in CompoundOperators : At(Here, pair[1])
       THEN Call(Here + 1,
                 <<Parse("Expression"),
                   Rest("CompoundAssign", BinaryExpr(CompoundOp(Type(Here)), returned, Null))>>)
       ELSE Call(Here, <<>>)

CompoundAssignmentEnd ==
    /\ Running("CompoundAssign")
    /\ IF Node.left.kind = "VarExpr"
       THEN Complete(AssignExpr(Node.left.name, BinaryExpr(Node.op, Node.left, returned)),
                     Here, {})
       ELSE Complete(Node.left, Here, {"InvalidCompoundAssignmentTarget"})

ParseUnary ==
    /\ Running("Unary")
    /\ CASE AtAny(Here, {"!", "~"}) ->
              Call(Here + 1, <<Parse("Unary"), Rest("Operand", UnaryExpr(Lexeme(Here), Null))>>)
         [] AtAny(Here, {"++", "--"}) ->
              Call(Here + 1, <<Parse("Unary"), Rest("Operand", PrefixExpr(Lexeme(Here), Null))>>)
         [] OTHER -> Call(Here, <<Parse("Primary"), Parse("Postfix")>>)

Operand ==
    /\ Running("Operand")
    /\ Complete(IF Node.kind = "UnaryExpr" THEN UnaryExpr(Node.op, returned)
                ELSE PrefixExpr(Node.op, returned), Here, {})

ParsePostfix ==
    /\ Running("Postfix")
    /\ IF AtAny(Here, {"++", "--"})
       THEN Step(PostfixExpr(Lexeme(Here), returned), <<Top>>, Here + 1, {})
       ELSE Call(Here, <<>>)

(***************************************************************************)
(* ParsePrimary.                                                           *)
(***************************************************************************)
Literal ==
    /\ Running("Primary")
    /\ AtAny(Here, LiteralTypes)
    /\ LET value == LiteralValue[m_Tokens[Here + 1]]
       IN  Complete(LiteralExpr(value.class, value.num), Here + 1, {})

\* alloc < name > ( )
Alloc ==
    /\ Running("Primary")
    /\ At(Here, "alloc")
    /\ IF ~At(Here + 1, "<") THEN Fail(Here + 1, "ExpectedLessAfterAlloc")
       ELSE IF ~At(Here + 2, "Identifier")
       THEN Fail(Here + 2, "ExpectedTypeNameInAlloc")
       ELSE IF ~At(Here + 3, ">")
       THEN Fail(Here + 3, "ExpectedGreaterAfterTypeInAlloc")
       ELSE IF AfterParens(Here + 4) # Here + 6
       THEN Fail(AfterParens(Here + 4), "ExpectedParensAfterAlloc")
       ELSE Complete(AllocExpr(PointerTo(Lexeme(Here + 2))), Here + 6, {})

\* ( [struct] name [*[?]] ), taken for a cast whatever the name is
CastAhead == At(Here, "(") /\ AtAny(Here + 1, {"struct", "Identifier"})

Cast ==
    /\ Running("Primary")
    /\ CastAhead
    /\ LET name == Match(Here + 1, "struct")
           type == TypeFrom(Lexeme(name), name + 1)
       IN  IF ~At(name, "Identifier") THEN Fail(name, "ExpectedTypeNameInCast")
           ELSE IF ~At(type.after, ")")
           THEN Step(Null, <<>>, type.after,
                     type.errors \cup {"ExpectedRParenAfterCastType"})
           ELSE Continue(<<Parse("Primary"), Rest("Cast", CastExpr(type.type, Null))>>,
                         type.after + 1, type.errors)

CastEnd ==
    /\ Running("Cast")
    /\ Complete(CastExpr(Node.targetType, returned), Here, {})

Group ==
    /\ Running("Primary")
    /\ At(Here, "(") /\ ~CastAhead
    /\ Call(Here + 1, <<Parse("Expression"), Parse("Group")>>)

GroupEnd ==
    /\ Running("Group")
    /\ Complete(returned, Match(Here, ")"),
                Missing(Here, ")", "ExpectedRParenAfterGroupedExpression"))

CallAhead == At(Here, "Identifier") /\ At(Here + 1, "(")

CallFunction ==
    /\ Running("Primary")
    /\ CallAhead
    /\ LET call == CallExpr(Lexeme(Here), <<>>)
       IN  IF At(Here + 2, ")") THEN Complete(call, Here + 3, {})
           ELSE Call(Here + 2, <<Parse("Expression"), Rest("Argument", call)>>)

Argument ==
    /\ Running("Argument")
    /\ LET call == CallExpr(Node.callee, Append(Node.arguments, returned))
       IN  IF At(Here, Comma)
           THEN Call(Here + 1, <<Parse("Expression"), Rest("Argument", call)>>)
           ELSE Complete(call, Match(Here, ")"),
                         Missing(Here, ")", "ExpectedRParenAfterArguments"))

Variable ==
    /\ Running("Primary")
    /\ At(Here, "Identifier") /\ ~CallAhead
    /\ Step(VarExpr(Lexeme(Here)), <<Parse("Members")>>, Here + 1, {})

Member ==
    /\ Running("Members")
    /\ IF ~At(Here, ".") THEN Call(Here, <<>>)
       ELSE IF ~At(Here + 1, "Identifier")
       THEN Continue(<<>>, Here + 1, {"ExpectedMemberNameAfterDot"})
       ELSE Step(MemberAccessExpr(returned, Lexeme(Here + 1)), <<Top>>, Here + 2, {})

\* Fault: leaves a null operand and says nothing.
FaultyNoExpression ==
    /\ Running("Primary")
    /\ ~AtAny(Here, LiteralTypes \cup {"alloc", "(", "Identifier"})
    /\ Step(Null, <<>>, Here, {})

\* Nothing is read.
NoExpression ==
    /\ Running("Primary")
    /\ ~AtAny(Here, LiteralTypes \cup {"alloc", "(", "Identifier"})
    /\ Fail(Here, "ExpectedExpression")

(***************************************************************************)
(* The parser: a single thread that runs until the input is parsed.        *)
(***************************************************************************)
Init ==
    /\ m_Tokens \in Inputs
    /\ m_CurrentPosition = 0
    /\ todo = <<>>
    /\ returned = Null
    /\ program = <<>>
    /\ errors = {}
    /\ parsed = FALSE

Declarations ==
    \/ SkipStray \/ ParseEnd \/ Recover
    \/ ParseInterface \/ InterfaceMethod \/ EndInterface
    \/ ParseStruct \/ ParseField \/ EndStruct
    \/ ParseFunction \/ ParseParameter \/ ParseSignature \/ EndFunction

Statements ==
    \/ ParseBlock \/ NextStatement \/ AddStatement \/ EndBlock \/ ParseStatement
    \/ ParseReturn \/ ReturnValue \/ ParseVarDecl \/ VarDeclEnd
    \/ ParseIf \/ IfCondition \/ IfThen \/ IfElse
    \/ ParseWhile \/ WhileCondition \/ WhileBody
    \/ ParseFor \/ ForInit \/ ForCondition \/ ForConditionEnd
    \/ ForUpdate \/ ForUpdateEnd \/ ForBody
    \/ ParseExprStatement \/ ExprStatementEnd

Expressions ==
    \/ ParseExpression \/ Operator \/ RightOperand \/ EndOperators
    \/ Assignment \/ AssignmentEnd \/ CompoundAssignment \/ CompoundAssignmentEnd
    \/ ParseUnary \/ Operand \/ ParsePostfix
    \/ Literal \/ Alloc \/ Cast \/ CastEnd \/ Group \/ GroupEnd
    \/ CallFunction \/ Argument \/ Variable \/ Member \/ NoExpression

Next == Declarations \/ Statements \/ Expressions

Spec == Init /\ [][Next]_vars

\* Nothing else runs: the parser is a plain call that takes its next step.
FairSpec == Spec /\ WF_vars(Next)

(***************************************************************************)
(* Properties.                                                             *)
(***************************************************************************)

\* What the tasks that are waiting do.
Calls ==
    {"Recover", "Block", "Statement", "If", "While", "For", "VarDecl", "Return",
     "ExprStatement", "Expression", "Unary", "Primary"}

\* The tasks that go on from what was returned, whatever it is: AddStatement
\* and ExprStatementEnd look for a null, the others put it in the tree.
Takers ==
    {"Body", "AddStatement", "ReturnValue", "Initializer", "IfCondition",
     "IfThen", "IfElse", "WhileCondition", "WhileBody", "ForInit",
     "ForConditionEnd", "ForUpdateEnd", "ForBody", "ExprStatementEnd",
     "Operators", "Right", "Assignment", "Compound", "Assign", "CompoundAssign",
     "Operand", "Postfix", "Cast", "Group", "Argument", "Members"}

\* The tasks that do not look at it.
Lists ==
    {"Methods", "Fields", "Parameter", "Signature", "Statements", "ForCondition",
     "ForUpdate"}

\* The state has the shape the code gives it; in particular the position is
\* always one of the token vector, so that Peek and Previous, which do not
\* check it, never read outside of it (Parser.cpp:61-69).
TypeOK ==
    /\ m_Tokens \in Inputs
    /\ m_CurrentPosition \in 0..(Len(m_Tokens) - 1)
    /\ todo \in Seq([do : Calls \cup Takers \cup Lists, levels : SUBSET (1..10),
                     node : {todo[k].node : k \in DOMAIN todo}])
    /\ program \in Seq({program[k] : k \in DOMAIN program})
    /\ errors \subseteq Messages
    /\ parsed \in BOOLEAN

\* No hole without a message: as long as nothing has been printed, every node
\* that a Parse function returned has all its children, and no function that
\* waits for a node is handed a null one.  CodeGen relies on it: it reads the
\* null children of a tree and says nothing, because "the parser did".
HolesReported ==
    errors = {} =>
        /\ ~Hole(returned)
        /\ todo # <<>> /\ Top.do \in Takers => returned # Null

\* What Compile takes for granted (module Phase): the parser moves through the
\* tokens from left to right, only adds declarations, returns at EndOfFile and
\* nowhere else, and does return, whatever the tokens are: no recovery loops.
Reading == INSTANCE Phase WITH
    unread <- Len(m_Tokens) - 1 - m_CurrentPosition,
    output <- program,
    stopped <- parsed

ReadsTokens == Reading!Spec
=============================================================================
