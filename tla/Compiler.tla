------------------------------ MODULE Compiler ------------------------------
(***************************************************************************)
(* jlang's Compile (src/Main.cpp): the file is loaded, scanned to its end, *)
(* parsed to its end, and what the parser made of it, errors or not, goes  *)
(* to the code generator, whose module is printed.  The phases are those   *)
(* of modules Scanner, Parser and CodeGen, each with the output of the one *)
(* before it; the parser reads the vector of tokens that Tokenize returns. *)
(***************************************************************************)
EXTENDS Ast

CONSTANTS
    Characters, Letters, Digits,  \* of module Scanner
    Sources,                      \* what files hold
    Spelled(_),                   \* characters -> the string that they make
    LiteralValue, UppercaseNames, \* of module Parser
    MAX_UNROLL_COUNT              \* of module CodeGen

VARIABLES
    phase,     \* how far Compile has come
    opens,     \* the file can be opened
    output     \* the functions of the module that was printed

\* Tokenize, with what the file holds in m_Source.
VARIABLES
    m_Source, m_CurrentPosition, m_CurrentLine, m_Start, m_Tokens, doing, done, spans

\* Parse.
VARIABLES
    position, calls, returned, program, syntaxErrors, parsed

\* Generate.
VARIABLES
    pending, function, todo, m_variables, m_currentFunctionVariables, m_LastValue,
    m_structTypes, m_functions, ir, codeErrors, crashed, valueOf, slots

scannerVars ==
    <<m_Source, m_CurrentPosition, m_CurrentLine, m_Start, m_Tokens, doing, done, spans>>
parserVars == <<position, calls, returned, program, syntaxErrors, parsed>>
generatorVars ==
    <<pending, function, todo, m_variables, m_currentFunctionVariables, m_LastValue,
      m_structTypes, m_functions, ir, codeErrors, crashed, valueOf, slots>>
vars == <<phase, opens, output, scannerVars, parserVars, generatorVars>>

(***************************************************************************)
(* The phases.  What their modules say of all inputs (Inputs, Programs and *)
(* AstNode) is not used here: each has the one that the phase before it    *)
(* made, which HandedOver compares with what the modules assume.           *)
(***************************************************************************)
Scanning == INSTANCE Scanner

\* The scanner's token as the parser looks at it: module Parser writes the
\* TokenType of a symbol or keyword as its text.
ParserToken(t) ==
    [m_type |-> IF t.m_type \in {"Symbol", "Keyword"} THEN Spelled(t.m_lexeme) ELSE t.m_type,
     m_lexeme |-> Spelled(t.m_lexeme)]

Tokens == [k \in DOMAIN m_Tokens |-> ParserToken(m_Tokens[k])]

Parsing == INSTANCE Parser WITH
    Inputs <- {<<[m_type |-> "EndOfFile", m_lexeme |-> ""]>>},
    m_Tokens <- Tokens,
    m_CurrentPosition <- position,
    todo <- calls,
    errors <- syntaxErrors

Generating == INSTANCE CodeGen WITH
    Programs <- {[decls |-> <<>>, rejected |-> FALSE]},
    AstNode <- {Null},
    WholeNode <- {},
    errors <- codeErrors

Init ==
    /\ phase = "Load"
    /\ opens \in BOOLEAN
    /\ output = {}
    /\ Scanning!Init
    /\ position = 0
    /\ calls = <<>>
    /\ returned = Null
    /\ program = <<>>
    /\ syntaxErrors = {}
    /\ parsed = FALSE
    /\ Generating!Init

\* An empty text, that of a file that cannot be opened too, ends Compile.
LoadFile ==
    /\ phase = "Load"
    /\ phase' = IF opens /\ m_Source # <<>> THEN "Tokenize" ELSE "Return"
    /\ UNCHANGED <<opens, output, scannerVars, parserVars, generatorVars>>

Tokenize ==
    /\ phase = "Tokenize"
    /\ Scanning!Next
    /\ phase' = IF done' THEN "Parse" ELSE "Tokenize"
    /\ UNCHANGED <<opens, output, parserVars, generatorVars>>

\* What has been parsed is compiled, whatever was printed.
Parse ==
    /\ phase = "Parse"
    /\ UNCHANGED scannerVars
    /\ Parsing!Next
    /\ phase' = IF parsed' THEN "Generate" ELSE "Parse"
    /\ pending' = IF parsed' THEN program' ELSE pending
    /\ UNCHANGED <<opens, output, function, todo, m_variables,
                   m_currentFunctionVariables, m_LastValue, m_structTypes,
                   m_functions, ir, codeErrors, crashed, valueOf, slots>>

Generate ==
    /\ phase = "Generate"
    /\ Generating!Next
    /\ UNCHANGED <<phase, opens, output, scannerVars, parserVars>>

DumpIR ==
    /\ phase = "Generate"
    /\ Generating!Done /\ ~crashed
    /\ output' = DOMAIN m_functions
    /\ phase' = "Return"
    /\ UNCHANGED <<opens, scannerVars, parserVars, generatorVars>>

Next == LoadFile \/ Tokenize \/ Parse \/ Generate \/ DumpIR

\* One thread, from main to its return.
FairSpec == Init /\ [][Next]_vars /\ WF_vars(Next)

(***************************************************************************)
(* Properties.                                                             *)
(***************************************************************************)
NothingPrinted == opens /\ syntaxErrors = {} /\ codeErrors = {}

RECURSIVE NodesBelow(_)
NodesBelow(n) ==
    {n} \cup UNION {NodesBelow(Children(n)[k]) : k \in DOMAIN Children(n)}

\* What each phase is handed is what its module takes for granted: a token
\* sequence that ends with its one EndOfFile, whose operators and literals are
\* what they stand for (module Parser, InputAssumption and TokenAssumption), then
\* trees whose members have the types the headers give them, whose operands are
\* expressions or null and whose operators are those the grammar has (module
\* CodeGen, AstAssumption, OperandAssumption and OperatorAssumption), whatever
\* errors the parser went through, and which have no holes (HoleAssumption) if it
\* went through none.
HandedOver ==
    /\ phase \in {"Load", "Tokenize", "Parse", "Generate", "Return"}
    /\ phase = "Parse" =>
          /\ Tokens \in Seq(Parsing!TokenTypes)
          /\ Tokens # <<>>
          /\ \A k \in DOMAIN Tokens : Tokens[k].m_type = "EndOfFile" <=> k = Len(Tokens)
          /\ Parsing!Readable(Tokens)
    /\ phase = "Generate" /\ function = Null =>
          LET nodes == {Null} \cup UNION {NodesBelow(program[k]) : k \in DOMAIN program}
          IN  /\ \A n \in nodes :
                    WellFormed(n, nodes) /\ OperandsHaveValues(n) /\ OperatorKnown(n)
              /\ syntaxErrors = {} =>
                    (\A n \in nodes : ~Hole(n)) /\ \A k \in DOMAIN program : program[k] # Null

\* The null children that Parser.cpp leaves in a tree make the code generator
\* fail only after Parser.cpp has printed why: with nothing on stderr, a crash
\* comes from an operand or a variable of a wrong type.
CrashExplained ==
    crashed /\ NothingPrinted => Generating!NullDereferenceReported

\* The names that follow a keyword, which does not follow a "(".
Names(keyword) ==
    {Tokens[k + 1].m_lexeme :
        k \in {j \in DOMAIN Tokens :
                  /\ Tokens[j].m_type = keyword
                  /\ j > 1 => Tokens[j - 1].m_type # "("}}

Methods ==
    UNION {{n.methods[k] : k \in DOMAIN n.methods} :
              n \in {program[j] : j \in {i \in DOMAIN program :
                                            program[i].kind = "InterfaceDecl"}}}

\* When Compile returns and nothing was printed, every function and struct that
\* the tokens of the file name is in the module: none was skipped by error
\* recovery, by the tokens passed over at the top level or by the generator.
NothingLost ==
    phase = "Return" /\ NothingPrinted /\ m_Source # <<>> =>
        /\ Names("fn") \subseteq output \cup Methods
        /\ Names("struct") \subseteq DOMAIN m_structTypes

\* Compile returns, or the process dies, whatever the file holds.
Returns == <>(phase = "Return" \/ crashed)
=============================================================================
