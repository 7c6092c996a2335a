----------------------------- MODULE MCCompiler -----------------------------
(***************************************************************************)
(* Files for TLC: whole programs, right and wrong, and a function whose    *)
(* body ends with all the short sequences of some lexemes.                 *)
(***************************************************************************)
EXTENDS Compiler, FiniteSets, TLC

\* TLC takes a string for the sequence of its characters.
Chars(text) == [k \in 1..Len(text) |-> SubSeq(text, k, k)]

RECURSIVE Join(_)
Join(chars) == IF chars = <<>> THEN "" ELSE Head(chars) \o Join(Tail(chars))

(***************************************************************************)
(* Files.  One with an error has it where another phase than the one that  *)
(* sees it first meets its consequences.                                   *)
(***************************************************************************)
Struct == "struct P { X: i32; y: i32; } "

\* Bodies of a function with the parameters a: i32, p: P* and q: P*?.
BodyTexts ==
    {"var x: i32 = a; while (a < 3) { a++; if (x and a) { x = a; } else ++x; }",
     "for (var i: i32 = 0; i < 2; i++) { a += i; } for (;a;) a--; return;",
     "for (i := 0; i < 2; i++) { a = i; }",
     "var s := alloc<P>(); if (s == null) { return; } free(s); printf(\"x\", p.X);",
     "val r: P* = (struct P*) p; var n: P*? = null; a = r.X; a = q.X;",
     "var x: P* = null; x = null;",
     "val x: i32 = 1; x = 2;",
     "// to the end",
     "a /* of the file",
     "a = \"open",
     "a = 'x; a = 'y';",
     "a = 1.5 @ 2; a = 1 2;",
     "a = ;", "a + ;", "!;", "f(a, );", "if () { }", "while (a)", "for (", "return",
     "u.X = 1; u; nobody();", "a && ; a or ;", "a && p; !p; p++;",
     "var a; var x: i32; var y: T = 1; var : i32;",
     "} fn g() -> i32 { return f(1); ", "} struct Q : I { } { } fn h() { ",
     "} ; ; struct P { X: i64; } interface I { fn m(); ",
     "(a) + 1;", "(1 + a) * 2 == ~a;", "a == p; p.X.X;", "alloc<i32>(); alloc P;"}

FileTexts ==
    {Struct \o "fn f(a: i32, p: P*, q: P*?) { " \o text \o "}" : text \in BodyTexts}
        \cup {"", " ", "struct", "x fn f() { }", "interface I { fn m(); fn n() }",
              "x struct A { } ; fn f() { } interface I { fn m(); fn n(); } fn m() { }",
              "fn f(a: i32) -> i32 { return a; } } fn g() { f(1); } struct S : I { X: i32; } 1 "
                  \o "fn h(s: S*) { var t := (struct S*) s; while (t.X < 2) t = s; }",
              "struct P { x i32; fn f() { } } fn g { }", "fn f(a i32) -> { }",
              "fn f( { } fn g(a: P) -> P { return a; }"}

\* What the body of f goes on with, after x has been declared.
Lexemes == {"x ", "1 ", "= ", "; ", "{ ", "} ", "&& ", "++ ", "( ", "if ", "fn "}

GoingOn ==
    {"fn f(p: P*) { val x := 0; " \o text \o "; }" :
        text \in {"", "\""} \cup Lexemes \cup {a \o b : a, b \in Lexemes}
                      \cup {a \o b \o c : a, c \in Lexemes \ {"1 ", "} ", "fn "},
                                          b \in Lexemes \ {"fn "}}}

AllFiles == {Chars(text) : text \in FileTexts \cup GoingOn}
SomeFiles == AllFiles

SomeCharacters == UNION {{file[k] : k \in DOMAIN file} : file \in SomeFiles}
                      \cup {"\n", "\t", "\r", "\\0"}
SomeDigits == {"0", "1", "2", "3", "4", "5", "6"}
SomeLetters ==
    SomeCharacters \ (SomeDigits \cup {" ", "\n", "\t", "\r", "\\0", "\"", "'", "/", "*",
                                       "{", "}", "(", ")", ";", ":", ",", ".", "+", "-",
                                       "=", "!", "&", "~", "<", ">", "?", "@"})

LiteralNumbers == 0..4
LiteralTokens ==
    [t \in {[m_type |-> "NumberLiteral", m_lexeme |-> ToString(k)] : k \in LiteralNumbers}
            \cup {[m_type |-> "FloatLiteral", m_lexeme |-> "1.5"],
                  [m_type |-> "CharLiteral", m_lexeme |-> "y"],
                  [m_type |-> "StringLiteral", m_lexeme |-> "x"]}
            \cup {[m_type |-> word, m_lexeme |-> word] : word \in {"null", "true", "false"}} |->
        CASE t.m_type = "FloatLiteral" -> [class |-> "float", num |-> 0]
          [] t.m_type = "StringLiteral" -> [class |-> "string", num |-> 0]
          [] t.m_type = "CharLiteral" -> [class |-> "char", num |-> 0]
          [] t.m_type = "NumberLiteral" ->
                [class |-> "int", num |-> CHOOSE k \in LiteralNumbers : ToString(k) = t.m_lexeme]
          [] OTHER -> [class |-> t.m_lexeme, num |-> 0]]
Literals == LiteralTokens

\* The files are such that module Scanner can be used on them.
ASSUME FilesAssumption ==
    /\ SomeLetters \cap SomeDigits = {}
    /\ (SomeLetters \cup SomeDigits) \cap Scanning!SymbolStarts = {}
=============================================================================
