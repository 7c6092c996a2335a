----------------------------- MODULE MCCodeGen -----------------------------
(***************************************************************************)
(* The code generator on the programs of ProgramFamilies.                  *)
(***************************************************************************)
EXTENDS CodeGen, ProgramFamilies

\* AstNode is assigned NodesOfPrograms (an alias, so that TLC evaluates the
\* set once): the nodes of the chosen programs, found level by level below the
\* declarations.  WholeNode is assigned those of the programs not rejected.
Child(n, k) == IF k \in DOMAIN Children(n) THEN Children(n)[k] ELSE Null
Below(nodes) == {Child(n, k) : n \in nodes, k \in 1..4}

NodesOf(programs) ==
    LET decls == {<<p.decls, k>> : p \in programs, k \in 1..3}
        level0 == {IF d[2] \in DOMAIN d[1] THEN d[1][d[2]] ELSE Null : d \in decls}
        level1 == Below(level0)
        level2 == Below(level1)
        level3 == Below(level2)
        level4 == Below(level3)
        level5 == Below(level4)
        level6 == Below(level5)
        level7 == Below(level6)
        level8 == Below(level7)
    IN  level0 \cup level1 \cup level2 \cup level3 \cup level4 \cup level5
               \cup level6 \cup level7 \cup level8

AllNodes == NodesOf(Programs)
NodesOfPrograms == AllNodes

AcceptedNodes == NodesOf({p \in Programs : ~p.rejected}) \ {Null}
NodesOfAccepted == AcceptedNodes
=============================================================================
