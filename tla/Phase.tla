-------------------------------- MODULE Phase --------------------------------
(***************************************************************************)
(* What Compile (src/Main.cpp) takes for granted of the scanner and of the *)
(* parser: a phase reads its input once, from left to right, only ever     *)
(* adds to its output, stops at the end of its input and nowhere else, and *)
(* does stop.                                                              *)
(***************************************************************************)
EXTENDS Naturals, Sequences

VARIABLES
    unread,    \* how much of the input is still to be read
    output,    \* what has been produced so far
    stopped    \* the phase has returned

vars == <<unread, output, stopped>>

\* The output grows by one item at its end.
Appended ==
    /\ output' # <<>>
    /\ output' = Append(output, output'[Len(output')])

Init ==
    /\ unread \in Nat
    /\ output = <<>>
    /\ stopped = FALSE

\* Reading may complete an item, and an item may need no more reading.
Read ==
    /\ ~stopped
    /\ unread' \in Nat
    /\ unread' < unread
    /\ UNCHANGED output \/ Appended
    /\ UNCHANGED stopped

Write ==
    /\ ~stopped
    /\ Appended
    /\ UNCHANGED <<unread, stopped>>

\* The last item, if the phase marks the end with one, comes with the return.
Stop ==
    /\ ~stopped
    /\ unread = 0
    /\ stopped' = TRUE
    /\ UNCHANGED output \/ Appended
    /\ UNCHANGED unread

Next == Read \/ Write \/ Stop

Safety == Init /\ [][Next]_vars

Spec == Safety /\ <>stopped
=============================================================================
