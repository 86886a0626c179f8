------------------------------- MODULE BytePipe -------------------------------
(***************************************************************************)
(* What the transmit half of the logger promises: a byte pipe that takes   *)
(* whole blocks and gives their bytes out one at a time, in order.  A      *)
(* block is accepted as a whole or not at all, is never interleaved with   *)
(* another, and every accepted byte leaves the pipe in the end.            *)
(***************************************************************************)
EXTENDS Integers, Sequences

CONSTANTS Blocks      \* the blocks the writers may submit

VARIABLE pipe         \* accepted bytes that have not left yet, oldest first

Init == pipe = << >>

Accept(block) == pipe' = pipe \o block

Emit == pipe # << >> /\ pipe' = Tail(pipe)

Next == Emit \/ \E block \in Blocks : Accept(block)

Spec == Init /\ [][Next]_pipe

FairSpec == Spec /\ WF_pipe(Emit)
=============================================================================
