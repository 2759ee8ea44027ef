---------------------------- MODULE MCSignalOrder ----------------------------
(* Two processes, of which one runs an abandoned cycle beside its successor. *)
EXTENDS SignalOrder, TLC

CONSTANTS aws, canary, a1, a2, c1

MCWorkers == {a1, a2, c1}
MCProcs == {aws, canary}
MCProcOf == [w \in MCWorkers |-> IF w = c1 THEN canary ELSE aws]

\* The two workers of one process are alike.
MCSymmetry == Permutations({a1, a2})
=============================================================================
