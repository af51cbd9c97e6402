-------------------------- MODULE MCBarrierSwitch --------------------------
(* Small instances of BarrierSwitch for TLC.                               *)
EXTENDS BarrierSwitch, TLC

CONSTANTS o1, o2, o3, b1, b2, r1, r2, k1, k2, p1

\* One barrier per output, as StreamMux and InputWithFallback build them; o3
\* has none (an input that was requested and delivers nothing).
OneEach == (b1 :> o1) @@ (b2 :> o2)

\* Without KeepUnless packets are told apart by identity only, and requesters
\* always are.
Symmetry == Permutations(Packets) \cup Permutations(Requesters)
=============================================================================
