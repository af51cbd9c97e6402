------------------------ MODULE MCInputWithFallback ------------------------
EXTENDS InputWithFallback, TLC

\* The preferred input fails and recovers, the fallback recovers once.
Failing == (0 :> 1) @@ (1 :> 2)

\* The second fallback does not fail.
LastStays == (0 :> 1) @@ (1 :> 1) @@ (2 :> 0)
=============================================================================
