--------------------------- MODULE MCSetupAndCache --------------------------
(***************************************************************************)
(* What experiments share without a lock of their own: the machines that   *)
(* they set up, or the cache of results of their benchmark runs.  Each     *)
(* behaviour is of one of the two.                                         *)
(***************************************************************************)
EXTENDS MCExperimentSetup, ResultsCache

CONSTANTS q1, q2, q3, h1, h2

VARIABLE part   \* setup or cache

ThreeCacheRuns == {q1, q2, q3}

Conditions(rerun, succeeded, same) == [rerun |-> rerun, succeeded |-> succeeded, same |-> same]

Strict == Conditions(FALSE, TRUE, TRUE)
Lax == Conditions(FALSE, FALSE, FALSE)
Rerun == Conditions(TRUE, FALSE, FALSE)
MCCacheOptions == {Strict, Lax, Rerun}

\* Bound: one of the runs is asked to rerun.  The runs are alike, so that the
\* order of their conditions is fixed.
AlikeRuns ==
    /\ Rerun \notin {condition[q2], condition[q3]}
    /\ condition[q3] = Strict => condition[q2] = Strict
    /\ condition[q2] = Strict => condition[q1] # Lax

\* One initial state of a cache that stands still.
CacheIdle == sameFs = TRUE /\ condition = [r \in CacheRuns |-> Lax] /\ CacheInit

\* Bound: in one behaviour one lock goes astray, and one machine is given up.
Astray(S) == Cardinality({em \in Experiments \X Machines : em[2] \in S[em[1]]})
FewAstray == Astray(leaked) <= 1 /\ Astray(removed) <= 1

PartsInit ==
    \/ part = "setup" /\ Init /\ CacheIdle
    \/ part = "cache" /\ Init /\ CacheInit /\ AlikeRuns

PartsNext ==
    \/ part = "setup" /\ Next /\ FewAstray' /\ UNCHANGED <<part, cacheVars>>
    \/ part = "cache" /\ CacheNext /\ UNCHANGED <<part, vars>>

PartsSpec == PartsInit /\ [][PartsNext]_<<part, vars, cacheVars>>
=============================================================================
