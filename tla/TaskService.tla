----------------------------- MODULE TaskService ------------------------------
(***************************************************************************)
(* What the pipeline of bestflags promises the steering process: each      *)
(* distinct flag set is built once, each distinct image is tested once,    *)
(* and every task is answered, once, with the results of its own keys.     *)
(***************************************************************************)
CONSTANTS
    Tasks,      \* what may be asked, flag sets
    BuildKey(_) \* the formatted flags

VARIABLES
    asked,    \* the tasks submitted
    built,    \* pairs of formatted flags and the image they were built to
    tested,   \* pairs of an image and what its test cost
    answered  \* the image and the cost of each task that has been answered

serviceVars == <<asked, built, tested, answered>>

Keys(pairs) == {p[1] : p \in pairs}

Init == asked = {} /\ built = {} /\ tested = {} /\ answered = [t \in {} |-> t]

Ask(t) ==
    /\ t \notin asked
    /\ asked' = asked \cup {t}
    /\ UNCHANGED <<built, tested, answered>>

\* Flags that somebody asked for and nobody has built are built, whatever
\* comes out.
Build ==
    /\ \E p \in built' \ built :
        /\ p[1] \in {BuildKey(t) : t \in asked} \ Keys(built)
        /\ built' = built \cup {p}
    /\ UNCHANGED <<asked, tested, answered>>

\* An image that has been built and not been tested is tested, whatever it
\* costs.
Test ==
    /\ \E p \in tested' \ tested :
        /\ p[1] \in {b[2] : b \in built} \ Keys(tested)
        /\ tested' = tested \cup {p}
    /\ UNCHANGED <<asked, built, answered>>

Answer(t) ==
    /\ t \in asked \ DOMAIN answered
    /\ DOMAIN answered' = DOMAIN answered \cup {t}
    /\ answered' = [u \in DOMAIN answered' |->
                       IF u = t THEN answered'[t] ELSE answered[u]]
    /\ <<BuildKey(t), answered'[t].image>> \in built
    /\ <<answered'[t].image, answered'[t].cost>> \in tested
    /\ UNCHANGED <<asked, built, tested>>

Next == (\E t \in Tasks : Ask(t)) \/ Build \/ Test \/ (\E t \in asked : Answer(t))

Spec == Init /\ [][Next]_serviceVars
=============================================================================
