-------------------------- MODULE MCExperimentSetup --------------------------
(***************************************************************************)
(* An experiment with two labels on three machines, one with a label on    *)
(* one of these, and a lease of the machine that is in the lab.            *)
(***************************************************************************)
EXTENDS ExperimentSetup, TLC

CONSTANTS e1, e2, a1, m1, m2, m3

MCReports == m1 :> {1} @@ m2 :> {1, 2} @@ m3 :> {1}
MCLabels == 1 .. 2
MCRemote == e1 :> <<m1, m2, m3>> @@ e2 :> <<m1>> @@ a1 :> <<>>
MCLabelRemote == e1 :> (1 :> <<m1, m2, m3>> @@ 2 :> <<m3, m2>>)
                 @@ e2 :> (1 :> <<m1>> @@ 2 :> <<m1>>)
                 @@ a1 :> (1 :> <<>> @@ 2 :> <<>>)
=============================================================================
