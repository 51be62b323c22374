------------------------------ MODULE MCPages -------------------------------
(***************************************************************************)
(* Two study groups, two ministries of the first; three downloads, two of  *)
(* them of one resource, in two scopes; three homes, two of them there at  *)
(* the start and the first group in one; two accounts and months; three    *)
(* PDF documents, one of them without the page of the day.                 *)
(***************************************************************************)
EXTENDS Pages, TLC

CONSTANTS g1, g2, m1, m2, d1, d2, d3, a, b, h1, h2

MCActs    == [ministry |-> 2, drafts |-> 5, resources |-> 3, feedback |-> 3, pdf |-> 3,
              downloads |-> 4, attendance |-> 3, homes |-> 3, groups |-> 3]
MCMishaps == [p \in DOMAIN MCActs |-> 1]
MCCalls   == [p \in DOMAIN MCActs |-> 2]

MCHomeOf     == m1 :> g1 @@ m2 :> g1
MCResourceOf == d1 :> a @@ d2 :> b @@ d3 :> a
MCAtStart    == g1 :> h1 @@ g2 :> None
=============================================================================
