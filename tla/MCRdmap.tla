--------------------------------- MODULE MCRdmap -------------------------------
(***************************************************************************)
(* Two ends with small messages: a full segment carries two bytes, so the  *)
(* messages of up to three bytes take one or two segments, and a tag has   *)
(* four bytes behind it.                                                   *)
(***************************************************************************)
EXTENDS Rdmap, TLC

CONSTANTS c1, c2, c3, s1, s2

\* One end issues, the other receives and takes its tags away.
Scq_oneway == (A :> c1) @@ (B :> c2)
Rcq_oneway == (A :> c1) @@ (B :> c3)
CqCap_oneway == (c1 :> 2) @@ (c2 :> 1) @@ (c3 :> 1)
StagAcc_oneway == (s1 :> {"R", "W"}) @@ (s2 :> {"W"})
Work_oneway == (A :> {"SEND", "WRITE", "READ"}) @@ (B :> {"DESTROY"})
MaxOps_oneway == (A :> 3) @@ (B :> 0)
MaxPosts_oneway == (A :> 0) @@ (B :> 2)

\* Both ends issue.  A shares a queue between its directions, B has no
\* receive queue.
Scq_duplex == (A :> c1) @@ (B :> c2)
Rcq_duplex == (A :> c1) @@ (B :> NoCq)
CqCap_duplex == (c1 :> 2) @@ (c2 :> 2)
StagAcc_duplex == (s1 :> {"R", "W"}) @@ (s2 :> {"R", "W"})
Work_duplex == (A :> {"SEND", "READ"}) @@ (B :> {"SEND", "READ"})
MaxOps_duplex == (A :> 2) @@ (B :> 1)
MaxPosts_duplex == (A :> 1) @@ (B :> 1)

\* A issues reads only.
Work_reads == (A :> {"READ"}) @@ (B :> {})
MaxOps_reads == (A :> 2) @@ (B :> 0)
MaxPosts_reads == (A :> 0) @@ (B :> 0)
================================================================================
