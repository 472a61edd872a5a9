----------------------------- MODULE MCSnapshots -----------------------------
(* Values for TLC's runs of Snapshots. *)
EXTENDS Snapshots, TLC

CONSTANTS s1, s2, a, b

\* The second snapshot has lost a file the first one had.
TwoSnapshots == (s1 :> {a, b}) @@ (s2 :> {b})
=============================================================================
