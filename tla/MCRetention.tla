----------------------------- MODULE MCRetention -----------------------------
(***************************************************************************)
(* Retention policies for TLC.                                             *)
(***************************************************************************)
EXTENDS Retention

\* Two rules of different granularity; the finer one allows no holes.
TwoRules ==
    { [interval |-> 1, count |-> 3, allowHoles |-> FALSE],
      [interval |-> 2, count |-> 2, allowHoles |-> TRUE] }

\* The shape of the example configuration of the README: a fine rule, and a
\* coarse one that reaches further back, both with holes allowed.
Tiered ==
    { [interval |-> 1, count |-> 2, allowHoles |-> TRUE],
      [interval |-> 2, count |-> 4, allowHoles |-> TRUE] }
=============================================================================
