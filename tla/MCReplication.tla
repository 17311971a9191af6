---------------------------- MODULE MCReplication ----------------------------
(***************************************************************************)
(* Instances of Replication for TLC.                                       *)
(***************************************************************************)
EXTENDS ReplicationInv

CONSTANTS a, b          \* destinations
CONSTANTS sa, sb, sc    \* their placeholder suffixes

\* One destination with one suffix.
OneOwner == [p \in {sa} |-> a]
OneSync  == [d \in {a} |-> {}]

\* Two destinations; b's placeholders are mirrored on a, or on none.
TwoOwners == [p \in {sa, sb} |-> IF p = sa THEN a ELSE b]
TwoSync   == [d \in {a, b} |-> IF d = a THEN {sb} ELSE {}]

\* The same, and a has a second suffix.  Without b among the destinations, sb is a
\* suffix that another configuration's sender uses.
ThreeOwners == [p \in {sa, sb, sc} |-> IF p = sb THEN b ELSE a]

\* What is marked for b is sent to a, too.
ForeignSync == [d \in {a} |-> {sb}]

\* No placeholders are mirrored.
NoSync    == [d \in {a, b} |-> {}]
=============================================================================
