----------------------------- MODULE BackupChain -----------------------------
(***************************************************************************)
(* What the sender, its placeholder bookmarks and the receivers promise    *)
(* together, without saying how: each destination's newest snapshot only   *)
(* ever moves forward, each time by one stream from a state the source can *)
(* still name, and the source never loses the name of a destination's      *)
(* newest snapshot.  When the source is recreated all names are lost; a    *)
(* stream of the old source may then still arrive, and the promise goes on *)
(* for the snapshots of the new one.                                       *)
(***************************************************************************)
EXTENDS Naturals

CONSTANTS Dst, MaxSnap

VARIABLES
    newest,     \* the newest snapshot ever taken
    born,       \* the newest one when the source was created
    nameable,   \* snapshots the source can start an incremental stream from
    has         \* the snapshots each destination holds

Init ==
    /\ newest = 0
    /\ born = 0
    /\ nameable = {}
    /\ has = [d \in Dst |-> {}]

\* g is the newest snapshot of destination d, 0 when it has none.
Tip(d, g) ==
    \/ has[d] = {} /\ g = 0
    \/ g \in has[d] /\ \A h \in has[d] : h <= g

Take ==
    /\ newest < MaxSnap
    /\ newest' = newest + 1
    /\ nameable' = nameable \union {newest'}
    /\ UNCHANGED <<born, has>>

Recreate ==
    /\ born' = newest
    /\ nameable' = {}
    /\ UNCHANGED <<newest, has>>

\* The source gives up a name, never that of a destination's newest snapshot.
Forget(g) ==
    /\ g \in nameable
    /\ \A d \in Dst : ~Tip(d, g)
    /\ nameable' = nameable \ {g}
    /\ UNCHANGED <<newest, born, has>>

\* Destination d receives a newer snapshot; one of the source as it is only
\* when the source can name both.
Advance(d, g) ==
    /\ \E t \in 0 .. newest :
        /\ Tip(d, t) /\ t < g
        /\ g > born => g \in nameable /\ t \in nameable \union {0}
    /\ has' = [has EXCEPT ![d] = @ \union {g}]
    /\ UNCHANGED <<newest, born, nameable>>

Next ==
    \/ Take
    \/ Recreate
    \/ \E g \in 1 .. MaxSnap : Forget(g)
    \/ \E d \in Dst : \E g \in 1 .. newest : Advance(d, g)

Spec == Init /\ [][Next]_<<newest, born, nameable, has>>
=============================================================================
