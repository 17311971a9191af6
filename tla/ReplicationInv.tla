--------------------------- MODULE ReplicationInv ---------------------------
(***************************************************************************)
(* The inductive invariant behind ChainIntact and CheckpointTruthful.      *)
(*                                                                         *)
(* The argument: a stream is acceptable to a destination only if it starts *)
(* from the destination's newest snapshot.  So it is enough that the       *)
(* bookmarks cover, at every moment, the newest snapshot of each           *)
(* destination and the target of every stream that starts from it.         *)
(* Bookmarks are removed only after a stream has arrived; at that moment   *)
(* no other stream in flight starts from the new newest snapshot.          *)
(***************************************************************************)
EXTENDS Replication

\* Destinations the chain is promised for.
Safe == Dst \ ForceOverwrite

\* A snapshot of the source as it is, not of one before it was recreated.
Current == born + 1 .. taken

\* Every suffix of destination d marks snapshot g, unless g is gone for good.
Covered(d, g) == g > born => \A p \in Placeholders(d) : g \in MarksOf(p)

\* A stream for d was made from a snapshot d holds, or from nothing, and by
\* the source that has its target.
Forward(d, target, from) ==
    /\ target > from /\ target <= taken
    /\ from \in held[d] \union {0}
    /\ target > born => from = 0 \/ from > born

HeldExists(d) == held[d] \subseteq 1 .. taken /\ (held[d] # {} => exists[d])

TipCovered(d) == \A g \in Guid \ {0} : Newest(d, g) => Covered(d, g)

TokenCovered(d) ==
    token[d] # NoToken =>
        /\ Newest(d, token[d].from)
        /\ Forward(d, token[d].target, token[d].from)
        /\ Covered(d, token[d].target)

WireCovered(d) ==
    \A r \in wire[d] :
        /\ Forward(d, r.target, r.from)
        /\ Newest(d, r.from) => Covered(d, r.target)

\* The source is not recreated during a visit.
ListingCurrent == pc # "idle" => listing.snaps \union listing.marks \subseteq Current

\* The token the sender was told of, which may be gone by now.
AskedForward ==
    pc = "newest" /\ asked # NoToken => Forward(dst, asked.target, asked.from)

\* The snapshots still to be sent are newer than what was sent.
QueueForward ==
    /\ pc = "next" =>
          /\ base \in held[dst] \union {0}
          /\ base = 0 \/ base > born
          /\ \A q \in queue : q \in Current /\ q > base
    /\ pc \in {"before", "wait", "after"} /\ ~cur.resume =>
          /\ cur.target > born
          /\ \A q \in queue : q <= taken /\ q > cur.target

\* The stream in preparation is covered for the suffixes already handled.
CurCovered ==
    /\ pc \in {"before", "wait"} =>
          /\ Forward(dst, cur.target, cur.from)
          /\ \A p \in Placeholders(dst) \ todo : cur.target \in MarksOf(p)
    /\ pc = "wait" => todo = {}

\* While bookmarks are replaced, the destination's newest snapshot is the one
\* just sent, and nothing else in flight can change that.
AfterSettled ==
    pc = "after" =>
        /\ base = cur.target
        /\ Newest(dst, cur.target)
        /\ token[dst] = NoToken
        /\ \A r \in wire[dst] : r.from # cur.target
        /\ collecting \subseteq Placeholders(dst)
        /\ \A p \in collecting : cur.target \in done[p]

DestInv(d) == HeldExists(d) /\ TipCovered(d) /\ TokenCovered(d) /\ WireCovered(d)
VisitInv == ListingCurrent /\ AskedForward /\ QueueForward /\ CurCovered /\ AfterSettled

\* The bookmarks cover everything a destination may come to depend on, also
\* after the source was recreated, for the snapshots taken since.
ChainInv ==
    /\ \A d \in Safe : DestInv(d)
    /\ dst \in Safe => VisitInv

\* Checkpoints are set only in the phase that follows the arrival.
CheckpointInv ==
    /\ CheckpointTruthful
    /\ pc = "after" =>
          /\ todo \union collecting \subseteq Placeholders(dst)
          /\ dst \notin ForceOverwrite => cur.target \in held[dst]
-----------------------------------------------------------------------------
(* Why a visit that is planned is refused only for a cause                 *)

\* A dataset without snapshots was left by a stream that broke off.
EmptyHasToken(d) == exists[d] /\ held[d] = {} => token[d] # NoToken

\* A snapshot that a stream or a token has for its target was there when the
\* source was listed, if it is there now.
ListedIfThere(s) == s \in snaps => s \in listing.snaps

\* The listing has snapshot g, or a bookmark of it, unless g is of another source.
Listed(g) == g > born => g \in listing.snaps \union listing.marks

\* While the receiver is asked, the listing has the newest snapshot of the
\* destination, and any that a receiver left behind may yet put there.
TipListed ==
    /\ \A g \in Guid : Newest(dst, g) => Listed(g)
    /\ \A r \in wire[dst] : Newest(dst, r.from) => Listed(r.target)

\* What is known of the visit: nothing that the receiver answers, or that still
\* is on its way to it, was there before the listing and is not in it.
VisitPlanned ==
    /\ pc # "idle" => \A r \in wire[dst] : ListedIfThere(r.target)
    /\ pc \in {"dataset", "newest"} => TipListed /\ ListedIfThere(token[dst].target)
    /\ pc = "newest" =>
          /\ asked = NoToken => held[dst] # {}
          /\ ListedIfThere(asked.target)
          /\ Covered(dst, asked.from)
    /\ pc \in {"before", "wait", "after"} /\ cur.resume => cur.target \in listing.snaps

PlanInv ==
    /\ \A d \in Safe : EmptyHasToken(d)
    /\ dst \in Safe => VisitPlanned
=============================================================================
