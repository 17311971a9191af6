----------------------------- MODULE Replication -----------------------------
(***************************************************************************)
(* The sender of one filesystem (internal/sender), composed with the       *)
(* source it reads (Source) and the destinations it writes (Destination).  *)
(*                                                                         *)
(* One sender process runs at a time: every process that uses the          *)
(* configuration file holds a lock on it.  A run visits each destination;  *)
(* a visit is ProcessFs.  Around it, at any moment, snapshots are taken    *)
(* and pruned, a command or the connection fails, the sender crashes, and  *)
(* a receiver whose sender is gone still works on its stream.              *)
(***************************************************************************)
EXTENDS Source, Destination

CONSTANTS
    NoDst,        \* no destination is being visited
    MaxRetries,   \* resumed transfers in one visit; 20 in the code
    Pruning,      \* snapshots are pruned
    MaxFaults,    \* bound: failed commands, broken connections and crashes
    MaxRebuilds   \* bound: times the source filesystem is recreated

ASSUME NoDstAssumption == NoDst \notin Dst
ASSUME BoundsAssumption ==
    /\ MaxRetries \in Nat \ {0}
    /\ Pruning \in BOOLEAN
    /\ MaxFaults \in Nat
    /\ MaxRebuilds \in Nat

VARIABLES
    pc,         \* what the sender does next
    pending,    \* destinations the run has still to visit
    dst,        \* the destination being visited
    listing,    \* fsp.sources, as FillSources read it
    asked,      \* the resume token the receiver answered with
    base,       \* the incremental base of the next stream; 0 for none
    queue,      \* snapshots still to be sent
    cur,        \* the stream being prepared or sent
    todo,       \* suffixes whose bookmark is still to be set
    collecting, \* the suffix zfsGcPlaceholder works on, as a set
    retries,    \* retriesLeft
    wire,       \* streams of earlier sends that a receiver still works on
    faults,     \* failures so far
    rebuilds    \* times the source was recreated

visitVars  == <<dst, listing, asked, base, queue, cur, todo, collecting, retries>>
boundVars  == <<faults, rebuilds>>
vars == <<sourceVars, destVars, pc, pending, visitVars, wire, boundVars>>

PC == {"idle", "dataset", "newest", "next", "before", "wait", "after", "sync"}

\* The parts of a listing that decisions use: snapshots, GUIDs of bookmarks,
\* of those in the destination's sync_placeholders, and of foreign ones.
Listing ==
    [snaps : SUBSET Guid, marks : SUBSET Guid, synced : SUBSET Guid, foreign : SUBSET Guid]

EmptyListing == [snaps |-> {}, marks |-> {}, synced |-> {}, foreign |-> {}]
NoStream == [target |-> 0, from |-> 0, resume |-> FALSE]

TypeOK ==
    /\ SourceTypeOK
    /\ DestTypeOK
    /\ pc \in PC
    /\ pending \in SUBSET Dst
    /\ dst \in Dst \union {NoDst}
    /\ pc # "idle" => dst \in Dst
    /\ listing \in Listing
    /\ asked \in Token
    /\ base \in Guid
    /\ queue \in SUBSET (1 .. MaxSnap)
    /\ cur \in Stream \union {NoStream}
    /\ pc \in {"before", "wait", "after"} => cur \in Stream
    /\ todo \in SUBSET Suffix
    /\ collecting \in SUBSET Suffix
    /\ pc # "after" => collecting = {}
    /\ retries \in 0 .. MaxRetries
    /\ wire \in [Dst -> SUBSET Stream]
    /\ faults \in 0 .. MaxFaults
    /\ rebuilds \in 0 .. MaxRebuilds

Init ==
    /\ SourceInit
    /\ DestInit
    /\ pc = "idle"
    /\ pending = {}
    /\ dst = NoDst
    /\ listing = EmptyListing
    /\ asked = NoToken
    /\ base = 0
    /\ queue = {}
    /\ cur = NoStream
    /\ todo = {}
    /\ collecting = {}
    /\ retries = 0
    /\ wire = [d \in Dst |-> {}]
    /\ faults = 0
    /\ rebuilds = 0

-----------------------------------------------------------------------------
(* The sender's choices                                                    *)

List(d) ==
    [ snaps   |-> snaps,
      marks   |-> UNION { MarksOf(p) : p \in Suffix },
      synced  |-> UNION { MarksOf(p) : p \in Sync[d] },
      foreign |-> UNION { MarksOf(p) : p \in Foreign } ]

\* Snapshots of the listing newer than b: the newest one that matches
\* snapshot_re, or all that match with send_intermediate, and every one that
\* a sync_placeholders bookmark marks.
ActualSnapsToSend(l, b) ==
    LET newer   == { s \in l.snaps : s > b }
        matches == newer \intersect Matching
    IN  { s \in newer : \/ s \in l.synced
                        \/ s \in matches /\ SendIntermediate
                        \/ s \in matches /\ \A m \in matches : m <= s }

\* Faulty: an older matching snapshot is not eligible for resumption.
NoPotentialSnaps(l) == {}

PotentialSnapsToSend(l) == l.snaps \intersect Matching

\* The GUID of the receiver's newest snapshot as an incremental base: only
\* when the listing has it, as a snapshot or as a bookmark.
BaseFor(l, g) == IF g \in l.snaps \union l.marks THEN g ELSE 0

\* zfs send can read the base.  baseFor names the snapshot when the listing
\* has one; a bookmark is then no substitute for a snapshot pruned since.
BaseReadable(l, b) ==
    \/ b = 0
    \/ b \in snaps
    \/ b \notin l.snaps /\ b \in Nameable

\* The bookmark that baseFor has picked may be a foreign one, gone since.
BaseGone(l, b) ==
    b \in l.foreign \ l.snaps /\ \E p \in Foreign : b \notin MarksOf(p)

\* Faulty: the exception for placeholders is forgotten.
CanResumeMatching(l, t, b) ==
    /\ t.target \in snaps
    /\ t.from = 0 \/ t.from \in Nameable
    /\ t.target \in PotentialSnapsToSend(l)

\* resumeSnapshot: zfs send -nP can resolve the token, and its target is a
\* snapshot this destination may receive.
CanResume(l, t, b) ==
    /\ t.target \in snaps
    /\ t.from = 0 \/ t.from \in Nameable
    /\ t.target \in PotentialSnapsToSend(l) \union ActualSnapsToSend(l, b)

-----------------------------------------------------------------------------
(* Ends of a visit                                                         *)

\* Locals of ProcessFs are gone.
ForgetVisit ==
    /\ pc' = "idle"
    /\ dst' = NoDst
    /\ listing' = EmptyListing
    /\ asked' = NoToken
    /\ base' = 0
    /\ queue' = {}
    /\ cur' = NoStream
    /\ todo' = {}
    /\ collecting' = {}
    /\ retries' = 0

\* Faulty: the visit is repeated.
ReturnToSame == ForgetVisit /\ UNCHANGED pending

\* ProcessFs returns; processFilesystem goes on with the other destinations,
\* whether or not this one failed.
Return == ForgetVisit /\ pending' = pending \ {dst}

\* ProcessFs returns an error and changes nothing else.
Refuse == Return /\ UNCHANGED <<sourceVars, destVars, wire, boundVars>>

-----------------------------------------------------------------------------
(* processFilesystem and ProcessFs                                         *)

\* A timer starts a run, or the run before it is over.
StartRun ==
    /\ pc = "idle" /\ pending = {}
    /\ pending' = Dst
    /\ UNCHANGED <<sourceVars, destVars, pc, visitVars, wire, boundVars>>

\* FillSources lists the source once for the whole visit.  Without a snapshot
\* to send from scratch, only the placeholders are synchronised.
FillSources(d) ==
    /\ pc = "idle" /\ d \in pending
    /\ dst' = d
    /\ listing' = List(d)
    /\ retries' = MaxRetries
    /\ pc' = IF ActualSnapsToSend(List(d), 0) = {} THEN "sync" ELSE "dataset"
    /\ UNCHANGED <<sourceVars, destVars, pending, asked, base, queue, cur, todo,
                   collecting, wire, boundVars>>

-----------------------------------------------------------------------------
(* GetNextAndSend: fetchPlan.  The receiver lists its dataset with the     *)
(* resume token first and its snapshots second.                            *)

QueryDataset ==
    /\ pc = "dataset"
    /\ IF exists[dst]
       THEN pc' = "newest" /\ asked' = token[dst] /\ UNCHANGED queue
       ELSE /\ pc' = "next"       \* SendFull
            /\ asked' = NoToken
            /\ queue' = ActualSnapsToSend(listing, 0)
    /\ base' = 0
    /\ UNCHANGED <<sourceVars, destVars, pending, dst, listing, cur, todo,
                   collecting, retries, wire, boundVars>>

\* The receiver holds a token: prepare to resume its stream.
PlanResume(g) ==
    /\ pc = "newest" /\ Newest(dst, g)
    /\ asked # NoToken
    /\ CanResume(listing, asked, BaseFor(listing, g))
    /\ cur' = [target |-> asked.target, from |-> asked.from, resume |-> TRUE]
    /\ todo' = Placeholders(dst)
    /\ pc' = "before"
    /\ UNCHANGED <<sourceVars, destVars, pending, dst, listing, asked, base, queue,
                   collecting, retries, wire, boundVars>>

\* There is a common base, or the receiver may overwrite the dataset.
PlanStreams(g) ==
    /\ pc = "newest" /\ Newest(dst, g)
    /\ asked = NoToken
    /\ BaseFor(listing, g) # 0 \/ MayOverwrite(dst)
    /\ base' = BaseFor(listing, g)
    /\ queue' = ActualSnapsToSend(listing, base')
    /\ pc' = "next"
    /\ UNCHANGED <<sourceVars, destVars, pending, dst, listing, asked, cur, todo,
                   collecting, retries, wire, boundVars>>

\* Faulty: a destination without a base is skipped.
SkippedWithoutBase(g) ==
    /\ pc = "newest" /\ Newest(dst, g)
    /\ IF asked = NoToken
       THEN BaseFor(listing, g) = 0 /\ ~MayOverwrite(dst)
       ELSE ~CanResume(listing, asked, BaseFor(listing, g))
    /\ pc' = "sync"
    /\ UNCHANGED <<sourceVars, destVars, pending, visitVars, wire, boundVars>>

\* "no common incremental base", or a token that cannot be resumed.
PlanRefused(g) ==
    /\ pc = "newest" /\ Newest(dst, g)
    /\ IF asked = NoToken
       THEN BaseFor(listing, g) = 0 /\ ~MayOverwrite(dst)
       ELSE ~CanResume(listing, asked, BaseFor(listing, g))
    /\ Refuse

-----------------------------------------------------------------------------
(* GetNextAndSend: one stream                                              *)

\* Faulty: the queue may be empty.
NextSnapUnguarded(s) ==
    /\ pc = "next"
    /\ \A q \in queue : s <= q
    /\ queue' = queue \ {s}
    /\ cur' = [target |-> s, from |-> base, resume |-> FALSE]
    /\ todo' = Placeholders(dst)
    /\ pc' = "before"
    /\ UNCHANGED <<sourceVars, destVars, pending, dst, listing, asked, base,
                   collecting, retries, wire, boundVars>>

NextSnap(s) ==
    /\ pc = "next"
    /\ s \in queue /\ \A q \in queue : s <= q
    /\ queue' = queue \ {s}
    /\ cur' = [target |-> s, from |-> base, resume |-> FALSE]
    /\ todo' = Placeholders(dst)
    /\ pc' = "before"
    /\ UNCHANGED <<sourceVars, destVars, pending, dst, listing, asked, base,
                   collecting, retries, wire, boundVars>>

QueueDone ==
    /\ pc = "next" /\ queue = {}
    /\ pc' = "sync"
    /\ UNCHANGED <<sourceVars, destVars, pending, visitVars, wire, boundVars>>

\* setPlaceholdersBefore
SetBefore(p) ==
    /\ pc = "before" /\ p \in todo
    /\ ZfsSetBeforeBookmark(cur.target, p)
    /\ todo' = todo \ {p}
    /\ UNCHANGED <<destVars, pc, pending, dst, listing, asked, base, queue, cur,
                   collecting, retries, wire, boundVars>>

SendReadable ==
    /\ cur.target \in snaps
    /\ IF cur.resume THEN cur.from = 0 \/ cur.from \in Nameable
                     ELSE BaseReadable(listing, cur.from)

\* send: zfs send and its receiver start.
StartSend ==
    /\ pc = "before" /\ todo = {}
    /\ SendReadable
    /\ pc' = "wait"
    /\ UNCHANGED <<sourceVars, destVars, pending, visitVars, wire, boundVars>>

\* The snapshot was pruned before its bookmark, or it or its base was gone
\* before zfs send opened them.
SendImpossible ==
    /\ pc = "before"
    /\ IF todo = {} THEN ~SendReadable \/ (~cur.resume /\ BaseGone(listing, cur.from))
                    ELSE cur.target \notin snaps
    /\ Refuse

\* Every process of the pipeline ends with success.
SendOk ==
    /\ pc = "wait"
    /\ ZfsReceive(dst, cur)
    /\ base' = cur.target
    /\ todo' = Placeholders(dst)
    /\ pc' = "after"
    /\ UNCHANGED <<sourceVars, pending, dst, listing, asked, queue, cur,
                   collecting, retries, wire, boundVars>>

\* Faulty: the exit status of the receiver is ignored.
RejectionIgnored ==
    /\ pc = "wait"
    /\ ~Acceptable(dst, cur)
    /\ todo' = Placeholders(dst)
    /\ pc' = "after"
    /\ UNCHANGED <<sourceVars, destVars, pending, dst, listing, asked, base, queue, cur,
                   collecting, retries, wire, boundVars>>

\* zfs receive rejects the stream.
SendRejected ==
    /\ pc = "wait"
    /\ ~Acceptable(dst, cur)
    /\ Refuse

-----------------------------------------------------------------------------
(* GetNextAndSend: setPlaceholdersAfter, and what follows it               *)

\* Faulty: only one suffix gets its checkpoint.
SetAfterOnce(p) ==
    /\ pc = "after" /\ collecting = {} /\ p \in todo
    /\ ZfsSetPlaceholder(cur.target, p)
    /\ todo' = {}
    /\ collecting' = {p}
    /\ UNCHANGED <<destVars, pc, pending, dst, listing, asked, base, queue, cur,
                   retries, wire, boundVars>>

SetAfter(p) ==
    /\ pc = "after" /\ collecting = {} /\ p \in todo
    /\ ZfsSetPlaceholder(cur.target, p)
    /\ todo' = todo \ {p}
    /\ collecting' = {p}
    /\ UNCHANGED <<destVars, pc, pending, dst, listing, asked, base, queue, cur,
                   retries, wire, boundVars>>

\* The snapshot was pruned between its transfer and its bookmark.
SetAfterRefused ==
    /\ pc = "after" /\ collecting = {} /\ todo # {}
    /\ cur.target \notin snaps
    /\ Refuse

Collect(p) ==
    /\ pc = "after" /\ p \in collecting
    /\ ZfsDestroyBookmark(cur.target, p)
    /\ UNCHANGED <<destVars, pc, pending, visitVars, wire, boundVars>>

Collected(p) ==
    /\ pc = "after" /\ p \in collecting
    /\ NoGarbage(cur.target, p)
    /\ collecting' = collecting \ {p}
    /\ UNCHANGED <<sourceVars, destVars, pc, pending, dst, listing, asked, base, queue,
                   cur, todo, retries, wire, boundVars>>

AllSet == pc = "after" /\ todo = {} /\ collecting = {}

StreamDone ==
    /\ AllSet /\ ~cur.resume
    /\ cur' = NoStream
    /\ pc' = "next"
    /\ UNCHANGED <<sourceVars, destVars, pending, dst, listing, asked, base, queue, todo,
                   collecting, retries, wire, boundVars>>

\* After a resumed stream ProcessFs asks the receiver again, a limited number
\* of times.
ResumeDone ==
    /\ AllSet /\ cur.resume /\ retries > 1
    /\ cur' = NoStream
    /\ retries' = retries - 1
    /\ pc' = "dataset"
    /\ UNCHANGED <<sourceVars, destVars, pending, dst, listing, asked, base, queue, todo,
                   collecting, wire, boundVars>>

TooManyRetries == AllSet /\ cur.resume /\ retries = 1 /\ Refuse

-----------------------------------------------------------------------------
(* sendPlaceholders                                                        *)

NewestMark(p, g) == g \in MarksOf(p) /\ \A h \in MarksOf(p) : h <= g

\* sp.Placeholders: for each suffix of sync_placeholders that marks anything,
\* the newest snapshot it marks.  The source's bookmarks are listed afresh.
\* An entry whose snapshot the receiver does not have is an error there, and
\* the others are set.
Entries(d) == { p \in Sync[d] : MarksOf(p) # {} }

NothingToSync ==
    /\ pc = "sync" /\ Entries(dst) = {}
    /\ Return
    /\ UNCHANGED <<sourceVars, destVars, wire, boundVars>>

IsPayload(sp) == \A p \in Entries(dst) : NewestMark(p, sp[p])

SendPlaceholders ==
    /\ pc = "sync" /\ Entries(dst) # {}
    /\ exists[dst]
    /\ \E sp \in [Entries(dst) -> Guid] : IsPayload(sp) /\ SetPlaceholders(dst, sp)
    /\ Return
    /\ UNCHANGED <<sourceVars, wire, boundVars>>

\* The receiver cannot list the snapshots of a dataset that does not exist.
SyncRefused ==
    /\ pc = "sync" /\ Entries(dst) # {}
    /\ ~exists[dst]
    /\ Refuse

-----------------------------------------------------------------------------
(* Failures                                                                *)

Fault == faults < MaxFaults /\ faults' = faults + 1 /\ UNCHANGED rebuilds

\* The stream in flight is left to its receiver, which may have all of it,
\* some of it or nothing.
LeaveStream ==
    wire' = IF pc = "wait" THEN [wire EXCEPT ![dst] = @ \union {cur}] ELSE wire

\* A command fails or the connection breaks: an error for this destination.
Fail ==
    /\ pc # "idle"
    /\ Fault
    /\ LeaveStream
    /\ Return
    /\ UNCHANGED <<sourceVars, destVars>>

\* The receiver fails while it works on the placeholders.
SyncBroken ==
    /\ pc = "sync" /\ Entries(dst) # {}
    /\ exists[dst]
    /\ Fault
    /\ \E sp \in [Entries(dst) -> Guid] : IsPayload(sp) /\ SetPlaceholdersPartly(dst, sp)
    /\ Return
    /\ UNCHANGED <<sourceVars, wire>>

\* The sender's process or host dies.
Crash ==
    /\ pc # "idle" \/ pending # {}
    /\ Fault
    /\ LeaveStream
    /\ ForgetVisit
    /\ pending' = {}
    /\ UNCHANGED <<sourceVars, destVars>>

senderVars == <<pc, pending, visitVars, boundVars>>

Drop(d, r) == wire' = [wire EXCEPT ![d] = @ \ {r}]

\* A receiver left alone finishes its stream, saves part of it, or undoes it.
LateReceive(d, r) ==
    /\ r \in wire[d] /\ Drop(d, r)
    /\ ZfsReceive(d, r)
    /\ UNCHANGED <<sourceVars, senderVars>>

LateReceivePartly(d, r) ==
    /\ r \in wire[d] /\ Drop(d, r)
    /\ ZfsReceivePartly(d, r)
    /\ UNCHANGED <<sourceVars, senderVars>>

LateReceiveLost(d, r) ==
    /\ r \in wire[d] /\ Drop(d, r)
    /\ UNCHANGED <<sourceVars, destVars, senderVars>>

-----------------------------------------------------------------------------
(* The rest of the source host                                             *)

Take == TakeSnapshot /\ UNCHANGED <<destVars, senderVars, wire>>

\* `zfs destroy -d` of a snapshot that zfs send reads takes effect afterwards.
PruneSnapshot(s) ==
    /\ Pruning
    /\ ~(pc = "wait" /\ cur.target = s)
    /\ Prune(s)
    /\ UNCHANGED <<destVars, senderVars, wire>>

\* The sender of another configuration, which this one's lock does not exclude,
\* works on the same filesystem and sets and collects its own bookmarks.
ForeignSender(p) ==
    /\ p \in Foreign
    /\ \E s \in 1 .. MaxSnap :
          ZfsSetBeforeBookmark(s, p) \/ ZfsSetPlaceholder(s, p) \/ ZfsDestroyBookmark(s, p)
    /\ UNCHANGED <<destVars, senderVars, wire>>

RebuildSource ==
    /\ rebuilds < MaxRebuilds
    /\ pc = "idle" /\ pending = {}
    /\ Rebuild
    /\ rebuilds' = rebuilds + 1
    /\ UNCHANGED <<destVars, pc, pending, visitVars, wire, faults>>

-----------------------------------------------------------------------------
(* The specification                                                       *)

\* Steps of the sender that need no failure.
Sender ==
    \/ StartRun
    \/ \E d \in Dst : FillSources(d)
    \/ QueryDataset
    \/ \E g \in Guid : PlanResume(g) \/ PlanStreams(g) \/ PlanRefused(g)
    \/ \E s \in Guid : NextSnap(s)
    \/ QueueDone
    \/ \E p \in Suffix : SetBefore(p)
    \/ StartSend
    \/ SendImpossible
    \/ SendOk
    \/ SendRejected
    \/ \E p \in Suffix : SetAfter(p) \/ Collect(p) \/ Collected(p)
    \/ SetAfterRefused
    \/ StreamDone
    \/ ResumeDone
    \/ TooManyRetries
    \/ NothingToSync
    \/ SendPlaceholders
    \/ SyncRefused

Environment ==
    \/ Fail
    \/ SyncBroken
    \/ Crash
    \/ \E d \in Dst : \E r \in wire[d] :
          LateReceive(d, r) \/ LateReceivePartly(d, r) \/ LateReceiveLost(d, r)
    \/ Take
    \/ \E s \in Guid : PruneSnapshot(s)
    \/ \E p \in Suffix : ForeignSender(p)
    \/ RebuildSource

Next == Sender \/ Environment

Spec == Init /\ [][Next]_vars

\* The timer keeps starting runs, and a run that nothing breaks goes on.  The
\* failures are finitely many; nothing obliges anyone to take or prune.
FairSpec == Spec /\ WF_vars(Sender)

-----------------------------------------------------------------------------
(* Safety                                                                  *)

\* The incremental chain to every destination stays intact: whatever is
\* pruned, lost or interrupted, the source has a snapshot or a bookmark with
\* the GUID of the destination's newest snapshot, from which the next stream
\* can start.  This is the reason for the before-send bookmark, and for
\* creating a checkpoint before removing the older ones.  It is promised where
\* the receiver does not overwrite, for snapshots of the source as it is, not of
\* one that was there before it was recreated.
ChainIntact ==
    \A d \in Dst \ ForceOverwrite :
        \A g \in born + 1 .. MaxSnap : Newest(d, g) => g \in Nameable

\* A checkpoint bookmark #<snapshot>-<p> says that p's destination has the
\* snapshot: it is never set for a stream whose fate is unknown.
CheckpointTruthful ==
    \A p \in Suffix :
        Owner[p] \in Dst \ ForceOverwrite => done[p] \subseteq held[Owner[p]]

\* Backups are never overwritten: a destination outside
\* force_overwrite_datasets keeps every snapshot it ever received, also after
\* the source has been recreated with other snapshots.
NothingOverwritten ==
    [][\A d \in Dst \ ForceOverwrite : held[d] \subseteq held'[d]]_vars

\* A visit that sent something and set its bookmarks leaves the destination's
\* suffix with one bookmark, the checkpoint of that snapshot, whatever earlier
\* failed visits left behind.
OneCheckpointLeft ==
    [][StreamDone \/ ResumeDone =>
          \A p \in Placeholders(dst) : before[p] = {} /\ done[p] = {cur.target}]_vars

\* A visit that reports success leaves the destination no older than its
\* listing of the source: for every snapshot that matches snapshot_re, or that
\* a sync_placeholders bookmark marks, the destination has that snapshot or a
\* newer one.  (A stream left behind may take an overwritten destination back.)
SuccessMeansDelivered ==
    [][(NothingToSync \/ SendPlaceholders) /\ dst \notin ForceOverwrite =>
          \A s \in PotentialSnapsToSend(listing)
                     \union (listing.snaps \intersect listing.synced) :
              \E h \in held[dst] : h >= s]_vars

\* One resumed stream per visit is enough, so the limit of twenty is never
\* reached: once a stream has arrived, no receiver left behind by an earlier
\* visit can put another token in its place.  (One that overwrites can.)
RetriesSuffice == [][TooManyRetries => dst \in ForceOverwrite]_vars

\* A destination is not given up without a cause.  While a visit is planned, a
\* destination that may not be overwritten is refused for want of a base only if
\* its newest snapshot is of a source that was there before this one, and a
\* resume token only if its target is gone, or is outside snapshot_re and either
\* not marked for sync_placeholders in the listing, or delivered by a receiver
\* left behind since the token was read.  Only the last cause may go with the
\* next visit.  The base is never lost: neither to the deleter, nor to the age
\* of the listing, nor to receivers left behind.
DeliveredMeanwhile(t) ==
    token[dst] # t /\ \E h \in held[dst] : h >= t.target

RefusedForCause ==
    [][\A g \in Guid : PlanRefused(g) /\ dst \notin ForceOverwrite =>
          IF asked = NoToken
          THEN g \in 1 .. born
          ELSE \/ asked.target \notin snaps
               \/ /\ asked.target \notin Matching
                  /\ asked.target \in listing.synced => DeliveredMeanwhile(asked)]_vars

\* The source, the sender and the receivers together implement BackupChain for
\* the destinations that are not overwritten, whatever happens to the others.
Chain == INSTANCE BackupChain
    WITH Dst <- Dst \ ForceOverwrite, newest <- taken, nameable <- Nameable,
         has <- [d \in Dst \ ForceOverwrite |-> held[d]]

ImplementsBackupChain == Chain!Spec

\* A mirrored placeholder says that the peer it belongs to has the snapshot:
\* that is what makes it a base the two destinations share.
MirrorFaithful ==
    \A d \in Dst : \A p \in Suffix \ Foreign : mirror[d][p] \subseteq held[Owner[p]]

-----------------------------------------------------------------------------
(* Liveness                                                                *)

\* The source has a matching snapshot newer than everything d holds.
Behind(d) == \E s \in snaps \intersect Matching : \A h \in held[d] : h < s

\* Once snapshots, pruning and failures stop, every destination catches up with
\* the newest matching snapshot, without help from an administrator, unless the
\* source has been recreated and the destination may not be overwritten.  That
\* is checked without resumable streams, or without pruning: a token whose
\* target was pruned asks for help, too (InterruptedSendsResume).
EventuallyBackedUp ==
    <>[](\A d \in Dst : rebuilds = 0 \/ d \in ForceOverwrite => ~Behind(d))

\* An interrupted transfer is picked up where it left off: no resume token
\* stays at a destination for ever.
InterruptedSendsResume ==
    \A d \in Dst : token[d] # NoToken ~> token[d] = NoToken
=============================================================================
