------------------------------- MODULE Source -------------------------------
(***************************************************************************)
(* The source side of one backed-up ZFS filesystem, as the sender sees and *)
(* changes it: its snapshots and its placeholder bookmarks.                *)
(*                                                                         *)
(* A snapshot is a natural number that stands for its GUID and also for    *)
(* its createtxg: later snapshots have larger numbers, and no snapshot     *)
(* ever gets the number of an earlier one.  0 stands for "no snapshot".    *)
(* A bookmark carries the GUID and the createtxg of the snapshot it was    *)
(* made from, so it is that number too, under one of two names (zfs.go):   *)
(*    before[p]   GUIDs of the bookmarks  #<snapshot>-before-<p>           *)
(*    done[p]     GUIDs of the bookmarks  #<snapshot>-<p>                  *)
(***************************************************************************)
EXTENDS Job

VARIABLES
    snaps,      \* the snapshots that exist now
    taken,      \* the number of snapshots taken so far; the newest GUID
    born,       \* how many of them were of earlier filesystems of this name
    before,     \* the before-send bookmarks of each suffix
    done        \* the after-send bookmarks (checkpoints) of each suffix

sourceVars == <<snaps, taken, born, before, done>>
bookmarks  == <<before, done>>

SourceTypeOK ==
    /\ taken \in 0 .. MaxSnap
    /\ born \in 0 .. taken
    /\ snaps \in SUBSET (born + 1 .. taken)
    /\ before \in [Suffix -> SUBSET (born + 1 .. taken)]
    /\ done \in [Suffix -> SUBSET (born + 1 .. taken)]

SourceInit ==
    /\ snaps = {}
    /\ taken = 0
    /\ born = 0
    /\ before = [p \in Suffix |-> {}]
    /\ done = [p \in Suffix |-> {}]

-----------------------------------------------------------------------------
(* What `zfs list -t snapshot,bookmark` and `zfs send -i` can refer to.    *)

\* GUIDs of the bookmarks whose name ends in "-p": the before-send name ends
\* in "-p" as the checkpoint's name does.
MarksOf(p) == before[p] \union done[p]

\* GUIDs an incremental stream can start from: those of a snapshot or bookmark.
Nameable == snaps \union UNION { MarksOf(p) : p \in Suffix }

-----------------------------------------------------------------------------
(* Bookmark operations of internal/zfs                                     *)

\* Faulty: no bookmark before the send, only the checkpoint after it.
SkippedBeforeBookmark(s, p) == s \in snaps /\ p \in Suffix /\ UNCHANGED sourceVars

\* ZfsSetBeforeBookmark: creates #<s>-before-<p>.  zfs bookmark needs the
\* snapshot, and so does the `zfs get guid` that accepts an existing bookmark.
ZfsSetBeforeBookmark(s, p) ==
    /\ s \in snaps
    /\ before' = [before EXCEPT ![p] = @ \union {s}]
    /\ UNCHANGED <<snaps, taken, born, done>>

\* The creating half of ZfsSetPlaceholder; zfsGcPlaceholder follows it.
ZfsSetPlaceholder(s, p) ==
    /\ s \in snaps
    /\ done' = [done EXCEPT ![p] = @ \union {s}]
    /\ UNCHANGED <<snaps, taken, born, before>>

\* Faulty: before-send bookmarks are left behind.
NoGarbageBefore(p) == {}

\* Faulty: the bookmark to keep is not spared.
GarbageWithKept(s, p) == done[p]

\* Bookmarks zfsGcPlaceholder(#<s>-<p>) destroys: every bookmark of the suffix
\* but the one to keep; the before-send bookmark of s itself is one of them.
GarbageBefore(p) == before[p]
GarbageDone(s, p) == done[p] \ {s}

\* Faulty: bookmarks of other suffixes are victims too.
DestroyAnyBookmark(s, p) ==
    /\ UNCHANGED <<snaps, taken, born>>
    /\ \E q \in Suffix :
          /\ before' = [before EXCEPT ![q] = {}]
          /\ done' = [done EXCEPT ![q] = @ \intersect {s}]

\* zfsGcPlaceholder destroys the victims one `zfs destroy` at a time.
ZfsDestroyBookmark(s, p) ==
    /\ UNCHANGED <<snaps, taken, born>>
    /\ \/ \E v \in GarbageBefore(p) :
            before' = [before EXCEPT ![p] = @ \ {v}] /\ UNCHANGED done
       \/ \E v \in GarbageDone(s, p) :
            done' = [done EXCEPT ![p] = @ \ {v}] /\ UNCHANGED before

NoGarbage(s, p) == GarbageBefore(p) = {} /\ GarbageDone(s, p) = {}

-----------------------------------------------------------------------------
(* What other jobs and the administrator do to the filesystem meanwhile    *)

\* internal/snapshot, or anyone, takes a snapshot.
TakeSnapshot ==
    /\ taken < MaxSnap
    /\ taken' = taken + 1
    /\ snaps' = snaps \union {taken + 1}
    /\ UNCHANGED <<born, bookmarks>>

\* internal/deleter, or anyone, destroys snapshot s; bookmarks outlive it.
Prune(s) ==
    /\ s \in snaps
    /\ snaps' = snaps \ {s}
    /\ UNCHANGED <<taken, born, before, done>>

\* The administrator destroys the filesystem and creates it anew: snapshots
\* and bookmarks are gone and later snapshots have other GUIDs.
Rebuild ==
    /\ snaps' = {}
    /\ before' = [p \in Suffix |-> {}]
    /\ done' = [p \in Suffix |-> {}]
    /\ born' = taken
    /\ UNCHANGED taken
=============================================================================
