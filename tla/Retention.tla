------------------------------ MODULE Retention ------------------------------
(***************************************************************************)
(* The deleter on one filesystem (internal/deleter): it lists the          *)
(* snapshots, marks those the policy preserves, and destroys the others,   *)
(* while time passes and other jobs keep taking snapshots.                 *)
(*                                                                         *)
(* Snapshots are 1, 2, ... in the order of their createtxg.  Time is       *)
(* counted in units of the smallest retention interval's granularity.      *)
(***************************************************************************)
EXTENDS Integers, FiniteSets, Sequences

CONSTANTS
    Eligible,     \* the snapshots whose names match one of `regex`
    TopN,         \* preserve_top_n
    NewerThan,    \* preserve_newer_than; 0 when unset
    Rules,        \* rules: a set of [interval, count, allowHoles]
    MaxSnap,      \* bound: the number of snapshots ever taken
    MaxTime,      \* bound: the last clock value
    MaxBack,      \* bound: how often the clock is set back
    MaxFaults     \* bound: failed zfs destroy commands

\* newPolicy refuses anything else.
ASSUME PolicyAssumption ==
    /\ TopN \in Nat
    /\ NewerThan \in Nat
    /\ \A r \in Rules : r.interval \in Nat \ {0} /\ r.count \in Nat \ {0}
                        /\ r.allowHoles \in BOOLEAN
ASSUME RetentionBounds ==
    MaxSnap \in Nat /\ MaxTime \in Nat /\ MaxBack \in Nat /\ MaxFaults \in Nat

VARIABLES
    clock,        \* the time of the host
    creation,     \* creation time of every snapshot taken so far, as a sequence
    snaps,        \* the snapshots that exist
    pc,           \* the deleter: between runs, after a successful one, or destroying
    seen,         \* the number of snapshots taken when its last run listed them
    victims,      \* what the run still has to destroy
    back, faults  \* how often the clock was set back, a command failed

run == <<pc, seen, victims>>
vars == <<clock, creation, snaps, run, back, faults>>

Taken == Len(creation)

TypeOK ==
    /\ clock \in 0 .. MaxTime
    /\ creation \in Seq(0 .. MaxTime) /\ Taken <= MaxSnap
    /\ snaps \subseteq 1 .. Taken
    /\ pc \in {"idle", "done", "destroy"}
    /\ seen \in 0 .. Taken
    /\ victims \subseteq snaps \intersect Eligible \intersect 1 .. seen
    /\ pc = "destroy" <=> victims # {}
    /\ back \in 0 .. MaxBack
    /\ faults \in 0 .. MaxFaults

Init ==
    /\ clock = 0
    /\ creation = <<>>
    /\ snaps = {}
    /\ pc = "idle"
    /\ seen = 0
    /\ victims = {}
    /\ back = 0
    /\ faults = 0

-----------------------------------------------------------------------------
(* getValidatedSnaps and markForPreservation                               *)

\* Faulty: `regex` is not applied.
ListedAll(S) == S

\* dfp.snaps: the snapshots that match.
Listed(S) == S \intersect Eligible

\* The listing is sorted by creation time and then refused if that is not the
\* order of createtxg.  So the order of an accepted listing is that of its numbers.
InOrder(L) == \A s, t \in L : s < t => creation[s] <= creation[t]

Newest(L) == CHOOSE s \in L : \A t \in L : t <= s

\* Faulty: ages are counted from the clock.
AnchorAtClock(L) == clock

\* dfp.now: retention is relative to the newest snapshot.
Anchor(L) == creation[Newest(L)]

PreserveTopN(L) == { s \in L : Cardinality({ t \in L : t > s }) < TopN }

PreserveNewerThan(L) == { s \in L : Anchor(L) - creation[s] < NewerThan }

\* The bucket of s: its age in whole intervals.
Interval(L, r, s) == (Anchor(L) - creation[s]) \div r.interval

\* Faulty: one bucket more than `count`.
VisitTooFar(L, r, s, w) ==
    LET k == Interval(L, r, s)
    IN  IF k < 0 \/ k > r.count \/ k = w.last THEN w
        ELSE [last |-> k, kept |-> w.kept \union {s}, hole |-> w.hole \/ k > w.last + 1]

\* One round of the loop over the snapshots; w is what the loop remembers: the
\* last bucket (lastInterval), what it preserved, and whether it saw a hole.
Visit(L, r, s, w) ==
    LET k == Interval(L, r, s)
    IN  IF k < 0 \/ k >= r.count \/ k = w.last THEN w
        ELSE [last |-> k, kept |-> w.kept \union {s}, hole |-> w.hole \/ k > w.last + 1]

\* The loop, newest first: what it remembers when it has come down to s, from
\* what it starts with.
Rounds(L, r, start) ==
    LET round[s \in 1 .. Taken + 1] ==
            IF s = Taken + 1 THEN start
            ELSE IF s \in L THEN Visit(L, r, s, round[s + 1])
            ELSE round[s + 1]
    IN  round

\* Faulty: lastInterval starts at the first bucket instead of before it.
WalkFromZero(L, r) == Rounds(L, r, [last |-> 0, kept |-> {}, hole |-> FALSE])[1]

Walk(L, r) == Rounds(L, r, [last |-> -1, kept |-> {}, hole |-> FALSE])[1]

\* A rule that forbids holes ends the run with an error before anything is
\* destroyed.
Refused(L) == \E r \in Rules : Walk(L, r).hole /\ ~r.allowHoles

\* getValidatedSnaps and markForPreservation return an error.
Rejected(L) == ~InOrder(L) \/ (L # {} /\ Refused(L))

Preserved(L) ==
    PreserveTopN(L) \union PreserveNewerThan(L) \union UNION { Walk(L, r).kept : r \in Rules }

ToDelete(L) == IF L = {} THEN {} ELSE L \ Preserved(L)

-----------------------------------------------------------------------------
(* Actions                                                                 *)

\* A run lists and marks.  Without victims it ends here.
Mark ==
    /\ pc # "destroy"
    /\ ~Rejected(Listed(snaps))
    /\ victims' = ToDelete(Listed(snaps))
    /\ pc' = IF victims' = {} THEN "done" ELSE "destroy"
    /\ seen' = Taken
    /\ UNCHANGED <<clock, creation, snaps, back, faults>>

\* A run ends with an error before it destroys anything.
MarkRejected ==
    /\ pc # "destroy"
    /\ Rejected(Listed(snaps))
    /\ pc' = "idle"
    /\ UNCHANGED <<clock, creation, snaps, seen, victims, back, faults>>

\* Faulty: the range of snapshots from the first victim to the last.
DestroyRange ==
    /\ pc = "destroy"
    /\ \E last \in victims :
          LET batch == { s \in snaps \intersect Eligible :
                           s <= last /\ \E v \in victims : v <= s }
          IN  snaps' = snaps \ batch /\ victims' = victims \ batch
    /\ pc' = IF victims' = {} THEN "done" ELSE "destroy"
    /\ UNCHANGED <<clock, creation, seen, back, faults>>

\* deleteManySnaps: the victims in one zfs destroy, or in several, oldest first.
Destroy ==
    /\ pc = "destroy"
    /\ \E last \in victims :
          LET batch == { s \in victims : s <= last }
          IN  snaps' = snaps \ batch /\ victims' = victims \ batch
    /\ pc' = IF victims' = {} THEN "done" ELSE "destroy"
    /\ UNCHANGED <<clock, creation, seen, back, faults>>

\* A zfs destroy fails, or the deleter dies: the rest is left for a later run.
GiveUp ==
    /\ pc = "destroy"
    /\ faults < MaxFaults
    /\ faults' = faults + 1
    /\ victims' = {}
    /\ pc' = "idle"
    /\ UNCHANGED <<clock, creation, snaps, seen, back>>

\* A snapshot is taken, by the snapshot job or by anyone.
TakeSnapshot ==
    /\ Taken < MaxSnap
    /\ creation' = Append(creation, clock)
    /\ snaps' = snaps \union {Taken + 1}
    /\ UNCHANGED <<clock, run, back, faults>>

Tick ==
    /\ clock < MaxTime
    /\ clock' = clock + 1
    /\ UNCHANGED <<creation, snaps, run, back, faults>>

SetClockBack ==
    /\ clock > 0 /\ back < MaxBack
    /\ clock' = clock - 1
    /\ back' = back + 1
    /\ UNCHANGED <<creation, snaps, run, faults>>

Next == Mark \/ MarkRejected \/ Destroy \/ GiveUp \/ TakeSnapshot \/ Tick \/ SetClockBack

Spec == Init /\ [][Next]_vars

-----------------------------------------------------------------------------
(* Properties                                                              *)

Selective == TopN > 0 \/ NewerThan > 0 \/ Rules # {}

\* A run never destroys the newest eligible snapshot, whatever has been taken
\* since its listing, as long as the policy preserves anything at all.  The
\* window is anchored there, so everything else hangs on it.
NewestSurvives ==
    [][Selective =>
          \A s \in snaps \intersect Eligible :
              (\A t \in snaps \intersect Eligible : t <= s) => s \in snaps']_vars

\* A run that is broken off midway loses nothing and blocks nothing: at any
\* point of it, as long as no snapshot was taken since its listing, a new run
\* would destroy exactly what it had still to destroy.
InterruptedRunContinues ==
    pc = "destroy" /\ seen = Taken =>
        /\ ~Rejected(Listed(snaps))
        /\ ToDelete(Listed(snaps)) = victims

Bucket(L, r, k) == { s \in L : Interval(L, r, s) = k }

\* The loop against the documentation of a rule: it keeps the newest snapshot
\* in each of `count` consecutive buckets, and reports a hole exactly when an
\* empty bucket comes before a kept snapshot.
WalkKeepsNewestPerBucket ==
    LET L == Listed(snaps)
    IN  L # {} /\ InOrder(L) =>
          \A r \in Rules :
             LET buckets == 0 .. (r.count - 1)
                 filled  == { k \in buckets : Bucket(L, r, k) # {} }
             IN  /\ Walk(L, r).kept =
                      { s \in L : \E k \in filled :
                            s \in Bucket(L, r, k) /\ \A t \in Bucket(L, r, k) : t <= s }
                 /\ Walk(L, r).hole <=> \E k \in buckets \ filled : \E m \in filled : k < m

\* If snapshotting stops, the window freezes: after a run that succeeded, and
\* without a new snapshot, later runs destroy nothing more, however much time
\* passes.
WindowFreezes ==
    pc = "done" /\ seen = Taken =>
        ~Rejected(Listed(snaps)) /\ ToDelete(Listed(snaps)) = {}

\* "1 per day for the last 30 days": after a run that succeeded, a rule has a
\* snapshot left in each of its buckets in which one was taken, or in a bucket
\* next to it, into which its snapshot may have moved.
RuleCovers ==
    pc = "done" /\ seen = Taken =>
        LET all == Listed(1 .. Taken)
        IN  \A r \in Rules : \A k \in 0 .. (r.count - 1) :
              all # {} /\ InOrder(all) /\ Bucket(all, r, k) # {} =>
                 \E j \in {k - 1, k, k + 1} : Bucket(all, r, j) \intersect snaps # {}
=============================================================================
