----------------------------- MODULE JobsProofs -----------------------------
(***************************************************************************)
(* Proofs about Jobs, for any invocations, configuration files,            *)
(* filesystems and pools.                                                  *)
(***************************************************************************)
EXTENDS Jobs, TLAPS

\* The lock of the file an invocation works with is its own.
LockInv == \A p \in Proc : Working(p) => holder[file[p]] = p

\* txg orders the snapshots of a filesystem, and a later one holds later data.
Ordered(f) ==
    /\ \A s \in snaps[f] : s.holds <= version[f]
    /\ \A s, t \in snaps[f] : s.txg = t.txg => s = t
    /\ \A s, t \in snaps[f] : s.txg <= t.txg => s.holds <= t.holds
    /\ snaps[f] # {} => \E s \in snaps[f] : \A t \in snaps[f] : t.txg <= s.txg

\* Whatever a deleter has marked, a later snapshot exists.
Spared(f) ==
    \A p \in Proc : \A d \in doomed[p][f] : \E t \in snaps[f] : d.txg < t.txg

\* What the snapshot module of p has settled about filesystem f.
Settled(p, f) ==
    /\ seen[p][f] <= version[f]
    /\ f \in idle[p] /\ stage[p] = "creation" => Covered(p, f)
    /\ stage[p] \in {"creation", "snapshot"} => "snapshot" \in left[p]
    /\ stage[p] \in {"creation", "snapshot"} /\ p \notin dry /\ "snapshot" \notin failed[p]
          => f \in due[p] \/ Covered(p, f)
    /\ SnapshotDone(p) => Covered(p, f)

SnapshotInv ==
    /\ \A f \in Fs : Ordered(f) /\ Spared(f)
    /\ \A p \in Proc, f \in Fs : Settled(p, f)

\* A successful report has the metrics of every filesystem; one that follows a
\* successful snapshot module is not older than the run.
Complete(r) == r.success => \A f \in Fs : r.latest[f] # Absent
Recent(p, r) ==
    SnapshotDone(p) => \A f \in Fs : r.latest[f] # Absent => r.latest[f] >= seen[p][f]

\* What the monitor of p has collected so far.
Collected(p) ==
    /\ report[p].by = p
    /\ stage[p] \in {"monitor", "write", "publish"} =>
          /\ "snapshot" \notin left[p]
          /\ Recent(p, report[p])
    /\ stage[p] = "monitor" /\ "monitor" \notin failed[p] =>
          \A f \in Fs : f \in due[p] \/ report[p].latest[f] # Absent
    /\ stage[p] \in {"write", "publish"} => Complete(report[p])
    /\ stage[p] = "publish" => temp[p] = report[p]

\* What readers of the output path see.
Shown ==
    published # NoFile =>
        /\ published \in Collection
        /\ Complete(published)
        /\ "snapshot" \notin left[published.by]
        /\ Recent(published.by, published)

ReportInv == (\A p \in Proc : Collected(p)) /\ Shown

Inv == TypeOK /\ LockInv /\ SnapshotInv /\ ReportInv

-----------------------------------------------------------------------------
(* Types                                                                   *)

\* The newest snapshot of a filesystem that has one.
LEMMA NewestIsNewest ==
    ASSUME TypeOK, NEW f \in Fs, Ordered(f), snaps[f] # {}
    PROVE  /\ Newest(f) \in snaps[f]
           /\ Newest(f).txg \in Nat /\ Newest(f).holds \in Nat
           /\ \A t \in snaps[f] : t.txg <= Newest(f).txg /\ t.holds <= Newest(f).holds
<1>1. PICK s \in snaps[f] : \A t \in snaps[f] : t.txg <= s.txg
  BY DEF Ordered
<1>2. Newest(f) \in snaps[f] /\ \A t \in snaps[f] : t.txg <= Newest(f).txg
  BY <1>1 DEF Newest
<1>3. snaps[f] \subseteq Snapshot
  BY DEF TypeOK
<1> QED
  BY <1>2, <1>3 DEF Ordered, Snapshot

\* What the metric of a filesystem is.
LEMMA NewestHoldsType ==
    ASSUME TypeOK, NEW f \in Fs, Ordered(f)
    PROVE  /\ NewestHolds(f) \in Nat
           /\ \A t \in snaps[f] : t.holds <= NewestHolds(f)
  BY NewestIsNewest DEF NewestHolds

\* The types hold at first.
LEMMA InitType == Init => TypeOK
  BY InvocationAssumption, FsAssumption, JobsBounds
  DEF Init, TypeOK, MetricsInit, NoReport, Collection, Absent, File, Stage, Ended, NoFile,
      Unwritten

\* A collection to which a metric is added, and one that ends.
LEMMA AddedMetric ==
    ASSUME NEW r \in Collection, NEW f \in Fs, NEW v \in Nat \union {Absent}
    PROVE  [r EXCEPT !.latest[f] = v] \in Collection
<1>1. [r.latest EXCEPT ![f] = v] \in [Fs -> Nat \union {Absent}]
  BY DEF Collection
<1>2. \A l \in [Fs -> Nat \union {Absent}] : [r EXCEPT !.latest = l] \in Collection
  BY DEF Collection
<1> QED
  BY <1>1, <1>2

\* StartPublishing's changes to a report.
LEMMA FinishedCollection ==
    ASSUME NEW r \in Collection, NEW n \in Nat, NEW b \in BOOLEAN
    PROVE  [r EXCEPT !.at = n, !.success = b] \in Collection
  BY DEF Collection

\* The number of faults stays within its bound.
LEMMA FaultType ==
    ASSUME TypeOK, NEW n \in Nat, Fault(n)
    PROVE  faults' \in 0 .. MaxFaults
  BY JobsBounds DEF Fault, TypeOK

\* A module reports an error.
LEMMA ReportType ==
    ASSUME TypeOK, NEW p \in Proc, NEW m \in Modules, Report(p, {m})
    PROVE  failed' \in [Proc -> SUBSET Modules]
  BY DEF Report, TypeOK

\* The discovery of the filesystems succeeds, or is reported.
LEMMA DiscoveredType ==
    ASSUME TypeOK, NEW p \in Proc, NEW m \in Modules, NEW found, Discovered(p, m, found)
    PROVE  failed' \in [Proc -> SUBSET Modules] /\ faults' \in 0 .. MaxFaults
  BY FaultType, ReportType DEF Discovered, TypeOK

\* Every step keeps the types, given the order of the snapshots.
LEMMA TypeStep == TypeOK /\ (\A f \in Fs : Ordered(f)) /\ [Next]_vars => TypeOK'
<1> SUFFICES ASSUME TypeOK, \A f \in Fs : Ordered(f), [Next]_vars PROVE TypeOK'
  OBVIOUS
<1> USE InvocationAssumption, FsAssumption, JobsBounds
<1>1. ASSUME NEW p \in Proc, Open(p) PROVE TypeOK'
  BY <1>1 DEF Open, Goto, File, TypeOK, Stage, Ended, data, lock, scratch, metricsVars
<1>2. ASSUME NEW p \in Proc, Lock(p) PROVE TypeOK'
  BY <1>2 DEF Lock, Goto, TypeOK, Stage, Ended, data, lock, scratch, metricsVars
<1>3. ASSUME NEW p \in Proc, LoadFails(p) PROVE TypeOK'
  BY <1>3 DEF LoadFails, Goto, Fault, TypeOK, Stage, Ended, data, lock, scratch, metricsVars
<1>4. ASSUME NEW p \in Proc, Exit(p) PROVE TypeOK'
  BY <1>4 DEF Exit, Goto, Unlock, TypeOK, Stage, Ended, data, lock, scratch, metricsVars
<1>5. ASSUME NEW p \in Proc, Killed(p) PROVE TypeOK'
  BY <1>5
     DEF Killed, Goto, Unlock, Fault, Forget, NoReport, Collection, Absent, TypeOK, Stage,
         Ended, data, lock, scratch, metricsVars
<1>6. ASSUME NEW p \in Proc, QueryWritten(p) PROVE TypeOK'
  <2>1. "snapshot" \in Modules
    BY DEF Modules
  <2>2. failed' \in [Proc -> SUBSET Modules] /\ faults' \in 0 .. MaxFaults
    BY <1>6, <2>1, DiscoveredType DEF QueryWritten, TypeOK
  <2>3. due' \in [Proc -> SUBSET Fs] /\ idle' \in [Proc -> SUBSET Fs]
                /\ seen' \in [Proc -> [Fs -> Nat]]
    <3>1. PICK found \in SUBSET Fs, known \in SUBSET Fs :
              /\ due' = [due EXCEPT ![p] = found]
              /\ idle' = [idle EXCEPT ![p] = { f \in known : Unchanged(f) }]
      BY <1>6 DEF QueryWritten
    <3>2. { f \in known : Unchanged(f) } \in SUBSET Fs
      OBVIOUS
    <3> QED
      BY <3>1, <3>2, <1>6 DEF QueryWritten, TypeOK
  <2> QED
    BY <1>6, <2>2, <2>3
       DEF QueryWritten, Goto, TypeOK, Stage, Ended, data, lock, scratch, metricsVars
<1>7. ASSUME NEW p \in Proc, QueryCreation(p) PROVE TypeOK'
  BY <1>7 DEF QueryCreation, Goto, TypeOK, Stage, Ended, data, lock, scratch, metricsVars
<1>8. ASSUME NEW p \in Proc, ZfsSnapshot(p) PROVE TypeOK'
  <2>1. "snapshot" \in Modules
    BY DEF Modules
  <2>2. failed' \in [Proc -> SUBSET Modules] /\ faults' \in 0 .. MaxFaults
    BY <1>8, <2>1, FaultType, ReportType DEF ZfsSnapshot, TypeOK
  <2>3. due' \in [Proc -> SUBSET Fs] /\ snaps' \in [Fs -> SUBSET Snapshot]
    <3>1. \A g \in Fs : snaps[g] # {} => Newest(g).txg \in Nat
      BY NewestIsNewest
    <3>2. \A g \in Fs : {[txg |-> IF snaps[g] = {} THEN 1 ELSE Newest(g).txg + 1,
                         holds |-> version[g]]} \subseteq Snapshot
      BY <3>1 DEF TypeOK, Snapshot
    <3>3. snaps' \in [Fs -> SUBSET Snapshot]
      <4> DEFINE new(g) == {[txg |-> IF snaps[g] = {} THEN 1 ELSE Newest(g).txg + 1,
                             holds |-> version[g]]}
      <4>1. \/ snaps' = snaps
            \/ snaps' = [g \in Fs |-> IF g \in NextPool(p) THEN snaps[g] \union new(g)
                                      ELSE snaps[g]]
        BY <1>8 DEF ZfsSnapshot
      <4>2. \A g \in Fs : snaps[g] \union new(g) \in SUBSET Snapshot /\ snaps[g] \in SUBSET Snapshot
        BY <3>2 DEF TypeOK
      <4> HIDE DEF new
      <4> QED
        BY <4>1, <4>2 DEF TypeOK
    <3>4. due' \in [Proc -> SUBSET Fs]
      BY <1>8 DEF ZfsSnapshot, TypeOK
    <3> QED
      BY <3>3, <3>4
  <2> QED
    BY <1>8, <2>2, <2>3 DEF ZfsSnapshot, TypeOK, Stage, Ended, data, lock, scratch, metricsVars
<1>9. ASSUME NEW p \in Proc, SnapshotEnds(p) PROVE TypeOK'
  BY <1>9 DEF SnapshotEnds, End, Goto, TypeOK, Stage, Ended, data, lock, scratch, metricsVars
<1>10. ASSUME NEW p \in Proc, Deleter(p) PROVE TypeOK'
  <2>1. "deleter" \in Modules
    BY DEF Modules
  <2>2. failed' \in [Proc -> SUBSET Modules] /\ faults' \in 0 .. MaxFaults
    BY <1>10, <2>1, DiscoveredType DEF Deleter, TypeOK
  <2>3. due' \in [Proc -> SUBSET Fs]
    BY <1>10 DEF Deleter, TypeOK
  <2> QED
    BY <1>10, <2>2, <2>3 DEF Deleter, Goto, TypeOK, Stage, Ended, data, lock, scratch, metricsVars
<1>11. ASSUME NEW p \in Proc, DeleterEnds(p) PROVE TypeOK'
  BY <1>11 DEF DeleterEnds, End, Goto, TypeOK, Stage, Ended, data, lock, scratch, metricsVars
<1>12. ASSUME NEW p \in Proc, Sender(p) PROVE TypeOK'
  <2>1. "sender" \in Modules
    BY DEF Modules
  <2>2. failed' \in [Proc -> SUBSET Modules] /\ faults' \in 0 .. MaxFaults
    BY <1>12, <2>1, FaultType, ReportType DEF Sender, TypeOK
  <2>3. left' \in [Proc -> SUBSET Modules]
    BY <1>12 DEF Sender, End, TypeOK
  <2> QED
    BY <1>12, <2>2, <2>3
       DEF Sender, End, Goto, TypeOK, Stage, Ended, data, lock, scratch, metricsVars
<1>13. ASSUME NEW p \in Proc, NEW f \in Fs, MarkForPreservation(p, f) PROVE TypeOK'
  <2>1. "deleter" \in Modules
    BY DEF Modules
  <2>2. failed' \in [Proc -> SUBSET Modules] /\ faults' \in 0 .. MaxFaults
    BY <1>13, <2>1, FaultType, ReportType DEF MarkForPreservation, TypeOK
  <2>3. due' \in [Proc -> SUBSET Fs] /\ doomed' \in [Proc -> [Fs -> SUBSET Snapshot]]
    <3>1. PICK S \in SUBSET snaps[f] :
              doomed' = doomed \/ doomed' = [doomed EXCEPT ![p][f] = S]
      BY <1>13 DEF MarkForPreservation
    <3>2. S \in SUBSET Snapshot
      BY <3>1 DEF TypeOK
    <3>3. [doomed[p] EXCEPT ![f] = S] \in [Fs -> SUBSET Snapshot]
      BY <3>2 DEF TypeOK
    <3>4. doomed' \in [Proc -> [Fs -> SUBSET Snapshot]]
      BY <3>1, <3>3 DEF TypeOK
    <3> QED
      BY <3>4, <1>13 DEF MarkForPreservation, TypeOK
  <2> QED
    BY <1>13, <2>2, <2>3
       DEF MarkForPreservation, TypeOK, Stage, Ended, data, lock, scratch, metricsVars
<1>14. ASSUME NEW p \in Proc, NEW f \in Fs, ZfsDestroy(p, f) PROVE TypeOK'
  <2>1. "deleter" \in Modules
    BY DEF Modules
  <2>2. failed' \in [Proc -> SUBSET Modules] /\ faults' \in 0 .. MaxFaults
    BY <1>14, <2>1, FaultType, ReportType DEF ZfsDestroy, TypeOK
  <2>3. snaps' \in [Fs -> SUBSET Snapshot] /\ doomed' \in [Proc -> [Fs -> SUBSET Snapshot]]
    <3>1. CASE Fault(1) /\ Report(p, {"deleter"}) /\ UNCHANGED snaps
                /\ doomed' = [doomed EXCEPT ![p][f] = {}]
      BY <3>1 DEF TypeOK
    <3>2. ASSUME NEW s \in doomed[p][f],
                 snaps' = [snaps EXCEPT ![f] = @ \ {s}],
                 doomed' = [doomed EXCEPT ![p][f] = @ \ {s}]
          PROVE  /\ snaps' \in [Fs -> SUBSET Snapshot]
                 /\ doomed' \in [Proc -> [Fs -> SUBSET Snapshot]]
      <4>1. snaps[f] \ {s} \in SUBSET Snapshot /\ doomed[p][f] \ {s} \in SUBSET Snapshot
        BY DEF TypeOK
      <4> QED
        BY <3>2, <4>1 DEF TypeOK
    <3> QED
      BY <3>1, <3>2, <1>14 DEF ZfsDestroy
  <2> QED
    BY <1>14, <2>2, <2>3 DEF ZfsDestroy, TypeOK, Stage, Ended, data, lock, scratch, metricsVars
<1>15. ASSUME NEW p \in Proc, Monitor(p) PROVE TypeOK'
  <2>1. "monitor" \in Modules
    BY DEF Modules
  <2>2. failed' \in [Proc -> SUBSET Modules] /\ faults' \in 0 .. MaxFaults
    BY <1>15, <2>1, FaultType, ReportType, DiscoveredType DEF Monitor, TypeOK
  <2>3. due' \in [Proc -> SUBSET Fs] /\ report' \in [Proc -> Collection]
    BY <1>15 DEF Monitor, NoReport, Collection, Absent, TypeOK
  <2> QED
    BY <1>15, <2>2, <2>3 DEF Monitor, Goto, TypeOK, Stage, Ended, data, lock, scratch, metricsVars
<1>16. ASSUME NEW p \in Proc, LastSnapMetrics(p) PROVE TypeOK'
  <2>1. "monitor" \in Modules
    BY DEF Modules
  <2>2. failed' \in [Proc -> SUBSET Modules] /\ faults' \in 0 .. MaxFaults
    BY <1>16, <2>1, FaultType, ReportType DEF LastSnapMetrics, TypeOK
  <2>3. due' \in [Proc -> SUBSET Fs] /\ report' \in [Proc -> Collection]
    <3>1. PICK f \in Fs : /\ due' = [due EXCEPT ![p] = @ \ {f}]
                          /\ \/ report' = [report EXCEPT ![p] =
                                    [@ EXCEPT !.latest[f] = NewestHolds(f)]]
                             \/ report' = report
      BY <1>16 DEF LastSnapMetrics, TypeOK
    <3>2. NewestHolds(f) \in Nat \union {Absent}
      BY NewestHoldsType
    <3>3. [report[p] EXCEPT !.latest[f] = NewestHolds(f)] \in Collection
      <4>1. report[p] \in Collection
        BY DEF TypeOK
      <4> QED
        BY <3>2, <4>1, AddedMetric
    <3>4. due' \in [Proc -> SUBSET Fs]
      BY <3>1 DEF TypeOK
    <3>5. report' \in [Proc -> Collection]
      BY <3>1, <3>3 DEF TypeOK
    <3> QED
      BY <3>4, <3>5
  <2> QED
    BY <1>16, <2>2, <2>3
       DEF LastSnapMetrics, TypeOK, Stage, Ended, data, lock, scratch, metricsVars
<1>17. ASSUME NEW p \in Proc, StartPublishing(p) PROVE TypeOK'
  <2>1. PICK b \in BOOLEAN :
            report' = [report EXCEPT ![p] = [@ EXCEPT !.at = collected + 1, !.success = b]]
    BY <1>17 DEF StartPublishing
  <2>2. report' \in [Proc -> Collection]
    <3>1. [report[p] EXCEPT !.at = collected + 1, !.success = b] \in Collection
      <4>1. report[p] \in Collection /\ collected + 1 \in Nat
        BY DEF TypeOK
      <4> QED
        BY <4>1, FinishedCollection
    <3> QED
      BY <2>1, <3>1 DEF TypeOK
  <2> QED
    BY <1>17, <2>2 DEF StartPublishing, CreateTemp, TempName, Goto, TypeOK, Stage, data, lock
<1>18. ASSUME NEW p \in Proc, Write(p) PROVE TypeOK'
  BY <1>18
     DEF Write, WriteTemp, TempName, Goto, TypeOK, Stage, Ended, data, lock, scratch,
         metricsVars
<1>19. ASSUME NEW p \in Proc, Publish(p) PROVE TypeOK'
  BY <1>19
     DEF Publish, Rename, TempName, End, Goto, Forget, NoReport, Collection, Absent, TypeOK,
         Stage, Ended, data, lock, scratch, metricsVars
<1>20. ASSUME NEW p \in Proc, PublishFails(p) PROVE TypeOK'
  <2>1. "monitor" \in Modules
    BY DEF Modules
  <2>2. failed' \in [Proc -> SUBSET Modules] /\ faults' \in 0 .. MaxFaults
    BY <1>20, <2>1, FaultType, ReportType DEF PublishFails, TypeOK
  <2>3. left' \in [Proc -> SUBSET Modules] /\ report' \in [Proc -> Collection]
                /\ temp' \in [Proc -> Collection \union {NoFile, Unwritten}]
    BY <1>20
       DEF PublishFails, End, Forget, RemoveTemp, TempName, NoReport, Collection, Absent,
           TypeOK
  <2> QED
    BY <1>20, <2>2, <2>3
       DEF PublishFails, RemoveTemp, Forget, End, Goto, NoReport, TypeOK, Stage, Ended, data,
           lock, scratch, metricsVars
<1>21. ASSUME NEW f \in Fs, WriteData(f) PROVE TypeOK'
  BY <1>21 DEF WriteData, TypeOK, Stage, Ended, data, lock, scratch, metricsVars
<1>22. CASE UNCHANGED vars
  BY <1>22 DEF vars, TypeOK, Stage, Ended, data, lock, scratch, metricsVars
<1>q. QED
  BY <1>1, <1>2, <1>3, <1>4, <1>5, <1>6, <1>7, <1>8, <1>9, <1>10, <1>11, <1>12, <1>13, <1>14,
     <1>15, <1>16, <1>17, <1>18, <1>19, <1>20, <1>21, <1>22
     DEF Next, Step

-----------------------------------------------------------------------------
(* The lock                                                                *)

\* A lock is given to nobody while it is held, and given back only by its
\* holder.
LEMMA LockStep == TypeOK /\ LockInv /\ [Next]_vars => LockInv'
<1> SUFFICES ASSUME TypeOK, LockInv, [Next]_vars PROVE LockInv'
  OBVIOUS
<1> USE InvocationAssumption, JobsBounds DEF LockInv, Working, Ended
<1>1. ASSUME NEW p \in Proc, Open(p) PROVE LockInv'
  BY <1>1 DEF Open, Goto, TypeOK
<1>2. ASSUME NEW p \in Proc, Lock(p) PROVE LockInv'
  BY <1>2 DEF Lock, Goto, TypeOK
<1>3. ASSUME NEW p \in Proc, LoadFails(p) PROVE LockInv'
  BY <1>3 DEF LoadFails, Goto, lock, TypeOK
<1>4. ASSUME NEW p \in Proc, Exit(p) PROVE LockInv'
  BY <1>4 DEF Exit, Goto, Unlock, TypeOK
<1>5. ASSUME NEW p \in Proc, Killed(p) PROVE LockInv'
  BY <1>5 DEF Killed, Goto, Unlock, TypeOK
<1>6. ASSUME NEW p \in Proc, QueryWritten(p) PROVE LockInv'
  BY <1>6 DEF QueryWritten, Turn, Goto, lock, TypeOK
<1>7. ASSUME NEW p \in Proc, QueryCreation(p) PROVE LockInv'
  BY <1>7 DEF QueryCreation, Goto, lock, TypeOK
<1>8. ASSUME NEW p \in Proc, ZfsSnapshot(p) PROVE LockInv'
  BY <1>8 DEF ZfsSnapshot, lock
<1>9. ASSUME NEW p \in Proc, SnapshotEnds(p) PROVE LockInv'
  BY <1>9 DEF SnapshotEnds, End, Goto, lock, TypeOK
<1>10. ASSUME NEW p \in Proc, Deleter(p) PROVE LockInv'
  BY <1>10 DEF Deleter, Turn, Goto, lock, TypeOK
<1>11. ASSUME NEW p \in Proc, DeleterEnds(p) PROVE LockInv'
  BY <1>11 DEF DeleterEnds, End, Goto, lock, TypeOK
<1>12. ASSUME NEW p \in Proc, Sender(p) PROVE LockInv'
  BY <1>12 DEF Sender, Turn, End, Goto, lock, TypeOK
<1>13. ASSUME NEW p \in Proc, NEW f \in Fs, MarkForPreservation(p, f) PROVE LockInv'
  BY <1>13 DEF MarkForPreservation, lock
<1>14. ASSUME NEW p \in Proc, NEW f \in Fs, ZfsDestroy(p, f) PROVE LockInv'
  BY <1>14 DEF ZfsDestroy, lock
<1>15. ASSUME NEW p \in Proc, Monitor(p) PROVE LockInv'
  BY <1>15 DEF Monitor, Turn, Goto, lock, TypeOK
<1>16. ASSUME NEW p \in Proc, LastSnapMetrics(p) PROVE LockInv'
  BY <1>16 DEF LastSnapMetrics, lock
<1>17. ASSUME NEW p \in Proc, StartPublishing(p) PROVE LockInv'
  BY <1>17 DEF StartPublishing, Goto, lock, TypeOK
<1>18. ASSUME NEW p \in Proc, Write(p) PROVE LockInv'
  BY <1>18 DEF Write, Goto, lock, TypeOK
<1>19. ASSUME NEW p \in Proc, Publish(p) PROVE LockInv'
  BY <1>19 DEF Publish, End, Goto, lock, TypeOK
<1>20. ASSUME NEW p \in Proc, PublishFails(p) PROVE LockInv'
  BY <1>20 DEF PublishFails, End, Goto, lock, TypeOK
<1>21. ASSUME NEW f \in Fs, WriteData(f) PROVE LockInv'
  BY <1>21 DEF WriteData, lock
<1>22. CASE UNCHANGED vars
  BY <1>22 DEF vars, lock
<1>q. QED
  BY <1>1, <1>2, <1>3, <1>4, <1>5, <1>6, <1>7, <1>8, <1>9, <1>10, <1>11, <1>12, <1>13, <1>14,
     <1>15, <1>16, <1>17, <1>18, <1>19, <1>20, <1>21, <1>22
     DEF Next, Step

-----------------------------------------------------------------------------
(* The snapshots                                                           *)

\* What a step that touches neither snapshots nor what a deleter has marked
\* preserves.
LEMMA SnapshotsUntouched ==
    ASSUME NEW f \in Fs, Ordered(f), Spared(f), UNCHANGED <<data, doomed>>
    PROVE  Ordered(f)' /\ Spared(f)'
  BY DEF Ordered, Spared, data

\* A deleter marks nothing that is the newest.
LEMMA MarkedIsOlder ==
    ASSUME TypeOK, NEW f \in Fs, Ordered(f), NEW s \in snaps[f], s # Newest(f)
    PROVE  \E t \in snaps[f] : s.txg < t.txg
<1>1. /\ Newest(f) \in snaps[f] /\ Newest(f).txg \in Nat
      /\ s.txg <= Newest(f).txg
  BY NewestIsNewest
<1>2. s.txg \in Nat
  BY DEF TypeOK, Snapshot
<1>3. s.txg # Newest(f).txg
  BY <1>1 DEF Ordered
<1> QED
  BY <1>1, <1>2, <1>3

\* What was covered remains so when a snapshot is destroyed that has a later one.
LEMMA DestroyKeepsCovered ==
    ASSUME TypeOK, NEW f \in Fs, Ordered(f), NEW s, NEW t \in snaps[f],
           s \in snaps[f] => s.txg < t.txg, s # t, NEW p \in Proc,
           snaps'[f] = snaps[f] \ {s}, UNCHANGED seen, Covered(p, f)
    PROVE  Covered(p, f)'
<1>1. PICK c \in snaps[f] : c.holds >= seen[p][f]
  BY DEF Covered
<1>2. snaps[f] \subseteq Snapshot /\ seen[p][f] \in Nat
  BY DEF TypeOK
<1>3. CASE c # s
  BY <1>1, <1>3 DEF Covered
<1>4. CASE c = s
  <2>1. t.holds >= c.holds
    BY <1>1, <1>2, <1>4 DEF Ordered, Snapshot
  <2>2. t \in snaps'[f] /\ t.holds >= seen[p][f]
    BY <1>1, <1>2, <2>1 DEF Snapshot
  <2> QED
    BY <2>2 DEF Covered
<1> QED
  BY <1>3, <1>4

\* Every step keeps the snapshots in order and the promises of the snapshot
\* module.
LEMMA SnapshotStep == TypeOK /\ SnapshotInv /\ [Next]_vars => SnapshotInv'
<1> SUFFICES ASSUME TypeOK, SnapshotInv, [Next]_vars PROVE SnapshotInv'
  OBVIOUS
<1> USE InvocationAssumption, FsAssumption, JobsBounds
<1>0. \A f \in Fs : Ordered(f) /\ Spared(f)
  BY DEF SnapshotInv
<1>s. \A p \in Proc, f \in Fs : Settled(p, f)
  BY DEF SnapshotInv
<1>1. ASSUME NEW p \in Proc, Open(p) PROVE SnapshotInv'
  <2>1. UNCHANGED <<data, doomed, dry, seen>>
    BY <1>1 DEF Open, Goto, data, lock, scratch
  <2>2. \A f \in Fs : Ordered(f)' /\ Spared(f)'
    BY <1>0, <2>1, SnapshotsUntouched
  <2>3. ASSUME NEW q \in Proc, NEW f \in Fs PROVE Settled(q, f)'
    BY <1>s, <2>1, <1>1 DEF Open, Goto, Settled, SnapshotDone, Covered, TypeOK, data, scratch
  <2> QED
    BY <2>2, <2>3 DEF SnapshotInv
<1>2. ASSUME NEW p \in Proc, Lock(p) PROVE SnapshotInv'
  <2>1. UNCHANGED <<data, doomed, dry, seen>>
    BY <1>2 DEF Lock, Goto, data, lock, scratch
  <2>2. \A f \in Fs : Ordered(f)' /\ Spared(f)'
    BY <1>0, <2>1, SnapshotsUntouched
  <2>3. ASSUME NEW q \in Proc, NEW f \in Fs PROVE Settled(q, f)'
    BY <1>s, <2>1, <1>2 DEF Lock, Goto, Settled, SnapshotDone, Covered, TypeOK, data, scratch
  <2> QED
    BY <2>2, <2>3 DEF SnapshotInv
<1>3. ASSUME NEW p \in Proc, LoadFails(p) PROVE SnapshotInv'
  <2>1. UNCHANGED <<data, doomed, dry, seen>>
    BY <1>3 DEF LoadFails, Goto, data, lock, scratch
  <2>2. \A f \in Fs : Ordered(f)' /\ Spared(f)'
    BY <1>0, <2>1, SnapshotsUntouched
  <2>3. ASSUME NEW q \in Proc, NEW f \in Fs PROVE Settled(q, f)'
    BY <1>s, <2>1, <1>3 DEF LoadFails, Goto, Settled, SnapshotDone, Covered, TypeOK, data, scratch
  <2> QED
    BY <2>2, <2>3 DEF SnapshotInv
<1>4. ASSUME NEW p \in Proc, Exit(p) PROVE SnapshotInv'
  <2>1. UNCHANGED <<data, doomed, dry, seen>>
    BY <1>4 DEF Exit, Goto, data, lock, scratch
  <2>2. \A f \in Fs : Ordered(f)' /\ Spared(f)'
    BY <1>0, <2>1, SnapshotsUntouched
  <2>3. ASSUME NEW q \in Proc, NEW f \in Fs PROVE Settled(q, f)'
    BY <1>s, <2>1, <1>4 DEF Exit, Goto, Settled, SnapshotDone, Covered, TypeOK, data, scratch
  <2> QED
    BY <2>2, <2>3 DEF SnapshotInv
<1>5. ASSUME NEW p \in Proc, Killed(p) PROVE SnapshotInv'
  <2>1. UNCHANGED <<data, doomed, dry, seen>>
    BY <1>5 DEF Killed, Goto, Forget, data, lock, scratch
  <2>2. \A f \in Fs : Ordered(f)' /\ Spared(f)'
    BY <1>0, <2>1, SnapshotsUntouched
  <2>3. ASSUME NEW q \in Proc, NEW f \in Fs PROVE Settled(q, f)'
    BY <1>s, <2>1, <1>5
       DEF Killed, Goto, Forget, Settled, SnapshotDone, Covered, TypeOK, data, scratch
  <2> QED
    BY <2>2, <2>3 DEF SnapshotInv
<1>6. ASSUME NEW p \in Proc, QueryWritten(p) PROVE SnapshotInv'
  <2>1. UNCHANGED <<data, doomed, dry, left>> /\ stage' = [stage EXCEPT ![p] = "creation"]
    BY <1>6 DEF QueryWritten, Goto
  <2>2. \A f \in Fs : Ordered(f)' /\ Spared(f)'
    BY <1>0, <2>1, SnapshotsUntouched
  <2>3. "snapshot" \in left[p] /\ seen' = [seen EXCEPT ![p] = version]
    BY <1>6 DEF QueryWritten, Turn
  <2>4. PICK found \in SUBSET Fs, known \in SUBSET Fs :
            /\ \/ found = Fs /\ failed' = failed
               \/ failed' = [failed EXCEPT ![p] = @ \union {"snapshot"}]
            /\ due' = [due EXCEPT ![p] = found]
            /\ idle' = [idle EXCEPT ![p] = { f \in known : Unchanged(f) }]
    BY <1>6 DEF QueryWritten, Discovered, Report
  <2>5. ASSUME NEW f \in Fs, f \in idle'[p] PROVE Covered(p, f)'
    <3>1. Unchanged(f)
      BY <2>4, <2>5 DEF TypeOK
    <3>2. Newest(f) \in snaps[f] /\ Newest(f).holds = version[f] /\ Newest(f).holds \in Nat
      BY <1>0, <3>1, NewestIsNewest DEF Unchanged
    <3> QED
      BY <2>1, <2>3, <3>2 DEF Covered, TypeOK, data
  <2>6. ASSUME NEW f \in Fs PROVE Settled(p, f)'
    BY <2>1, <2>3, <2>4, <2>5 DEF Settled, SnapshotDone, TypeOK, data
  <2>7. ASSUME NEW q \in Proc, q # p, NEW f \in Fs PROVE Settled(q, f)'
    BY <1>s, <2>1, <2>3, <2>4, <2>7 DEF Settled, SnapshotDone, Covered, TypeOK, data
  <2> QED
    BY <2>2, <2>6, <2>7 DEF SnapshotInv
<1>7. ASSUME NEW p \in Proc, QueryCreation(p) PROVE SnapshotInv'
  <2>1. UNCHANGED <<data, doomed, dry, seen>>
    BY <1>7 DEF QueryCreation, Goto, data, lock, scratch
  <2>2. \A f \in Fs : Ordered(f)' /\ Spared(f)'
    BY <1>0, <2>1, SnapshotsUntouched
  <2>3. ASSUME NEW q \in Proc, NEW f \in Fs PROVE Settled(q, f)'
    BY <1>s, <2>1, <1>7
       DEF QueryCreation, Goto, Settled, SnapshotDone, Covered, TypeOK, data, scratch
  <2> QED
    BY <2>2, <2>3 DEF SnapshotInv
<1>8. ASSUME NEW p \in Proc, ZfsSnapshot(p) PROVE SnapshotInv'
  <2>1. UNCHANGED <<version, doomed, dry, seen, stage, left, idle>>
    BY <1>8 DEF ZfsSnapshot
  <2>2. CASE snaps' = snaps /\ (p \in dry \/ "snapshot" \in failed'[p])
    <3>1. \A f \in Fs : Ordered(f)' /\ Spared(f)'
      BY <1>0, <2>1, <2>2, SnapshotsUntouched DEF data
    <3>2. ASSUME NEW q \in Proc, NEW f \in Fs PROVE Settled(q, f)'
      BY <1>s, <2>1, <2>2, <1>8 DEF ZfsSnapshot, Report, Settled, SnapshotDone, Covered, TypeOK
    <3> QED
      BY <3>1, <3>2 DEF SnapshotInv
  <2>3. CASE /\ snaps' = [f \in Fs |->
                   IF f \in NextPool(p)
                   THEN snaps[f] \union {[txg |-> IF snaps[f] = {} THEN 1 ELSE Newest(f).txg + 1,
                                          holds |-> version[f]]}
                   ELSE snaps[f]]
             /\ UNCHANGED failed
    <3>1. ASSUME NEW f \in Fs
          PROVE  \/ snaps'[f] = snaps[f]
                 \/ \E n \in Snapshot : /\ snaps'[f] = snaps[f] \union {n}
                                        /\ n.holds = version[f]
                                        /\ \A s \in snaps[f] : s.txg < n.txg
      <4> DEFINE n == [txg |-> IF snaps[f] = {} THEN 1 ELSE Newest(f).txg + 1,
                       holds |-> version[f]]
      <4>1. snaps[f] # {} => /\ Newest(f).txg \in Nat
                             /\ \A t \in snaps[f] : t.txg \in Nat /\ t.txg <= Newest(f).txg
        BY <1>0, NewestIsNewest DEF TypeOK, Snapshot
      <4>2. n \in Snapshot /\ n.holds = version[f] /\ \A s \in snaps[f] : s.txg < n.txg
        BY <4>1 DEF Snapshot, TypeOK
      <4>3. snaps'[f] = snaps[f] \/ snaps'[f] = snaps[f] \union {n}
        BY <2>3
      <4> QED
        BY <4>2, <4>3
    <3>2. ASSUME NEW f \in Fs PROVE Ordered(f)' /\ Spared(f)'
      <4>1. CASE snaps'[f] = snaps[f]
        BY <1>0, <2>1, <4>1 DEF Ordered, Spared
      <4>2. ASSUME NEW n \in Snapshot, snaps'[f] = snaps[f] \union {n}, n.holds = version[f],
                   \A s \in snaps[f] : s.txg < n.txg
            PROVE  Ordered(f)' /\ Spared(f)'
        <5>1. snaps[f] \subseteq Snapshot /\ version[f] \in Nat
          BY DEF TypeOK
        <5>2. Ordered(f)'
          BY <1>0, <2>1, <4>2, <5>1 DEF Ordered, Snapshot
        <5>3. Spared(f)'
          BY <1>0, <2>1, <4>2 DEF Spared
        <5> QED
          BY <5>2, <5>3
      <4> QED
        BY <3>1, <4>1, <4>2
    <3>3. ASSUME NEW q \in Proc, NEW f \in Fs, Covered(q, f) PROVE Covered(q, f)'
      BY <2>1, <3>1, <3>3 DEF Covered
    <3>4. ASSUME NEW f \in Fs, f \in NextPool(p) PROVE Covered(p, f)'
      <4>1. seen[p][f] <= version[f] /\ seen[p][f] \in Nat /\ version[f] \in Nat
        BY <1>s DEF Settled, TypeOK
      <4>2. \E n \in snaps'[f] : n.holds = version[f]
        <5> DEFINE n == [txg |-> IF snaps[f] = {} THEN 1 ELSE Newest(f).txg + 1,
                         holds |-> version[f]]
        <5>1. snaps'[f] = snaps[f] \union {n}
          BY <2>3, <3>4
        <5>2. n \in snaps'[f] /\ n.holds = version[f]
          BY <5>1
        <5> QED
          BY <5>2
      <4> QED
        BY <2>1, <4>1, <4>2 DEF Covered
    <3>5. ASSUME NEW q \in Proc, NEW f \in Fs PROVE Settled(q, f)'
      <4>1. q = p => due'[p] = due[p] \ NextPool(p)
        BY <1>8 DEF ZfsSnapshot, TypeOK
      <4>2. q # p => due'[q] = due[q]
        BY <1>8 DEF ZfsSnapshot, TypeOK
      <4> QED
        BY <1>s, <2>1, <2>3, <3>3, <3>4, <4>1, <4>2 DEF Settled, SnapshotDone
    <3> QED
      BY <3>2, <3>5 DEF SnapshotInv
  <2> QED
    BY <2>2, <2>3, <1>8 DEF ZfsSnapshot, Report, TypeOK
<1>9. ASSUME NEW p \in Proc, SnapshotEnds(p) PROVE SnapshotInv'
  <2>1. UNCHANGED <<data, doomed, dry, seen>>
    BY <1>9 DEF SnapshotEnds, End, Goto, data, lock, scratch
  <2>2. \A f \in Fs : Ordered(f)' /\ Spared(f)'
    BY <1>0, <2>1, SnapshotsUntouched
  <2>3. ASSUME NEW q \in Proc, NEW f \in Fs PROVE Settled(q, f)'
    BY <1>s, <2>1, <1>9
       DEF SnapshotEnds, End, Goto, Settled, SnapshotDone, Covered, TypeOK, data, scratch
  <2> QED
    BY <2>2, <2>3 DEF SnapshotInv
<1>10. ASSUME NEW p \in Proc, Deleter(p) PROVE SnapshotInv'
  <2>1. UNCHANGED <<data, doomed, dry, seen>>
    BY <1>10 DEF Deleter, Turn, Goto, Discovered, Report, data, lock, scratch
  <2>2. \A f \in Fs : Ordered(f)' /\ Spared(f)'
    BY <1>0, <2>1, SnapshotsUntouched
  <2>3. ASSUME NEW q \in Proc, NEW f \in Fs PROVE Settled(q, f)'
    BY <1>s, <2>1, <1>10
       DEF Deleter, Turn, Goto, Discovered, Report, Settled, SnapshotDone, Covered, TypeOK,
           data, scratch
  <2> QED
    BY <2>2, <2>3 DEF SnapshotInv
<1>11. ASSUME NEW p \in Proc, DeleterEnds(p) PROVE SnapshotInv'
  <2>1. UNCHANGED <<data, doomed, dry, seen>>
    BY <1>11 DEF DeleterEnds, End, Goto, data, lock, scratch
  <2>2. \A f \in Fs : Ordered(f)' /\ Spared(f)'
    BY <1>0, <2>1, SnapshotsUntouched
  <2>3. ASSUME NEW q \in Proc, NEW f \in Fs PROVE Settled(q, f)'
    BY <1>s, <2>1, <1>11
       DEF DeleterEnds, End, Goto, Settled, SnapshotDone, Covered, TypeOK, data, scratch
  <2> QED
    BY <2>2, <2>3 DEF SnapshotInv
<1>12. ASSUME NEW p \in Proc, Sender(p) PROVE SnapshotInv'
  <2>1. UNCHANGED <<data, doomed, dry, seen>>
    BY <1>12 DEF Sender, Turn, End, Goto, Report, data, lock, scratch
  <2>2. \A f \in Fs : Ordered(f)' /\ Spared(f)'
    BY <1>0, <2>1, SnapshotsUntouched
  <2>3. ASSUME NEW q \in Proc, NEW f \in Fs PROVE Settled(q, f)'
    BY <1>s, <2>1, <1>12
       DEF Sender, Turn, End, Goto, Report, Settled, SnapshotDone, Covered, TypeOK, data,
           scratch
  <2> QED
    BY <2>2, <2>3 DEF SnapshotInv
<1>13. ASSUME NEW p \in Proc, NEW f \in Fs, MarkForPreservation(p, f) PROVE SnapshotInv'
  <2>1. UNCHANGED <<data, dry, seen, stage, left, idle>>
    BY <1>13 DEF MarkForPreservation, data
  <2>2. stage[p] = "deleter" /\ due' = [due EXCEPT ![p] = @ \ {f}]
        /\ (failed' = failed \/ failed' = [failed EXCEPT ![p] = @ \union {"deleter"}])
    BY <1>13 DEF MarkForPreservation, Report
  <2>3. PICK S \in SUBSET { s \in snaps[f] : s # Newest(f) } :
            doomed' = doomed \/ doomed' = [doomed EXCEPT ![p][f] = S]
    <3>1. {} \in SUBSET { s \in snaps[f] : s # Newest(f) }
      OBVIOUS
    <3> QED
      BY <3>1, <1>13 DEF MarkForPreservation
  <2>4. ASSUME NEW g \in Fs PROVE Ordered(g)' /\ Spared(g)'
    <3>1. Ordered(g)'
      BY <1>0, <2>1 DEF Ordered, data
    <3>2. ASSUME NEW q \in Proc, NEW d \in doomed'[q][g]
          PROVE  \E t \in snaps[g] : d.txg < t.txg
      <4>1. d \in doomed[q][g] \/ (g = f /\ d \in S)
        <5>1. CASE doomed' = doomed
          BY <3>2, <5>1
        <5>2. CASE doomed' = [doomed EXCEPT ![p][f] = S]
          BY <3>2, <5>2 DEF TypeOK
        <5> QED
          BY <2>3, <5>1, <5>2
      <4>2. CASE d \in doomed[q][g]
        BY <1>0, <4>2 DEF Spared
      <4>3. CASE g = f /\ d \in S
        BY <1>0, <2>3, <4>3, MarkedIsOlder
      <4> QED
        BY <4>1, <4>2, <4>3
    <3>3. Spared(g)'
      BY <2>1, <3>2 DEF Spared, data
    <3> QED
      BY <3>1, <3>3
  <2>5. ASSUME NEW q \in Proc, NEW g \in Fs PROVE Settled(q, g)'
    BY <1>s, <2>1, <2>2 DEF Settled, SnapshotDone, Covered, TypeOK, data
  <2> QED
    BY <2>4, <2>5 DEF SnapshotInv
<1>14. ASSUME NEW p \in Proc, NEW f \in Fs, ZfsDestroy(p, f) PROVE SnapshotInv'
  <2>1. UNCHANGED <<version, dry, seen, stage, left, idle, due>>
        /\ (failed' = failed \/ failed' = [failed EXCEPT ![p] = @ \union {"deleter"}])
    BY <1>14 DEF ZfsDestroy, Report
  <2>2. CASE snaps' = snaps /\ doomed' = [doomed EXCEPT ![p][f] = {}]
    <3>1. \A q \in Proc, g \in Fs : doomed'[q][g] \subseteq doomed[q][g]
      BY <2>2 DEF TypeOK
    <3>2. \A g \in Fs : Ordered(g)' /\ Spared(g)'
      BY <1>0, <2>1, <2>2, <3>1 DEF Ordered, Spared
    <3>3. ASSUME NEW q \in Proc, NEW g \in Fs PROVE Settled(q, g)'
      BY <1>s, <2>1, <2>2 DEF Settled, SnapshotDone, Covered, TypeOK
    <3> QED
      BY <3>2, <3>3 DEF SnapshotInv
  <2>3. ASSUME NEW s \in doomed[p][f],
               snaps' = [snaps EXCEPT ![f] = @ \ {s}],
               doomed' = [doomed EXCEPT ![p][f] = @ \ {s}]
        PROVE  SnapshotInv'
    <3>1. PICK t \in snaps[f] : s.txg < t.txg
      BY <1>0, <2>3 DEF Spared
    <3>2. /\ s \in Snapshot /\ t \in Snapshot /\ t # s
          /\ snaps[f] \subseteq Snapshot
          /\ snaps'[f] = snaps[f] \ {s} /\ t \in snaps'[f]
          /\ \A g \in Fs : g # f => snaps'[g] = snaps[g]
      BY <2>3, <3>1 DEF TypeOK, Snapshot
    <3>3. \A q \in Proc, g \in Fs : doomed'[q][g] \subseteq doomed[q][g]
      BY <2>3 DEF TypeOK
    <3>4. \A q \in Proc : doomed[q][f] \subseteq Snapshot
      BY DEF TypeOK
    <3>5. ASSUME NEW q \in Proc, NEW d \in doomed[q][f]
          PROVE  \E u \in snaps'[f] : d.txg < u.txg
      <4>1. PICK u \in snaps[f] : d.txg < u.txg
        BY <1>0 DEF Spared
      <4>2. u = s => d.txg < t.txg
        BY <3>1, <3>2, <3>4, <4>1 DEF Snapshot
      <4> QED
        BY <3>2, <4>1, <4>2
    <3>6. ASSUME NEW g \in Fs PROVE Ordered(g)' /\ Spared(g)'
      <4>1. CASE g # f
        BY <1>0, <2>1, <3>2, <3>3, <4>1 DEF Ordered, Spared
      <4>2. CASE g = f
        <5>1. \E m \in snaps'[f] : \A u \in snaps'[f] : u.txg <= m.txg
          <6>1. PICK m \in snaps[f] : \A u \in snaps[f] : u.txg <= m.txg
            BY <1>0, <3>1 DEF Ordered
          <6>2. m # s
            BY <3>1, <3>2, <6>1 DEF Snapshot
          <6> QED
            BY <3>2, <6>1, <6>2
        <5>2. Ordered(f)'
          BY <1>0, <2>1, <3>2, <5>1 DEF Ordered
        <5>3. Spared(f)'
          BY <3>3, <3>5 DEF Spared
        <5> QED
          BY <4>2, <5>2, <5>3
      <4> QED
        BY <4>1, <4>2
    <3>7. ASSUME NEW q \in Proc, NEW g \in Fs, Covered(q, g) PROVE Covered(q, g)'
      <4>1. CASE g # f
        BY <2>1, <3>2, <3>7, <4>1 DEF Covered
      <4>2. CASE g = f
        BY <1>0, <2>1, <3>1, <3>2, <3>7, <4>2, DestroyKeepsCovered
      <4> QED
        BY <4>1, <4>2
    <3>8. ASSUME NEW q \in Proc, NEW g \in Fs PROVE Settled(q, g)'
      <4>1. \A m \in failed[q] : m \in failed'[q]
        <5>1. CASE failed' = failed
          BY <5>1
        <5>2. CASE failed' = [failed EXCEPT ![p] = @ \union {"deleter"}]
          BY <5>2 DEF TypeOK
        <5> QED
          BY <2>1, <5>1, <5>2
      <4> QED
        BY <1>s, <2>1, <3>7, <4>1 DEF Settled, SnapshotDone
    <3> QED
      BY <3>6, <3>8 DEF SnapshotInv
  <2> QED
    BY <2>2, <2>3, <1>14 DEF ZfsDestroy
<1>15. ASSUME NEW p \in Proc, Monitor(p) PROVE SnapshotInv'
  <2>1. UNCHANGED <<data, doomed, dry, seen>>
    BY <1>15 DEF Monitor, Turn, Goto, Discovered, Report, data, lock, scratch
  <2>2. \A f \in Fs : Ordered(f)' /\ Spared(f)'
    BY <1>0, <2>1, SnapshotsUntouched
  <2>3. ASSUME NEW q \in Proc, NEW f \in Fs PROVE Settled(q, f)'
    BY <1>s, <2>1, <1>15
       DEF Monitor, Turn, Goto, Discovered, Report, Settled, SnapshotDone, Covered, TypeOK,
           data, scratch
  <2> QED
    BY <2>2, <2>3 DEF SnapshotInv
<1>16. ASSUME NEW p \in Proc, LastSnapMetrics(p) PROVE SnapshotInv'
  <2>1. UNCHANGED <<data, doomed, dry, seen>>
    BY <1>16 DEF LastSnapMetrics, Report, data, lock, scratch
  <2>2. \A f \in Fs : Ordered(f)' /\ Spared(f)'
    BY <1>0, <2>1, SnapshotsUntouched
  <2>3. ASSUME NEW q \in Proc, NEW f \in Fs PROVE Settled(q, f)'
    BY <1>s, <2>1, <1>16
       DEF LastSnapMetrics, Report, Settled, SnapshotDone, Covered, TypeOK, data, scratch
  <2> QED
    BY <2>2, <2>3 DEF SnapshotInv
<1>17. ASSUME NEW p \in Proc, StartPublishing(p) PROVE SnapshotInv'
  <2>1. UNCHANGED <<data, doomed, dry, seen>>
    BY <1>17 DEF StartPublishing, Goto, data, lock, scratch
  <2>2. \A f \in Fs : Ordered(f)' /\ Spared(f)'
    BY <1>0, <2>1, SnapshotsUntouched
  <2>3. ASSUME NEW q \in Proc, NEW f \in Fs PROVE Settled(q, f)'
    BY <1>s, <2>1, <1>17
       DEF StartPublishing, Goto, Settled, SnapshotDone, Covered, TypeOK, data, scratch
  <2> QED
    BY <2>2, <2>3 DEF SnapshotInv
<1>18. ASSUME NEW p \in Proc, Write(p) PROVE SnapshotInv'
  <2>1. UNCHANGED <<data, doomed, dry, seen>>
    BY <1>18 DEF Write, Goto, data, lock, scratch
  <2>2. \A f \in Fs : Ordered(f)' /\ Spared(f)'
    BY <1>0, <2>1, SnapshotsUntouched
  <2>3. ASSUME NEW q \in Proc, NEW f \in Fs PROVE Settled(q, f)'
    BY <1>s, <2>1, <1>18 DEF Write, Goto, Settled, SnapshotDone, Covered, TypeOK, data, scratch
  <2> QED
    BY <2>2, <2>3 DEF SnapshotInv
<1>19. ASSUME NEW p \in Proc, Publish(p) PROVE SnapshotInv'
  <2>1. UNCHANGED <<data, doomed, dry, seen>>
    BY <1>19 DEF Publish, End, Goto, Forget, data, lock, scratch
  <2>2. \A f \in Fs : Ordered(f)' /\ Spared(f)'
    BY <1>0, <2>1, SnapshotsUntouched
  <2>3. ASSUME NEW q \in Proc, NEW f \in Fs PROVE Settled(q, f)'
    BY <1>s, <2>1, <1>19
       DEF Publish, End, Goto, Forget, Settled, SnapshotDone, Covered, TypeOK, data, scratch
  <2> QED
    BY <2>2, <2>3 DEF SnapshotInv
<1>20. ASSUME NEW p \in Proc, PublishFails(p) PROVE SnapshotInv'
  <2>1. UNCHANGED <<data, doomed, dry, seen>>
    BY <1>20 DEF PublishFails, End, Goto, Report, Forget, data, lock, scratch
  <2>2. \A f \in Fs : Ordered(f)' /\ Spared(f)'
    BY <1>0, <2>1, SnapshotsUntouched
  <2>3. ASSUME NEW q \in Proc, NEW f \in Fs PROVE Settled(q, f)'
    BY <1>s, <2>1, <1>20
       DEF PublishFails, End, Goto, Report, Forget, Settled, SnapshotDone, Covered, TypeOK,
           data, scratch
  <2> QED
    BY <2>2, <2>3 DEF SnapshotInv
<1>21. ASSUME NEW f \in Fs, WriteData(f) PROVE SnapshotInv'
  <2>1. UNCHANGED <<snaps, doomed, dry, seen, stage, left, idle, due, failed>>
    BY <1>21 DEF WriteData, scratch
  <2>2. \A g \in Fs : version[g] \in Nat /\ version'[g] \in Nat /\ version[g] <= version'[g]
    BY <1>21 DEF WriteData, TypeOK
  <2>3. ASSUME NEW g \in Fs PROVE Ordered(g)' /\ Spared(g)'
    <3>1. snaps[g] \subseteq Snapshot
      BY DEF TypeOK
    <3>2. Ordered(g)'
      <4>1. ASSUME NEW s \in snaps[g] PROVE s.holds <= version'[g]
        <5>1. s.holds \in Nat /\ s.holds <= version[g]
          BY <1>0, <3>1 DEF Ordered, Snapshot
        <5> QED
          BY <2>2, <5>1
      <4> QED
        BY <1>0, <2>1, <4>1 DEF Ordered
    <3>3. Spared(g)'
      BY <1>0, <2>1 DEF Spared
    <3> QED
      BY <3>2, <3>3
  <2>4. ASSUME NEW q \in Proc, NEW g \in Fs PROVE Settled(q, g)'
    <3>1. seen[q][g] \in Nat
      BY DEF TypeOK
    <3> QED
      BY <1>s, <2>1, <2>2, <3>1 DEF Settled, SnapshotDone, Covered
  <2> QED
    BY <2>3, <2>4 DEF SnapshotInv
<1>22. CASE UNCHANGED vars
  <2>1. UNCHANGED <<data, doomed, dry, seen>>
    BY <1>22 DEF vars, data, lock, scratch
  <2>2. \A f \in Fs : Ordered(f)' /\ Spared(f)'
    BY <1>0, <2>1, SnapshotsUntouched
  <2>3. ASSUME NEW q \in Proc, NEW f \in Fs PROVE Settled(q, f)'
    BY <1>s, <2>1, <1>22 DEF vars, Settled, SnapshotDone, Covered, TypeOK, data, scratch
  <2> QED
    BY <2>2, <2>3 DEF SnapshotInv
<1>q. QED
  BY <1>1, <1>2, <1>3, <1>4, <1>5, <1>6, <1>7, <1>8, <1>9, <1>10, <1>11, <1>12, <1>13, <1>14,
     <1>15, <1>16, <1>17, <1>18, <1>19, <1>20, <1>21, <1>22
     DEF Next, Step

-----------------------------------------------------------------------------
(* The reports                                                             *)

\* What a step preserves that is none of the monitor's.
LEMMA ReportUntouched ==
    ASSUME TypeOK, ReportInv, UNCHANGED <<dry, left, seen, report, metricsVars>>,
           \A q \in Proc : failed[q] \subseteq failed'[q],
           \A q \in Proc : stage'[q] \in {"monitor", "write", "publish"} =>
                stage'[q] = stage[q] /\ due'[q] = due[q]
    PROVE  ReportInv'
<1>1. \A q \in Proc : \A r : Recent(q, r) => Recent(q, r)'
  BY DEF Recent, SnapshotDone
<1>2. ASSUME NEW q \in Proc PROVE Collected(q)'
  BY <1>1 DEF ReportInv, Collected, Complete, metricsVars
<1>3. Shown'
  BY <1>1 DEF ReportInv, Shown, Complete, Collection, metricsVars
<1> QED
  BY <1>2, <1>3 DEF ReportInv

\* Every step keeps the promises of the monitor.
LEMMA ReportStep == TypeOK /\ SnapshotInv /\ ReportInv /\ [Next]_vars => ReportInv'
<1> SUFFICES ASSUME TypeOK, SnapshotInv, ReportInv, [Next]_vars PROVE ReportInv'
  OBVIOUS
<1> USE InvocationAssumption, FsAssumption, JobsBounds
<1>c. \A q \in Proc : Collected(q)
  BY DEF ReportInv
<1>p. Shown
  BY DEF ReportInv
<1>s. \A q \in Proc, f \in Fs : Settled(q, f)
  BY DEF SnapshotInv
<1>1. ASSUME NEW p \in Proc, Open(p) PROVE ReportInv'
  <2>1. UNCHANGED <<dry, left, seen, report, metricsVars>>
    BY <1>1 DEF Open, Goto, scratch
  <2>2. \A q \in Proc : failed[q] \subseteq failed'[q]
    BY <1>1 DEF Open, Goto, TypeOK
  <2>3. \A q \in Proc : stage'[q] \in {"monitor", "write", "publish"} =>
            stage'[q] = stage[q] /\ due'[q] = due[q]
    BY <1>1 DEF Open, Goto, TypeOK, scratch
  <2> QED
    BY <2>1, <2>2, <2>3, ReportUntouched
<1>2. ASSUME NEW p \in Proc, Lock(p) PROVE ReportInv'
  <2>1. UNCHANGED <<dry, left, seen, report, metricsVars>>
    BY <1>2 DEF Lock, Goto, scratch
  <2>2. \A q \in Proc : failed[q] \subseteq failed'[q]
    BY <1>2 DEF Lock, Goto, TypeOK
  <2>3. \A q \in Proc : stage'[q] \in {"monitor", "write", "publish"} =>
            stage'[q] = stage[q] /\ due'[q] = due[q]
    BY <1>2 DEF Lock, Goto, TypeOK, scratch
  <2> QED
    BY <2>1, <2>2, <2>3, ReportUntouched
<1>3. ASSUME NEW p \in Proc, LoadFails(p) PROVE ReportInv'
  <2>1. UNCHANGED <<dry, left, seen, report, metricsVars>>
    BY <1>3 DEF LoadFails, Goto, scratch
  <2>2. \A q \in Proc : failed[q] \subseteq failed'[q]
    BY <1>3 DEF LoadFails, Goto, TypeOK
  <2>3. \A q \in Proc : stage'[q] \in {"monitor", "write", "publish"} =>
            stage'[q] = stage[q] /\ due'[q] = due[q]
    BY <1>3 DEF LoadFails, Goto, TypeOK, scratch
  <2> QED
    BY <2>1, <2>2, <2>3, ReportUntouched
<1>4. ASSUME NEW p \in Proc, Exit(p) PROVE ReportInv'
  <2>1. UNCHANGED <<dry, left, seen, report, metricsVars>>
    BY <1>4 DEF Exit, Goto, scratch
  <2>2. \A q \in Proc : failed[q] \subseteq failed'[q]
    BY <1>4 DEF Exit, Goto, TypeOK
  <2>3. \A q \in Proc : stage'[q] \in {"monitor", "write", "publish"} =>
            stage'[q] = stage[q] /\ due'[q] = due[q]
    BY <1>4 DEF Exit, Goto, TypeOK, scratch
  <2> QED
    BY <2>1, <2>2, <2>3, ReportUntouched
<1>5. ASSUME NEW p \in Proc, Killed(p) PROVE ReportInv'
  <2>1. ASSUME NEW q \in Proc PROVE Collected(q)'
    BY <1>c, <1>5
       DEF Killed, Goto, Forget, NoReport, Collected, Recent, Complete, SnapshotDone, TypeOK,
         scratch, metricsVars
  <2>2. Shown'
    BY <1>p, <1>s, <1>5
       DEF Killed, Goto, Forget, NoReport, Shown, Recent, Complete, SnapshotDone, TypeOK,
         scratch, metricsVars, Settled, Collection
  <2> QED
    BY <2>1, <2>2 DEF ReportInv
<1>6. ASSUME NEW p \in Proc, QueryWritten(p) PROVE ReportInv'
  <2>1. UNCHANGED <<dry, left, report, metricsVars>> /\ "snapshot" \in left[p]
        /\ stage' = [stage EXCEPT ![p] = "creation"]
    BY <1>6 DEF QueryWritten, Turn, Goto
  <2>2. \A q \in Proc : q # p => seen'[q] = seen[q] /\ due'[q] = due[q] /\ failed'[q] = failed[q]
    BY <1>6 DEF QueryWritten, Discovered, Report, TypeOK
  <2>3. \A q \in Proc : \A r : q # p /\ Recent(q, r) => Recent(q, r)'
    BY <2>1, <2>2 DEF Recent, SnapshotDone
  <2>4. ASSUME NEW q \in Proc PROVE Collected(q)'
    <3>1. CASE q = p
      BY <1>c, <2>1, <3>1 DEF Collected, TypeOK
    <3>2. CASE q # p
      BY <1>c, <2>1, <2>2, <2>3, <3>2 DEF Collected, Complete, TypeOK, metricsVars
    <3> QED
      BY <3>1, <3>2
  <2>5. Shown'
    BY <1>p, <2>1, <2>3 DEF Shown, Complete, Collection, metricsVars
  <2> QED
    BY <2>4, <2>5 DEF ReportInv
<1>7. ASSUME NEW p \in Proc, QueryCreation(p) PROVE ReportInv'
  <2>1. UNCHANGED <<dry, left, seen, report, metricsVars>>
    BY <1>7 DEF QueryCreation, Goto, scratch
  <2>2. \A q \in Proc : failed[q] \subseteq failed'[q]
    BY <1>7 DEF QueryCreation, Goto, TypeOK
  <2>3. \A q \in Proc : stage'[q] \in {"monitor", "write", "publish"} =>
            stage'[q] = stage[q] /\ due'[q] = due[q]
    BY <1>7 DEF QueryCreation, Goto, TypeOK, scratch
  <2> QED
    BY <2>1, <2>2, <2>3, ReportUntouched
<1>8. ASSUME NEW p \in Proc, ZfsSnapshot(p) PROVE ReportInv'
  <2>1. UNCHANGED <<dry, left, seen, report, metricsVars>>
    BY <1>8 DEF ZfsSnapshot, Report, scratch
  <2>2. \A q \in Proc : failed[q] \subseteq failed'[q]
    BY <1>8 DEF ZfsSnapshot, Report, TypeOK
  <2>3. \A q \in Proc : stage'[q] \in {"monitor", "write", "publish"} =>
            stage'[q] = stage[q] /\ due'[q] = due[q]
    BY <1>8 DEF ZfsSnapshot, Report, TypeOK, scratch
  <2> QED
    BY <2>1, <2>2, <2>3, ReportUntouched
<1>9. ASSUME NEW p \in Proc, SnapshotEnds(p) PROVE ReportInv'
  <2>1. ASSUME NEW q \in Proc PROVE Collected(q)'
    BY <1>c, <1>9 DEF SnapshotEnds, End, Goto, Collected, Recent, Complete, SnapshotDone, TypeOK,
         scratch, metricsVars
  <2>2. Shown'
    BY <1>p, <1>s, <1>9
       DEF SnapshotEnds, End, Goto, Shown, Recent, Complete, SnapshotDone, TypeOK,
         scratch, metricsVars, Settled, Collection
  <2> QED
    BY <2>1, <2>2 DEF ReportInv
<1>10. ASSUME NEW p \in Proc, Deleter(p) PROVE ReportInv'
  <2>1. UNCHANGED <<dry, left, seen, report, metricsVars>>
    BY <1>10 DEF Deleter, Turn, Goto, Discovered, Report, scratch
  <2>2. \A q \in Proc : failed[q] \subseteq failed'[q]
    <3>1. CASE failed' = failed
      BY <3>1
    <3>2. CASE failed' = [failed EXCEPT ![p] = @ \union {"deleter"}]
      BY <3>2 DEF TypeOK
    <3> QED
      BY <3>1, <3>2, <1>10 DEF Deleter, Discovered, Report
  <2>3. \A q \in Proc : stage'[q] \in {"monitor", "write", "publish"} =>
            stage'[q] = stage[q] /\ due'[q] = due[q]
    BY <1>10 DEF Deleter, Turn, Goto, Discovered, Report, TypeOK, scratch
  <2> QED
    BY <2>1, <2>2, <2>3, ReportUntouched
<1>11. ASSUME NEW p \in Proc, DeleterEnds(p) PROVE ReportInv'
  <2>1. ASSUME NEW q \in Proc PROVE Collected(q)'
    BY <1>c, <1>11 DEF DeleterEnds, End, Goto, Collected, Recent, Complete, SnapshotDone, TypeOK,
         scratch, metricsVars
  <2>2. Shown'
    BY <1>p, <1>s, <1>11
       DEF DeleterEnds, End, Goto, Shown, Recent, Complete, SnapshotDone, TypeOK,
         scratch, metricsVars, Settled, Collection
  <2> QED
    BY <2>1, <2>2 DEF ReportInv
<1>12. ASSUME NEW p \in Proc, Sender(p) PROVE ReportInv'
  <2>1. ASSUME NEW q \in Proc PROVE Collected(q)'
    BY <1>c, <1>12
       DEF Sender, Turn, End, Goto, Report, Collected, Recent, Complete, SnapshotDone, TypeOK,
         scratch, metricsVars
  <2>2. Shown'
    BY <1>p, <1>s, <1>12
       DEF Sender, Turn, End, Goto, Report, Shown, Recent, Complete, SnapshotDone, TypeOK,
         scratch, metricsVars, Settled, Collection
  <2> QED
    BY <2>1, <2>2 DEF ReportInv
<1>13. ASSUME NEW p \in Proc, NEW f \in Fs, MarkForPreservation(p, f) PROVE ReportInv'
  <2>1. UNCHANGED <<dry, left, seen, report, metricsVars>>
    BY <1>13 DEF MarkForPreservation, Report, scratch
  <2>2. \A q \in Proc : failed[q] \subseteq failed'[q]
    <3>1. CASE failed' = failed
      BY <3>1
    <3>2. CASE failed' = [failed EXCEPT ![p] = @ \union {"deleter"}]
      BY <3>2 DEF TypeOK
    <3> QED
      BY <3>1, <3>2, <1>13 DEF MarkForPreservation, Report
  <2>3. \A q \in Proc : stage'[q] \in {"monitor", "write", "publish"} =>
            stage'[q] = stage[q] /\ due'[q] = due[q]
    BY <1>13 DEF MarkForPreservation, Report, TypeOK, scratch
  <2> QED
    BY <2>1, <2>2, <2>3, ReportUntouched
<1>14. ASSUME NEW p \in Proc, NEW f \in Fs, ZfsDestroy(p, f) PROVE ReportInv'
  <2>1. UNCHANGED <<dry, left, seen, report, metricsVars>>
    BY <1>14 DEF ZfsDestroy, Report, scratch
  <2>2. \A q \in Proc : failed[q] \subseteq failed'[q]
    <3>1. CASE failed' = failed
      BY <3>1
    <3>2. CASE failed' = [failed EXCEPT ![p] = @ \union {"deleter"}]
      BY <3>2 DEF TypeOK
    <3> QED
      BY <3>1, <3>2, <1>14 DEF ZfsDestroy, Report
  <2>3. \A q \in Proc : stage'[q] \in {"monitor", "write", "publish"} =>
            stage'[q] = stage[q] /\ due'[q] = due[q]
    BY <1>14 DEF ZfsDestroy, Report, TypeOK, scratch
  <2> QED
    BY <2>1, <2>2, <2>3, ReportUntouched
<1>15. ASSUME NEW p \in Proc, Monitor(p) PROVE ReportInv'
  <2>1. /\ UNCHANGED <<dry, left, seen, metricsVars>> /\ "snapshot" \notin left[p]
        /\ stage' = [stage EXCEPT ![p] = "monitor"]
        /\ report' = [report EXCEPT ![p] = NoReport(p)]
    BY <1>15 DEF Monitor, Turn, Earlier, Goto, TypeOK
  <2>2. PICK found \in SUBSET Fs :
            /\ due' = [due EXCEPT ![p] = found]
            /\ found = Fs \/ failed' = [failed EXCEPT ![p] = @ \union {"monitor"}]
            /\ failed' = failed \/ failed' = [failed EXCEPT ![p] = @ \union {"monitor"}]
    BY <1>15 DEF Monitor, Discovered, Report
  <2>3. \A q \in Proc : failed[q] \subseteq failed'[q] /\ (q # p => failed'[q] = failed[q])
    BY <2>2 DEF TypeOK
  <2>4. \A q \in Proc : \A r : Recent(q, r) => Recent(q, r)'
    BY <2>1, <2>3 DEF Recent, SnapshotDone
  <2>5. Recent(p, NoReport(p))' /\ NoReport(p).by = p
    BY DEF Recent, NoReport
  <2>6. found = Fs \/ "monitor" \in failed'[p]
    BY <2>2 DEF TypeOK
  <2>7. Collected(p)'
    BY <2>1, <2>2, <2>5, <2>6 DEF Collected, TypeOK
  <2>8. ASSUME NEW q \in Proc, q # p PROVE Collected(q)'
    BY <1>c, <2>1, <2>2, <2>3, <2>4, <2>8 DEF Collected, Complete, TypeOK, metricsVars
  <2>9. Shown'
    BY <1>p, <2>1, <2>4 DEF Shown, Complete, Collection, metricsVars
  <2> QED
    BY <2>7, <2>8, <2>9 DEF ReportInv
<1>16. ASSUME NEW p \in Proc, LastSnapMetrics(p) PROVE ReportInv'
  <2>1. UNCHANGED <<dry, left, seen, stage, metricsVars>> /\ stage[p] = "monitor"
    BY <1>16 DEF LastSnapMetrics
  <2>2. PICK f \in Fs :
            /\ due' = [due EXCEPT ![p] = @ \ {f}]
            /\ \/ /\ report' = [report EXCEPT ![p] = [@ EXCEPT !.latest[f] = NewestHolds(f)]]
                  /\ failed' = failed
               \/ /\ failed' = [failed EXCEPT ![p] = @ \union {"monitor"}]
                  /\ report' = report
    BY <1>16 DEF LastSnapMetrics, Report, TypeOK
  <2>3. \A q \in Proc : failed[q] \subseteq failed'[q] /\ (q # p => failed'[q] = failed[q])
    BY <2>2 DEF TypeOK
  <2>4. \A q \in Proc : \A r : Recent(q, r) => Recent(q, r)'
    BY <2>1, <2>3 DEF Recent, SnapshotDone
  <2>5. Collected(p)'
    <3>1. CASE /\ report' = report
               /\ failed' = [failed EXCEPT ![p] = @ \union {"monitor"}]
      <4>1. "monitor" \in failed'[p]
        BY <3>1 DEF TypeOK
      <4> QED
        BY <1>c, <2>1, <2>4, <3>1, <4>1 DEF Collected, Complete
    <3>2. CASE /\ report' = [report EXCEPT ![p] = [@ EXCEPT !.latest[f] = NewestHolds(f)]]
               /\ failed' = failed
      <4>1. report[p] \in Collection
        BY DEF TypeOK
      <4>2. /\ report'[p].by = report[p].by
            /\ report'[p].latest = [report[p].latest EXCEPT ![f] = NewestHolds(f)]
        BY <3>2, <4>1 DEF TypeOK, Collection
      <4>3. report[p].latest \in [Fs -> Nat \union {Absent}]
        BY <4>1 DEF Collection
      <4>4. NewestHolds(f) \in Nat /\ \A s \in snaps[f] : s.holds <= NewestHolds(f)
        BY NewestHoldsType DEF SnapshotInv
      <4>5. SnapshotDone(p) => NewestHolds(f) >= seen[p][f]
        <5>1. snaps[f] \subseteq Snapshot /\ seen[p][f] \in Nat
          BY DEF TypeOK
        <5> QED
          BY <1>s, <4>4, <5>1 DEF Settled, Covered, Snapshot
      <4>6. Recent(p, report'[p])
        BY <1>c, <2>1, <4>2, <4>3, <4>5 DEF Collected, Recent
      <4>7. Recent(p, report[p])'
        BY <2>1, <3>2, <4>6 DEF Recent, SnapshotDone
      <4>8. \A g \in Fs : g \in due'[p] \/ report'[p].latest[g] # Absent \/ "monitor" \in failed'[p]
        <5>1. NewestHolds(f) # Absent
          BY <4>4 DEF Absent
        <5>2. due'[p] = due[p] \ {f}
          BY <2>2 DEF TypeOK
        <5> QED
          BY <1>c, <2>1, <3>2, <4>2, <4>3, <5>1, <5>2 DEF Collected
      <4> QED
        BY <1>c, <2>1, <4>2, <4>7, <4>8 DEF Collected
    <3> QED
      BY <2>2, <3>1, <3>2
  <2>6. ASSUME NEW q \in Proc, q # p PROVE Collected(q)'
    <3>1. report'[q] = report[q] /\ due'[q] = due[q]
      BY <2>2, <2>6 DEF TypeOK
    <3> QED
      BY <1>c, <2>1, <2>3, <2>4, <3>1, <2>6 DEF Collected, Complete, metricsVars
  <2>7. Shown'
    BY <1>p, <2>1, <2>4 DEF Shown, Complete, Collection, metricsVars
  <2> QED
    BY <2>5, <2>6, <2>7 DEF ReportInv
<1>17. ASSUME NEW p \in Proc, StartPublishing(p) PROVE ReportInv'
  <2>1. /\ UNCHANGED <<dry, left, seen, failed, due, published>>
        /\ stage[p] = "monitor" /\ due[p] = {}
        /\ stage' = [stage EXCEPT ![p] = "write"]
        /\ temp' = [temp EXCEPT ![p] = Unwritten]
        /\ report' = [report EXCEPT ![p] =
              [@ EXCEPT !.at = collected + 1, !.success = "monitor" \notin failed[p]]]
    BY <1>17 DEF StartPublishing, CreateTemp, TempName, Goto
  <2>2. \A q \in Proc : \A r : Recent(q, r) => Recent(q, r)'
    BY <2>1 DEF Recent, SnapshotDone
  <2>3. Collected(p)'
    <3>1. report[p] \in Collection
      BY DEF TypeOK
    <3>2. /\ report'[p].by = report[p].by
          /\ report'[p].latest = report[p].latest
          /\ report'[p].success <=> "monitor" \notin failed[p]
      BY <2>1, <3>1 DEF TypeOK, Collection
    <3>3. Recent(p, report'[p])
      BY <1>c, <2>1, <3>2 DEF Collected, Recent
    <3>4. Recent(p, report[p])'
      BY <2>1, <3>3 DEF Recent, SnapshotDone
    <3>5. Complete(report[p])'
      BY <1>c, <2>1, <3>2 DEF Collected, Complete
    <3>6. stage'[p] = "write"
      BY <2>1 DEF TypeOK
    <3> QED
      BY <1>c, <2>1, <3>2, <3>4, <3>5, <3>6 DEF Collected
  <2>4. ASSUME NEW q \in Proc, q # p PROVE Collected(q)'
    <3>1. report'[q] = report[q] /\ temp'[q] = temp[q] /\ stage'[q] = stage[q]
      BY <2>1, <2>4 DEF TypeOK
    <3> QED
      BY <1>c, <2>1, <2>2, <3>1 DEF Collected, Complete
  <2>5. Shown'
    BY <1>p, <2>1, <2>2 DEF Shown, Complete, Collection
  <2> QED
    BY <2>3, <2>4, <2>5 DEF ReportInv
<1>18. ASSUME NEW p \in Proc, Write(p) PROVE ReportInv'
  <2>1. ASSUME NEW q \in Proc PROVE Collected(q)'
    BY <1>c, <1>18
       DEF Write, WriteTemp, TempName, Goto, Collected, Recent, Complete, SnapshotDone,
           TypeOK,
         scratch, metricsVars
  <2>2. Shown'
    BY <1>p, <1>s, <1>18
       DEF Write, WriteTemp, TempName, Goto, Shown, Recent, Complete, SnapshotDone, TypeOK,
         scratch, metricsVars, Settled, Collection
  <2> QED
    BY <2>1, <2>2 DEF ReportInv
<1>19. ASSUME NEW p \in Proc, Publish(p) PROVE ReportInv'
  <2>1. /\ UNCHANGED <<dry, seen, failed>>
        /\ stage[p] = "publish"
        /\ stage' = [stage EXCEPT ![p] = "ready"]
        /\ left' = [left EXCEPT ![p] = @ \ {"monitor"}]
        /\ report' = [report EXCEPT ![p] = NoReport(p)]
        /\ due' = [due EXCEPT ![p] = {}]
        /\ published' = temp[p]
        /\ temp' = [temp EXCEPT ![p] = NoFile]
    BY <1>19 DEF Publish, Rename, TempName, End, Goto, Forget
  <2>2. \A q \in Proc : "snapshot" \in left'[q] <=> "snapshot" \in left[q]
    BY <2>1 DEF TypeOK
  <2>3. \A q \in Proc : \A r : Recent(q, r) => Recent(q, r)'
    BY <2>1, <2>2 DEF Recent, SnapshotDone
  <2>4. Collected(p)'
    BY <2>1 DEF Collected, NoReport, TypeOK
  <2>5. ASSUME NEW q \in Proc, q # p PROVE Collected(q)'
    <3>1. report'[q] = report[q] /\ temp'[q] = temp[q] /\ stage'[q] = stage[q] /\ due'[q] = due[q]
      BY <2>1, <2>5 DEF TypeOK
    <3> QED
      BY <1>c, <2>1, <2>2, <2>3, <3>1 DEF Collected, Complete
  <2>6. Shown'
    <3>1. temp[p] = report[p] /\ report[p] \in Collection
      BY <1>c, <2>1 DEF Collected, TypeOK
    <3>2. report[p].by = p /\ Complete(report[p]) /\ "snapshot" \notin left[p] /\ Recent(p, report[p])
      BY <1>c, <2>1 DEF Collected
    <3> QED
      BY <2>1, <2>2, <2>3, <3>1, <3>2 DEF Shown, Complete
  <2> QED
    BY <2>4, <2>5, <2>6 DEF ReportInv
<1>20. ASSUME NEW p \in Proc, PublishFails(p) PROVE ReportInv'
  <2>1. ASSUME NEW q \in Proc PROVE Collected(q)'
    BY <1>c, <1>20
       DEF PublishFails, RemoveTemp, TempName, End, Goto, Report, Forget, NoReport, Collected,
           Recent, Complete, SnapshotDone, TypeOK,
         scratch, metricsVars
  <2>2. Shown'
    BY <1>p, <1>s, <1>20
       DEF PublishFails, RemoveTemp, TempName, End, Goto, Report, Forget, NoReport, Shown,
           Recent, Complete, SnapshotDone, TypeOK,
         scratch, metricsVars, Settled, Collection
  <2> QED
    BY <2>1, <2>2 DEF ReportInv
<1>21. ASSUME NEW f \in Fs, WriteData(f) PROVE ReportInv'
  <2>1. UNCHANGED <<dry, left, seen, report, metricsVars>>
    BY <1>21 DEF WriteData, scratch
  <2>2. \A q \in Proc : failed[q] \subseteq failed'[q]
    BY <1>21 DEF WriteData, TypeOK
  <2>3. \A q \in Proc : stage'[q] \in {"monitor", "write", "publish"} =>
            stage'[q] = stage[q] /\ due'[q] = due[q]
    BY <1>21 DEF WriteData, TypeOK, scratch
  <2> QED
    BY <2>1, <2>2, <2>3, ReportUntouched
<1>22. CASE UNCHANGED vars
  <2>1. UNCHANGED <<dry, left, seen, report, metricsVars>>
    BY <1>22 DEF vars, scratch
  <2>2. \A q \in Proc : failed[q] \subseteq failed'[q]
    BY <1>22 DEF vars, TypeOK
  <2>3. \A q \in Proc : stage'[q] \in {"monitor", "write", "publish"} =>
            stage'[q] = stage[q] /\ due'[q] = due[q]
    BY <1>22 DEF vars, TypeOK, scratch
  <2> QED
    BY <2>1, <2>2, <2>3, ReportUntouched
<1>q. QED
  BY <1>1, <1>2, <1>3, <1>4, <1>5, <1>6, <1>7, <1>8, <1>9, <1>10, <1>11, <1>12, <1>13, <1>14,
     <1>15, <1>16, <1>17, <1>18, <1>19, <1>20, <1>21, <1>22
     DEF Next, Step

-----------------------------------------------------------------------------
(* The order of publication                                                *)

\* Who is about to publish.
Publishing(p) == stage[p] \in {"write", "publish"}

\* What is published is older than what an invocation of the same file is
\* about to publish.
OrderInv ==
    /\ \A p \in Proc : Publishing(p) => report[p].at <= collected
    /\ published # NoFile =>
          /\ published.at <= collected
          /\ stage[published.by] \notin {"start", "lock"}
          /\ \A p \in Proc : Publishing(p) /\ file[p] = file[published.by] =>
                published.at < report[p].at

\* What a step preserves that neither begins nor ends a publication.
LEMMA OrderUntouched ==
    ASSUME TypeOK, ReportInv, OrderInv, UNCHANGED <<published, collected>>,
           \A q \in Proc : Publishing(q)' => Publishing(q) /\ report'[q] = report[q],
           \A q \in Proc : stage[q] # "start" => file'[q] = file[q],
           \A q \in Proc : stage[q] \notin {"start", "lock"} => stage'[q] \notin {"start", "lock"}
    PROVE  OrderInv'
<1>1. published # NoFile => published.by \in Proc
  BY DEF ReportInv, Shown, Collection
<1>2. \A q \in Proc : Publishing(q) => stage[q] # "start"
  BY DEF Publishing
<1> QED
  BY <1>1, <1>2 DEF OrderInv

\* Every step keeps the order.
LEMMA OrderStep == TypeOK /\ LockInv /\ ReportInv /\ OrderInv /\ [Next]_vars => OrderInv'
<1> SUFFICES ASSUME TypeOK, LockInv, ReportInv, OrderInv, [Next]_vars PROVE OrderInv'
  OBVIOUS
<1>1. ASSUME NEW p \in Proc, Open(p) PROVE OrderInv'
  <2>1. UNCHANGED <<published, collected>>
    BY <1>1 DEF Open, Goto, metricsVars, scratch, lock, data
  <2>2. \A q \in Proc : Publishing(q)' => Publishing(q) /\ report'[q] = report[q]
    BY <1>1 DEF Open, Goto, Publishing, TypeOK, scratch
  <2>3. \A q \in Proc : stage[q] # "start" => file'[q] = file[q]
    BY <1>1 DEF Open, Goto, TypeOK
  <2>4. \A q \in Proc : stage[q] \notin {"start", "lock"} => stage'[q] \notin {"start", "lock"}
    BY <1>1 DEF Open, Goto, Ended, TypeOK
  <2> QED
    BY <2>1, <2>2, <2>3, <2>4, OrderUntouched
<1>2. ASSUME NEW p \in Proc, Lock(p) PROVE OrderInv'
  <2>1. UNCHANGED <<published, collected>>
    BY <1>2 DEF Lock, Goto, metricsVars, scratch, lock, data
  <2>2. \A q \in Proc : Publishing(q)' => Publishing(q) /\ report'[q] = report[q]
    BY <1>2 DEF Lock, Goto, Publishing, TypeOK, scratch
  <2>3. \A q \in Proc : stage[q] # "start" => file'[q] = file[q]
    BY <1>2 DEF Lock, Goto, TypeOK
  <2>4. \A q \in Proc : stage[q] \notin {"start", "lock"} => stage'[q] \notin {"start", "lock"}
    BY <1>2 DEF Lock, Goto, Ended, TypeOK
  <2> QED
    BY <2>1, <2>2, <2>3, <2>4, OrderUntouched
<1>3. ASSUME NEW p \in Proc, LoadFails(p) PROVE OrderInv'
  <2>1. UNCHANGED <<published, collected>>
    BY <1>3 DEF LoadFails, Goto, metricsVars, scratch, lock, data
  <2>2. \A q \in Proc : Publishing(q)' => Publishing(q) /\ report'[q] = report[q]
    BY <1>3 DEF LoadFails, Goto, Publishing, TypeOK, scratch
  <2>3. \A q \in Proc : stage[q] # "start" => file'[q] = file[q]
    BY <1>3 DEF LoadFails, Goto, TypeOK
  <2>4. \A q \in Proc : stage[q] \notin {"start", "lock"} => stage'[q] \notin {"start", "lock"}
    BY <1>3 DEF LoadFails, Goto, Ended, TypeOK
  <2> QED
    BY <2>1, <2>2, <2>3, <2>4, OrderUntouched
<1>4. ASSUME NEW p \in Proc, Exit(p) PROVE OrderInv'
  <2>1. UNCHANGED <<published, collected>>
    BY <1>4 DEF Exit, Goto, metricsVars, scratch, lock, data
  <2>2. \A q \in Proc : Publishing(q)' => Publishing(q) /\ report'[q] = report[q]
    BY <1>4 DEF Exit, Goto, Publishing, TypeOK, scratch
  <2>3. \A q \in Proc : stage[q] # "start" => file'[q] = file[q]
    BY <1>4 DEF Exit, Goto, TypeOK
  <2>4. \A q \in Proc : stage[q] \notin {"start", "lock"} => stage'[q] \notin {"start", "lock"}
    BY <1>4 DEF Exit, Goto, Ended, TypeOK
  <2> QED
    BY <2>1, <2>2, <2>3, <2>4, OrderUntouched
<1>5. ASSUME NEW p \in Proc, Killed(p) PROVE OrderInv'
  <2>1. UNCHANGED <<published, collected>>
    BY <1>5 DEF Killed, Goto, Forget, metricsVars, scratch, lock, data
  <2>2. \A q \in Proc : Publishing(q)' => Publishing(q) /\ report'[q] = report[q]
    BY <1>5 DEF Killed, Goto, Forget, Publishing, TypeOK, scratch
  <2>3. \A q \in Proc : stage[q] # "start" => file'[q] = file[q]
    BY <1>5 DEF Killed, Goto, Forget, TypeOK
  <2>4. \A q \in Proc : stage[q] \notin {"start", "lock"} => stage'[q] \notin {"start", "lock"}
    BY <1>5 DEF Killed, Goto, Forget, Ended, TypeOK
  <2> QED
    BY <2>1, <2>2, <2>3, <2>4, OrderUntouched
<1>6. ASSUME NEW p \in Proc, QueryWritten(p) PROVE OrderInv'
  <2>1. UNCHANGED <<published, collected>>
    BY <1>6 DEF QueryWritten, Turn, Goto, Discovered, Report, metricsVars, scratch, lock, data
  <2>2. \A q \in Proc : Publishing(q)' => Publishing(q) /\ report'[q] = report[q]
    BY <1>6 DEF QueryWritten, Turn, Goto, Discovered, Report, Publishing, TypeOK, scratch
  <2>3. \A q \in Proc : stage[q] # "start" => file'[q] = file[q]
    BY <1>6 DEF QueryWritten, Turn, Goto, Discovered, Report, TypeOK
  <2>4. \A q \in Proc : stage[q] \notin {"start", "lock"} => stage'[q] \notin {"start", "lock"}
    BY <1>6 DEF QueryWritten, Turn, Goto, Discovered, Report, Ended, TypeOK
  <2> QED
    BY <2>1, <2>2, <2>3, <2>4, OrderUntouched
<1>7. ASSUME NEW p \in Proc, QueryCreation(p) PROVE OrderInv'
  <2>1. UNCHANGED <<published, collected>>
    BY <1>7 DEF QueryCreation, Goto, metricsVars, scratch, lock, data
  <2>2. \A q \in Proc : Publishing(q)' => Publishing(q) /\ report'[q] = report[q]
    BY <1>7 DEF QueryCreation, Goto, Publishing, TypeOK, scratch
  <2>3. \A q \in Proc : stage[q] # "start" => file'[q] = file[q]
    BY <1>7 DEF QueryCreation, Goto, TypeOK
  <2>4. \A q \in Proc : stage[q] \notin {"start", "lock"} => stage'[q] \notin {"start", "lock"}
    BY <1>7 DEF QueryCreation, Goto, Ended, TypeOK
  <2> QED
    BY <2>1, <2>2, <2>3, <2>4, OrderUntouched
<1>8. ASSUME NEW p \in Proc, ZfsSnapshot(p) PROVE OrderInv'
  <2>1. UNCHANGED <<published, collected>>
    BY <1>8 DEF ZfsSnapshot, Report, metricsVars, scratch, lock, data
  <2>2. \A q \in Proc : Publishing(q)' => Publishing(q) /\ report'[q] = report[q]
    BY <1>8 DEF ZfsSnapshot, Report, Publishing, TypeOK, scratch
  <2>3. \A q \in Proc : stage[q] # "start" => file'[q] = file[q]
    BY <1>8 DEF ZfsSnapshot, Report, TypeOK
  <2>4. \A q \in Proc : stage[q] \notin {"start", "lock"} => stage'[q] \notin {"start", "lock"}
    BY <1>8 DEF ZfsSnapshot, Report, Ended, TypeOK
  <2> QED
    BY <2>1, <2>2, <2>3, <2>4, OrderUntouched
<1>9. ASSUME NEW p \in Proc, SnapshotEnds(p) PROVE OrderInv'
  <2>1. UNCHANGED <<published, collected>>
    BY <1>9 DEF SnapshotEnds, End, Goto, metricsVars, scratch, lock, data
  <2>2. \A q \in Proc : Publishing(q)' => Publishing(q) /\ report'[q] = report[q]
    BY <1>9 DEF SnapshotEnds, End, Goto, Publishing, TypeOK, scratch
  <2>3. \A q \in Proc : stage[q] # "start" => file'[q] = file[q]
    BY <1>9 DEF SnapshotEnds, End, Goto, TypeOK
  <2>4. \A q \in Proc : stage[q] \notin {"start", "lock"} => stage'[q] \notin {"start", "lock"}
    BY <1>9 DEF SnapshotEnds, End, Goto, Ended, TypeOK
  <2> QED
    BY <2>1, <2>2, <2>3, <2>4, OrderUntouched
<1>10. ASSUME NEW p \in Proc, Deleter(p) PROVE OrderInv'
  <2>1. UNCHANGED <<published, collected>>
    BY <1>10 DEF Deleter, Turn, Goto, Discovered, Report, metricsVars, scratch, lock, data
  <2>2. \A q \in Proc : Publishing(q)' => Publishing(q) /\ report'[q] = report[q]
    BY <1>10 DEF Deleter, Turn, Goto, Discovered, Report, Publishing, TypeOK, scratch
  <2>3. \A q \in Proc : stage[q] # "start" => file'[q] = file[q]
    BY <1>10 DEF Deleter, Turn, Goto, Discovered, Report, TypeOK
  <2>4. \A q \in Proc : stage[q] \notin {"start", "lock"} => stage'[q] \notin {"start", "lock"}
    BY <1>10 DEF Deleter, Turn, Goto, Discovered, Report, Ended, TypeOK
  <2> QED
    BY <2>1, <2>2, <2>3, <2>4, OrderUntouched
<1>11. ASSUME NEW p \in Proc, DeleterEnds(p) PROVE OrderInv'
  <2>1. UNCHANGED <<published, collected>>
    BY <1>11 DEF DeleterEnds, End, Goto, metricsVars, scratch, lock, data
  <2>2. \A q \in Proc : Publishing(q)' => Publishing(q) /\ report'[q] = report[q]
    BY <1>11 DEF DeleterEnds, End, Goto, Publishing, TypeOK, scratch
  <2>3. \A q \in Proc : stage[q] # "start" => file'[q] = file[q]
    BY <1>11 DEF DeleterEnds, End, Goto, TypeOK
  <2>4. \A q \in Proc : stage[q] \notin {"start", "lock"} => stage'[q] \notin {"start", "lock"}
    BY <1>11 DEF DeleterEnds, End, Goto, Ended, TypeOK
  <2> QED
    BY <2>1, <2>2, <2>3, <2>4, OrderUntouched
<1>12. ASSUME NEW p \in Proc, Sender(p) PROVE OrderInv'
  <2>1. UNCHANGED <<published, collected>>
    BY <1>12 DEF Sender, Turn, End, Goto, Report, metricsVars, scratch, lock, data
  <2>2. \A q \in Proc : Publishing(q)' => Publishing(q) /\ report'[q] = report[q]
    BY <1>12 DEF Sender, Turn, End, Goto, Report, Publishing, TypeOK, scratch
  <2>3. \A q \in Proc : stage[q] # "start" => file'[q] = file[q]
    BY <1>12 DEF Sender, Turn, End, Goto, Report, TypeOK
  <2>4. \A q \in Proc : stage[q] \notin {"start", "lock"} => stage'[q] \notin {"start", "lock"}
    BY <1>12 DEF Sender, Turn, End, Goto, Report, Ended, TypeOK
  <2> QED
    BY <2>1, <2>2, <2>3, <2>4, OrderUntouched
<1>13. ASSUME NEW p \in Proc, NEW f \in Fs, MarkForPreservation(p, f) PROVE OrderInv'
  <2>1. UNCHANGED <<published, collected>>
    BY <1>13 DEF MarkForPreservation, Report, metricsVars, scratch, lock, data
  <2>2. \A q \in Proc : Publishing(q)' => Publishing(q) /\ report'[q] = report[q]
    BY <1>13 DEF MarkForPreservation, Report, Publishing, TypeOK, scratch
  <2>3. \A q \in Proc : stage[q] # "start" => file'[q] = file[q]
    BY <1>13 DEF MarkForPreservation, Report, TypeOK
  <2>4. \A q \in Proc : stage[q] \notin {"start", "lock"} => stage'[q] \notin {"start", "lock"}
    BY <1>13 DEF MarkForPreservation, Report, Ended, TypeOK
  <2> QED
    BY <2>1, <2>2, <2>3, <2>4, OrderUntouched
<1>14. ASSUME NEW p \in Proc, NEW f \in Fs, ZfsDestroy(p, f) PROVE OrderInv'
  <2>1. UNCHANGED <<published, collected>>
    BY <1>14 DEF ZfsDestroy, Report, metricsVars, scratch, lock, data
  <2>2. \A q \in Proc : Publishing(q)' => Publishing(q) /\ report'[q] = report[q]
    BY <1>14 DEF ZfsDestroy, Report, Publishing, TypeOK, scratch
  <2>3. \A q \in Proc : stage[q] # "start" => file'[q] = file[q]
    BY <1>14 DEF ZfsDestroy, Report, TypeOK
  <2>4. \A q \in Proc : stage[q] \notin {"start", "lock"} => stage'[q] \notin {"start", "lock"}
    BY <1>14 DEF ZfsDestroy, Report, Ended, TypeOK
  <2> QED
    BY <2>1, <2>2, <2>3, <2>4, OrderUntouched
<1>15. ASSUME NEW p \in Proc, Monitor(p) PROVE OrderInv'
  <2>1. UNCHANGED <<published, collected>>
    BY <1>15
       DEF Monitor, Turn, Earlier, Goto, Discovered, Report, metricsVars, scratch, lock, data
  <2>2. \A q \in Proc : Publishing(q)' => Publishing(q) /\ report'[q] = report[q]
    BY <1>15 DEF Monitor, Turn, Earlier, Goto, Discovered, Report, Publishing, TypeOK, scratch
  <2>3. \A q \in Proc : stage[q] # "start" => file'[q] = file[q]
    BY <1>15 DEF Monitor, Turn, Earlier, Goto, Discovered, Report, TypeOK
  <2>4. \A q \in Proc : stage[q] \notin {"start", "lock"} => stage'[q] \notin {"start", "lock"}
    BY <1>15 DEF Monitor, Turn, Earlier, Goto, Discovered, Report, Ended, TypeOK
  <2> QED
    BY <2>1, <2>2, <2>3, <2>4, OrderUntouched
<1>16. ASSUME NEW p \in Proc, LastSnapMetrics(p) PROVE OrderInv'
  <2>1. UNCHANGED <<published, collected>>
    BY <1>16 DEF LastSnapMetrics, Report, metricsVars, scratch, lock, data
  <2>2. \A q \in Proc : Publishing(q)' => Publishing(q) /\ report'[q] = report[q]
    BY <1>16 DEF LastSnapMetrics, Report, Publishing, TypeOK, scratch
  <2>3. \A q \in Proc : stage[q] # "start" => file'[q] = file[q]
    BY <1>16 DEF LastSnapMetrics, Report, TypeOK
  <2>4. \A q \in Proc : stage[q] \notin {"start", "lock"} => stage'[q] \notin {"start", "lock"}
    BY <1>16 DEF LastSnapMetrics, Report, Ended, TypeOK
  <2> QED
    BY <2>1, <2>2, <2>3, <2>4, OrderUntouched
<1>17. ASSUME NEW p \in Proc, StartPublishing(p) PROVE OrderInv'
  <2>1. /\ UNCHANGED <<published, file>> /\ collected' = collected + 1
        /\ stage[p] = "monitor"
        /\ stage' = [stage EXCEPT ![p] = "write"]
        /\ report' = [report EXCEPT ![p] =
              [@ EXCEPT !.at = collected + 1, !.success = "monitor" \notin failed[p]]]
    BY <1>17 DEF StartPublishing, CreateTemp, Goto
  <2>2. report'[p].at = collected + 1 /\ collected \in Nat
    BY <2>1 DEF TypeOK, Collection
  <2>3. \A q \in Proc : q # p => report'[q] = report[q] /\ stage'[q] = stage[q]
    BY <2>1 DEF TypeOK
  <2>4. \A q \in Proc : report[q].at \in Nat
    BY DEF TypeOK, Collection
  <2>5. published # NoFile => published.at \in Nat /\ published.by \in Proc
    BY DEF ReportInv, Shown, Collection
  <2>6. \A q \in Proc : Publishing(q)' => q = p \/ Publishing(q)
    BY <2>3 DEF Publishing
  <2>7. \A q \in Proc : stage[q] \notin {"start", "lock"} => stage'[q] \notin {"start", "lock"}
    BY <2>1 DEF TypeOK
  <2> QED
    BY <2>1, <2>2, <2>3, <2>4, <2>5, <2>6, <2>7 DEF OrderInv
<1>18. ASSUME NEW p \in Proc, Write(p) PROVE OrderInv'
  <2>1. UNCHANGED <<published, collected>>
    BY <1>18 DEF Write, WriteTemp, TempName, Goto, metricsVars, scratch, lock, data
  <2>2. \A q \in Proc : Publishing(q)' => Publishing(q) /\ report'[q] = report[q]
    BY <1>18 DEF Write, WriteTemp, TempName, Goto, Publishing, TypeOK, scratch
  <2>3. \A q \in Proc : stage[q] # "start" => file'[q] = file[q]
    BY <1>18 DEF Write, WriteTemp, TempName, Goto, TypeOK
  <2>4. \A q \in Proc : stage[q] \notin {"start", "lock"} => stage'[q] \notin {"start", "lock"}
    BY <1>18 DEF Write, WriteTemp, TempName, Goto, Ended, TypeOK
  <2> QED
    BY <2>1, <2>2, <2>3, <2>4, OrderUntouched
<1>19. ASSUME NEW p \in Proc, Publish(p) PROVE OrderInv'
  <2>1. /\ UNCHANGED <<collected, file>>
        /\ stage[p] = "publish"
        /\ stage' = [stage EXCEPT ![p] = "ready"]
        /\ report' = [report EXCEPT ![p] = NoReport(p)]
        /\ published' = report[p]
    BY <1>19 DEF Publish, Rename, TempName, End, Goto, Forget, ReportInv, Collected
  <2>2. report[p].by = p /\ report[p].at \in Nat /\ report[p].at <= collected
    BY <2>1 DEF ReportInv, Collected, OrderInv, Publishing, TypeOK, Collection
  <2>3. \A q \in Proc : q # p => report'[q] = report[q] /\ stage'[q] = stage[q]
    BY <2>1 DEF TypeOK
  <2>4. \A q \in Proc : Publishing(q)' => q # p /\ Publishing(q) /\ report'[q] = report[q]
    BY <2>1, <2>3 DEF Publishing, TypeOK
  <2>5. \A q \in Proc : Publishing(q) /\ file[q] = file[p] => q = p
    BY <2>1 DEF LockInv, Working, Ended, Publishing
  <2>6. stage'[p] = "ready"
    BY <2>1 DEF TypeOK
  <2> QED
    BY <2>1, <2>2, <2>4, <2>5, <2>6 DEF OrderInv
<1>20. ASSUME NEW p \in Proc, PublishFails(p) PROVE OrderInv'
  <2>1. UNCHANGED <<published, collected>>
    BY <1>20
       DEF PublishFails, RemoveTemp, TempName, End, Goto, Report, Forget, metricsVars,
           scratch, lock, data
  <2>2. \A q \in Proc : Publishing(q)' => Publishing(q) /\ report'[q] = report[q]
    BY <1>20
       DEF PublishFails, RemoveTemp, TempName, End, Goto, Report, Forget, Publishing, TypeOK,
           scratch
  <2>3. \A q \in Proc : stage[q] # "start" => file'[q] = file[q]
    BY <1>20 DEF PublishFails, RemoveTemp, TempName, End, Goto, Report, Forget, TypeOK
  <2>4. \A q \in Proc : stage[q] \notin {"start", "lock"} => stage'[q] \notin {"start", "lock"}
    BY <1>20 DEF PublishFails, RemoveTemp, TempName, End, Goto, Report, Forget, Ended, TypeOK
  <2> QED
    BY <2>1, <2>2, <2>3, <2>4, OrderUntouched
<1>21. ASSUME NEW f \in Fs, WriteData(f) PROVE OrderInv'
  <2>1. UNCHANGED <<published, collected>>
    BY <1>21 DEF WriteData, metricsVars, scratch, lock, data
  <2>2. \A q \in Proc : Publishing(q)' => Publishing(q) /\ report'[q] = report[q]
    BY <1>21 DEF WriteData, Publishing, TypeOK, scratch
  <2>3. \A q \in Proc : stage[q] # "start" => file'[q] = file[q]
    BY <1>21 DEF WriteData, TypeOK
  <2>4. \A q \in Proc : stage[q] \notin {"start", "lock"} => stage'[q] \notin {"start", "lock"}
    BY <1>21 DEF WriteData, Ended, TypeOK
  <2> QED
    BY <2>1, <2>2, <2>3, <2>4, OrderUntouched
<1>22. CASE UNCHANGED vars
  <2>1. UNCHANGED <<published, collected>>
    BY <1>22 DEF vars, metricsVars
  <2>2. \A q \in Proc : Publishing(q)' => Publishing(q) /\ report'[q] = report[q]
    BY <1>22 DEF vars, Publishing, TypeOK, scratch
  <2>3. \A q \in Proc : stage[q] # "start" => file'[q] = file[q]
    BY <1>22 DEF vars, TypeOK
  <2>4. \A q \in Proc : stage[q] \notin {"start", "lock"} => stage'[q] \notin {"start", "lock"}
    BY <1>22 DEF vars, Ended, TypeOK
  <2> QED
    BY <2>1, <2>2, <2>3, <2>4, OrderUntouched
<1>q. QED
  BY <1>1, <1>2, <1>3, <1>4, <1>5, <1>6, <1>7, <1>8, <1>9, <1>10, <1>11, <1>12, <1>13, <1>14,
     <1>15, <1>16, <1>17, <1>18, <1>19, <1>20, <1>21, <1>22
     DEF Next, Step

-----------------------------------------------------------------------------
(* Theorems                                                                *)

\* The invariant holds at first.
LEMMA InitInv == Init => Inv
<1> SUFFICES ASSUME Init PROVE Inv
  OBVIOUS
<1>1. TypeOK
  BY InitType
<1>2. LockInv
  BY DEF Init, LockInv, Working, Ended
<1>3. SnapshotInv
  BY FsAssumption DEF Init, SnapshotInv, Ordered, Spared, Settled, SnapshotDone
<1>4. ReportInv
  BY DEF Init, MetricsInit, ReportInv, Collected, Shown, NoReport
<1> QED
  BY <1>1, <1>2, <1>3, <1>4 DEF Inv

\* It is inductive.
LEMMA Invariance == Spec => []Inv
<1>1. Inv /\ [Next]_vars => Inv'
  BY TypeStep, LockStep, SnapshotStep, ReportStep DEF Inv, SnapshotInv
<1> QED
  BY InitInv, <1>1, PTL DEF Spec

\* The variables keep their types, whatever the invocations do.
THEOREM TypeCorrect == Spec => []TypeOK
<1>1. Inv => TypeOK
  BY DEF Inv
<1> QED
  BY Invariance, <1>1, PTL

\* Invocations that opened the same file never work at the same time
\* (LoadConfig).
THEOREM LockSerializes == Spec => []Serialized
<1>1. Inv => Serialized
  BY DEF Inv, LockInv, Serialized
<1> QED
  BY Invariance, <1>1, PTL

\* After a run of the snapshot module without an error, the data written before
\* it looked is in a snapshot, and stays in one (MaybeSkipSnaps, Run, and the
\* deleters of all jobs).
THEOREM SnapshotsCover == Spec => []SuccessMeansCovered
<1>1. Inv => SuccessMeansCovered
  BY DEF Inv, SnapshotInv, Settled, SuccessMeansCovered
<1> QED
  BY Invariance, <1>1, PTL

\* Nothing but a whole report is ever at the output path
\* (writePrometheusFile, lastSnapMetrics).
THEOREM ReportsAreWhole == Spec => []PublishedWhole
<1>1. Inv => PublishedWhole
  <2> SUFFICES ASSUME Inv PROVE PublishedWhole
    OBVIOUS
  <2>1. Unwritten \notin Collection
    BY DEF Unwritten, Collection
  <2> QED
    BY <2>1 DEF Inv, ReportInv, Shown, Complete, PublishedWhole
<1> QED
  BY Invariance, <1>1, PTL

\* A report that follows a successful snapshot module covers that run
\* (runMain's order of the modules).
THEOREM ReportsCoverTheirRun == Spec => []ReportCoversRun
<1>1. Inv => ReportCoversRun
  BY DEF Inv, ReportInv, Shown, Recent, ReportCoversRun
<1> QED
  BY Invariance, <1>1, PTL

\* Invocations of one file publish in the order in which they collected
\* (LoadConfig's lock, writePrometheusFile).
THEOREM PublicationIsOrdered == Spec => PublishedInOrder
<1> DEFINE Newer == published # NoFile /\ published' # published
                        /\ file[published'.by] = file[published.by]
                    => published'.at > published.at
<1>1. Init => OrderInv
  BY DEF Init, MetricsInit, OrderInv, Publishing
<1>2. Inv /\ OrderInv /\ [Next]_vars => OrderInv'
  BY OrderStep DEF Inv
<1>3. Inv /\ OrderInv /\ [Next]_vars => [Newer]_vars
  <2> SUFFICES ASSUME Inv, OrderInv, [Next]_vars, published' # published PROVE Newer
    BY DEF vars
  <2>1. PICK p \in Proc : Publish(p)
    BY DEF Next, Step, vars, metricsVars, Open, Lock, LoadFails, Exit, Killed, QueryWritten,
           QueryCreation, ZfsSnapshot, SnapshotEnds, Deleter, DeleterEnds, Sender,
           MarkForPreservation, ZfsDestroy, Monitor, LastSnapMetrics, StartPublishing, CreateTemp,
           Write, WriteTemp, PublishFails, RemoveTemp, WriteData
  <2>2. /\ stage[p] = "publish" /\ report[p].by = p /\ report[p].at \in Nat
        /\ published' = report[p]
    BY <2>1 DEF Inv, ReportInv, Collected, Publish, Rename, TempName, TypeOK, Collection
  <2>3. published # NoFile => published.at \in Nat
    BY DEF Inv, ReportInv, Shown, Collection
  <2> QED
    BY <2>2, <2>3 DEF OrderInv, Publishing
<1> QED
  BY Invariance, <1>1, <1>2, <1>3, PTL DEF Spec, PublishedInOrder
=============================================================================
