-------------------------------- MODULE Jobs --------------------------------
(***************************************************************************)
(* Invocations of zfsbackup on the source host: each opens and locks its   *)
(* configuration file, works through its modules in the order of runMain,  *)
(* and exits.  Invocations of different configuration files, or of a file  *)
(* that was replaced, run at the same time on the same filesystems.        *)
(*                                                                         *)
(* The snapshot module and the monitor are modelled here.  The deleter is  *)
(* what module Retention shows of it: it destroys snapshots it has listed, *)
(* never the newest of them (NewestSurvives).  The sender is module        *)
(* Replication and changes nothing that matters here.                      *)
(*                                                                         *)
(* A subcommand (zfsbackup snapshot, ...) is an invocation with one module.*)
(***************************************************************************)
EXTENDS Integers, FiniteSets, Metrics

CONSTANTS
    Conf,             \* paths of configuration files
    ConfigOf,         \* the path given to each invocation
    Sections,         \* the modules each invocation runs
    Fs,               \* filesystems, numbered in the order of their names
    PoolOf,           \* the pool of each, numbered in the order of their names
    MaxWrites,        \* bound: writes to each filesystem
    MaxReplacements,  \* bound: how often each configuration file is replaced
    MaxFaults         \* bound: failed commands and killed processes

Modules == {"snapshot", "deleter", "sender", "monitor"}

ASSUME InvocationAssumption ==
    /\ ConfigOf \in [Proc -> Conf]
    /\ Sections \in [Proc -> SUBSET Modules]
    /\ Nobody \notin Proc
ASSUME FsAssumption == Fs \subseteq Nat /\ IsFiniteSet(Fs) /\ PoolOf \in [Fs -> Nat]
ASSUME JobsBounds ==
    MaxWrites \in Nat /\ MaxReplacements \in [Conf -> Nat] /\ MaxFaults \in Nat

VARIABLES
    dry,        \* the invocations with --dry-run
    version,    \* how often each filesystem was written
    snaps,      \* its snapshots: their createtxg, and the version they hold
    current,    \* how often each configuration file was replaced
    holder,     \* who holds the lock of each file ever at a path
    stage,      \* what each invocation is about to do, or how it ended
    file,       \* the file it has opened
    left,       \* the modules it has still to run
    failed,     \* the modules that reported an error
    due,        \* the filesystems its current module has still to treat
    idle,       \* those of them found unwritten since their last snapshot
    seen,       \* the versions when the snapshot module looked
    doomed,     \* the snapshots its deleter is about to destroy
    report,     \* what its monitor has collected
    collected,  \* the number of collections so far: the clock of the reports
    faults

data == <<version, snaps>>
lock == <<current, holder>>
scratch == <<due, idle, seen, doomed, report>>
vars == <<dry, data, lock, metricsVars, stage, file, left, failed, scratch, collected, faults>>

\* The file a path had after n replacements.
File == UNION { {c} \X (0 .. MaxReplacements[c]) : c \in Conf }

Ended == {"ok", "failed", "killed"}
Stage == {"start", "lock", "ready", "creation", "snapshot", "deleter",
          "monitor", "write", "publish"} \union Ended

Working(p) == stage[p] \notin {"start", "lock"} \union Ended

\* No metric of a filesystem.
Absent == -1

\* What a monitor collects, and what it has before it begins.
Collection == [by : Proc, at : Nat, success : BOOLEAN,
               latest : [Fs -> Nat \union {Absent}]]
NoReport(p) == [by |-> p, at |-> 0, success |-> FALSE, latest |-> [f \in Fs |-> Absent]]

Snapshot == [txg : Nat, holds : Nat]
Newest(f) == CHOOSE s \in snaps[f] : \A t \in snaps[f] : t.txg <= s.txg
NewestHolds(f) == IF snaps[f] = {} THEN 0 ELSE Newest(f).holds

TypeOK ==
    /\ dry \subseteq Proc
    /\ version \in [Fs -> Nat]
    /\ snaps \in [Fs -> SUBSET Snapshot]
    /\ current \in [Conf -> Nat]
    /\ \A c \in Conf : current[c] <= MaxReplacements[c]
    /\ holder \in [File -> Proc \union {Nobody}]
    /\ stage \in [Proc -> Stage]
    /\ file \in [Proc -> File]
    /\ left \in [Proc -> SUBSET Modules]
    /\ failed \in [Proc -> SUBSET Modules]
    /\ due \in [Proc -> SUBSET Fs]
    /\ idle \in [Proc -> SUBSET Fs]
    /\ seen \in [Proc -> [Fs -> Nat]]
    /\ doomed \in [Proc -> [Fs -> SUBSET Snapshot]]
    /\ report \in [Proc -> Collection]
    /\ temp \in [Proc -> Collection \union {NoFile, Unwritten}]
    /\ published \in Collection \union {NoFile, Unwritten}
    /\ collected \in Nat
    /\ faults \in 0 .. MaxFaults

Init ==
    /\ dry \in SUBSET Proc
    /\ version = [f \in Fs |-> 0]
    /\ snaps = [f \in Fs |-> {}]
    /\ current = [c \in Conf |-> 0]
    /\ holder = [x \in File |-> Nobody]
    /\ MetricsInit
    /\ stage = [p \in Proc |-> "start"]
    /\ file = [p \in Proc |-> <<ConfigOf[p], 0>>]
    /\ left = Sections
    /\ failed = [p \in Proc |-> {}]
    /\ due = [p \in Proc |-> {}]
    /\ idle = [p \in Proc |-> {}]
    /\ seen = [p \in Proc |-> [f \in Fs |-> 0]]
    /\ doomed = [p \in Proc |-> [f \in Fs |-> {}]]
    /\ report = [p \in Proc |-> NoReport(p)]
    /\ collected = 0
    /\ faults = 0

\* n of the bounded number of things that go wrong do so now.
Fault(n) == faults + n <= MaxFaults /\ faults' = faults + n

Goto(p, s) == stage' = [stage EXCEPT ![p] = s]
Report(p, errs) == failed' = [failed EXCEPT ![p] = @ \union errs]

-----------------------------------------------------------------------------
(* LoadConfig                                                              *)

\* os.Open, after the file was replaced any number of times: a deployment
\* writes a new configuration file and renames it into place.
Open(p) ==
    /\ stage[p] = "start"
    /\ \E n \in current[ConfigOf[p]] .. MaxReplacements[ConfigOf[p]] :
          /\ current' = [current EXCEPT ![ConfigOf[p]] = n]
          /\ file' = [file EXCEPT ![p] = <<ConfigOf[p], n>>]
    /\ Goto(p, "lock")
    /\ UNCHANGED <<dry, data, holder, metricsVars, left, failed, scratch, collected, faults>>

\* Faulty: a shared lock.
LockShared(p) ==
    /\ stage[p] = "lock"
    /\ holder' = [holder EXCEPT ![file[p]] = p]
    /\ Goto(p, "ready")
    /\ UNCHANGED <<dry, data, current, metricsVars, file, left, failed, scratch, collected, faults>>

\* flock returns, and the file that was opened is decoded.
Lock(p) ==
    /\ stage[p] = "lock"
    /\ holder[file[p]] = Nobody
    /\ holder' = [holder EXCEPT ![file[p]] = p]
    /\ Goto(p, "ready")
    /\ UNCHANGED <<dry, data, current, metricsVars, file, left, failed, scratch, collected, faults>>

\* The file cannot be locked or decoded: Fatal.
LoadFails(p) ==
    /\ stage[p] = "lock"
    /\ holder[file[p]] = Nobody
    /\ Fault(1)
    /\ Goto(p, "failed")
    /\ UNCHANGED <<dry, data, lock, metricsVars, file, left, failed, scratch, collected>>

\* The lock goes with the last descriptor of the open file, however the
\* process ends.
Unlock(p) ==
    holder' = [x \in File |-> IF holder[x] = p THEN Nobody ELSE holder[x]]

-----------------------------------------------------------------------------
(* runMain                                                                 *)

\* Faulty: the monitor first.
MonitorFirst(m) == IF m = "monitor" THEN {} ELSE {"monitor"}

\* The modules that run before module m.
Earlier(m) ==
    CASE m = "snapshot" -> {}
      [] m = "deleter" -> {"snapshot"}
      [] m = "sender" -> {"snapshot", "deleter"}
      [] m = "monitor" -> {"snapshot", "deleter", "sender"}

Turn(p, m) ==
    /\ stage[p] = "ready"
    /\ m \in left[p]
    /\ Earlier(m) \intersect left[p] = {}

\* Faulty: an error ends the run.
EndIfFailed(p, m) ==
    /\ Goto(p, "ready")
    /\ left' = [left EXCEPT ![p] = IF failed[p] # {} THEN {} ELSE @ \ {m}]

\* All modules run regardless of the errors of the former ones.
End(p, m) ==
    /\ Goto(p, "ready")
    /\ left' = [left EXCEPT ![p] = @ \ {m}]

\* The status tells whether any module reported an error.
Exit(p) ==
    /\ stage[p] = "ready"
    /\ left[p] = {}
    /\ Goto(p, IF failed[p] = {} THEN "ok" ELSE "failed")
    /\ Unlock(p)
    /\ UNCHANGED <<dry, data, current, metricsVars, file, left, failed, scratch, collected, faults>>

\* What is in p's memory only.
Forget(p) ==
    /\ due' = [due EXCEPT ![p] = {}]
    /\ idle' = [idle EXCEPT ![p] = {}]
    /\ report' = [report EXCEPT ![p] = NoReport(p)]

\* Faulty: the lock is a file that the process removes when it exits.
KilledWithLock(p) ==
    /\ stage[p] \notin {"start"} \union Ended
    /\ Fault(1)
    /\ Goto(p, "killed")
    /\ Forget(p)
    /\ UNCHANGED <<dry, data, lock, metricsVars, file, left, failed, seen, doomed, collected>>

\* The process is killed.  A zfs destroy it has started runs on.
Killed(p) ==
    /\ stage[p] \notin {"start"} \union Ended
    /\ Fault(1)
    /\ Goto(p, "killed")
    /\ Unlock(p)
    /\ Forget(p)
    /\ UNCHANGED <<dry, data, current, metricsVars, file, left, failed, seen, doomed, collected>>

-----------------------------------------------------------------------------
(* ExpandFsToProcess                                                       *)

\* The filesystems under the roots that can be listed, and the error if not
\* all can.
Discovered(p, m, found) ==
    \/ found = Fs /\ UNCHANGED <<failed, faults>>
    \/ found # Fs /\ Report(p, {m}) /\ Fault(1)

-----------------------------------------------------------------------------
(* The snapshot module                                                     *)

\* Faulty: `written` is not asked for.
AnyUnwritten(f) == snaps[f] # {}

\* zfs get written prints 0.
Unchanged(f) == snaps[f] # {} /\ Newest(f).holds = version[f]

\* Discovery and the first query of MaybeSkipSnaps.  When it fails, or without
\* skip_empty_younger_than, no filesystem is skipped.
QueryWritten(p) ==
    /\ Turn(p, "snapshot")
    /\ \E found \in SUBSET Fs :
          /\ Discovered(p, "snapshot", found)
          /\ due' = [due EXCEPT ![p] = found]
          /\ \E known \in {found, {}} :
                idle' = [idle EXCEPT ![p] = { f \in known : Unchanged(f) }]
    /\ seen' = [seen EXCEPT ![p] = version]
    /\ Goto(p, "creation")
    /\ UNCHANGED <<dry, data, lock, metricsVars, file, left, doomed, report, collected>>

\* The second query: those whose newest snapshot is young enough are skipped;
\* none is when the query fails.
QueryCreation(p) ==
    /\ stage[p] = "creation"
    /\ \E young \in SUBSET { f \in idle[p] : snaps[f] # {} } :
          due' = [due EXCEPT ![p] = @ \ young]
    /\ idle' = [idle EXCEPT ![p] = {}]
    /\ Goto(p, "snapshot")
    /\ UNCHANGED <<dry, data, lock, metricsVars, file, left, failed, seen, doomed, report, collected, faults>>

\* The filesystems of the next pool.
NextPool(p) ==
    { f \in due[p] : \A g \in due[p] : PoolOf[f] <= PoolOf[g] }

\* One zfs snapshot command for all filesystems of a pool: all or none.
ZfsSnapshot(p) ==
    /\ stage[p] = "snapshot"
    /\ due[p] # {}
    /\ due' = [due EXCEPT ![p] = @ \ NextPool(p)]
    /\ \/ /\ p \notin dry
          /\ snaps' = [f \in Fs |->
                IF f \in NextPool(p)
                THEN snaps[f] \union
                        {[txg |-> IF snaps[f] = {} THEN 1 ELSE Newest(f).txg + 1,
                          holds |-> version[f]]}
                ELSE snaps[f]]
          /\ UNCHANGED <<failed, faults>>
       \/ p \notin dry /\ Fault(1) /\ Report(p, {"snapshot"}) /\ UNCHANGED snaps
       \/ p \in dry /\ UNCHANGED <<snaps, failed, faults>>
    /\ UNCHANGED <<dry, version, lock, metricsVars, stage, file, left, idle, seen, doomed, report, collected>>

SnapshotEnds(p) ==
    /\ stage[p] = "snapshot"
    /\ due[p] = {}
    /\ End(p, "snapshot")
    /\ UNCHANGED <<dry, data, lock, metricsVars, file, failed, scratch, collected, faults>>

-----------------------------------------------------------------------------
(* The deleter and the sender                                              *)

Deleter(p) ==
    /\ Turn(p, "deleter")
    /\ \E found \in SUBSET Fs :
          Discovered(p, "deleter", found) /\ due' = [due EXCEPT ![p] = found]
    /\ Goto(p, "deleter")
    /\ UNCHANGED <<dry, data, lock, metricsVars, file, left, idle, seen, doomed, report, collected>>

\* The filesystem is listed and marked.  A policy that preserves anything
\* preserves the newest matching snapshot, so the newest of all is not doomed.
MarkForPreservation(p, f) ==
    /\ stage[p] = "deleter"
    /\ f \in due[p]
    /\ due' = [due EXCEPT ![p] = @ \ {f}]
    /\ \/ /\ \E S \in SUBSET { s \in snaps[f] : s # Newest(f) } :
                doomed' = [doomed EXCEPT ![p][f] = IF p \in dry THEN {} ELSE S]
          /\ UNCHANGED <<failed, faults>>
       \/ Fault(1) /\ Report(p, {"deleter"}) /\ UNCHANGED doomed
    /\ UNCHANGED <<dry, data, lock, metricsVars, stage, file, left, idle, seen, report, collected>>

\* zfs destroy; when it fails the rest of the filesystem's snapshots stay.  It
\* goes on when only zfsbackup was killed.
ZfsDestroy(p, f) ==
    /\ stage[p] \in {"deleter", "killed"}
    /\ doomed[p][f] # {}
    /\ \/ /\ \E s \in doomed[p][f] :
                /\ snaps' = [snaps EXCEPT ![f] = @ \ {s}]
                /\ doomed' = [doomed EXCEPT ![p][f] = @ \ {s}]
          /\ UNCHANGED <<failed, faults>>
       \/ /\ Fault(1) /\ Report(p, {"deleter"})
          /\ doomed' = [doomed EXCEPT ![p][f] = {}]
          /\ UNCHANGED snaps
    /\ UNCHANGED <<dry, version, lock, metricsVars, stage, file, left, due, idle, seen, report, collected>>

DeleterEnds(p) ==
    /\ stage[p] = "deleter"
    /\ due[p] = {} /\ \A f \in Fs : doomed[p][f] = {}
    /\ End(p, "deleter")
    /\ UNCHANGED <<dry, data, lock, metricsVars, file, failed, scratch, collected, faults>>

\* A dry run does not send.
Sender(p) ==
    /\ Turn(p, "sender")
    /\ \/ UNCHANGED <<failed, faults>>
       \/ p \notin dry /\ Fault(1) /\ Report(p, {"sender"})
    /\ End(p, "sender")
    /\ UNCHANGED <<dry, data, lock, metricsVars, file, scratch, collected>>

-----------------------------------------------------------------------------
(* The monitor                                                             *)

\* zpoolMetrics and the discovery of lastSnapMetrics; the failure of either
\* is an error, and neither keeps the other metrics from being collected.
Monitor(p) ==
    /\ Turn(p, "monitor")
    /\ \E found \in SUBSET Fs :
          /\ \/ Discovered(p, "monitor", found)
             \/ Report(p, {"monitor"}) /\ Fault(IF found = Fs THEN 1 ELSE 2)
          /\ due' = [due EXCEPT ![p] = found]
    /\ report' = [report EXCEPT ![p] = NoReport(p)]
    /\ Goto(p, "monitor")
    /\ UNCHANGED <<dry, data, lock, metricsVars, file, left, idle, seen, doomed, collected>>

\* lastSnapMetricsOneFS, in the order of the names.
LastSnapMetrics(p) ==
    /\ stage[p] = "monitor"
    /\ \E f \in due[p] :
          /\ \A g \in due[p] : f <= g
          /\ due' = [due EXCEPT ![p] = @ \ {f}]
          /\ \/ /\ report' = [report EXCEPT ![p] = [@ EXCEPT !.latest[f] = NewestHolds(f)]]
                /\ UNCHANGED <<failed, faults>>
             \/ Fault(1) /\ Report(p, {"monitor"}) /\ UNCHANGED report
    /\ UNCHANGED <<dry, data, lock, metricsVars, stage, file, left, idle, seen, doomed, collected>>

\* The end of the collection, and the temporary file.
StartPublishing(p) ==
    /\ stage[p] = "monitor"
    /\ due[p] = {}
    /\ collected' = collected + 1
    /\ report' = [report EXCEPT ![p] =
            [@ EXCEPT !.at = collected + 1, !.success = "monitor" \notin failed[p]]]
    /\ CreateTemp(p)
    /\ Goto(p, "write")
    /\ UNCHANGED <<dry, data, lock, file, left, failed, due, idle, seen, doomed, faults>>

Write(p) ==
    /\ stage[p] = "write"
    /\ WriteTemp(p, report[p])
    /\ Goto(p, "publish")
    /\ UNCHANGED <<dry, data, lock, file, left, failed, scratch, collected, faults>>

Publish(p) ==
    /\ stage[p] = "publish"
    /\ Rename(p)
    /\ End(p, "monitor")
    /\ Forget(p)
    /\ UNCHANGED <<dry, data, lock, file, failed, seen, doomed, collected, faults>>

\* The file cannot be created, written or renamed.
PublishFails(p) ==
    /\ \/ stage[p] \in {"write", "publish"}
       \/ stage[p] = "monitor" /\ due[p] = {}
    /\ Fault(1)
    /\ RemoveTemp(p)
    /\ Report(p, {"monitor"})
    /\ End(p, "monitor")
    /\ Forget(p)
    /\ UNCHANGED <<dry, data, lock, file, seen, doomed, collected>>

-----------------------------------------------------------------------------
(* The specification                                                       *)

WriteData(f) ==
    /\ version[f] < MaxWrites
    /\ version' = [version EXCEPT ![f] = @ + 1]
    /\ UNCHANGED <<dry, snaps, lock, metricsVars, stage, file, left, failed, scratch, collected, faults>>

\* What an invocation does once it has been started, unless it is killed.
Step(p) ==
    \/ Lock(p) \/ LoadFails(p) \/ Exit(p)
    \/ QueryWritten(p) \/ QueryCreation(p) \/ ZfsSnapshot(p) \/ SnapshotEnds(p)
    \/ Deleter(p) \/ DeleterEnds(p) \/ Sender(p)
    \/ \E f \in Fs : MarkForPreservation(p, f) \/ ZfsDestroy(p, f)
    \/ Monitor(p) \/ LastSnapMetrics(p) \/ StartPublishing(p) \/ Write(p)
    \/ Publish(p) \/ PublishFails(p)

Next ==
    \/ \E p \in Proc : Open(p) \/ Step(p) \/ Killed(p)
    \/ \E f \in Fs : WriteData(f)

Spec == Init /\ [][Next]_vars

\* Commands return, and the kernel gives a free lock to one that waits for it:
\* invocations are finitely many here, so none waits behind the others forever.
FairSpec == Spec /\ \A p \in Proc : WF_vars(Step(p))

-----------------------------------------------------------------------------
(* Properties                                                              *)

\* Invocations that opened the same file never work at the same time, whoever
\* is killed and whatever is renamed over its path (LoadConfig).
Serialized ==
    \A p, q \in Proc : Working(p) /\ Working(q) /\ file[p] = file[q] => p = q

\* After a run of the snapshot module that reported no error, all that was
\* written before it looked is in a snapshot that exists, and remains so: a
\* skipped filesystem has it in its newest snapshot, which no deleter of any
\* job destroys (MaybeSkipSnaps, Run).
Covered(p, f) == \E s \in snaps[f] : s.holds >= seen[p][f]
SnapshotDone(p) ==
    p \notin dry /\ "snapshot" \in Sections[p] \ (left[p] \union failed[p])
SuccessMeansCovered ==
    \A p \in Proc : SnapshotDone(p) => \A f \in Fs : Covered(p, f)

\* The output path holds nothing or the whole collection of one monitor, and
\* one that claims success has the metrics of every filesystem
\* (writePrometheusFile, lastSnapMetrics).
PublishedWhole ==
    published # NoFile =>
        /\ published # Unwritten
        /\ published.success => \A f \in Fs : published.latest[f] # Absent

\* A report of an invocation whose snapshot module succeeded is not older than
\* the snapshots that module took or relied on (runMain's order).
ReportCoversRun ==
    \A p \in Proc : published # NoFile /\ published.by = p /\ SnapshotDone(p) =>
        \A f \in Fs : published.latest[f] # Absent => published.latest[f] >= seen[p][f]

\* Invocations of the same file publish in the order in which they collected:
\* an older report never replaces a newer one (the lock covers publication).
PublishedInOrder ==
    [][ published # NoFile /\ published' # published
            /\ file[published'.by] = file[published.by]
        => published'.at > published.at ]_vars

\* The errors of other modules do not keep the monitor from reporting: the
\* report appears unless the monitor's own publication fails or the process is
\* killed (runMain).
MonitorReports ==
    \A p \in Proc :
        stage[p] = "ready" /\ "monitor" \in left[p] ~>
            \/ published # NoFile /\ published.by = p
            \/ "monitor" \in failed[p] \/ stage[p] = "killed"

\* An invocation that has opened its file ends; those that wait for the lock
\* of a killed one go on (LoadConfig, the descriptor's lock).
EveryInvocationEnds ==
    \A p \in Proc : stage[p] = "lock" ~> stage[p] \in Ended
=============================================================================
