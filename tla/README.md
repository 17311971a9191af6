# A TLA+ model of zfsbackup

zfsbackup takes ZFS snapshots, prunes them by a retention policy, replicates
them to backup hosts with incremental `zfs send` streams, and reports on all of
it.  The modules in this directory model the parts in which a mistake costs
backups.  They are translated from the Go source; every definition that stands
for code is listed with its lines in `PROJECT.json` under `map`, and what is not
code of this repository (ZFS, pipes, the administrator) is marked external
there.

- [The system](#the-system)
- [Modules](#modules)
- [Correspondence with the code](#correspondence-with-the-code)
- [Runs](#runs)
- [Properties](#properties)
- [Fairness](#fairness)
- [Proofs](#proofs)
- [Findings](#findings)
- [What is not modelled](#what-is-not-modelled)

## The system

| component | state it keeps | operations | status |
|---|---|---|---|
| sender (`internal/sender`) | none between runs: everything is in ZFS. During a visit: listing of the source, base, queue, retries | `Run` → per filesystem `processFilesystem` → per destination `ProcessFs`: `FillSources`, `GetNextAndSend` (`fetchPlan`, `resumeSnapshot`, `setPlaceholdersBefore`, `send`, `setPlaceholdersAfter`), `sendPlaceholders` | modelled (`Replication`, `Pipeline`, `ReceiverTree`) |
| placeholder bookmarks (`internal/zfs/zfs.go`) | bookmarks `#<snapshot>-before-<p>` and `#<snapshot>-<p>` on the source | `ZfsSetBeforeBookmark`, `ZfsSetPlaceholder`, `zfsGcPlaceholder` | partly: names identified with GUIDs (`Source`) |
| receiver (`internal/receiver`) | destination datasets: snapshots, resume token, mirrored bookmarks | `incremental_suggestions`, `receive`, `set_placeholders` | modelled (`Destination`, `Replication`) |
| receiver dataset tree | which datasets exist at the destination, which are encrypted | `checkParent`, `createNotIfEncrypted` | modelled (`ReceiverTree`) |
| stream pipeline (`send`, `receive`, `MaybeMbuffer`, `MaybeCompress`, `Group`) | processes and pipes on two hosts | start, wait, cancel, kill, reap | modelled (`Pipeline`) |
| deleter (`internal/deleter`) | none between runs | `getValidatedSnaps`, `markForPreservation`, `deleteManySnaps`, `Run` | modelled (`Retention`, `Jobs`) |
| snapshot job (`internal/snapshot`) | snapshots | `MaybeSkipSnaps`, one `zfs snapshot` per pool | modelled (`Jobs`) |
| configuration lock and run (`LoadConfig`, `runMain`) | the file's flock | open, lock, decode; the modules in order | modelled (`Jobs`) |
| monitor (`internal/monitor`) | the metrics file | collects and publishes metrics | modelled (`Metrics`, `Jobs`) |
| filesystem discovery (`ExpandFsToProcess`) | none | include, exclude, roots that cannot be listed | modelled (`ReceiverTree`, `Jobs`) |
| job configuration (`internal/config`, `initSenderDefaults`) | constants of the models | validation | partly (`Job`) |
| ZFS command layer (`ZfsList`, `ZfsCreate`, ...) | none | one command each | partly, as the others use it |
| command line (`main.go`) | none | flags, usage | not modelled: no state |

How they interact.  The sender runs receiver commands (usually over SSH) and
reads their JSON answers; the stream goes through pipes into `zfs receive`.
Sender, deleter and snapshot job never talk to each other: they share the ZFS
datasets of the source host, and the only thing that protects the base of an
incremental stream from the deleter is a bookmark.  Invocations that opened one
configuration file are serialised by its lock, others and the administrator
are not.  A receiver is a process on another host; it can outlive the sender
that started it, and receivers of different filesystems share the datasets
above theirs.

What is hard about it:

- the sender keeps nothing: after a crash at any point it must be able to go on
  from the bookmarks on the source and the datasets at the destination, which
  two hosts change independently;
- snapshots vanish between any two of its commands;
- a lost connection tells the sender nothing about the fate of the stream: the
  remote receiver may have all of it, keep a part under a resume token, or
  nothing, and may decide so later, while the next run is at work;
- up to seven processes on two hosts hand one stream on, and any of them may die;
- bookmarks are replaced one command at a time and told apart by a name suffix;
- several receivers create the same missing parents at once;
- what a retention policy keeps is the result of many runs, each applied to
  what the former ones have left;
- a configuration file can be replaced while invocations wait for its lock.

`PROJECT.json` lists these hazards with the line where each one bites and the
property that watches it.

What makes the components correct: the chain to every destination stays intact
(sender, bookmarks, receiver), checkpoints and mirrored placeholders tell the
truth, a destination is overwritten only where the administrator allowed it,
every destination catches up, one checkpoint is left per suffix; a stream that
is reported as sent was received, and nothing is left running or waiting; nothing
unencrypted appears below an encrypted dataset; the deleter keeps what its rules
say, never the anchor's life, and a broken run can be repeated; what was
written is in a snapshot when the snapshot job reports success; the metrics are
whole, in order, and not older than the run they belong to.

## Modules

| module | what it is |
|---|---|
| `Job` | constants and assumptions: the accepted configuration of one sender job |
| `Source` | snapshots and placeholder bookmarks of one filesystem; the bookmark operations; what other jobs do to it |
| `Destination` | the destination datasets; `zfs receive` (external); `set_placeholders` |
| `Replication` | the sender, composed with `Source` and `Destination`: one action per step between two ZFS or receiver commands; failures, crashes and receivers left behind |
| `BackupChain` | abstract specification: tips move forward, and the name of a tip is never given up |
| `ReplicationInv` | the inductive invariants of `Replication` |
| `ReplicationProofs` | type correctness, chain, checkpoints, no overwriting |
| `DeliveryProofs` | one checkpoint, retries, delivery, refusals, the refinement of `BackupChain` |
| `Pipeline` | the processes of one stream on both hosts, pipes with a capacity, `Group` |
| `Transfer` | abstract specification: what one stream promises to the sender that started it |
| `PipelineProofs` | safety of `Pipeline`, deadlock freedom, the refinement of `Transfer` |
| `ReceiverTree` | several filesystems of a tree sent in parallel to receivers that create missing parents |
| `ReceiverTreeProofs` | type correctness, nothing unencrypted below an encrypted dataset, what the first run delivers |
| `Retention` | the deleter on one filesystem, with time, other snapshots and failures |
| `RetentionProofs` | the walk, the newest snapshot, the frozen window, broken runs |
| `Metrics` | the monitor's output file and its temporary files |
| `Jobs` | invocations on the source host: lock, module order, snapshot job, deleter, monitor; extends `Metrics` |
| `JobsProofs` | safety of `Jobs` |
| `Numbers` | facts about sets of numbers, which the proofs use instead of induction |
| `MCReplication`, `MCReceiverTree`, `MCRetention`, `MCJobs` | instances for TLC |

The modules meet in three places.

- `Replication` lets a stream end in one of four ways, and a stream whose sender
  has given up may still arrive, in whole or in part, later.  `Pipeline` shows
  that this is all the processes can do: it implements `Transfer`, in which
  success means that everything was received, and anything else means nothing.
- `Jobs` lets a deleter destroy any of the snapshots it listed but the newest.
  `Retention` shows (`NewestSurvives`) that a policy that preserves anything
  does that much; one that preserves nothing may destroy them all.
- `Replication` has one sender at a time.  `Jobs` shows (`Serialized`) that
  invocations which opened the same configuration file are never at work
  together.  One started after the file was replaced is not excluded: it locks
  another file.  Senders of other configurations appear in `Replication` as
  `ForeignSender`, with suffixes of their own.

## Correspondence with the code

### Replication

**Data.**  A snapshot is a number: its GUID and its `createtxg` at once, since
both are unique and the second is only used for order.  A bookmark is the number
of the snapshot it was made from, in `before[p]` or `done[p]` by its name.
`snapshot_re` is the set `Matching`.  A resume token is its target and its base.

**Atomicity.**  A step of the sender is what happens between two commands: one
`zfs bookmark`, one `zfs destroy`, one query, the start or the end of a stream.
Between any two of them other actions can happen.  The receiver answers
`incremental_suggestions` from two queries, the dataset with its token
(`QueryDataset`) and the snapshots (the three `Plan...` actions); the model
keeps them apart.  `set_placeholders` is one step, since nothing else writes
bookmarks at a destination, but it may fail anywhere in its loop: then some of
the entries have their bookmark, and some of those keep older ones
(`SyncBroken`).

**Visit.**  `FillSources` lists the source once per visit, and the visit uses
that listing until it ends; the model does the same.  One consequence, in
`BaseReadable`: when the listing has the base as a snapshot, and it is pruned
before the stream starts, the visit fails although its bookmark would do.  The
next visit uses the bookmark.

**The stream.**  `SendOk`, `SendRejected`, `Fail` and `Crash` are the four ways
in which `send` ends.  After the last two the stream is left in `wire`; its
receiver may complete it (`LateReceive`), keep a part (`LateReceivePartly`) or
drop it, at any later time.  A snapshot that is being sent cannot be pruned:
the deleter's `zfs destroy -d` only defers.  `zfs receive` takes an incremental
stream only on top of the newest snapshot it starts from, a full one only where
no dataset is, and only the resumed stream while there is a token;
`-F` lifts the first two conditions.

**Other senders.**  `sync_placeholders` may name a suffix that no destination of
this configuration owns (`Foreign`): the sender of another configuration uses
it, and no lock keeps the two apart.  `ForeignSender` sets and collects its
bookmarks at any time.  What it may take away is listed, though: a snapshot it
marked is sent here too, and its bookmark can be the one that `baseFor` picks
and that is gone when the stream starts (`BaseGone`).

**Order of destinations.**  The code goes through them in the order of the
configuration; the model allows any order.

### Pipeline

Stages are numbered along the stream: `zfs send`, the helpers of the source host
(mbuffer, zstd), the receiver command, the helpers of the destination host,
`zfs receive`.  Each side is a function with a phase: it starts its processes in
the order of the code, waits for them in `Group.Wait`, and returns; when a start
fails, its deferred function kills and reaps what was started.  A pipe holds
`Capacity` blocks and a writer blocks when it is full.  The parent keeps the
reading end open while it lives, so a writer whose reader died blocks until the
`Group`'s cancelled context kills it; only after the parent's death does it get
SIGPIPE.  `zfs receive` knows a whole stream from a truncated one; the helpers
see only the end of their input and end well either way.  `SshEnds`: the exit
status of the receiver command is all the sender learns.  The guard of each step
that is not a fault is an operator of its own, `Can...`, because a property is
about them.

### ReceiverTree

Each filesystem of a tree has at most one snapshot to send, so its stream is a
full one: the tree matters only until every dataset exists.  `StartRun` expands
the roots, `StartFs` is the loop that waits for the semaphore of `--parallelism`,
in the order of the expanded list (`Position`), and one goroutine per filesystem asks for a plan (`Ask`), climbs to a parent that
exists (`Climb`), and receives once the missing ones are there.  For each of them
it asks whether the dataset above is encrypted (`CheckEncryption`), runs
`zfs create` (`ZfsCreate`), and asks again whether the dataset exists, whoever
created it (`Created`).  Between any two of these steps other receivers work.  `zfs receive`
takes a full stream only where no dataset is, with `-F` also over an empty one;
a broken one leaves a dataset with a token, or nothing.

### Retention

Time is counted in whole granules.  `Rounds` is the loop over the listing, newest
first, and remembers what the loop remembers; `Walk` is what it has at the end.
`InOrder` is the check of `getValidatedSnaps`; the clock may go back, so
a listing can fail it.  `deleteManySnaps` halves long lists recursively: the
effect is a sequence of commands, oldest first, each of which may fail.

### Jobs

An invocation opens a file, waits for its lock, decodes it, and runs its modules
in the order of `runMain`; errors are recorded and do not stop it.  A file is a
path and the number of its replacements, since the lock belongs to the file and
not to the path.  A subcommand is an invocation with one module.

The snapshot module asks for `written` and for `creation` in two queries, then
takes the snapshots of each pool in one command.  A snapshot is its `createtxg`
and the version of the data it holds.  The deleter lists and marks, filesystem
by filesystem, and destroys in any number of commands; a `zfs destroy` goes on
when only its zfsbackup was killed.  The sender changes nothing that matters
here.  The monitor collects filesystem by filesystem and publishes through a
temporary file: created, written, renamed, removed on an error.

## Runs

| run | instance | question | result |
|---|---|---|---|
| `chain` | 1 destination, 3 snapshots, 2 failures, pruning, resumable, source recreated once | all safety properties of the sender, and the refinement of `BackupChain` | holds, 364,591 states |
| `foreign` | 1 destination with 2 suffixes, and the placeholders of another configuration mirrored on it, 2 snapshots of which `snapshot_re` matches one, pruning, 2 failures | do suffixes and senders disturb each other's bookmarks, and is a visit ever refused without a cause? | holds, 1,758,069 states |
| `force` | 2 destinations, one may be overwritten, all intermediate snapshots, source recreated once, pruning, 2 failures | is the other one safe, does neither set the other's checkpoints, and do both catch up? | holds, 540,545 |
| `delivery` | 2 destinations, resumable, no pruning, 2 failures | are interrupted streams resumed, and does one failure hold up the other destination? | holds, 92,890 |
| `retention` | 2 rules, one without holes; 7 snapshots, 6 of them eligible; the clock may go back, 1 failure | is the walk right, is the newest snapshot safe, does the window freeze, can a broken run be repeated? | holds, 229,110 |
| `pipeline` | 5 processes, a stream of 2 blocks, pipes of 1, 2 failures | does everybody return, is nobody ever stuck, is no error lost, is success true? | holds, 65,395 |
| `tree` | 8 datasets, parallelism 1 to 3, 2 failures | does every leaf arrive, is nothing plain below an encrypted dataset? | holds, 534,592 |
| `jobs` | 2 invocations of one path, replaced at most once, one of them with all modules; 1 filesystem, 2 failures or kills | lock, coverage, reports | holds, 469,516 |
| `resume_stuck` | pruning and resumable | are interrupted streams resumed? | violated, finding 1 |
| `mirror` | 2 destinations, mirrored placeholders | is a mirrored placeholder true? | violated, finding 2 |
| `retention_tiers` | 2 rules of different granularity, 7 snapshots | does a rule cover its buckets? | violated, finding 3 |
| `tree_parents` | the tree of `tree`, parallelism 2, no failures | does every filesystem arrive? | violated, finding 4 |

Bounds.

- `Replication`.  With two snapshots there is a base and a target, with three
  also a newer one that appears while the second is interrupted.  One failure
  leaves a stream or a token behind, a second one hits the recovery.
  `MaxRetries` is 2 for the code's 20; `RetriesSuffice` shows that the second
  round is the last, except where a destination may be overwritten.  Two
  destinations, or two suffixes and a foreign one, are enough for interference,
  which is always between a pair.  The safety properties are proved for any
  number.
- `Retention`.  Two buckets with a victim in each take six snapshots; a seventh
  that is not eligible shows that `regex` is applied.  A snapshot reaches the
  fourth bucket with seven.
- `Pipeline`.  One helper on each side gives every kind of neighbour; two blocks
  over pipes of one make a full pipe, an empty one and a truncated stream.
- `ReceiverTree`.  The tree has a missing common parent, a parent that is itself
  sent, siblings, an encrypted dataset, one without snapshots below it, and a leaf
  two levels below it: when that leaf's receiver comes before the dataset between
  was received, it is refused, and a later run delivers it.  Three receivers at
  once are enough for two to race and one to arrive later.
- `Jobs`.  Two invocations are enough for a race; one filesystem is what TLC can
  check with every module and two failures.  That the snapshot job covers several
  filesystems in several pools, and reports are whole for all of them, is proved
  for any number.

Deadlock is checked in every run but `jobs`, where the invocations end.

## Properties

Sender, bookmarks, receiver:

- `ChainIntact`, the reason for placeholder bookmarks: the source can name the
  newest snapshot of each destination.  Promised for destinations that are not
  overwritten, and for snapshots of the source as it is: what a destination has
  of a source that was recreated since, nothing can continue.
- `CheckpointTruthful`: `#<snapshot>-<p>` is never set for a stream whose fate
  is unknown.
- `NothingOverwritten`: a destination outside `force_overwrite_datasets` loses
  nothing.
- `OneCheckpointLeft`: whatever failed visits left behind, a stream that is
  completed with its bookmarks leaves one bookmark per suffix.
- `SuccessMeansDelivered`: a visit that goes through leaves the destination no
  older than its listing, unless it may be overwritten.
- `RetriesSuffice`: the retry limit is not reached.
- `RefusedForCause`: a visit is refused for want of a base only when the
  destination's newest snapshot is of an earlier source.  A token is refused when
  its target was pruned (finding 1), or is outside `snapshot_re` and not marked
  for `sync_placeholders` in the listing.  There is one more cause: a target
  outside `snapshot_re` that is marked, when a receiver left behind completes
  the stream between the two queries of the receiver.  The base is then the
  target itself, nothing is newer than it, and `resumeSnapshot` finds no eligible
  snapshot (`sender.go:500`).  The visit ends with an error although the
  snapshot has arrived; the token is gone, and the next visit goes on from
  there.  The comment in the code grants placeholder targets the exception that
  ordinary sends have, which is for snapshots newer than the base, so this is
  what it says.  There is no other way for the listing, the bookmarks and what
  the receiver answers, all read at different times, to disagree.
- `ImplementsBackupChain`: refinement, for the destinations that may not be
  overwritten, with `newest <- taken`, `born <- born`, `nameable <- Nameable`,
  `has <- held`.  Recreating the source is a step of the abstract specification
  too.
- `EventuallyBackedUp`: once failures and changes stop, every destination catches
  up, unless the source was recreated and the destination may not be overwritten.
  It is checked with pruning and streams that are not resumable (`force`), and
  with resumable ones and no pruning (`delivery`).  With both, finding 1 is a
  second reason to need help.
- `InterruptedSendsResume`: no resume token stays for ever (finding 1).
- `MirrorFaithful`: finding 2.

The stream:

- `SuccessMeansReceived`, `ErrorsSurface`, `NothingLeftRunning`: success is true,
  no error of a process is lost, every started process is reaped.
- `NobodyIsStuck`: whoever has died, something other than a fault can happen until
  both functions have returned and all processes have ended.
- `OnlyForward`: a phase never goes back, a process that has ended never runs
  again, a block that was read is not read again.
- `EverybodyReturns`: `send` and `receive` return, whoever dies.
- `ImplementsTransfer`: refinement.

The tree:

- `NothingPlainBelowEncrypted`.
- `FirstRunDelivers`: without a failure, the first run delivers everything that
  can be placed when parallelism is 1, and with more the leaves, unless two
  encrypted datasets are above them: then the upper one may still be on its way
  when the leaf's parent is asked about, and a later run delivers.
- `LeavesArrive`; `EverythingArrives`: finding 4.

The deleter:

- `WalkKeepsNewestPerBucket`: the loop against what a rule says.
- `NewestSurvives`, `WindowFreezes`, `InterruptedRunContinues`.
- `RuleCovers`: finding 3.

Invocations:

- `Serialized`: the lock.  It belongs to the file that was opened: when the file is
  replaced before another invocation opens it, the two are at work at the same
  time, and the instance includes that.  `Serialized` and `PublishedInOrder` say
  nothing of such a pair; what must hold for it as well is
  `SuccessMeansCovered`, `PublishedWhole` and `ReportCoversRun`.
- `SuccessMeansCovered`: after a snapshot module without errors, all that was
  written before it looked is in a snapshot that exists and remains, also for
  filesystems it skipped.
- `PublishedWhole`, `ReportCoversRun`, `PublishedInOrder`: the metrics file.
- `MonitorReports`: errors of other modules do not silence the monitor.
- `EveryInvocationEnds`: nobody waits for the lock of a process that was killed.

## Fairness

- `Replication`: weak fairness of the sender's steps, taken together.  A timer
  starts a run again and again, the lock is released when its process ends, and
  a run whose commands return goes on.  Failures are bounded and so finitely
  many.  Nobody has to take or prune snapshots, and a receiver left behind may
  never decide the fate of its stream.
- `Pipeline`: weak fairness of all steps but faults, taken together.  Each of
  them brings the transfer forward and none can be repeated for ever
  (`OnlyForward`), so this is fairness for each process; the scheduler and the
  kernel give it.
- `ReceiverTree`: weak fairness of the sender's loop and of each goroutine.
- `Jobs`: weak fairness of each invocation once it was started.  A lock that is
  free is given to one that waits; there are finitely many invocations, so none
  waits behind others for ever.  Nobody has to start one, and nothing makes data
  be written.

No strong fairness is used, and no property needs a fault to happen.  Two fair
actions include steps that fail: a step of an invocation in `Jobs` (`LoadFails`,
`PublishFails`, a command in error), which brings it on as a success would, and
`StartRun` in `ReceiverTree`, when a root cannot be listed.  Faults are finitely
many, and that a failure, too, satisfies the fairness only makes the assumption
weaker.

## Proofs

All theorems hold for every value of the constants allowed by the named
assumptions of the modules.  One needs more, stated in the theorem:

| module | theorem | says | needs |
|---|---|---|---|
| `ReplicationProofs` | `TypeCorrect` | `Spec => []TypeOK` | |
| | `CheckpointsTruthful` | `Spec => []CheckpointTruthful` | |
| | `NothingIsOverwritten` | `Spec => NothingOverwritten` | |
| | `ChainStaysIntact` | `Spec => []ChainIntact` | |
| `DeliveryProofs` | `OneCheckpointIsLeft` | `Spec => OneCheckpointLeft` | |
| | `SuccessDelivers` | `Spec => SuccessMeansDelivered` | |
| | `RetriesAreEnough` | `Spec => RetriesSuffice` | `MaxRetries >= 2` |
| | `RefusalsHaveACause` | `Spec => RefusedForCause` | |
| | `BackupChainImplemented` | `Spec => ImplementsBackupChain` | |
| `PipelineProofs` | `SuccessIsReceived`, `ErrorsAreReported`, `EverythingIsReaped` | the three invariants | |
| | `PipelineImplementsTransfer` | `Spec => ImplementsTransfer` | |
| | `NobodyGetsStuck`, `TypeCorrect` | `Spec => []NobodyIsStuck`, `Spec => []TypeOK` | |
| | `NothingIsUndone` | `Spec => OnlyForward` | |
| `ReceiverTreeProofs` | `EncryptedTreesStayEncrypted` | `Spec => []NothingPlainBelowEncrypted` | |
| | `FirstRunIsEnough`, `TypeCorrect` | `Spec => []FirstRunDelivers`, `Spec => []TypeOK` | |
| `RetentionProofs` | `TypeCorrect`, `WalkKeepsNewest`, `InterruptedRunsContinue`, `WindowStaysFrozen` | the four invariants of `retention` | |
| | `NewestNeverDestroyed` | `Spec => NewestSurvives` | |
| `JobsProofs` | `LockSerializes`, `SnapshotsCover`, `ReportsAreWhole`, `ReportsCoverTheirRun` | the four invariants of `jobs` | |
| | `PublicationIsOrdered` | `Spec => PublishedInOrder` | |

**The chain.**  `ChainIntact` is not inductive: it says nothing about a stream
that will become the destination's newest snapshot in a moment.  `ChainInv` in
`ReplicationInv` strengthens it.  A destination accepts a stream only on top of
its newest snapshot; so it is enough that every suffix of the destination
covers, at all times, that snapshot, the target of its token (which starts from
it), and the target of each stream on the wire that starts from it.  The
before-send bookmark establishes the last two before the stream starts.  The
delicate phase is the one after a stream, when other bookmarks are destroyed:
there (`AfterSettled`) the destination's newest snapshot is the one just sent,
there is no token, and no stream on the wire starts from the new newest
snapshot, since every such stream is older; so no receiver left behind can move
the destination any more, and the bookmark that is kept is the one that counts.

A source that is recreated begins after `born`, and all of this is said of
snapshots after it.  A stream of the present source starts from nothing or from
a snapshot of the present source, so what a destination has of a former one
never comes on top of what it has of this one; and since every destination holds
only snapshots that were taken before, the recreation itself makes the invariant
true of everything.

**Checkpoints.**  `CheckpointInv` needs only that the phase in which checkpoints
are set follows the arrival of the stream, and that nothing removes what a
destination holds.

**Delivery.**  `CleanInv`: in the phase after a stream, a suffix is untouched,
at work with the new checkpoint set, or clean.  `RetryInv`: after the first
resumed stream of a visit the destination has no token, and no stream on the
wire starts from its newest snapshot, so none can leave another.  `DeliveryInv`:
what the destination holds and what is still in the queue reach every wanted
snapshot of the listing.  `PlanInv`: while the receiver is asked, the
listing has the destination's newest snapshot and whatever a receiver left behind
may put on top of it, because the bookmarks covered all that when the source was
listed; a token's target is in the listing if it exists at all, since whatever
was taken later is newer than every stream on its way; and the start of a token's
stream is still covered.  A token that is refused although its target is marked
meets a base that is not older than the target; it is gone by then, since a token
that is there starts from the base.  The refinement has two lemmas that the actions reduce
to: a step that takes a name away takes one no destination depends on
(`ForgetStep`, from `ChainIntact` in the next state), and a step in which a
stream arrives moves a tip from one name the source has to another
(`AdvanceStep`).

**The stream.**  `PipelineInv`: what a side has reaped has ended, and well unless
the side has an error; a side that waits has started all its processes; one that
has returned has reaped them; ssh ends well only after `receive` succeeded, and
`zfs receive` only with the whole stream.

`NobodyIsStuck` needs `StuckInv`: on each side the processes were started along
the stream as far as they were started (`OrderInv`), and the blocks go only
forward, a process that ended well having passed on all it was given
(`FlowInv`).  Suppose no step is possible while something still runs.  A function
that waits, waits for a process that runs (`WaitsInVain`).  The last process that
has something to write could write it, unless its reader is gone; then either
its context is cancelled and it is killed, or the pipe is broken (`NothingHeldBack`).
So nobody has anything to write, the first one that runs has seen the end of its
input and can end, unless it is ssh (`OnlySshRuns`); and ssh waits only for a
receiver command that can go on (`SshInVain`).  With `OnlyForward`, that is the
safety half of `EverybodyReturns`; the other half is that nothing can go forward
for ever.

**The tree.**  `TreeInv` adds three facts: a dataset that exists has a parent that
exists, only the receiver of a stream changes its dataset, and what a receiver
found unencrypted stays so until its `zfs create`.  The last one is why asking
first is enough: the dataset asked about was created empty or is not encrypted at
the source, and an encrypted stream is never received over an empty one
(`StaysPlain`).

`FirstRunDelivers` follows a filesystem through the first run (`OnItsWay`): until
it is received its dataset is absent, and the run cannot end before it was
visited.  What could go wrong is that another receiver creates the dataset
first, or that the parent's encryption leads to a refusal.  A receiver creates
only datasets above its own (`WayInv`), so nobody creates a leaf; with parallelism
1 the order of the list has parents first (`RunInv`), so nobody climbs over a
dataset still to be received.  What a receiver has found or made stays (`FoundInv`).
The set above a dataset is computed by a recursive function; the proof
characterises it as the least set closed under parents (`LineageDef`,
`Ancestors`), and goes down the tree along it (`DownTheTree`).

**The deleter.**  The loop is followed downwards from the newest snapshot
(`WalkedTo`, `OneRound`): the buckets seen so far are at most the last one, so a
snapshot that opens a new bucket is the newest in it.  That gives the result
without the loop (`WalkResult`).  The other theorems rest on one lemma,
`StableMarking`: what a listing preserves depends only on what it preserves, so
after any part of the rest is gone, a new run decides the same.  The newest
snapshot is always preserved, so ages stay; the first of each bucket is kept, so
buckets stay; and a snapshot missing from the listing has `TopN` newer ones, all
still there, so it made no room for an older one.

**Invocations.**  `LockInv` ties an invocation at work to the lock of its file.
`SnapshotInv`: later snapshots hold later data, a snapshot that a deleter has
marked has a later one beside it, and what the snapshot module has settled is
covered.  `ReportInv` follows a report from the collection to the published file.
`OrderInv` orders what is collected, written and published by invocations of one
file.

Induction over numbers is done with sets, in `Numbers`: a nonempty set of numbers
has a least one (`Least`), one with a bound a greatest one (`Greatest`), and what
goes down from the bound reaches everything below it (`Downwards`).

Only model-checked: the liveness properties `EventuallyBackedUp`,
`InterruptedSendsResume`, `EverybodyReturns`, `LeavesArrive`, `MonitorReports`,
`EveryInvocationEnds`.  Liveness under fairness is outside of what the prover
does.  `TypeOK` of `Jobs` is proved (`JobsProofs!TypeCorrect`) and not run.

## Findings

1. **A pruned snapshot can block a destination for good** (`resume_stuck`).  A
   stream is interrupted and leaves a resume token; the deleter prunes its
   target.  From then on `zfs send -nP -t` fails in each run, `ProcessFs`
   returns the error, and nothing newer is sent, although the chain itself is
   intact.  The way out is `zfs receive -A` by hand.  `resumeSnapshot`
   (`sender.go:474-479`) against `README.md:11`, `:50` and `:355`.
2. **A placeholder may be mirrored for a snapshot its destination does not
   have** (`mirror`).  `sendPlaceholders` (`sender.go:126-133`) does not tell
   `#<snapshot>-before-<p>` from `#<snapshot>-<p>`.  Against
   `config.go:149-152` and `wire.go:58-62`.
3. **Frequent runs starve coarse retention rules** (`retention_tiers`).  Buckets
   slide with the newest snapshot and the newest snapshot of each bucket is kept;
   when the deleter runs after every snapshot, the one kept in the first bucket
   beyond the finer rule is replaced and destroyed in every run.  The empty
   buckets are the last ones, which is no hole, so no error tells.  With the
   example configuration run hourly, as `README.md:194` and `:238` suggest, only
   the last 48 hours are kept, against `README.md:280-283`.
4. **A child may keep its parent from being backed up** (`tree_parents`).  With
   `--parallelism` 2 or more, a child's receiver may reach `checkParent` before
   the parent's stream has begun, and creates the parent empty.  The parent's
   full stream is rejected, and in every later run the parent is refused with
   "no common incremental base" (`sender.go:406-409`).  Nothing failed.
   `receiver.go:162` against `README.md:43-48`; `exec.go:243-244` sorts parents
   first, which does not order the goroutines.  With parallelism 1 it does not
   happen (`FirstRunDelivers`).

## What is not modelled

- Bookmark names.  The models identify a name with its snapshot's GUID.  A
  snapshot name used a second time meets the old bookmark, and sends of that
  snapshot fail; the destination refuses it too, as it has one of that name, and
  nothing in the repository promises more.
- Bookmarks destroyed by an administrator, or by another job that uses a suffix of
  this one's destinations; the configuration check forbids the latter within a
  file.
- What `-F` does to mirrored bookmarks at a destination, and a receiver that goes
  on with `set_placeholders` after its sender has died: it stops with it.
- A dataset that another filesystem's receiver has created empty, in
  `Replication`, which follows one filesystem; `ReceiverTree` is about that.
- An encrypted base dataset.  `createNotIfEncrypted` asks about it too
  (`receiver.go:134`) and would refuse every parent that is missing right below
  it, in each run.
- Stream options: compression, properties.  Raw sends appear in `ReceiverTree`
  as datasets that arrive encrypted.
- Crashes of sender and receivers in `ReceiverTree`; a broken transfer and a
  failed query stand for them, and both leave the same states behind.
- `--limit-fs` and the other flags that only select; flag parsing.
- Edits of a configuration file in place: a file is replaced as a whole.
- Decoding of JSON, validation of names and durations, parsing of command
  output, logging.
- Durations finer than the granule, and destruction of snapshots by others while
  the deleter runs.  After the clock was set back the deleter refuses a listing
  until the later snapshots are gone; this is modelled (`MarkRejected`), and
  refusing is what the code intends, so no property is about it.
- Pool capacity and health: one query of the monitor that may fail.
