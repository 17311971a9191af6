------------------------------ MODULE Pipeline ------------------------------
(***************************************************************************)
(* The processes of one stream, joined by pipes: send() on the source host *)
(* (zfs send, mbuffer, zstd, the receiver command, usually ssh) and        *)
(* receive() on the destination host (mbuffer, zstd -d, zfs receive).      *)
(* Each function starts its processes, waits for them with a Group, and    *)
(* kills them all as soon as one has failed.                               *)
(*                                                                         *)
(* Stages are numbered along the stream.  A stage holds nothing itself:    *)
(* what it has read and not written counts as content of the pipe after it,*)
(* whose capacity is bounded.  The end of a zfs stream is marked in the    *)
(* stream, so zfs receive knows a whole one from a truncated one; the other*)
(* stages see only the end of their input.                                 *)
(***************************************************************************)
EXTENDS Integers

CONSTANTS
    LocalHelpers,   \* 0 .. 2: mbuffer and zstd in send()
    RemoteHelpers,  \* 0 .. 2: mbuffer and zstd in receive()
    Blocks,         \* the length of the stream
    Capacity,       \* what a pipe holds
    MaxFaults       \* processes that fail by themselves, or crash

ASSUME HelpersAssumption == LocalHelpers \in Nat /\ RemoteHelpers \in Nat
ASSUME StreamAssumption == Blocks \in Nat \ {0} /\ Capacity \in Nat \ {0}
ASSUME FaultsAssumption == MaxFaults \in Nat

Send    == 1
Ssh     == LocalHelpers + 2
Receive == Ssh + RemoteHelpers + 1
Stage   == 1 .. Receive
Side    == {"local", "remote"}

StagesOf(side) == IF side = "local" THEN 1 .. Ssh ELSE Ssh + 1 .. Receive
SideOf(i) == IF i <= Ssh THEN "local" ELSE "remote"

VARIABLES
    exit,       \* of each stage: "unstarted", "running", "ok", "failed", "killed"
    moved,      \* blocks each stage has written; for zfs receive: stored
    reaped,     \* the stages whose Wait has returned
    phase,      \* of each side's function, see Phase
    err,        \* whether the side has an error; its context is then cancelled
    faults

vars == <<exit, moved, reaped, phase, err, faults>>

\* "absent": the receiver has not been contacted.  "starting": processes are
\* being started.  "waiting": in Group.Wait.  "aborting": a start failed, the
\* deferred function kills and waits.  "crashed": the function's own process
\* is gone; its children are not.
Phase == {"absent", "starting", "waiting", "aborting", "returned", "crashed"}

TypeOK ==
    /\ exit \in [Stage -> {"unstarted", "running", "ok", "failed", "killed"}]
    /\ moved \in [Stage -> 0 .. Blocks]
    /\ reaped \in SUBSET Stage
    /\ phase \in [Side -> Phase]
    /\ err \in [Side -> BOOLEAN]
    /\ faults \in 0 .. MaxFaults

Init ==
    /\ exit = [i \in Stage |-> "unstarted"]
    /\ moved = [i \in Stage |-> 0]
    /\ reaped = {}
    /\ phase = [side \in Side |-> IF side = "local" THEN "starting" ELSE "absent"]
    /\ err = [side \in Side |-> FALSE]
    /\ faults = 0

Started(i) == exit[i] # "unstarted"
Running(i) == exit[i] = "running"
Exited(i)  == exit[i] \in {"ok", "failed", "killed"}

-----------------------------------------------------------------------------
(* Starting the processes.                                                 *)

\* The stages started before stage i: send() starts the helpers in the order
\* of the stream, then zfs send, then the receiver command; receive() follows
\* the stream.
Before(i) ==
    CASE i = Send -> 2 .. Ssh - 1
      [] i \in 2 .. Ssh - 1 -> 2 .. i - 1
      [] i = Ssh -> 1 .. Ssh - 1
      [] OTHER -> Ssh + 1 .. i - 1

NextToStart(i) ==
    /\ phase[SideOf(i)] = "starting"
    /\ ~Started(i)
    /\ \A j \in Before(i) : Started(j)

\* The last process of each side: from there on the function waits.
IsLast(i) == i \in {Ssh, Receive}

Start(i) ==
    /\ NextToStart(i)
    /\ exit' = [exit EXCEPT ![i] = "running"]
    /\ phase' = IF IsLast(i) THEN [phase EXCEPT ![SideOf(i)] = "waiting"] ELSE phase
    /\ UNCHANGED <<moved, reaped, err, faults>>

\* Faulty: a failed start returns at once.
LeaveStarted(i) ==
    /\ NextToStart(i)
    /\ faults < MaxFaults
    /\ faults' = faults + 1
    /\ phase' = [phase EXCEPT ![SideOf(i)] = "returned"]
    /\ err' = [err EXCEPT ![SideOf(i)] = TRUE]
    /\ UNCHANGED <<exit, moved, reaped>>

\* A binary is missing, or fork fails.
StartFails(i) ==
    /\ NextToStart(i)
    /\ faults < MaxFaults
    /\ faults' = faults + 1
    /\ phase' = [phase EXCEPT ![SideOf(i)] = "aborting"]
    /\ err' = [err EXCEPT ![SideOf(i)] = TRUE]
    /\ UNCHANGED <<exit, moved, reaped>>

\* The receiver command reaches the destination, and receive() begins.
CanConnect == Running(Ssh) /\ phase["remote"] = "absent"

Connect ==
    /\ CanConnect
    /\ phase' = [phase EXCEPT !["remote"] = "starting"]
    /\ UNCHANGED <<exit, moved, reaped, err, faults>>

-----------------------------------------------------------------------------
(* The processes.                                                          *)

\* Faulty: the last block is written again.
InputAndMore(i) == IF i = Send THEN Blocks + 1 ELSE moved[i - 1]

\* What stage i has been given to write.
Input(i) == IF i = Send THEN Blocks ELSE moved[i - 1]

Room(i) == IF i = Receive THEN Blocks ELSE Capacity + moved[i + 1]

CanPass(i) == Running(i) /\ moved[i] < Input(i) /\ moved[i] < Room(i)

Pass(i) ==
    /\ CanPass(i)
    /\ moved' = [moved EXCEPT ![i] = @ + 1]
    /\ UNCHANGED <<exit, reaped, phase, err, faults>>

\* Nothing can be written to stage i any more.  The parent has closed its copy
\* of the pipe when the writer was started, or could not be, or has died.  (When
\* a later start fails, zfs's pipe is still open until send returns; its reader
\* is killed instead, which it may be here as well.)
InputClosed(i) ==
    i > Send =>
        \/ Exited(i - 1)
        \/ phase[SideOf(i - 1)] \in {"aborting", "crashed"} /\ ~Started(i - 1)
        \* ssh has read all there is and closes the channel
        \/ i = Ssh + 1 /\ moved[Ssh] = moved[Ssh - 1] /\ Exited(Ssh - 1)

AtEnd(i) == Running(i) /\ moved[i] = Input(i) /\ InputClosed(i)

\* zfs send and the helpers end with their input, whole or not; zfs receive
\* with the end of the stream, and in error if its input ends before.
CanFinish(i) ==
    /\ i # Ssh
    /\ AtEnd(i) \/ (i = Receive /\ Running(i) /\ moved[i] = Blocks)

Finish(i) ==
    /\ CanFinish(i)
    /\ exit' = [exit EXCEPT ![i] = IF i = Receive /\ moved[i] # Blocks THEN "failed" ELSE "ok"]
    /\ UNCHANGED <<moved, reaped, phase, err, faults>>

\* The receiver command ends when receive() does, and with its status.
CanSshEnd == Running(Ssh) /\ phase["remote"] = "returned"

SshEnds ==
    /\ CanSshEnd
    /\ exit' = [exit EXCEPT ![Ssh] = IF err["remote"] THEN "failed" ELSE "ok"]
    /\ UNCHANGED <<moved, reaped, phase, err, faults>>

\* A process fails: the data cannot be read, the connection is lost, the
\* destination rejects the stream, a helper runs out of memory.
Fail(i) ==
    /\ Running(i)
    /\ faults < MaxFaults
    /\ faults' = faults + 1
    /\ exit' = [exit EXCEPT ![i] = "failed"]
    /\ UNCHANGED <<moved, reaped, phase, err>>

\* The function's own process dies.  Nothing kills its children, and nobody
\* waits for them.
Crash(side) ==
    /\ phase[side] \in {"starting", "waiting", "aborting"}
    /\ faults < MaxFaults
    /\ faults' = faults + 1
    /\ phase' = [phase EXCEPT ![side] = "crashed"]
    /\ UNCHANGED <<exit, moved, reaped, err>>

\* A process that writes to a pipe nobody can read any more.  As long as the
\* function lives it holds the reading end open, so the writer blocks instead.
CanBreak(i) ==
    /\ Running(i)
    /\ i # Receive
    /\ moved[i] < Input(i)
    /\ IF i = Ssh
       THEN phase["remote"] = "crashed"
       ELSE /\ phase[SideOf(i)] = "crashed"
            /\ Exited(i + 1) \/ ~Started(i + 1)

BrokenPipe(i) ==
    /\ CanBreak(i)
    /\ exit' = [exit EXCEPT ![i] = "failed"]
    /\ UNCHANGED <<moved, reaped, phase, err, faults>>

\* The receiver's crash reaches ssh even when there is nothing to write.
CanSshHangup == Running(Ssh) /\ phase["remote"] = "crashed"

SshHangup ==
    /\ CanSshHangup
    /\ exit' = [exit EXCEPT ![Ssh] = "failed"]
    /\ UNCHANGED <<moved, reaped, phase, err, faults>>

-----------------------------------------------------------------------------
(* Group, and the deferred function that reaps.                            *)

\* Faulty: the function that aborts waits without having cancelled.
CanKillWaiting(i) ==
    /\ Running(i)
    /\ err[SideOf(i)]
    /\ phase[SideOf(i)] = "waiting"

\* exec.CommandContext kills the process once the context is cancelled.
CanKill(i) ==
    /\ Running(i)
    /\ err[SideOf(i)]
    /\ phase[SideOf(i)] \in {"waiting", "aborting"}

Kill(i) ==
    /\ CanKill(i)
    /\ exit' = [exit EXCEPT ![i] = "killed"]
    /\ UNCHANGED <<moved, reaped, phase, err, faults>>

CanReap(i) ==
    /\ phase[SideOf(i)] \in {"waiting", "aborting"}
    /\ Exited(i)
    /\ i \notin reaped

\* Faulty: each process to end overwrites the error of the ones before.
ReapLastError(i) ==
    /\ CanReap(i)
    /\ reaped' = reaped \union {i}
    /\ err' = [err EXCEPT ![SideOf(i)] = exit[i] # "ok"]
    /\ UNCHANGED <<exit, moved, phase, faults>>

\* Faulty: an error is noticed only after all processes have ended.
ReapInOrder(i) ==
    /\ CanReap(i)
    /\ \A j \in StagesOf(SideOf(i)) : j < i => j \in reaped
    /\ reaped' = reaped \union {i}
    /\ err' = [err EXCEPT ![SideOf(i)] = @ \/ exit[i] # "ok"]
    /\ UNCHANGED <<exit, moved, phase, faults>>

\* A goroutine's Wait returns; the first error cancels the context.
Reap(i) ==
    /\ CanReap(i)
    /\ reaped' = reaped \union {i}
    /\ err' = [err EXCEPT ![SideOf(i)] = @ \/ exit[i] # "ok"]
    /\ UNCHANGED <<exit, moved, phase, faults>>

\* Faulty: the receiver command is not waited for.
ReturnWithoutSsh(side) ==
    /\ phase[side] \in {"waiting", "aborting"}
    /\ \A i \in StagesOf(side) \ {Ssh} : Started(i) => i \in reaped
    /\ phase' = [phase EXCEPT ![side] = "returned"]
    /\ UNCHANGED <<exit, moved, reaped, err, faults>>

\* Group.Wait, or the deferred function, has seen all processes end.
CanReturn(side) ==
    /\ phase[side] \in {"waiting", "aborting"}
    /\ \A i \in StagesOf(side) : Started(i) => i \in reaped

Return(side) ==
    /\ CanReturn(side)
    /\ phase' = [phase EXCEPT ![side] = "returned"]
    /\ UNCHANGED <<exit, moved, reaped, err, faults>>

-----------------------------------------------------------------------------

Ended(side) == phase[side] \in {"returned", "crashed"}

\* What goes on without anybody's fault.
Step ==
    \/ \E i \in Stage : Start(i) \/ Pass(i) \/ Finish(i) \/ BrokenPipe(i) \/ Kill(i) \/ Reap(i)
    \/ \E side \in Side : Return(side)
    \/ Connect
    \/ SshEnds
    \/ SshHangup

Fault ==
    \/ \E i \in Stage : StartFails(i) \/ Fail(i)
    \/ \E side \in Side : Crash(side)

\* Nothing is left to do.
AtRest ==
    /\ Ended("local")
    /\ phase["remote"] = "absent" \/ Ended("remote")
    /\ \A i \in Stage : ~Running(i)

Rest == AtRest /\ UNCHANGED vars

Next == Step \/ Fault \/ Rest

Spec == Init /\ [][Next]_vars

\* Every step but a fault brings the transfer forward, so weak fairness of all
\* of them together is fairness for each process.
FairSpec == Spec /\ WF_vars(Step)

-----------------------------------------------------------------------------
(* Properties                                                              *)

Returned(side) == phase[side] = "returned"
Successful(side) == Returned(side) /\ ~err[side]

\* When send() reports success, zfs receive has ended well and has stored the
\* whole stream: the checkpoint the sender sets next is true.
SuccessMeansReceived ==
    Successful("local") => exit[Receive] = "ok" /\ moved[Receive] = Blocks

\* No error is lost among the goroutines of a Group: a function that reports
\* success has seen each of its processes end well.
ErrorsSurface ==
    \A side \in Side : Successful(side) => \A i \in StagesOf(side) : exit[i] = "ok"

\* A function that has returned, also early because a process could not be
\* started, has left no process running and none unreaped.
NothingLeftRunning ==
    \A side \in Side : Returned(side) => \A i \in StagesOf(side) : Started(i) => i \in reaped

\* Something can go on: the guards of the disjuncts of Step, each of which is
\* all that its action asks for.
Possible ==
    \/ \E i \in Stage :
        NextToStart(i) \/ CanPass(i) \/ CanFinish(i) \/ CanBreak(i) \/ CanKill(i) \/ CanReap(i)
    \/ \E side \in Side : CanReturn(side)
    \/ CanConnect \/ CanSshEnd \/ CanSshHangup

\* Nobody waits for a block, for room in a pipe or for the end of a process
\* that will never come: whoever has died, and whichever pipes are full, either
\* something can go on, or both functions have ended and all processes too.
NobodyIsStuck == Possible \/ AtRest

\* Nothing is undone: no process starts again or changes how it ended, no block
\* goes back, no error is forgotten, and no function waits again after it has
\* returned.  All of this is bounded and every step but stuttering adds to it,
\* so the steps of a transfer come to an end.
OnlyForward ==
    [][ /\ \A i \in Stage :
            /\ Exited(i) => exit'[i] = exit[i]
            /\ Running(i) => exit'[i] # "unstarted"
            /\ moved[i] <= moved'[i]
        /\ reaped \subseteq reaped'
        /\ \A side \in Side :
            /\ err[side] => err'[side]
            /\ Ended(side) => phase'[side] = phase[side]
            /\ phase[side] \in {"waiting", "aborting"} => phase'[side] = phase[side] \/ Ended(side)'
            /\ phase[side] = "starting" => phase'[side] # "absent"
      ]_vars

\* send() returns, whichever process dies and however full the pipes are, and
\* so does a receive() that was contacted.
EverybodyReturns ==
    /\ <>Ended("local")
    /\ phase["remote"] # "absent" ~> Ended("remote")

-----------------------------------------------------------------------------
(* What is proved by induction, in PipelineProofs.                         *)

\* A side's bookkeeping: what is reaped has ended, and ended well unless the
\* side has an error; a function that waits has started all of its processes;
\* one that has returned has reaped what it had started.
GroupInv ==
    /\ \A i \in reaped : Exited(i) /\ (err[SideOf(i)] \/ exit[i] = "ok")
    /\ \A side \in Side : phase[side] = "aborting" => err[side]
    /\ \A i \in Stage :
        /\ phase[SideOf(i)] = "waiting" \/ Successful(SideOf(i)) => Started(i)
        /\ Returned(SideOf(i)) /\ Started(i) => i \in reaped

\* What ssh and zfs receive say is true.
StatusInv ==
    /\ exit[Ssh] = "ok" => Successful("remote")
    /\ exit[Receive] = "ok" => moved[Receive] = Blocks

PipelineInv == TypeOK /\ GroupInv /\ StatusInv

\* In which order things start: a function that is starting has not started
\* its last process, ssh is started after all other local ones, and receive()
\* is there once ssh has reached the destination.
OrderInv ==
    /\ phase["local"] # "absent"
    /\ phase["local"] = "starting" => ~Started(Ssh)
    /\ phase["remote"] = "starting" => ~Started(Receive)
    /\ Started(Ssh) => \A i \in 1 .. Ssh : Started(i)
    /\ phase["remote"] = "absent" => \A i \in Ssh + 1 .. Receive : ~Started(i)
    /\ phase["remote"] # "absent" => Started(Ssh)

\* No more input will come to stage i.
InputOver(i) ==
    i > Send =>
        \/ Exited(i - 1)
        \/ phase[SideOf(i - 1)] \in {"aborting", "crashed", "returned"} /\ ~Started(i - 1)
        \/ i = Ssh + 1 /\ moved[Ssh] = moved[Ssh - 1] /\ Exited(Ssh - 1)

\* Nothing comes out of a pipe that was not put into it, and a process that has
\* ended well has passed on all it was ever given.
FlowInv ==
    \A i \in Stage :
        /\ moved[i] <= Input(i)
        /\ exit[i] = "ok" /\ i \notin {Ssh, Receive} => moved[i] = Input(i) /\ InputOver(i)

StuckInv == PipelineInv /\ OrderInv /\ FlowInv

-----------------------------------------------------------------------------
(* Refinement                                                              *)

Verdict ==
    CASE Successful("local") -> "ok"
      [] Returned("local") /\ err["local"] -> "error"
      [] OTHER -> "none"

Abstract == INSTANCE Transfer WITH received <- moved[Receive], verdict <- Verdict

\* The processes and pipes implement the promise of Transfer.
ImplementsTransfer == Abstract!Spec
=============================================================================
