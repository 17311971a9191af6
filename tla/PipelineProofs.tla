--------------------------- MODULE PipelineProofs ---------------------------
(***************************************************************************)
(* Theorems about Pipeline, for any number of helpers, any length of the   *)
(* stream, any capacity and any number of failures.                        *)
(***************************************************************************)
EXTENDS Pipeline, Numbers, TLAPS

\* Where the named stages are.
LEMMA Places ==
  /\ Ssh \in Nat /\ Ssh >= 2 /\ Receive \in Nat /\ Ssh < Receive
  /\ Send \in Stage /\ Ssh \in Stage /\ Receive \in Stage
  /\ SideOf(Send) = "local" /\ SideOf(Ssh) = "local" /\ SideOf(Receive) = "remote"
  BY HelpersAssumption DEF Ssh, Receive, Send, Stage, SideOf

\* A stage belongs to exactly one side.
LEMMA Sides ==
  /\ \A i \in Stage : SideOf(i) \in Side /\ i \in StagesOf(SideOf(i))
  /\ \A side \in Side : \A i \in StagesOf(side) : i \in Stage /\ SideOf(i) = side
  BY Places DEF Stage, SideOf, StagesOf, Side

\* What a stage has been given to write is never more than the stream.
LEMMA InputBound ==
  ASSUME TypeOK, NEW i \in Stage
  PROVE  Input(i) \in 0 .. Blocks
  BY Places, StreamAssumption DEF TypeOK, Input, Stage, Send

\* When the last process of a side starts, all others of the side have.
LEMMA LastStarts ==
  ASSUME NEW i \in Stage, NextToStart(i), IsLast(i), NEW j \in Stage, SideOf(j) = SideOf(i), j # i
  PROVE  Started(j)
<1>1. CASE i = Ssh
  BY <1>1, Places DEF NextToStart, Before, SideOf, Stage, Send
<1>2. CASE i = Receive
  BY <1>2, Places DEF NextToStart, Before, SideOf, Stage, Send
<1> QED
  BY <1>1, <1>2 DEF IsLast

\* The invariant holds initially.
LEMMA InvInit == Init => PipelineInv
<1> SUFFICES ASSUME Init PROVE PipelineInv
  OBVIOUS
<1>1. TypeOK
  BY StreamAssumption, FaultsAssumption DEF Init, TypeOK, Phase, Side
<1>2. \A side \in Side : phase[side] \in {"starting", "absent"}
  BY DEF Init, Side
<1>3. GroupInv
  BY <1>2, Sides DEF Init, GroupInv, Started, Returned, Successful
<1>4. StatusInv
  BY Places DEF Init, StatusInv
<1> QED
  BY <1>1, <1>3, <1>4 DEF PipelineInv

\* A process starts, or fails to.
LEMMA StartSteps ==
  ASSUME PipelineInv, NEW i \in Stage, Start(i) \/ StartFails(i)
  PROVE  PipelineInv'
<1> USE DEF PipelineInv
<1>0. SideOf(i) \in Side
  BY Sides
<1>1. CASE Start(i)
  <2>1. TypeOK'
    BY <1>0, <1>1 DEF TypeOK, Start, Phase
  <2>2. \A j \in Stage : Started(j) => Started(j)'
    BY <1>1 DEF Start, Started, TypeOK
  <2>3. Started(i)'
    BY <1>1 DEF Start, Started, TypeOK
  <2>4. \A j \in Stage : phase[SideOf(j)]' = "waiting" => Started(j)'
    <3> SUFFICES ASSUME NEW j \in Stage, phase[SideOf(j)]' = "waiting", j # i
                 PROVE  Started(j)'
      BY <2>3
    <3>1. SideOf(j) \in Side
      BY Sides
    <3>2. CASE phase[SideOf(j)] = "waiting"
      BY <2>2, <3>2 DEF GroupInv
    <3>3. CASE phase[SideOf(j)] # "waiting"
      <4>1. IsLast(i) /\ SideOf(j) = SideOf(i)
        BY <1>0, <1>1, <3>1, <3>3 DEF Start, TypeOK
      <4> QED
        BY <1>1, <2>2, <4>1, LastStarts DEF Start
    <3> QED
      BY <3>2, <3>3
  <2>5. \A side \in Side : /\ phase[side]' # phase[side] => side = SideOf(i) /\ phase[side]' = "waiting"
                           /\ err[side]' = err[side]
    BY <1>0, <1>1 DEF Start, TypeOK
  <2>6. phase[SideOf(i)] = "starting"
    BY <1>1 DEF Start, NextToStart
  <2>7. \A j \in reaped : Exited(j)'
    BY <1>1 DEF GroupInv, Start, NextToStart, Started, Exited, TypeOK
  <2>8. \A j \in Stage : j # i => exit[j]' = exit[j]
    BY <1>1 DEF Start, TypeOK
  <2>9. i \notin reaped
    BY <1>1 DEF GroupInv, Start, NextToStart, Started, Exited
  <2>10. reaped' = reaped /\ moved' = moved /\ exit[i]' = "running"
    BY <1>1 DEF Start, TypeOK
  <2>11. GroupInv'
    <3>1. \A j \in reaped' : Exited(j)' /\ (err[SideOf(j)]' \/ exit[j]' = "ok")
      BY <2>5, <2>7, <2>8, <2>9, <2>10, Sides DEF GroupInv, TypeOK
    <3>2. \A side \in Side : phase[side]' = "aborting" => err[side]'
      BY <2>5 DEF GroupInv
    <3>3. \A j \in Stage : Successful(SideOf(j))' => Started(j)'
      BY <2>2, <2>5, Sides DEF GroupInv, Successful, Returned
    <3>4. \A j \in Stage : Returned(SideOf(j))' /\ Started(j)' => j \in reaped'
      <4> SUFFICES ASSUME NEW j \in Stage, Returned(SideOf(j))', Started(j)'
                   PROVE  j \in reaped'
        OBVIOUS
      <4>1. Returned(SideOf(j)) /\ j # i
        BY <2>5, <2>6, Sides DEF Returned
      <4> QED
        BY <2>8, <2>10, <4>1 DEF GroupInv, Started
    <3> QED
      BY <2>4, <3>1, <3>2, <3>3, <3>4 DEF GroupInv
  <2>12. StatusInv'
    BY <2>5, <2>6, <2>8, <2>10, Places DEF StatusInv, Successful, Returned, Side
  <2> QED
    BY <2>1, <2>11, <2>12
<1>2. CASE StartFails(i)
  <2>1. TypeOK'
    BY <1>0, <1>2, FaultsAssumption DEF TypeOK, StartFails, Phase
  <2>2. \A side \in Side : IF side = SideOf(i) THEN phase[side] = "starting" /\ phase[side]' = "aborting" /\ err[side]'
                                               ELSE phase[side]' = phase[side] /\ err[side]' = err[side]
    BY <1>0, <1>2 DEF StartFails, NextToStart, TypeOK
  <2>3. exit' = exit /\ reaped' = reaped /\ moved' = moved
    BY <1>2 DEF StartFails
  <2>4. GroupInv'
    BY <2>2, <2>3, Sides DEF GroupInv, Successful, Returned, Started, Exited, TypeOK
  <2>5. StatusInv'
    BY <2>2, <2>3, Places DEF StatusInv, Successful, Returned, Side
  <2> QED
    BY <2>1, <2>4, <2>5
<1> QED
  BY <1>1, <1>2

\* A block moves on.
LEMMA PassStep ==
  ASSUME PipelineInv, NEW i \in Stage, Pass(i)
  PROVE  PipelineInv'
<1> USE DEF PipelineInv
<1>1. TypeOK'
  BY InputBound, StreamAssumption DEF TypeOK, Pass, CanPass
<1>2. UNCHANGED <<exit, reaped, phase, err>>
  BY DEF Pass, CanPass
<1>3. GroupInv'
  BY <1>2 DEF GroupInv, Successful, Returned, Started, Exited
<1>4. exit[Receive] = "ok" => i # Receive
  BY DEF Pass, CanPass, Running
<1>5. StatusInv'
  BY <1>2, <1>4, Places DEF StatusInv, Successful, Returned, Pass, CanPass, TypeOK
<1> QED
  BY <1>1, <1>3, <1>5

\* A running process ends, for whatever reason.
LEMMA ExitSteps ==
  ASSUME PipelineInv, NEW i \in Stage, Running(i), NEW st \in {"ok", "failed", "killed"},
         exit' = [exit EXCEPT ![i] = st],
         UNCHANGED <<moved, reaped, phase, err>>, faults' \in 0 .. MaxFaults,
         i = Ssh /\ st = "ok" => Successful("remote"),
         i = Receive /\ st = "ok" => moved[Receive] = Blocks
  PROVE  PipelineInv'
<1> USE DEF PipelineInv
<1>1. TypeOK'
  BY DEF TypeOK
<1>2. i \notin reaped
  BY DEF GroupInv, Running, Exited
<1>3. \A j \in Stage : /\ j # i => exit'[j] = exit[j]
                       /\ Started(j)' <=> Started(j)
  BY DEF TypeOK, Started, Running
<1>4. reaped \subseteq Stage
  BY DEF TypeOK
<1>5. GroupInv'
  BY <1>2, <1>3, <1>4 DEF GroupInv, Successful, Returned, Exited
<1>6. StatusInv'
  BY <1>3, Places DEF StatusInv, Successful, Returned, TypeOK
<1> QED
  BY <1>1, <1>5, <1>6

\* The ways in which a process ends.
LEMMA ProcessEnds ==
  ASSUME PipelineInv, NEW i \in Stage,
         Finish(i) \/ Fail(i) \/ BrokenPipe(i) \/ Kill(i) \/ (i = Ssh /\ (SshEnds \/ SshHangup))
  PROVE  PipelineInv'
<1>0. faults \in 0 .. MaxFaults
  BY DEF PipelineInv, TypeOK
<1>1. CASE Finish(i)
  <2>1. Running(i) /\ i # Ssh /\ UNCHANGED <<moved, reaped, phase, err, faults>>
    BY <1>1 DEF Finish, CanFinish, AtEnd
  <2>2. CASE i = Receive /\ moved[i] # Blocks
    BY <1>0, <1>1, <2>1, <2>2, ExitSteps DEF Finish, CanFinish
  <2>3. CASE ~(i = Receive /\ moved[i] # Blocks)
    BY <1>0, <1>1, <2>1, <2>3, ExitSteps DEF Finish, CanFinish
  <2> QED
    BY <2>2, <2>3
<1>2. CASE Fail(i)
  <2>1. faults' \in 0 .. MaxFaults
    BY <1>0, <1>2, FaultsAssumption DEF Fail
  <2> QED
    BY <1>2, <2>1, ExitSteps, Places DEF Fail
<1>3. CASE BrokenPipe(i)
  BY <1>0, <1>3, ExitSteps DEF BrokenPipe, CanBreak
<1>4. CASE Kill(i)
  BY <1>0, <1>4, ExitSteps DEF Kill, CanKill
<1>5. CASE i = Ssh /\ SshEnds
  <2>1. CASE err["remote"]
    BY <1>0, <1>5, <2>1, ExitSteps, Places DEF SshEnds, CanSshEnd
  <2>2. CASE ~err["remote"]
    BY <1>0, <1>5, <2>2, ExitSteps, Places DEF SshEnds, CanSshEnd, Successful, Returned
  <2> QED
    BY <2>1, <2>2
<1>6. CASE i = Ssh /\ SshHangup
  BY <1>0, <1>6, ExitSteps, Places DEF SshHangup, CanSshHangup
<1> QED
  BY <1>1, <1>2, <1>3, <1>4, <1>5, <1>6

\* A goroutine's Wait returns.
LEMMA ReapStep ==
  ASSUME PipelineInv, NEW i \in Stage, Reap(i)
  PROVE  PipelineInv'
<1> USE DEF PipelineInv
<1>0. SideOf(i) \in Side
  BY Sides
<1>1. TypeOK'
  BY <1>0 DEF TypeOK, Reap, CanReap
<1>2. UNCHANGED <<exit, moved, phase>> /\ reaped' = reaped \union {i} /\ Exited(i)
  BY DEF Reap, CanReap
<1>3. /\ \A side \in Side : err[side] => err'[side]
      /\ \A side \in Side : phase[side] = "returned" => err'[side] = err[side]
      /\ err'[SideOf(i)] \/ exit[i] = "ok"
  BY <1>0 DEF Reap, CanReap, TypeOK
<1>4. GroupInv'
  BY <1>2, <1>3, Sides DEF GroupInv, Successful, Returned, Exited, Started, TypeOK
<1>5. StatusInv'
  BY <1>2, <1>3, Places DEF StatusInv, Successful, Returned, Side
<1> QED
  BY <1>1, <1>4, <1>5

\* A function returns, or its process dies, or the receiver is contacted.
LEMMA PhaseSteps ==
  ASSUME PipelineInv, NEW side \in Side,
         Return(side) \/ Crash(side) \/ (side = "remote" /\ Connect)
  PROVE  PipelineInv'
<1> USE DEF PipelineInv
<1>1. UNCHANGED <<exit, moved, reaped, err>>
  BY DEF Return, CanReturn, Crash, Connect, CanConnect
<1>2. \A other \in Side : other # side => phase'[other] = phase[other]
  BY DEF Return, CanReturn, Crash, Connect, CanConnect, TypeOK
<1>3. TypeOK'
  BY FaultsAssumption DEF TypeOK, Return, CanReturn, Crash, Connect, CanConnect, Phase
<1>4. phase[side] # "returned" /\ phase'[side] # "waiting" /\ phase'[side] # "aborting"
  BY DEF Return, CanReturn, Crash, Connect, CanConnect, TypeOK
<1>5. \A i \in Stage : SideOf(i) = side /\ Returned(side)' /\ Started(i) => i \in reaped
  BY Sides DEF Return, CanReturn, Crash, Connect, CanConnect, TypeOK, Returned
<1>6. \A i \in Stage : SideOf(i) = side /\ Successful(side)' => Started(i)
  <2> SUFFICES ASSUME NEW i \in Stage, SideOf(i) = side, Successful(side)'
               PROVE  Started(i)
    OBVIOUS
  <2>1. phase[side] = "waiting" \/ phase[side] = "aborting"
    BY DEF Successful, Returned, Return, CanReturn, Crash, Connect, CanConnect, TypeOK
  <2>2. phase[side] # "aborting"
    BY <1>1 DEF GroupInv, Successful
  <2> QED
    BY <2>1, <2>2 DEF GroupInv
<1>7. GroupInv'
  <2>1. \A i \in reaped' : Exited(i)' /\ (err[SideOf(i)]' \/ exit[i]' = "ok")
    BY <1>1 DEF GroupInv, Exited
  <2>2. \A other \in Side : phase[other]' = "aborting" => err[other]'
    BY <1>1, <1>2, <1>4 DEF GroupInv
  <2>3. \A i \in Stage : /\ phase[SideOf(i)]' = "waiting" \/ Successful(SideOf(i))' => Started(i)'
                         /\ Returned(SideOf(i))' /\ Started(i)' => i \in reaped'
    <3> SUFFICES ASSUME NEW i \in Stage
                 PROVE  /\ phase[SideOf(i)]' = "waiting" \/ Successful(SideOf(i))' => Started(i)'
                        /\ Returned(SideOf(i))' /\ Started(i)' => i \in reaped'
      OBVIOUS
    <3>1. CASE SideOf(i) = side
      BY <1>1, <1>4, <1>5, <1>6, <3>1 DEF Started
    <3>2. CASE SideOf(i) # side
      BY <1>1, <1>2, <3>2, Sides DEF GroupInv, Started, Successful, Returned
    <3> QED
      BY <3>1, <3>2
  <2> QED
    BY <2>1, <2>2, <2>3 DEF GroupInv
<1>8. StatusInv'
  BY <1>1, <1>2, <1>4 DEF StatusInv, Successful, Returned, Side
<1> QED
  BY <1>3, <1>7, <1>8

\* Every step preserves the invariant.
LEMMA InvNext == PipelineInv /\ [Next]_vars => PipelineInv'
<1> SUFFICES ASSUME PipelineInv, [Next]_vars PROVE PipelineInv'
  OBVIOUS
<1>1. CASE Step
  BY <1>1, StartSteps, PassStep, ProcessEnds, ReapStep, PhaseSteps, Places DEF Step, Side
<1>2. CASE Fault
  BY <1>2, StartSteps, ProcessEnds, PhaseSteps DEF Fault
<1>3. CASE UNCHANGED vars
  BY <1>3 DEF vars, PipelineInv, TypeOK, GroupInv, StatusInv, Successful, Returned, Started, Exited
<1> QED
  BY <1>1, <1>2, <1>3 DEF Next, Rest

\* The invariant is one.
LEMMA Inductive == Spec => []PipelineInv
  BY InvInit, InvNext, PTL DEF Spec

-----------------------------------------------------------------------------
(* The theorems                                                            *)

\* What the invariant says of a function that reports success.
LEMMA SuccessFacts ==
  ASSUME PipelineInv
  PROVE  SuccessMeansReceived /\ ErrorsSurface /\ NothingLeftRunning
<1> USE DEF PipelineInv
<1>1. ErrorsSurface
  BY Sides DEF ErrorsSurface, GroupInv, Successful, Returned
<1>2. NothingLeftRunning
  BY Sides DEF NothingLeftRunning, GroupInv
<1>3. SuccessMeansReceived
  <2> SUFFICES ASSUME Successful("local")
               PROVE  exit[Receive] = "ok" /\ moved[Receive] = Blocks
    BY DEF SuccessMeansReceived
  <2>1. exit[Ssh] = "ok"
    BY <1>1, Places, Sides DEF ErrorsSurface, Side
  <2>2. exit[Receive] = "ok"
    BY <1>1, <2>1, Places, Sides DEF ErrorsSurface, StatusInv, Side
  <2> QED
    BY <2>2 DEF StatusInv
<1> QED
  BY <1>1, <1>2, <1>3

\* send() reports success only when zfs receive has stored the whole stream.
THEOREM SuccessIsReceived == Spec => []SuccessMeansReceived
  BY Inductive, SuccessFacts, PTL

\* No failure of a process is lost among a Group's goroutines.
THEOREM ErrorsAreReported == Spec => []ErrorsSurface
  BY Inductive, SuccessFacts, PTL

\* A function that has returned has reaped all it started.
THEOREM EverythingIsReaped == Spec => []NothingLeftRunning
  BY Inductive, SuccessFacts, PTL

-----------------------------------------------------------------------------
(* Refinement of Transfer                                                  *)

\* A step that changes neither a side's phase after its return nor its error
\* leaves the verdict alone.
LEMMA VerdictKept ==
  ASSUME phase'["local"] = "returned" <=> phase["local"] = "returned",
         phase["local"] = "returned" => err'["local"] = err["local"]
  PROVE  Verdict' = Verdict
  BY DEF Verdict, Successful, Returned

\* Every step is a step of Transfer or changes nothing Transfer knows of.
LEMMA StepRefines ==
  ASSUME PipelineInv, PipelineInv', [Next]_vars
  PROVE  [Abstract!Next]_<<moved[Receive], Verdict>>
<1>1. CASE \E i \in Stage : Pass(i)
  <2> PICK i \in Stage : Pass(i)
    BY <1>1
  <2>1. Verdict' = Verdict
    BY VerdictKept DEF Pass, CanPass
  <2>2. CASE i = Receive
    <3>1. Input(Receive) \in 0 .. Blocks
      BY InputBound, Places DEF PipelineInv
    <3>2. moved[Receive] < Blocks /\ moved'[Receive] = moved[Receive] + 1
      BY <2>2, <3>1, Places, StreamAssumption DEF Pass, CanPass, PipelineInv, TypeOK
    <3> QED
      BY <2>1, <3>2 DEF Abstract!Next, Abstract!Receive
  <2>3. CASE i # Receive
    BY <2>1, <2>3, Places DEF Pass, CanPass, PipelineInv, TypeOK
  <2> QED
    BY <2>2, <2>3
<1>2. CASE Return("local")
  <2>1. moved' = moved /\ err' = err /\ phase["local"] # "returned" /\ phase'["local"] = "returned"
    BY <1>2 DEF Return, CanReturn, PipelineInv, TypeOK, Side
  <2>2. Verdict = "none"
    BY <2>1 DEF Verdict, Successful, Returned
  <2>3. err["local"] \in BOOLEAN
    BY DEF PipelineInv, TypeOK, Side
  <2>4. CASE err["local"]
    <3>1. Verdict' = "error"
      BY <2>1, <2>4 DEF Verdict, Successful, Returned
    <3> QED
      BY <2>1, <2>2, <3>1 DEF Abstract!Next, Abstract!GiveUp
  <2>5. CASE ~err["local"]
    <3>1. Verdict' = "ok"
      BY <2>1, <2>5 DEF Verdict, Successful, Returned
    <3>2. SuccessMeansReceived'
      BY SuccessFacts, PTL
    <3>3. moved[Receive] = Blocks
      BY <2>1, <2>5, <3>2 DEF SuccessMeansReceived, Successful, Returned
    <3> QED
      BY <2>1, <2>2, <3>1, <3>3 DEF Abstract!Next, Abstract!Succeed
  <2> QED
    BY <2>3, <2>4, <2>5
<1>3. ASSUME UNCHANGED moved,
             phase'["local"] = "returned" <=> phase["local"] = "returned",
             phase["local"] = "returned" => err'["local"] = err["local"]
      PROVE  UNCHANGED <<moved[Receive], Verdict>>
  BY <1>3, VerdictKept
<1>4. CASE \E i \in Stage : Start(i) \/ StartFails(i)
  <2> PICK i \in Stage : Start(i) \/ StartFails(i)
    BY <1>4
  <2>1. SideOf(i) \in Side /\ phase[SideOf(i)] = "starting"
    BY Sides DEF Start, StartFails, NextToStart
  <2>2. phase \in [Side -> Phase] /\ err \in [Side -> BOOLEAN]
    BY DEF PipelineInv, TypeOK
  <2>3. phase' = phase \/ \E ph \in {"waiting", "aborting"} : phase' = [phase EXCEPT ![SideOf(i)] = ph]
    BY DEF Start, StartFails
  <2>4. moved' = moved /\ (err' = err \/ err' = [err EXCEPT ![SideOf(i)] = TRUE])
    BY DEF Start, StartFails
  <2>5. phase'["local"] = "returned" <=> phase["local"] = "returned"
    BY <2>1, <2>2, <2>3 DEF Side
  <2>6. phase["local"] = "returned" => err'["local"] = err["local"]
    BY <2>1, <2>2, <2>4 DEF Side
  <2> QED
    BY <1>3, <2>4, <2>5, <2>6
<1>5. CASE \E i \in Stage : Finish(i) \/ BrokenPipe(i) \/ Kill(i) \/ Fail(i)
  BY <1>3, <1>5 DEF Finish, CanFinish, BrokenPipe, CanBreak, Kill, CanKill, Fail
<1>6. CASE \E i \in Stage : Reap(i)
  BY <1>3, <1>6, Sides DEF Reap, CanReap, PipelineInv, TypeOK
<1>7. CASE SshEnds \/ SshHangup
  BY <1>3, <1>7 DEF SshEnds, CanSshEnd, SshHangup, CanSshHangup
<1>8. CASE Return("remote") \/ Connect \/ \E side \in Side : Crash(side)
  BY <1>3, <1>8 DEF Return, CanReturn, Connect, CanConnect, Crash, PipelineInv, TypeOK, Side
<1>9. CASE UNCHANGED vars
  BY <1>3, <1>9 DEF vars
<1> QED
  BY <1>1, <1>2, <1>4, <1>5, <1>6, <1>7, <1>8, <1>9 DEF Next, Step, Fault, Rest, Side

\* The processes, pipes and Groups of one stream implement Transfer: what has
\* arrived stays, and success is reported only for all of it.
THEOREM PipelineImplementsTransfer == Spec => ImplementsTransfer
<1>1. Init => Abstract!Init
  BY Places DEF Init, Abstract!Init, Verdict, Successful, Returned, Side
<1>2. PipelineInv /\ PipelineInv' /\ [Next]_vars => [Abstract!Next]_<<moved[Receive], Verdict>>
  BY StepRefines
<1> QED
  BY <1>1, <1>2, Inductive, PTL DEF Spec, ImplementsTransfer, Abstract!Spec

-----------------------------------------------------------------------------
(* What a step may do to a stage and a side                                *)

\* Processes and functions go on and never back.
LEMMA Onward ==
  ASSUME PipelineInv, [Next]_vars
  PROVE  /\ \A i \in Stage :
              /\ Exited(i) => exit'[i] = exit[i]
              /\ Running(i) => exit'[i] # "unstarted"
         /\ reaped \subseteq reaped'
         /\ \A side \in Side :
              /\ err[side] => err'[side]
              /\ Ended(side) => phase'[side] = phase[side]
              /\ phase[side] \in {"waiting", "aborting"} => phase'[side] = phase[side] \/ Ended(side)'
              /\ phase[side] = "starting" => phase'[side] # "absent"
<1> USE DEF PipelineInv
<1>1. CASE \E i \in Stage : Start(i) \/ StartFails(i)
  <2> PICK i \in Stage : Start(i) \/ StartFails(i)
    BY <1>1
  <2>1. SideOf(i) \in Side /\ phase[SideOf(i)] = "starting" /\ ~Started(i)
    BY Sides DEF Start, StartFails, NextToStart
  <2>2. /\ exit' = exit \/ exit' = [exit EXCEPT ![i] = "running"]
        /\ reaped' = reaped
        /\ err' = err \/ err' = [err EXCEPT ![SideOf(i)] = TRUE]
        /\ phase' = phase \/ \E ph \in {"waiting", "aborting"} : phase' = [phase EXCEPT ![SideOf(i)] = ph]
    BY DEF Start, StartFails
  <2> QED
    BY <2>1, <2>2 DEF TypeOK, Exited, Running, Started, Ended
<1>2. CASE \E i \in Stage : Pass(i)
  BY <1>2 DEF Pass, Ended, Running
<1>3. CASE \E i \in Stage : Finish(i) \/ BrokenPipe(i) \/ Kill(i) \/ Fail(i) \/ (i = Ssh /\ (SshEnds \/ SshHangup))
  <2> PICK i \in Stage : Finish(i) \/ BrokenPipe(i) \/ Kill(i) \/ Fail(i) \/ (i = Ssh /\ (SshEnds \/ SshHangup))
    BY <1>3
  <2>1. /\ Running(i)
        /\ \E st \in {"ok", "failed", "killed"} : exit' = [exit EXCEPT ![i] = st]
        /\ UNCHANGED <<reaped, phase, err>>
    BY DEF Finish, CanFinish, AtEnd, BrokenPipe, CanBreak, Kill, CanKill, Fail, SshEnds, CanSshEnd, SshHangup, CanSshHangup
  <2> QED
    BY <2>1 DEF TypeOK, Exited, Running, Ended
<1>4. CASE \E i \in Stage : Reap(i)
  BY <1>4, Sides DEF Reap, CanReap, TypeOK, Ended, Running
<1>5. CASE Connect \/ \E side \in Side : Return(side) \/ Crash(side)
  BY <1>5 DEF Connect, CanConnect, Return, CanReturn, Crash, TypeOK, Side, Ended, Running
<1>6. CASE UNCHANGED vars
  BY <1>6 DEF vars, Ended, Running
<1> QED
  BY <1>1, <1>2, <1>3, <1>4, <1>5, <1>6, Places DEF Next, Step, Fault, Rest

\* What a step may do to the stream and to the stages that end well.
LEMMA StreamStep ==
  ASSUME PipelineInv, [Next]_vars, NEW i \in Stage
  PROVE  /\ moved'[i] = moved[i] \/ (moved'[i] = moved[i] + 1 /\ Running(i) /\ moved[i] < Input(i))
         /\ exit'[i] = "ok" /\ exit[i] # "ok" /\ i \notin {Ssh, Receive} => AtEnd(i) /\ moved'[i] = moved[i]
         /\ ~Started(i) /\ phase[SideOf(i)] # "starting" => ~Started(i)'
<1> USE DEF PipelineInv
<1>1. CASE \E k \in Stage : Start(k) \/ StartFails(k)
  BY <1>1 DEF Start, StartFails, NextToStart, Started, TypeOK
<1>2. CASE \E k \in Stage : Pass(k)
  BY <1>2 DEF Pass, CanPass, TypeOK, Started
<1>3. CASE \E k \in Stage : Finish(k)
  <2> PICK k \in Stage : Finish(k)
    BY <1>3
  <2>1. Running(k) /\ moved' = moved /\ (k # Receive => AtEnd(k))
        /\ \E st \in {"ok", "failed"} : exit' = [exit EXCEPT ![k] = st]
    BY DEF Finish, CanFinish, AtEnd
  <2> QED
    BY <2>1 DEF TypeOK, Started, Running
<1>4. CASE \E k \in Stage : BrokenPipe(k) \/ Kill(k) \/ Fail(k) \/ (k = Ssh /\ (SshEnds \/ SshHangup))
  <2> PICK k \in Stage : BrokenPipe(k) \/ Kill(k) \/ Fail(k) \/ (k = Ssh /\ (SshEnds \/ SshHangup))
    BY <1>4
  <2>1. Running(k) /\ moved' = moved
        /\ \E st \in {"ok", "failed", "killed"} : exit' = [exit EXCEPT ![k] = st] /\ (st = "ok" => k = Ssh)
    BY DEF BrokenPipe, CanBreak, Kill, CanKill, Fail, SshEnds, CanSshEnd, SshHangup, CanSshHangup
  <2> QED
    BY <2>1 DEF TypeOK, Started, Running
<1>5. CASE \E k \in Stage : Reap(k)
  BY <1>5 DEF Reap, Started
<1>6. CASE Connect \/ \E side \in Side : Return(side) \/ Crash(side)
  BY <1>6 DEF Connect, Return, Crash, Started
<1>7. CASE UNCHANGED vars
  BY <1>7 DEF vars, Started
<1> QED
  BY <1>1, <1>2, <1>3, <1>4, <1>5, <1>6, <1>7, Places DEF Next, Step, Fault, Rest

-----------------------------------------------------------------------------
(* The order of starts, and the flow of the stream                         *)

\* A step that starts nothing and leaves the functions where they are keeps
\* the order.
LEMMA OrderKept ==
  ASSUME OrderInv, UNCHANGED phase, \A i \in Stage : Started(i)' <=> Started(i)
  PROVE  OrderInv'
<1>1. \A i \in 1 .. Ssh : i \in Stage
  BY Places DEF Stage
<1>2. \A i \in Ssh + 1 .. Receive : i \in Stage
  BY Places DEF Stage
<1> QED
  BY <1>1, <1>2, Places DEF OrderInv

\* Processes and functions start in the order of the code.
LEMMA OrderNext ==
  ASSUME PipelineInv, OrderInv, [Next]_vars
  PROVE  OrderInv'
<1> USE DEF PipelineInv
<1>0. /\ \A i \in 1 .. Ssh : i \in Stage /\ SideOf(i) = "local"
      /\ \A i \in Ssh + 1 .. Receive : i \in Stage /\ SideOf(i) = "remote"
  BY Places DEF Stage, SideOf
<1>1. CASE \E i \in Stage : Start(i)
  <2> PICK i \in Stage : Start(i)
    BY <1>1
  <2>1. /\ phase[SideOf(i)] = "starting" /\ SideOf(i) \in Side /\ ~Started(i)
        /\ \A j \in Before(i) : Started(j)
    BY Sides DEF Start, NextToStart
  <2>2. \A j \in Stage : Started(j)' <=> Started(j) \/ j = i
    BY DEF Start, Started, TypeOK
  <2>3. /\ phase'[SideOf(i)] = (IF IsLast(i) THEN "waiting" ELSE "starting")
        /\ \A side \in Side : side # SideOf(i) => phase'[side] = phase[side]
    BY <2>1 DEF Start, TypeOK
  <2>4. CASE i \in 1 .. Ssh
    <3>1. SideOf(i) = "local" /\ (IsLast(i) <=> i = Ssh)
      BY <1>0, <2>4, Places DEF IsLast
    <3>2. i = Ssh => \A j \in 1 .. Ssh : Started(j)'
      BY <1>0, <2>1, <2>2, Places DEF Before, Send
    <3>3. i # Ssh => (Started(Ssh)' <=> Started(Ssh))
      BY <2>2, Places
    <3>4. \A j \in Ssh + 1 .. Receive : Started(j)' <=> Started(j)
      BY <1>0, <2>2, <2>4, Places
    <3>5. ~Started(Ssh) /\ phase["remote"] = "absent" /\ phase'["remote"] = "absent"
      BY <2>1, <2>3, <3>1 DEF OrderInv, Side
    <3> QED
      BY <1>0, <2>1, <2>2, <2>3, <3>1, <3>2, <3>3, <3>4, <3>5, Places DEF OrderInv, Side
  <2>5. CASE i \in Ssh + 1 .. Receive
    <3>1. SideOf(i) = "remote" /\ (IsLast(i) <=> i = Receive)
      BY <1>0, <2>5, Places DEF IsLast
    <3>2. \A j \in 1 .. Ssh : Started(j)' <=> Started(j)
      BY <1>0, <2>2, <2>5, Places
    <3>3. i # Receive => (Started(Receive)' <=> Started(Receive))
      BY <2>2, Places
    <3> QED
      BY <2>1, <2>3, <3>1, <3>2, <3>3, Places DEF OrderInv, Side
  <2> QED
    BY <2>4, <2>5, Places DEF Stage
<1>2. CASE \E i \in Stage : StartFails(i)
  <2> PICK i \in Stage : StartFails(i)
    BY <1>2
  <2>1. phase[SideOf(i)] = "starting" /\ SideOf(i) \in Side /\ exit' = exit
        /\ phase' = [phase EXCEPT ![SideOf(i)] = "aborting"]
    BY Sides DEF StartFails, NextToStart
  <2>2. \A j : Started(j)' <=> Started(j)
    BY <2>1 DEF Started
  <2> QED
    BY <2>1, <2>2 DEF OrderInv, Side, TypeOK
<1>3. CASE \E i \in Stage : Pass(i) \/ Reap(i)
  BY <1>3, OrderKept DEF Pass, Reap, Started
<1>4. CASE \E i \in Stage : Finish(i) \/ BrokenPipe(i) \/ Kill(i) \/ Fail(i) \/ (i = Ssh /\ (SshEnds \/ SshHangup))
  <2> PICK i \in Stage : Finish(i) \/ BrokenPipe(i) \/ Kill(i) \/ Fail(i) \/ (i = Ssh /\ (SshEnds \/ SshHangup))
    BY <1>4
  <2>1. /\ Running(i)
        /\ \E st \in {"ok", "failed", "killed"} : exit' = [exit EXCEPT ![i] = st]
        /\ UNCHANGED phase
    BY DEF Finish, CanFinish, AtEnd, BrokenPipe, CanBreak, Kill, CanKill, Fail, SshEnds, CanSshEnd, SshHangup, CanSshHangup
  <2>2. \A j \in Stage : Started(j)' <=> Started(j)
    BY <2>1 DEF TypeOK, Running, Started
  <2> QED
    BY <2>1, <2>2, OrderKept
<1>5. CASE Connect \/ \E side \in Side : Return(side) \/ Crash(side)
  <2>1. exit' = exit /\ \A j : Started(j)' <=> Started(j)
    BY <1>5 DEF Connect, Return, Crash, Started
  <2>2. CASE Connect
    <3>1. Started(Ssh) /\ phase["remote"] = "absent" /\ phase' = [phase EXCEPT !["remote"] = "starting"]
      BY <2>2 DEF Connect, CanConnect, Started, Running
    <3> QED
      BY <2>1, <3>1, Places DEF OrderInv, TypeOK, Side
  <2>3. CASE \E side \in Side : Return(side) \/ Crash(side)
    BY <2>1, <2>3 DEF OrderInv, TypeOK, Side, Return, CanReturn, Crash
  <2> QED
    BY <1>5, <2>2, <2>3
<1>6. CASE UNCHANGED vars
  BY <1>6, OrderKept DEF vars, Started
<1> QED
  BY <1>1, <1>2, <1>3, <1>4, <1>5, <1>6, Places DEF Next, Step, Fault, Rest

\* Input that is over stays over, and does not change any more.
LEMMA OverStays ==
  ASSUME PipelineInv, FlowInv, [Next]_vars, NEW i \in Stage, InputOver(i)
  PROVE  InputOver(i)' /\ Input(i)' = Input(i)
<1>1. CASE i = Send
  BY <1>1 DEF InputOver, Input, Send
<1>2. CASE i # Send
  <2>1. i > Send /\ i - 1 \in Stage /\ SideOf(i - 1) \in Side
    BY <1>2, Sides, Places DEF Send, Stage
  <2>2. CASE Exited(i - 1)
    <3>1. exit'[i - 1] = exit[i - 1]
      BY <2>1, <2>2, Onward
    <3>2. moved'[i - 1] = moved[i - 1]
      BY <2>1, <2>2, StreamStep DEF Exited, Running
    <3> QED
      BY <2>2, <3>1, <3>2 DEF InputOver, Input, Exited
  <2>3. CASE phase[SideOf(i - 1)] \in {"aborting", "crashed", "returned"} /\ ~Started(i - 1)
    <3>1. ~Started(i - 1)' /\ moved'[i - 1] = moved[i - 1]
      BY <2>1, <2>3, StreamStep DEF Started, Running
    <3>2. phase'[SideOf(i - 1)] = phase[SideOf(i - 1)] \/ Ended(SideOf(i - 1))'
      BY <2>1, <2>3, Onward DEF Ended
    <3> QED
      BY <2>3, <3>1, <3>2 DEF InputOver, Input, Ended
  <2>4. CASE i = Ssh + 1 /\ moved[Ssh] = moved[Ssh - 1] /\ Exited(Ssh - 1)
    <3>1. Ssh - 1 \in Stage /\ Ssh \in Stage /\ Input(Ssh) = moved[Ssh - 1] /\ moved[Ssh] \in Nat
      BY Places DEF Stage, Send, Input, PipelineInv, TypeOK
    <3>2. exit'[Ssh - 1] = exit[Ssh - 1]
      BY <2>4, <3>1, Onward
    <3>3. moved'[Ssh - 1] = moved[Ssh - 1]
      BY <2>4, <3>1, StreamStep DEF Exited, Running
    <3>4. moved'[Ssh] = moved[Ssh]
      BY <2>4, <3>1, StreamStep
    <3> QED
      BY <2>4, <3>1, <3>2, <3>3, <3>4, Places DEF InputOver, Input, Exited
  <2> QED
    BY <2>1, <2>2, <2>3, <2>4 DEF InputOver
<1> QED
  BY <1>1, <1>2

\* The stream only flows forward, and whoever ends well has passed on all.
LEMMA FlowNext ==
  ASSUME PipelineInv, FlowInv, [Next]_vars
  PROVE  FlowInv'
<1> USE DEF PipelineInv
<1>1. ASSUME NEW i \in Stage
      PROVE  moved'[i] <= Input(i)'
  <2>1. moved[i] \in Nat /\ Input(i) \in Nat /\ moved[i] <= Input(i)
    BY InputBound, StreamAssumption DEF TypeOK, FlowInv
  <2>2. moved'[i] <= Input(i)
    BY <2>1, StreamStep
  <2>3. Input(i)' \in Nat /\ Input(i) <= Input(i)'
    <3>1. CASE i = Send
      BY <3>1, StreamAssumption DEF Input
    <3>2. CASE i # Send
      <4>1. i - 1 \in Stage
        BY <3>2, Places DEF Stage, Send
      <4>2. moved[i - 1] \in Nat /\ (moved'[i - 1] = moved[i - 1] \/ moved'[i - 1] = moved[i - 1] + 1)
        BY <4>1, StreamStep DEF TypeOK
      <4> QED
        BY <3>2, <4>2 DEF Input
    <3> QED
      BY <3>1, <3>2
  <2>4. moved'[i] \in Nat
    BY <2>1, StreamStep
  <2> QED
    BY <2>1, <2>2, <2>3, <2>4
<1>2. ASSUME NEW i \in Stage, exit'[i] = "ok", i \notin {Ssh, Receive}
      PROVE  moved'[i] = Input(i)' /\ InputOver(i)'
  <2>1. moved'[i] = moved[i] /\ moved[i] = Input(i) /\ InputOver(i)
    <3>1. CASE exit[i] = "ok"
      BY <1>2, <3>1, StreamStep DEF FlowInv, Running
    <3>2. CASE exit[i] # "ok"
      <4>1. AtEnd(i) /\ moved'[i] = moved[i]
        BY <1>2, <3>2, StreamStep
      <4> QED
        BY <4>1 DEF AtEnd, InputClosed, InputOver
    <3> QED
      BY <3>1, <3>2
  <2> QED
    BY <2>1, OverStays
<1> QED
  BY <1>1, <1>2 DEF FlowInv

\* The strengthened invariant.
LEMMA StuckInductive == Spec => []StuckInv
<1>1. Init => StuckInv
  <2> SUFFICES ASSUME Init PROVE StuckInv
    OBVIOUS
  <2>1. OrderInv
    BY Places DEF Init, OrderInv, Started, Stage, Side
  <2>2. FlowInv
    BY Places, StreamAssumption DEF Init, FlowInv, Input, Stage, Send
  <2> QED
    BY <2>1, <2>2, InvInit DEF StuckInv
<1>2. StuckInv /\ [Next]_vars => StuckInv'
  BY InvNext, OrderNext, FlowNext DEF StuckInv
<1> QED
  BY <1>1, <1>2, PTL DEF Spec

-----------------------------------------------------------------------------
(* Nobody is stuck                                                         *)

\* A function that is starting processes has a next one to start.
LEMMA SomethingToStart ==
  ASSUME StuckInv, NEW side \in Side, phase[side] = "starting"
  PROVE  \E i \in Stage : NextToStart(i)
<1> USE DEF StuckInv
<1>1. CASE side = "local"
  <2>1. ~Started(Ssh)
    BY <1>1 DEF OrderInv
  <2>2. CASE \A j \in 1 .. Ssh - 1 : Started(j)
    <3>1. \A j \in Before(Ssh) : Started(j)
      BY <2>2, Places DEF Before, Send
    <3> QED
      BY <1>1, <2>1, <3>1, Places DEF NextToStart
  <2>3. CASE (\A j \in 2 .. Ssh - 1 : Started(j)) /\ ~Started(1)
    <3>1. \A j \in Before(Send) : Started(j)
      BY <2>3, Places DEF Before, Send
    <3> QED
      BY <1>1, <2>3, <3>1, Places DEF NextToStart, Send
  <2>4. CASE \E j \in 2 .. Ssh - 1 : ~Started(j)
    <3> DEFINE S == {j \in 2 .. Ssh - 1 : ~Started(j)}
    <3>1. PICK i \in S : \A j \in S : i <= j
      <4>1. S \subseteq Nat /\ S # {}
        BY <2>4, Places
      <4> QED
        BY <4>1, Least
    <3>2. i \in Stage /\ SideOf(i) = "local" /\ \A j \in Before(i) : Started(j)
      BY <3>1, Places DEF Before, Send, Stage, SideOf
    <3> QED
      BY <1>1, <3>1, <3>2 DEF NextToStart
  <2> QED
    BY <2>2, <2>3, <2>4, Places
<1>2. CASE side = "remote"
  <2> DEFINE S == {j \in Ssh + 1 .. Receive : ~Started(j)}
  <2>1. PICK i \in S : \A j \in S : i <= j
    <3>1. S \subseteq Nat /\ Receive \in S
      BY <1>2, Places DEF OrderInv
    <3> QED
      BY <3>1, Least
  <2>2. i \in Stage /\ SideOf(i) = "remote" /\ \A j \in Before(i) : Started(j)
    BY <2>1, Places DEF Before, Send, Stage, SideOf
  <2> QED
    BY <1>2, <2>1, <2>2 DEF NextToStart
<1> QED
  BY <1>1, <1>2 DEF Side

\* A function that waits in vain waits for a process that runs, and nothing has
\* gone wrong on its side.
LEMMA WaitsInVain ==
  ASSUME StuckInv, ~Possible, NEW side \in Side, phase[side] \in {"waiting", "aborting"}
  PROVE  /\ phase[side] = "waiting"
         /\ \A i \in StagesOf(side) : Running(i) \/ exit[i] = "ok"
         /\ \E i \in StagesOf(side) : Running(i)
<1> USE DEF StuckInv, PipelineInv
<1>1. \A i \in StagesOf(side) : i \in Stage /\ SideOf(i) = side
  BY Sides
<1>2. \A i \in StagesOf(side) : Exited(i) => i \in reaped
  BY <1>1 DEF Possible, CanReap
<1>3. PICK i \in StagesOf(side) : Started(i) /\ i \notin reaped
  BY DEF Possible, CanReturn
<1>4. Running(i)
  BY <1>1, <1>2, <1>3 DEF Started, Running, Exited, TypeOK
<1>5. ~err[side]
  BY <1>1, <1>4 DEF Possible, CanKill
<1>6. phase[side] = "waiting"
  BY <1>5 DEF GroupInv
<1>7. ASSUME NEW j \in StagesOf(side)
      PROVE  Running(j) \/ exit[j] = "ok"
  <2>1. Started(j)
    BY <1>1, <1>6 DEF GroupInv
  <2>2. Exited(j) => exit[j] = "ok"
    BY <1>1, <1>2, <1>5 DEF GroupInv
  <2> QED
    BY <1>1, <2>1, <2>2 DEF Started, Running, Exited, TypeOK
<1> QED
  BY <1>4, <1>6, <1>7

\* When ssh has ended well, every stage has passed on the whole stream.
LEMMA AllArrived ==
  ASSUME StuckInv, exit[Ssh] = "ok", NEW k \in Stage
  PROVE  moved[k] = Blocks
<1> USE DEF StuckInv
<1>1. moved[Receive] = Blocks
  <2>1. exit[Receive] = "ok"
    BY SuccessFacts, Places, Sides DEF PipelineInv, StatusInv, ErrorsSurface, Side
  <2> QED
    BY <2>1 DEF PipelineInv, StatusInv
<1> DEFINE S == {i \in Stage : moved[i] # Blocks}
<1>2. SUFFICES ASSUME S # {} PROVE FALSE
  OBVIOUS
<1>3. PICK m \in S : \A i \in S : i <= m
  <2>1. S \subseteq 1 .. Receive
    BY DEF Stage
  <2> QED
    BY <1>2, <2>1, Greatest, Places
<1>4. m \in Stage /\ m # Receive /\ m + 1 \in Stage /\ m + 1 # Send /\ m + 1 \notin S
  BY <1>1, <1>3, Places DEF Stage, Send
<1>5. Blocks <= moved[m] /\ moved[m] \in 0 .. Blocks
  <2>1. moved[m + 1] = Blocks
    BY <1>4
  <2>2. moved[m + 1] <= Input(m + 1)
    BY <1>4 DEF FlowInv
  <2>3. Input(m + 1) = moved[m]
    BY <1>4 DEF Input, Stage
  <2>4. moved[m] \in 0 .. Blocks
    BY <1>4 DEF PipelineInv, TypeOK
  <2> QED
    BY <2>1, <2>2, <2>3, <2>4
<1> QED
  BY <1>3, <1>5, StreamAssumption

\* A running process of a function that has returned, or was never called, is
\* a contradiction.
LEMMA RunnersSide ==
  ASSUME StuckInv, ~Possible, NEW k \in Stage, Running(k)
  PROVE  phase[SideOf(k)] \in {"waiting", "crashed"}
<1> USE DEF StuckInv, PipelineInv
<1>1. SideOf(k) \in Side /\ k \in StagesOf(SideOf(k))
  BY Sides
<1>2. phase[SideOf(k)] # "starting"
  BY <1>1, SomethingToStart DEF Possible
<1>3. phase[SideOf(k)] # "aborting"
  BY <1>1, WaitsInVain
<1>4. phase[SideOf(k)] # "returned"
  BY DEF GroupInv, Returned, Running, Started, Exited
<1>5. phase[SideOf(k)] # "absent"
  <2>1. CASE SideOf(k) = "local"
    BY <2>1 DEF OrderInv
  <2>2. CASE SideOf(k) = "remote"
    <3>1. k \in Ssh + 1 .. Receive
      BY <2>2, Places DEF SideOf, Stage
    <3> QED
      BY <2>2, <3>1 DEF OrderInv, Running, Started
  <2> QED
    BY <1>1, <2>1, <2>2 DEF Side
<1> QED
  BY <1>1, <1>2, <1>3, <1>4, <1>5 DEF TypeOK, Phase

\* ssh runs in vain only while the receiver waits.
LEMMA SshInVain ==
  ASSUME StuckInv, ~Possible, Running(Ssh)
  PROVE  phase["remote"] = "waiting"
<1> USE DEF StuckInv, PipelineInv
<1>1. phase["remote"] \notin {"absent", "returned", "crashed"}
  BY DEF Possible, CanConnect, CanSshEnd, CanSshHangup
<1>2. phase["remote"] # "starting" /\ phase["remote"] # "aborting"
  BY SomethingToStart, WaitsInVain DEF Possible, Side
<1> QED
  BY <1>1, <1>2 DEF TypeOK, Side, Phase

\* Nobody holds a block back: the last of those who have something to write
\* could write it, or would meet a broken pipe.
LEMMA NothingHeldBack ==
  ASSUME StuckInv, ~Possible, NEW k \in Stage, Running(k)
  PROVE  moved[k] = Input(k)
<1> USE DEF StuckInv, PipelineInv
<1> DEFINE S == {i \in Stage : Running(i) /\ moved[i] # Input(i)}
<1>1. SUFFICES ASSUME S # {} PROVE FALSE
  OBVIOUS
<1>2. PICK m \in S : \A i \in S : i <= m
  <2>1. S \subseteq 1 .. Receive
    BY DEF Stage
  <2> QED
    BY <1>1, <2>1, Greatest, Places
<1>3. m \in Stage /\ Running(m) /\ moved[m] < Input(m) /\ moved[m] \in Nat /\ Input(m) \in 0 .. Blocks
  <2>1. moved[m] <= Input(m) /\ moved[m] # Input(m) /\ moved[m] \in 0 .. Blocks
    BY <1>2 DEF FlowInv, TypeOK
  <2> QED
    BY <1>2, <2>1, InputBound
<1>4. ~(moved[m] < Room(m))
  BY <1>3 DEF Possible, CanPass
<1>5. m # Receive
  BY <1>3, <1>4, StreamAssumption DEF Room
<1>6. m + 1 \in Stage /\ m + 1 # Send /\ Input(m + 1) = moved[m] /\ moved[m + 1] \in Nat
  BY <1>3, <1>5, Places DEF Stage, Input, Send, TypeOK
<1>7. moved[m + 1] # Input(m + 1)
  BY <1>3, <1>4, <1>5, <1>6, StreamAssumption DEF Room
<1>8. ~Running(m + 1)
  <2>1. m + 1 \notin S
    BY <1>2, <1>3 DEF Stage
  <2> QED
    BY <1>6, <1>7, <2>1
<1>9. exit[m + 1] # "ok"
  <2>1. CASE m + 1 = Ssh
    BY <1>3, <2>1, AllArrived
  <2>2. CASE m + 1 = Receive
    <3>1. moved[m + 1] <= Input(m + 1)
      BY <1>6 DEF FlowInv
    <3> QED
      BY <1>3, <1>6, <1>7, <2>2, <3>1 DEF StatusInv
  <2>3. CASE m + 1 \notin {Ssh, Receive}
    BY <1>6, <1>7, <2>3 DEF FlowInv
  <2> QED
    BY <2>1, <2>2, <2>3
<1>10. CASE m = Ssh
  <2>1. phase["remote"] = "waiting"
    BY <1>3, <1>10, SshInVain
  <2>2. m + 1 \in StagesOf("remote")
    BY <1>10, Places DEF StagesOf
  <2> QED
    BY <1>8, <1>9, <2>1, <2>2, WaitsInVain DEF Side
<1>11. CASE m # Ssh
  <2>1. SideOf(m + 1) = SideOf(m) /\ SideOf(m) \in Side /\ m + 1 \in StagesOf(SideOf(m))
    BY <1>3, <1>5, <1>6, <1>11, Places DEF SideOf, Side, Stage, StagesOf
  <2>2. phase[SideOf(m)] = "crashed"
    BY <1>3, <1>8, <1>9, <2>1, RunnersSide, WaitsInVain
  <2>3. Exited(m + 1) \/ ~Started(m + 1)
    BY <1>6, <1>8 DEF TypeOK, Exited, Started, Running
  <2> QED
    BY <1>3, <1>5, <1>11, <2>2, <2>3 DEF Possible, CanBreak
<1> QED
  BY <1>10, <1>11

\* Nobody but ssh runs in vain: the first of those who do has seen the end of
\* its input.
LEMMA OnlySshRuns ==
  ASSUME StuckInv, ~Possible, NEW k \in Stage, Running(k)
  PROVE  k = Ssh
<1> USE DEF StuckInv, PipelineInv
<1> DEFINE S == {i \in Stage \ {Ssh} : Running(i)}
<1>1. SUFFICES ASSUME S # {} PROVE FALSE
  OBVIOUS
<1>2. PICK m \in S : \A i \in S : m <= i
  <2>1. S \subseteq Nat
    BY DEF Stage
  <2> QED
    BY <1>1, <2>1, Least
<1>3. m \in Stage /\ m # Ssh /\ Running(m) /\ moved[m] = Input(m)
  BY <1>2, NothingHeldBack
<1>4. ~InputClosed(m)
  BY <1>3 DEF Possible, CanFinish, AtEnd
<1>5. m # Send /\ m - 1 \in Stage
  BY <1>3, <1>4, Places DEF InputClosed, Send, Stage
<1>6. ~Exited(m - 1)
  BY <1>4 DEF InputClosed
<1>7. m - 1 # Ssh => ~Running(m - 1)
  BY <1>2, <1>3, <1>5 DEF Stage
<1>8. CASE m - 1 = Ssh
  <2>1. Started(Ssh)
    <3>1. m \in Ssh + 1 .. Receive /\ Started(m)
      BY <1>3, <1>8, Places DEF Running, Started
    <3> QED
      BY <3>1 DEF OrderInv
  <2>2. Running(Ssh)
    BY <1>6, <1>8, <2>1, Places DEF Running, Started, Exited, TypeOK
  <2>3. moved[Ssh] = moved[Ssh - 1]
    BY <2>2, NothingHeldBack, Places DEF Input, Send
  <2>4. Ssh - 1 \in Stage /\ Ssh - 1 \in 1 .. Ssh /\ Ssh - 1 # Ssh /\ Ssh - 1 < m
    BY <1>8, Places DEF Stage
  <2>5. ~Running(Ssh - 1)
    BY <1>2, <1>3, <2>4 DEF Stage
  <2>6. Exited(Ssh - 1)
    BY <2>1, <2>4, <2>5 DEF OrderInv, Exited, Running, Started, TypeOK
  <2> QED
    BY <1>4, <1>8, <2>3, <2>6 DEF InputClosed, Stage
<1>9. CASE m - 1 # Ssh
  <2>1. ~Started(m - 1)
    BY <1>5, <1>6, <1>7, <1>9 DEF Started, Running, Exited, TypeOK
  <2>2. SideOf(m) = SideOf(m - 1) /\ SideOf(m) \in Side /\ m - 1 \in StagesOf(SideOf(m))
    BY <1>3, <1>5, <1>9, Places DEF SideOf, Side, Stage, StagesOf
  <2>3. phase[SideOf(m)] = "waiting"
    BY <1>3, <1>4, <1>5, <2>1, <2>2, RunnersSide DEF InputClosed
  <2> QED
    BY <2>1, <2>2, <2>3, WaitsInVain DEF Running, Started
<1> QED
  BY <1>8, <1>9

\* Where nothing can go on, everything has ended.
LEMMA StuckAtRest == StuckInv => NobodyIsStuck
<1> SUFFICES ASSUME StuckInv, ~Possible PROVE AtRest
  BY DEF NobodyIsStuck
<1> USE DEF StuckInv, PipelineInv
<1>1. phase["remote"] \notin {"waiting", "aborting"}
  <2> SUFFICES ASSUME phase["remote"] \in {"waiting", "aborting"} PROVE FALSE
    OBVIOUS
  <2>1. PICK i \in StagesOf("remote") : Running(i)
    BY WaitsInVain DEF Side
  <2>2. i \in Stage /\ i # Ssh
    BY <2>1, Sides, Places DEF StagesOf, Side
  <2> QED
    BY <2>1, <2>2, OnlySshRuns
<1>2. \A i \in Stage : ~Running(i)
  BY <1>1, OnlySshRuns, SshInVain
<1>3. phase["local"] \notin {"waiting", "aborting"}
  BY <1>2, WaitsInVain, Sides DEF Side
<1>4. \A side \in Side : phase[side] # "starting"
  BY SomethingToStart DEF Possible
<1> QED
  BY <1>1, <1>2, <1>3, <1>4 DEF AtRest, Ended, OrderInv, TypeOK, Phase, Side

\* Whichever processes die and whichever pipes are full, nobody waits for what
\* cannot come: send() and receive() are free of deadlock.
THEOREM NobodyGetsStuck == Spec => []NobodyIsStuck
  BY StuckInductive, StuckAtRest, PTL

\* Everything has its type.
THEOREM TypeCorrect == Spec => []TypeOK
<1>1. PipelineInv => TypeOK
  BY DEF PipelineInv
<1> QED
  BY <1>1, Inductive, PTL

\* Nothing is undone in a transfer, so its steps come to an end.
THEOREM NothingIsUndone == Spec => OnlyForward
<1> DEFINE Forward ==
      /\ \A i \in Stage :
            /\ Exited(i) => exit'[i] = exit[i]
            /\ Running(i) => exit'[i] # "unstarted"
            /\ moved[i] <= moved'[i]
      /\ reaped \subseteq reaped'
      /\ \A side \in Side :
            /\ err[side] => err'[side]
            /\ Ended(side) => phase'[side] = phase[side]
            /\ phase[side] \in {"waiting", "aborting"} => phase'[side] = phase[side] \/ Ended(side)'
            /\ phase[side] = "starting" => phase'[side] # "absent"
<1>1. PipelineInv /\ [Next]_vars => [Forward]_vars
  <2> SUFFICES ASSUME PipelineInv, [Next]_vars PROVE Forward
    OBVIOUS
  <2>1. ASSUME NEW i \in Stage PROVE moved[i] <= moved'[i]
    <3>1. moved[i] \in Nat
      BY StreamAssumption DEF PipelineInv, TypeOK
    <3> QED
      BY <3>1, StreamStep
  <2> QED
    BY <2>1, Onward
<1> QED
  BY <1>1, Inductive, PTL DEF Spec, OnlyForward
=============================================================================
