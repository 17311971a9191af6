--------------------------- MODULE DeliveryProofs ---------------------------
(***************************************************************************)
(* More theorems about Replication: what a visit leaves behind, how often  *)
(* it is repeated, and that sender, bookmarks and receivers implement      *)
(* BackupChain.  They rest on the invariants of ReplicationProofs.         *)
(***************************************************************************)
EXTENDS ReplicationProofs, Numbers

-----------------------------------------------------------------------------
(* One checkpoint per suffix                                               *)

\* While the bookmarks of a stream are replaced: a suffix that is done has one
\* checkpoint and nothing else, one that is at work has the new checkpoint.
CleanInv ==
    pc = "after" =>
        /\ \A p \in collecting : cur.target \in done[p]
        /\ \A p \in Placeholders(dst) \ (todo \union collecting) :
              before[p] = {} /\ done[p] = {cur.target}

\* The steps that the phase after a stream consists of.
LEMMA CleanInvAfter ==
  ASSUME TypeOK, CleanInv, NEW p \in Suffix, SetAfter(p) \/ Collect(p) \/ Collected(p)
  PROVE  CleanInv'
<1>1. pc' = "after" /\ UNCHANGED <<dst, cur>> /\ pc = "after"
  BY DEF SetAfter, Collect, Collected, visitVars
<1>2. Placeholders(dst)' = Placeholders(dst) /\ Placeholders(dst) \subseteq Suffix
  BY <1>1 DEF Placeholders
<1>3. CASE SetAfter(p)
  <2>1. /\ todo' = todo \ {p} /\ collecting' = {p} /\ collecting = {}
        /\ before' = before
        /\ done' = [done EXCEPT ![p] = @ \union {cur.target}]
        /\ done \in [Suffix -> SUBSET (born + 1 .. taken)]
    BY <1>3 DEF SetAfter, ZfsSetPlaceholder, TypeOK, SourceTypeOK
  <2>2. \A q \in Suffix \ {p} : done'[q] = done[q]
    BY <2>1
  <2> QED
    BY <1>1, <1>2, <2>1, <2>2 DEF CleanInv
<1>4. CASE Collect(p)
  <2>1. UNCHANGED <<todo, collecting>> /\ p \in collecting /\ ZfsDestroyBookmark(cur.target, p)
    BY <1>4 DEF Collect, visitVars
  <2>2. /\ before \in [Suffix -> SUBSET (born + 1 .. taken)]
        /\ done \in [Suffix -> SUBSET (born + 1 .. taken)]
    BY DEF TypeOK, SourceTypeOK
  <2>3. /\ \A q \in Suffix \ {p} : before'[q] = before[q] /\ done'[q] = done[q]
        /\ cur.target \in done[p] => cur.target \in done'[p]
    BY <2>1, <2>2 DEF ZfsDestroyBookmark, GarbageDone
  <2> QED
    BY <1>1, <1>2, <2>1, <2>3 DEF CleanInv, TypeOK
<1>5. CASE Collected(p)
  <2>1. /\ UNCHANGED <<todo, before, done>> /\ collecting' = collecting \ {p}
        /\ p \in collecting /\ NoGarbage(cur.target, p)
    BY <1>5 DEF Collected, sourceVars
  <2>2. before[p] = {} /\ done[p] = {cur.target}
    BY <1>1, <2>1 DEF NoGarbage, GarbageBefore, GarbageDone, CleanInv
  <2> QED
    BY <1>1, <1>2, <2>1, <2>2 DEF CleanInv
<1> QED
  BY <1>3, <1>4, <1>5

\* Every step keeps the invariant.
LEMMA CleanInvNext == TypeOK /\ CheckpointInv /\ CleanInv /\ [Next]_vars => CleanInv'
<1> SUFFICES ASSUME TypeOK, CheckpointInv, CleanInv, [Next]_vars PROVE CleanInv'
  OBVIOUS
<1>1. ASSUME NEW p \in Suffix, SetAfter(p) \/ Collect(p) \/ Collected(p) PROVE CleanInv'
  BY <1>1, CleanInvAfter
<1>2. CASE SendOk
  BY <1>2 DEF SendOk, CleanInv, TypeOK, Placeholders
<1>3. CASE \/ StartRun
           \/ \E d \in Dst : FillSources(d)
           \/ QueryDataset
           \/ \E g \in Guid : PlanResume(g) \/ PlanStreams(g) \/ PlanRefused(g)
           \/ \E s \in Guid : NextSnap(s)
           \/ \E p \in Suffix : SetBefore(p)
           \/ QueueDone \/ StartSend \/ SendImpossible \/ SendRejected \/ SetAfterRefused
           \/ StreamDone \/ ResumeDone \/ TooManyRetries
           \/ NothingToSync \/ SendPlaceholders \/ SyncBroken \/ SyncRefused
           \/ Fail \/ Crash \/ RebuildSource
  <2>1. pc' # "after"
    BY <1>3
    DEF StartRun, FillSources, QueryDataset, PlanResume, PlanStreams, PlanRefused, NextSnap,
        SetBefore, QueueDone, StartSend, SendImpossible, SendRejected, SetAfterRefused,
        StreamDone, ResumeDone, TooManyRetries, NothingToSync, SendPlaceholders, SyncBroken,
        SyncRefused, Fail, Crash, RebuildSource, Refuse, Return, ForgetVisit
  <2> QED
    BY <2>1 DEF CleanInv
<1>4. CASE \/ \E d \in Dst : \E r \in wire[d] :
                LateReceive(d, r) \/ LateReceivePartly(d, r) \/ LateReceiveLost(d, r)
           \/ Take
           \/ \E s \in Guid : PruneSnapshot(s)
           \/ UNCHANGED vars
  <2>1. UNCHANGED <<before, done, pc, dst, cur, todo, collecting>>
    BY <1>4 DEF LateReceive, LateReceivePartly, LateReceiveLost, Take, TakeSnapshot, bookmarks,
                PruneSnapshot, Prune, vars, sourceVars, senderVars, visitVars
  <2> QED
    BY <2>1 DEF CleanInv, Placeholders
<1>5. ASSUME NEW p \in Suffix, ForeignSender(p) PROVE CleanInv'
  <2>1. /\ UNCHANGED <<pc, dst, cur, todo, collecting>>
        /\ \A q \in Suffix : Owner[q] \in Dst => before'[q] = before[q] /\ done'[q] = done[q]
    BY <1>5, ForeignStep DEF senderVars, visitVars
  <2>2. pc = "after" =>
           dst \in Dst /\ \A q \in collecting : q \in Suffix /\ Owner[q] \in Dst
    BY DEF CheckpointInv, Placeholders, TypeOK
  <2> QED
    BY <2>1, <2>2 DEF CleanInv, Placeholders
<1> QED
  BY <1>1, <1>2, <1>3, <1>4, <1>5 DEF Next, Sender, Environment

\* A completed stream leaves one bookmark per suffix, for every configuration,
\* whatever earlier visits left behind (zfsGcPlaceholder, setPlaceholdersAfter).
THEOREM OneCheckpointIsLeft == Spec => OneCheckpointLeft
<1>1. Init => CleanInv
  BY DEF Init, CleanInv
<1>2. CleanInv => (StreamDone \/ ResumeDone =>
                      \A p \in Placeholders(dst) : before[p] = {} /\ done[p] = {cur.target})
  BY DEF CleanInv, StreamDone, ResumeDone, AllSet
<1>3. CleanInv => [StreamDone \/ ResumeDone =>
                      \A p \in Placeholders(dst) : before[p] = {} /\ done[p] = {cur.target}]_vars
  BY <1>2
<1> QED
  BY <1>1, <1>3, CleanInvNext, CheckpointInvInit, CheckpointInvNext, TypeCorrect, PTL
  DEF Spec, OneCheckpointLeft

-----------------------------------------------------------------------------
(* Retries                                                                 *)

\* After a resumed stream of this visit has arrived there is no token, and no
\* stream in flight could leave another one: none starts from the newest.
RetryInv ==
    dst \in Safe /\ pc # "idle" /\ retries < MaxRetries =>
        /\ token[dst] = NoToken
        /\ pc = "newest" => asked = NoToken
        /\ pc \in {"before", "wait", "after"} => ~cur.resume
        /\ \A r \in wire[dst] : ~Newest(dst, r.from)

\* What is known before each step.
ChainState == TypeOK /\ CheckpointInv /\ ChainInv

\* A step that leaves the destination alone, adds nothing in flight for it, and
\* prepares no resumed stream without a token.
LEMMA RetryInvFrame ==
  ASSUME RetryInv, pc # "idle", UNCHANGED <<dst, retries>>,
         token'[dst] = token[dst], held'[dst] = held[dst], wire'[dst] \subseteq wire[dst],
         pc' = "newest" => asked' = token[dst] \/ (pc = "newest" /\ asked' = asked),
         pc' \in {"before", "wait", "after"} =>
            \/ pc \in {"before", "wait", "after"} /\ cur' = cur
            \/ ~cur'.resume
            \/ pc = "newest" /\ asked # NoToken
  PROVE  RetryInv'
<1> SUFFICES ASSUME dst \in Safe, retries < MaxRetries
             PROVE  /\ token'[dst] = NoToken
                    /\ pc' = "newest" => asked' = NoToken
                    /\ pc' \in {"before", "wait", "after"} => ~cur'.resume
                    /\ \A r \in wire'[dst] : ~Newest(dst, r.from)'
  BY DEF RetryInv, NoToken
<1>1. \A g : Newest(dst, g)' <=> Newest(dst, g)
  BY DEF Newest
<1> QED
  BY <1>1 DEF RetryInv

\* The end of a visit, or a step outside of one.
LEMMA RetryInvIdle ==
  ASSUME pc' = "idle"
  PROVE  RetryInv'
  BY DEF RetryInv

\* A resumed stream has arrived: whatever is still in flight started from
\* something older.
LEMMA RetryInvResumeDone ==
  ASSUME ChainState, ResumeDone
  PROVE  RetryInv'
<1> SUFFICES ASSUME dst' \in Safe
             PROVE  /\ token'[dst'] = NoToken
                    /\ \A r \in wire'[dst'] : ~Newest(dst, r.from)'
  BY DEF RetryInv, ResumeDone
<1>1. UNCHANGED <<dst, token, wire, held>> /\ pc = "after"
  BY DEF ResumeDone, AllSet, boundVars, destVars
<1>2. TypeOK /\ AfterSettled /\ dst \in Dst
  BY <1>1 DEF ChainState, ChainInv, VisitInv, Safe
<1>3. cur \in Stream /\ wire[dst] \subseteq Stream
  BY <1>1, <1>2 DEF TypeOK
<1>4. ASSUME NEW r \in wire[dst], Newest(dst, r.from) PROVE FALSE
  <2>1. r.from \in Guid /\ cur.target \in Guid
    BY <1>3 DEF Stream, Guid
  <2>2. Newest(dst, cur.target) /\ r.from # cur.target
    BY <1>1, <1>2 DEF AfterSettled
  <2> QED
    BY <1>2, <1>4, <2>1, <2>2, NewestUnique
<1>5. \A g : Newest(dst, g)' <=> Newest(dst, g)
  BY <1>1 DEF Newest
<1> QED
  BY <1>1, <1>2, <1>4, <1>5 DEF AfterSettled

\* A stream arrives: everything in flight started from what was there before it.
LEMMA RetryInvSendOk ==
  ASSUME ChainState, RetryInv, SendOk
  PROVE  RetryInv'
<1> SUFFICES ASSUME dst' \in Safe, retries' < MaxRetries
             PROVE  /\ token'[dst] = NoToken /\ ~cur'.resume
                    /\ \A r \in wire'[dst] : ~Newest(dst, r.from)'
  BY DEF RetryInv, SendOk
<1>1. UNCHANGED <<dst, wire, cur, retries>> /\ pc = "wait" /\ ZfsReceive(dst, cur)
  BY DEF SendOk, boundVars
<1>2. TypeOK /\ DestInv(dst) /\ CurCovered /\ dst \in Dst
  BY <1>1 DEF ChainState, ChainInv, VisitInv, Safe
<1>3. cur \in Stream /\ wire[dst] \subseteq Stream
  BY <1>1, <1>2 DEF TypeOK
<1>4. Forward(dst, cur.target, cur.from)
  BY <1>1, <1>2 DEF CurCovered
<1>5. /\ \A x \in held[dst] \union {0} : x < cur.target
      /\ Newest(dst, cur.target)'
      /\ token'[dst] = NoToken
  BY <1>1, <1>2, <1>3, <1>4, ReceiveMovesTip
<1>6. ASSUME NEW r \in wire[dst], Newest(dst, r.from)' PROVE FALSE
  <2>1. r.from \in held[dst] \union {0}
    BY <1>2 DEF DestInv, WireCovered, Forward
  <2>2. r.from < cur.target /\ r.from \in Guid /\ cur.target \in Guid
    BY <1>3, <1>5, <2>1 DEF Stream, Guid
  <2>3. cur.target \in held'[dst] /\ cur.target # 0
    BY <1>1, <1>3, <1>5 DEF Newest, Stream
  <2> QED
    BY <1>1, <1>6, <2>2, <2>3, MaxSnapAssumption DEF Newest, Guid
<1> QED
  BY <1>1, <1>5, <1>6 DEF RetryInv

\* A receiver left behind ends: not with a stream for this destination that
\* could be taken.
LEMMA RetryInvLate ==
  ASSUME ChainState, RetryInv, pc # "idle", NEW e \in Dst, NEW r \in wire[e],
         LateReceive(e, r) \/ LateReceivePartly(e, r) \/ LateReceiveLost(e, r)
  PROVE  RetryInv'
<1>1. /\ UNCHANGED <<dst, retries, pc, asked, cur>>
      /\ wire' = [wire EXCEPT ![e] = @ \ {r}]
  BY DEF LateReceive, LateReceivePartly, LateReceiveLost, Drop, senderVars, visitVars, boundVars
<1> SUFFICES ASSUME dst \in Safe, retries < MaxRetries PROVE RetryInv'
  BY <1>1 DEF RetryInv
<1>2. TypeOK /\ DestInv(dst) /\ dst \in Dst
  BY DEF ChainState, ChainInv, Safe
<1>3. wire'[dst] \subseteq wire[dst] /\ r \in Stream
  BY <1>1, <1>2 DEF TypeOK
<1>4. held'[dst] = held[dst] /\ token'[dst] = token[dst]
  <2>1. CASE LateReceiveLost(e, r)
    BY <2>1 DEF LateReceiveLost, destVars
  <2>2. CASE e # dst /\ (LateReceive(e, r) \/ LateReceivePartly(e, r))
    BY <1>2, <1>3, <2>2, ZfsReceiveElsewhere DEF LateReceive, LateReceivePartly
  <2>3. CASE e = dst /\ (LateReceive(e, r) \/ LateReceivePartly(e, r))
    <3>1. Acceptable(dst, r)
      BY <2>3 DEF LateReceive, LateReceivePartly, ZfsReceive, ZfsReceivePartly
    <3>2. Newest(dst, r.from)
      BY <1>2, <1>3, <3>1, AcceptableFromNewest
    <3>3. ~Newest(dst, r.from)
      BY <2>3 DEF RetryInv
    <3> QED
      BY <3>2, <3>3
  <2> QED
    BY <2>1, <2>2, <2>3
<1> QED
  BY <1>1, <1>3, <1>4, RetryInvFrame

\* Every step keeps the invariant.
LEMMA RetryInvNext == ChainState /\ RetryInv /\ [Next]_vars => RetryInv'
<1> SUFFICES ASSUME ChainState, RetryInv, [Next]_vars PROVE RetryInv'
  OBVIOUS
<1>1. CASE pc' = "idle"
  BY <1>1, RetryInvIdle
<1>2. CASE SendOk
  BY <1>2, RetryInvSendOk
<1>3. CASE ResumeDone
  BY <1>3, RetryInvResumeDone
<1>4. CASE \E d \in Dst : FillSources(d)
  BY <1>4, BoundsAssumption DEF FillSources, RetryInv
<1>5. CASE /\ pc' # "idle"
           /\ \E d \in Dst : \E r \in wire[d] :
                LateReceive(d, r) \/ LateReceivePartly(d, r) \/ LateReceiveLost(d, r)
  BY <1>5, RetryInvLate DEF LateReceive, LateReceivePartly, LateReceiveLost, senderVars
<1>6. CASE /\ pc' # "idle"
           /\ \/ QueryDataset
              \/ \E g \in Guid : PlanResume(g) \/ PlanStreams(g)
              \/ \E s \in Guid : NextSnap(s)
              \/ QueueDone
              \/ \E p \in Suffix : SetBefore(p)
              \/ StartSend
              \/ \E p \in Suffix : SetAfter(p) \/ Collect(p) \/ Collected(p)
              \/ StreamDone
              \/ Take
              \/ \E s \in Guid : PruneSnapshot(s)
              \/ \E p \in Suffix : ForeignSender(p)
              \/ UNCHANGED vars
  <2>1. /\ pc # "idle" /\ UNCHANGED <<dst, retries, token, held, wire>>
        /\ pc' = "newest" => asked' = token[dst] \/ (pc = "newest" /\ asked' = asked)
        /\ pc' \in {"before", "wait", "after"} =>
            \/ pc \in {"before", "wait", "after"} /\ cur' = cur
            \/ ~cur'.resume
            \/ pc = "newest" /\ asked # NoToken
    BY <1>6
    DEF QueryDataset, PlanResume, PlanStreams, NextSnap, QueueDone, SetBefore, StartSend,
        SetAfter, Collect, Collected, AllSet, StreamDone, Take, PruneSnapshot, ForeignSender,
        vars, destVars, visitVars, senderVars, boundVars
  <2> QED
    BY <2>1, RetryInvFrame
<1>7. CASE \/ StartRun
           \/ \E g \in Guid : PlanRefused(g)
           \/ SendImpossible \/ SendRejected \/ SetAfterRefused \/ TooManyRetries
           \/ NothingToSync \/ SendPlaceholders \/ SyncBroken \/ SyncRefused
           \/ Fail \/ Crash \/ RebuildSource
  <2>1. pc' = "idle"
    BY <1>7
    DEF StartRun, PlanRefused, SendImpossible, SendRejected, SetAfterRefused, TooManyRetries,
        NothingToSync, SendPlaceholders, SyncBroken, SyncRefused, Fail, Crash, RebuildSource,
        Refuse, Return, ForgetVisit
  <2> QED
    BY <2>1, RetryInvIdle
<1> QED
  BY <1>1, <1>2, <1>3, <1>4, <1>5, <1>6, <1>7 DEF Next, Sender, Environment

\* The invariants of ReplicationProofs that the theorems below rest on.
LEMMA ChainStateAlways == Spec => []ChainState
<1>1. Init => ChainState
  BY TypeOKInit, CheckpointInvInit, ChainInvInit DEF ChainState
<1>2. ChainState /\ [Next]_vars => ChainState'
  BY TypeOKNext, CheckpointInvNext, ChainInvNext DEF ChainState
<1> QED
  BY <1>1, <1>2, PTL DEF Spec

\* One resumed stream per visit is enough for every destination that may not be
\* overwritten: ProcessFs never gives up with "too many retries".
THEOREM RetriesAreEnough ==
  ASSUME MaxRetries >= 2
  PROVE  Spec => RetriesSuffice
<1>1. Init => RetryInv
  BY DEF Init, RetryInv
<1>2. ChainState /\ RetryInv /\ TooManyRetries => dst \in ForceOverwrite
  <2> SUFFICES ASSUME ChainState, RetryInv, TooManyRetries, dst \notin ForceOverwrite
               PROVE  FALSE
    OBVIOUS
  <2>1. dst \in Dst /\ pc = "after" /\ cur.resume /\ retries = 1
    BY DEF TooManyRetries, AllSet, ChainState, TypeOK
  <2> QED
    BY <2>1, BoundsAssumption DEF RetryInv, Safe
<1>3. ChainState /\ RetryInv => [TooManyRetries => dst \in ForceOverwrite]_vars
  BY <1>2
<1> QED
  BY <1>1, <1>3, RetryInvNext, ChainStateAlways, PTL DEF Spec, RetriesSuffice

-----------------------------------------------------------------------------
(* Refinement                                                              *)

\* The newest snapshot of a destination is BackupChain's tip.
LEMMA TipIsNewest == \A d \in Safe : \A g : Chain!Tip(d, g) <=> Newest(d, g)
  BY DEF Chain!Tip, Newest, Safe

\* What a destination that is not overwritten holds, for BackupChain.
Has == [d \in Safe |-> held[d]]

\* A step of BackupChain, or one that changes nothing it speaks of.
ChainStep == Chain!Next \/ UNCHANGED <<taken, born, Nameable, Has>>

\* A step that leaves the destinations alone and takes at most the name g away
\* forgets a name that no destination depends on.
LEMMA ForgetStep ==
  ASSUME ChainState, ChainState', NEW g \in born + 1 .. MaxSnap,
         Nameable' \in {Nameable, Nameable \ {g}}, UNCHANGED <<taken, born, held>>
  PROVE  ChainStep
<1>1. Has' = Has
  BY DEF Has
<1> SUFFICES ASSUME Nameable' # Nameable PROVE Chain!Forget(g)
  <2>1. born \in Nat
    BY MaxSnapAssumption DEF ChainState, TypeOK, SourceTypeOK
  <2>2. g \in 1 .. MaxSnap
    BY <2>1, MaxSnapAssumption
  <2> QED
    BY <1>1, <2>2 DEF ChainStep, Chain!Next
<1>2. g \in Nameable /\ Nameable' = Nameable \ {g}
  OBVIOUS
<1>3. ASSUME NEW d \in Safe, Newest(d, g) PROVE FALSE
  <2>1. Newest(d, g)'
    BY <1>3 DEF Newest
  <2>2. ChainIntact'
    BY ChainInvImplies, PTL DEF ChainState
  <2> QED
    BY <1>2, <2>1, <2>2, <1>3 DEF ChainIntact, Safe
<1> QED
  BY <1>1, <1>2, <1>3, TipIsNewest DEF Chain!Forget, Has, Safe

\* A stream that arrives brings a destination from its newest snapshot to a
\* newer one, and the source can name both, unless it has been recreated since.
LEMMA AdvanceStep ==
  ASSUME ChainState, NEW d \in Dst, NEW r \in Stream, ZfsReceive(d, r), UNCHANGED sourceVars,
         d \in Safe => Forward(d, r.target, r.from) /\ Covered(d, r.target)
  PROVE  ChainStep
<1>1. TypeOK /\ r.target \in 1 .. MaxSnap /\ r.from \in Guid
  BY DEF ChainState, Stream
<1>2. UNCHANGED <<taken, born, Nameable>>
  BY DEF sourceVars, Nameable, MarksOf
<1>3. held' = [held EXCEPT ![d] = Kept(d, r) \union {r.target}] /\ DOMAIN held = Dst
  BY <1>1 DEF ZfsReceive, TypeOK, DestTypeOK
<1>4. CASE d \notin Safe
  <2>1. Has' = Has
    BY <1>3, <1>4 DEF Has, Safe
  <2> QED
    BY <1>2, <2>1 DEF ChainStep
<1>5. CASE d \in Safe
  <2>1. Newest(d, r.from) /\ Kept(d, r) = held[d]
    BY <1>1, <1>5, AcceptableFromNewest DEF ZfsReceive, ChainState, ChainInv
  <2>2. /\ r.from \in 0 .. taken /\ r.from < r.target /\ r.target \in 1 .. taken
        /\ born \in Nat /\ taken \in Nat
    BY <1>1, <1>5, MaxSnapAssumption DEF Forward, Guid, TypeOK, SourceTypeOK
  <2>3. ASSUME r.target > born PROVE r.target \in Nameable /\ r.from \in Nameable \union {0}
    <3>1. r.target \in Nameable
      BY <1>5, <2>3, OwnerAssumption DEF Covered, Placeholders, Nameable
    <3>2. ChainIntact
      BY ChainInvImplies DEF ChainState
    <3>3. r.from = 0 \/ r.from > born
      BY <1>5, <2>3 DEF Forward
    <3>4. r.from > born => r.from \in born + 1 .. MaxSnap
      BY <1>1, <2>2, MaxSnapAssumption DEF Guid
    <3> QED
      BY <1>5, <2>1, <3>1, <3>2, <3>3, <3>4 DEF ChainIntact, Safe
  <2>4. Has' = [Has EXCEPT ![d] = @ \union {r.target}]
    BY <1>3, <1>5, <2>1 DEF Has, Safe
  <2>5. Chain!Tip(d, r.from)
    BY <1>5, <2>1, TipIsNewest
  <2>6. Chain!Advance(d, r.target)
    BY <1>2, <2>2, <2>3, <2>4, <2>5 DEF Chain!Advance, Has, Safe
  <2> QED
    BY <1>5, <2>2, <2>6 DEF ChainStep, Chain!Next, Safe
<1> QED
  BY <1>4, <1>5

\* Every step of the sender, of the receivers and of the source host is a step
\* of BackupChain, or changes nothing it speaks of.
LEMMA StepsImplementChain ==
  ASSUME ChainState, ChainState', [Next]_vars
  PROVE  ChainStep
<1>1. TypeOK
  BY DEF ChainState
<1>2. CASE Take
  <2>1. /\ taken < MaxSnap /\ taken' = taken + 1 /\ snaps' = snaps \union {taken + 1}
        /\ UNCHANGED <<born, before, done, held>>
    BY <1>2 DEF Take, TakeSnapshot, bookmarks, destVars
  <2>2. Nameable' = Nameable \union {taken'} /\ Has' = Has
    BY <2>1 DEF Nameable, MarksOf, Has
  <2> QED
    BY <2>1, <2>2 DEF ChainStep, Chain!Next, Chain!Take, Has, Safe
<1>3. CASE \E s \in Guid : PruneSnapshot(s)
  <2>1. PICK s \in snaps : snaps' = snaps \ {s} /\ UNCHANGED <<taken, born, before, done, held>>
    BY <1>3 DEF PruneSnapshot, Prune, destVars
  <2>2. s \in born + 1 .. MaxSnap
    BY <1>1, <2>1, MaxSnapAssumption DEF TypeOK, SourceTypeOK
  <2>3. Nameable' \in {Nameable, Nameable \ {s}}
    BY <2>1 DEF Nameable, MarksOf
  <2> QED
    BY <2>1, <2>2, <2>3, ForgetStep
<1>4. ASSUME NEW p \in Suffix, NEW s, ZfsDestroyBookmark(s, p), UNCHANGED held PROVE ChainStep
  <2>2. PICK v \in MarksOf(p) :
          /\ \/ before' = [before EXCEPT ![p] = @ \ {v}] /\ done' = done
             \/ done' = [done EXCEPT ![p] = @ \ {v}] /\ before' = before
          /\ UNCHANGED <<snaps, taken, born, held>>
    BY <1>4 DEF ZfsDestroyBookmark, GarbageBefore, GarbageDone, MarksOf
  <2>3. v \in born + 1 .. MaxSnap
    BY <1>1, <2>2, MaxSnapAssumption DEF TypeOK, SourceTypeOK, MarksOf
  <2>4. /\ before \in [Suffix -> SUBSET (born + 1 .. taken)]
        /\ done \in [Suffix -> SUBSET (born + 1 .. taken)]
    BY <1>1 DEF TypeOK, SourceTypeOK
  <2>5. /\ \A q \in Suffix : MarksOf(q)' \subseteq MarksOf(q)
        /\ \A q \in Suffix : MarksOf(q) \subseteq MarksOf(q)' \union {v}
    BY <2>2, <2>4 DEF MarksOf
  <2>6. Nameable' \in {Nameable, Nameable \ {v}}
    <3>1. Nameable' \subseteq Nameable /\ Nameable \subseteq Nameable' \union {v}
      BY <2>2, <2>5 DEF Nameable
    <3> QED
      BY <3>1
  <2> QED
    BY <2>2, <2>3, <2>6, ForgetStep
<1>5. ASSUME NEW p \in Suffix, NEW s, UNCHANGED held,
             ZfsSetBeforeBookmark(s, p) \/ ZfsSetPlaceholder(s, p)
      PROVE  ChainStep
  <2>1. /\ s \in snaps
        /\ \/ before' = [before EXCEPT ![p] = @ \union {s}] /\ done' = done
           \/ done' = [done EXCEPT ![p] = @ \union {s}] /\ before' = before
        /\ UNCHANGED <<snaps, taken, born, held>>
    BY <1>5 DEF ZfsSetBeforeBookmark, ZfsSetPlaceholder
  <2>2. /\ before \in [Suffix -> SUBSET (born + 1 .. taken)]
        /\ done \in [Suffix -> SUBSET (born + 1 .. taken)]
    BY <1>1 DEF TypeOK, SourceTypeOK
  <2>3. \A q \in Suffix :
          MarksOf(q) \subseteq MarksOf(q)' /\ MarksOf(q)' \subseteq MarksOf(q) \union {s}
    BY <2>1, <2>2 DEF MarksOf
  <2>4. Nameable' = Nameable
    BY <2>1, <2>3 DEF Nameable
  <2> QED
    BY <2>1, <2>4 DEF ChainStep, Has
<1>6. CASE SendOk
  <2>1. pc = "wait" /\ ZfsReceive(dst, cur) /\ UNCHANGED sourceVars
    BY <1>6 DEF SendOk
  <2>2. dst \in Dst /\ cur \in Stream
    BY <1>1, <2>1 DEF TypeOK
  <2>3. dst \in Safe => Forward(dst, cur.target, cur.from) /\ Covered(dst, cur.target)
    BY <2>1 DEF ChainState, ChainInv, VisitInv, CurCovered, Covered
  <2> QED
    BY <2>1, <2>2, <2>3, AdvanceStep
<1>7. CASE \E d \in Dst : \E r \in wire[d] : LateReceive(d, r)
  <2>0. PICK d \in Dst : \E r \in wire[d] : LateReceive(d, r)
    BY <1>7
  <2>1. PICK r \in wire[d] : LateReceive(d, r)
    BY <2>0
  <2>2. ZfsReceive(d, r) /\ UNCHANGED sourceVars /\ r \in Stream
    BY <1>1, <2>1 DEF LateReceive, TypeOK
  <2>3. ASSUME d \in Safe PROVE Forward(d, r.target, r.from) /\ Covered(d, r.target)
    <3>1. DestInv(d)
      BY <2>3 DEF ChainState, ChainInv
    <3>2. Newest(d, r.from)
      BY <1>1, <2>2, <2>3, <3>1, AcceptableFromNewest DEF ZfsReceive
    <3> QED
      BY <3>1, <3>2 DEF DestInv, WireCovered
  <2> QED
    BY <2>2, <2>3, AdvanceStep
<1>8. CASE \/ StartRun
           \/ \E d \in Dst : FillSources(d)
           \/ QueryDataset
           \/ \E g \in Guid : PlanResume(g) \/ PlanStreams(g) \/ PlanRefused(g)
           \/ \E s \in Guid : NextSnap(s)
           \/ QueueDone \/ StartSend \/ SendImpossible \/ SendRejected \/ SetAfterRefused
           \/ \E p \in Suffix : Collected(p)
           \/ StreamDone \/ ResumeDone \/ TooManyRetries
           \/ NothingToSync \/ SendPlaceholders \/ SyncBroken \/ SyncRefused
           \/ Fail \/ Crash
           \/ \E d \in Dst : \E r \in wire[d] : LateReceivePartly(d, r) \/ LateReceiveLost(d, r)
           \/ UNCHANGED vars
  <2>1. UNCHANGED <<snaps, taken, born, before, done, held>>
    BY <1>8
    DEF StartRun, FillSources, QueryDataset, PlanResume, PlanStreams, PlanRefused, NextSnap,
        QueueDone, StartSend, SendImpossible, SendRejected, SetAfterRefused, Collected,
        StreamDone, ResumeDone, TooManyRetries, NothingToSync, SendPlaceholders,
        SetPlaceholders, SetPlaceholdersPartly, SyncBroken, SyncRefused, Fail, Crash,
        LateReceivePartly, ZfsReceivePartly,
        LateReceiveLost, Refuse, vars, sourceVars, destVars
  <2> QED
    BY <2>1 DEF ChainStep, Has, Nameable, MarksOf
<1>9. CASE RebuildSource
  <2>1. /\ UNCHANGED <<taken, held>> /\ born' = taken
        /\ snaps' = {} /\ \A p \in Suffix : MarksOf(p)' = {}
    BY <1>9 DEF RebuildSource, Rebuild, MarksOf, destVars
  <2>2. Nameable' = {} /\ Has' = Has
    BY <2>1 DEF Nameable, Has
  <2> QED
    BY <2>1, <2>2 DEF ChainStep, Chain!Next, Chain!Recreate, Has, Safe
<1>10. CASE \E p \in Suffix : SetBefore(p) \/ SetAfter(p) \/ Collect(p) \/ ForeignSender(p)
  BY <1>4, <1>5, <1>10 DEF SetBefore, SetAfter, Collect, ForeignSender, destVars
<1> QED
  BY <1>2, <1>3, <1>6, <1>7, <1>8, <1>9, <1>10 DEF Next, Sender, Environment

\* Sender, bookmarks and receivers together implement BackupChain, for every
\* configuration and whatever fails: each destination that is not overwritten
\* only moves forward, from its newest snapshot to a newer one, and the source
\* forgets no name that its next stream starts from, unless it is recreated.
THEOREM BackupChainImplemented == Spec => ImplementsBackupChain
<1>1. Init => Chain!Init
  BY DEF Init, SourceInit, DestInit, Chain!Init, Nameable, MarksOf
<1>2. ChainState /\ ChainState' /\ [Next]_vars
        => [Chain!Next]_<<taken, born, Nameable, [d \in Dst \ ForceOverwrite |-> held[d]]>>
  BY StepsImplementChain DEF ChainStep, Has, Safe
<1> QED
  BY <1>1, <1>2, ChainStateAlways, PTL DEF Spec, ImplementsBackupChain, Chain!Spec

-----------------------------------------------------------------------------
(* A visit that reports success has delivered                              *)

\* The snapshots of a listing that a visit is to deliver.
Wanted(l) == PotentialSnapsToSend(l) \union (l.snaps \intersect l.synced)

\* Each of them is in S, or a newer one is.
Reached(S) == \A s \in Wanted(listing) : \E h \in S : h >= s

\* While a visit sends its queue: what is delivered and what is still to be sent
\* add up to everything wanted.
DeliveryInv ==
    /\ listing.snaps \subseteq 1 .. MaxSnap
    /\ dst \notin ForceOverwrite =>
          /\ pc = "next" => Reached(held[dst] \union queue)
          /\ pc \in {"before", "wait"} /\ ~cur.resume =>
                Reached(held[dst] \union queue \union {cur.target})
          /\ pc = "after" /\ ~cur.resume => Reached(held[dst] \union queue)
          /\ pc = "sync" => Reached(held[dst])

\* The queue chosen for a base reaches every wanted snapshot newer than it.
LEMMA QueueReaches ==
  ASSUME NEW l \in Listing, l.snaps \subseteq 1 .. MaxSnap, NEW x \in Guid,
         NEW s \in Wanted(l), s > x
  PROVE  \E q \in ActualSnapsToSend(l, x) : q >= s
<1>1. s \in l.snaps /\ s \in 1 .. MaxSnap
  BY DEF Wanted, PotentialSnapsToSend
<1>2. CASE s \in l.synced
  BY <1>1, <1>2 DEF ActualSnapsToSend
<1>3. CASE s \in Matching
  <2> DEFINE M == { n \in l.snaps : n > x } \intersect Matching
  <2>1. M \subseteq 1 .. MaxSnap /\ s \in M
    BY <1>1, <1>3
  <2>2. PICK m \in M : \A n \in M : n <= m
    BY <2>1, Greatest, MaxSnapAssumption
  <2>3. m \in ActualSnapsToSend(l, x)
    BY <2>2 DEF ActualSnapsToSend
  <2>4. m >= s
    BY <2>1, <2>2
  <2> QED
    BY <2>3, <2>4
<1> QED
  BY <1>2, <1>3 DEF Wanted, PotentialSnapsToSend

\* Steps of others, and steps within one phase of a visit.
LEMMA DeliveryInvFrame ==
  ASSUME DeliveryInv, UNCHANGED <<dst, listing, queue, cur>>, dst \notin ForceOverwrite => held[dst] \subseteq held'[dst],
         \/ pc' = pc
         \/ pc = "before" /\ pc' = "wait"
  PROVE  DeliveryInv'
  BY DEF DeliveryInv, Reached, Wanted, PotentialSnapsToSend

\* A visit begins: there is something to send, or nothing is wanted.
LEMMA DeliveryInvFill ==
  ASSUME TypeOK, NEW d \in Dst, FillSources(d)
  PROVE  DeliveryInv'
<1>1. /\ listing' = List(d) /\ List(d) \in Listing /\ pc' \in {"sync", "dataset"}
      /\ pc' = "sync" => ActualSnapsToSend(List(d), 0) = {}
  BY ListType DEF FillSources
<1>2. List(d).snaps \subseteq 1 .. MaxSnap /\ 0 \in Guid
  BY MaxSnapAssumption DEF List, TypeOK, SourceTypeOK, Guid
<1>3. ASSUME pc' = "sync", NEW s \in Wanted(List(d)) PROVE FALSE
  <2>1. s > 0
    BY <1>2 DEF Wanted, PotentialSnapsToSend
  <2> QED
    BY <1>1, <1>2, <1>3, <2>1, QueueReaches
<1>4. pc' = "sync" => Wanted(listing') = {}
  BY <1>1, <1>3
<1> QED
  BY <1>1, <1>2, <1>4 DEF DeliveryInv, Reached, Wanted, PotentialSnapsToSend

\* The streams are planned, from nothing or from the receiver's newest snapshot.
LEMMA DeliveryInvPlan ==
  ASSUME TypeOK, DeliveryInv,
         QueryDataset \/ \E g \in Guid : PlanStreams(g)
  PROVE  DeliveryInv'
<1>1. /\ listing \in Listing /\ listing.snaps \subseteq 1 .. MaxSnap
      /\ UNCHANGED <<dst, listing, held>>
  BY DEF TypeOK, DeliveryInv, QueryDataset, PlanStreams, destVars
<1> SUFFICES ASSUME dst \notin ForceOverwrite PROVE DeliveryInv'
  BY <1>1 DEF DeliveryInv
<1>2. CASE QueryDataset /\ exists[dst]
  BY <1>1, <1>2 DEF QueryDataset, DeliveryInv
<1>3. CASE QueryDataset /\ ~exists[dst]
  <2>1. pc' = "next" /\ queue' = ActualSnapsToSend(listing, 0)
    BY <1>3 DEF QueryDataset
  <2>2. \A s \in Wanted(listing) : \E q \in queue' : q >= s
    <3>1. 0 \in Guid /\ \A s \in Wanted(listing) : s > 0
      BY <1>1, MaxSnapAssumption DEF Wanted, PotentialSnapsToSend, Guid
    <3> QED
      BY <1>1, <2>1, <3>1, QueueReaches
  <2> QED
    BY <1>1, <2>1, <2>2 DEF DeliveryInv, Reached, Wanted, PotentialSnapsToSend
<1>4. CASE \E g \in Guid : PlanStreams(g)
  <2>1. PICK g \in Guid : PlanStreams(g)
    BY <1>4
  <2>2. /\ pc' = "next" /\ Newest(dst, g)
        /\ BaseFor(listing, g) = g /\ g # 0
        /\ queue' = ActualSnapsToSend(listing, g)
    BY <2>1 DEF PlanStreams, MayOverwrite, BaseFor
  <2>3. g \in held[dst]
    BY <2>2 DEF Newest
  <2>4. ASSUME NEW s \in Wanted(listing) PROVE \E h \in held[dst] \union queue' : h >= s
    <3>1. CASE s > g
      BY <1>1, <2>2, <3>1, QueueReaches
    <3>2. CASE ~(s > g)
      BY <1>1, <2>3, <3>2, MaxSnapAssumption DEF Wanted, PotentialSnapsToSend, Guid
    <3> QED
      BY <3>1, <3>2
  <2> QED
    BY <1>1, <2>2, <2>4 DEF DeliveryInv, Reached, Wanted, PotentialSnapsToSend
<1> QED
  BY <1>2, <1>3, <1>4

\* A stream arrives: the destination has its target.
LEMMA DeliveryInvSendOk ==
  ASSUME TypeOK, DeliveryInv, SendOk
  PROVE  DeliveryInv'
<1>1. /\ pc = "wait" /\ pc' = "after" /\ UNCHANGED <<dst, listing, queue, cur>>
      /\ dst \in Dst /\ cur \in Stream /\ ZfsReceive(dst, cur)
  BY DEF SendOk, TypeOK
<1> SUFFICES ASSUME dst \notin ForceOverwrite PROVE DeliveryInv'
  BY <1>1 DEF DeliveryInv
<1>2. held'[dst] = held[dst] \union {cur.target}
  BY <1>1 DEF ZfsReceive, Kept, MayOverwrite, TypeOK, DestTypeOK
<1> QED
  BY <1>1, <1>2 DEF DeliveryInv, Reached, Wanted, PotentialSnapsToSend

\* The end of a visit, or a step outside of one.
LEMMA DeliveryInvIdle ==
  ASSUME DeliveryInv, pc' = "idle", listing' \in {listing, EmptyListing}
  PROVE  DeliveryInv'
  BY DEF DeliveryInv, EmptyListing

\* Every step keeps the invariant.
LEMMA DeliveryInvNext ==
  ASSUME TypeOK, DeliveryInv, [Next]_vars
  PROVE  DeliveryInv'
<1>1. CASE \E d \in Dst : FillSources(d)
  BY <1>1, DeliveryInvFill
<1>2. CASE QueryDataset \/ \E g \in Guid : PlanStreams(g)
  BY <1>2, DeliveryInvPlan
<1>3. CASE SendOk
  BY <1>3, DeliveryInvSendOk
<1>4. CASE \E g \in Guid : PlanResume(g)
  BY <1>4 DEF PlanResume, DeliveryInv
<1>5. CASE \E s \in Guid : NextSnap(s)
  <2>1. PICK s \in Guid : NextSnap(s)
    BY <1>5
  <2>2. /\ pc = "next" /\ pc' = "before" /\ UNCHANGED <<dst, listing, held>>
        /\ queue \subseteq queue' \union {s} /\ cur'.target = s /\ DeliveryInv
    BY <2>1 DEF NextSnap, destVars
  <2> QED
    BY <2>2 DEF DeliveryInv, Reached, Wanted, PotentialSnapsToSend
<1>6. CASE QueueDone \/ StreamDone \/ ResumeDone
  <2>1. /\ UNCHANGED <<dst, listing, held, queue>>
        /\ \/ pc = "next" /\ queue = {} /\ pc' = "sync"
           \/ pc = "after" /\ ~cur.resume /\ pc' = "next"
           \/ pc' = "dataset"
    BY <1>6 DEF QueueDone, StreamDone, ResumeDone, AllSet, destVars, visitVars
  <2> QED
    BY <2>1 DEF DeliveryInv, Reached, Wanted, PotentialSnapsToSend
<1>7. CASE \/ \E p \in Suffix : SetBefore(p)
           \/ StartSend
           \/ \E p \in Suffix : SetAfter(p) \/ Collect(p) \/ Collected(p)
           \/ Take
           \/ \E s \in Guid : PruneSnapshot(s)
           \/ \E p \in Suffix : ForeignSender(p)
           \/ UNCHANGED vars
  <2>1. /\ UNCHANGED <<dst, listing, held, queue, cur>>
        /\ pc' = pc \/ (pc = "before" /\ pc' = "wait")
    BY <1>7 DEF SetBefore, StartSend, SetAfter, Collect, Collected, Take, PruneSnapshot,
                ForeignSender, destVars, visitVars, senderVars, vars
  <2> QED
    BY <2>1, DeliveryInvFrame
<1>8. CASE \E d \in Dst : \E r \in wire[d] :
              LateReceive(d, r) \/ LateReceivePartly(d, r) \/ LateReceiveLost(d, r)
  <2>1. UNCHANGED <<pc, dst, listing, queue, cur>>
    BY <1>8 DEF LateReceive, LateReceivePartly, LateReceiveLost, senderVars, visitVars
  <2>2. CASE pc = "idle"
    BY <2>1, <2>2, DeliveryInvIdle
  <2>3. CASE pc # "idle"
    BY <2>1, <2>3, HeldGrows, DeliveryInvFrame DEF TypeOK
  <2> QED
    BY <2>2, <2>3
<1>9. CASE \/ StartRun
           \/ \E g \in Guid : PlanRefused(g)
           \/ SendImpossible \/ SendRejected \/ SetAfterRefused \/ TooManyRetries
           \/ NothingToSync \/ SendPlaceholders \/ SyncBroken \/ SyncRefused
           \/ Fail \/ Crash \/ RebuildSource
  <2>1. pc' = "idle" /\ listing' \in {listing, EmptyListing}
    BY <1>9
    DEF StartRun, PlanRefused, SendImpossible, SendRejected, SetAfterRefused, TooManyRetries,
        NothingToSync, SendPlaceholders, SyncBroken, SyncRefused, Fail, Crash, RebuildSource,
        Refuse, Return, ForgetVisit, visitVars
  <2> QED
    BY <2>1, DeliveryInvIdle
<1> QED
  BY <1>1, <1>2, <1>3, <1>4, <1>5, <1>6, <1>7, <1>8, <1>9 DEF Next, Sender, Environment

\* A visit that reports success leaves the destination no older than its listing
\* of the source, whatever was pruned, rebuilt, lost or interrupted.
THEOREM SuccessDelivers == Spec => SuccessMeansDelivered
<1>1. Init => DeliveryInv
  BY DEF Init, EmptyListing, DeliveryInv
<1>2. TypeOK /\ DeliveryInv /\ [Next]_vars => DeliveryInv'
  BY DeliveryInvNext
<1>3. DeliveryInv =>
        [(NothingToSync \/ SendPlaceholders) /\ dst \notin ForceOverwrite =>
            \A s \in PotentialSnapsToSend(listing)
                       \union (listing.snaps \intersect listing.synced) :
                \E h \in held[dst] : h >= s]_vars
  BY DEF NothingToSync, SendPlaceholders, DeliveryInv, Reached, Wanted
<1> QED
  BY <1>1, <1>2, <1>3, TypeCorrect, PTL DEF Spec, SuccessMeansDelivered
-----------------------------------------------------------------------------
(* Refusals                                                                *)

\* No step leaves a dataset of a destination empty and without a token.
LEMMA EmptyHasTokenNext ==
  ASSUME TypeOK, [Next]_vars, NEW d \in Safe, EmptyHasToken(d)
  PROVE  EmptyHasToken(d)'
<1>0. d \in Dst /\ ~MayOverwrite(d)
  BY DEF Safe, MayOverwrite
<1>1. ASSUME NEW e \in Dst, NEW r \in Stream, ZfsReceive(e, r) PROVE EmptyHasToken(d)'
  <2>1. CASE e = d
    BY <1>0, <1>1, <2>1 DEF ZfsReceive, EmptyHasToken, TypeOK, DestTypeOK
  <2>2. CASE e # d
    BY <1>0, <1>1, <2>2, ZfsReceiveElsewhere DEF EmptyHasToken
  <2> QED
    BY <2>1, <2>2
<1>2. ASSUME NEW e \in Dst, NEW r \in Stream, ZfsReceivePartly(e, r) PROVE EmptyHasToken(d)'
  <2>1. CASE e = d
    BY <1>0, <1>2, <2>1, MaxSnapAssumption
    DEF ZfsReceivePartly, EmptyHasToken, NoToken, Stream, TypeOK, DestTypeOK
  <2>2. CASE e # d
    BY <1>0, <1>2, <2>2, ZfsReceiveElsewhere DEF EmptyHasToken
  <2> QED
    BY <2>1, <2>2
<1>3. CASE SendOk
  BY <1>1, <1>3 DEF SendOk, TypeOK
<1>4. ASSUME NEW e \in Dst, NEW r \in wire[e], LateReceive(e, r) \/ LateReceivePartly(e, r)
      PROVE  EmptyHasToken(d)'
  BY <1>1, <1>2, <1>4 DEF LateReceive, LateReceivePartly, TypeOK
<1>5. ASSUME Next, ~SendOk,
             ~ \E e \in Dst : \E r \in wire[e] : LateReceive(e, r) \/ LateReceivePartly(e, r)
      PROVE  UNCHANGED <<exists, held, token>>
  BY <1>5
  DEF Next, Sender, Environment, StartRun, FillSources, QueryDataset, PlanResume, PlanStreams,
      PlanRefused, NextSnap, QueueDone, SetBefore, StartSend, SendImpossible, SendRejected,
      SetAfter, Collect, Collected, SetAfterRefused, StreamDone, ResumeDone, TooManyRetries,
      NothingToSync, SendPlaceholders, SetPlaceholders, SetPlaceholdersPartly, SyncBroken,
      SyncRefused, Fail, Crash, LateReceiveLost, Take, PruneSnapshot, ForeignSender, RebuildSource, Refuse, destVars
<1> QED
  BY <1>3, <1>4, <1>5 DEF vars, destVars, EmptyHasToken

\* Only a snapshot that is taken now can be there and not in the listing.
LEMMA ListedFrame ==
  ASSUME TypeOK, NEW t, t <= taken, ListedIfThere(t), listing' = listing,
         snaps' \subseteq snaps \union {taken + 1}
  PROVE  ListedIfThere(t)'
  BY MaxSnapAssumption DEF ListedIfThere, TypeOK, SourceTypeOK

\* Whatever is on its way to a destination was taken before, and so was what its
\* token names.
LEMMA TargetsTaken ==
  ASSUME ChainState, dst \in Safe
  PROVE  /\ \A r \in wire[dst] : r.target <= taken
         /\ token[dst].target <= taken
         /\ pc = "newest" => asked.target <= taken
<1>1. TypeOK /\ DestInv(dst) /\ VisitInv
  BY DEF ChainState, ChainInv
<1>2. taken \in Nat
  BY <1>1, MaxSnapAssumption DEF TypeOK, SourceTypeOK
<1> QED
  BY <1>1, <1>2
  DEF DestInv, WireCovered, TokenCovered, Forward, NoToken, VisitInv, AskedForward

\* A step of somebody else that leaves the destination as it is.
LEMMA PlannedFrame ==
  ASSUME ChainState, dst \in Safe, VisitPlanned,
         UNCHANGED <<pc, dst, listing, asked, cur, born>>,
         held'[dst] = held[dst], token'[dst] = token[dst], wire'[dst] \subseteq wire[dst],
         snaps' \subseteq snaps \union {taken + 1},
         \A p \in Placeholders(dst) : MarksOf(p) \subseteq MarksOf(p)'
  PROVE  VisitPlanned'
<1>1. TypeOK
  BY DEF ChainState
<1>2. \A g : (Newest(dst, g)' <=> Newest(dst, g)) /\ (Listed(g)' <=> Listed(g))
  BY DEF Newest, Listed
<1>3. TipListed => TipListed'
  BY <1>2 DEF TipListed
<1>4. \A g : Covered(dst, g) => Covered(dst, g)'
  BY DEF Covered, Placeholders
<1>5. /\ \A r \in wire[dst] : ListedIfThere(r.target) => ListedIfThere(r.target)'
      /\ ListedIfThere(token[dst].target) => ListedIfThere(token[dst].target)'
      /\ pc = "newest" /\ ListedIfThere(asked.target) => ListedIfThere(asked.target)'
  BY <1>1, TargetsTaken, ListedFrame DEF ListedIfThere
<1> QED
  BY <1>3, <1>4, <1>5 DEF VisitPlanned, ListedIfThere

\* A step of the visit itself, but for those that ask the receiver.
LEMMA PlannedLater ==
  ASSUME VisitPlanned, pc # "idle", UNCHANGED <<snaps, dst, listing, wire>>,
         pc' \notin {"dataset", "newest"},
         pc' \in {"before", "wait", "after"} =>
            \/ pc \in {"before", "wait", "after"} /\ cur' = cur
            \/ cur'.resume => cur'.target \in listing.snaps
  PROVE  VisitPlanned'
  BY DEF VisitPlanned, ListedIfThere

\* A visit begins: everything a destination may come to depend on is covered, and
\* so it is listed.
LEMMA PlannedFill ==
  ASSUME ChainState, NEW d \in Safe, FillSources(d)
  PROVE  VisitPlanned'
<1>1. /\ UNCHANGED <<snaps, before, done, born, held, token, wire>>
      /\ dst' = d /\ listing' = List(d) /\ pc' \in {"sync", "dataset"}
  BY DEF FillSources, sourceVars, destVars
<1>2. \A s : ListedIfThere(s)'
  BY <1>1 DEF ListedIfThere, List
<1>3. PICK p \in Suffix : Owner[p] = d
  BY OwnerAssumption DEF Safe
<1>4. \A g : Covered(d, g) /\ g > born => g \in List(d).marks
  BY <1>3 DEF Covered, Placeholders, List
<1>5. \A g : Covered(d, g) => Listed(g)'
  BY <1>1, <1>4 DEF Listed
<1>6. DestInv(d) /\ TypeOK
  BY DEF ChainState, ChainInv
<1>7. 0 \in Guid /\ Listed(0)'
  BY <1>1, <1>6, MaxSnapAssumption DEF Listed, Guid, TypeOK, SourceTypeOK
<1>8. TipListed'
  BY <1>1, <1>5, <1>6, <1>7 DEF TipListed, DestInv, TipCovered, WireCovered, Newest
<1> QED
  BY <1>1, <1>2, <1>8 DEF VisitPlanned

\* The receiver answers with its token, or has snapshots.
LEMMA PlannedQuery ==
  ASSUME ChainState, PlanInv, dst \in Safe, QueryDataset
  PROVE  VisitPlanned'
<1>1. /\ UNCHANGED <<snaps, before, done, born, held, exists, token, wire, dst, listing>>
      /\ pc = "dataset" /\ VisitPlanned
  BY DEF QueryDataset, sourceVars, destVars, PlanInv
<1>2. CASE ~exists[dst]
  BY <1>1, <1>2 DEF QueryDataset, VisitPlanned, ListedIfThere
<1>3. CASE exists[dst]
  <2>1. pc' = "newest" /\ asked' = token[dst]
    BY <1>3 DEF QueryDataset
  <2>2. asked' = NoToken => held[dst] # {}
    BY <1>3, <2>1 DEF PlanInv, EmptyHasToken
  <2>3. TipListed' /\ ListedIfThere(token[dst].target)'
    BY <1>1 DEF VisitPlanned, TipListed, Listed, ListedIfThere, Newest
  <2>4. Covered(dst, asked.from)'
    <3>1. TypeOK /\ DestInv(dst) /\ dst \in Dst
      BY DEF ChainState, ChainInv, Safe
    <3>2. token[dst].from = 0 \/ Covered(dst, token[dst].from)
      BY <3>1 DEF DestInv, TokenCovered, TipCovered, NoToken, TypeOK, DestTypeOK, Token
    <3>3. Covered(dst, 0)
      BY <3>1, MaxSnapAssumption DEF Covered, TypeOK, SourceTypeOK
    <3>4. \A s : Covered(dst, s)' <=> Covered(dst, s)
      BY <1>1 DEF Covered, MarksOf, Placeholders
    <3> QED
      BY <2>1, <3>2, <3>3, <3>4
  <2> QED
    BY <1>1, <2>1, <2>2, <2>3, <2>4 DEF VisitPlanned, ListedIfThere
<1> QED
  BY <1>2, <1>3

\* A resumed stream has arrived: the newest snapshot was listed, and nothing in
\* flight can be taken on top of it.
LEMMA PlannedAgain ==
  ASSUME ChainState, dst \in Safe, VisitPlanned, ResumeDone
  PROVE  VisitPlanned'
<1>1. /\ UNCHANGED <<snaps, born, held, token, wire, dst, listing>>
      /\ pc = "after" /\ pc' = "dataset" /\ cur.resume
  BY DEF ResumeDone, AllSet, sourceVars, destVars
<1>2. TypeOK /\ AfterSettled /\ dst \in Dst
  BY DEF ChainState, ChainInv, VisitInv, Safe
<1>3. cur \in Stream /\ wire[dst] \subseteq Stream
  BY <1>1, <1>2 DEF TypeOK
<1>4. \A g \in Guid : Newest(dst, g) => g = cur.target
  BY <1>1, <1>2, <1>3, NewestUnique DEF AfterSettled, Stream, Guid
<1>5. cur.target \in listing.snaps
  BY <1>1 DEF VisitPlanned
<1>6. \A r \in wire[dst] : ~Newest(dst, r.from)
  BY <1>1, <1>2, <1>3, <1>4 DEF AfterSettled, Stream
<1>7. TipListed'
  BY <1>1, <1>4, <1>5, <1>6 DEF TipListed, Listed, Newest
<1>8. token[dst] = NoToken /\ 0 \notin snaps
  BY <1>1, <1>2, MaxSnapAssumption DEF AfterSettled, TypeOK, SourceTypeOK
<1> QED
  BY <1>1, <1>7, <1>8 DEF VisitPlanned, ListedIfThere, NoToken

\* A receiver left behind ends, with a stream for this destination or another.
LEMMA PlannedLate ==
  ASSUME ChainState, dst \in Safe, VisitPlanned, NEW e \in Dst, NEW r \in wire[e],
         LateReceive(e, r) \/ LateReceivePartly(e, r) \/ LateReceiveLost(e, r)
  PROVE  VisitPlanned'
<1>1. /\ UNCHANGED <<pc, dst, listing, asked, cur, snaps, taken, born, before, done>>
      /\ wire' = [wire EXCEPT ![e] = @ \ {r}]
  BY DEF LateReceive, LateReceivePartly, LateReceiveLost, Drop, senderVars, visitVars, sourceVars
<1>2. TypeOK /\ DestInv(dst) /\ dst \in Dst /\ r \in Stream
  BY DEF ChainState, ChainInv, Safe, TypeOK
<1>3. wire'[dst] \subseteq wire[dst]
  BY <1>1, <1>2 DEF TypeOK
<1>4. \A p \in Placeholders(dst) : MarksOf(p) \subseteq MarksOf(p)'
  BY <1>1 DEF MarksOf
<1>5. CASE LateReceiveLost(e, r) \/ e # dst
  <2>1. held'[dst] = held[dst] /\ token'[dst] = token[dst]
    BY <1>2, <1>5, ZfsReceiveElsewhere DEF LateReceive, LateReceivePartly, LateReceiveLost, destVars
  <2> QED
    BY <1>1, <1>3, <1>4, <2>1, PlannedFrame
<1>6. \A s : (Listed(s)' <=> Listed(s)) /\ (ListedIfThere(s)' <=> ListedIfThere(s))
           /\ (Covered(dst, s)' <=> Covered(dst, s))
  BY <1>1 DEF Listed, ListedIfThere, Covered, MarksOf, Placeholders
<1>7. CASE e = dst /\ LateReceive(e, r)
  <2>1. ZfsReceive(dst, r) /\ Forward(dst, r.target, r.from)
    BY <1>2, <1>7 DEF LateReceive, DestInv, WireCovered
  <2>2. /\ held'[dst] = held[dst] \union {r.target}
        /\ \A x \in held[dst] \union {0} : x < r.target
        /\ token'[dst] = NoToken
        /\ Newest(dst, r.from)
    BY <1>2, <2>1, ReceiveMovesTip
  <2>3. \A g \in Guid : Newest(dst, g)' => g = r.target
    BY <1>1, <1>2, <2>2, MaxSnapAssumption DEF Newest, Guid, Stream, TypeOK, DestTypeOK
  <2>4. \A s \in wire[dst] : ~Newest(dst, s.from)'
    <3>1. \A s \in wire[dst] : s.from \in held[dst] \union {0} /\ s.from \in Guid
      BY <1>2 DEF DestInv, WireCovered, Forward, TypeOK, Stream
    <3> QED
      BY <1>2, <2>2, <2>3, <3>1, MaxSnapAssumption DEF Stream, Guid
  <2>5. TipListed => TipListed'
    BY <1>1, <1>3, <1>6, <1>7, <2>2, <2>3, <2>4 DEF TipListed
  <2>6. ListedIfThere(token[dst].target)'
    BY <1>1, <1>2, <2>2, MaxSnapAssumption DEF ListedIfThere, NoToken, TypeOK, SourceTypeOK
  <2> QED
    BY <1>1, <1>3, <1>6, <2>2, <2>5, <2>6 DEF VisitPlanned
<1>8. CASE e = dst /\ LateReceivePartly(e, r)
  <2>1. /\ held'[dst] = held[dst]
        /\ token'[dst] = [target |-> r.target, from |-> r.from]
    BY <1>2, <1>8 DEF LateReceivePartly, ZfsReceivePartly, TypeOK, DestTypeOK
  <2>2. \A g : Newest(dst, g)' <=> Newest(dst, g)
    BY <1>1, <2>1 DEF Newest
  <2>3. TipListed => TipListed'
    BY <1>1, <1>3, <1>6, <2>2 DEF TipListed
  <2> QED
    BY <1>1, <1>3, <1>6, <1>8, <2>1, <2>3 DEF VisitPlanned
<1> QED
  BY <1>5, <1>7, <1>8
\* Every step keeps the invariant.
LEMMA PlanInvNext == ChainState /\ PlanInv /\ [Next]_vars => PlanInv'
<1> SUFFICES ASSUME ChainState, PlanInv, [Next]_vars, dst' \in Safe PROVE VisitPlanned'
  BY EmptyHasTokenNext DEF PlanInv, ChainState
<1>1. TypeOK /\ (dst \in Safe => VisitPlanned)
  BY DEF ChainState, PlanInv
<1>2. CASE pc' = "idle"
  BY <1>2 DEF VisitPlanned
<1>3. ASSUME NEW d \in Dst, FillSources(d) PROVE VisitPlanned'
  BY <1>3, PlannedFill DEF FillSources
<1>4. CASE QueryDataset
  BY <1>4, PlannedQuery DEF QueryDataset
<1>5. CASE ResumeDone
  BY <1>1, <1>5, PlannedAgain DEF ResumeDone
<1>6. ASSUME NEW g \in Guid, PlanResume(g) PROVE VisitPlanned'
  <2>1. BaseFor(listing, g) \in Guid /\ listing \in Listing
    BY <1>1, MaxSnapAssumption DEF BaseFor, TypeOK, Guid
  <2>2. asked.target \in listing.snaps
    BY <1>6, <2>1, ActualSnapsNewer DEF PlanResume, CanResume, PotentialSnapsToSend
  <2>3. cur'.target = asked.target
    BY <1>6 DEF PlanResume
  <2> QED
    BY <1>1, <1>6, <2>2, <2>3, PlannedLater DEF PlanResume, sourceVars
<1>7. CASE \/ \E g \in Guid : PlanStreams(g)
           \/ \E s \in Guid : NextSnap(s)
           \/ QueueDone
           \/ \E p \in Suffix : SetBefore(p)
           \/ StartSend
           \/ SendOk
           \/ \E p \in Suffix : SetAfter(p) \/ Collect(p) \/ Collected(p)
           \/ StreamDone
  <2>1. /\ pc # "idle" /\ UNCHANGED <<snaps, dst, listing, wire>>
        /\ pc' \notin {"dataset", "newest"}
        /\ pc' \in {"before", "wait", "after"} =>
              \/ pc \in {"before", "wait", "after"} /\ cur' = cur
              \/ ~cur'.resume
    BY <1>7
    DEF PlanStreams, NextSnap, QueueDone, SetBefore, ZfsSetBeforeBookmark, StartSend, SendOk,
        SetAfter, ZfsSetPlaceholder, Collect, ZfsDestroyBookmark, Collected, StreamDone, AllSet,
        sourceVars, visitVars
  <2> QED
    BY <1>1, <2>1, PlannedLater
<1>8. ASSUME NEW e \in Dst, NEW r \in wire[e],
             LateReceive(e, r) \/ LateReceivePartly(e, r) \/ LateReceiveLost(e, r)
      PROVE  VisitPlanned'
  BY <1>1, <1>8, PlannedLate DEF LateReceive, LateReceivePartly, LateReceiveLost, senderVars, visitVars
<1>9. CASE \/ Take
           \/ \E s \in Guid : PruneSnapshot(s)
           \/ \E p \in Suffix : ForeignSender(p)
           \/ UNCHANGED vars
  <2>1. /\ UNCHANGED <<pc, dst, listing, asked, cur, born, held, token, wire>>
        /\ snaps' \subseteq snaps \union {taken + 1}
    BY <1>1, <1>9, ForeignStep
    DEF Take, TakeSnapshot, PruneSnapshot, Prune, vars, sourceVars, destVars, senderVars, visitVars
  <2>2. \A p \in Placeholders(dst) : MarksOf(p) \subseteq MarksOf(p)'
    BY <1>1, <1>9, <2>1, ForeignStep
    DEF Take, TakeSnapshot, PruneSnapshot, Prune, vars, sourceVars, bookmarks, MarksOf,
        Placeholders, Safe
  <2> QED
    BY <1>1, <2>1, <2>2, PlannedFrame
<1>10. CASE \/ StartRun
            \/ \E g \in Guid : PlanRefused(g)
            \/ SendImpossible \/ SendRejected \/ SetAfterRefused \/ TooManyRetries
            \/ NothingToSync \/ SendPlaceholders \/ SyncBroken \/ SyncRefused
            \/ Fail \/ Crash \/ RebuildSource
  <2>1. pc' = "idle"
    BY <1>10
    DEF StartRun, PlanRefused, SendImpossible, SendRejected, SetAfterRefused, TooManyRetries,
        NothingToSync, SendPlaceholders, SyncBroken, SyncRefused, Fail, Crash, RebuildSource,
        Refuse, Return, ForgetVisit
  <2> QED
    BY <1>2, <2>1
<1> QED
  BY <1>3, <1>4, <1>5, <1>6, <1>7, <1>8, <1>9, <1>10 DEF Next, Sender, Environment

\* What the invariant says of a refusal: with a base in the listing the streams
\* can be planned, and a token whose target is there, and may be sent, is resumed
\* unless the destination has the target by now.
LEMMA CauseOfRefusal ==
  ASSUME ChainState, PlanInv, NEW g \in Guid, PlanRefused(g), dst \notin ForceOverwrite
  PROVE  IF asked = NoToken
         THEN g \in 1 .. born
         ELSE \/ asked.target \notin snaps
              \/ /\ asked.target \notin Matching
                 /\ asked.target \in listing.synced => DeliveredMeanwhile(asked)
<1>1. pc = "newest" /\ Newest(dst, g) /\ TypeOK
  BY DEF PlanRefused, ChainState
<1>2. dst \in Safe /\ ~MayOverwrite(dst) /\ dst \in Dst
  BY <1>1 DEF TypeOK, Safe, MayOverwrite
<1>3. VisitPlanned /\ VisitInv
  BY <1>2 DEF PlanInv, ChainState, ChainInv
<1>4. CASE asked = NoToken
  <2>1. g # 0
    BY <1>1, <1>3, <1>4 DEF VisitPlanned, Newest, TypeOK, DestTypeOK, Guid
  <2>2. BaseFor(listing, g) = 0
    BY <1>2, <1>4 DEF PlanRefused
  <2>3. Listed(g)
    BY <1>1, <1>3 DEF VisitPlanned, TipListed
  <2>4. ~(g > born)
    BY <2>1, <2>2, <2>3 DEF Listed, BaseFor
  <2> QED
    BY <1>1, <1>4, <2>1, <2>4, MaxSnapAssumption DEF TypeOK, SourceTypeOK, Guid
<1>5. CASE asked # NoToken
  <2> SUFFICES ASSUME asked.target \in snaps,
                      \/ asked.target \in Matching
                      \/ asked.target \in listing.synced /\ ~DeliveredMeanwhile(asked)
               PROVE  FALSE
    BY <1>5
  <2>1. asked.target \in listing.snaps
    BY <1>1, <1>3 DEF VisitPlanned, ListedIfThere
  <2>2. asked.target > born /\ asked.target \in Nat /\ born \in Nat
    <3>1. snaps \subseteq born + 1 .. taken /\ born \in Nat /\ taken \in Nat
      BY <1>1, MaxSnapAssumption DEF TypeOK, SourceTypeOK
    <3>2. asked.target \in born + 1 .. taken
      BY <3>1
    <3> QED
      BY <3>1, <3>2
  <2>3. asked.from = 0 \/ asked.from > born
    BY <1>1, <1>3, <1>5, <2>2 DEF VisitInv, AskedForward, Forward
  <2>4. asked.from = 0 \/ asked.from \in Nameable
    <3>1. PICK p \in Suffix : Owner[p] = dst
      BY <1>2, OwnerAssumption
    <3> QED
      BY <1>1, <1>3, <2>3, <3>1 DEF VisitPlanned, Covered, Placeholders, Nameable
  <2>5. asked.target \notin PotentialSnapsToSend(listing)
                               \union ActualSnapsToSend(listing, BaseFor(listing, g))
    BY <1>5, <2>4 DEF PlanRefused, CanResume
  <2>6. asked.target \in listing.synced /\ ~DeliveredMeanwhile(asked)
    BY <2>1, <2>5 DEF PotentialSnapsToSend
\* The target is marked in the listing: it can be refused only if it is not
\* newer than the base.
  <2>7. ~(asked.target > BaseFor(listing, g))
    BY <2>1, <2>5, <2>6 DEF ActualSnapsToSend
  <2>8. BaseFor(listing, g) = g /\ g \in held[dst] /\ g \in Nat /\ g >= asked.target
    BY <1>1, <2>2, <2>7, MaxSnapAssumption DEF BaseFor, Newest, Guid
\* A token that is still there would be of a stream that goes on from the base.
  <2>9. token[dst] # asked
    <3>1. SUFFICES ASSUME token[dst] = asked PROVE FALSE
      OBVIOUS
    <3>2. TokenCovered(dst) /\ HeldExists(dst)
      BY <1>2 DEF ChainState, ChainInv, DestInv
    <3>3. Newest(dst, asked.from) /\ asked.target > asked.from
      BY <1>5, <3>1, <3>2 DEF TokenCovered, Forward
    <3>4. asked.from \in Guid
      BY <1>1 DEF TypeOK, Token
    <3>5. asked.from \in held[dst] /\ asked.from >= g
      BY <1>1, <2>8, <3>3 DEF Newest
    <3> QED
      BY <2>2, <2>8, <3>3, <3>4, <3>5, MaxSnapAssumption DEF Guid
  <2> QED
    BY <2>6, <2>8, <2>9 DEF DeliveredMeanwhile
<1> QED
  BY <1>4, <1>5

\* A destination is refused only for one of the causes RefusedForCause names, for
\* every configuration and whatever fails, is pruned or arrives late.
THEOREM RefusalsHaveACause == Spec => RefusedForCause
<1>1. Init => PlanInv
  BY NoDstAssumption DEF Init, DestInit, PlanInv, EmptyHasToken, Safe
<1>2. ChainState /\ PlanInv =>
        [\A g \in Guid : PlanRefused(g) /\ dst \notin ForceOverwrite =>
            IF asked = NoToken
            THEN g \in 1 .. born
            ELSE \/ asked.target \notin snaps
                 \/ /\ asked.target \notin Matching
                    /\ asked.target \in listing.synced => DeliveredMeanwhile(asked)]_vars
  BY CauseOfRefusal
<1> QED
  BY <1>1, <1>2, PlanInvNext, ChainStateAlways, PTL DEF Spec, RefusedForCause
=============================================================================
