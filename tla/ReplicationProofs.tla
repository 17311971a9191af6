-------------------------- MODULE ReplicationProofs --------------------------
(***************************************************************************)
(* Theorems about Replication, for every job configuration and every value *)
(* of the bounds.                                                          *)
(***************************************************************************)
EXTENDS ReplicationInv, TLAPS

-----------------------------------------------------------------------------
(* Type correctness                                                        *)

\* Every variable has its type initially.
LEMMA TypeOKInit == Init => TypeOK
  BY MaxSnapAssumption, BoundsAssumption
  DEF Init, TypeOK, SourceInit, SourceTypeOK, DestInit, DestTypeOK, PC, Listing, EmptyListing,
      NoStream, Stream, Token, NoToken, Guid

\* The snapshots chosen to be sent come from the listing and are newer than
\* the base.
LEMMA ActualSnapsNewer ==
  ASSUME NEW l \in Listing, NEW x \in Guid
  PROVE  /\ ActualSnapsToSend(l, x) \subseteq l.snaps
         /\ \A q \in ActualSnapsToSend(l, x) : q \in 1 .. MaxSnap /\ q > x
  BY MaxSnapAssumption DEF ActualSnapsToSend, Listing, Guid

\* A listing has the type of `listing`.
LEMMA ListType ==
  ASSUME TypeOK, NEW d \in Dst
  PROVE  List(d) \in Listing
  BY MaxSnapAssumption, SyncAssumption
  DEF List, Listing, TypeOK, SourceTypeOK, MarksOf, Foreign, Guid

\* Ending a visit keeps the sender's variables in their types.
LEMMA ReturnType ==
  ASSUME TypeOK, Return
  PROVE  /\ pc' \in PC /\ pc' = "idle"
         /\ pending' \in SUBSET Dst
         /\ dst' \in Dst \union {NoDst}
         /\ listing' \in Listing
         /\ asked' \in Token
         /\ base' \in Guid
         /\ queue' \in SUBSET (1 .. MaxSnap)
         /\ cur' \in Stream \union {NoStream}
         /\ todo' \in SUBSET Suffix
         /\ collecting' \in SUBSET Suffix /\ collecting' = {}
         /\ retries' \in 0 .. MaxRetries
  BY MaxSnapAssumption, BoundsAssumption
  DEF Return, ForgetVisit, TypeOK, PC, Listing, EmptyListing, Token, NoToken, Guid

\* An error for one destination keeps the types.
LEMMA RefuseType ==
  ASSUME TypeOK, Refuse
  PROVE  TypeOK'
  BY ReturnType
  DEF Refuse, TypeOK, sourceVars, destVars, boundVars, SourceTypeOK, DestTypeOK

\* A completed zfs receive keeps the types of the destinations.
LEMMA ZfsReceiveType ==
  ASSUME DestTypeOK, NEW d \in Dst, NEW r \in Stream, ZfsReceive(d, r)
  PROVE  DestTypeOK'
  BY MaxSnapAssumption
  DEF DestTypeOK, ZfsReceive, Kept, Stream, Token, NoToken, Guid

\* So does an interrupted one.
LEMMA ZfsReceivePartlyType ==
  ASSUME DestTypeOK, NEW d \in Dst, NEW r \in Stream, ZfsReceivePartly(d, r)
  PROVE  DestTypeOK'
<1>1. [target |-> r.target, from |-> r.from] \in Token
  BY MaxSnapAssumption DEF Stream, Token, Guid
<1> QED
  BY <1>1 DEF DestTypeOK, ZfsReceivePartly

\* Every step keeps the types: one case per action.
LEMMA TypeOKNext == TypeOK /\ [Next]_vars => TypeOK'
<1> SUFFICES ASSUME TypeOK, [Next]_vars PROVE TypeOK'
  OBVIOUS
<1> USE MaxSnapAssumption, BoundsAssumption
<1> USE DEF TypeOK, SourceTypeOK, DestTypeOK, sourceVars, destVars, visitVars, boundVars
<1>1. CASE StartRun
  BY <1>1 DEF StartRun
<1>2. ASSUME NEW d \in Dst, FillSources(d) PROVE TypeOK'
  <2>1. List(d) \in Listing
    BY ListType
  <2> QED
    BY <1>2, <2>1 DEF FillSources, PC
<1>3. CASE QueryDataset
  <2>1. queue' \in SUBSET (1 .. MaxSnap)
    BY <1>3, ActualSnapsNewer DEF QueryDataset, Guid
  <2>2. asked' \in Token /\ base' \in Guid
    BY <1>3 DEF QueryDataset, Token, NoToken, Guid
  <2> QED
    BY <1>3, <2>1, <2>2 DEF QueryDataset, PC
<1>4. ASSUME NEW g \in Guid, PlanResume(g) PROVE TypeOK'
  <2>1. cur' \in Stream
    BY <1>4 DEF PlanResume, CanResume, Stream, Token, Guid
  <2> QED
    BY <1>4, <2>1 DEF PlanResume, PC, Placeholders
<1>5. ASSUME NEW g \in Guid, PlanStreams(g) PROVE TypeOK'
  <2>1. base' \in Guid
    BY <1>5 DEF PlanStreams, BaseFor, Guid
  <2>2. queue' \in SUBSET (1 .. MaxSnap)
    BY <1>5, <2>1, ActualSnapsNewer DEF PlanStreams
  <2> QED
    BY <1>5, <2>1, <2>2 DEF PlanStreams, PC
<1>6. ASSUME NEW g \in Guid, PlanRefused(g) PROVE TypeOK'
  BY <1>6, RefuseType DEF PlanRefused
<1>7. ASSUME NEW s \in Guid, NextSnap(s) PROVE TypeOK'
  <2>1. cur' \in Stream
    BY <1>7 DEF NextSnap, Stream
  <2> QED
    BY <1>7, <2>1 DEF NextSnap, PC, Placeholders
<1>8. CASE QueueDone
  BY <1>8 DEF QueueDone, PC
<1>9. ASSUME NEW p \in Suffix, SetBefore(p) PROVE TypeOK'
  BY <1>9 DEF SetBefore, ZfsSetBeforeBookmark
<1>10. CASE StartSend
  BY <1>10 DEF StartSend, PC
<1>11. CASE SendImpossible
  BY <1>11, RefuseType DEF SendImpossible
<1>12. CASE SendOk
  <2>1. DestTypeOK'
    BY <1>12, ZfsReceiveType DEF SendOk
  <2> QED
    BY <1>12, <2>1 DEF SendOk, PC, Placeholders, Stream, Guid
<1>13. CASE SendRejected
  BY <1>13, RefuseType DEF SendRejected
<1>14. ASSUME NEW p \in Suffix, SetAfter(p) PROVE TypeOK'
  BY <1>14 DEF SetAfter, ZfsSetPlaceholder
<1>15. ASSUME NEW p \in Suffix, Collect(p) PROVE TypeOK'
  BY <1>15 DEF Collect, ZfsDestroyBookmark
<1>16. ASSUME NEW p \in Suffix, Collected(p) PROVE TypeOK'
  BY <1>16 DEF Collected
<1>17. CASE SetAfterRefused
  BY <1>17, RefuseType DEF SetAfterRefused
<1>18. CASE StreamDone
  BY <1>18 DEF StreamDone, AllSet, PC
<1>19. CASE ResumeDone
  BY <1>19 DEF ResumeDone, AllSet, PC
<1>20. CASE TooManyRetries
  BY <1>20, RefuseType DEF TooManyRetries
<1>21. CASE NothingToSync
  BY <1>21, ReturnType DEF NothingToSync
<1>22. CASE SendPlaceholders
  <2>1. PICK sp \in [Entries(dst) -> Guid] : SetPlaceholders(dst, sp)
    BY <1>22 DEF SendPlaceholders
  <2>2. ToBookmark(dst, sp) \subseteq Entries(dst)
    BY DEF ToBookmark
  <2>3. [p \in Suffix |-> IF p \in ToBookmark(dst, sp) THEN {sp[p]} ELSE mirror[dst][p]]
           \in [Suffix -> SUBSET Guid]
    BY <1>22, <2>2 DEF SendPlaceholders
  <2>4. mirror' \in [Dst -> [Suffix -> SUBSET Guid]]
    BY <2>1, <2>3 DEF SetPlaceholders
  <2> QED
    BY <1>22, <2>1, <2>4, ReturnType DEF SendPlaceholders, SetPlaceholders
<1>23. CASE SyncRefused
  BY <1>23, RefuseType DEF SyncRefused
<1>24. CASE Fail
  BY <1>24, ReturnType DEF Fail, Fault, LeaveStream
<1>25. CASE Crash
  BY <1>25 DEF Crash, Fault, LeaveStream, ForgetVisit, PC, Listing, EmptyListing, Token,
             NoToken, Guid
<1>26. ASSUME NEW d \in Dst, NEW r \in wire[d], LateReceive(d, r) PROVE TypeOK'
  <2>1. DestTypeOK'
    BY <1>26, ZfsReceiveType DEF LateReceive
  <2> QED
    BY <1>26, <2>1 DEF LateReceive, Drop, senderVars
<1>27. ASSUME NEW d \in Dst, NEW r \in wire[d], LateReceivePartly(d, r) PROVE TypeOK'
  <2>1. DestTypeOK'
    BY <1>27, ZfsReceivePartlyType DEF LateReceivePartly
  <2> QED
    BY <1>27, <2>1 DEF LateReceivePartly, Drop, senderVars
<1>28. ASSUME NEW d \in Dst, NEW r \in wire[d], LateReceiveLost(d, r) PROVE TypeOK'
  BY <1>28 DEF LateReceiveLost, Drop, senderVars
<1>29. CASE Take
  BY <1>29 DEF Take, TakeSnapshot, bookmarks, senderVars
<1>30. ASSUME NEW s \in Guid, PruneSnapshot(s) PROVE TypeOK'
  BY <1>30 DEF PruneSnapshot, Prune, senderVars
<1>31. CASE RebuildSource
  BY <1>31 DEF RebuildSource, Rebuild
<1>32. CASE UNCHANGED vars
  BY <1>32 DEF vars
<1>33. ASSUME NEW p \in Suffix, ForeignSender(p) PROVE TypeOK'
  <2>1. UNCHANGED <<snaps, taken, born, destVars, senderVars, wire>>
    BY <1>33 DEF ForeignSender, ZfsSetBeforeBookmark, ZfsSetPlaceholder, ZfsDestroyBookmark
  <2>2. before' \in [Suffix -> SUBSET (born + 1 .. taken)]
    BY <1>33 DEF ForeignSender, ZfsSetBeforeBookmark, ZfsSetPlaceholder, ZfsDestroyBookmark
  <2>3. done' \in [Suffix -> SUBSET (born + 1 .. taken)]
    BY <1>33 DEF ForeignSender, ZfsSetBeforeBookmark, ZfsSetPlaceholder, ZfsDestroyBookmark
  <2> QED
    BY <2>1, <2>2, <2>3 DEF senderVars
<1>34. CASE SyncBroken
  <2>1. mirror' \in [Dst -> [Suffix -> SUBSET Guid]]
    BY <1>34 DEF SyncBroken, SetPlaceholdersPartly
  <2> QED
    BY <1>34, <2>1, ReturnType DEF SyncBroken, SetPlaceholdersPartly, Fault
<1> QED
  BY <1>1, <1>2, <1>3, <1>4, <1>5, <1>6, <1>7, <1>8, <1>9, <1>10, <1>11, <1>12, <1>13, <1>14,
     <1>15, <1>16, <1>17, <1>18, <1>19, <1>20, <1>21, <1>22, <1>23, <1>24, <1>25, <1>26, <1>27,
     <1>28, <1>29, <1>30, <1>31, <1>32, <1>33, <1>34
  DEF Next, Sender, Environment

\* Every variable keeps its type, for every configuration and every bound.
THEOREM TypeCorrect == Spec => []TypeOK
  BY TypeOKInit, TypeOKNext, PTL DEF Spec

-----------------------------------------------------------------------------
(* Streams and the newest snapshot of a destination                        *)

\* A destination has one newest snapshot.
LEMMA NewestUnique ==
  ASSUME TypeOK, NEW d \in Dst, NEW g \in Guid, NEW h \in Guid, Newest(d, g), Newest(d, h)
  PROVE  g = h
  BY MaxSnapAssumption DEF Newest, TypeOK, DestTypeOK, Guid

\* Without -F, zfs receive takes a stream only on top of the newest snapshot.
LEMMA AcceptableFromNewest ==
  ASSUME TypeOK, NEW d \in Safe, DestInv(d), NEW r \in Stream, Acceptable(d, r)
  PROVE  Newest(d, r.from) /\ Kept(d, r) = held[d]
<1>1. ~MayOverwrite(d) /\ d \in Dst
  BY DEF Safe, MayOverwrite
<1>2. CASE r.resume
  <2>1. token[d] = [target |-> r.target, from |-> r.from]
    BY <1>2 DEF Acceptable
  <2>2. token[d] # NoToken
    BY <2>1, MaxSnapAssumption DEF NoToken, Stream
  <2> QED
    BY <1>1, <2>1, <2>2 DEF DestInv, TokenCovered, Kept
<1>3. CASE ~r.resume
  BY <1>1, <1>3 DEF Acceptable, DestInv, HeldExists, Newest, Kept
<1> QED
  BY <1>2, <1>3

\* A stream that arrives is the new newest snapshot, and is newer than the
\* start of every other stream for the destination.
LEMMA ReceiveMovesTip ==
  ASSUME TypeOK, NEW d \in Safe, DestInv(d), NEW r \in Stream,
         Forward(d, r.target, r.from), ZfsReceive(d, r)
  PROVE  /\ held'[d] = held[d] \union {r.target}
         /\ \A x \in held[d] \union {0} : x < r.target
         /\ Newest(d, r.target)'
         /\ exists'[d]
         /\ token'[d] = NoToken
         /\ Newest(d, r.from)
<1>1. Acceptable(d, r)
  BY DEF ZfsReceive
<1>2. Newest(d, r.from) /\ Kept(d, r) = held[d]
  BY <1>1, AcceptableFromNewest
<1>3. d \in Dst
  BY DEF Safe
<1>4. held'[d] = held[d] \union {r.target} /\ exists'[d] /\ token'[d] = NoToken
  BY <1>2, <1>3 DEF ZfsReceive, TypeOK, DestTypeOK
<1>5. \A x \in held[d] \union {0} : x < r.target
  BY <1>2, <1>3, MaxSnapAssumption DEF Newest, Forward, TypeOK, DestTypeOK, Stream, Guid
<1>6. Newest(d, r.target)'
  BY <1>3, <1>4, <1>5, MaxSnapAssumption DEF Newest, TypeOK, DestTypeOK, Stream
<1> QED
  BY <1>2, <1>4, <1>5, <1>6

\* zfs receive at one destination leaves the others as they are.
LEMMA ZfsReceiveElsewhere ==
  ASSUME TypeOK, NEW d \in Dst, NEW r \in Stream, NEW e \in Dst, e # d,
         ZfsReceive(d, r) \/ ZfsReceivePartly(d, r)
  PROVE  held'[e] = held[e] /\ exists'[e] = exists[e] /\ token'[e] = token[e]
  BY DEF ZfsReceive, ZfsReceivePartly, TypeOK, DestTypeOK

\* The source is not recreated, and may have one snapshot more.
SameSource == born' = born /\ taken' \in {taken, taken + 1}

\* A stream that went forward still does.
LEMMA ForwardFrame ==
  ASSUME TypeOK, SameSource, NEW d, held[d] \subseteq held'[d], NEW t \in Guid, NEW f \in Guid,
         Forward(d, t, f)
  PROVE  Forward(d, t, f)'
  BY MaxSnapAssumption DEF Forward, SameSource, TypeOK, SourceTypeOK, Guid

\* DestInv(d) only gains from more bookmarks and fewer streams in flight.
LEMMA DestInvFrame ==
  ASSUME TypeOK, NEW d \in Safe, DestInv(d), SameSource,
         held'[d] = held[d], exists'[d] = exists[d], token'[d] = token[d],
         wire'[d] \subseteq wire[d],
         \A p \in Placeholders(d) : MarksOf(p) \subseteq MarksOf(p)'
  PROVE  DestInv(d)'
<1>1. \A g : Newest(d, g)' <=> Newest(d, g)
  BY DEF Newest
<1>2. \A g : Covered(d, g) => Covered(d, g)'
  BY DEF Covered, Placeholders, SameSource
<1>3. HeldExists(d)' /\ TipCovered(d)'
  BY <1>1, <1>2, MaxSnapAssumption
  DEF DestInv, HeldExists, TipCovered, SameSource, TypeOK, SourceTypeOK
<1>a. token[d] \in Token /\ wire[d] \subseteq Stream
  BY DEF TypeOK, DestTypeOK, Safe
<1>4. TokenCovered(d)'
  BY <1>1, <1>2, <1>a, ForwardFrame DEF DestInv, TokenCovered, NoToken, Token
<1>5. WireCovered(d)'
  <2>1. \A t \in wire[d] : t.target \in Guid /\ t.from \in Guid
    BY <1>a, MaxSnapAssumption DEF Stream, Guid
  <2> QED
    BY <1>1, <1>2, <2>1, ForwardFrame DEF DestInv, WireCovered
<1> QED
  BY <1>3, <1>4, <1>5 DEF DestInv

\* The arrival of a covered stream keeps its destination covered.
LEMMA DestInvReceive ==
  ASSUME TypeOK, NEW d \in Safe, DestInv(d), NEW r \in Stream, SameSource,
         Forward(d, r.target, r.from), Covered(d, r.target), ZfsReceive(d, r),
         wire'[d] \subseteq wire[d],
         \A p \in Placeholders(d) : MarksOf(p) \subseteq MarksOf(p)'
  PROVE  DestInv(d)'
<1>1. /\ held'[d] = held[d] \union {r.target}
      /\ \A x \in held[d] \union {0} : x < r.target
      /\ exists'[d]
      /\ token'[d] = NoToken
  BY ReceiveMovesTip
<1>2. \A g : Covered(d, g) => Covered(d, g)'
  BY DEF Covered, Placeholders, SameSource
<1>3. \A x \in held[d] \union {0} : ~Newest(d, x)'
  BY <1>1, MaxSnapAssumption DEF Newest, Stream, TypeOK, DestTypeOK, Safe
<1>4. HeldExists(d)' /\ TokenCovered(d)'
  <2>1. r.target \in 1 .. taken
    BY MaxSnapAssumption DEF Forward, Stream, TypeOK, SourceTypeOK
  <2>2. held'[d] \subseteq 1 .. taken'
    BY <1>1, <2>1, MaxSnapAssumption DEF DestInv, HeldExists, SameSource, TypeOK, SourceTypeOK
  <2> QED
    BY <1>1, <2>2 DEF HeldExists, TokenCovered, NoToken
<1>5. TipCovered(d)'
  <2> SUFFICES ASSUME NEW g \in Guid \ {0}, Newest(d, g)' PROVE Covered(d, g)'
    BY DEF TipCovered, Guid
  <2>1. g = r.target
    BY <1>1, <1>3 DEF Newest
  <2> QED
    BY <1>2, <2>1
<1>6. WireCovered(d)'
  <2>1. \A t \in wire[d] : t.target \in Guid /\ t.from \in Guid
    BY MaxSnapAssumption DEF TypeOK, Stream, Guid, Safe
  <2>2. \A t \in wire'[d] : Forward(d, t.target, t.from)'
    BY <1>1, <2>1, ForwardFrame DEF DestInv, WireCovered
  <2>3. \A t \in wire'[d] : ~Newest(d, t.from)'
    BY <1>3 DEF DestInv, WireCovered, Forward
  <2> QED
    BY <2>2, <2>3 DEF WireCovered
<1> QED
  BY <1>4, <1>5, <1>6 DEF DestInv

\* So does a covered stream that arrives in part.
LEMMA DestInvReceivePartly ==
  ASSUME TypeOK, NEW d \in Safe, DestInv(d), NEW r \in Stream,
         Forward(d, r.target, r.from), Covered(d, r.target), ZfsReceivePartly(d, r),
         wire'[d] \subseteq wire[d], UNCHANGED <<taken, born, before, done>>
  PROVE  DestInv(d)'
<1>1. Newest(d, r.from) /\ d \in Dst
  BY AcceptableFromNewest DEF ZfsReceivePartly, Safe
<1>2. /\ held'[d] = held[d]
      /\ exists'[d]
      /\ token'[d] = [target |-> r.target, from |-> r.from]
  BY <1>1 DEF ZfsReceivePartly, TypeOK, DestTypeOK
<1>3. \A g : (Newest(d, g)' <=> Newest(d, g)) /\ (Covered(d, g)' <=> Covered(d, g))
  BY <1>2 DEF Newest, Covered, MarksOf, Placeholders
<1>4. HeldExists(d)' /\ TipCovered(d)'
  BY <1>2, <1>3 DEF DestInv, HeldExists, TipCovered
<1>5. TokenCovered(d)'
  BY <1>1, <1>2, <1>3 DEF TokenCovered, Forward, NoToken
<1>6. WireCovered(d)'
  BY <1>2, <1>3 DEF DestInv, WireCovered, Forward
<1> QED
  BY <1>4, <1>5, <1>6 DEF DestInv

-----------------------------------------------------------------------------
(* The inductive invariant                                                 *)

\* The invariant holds initially: nothing has been sent.
LEMMA ChainInvInit == Init => ChainInv
  BY NoDstAssumption
  DEF Init, SourceInit, DestInit, ChainInv, DestInv, HeldExists, TipCovered, TokenCovered,
      WireCovered, Newest, Safe, Guid, NoToken

\* A step that touches neither bookmarks nor destinations nor streams in flight.
LEMMA DestInvQuiet ==
  ASSUME TypeOK, \A d \in Safe : DestInv(d),
         UNCHANGED <<before, done, held, exists, token, wire>>, SameSource
  PROVE  \A d \in Safe : DestInv(d)'
<1> SUFFICES ASSUME NEW d \in Safe PROVE DestInv(d)'
  OBVIOUS
<1>1. \A p \in Placeholders(d) : MarksOf(p) \subseteq MarksOf(p)'
  BY DEF MarksOf
<1> QED
  BY <1>1, DestInvFrame DEF SameSource

\* No visit, no obligation on it.
LEMMA VisitOver ==
  ASSUME dst' = NoDst
  PROVE  dst' \notin Safe
  BY NoDstAssumption DEF Safe

\* A step of somebody else keeps the facts about the visit in progress.
LEMMA VisitInvFrame ==
  ASSUME TypeOK, dst \in Safe, VisitInv,
         UNCHANGED <<pc, dst, listing, asked, queue, base, cur, todo, collecting>>, SameSource,
         held[dst] \subseteq held'[dst],
         \A p \in Placeholders(dst) : MarksOf(p) \subseteq MarksOf(p)' /\ done[p] \subseteq done'[p],
         pc = "after" => /\ held'[dst] = held[dst]
                         /\ token'[dst] = token[dst]
                         /\ wire'[dst] \subseteq wire[dst]
  PROVE  VisitInv'
<1> USE MaxSnapAssumption
<1>1. AskedForward'
  <2>1. asked.target \in Guid /\ asked.from \in Guid
    BY DEF TypeOK, Token
  <2> QED
    BY <2>1, ForwardFrame DEF VisitInv, AskedForward, NoToken
<1>2. QueueForward'
  <2>1. Current \subseteq Current' /\ queue \subseteq Nat /\ taken <= taken' /\ taken \in Nat
    BY DEF Current, SameSource, TypeOK, SourceTypeOK
  <2>2. taken' \in Nat /\ born' = born
    BY <2>1 DEF SameSource
  <2> QED
    BY <2>1, <2>2 DEF VisitInv, QueueForward
<1>3. CurCovered'
  <2>1. pc \in {"before", "wait"} => cur.target \in Guid /\ cur.from \in Guid
    BY DEF TypeOK, Stream, Guid
  <2> QED
    BY <2>1, ForwardFrame DEF VisitInv, CurCovered, Placeholders
<1>4. AfterSettled'
  BY DEF VisitInv, AfterSettled, Newest, NoToken, Placeholders
<1>5. ListingCurrent'
  BY DEF VisitInv, ListingCurrent, Current, SameSource, TypeOK, SourceTypeOK
<1> QED
  BY <1>1, <1>2, <1>3, <1>4, <1>5 DEF VisitInv

\* The end of a visit that leaves everything else alone.
LEMMA RefuseKeepsChainInv ==
  ASSUME TypeOK, \A d \in Safe : DestInv(d), Refuse
  PROVE  (\A d \in Safe : DestInv(d)') /\ dst' \notin Safe
<1>1. UNCHANGED <<before, done, held, exists, token, wire>> /\ dst' = NoDst /\ SameSource
  BY DEF Refuse, Return, ForgetVisit, sourceVars, destVars, SameSource
<1> QED
  BY <1>1, DestInvQuiet, VisitOver

\* Steps of the sender that only choose what to do next.
LEMMA ChoosingKeepsChainInv ==
  ASSUME TypeOK, TypeOK', \A d \in Safe : DestInv(d), dst \in Safe => VisitInv,
         \/ StartRun
         \/ \E d \in Dst : FillSources(d)
         \/ QueryDataset
         \/ \E g \in Guid : PlanResume(g) \/ PlanStreams(g)
         \/ \E s \in Guid : NextSnap(s)
         \/ QueueDone
         \/ StartSend
         \/ \E p \in Suffix : Collected(p)
         \/ StreamDone
         \/ ResumeDone
  PROVE  (\A d \in Safe : DestInv(d)') /\ (dst' \in Safe => VisitInv')
<1> USE DEF sourceVars, destVars, visitVars
<1>0. UNCHANGED <<taken, born, before, done, held, exists, token, wire>>
  BY DEF StartRun, FillSources, QueryDataset, PlanResume, PlanStreams, NextSnap, QueueDone,
     StartSend, Collected, StreamDone, ResumeDone
<1>a. \A d \in Safe : DestInv(d)'
  BY <1>0, DestInvQuiet DEF SameSource
<1>b. ASSUME dst' \in Safe PROVE VisitInv'
  <2>1. CASE StartRun
    BY <2>1, <1>b, <1>0
    DEF StartRun, VisitInv, ListingCurrent, AskedForward, QueueForward, CurCovered, AfterSettled
  <2>2. ASSUME NEW d \in Dst, FillSources(d) PROVE VisitInv'
    <3>1. List(d).snaps \union List(d).marks \subseteq Current
      BY DEF List, MarksOf, Current, TypeOK, SourceTypeOK
    <3>2. ListingCurrent'
      BY <2>2, <3>1, <1>0 DEF FillSources, ListingCurrent, Current
    <3> QED
      BY <2>2, <3>2 DEF FillSources, VisitInv, AskedForward, QueueForward, CurCovered, AfterSettled
  <2>a. ASSUME pc # "idle", dst \in Safe, listing' = listing PROVE ListingCurrent'
    BY <2>a, <1>0 DEF VisitInv, ListingCurrent, Current
  <2>3. CASE QueryDataset
    <3>1. dst' = dst /\ dst \in Safe /\ listing \in Listing /\ 0 \in Guid
          /\ listing.snaps \subseteq Current /\ ListingCurrent'
      BY <2>3, <2>a, <1>b, MaxSnapAssumption
      DEF QueryDataset, TypeOK, Guid, VisitInv, ListingCurrent
    <3>2. AskedForward'
      <4>1. CASE token[dst] # NoToken
        <5>1. TokenCovered(dst)
          BY <3>1 DEF DestInv
        <5> QED
          BY <2>3, <3>1, <4>1, <5>1, <1>0, MaxSnapAssumption
          DEF QueryDataset, AskedForward, Forward, TokenCovered, Newest
      <4>2. CASE token[dst] = NoToken
        BY <2>3, <4>2 DEF QueryDataset, AskedForward, NoToken
      <4> QED
        BY <4>1, <4>2
    <3>3. QueueForward'
      <4>1. ActualSnapsToSend(listing, 0) \subseteq Current
        BY <3>1, ActualSnapsNewer
      <4> QED
        BY <2>3, <3>1, <4>1, <1>0, ActualSnapsNewer DEF QueryDataset, QueueForward, Current
    <3>4. CurCovered' /\ AfterSettled'
      BY <2>3 DEF QueryDataset, CurCovered, AfterSettled
    <3> QED
      BY <3>1, <3>2, <3>3, <3>4 DEF VisitInv
  <2>4. ASSUME NEW g \in Guid, PlanResume(g) PROVE VisitInv'
    <3>1. dst \in Safe /\ AskedForward /\ ListingCurrent'
      BY <2>4, <2>a, <1>b DEF PlanResume, VisitInv
    <3>2. CurCovered'
      BY <2>4, <3>1, <1>0 DEF PlanResume, AskedForward, CurCovered, Forward, Placeholders
    <3> QED
      BY <2>4, <3>1, <3>2 DEF PlanResume, VisitInv, AskedForward, QueueForward, AfterSettled
  <2>5. ASSUME NEW g \in Guid, PlanStreams(g) PROVE VisitInv'
    <3>1. base' \in Guid /\ base' \in held[dst] \union {0}
      BY <2>5, MaxSnapAssumption DEF PlanStreams, BaseFor, Newest, Guid
    <3>2. /\ \A q \in queue' : q > base'
          /\ queue' \subseteq listing.snaps
      BY <2>5, <3>1, ActualSnapsNewer DEF PlanStreams, TypeOK
    <3>3. dst \in Safe /\ ListingCurrent' /\ listing.snaps \union listing.marks \subseteq Current
      BY <2>5, <2>a, <1>b DEF PlanStreams, VisitInv, ListingCurrent
    <3>4. base' = 0 \/ base' > born
      BY <2>5, <3>3, MaxSnapAssumption
      DEF PlanStreams, BaseFor, Current, TypeOK, SourceTypeOK
    <3>5. QueueForward'
      BY <2>5, <3>1, <3>2, <3>3, <3>4, <1>0 DEF PlanStreams, QueueForward, Current
    <3> QED
      BY <2>5, <3>3, <3>5 DEF PlanStreams, VisitInv, AskedForward, CurCovered, AfterSettled
  <2>6. ASSUME NEW s \in Guid, NextSnap(s) PROVE VisitInv'
    <3>1. dst \in Safe /\ QueueForward /\ ListingCurrent'
      BY <2>6, <2>a, <1>b DEF NextSnap, VisitInv
    <3>2. /\ s > base /\ s > born /\ s <= taken
          /\ base \in held[dst] \union {0}
          /\ base = 0 \/ base > born
      BY <2>6, <3>1, MaxSnapAssumption
      DEF NextSnap, QueueForward, Current, TypeOK, SourceTypeOK
    <3>3. CurCovered'
      BY <2>6, <3>2, <1>0 DEF NextSnap, CurCovered, Forward, Placeholders
    <3>4. \A q \in queue' : q > s /\ q <= taken
      BY <2>6, <3>1, MaxSnapAssumption
      DEF NextSnap, QueueForward, Current, TypeOK, SourceTypeOK, Guid
    <3>5. QueueForward'
      BY <2>6, <3>2, <3>4, <1>0 DEF NextSnap, QueueForward
    <3> QED
      BY <2>6, <3>1, <3>3, <3>5 DEF NextSnap, VisitInv, AskedForward, AfterSettled
  <2>7. CASE QueueDone
    <3>1. ListingCurrent'
      BY <2>7, <2>a, <1>b DEF QueueDone
    <3> QED
      BY <2>7, <3>1 DEF QueueDone, VisitInv, AskedForward, QueueForward, CurCovered, AfterSettled
  <2>8. CASE StartSend
    <3>1. dst \in Safe /\ VisitInv /\ ListingCurrent'
      BY <2>8, <2>a, <1>b DEF StartSend
    <3>2. QueueForward'
      BY <2>8, <3>1, <1>0 DEF StartSend, VisitInv, QueueForward
    <3>3. CurCovered'
      BY <2>8, <3>1, <1>0 DEF StartSend, VisitInv, CurCovered, Forward, Placeholders, MarksOf
    <3> QED
      BY <2>8, <3>1, <3>2, <3>3 DEF StartSend, VisitInv, AskedForward, AfterSettled
  <2>9. ASSUME NEW p \in Suffix, Collected(p) PROVE VisitInv'
    <3>1. dst \in Safe /\ VisitInv /\ ListingCurrent'
      BY <2>9, <2>a, <1>b DEF Collected
    <3>2. AfterSettled'
      BY <2>9, <3>1, <1>0 DEF Collected, VisitInv, AfterSettled, Newest, NoToken, Placeholders
    <3>3. QueueForward'
      BY <2>9, <3>1, <1>0 DEF Collected, VisitInv, QueueForward
    <3> QED
      BY <2>9, <3>1, <3>2, <3>3 DEF Collected, VisitInv, AskedForward, CurCovered
  <2>10. CASE StreamDone
    <3>1. dst \in Safe /\ VisitInv /\ ListingCurrent'
      BY <2>10, <2>a, <1>b DEF StreamDone, AllSet
    <3>2. QueueForward'
      <4>1. /\ cur.target > born /\ base = cur.target /\ cur \in Stream
            /\ \A q \in queue : q <= taken /\ q > cur.target
        BY <2>10, <3>1 DEF StreamDone, AllSet, VisitInv, QueueForward, AfterSettled, TypeOK
      <4>2. base \in held[dst]
        BY <2>10, <3>1, <4>1, MaxSnapAssumption
        DEF StreamDone, AllSet, VisitInv, AfterSettled, Newest, Stream
      <4>3. \A q \in queue : q \in Current
        BY <4>1, MaxSnapAssumption DEF Current, TypeOK, SourceTypeOK, Stream
      <4> QED
        BY <2>10, <4>1, <4>2, <4>3, <1>0 DEF StreamDone, QueueForward, Current
    <3> QED
      BY <2>10, <3>1, <3>2
      DEF StreamDone, VisitInv, AskedForward, CurCovered, AfterSettled
  <2>11. CASE ResumeDone
    <3>1. ListingCurrent'
      BY <2>11, <2>a, <1>b DEF ResumeDone, AllSet
    <3> QED
      BY <2>11, <3>1 DEF ResumeDone, VisitInv, AskedForward, QueueForward, CurCovered, AfterSettled
  <2> QED
    BY <2>1, <2>2, <2>3, <2>4, <2>5, <2>6, <2>7, <2>8, <2>9, <2>10, <2>11
<1> QED
  BY <1>a, <1>b

\* A before-send bookmark.
LEMMA SetBeforeKeepsChainInv ==
  ASSUME TypeOK, \A d \in Safe : DestInv(d), dst \in Safe => VisitInv,
         NEW p \in Suffix, SetBefore(p)
  PROVE  (\A d \in Safe : DestInv(d)') /\ (dst' \in Safe => VisitInv')
<1>1. /\ \A q \in Suffix : MarksOf(q) \subseteq MarksOf(q)'
      /\ cur.target \in MarksOf(p)'
      /\ UNCHANGED <<taken, born, done, held, exists, token, wire>>
      /\ UNCHANGED <<pc, dst, listing, asked, queue, base, cur, collecting>>
  BY DEF SetBefore, ZfsSetBeforeBookmark, MarksOf, TypeOK, SourceTypeOK, destVars
<1>2. ASSUME NEW d \in Safe PROVE DestInv(d)'
  BY <1>1, DestInvFrame DEF Placeholders, SameSource
<1>3. ASSUME dst \in Safe PROVE VisitInv'
  <2>1. CurCovered'
    BY <1>1, <1>3 DEF SetBefore, VisitInv, CurCovered, Forward, Placeholders
  <2>2. ListingCurrent' /\ QueueForward'
    BY <1>1, <1>3 DEF VisitInv, ListingCurrent, Current, QueueForward
  <2> QED
    BY <1>1, <1>3, <2>1, <2>2 DEF SetBefore, VisitInv, AskedForward, AfterSettled
<1> QED
  BY <1>1, <1>2, <1>3

\* The stream arrives.
LEMMA SendOkKeepsChainInv ==
  ASSUME TypeOK, \A d \in Safe : DestInv(d), dst \in Safe => VisitInv, SendOk
  PROVE  (\A d \in Safe : DestInv(d)') /\ (dst' \in Safe => VisitInv')
<1>1. dst \in Dst /\ cur \in Stream /\ ZfsReceive(dst, cur) /\ dst' = dst
      /\ UNCHANGED <<taken, born, before, done, wire, listing, cur, queue, collecting>>
  BY DEF SendOk, TypeOK, sourceVars
<1>a. SameSource
  BY <1>1 DEF SameSource
<1>2. \A d : \A p \in Placeholders(d) : MarksOf(p) \subseteq MarksOf(p)'
  BY <1>1 DEF MarksOf
<1>3. ASSUME dst \in Safe
      PROVE  Forward(dst, cur.target, cur.from) /\ Covered(dst, cur.target) /\ DestInv(dst)
  BY <1>3 DEF SendOk, VisitInv, CurCovered, Covered
<1>4. ASSUME NEW d \in Safe PROVE DestInv(d)'
  <2>1. CASE d = dst
    BY <1>1, <1>a, <1>2, <1>3, <2>1, DestInvReceive
  <2>2. CASE d # dst
    <3>1. held'[d] = held[d] /\ exists'[d] = exists[d] /\ token'[d] = token[d]
      BY <1>1, <2>2, ZfsReceiveElsewhere DEF Safe
    <3> QED
      BY <1>1, <1>a, <1>2, <3>1, DestInvFrame
  <2> QED
    BY <2>1, <2>2
<1>5. ASSUME dst \in Safe PROVE VisitInv'
  <2>1. /\ \A x \in held[dst] \union {0} : x < cur.target
        /\ Newest(dst, cur.target)'
        /\ token'[dst] = NoToken
    BY <1>1, <1>3, <1>5, ReceiveMovesTip
  <2>2. \A r \in wire'[dst] : r.from # cur.target
    <3>1. cur.target \in Nat
      BY <1>1, MaxSnapAssumption DEF Stream
    <3>2. \A r \in wire[dst] : r.from \in held[dst] \union {0}
      BY <1>3, <1>5 DEF DestInv, WireCovered, Forward
    <3> QED
      BY <1>1, <2>1, <3>1, <3>2
  <2>3. collecting = {}
    BY DEF SendOk, TypeOK
  <2>4. AfterSettled'
    BY <1>1, <2>1, <2>2, <2>3 DEF SendOk, AfterSettled, Placeholders
  <2>5. QueueForward'
    BY <1>1, <1>5 DEF SendOk, VisitInv, QueueForward
  <2>6. AskedForward' /\ CurCovered'
    BY DEF SendOk, AskedForward, CurCovered
  <2>7. ListingCurrent'
    BY <1>1, <1>5 DEF SendOk, VisitInv, ListingCurrent, Current
  <2> QED
    BY <2>4, <2>5, <2>6, <2>7 DEF VisitInv
<1> QED
  BY <1>1, <1>4, <1>5

\* The checkpoint, and the garbage collection after it.
LEMMA SetAfterKeepsChainInv ==
  ASSUME TypeOK, \A d \in Safe : DestInv(d), dst \in Safe => VisitInv,
         NEW p \in Suffix, SetAfter(p), todo \subseteq Placeholders(dst)
  PROVE  (\A d \in Safe : DestInv(d)') /\ (dst' \in Safe => VisitInv')
<1>1. /\ \A q \in Suffix : MarksOf(q) \subseteq MarksOf(q)' /\ done[q] \subseteq done'[q]
      /\ cur.target \in done'[p]
      /\ UNCHANGED <<taken, born, before, held, exists, token, wire>>
      /\ UNCHANGED <<pc, dst, listing, asked, queue, base, cur>>
      /\ pc = "after" /\ p \in Placeholders(dst) /\ collecting' = {p}
  BY DEF SetAfter, ZfsSetPlaceholder, MarksOf, TypeOK, SourceTypeOK, destVars
<1>2. ASSUME NEW d \in Safe PROVE DestInv(d)'
  BY <1>1, DestInvFrame DEF Placeholders, SameSource
<1>3. ASSUME dst \in Safe PROVE VisitInv'
  <2>1. AfterSettled'
    BY <1>1, <1>3 DEF VisitInv, AfterSettled, Newest, NoToken, Placeholders
  <2>2. ListingCurrent' /\ QueueForward'
    BY <1>1, <1>3 DEF VisitInv, ListingCurrent, Current, QueueForward
  <2> QED
    BY <1>1, <1>3, <2>1, <2>2 DEF VisitInv, AskedForward, CurCovered
<1> QED
  BY <1>1, <1>2, <1>3

\* Removing the suffix's other bookmarks, one at a time: none of them covers the
\* destination's newest snapshot or anything a stream in flight may add to it.
LEMMA CollectKeepsChainInv ==
  ASSUME TypeOK, \A d \in Safe : DestInv(d), dst \in Safe => VisitInv,
         NEW p \in Suffix, Collect(p), collecting \subseteq Placeholders(dst)
  PROVE  (\A d \in Safe : DestInv(d)') /\ (dst' \in Safe => VisitInv')
<1>1. /\ UNCHANGED <<taken, born, held, exists, token, wire>>
      /\ UNCHANGED <<pc, dst, listing, asked, queue, base, cur, todo, collecting>>
      /\ pc = "after" /\ p \in collecting /\ dst \in Dst /\ cur \in Stream
  BY DEF Collect, ZfsDestroyBookmark, destVars, visitVars, TypeOK
<1>2. /\ \A q \in Suffix \ {p} : MarksOf(q)' = MarksOf(q) /\ done'[q] = done[q]
      /\ cur.target \in done[p] => cur.target \in done'[p]
  BY DEF Collect, ZfsDestroyBookmark, GarbageBefore, GarbageDone, MarksOf, TypeOK, SourceTypeOK
<1>3. ASSUME NEW d \in Safe, d # dst PROVE DestInv(d)'
  <2>1. \A q \in Placeholders(d) : MarksOf(q) \subseteq MarksOf(q)'
    BY <1>1, <1>2, <1>3 DEF Placeholders
  <2> QED
    BY <1>1, <1>3, <2>1, DestInvFrame DEF SameSource
<1>4. ASSUME dst \in Safe PROVE DestInv(dst)' /\ VisitInv'
  <2>1. /\ Newest(dst, cur.target) /\ token[dst] = NoToken
        /\ \A r \in wire[dst] : r.from # cur.target
        /\ \A q \in collecting : cur.target \in done[q]
    BY <1>1, <1>4 DEF VisitInv, AfterSettled
  <2>2. \A g \in Guid : Newest(dst, g)' => g = cur.target
    BY <1>1, <2>1, NewestUnique, MaxSnapAssumption DEF Newest, Stream, Guid
  <2>3. Covered(dst, cur.target)'
    <3>1. cur.target \in 1 .. MaxSnap
      BY <1>1 DEF Stream
    <3>2. Covered(dst, cur.target)
      BY <1>1, <1>4, <2>1, <3>1, MaxSnapAssumption DEF DestInv, TipCovered, Guid
    <3> QED
      BY <1>1, <1>2, <2>1, <3>2 DEF Covered, Placeholders, MarksOf
  <2>4. HeldExists(dst)' /\ TokenCovered(dst)'
    BY <1>1, <1>4, <2>1 DEF DestInv, HeldExists, TokenCovered, NoToken
  <2>5. TipCovered(dst)'
    <3> SUFFICES ASSUME NEW g \in Guid \ {0}, Newest(dst, g)' PROVE Covered(dst, g)'
      BY <1>1 DEF TipCovered, Guid
    <3> QED
      BY <1>1, <2>2, <2>3
  <2>6. WireCovered(dst)'
    <3> SUFFICES ASSUME NEW r \in wire[dst]
                 PROVE  Forward(dst, r.target, r.from)' /\ ~Newest(dst, r.from)'
      BY <1>1 DEF WireCovered
    <3>1. Forward(dst, r.target, r.from)
      BY <1>4 DEF DestInv, WireCovered
    <3>2. r.from \in Guid
      BY <1>1 DEF TypeOK, Stream
    <3> QED
      BY <1>1, <2>1, <2>2, <3>1, <3>2 DEF Forward
  <2>a. ListingCurrent' /\ QueueForward'
    BY <1>1, <1>4 DEF VisitInv, ListingCurrent, Current, QueueForward
  <2>7. VisitInv'
    BY <1>1, <1>2, <1>4, <2>a
    DEF VisitInv, AskedForward, CurCovered, AfterSettled, Newest, NoToken, Placeholders
  <2> QED
    BY <2>4, <2>5, <2>6, <2>7 DEF DestInv
<1> QED
  BY <1>1, <1>3, <1>4

\* The visit fails or the sender dies; a stream in flight joins the others.
LEMMA FaultKeepsChainInv ==
  ASSUME TypeOK, \A d \in Safe : DestInv(d), dst \in Safe => VisitInv, Fail \/ Crash
  PROVE  (\A d \in Safe : DestInv(d)') /\ dst' \notin Safe
<1>1. /\ UNCHANGED <<taken, born, before, done, held, exists, token>>
      /\ SameSource
      /\ dst' = NoDst
      /\ LeaveStream
  BY DEF Fail, Crash, Return, ForgetVisit, sourceVars, destVars, SameSource
<1>2. CASE pc = "wait"
  <2>1. dst \in Dst /\ cur \in Stream /\ wire' = [wire EXCEPT ![dst] = @ \union {cur}]
    BY <1>1, <1>2 DEF LeaveStream, TypeOK
  <2>2. ASSUME NEW d \in Safe, d # dst PROVE DestInv(d)'
    <3>1. wire'[d] = wire[d] /\ \A p \in Placeholders(d) : MarksOf(p) \subseteq MarksOf(p)'
      BY <1>1, <2>1, <2>2 DEF TypeOK, Safe, MarksOf
    <3> QED
      BY <1>1, <3>1, DestInvFrame
  <2>3. ASSUME NEW d \in Safe, d = dst PROVE DestInv(d)'
    <3>1. Forward(d, cur.target, cur.from) /\ Covered(d, cur.target) /\ DestInv(d)
      BY <1>2, <2>3 DEF VisitInv, CurCovered, Covered
    <3>2. wire'[d] = wire[d] \union {cur}
      BY <2>1, <2>3 DEF TypeOK
    <3>a. \A g : (Newest(d, g)' <=> Newest(d, g)) /\ (Covered(d, g)' <=> Covered(d, g))
      BY <1>1 DEF Newest, Covered, MarksOf, Placeholders
    <3>b. \A t, f : Forward(d, t, f)' <=> Forward(d, t, f)
      BY <1>1 DEF Forward
    <3>3. WireCovered(d)'
      BY <3>1, <3>2, <3>a, <3>b DEF DestInv, WireCovered
    <3>4. HeldExists(d)' /\ TipCovered(d)' /\ TokenCovered(d)'
      BY <1>1, <3>1, <3>a, <3>b DEF DestInv, HeldExists, TipCovered, TokenCovered, NoToken
    <3> QED
      BY <3>3, <3>4 DEF DestInv
  <2>4. \A d \in Safe : DestInv(d)'
    BY <2>2, <2>3
  <2> QED
    BY <1>1, <2>4, VisitOver
<1>3. CASE pc # "wait"
  BY <1>1, <1>3, DestInvQuiet, VisitOver DEF LeaveStream
<1> QED
  BY <1>2, <1>3

\* A receiver whose sender is gone ends its stream, one way or another.
LEMMA LateKeepsChainInv ==
  ASSUME TypeOK, \A d \in Safe : DestInv(d), dst \in Safe => VisitInv,
         NEW e \in Dst, NEW r \in wire[e],
         LateReceive(e, r) \/ LateReceivePartly(e, r) \/ LateReceiveLost(e, r)
  PROVE  (\A d \in Safe : DestInv(d)') /\ (dst' \in Safe => VisitInv')
<1>1. /\ UNCHANGED <<taken, born, before, done>>
      /\ SameSource
      /\ UNCHANGED <<pc, dst, listing, asked, queue, base, cur, todo, collecting>>
      /\ \A d \in Dst : wire'[d] \subseteq wire[d]
      /\ r \in Stream
  BY DEF LateReceive, LateReceivePartly, LateReceiveLost, Drop, sourceVars, senderVars,
         visitVars, TypeOK, SameSource
<1>2. \A d : \A p \in Placeholders(d) : MarksOf(p) \subseteq MarksOf(p)'
  BY <1>1 DEF MarksOf
<1>3. \A d \in Dst \ {e} :
         held'[d] = held[d] /\ exists'[d] = exists[d] /\ token'[d] = token[d]
  BY <1>1, ZfsReceiveElsewhere DEF LateReceive, LateReceivePartly, LateReceiveLost, destVars
<1>4. ASSUME NEW d \in Safe, d # e PROVE DestInv(d)'
  BY <1>1, <1>2, <1>3, <1>4, DestInvFrame DEF Safe
<1>5. CASE LateReceive(e, r)
  <2>1. ZfsReceive(e, r)
    BY <1>5 DEF LateReceive
  <2>2. ASSUME e \in Safe
        PROVE  /\ DestInv(e) /\ Forward(e, r.target, r.from)
               /\ Newest(e, r.from) /\ Covered(e, r.target)
    BY <1>1, <2>1, <2>2, AcceptableFromNewest DEF DestInv, WireCovered, ZfsReceive
  <2>3. ASSUME e \in Safe PROVE DestInv(e)' /\ held[e] \subseteq held'[e]
    BY <1>1, <1>2, <2>1, <2>2, <2>3, DestInvReceive, ReceiveMovesTip
  <2>4. ASSUME dst \in Safe PROVE VisitInv'
    <3>1. CASE dst = e
      <4>1. pc # "after"
        <5> SUFFICES ASSUME pc = "after" PROVE FALSE
          OBVIOUS
        <5>1. Newest(dst, cur.target) /\ r.from # cur.target /\ cur \in Stream
          BY <2>4, <3>1 DEF VisitInv, AfterSettled, TypeOK
        <5>2. r.from \in Guid /\ cur.target \in Guid
          BY <1>1, <5>1, MaxSnapAssumption DEF Stream, Guid
        <5> QED
          BY <2>2, <2>4, <3>1, <5>1, <5>2, NewestUnique
      <4> QED
        BY <1>1, <1>2, <2>3, <2>4, <3>1, <4>1, VisitInvFrame
    <3>2. CASE dst # e
      <4>1. dst \in Dst \ {e}
        BY <2>4, <3>2 DEF Safe
      <4> QED
        BY <1>1, <1>2, <1>3, <2>4, <4>1, VisitInvFrame
    <3> QED
      BY <3>1, <3>2
  <2>5. \A d \in Safe : DestInv(d)'
    <3> SUFFICES ASSUME NEW d \in Safe PROVE DestInv(d)'
      OBVIOUS
    <3> QED
      BY <1>4, <2>3
  <2> QED
    BY <1>1, <2>4, <2>5
<1>6. CASE LateReceivePartly(e, r)
  <2>1. ZfsReceivePartly(e, r)
    BY <1>6 DEF LateReceivePartly
  <2>2. ASSUME e \in Safe
        PROVE  /\ DestInv(e) /\ Forward(e, r.target, r.from)
               /\ Newest(e, r.from) /\ Covered(e, r.target)
    BY <1>1, <2>1, <2>2, AcceptableFromNewest DEF DestInv, WireCovered, ZfsReceivePartly
  <2>3. held' = held
    BY <2>1 DEF ZfsReceivePartly
  <2>4. ASSUME e \in Safe PROVE DestInv(e)'
    BY <1>1, <2>1, <2>2, <2>4, DestInvReceivePartly
  <2>5. ASSUME dst \in Safe PROVE VisitInv'
    <3>1. CASE dst = e
      <4>1. pc # "after"
        <5> SUFFICES ASSUME pc = "after" PROVE FALSE
          OBVIOUS
        <5>1. Newest(dst, cur.target) /\ r.from # cur.target /\ cur \in Stream
          BY <2>5, <3>1 DEF VisitInv, AfterSettled, TypeOK
        <5>2. r.from \in Guid /\ cur.target \in Guid
          BY <1>1, <5>1, MaxSnapAssumption DEF Stream, Guid
        <5> QED
          BY <2>2, <2>5, <3>1, <5>1, <5>2, NewestUnique
      <4> QED
        BY <1>1, <1>2, <2>3, <2>5, <4>1, VisitInvFrame
    <3>2. CASE dst # e
      <4>1. dst \in Dst \ {e}
        BY <2>5, <3>2 DEF Safe
      <4> QED
        BY <1>1, <1>2, <1>3, <2>5, <4>1, VisitInvFrame
    <3> QED
      BY <3>1, <3>2
  <2>6. \A d \in Safe : DestInv(d)'
    <3> SUFFICES ASSUME NEW d \in Safe PROVE DestInv(d)'
      OBVIOUS
    <3> QED
      BY <1>4, <2>4
  <2> QED
    BY <1>1, <2>5, <2>6
<1>7. CASE LateReceiveLost(e, r)
  <2>1. UNCHANGED <<held, exists, token>>
    BY <1>7 DEF LateReceiveLost, destVars
  <2>2. \A d \in Safe : DestInv(d)'
    <3> SUFFICES ASSUME NEW d \in Safe PROVE DestInv(d)'
      OBVIOUS
    <3>1. wire'[d] \subseteq wire[d]
      BY <1>1 DEF Safe
    <3> QED
      BY <1>1, <1>2, <2>1, <3>1, DestInvFrame
  <2>3. ASSUME dst \in Safe PROVE VisitInv'
    <3>1. wire'[dst] \subseteq wire[dst]
      BY <1>1, <2>3 DEF Safe
    <3> QED
      BY <1>1, <1>2, <2>1, <2>3, <3>1, VisitInvFrame
  <2> QED
    BY <1>1, <2>2, <2>3
<1> QED
  BY <1>5, <1>6, <1>7

\* Visits that end well, snapshots taken and pruned, and steps outside.
LEMMA OthersKeepChainInv ==
  ASSUME TypeOK, \A d \in Safe : DestInv(d), dst \in Safe => VisitInv,
         \/ NothingToSync
         \/ SendPlaceholders \/ SyncBroken
         \/ Take
         \/ \E s \in Guid : PruneSnapshot(s)
         \/ UNCHANGED vars
  PROVE  (\A d \in Safe : DestInv(d)') /\ (dst' \in Safe => VisitInv')
<1>1. UNCHANGED <<before, done, held, exists, token, wire>> /\ SameSource
  BY DEF NothingToSync, SendPlaceholders, SetPlaceholders, SetPlaceholdersPartly, SyncBroken,
         Take, TakeSnapshot, bookmarks,
         PruneSnapshot, Prune, vars, sourceVars, destVars, SameSource
<1>2. \A d \in Safe : DestInv(d)'
  BY <1>1, DestInvQuiet
<1>3. CASE NothingToSync \/ SendPlaceholders \/ SyncBroken
  BY <1>2, <1>3, VisitOver DEF NothingToSync, SendPlaceholders, SyncBroken, Return, ForgetVisit
<1>4. CASE Take \/ (\E s \in Guid : PruneSnapshot(s)) \/ UNCHANGED vars
  <2>1. UNCHANGED <<pc, dst, listing, asked, queue, base, cur, todo, collecting>>
    BY <1>4 DEF Take, PruneSnapshot, vars, senderVars, visitVars
  <2>2. \A p \in Placeholders(dst) : MarksOf(p) \subseteq MarksOf(p)' /\ done[p] \subseteq done'[p]
    BY <1>1 DEF MarksOf
  <2>3. dst \in Safe => VisitInv'
    BY <1>1, <2>1, <2>2, VisitInvFrame
  <2> QED
    BY <1>2, <2>1, <2>3
<1> QED
  BY <1>3, <1>4

\* Another configuration's sender touches no bookmark of this one's suffixes.
LEMMA ForeignStep ==
  ASSUME TypeOK, NEW p \in Suffix, ForeignSender(p)
  PROVE  /\ UNCHANGED <<snaps, taken, born, destVars, senderVars, wire>>
         /\ \A q \in Suffix : Owner[q] \in Dst => before'[q] = before[q] /\ done'[q] = done[q]
<1>1. Owner[p] \notin Dst /\ UNCHANGED <<snaps, taken, born, destVars, senderVars, wire>>
  BY DEF ForeignSender, Foreign, ZfsSetBeforeBookmark, ZfsSetPlaceholder, ZfsDestroyBookmark
<1>2. ASSUME NEW q \in Suffix, q # p PROVE before'[q] = before[q] /\ done'[q] = done[q]
  BY <1>2 DEF ForeignSender, ZfsSetBeforeBookmark, ZfsSetPlaceholder, ZfsDestroyBookmark,
              TypeOK, SourceTypeOK
<1> QED
  BY <1>1, <1>2

\* So it disturbs neither the chains nor the visit.
LEMMA ForeignKeepsChainInv ==
  ASSUME TypeOK, \A d \in Safe : DestInv(d), dst \in Safe => VisitInv,
         NEW p \in Suffix, ForeignSender(p)
  PROVE  (\A d \in Safe : DestInv(d)') /\ (dst' \in Safe => VisitInv')
<1>1. /\ UNCHANGED <<held, exists, token, wire>> /\ SameSource
      /\ UNCHANGED <<pc, dst, listing, asked, queue, base, cur, todo, collecting>>
  BY ForeignStep DEF destVars, senderVars, visitVars, SameSource
<1>2. \A d \in Safe : \A q \in Placeholders(d) :
         MarksOf(q) \subseteq MarksOf(q)' /\ done[q] \subseteq done'[q]
  BY ForeignStep DEF MarksOf, Placeholders, Safe
<1>3. ASSUME NEW d \in Safe PROVE DestInv(d)'
  BY <1>1, <1>2, <1>3, DestInvFrame
<1>4. ASSUME dst \in Safe PROVE VisitInv'
  BY <1>1, <1>2, <1>4, VisitInvFrame
<1> QED
  BY <1>1, <1>3, <1>4

\* The source is recreated: nothing is covered any more, and nothing has to be.
LEMMA RebuildKeepsChainInv ==
  ASSUME TypeOK, \A d \in Safe : DestInv(d), RebuildSource
  PROVE  (\A d \in Safe : DestInv(d)') /\ (dst' \in Safe => VisitInv')
<1>1. /\ UNCHANGED <<taken, held, exists, token, wire, pc>>
      /\ born' = taken /\ pc = "idle"
  BY DEF RebuildSource, Rebuild, destVars
<1>2. VisitInv'
  BY <1>1
  DEF VisitInv, ListingCurrent, AskedForward, QueueForward, CurCovered, AfterSettled
<1>3. ASSUME NEW d \in Safe PROVE DestInv(d)'
  <2>1. DestInv(d) /\ held[d] \subseteq 1 .. taken /\ taken \in Nat
    BY <1>3, MaxSnapAssumption DEF DestInv, HeldExists, TypeOK, SourceTypeOK
  <2>2. \A g \in 0 .. taken : Covered(d, g)'
    BY <1>1, <2>1 DEF Covered
  <2>3. \A g : Newest(d, g)' <=> Newest(d, g)
    BY <1>1 DEF Newest
  <2>4. \A t \in Nat : \A f : Forward(d, t, f) => Forward(d, t, f)' /\ Covered(d, t)'
    BY <1>1, <2>1, <2>2 DEF Forward
  <2>5. HeldExists(d)' /\ TipCovered(d)'
    BY <1>1, <2>1, <2>2 DEF DestInv, HeldExists, TipCovered, Newest
  <2>6. TokenCovered(d)'
    <3>1. token[d].target \in Nat
      BY MaxSnapAssumption DEF TypeOK, DestTypeOK, Token, Guid, Safe
    <3> QED
      BY <1>1, <2>1, <2>3, <2>4, <3>1 DEF DestInv, TokenCovered, NoToken
  <2>7. WireCovered(d)'
    <3>1. \A r \in wire[d] : r.target \in Nat
      BY MaxSnapAssumption DEF TypeOK, Stream, Safe
    <3> QED
      BY <1>1, <2>1, <2>4, <3>1 DEF DestInv, WireCovered
  <2> QED
    BY <2>5, <2>6, <2>7 DEF DestInv
<1> QED
  BY <1>2, <1>3

\* Every step keeps the invariant.
LEMMA ChainInvNext ==
  TypeOK /\ TypeOK' /\ CheckpointInv /\ ChainInv /\ [Next]_vars => ChainInv'
<1> SUFFICES ASSUME TypeOK, TypeOK', CheckpointInv, ChainInv, [Next]_vars
             PROVE  (\A d \in Safe : DestInv(d)') /\ (dst' \in Safe => VisitInv')
  BY DEF ChainInv
<1>2. (\A d \in Safe : DestInv(d)) /\ (dst \in Safe => VisitInv)
  BY DEF ChainInv
<1>3. CASE \/ StartRun
           \/ \E d \in Dst : FillSources(d)
           \/ QueryDataset
           \/ \E g \in Guid : PlanResume(g) \/ PlanStreams(g)
           \/ \E s \in Guid : NextSnap(s)
           \/ QueueDone
           \/ StartSend
           \/ \E p \in Suffix : Collected(p)
           \/ StreamDone
           \/ ResumeDone
  BY <1>2, <1>3, ChoosingKeepsChainInv
<1>4. ASSUME NEW p \in Suffix, SetBefore(p)
      PROVE  (\A d \in Safe : DestInv(d)') /\ (dst' \in Safe => VisitInv')
  BY <1>2, <1>4, SetBeforeKeepsChainInv
<1>5. CASE SendOk
  BY <1>2, <1>5, SendOkKeepsChainInv
<1>6. ASSUME NEW p \in Suffix, SetAfter(p)
      PROVE  (\A d \in Safe : DestInv(d)') /\ (dst' \in Safe => VisitInv')
  <2>1. todo \subseteq Placeholders(dst)
    BY <1>6 DEF SetAfter, CheckpointInv
  <2> QED
    BY <1>2, <1>6, <2>1, SetAfterKeepsChainInv
<1>7. ASSUME NEW p \in Suffix, Collect(p)
      PROVE  (\A d \in Safe : DestInv(d)') /\ (dst' \in Safe => VisitInv')
  <2>1. collecting \subseteq Placeholders(dst)
    BY <1>7 DEF Collect, CheckpointInv
  <2> QED
    BY <1>2, <1>7, <2>1, CollectKeepsChainInv
<1>8. CASE \/ \E g \in Guid : PlanRefused(g)
           \/ SendImpossible \/ SendRejected \/ SetAfterRefused
           \/ TooManyRetries \/ SyncRefused
  <2>1. Refuse
    BY <1>8 DEF PlanRefused, SendImpossible, SendRejected, SetAfterRefused, TooManyRetries,
                SyncRefused
  <2> QED
    BY <1>2, <2>1, RefuseKeepsChainInv
<1>9. CASE Fail \/ Crash
  BY <1>2, <1>9, FaultKeepsChainInv
<1>10. ASSUME NEW e \in Dst, NEW r \in wire[e],
              LateReceive(e, r) \/ LateReceivePartly(e, r) \/ LateReceiveLost(e, r)
       PROVE  (\A d \in Safe : DestInv(d)') /\ (dst' \in Safe => VisitInv')
  BY <1>2, <1>10, LateKeepsChainInv
<1>11. CASE \/ NothingToSync
            \/ SendPlaceholders \/ SyncBroken
            \/ Take
            \/ \E s \in Guid : PruneSnapshot(s)
            \/ UNCHANGED vars
  BY <1>2, <1>11, OthersKeepChainInv
<1>12. CASE RebuildSource
  BY <1>2, <1>12, RebuildKeepsChainInv
<1>13. ASSUME NEW p \in Suffix, ForeignSender(p)
       PROVE  (\A d \in Safe : DestInv(d)') /\ (dst' \in Safe => VisitInv')
  BY <1>2, <1>13, ForeignKeepsChainInv
<1> QED
  BY <1>3, <1>4, <1>5, <1>6, <1>7, <1>8, <1>9, <1>10, <1>11, <1>12, <1>13
  DEF Next, Sender, Environment

-----------------------------------------------------------------------------
(* Nothing is overwritten, and checkpoints are truthful                    *)

\* Without -F, zfs receive removes no snapshot.
LEMMA ZfsReceiveKeeps ==
  ASSUME TypeOK, NEW e \in Dst, NEW r \in Stream, ZfsReceive(e, r), NEW d \in Dst \ ForceOverwrite
  PROVE  held[d] \subseteq held'[d]
<1>1. /\ held' = [held EXCEPT ![e] = Kept(e, r) \union {r.target}]
      /\ DOMAIN held = Dst
  BY DEF ZfsReceive, TypeOK, DestTypeOK
<1>2. CASE d = e
  BY <1>1, <1>2 DEF Kept, MayOverwrite
<1>3. CASE d # e
  BY <1>1, <1>3
<1> QED
  BY <1>2, <1>3

\* No step removes a snapshot from a destination that may not be overwritten.
LEMMA HeldGrows ==
  ASSUME TypeOK, [Next]_vars, NEW d \in Dst \ ForceOverwrite
  PROVE  held[d] \subseteq held'[d]
<1>1. CASE SendOk
  BY <1>1, ZfsReceiveKeeps DEF SendOk, TypeOK
<1>2. ASSUME NEW e \in Dst, NEW r \in wire[e], LateReceive(e, r)
      PROVE  held[d] \subseteq held'[d]
  <2>1. r \in Stream
    BY DEF TypeOK
  <2> QED
    BY <1>2, <2>1, ZfsReceiveKeeps DEF LateReceive
<1>3. ASSUME Next, ~SendOk, ~ \E e \in Dst : \E r \in wire[e] : LateReceive(e, r)
      PROVE  UNCHANGED held
  BY <1>3
  DEF Next, Sender, Environment, StartRun, FillSources, QueryDataset, PlanResume, PlanStreams,
      PlanRefused, NextSnap, QueueDone, SetBefore, StartSend, SendImpossible, SendRejected,
      SetAfter, Collect, Collected, SetAfterRefused, StreamDone, ResumeDone, TooManyRetries,
      NothingToSync, SendPlaceholders, SetPlaceholders, SetPlaceholdersPartly, SyncBroken,
      SyncRefused, Fail, Crash,
      LateReceivePartly, ZfsReceivePartly, LateReceiveLost, Take, PruneSnapshot, ForeignSender,
      RebuildSource, Refuse, destVars
<1> QED
  BY <1>1, <1>2, <1>3 DEF vars, destVars

\* No checkpoint is set initially.
LEMMA CheckpointInvInit == Init => CheckpointInv
  BY DEF Init, SourceInit, CheckpointInv, CheckpointTruthful

\* Every step keeps the checkpoints truthful: they are set only after the stream
\* has arrived.
LEMMA CheckpointInvNext == TypeOK /\ CheckpointInv /\ [Next]_vars => CheckpointInv'
<1> SUFFICES ASSUME TypeOK, CheckpointInv, [Next]_vars PROVE CheckpointInv'
  OBVIOUS
<1>1. \A p \in Suffix : Owner[p] \in Dst \ ForceOverwrite => held[Owner[p]] \subseteq held'[Owner[p]]
  BY HeldGrows
\* A step that adds no checkpoint and is not in the phase that adds them.
<1>2. ASSUME \A p \in Suffix : done'[p] \subseteq done[p], pc' # "after"
      PROVE  CheckpointInv'
  BY <1>1, <1>2 DEF CheckpointInv, CheckpointTruthful
\* A step of somebody else.
<1>3. ASSUME \A p \in Suffix : done'[p] \subseteq done[p], UNCHANGED <<pc, dst, cur>>,
             todo' \subseteq todo, collecting' \subseteq collecting
      PROVE  CheckpointInv'
  <2>1. CheckpointTruthful'
    BY <1>1, <1>3 DEF CheckpointInv, CheckpointTruthful
  <2>2. ASSUME pc = "after", dst \notin ForceOverwrite PROVE cur'.target \in held'[dst']
    BY <1>3, <2>2, HeldGrows DEF CheckpointInv, TypeOK
  <2> QED
    BY <1>3, <2>1, <2>2 DEF CheckpointInv, Placeholders
<1>4. CASE SendOk
  <2>1. /\ dst' = dst /\ cur' = cur /\ todo' = Placeholders(dst) /\ collecting' = {}
        /\ UNCHANGED done /\ dst \in Dst /\ cur \in Stream /\ ZfsReceive(dst, cur)
    BY <1>4 DEF SendOk, TypeOK, sourceVars
  <2>2. cur.target \in held'[dst]
    BY <2>1 DEF ZfsReceive, TypeOK, DestTypeOK
  <2>3. CheckpointTruthful'
    BY <1>1, <2>1 DEF CheckpointInv, CheckpointTruthful
  <2> QED
    BY <2>1, <2>2, <2>3 DEF CheckpointInv, Placeholders
<1>5. ASSUME NEW p \in Suffix, SetAfter(p) PROVE CheckpointInv'
  <2>1. /\ UNCHANGED <<pc, dst, cur, held>> /\ pc = "after" /\ p \in Placeholders(dst)
        /\ todo' \subseteq todo /\ collecting' = {p}
        /\ done' = [done EXCEPT ![p] = @ \union {cur.target}]
    BY <1>5 DEF SetAfter, ZfsSetPlaceholder, CheckpointInv, destVars
  <2>2. CheckpointTruthful'
    BY <2>1 DEF CheckpointInv, CheckpointTruthful, Placeholders, TypeOK, SourceTypeOK
  <2> QED
    BY <2>1, <2>2 DEF CheckpointInv, Placeholders
<1>6. ASSUME NEW p \in Suffix, Collect(p) \/ Collected(p) PROVE CheckpointInv'
  <2>1. UNCHANGED <<pc, dst, cur, todo>> /\ collecting' \subseteq collecting
    BY <1>6 DEF Collect, Collected, visitVars
  <2>2. \A q \in Suffix : done'[q] \subseteq done[q]
    BY <1>6
    DEF Collect, Collected, ZfsDestroyBookmark, GarbageDone, sourceVars, TypeOK, SourceTypeOK
  <2> QED
    BY <1>3, <2>1, <2>2
<1>7. ASSUME NEW p \in Suffix, SetBefore(p) PROVE CheckpointInv'
  BY <1>2, <1>7 DEF SetBefore, ZfsSetBeforeBookmark
<1>8. CASE \/ StartRun
           \/ \E d \in Dst : FillSources(d)
           \/ QueryDataset
           \/ \E g \in Guid : PlanResume(g) \/ PlanStreams(g) \/ PlanRefused(g)
           \/ \E s \in Guid : NextSnap(s)
           \/ QueueDone \/ StartSend \/ SendImpossible \/ SendRejected \/ SetAfterRefused
           \/ StreamDone \/ ResumeDone \/ TooManyRetries
           \/ NothingToSync \/ SendPlaceholders \/ SyncBroken \/ SyncRefused
           \/ Fail \/ Crash
  <2>1. pc' # "after" /\ UNCHANGED done
    BY <1>8
    DEF StartRun, FillSources, QueryDataset, PlanResume, PlanStreams, PlanRefused, NextSnap,
        QueueDone, StartSend, SendImpossible, SendRejected, SetAfterRefused, StreamDone,
        ResumeDone, TooManyRetries, NothingToSync, SendPlaceholders, SyncBroken, SyncRefused, Fail, Crash,
        Refuse, Return, ForgetVisit, sourceVars
  <2> QED
    BY <1>2, <2>1
<1>9. CASE \/ \E d \in Dst : \E r \in wire[d] :
                LateReceive(d, r) \/ LateReceivePartly(d, r) \/ LateReceiveLost(d, r)
           \/ Take
           \/ \E s \in Guid : PruneSnapshot(s)
           \/ UNCHANGED vars
  <2>1. UNCHANGED <<done, pc, dst, cur, todo, collecting>>
    BY <1>9 DEF LateReceive, LateReceivePartly, LateReceiveLost, Take, TakeSnapshot, bookmarks,
                PruneSnapshot, Prune, vars, sourceVars, senderVars, visitVars
  <2> QED
    BY <1>3, <2>1
<1>10. CASE RebuildSource
  BY <1>2, <1>10 DEF RebuildSource, Rebuild
<1>11. ASSUME NEW p \in Suffix, ForeignSender(p) PROVE CheckpointInv'
  <2>1. /\ UNCHANGED <<held, pc, dst, cur, todo, collecting>>
        /\ \A q \in Suffix : Owner[q] \in Dst => done'[q] = done[q]
    BY <1>11, ForeignStep DEF destVars, senderVars, visitVars
  <2> QED
    BY <2>1 DEF CheckpointInv, CheckpointTruthful, Placeholders
<1> QED
  BY <1>4, <1>5, <1>6, <1>7, <1>8, <1>9, <1>10, <1>11 DEF Next, Sender, Environment

-----------------------------------------------------------------------------
(* Theorems                                                                *)

\* A checkpoint bookmark is never set for a snapshot its destination lacks.
THEOREM CheckpointsTruthful == Spec => []CheckpointTruthful
<1>1. Init => TypeOK /\ CheckpointInv
  BY TypeOKInit, CheckpointInvInit
<1>2. TypeOK /\ CheckpointInv /\ [Next]_vars => TypeOK' /\ CheckpointInv'
  BY TypeOKNext, CheckpointInvNext
<1>3. CheckpointInv => CheckpointTruthful
  BY DEF CheckpointInv
<1> QED
  BY <1>1, <1>2, <1>3, PTL DEF Spec

\* A destination outside force_overwrite_datasets keeps every snapshot it has
\* received, whatever happens to the source.
THEOREM NothingIsOverwritten == Spec => NothingOverwritten
<1>1. TypeOK /\ [Next]_vars => [\A d \in Dst \ ForceOverwrite : held[d] \subseteq held'[d]]_vars
  BY HeldGrows
<1> QED
  BY <1>1, TypeCorrect, PTL DEF Spec, NothingOverwritten

\* Covered bookmarks are what the chain needs.
LEMMA ChainInvImplies == TypeOK /\ ChainInv => ChainIntact
<1> SUFFICES ASSUME TypeOK, ChainInv, NEW d \in Dst \ ForceOverwrite, NEW g \in born + 1 .. MaxSnap,
                    Newest(d, g)
             PROVE  g \in Nameable
  BY DEF ChainIntact
<1>1. g \in Guid \ {0} /\ g > born
  BY MaxSnapAssumption DEF TypeOK, SourceTypeOK, Guid
<1>2. Covered(d, g)
  BY <1>1 DEF ChainInv, Safe, DestInv, TipCovered
<1>3. PICK p \in Suffix : Owner[p] = d
  BY OwnerAssumption
<1> QED
  BY <1>1, <1>2, <1>3 DEF Covered, Placeholders, Nameable

\* The main result: for every number of destinations, suffixes, snapshots and
\* failures, and however snapshots are pruned meanwhile, the source never loses
\* the base from which a destination's next incremental stream starts.
THEOREM ChainStaysIntact == Spec => []ChainIntact
<1>1. Init => TypeOK /\ CheckpointInv /\ ChainInv
  BY TypeOKInit, CheckpointInvInit, ChainInvInit
<1>2. TypeOK /\ CheckpointInv /\ ChainInv /\ [Next]_vars
        => TypeOK' /\ CheckpointInv' /\ ChainInv'
  BY TypeOKNext, CheckpointInvNext, ChainInvNext
<1> QED
  BY <1>1, <1>2, ChainInvImplies, PTL DEF Spec
=============================================================================
