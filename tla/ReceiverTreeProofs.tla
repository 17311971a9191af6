------------------------- MODULE ReceiverTreeProofs -------------------------
(***************************************************************************)
(* Theorems about ReceiverTree, for every tree, selection of filesystems,  *)
(* parallelism and number of failures.                                     *)
(***************************************************************************)
EXTENDS ReceiverTree, Numbers, FiniteSetTheorems, TLAPS

-----------------------------------------------------------------------------
(* Ancestors                                                               *)

\* The recursion behind Lineage has a solution: what lies in every set that
\* holds n and the parents of its members.
LEMMA LineageDef ==
  ASSUME NEW n \in Node
  PROVE  Lineage[n] = {n} \union (IF Parent[n] = Base THEN {} ELSE Lineage[Parent[n]])
<1> DEFINE Closed(C) == \A k \in C : Parent[k] # Base => Parent[k] \in C
<1> DEFINE Up(m) == {k \in Node : \A C \in SUBSET Node : m \in C /\ Closed(C) => k \in C}
<1> DEFINE Eq(f) == f = [m \in Node |->
                           {m} \union (IF Parent[m] = Base THEN {} ELSE f[Parent[m]])]
<1>1. ASSUME NEW m \in Node
      PROVE  Up(m) = {m} \union (IF Parent[m] = Base THEN {} ELSE Up(Parent[m]))
  <2>1. CASE Parent[m] = Base
    <3>1. {m} \in SUBSET Node /\ Closed({m})
      BY <2>1
    <3> QED
      BY <2>1, <3>1
  <2>2. CASE Parent[m] # Base
    <3> DEFINE p == Parent[m]
    <3>1. p \in Node
      BY <2>2, TreeAssumption
    <3>2. ASSUME NEW k \in Up(p) PROVE k \in Up(m)
      <4> SUFFICES ASSUME NEW C \in SUBSET Node, m \in C, Closed(C) PROVE k \in C
        OBVIOUS
      <4>1. p \in C
        BY <2>2
      <4> QED
        BY <4>1
    <3>3. p \in Up(p) /\ \A k \in Up(p) : Parent[k] # Base => Parent[k] \in Up(p)
      BY <3>1, TreeAssumption
    <3> DEFINE D == {m} \union Up(p)
    <3>4. D \in SUBSET Node /\ m \in D /\ Closed(D)
      <4> HIDE DEF Up
      <4>1. Up(p) \subseteq Node
        BY DEF Up
      <4> QED
        BY <3>3, <4>1
    <3>5. Up(m) \subseteq D
      <4> HIDE DEF D, Closed
      <4> QED
        BY <3>4
    <3>6. m \in Up(m)
      OBVIOUS
    <3> HIDE DEF Up
    <3> QED
      BY <2>2, <3>2, <3>5, <3>6
  <2> QED
    BY <2>1, <2>2
<1>2. Eq([m \in Node |-> Up(m)])
  <2> DEFINE u == [m \in Node |-> Up(m)]
  <2> HIDE DEF Up
  <2>1. ASSUME NEW m \in Node
        PROVE  u[m] = {m} \union (IF Parent[m] = Base THEN {} ELSE u[Parent[m]])
    <3>1. Parent[m] = Base \/ Parent[m] \in Node
      BY TreeAssumption
    <3> QED
      BY <1>1, <3>1
  <2> QED
    BY <2>1
<1> HIDE DEF Up
<1>3. Lineage = CHOOSE f : Eq(f)
  BY DEF Lineage
<1> HIDE DEF Eq
<1>4. \E f : Eq(f)
  BY <1>2, Zenon
<1>5. Eq(Lineage)
  BY <1>3, <1>4, Zenon
<1> QED
  BY <1>5 DEF Eq

\* Induction down the tree, about a set: parents have smaller positions.
LEMMA DownTheTree ==
  ASSUME NEW S, \A n \in Node : (Parent[n] # Base => Parent[n] \in S) => n \in S
  PROVE  Node \subseteq S
<1> SUFFICES ASSUME NEW n \in Node, n \notin S PROVE FALSE
  OBVIOUS
<1> DEFINE T == {Position[m] : m \in Node \ S}
<1>0. Cardinality(Node) \in Nat
  BY FS_CardinalityType, OrderAssumption
<1>1. \A m \in Node : Position[m] \in Nat
  BY <1>0, OrderAssumption
<1>2. T \subseteq Nat /\ T # {}
  BY <1>1
<1>3. PICK i \in T : \A t \in T : i <= t
  <2> HIDE DEF T
  <2> QED
    BY <1>2, Least
<1>4. PICK m \in Node \ S : i = Position[m]
  BY <1>3
<1>5. Parent[m] # Base /\ Parent[m] \notin S
  BY <1>4
<1>6. Parent[m] \in Node \ S /\ Position[Parent[m]] < Position[m]
  BY <1>4, <1>5, TreeAssumption, OrderAssumption
<1>7. Position[Parent[m]] \in T /\ Position[Parent[m]] \in Nat /\ Position[m] \in Nat
  BY <1>1, <1>4, <1>6
<1> QED
  BY <1>3, <1>4, <1>6, <1>7

\* The datasets above f: each but f has the next one towards f below it, the
\* parent of each is there too, and so is whatever lies above it.
LEMMA Ancestors ==
  ASSUME NEW f \in Node
  PROVE  /\ Lineage[f] \subseteq Node
         /\ f \in Lineage[f]
         /\ \A m \in Lineage[f] :
               /\ Lineage[m] \subseteq Lineage[f]
               /\ Parent[m] # Base => Parent[m] \in Lineage[f]
               /\ m # f => /\ Position[m] < Position[f]
                           /\ \E k \in Lineage[f] : Parent[k] = m
<1> DEFINE Fine(n) ==
      /\ Lineage[n] \subseteq Node
      /\ n \in Lineage[n]
      /\ \A m \in Lineage[n] :
            /\ Lineage[m] \subseteq Lineage[n]
            /\ Parent[m] # Base => Parent[m] \in Lineage[n]
            /\ m # n => /\ Position[m] < Position[n]
                        /\ \E k \in Lineage[n] : Parent[k] = m
<1> DEFINE S == {n \in Node : Fine(n)}
<1>1. ASSUME NEW n \in Node, Parent[n] # Base => Parent[n] \in S PROVE n \in S
  <2>1. CASE Parent[n] = Base
    <3>1. Lineage[n] = {n}
      BY <2>1, LineageDef
    <3> QED
      BY <2>1, <3>1
  <2>2. CASE Parent[n] # Base
    <3> DEFINE p == Parent[n]
    <3>1. p \in Node /\ Fine(p) /\ Position[p] < Position[n]
      BY <1>1, <2>2, OrderAssumption
    <3>2. Lineage[n] = {n} \union Lineage[p]
      BY <2>2, LineageDef
    <3>3. \A m \in Node : Position[m] \in Nat
      <4>1. Cardinality(Node) \in Nat
        BY FS_CardinalityType, OrderAssumption
      <4> QED
        BY <4>1, OrderAssumption
    <3>4. ASSUME NEW m \in Lineage[n]
          PROVE  /\ Lineage[m] \subseteq Lineage[n]
                 /\ Parent[m] # Base => Parent[m] \in Lineage[n]
                 /\ m # n => /\ Position[m] < Position[n]
                             /\ \E k \in Lineage[n] : Parent[k] = m
      <4>1. CASE m = n
        BY <3>1, <3>2, <4>1
      <4>2. CASE m # n /\ m = p
        BY <3>1, <3>2, <4>2
      <4>3. CASE m # n /\ m # p
        <5>1. m \in Lineage[p] /\ m \in Node
          BY <3>1, <3>2, <4>3
        <5>2. Position[m] < Position[p] /\ Position[m] \in Nat /\ Position[p] \in Nat /\ Position[n] \in Nat
          BY <3>1, <3>3, <4>3, <5>1
        <5>3. Position[m] < Position[n]
          BY <3>1, <5>2
        <5> QED
          BY <3>1, <3>2, <4>3, <5>1, <5>3
      <4> QED
        BY <4>1, <4>2, <4>3
    <3> QED
      BY <3>1, <3>2, <3>4
  <2> QED
    BY <2>1, <2>2
<1> HIDE DEF S
<1>2. f \in S
  BY <1>1, DownTheTree
<1> QED
  BY <1>2 DEF S

\* Positions are numbers, so the order of the list is total.
LEMMA Positions ==
  /\ \A n \in Node : Position[n] \in Nat
  /\ \A m, n \in Node : m # n => Position[m] # Position[n]
<1>1. Cardinality(Node) \in Nat
  BY FS_CardinalityType, OrderAssumption
<1> QED
  BY <1>1, OrderAssumption

-----------------------------------------------------------------------------
(* No unencrypted dataset below an encrypted one                           *)

\* The invariant holds initially.
LEMMA TreeInit == Init => TreeInv
  BY TreeAssumption
  DEF Init, TreeInv, DestState, PC, NothingPlainBelowEncrypted, Exists

\* Steps of the sender, and those that only move a goroutine to a place other
\* than its stream or zfs create, leave the destination alone.
LEMMA QuietSteps ==
  ASSUME TreeInv, UNCHANGED dest, pc' \in [Node -> PC], DOMAIN at' = Node,
         \A f \in Node : pc'[f] = "stream" => pc[f] = "stream",
         \A f \in Node : pc'[f] = "make" => pc[f] = "make" /\ at'[f] = at[f]
  PROVE  TreeInv'
<1>1. \A f \in Node : pc'[f] = "make" => StaysPlain(Parent[at[f]]) /\ at'[f] = at[f]
  BY DEF TreeInv
<1>2. \A f \in Node : pc'[f] = "make" => StaysPlain(Parent[at[f]])'
  BY <1>1 DEF StaysPlain
<1> QED
  BY <1>2 DEF TreeInv, NothingPlainBelowEncrypted, IsEncrypted, Exists

\* What is asked before zfs create stays true until then.
LEMMA CheckStep ==
  ASSUME TreeInv, NEW f \in Node, CheckEncryption(f)
  PROVE  TreeInv'
<1> DEFINE n == at[f]
<1>1. UNCHANGED <<dest, at>> /\ pc' \in [Node -> PC] /\ \A g \in Node : g # f => pc'[g] = pc[g]
  BY DEF CheckEncryption, TreeInv, PC
<1>2. pc'[f] # "stream"
  BY DEF CheckEncryption, TreeInv
<1>3. ASSUME pc'[f] = "make" PROVE StaysPlain(Parent[n])
  <2>1. ~RefusesToCreate(n)
    BY <1>3 DEF CheckEncryption, TreeInv
  <2>2. CASE Parent[n] \in Encrypted
    <3>1. Parent[n] \in Node /\ Parent[n] # Base
      BY <2>2, TreeAssumption
    <3>2. dest[Parent[n]] \in DestState
      BY <3>1 DEF TreeInv
    <3>3. Exists(Parent[n]) /\ ~IsEncrypted(Parent[n])
      BY <2>1, <3>1 DEF RefusesToCreate
    <3> QED
      BY <2>2, <3>1, <3>2, <3>3 DEF Exists, IsEncrypted, DestState, StaysPlain
  <2>3. CASE Parent[n] \notin Encrypted
    BY <2>3 DEF StaysPlain
  <2> QED
    BY <2>2, <2>3
<1>4. \A g \in Node : pc'[g] = "make" => StaysPlain(Parent[at[g]])
  BY <1>1, <1>3 DEF TreeInv
<1>5. \A g \in Node : pc'[g] = "make" => StaysPlain(Parent[at[g]])'
  BY <1>1, <1>4 DEF StaysPlain
<1> QED
  BY <1>1, <1>2, <1>5 DEF TreeInv, NothingPlainBelowEncrypted, IsEncrypted, Exists

\* A parent is created, or its creation fails.
LEMMA CreateStep ==
  ASSUME TreeInv, NEW f \in Node, ZfsCreate(f)
  PROVE  TreeInv'
<1> DEFINE n == at[f]
<1>1. /\ pc' = [pc EXCEPT ![f] = "verify"] /\ at' = at /\ DOMAIN at' = Node
      /\ pc' \in [Node -> PC]
      /\ \A g \in Node : pc'[g] \in {"stream", "make"} => pc'[g] = pc[g]
  BY DEF ZfsCreate, TreeInv, PC
<1>2. CASE UNCHANGED dest
  BY <1>1, <1>2, QuietSteps
<1>3. CASE ~Exists(n) /\ Exists(Parent[n]) /\ dest' = [dest EXCEPT ![n] = "empty"]
  <2>1. StaysPlain(Parent[n])
    BY DEF ZfsCreate, TreeInv
  <2>2. CASE n \notin Node
    BY <1>2, <1>3, <2>2 DEF TreeInv
  <2>3. CASE n \in Node
    <3> HIDE DEF n
    <3>1. dest[n] = "absent" /\ Exists(Parent[n])
      BY <1>3 DEF Exists
    <3>2. /\ dest' \in [Node -> DestState] /\ dest'[n] = "empty"
          /\ \A m \in Node : m # n => dest'[m] = dest[m]
      BY <1>3, <2>3 DEF TreeInv, DestState
    <3>3. NothingPlainBelowEncrypted'
      <4> SUFFICES ASSUME NEW m \in Node, dest'[m] = "empty", Parent[m] # Base
                   PROVE  ~IsEncrypted(Parent[m])'
        BY DEF NothingPlainBelowEncrypted
      <4>1. Parent[m] \in Node
        BY TreeAssumption
      <4>2. CASE Parent[m] = n
        BY <3>2, <4>2 DEF IsEncrypted
      <4>3. CASE Parent[m] # n /\ m = n
        BY <2>1, <3>2, <4>1, <4>3 DEF IsEncrypted, StaysPlain
      <4>4. CASE Parent[m] # n /\ m # n
        BY <3>2, <4>1, <4>4 DEF TreeInv, NothingPlainBelowEncrypted, IsEncrypted
      <4> QED
        BY <4>2, <4>3, <4>4
    <3>4. \A m \in Node : Exists(m)' => Exists(Parent[m])'
      BY <3>1, <3>2, TreeAssumption DEF TreeInv, Exists
    <3>5. \A g \in Node : pc'[g] = "stream" => dest'[g] = "receiving"
      BY <1>1, <3>1, <3>2 DEF TreeInv
    <3>6. \A g \in Node : pc'[g] = "make" => StaysPlain(Parent[at[g]])'
      BY <1>1, <3>2, TreeAssumption DEF TreeInv, StaysPlain
    <3> QED
      BY <1>1, <3>2, <3>3, <3>4, <3>5, <3>6 DEF TreeInv
  <2> QED
    BY <2>2, <2>3
<1> QED
  BY <1>2, <1>3 DEF ZfsCreate

\* A dataset changes its state, and it is not one that an existing child
\* would mind: the receiver's own steps.
LEMMA OwnStep ==
  ASSUME TreeInv, NEW f \in Node, NEW st \in {"absent", "partial", "receiving", "received"},
         dest' = [dest EXCEPT ![f] = st],
         pc' \in [Node -> PC],
         \A g \in Node : g # f => pc'[g] = pc[g],
         pc'[f] = "stream" => st = "receiving",
         pc'[f] # "make", UNCHANGED at,
         Exists(Parent[f]),
         f \in Encrypted => dest[f] # "empty",
         \/ \A n \in Node : Parent[n] = f => dest[n] = "absent"
         \/ st # "absent" /\ (IsEncrypted(f) \/ f \notin Encrypted)
  PROVE  TreeInv'
<1>1. /\ dest' \in [Node -> DestState] /\ dest'[f] = st
      /\ \A n \in Node : n # f => dest'[n] = dest[n]
  BY DEF TreeInv, DestState
<1>2. NothingPlainBelowEncrypted'
  <2> SUFFICES ASSUME NEW m \in Node, dest'[m] = "empty", Parent[m] # Base
               PROVE  ~IsEncrypted(Parent[m])'
    BY DEF NothingPlainBelowEncrypted
  <2>1. m # f /\ dest[m] = "empty" /\ ~IsEncrypted(Parent[m]) /\ Parent[m] \in Node
    BY <1>1, TreeAssumption DEF TreeInv, NothingPlainBelowEncrypted
  <2>2. CASE Parent[m] = f
    BY <2>1, <2>2 DEF IsEncrypted
  <2>3. CASE Parent[m] # f
    BY <1>1, <2>1, <2>3 DEF IsEncrypted
  <2> QED
    BY <2>2, <2>3
<1>3. \A n \in Node : Exists(n)' => Exists(Parent[n])'
  <2> SUFFICES ASSUME NEW n \in Node, Exists(n)'
               PROVE  Exists(Parent[n])'
    OBVIOUS
  <2>1. CASE Parent[n] = f /\ n # f
    <3>1. Exists(n)
      BY <1>1, <2>1, TreeAssumption DEF Exists
    <3>2. st # "absent"
      BY <2>1, <3>1, TreeAssumption DEF Exists
    <3> QED
      BY <1>1, <2>1, <3>2 DEF Exists
  <2>2. CASE n = f /\ Parent[n] = f
    BY <1>1, <2>2 DEF Exists
  <2>3. CASE Parent[n] # f
    BY <1>1, <2>3, TreeAssumption DEF TreeInv, Exists
  <2> QED
    BY <2>1, <2>2, <2>3
<1>4. \A g \in Node : pc'[g] = "stream" => dest'[g] = "receiving"
  BY <1>1 DEF TreeInv
<1>5. \A g \in Node : pc'[g] = "make" => StaysPlain(Parent[at[g]])'
  BY <1>1, TreeAssumption DEF TreeInv, StaysPlain
<1> QED
  BY <1>1, <1>2, <1>3, <1>4, <1>5 DEF TreeInv

\* zfs receive starts, ends or breaks.
LEMMA ReceiveSteps ==
  ASSUME TreeInv, NEW f \in Node, BeginReceive(f) \/ FinishReceive(f) \/ BreakReceive(f)
  PROVE  TreeInv'
<1>1. CASE BeginReceive(f) /\ Receivable(f)
  <2>1. dest[f] = "absent" => \A n \in Node : Parent[n] = f => dest[n] = "absent"
    BY TreeAssumption DEF TreeInv, Exists
  <2>2. dest[f] = "partial" => IsEncrypted(f) \/ f \notin Encrypted
    BY DEF IsEncrypted
  <2> QED
    BY <1>1, <2>1, <2>2, OwnStep DEF BeginReceive, Receivable, TreeInv, PC
<1>2. CASE BeginReceive(f) /\ ~Receivable(f)
  BY <1>2, QuietSteps DEF BeginReceive, Leave, TreeInv, PC
<1>3. CASE FinishReceive(f)
  <2>1. dest[f] = "receiving" /\ Exists(Parent[f])
    BY <1>3, TreeAssumption DEF FinishReceive, TreeInv, Exists
  <2> QED
    BY <1>3, <2>1, OwnStep DEF FinishReceive, Leave, TreeInv, PC, IsEncrypted
<1>4. CASE BreakReceive(f)
  <2>1. dest[f] = "receiving" /\ Exists(Parent[f])
    BY <1>4, TreeAssumption DEF BreakReceive, TreeInv, Exists
  <2>2. pc' = [pc EXCEPT ![f] = "done"]
    BY <1>4 DEF BreakReceive, Leave
  <2> QED
    BY <1>4, <2>1, <2>2, OwnStep DEF BreakReceive, TreeInv, PC, IsEncrypted
<1> QED
  BY <1>1, <1>2, <1>3, <1>4

\* Every step preserves the invariant.
LEMMA TreeNext == TreeInv /\ [Next]_treeVars => TreeInv'
<1> SUFFICES ASSUME TreeInv, [Next]_treeVars PROVE TreeInv'
  OBVIOUS
<1>1. CASE SenderStep
  BY <1>1, QuietSteps DEF SenderStep, StartRun, StartFs, EndRun, TreeInv, PC
<1>2. ASSUME NEW f \in Node,
             Ask(f) \/ Climb(f) \/ Created(f) \/ CreationFails(f) \/ VisitFails(f)
      PROVE  TreeInv'
  <2>1. /\ UNCHANGED dest
        /\ \/ \E x \in PC \ {"stream", "make"} : pc' = [pc EXCEPT ![f] = x]
           \/ pc' = pc /\ pc[f] = "climb"
        /\ \/ UNCHANGED at
           \/ \E x : at' = [at EXCEPT ![f] = x]
    BY <1>2 DEF Ask, Climb, Created, CreationFails, VisitFails, Leave, PC
  <2>2. pc' \in [Node -> PC] /\ \A g \in Node : pc'[g] \in {"stream", "make"} => g # f /\ pc'[g] = pc[g]
    BY <2>1 DEF TreeInv
  <2>3. DOMAIN at' = Node /\ \A g \in Node : g # f => at'[g] = at[g]
    BY <2>1 DEF TreeInv
  <2> QED
    BY <2>1, <2>2, <2>3, QuietSteps
<1>3. CASE UNCHANGED treeVars
  BY <1>3, QuietSteps DEF treeVars, TreeInv
<1> QED
  BY <1>1, <1>2, <1>3, CheckStep, CreateStep, ReceiveSteps DEF Next, ReceiverStep

\* However the receivers of a tree interleave, none leaves an unencrypted
\* dataset that checkParent created below an encrypted one.
THEOREM EncryptedTreesStayEncrypted == Spec => []NothingPlainBelowEncrypted
<1>1. TreeInv => NothingPlainBelowEncrypted
  BY DEF TreeInv
<1> QED
  BY <1>1, TreeInit, TreeNext, PTL DEF Spec
-----------------------------------------------------------------------------
(* Types, and the way up and down                                          *)

\* The way back down from n leads over a dataset above f, or to f itself.
LEMMA WayDown ==
  ASSUME NEW f \in Node, NEW n \in Lineage[f], n # f
  PROVE  Towards(f, n) \in Lineage[f] /\ Parent[Towards(f, n)] = n
<1>1. \E m \in Lineage[f] : Parent[m] = n
  BY Ancestors
<1> QED
  BY <1>1 DEF Towards

\* A set of filesystems has a cardinality.
LEMMA Counted ==
  ASSUME NEW S, S \subseteq Node
  PROVE  IsFiniteSet(S) /\ Cardinality(S) \in Nat /\ (Cardinality(S) = 0 => S = {})
<1>1. IsFiniteSet(S)
  BY FS_Subset, OrderAssumption
<1> QED
  BY <1>1, FS_CardinalityType, FS_EmptySet

\* The variables have their types initially.
LEMMA TypeInit == Init => TypeOK
<1>1. Init => faults \in 0 .. MaxFaults
  BY TreeBoundsAssumption DEF Init
<1> QED
  BY <1>1 DEF Init, TypeOK, DestState, PC

\* Every step keeps the types and the way.
LEMMA WayNext == TypeOK /\ WayInv /\ [Next]_treeVars => TypeOK' /\ WayInv'
<1> SUFFICES ASSUME TypeOK, WayInv, [Next]_treeVars PROVE TypeOK' /\ WayInv'
  OBVIOUS
<1> USE DEF TypeOK
<1>1. CASE StartRun
  <2>1. PICK failed \in SUBSET Include :
           /\ faults + Cardinality(failed) <= MaxFaults
           /\ faults' = faults + Cardinality(failed)
           /\ queue' = ExpandFsToProcess(Include \ failed)
    BY <1>1 DEF StartRun
  <2>2. Cardinality(failed) \in Nat
    BY Counted, TreeAssumption
  <2>3. faults' \in 0 .. MaxFaults
    BY <2>1, <2>2, TreeBoundsAssumption
  <2> QED
    BY <1>1, <2>1, <2>3 DEF StartRun, ExpandFsToProcess, WayInv
<1>2. CASE StartFs
  <2>1. PICK f \in queue : pc' = [pc EXCEPT ![f] = "ask"] /\ queue' = queue \ {f}
    BY <1>2 DEF StartFs
  <2>2. pc' \in [Node -> PC] /\ \A g \in Node : pc'[g] = IF g = f THEN "ask" ELSE pc[g]
    BY <2>1 DEF PC
  <2> QED
    BY <1>2, <2>1, <2>2 DEF StartFs, WayInv
<1>3. CASE EndRun
  BY <1>3 DEF EndRun, WayInv, PC
<1>4. ASSUME NEW f \in Node, ReceiverStep(f) \/ BreakReceive(f) \/ CreationFails(f) \/ VisitFails(f)
      PROVE  TypeOK' /\ WayInv'
  <2>1. /\ pc' \in [Node -> PC]
        /\ \A g \in Node : g # f => pc'[g] = pc[g]
    BY <1>4 DEF ReceiverStep, Ask, Climb, CheckEncryption, ZfsCreate, Created, BeginReceive,
                FinishReceive, BreakReceive, CreationFails, VisitFails, Leave, PC
  <2>2. \A g \in Node : g # f => at'[g] = at[g]
    BY <1>4 DEF ReceiverStep, Ask, Climb, CheckEncryption, ZfsCreate, Created, BeginReceive,
                FinishReceive, BreakReceive, CreationFails, VisitFails
  <2>3. /\ at' \in [Node -> Node]
        /\ pc'[f] \in {"climb", "create", "make", "verify"} => at'[f] \in Lineage[f]
        /\ pc'[f] \in {"make", "verify"} => at'[f] # f
    <3>1. CASE Ask(f)
      BY <3>1, Ancestors DEF Ask, Leave
    <3>2. CASE Climb(f)
      <4>1. at[f] \in Lineage[f]
        BY <3>2 DEF Climb, WayInv
      <4>2. Parent[at[f]] # Base => Parent[at[f]] \in Lineage[f] /\ Parent[at[f]] \in Node
        BY <4>1, Ancestors
      <4> QED
        BY <3>2, <4>1, <4>2 DEF Climb, Exists
    <3>3. CASE CheckEncryption(f) \/ ZfsCreate(f) \/ CreationFails(f)
      BY <3>3 DEF CheckEncryption, ZfsCreate, CreationFails, WayInv
    <3>4. CASE Created(f)
      <4>1. at[f] \in Lineage[f] /\ at[f] # f
        BY <3>4 DEF Created, WayInv
      <4>2. Towards(f, at[f]) \in Lineage[f] /\ Towards(f, at[f]) \in Node
        BY <4>1, WayDown, Ancestors
      <4> QED
        BY <3>4, <4>2 DEF Created, Leave
    <3>5. CASE BeginReceive(f) \/ FinishReceive(f) \/ BreakReceive(f) \/ VisitFails(f)
      BY <3>5 DEF BeginReceive, FinishReceive, BreakReceive, VisitFails, Leave
    <3> QED
      BY <1>4, <3>1, <3>2, <3>3, <3>4, <3>5 DEF ReceiverStep
  <2>4. dest' \in [Node -> DestState]
    BY <1>4 DEF ReceiverStep, Ask, Climb, CheckEncryption, ZfsCreate, Created, BeginReceive,
                FinishReceive, BreakReceive, CreationFails, VisitFails, DestState
  <2>5. UNCHANGED <<running, queue, par, first>> /\ faults' \in 0 .. MaxFaults
    BY <1>4, TreeBoundsAssumption
    DEF ReceiverStep, Ask, Climb, CheckEncryption, ZfsCreate, Created, BeginReceive,
        FinishReceive, BreakReceive, CreationFails, VisitFails
  <2>6. WayInv'
    BY <2>1, <2>2, <2>3 DEF WayInv
  <2> QED
    BY <2>1, <2>3, <2>4, <2>5, <2>6
<1>5. CASE UNCHANGED treeVars
  BY <1>5 DEF treeVars, WayInv
<1> QED
  BY <1>1, <1>2, <1>3, <1>4, <1>5 DEF Next, SenderStep

\* Whatever happens, the variables keep their types; at stays on the way from
\* the filesystem to the base, so checkParent never asks for a dataset above
\* the base, nor loses its way back down.
THEOREM TypeCorrect == Spec => []TypeOK
<1>1. Init => WayInv
  BY DEF Init, WayInv
<1> QED
  BY <1>1, TypeInit, WayNext, PTL DEF Spec
-----------------------------------------------------------------------------
(* The run, in the order of the list                                       *)

\* A goroutine that takes a step is active, and stays in the run.
LEMMA StepOfOne ==
  ASSUME TypeOK, NEW f \in Node,
         ReceiverStep(f) \/ BreakReceive(f) \/ CreationFails(f) \/ VisitFails(f)
  PROVE  /\ UNCHANGED <<running, queue, par, first>>
         /\ f \in Active /\ pc[f] # "idle" /\ pc'[f] # "idle"
         /\ \A g \in Node : g # f => pc'[g] = pc[g] /\ at'[g] = at[g]
<1>1. UNCHANGED <<running, queue, par, first>> /\ pc[f] \notin {"idle", "done"} /\ pc'[f] # "idle"
  BY DEF TypeOK, ReceiverStep, Ask, Climb, CheckEncryption, ZfsCreate, Created, BeginReceive,
         FinishReceive, BreakReceive, CreationFails, VisitFails, Leave
<1>2. \A g \in Node : g # f => pc'[g] = pc[g]
  BY DEF TypeOK, ReceiverStep, Ask, Climb, CheckEncryption, ZfsCreate, Created, BeginReceive,
         FinishReceive, BreakReceive, CreationFails, VisitFails, Leave
<1>3. \A g \in Node : g # f => at'[g] = at[g]
  BY DEF TypeOK, ReceiverStep, Ask, Climb, CheckEncryption, ZfsCreate, Created, BeginReceive,
         FinishReceive, BreakReceive, CreationFails, VisitFails
<1> QED
  BY <1>1, <1>2, <1>3 DEF Active

\* The list is worked off in its order.
LEMMA RunNext == TypeOK /\ RunInv /\ [Next]_treeVars => RunInv'
<1> SUFFICES ASSUME TypeOK, RunInv, [Next]_treeVars PROVE RunInv'
  OBVIOUS
<1>1. CASE StartRun
  BY <1>1 DEF StartRun, RunInv, Active
<1>2. CASE StartFs
  <2>1. PICK f \in queue : /\ \A g \in queue : Position[f] <= Position[g]
                           /\ pc' = [pc EXCEPT ![f] = "ask"]
                           /\ queue' = queue \ {f}
    BY <1>2 DEF StartFs
  <2>2. \A g \in Node : pc'[g] = IF g = f THEN "ask" ELSE pc[g]
    BY <2>1 DEF TypeOK
  <2>3. \A g \in Node, h \in queue' : pc'[g] # "idle" => Position[g] < Position[h]
    <3> SUFFICES ASSUME NEW g \in Node, NEW h \in queue', pc'[g] # "idle"
                 PROVE  Position[g] < Position[h]
      OBVIOUS
    <3>1. h \in queue /\ h # f /\ h \in Node /\ f \in Node
      BY <2>1 DEF TypeOK
    <3>2. CASE g = f
      <4>1. Position[f] <= Position[h] /\ Position[f] # Position[h]
        BY <2>1, <3>1, Positions
      <4> QED
        BY <3>1, <3>2, <4>1, Positions
    <3>3. CASE g # f
      BY <2>2, <3>1, <3>3 DEF RunInv
    <3> QED
      BY <3>2, <3>3
  <2>4. par = 1 => \A g, h \in Active' : g = h
    <3> SUFFICES ASSUME par = 1 PROVE \A g, h \in Active' : g = h
      OBVIOUS
    <3>1. Active \subseteq Node
      BY DEF Active
    <3>2. Cardinality(Active) < 1 /\ Cardinality(Active) \in Nat
      BY <1>2, <3>1, Counted DEF StartFs
    <3>3. Active = {}
      BY <3>1, <3>2, Counted
    <3> QED
      BY <2>2, <3>3 DEF Active
  <2> QED
    BY <1>2, <2>3, <2>4 DEF StartFs, RunInv
<1>3. CASE EndRun
  BY <1>3 DEF EndRun, RunInv, Active
<1>4. ASSUME NEW f \in Node, ReceiverStep(f) \/ BreakReceive(f) \/ CreationFails(f) \/ VisitFails(f)
      PROVE  RunInv'
  <2>1. /\ UNCHANGED <<running, queue, par, first>>
        /\ f \in Active /\ pc[f] # "idle" /\ pc'[f] # "idle"
        /\ \A g \in Node : g # f => pc'[g] = pc[g]
    BY <1>4, StepOfOne
  <2>2. Active' \subseteq Active
    BY <2>1 DEF Active
  <2>3. running /\ running'
    BY <2>1 DEF RunInv
  <2>4. \A g \in Node, h \in queue' : pc'[g] # "idle" => Position[g] < Position[h]
    BY <2>1 DEF RunInv
  <2>5. par' = 1 => \A g, h \in Active' : g = h
    BY <2>1, <2>2 DEF RunInv
  <2> QED
    BY <2>3, <2>4, <2>5 DEF RunInv
<1>5. CASE UNCHANGED treeVars
  BY <1>5 DEF treeVars, RunInv, Active
<1> QED
  BY <1>1, <1>2, <1>3, <1>4, <1>5 DEF Next, SenderStep
-----------------------------------------------------------------------------
(* The first run, when nothing fails                                       *)

\* Without a failure datasets only come into being: one that f receives, or
\* one above f that f creates.
LEMMA NothingLost ==
  ASSUME TypeOK, WayInv, NEW f \in Node, ReceiverStep(f)
  PROVE  /\ faults' = faults
         /\ \A n \in Node : n # f => \/ dest'[n] = dest[n]
                                     \/ /\ ZfsCreate(f) /\ n = at[f] /\ n \in Above(f)
                                        /\ dest[n] = "absent"
         /\ \A n : Exists(n) => Exists(n)'
<1>1. faults' = faults
  BY DEF ReceiverStep, Ask, Climb, CheckEncryption, ZfsCreate, Created, BeginReceive, FinishReceive
<1>2. CASE ZfsCreate(f)
  <2>1. at[f] \in Lineage[f] /\ at[f] # f /\ at[f] \in Node /\ at[f] # Base
    BY <1>2, TreeAssumption DEF ZfsCreate, WayInv, TypeOK
  <2>2. CASE UNCHANGED dest
    BY <1>1, <2>2 DEF Exists
  <2>3. CASE ~Exists(at[f]) /\ dest' = [dest EXCEPT ![at[f]] = "empty"]
    <3>1. dest[at[f]] = "absent"
      BY <2>1, <2>3 DEF Exists
    <3>2. \A n \in Node : dest'[n] = IF n = at[f] THEN "empty" ELSE dest[n]
      BY <2>1, <2>3 DEF TypeOK
    <3>3. \A n : n # at[f] => dest'[n] = dest[n]
      BY <2>3 DEF TypeOK
    <3>4. \A n : Exists(n) => Exists(n)'
      BY <2>1, <2>3, <3>2, <3>3 DEF Exists
    <3> QED
      BY <1>1, <1>2, <2>1, <3>1, <3>2, <3>4 DEF Above
  <2> QED
    BY <1>2, <2>2, <2>3 DEF ZfsCreate
<1>3. CASE UNCHANGED dest
  BY <1>1, <1>3 DEF Exists
<1>4. CASE \E st \in {"receiving", "received"} : dest' = [dest EXCEPT ![f] = st]
  <2>1. \A n : n # f => dest'[n] = dest[n]
    BY <1>4 DEF TypeOK
  <2>2. dest'[f] # "absent"
    BY <1>4 DEF TypeOK
  <2>3. \A n : Exists(n) => Exists(n)'
    BY <2>1, <2>2 DEF Exists
  <2> QED
    BY <1>1, <2>1, <2>3
<1> QED
  BY <1>2, <1>3, <1>4
  DEF ReceiverStep, Ask, Climb, CheckEncryption, Created, BeginReceive, FinishReceive

\* What a receiver has found above its place is there as long as it needs it.
LEMMA FoundNext ==
  ASSUME TypeOK, WayInv, FoundInv, NEW f \in Node, ReceiverStep(f)
  PROVE  FoundInv'
<1>1. \A n : Exists(n) => Exists(n)'
  BY NothingLost
<1>2. \A g \in Node : g # f => pc'[g] = pc[g] /\ at'[g] = at[g]
  BY StepOfOne
<1>3. ASSUME NEW g \in Node, g # f, pc'[g] \in {"create", "make"} PROVE Exists(Parent[at[g]])'
  <2>1. Exists(Parent[at[g]])
    BY <1>2, <1>3 DEF FoundInv
  <2>2. at'[g] = at[g]
    BY <1>2, <1>3
  <2> QED
    BY <1>1, <2>1, <2>2 DEF Exists
<1>4. ASSUME pc'[f] \in {"create", "make"} PROVE Exists(Parent[at[f]])'
  <2>1. CASE Climb(f)
    BY <2>1, <1>4 DEF Climb, TypeOK, Exists
  <2>2. CASE CheckEncryption(f)
    <3>1. Exists(Parent[at[f]]) /\ at' = at /\ dest' = dest
      BY <2>2 DEF CheckEncryption, FoundInv
    <3> QED
      BY <3>1 DEF Exists
  <2>3. CASE Created(f)
    <3>1. Exists(at[f]) /\ at'[f] = Towards(f, at[f]) /\ dest' = dest
      BY <2>3, <1>4 DEF Created, Leave, TypeOK
    <3>2. Parent[Towards(f, at[f])] = at[f]
      BY <2>3, WayDown DEF Created, WayInv
    <3> QED
      BY <3>1, <3>2 DEF Exists
  <2>4. CASE Ask(f) \/ ZfsCreate(f) \/ BeginReceive(f) \/ FinishReceive(f)
    BY <2>4, <1>4 DEF Ask, ZfsCreate, BeginReceive, FinishReceive, Leave, TypeOK
  <2> QED
    BY <2>1, <2>2, <2>3, <2>4 DEF ReceiverStep
<1> QED
  BY <1>3, <1>4 DEF FoundInv

\* Nobody creates the dataset of f for another one: nothing lies below a leaf,
\* and one at a time those below f come after f.
LEMMA Undisturbed ==
  ASSUME TypeOK, WayInv, RunInv, NEW f \in Node, DeliveredFirst(f), OnItsWay(f),
         NEW g \in Node, g # f, ReceiverStep(g)
  PROVE  OnItsWay(f)'
<1>1. /\ UNCHANGED <<running, queue, par, first>> /\ g \in Active /\ pc[g] # "idle"
      /\ pc'[f] = pc[f] /\ at'[f] = at[f]
  BY StepOfOne
<1>2. Exists(at[f]) => Exists(at[f])'
  BY <1>1, NothingLost DEF Exists
<1>3. dest'[f] = dest[f]
  <2> SUFFICES ASSUME f \in Above(g), dest[f] = "absent" PROVE FALSE
    BY NothingLost
  <2>1. par = 1
    BY DEF DeliveredFirst, IsLeaf
  <2>2. Position[f] < Position[g] /\ f \notin queue
    <3>1. Position[f] < Position[g]
      BY Ancestors DEF Above
    <3>2. f \in queue => Position[g] < Position[f]
      BY <1>1 DEF RunInv
    <3> QED
      BY <3>1, <3>2, Positions
  <2>3. f \in Active
    <3>1. running
      BY <1>1 DEF RunInv
    <3> QED
      BY <2>2, <3>1 DEF OnItsWay, Active
  <2> QED
    BY <1>1, <2>1, <2>3 DEF RunInv
<1> QED
  BY <1>1, <1>2, <1>3 DEF OnItsWay

\* Where createNotIfEncrypted refuses, the dataset exists already: it is sent
\* itself, and one at a time it came first.
LEMMA RefusedInVain ==
  ASSUME TypeOK, WayInv, RunInv, FoundInv, \A g \in Sent : DeliveredFirst(g) => OnItsWay(g),
         NEW f \in Node, DeliveredFirst(f), pc[f] = "create", at[f] # f, RefusesToCreate(at[f])
  PROVE  Exists(at[f])
<1> DEFINE n == at[f]
<1> DEFINE p == Parent[n]
<1>1. n \in Lineage[f] /\ n \in Node /\ n \in Above(f) /\ Exists(p)
  BY DEF WayInv, TypeOK, FoundInv, Above
<1>2. p # Base /\ p \in Encrypted
  BY <1>1 DEF RefusesToCreate, IsEncrypted
<1>3. p \in Above(n)
  <2>1. p \in Lineage[n] /\ p \in Node
    BY <1>1, <1>2, Ancestors
  <2>2. p # n
    BY <1>1, <1>2, <2>1, OrderAssumption, Positions
  <2> QED
    BY <2>1, <2>2 DEF Above
<1>4. par = 1 /\ Placeable(f)
  BY <1>1, <1>2, <1>3 DEF DeliveredFirst, Unhindered
<1>5. n \in Sent
  BY <1>1, <1>2, <1>3, <1>4 DEF Placeable
<1>6. Above(n) \subseteq Above(f)
  <2> SUFFICES ASSUME NEW k \in Above(n) PROVE k \in Lineage[f] /\ k # f
    BY DEF Above
  <2>1. k \in Lineage[n] /\ k \in Node /\ Position[k] < Position[n]
    BY <1>1, Ancestors DEF Above
  <2>2. k \in Lineage[f] /\ Position[n] < Position[f]
    BY <1>1, <2>1, Ancestors DEF Above
  <2> QED
    BY <1>1, <2>1, <2>2, Positions
<1>7. OnItsWay(n)
  <2>1. Placeable(n)
    BY <1>4, <1>6 DEF Placeable
  <2> QED
    BY <1>4, <1>5, <2>1 DEF DeliveredFirst
<1>8. n \notin queue /\ n \notin Active /\ running
  <2>1. Position[n] < Position[f]
    BY <1>1, Ancestors DEF Above
  <2>2. n \in queue => Position[f] < Position[n]
    BY DEF RunInv
  <2>3. n \notin queue
    BY <1>1, <2>1, <2>2, Positions
  <2>4. f \in Active
    BY DEF Active
  <2> QED
    BY <1>4, <2>3, <2>4 DEF RunInv
<1>9. dest[n] = "received"
  BY <1>1, <1>7, <1>8 DEF OnItsWay, Active
<1> QED
  BY <1>9 DEF Exists
\* The visit of a filesystem leads to its stream, and the stream to its end.
LEMMA OwnWay ==
  ASSUME TypeOK, WayInv, RunInv, FoundInv, \A g \in Sent : DeliveredFirst(g) => OnItsWay(g),
         NEW f \in Sent, DeliveredFirst(f), ReceiverStep(f)
  PROVE  OnItsWay(f)'
<1>1. f \in Node /\ f \notin NoSnaps /\ OnItsWay(f)
  BY DEF Sent
<1>2. UNCHANGED <<running, queue, par, first>> /\ pc[f] # "idle"
  BY <1>1, StepOfOne
<1>3. running
  BY <1>1, <1>2 DEF RunInv
<1>4. CASE Ask(f)
  <2>1. dest' = dest /\ (dest[f] # "received" => dest[f] = "absent")
    BY <1>1, <1>3, <1>4 DEF Ask, OnItsWay
  <2>2. dest[f] # "received" => pc'[f] = "climb"
    BY <1>1, <1>4, <2>1 DEF Ask, NoCommonBase, TypeOK
  <2> QED
    BY <1>1, <1>2, <1>4, <2>1, <2>2 DEF Ask, OnItsWay
<1>5. CASE Climb(f)
  <2>1. dest' = dest /\ pc'[f] \in {"climb", "create"}
    BY <1>1, <1>5 DEF Climb, TypeOK
  <2> QED
    BY <1>1, <1>2, <1>3, <1>5, <2>1 DEF Climb, OnItsWay
<1>6. CASE CheckEncryption(f)
  <2>1. /\ dest' = dest /\ at' = at /\ at[f] # f /\ pc[f] = "create"
        /\ pc'[f] = IF RefusesToCreate(at[f]) THEN "verify" ELSE "make"
    BY <1>1, <1>6 DEF CheckEncryption, TypeOK
  <2>2. pc'[f] = "verify" => Exists(at[f])
    BY <1>1, <2>1, RefusedInVain
  <2>3. pc'[f] = "verify" => Exists(at[f])'
    BY <2>1, <2>2 DEF Exists
  <2> QED
    BY <1>1, <1>2, <2>1, <2>3 DEF OnItsWay
<1>7. CASE ZfsCreate(f)
  <2>1. at' = at /\ pc'[f] = "verify" /\ pc[f] = "make" /\ at[f] \in Node /\ at[f] # f
    BY <1>1, <1>7 DEF ZfsCreate, TypeOK, WayInv
  <2>2. Exists(Parent[at[f]])
    BY <1>1, <2>1 DEF FoundInv
  <2>3. Exists(at[f])'
    BY <1>7, <2>1, <2>2 DEF ZfsCreate, Exists, TypeOK
  <2>4. dest'[f] = dest[f]
    BY <1>1, <1>7, <2>1 DEF ZfsCreate, TypeOK
  <2> QED
    BY <1>1, <1>2, <2>1, <2>3, <2>4 DEF OnItsWay
<1>8. CASE Created(f)
  <2>1. dest[f] # "received" => Exists(at[f])
    BY <1>1, <1>3, <1>8 DEF Created, OnItsWay
  <2>2. dest' = dest /\ (dest[f] # "received" => pc'[f] = "create")
    BY <1>1, <1>8, <2>1 DEF Created, TypeOK
  <2> QED
    BY <1>1, <1>2, <1>8, <2>2 DEF Created, OnItsWay
<1>9. CASE BeginReceive(f)
  <2>1. pc[f] = "create" /\ at[f] = f
    BY <1>9 DEF BeginReceive
  <2>2. dest[f] = "absent" => Receivable(f)
    BY <1>1, <2>1 DEF FoundInv, Receivable
  <2>3. CASE dest[f] = "absent"
    BY <1>1, <1>2, <1>3, <1>9, <2>1, <2>2, <2>3 DEF BeginReceive, OnItsWay, TypeOK
  <2>4. CASE dest[f] = "received"
    BY <1>9, <2>4 DEF BeginReceive, Receivable, OnItsWay
  <2> QED
    BY <1>1, <1>3, <2>1, <2>3, <2>4 DEF OnItsWay
<1>10. CASE FinishReceive(f)
  BY <1>1, <1>10 DEF FinishReceive, OnItsWay, TypeOK
<1> QED
  BY <1>4, <1>5, <1>6, <1>7, <1>8, <1>9, <1>10 DEF ReceiverStep

\* Every step keeps each filesystem on its way.
LEMMA FirstRunNext ==
  TypeOK /\ WayInv /\ RunInv /\ FirstRunInv /\ [Next]_treeVars => FirstRunInv'
<1> SUFFICES ASSUME TypeOK, WayInv, RunInv, FirstRunInv, [Next]_treeVars, faults' = 0
             PROVE  FoundInv' /\ \A f \in Sent : DeliveredFirst(f)' => OnItsWay(f)'
  BY DEF FirstRunInv
<1> USE DEF TypeOK
<1>1. CASE StartRun
  <2>1. PICK failed \in SUBSET Include :
           /\ faults' = faults + Cardinality(failed)
           /\ queue' = ExpandFsToProcess(Include \ failed)
    BY <1>1 DEF StartRun
  <2>2. failed \subseteq Node /\ Cardinality(failed) \in Nat
    BY Counted, TreeAssumption
  <2>3. faults = 0 /\ Cardinality(failed) = 0
    BY <2>1, <2>2, TreeBoundsAssumption
  <2>4. failed = {}
    BY <2>2, <2>3, Counted
  <2>5. Sent \subseteq queue'
    BY <2>1, <2>4 DEF Sent, ExpandFsToProcess
  <2>6. ~running /\ UNCHANGED <<dest, pc, at, par, first>>
    BY <1>1 DEF StartRun
  <2>7. \A f \in Node : pc[f] = "idle"
    BY <2>6 DEF RunInv
  <2>8. \A f \in Sent : f \in Node /\ (DeliveredFirst(f) => OnItsWay(f))
    BY <2>3 DEF FirstRunInv, Sent
  <2>9. \A f \in Sent : DeliveredFirst(f)' => OnItsWay(f)'
    BY <2>5, <2>6, <2>7, <2>8 DEF OnItsWay, DeliveredFirst
  <2> QED
    BY <2>6, <2>7, <2>9 DEF FoundInv
<1>2. CASE StartFs
  <2>1. PICK h \in queue : pc' = [pc EXCEPT ![h] = "ask"] /\ queue' = queue \ {h}
    BY <1>2 DEF StartFs
  <2>2. /\ h \in Node /\ running
        /\ UNCHANGED <<dest, running, at, par, first, faults>>
        /\ \A f \in Node : pc'[f] = IF f = h THEN "ask" ELSE pc[f]
    BY <1>2, <2>1 DEF StartFs
  <2>3. \A n : Exists(n)' = Exists(n)
    BY <2>2 DEF Exists
  <2>4. FoundInv'
    BY <2>2, <2>3 DEF FirstRunInv, FoundInv, Exists
  <2>5. ASSUME NEW f \in Sent, DeliveredFirst(f)' PROVE OnItsWay(f)'
    <3>1. f \in Node /\ OnItsWay(f)
      BY <2>2, <2>5 DEF FirstRunInv, DeliveredFirst, Sent
    <3>2. f = h => Position[f] = Position[h] /\ (pc[f] # "idle" => Position[f] < Position[h])
      BY <2>1, <3>1 DEF RunInv
    <3>3. f = h => pc[f] = "idle"
      BY <2>2, <3>2, Positions
    <3> QED
      BY <2>1, <2>2, <3>1, <3>3 DEF OnItsWay, Exists
  <2> QED
    BY <2>4, <2>5
<1>3. CASE EndRun
  <2>1. /\ running /\ queue = {} /\ Active = {}
        /\ UNCHANGED <<dest, at, par, faults>>
        /\ \A f \in Node : pc'[f] = "idle"
    BY <1>3 DEF EndRun
  <2>2. FoundInv'
    BY <2>1 DEF FoundInv
  <2>3. ASSUME NEW f \in Sent, DeliveredFirst(f)' PROVE OnItsWay(f)'
    <3>1. f \in Node /\ OnItsWay(f)
      BY <2>1, <2>3 DEF FirstRunInv, DeliveredFirst, Sent
    <3>2. dest[f] = "received"
      BY <2>1, <3>1 DEF OnItsWay, Active
    <3> QED
      BY <2>1, <3>2 DEF OnItsWay
  <2> QED
    BY <2>2, <2>3
<1>4. ASSUME NEW g \in Node, ReceiverStep(g)
      PROVE  FoundInv' /\ \A f \in Sent : DeliveredFirst(f)' => OnItsWay(f)'
  <2>1. faults = 0 /\ par' = par
    BY <1>4, NothingLost, StepOfOne
  <2>2. FoundInv /\ \A f \in Sent : DeliveredFirst(f) => OnItsWay(f)
    BY <2>1 DEF FirstRunInv
  <2>3. FoundInv'
    BY <1>4, <2>2, FoundNext
  <2>4. ASSUME NEW f \in Sent, DeliveredFirst(f)' PROVE OnItsWay(f)'
    <3>1. f \in Node /\ DeliveredFirst(f) /\ OnItsWay(f)
      BY <2>1, <2>2, <2>4 DEF DeliveredFirst, Sent
    <3>2. CASE f = g
      BY <1>4, <2>2, <3>1, <3>2, OwnWay
    <3>3. CASE f # g
      BY <1>4, <3>1, <3>3, Undisturbed
    <3> QED
      BY <3>2, <3>3
  <2> QED
    BY <2>3, <2>4
<1>5. ASSUME NEW g \in Node, BreakReceive(g) \/ CreationFails(g) \/ VisitFails(g) PROVE FALSE
  BY <1>5, TreeBoundsAssumption DEF BreakReceive, CreationFails, VisitFails
<1>6. CASE UNCHANGED treeVars
  BY <1>6 DEF treeVars, FirstRunInv, FoundInv, OnItsWay, DeliveredFirst, Exists
<1> QED
  BY <1>1, <1>2, <1>3, <1>4, <1>5, <1>6 DEF Next, SenderStep

\* Receivers that share parents never fail each other: if nothing else fails,
\* the first run of the sender delivers, one at a time, every filesystem that
\* can be placed, and several at a time every leaf for which nothing has to be
\* created below an encrypted dataset, whatever the tree and the interleaving.
THEOREM FirstRunIsEnough == Spec => []FirstRunDelivers
<1>1. Init => WayInv /\ RunInv /\ FirstRunInv
  BY DEF Init, WayInv, RunInv, Active, FirstRunInv, FoundInv, OnItsWay, Sent
<1>2. FirstRunInv => FirstRunDelivers
  <2> SUFFICES ASSUME FirstRunInv, faults = 0, ~first,
                      NEW f \in Sent, DeliveredFirst(f)
               PROVE  dest[f] = "received"
    BY DEF FirstRunDelivers
  <2> QED
    BY DEF FirstRunInv, OnItsWay
<1> QED
  BY <1>1, <1>2, TypeInit, WayNext, RunNext, FirstRunNext, PTL DEF Spec
=============================================================================
