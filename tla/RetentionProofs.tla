--------------------------- MODULE RetentionProofs ---------------------------
(***************************************************************************)
(* Theorems about Retention, for every policy: the loop of                 *)
(* markForPreservation keeps what a rule describes, the newest snapshot is *)
(* never destroyed, the window freezes, and a run that was broken off is   *)
(* completed by the next.                                                  *)
(*                                                                         *)
(* The argument: what a listing preserves depends only on what it          *)
(* preserves.  So destroying the rest, wholly or in part, leaves the       *)
(* decision as it was.                                                     *)
(***************************************************************************)
EXTENDS Retention, Numbers, FiniteSetTheorems, TLAPS

-----------------------------------------------------------------------------
(* The loop                                                                *)

\* One round at s, whether s is listed or not.
Round(L, r, s, w) == IF s \in L THEN Visit(L, r, s, w) ELSE w

\* The recursion behind Rounds has a solution.
LEMMA RoundsDef ==
  ASSUME NEW n \in Nat, Taken = n, NEW L, NEW r, NEW start
  PROVE  /\ Rounds(L, r, start)[n + 1] = start
         /\ \A s \in 1 .. n :
               Rounds(L, r, start)[s] = Round(L, r, s, Rounds(L, r, start)[s + 1])
<1> DEFINE Eq(f, a) == f = [s \in a .. n + 1 |->
                              IF s = n + 1 THEN start ELSE Round(L, r, s, f[s + 1])]
<1> DEFINE P == { a \in 1 .. n + 1 : \E f : Eq(f, a) }
<1>1. n + 1 \in P
  <2>1. Eq([s \in n + 1 .. n + 1 |-> start], n + 1)
    OBVIOUS
  <2> HIDE DEF Eq
  <2>2. \E f : Eq(f, n + 1)
    BY <2>1, Zenon
  <2> QED
    BY <2>2
<1>2. ASSUME NEW a \in 1 .. n, a + 1 \in P PROVE a \in P
  <2>1. PICK f : Eq(f, a + 1)
    BY <1>2
  <2> DEFINE g == [s \in a .. n + 1 |-> IF s = a THEN Round(L, r, a, f[a + 1]) ELSE f[s]]
  <2>2. \A s \in a + 1 .. n + 1 :
           f[s] = IF s = n + 1 THEN start ELSE Round(L, r, s, f[s + 1])
    BY <2>1
  <2>3. ASSUME NEW s \in a .. n + 1
        PROVE  g[s] = IF s = n + 1 THEN start ELSE Round(L, r, s, g[s + 1])
    <3>1. CASE s = a
      <4>1. a + 1 \in a .. n + 1 /\ a + 1 # a /\ a # n + 1
        OBVIOUS
      <4> QED
        BY <3>1, <4>1
    <3>2. CASE s = n + 1
      <4>1. n + 1 # a /\ n + 1 \in a + 1 .. n + 1
        OBVIOUS
      <4> QED
        BY <3>2, <4>1, <2>2
    <3>3. CASE s # a /\ s # n + 1
      <4>1. s \in a + 1 .. n + 1 /\ s + 1 \in a .. n + 1 /\ s + 1 # a
        BY <3>3
      <4> QED
        BY <3>3, <4>1, <2>2
    <3> QED
      BY <3>1, <3>2, <3>3
  <2>4. Eq(g, a)
    <3> HIDE DEF g
    <3>1. g = [s \in a .. n + 1 |-> g[s]]
      BY DEF g
    <3> QED
      BY <3>1, <2>3, Zenon
  <2> HIDE DEF Eq, g
  <2>5. \E h : Eq(h, a)
    BY <2>4, Zenon
  <2> QED
    BY <2>5
<1>3. 1 \in P
  <2> HIDE DEF P
  <2> QED
    BY <1>1, <1>2, Downwards
<1>4. Rounds(L, r, start) = CHOOSE f : Eq(f, 1)
  BY DEF Rounds, Round
<1>5. Eq(Rounds(L, r, start), 1)
  BY <1>3, <1>4, Zenon
<1> QED
  BY <1>5

-----------------------------------------------------------------------------
(* Ages                                                                    *)

\* A listing that getValidatedSnaps accepts.
Fit(L) ==
  /\ Taken \in Nat
  /\ creation \in [1 .. Taken -> Nat]
  /\ L \subseteq 1 .. Taken /\ L # {}
  /\ InOrder(L)

\* Snapshots are numbers.
LEMMA Numbers ==
  ASSUME NEW L, Fit(L)
  PROVE  \A t \in L : t \in Nat /\ t \in 1 .. Taken
<1> SUFFICES ASSUME NEW t \in L PROVE t \in Nat /\ t \in 1 .. Taken
  OBVIOUS
<1>1. t \in 1 .. Taken /\ Taken \in Nat
  BY DEF Fit
<1> QED
  BY <1>1

\* The newest snapshot of a listing is the last one.
LEMMA NewestIsLast ==
  ASSUME NEW L, L \subseteq 1 .. Taken, Taken \in Nat, L # {}
  PROVE  Newest(L) \in L /\ \A t \in L : t <= Newest(L)
<1>1. \E m \in L : \A s \in L : s <= m
  BY Greatest
<1> QED
  BY <1>1 DEF Newest

\* Ages are counted from the newest snapshot, which has age 0.
LEMMA Ages ==
  ASSUME NEW L, Fit(L)
  PROVE  /\ \A s \in L : Anchor(L) - creation[s] \in Nat
         /\ \A s, t \in L : s < t => Anchor(L) - creation[t] <= Anchor(L) - creation[s]
         /\ Anchor(L) - creation[Newest(L)] = 0
<1>1. Newest(L) \in L /\ \A t \in L : t <= Newest(L)
  BY NewestIsLast DEF Fit
<1>2. \A s \in L : s \in 1 .. Taken /\ creation[s] \in Nat /\ s \in Nat
  BY DEF Fit
<1>3. \A s \in L : creation[s] <= creation[Newest(L)]
  <2> SUFFICES ASSUME NEW s \in L PROVE creation[s] <= creation[Newest(L)]
    OBVIOUS
  <2>1. CASE s = Newest(L)
    BY <2>1, <1>2
  <2>2. CASE s # Newest(L)
    <3>1. s < Newest(L)
      BY <2>2, <1>1, <1>2
    <3> QED
      BY <3>1, <1>1 DEF Fit, InOrder
  <2> QED
    BY <2>1, <2>2
<1>4. \A s, t \in L : s < t => creation[s] <= creation[t]
  BY DEF Fit, InOrder
<1> QED
  BY <1>1, <1>2, <1>3, <1>4 DEF Anchor

\* Whole intervals grow with the age.
LEMMA Whole ==
  ASSUME NEW a \in Nat, NEW b \in Nat, NEW d \in Nat \ {0}
  PROVE  a \div d \in Nat /\ (a <= b => a \div d <= b \div d) /\ 0 \div d = 0
<1>1. a \div d \in Int /\ a \div d >= 0
  OBVIOUS
<1>2. a <= b => a \div d <= b \div d
  OBVIOUS
<1>3. 0 \div d = 0
  OBVIOUS
<1> QED
  BY <1>1, <1>2, <1>3

\* The buckets of a listing are numbers that grow towards the older snapshots.
LEMMA Intervals ==
  ASSUME NEW L, Fit(L), NEW r \in Rules
  PROVE  /\ \A s \in L : Interval(L, r, s) \in Nat
         /\ \A s, t \in L : s < t => Interval(L, r, t) <= Interval(L, r, s)
         /\ Interval(L, r, Newest(L)) = 0
<1>1. r.interval \in Nat \ {0}
  BY PolicyAssumption
<1> QED
  BY <1>1, Ages, NewestIsLast, Whole DEF Interval, Fit

-----------------------------------------------------------------------------
(* The loop                                                                *)

\* The first snapshot the loop meets in its bucket.
Leads(L, r, t) == \A u \in L : u > t => Interval(L, r, u) # Interval(L, r, t)

\* What the loop remembers when it has come down to s.
WalkedTo(L, r, s, w) ==
  /\ w = [last |-> w.last, kept |-> w.kept, hole |-> w.hole]
  /\ w.last \in -1 .. r.count - 1
  /\ w.last >= 0 => \E t \in L : t >= s /\ Interval(L, r, t) = w.last
  /\ \A t \in L : t >= s => Interval(L, r, t) <= w.last \/ Interval(L, r, t) >= r.count
  /\ w.kept = { t \in L : t >= s /\ Interval(L, r, t) < r.count /\ Leads(L, r, t) }
  /\ w.hole \in BOOLEAN
  /\ w.hole <=> \E k, m \in 0 .. r.count - 1 :
                   /\ k < m
                   /\ \A t \in L : t >= s => Interval(L, r, t) # k
                   /\ \E t \in L : t >= s /\ Interval(L, r, t) = m

\* One round.
LEMMA OneRound ==
  ASSUME NEW L, Fit(L), NEW r \in Rules, NEW s \in 1 .. Taken, NEW w, WalkedTo(L, r, s + 1, w)
  PROVE  WalkedTo(L, r, s, Round(L, r, s, w))
<1> DEFINE F(t) == Interval(L, r, t)
<1>1. r.count \in Nat \ {0}
  BY PolicyAssumption
<1>2. /\ \A t \in L : F(t) \in Nat
      /\ \A t, u \in L : t < u => F(u) <= F(t)
  BY Intervals
<1>3. s \in Nat /\ \A t \in L : t \in Nat
  BY DEF Fit
<1> DEFINE k == F(s)
<1>4. CASE s \notin L
  <2>1. \A t \in L : t >= s <=> t >= s + 1
    BY <1>3, <1>4
  <2>2. Round(L, r, s, w) = w
    BY <1>4 DEF Round
  <2> QED
    BY <2>1, <2>2 DEF WalkedTo
<1>5. CASE s \in L /\ (k >= r.count \/ k = w.last)
  <2>1. Round(L, r, s, w) = w
    BY <1>5 DEF Round, Visit
  <2>2. \A t \in L : t >= s <=> t >= s + 1 \/ t = s
    BY <1>3
  <2>3. k \in Nat
    BY <1>2, <1>5
  <2>4. k = w.last => \E t \in L : t >= s + 1 /\ F(t) = k
    BY <2>3 DEF WalkedTo
  <2>5. w.last >= 0 => \E t \in L : t >= s /\ F(t) = w.last
    BY <2>2 DEF WalkedTo
  <2>6. \A t \in L : t >= s => F(t) <= w.last \/ F(t) >= r.count
    BY <1>5, <2>2, <2>3, <1>1 DEF WalkedTo
  <2>7. ~ (F(s) < r.count /\ Leads(L, r, s))
    <3>1. CASE k >= r.count
      BY <3>1, <2>3, <1>1
    <3>2. CASE k = w.last
      <4>1. PICK t \in L : t >= s + 1 /\ F(t) = k
        BY <3>2, <2>4
      <4>2. t > s
        BY <4>1, <1>3
      <4> QED
        BY <4>1, <4>2 DEF Leads
    <3> QED
      BY <1>5, <3>1, <3>2
  <2>8. w.kept = { t \in L : t >= s /\ F(t) < r.count /\ Leads(L, r, t) }
    BY <2>2, <2>7 DEF WalkedTo
  <2>9. \A m \in 0 .. r.count - 1 :
           (\E t \in L : t >= s /\ F(t) = m) <=> (\E t \in L : t >= s + 1 /\ F(t) = m)
    BY <1>5, <2>2, <2>3, <2>4, <1>1
  <2> QED
    BY <2>1, <2>5, <2>6, <2>8, <2>9 DEF WalkedTo
<1>6. CASE s \in L /\ k < r.count /\ k # w.last
  <2> DEFINE v == [last |-> k, kept |-> w.kept \union {s}, hole |-> w.hole \/ k > w.last + 1]
  <2>1. k \in Nat /\ w.last \in Int /\ w.last >= -1
    BY <1>2, <1>6, <1>1 DEF WalkedTo
  <2>2. Round(L, r, s, w) = v
    BY <1>6, <2>1, <1>1 DEF Round, Visit
  <2>3. \A t \in L : t >= s <=> t >= s + 1 \/ t = s
    BY <1>3
  <2>4. \A t \in L : t >= s + 1 => F(t) <= k /\ F(t) <= w.last
    <3> SUFFICES ASSUME NEW t \in L, t >= s + 1 PROVE F(t) <= k /\ F(t) <= w.last
      OBVIOUS
    <3>1. F(t) <= k
      BY <1>2, <1>3, <1>6
    <3>2. F(t) <= w.last \/ F(t) >= r.count
      BY DEF WalkedTo
    <3> QED
      BY <3>1, <3>2, <1>6, <2>1, <1>1, <1>2
  <2>5. w.last < k
    <3>1. CASE w.last >= 0
      <4>1. PICK t \in L : t >= s + 1 /\ F(t) = w.last
        BY <3>1 DEF WalkedTo
      <4> QED
        BY <4>1, <2>4, <2>1, <1>6
    <3> QED
      BY <3>1, <2>1
  <2>6. v.last \in -1 .. r.count - 1
    BY <2>1, <1>6, <1>1
  <2>7. \E t \in L : t >= s /\ F(t) = v.last
    BY <1>6, <1>3
  <2>8. \A t \in L : t >= s => F(t) <= v.last \/ F(t) >= r.count
    BY <2>3, <2>4, <2>1
  <2>9. Leads(L, r, s)
    <3> SUFFICES ASSUME NEW u \in L, u > s PROVE F(u) # F(s)
      BY DEF Leads
    <3>1. u >= s + 1
      BY <1>3
    <3> QED
      BY <3>1, <2>4, <2>5, <2>1, <1>2
  <2>10. v.kept = { t \in L : t >= s /\ F(t) < r.count /\ Leads(L, r, t) }
    BY <2>3, <2>9, <1>6 DEF WalkedTo
  <2>11. v.hole \in BOOLEAN
    BY DEF WalkedTo
  <2>12. ASSUME w.hole
         PROVE  \E j, m \in 0 .. r.count - 1 :
                   /\ j < m
                   /\ \A t \in L : t >= s => F(t) # j
                   /\ \E t \in L : t >= s /\ F(t) = m
    <3>1. PICK j \in 0 .. r.count - 1 : \E m \in 0 .. r.count - 1 :
             /\ j < m
             /\ \A t \in L : t >= s + 1 => F(t) # j
             /\ \E t \in L : t >= s + 1 /\ F(t) = m
      BY <2>12 DEF WalkedTo
    <3>2. PICK m \in 0 .. r.count - 1 :
             /\ j < m
             /\ \A t \in L : t >= s + 1 => F(t) # j
             /\ \E t \in L : t >= s + 1 /\ F(t) = m
      BY <3>1
    <3>3. j < k
      BY <3>2, <2>4, <2>1, <1>2
    <3> QED
      BY <3>2, <3>3, <2>3, <2>1
  <2>13. ASSUME k > w.last + 1
         PROVE  \E j, m \in 0 .. r.count - 1 :
                   /\ j < m
                   /\ \A t \in L : t >= s => F(t) # j
                   /\ \E t \in L : t >= s /\ F(t) = m
    <3>1. w.last + 1 \in 0 .. r.count - 1 /\ k \in 0 .. r.count - 1 /\ w.last + 1 < k
      BY <2>13, <2>1, <1>1, <1>6
    <3>2. \A t \in L : t >= s => F(t) # w.last + 1
      BY <2>3, <2>4, <2>1, <1>2, <3>1
    <3> QED
      BY <3>1, <3>2, <1>6, <1>3
  <2>14. ASSUME NEW j \in 0 .. r.count - 1, NEW m \in 0 .. r.count - 1, j < m,
                \A t \in L : t >= s => F(t) # j,
                \E t \in L : t >= s /\ F(t) = m
         PROVE  w.hole \/ k > w.last + 1
    <3>1. PICK t \in L : t >= s /\ F(t) = m
      BY <2>14
    <3>2. \A u \in L : u >= s + 1 => F(u) # j
      BY <2>3, <2>14
    <3>3. CASE t >= s + 1
      BY <3>1, <3>2, <3>3, <2>14 DEF WalkedTo
    <3>4. CASE t = s /\ j <= w.last
      <4>1. PICK u \in L : u >= s + 1 /\ F(u) = w.last
        BY <3>4, <1>1 DEF WalkedTo
      <4>2. j < w.last /\ w.last \in 0 .. r.count - 1
        BY <3>2, <3>4, <4>1, <2>1, <1>1 DEF WalkedTo
      <4> QED
        BY <3>2, <4>1, <4>2 DEF WalkedTo
    <3>5. CASE t = s /\ ~ (j <= w.last)
      BY <3>1, <3>5, <2>1, <2>14, <1>1
    <3> QED
      BY <3>1, <3>3, <3>4, <3>5, <2>3, <2>1, <1>1
  <2>15. v.hole <=> \E j, m \in 0 .. r.count - 1 :
                   /\ j < m
                   /\ \A t \in L : t >= s => F(t) # j
                   /\ \E t \in L : t >= s /\ F(t) = m
    BY <2>12, <2>13, <2>14, <2>11
  <2> HIDE DEF v
  <2>16. v = [last |-> v.last, kept |-> v.kept, hole |-> v.hole]
    BY DEF v
  <2> QED
    BY <2>2, <2>6, <2>7, <2>8, <2>10, <2>11, <2>15, <2>16 DEF WalkedTo
<1> QED
  BY <1>1, <1>2, <1>4, <1>5, <1>6

\* The whole loop.
LEMMA WholeWalk ==
  ASSUME NEW L, Fit(L), NEW r \in Rules
  PROVE  WalkedTo(L, r, 1, Walk(L, r))
<1> DEFINE start == [last |-> -1, kept |-> {}, hole |-> FALSE]
           n == Taken
           P == { s \in 1 .. n + 1 : WalkedTo(L, r, s, Rounds(L, r, start)[s]) }
<1>1. n \in Nat
  BY DEF Fit
<1>2. /\ Rounds(L, r, start)[n + 1] = start
      /\ \A s \in 1 .. n :
            Rounds(L, r, start)[s] = Round(L, r, s, Rounds(L, r, start)[s + 1])
  <2> HIDE DEF start
  <2> QED
    BY <1>1, RoundsDef
<1>3. WalkedTo(L, r, n + 1, start)
  <2>1. \A t \in L : ~ (t >= n + 1)
    BY <1>1 DEF Fit
  <2>2. r.count \in Nat \ {0}
    BY PolicyAssumption
  <2> QED
    BY <2>1, <2>2 DEF WalkedTo
<1>4. n + 1 \in P
  BY <1>1, <1>2, <1>3
<1>5. ASSUME NEW s \in 1 .. n, s + 1 \in P PROVE s \in P
  <2>1. WalkedTo(L, r, s, Round(L, r, s, Rounds(L, r, start)[s + 1]))
    BY <1>5, OneRound
  <2> QED
    BY <2>1, <1>2, <1>1
<1>6. 1 \in P
  <2> HIDE DEF P
  <2> QED
    BY <1>1, <1>4, <1>5, Downwards
<1> QED
  BY <1>6 DEF Walk

\* What a rule keeps, and when it reports a hole, without the loop.
LEMMA WalkResult ==
  ASSUME NEW L, Fit(L), NEW r \in Rules
  PROVE  /\ Walk(L, r).kept = { t \in L : Interval(L, r, t) < r.count /\ Leads(L, r, t) }
         /\ Walk(L, r).hole \in BOOLEAN
         /\ Walk(L, r).hole <=> \E k, m \in 0 .. r.count - 1 :
                                   /\ k < m
                                   /\ \A t \in L : Interval(L, r, t) # k
                                   /\ \E t \in L : Interval(L, r, t) = m
<1>1. \A t \in L : t >= 1
  BY DEF Fit
<1> QED
  BY <1>1, WholeWalk DEF WalkedTo

\* Every bucket that is filled has a first snapshot.
LEMMA BucketLed ==
  ASSUME NEW L, Fit(L), NEW r \in Rules, NEW s \in L
  PROVE  \E t \in L : /\ Interval(L, r, t) = Interval(L, r, s)
                      /\ t >= s
                      /\ Leads(L, r, t)
<1> DEFINE B == { t \in L : Interval(L, r, t) = Interval(L, r, s) }
<1>1. PICK t \in B : \A u \in B : u <= t
  <2>1. B \subseteq 1 .. Taken /\ B # {} /\ Taken \in Nat
    BY DEF Fit
  <2> QED
    BY <2>1, Greatest
<1>2. Leads(L, r, t)
  <2> SUFFICES ASSUME NEW u \in L, u > t, Interval(L, r, u) = Interval(L, r, t) PROVE FALSE
    BY DEF Leads
  <2>1. u <= t
    BY <1>1
  <2> QED
    BY <2>1 DEF Fit
<1> QED
  BY <1>1, <1>2

-----------------------------------------------------------------------------
(* The newest snapshot                                                     *)

LEMMA NewestPreserved ==
  ASSUME NEW L, Fit(L), Selective
  PROVE  Newest(L) \in Preserved(L)
<1>1. Newest(L) \in L /\ \A t \in L : t <= Newest(L)
  BY NewestIsLast DEF Fit
<1>2. CASE TopN > 0
  <2>1. { t \in L : t > Newest(L) } = {}
    BY <1>1, Numbers
  <2>2. Cardinality({ t \in L : t > Newest(L) }) = 0
    BY <2>1, FS_EmptySet
  <2> QED
    BY <1>1, <1>2, <2>2 DEF Preserved, PreserveTopN
<1>3. CASE NewerThan > 0
  BY <1>1, <1>3, Ages DEF Preserved, PreserveNewerThan
<1>4. CASE Rules # {}
  <2>1. PICK r \in Rules : TRUE
    BY <1>4
  <2>2. Interval(L, r, Newest(L)) = 0 /\ 0 < r.count
    BY Intervals, PolicyAssumption
  <2>3. Leads(L, r, Newest(L))
    BY <1>1, Numbers DEF Leads
  <2>4. Newest(L) \in Walk(L, r).kept
    BY <1>1, <2>2, <2>3, WalkResult
  <2> QED
    BY <2>4 DEF Preserved
<1> QED
  BY <1>2, <1>3, <1>4 DEF Selective

-----------------------------------------------------------------------------
(* What is preserved depends on what is preserved                          *)

\* K is what is left of L after some of what L does not preserve is gone.
Rest(L, K) == Preserved(L) \subseteq K /\ K \subseteq L

LEMMA RestFit ==
  ASSUME NEW L, Fit(L), NEW K, Rest(L, K), Selective
  PROVE  Fit(K) /\ Newest(K) = Newest(L) /\ Anchor(K) = Anchor(L)
<1>1. Newest(L) \in K /\ K \subseteq L
  BY NewestPreserved DEF Rest
<1>2. Fit(K)
  BY <1>1 DEF Fit, InOrder
<1>3. /\ Newest(L) \in L /\ \A t \in L : t <= Newest(L)
      /\ Newest(K) \in K /\ \A t \in K : t <= Newest(K)
  BY <1>2, NewestIsLast DEF Fit
<1>4. Newest(K) = Newest(L)
  <2>1. Newest(K) \in Nat /\ Newest(L) \in Nat
    BY <1>1, <1>3, Numbers
  <2> QED
    BY <1>1, <1>3, <2>1
<1> QED
  BY <1>2, <1>4 DEF Anchor

LEMMA RestWalk ==
  ASSUME NEW L, Fit(L), NEW K, Rest(L, K), Selective, NEW r \in Rules
  PROVE  Walk(K, r).kept = Walk(L, r).kept /\ Walk(K, r).hole = Walk(L, r).hole
<1>1. Fit(K) /\ \A t : Interval(K, r, t) = Interval(L, r, t)
  BY RestFit DEF Interval
<1>2. K \subseteq L /\ Walk(L, r).kept \subseteq K
  BY DEF Rest, Preserved
<1>3. /\ r.count \in Nat
      /\ \A t \in L : t \in Nat /\ Interval(L, r, t) \in Nat
  BY PolicyAssumption, Intervals, Numbers
\* The first of a bucket of L is kept, so it is in K.
<1>4. ASSUME NEW s \in L, Interval(L, r, s) < r.count
      PROVE  \E t \in K : Interval(L, r, t) = Interval(L, r, s) /\ t >= s
  <2>1. PICK t \in L : /\ Interval(L, r, t) = Interval(L, r, s)
                       /\ t >= s
                       /\ Leads(L, r, t)
    BY BucketLed
  <2>2. t \in Walk(L, r).kept
    BY <1>4, <2>1, WalkResult
  <2> QED
    BY <1>2, <2>1, <2>2
<1>5. ASSUME NEW t \in K, Interval(L, r, t) < r.count
      PROVE  Leads(K, r, t) <=> Leads(L, r, t)
  <2>1. ASSUME Leads(L, r, t) PROVE Leads(K, r, t)
    BY <1>1, <1>2, <2>1 DEF Leads
  <2>2. ASSUME Leads(K, r, t), NEW u \in L, u > t, Interval(L, r, u) = Interval(L, r, t)
        PROVE  FALSE
    <3>1. PICK v \in K : Interval(L, r, v) = Interval(L, r, u) /\ v >= u
      BY <1>4, <1>5, <2>2
    <3>2. v > t
      BY <1>2, <1>3, <2>2, <3>1
    <3> QED
      BY <1>1, <2>2, <3>1, <3>2 DEF Leads
  <2> QED
    BY <2>1, <2>2 DEF Leads
<1>6. Walk(K, r).kept = Walk(L, r).kept
  <2>1. Walk(K, r).kept = { t \in K : Interval(L, r, t) < r.count /\ Leads(K, r, t) }
    BY <1>1, WalkResult
  <2>2. Walk(L, r).kept = { t \in L : Interval(L, r, t) < r.count /\ Leads(L, r, t) }
    BY WalkResult
  <2> QED
    BY <1>2, <1>5, <2>1, <2>2
<1>7. \A k \in 0 .. r.count - 1 :
         (\E t \in K : Interval(L, r, t) = k) <=> (\E t \in L : Interval(L, r, t) = k)
  BY <1>2, <1>3, <1>4
<1>8. Walk(K, r).hole = Walk(L, r).hole
  <2>1. /\ Walk(K, r).hole \in BOOLEAN
        /\ Walk(K, r).hole <=> \E k, m \in 0 .. r.count - 1 :
                                  /\ k < m
                                  /\ \A t \in K : Interval(L, r, t) # k
                                  /\ \E t \in K : Interval(L, r, t) = m
    BY <1>1, WalkResult
  <2>2. /\ Walk(L, r).hole \in BOOLEAN
        /\ Walk(L, r).hole <=> \E k, m \in 0 .. r.count - 1 :
                                  /\ k < m
                                  /\ \A t \in L : Interval(L, r, t) # k
                                  /\ \E t \in L : Interval(L, r, t) = m
    BY WalkResult
  <2> QED
    BY <1>7, <2>1, <2>2
<1> QED
  BY <1>6, <1>8

\* Among the newest TopN of K are only the newest TopN of L: a snapshot that is
\* missing from K has TopN newer ones, and they are all in K.
LEMMA RestTopN ==
  ASSUME NEW L, Fit(L), NEW K, Rest(L, K)
  PROVE  PreserveTopN(K) = PreserveTopN(L)
<1> DEFINE Newer(M, s) == { t \in M : t > s }
<1>1. K \subseteq L /\ PreserveTopN(L) \subseteq K
  BY DEF Rest, Preserved
<1>2. \A t \in L : t \in 1 .. Taken
  BY DEF Fit
<1>3. IsFiniteSet(L) /\ \A M : M \subseteq L => IsFiniteSet(M)
  <2>1. IsFiniteSet(1 .. Taken)
    BY FS_Interval DEF Fit
  <2>2. IsFiniteSet(L)
    BY <2>1, FS_Subset DEF Fit
  <2> QED
    BY <2>2, FS_Subset
<1>4. \A M, N : M \subseteq N /\ N \subseteq L =>
         /\ Cardinality(M) \in Nat /\ Cardinality(N) \in Nat
         /\ Cardinality(M) <= Cardinality(N)
  <2> SUFFICES ASSUME NEW M, NEW N, M \subseteq N, N \subseteq L
               PROVE  /\ Cardinality(M) \in Nat /\ Cardinality(N) \in Nat
                      /\ Cardinality(M) <= Cardinality(N)
    OBVIOUS
  <2>1. IsFiniteSet(N) /\ IsFiniteSet(M)
    BY <1>3
  <2> QED
    BY <2>1, FS_Subset, FS_CardinalityType
<1>5. TopN \in Nat
  BY PolicyAssumption
<1>6. ASSUME NEW s \in PreserveTopN(L) PROVE s \in PreserveTopN(K)
  <2>1. s \in K /\ Cardinality(Newer(L, s)) < TopN
    BY <1>1, <1>6 DEF PreserveTopN
  <2>2. Newer(K, s) \subseteq Newer(L, s) /\ Newer(L, s) \subseteq L
    BY <1>1
  <2>3. Cardinality(Newer(K, s)) < TopN
    BY <1>4, <1>5, <2>1, <2>2
  <2> QED
    BY <2>1, <2>3 DEF PreserveTopN
<1>7. ASSUME NEW s \in PreserveTopN(K) PROVE s \in PreserveTopN(L)
  <2>1. s \in K /\ s \in L /\ Cardinality(Newer(K, s)) < TopN
    BY <1>1, <1>7 DEF PreserveTopN
  <2> SUFFICES ASSUME ~ (Cardinality(Newer(L, s)) < TopN) PROVE FALSE
    BY <2>1 DEF PreserveTopN
  <2> DEFINE Gone == Newer(L, s) \ K
  <2>2. Gone # {}
    <3>1. ~ (Newer(L, s) = Newer(K, s))
      BY <2>1
    <3> QED
      BY <1>1, <3>1
  <2>3. PICK u \in Gone : \A v \in Gone : v <= u
    <3>1. Gone \subseteq 1 .. Taken /\ Taken \in Nat
      BY DEF Fit
    <3> QED
      BY <2>2, <3>1, Greatest
  <2>4. ~ (Cardinality(Newer(L, u)) < TopN)
    BY <1>1, <2>3 DEF PreserveTopN
  <2>5. Newer(L, u) \subseteq Newer(K, s)
    <3> SUFFICES ASSUME NEW t \in L, t > u PROVE t \in K /\ t > s
      OBVIOUS
    <3>1. t > s
      BY <1>2, <2>1, <2>3
    <3>2. ~ (t <= u)
      BY <1>2, <2>3
    <3> QED
      BY <2>3, <3>1, <3>2
  <2>6. Newer(K, s) \subseteq L
    BY <1>1
  <2>7. Cardinality(Newer(L, u)) < TopN
    BY <1>4, <1>5, <2>1, <2>5, <2>6
  <2> QED
    BY <2>4, <2>7
<1> QED
  BY <1>6, <1>7

\* preserve_top_n unset preserves nothing.
LEMMA NoTopN ==
  ASSUME NEW L, Fit(L), TopN = 0
  PROVE  PreserveTopN(L) = {}
<1> SUFFICES ASSUME NEW s \in L PROVE ~ (Cardinality({ t \in L : t > s }) < 0)
  BY DEF PreserveTopN
<1>1. IsFiniteSet(1 .. Taken)
  BY FS_Interval DEF Fit
<1>2. IsFiniteSet({ t \in L : t > s })
  BY <1>1, FS_Subset DEF Fit
<1>3. Cardinality({ t \in L : t > s }) \in Nat
  BY <1>2, FS_CardinalityType
<1> QED
  BY <1>3

\* So the marking of K is that of L.
LEMMA StableMarking ==
  ASSUME NEW L, Fit(L), NEW K, Rest(L, K), ~ Rejected(L)
  PROVE  ~ Rejected(K) /\ ToDelete(K) = ToDelete(L) \intersect K
<1>1. K \subseteq L /\ Preserved(L) \subseteq K /\ ToDelete(L) = L \ Preserved(L)
  BY DEF Rest, Fit, ToDelete
<1>2. CASE Selective
  <2>1. Fit(K) /\ Anchor(K) = Anchor(L)
    BY <1>2, RestFit
  <2>2. PreserveNewerThan(K) = PreserveNewerThan(L)
    BY <1>1, <2>1 DEF PreserveNewerThan, Preserved
  <2>3. \A r \in Rules : Walk(K, r).kept = Walk(L, r).kept /\ Walk(K, r).hole = Walk(L, r).hole
    BY <1>2, RestWalk
  <2>4. PreserveTopN(K) = PreserveTopN(L)
    BY RestTopN
  <2>5. UNION { Walk(K, r).kept : r \in Rules } = UNION { Walk(L, r).kept : r \in Rules }
    BY <2>3
  <2>6. Preserved(K) = Preserved(L)
    BY <2>2, <2>4, <2>5 DEF Preserved
  <2>7. ~ Rejected(K)
    BY <2>1, <2>3 DEF Fit, Rejected, Refused
  <2>8. ToDelete(K) = K \ Preserved(K)
    BY <2>1 DEF ToDelete, Fit
  <2> QED
    BY <1>1, <2>6, <2>7, <2>8
<1>3. CASE ~ Selective
  <2>1. TopN = 0 /\ NewerThan = 0 /\ Rules = {}
    BY <1>3, PolicyAssumption DEF Selective
  <2>2. CASE K = {}
    BY <2>1, <2>2 DEF Rejected, InOrder, ToDelete, Refused
  <2>3. CASE K # {}
    <3>1. Fit(K)
      BY <1>1, <2>3 DEF Fit, InOrder
    <3>2. ASSUME NEW M, Fit(M) PROVE Preserved(M) = {}
      <4>1. PreserveTopN(M) = {}
        BY <2>1, <3>2, NoTopN
      <4>2. PreserveNewerThan(M) = {}
        BY <2>1, <3>2, Ages DEF PreserveNewerThan
      <4>3. UNION { Walk(M, r).kept : r \in Rules } = {}
        BY <2>1
      <4> QED
        BY <4>1, <4>2, <4>3 DEF Preserved
    <3>3. Preserved(K) = {} /\ Preserved(L) = {}
      BY <3>1, <3>2
    <3>4. ~ Rejected(K)
      BY <2>1, <3>1 DEF Fit, Rejected, Refused
    <3> QED
      BY <1>1, <2>3, <3>3, <3>4 DEF ToDelete
  <2> QED
    BY <2>2, <2>3
<1> QED
  BY <1>2, <1>3

-----------------------------------------------------------------------------
(* Types                                                                   *)

\* Only listed snapshots are to be deleted.
LEMMA ToDeleteListed ==
  ASSUME NEW L
  PROVE  ToDelete(L) \subseteq L
BY DEF ToDelete

\* TypeOK: the variables keep their types, and the deleter destroys exactly
\* while it has victims, which are eligible snapshots that it listed.
THEOREM TypeCorrect == Spec => []TypeOK
<1>1. Init => TypeOK
  BY RetentionBounds DEF Init, TypeOK, Taken
<1>2. TypeOK /\ [Next]_vars => TypeOK'
  <2> SUFFICES ASSUME TypeOK, [Next]_vars PROVE TypeOK'
    OBVIOUS
  <2> USE RetentionBounds
  <2>1. Taken \in Nat
    BY DEF TypeOK, Taken
  <2>2. CASE Mark
    <3>1. victims' \subseteq snaps \intersect Eligible
      BY <2>2, ToDeleteListed DEF Mark, Listed
    <3>2. victims' \subseteq snaps' \intersect Eligible \intersect 1 .. seen'
      BY <2>2, <3>1 DEF Mark, TypeOK
    <3>3. pc' \in {"idle", "done", "destroy"} /\ (pc' = "destroy" <=> victims' # {})
      BY <2>2 DEF Mark
    <3> QED
      BY <2>1, <2>2, <3>2, <3>3 DEF Mark, TypeOK, Taken
  <2>3. CASE MarkRejected
    BY <2>3 DEF MarkRejected, TypeOK, Taken
  <2>4. CASE Destroy
    BY <2>4 DEF Destroy, TypeOK, Taken
  <2>5. CASE GiveUp
    BY <2>5 DEF GiveUp, TypeOK, Taken
  <2>6. CASE TakeSnapshot
    <3>1. creation' \in Seq(0 .. MaxTime) /\ Taken' = Taken + 1
      BY <2>6 DEF TakeSnapshot, TypeOK, Taken
    <3>2. Taken + 1 <= MaxSnap
      BY <2>1, <2>6 DEF TakeSnapshot
    <3>3. snaps' \subseteq 1 .. Taken'
      BY <2>1, <2>6, <3>1 DEF TakeSnapshot, TypeOK
    <3>4. /\ seen' \in 0 .. Taken'
          /\ victims' \subseteq snaps' \intersect Eligible \intersect 1 .. seen'
          /\ pc' = "destroy" <=> victims' # {}
      BY <2>1, <2>6, <3>1 DEF TakeSnapshot, TypeOK, run
    <3> QED
      BY <2>6, <3>1, <3>2, <3>3, <3>4 DEF TakeSnapshot, TypeOK, run
  <2>7. CASE Tick
    BY <2>7 DEF Tick, TypeOK, Taken, run
  <2>8. CASE SetClockBack
    BY <2>8 DEF SetClockBack, TypeOK, Taken, run
  <2>9. CASE UNCHANGED vars
    BY <2>9 DEF vars, TypeOK, Taken, run
  <2> QED
    BY <2>2, <2>3, <2>4, <2>5, <2>6, <2>7, <2>8, <2>9 DEF Next
<1> QED
  BY <1>1, <1>2, PTL DEF Spec

\* An accepted listing of snapshots that exist is fit for the lemmas above.
LEMMA ListedFit ==
  ASSUME TypeOK, NEW L, L \subseteq snaps, L # {}, InOrder(L)
  PROVE  Fit(L)
<1>1. Taken \in Nat /\ creation \in [1 .. Taken -> 0 .. MaxTime]
  <2>1. creation \in Seq(0 .. MaxTime)
    BY DEF TypeOK
  <2>2. Len(creation) \in Nat /\ creation \in [1 .. Len(creation) -> 0 .. MaxTime]
    <3> DEFINE T == 0 .. MaxTime
    <3> HIDE DEF T
    <3>1. creation \in Seq(T)
      BY <2>1 DEF T
    <3>2. Len(creation) \in Nat /\ creation \in [1 .. Len(creation) -> T]
      BY <3>1
    <3> QED
      BY <3>2 DEF T
  <2> QED
    BY <2>2 DEF Taken
<1>2. creation \in [1 .. Taken -> Nat]
  BY <1>1
<1>3. L \subseteq 1 .. Taken
  <2>1. snaps \subseteq 1 .. Taken
    BY DEF TypeOK
  <2> QED
    BY <2>1
<1> QED
  BY <1>1, <1>2, <1>3 DEF Fit

-----------------------------------------------------------------------------
(* A rule keeps the newest of each bucket                                  *)

\* WalkKeepsNewestPerBucket: the loop computes what the documentation of a rule
\* says, from any set of snapshots the program may find.
THEOREM WalkKeepsNewest == Spec => []WalkKeepsNewestPerBucket
<1>1. TypeOK => WalkKeepsNewestPerBucket
  <2> DEFINE L == Listed(snaps)
             buckets(r) == 0 .. (r.count - 1)
             filled(r) == { k \in buckets(r) : Bucket(L, r, k) # {} }
  <2> SUFFICES ASSUME TypeOK, L # {}, InOrder(L), NEW r \in Rules
               PROVE  /\ Walk(L, r).kept =
                           { s \in L : \E k \in filled(r) :
                               s \in Bucket(L, r, k) /\ \A t \in Bucket(L, r, k) : t <= s }
                      /\ Walk(L, r).hole <=> \E k \in buckets(r) \ filled(r) : \E m \in filled(r) : k < m
    BY DEF WalkKeepsNewestPerBucket
  <2>1. Fit(L)
    BY ListedFit DEF Listed
  <2>2. /\ r.count \in Nat
        /\ \A t \in L : t \in Nat /\ Interval(L, r, t) \in Nat
    BY <2>1, PolicyAssumption, Intervals, Numbers
  <2>3. \A s \in L : (\E k \in filled(r) : /\ s \in Bucket(L, r, k)
                                        /\ \A t \in Bucket(L, r, k) : t <= s)
                     <=> Interval(L, r, s) < r.count /\ Leads(L, r, s)
    <3> SUFFICES ASSUME NEW s \in L
                 PROVE  (\E k \in filled(r) : /\ s \in Bucket(L, r, k)
                                           /\ \A t \in Bucket(L, r, k) : t <= s)
                        <=> Interval(L, r, s) < r.count /\ Leads(L, r, s)
      OBVIOUS
    <3>1. Leads(L, r, s) <=> \A t \in Bucket(L, r, Interval(L, r, s)) : t <= s
      BY <2>2 DEF Leads, Bucket
    <3>2. \A k : s \in Bucket(L, r, k) <=> k = Interval(L, r, s)
      BY DEF Bucket
    <3>3. Interval(L, r, s) \in filled(r) <=> Interval(L, r, s) < r.count
      BY <2>2, <3>2
    <3> QED
      BY <3>1, <3>2, <3>3
  <2>4. Walk(L, r).kept = { s \in L : \E k \in filled(r) :
                               s \in Bucket(L, r, k) /\ \A t \in Bucket(L, r, k) : t <= s }
    BY <2>1, <2>3, WalkResult
  <2>5. \A k \in buckets(r) : k \in filled(r) <=> \E t \in L : Interval(L, r, t) = k
    BY DEF Bucket
  <2>6. Walk(L, r).hole <=> \E k \in buckets(r) \ filled(r) : \E m \in filled(r) : k < m
    BY <2>1, <2>5, WalkResult
  <2> QED
    BY <2>4, <2>6
<1> QED
  BY <1>1, TypeCorrect, PTL

-----------------------------------------------------------------------------
(* The newest snapshot survives                                            *)

\* A run has left an eligible snapshot that is newer than all its victims.
NewerLeft ==
  Selective /\ pc = "destroy" =>
    \E x \in (snaps \intersect Eligible) \ victims : \A v \in victims : v < x

LEMMA MarkLeavesNewer ==
  ASSUME TypeOK, Mark
  PROVE  NewerLeft'
<1> DEFINE L == Listed(snaps)
<1> SUFFICES ASSUME Selective, pc' = "destroy"
             PROVE  \E x \in (snaps' \intersect Eligible) \ victims' : \A v \in victims' : v < x
  BY DEF NewerLeft, Selective
<1>1. L # {} /\ victims' = L \ Preserved(L) /\ snaps' = snaps /\ InOrder(L)
  BY DEF Mark, ToDelete, Rejected
<1>2. Fit(L)
  BY <1>1, ListedFit DEF Listed
<1>3. Newest(L) \in Preserved(L)
  BY <1>2, NewestPreserved
<1>4. Newest(L) \in L /\ \A t \in L : t <= Newest(L)
  BY <1>2, NewestIsLast DEF Fit
<1>5. \A v \in victims' : v < Newest(L)
  BY <1>1, <1>2, <1>3, <1>4, Numbers
<1> QED
  BY <1>1, <1>3, <1>4, <1>5 DEF Listed

\* NewestSurvives: with a policy that preserves anything at all, no run
\* destroys the newest eligible snapshot.
THEOREM NewestNeverDestroyed == Spec => NewestSurvives
<1>1. Init => NewerLeft
  BY DEF Init, NewerLeft
<1>2. TypeOK /\ NewerLeft /\ [Next]_vars => NewerLeft'
  <2> SUFFICES ASSUME TypeOK, NewerLeft, [Next]_vars PROVE NewerLeft'
    OBVIOUS
  <2>1. CASE Mark
    BY <2>1, MarkLeavesNewer
  <2>2. CASE MarkRejected
    BY <2>2 DEF MarkRejected, NewerLeft, Selective
  <2>3. CASE Destroy
    BY <2>3 DEF Destroy, NewerLeft, Selective
  <2>4. CASE GiveUp
    BY <2>4 DEF GiveUp, NewerLeft
  <2>5. CASE TakeSnapshot
    BY <2>5 DEF TakeSnapshot, NewerLeft, Selective, run
  <2>6. CASE Tick \/ SetClockBack \/ UNCHANGED vars
    BY <2>6 DEF Tick, SetClockBack, vars, NewerLeft, Selective, run
  <2> QED
    BY <2>1, <2>2, <2>3, <2>4, <2>5, <2>6 DEF Next
<1>3. ASSUME TypeOK, NewerLeft, [Next]_vars, Selective,
             NEW s \in snaps \intersect Eligible,
             \A t \in snaps \intersect Eligible : t <= s
      PROVE  s \in snaps'
  <2>1. CASE Destroy
    <3>1. PICK x \in (snaps \intersect Eligible) \ victims : \A v \in victims : v < x
      BY <1>3, <2>1 DEF NewerLeft, Destroy
    <3>2. x \in Nat /\ s \in Nat /\ x <= s
      BY <1>3, <3>1 DEF TypeOK, Taken
    <3>3. s \notin victims
      BY <3>1, <3>2
    <3> QED
      BY <2>1, <3>3 DEF Destroy
  <2>2. CASE Next /\ ~ Destroy
    BY <2>2 DEF Next, Mark, MarkRejected, GiveUp, TakeSnapshot, Tick, SetClockBack
  <2>3. CASE UNCHANGED vars
    BY <2>3 DEF vars
  <2> QED
    BY <1>3, <2>1, <2>2, <2>3
<1>4. TypeOK /\ NewerLeft /\ [Next]_vars =>
        [Selective => \A s \in snaps \intersect Eligible :
            (\A t \in snaps \intersect Eligible : t <= s) => s \in snaps']_vars
  BY <1>3
<1> QED
  BY <1>1, <1>2, <1>4, TypeCorrect, PTL DEF Spec, NewestSurvives

-----------------------------------------------------------------------------
(* Runs that are broken off, and runs that are repeated                    *)

\* What a new run would decide, as long as creation times stay what they are.
LEMMA SameTimes ==
  ASSUME creation' = creation
  PROVE  /\ (~ Rejected(Listed(snaps)))' <=> ~ Rejected(Listed(snaps'))
         /\ ToDelete(Listed(snaps))' = ToDelete(Listed(snaps'))
BY DEF Rejected, Refused, InOrder, ToDelete, Preserved, PreserveTopN, PreserveNewerThan,
       Walk, Rounds, Visit, Interval, Anchor, Newest, Listed, Taken

\* The decision a run made stands while it destroys and after it is done.
Stands ==
  /\ InterruptedRunContinues
  /\ WindowFreezes

LEMMA DestroyStands ==
  ASSUME TypeOK, Stands, Destroy
  PROVE  Stands'
<1> DEFINE L == Listed(snaps)
           K == Listed(snaps')
<1> SUFFICES ASSUME seen = Taken
             PROVE  /\ (~ Rejected(Listed(snaps)))'
                    /\ (ToDelete(Listed(snaps)) = victims)'
  BY DEF Destroy, Stands, InterruptedRunContinues, WindowFreezes, Taken
<1>1. ~ Rejected(L) /\ ToDelete(L) = victims
  BY DEF Destroy, Stands, InterruptedRunContinues
<1>2. PICK last \in victims : /\ snaps' = snaps \ { s \in victims : s <= last }
                              /\ victims' = victims \ { s \in victims : s <= last }
  BY DEF Destroy
<1>3. L # {} /\ victims = L \ Preserved(L)
  BY <1>1 DEF ToDelete
<1>4. Fit(L)
  BY <1>1, <1>3, ListedFit DEF Listed, Rejected
<1>5. Preserved(L) \subseteq L
  BY <1>4, WalkResult DEF Preserved, PreserveTopN, PreserveNewerThan
<1>6. K = L \ { s \in victims : s <= last }
  BY <1>2 DEF Listed
<1>7. Rest(L, K)
  BY <1>3, <1>5, <1>6 DEF Rest
<1>8. ~ Rejected(K) /\ ToDelete(K) = ToDelete(L) \intersect K
  BY <1>1, <1>4, <1>7, StableMarking
<1>9. ToDelete(K) = victims'
  BY <1>1, <1>2, <1>3, <1>6, <1>8
<1> QED
  BY <1>8, <1>9, SameTimes DEF Destroy

LEMMA StandsStep ==
  ASSUME TypeOK, Stands, [Next]_vars
  PROVE  Stands'
<1>1. CASE Mark
  <2>1. snaps' = snaps /\ creation' = creation
    BY <1>1 DEF Mark
  <2>2. ~ Rejected(Listed(snaps')) /\ ToDelete(Listed(snaps')) = victims'
    BY <1>1, <2>1 DEF Mark
  <2>3. (~ Rejected(Listed(snaps)))' /\ (ToDelete(Listed(snaps)) = victims)'
    BY <2>1, <2>2, SameTimes
  <2> QED
    BY <1>1, <2>3 DEF Mark, Stands, InterruptedRunContinues, WindowFreezes
<1>2. CASE MarkRejected
  BY <1>2 DEF MarkRejected, Stands, InterruptedRunContinues, WindowFreezes
<1>3. CASE Destroy
  BY <1>3, DestroyStands
<1>4. CASE GiveUp
  BY <1>4 DEF GiveUp, Stands, InterruptedRunContinues, WindowFreezes
<1>5. CASE TakeSnapshot
  <2>1. Taken' = Taken + 1 /\ Taken \in Nat /\ seen' = seen /\ seen \in 0 .. Taken
    BY <1>5 DEF TakeSnapshot, TypeOK, Taken, run
  <2>2. seen' # Taken'
    BY <2>1
  <2> QED
    BY <2>2 DEF Stands, InterruptedRunContinues, WindowFreezes
<1>6. CASE Tick \/ SetClockBack \/ UNCHANGED vars
  <2>1. snaps' = snaps /\ creation' = creation /\ pc' = pc /\ seen' = seen /\ victims' = victims
    BY <1>6 DEF Tick, SetClockBack, vars, run
  <2>2. /\ (~ Rejected(Listed(snaps)))' <=> ~ Rejected(Listed(snaps))
        /\ ToDelete(Listed(snaps))' = ToDelete(Listed(snaps))
    BY <2>1, SameTimes
  <2>3. Taken' = Taken
    BY <2>1 DEF Taken
  <2> QED
    BY <2>1, <2>2, <2>3 DEF Stands, InterruptedRunContinues, WindowFreezes
<1> QED
  BY <1>1, <1>2, <1>3, <1>4, <1>5, <1>6 DEF Next

\* InterruptedRunContinues: a run that is broken off leaves to the next exactly
\* what it had still to destroy.
THEOREM InterruptedRunsContinue == Spec => []InterruptedRunContinues
<1>1. Init => Stands
  BY DEF Init, Stands, InterruptedRunContinues, WindowFreezes
<1>2. TypeOK /\ Stands /\ [Next]_vars => Stands'
  BY StandsStep
<1>3. Stands => InterruptedRunContinues
  BY DEF Stands
<1> QED
  BY <1>1, <1>2, <1>3, TypeCorrect, PTL DEF Spec

\* WindowFreezes: after a successful run nothing more is destroyed until a
\* snapshot is taken.
THEOREM WindowStaysFrozen == Spec => []WindowFreezes
<1>1. Init => Stands
  BY DEF Init, Stands, InterruptedRunContinues, WindowFreezes
<1>2. TypeOK /\ Stands /\ [Next]_vars => Stands'
  BY StandsStep
<1>3. Stands => WindowFreezes
  BY DEF Stands
<1> QED
  BY <1>1, <1>2, <1>3, TypeCorrect, PTL DEF Spec
=============================================================================
