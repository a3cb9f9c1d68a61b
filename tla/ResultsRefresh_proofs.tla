----------------------- MODULE ResultsRefresh_proofs -----------------------
(***************************************************************************)
(* What results and budgets are computed from, for any number of sessions  *)
(* refreshing and of executions: the summary that makes the rows readable  *)
(* is always that of a complete download.  And the turns of the attempts,  *)
(* for any number of them: who is looked up while another waits goes       *)
(* behind it (OrderInv, TurnsInv), so only a session that pressed before   *)
(* can look it up again first, once.                                       *)
(***************************************************************************)
EXTENDS ResultsRefresh, FiniteSetTheorems, SequenceTheorems, WellFoundedInduction, TLAPS

\* The rows are fills, and what a session works with comes from one download,
\* the summary too.
ExecutionsInv ==
  /\ made \subseteq Fills
  /\ rows \subseteq Fills
  /\ synced \in downloads \cup {Executions!NeverSynced}
  /\ step \in [Sessions -> {"idle", "load", "save"}]
  /\ got \in [Sessions -> SUBSET Fills]
  /\ toSave \in [Sessions -> SUBSET Fills]
  /\ \A s \in Sessions : step[s] # "idle" => got[s] \in downloads

----------------------------------------------------------------------------
\* The fill that is saved next, the least of those left, is one of them.
LEMMA MinIsOfTheSet ==
  ASSUME NEW S \in SUBSET Nat, S # {}
  PROVE  Executions!Min(S) \in S
<1>1. PICK x \in S : \A y \in S : ~(<<y, x>> \in OpToRel(<, Nat))
  BY NatLessThanWellFounded, WFMin
<1>2. ASSUME NEW y \in S
      PROVE  x <= y
  <2>1. x \in Nat /\ y \in Nat
    OBVIOUS
  <2>2. ASSUME y < x
        PROVE  FALSE
    <3>1. <<y, x>> \in Nat \X Nat
      BY <2>1
    <3>2. <<y, x>> \in OpToRel(<, Nat)
      BY <3>1, <2>2 DEF OpToRel
    <3> QED BY <3>2, <1>1
  <2> QED BY <2>1, <2>2
<1> QED BY <1>2 DEF Executions!Min

----------------------------------------------------------------------------
\* Nothing is downloaded at first.
LEMMA InitExecutions == Init => ExecutionsInv
BY DEF Init, Executions!Init, ExecutionsInv

\* One step of a refresh of the executions.
LEMMA RefreshKeeps ==
  ASSUME ExecutionsInv, NEW s \in Sessions, Executions!Refresh(s)
  PROVE  ExecutionsInv'
<1>1. CASE Executions!Download(s)
  BY <1>1 DEF ExecutionsInv, Executions!Download, Executions!Goto
<1>2. CASE Executions!LoadKnown(s)
  <2>1. got[s] \ rows \in SUBSET Fills
    BY DEF ExecutionsInv
  <2> QED BY <1>2, <2>1 DEF ExecutionsInv, Executions!LoadKnown, Executions!Goto
<1>3. CASE Executions!SaveFill(s)
  <2>1. toSave[s] \in SUBSET Fills /\ toSave[s] # {} /\ toSave[s] \in SUBSET Nat
    BY <1>3, FillsAssumption DEF ExecutionsInv, Executions!SaveFill
  <2>2. Executions!Min(toSave[s]) \in Fills
    BY <2>1, MinIsOfTheSet
  <2>3. rows' \subseteq Fills
    BY <1>3, <2>2 DEF ExecutionsInv, Executions!SaveFill
  <2>4. toSave' \in [Sessions -> SUBSET Fills]
    BY <1>3, <2>1 DEF ExecutionsInv, Executions!SaveFill
  <2> QED BY <1>3, <2>3, <2>4 DEF ExecutionsInv, Executions!SaveFill
<1>4. CASE Executions!SaveSync(s)
  BY <1>4 DEF ExecutionsInv, Executions!SaveSync, Executions!Return, Executions!Goto
<1> QED BY <1>1, <1>2, <1>3, <1>4 DEF Executions!Refresh

\* A refresh saves rows, then the summary, of the one download it holds.
LEMMA NextExecutions == ExecutionsInv /\ [Next]_vars => ExecutionsInv'
<1> SUFFICES ASSUME ExecutionsInv, [Next]_vars PROVE ExecutionsInv'
  OBVIOUS
<1>1. CASE BrokerFills
  BY <1>1 DEF ExecutionsInv, BrokerFills, Executions!BrokerFills
<1>2. ASSUME NEW s \in Sessions, Executions!Fail(s)
      PROVE  ExecutionsInv'
  BY <1>2 DEF ExecutionsInv, Executions!Fail, Executions!Return, Executions!Goto
<1>3. CASE UNCHANGED executions
  BY <1>3 DEF executions, ExecutionsInv
<1>4. ASSUME NEW s \in Sessions, Press(s) \/ LookUp(s) \/ Fetch(s) \/ Fail(s)
      PROVE  Executions!Refresh(s) \/ Executions!Fail(s) \/ UNCHANGED executions
  BY <1>4 DEF Press, LookUp, Fetch, Fail
<1>5. CASE UNCHANGED vars
  BY <1>3, <1>5 DEF vars
<1> QED BY <1>1, <1>2, <1>3, <1>4, <1>5, RefreshKeeps DEF Next

\* The rows can be read only if they are all of one complete download, however
\* the refreshes overlap and wherever they stop.
THEOREM OnlyCompleteIsRead == Spec => []ReadableIsComplete
<1>1. ExecutionsInv => ReadableIsComplete
  BY FillsAssumption
     DEF ExecutionsInv, ReadableIsComplete, Executions!ReadableIsComplete,
         Executions!Readable, Executions!NeverSynced
<1> QED BY <1>1, InitExecutions, NextExecutions, PTL DEF Spec

----------------------------------------------------------------------------
(* Sequences: what Among takes out of one, and in which order. *)

\* Induction over the naturals, said of a set.
LEMMA NatSetInduction ==
  ASSUME NEW T \in SUBSET Nat, 0 \in T, \A n \in T : n + 1 \in T
  PROVE  T = Nat
<1>1. SUFFICES ASSUME Nat \ T # {} PROVE FALSE
  OBVIOUS
<1>2. PICK x \in Nat \ T : \A y \in Nat \ T : ~(<<y, x>> \in OpToRel(<, Nat))
  BY <1>1, NatLessThanWellFounded, WFMin
<1>3. x # 0 /\ x \in Nat
  OBVIOUS
<1>4. x - 1 \in Nat /\ x - 1 < x
  BY <1>3
<1>5. <<x - 1, x>> \in OpToRel(<, Nat)
  BY <1>3, <1>4 DEF OpToRel
<1>6. x - 1 \in T
  BY <1>2, <1>4, <1>5
<1>7. (x - 1) + 1 = x
  BY <1>3
<1> QED BY <1>6, <1>7, <1>3

\* The members are kept one by one.
KeepOne(S, s, F, n) == IF s[n] \in S THEN Append(F[n - 1], s[n]) ELSE F[n - 1]
Kept(S, s, m, F) == F = [n \in 0..m |-> IF n = 0 THEN <<>> ELSE KeepOne(S, s, F, n)]

\* The recursion of Among has a value.
LEMMA KeptExists ==
  ASSUME NEW S, NEW s, NEW m \in Nat
  PROVE  \E F : Kept(S, s, m, F)
<1> DEFINE T == {n \in Nat : \E F : Kept(S, s, n, F)}
<1>1. 0 \in T
  <2>1. Kept(S, s, 0, [i \in 0..0 |-> <<>>])
    BY DEF Kept
  <2> QED BY <2>1
<1>2. ASSUME NEW n \in T
      PROVE  n + 1 \in T
  <2>1. n \in Nat /\ \E F : Kept(S, s, n, F)
    OBVIOUS
  <2>2. PICK F : Kept(S, s, n, F)
    BY <2>1
  <2> DEFINE H == [i \in 0..(n + 1) |-> IF i = 0 THEN <<>> ELSE KeepOne(S, s, F, i)]
  <2>3. \A i \in 0..n : H[i] = F[i]
    BY <2>1, <2>2 DEF Kept
  <2>4. \A i \in 1..(n + 1) : i - 1 \in 0..n
    BY <2>1
  <2>5. \A i \in 1..(n + 1) : KeepOne(S, s, F, i) = KeepOne(S, s, H, i)
    <3> HIDE DEF H
    <3> QED BY <2>3, <2>4 DEF KeepOne
  <2>6. \A i \in 0..(n + 1) : i # 0 => i \in 1..(n + 1)
    BY <2>1
  <2>7. Kept(S, s, n + 1, H)
    BY <2>5, <2>6 DEF Kept
  <2> HIDE DEF H
  <2> QED BY <2>1, <2>7
<1>3. T = Nat
  BY <1>1, <1>2, NatSetInduction
<1> QED BY <1>3

\* k is the first n of s without those that are not in S: g says where each
\* comes from.
Picks(S, s, n, k, g) ==
  /\ g \in [1..Len(k) -> 1..n]
  /\ \A i, j \in 1..Len(k) : i < j => g[i] < g[j]
  /\ \A j \in 1..Len(k) : k[j] = s[g[j]] /\ k[j] \in S
  /\ \A l \in 1..n : s[l] \in S => \E j \in 1..Len(k) : g[j] = l

\* One more is kept, or not.
LEMMA PicksOne ==
  ASSUME NEW R, NEW S, NEW s \in Seq(R), NEW n \in Nat, n + 1 <= Len(s),
         NEW k \in Seq(R), NEW g, Picks(S, s, n, k, g)
  PROVE  LET next == IF s[n + 1] \in S THEN Append(k, s[n + 1]) ELSE k
         IN  next \in Seq(R) /\ \E h : Picks(S, s, n + 1, next, h)
<1>1. n + 1 \in 1..Len(s) /\ s[n + 1] \in R /\ Len(k) \in Nat
  OBVIOUS
<1>2. CASE s[n + 1] \in S
  <2> DEFINE next == Append(k, s[n + 1])
             h == [j \in 1..(Len(k) + 1) |-> IF j = Len(k) + 1 THEN n + 1 ELSE g[j]]
  <2>1. /\ next \in Seq(R) /\ Len(next) = Len(k) + 1 /\ next[Len(k) + 1] = s[n + 1]
        /\ \A j \in 1..Len(k) : next[j] = k[j]
    BY <1>1
  <2>2. \A j \in 1..Len(k) : g[j] \in 1..n
    BY DEF Picks
  <2>3. \A j \in 1..(Len(k) + 1) : j = Len(k) + 1 \/ j \in 1..Len(k)
    BY <1>1
  <2>4. /\ h[Len(k) + 1] = n + 1
        /\ \A j \in 1..Len(k) : h[j] = g[j]
    BY <1>1
  <2>5. h \in [1..(Len(k) + 1) -> 1..(n + 1)]
    BY <1>1, <2>2, <2>3
  <2> HIDE DEF h, next
  <2>6. \A i, j \in 1..(Len(k) + 1) : i < j => h[i] < h[j]
    <3> SUFFICES ASSUME NEW i \in 1..(Len(k) + 1), NEW j \in 1..(Len(k) + 1), i < j
                 PROVE  h[i] < h[j]
      OBVIOUS
    <3>1. i \in 1..Len(k)
      BY <1>1
    <3>2. CASE j = Len(k) + 1
      <4>1. g[i] \in 1..n
        BY <2>2, <3>1
      <4>2. h[i] = g[i] /\ h[j] = n + 1
        BY <2>4, <3>1, <3>2
      <4> QED BY <4>1, <4>2
    <3>3. CASE j \in 1..Len(k)
      BY <2>4, <3>1, <3>3 DEF Picks
    <3> QED BY <2>3, <3>2, <3>3
  <2>7. \A j \in 1..(Len(k) + 1) : next[j] = s[h[j]] /\ next[j] \in S
    BY <1>2, <2>1, <2>3, <2>4 DEF Picks
  <2>8. \A l \in 1..(n + 1) : s[l] \in S => \E j \in 1..(Len(k) + 1) : h[j] = l
    <3> SUFFICES ASSUME NEW l \in 1..(n + 1), s[l] \in S
                 PROVE  \E j \in 1..(Len(k) + 1) : h[j] = l
      OBVIOUS
    <3>1. CASE l = n + 1
      <4>1. Len(k) + 1 \in 1..(Len(k) + 1)
        BY <1>1
      <4> QED BY <2>4, <3>1, <4>1
    <3>2. CASE l # n + 1
      <4>1. l \in 1..n
        BY <3>2
      <4>2. PICK j \in 1..Len(k) : g[j] = l
        BY <4>1 DEF Picks
      <4>3. j \in 1..(Len(k) + 1) /\ h[j] = l
        BY <1>1, <2>4, <4>2
      <4> QED BY <4>3
    <3> QED BY <3>1, <3>2
  <2>9. Picks(S, s, n + 1, next, h)
    BY <2>1, <2>5, <2>6, <2>7, <2>8 DEF Picks
  <2>10. next \in Seq(R) /\ \E f : Picks(S, s, n + 1, next, f)
    BY <2>1, <2>9
  <2> QED BY <1>2, <2>10 DEF next
<1>3. CASE s[n + 1] \notin S
  <2>1. g \in [1..Len(k) -> 1..(n + 1)]
    BY DEF Picks
  <2>2. \A l \in 1..(n + 1) : s[l] \in S => \E j \in 1..Len(k) : g[j] = l
    <3>1. \A l \in 1..(n + 1) : l = n + 1 \/ l \in 1..n
      OBVIOUS
    <3> QED BY <1>3, <3>1 DEF Picks
  <2>3. Picks(S, s, n + 1, k, g)
    BY <2>1, <2>2 DEF Picks
  <2> QED BY <1>3, <2>3
<1> QED BY <1>2, <1>3

\* What Among keeps, and in which order.
LEMMA AmongPicks ==
  ASSUME NEW R, NEW S, NEW s \in Seq(R)
  PROVE  /\ Lookups!Among(S, s) \in Seq(R)
         /\ \E g : Picks(S, s, Len(s), Lookups!Among(S, s), g)
<1> DEFINE F == CHOOSE f : Kept(S, s, Len(s), f)
           T == {n \in Nat : n <= Len(s) => F[n] \in Seq(R) /\ \E g : Picks(S, s, n, F[n], g)}
<1>1. Len(s) \in Nat
  OBVIOUS
<1>2. Kept(S, s, Len(s), F)
  BY <1>1, KeptExists
<1>3. Lookups!Among(S, s) = F[Len(s)]
  BY DEF Lookups!Among, Kept, KeepOne
<1> HIDE DEF F
<1>4. 0 \in T
  <2>1. F[0] = <<>>
    BY <1>1, <1>2 DEF Kept
  <2>2. <<>> \in Seq(R) /\ Len(<<>>) = 0
    OBVIOUS
  <2>3. Picks(S, s, 0, <<>>, [j \in 1..0 |-> 0])
    BY <2>2 DEF Picks
  <2> QED BY <2>1, <2>2, <2>3
<1>5. ASSUME NEW n \in T
      PROVE  n + 1 \in T
  <2> SUFFICES ASSUME n + 1 <= Len(s)
               PROVE  F[n + 1] \in Seq(R) /\ \E g : Picks(S, s, n + 1, F[n + 1], g)
    OBVIOUS
  <2>1. n \in Nat /\ n <= Len(s)
    BY <1>1
  <2>2. F[n] \in Seq(R) /\ \E g : Picks(S, s, n, F[n], g)
    BY <2>1
  <2>3. PICK g : Picks(S, s, n, F[n], g)
    BY <2>2
  <2>4. F[n + 1] = KeepOne(S, s, F, n + 1)
    BY <1>1, <1>2, <2>1 DEF Kept
  <2>5. (n + 1) - 1 = n
    BY <2>1
  <2>6. F[n + 1] = IF s[n + 1] \in S THEN Append(F[n], s[n + 1]) ELSE F[n]
    BY <2>4, <2>5 DEF KeepOne
  <2> HIDE DEF T
  <2> QED BY <2>1, <2>2, <2>3, <2>6, PicksOne
<1>6. T = Nat
  <2> HIDE DEF T
  <2>1. T \in SUBSET Nat
    BY DEF T
  <2> QED BY <1>4, <1>5, <2>1, NatSetInduction
<1> QED BY <1>1, <1>3, <1>6

\* No attempt twice.
Distinct(s) == \A i, j \in 1..Len(s) : s[i] = s[j] => i = j

\* d comes before e in s.
Ahead(s, d, e) == \E i, j \in 1..Len(s) : i < j /\ s[i] = d /\ s[j] = e

\* e comes in s, and d not before it.
Free(s, d, e) == \E j \in 1..Len(s) : s[j] = e /\ \A i \in 1..Len(s) : i < j => s[i] # d

\* Among keeps each member once, in the order they have.
LEMMA AmongOrders ==
  ASSUME NEW S, NEW o \in Seq(Drafts), Distinct(o)
  PROVE  LET k == Lookups!Among(S, o)
         IN  /\ k \in Seq(Drafts) /\ Distinct(k)
             /\ \A j \in 1..Len(k) : k[j] \in S
             /\ \A l \in 1..Len(o) : o[l] \in S => \E j \in 1..Len(k) : k[j] = o[l]
             /\ \A d \in S, e \in S : Ahead(o, d, e) => Ahead(k, d, e)
             /\ \A d \in S : \A e : Ahead(o, d, e) => ~Free(k, d, e)
<1> DEFINE k == Lookups!Among(S, o)
<1>1. k \in Seq(Drafts) /\ \E g : Picks(S, o, Len(o), k, g)
  BY AmongPicks
<1> HIDE DEF k
<1>2. PICK g : Picks(S, o, Len(o), k, g)
  BY <1>1
<1>3. Len(k) \in Nat /\ Len(o) \in Nat /\ \A j \in 1..Len(k) : g[j] \in 1..Len(o)
  BY <1>1, <1>2 DEF Picks
<1>4. \A i, j \in 1..Len(k) : g[i] = g[j] => i = j
  <2> SUFFICES ASSUME NEW i \in 1..Len(k), NEW j \in 1..Len(k), g[i] = g[j], i # j
               PROVE  FALSE
    OBVIOUS
  <2>1. i < j \/ j < i
    BY <1>3
  <2>2. g[i] < g[j] \/ g[j] < g[i]
    BY <1>2, <2>1 DEF Picks
  <2>3. g[i] \in Nat /\ g[j] \in Nat
    BY <1>3
  <2> QED BY <2>2, <2>3
<1>5. Distinct(k)
  <2> SUFFICES ASSUME NEW i \in 1..Len(k), NEW j \in 1..Len(k), k[i] = k[j]
               PROVE  i = j
    BY DEF Distinct
  <2>1. o[g[i]] = o[g[j]]
    BY <1>2 DEF Picks
  <2>2. g[i] = g[j]
    BY <1>3, <2>1 DEF Distinct
  <2> QED BY <1>4, <2>2
<1>6. \A j \in 1..Len(k) : k[j] \in S
  BY <1>2 DEF Picks
<1>7. \A l \in 1..Len(o) : o[l] \in S => \E j \in 1..Len(k) : g[j] = l /\ k[j] = o[l]
  BY <1>2 DEF Picks
<1>8. \A i, j \in 1..Len(k) : g[i] < g[j] => i < j
  <2> SUFFICES ASSUME NEW i \in 1..Len(k), NEW j \in 1..Len(k), g[i] < g[j], ~(i < j)
               PROVE  FALSE
    OBVIOUS
  <2>1. g[i] \in Nat /\ g[j] \in Nat
    BY <1>3
  <2>2. i # j
    BY <2>1
  <2>3. j < i
    BY <1>3, <2>2
  <2>4. g[j] < g[i]
    BY <1>2, <2>3 DEF Picks
  <2> QED BY <2>1, <2>4
<1>9. ASSUME NEW d \in S, NEW e, Ahead(o, d, e), NEW j \in 1..Len(k), k[j] = e
      PROVE  \E i \in 1..Len(k) : i < j /\ k[i] = d
  <2>1. PICK a \in 1..Len(o), b \in 1..Len(o) : a < b /\ o[a] = d /\ o[b] = e
    BY <1>9 DEF Ahead
  <2>2. PICK i \in 1..Len(k) : g[i] = a /\ k[i] = d
    BY <1>7, <2>1
  <2>3. o[g[j]] = e /\ g[j] \in 1..Len(o)
    BY <1>2, <1>3, <1>9 DEF Picks
  <2>4. g[j] = b
    BY <2>1, <2>3 DEF Distinct
  <2>5. i < j
    BY <1>8, <2>1, <2>2, <2>4
  <2> QED BY <2>2, <2>5
<1>10. \A d \in S, e \in S : Ahead(o, d, e) => Ahead(k, d, e)
  <2> SUFFICES ASSUME NEW d \in S, NEW e \in S, Ahead(o, d, e)
               PROVE  Ahead(k, d, e)
    OBVIOUS
  <2>1. PICK b \in 1..Len(o) : o[b] = e
    BY DEF Ahead
  <2>2. PICK j \in 1..Len(k) : k[j] = e
    BY <1>7, <2>1
  <2> QED BY <1>9, <2>2 DEF Ahead
<1>11. \A d \in S : \A e : Ahead(o, d, e) => ~Free(k, d, e)
  BY <1>9 DEF Free
<1>12. \A l \in 1..Len(o) : o[l] \in S => \E j \in 1..Len(k) : k[j] = o[l]
  BY <1>7
<1> QED BY <1>1, <1>5, <1>6, <1>10, <1>11, <1>12 DEF k

\* The first n of a sequence: what is free in them is free in it.
LEMMA FirstOnes ==
  ASSUME NEW s \in Seq(Drafts), Distinct(s)
  PROVE  LET f == Lookups!TakeFirst(s, BatchSize)
         IN  /\ f \in Seq(Drafts) /\ Distinct(f)
             /\ \A d, e : Free(f, d, e) => Free(s, d, e)
<1> DEFINE m == IF Len(s) < BatchSize THEN Len(s) ELSE BatchSize
           f == SubSeq(s, 1, m)
<1>1. Lookups!TakeFirst(s, BatchSize) = f
  BY DEF Lookups!TakeFirst
<1>2. m \in Nat /\ m <= Len(s) /\ Len(s) \in Nat
  BY BatchAssumption
<1> HIDE DEF m
<1>3. \A i \in 1..m : s[i] \in Drafts
  BY <1>2
<1>4. /\ f \in Seq(Drafts) /\ Len(f) = m
      /\ \A i \in 1..m : f[i] = s[i] /\ i \in 1..Len(s)
  BY <1>2, <1>3
<1> HIDE DEF f
<1>5. Distinct(f)
  BY <1>4 DEF Distinct
<1>6. ASSUME NEW d, NEW e, Free(f, d, e)
      PROVE  Free(s, d, e)
  <2>1. PICK j \in 1..m : f[j] = e /\ \A i \in 1..m : i < j => f[i] # d
    BY <1>4, <1>6 DEF Free
  <2>2. \A i \in 1..Len(s) : i < j => i \in 1..m
    BY <1>2
  <2> QED BY <1>4, <2>1, <2>2 DEF Free
<1> QED BY <1>1, <1>4, <1>5, <1>6

\* What is left of a batch after its head.
LEMMA TailOnes ==
  ASSUME NEW s \in Seq(Drafts), s # <<>>, Distinct(s)
  PROVE  /\ Head(s) \in Drafts /\ Tail(s) \in Seq(Drafts) /\ Distinct(Tail(s))
         /\ \A d, e : d # Head(s) /\ Free(Tail(s), d, e) => Free(s, d, e)
         /\ \A d : Free(s, d, Head(s)) /\ ~Free(Tail(s), d, Head(s))
<1>1. /\ Len(s) \in Nat \ {0} /\ Head(s) = s[1] /\ Head(s) \in Drafts
      /\ Tail(s) \in Seq(Drafts) /\ Len(Tail(s)) = Len(s) - 1
      /\ \A i \in 1..(Len(s) - 1) : Tail(s)[i] = s[i + 1] /\ i + 1 \in 1..Len(s)
  BY HeadTailProperties
<1>2. Distinct(Tail(s))
  <2> SUFFICES ASSUME NEW i \in 1..(Len(s) - 1), NEW j \in 1..(Len(s) - 1), Tail(s)[i] = Tail(s)[j]
               PROVE  i = j
    BY <1>1 DEF Distinct
  <2>1. i + 1 = j + 1
    BY <1>1 DEF Distinct
  <2> QED BY <2>1
<1>3. ASSUME NEW d, NEW e, d # Head(s), Free(Tail(s), d, e)
      PROVE  Free(s, d, e)
  <2>1. PICK j \in 1..(Len(s) - 1) : /\ Tail(s)[j] = e
                                     /\ \A i \in 1..(Len(s) - 1) : i < j => Tail(s)[i] # d
    BY <1>1, <1>3 DEF Free
  <2>2. s[j + 1] = e /\ j + 1 \in 1..Len(s)
    BY <1>1, <2>1
  <2>3. ASSUME NEW i \in 1..Len(s), i < j + 1
        PROVE  s[i] # d
    <3>1. CASE i = 1
      BY <1>1, <1>3, <3>1
    <3>2. CASE i # 1
      <4>1. i - 1 \in 1..(Len(s) - 1) /\ i - 1 < j /\ (i - 1) + 1 = i
        BY <1>1, <2>3, <3>2
      <4> QED BY <1>1, <2>1, <4>1
    <3> QED BY <3>1, <3>2
  <2> QED BY <2>2, <2>3 DEF Free
<1>4. ASSUME NEW d
      PROVE  Free(s, d, Head(s)) /\ ~Free(Tail(s), d, Head(s))
  <2>1. 1 \in 1..Len(s) /\ \A i \in 1..Len(s) : ~(i < 1)
    BY <1>1
  <2>2. Free(s, d, Head(s))
    BY <1>1, <2>1 DEF Free
  <2>3. ASSUME NEW j \in 1..(Len(s) - 1), Tail(s)[j] = Head(s)
        PROVE  FALSE
    <3>1. j + 1 = 1
      BY <1>1, <2>1, <2>3 DEF Distinct
    <3> QED BY <3>1
  <2> QED BY <1>1, <2>2, <2>3 DEF Free
<1> QED BY <1>1, <1>2, <1>3, <1>4

----------------------------------------------------------------------------
(* The turns. *)

OrderInv ==
  /\ pending \subseteq Drafts
  /\ order \in Seq(Drafts) /\ Distinct(order)
  /\ \A d \in Drafts : \E l \in 1..Len(order) : order[l] = d
  /\ batch \in [Sessions -> Seq(Drafts)]
  /\ \A s \in Sessions : Distinct(batch[s])
  /\ turns \in [Drafts -> [Drafts -> Nat]]

\* The sessions that may still look up e before they look up d: they pressed
\* when e was not yet behind d.
Early(d, e) == {s \in Sessions : Free(batch[s], d, e)}

\* Each lookup of e while d waits uses up one of them.
TurnsInv ==
  /\ \A d \in Drafts : turns[d][d] = 0
  /\ \A d \in pending, e \in Drafts : turns[d][e] # 0 => Ahead(order, d, e)
  /\ \A d \in pending, e \in Drafts :
       d # e => turns[d][e] + Cardinality(Early(d, e)) <= Cardinality(Sessions)

RotationInv == OrderInv /\ TurnsInv

\* The count of the sessions that are early, whichever they are.
LEMMA EarlyCounts ==
  ASSUME NEW E \in SUBSET Sessions
  PROVE  /\ IsFiniteSet(E) /\ Cardinality(E) \in Nat /\ Cardinality(Sessions) \in Nat
         /\ Cardinality(E) <= Cardinality(Sessions)
BY SetsAssumption, FS_Subset, FS_CardinalityType

\* No attempt has waited for another at first.
LEMMA InitRotation == Init => RotationInv
<1> SUFFICES ASSUME Init PROVE RotationInv
  OBVIOUS
<1> DEFINE n == Cardinality(Drafts)
<1>1. n \in Nat
  BY SetsAssumption, FS_CardinalityType
<1>2. Lookups!Cardinality(Drafts) = n
  BY DEF Lookups!Cardinality, Cardinality
<1>3. /\ order \in [1..n -> Drafts]
      /\ \A i, j \in 1..n : i # j => order[i] # order[j]
  BY <1>2 DEF Init, Lookups!Init, Lookups!SetToSeqs
<1> HIDE DEF n
<1>4. order \in Seq(Drafts) /\ Len(order) = n
  BY <1>1, <1>3
<1>5. Distinct(order)
  BY <1>3, <1>4 DEF Distinct
<1>6. ASSUME NEW d \in Drafts
      PROVE  \E l \in 1..n : order[l] = d
  <2>1. order \in Injection(1..n, Drafts)
    BY <1>3 DEF Injection, IsInjective
  <2>2. Cardinality(1..n) = Cardinality(Drafts)
    BY <1>1, FS_Interval DEF n
  <2>3. order \in Surjection(1..n, Drafts)
    BY <2>1, <2>2, SetsAssumption, FS_Injection
  <2> QED BY <2>3 DEF Surjection
<1>7. /\ pending = Drafts /\ batch = [s \in Sessions |-> <<>>]
      /\ turns = [d \in Drafts |-> [e \in Drafts |-> 0]]
  BY DEF Init, Lookups!Init, Lookups!NoTurns
<1>8. OrderInv
  <2>1. <<>> \in Seq(Drafts) /\ Distinct(<<>>)
    BY DEF Distinct
  <2> QED BY <1>4, <1>5, <1>6, <1>7, <2>1 DEF OrderInv
<1>9. TurnsInv
  <2>1. \A d, e \in Drafts : turns[d][e] = 0
    BY <1>7
  <2>2. \A d, e \in Drafts : 0 + Cardinality(Early(d, e)) <= Cardinality(Sessions)
    <3>1. \A d, e \in Drafts : Early(d, e) \in SUBSET Sessions
      BY DEF Early
    <3> QED BY <3>1, EarlyCounts
  <2> QED BY <1>7, <2>1, <2>2 DEF TurnsInv
<1> QED BY <1>8, <1>9 DEF RotationInv

\* A step that only takes from who is early, with the order and the turns of an
\* attempt as they were, keeps what is said of it.
LEMMA FewerEarly ==
  ASSUME RotationInv, NEW d \in pending, NEW e \in Drafts, d # e,
         turns'[d][e] = turns[d][e], Early(d, e)' \subseteq Early(d, e)
  PROVE  turns'[d][e] + Cardinality(Early(d, e)') <= Cardinality(Sessions)
<1>1. Early(d, e) \in SUBSET Sessions /\ Early(d, e)' \in SUBSET Sessions
  BY DEF Early
<1>2. Cardinality(Early(d, e)') <= Cardinality(Early(d, e))
  BY <1>1, EarlyCounts, FS_Subset
<1>3. turns[d][e] \in Nat /\ turns[d][e] + Cardinality(Early(d, e)) <= Cardinality(Sessions)
  BY DEF RotationInv, OrderInv, TurnsInv
<1>4. Cardinality(Early(d, e)) \in Nat /\ Cardinality(Early(d, e)') \in Nat
      /\ Cardinality(Sessions) \in Nat
  BY <1>1, EarlyCounts
<1> QED BY <1>2, <1>3, <1>4

\* The turns of an attempt that was looked up start again.
LEMMA NoTurnsYet ==
  ASSUME NEW d, NEW e, turns'[d][e] = 0
  PROVE  turns'[d][e] + Cardinality(Early(d, e)') <= Cardinality(Sessions)
<1>1. Early(d, e)' \in SUBSET Sessions
  BY DEF Early
<1> QED BY <1>1, EarlyCounts

\* A press takes no attempt without those that have waited since it was looked
\* up, which come before it.
LEMMA PressKeepsTurns ==
  ASSUME RotationInv, NEW s \in Sessions, Lookups!Press(s)
  PROVE  RotationInv'
<1> DEFINE chosen == Lookups!Chosen
           ready == Lookups!Among(pending, order)
<1>1. /\ batch' = [batch EXCEPT ![s] = chosen] /\ UNCHANGED <<pending, order, turns>>
  BY DEF Lookups!Press
<1>2. order \in Seq(Drafts) /\ Distinct(order) /\ pending \subseteq Drafts
  BY DEF RotationInv, OrderInv
<1>3. /\ ready \in Seq(Drafts) /\ Distinct(ready)
      /\ \A d \in pending : \A e : Ahead(order, d, e) => ~Free(ready, d, e)
  BY <1>2, AmongOrders
<1>4. chosen = Lookups!TakeFirst(ready, BatchSize)
  BY DEF Lookups!Chosen
<1> HIDE DEF ready, chosen
<1>5. /\ chosen \in Seq(Drafts) /\ Distinct(chosen)
      /\ \A d, e : Free(chosen, d, e) => Free(ready, d, e)
  BY <1>3, <1>4, FirstOnes
<1>6. batch' \in [Sessions -> Seq(Drafts)]
  BY <1>1, <1>5 DEF RotationInv, OrderInv
<1>7. \A q \in Sessions : batch'[q] = IF q = s THEN chosen ELSE batch[q]
  BY <1>1 DEF RotationInv, OrderInv
<1>8. OrderInv'
  BY <1>1, <1>5, <1>6, <1>7 DEF RotationInv, OrderInv
<1>9. ASSUME NEW d \in pending, NEW e \in Drafts, d # e
      PROVE  turns'[d][e] + Cardinality(Early(d, e)') <= Cardinality(Sessions)
  <2>1. CASE turns[d][e] = 0
    BY <1>1, <2>1, NoTurnsYet
  <2>2. CASE turns[d][e] # 0
    <3>1. Ahead(order, d, e)
      BY <1>9, <2>2 DEF RotationInv, TurnsInv
    <3>2. ~Free(chosen, d, e)
      BY <1>3, <1>5, <3>1
    <3>3. Early(d, e)' \subseteq Early(d, e)
      BY <1>7, <3>2 DEF Early
    <3> QED BY <1>1, <1>9, <3>3, FewerEarly
  <2> QED BY <2>1, <2>2
<1>10. TurnsInv'
  <2>1. \A d \in Drafts : turns'[d][d] = 0
    BY <1>1 DEF RotationInv, TurnsInv
  <2>2. \A d \in pending', e \in Drafts : turns'[d][e] # 0 => Ahead(order, d, e)'
    BY <1>1 DEF RotationInv, TurnsInv, Ahead
  <2>3. \A d \in pending', e \in Drafts :
          d # e => turns'[d][e] + Cardinality(Early(d, e)') <= Cardinality(Sessions)
    BY <1>1, <1>9
  <2> QED BY <2>1, <2>2, <2>3 DEF TurnsInv
<1> QED BY <1>8, <1>10 DEF RotationInv

\* A lookup takes the first of the batch: nobody else becomes early because of
\* it, except about the attempt that was looked up.
LEMMA TakenOffBatch ==
  ASSUME RotationInv, NEW s \in Sessions, batch[s] # <<>>,
         batch' = [batch EXCEPT ![s] = Tail(@)], NEW d0, d0 = Head(batch[s])
  PROVE  /\ d0 \in Drafts
         /\ batch' \in [Sessions -> Seq(Drafts)] /\ \A q \in Sessions : Distinct(batch'[q])
         /\ \A d \in Drafts \ {d0}, e \in Drafts : Early(d, e)' \subseteq Early(d, e)
         /\ \A d \in Drafts \ {d0} : s \in Early(d, d0) /\ s \notin Early(d, d0)'
<1>1. batch \in [Sessions -> Seq(Drafts)] /\ \A q \in Sessions : Distinct(batch[q])
  BY DEF RotationInv, OrderInv
<1>2. /\ d0 \in Drafts /\ Tail(batch[s]) \in Seq(Drafts) /\ Distinct(Tail(batch[s]))
      /\ \A d, e : d # d0 /\ Free(Tail(batch[s]), d, e) => Free(batch[s], d, e)
      /\ \A d : Free(batch[s], d, d0) /\ ~Free(Tail(batch[s]), d, d0)
  <2>1. batch[s] \in Seq(Drafts) /\ Distinct(batch[s])
    BY <1>1
  <2> QED BY <2>1, TailOnes
<1>3. \A q \in Sessions : batch'[q] = IF q = s THEN Tail(batch[s]) ELSE batch[q]
  BY <1>1
<1>4. batch' \in [Sessions -> Seq(Drafts)] /\ \A q \in Sessions : Distinct(batch'[q])
  BY <1>1, <1>2, <1>3
<1>5. \A d \in Drafts \ {d0}, e \in Drafts : Early(d, e)' \subseteq Early(d, e)
  BY <1>2, <1>3 DEF Early
<1>6. \A d \in Drafts \ {d0} : s \in Early(d, d0) /\ s \notin Early(d, d0)'
  BY <1>2, <1>3 DEF Early
<1> QED BY <1>2, <1>4, <1>5, <1>6

\* A lookup that is recorded: the attempt goes behind the others.
LEMMA LookUpKeepsTurns ==
  ASSUME RotationInv, NEW s \in Sessions, Lookups!LookUp(s)
  PROVE  RotationInv'
<1>0. PICK d0 : d0 = Head(batch[s])
  OBVIOUS
<1> DEFINE kept == Lookups!Among(Drafts \ {d0}, order)
<1>00. PICK others : others = kept
  OBVIOUS
<1>1. /\ batch[s] # <<>> /\ batch' = [batch EXCEPT ![s] = Tail(@)]
      /\ pending' \subseteq pending
      /\ order' = Append(others, d0)
      /\ turns' = [e \in Drafts |-> IF e \in pending' \ {d0} THEN [turns[e] EXCEPT ![d0] = @ + 1]
                                                             ELSE [f \in Drafts |-> 0]]
  BY <1>0, <1>00 DEF Lookups!LookUp, Lookups!NoTurns
<1>2. /\ d0 \in Drafts
      /\ batch' \in [Sessions -> Seq(Drafts)] /\ \A q \in Sessions : Distinct(batch'[q])
      /\ \A d \in Drafts \ {d0}, e \in Drafts : Early(d, e)' \subseteq Early(d, e)
      /\ \A d \in Drafts \ {d0} : s \in Early(d, d0) /\ s \notin Early(d, d0)'
  BY <1>0, <1>1, TakenOffBatch
<1>3. /\ order \in Seq(Drafts) /\ Distinct(order) /\ pending \subseteq Drafts
      /\ turns \in [Drafts -> [Drafts -> Nat]]
      /\ \A d \in Drafts : \E l \in 1..Len(order) : order[l] = d
  BY DEF RotationInv, OrderInv
<1>4. /\ others \in Seq(Drafts) /\ Distinct(others)
      /\ \A j \in 1..Len(others) : others[j] \in Drafts \ {d0}
      /\ \A l \in 1..Len(order) : order[l] \in Drafts \ {d0} =>
           \E j \in 1..Len(others) : others[j] = order[l]
      /\ \A d \in Drafts \ {d0}, e \in Drafts \ {d0} : Ahead(order, d, e) => Ahead(others, d, e)
  <2> HIDE DEF kept
  <2>1. /\ kept \in Seq(Drafts) /\ Distinct(kept)
        /\ \A j \in 1..Len(kept) : kept[j] \in Drafts \ {d0}
        /\ \A l \in 1..Len(order) : order[l] \in Drafts \ {d0} =>
             \E j \in 1..Len(kept) : kept[j] = order[l]
        /\ \A d \in Drafts \ {d0}, e \in Drafts \ {d0} : Ahead(order, d, e) => Ahead(kept, d, e)
    <3> DEFINE S == Drafts \ {d0}
    <3>1. LET k == Lookups!Among(S, order)
          IN  /\ k \in Seq(Drafts) /\ Distinct(k)
              /\ \A j \in 1..Len(k) : k[j] \in S
              /\ \A l \in 1..Len(order) : order[l] \in S => \E j \in 1..Len(k) : k[j] = order[l]
              /\ \A d \in S, e \in S : Ahead(order, d, e) => Ahead(k, d, e)
              /\ \A d \in S : \A e : Ahead(order, d, e) => ~Free(k, d, e)
      <4> HIDE DEF S
      <4> QED BY <1>3, AmongOrders
    <3> QED BY <3>1 DEF kept
  <2> QED BY <1>00, <2>1
<1> HIDE DEF kept
<1>5. /\ order' \in Seq(Drafts) /\ Len(others) \in Nat /\ Len(order') = Len(others) + 1
      /\ order'[Len(others) + 1] = d0
      /\ \A j \in 1..Len(others) : order'[j] = others[j] /\ j \in 1..(Len(others) + 1)
      /\ Len(others) + 1 \in 1..(Len(others) + 1)
      /\ \A j \in 1..(Len(others) + 1) : j \in 1..Len(others) \/ j = Len(others) + 1
  BY <1>1, <1>2, <1>4
<1>6. Distinct(order')
  BY <1>4, <1>5 DEF Distinct
<1>7. \A d \in Drafts : \E l \in 1..Len(order') : order'[l] = d
  <2> SUFFICES ASSUME NEW d \in Drafts
               PROVE  \E l \in 1..Len(order') : order'[l] = d
    OBVIOUS
  <2>1. CASE d = d0
    BY <1>5, <2>1
  <2>2. CASE d # d0
    <3>1. PICK j \in 1..Len(others) : others[j] = d
      BY <1>3, <1>4, <2>2
    <3> QED BY <1>5, <3>1
  <2> QED BY <2>1, <2>2
<1>8. \A d \in Drafts \ {d0} : Ahead(order, d, d0)' 
  <2> SUFFICES ASSUME NEW d \in Drafts \ {d0}
               PROVE  Ahead(order', d, d0)
    BY DEF Ahead
  <2>1. PICK j \in 1..Len(others) : others[j] = d
    BY <1>3, <1>4
  <2>2. j < Len(others) + 1
    BY <1>5
  <2> QED BY <1>5, <2>1, <2>2 DEF Ahead
<1>9. \A d \in Drafts \ {d0}, e \in Drafts \ {d0} : Ahead(order, d, e) => Ahead(order, d, e)'
  <2> SUFFICES ASSUME NEW d \in Drafts \ {d0}, NEW e \in Drafts \ {d0}, Ahead(order, d, e)
               PROVE  Ahead(order', d, e)
    BY DEF Ahead
  <2>1. PICK i \in 1..Len(others), j \in 1..Len(others) : i < j /\ others[i] = d /\ others[j] = e
    BY <1>4 DEF Ahead
  <2> QED BY <1>5, <2>1 DEF Ahead
<1>10. \A d \in Drafts, e \in Drafts :
         turns'[d][e] = IF d \in pending' \ {d0} THEN IF e = d0 THEN turns[d][e] + 1 ELSE turns[d][e]
                                                 ELSE 0
  BY <1>1, <1>3
<1>11. turns' \in [Drafts -> [Drafts -> Nat]]
  <2>1. \A d \in Drafts : turns[d] \in [Drafts -> Nat] /\ turns[d][d0] + 1 \in Nat
    <3> SUFFICES ASSUME NEW d \in Drafts
                 PROVE  turns[d] \in [Drafts -> Nat] /\ turns[d][d0] + 1 \in Nat
      OBVIOUS
    <3>1. turns[d] \in [Drafts -> Nat]
      BY <1>3
    <3>2. turns[d][d0] \in Nat
      BY <1>2, <3>1
    <3> QED BY <3>1, <3>2
  <2>2. \A d \in Drafts : [turns[d] EXCEPT ![d0] = @ + 1] \in [Drafts -> Nat]
    BY <2>1
  <2>3. [f \in Drafts |-> 0] \in [Drafts -> Nat]
    OBVIOUS
  <2> QED BY <1>1, <2>2, <2>3
<1>12. OrderInv'
  BY <1>1, <1>2, <1>3, <1>5, <1>6, <1>7, <1>11 DEF OrderInv
<1>13. \A d \in Drafts : turns'[d][d] = 0
  BY <1>10 DEF RotationInv, TurnsInv
<1>14. \A d \in pending', e \in Drafts : turns'[d][e] # 0 => Ahead(order, d, e)'
  <2> SUFFICES ASSUME NEW d \in pending', NEW e \in Drafts, turns'[d][e] # 0
               PROVE  Ahead(order, d, e)'
    OBVIOUS
  <2>1. d \in pending /\ d \in Drafts \ {d0}
    BY <1>1, <1>3, <1>10
  <2>2. CASE e = d0
    BY <1>8, <2>1, <2>2
  <2>3. CASE e # d0
    <3>1. turns[d][e] # 0
      BY <1>10, <2>1, <2>3
    <3>2. Ahead(order, d, e)
      BY <2>1, <3>1 DEF RotationInv, TurnsInv
    <3> QED BY <1>9, <2>1, <2>3, <3>2
  <2> QED BY <2>2, <2>3
<1>15. ASSUME NEW d \in pending', NEW e \in Drafts, d # e
       PROVE  turns'[d][e] + Cardinality(Early(d, e)') <= Cardinality(Sessions)
  <2>1. d \in pending /\ d \in Drafts
    BY <1>1, <1>3
  <2>2. CASE d = d0
    <3>1. turns'[d][e] = 0
      BY <1>10, <2>1, <2>2
    <3> QED BY <3>1, NoTurnsYet
  <2>3. CASE d # d0 /\ e # d0
    <3>1. turns'[d][e] = turns[d][e]
      BY <1>10, <2>1, <2>3
    <3>2. Early(d, e)' \subseteq Early(d, e)
      BY <1>2, <2>1, <2>3
    <3> QED BY <1>15, <2>1, <3>1, <3>2, FewerEarly
  <2>4. CASE d # d0 /\ e = d0
    <3>1. turns'[d][e] = turns[d][e] + 1
      BY <1>10, <2>1, <2>4
    <3>2. Early(d, e)' \subseteq Early(d, e) \ {s} /\ s \in Early(d, e)
      BY <1>2, <2>1, <2>4
    <3>3. Early(d, e) \in SUBSET Sessions /\ Early(d, e)' \in SUBSET Sessions
      BY DEF Early
    <3>4. /\ IsFiniteSet(Early(d, e)) /\ Cardinality(Early(d, e)) \in Nat
          /\ Cardinality(Early(d, e)') \in Nat /\ Cardinality(Sessions) \in Nat
      BY <3>3, EarlyCounts
    <3>5. /\ IsFiniteSet(Early(d, e) \ {s})
          /\ Cardinality(Early(d, e) \ {s}) = Cardinality(Early(d, e)) - 1
      BY <3>2, <3>4, FS_RemoveElement
    <3>6. Cardinality(Early(d, e)') <= Cardinality(Early(d, e) \ {s})
      BY <3>2, <3>5, FS_Subset
    <3>7. turns[d][e] \in Nat /\ turns[d][e] + Cardinality(Early(d, e)) <= Cardinality(Sessions)
      BY <1>3, <1>15, <2>1 DEF RotationInv, TurnsInv
    <3> QED BY <3>1, <3>4, <3>5, <3>6, <3>7
  <2> QED BY <2>2, <2>3, <2>4
<1> QED BY <1>12, <1>13, <1>14, <1>15 DEF RotationInv, TurnsInv

\* A lookup whose event could not be saved: the attempt stays where it was.
LEMMA UnsavedKeepsTurns ==
  ASSUME RotationInv, NEW s \in Sessions, Lookups!LookUpUnsaved(s)
  PROVE  RotationInv'
<1>0. PICK d0 : d0 = Head(batch[s])
  OBVIOUS
<1>1. /\ batch[s] # <<>> /\ batch' = [batch EXCEPT ![s] = Tail(@)]
      /\ turns' = [turns EXCEPT ![d0] = [f \in Drafts |-> 0]] /\ UNCHANGED <<pending, order>>
  BY <1>0 DEF Lookups!LookUpUnsaved, Lookups!NoTurns
<1>2. /\ d0 \in Drafts
      /\ batch' \in [Sessions -> Seq(Drafts)] /\ \A q \in Sessions : Distinct(batch'[q])
      /\ \A d \in Drafts \ {d0}, e \in Drafts : Early(d, e)' \subseteq Early(d, e)
  BY <1>0, <1>1, TakenOffBatch
<1>3. /\ turns \in [Drafts -> [Drafts -> Nat]] /\ pending \subseteq Drafts
  BY DEF RotationInv, OrderInv
<1>4. \A d \in Drafts, e \in Drafts : turns'[d][e] = IF d = d0 THEN 0 ELSE turns[d][e]
  BY <1>1, <1>3
<1>5. turns' \in [Drafts -> [Drafts -> Nat]]
  BY <1>1, <1>3
<1>6. OrderInv'
  BY <1>1, <1>2, <1>5 DEF RotationInv, OrderInv
<1>7. \A d \in Drafts : turns'[d][d] = 0
  BY <1>4 DEF RotationInv, TurnsInv
<1>8. \A d \in pending', e \in Drafts : turns'[d][e] # 0 => Ahead(order, d, e)'
  BY <1>1, <1>3, <1>4 DEF RotationInv, TurnsInv, Ahead
<1>9. ASSUME NEW d \in pending', NEW e \in Drafts, d # e
      PROVE  turns'[d][e] + Cardinality(Early(d, e)') <= Cardinality(Sessions)
  <2>1. d \in pending /\ d \in Drafts
    BY <1>1, <1>3
  <2>2. CASE d = d0
    <3>1. turns'[d][e] = 0
      BY <1>4, <2>1, <2>2
    <3> QED BY <3>1, NoTurnsYet
  <2>3. CASE d # d0
    <3>1. turns'[d][e] = turns[d][e] /\ Early(d, e)' \subseteq Early(d, e)
      BY <1>2, <1>4, <2>1, <2>3
    <3> QED BY <1>9, <2>1, <3>1, FewerEarly
  <2> QED BY <2>2, <2>3
<1> QED BY <1>6, <1>7, <1>8, <1>9 DEF RotationInv, TurnsInv

\* A session that dies loses the rest of its batch.
LEMMA CrashKeepsTurns ==
  ASSUME RotationInv, NEW s \in Sessions, Lookups!Crash(s)
  PROVE  RotationInv'
<1>1. batch' = [batch EXCEPT ![s] = <<>>] /\ UNCHANGED <<pending, order, turns>>
  BY DEF Lookups!Crash
<1>2. <<>> \in Seq(Drafts) /\ Distinct(<<>>) /\ \A d, e : ~Free(<<>>, d, e)
  BY DEF Distinct, Free
<1>3. /\ batch' \in [Sessions -> Seq(Drafts)]
      /\ \A q \in Sessions : batch'[q] = IF q = s THEN <<>> ELSE batch[q]
  BY <1>1, <1>2 DEF RotationInv, OrderInv
<1>4. \A d, e \in Drafts : Early(d, e)' \subseteq Early(d, e)
  BY <1>2, <1>3 DEF Early
<1>5. OrderInv'
  BY <1>1, <1>2, <1>3 DEF RotationInv, OrderInv
<1>6. pending \subseteq Drafts
  BY DEF RotationInv, OrderInv
<1>7. \A d \in pending, e \in Drafts :
        d # e => turns'[d][e] + Cardinality(Early(d, e)') <= Cardinality(Sessions)
  BY <1>1, <1>4, <1>6, FewerEarly
<1>8. /\ \A d \in Drafts : turns'[d][d] = 0
      /\ \A d \in pending', e \in Drafts : turns'[d][e] # 0 => Ahead(order, d, e)'
  BY <1>1 DEF RotationInv, TurnsInv, Ahead
<1> QED BY <1>1, <1>5, <1>7, <1>8 DEF RotationInv, TurnsInv

\* Every lookup sends its attempt behind those that wait.
LEMMA NextRotation == RotationInv /\ [Next]_vars => RotationInv'
<1> SUFFICES ASSUME RotationInv, [Next]_vars PROVE RotationInv'
  OBVIOUS
<1>1. CASE UNCHANGED lookups
  <2>1. UNCHANGED pending /\ UNCHANGED order /\ UNCHANGED batch /\ UNCHANGED turns
    BY <1>1 DEF lookups
  <2>2. OrderInv'
    BY <2>1 DEF RotationInv, OrderInv
  <2>3. TurnsInv'
    BY <2>1 DEF RotationInv, TurnsInv, Early, Ahead
  <2> QED BY <2>2, <2>3 DEF RotationInv
<1>2. ASSUME NEW s \in Sessions, Press(s) \/ LookUp(s) \/ Fetch(s) \/ Fail(s)
      PROVE  \/ UNCHANGED lookups
             \/ Lookups!Press(s) \/ Lookups!LookUp(s) \/ Lookups!LookUpUnsaved(s)
             \/ Lookups!Crash(s)
  BY <1>2 DEF Press, LookUp, Fetch, Fail, lookups
<1>3. \/ UNCHANGED lookups
      \/ \E s \in Sessions : Press(s) \/ LookUp(s) \/ Fetch(s) \/ Fail(s)
  BY DEF Next, vars, BrokerFills
<1> QED BY <1>1, <1>2, <1>3, PressKeepsTurns, LookUpKeepsTurns, UnsavedKeepsTurns, CrashKeepsTurns

\* While an attempt waits for its lookup, no other is looked up and recorded
\* more often than there are sessions refreshing, however their presses overlap,
\* fail and die: once an attempt is looked up it is behind those that wait, and
\* only the batches taken before can look it up again first.
THEOREM TurnsStayShared == Spec => []TurnsAreShared
<1>1. RotationInv => TurnsAreShared
  <2> SUFFICES ASSUME RotationInv, NEW d \in pending, NEW e \in Drafts
               PROVE  turns[d][e] <= Lookups!Cardinality(Sessions)
    BY DEF TurnsAreShared, Lookups!TurnsAreShared
  <2>1. Lookups!Cardinality(Sessions) = Cardinality(Sessions)
    BY DEF Lookups!Cardinality, Cardinality
  <2>2. /\ d \in Drafts /\ turns[d][e] \in Nat
        /\ d = e => turns[d][e] = 0
        /\ d # e => turns[d][e] + Cardinality(Early(d, e)) <= Cardinality(Sessions)
    BY DEF RotationInv, OrderInv, TurnsInv
  <2>3. Cardinality(Early(d, e)) \in Nat /\ Cardinality(Sessions) \in Nat
    <3>1. Early(d, e) \in SUBSET Sessions
      BY DEF Early
    <3> QED BY <3>1, EarlyCounts
  <2> QED BY <2>1, <2>2, <2>3
<1> QED BY <1>1, InitRotation, NextRotation, PTL DEF Spec
=============================================================================
