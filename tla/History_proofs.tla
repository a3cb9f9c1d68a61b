---------------------------- MODULE History_proofs ----------------------------
(***************************************************************************)
(* The total-return series (SeriesFollowTheirTerms), for any files and any *)
(* days of the market; the studies of a history (StudiesLookBack), for any *)
(* returns, calendar and optimizer; and the performance of several accounts *)
(* (PerformanceIsOfTheMarket), for any files.                              *)
(*                                                                         *)
(* Part 1, the growth of an index through a day is that up to it times     *)
(* that from it (GrowthIs), so joining other days keeps it (JoinedGrows);  *)
(* before the end of its term a CETES grows as its price (CetesRun).       *)
(*                                                                         *)
(* Part 2, a walk over two histories with the same rows up to one is the   *)
(* same up to it (WalksLookBack), the next planned date is the first one   *)
(* after the day (PlanIsKept), without reviews what is held is what was    *)
(* bought (OneReview), and every purchase keeps the account: what is held  *)
(* and what was paid are what was had (Balanced).                          *)
(*                                                                         *)
(* Part 3, the accounts together grow as the thing they hold (WorthGrows), *)
(* both legs of a transfer are worth nothing together (LegsCancel), and    *)
(* what is linked up to a day is what the thing returned until its last    *)
(* close (Along).                                                          *)
(***************************************************************************)
EXTENDS Ledgers_proofs

-----------------------------------------------------------------------------
(* Part 1: the total-return series. *)

\* The latest of some days, and the others.
LEMMA LatestOfDays ==
  ASSUME NEW S, IsFiniteSet(S), S \subseteq Int, S # {}
  PROVE  /\ Debt!Latest(S) \in S /\ \A e \in S : e <= Debt!Latest(S)
         /\ IsFiniteSet(S \ {Debt!Latest(S)}) /\ Cardinality(S) \in Nat
         /\ Cardinality(S \ {Debt!Latest(S)}) = Cardinality(S) - 1
<1> DEFINE Tops(s) == s = {} \/ \E d \in s : \A e \in s : e <= d
           T == {s \in SUBSET S : Tops(s)}
<1>1. {} \in T
  OBVIOUS
<1>2. ASSUME NEW s \in T, NEW x \in S \ s
      PROVE  s \cup {x} \in T
  <2>1. s = {} \/ \E d \in s : \A e \in s : e <= d
    OBVIOUS
  <2>2. CASE s = {}
    BY <2>2
  <2>3. ASSUME NEW d \in s, \A e \in s : e <= d
        PROVE  \E m \in s \cup {x} : \A e \in s \cup {x} : e <= m
    <3>1. d \in Int /\ x \in Int /\ \A e \in s : e \in Int
      OBVIOUS
    <3>2. CASE x <= d
      BY <2>3, <3>1, <3>2
    <3>3. CASE d <= x
      BY <2>3, <3>1, <3>3
    <3> QED BY <3>1, <3>2, <3>3
  <2> QED BY <2>1, <2>2, <2>3
<1>3. S \in T
  <2> HIDE DEF T
  <2>1. T \in SUBSET SUBSET S
    BY DEF T
  <2>2. T = SUBSET S
    BY <1>1, <1>2, <2>1, SetInduction
  <2> QED BY <2>2
<1>4. \E d \in S : \A e \in S : e <= d
  BY <1>3
<1>5. Debt!Latest(S) \in S /\ \A e \in S : e <= Debt!Latest(S)
  BY <1>4 DEF Debt!Latest
<1>6. IsFiniteSet(S \ {Debt!Latest(S)}) /\ Cardinality(S \ {Debt!Latest(S)}) = Cardinality(S) - 1
  BY <1>5, FS_RemoveElement
<1>7. Cardinality(S) \in Nat
  BY FS_CardinalityType
<1> QED BY <1>5, <1>6, <1>7

\* An index has a finite number of days.
Indexed(f) == IsFiniteSet(DOMAIN f) /\ DOMAIN f \subseteq Int

Chains(f, c) ==
  c = [s \in SUBSET DOMAIN f |-> IF s = {} THEN Debt!One ELSE Debt!Times(c[s \ {Debt!Latest(s)}], f[Debt!Latest(s)])]

LEMMA PartsOfIndexes ==
  ASSUME NEW f, Indexed(f)
  PROVE  \A s \in SUBSET DOMAIN f :
           /\ IsFiniteSet(s) /\ s \subseteq Int /\ Cardinality(s) \in Nat
           /\ s # {} => /\ Debt!Latest(s) \in s /\ \A e \in s : e <= Debt!Latest(s)
                        /\ Cardinality(s \ {Debt!Latest(s)}) = Cardinality(s) - 1
<1> SUFFICES ASSUME NEW s \in SUBSET DOMAIN f
             PROVE  /\ IsFiniteSet(s) /\ s \subseteq Int /\ Cardinality(s) \in Nat
                    /\ s # {} => /\ Debt!Latest(s) \in s /\ \A e \in s : e <= Debt!Latest(s)
                                 /\ Cardinality(s \ {Debt!Latest(s)}) = Cardinality(s) - 1
  OBVIOUS
<1>1. IsFiniteSet(s) /\ s \subseteq Int /\ Cardinality(s) \in Nat
  BY FS_Subset, FS_CardinalityType DEF Indexed
<1> QED BY <1>1, LatestOfDays

\* The function that multiplies the factors exists.
LEMMA ChainsExist ==
  ASSUME NEW f, Indexed(f)
  PROVE  \E c : Chains(f, c)
<1> DEFINE R == DOMAIN f
           Small(n) == {s \in SUBSET R : Cardinality(s) <= n}
           Step(c, s) == IF s = {} THEN Debt!One ELSE Debt!Times(c[s \ {Debt!Latest(s)}], f[Debt!Latest(s)])
           Good(n, c) == c = [s \in Small(n) |-> Step(c, s)]
           T == {n \in Nat : \E c : Good(n, c)}
<1>0. \A s \in SUBSET R : IsFiniteSet(s) /\ Cardinality(s) \in Nat
  BY PartsOfIndexes
<1>1. 0 \in T
  <2>1. \A s \in Small(0) : s = {}
    BY <1>0, FS_EmptySet
  <2>2. Good(0, [s \in Small(0) |-> Debt!One])
    BY <2>1
  <2> QED BY <2>2
<1>2. ASSUME NEW n \in T
      PROVE  n + 1 \in T
  <2>1. PICK c : Good(n, c)
    OBVIOUS
  <2> DEFINE h == [s \in Small(n + 1) |-> Step(c, s)]
  <2>2. ASSUME NEW s \in Small(n + 1), s # {}
        PROVE  s \ {Debt!Latest(s)} \in Small(n)
    BY <1>0, <2>2, PartsOfIndexes
  <2>3. ASSUME NEW s \in Small(n)
        PROVE  h[s] = c[s]
    <3>1. s \in Small(n + 1)
      BY <1>0
    <3>2. h[s] = Step(c, s)
      BY <3>1
    <3>3. c[s] = Step(c, s)
      BY <2>1 DEF Good
    <3> QED BY <3>2, <3>3
  <2>4. ASSUME NEW s \in Small(n + 1)
        PROVE  Step(c, s) = Step(h, s)
    BY <2>2, <2>3
  <2>5. h = [s \in Small(n + 1) |-> Step(h, s)]
    <3> HIDE DEF Step, Small
    <3> QED BY <2>4
  <2>6. Good(n + 1, h)
    BY <2>5
  <2> HIDE DEF Good, h
  <2> QED BY <2>6
<1>3. T = Nat
  <2> HIDE DEF Good
  <2> QED BY <1>1, <1>2, NatSetInduction
<1>4. Cardinality(R) \in T
  BY <1>0, <1>3
<1>5. PICK c : Good(Cardinality(R), c)
  BY <1>4
<1>6. Small(Cardinality(R)) = SUBSET R
  <2>1. IsFiniteSet(R)
    BY <1>0
  <2> QED BY <2>1, FS_Subset
<1>7. Chains(f, c)
  BY <1>5, <1>6 DEF Chains
<1> QED BY <1>7

\* The factors of some days: those of the days before the last one, times its own.
LEMMA ChainUnfolds ==
  ASSUME NEW f, Indexed(f), NEW s \in SUBSET DOMAIN f
  PROVE  /\ Debt!Chained(f, {}) = Debt!One
         /\ s # {} => Debt!Chained(f, s) = Debt!Times(Debt!Chained(f, s \ {Debt!Latest(s)}), f[Debt!Latest(s)])
<1> DEFINE c == CHOOSE h : Chains(f, h)
<1>1. Chains(f, c)
  BY ChainsExist
<1>2. \A z : Debt!Chained(f, z) = c[z]
  BY DEF Debt!Chained, Chains
<1> HIDE DEF c
<1>3. c[{}] = Debt!One /\ (s # {} => c[s] = Debt!Times(c[s \ {Debt!Latest(s)}], f[Debt!Latest(s)]))
  BY <1>1 DEF Chains
<1> QED BY <1>2, <1>3

\* It depends on the factors of those days only.
LEMMA ChainsAgree ==
  ASSUME NEW f, Indexed(f), NEW g, Indexed(g), NEW S \in SUBSET DOMAIN f, S \in SUBSET DOMAIN g,
         \A d \in S : f[d] = g[d]
  PROVE  Debt!Chained(f, S) = Debt!Chained(g, S)
<1> DEFINE N == {n \in Nat : \A s \in SUBSET S : Cardinality(s) = n => Debt!Chained(f, s) = Debt!Chained(g, s)}
<1>1. \A s \in SUBSET S : /\ s \in SUBSET DOMAIN f /\ s \in SUBSET DOMAIN g
                          /\ IsFiniteSet(s) /\ Cardinality(s) \in Nat
  BY PartsOfIndexes
<1>2. 0 \in N
  <2>1. ASSUME NEW s \in SUBSET S, Cardinality(s) = 0
        PROVE  s = {}
    BY <1>1, <2>1, FS_EmptySet
  <2>2. Debt!Chained(f, {}) = Debt!One /\ Debt!Chained(g, {}) = Debt!One
    BY ChainUnfolds
  <2> QED BY <2>1, <2>2
<1>3. ASSUME NEW n \in N
      PROVE  n + 1 \in N
  <2> SUFFICES ASSUME NEW s \in SUBSET S, Cardinality(s) = n + 1
               PROVE  Debt!Chained(f, s) = Debt!Chained(g, s)
    OBVIOUS
  <2>1. s # {} /\ n \in Nat /\ s \in SUBSET DOMAIN f /\ s \in SUBSET DOMAIN g
    BY <1>1, FS_EmptySet
  <2>2. Debt!Latest(s) \in s /\ Cardinality(s \ {Debt!Latest(s)}) = n
    <3>1. Debt!Latest(s) \in s /\ Cardinality(s \ {Debt!Latest(s)}) = Cardinality(s) - 1
      BY <2>1, PartsOfIndexes
    <3> QED BY <2>1, <3>1
  <2>3. Debt!Chained(f, s \ {Debt!Latest(s)}) = Debt!Chained(g, s \ {Debt!Latest(s)})
    BY <2>2
  <2>4. /\ Debt!Chained(f, s) = Debt!Times(Debt!Chained(f, s \ {Debt!Latest(s)}), f[Debt!Latest(s)])
        /\ Debt!Chained(g, s) = Debt!Times(Debt!Chained(g, s \ {Debt!Latest(s)}), g[Debt!Latest(s)])
    BY <2>1, ChainUnfolds
  <2> QED BY <2>2, <2>3, <2>4
<1>4. N = Nat
  BY <1>2, <1>3, NatSetInduction
<1>5. S \in SUBSET S /\ Cardinality(S) \in N
  <2> HIDE DEF N
  <2> QED BY <1>1, <1>4
<1> QED BY <1>5

\* Factors are fractions.
Fraction == Int \X Int
Factored(f) == Indexed(f) /\ \A d \in DOMAIN f : f[d] \in Fraction

LEMMA FractionsMultiply ==
  /\ Debt!One \in Fraction
  /\ \A p, q \in Fraction : Debt!Times(p, q) \in Fraction
  /\ \A p \in Fraction : Debt!Times(p, Debt!One) = p
  /\ \A p, q, r \in Fraction : Debt!Times(Debt!Times(p, q), r) = Debt!Times(p, Debt!Times(q, r))
<1>1. Debt!One \in Fraction
  BY DEF Debt!One, Fraction
<1>2. ASSUME NEW p \in Fraction, NEW q \in Fraction
      PROVE  /\ p[1] \in Int /\ p[2] \in Int /\ p = <<p[1], p[2]>>
             /\ Debt!Times(p, q) \in Fraction
             /\ Debt!Times(p, q)[1] = p[1] * q[1] /\ Debt!Times(p, q)[2] = p[2] * q[2]
  <2>1. p[1] \in Int /\ p[2] \in Int /\ p = <<p[1], p[2]>> /\ q[1] \in Int /\ q[2] \in Int
    BY DEF Fraction
  <2> DEFINE a == p[1] * q[1]
             b == p[2] * q[2]
  <2>2. a \in Int /\ b \in Int /\ Debt!Times(p, q) = <<a, b>>
    BY <2>1 DEF Debt!Times
  <2> HIDE DEF a, b
  <2>3. Debt!Times(p, q) \in Fraction /\ Debt!Times(p, q)[1] = a /\ Debt!Times(p, q)[2] = b
    BY <2>2 DEF Fraction
  <2> QED BY <2>1, <2>3 DEF a, b
<1>3. ASSUME NEW p \in Fraction
      PROVE  Debt!Times(p, Debt!One) = p
  <2>1. p[1] \in Int /\ p[2] \in Int /\ p = <<p[1], p[2]>> /\ p[1] * 1 = p[1] /\ p[2] * 1 = p[2]
    BY <1>2
  <2>2. Debt!Times(p, Debt!One) = <<p[1] * 1, p[2] * 1>>
    BY DEF Debt!Times, Debt!One
  <2> QED BY <2>1, <2>2
<1>4. ASSUME NEW p \in Fraction, NEW q \in Fraction, NEW r \in Fraction
      PROVE  Debt!Times(Debt!Times(p, q), r) = Debt!Times(p, Debt!Times(q, r))
  <2>1. /\ p[1] \in Int /\ p[2] \in Int /\ q[1] \in Int /\ q[2] \in Int /\ r[1] \in Int /\ r[2] \in Int
        /\ Debt!Times(p, q)[1] = p[1] * q[1] /\ Debt!Times(p, q)[2] = p[2] * q[2]
        /\ Debt!Times(q, r)[1] = q[1] * r[1] /\ Debt!Times(q, r)[2] = q[2] * r[2]
    BY <1>2
  <2>2. \A a, b, c \in Int : (a * b) * c = a * (b * c)
    OBVIOUS
  <2>3. /\ Debt!Times(Debt!Times(p, q), r) = <<(p[1] * q[1]) * r[1], (p[2] * q[2]) * r[2]>>
        /\ Debt!Times(p, Debt!Times(q, r)) = <<p[1] * (q[1] * r[1]), p[2] * (q[2] * r[2])>>
    BY <2>1 DEF Debt!Times
  <2>4. (p[1] * q[1]) * r[1] = p[1] * (q[1] * r[1]) /\ (p[2] * q[2]) * r[2] = p[2] * (q[2] * r[2])
    BY <2>1, <2>2
  <2> QED BY <2>3, <2>4
<1>5. \A p, q \in Fraction : Debt!Times(p, q) \in Fraction
  BY <1>2
<1> QED BY <1>1, <1>3, <1>4, <1>5

LEMMA ChainIsFraction ==
  ASSUME NEW f, Factored(f), NEW S \in SUBSET DOMAIN f
  PROVE  Debt!Chained(f, S) \in Fraction
<1> DEFINE N == {n \in Nat : \A s \in SUBSET DOMAIN f : Cardinality(s) = n => Debt!Chained(f, s) \in Fraction}
<1>0. Indexed(f)
  BY DEF Factored
<1>1. \A s \in SUBSET DOMAIN f : IsFiniteSet(s) /\ Cardinality(s) \in Nat
  BY <1>0, PartsOfIndexes
<1>2. 0 \in N
  <2>1. ASSUME NEW s \in SUBSET DOMAIN f, Cardinality(s) = 0
        PROVE  s = {}
    BY <1>1, <2>1, FS_EmptySet
  <2>2. Debt!Chained(f, {}) \in Fraction
    BY <1>0, ChainUnfolds, FractionsMultiply
  <2> QED BY <2>1, <2>2
<1>3. ASSUME NEW n \in N
      PROVE  n + 1 \in N
  <2> SUFFICES ASSUME NEW s \in SUBSET DOMAIN f, Cardinality(s) = n + 1
               PROVE  Debt!Chained(f, s) \in Fraction
    OBVIOUS
  <2>1. s # {} /\ n \in Nat
    BY <1>1, FS_EmptySet
  <2>2. Debt!Latest(s) \in s /\ Cardinality(s \ {Debt!Latest(s)}) = n
    <3>1. Debt!Latest(s) \in s /\ Cardinality(s \ {Debt!Latest(s)}) = Cardinality(s) - 1
      BY <1>0, <2>1, PartsOfIndexes
    <3> QED BY <2>1, <3>1
  <2>3. Debt!Chained(f, s \ {Debt!Latest(s)}) \in Fraction
    BY <2>2
  <2>4. f[Debt!Latest(s)] \in Fraction
    BY <2>2 DEF Factored
  <2>5. Debt!Chained(f, s) = Debt!Times(Debt!Chained(f, s \ {Debt!Latest(s)}), f[Debt!Latest(s)])
    BY <1>0, <2>1, ChainUnfolds
  <2> QED BY <2>3, <2>4, <2>5, FractionsMultiply
<1>4. N = Nat
  BY <1>2, <1>3, NatSetInduction
<1>5. Cardinality(S) \in N
  <2> HIDE DEF N
  <2> QED BY <1>1, <1>4
<1> QED BY <1>5

\* The factors of some days and of later ones.
LEMMA ChainAdds ==
  ASSUME NEW f, Factored(f), NEW S \in SUBSET DOMAIN f, NEW T \in SUBSET DOMAIN f, \A s \in S, t \in T : s < t
  PROVE  Debt!Chained(f, S \cup T) = Debt!Times(Debt!Chained(f, S), Debt!Chained(f, T))
<1> DEFINE N == {n \in Nat : \A t \in SUBSET T : Cardinality(t) = n =>
                     Debt!Chained(f, S \cup t) = Debt!Times(Debt!Chained(f, S), Debt!Chained(f, t))}
<1>0. Indexed(f) /\ DOMAIN f \subseteq Int
  BY DEF Factored, Indexed
<1>1. \A t \in SUBSET T : IsFiniteSet(t) /\ Cardinality(t) \in Nat /\ t \in SUBSET DOMAIN f /\ S \cup t \in SUBSET DOMAIN f
  BY <1>0, PartsOfIndexes
<1>2. 0 \in N
  <2>1. ASSUME NEW t \in SUBSET T, Cardinality(t) = 0
        PROVE  t = {}
    BY <1>1, <2>1, FS_EmptySet
  <2>2. Debt!Chained(f, {}) = Debt!One /\ Debt!Chained(f, S) \in Fraction
    BY <1>0, ChainUnfolds, ChainIsFraction
  <2>3. Debt!Chained(f, S) = Debt!Times(Debt!Chained(f, S), Debt!Chained(f, {}))
    BY <2>2, FractionsMultiply
  <2>4. S \cup {} = S
    OBVIOUS
  <2> QED BY <2>1, <2>3, <2>4
<1>3. ASSUME NEW n \in N
      PROVE  n + 1 \in N
  <2> SUFFICES ASSUME NEW t \in SUBSET T, Cardinality(t) = n + 1
               PROVE  Debt!Chained(f, S \cup t) = Debt!Times(Debt!Chained(f, S), Debt!Chained(f, t))
    OBVIOUS
  <2> DEFINE l == Debt!Latest(t)
             r == t \ {l}
             all == S \cup t
  <2>1. t # {} /\ n \in Nat
    BY <1>1, FS_EmptySet
  <2>2. l \in t /\ (\A e \in t : e <= l) /\ Cardinality(r) = n
    <3>1. l \in t /\ (\A e \in t : e <= l) /\ Cardinality(r) = Cardinality(t) - 1
      BY <1>0, <1>1, <2>1, PartsOfIndexes
    <3> QED BY <2>1, <3>1
  <2> HIDE DEF l
  <2>3. Debt!Latest(all) = l
    <3>1. Debt!Latest(all) \in all /\ \A e \in all : e <= Debt!Latest(all)
      BY <1>0, <1>1, <2>1, PartsOfIndexes
    <3>2. \A e \in all : e <= l /\ e \in Int
      <4>1. \A e \in S : e < l /\ e \in Int /\ l \in Int
        BY <1>0, <2>2
      <4> QED BY <1>0, <2>2, <4>1
    <3>3. l \in all
      BY <2>2
    <3> HIDE DEF all
    <3> QED BY <3>1, <3>2, <3>3
  <2>4. all \ {l} = S \cup r
    <3>1. l \notin S
      <4>1. \A s \in S : s < l /\ s \in Int
        BY <1>0, <2>2
      <4> QED BY <4>1
    <3> QED BY <3>1
  <2>5. Debt!Chained(f, S \cup r) = Debt!Times(Debt!Chained(f, S), Debt!Chained(f, r))
    BY <2>2
  <2>6. Debt!Chained(f, all) = Debt!Times(Debt!Chained(f, S \cup r), f[l])
    <3>1. all # {} /\ all \in SUBSET DOMAIN f
      BY <1>1, <2>1
    <3> HIDE DEF all
    <3>2. Debt!Chained(f, all) = Debt!Times(Debt!Chained(f, all \ {Debt!Latest(all)}), f[Debt!Latest(all)])
      BY <1>0, <3>1, ChainUnfolds
    <3> QED BY <2>3, <2>4, <3>2
  <2>7. Debt!Chained(f, t) = Debt!Times(Debt!Chained(f, r), f[l])
    BY <1>0, <1>1, <2>1, ChainUnfolds DEF l
  <2>8. Debt!Chained(f, S) \in Fraction /\ Debt!Chained(f, r) \in Fraction /\ f[l] \in Fraction
    <3>1. r \in SUBSET DOMAIN f /\ l \in DOMAIN f
      BY <2>2
    <3> QED BY <3>1, ChainIsFraction DEF Factored
  <2> HIDE DEF all, r
  <2>9. Debt!Times(Debt!Times(Debt!Chained(f, S), Debt!Chained(f, r)), f[l])
          = Debt!Times(Debt!Chained(f, S), Debt!Times(Debt!Chained(f, r), f[l]))
    BY <2>8, FractionsMultiply
  <2> QED BY <2>5, <2>6, <2>7, <2>9 DEF all
<1>4. N = Nat
  BY <1>2, <1>3, NatSetInduction
<1>5. T \in SUBSET T /\ Cardinality(T) \in N
  <2> HIDE DEF N
  <2> QED BY <1>1, <1>4
<1> QED BY <1>5

\* Growth from a day to itself, to the next one and through another one.
LEMMA GrowthIs ==
  ASSUME NEW f, Factored(f)
  PROVE  /\ \A d, e \in Int : Debt!Growth(f, d, e) \in Fraction
         /\ \A d \in Int : Debt!Growth(f, d, d) = Debt!One
         /\ \A d, b \in Int, e \in DOMAIN f :
              /\ d <= b /\ b < e
              /\ \A x \in DOMAIN f : x < e => x <= b
              => Debt!Growth(f, d, e) = Debt!Times(Debt!Growth(f, d, b), f[e])
         /\ \A d, b, e \in Int : d <= b /\ b <= e =>
              Debt!Growth(f, d, e) = Debt!Times(Debt!Growth(f, d, b), Debt!Growth(f, b, e))
<1> DEFINE Span(d, e) == {x \in DOMAIN f : d < x /\ x <= e}
<1>1. Indexed(f) /\ DOMAIN f \subseteq Int /\ \A d, e : Debt!Growth(f, d, e) = Debt!Chained(f, Span(d, e))
  BY DEF Factored, Indexed, Debt!Growth
<1>2. \A d, e : Span(d, e) \in SUBSET DOMAIN f
  OBVIOUS
<1>3. \A d, e \in Int : Debt!Growth(f, d, e) \in Fraction
  BY <1>1, <1>2, ChainIsFraction
<1>4. ASSUME NEW d \in Int
      PROVE  Debt!Growth(f, d, d) = Debt!One
  <2>1. Span(d, d) = {}
    BY <1>1
  <2> QED BY <1>1, <2>1, ChainUnfolds
<1>5. ASSUME NEW d \in Int, NEW b \in Int, NEW e \in DOMAIN f, d <= b, b < e, \A x \in DOMAIN f : x < e => x <= b
      PROVE  Debt!Growth(f, d, e) = Debt!Times(Debt!Growth(f, d, b), f[e])
  <2> DEFINE s == Span(d, e)
  <2>1. e \in s /\ (\A x \in s : x <= e /\ x \in Int) /\ e \in Int
    BY <1>1, <1>5
  <2>2. s \ {e} = Span(d, b)
    BY <1>1, <1>5
  <2>3. Debt!Latest(s) \in s /\ \A x \in s : x <= Debt!Latest(s)
    BY <1>1, <1>2, <2>1, PartsOfIndexes
  <2>4. Debt!Chained(f, s) = Debt!Times(Debt!Chained(f, s \ {Debt!Latest(s)}), f[Debt!Latest(s)])
    BY <1>1, <1>2, <2>1, ChainUnfolds
  <2>5. Debt!Latest(s) = e
    <3> HIDE DEF s
    <3> QED BY <2>1, <2>3
  <2>6. Debt!Growth(f, d, e) = Debt!Chained(f, s) /\ Debt!Growth(f, d, b) = Debt!Chained(f, Span(d, b))
    BY <1>1
  <2> HIDE DEF s, Span
  <2> QED BY <2>2, <2>4, <2>5, <2>6
<1>6. ASSUME NEW d \in Int, NEW b \in Int, NEW e \in Int, d <= b, b <= e
      PROVE  Debt!Growth(f, d, e) = Debt!Times(Debt!Growth(f, d, b), Debt!Growth(f, b, e))
  <2>1. Span(d, e) = Span(d, b) \cup Span(b, e)
    BY <1>1, <1>6
  <2>2. \A x \in Span(d, b), y \in Span(b, e) : x < y
    BY <1>1, <1>6
  <2>3. /\ Debt!Growth(f, d, e) = Debt!Chained(f, Span(d, e)) /\ Debt!Growth(f, d, b) = Debt!Chained(f, Span(d, b))
        /\ Debt!Growth(f, b, e) = Debt!Chained(f, Span(b, e))
    BY <1>1
  <2> HIDE DEF Span
  <2>4. Debt!Chained(f, Span(d, b) \cup Span(b, e)) = Debt!Times(Debt!Chained(f, Span(d, b)), Debt!Chained(f, Span(b, e)))
    BY <1>2, <2>2, ChainAdds
  <2> QED BY <2>1, <2>3, <2>4
<1> QED BY <1>3, <1>4, <1>5, <1>6

\* The rows of a file by day: each day of it has one.
LEMMA RowsByDay ==
  ASSUME NEW rows, Len(rows) \in Nat, DOMAIN rows = 1..Len(rows),
         \A i \in DOMAIN rows : rows[i].day \in Int, Debt!Readable(rows)
  PROVE  /\ DOMAIN Debt!Dated(rows) = {rows[i].day : i \in DOMAIN rows}
         /\ IsFiniteSet(DOMAIN Debt!Dated(rows)) /\ DOMAIN Debt!Dated(rows) \subseteq Int
         /\ \A i \in DOMAIN rows : Debt!Dated(rows)[rows[i].day] = rows[i]
         /\ \A d \in DOMAIN Debt!Dated(rows) : /\ \E i \in DOMAIN rows : Debt!Dated(rows)[d] = rows[i] /\ rows[i].day = d
                                               /\ Debt!Dated(rows)[d].day = d
<1> DEFINE days == {rows[i].day : i \in DOMAIN rows}
           dated == Debt!Dated(rows)
<1>1. dated = [d \in days |-> rows[CHOOSE i \in DOMAIN rows : rows[i].day = d]]
  BY DEF Debt!Dated
<1>3. IsFiniteSet(days)
  <2>1. IsFiniteSet(DOMAIN rows)
    BY FS_Interval
  <2> DEFINE g == [i \in DOMAIN rows |-> rows[i].day]
  <2>2. days = {g[i] : i \in DOMAIN rows}
    OBVIOUS
  <2> HIDE DEF g, days
  <2> QED BY <2>1, <2>2, ImagesAreFinite
<1>4. \A i, j \in DOMAIN rows : i # j => rows[i].day # rows[j].day
  BY DEF Debt!Readable
<1>5. ASSUME NEW d \in days
      PROVE  \E i \in DOMAIN rows : dated[d] = rows[i] /\ rows[i].day = d
  <2> DEFINE k == CHOOSE i \in DOMAIN rows : rows[i].day = d
  <2>1. k \in DOMAIN rows /\ rows[k].day = d
    <3>1. \E i \in DOMAIN rows : rows[i].day = d
      BY <1>5
    <3> QED BY <3>1
  <2>2. dated[d] = rows[k]
    BY <1>1
  <2> HIDE DEF k, dated
  <2> QED BY <2>1, <2>2
<1> HIDE DEF dated
<1>6. ASSUME NEW i \in DOMAIN rows
      PROVE  dated[rows[i].day] = rows[i]
  <2>1. PICK j \in DOMAIN rows : dated[rows[i].day] = rows[j] /\ rows[j].day = rows[i].day
    BY <1>5
  <2> QED BY <1>4, <2>1
<1>7. DOMAIN dated = days
  BY <1>1
<1>8. days \subseteq Int
  OBVIOUS
<1>9. \A d \in days : dated[d].day = d
  BY <1>5
<1> HIDE DEF days
<1> QED BY <1>3, <1>5, <1>6, <1>7, <1>8, <1>9 DEF days, dated

\* A day after another one, and the observed day before it.
LEMMA DayBefore ==
  ASSUME NEW D, IsFiniteSet(D), D \subseteq Int, NEW d \in D, NEW e \in D, d < e
  PROVE  LET b == Debt!Latest(Debt!Earlier(D, e))
         IN /\ e \in Debt!Later(D) /\ b \in D /\ d <= b /\ b < e
            /\ \A x \in D : x < e => x <= b
<1> DEFINE s == Debt!Earlier(D, e)
<1>1. s = {x \in D : x < e} /\ s \subseteq D /\ d \in s
  BY DEF Debt!Earlier
<1>2. s # {} /\ s \subseteq Int /\ IsFiniteSet(s)
  BY <1>1, FS_Subset
<1>3. Debt!Latest(s) \in s /\ \A x \in s : x <= Debt!Latest(s)
  BY <1>2, LatestOfDays
<1>4. e \in Debt!Later(D)
  BY <1>2 DEF Debt!Later
<1> QED BY <1>1, <1>3, <1>4

\* What joins the days of the market keeps the growth of the index.
LEMMA JoinedGrows ==
  ASSUME NEW market, NEW f, Factored(f), Debt!Joined(market, f) # Refused
  PROVE  /\ DOMAIN Debt!Joined(market, f) \subseteq DOMAIN f
         /\ \A d, e \in DOMAIN Debt!Joined(market, f) :
              d <= e => Debt!Growth(Debt!Joined(market, f), d, e) = Debt!Growth(f, d, e)
<1> DEFINE W == Debt!Window(market, DOMAIN f)
           J == Debt!Joined(market, f)
<1>1. /\ W \subseteq DOMAIN f
      /\ J = [d \in W |-> IF d \in Debt!Later(W) THEN Debt!Growth(f, Debt!Latest(Debt!Earlier(W, d)), d) ELSE Debt!One]
  BY DEF Debt!Joined
<1>2. IsFiniteSet(W) /\ W \subseteq Int
  <2>1. IsFiniteSet(DOMAIN f) /\ DOMAIN f \subseteq Int
    BY DEF Factored, Indexed
  <2> HIDE DEF W
  <2> QED BY <1>1, <2>1, FS_Subset
<1>3. DOMAIN J = W
  BY <1>1
<1> HIDE DEF W, J
<1>4. \A d \in W : Debt!Earlier(W, d) # {} => Debt!Latest(Debt!Earlier(W, d)) \in Int
  <2> SUFFICES ASSUME NEW d \in W, Debt!Earlier(W, d) # {}
               PROVE  Debt!Latest(Debt!Earlier(W, d)) \in Int
    OBVIOUS
  <2>1. PICK c \in W : c < d
    BY DEF Debt!Earlier
  <2> QED BY <1>2, <2>1, DayBefore
<1>5. Factored(J)
  <2>1. ASSUME NEW d \in W
        PROVE  J[d] \in Fraction
    <3>1. CASE d \in Debt!Later(W)
      <4>1. Debt!Latest(Debt!Earlier(W, d)) \in Int /\ d \in Int
        BY <1>2, <1>4, <3>1 DEF Debt!Later
      <4>2. Debt!Growth(f, Debt!Latest(Debt!Earlier(W, d)), d) \in Fraction
        BY <4>1, GrowthIs
      <4> QED BY <1>1, <3>1, <4>2
    <3>2. CASE d \notin Debt!Later(W)
      BY <1>1, <3>2, FractionsMultiply
    <3> QED BY <3>1, <3>2
  <2> QED BY <1>2, <1>3, <2>1 DEF Factored, Indexed
<1>6. ASSUME NEW d \in W
      PROVE  \A e \in W : d <= e => Debt!Growth(J, d, e) = Debt!Growth(f, d, e)
  <2> DEFINE T == {n \in Nat : \A e \in W : d <= e /\ e - d <= n => Debt!Growth(J, d, e) = Debt!Growth(f, d, e)}
  <2>1. Debt!Growth(J, d, d) = Debt!Growth(f, d, d)
    BY <1>2, <1>5, GrowthIs
  <2>2. 0 \in T
    <3>1. \A e \in W : d <= e /\ e - d <= 0 => e = d
      BY <1>2
    <3> QED BY <2>1, <3>1
  <2>3. ASSUME NEW n \in T
        PROVE  n + 1 \in T
    <3> SUFFICES ASSUME NEW e \in W, d <= e, e - d <= n + 1
                 PROVE  Debt!Growth(J, d, e) = Debt!Growth(f, d, e)
      OBVIOUS
    <3>1. CASE e = d
      BY <2>1, <3>1
    <3>2. CASE e # d
      <4> DEFINE b == Debt!Latest(Debt!Earlier(W, e))
      <4>1. d < e /\ d \in Int /\ e \in Int
        BY <1>2, <3>2
      <4>2. e \in Debt!Later(W) /\ b \in W /\ d <= b /\ b < e /\ \A x \in W : x < e => x <= b
        BY <1>2, <4>1, DayBefore
      <4>3. J[e] = Debt!Growth(f, b, e)
        BY <1>1, <4>2
      <4> HIDE DEF b
      <4>4. b \in Int /\ b - d <= n
        BY <1>2, <4>1, <4>2
      <4>5. Debt!Growth(J, d, b) = Debt!Growth(f, d, b)
        BY <4>2, <4>4
      <4>6. Debt!Growth(J, d, e) = Debt!Times(Debt!Growth(J, d, b), J[e])
        BY <1>3, <1>5, <4>1, <4>2, <4>4, GrowthIs
      <4>7. Debt!Growth(f, d, e) = Debt!Times(Debt!Growth(f, d, b), Debt!Growth(f, b, e))
        <5>1. b <= e
          BY <4>1, <4>2, <4>4
        <5> QED BY <4>1, <4>2, <4>4, <5>1, GrowthIs
      <4> QED BY <4>3, <4>5, <4>6, <4>7
    <3> QED BY <3>1, <3>2
  <2>4. T = Nat
    BY <2>2, <2>3, NatSetInduction
  <2>5. ASSUME NEW e \in W, d <= e
        PROVE  Debt!Growth(J, d, e) = Debt!Growth(f, d, e)
    <3>1. e - d \in Nat /\ e - d <= e - d
      BY <1>2, <2>5
    <3>2. e - d \in T
      <4> HIDE DEF T
      <4> QED BY <2>4, <3>1
    <3> QED BY <2>5, <3>1, <3>2
  <2> QED BY <2>5
<1> QED BY <1>1, <1>3, <1>6 DEF J

\* A factor from a price to another one, after a growth up to the first of them.
LEMMA PricesCancel ==
  ASSUME NEW p \in Fraction, NEW a \in Int, NEW b \in Int, NEW c \in Int, Debt!Same(p, <<b, a>>)
  PROVE  Debt!Same(Debt!Times(p, <<c, b>>), <<c, a>>)
<1> DEFINE n == p[1]
           m == p[2]
<1>1. n \in Int /\ m \in Int
  BY DEF Fraction
<1>2. n * a = b * m
  BY DEF Debt!Same
<1>3. Debt!Times(p, <<c, b>>) = <<n * c, m * b>>
  BY DEF Debt!Times
<1> HIDE DEF n, m
<1>4. (n * c) * a = c * (n * a) /\ c * (m * b) = c * (b * m)
  <2>1. \A x, y, z \in Int : (x * y) * z = y * (x * z) /\ y * (x * z) = y * (z * x)
    OBVIOUS
  <2> QED BY <1>1, <2>1
<1>5. (n * c) * a = c * (m * b)
  BY <1>2, <1>4
<1> QED BY <1>3, <1>5 DEF Debt!Same

\* A factor that is not zero can be taken out.
LEMMA SameFactor ==
  ASSUME NEW a \in Int, NEW b \in Int, NEW c \in Int, c > 0, a * c = b * c
  PROVE  a = b
<1>1. \A x, y \in Int : x < y => x * c < y * c
  <2> SUFFICES ASSUME NEW x \in Int, NEW y \in Int, x < y
               PROVE  x * c < y * c
    OBVIOUS
  <2>1. y - x - 1 \in Nat /\ c \in Nat /\ y = x + 1 + (y - x - 1)
    OBVIOUS
  <2> DEFINE k == y - x - 1
  <2>2. c * k \in Nat
    BY <2>1, TimesMonotone
  <2>3. y * c = x * c + c + c * k
    BY <2>1
  <2>4. x * c \in Int
    OBVIOUS
  <2> HIDE DEF k
  <2> QED BY <2>2, <2>3, <2>4
<1> QED BY <1>1

\* The rows of CETES that are not refused, and their index.
LEMMA CetesAre ==
  ASSUME NEW rows \in Seq(CetesRows), Debt!Cetes(rows) # Refused
  PROVE  LET dated == Debt!Dated(rows)
             D == DOMAIN dated
             f == Debt!Cetes(rows)
         IN /\ IsFiniteSet(D) /\ D \subseteq Int /\ Factored(f) /\ DOMAIN f = D
            /\ \A d \in D : /\ dated[d] \in CetesRows /\ dated[d].day = d
                            /\ dated[d].price > 0 /\ dated[d].term >= 0 /\ Debt!Implied(dated[d])
            /\ \A d, e \in D : (dated[d].rate = Blank) = (dated[e].rate = Blank)
            /\ \A d, e \in D : d < e =>
                 LET before == dated[Debt!Latest(Debt!Earlier(D, e))]
                 IN /\ f[e] = Debt!Redeemed(before, dated[e])
                    /\ Debt!Rolls(before, dated[e]) => Debt!Matures(before, dated[e])
<1> DEFINE dated == Debt!Dated(rows)
           D == DOMAIN dated
           f == Debt!Cetes(rows)
           later == Debt!Later(D)
           gross == [d \in later |-> Debt!Redeemed(Debt!Previous(dated, d), dated[d])]
<1>1. /\ Debt!Readable(rows)
      /\ \A i \in DOMAIN rows : /\ ~(rows[i].price <= 0) /\ ~(rows[i].term < 0) /\ Debt!Implied(rows[i])
                                /\ ~((rows[i].rate = Blank) # (rows[1].rate = Blank))
      /\ \A d \in later :
           ~(Debt!Rolls(Debt!Previous(dated, d), dated[d]) /\ ~Debt!Matures(Debt!Previous(dated, d), dated[d]))
      /\ f = Debt!IndexOf(dated, gross)
  BY DEF Debt!Cetes
<1>2. \A r \in CetesRows : r.day \in Int /\ r.price \in Int /\ r.term \in Int
  BY DEF CetesRows
<1>3. /\ IsFiniteSet(D) /\ D \subseteq Int
      /\ \A d \in D : /\ \E i \in DOMAIN rows : dated[d] = rows[i] /\ rows[i].day = d
                      /\ dated[d] \in CetesRows /\ dated[d].day = d
  <2>1. /\ Debt!Readable(rows) /\ Len(rows) \in Nat /\ DOMAIN rows = 1..Len(rows)
        /\ \A i \in DOMAIN rows : rows[i] \in CetesRows /\ rows[i].day \in Int
    BY <1>1, <1>2
  <2> QED BY <2>1, RowsByDay
<1>4. f = [d \in D |-> IF d \in later THEN gross[d] ELSE Debt!One]
  BY <1>1 DEF Debt!IndexOf
<1> HIDE DEF dated, f
<1>5. \A d \in D : /\ dated[d].price > 0 /\ dated[d].term >= 0 /\ Debt!Implied(dated[d])
                   /\ (dated[d].rate = Blank) = (rows[1].rate = Blank)
  <2> SUFFICES ASSUME NEW d \in D
               PROVE  /\ dated[d].price > 0 /\ dated[d].term >= 0 /\ Debt!Implied(dated[d])
                      /\ (dated[d].rate = Blank) = (rows[1].rate = Blank)
    OBVIOUS
  <2>1. PICK i \in DOMAIN rows : dated[d] = rows[i]
    BY <1>3
  <2>2. dated[d].price \in Int /\ dated[d].term \in Int
    BY <1>2, <1>3
  <2>3. ~(dated[d].price <= 0) /\ ~(dated[d].term < 0) /\ Debt!Implied(dated[d])
    BY <1>1, <2>1
  <2>4. (dated[d].rate = Blank) = (rows[1].rate = Blank)
    BY <1>1, <2>1
  <2> QED BY <2>2, <2>3, <2>4
<1>6. ASSUME NEW e \in later
      PROVE  /\ Debt!Latest(Debt!Earlier(D, e)) \in D /\ e \in D
             /\ Debt!Previous(dated, e) = dated[Debt!Latest(Debt!Earlier(D, e))]
  <2>1. PICK d \in D : d < e /\ e \in D
    BY DEF Debt!Later, Debt!Earlier
  <2>2. Debt!Latest(Debt!Earlier(D, e)) \in D
    BY <1>3, <2>1, DayBefore
  <2> QED BY <2>1, <2>2 DEF Debt!Previous
<1>7. ASSUME NEW e \in D
      PROVE  f[e] \in Fraction
  <2>1. CASE e \in later
    <3> DEFINE o == dated[e]
               p == Debt!Previous(dated, e)
    <3>1. o \in CetesRows /\ p \in CetesRows
      BY <1>3, <1>6, <2>1
    <3>2. f[e] = Debt!Redeemed(p, o)
      BY <1>4, <2>1
    <3> HIDE DEF o, p
    <3>3. Debt!Redeemed(p, o) = <<Nominal, p.price>> \/ Debt!Redeemed(p, o) = <<o.price, p.price>>
      BY DEF Debt!Redeemed
    <3>4. Nominal \in Int /\ p.price \in Int /\ o.price \in Int
      BY <1>2, <3>1, SeriesAssumption
    <3> QED BY <3>2, <3>3, <3>4 DEF Fraction
  <2>2. CASE e \notin later
    BY <1>4, <2>2, FractionsMultiply
  <2> QED BY <2>1, <2>2
<1>8. DOMAIN f = D
  BY <1>4
<1>9. Factored(f)
  BY <1>3, <1>7, <1>8 DEF Factored, Indexed
<1>10. ASSUME NEW d \in D, NEW e \in D, d < e
       PROVE  LET before == dated[Debt!Latest(Debt!Earlier(D, e))]
              IN /\ f[e] = Debt!Redeemed(before, dated[e])
                 /\ Debt!Rolls(before, dated[e]) => Debt!Matures(before, dated[e])
  <2>1. e \in later
    BY <1>3, <1>10, DayBefore
  <2>2. Debt!Previous(dated, e) = dated[Debt!Latest(Debt!Earlier(D, e))]
    BY <1>6, <2>1
  <2>3. f[e] = Debt!Redeemed(Debt!Previous(dated, e), dated[e])
    BY <1>4, <2>1
  <2> HIDE DEF later
  <2> QED BY <1>1, <2>1, <2>2, <2>3
<1>11. \A d, e \in D : (dated[d].rate = Blank) = (dated[e].rate = Blank)
  BY <1>5
<1> HIDE DEF D
<1> QED BY <1>3, <1>5, <1>8, <1>9, <1>10, <1>11 DEF D, dated, f

\* Before the end of its term a CETES grows as its price, and its term gets shorter.
LEMMA CetesRun ==
  ASSUME NEW rows \in Seq(CetesRows), Debt!Cetes(rows) # Refused, NEW d \in DOMAIN Debt!Dated(rows)
  PROVE  LET dated == Debt!Dated(rows)
             ends(day) == day > d /\ day - d >= dated[d].term
         IN \A x \in DOMAIN dated :
              d <= x /\ (\A y \in DOMAIN dated : y <= x => ~ends(y)) =>
                /\ dated[x].term = dated[d].term - (x - d)
                /\ Debt!Same(Debt!Growth(Debt!Cetes(rows), d, x), <<dated[x].price, dated[d].price>>)
<1> DEFINE dated == Debt!Dated(rows)
           D == DOMAIN dated
           f == Debt!Cetes(rows)
           ends(day) == day > d /\ day - d >= dated[d].term
           Good(x) == /\ dated[x].term = dated[d].term - (x - d)
                      /\ Debt!Same(Debt!Growth(f, d, x), <<dated[x].price, dated[d].price>>)
           T == {n \in Nat : \A x \in D : d <= x /\ x - d <= n /\ (\A y \in D : y <= x => ~ends(y)) => Good(x)}
<1>1. /\ IsFiniteSet(D) /\ D \subseteq Int /\ Factored(f) /\ DOMAIN f = D
      /\ \A x \in D : dated[x] \in CetesRows /\ dated[x].day = x
      /\ \A c, e \in D : c < e =>
           LET before == dated[Debt!Latest(Debt!Earlier(D, e))]
           IN /\ f[e] = Debt!Redeemed(before, dated[e])
              /\ Debt!Rolls(before, dated[e]) => Debt!Matures(before, dated[e])
  BY CetesAre
<1>2. d \in D /\ \A x \in D : x \in Int /\ dated[x].price \in Int /\ dated[x].term \in Int
  <2>1. \A r \in CetesRows : r.price \in Int /\ r.term \in Int
    BY DEF CetesRows
  <2> QED BY <1>1, <2>1
<1> HIDE DEF dated, f
<1>3. Good(d)
  <2>1. Debt!Growth(f, d, d) = Debt!One
    BY <1>1, <1>2, GrowthIs
  <2>2. Debt!Same(Debt!One, <<dated[d].price, dated[d].price>>)
    BY <1>2 DEF Debt!Same, Debt!One
  <2>3. dated[d].term = dated[d].term - (d - d)
    BY <1>2
  <2> QED BY <2>1, <2>2, <2>3
<1>4. 0 \in T
  <2>1. \A x \in D : d <= x /\ x - d <= 0 => x = d
    BY <1>2
  <2> HIDE DEF Good
  <2> QED BY <1>3, <2>1
<1>5. ASSUME NEW n \in T
      PROVE  n + 1 \in T
  <2> SUFFICES ASSUME NEW x \in D, d <= x, x - d <= n + 1, \A y \in D : y <= x => ~ends(y)
               PROVE  Good(x)
    OBVIOUS
  <2>1. CASE x = d
    BY <1>3, <2>1
  <2>2. CASE x # d
    <3> DEFINE b == Debt!Latest(Debt!Earlier(D, x))
    <3>1. d < x /\ d \in Int /\ x \in Int
      BY <1>2, <2>2
    <3>2. b \in D /\ d <= b /\ b < x /\ \A y \in D : y < x => y <= b
      BY <1>1, <1>2, <3>1, DayBefore
    <3>3. /\ f[x] = Debt!Redeemed(dated[b], dated[x])
          /\ Debt!Rolls(dated[b], dated[x]) => Debt!Matures(dated[b], dated[x])
      BY <1>1, <1>2, <3>1
    <3> HIDE DEF b
    <3>4. b \in Int /\ b - d <= n /\ b <= x
      BY <1>2, <3>1, <3>2
    <3>5. Good(b)
      <4>1. \A y \in D : y <= b => y <= x
        BY <1>2, <3>1, <3>4
      <4> HIDE DEF Good, ends
      <4> QED BY <3>2, <3>4, <4>1
    <3>6. ~Debt!Rolls(dated[b], dated[x])
      <4>1. SUFFICES ASSUME Debt!Rolls(dated[b], dated[x])
                     PROVE  FALSE
        OBVIOUS
      <4>2. dated[b].term <= x - b
        BY <1>1, <3>2, <3>3, <4>1 DEF Debt!Matures
      <4>3. x - d >= dated[d].term
        BY <1>2, <3>1, <3>2, <3>4, <3>5, <4>2
      <4> QED BY <3>1, <4>3
    <3>7. f[x] = <<dated[x].price, dated[b].price>> /\ dated[x].term = dated[b].term - (x - b)
      BY <1>1, <3>2, <3>3, <3>6 DEF Debt!Redeemed, Debt!Matures, Debt!Rolls
    <3>8. dated[x].term = dated[d].term - (x - d)
      <4>1. dated[b].term = dated[d].term - (b - d) /\ dated[d].term \in Int
        BY <1>2, <3>5
      <4>2. dated[x].term = dated[b].term - (x - b)
        BY <3>7
      <4>3. \A t \in Int : (t - (b - d)) - (x - b) = t - (x - d)
        BY <3>1, <3>4
      <4> QED BY <4>1, <4>2, <4>3
    <3>9. Debt!Growth(f, d, x) = Debt!Times(Debt!Growth(f, d, b), f[x])
      BY <1>1, <3>1, <3>2, <3>4, GrowthIs
    <3>10. Debt!Same(Debt!Growth(f, d, x), <<dated[x].price, dated[d].price>>)
      <4>1. Debt!Growth(f, d, b) \in Fraction
        BY <1>1, <3>1, <3>4, GrowthIs
      <4>2. /\ Debt!Same(Debt!Growth(f, d, b), <<dated[b].price, dated[d].price>>)
            /\ dated[b].price \in Int /\ dated[d].price \in Int /\ dated[x].price \in Int
        BY <1>2, <3>2, <3>5
      <4> HIDE DEF Good
      <4> QED BY <3>7, <3>9, <4>1, <4>2, PricesCancel
    <3> QED BY <3>8, <3>10
  <2> QED BY <2>1, <2>2
<1>6. T = Nat
  <2> HIDE DEF Good
  <2> QED BY <1>4, <1>5, NatSetInduction
<1>7. ASSUME NEW x \in D, d <= x, \A y \in D : y <= x => ~ends(y)
      PROVE  Good(x)
  <2>1. x - d \in Nat /\ x - d <= x - d
    BY <1>2, <1>7
  <2>2. x - d \in T
    <3> HIDE DEF T
    <3> QED BY <1>6, <2>1
  <2> HIDE DEF Good, ends
  <2> QED BY <1>7, <2>1, <2>2
<1> QED BY <1>7 DEF dated, f

\* The part of an index that is in a period grows as the index does.
LEMMA PartGrows ==
  ASSUME NEW f, Factored(f), f # Refused, NEW period \in Int \X Int
  PROVE  LET g == Debt!Within(f, period)
         IN /\ Factored(g) /\ DOMAIN g \subseteq DOMAIN f
            /\ \A d, e \in DOMAIN g : Debt!Growth(g, d, e) = Debt!Growth(f, d, e)
<1> DEFINE g == Debt!Within(f, period)
           W == {e \in DOMAIN f : period[1] <= e /\ e <= period[2]}
           Span(h, d, e) == {x \in DOMAIN h : d < x /\ x <= e}
<1>1. g = [d \in W |-> f[d]] /\ DOMAIN g = W /\ W \subseteq DOMAIN f
  BY DEF Debt!Within
<1>2. Indexed(f) /\ IsFiniteSet(DOMAIN f) /\ DOMAIN f \subseteq Int /\ \A d \in DOMAIN f : f[d] \in Fraction
  BY DEF Factored, Indexed
<1>3. Factored(g)
  <2>1. IsFiniteSet(W) /\ W \subseteq Int
    BY <1>1, <1>2, FS_Subset
  <2>2. \A d \in W : g[d] = f[d]
    BY <1>1
  <2> HIDE DEF W, g
  <2> QED BY <1>1, <1>2, <2>1, <2>2 DEF Factored, Indexed
<1>4. ASSUME NEW d \in DOMAIN g, NEW e \in DOMAIN g
      PROVE  Debt!Growth(g, d, e) = Debt!Growth(f, d, e)
  <2>1. Span(g, d, e) = Span(f, d, e)
    BY <1>1, <1>2
  <2>2. Debt!Growth(g, d, e) = Debt!Chained(g, Span(g, d, e)) /\ Debt!Growth(f, d, e) = Debt!Chained(f, Span(f, d, e))
    BY DEF Debt!Growth
  <2>3. \A x \in Span(g, d, e) : g[x] = f[x]
    BY <1>1
  <2>4. Span(g, d, e) \in SUBSET DOMAIN g /\ Span(f, d, e) \in SUBSET DOMAIN f
    OBVIOUS
  <2>5. Indexed(g)
    BY <1>3 DEF Factored
  <2> HIDE DEF g, W, Span
  <2> QED BY <1>2, <2>1, <2>2, <2>3, <2>4, <2>5, ChainsAgree
<1> QED BY <1>1, <1>3, <1>4

\* A CETES held to the end of its term pays the nominal.
LEMMA NominalIsPaid ==
  ASSUME NEW rows \in Seq(CetesRows), NEW market, NEW period \in Int \X Int
  PROVE  Debt!PaysNominal(rows, market, period)
<1> DEFINE f == Debt!Cetes(rows)
           part == Debt!Within(f, period)
           J == Debt!Joined(market, part)
           dated == Debt!Dated(rows)
           D == DOMAIN dated
<1> SUFFICES ASSUME J # Refused, NEW d \in DOMAIN J, NEW e \in DOMAIN J,
                    e > d, e - d >= dated[d].term, dated[d].rate # Blank,
                    \A x \in Debt!Earlier(D, e) : ~(x > d /\ x - d >= dated[d].term)
             PROVE  Debt!Same(Debt!Growth(J, d, e), <<Nominal, dated[d].price>>)
  BY DEF Debt!PaysNominal
<1>1. f # Refused
  <2>1. part # Refused
    BY DEF Debt!Joined
  <2> QED BY <2>1 DEF Debt!Within
<1>2. /\ D \subseteq Int /\ IsFiniteSet(D) /\ Factored(f) /\ DOMAIN f = D
      /\ \A c \in D : /\ dated[c] \in CetesRows /\ dated[c].day = c
                      /\ dated[c].price > 0 /\ dated[c].term >= 0 /\ Debt!Implied(dated[c])
      /\ \A b, c \in D : (dated[b].rate = Blank) = (dated[c].rate = Blank)
      /\ \A b, c \in D : b < c =>
           LET before == dated[Debt!Latest(Debt!Earlier(D, c))]
           IN /\ f[c] = Debt!Redeemed(before, dated[c])
              /\ Debt!Rolls(before, dated[c]) => Debt!Matures(before, dated[c])
  BY <1>1, CetesAre
<1> HIDE DEF f
<1>p. /\ Factored(part) /\ DOMAIN part \subseteq D
      /\ \A x, y \in DOMAIN part : Debt!Growth(part, x, y) = Debt!Growth(f, x, y)
  BY <1>1, <1>2, PartGrows
<1> HIDE DEF part
<1>j. d \in DOMAIN part /\ e \in DOMAIN part
  BY <1>p, JoinedGrows
<1>3. d \in D /\ e \in D /\ d \in Int /\ e \in Int /\ d < e /\ d <= e
  BY <1>2, <1>p, <1>j
<1>4. Debt!Growth(J, d, e) = Debt!Growth(f, d, e)
  BY <1>3, <1>p, <1>j, JoinedGrows
<1> DEFINE b == Debt!Latest(Debt!Earlier(D, e))
<1>5. b \in D /\ d <= b /\ b < e /\ \A x \in D : x < e => x <= b
  BY <1>2, <1>3, DayBefore
<1>6. /\ f[e] = Debt!Redeemed(dated[b], dated[e])
      /\ Debt!Rolls(dated[b], dated[e]) => Debt!Matures(dated[b], dated[e])
  BY <1>2, <1>3
<1>7. \A y \in D : y <= b => ~(y > d /\ y - d >= dated[d].term)
  <2>1. \A y \in D : y <= b => y \in Debt!Earlier(D, e)
    <3> HIDE DEF b
    <3> QED BY <1>2, <1>3, <1>5 DEF Debt!Earlier
  <2> QED BY <2>1
<1> HIDE DEF b
<1>8. /\ dated[b].term = dated[d].term - (b - d)
      /\ Debt!Same(Debt!Growth(f, d, b), <<dated[b].price, dated[d].price>>)
  BY <1>1, <1>3, <1>5, <1>7, CetesRun DEF f
<1> HIDE DEF J, f, dated
<1>9. /\ \A c \in D : dated[c].price \in Int /\ dated[c].term \in Int /\ (dated[c].rate # Blank => dated[c].rate \in Int)
      /\ Nominal \in Int /\ Nominal > 0 /\ Year \in Int /\ Year > 0 /\ b \in Int
  <2>1. \A r \in CetesRows : r.price \in Int /\ r.term \in Int /\ (r.rate # Blank => r.rate \in Int)
    BY DEF CetesRows
  <2> QED BY <1>2, <1>5, <2>1, SeriesAssumption
<1>10. dated[b].term <= e - b
  <2>1. dated[d].term \in Int
    BY <1>3, <1>9
  <2> QED BY <1>3, <1>8, <1>9, <2>1
<1>11. f[e] = <<Nominal, dated[b].price>>
  <2>1. CASE Debt!Rolls(dated[b], dated[e])
    BY <1>6, <2>1 DEF Debt!Redeemed
  <2>2. CASE ~Debt!Rolls(dated[b], dated[e])
    <3>1. dated[e].term = dated[b].term - (e - b)
      BY <1>2, <1>3, <1>5, <2>2 DEF Debt!Rolls
    <3>2. dated[e].term = 0
      <4>1. dated[b].term \in Int /\ dated[e].term \in Int /\ dated[e].term >= 0
        BY <1>2, <1>3, <1>5, <1>9
      <4> QED BY <1>3, <1>9, <1>10, <3>1, <4>1
    <3>3. dated[e].rate # Blank
      BY <1>2, <1>3
    <3>4. dated[e].price * (Year + dated[e].rate * dated[e].term) = Nominal * Year
      BY <1>2, <1>3, <3>3 DEF Debt!Implied
    <3>5. dated[e].price = Nominal
      <4> DEFINE q == dated[e].price
                 r == dated[e].rate
      <4>1. q \in Int /\ r \in Int /\ q * (Year + r * 0) = Nominal * Year
        BY <1>3, <1>9, <3>2, <3>3, <3>4
      <4> HIDE DEF q, r
      <4>2. r * 0 = 0
        BY <4>1
      <4>3. Year + r * 0 = Year
        BY <1>9, <4>2
      <4>4. q * Year = Nominal * Year
        BY <4>1, <4>3
      <4>5. q = Nominal
        BY <1>9, <4>1, <4>4, SameFactor
      <4> QED BY <4>5 DEF q
    <3> QED BY <1>6, <2>2, <3>5 DEF Debt!Redeemed, Debt!Matures
  <2> QED BY <2>1, <2>2
<1>12. Debt!Growth(f, d, e) = Debt!Times(Debt!Growth(f, d, b), f[e])
  BY <1>2, <1>3, <1>5, <1>9, GrowthIs
<1>13. Debt!Growth(f, d, b) \in Fraction /\ dated[b].price \in Int /\ dated[d].price \in Int
  BY <1>2, <1>3, <1>5, <1>9, GrowthIs
<1> QED BY <1>4, <1>8, <1>9, <1>11, <1>12, <1>13, PricesCancel

\* The index of a bond and the titles its coupons buy, one day more.
LEMMA CouponsCancel ==
  ASSUME NEW p \in Fraction, NEW q \in Fraction, NEW a \in Int, NEW b \in Int, NEW c \in Int, NEW w \in Int,
         Debt!Same(p, Debt!Times(q, <<b, a>>))
  PROVE  Debt!Same(Debt!Times(p, <<w, b>>), Debt!Times(Debt!Times(q, <<w, c>>), <<c, a>>))
<1> DEFINE n == p[1]
           m == p[2]
           r == q[1]
           s == q[2]
<1>1. n \in Int /\ m \in Int /\ r \in Int /\ s \in Int
  BY DEF Fraction
<1>2. n * (s * a) = (r * b) * m
  BY DEF Debt!Same, Debt!Times
<1>3. /\ Debt!Times(p, <<w, b>>) = <<n * w, m * b>>
      /\ Debt!Times(Debt!Times(q, <<w, c>>), <<c, a>>) = <<(r * w) * c, (s * c) * a>>
  BY DEF Debt!Times
<1> HIDE DEF n, m, r, s
<1>4. (n * w) * ((s * c) * a) = (w * c) * (n * (s * a))
  <2>1. \A t, u, v, x, y \in Int : (t * u) * ((v * x) * y) = (u * x) * (t * (v * y))
    OBVIOUS
  <2> QED BY <1>1, <2>1
<1>5. ((r * w) * c) * (m * b) = (w * c) * ((r * b) * m)
  <2>1. \A t, u, v, x, y \in Int : ((t * u) * v) * (x * y) = (u * v) * ((t * y) * x)
    OBVIOUS
  <2> QED BY <1>1, <2>1
<1>6. (n * w) * ((s * c) * a) = ((r * w) * c) * (m * b)
  BY <1>2, <1>4, <1>5
<1> QED BY <1>3, <1>6 DEF Debt!Same

\* The index of a bond that is not refused.
LEMMA BondsAre ==
  ASSUME NEW rows \in Seq(BondRows), NEW maturity, Debt!Bond(rows, maturity) # Refused
  PROVE  LET dated == Debt!Dated(rows)
             D == DOMAIN dated
             f == Debt!Bond(rows, maturity)
         IN /\ IsFiniteSet(D) /\ D \subseteq Int /\ Factored(f) /\ DOMAIN f = D
            /\ \A d \in D : Debt!Dirty(dated[d]) \in Int /\ dated[d].coupon \in Int
            /\ \A d, e \in D : d < e => f[e] = Debt!Paid(dated[Debt!Latest(Debt!Earlier(D, e))], dated[e])
<1> DEFINE dated == Debt!Dated(rows)
           D == DOMAIN dated
           f == Debt!Bond(rows, maturity)
           later == Debt!Later(D)
           gross == [d \in later |-> Debt!Paid(Debt!Previous(dated, d), dated[d])]
<1>1. Debt!Readable(rows) /\ f = Debt!IndexOf(dated, gross)
  BY DEF Debt!Bond
<1>2. \A r \in BondRows : r.day \in Int /\ r.coupon \in Int /\ Debt!Dirty(r) \in Int
  BY DEF BondRows, Debt!Dirty
<1>3. /\ IsFiniteSet(D) /\ D \subseteq Int
      /\ \A d \in D : \E i \in DOMAIN rows : dated[d] = rows[i] /\ rows[i] \in BondRows
  <2>1. /\ Debt!Readable(rows) /\ Len(rows) \in Nat /\ DOMAIN rows = 1..Len(rows)
        /\ \A i \in DOMAIN rows : rows[i] \in BondRows /\ rows[i].day \in Int
    BY <1>1, <1>2
  <2> QED BY <2>1, RowsByDay
<1>4. f = [d \in D |-> IF d \in later THEN gross[d] ELSE Debt!One]
  BY <1>1 DEF Debt!IndexOf
<1> HIDE DEF dated, f
<1>5. \A d \in D : Debt!Dirty(dated[d]) \in Int /\ dated[d].coupon \in Int
  BY <1>2, <1>3
<1>6. ASSUME NEW e \in later
      PROVE  /\ Debt!Latest(Debt!Earlier(D, e)) \in D /\ e \in D
             /\ Debt!Previous(dated, e) = dated[Debt!Latest(Debt!Earlier(D, e))]
  <2>1. PICK d \in D : d < e /\ e \in D
    BY DEF Debt!Later, Debt!Earlier
  <2>2. Debt!Latest(Debt!Earlier(D, e)) \in D
    BY <1>3, <2>1, DayBefore
  <2> QED BY <2>1, <2>2 DEF Debt!Previous
<1>7. ASSUME NEW e \in D
      PROVE  f[e] \in Fraction
  <2>1. CASE e \in later
    <3> DEFINE o == dated[e]
               p == Debt!Previous(dated, e)
    <3>1. f[e] = Debt!Paid(p, o)
      BY <1>4, <2>1
    <3>2. Debt!Dirty(o) \in Int /\ o.coupon \in Int /\ Debt!Dirty(p) \in Int
      BY <1>5, <1>6, <2>1
    <3> HIDE DEF o, p
    <3> QED BY <3>1, <3>2 DEF Debt!Paid, Fraction
  <2>2. CASE e \notin later
    BY <1>4, <2>2, FractionsMultiply
  <2> QED BY <2>1, <2>2
<1>8. DOMAIN f = D
  BY <1>4
<1>9. Factored(f)
  BY <1>3, <1>7, <1>8 DEF Factored, Indexed
<1>10. ASSUME NEW d \in D, NEW e \in D, d < e
       PROVE  f[e] = Debt!Paid(dated[Debt!Latest(Debt!Earlier(D, e))], dated[e])
  <2>1. e \in later
    BY <1>3, <1>10, DayBefore
  <2>2. Debt!Previous(dated, e) = dated[Debt!Latest(Debt!Earlier(D, e))]
    BY <1>6, <2>1
  <2>3. f[e] = Debt!Paid(Debt!Previous(dated, e), dated[e])
    BY <1>4, <2>1
  <2> QED BY <2>2, <2>3
<1> HIDE DEF D
<1> QED BY <1>3, <1>5, <1>8, <1>9, <1>10 DEF D, dated, f

\* The index of a bond reinvests its coupons.
LEMMA CouponsAreReinvested ==
  ASSUME NEW rows \in Seq(BondRows), NEW maturity
  PROVE  Debt!Reinvests(rows, maturity)
<1> DEFINE f == Debt!Bond(rows, maturity)
           dated == Debt!Dated(rows)
           D == DOMAIN dated
           bought == [d \in D |-> <<Debt!Dirty(dated[d]) + dated[d].coupon, Debt!Dirty(dated[d])>>]
           Good(d, e) == Debt!Same(Debt!Growth(f, d, e),
                           Debt!Times(Debt!Growth(bought, d, e), <<Debt!Dirty(dated[e]), Debt!Dirty(dated[d])>>))
<1> SUFFICES ASSUME f # Refused, NEW d \in D
             PROVE  \A e \in D : d <= e => Good(d, e)
  BY DEF Debt!Reinvests
<1>1. /\ D \subseteq Int /\ IsFiniteSet(D) /\ Factored(f) /\ DOMAIN f = D
      /\ \A c \in D : Debt!Dirty(dated[c]) \in Int /\ dated[c].coupon \in Int
      /\ \A b, e \in D : b < e => f[e] = Debt!Paid(dated[Debt!Latest(Debt!Earlier(D, e))], dated[e])
  BY BondsAre
<1>2. d \in D /\ \A c \in D : c \in Int
  BY <1>1
<1> HIDE DEF f, dated
<1>3. /\ Factored(bought) /\ DOMAIN bought = D
      /\ \A c \in D : bought[c] = <<Debt!Dirty(dated[c]) + dated[c].coupon, Debt!Dirty(dated[c])>>
  <2>1. DOMAIN bought = D /\ \A c \in D : bought[c] = <<Debt!Dirty(dated[c]) + dated[c].coupon, Debt!Dirty(dated[c])>>
    OBVIOUS
  <2> HIDE DEF bought, D
  <2>2. \A c \in D : bought[c] \in Fraction
    <3>1. \A x, y \in Int : <<x + y, x>> \in Fraction
      BY DEF Fraction
    <3>2. \A c \in D : Debt!Dirty(dated[c]) \in Int /\ dated[c].coupon \in Int
      BY <1>1
    <3> QED BY <2>1, <3>1, <3>2
  <2> QED BY <1>1, <2>1, <2>2 DEF Factored, Indexed
<1> HIDE DEF bought
<1> DEFINE T == {n \in Nat : \A e \in D : d <= e /\ e - d <= n => Good(d, e)}
<1>4. Good(d, d)
  <2>1. Debt!Growth(f, d, d) = Debt!One /\ Debt!Growth(bought, d, d) = Debt!One
    BY <1>1, <1>2, <1>3, GrowthIs
  <2>2. \A x \in Int : Debt!Same(Debt!One, Debt!Times(Debt!One, <<x, x>>))
    BY DEF Debt!Same, Debt!One, Debt!Times
  <2> QED BY <1>1, <1>2, <2>1, <2>2
<1>5. 0 \in T
  <2>1. \A x \in D : d <= x /\ x - d <= 0 => x = d
    BY <1>2
  <2> HIDE DEF Good
  <2> QED BY <1>4, <2>1
<1>6. ASSUME NEW n \in T
      PROVE  n + 1 \in T
  <2> SUFFICES ASSUME NEW e \in D, d <= e, e - d <= n + 1
               PROVE  Good(d, e)
    OBVIOUS
  <2>1. CASE e = d
    BY <1>4, <2>1
  <2>2. CASE e # d
    <3> DEFINE b == Debt!Latest(Debt!Earlier(D, e))
    <3>1. d < e /\ d \in Int /\ e \in Int
      BY <1>2, <2>2
    <3>2. b \in D /\ d <= b /\ b < e /\ \A y \in D : y < e => y <= b
      BY <1>1, <1>2, <3>1, DayBefore
    <3>3. f[e] = Debt!Paid(dated[b], dated[e])
      BY <1>1, <1>2, <3>1
    <3> HIDE DEF b
    <3>4. b \in Int /\ b - d <= n /\ b <= e
      BY <1>2, <3>1, <3>2
    <3>5. Good(d, b)
      <4> HIDE DEF Good
      <4> QED BY <3>2, <3>4
    <3>6. /\ Debt!Growth(f, d, e) = Debt!Times(Debt!Growth(f, d, b), f[e])
          /\ Debt!Growth(bought, d, e) = Debt!Times(Debt!Growth(bought, d, b), bought[e])
      BY <1>1, <1>3, <3>1, <3>2, <3>4, GrowthIs
    <3>7. /\ Debt!Growth(f, d, b) \in Fraction /\ Debt!Growth(bought, d, b) \in Fraction
      BY <1>1, <1>3, <3>1, <3>4, GrowthIs
    <3> DEFINE w == Debt!Dirty(dated[e]) + dated[e].coupon
    <3>8. f[e] = <<w, Debt!Dirty(dated[b])>> /\ bought[e] = <<w, Debt!Dirty(dated[e])>> /\ w \in Int
      BY <1>1, <1>3, <3>3 DEF Debt!Paid
    <3>9. Debt!Dirty(dated[d]) \in Int /\ Debt!Dirty(dated[b]) \in Int /\ Debt!Dirty(dated[e]) \in Int
      BY <1>1, <1>2, <3>2
    <3> HIDE DEF w
    <3> QED BY <3>5, <3>6, <3>7, <3>8, <3>9, CouponsCancel
  <2> QED BY <2>1, <2>2
<1>7. T = Nat
  <2> HIDE DEF Good
  <2> QED BY <1>5, <1>6, NatSetInduction
<1>8. ASSUME NEW e \in D, d <= e
      PROVE  Good(d, e)
  <2>1. e - d \in Nat /\ e - d <= e - d
    BY <1>2, <1>8
  <2>2. e - d \in T
    <3> HIDE DEF T
    <3> QED BY <1>7, <2>1
  <2> HIDE DEF Good
  <2> QED BY <1>8, <2>1, <2>2
<1> QED BY <1>8

\* The rows of liquidity that are not refused, and their index.
LEMMA LiquidityIs ==
  ASSUME NEW rows, Len(rows) \in Nat, DOMAIN rows = 1..Len(rows), \A i \in DOMAIN rows : rows[i].day \in Int,
         Debt!Liquidity(rows) # Refused
  PROVE  LET dated == Debt!Dated(rows)
             D == DOMAIN dated
             f == Debt!Liquidity(rows)
         IN /\ D = {rows[i].day : i \in DOMAIN rows} /\ IsFiniteSet(D) /\ D \subseteq Int
            /\ \A i \in DOMAIN rows : dated[rows[i].day] = rows[i]
            /\ Indexed(f) /\ DOMAIN f = D
            /\ \A e \in D : f[e] = IF e \in Debt!Later(D)
                                   THEN Debt!Accrued(dated[Debt!Latest(Debt!Earlier(D, e))], dated[e]) ELSE Debt!One
<1> DEFINE dated == Debt!Dated(rows)
           D == DOMAIN dated
           f == Debt!Liquidity(rows)
           later == Debt!Later(D)
           gross == [d \in later |-> Debt!Accrued(Debt!Previous(dated, d), dated[d])]
<1>1. Debt!Readable(rows) /\ f = Debt!IndexOf(dated, gross)
  BY DEF Debt!Liquidity
<1>2. /\ D = {rows[i].day : i \in DOMAIN rows} /\ IsFiniteSet(D) /\ D \subseteq Int
      /\ \A i \in DOMAIN rows : dated[rows[i].day] = rows[i]
  BY <1>1, RowsByDay
<1>3. f = [d \in D |-> IF d \in later THEN gross[d] ELSE Debt!One]
  BY <1>1 DEF Debt!IndexOf
<1> HIDE DEF dated, f
<1>4. \A e \in D : f[e] = IF e \in later THEN Debt!Accrued(dated[Debt!Latest(Debt!Earlier(D, e))], dated[e]) ELSE Debt!One
  BY <1>3 DEF Debt!Previous
<1>5. DOMAIN f = D /\ Indexed(f)
  BY <1>2, <1>3 DEF Indexed
<1> HIDE DEF D
<1> QED BY <1>2, <1>4, <1>5 DEF D, dated, f

\* No rate of a day, or of a later one, is in the index of that day.
LEMMA RatesOfThePastOnly ==
  ASSUME NEW rows \in Seq(LiquidityRows), NEW other
  PROVE  Debt!RatesOfThePast(rows, other)
<1> SUFFICES ASSUME NEW i \in DOMAIN rows
             PROVE  LET changed == [j \in DOMAIN rows |-> IF rows[j].day >= rows[i].day
                                                          THEN [rows[j] EXCEPT !.rate = other] ELSE rows[j]]
                        index == Debt!Liquidity(rows)
                    IN (index # Refused /\ Debt!Liquidity(changed) # Refused) =>
                         \A d, e \in DOMAIN index : e <= rows[i].day =>
                           Debt!Growth(Debt!Liquidity(changed), d, e) = Debt!Growth(index, d, e)
  BY DEF Debt!RatesOfThePast
<1> DEFINE changed == [j \in DOMAIN rows |-> IF rows[j].day >= rows[i].day
                                             THEN [rows[j] EXCEPT !.rate = other] ELSE rows[j]]
           f == Debt!Liquidity(rows)
           g == Debt!Liquidity(changed)
           dated == Debt!Dated(rows)
           others == Debt!Dated(changed)
           D == DOMAIN dated
<1>1. /\ Len(rows) \in Nat /\ DOMAIN rows = 1..Len(rows)
      /\ \A j \in DOMAIN rows : rows[j] \in LiquidityRows /\ rows[j].day \in Int
  <2>1. \A r \in LiquidityRows : r.day \in Int
    BY DEF LiquidityRows
  <2> QED BY <2>1
<1>2. DOMAIN changed = DOMAIN rows /\ Len(changed) = Len(rows)
  <2>1. DOMAIN changed = 1..Len(rows)
    BY <1>1
  <2> HIDE DEF changed
  <2> QED BY <1>1, <2>1
<1>3. \A j \in DOMAIN rows : changed[j].day = rows[j].day /\ (rows[j].day < rows[i].day => changed[j] = rows[j])
  <2> SUFFICES ASSUME NEW j \in DOMAIN rows
               PROVE  changed[j].day = rows[j].day /\ (rows[j].day < rows[i].day => changed[j] = rows[j])
    OBVIOUS
  <2>1. [rows[j] EXCEPT !.rate = other].day = rows[j].day
    BY <1>1 DEF LiquidityRows
  <2>2. changed[j] = IF rows[j].day >= rows[i].day THEN [rows[j] EXCEPT !.rate = other] ELSE rows[j]
    OBVIOUS
  <2>3. rows[j].day < rows[i].day => ~(rows[j].day >= rows[i].day)
    BY <1>1
  <2> QED BY <2>1, <2>2, <2>3
<1> HIDE DEF changed
<1> SUFFICES ASSUME f # Refused, g # Refused, NEW d \in DOMAIN f, NEW e \in DOMAIN f, e <= rows[i].day
             PROVE  Debt!Growth(g, d, e) = Debt!Growth(f, d, e)
  BY DEF changed
<1>4. /\ D = {rows[j].day : j \in DOMAIN rows} /\ IsFiniteSet(D) /\ D \subseteq Int
      /\ \A j \in DOMAIN rows : dated[rows[j].day] = rows[j]
      /\ Indexed(f) /\ DOMAIN f = D
      /\ \A x \in D : f[x] = IF x \in Debt!Later(D)
                             THEN Debt!Accrued(dated[Debt!Latest(Debt!Earlier(D, x))], dated[x]) ELSE Debt!One
  BY <1>1, LiquidityIs
<1>5. /\ DOMAIN others = {changed[j].day : j \in DOMAIN changed}
      /\ \A j \in DOMAIN changed : others[changed[j].day] = changed[j]
      /\ Indexed(g) /\ DOMAIN g = DOMAIN others
      /\ \A x \in DOMAIN others :
           g[x] = IF x \in Debt!Later(DOMAIN others)
                  THEN Debt!Accrued(others[Debt!Latest(Debt!Earlier(DOMAIN others, x))], others[x]) ELSE Debt!One
  <2>1. /\ Len(changed) \in Nat /\ DOMAIN changed = 1..Len(changed)
        /\ \A j \in DOMAIN changed : changed[j].day \in Int
    BY <1>1, <1>2, <1>3
  <2> QED BY <2>1, LiquidityIs
<1> HIDE DEF f, g, dated, others
<1>6. DOMAIN others = D
  <2>1. {changed[j].day : j \in DOMAIN changed} = {rows[j].day : j \in DOMAIN rows}
    BY <1>2, <1>3
  <2>2. DOMAIN others = {changed[j].day : j \in DOMAIN changed}
    BY <1>5
  <2>3. D = {rows[j].day : j \in DOMAIN rows}
    BY <1>4
  <2> QED BY <2>1, <2>2, <2>3
<1>7. \A x \in D : others[x].day = dated[x].day /\ (x < rows[i].day => others[x] = dated[x])
  <2> SUFFICES ASSUME NEW x \in D
               PROVE  others[x].day = dated[x].day /\ (x < rows[i].day => others[x] = dated[x])
    OBVIOUS
  <2>1. PICK j \in DOMAIN rows : rows[j].day = x
    BY <1>4
  <2>2. dated[x] = rows[j] /\ others[x] = changed[j]
    BY <1>2, <1>3, <1>4, <1>5, <2>1
  <2> QED BY <1>3, <2>1, <2>2
<1>8. ASSUME NEW x \in D, x <= rows[i].day
      PROVE  g[x] = f[x]
  <2>1. CASE x \in Debt!Later(D)
    <3> DEFINE b == Debt!Latest(Debt!Earlier(D, x))
    <3>1. PICK c \in D : c < x
      BY <2>1 DEF Debt!Later, Debt!Earlier
    <3>2. b \in D /\ b < x
      BY <1>4, <3>1, DayBefore
    <3>3. f[x] = Debt!Accrued(dated[b], dated[x]) /\ g[x] = Debt!Accrued(others[b], others[x])
      BY <1>4, <1>5, <1>6, <2>1
    <3> HIDE DEF b
    <3>4. b < rows[i].day
      BY <1>1, <1>4, <1>8, <3>2
    <3>5. others[b] = dated[b] /\ others[x].day = dated[x].day
      BY <1>7, <3>2, <3>4
    <3>6. Debt!Accrued(dated[b], others[x]) = Debt!Accrued(dated[b], dated[x])
      BY <3>5 DEF Debt!Accrued
    <3> QED BY <3>3, <3>5, <3>6
  <2>2. CASE x \notin Debt!Later(D)
    BY <1>4, <1>5, <1>6, <2>2
  <2> QED BY <2>1, <2>2
<1> DEFINE S == {x \in D : d < x /\ x <= e}
<1>9. Debt!Growth(f, d, e) = Debt!Chained(f, S) /\ Debt!Growth(g, d, e) = Debt!Chained(g, S)
  BY <1>4, <1>5, <1>6 DEF Debt!Growth
<1>10. \A x \in S : f[x] = g[x]
  <2>1. \A x \in S : x \in D /\ x <= rows[i].day
    BY <1>1, <1>4
  <2> QED BY <1>8, <2>1
<1>11. S \in SUBSET DOMAIN f /\ S \in SUBSET DOMAIN g
  BY <1>4, <1>5, <1>6
<1> HIDE DEF S
<1> QED BY <1>4, <1>5, <1>9, <1>10, <1>11, ChainsAgree

-----------------------------------------------------------------------------
\* For any files of CETES, of a bond and of a vehicle, and any days of the market.
THEOREM SeriesAreKept == EstimatesSpec => []SeriesFollowTheirTerms
<1>1. ASSUME EstimatesInv
      PROVE  SeriesFollowTheirTerms
  <2>1. ASSUME Answered("cetes")
        PROVE  Debt!PaysNominal(input.rows, input.market, input.period)
    <3>1. input \in CetesFiles
      BY <1>1, <2>1 DEF EstimatesInv, Questions, Answered
    <3>2. input.rows \in Seq(CetesRows) /\ input.period \in Int \X Int
      BY <3>1, SeriesAssumption
    <3> QED BY <3>2, NominalIsPaid
  <2>2. ASSUME Answered("bond")
        PROVE  Debt!Reinvests(input.rows, input.maturity)
    <3>1. input \in BondFiles
      BY <1>1, <2>2 DEF EstimatesInv, Questions, Answered
    <3>2. input.rows \in Seq(BondRows)
      BY <3>1, SeriesAssumption
    <3> QED BY <3>2, CouponsAreReinvested
  <2>3. ASSUME Answered("liquidity")
        PROVE  Debt!RatesOfThePast(input.rows, input.other)
    <3>1. input \in LiquidityFiles
      BY <1>1, <2>3 DEF EstimatesInv, Questions, Answered
    <3>2. input.rows \in Seq(LiquidityRows)
      BY <3>1, SeriesAssumption
    <3> QED BY <3>2, RatesOfThePastOnly
  <2> QED BY <2>1, <2>2, <2>3 DEF SeriesFollowTheirTerms
<1> QED BY <1>1, EstimatesAreAnswers, PTL

-----------------------------------------------------------------------------
(* Part 2: the studies of a history. *)

Past == [returns : Seq(Returns), other : Seq(Grosses), fraction : Int,
         current : Studies!Weights \cup {Blank}, cost : Nat, cadence : Nat \ {0}]

\* The rows of a history, those of estimation and those of evaluation.
LEMMA RowsOfAHistory ==
  ASSUME NEW x \in Past, Studies!Admitted(x)
  PROVE  /\ Len(x.returns) \in Nat /\ DOMAIN x.returns = 1..Len(x.returns)
         /\ Studies!Training(x) \in Nat /\ Studies!Evaluated(x) \in Nat
         /\ Studies!Training(x) + Studies!Evaluated(x) = Len(x.returns)
         /\ \A p \in 1..Studies!Evaluated(x) :
              /\ Studies!Training(x) + p \in DOMAIN x.returns
              /\ Studies!Evaluation(x, p) = x.returns[Studies!Training(x) + p]
              /\ Studies!Evaluation(x, p).day \in Int
         /\ \A p \in 2..Studies!Evaluated(x) : Studies!Evaluation(x, p - 1).day < Studies!Evaluation(x, p).day
<1>1. /\ x.returns \in Seq(Returns) /\ x.fraction \in Int
      /\ Len(x.returns) \in Nat /\ DOMAIN x.returns = 1..Len(x.returns)
      /\ \A i \in DOMAIN x.returns : x.returns[i] \in Returns /\ x.returns[i].day \in Int
  <2>1. x.returns \in Seq(Returns) /\ x.fraction \in Int
    BY DEF Past
  <2>2. \A r \in Returns : r.day \in Int
    BY DEF Returns
  <2> QED BY <2>1, <2>2
<1>2. /\ x.fraction \in 5..9 /\ \A i \in 2..Len(x.returns) : x.returns[i - 1].day < x.returns[i].day
      /\ Studies!Evaluated(x) >= Enough
  BY DEF Studies!Admitted
<1> DEFINE n == Len(x.returns)
           k == n * x.fraction
<1>3. k \in Nat /\ k <= n * 10
  <2>1. x.fraction \in Nat /\ x.fraction <= 10 /\ 10 \in Nat
    BY <1>2
  <2> QED BY <1>1, <2>1, TimesMonotone
<1>4. k \div 10 \in Nat /\ k \div 10 <= n
  <2> HIDE DEF k
  <2> QED BY <1>1, <1>3
<1>5. Studies!Training(x) = k \div 10 /\ Studies!Evaluated(x) = n - Studies!Training(x)
  BY DEF Studies!Training, Studies!Evaluated
<1> HIDE DEF k
<1>6. Studies!Training(x) \in Nat /\ Studies!Evaluated(x) \in Nat /\ Studies!Training(x) + Studies!Evaluated(x) = n
  BY <1>1, <1>4, <1>5
<1>7. ASSUME NEW p \in 1..Studies!Evaluated(x)
      PROVE  /\ Studies!Training(x) + p \in DOMAIN x.returns
             /\ Studies!Evaluation(x, p) = x.returns[Studies!Training(x) + p]
             /\ Studies!Evaluation(x, p).day \in Int
  <2>1. Studies!Training(x) + p \in DOMAIN x.returns
    BY <1>1, <1>6
  <2> QED BY <1>1, <2>1 DEF Studies!Evaluation
<1>8. ASSUME NEW p \in 2..Studies!Evaluated(x)
      PROVE  Studies!Evaluation(x, p - 1).day < Studies!Evaluation(x, p).day
  <2>1. /\ Studies!Training(x) + p \in 2..Len(x.returns)
        /\ (Studies!Training(x) + p) - 1 = Studies!Training(x) + (p - 1)
    BY <1>1, <1>6
  <2>2. x.returns[(Studies!Training(x) + p) - 1].day < x.returns[Studies!Training(x) + p].day
    BY <1>2, <2>1
  <2> QED BY <2>1, <2>2 DEF Studies!Evaluation
<1> QED BY <1>1, <1>6, <1>7, <1>8

\* The function that walks exists.
Walks(x, n, W) == W = [p \in 0..n |-> IF p = 0 THEN Studies!Start(x) ELSE Studies!Reviewed(x, W[p - 1], p)]

LEMMA WalksExist ==
  ASSUME NEW x, NEW m \in Nat
  PROVE  \E W : Walks(x, m, W)
<1> DEFINE T == {n \in Nat : \E W : Walks(x, n, W)}
<1>1. 0 \in T
  <2>1. Walks(x, 0, [p \in 0..0 |-> Studies!Start(x)])
    BY DEF Walks
  <2> QED BY <2>1
<1>2. ASSUME NEW n \in T
      PROVE  n + 1 \in T
  <2>1. n \in Nat /\ \E W : Walks(x, n, W)
    OBVIOUS
  <2>2. PICK W : Walks(x, n, W)
    BY <2>1
  <2> DEFINE H == [p \in 0..(n + 1) |-> IF p = 0 THEN Studies!Start(x) ELSE Studies!Reviewed(x, W[p - 1], p)]
  <2>3. \A p \in 0..n : H[p] = W[p]
    BY <2>1, <2>2 DEF Walks
  <2>4. \A p \in 0..(n + 1) : p # 0 => p - 1 \in 0..n
    BY <2>1
  <2>5. \A p \in 0..(n + 1) : p # 0 => Studies!Reviewed(x, W[p - 1], p) = Studies!Reviewed(x, H[p - 1], p)
    <3> HIDE DEF H
    <3> QED BY <2>3, <2>4
  <2>6. Walks(x, n + 1, H)
    BY <2>5 DEF Walks
  <2> HIDE DEF H
  <2> QED BY <2>1, <2>6
<1>3. T = Nat
  BY <1>1, <1>2, NatSetInduction
<1> QED BY <1>3

\* The walk, from its start and review by review.
LEMMA WalkUnfolds ==
  ASSUME NEW x \in Past, Studies!WalkForward(x) # Refused
  PROVE  /\ Studies!Admitted(x)
         /\ Studies!WalkForward(x)[0] = Studies!Start(x)
         /\ \A p \in 1..Studies!Evaluated(x) :
              Studies!WalkForward(x)[p] = Studies!Reviewed(x, Studies!WalkForward(x)[p - 1], p)
<1>1. Studies!Admitted(x)
  BY DEF Studies!WalkForward
<1> DEFINE n == Studies!Evaluated(x)
           W == CHOOSE f : Walks(x, n, f)
<1>2. n \in Nat
  BY <1>1, RowsOfAHistory
<1>3. Studies!WalkForward(x) = W
  BY <1>1 DEF Studies!WalkForward, Walks
<1>4. \E f : Walks(x, n, f)
  BY <1>2, WalksExist
<1>5. Walks(x, n, W)
  BY <1>4
<1> HIDE DEF W
<1>6. W[0] = Studies!Start(x) /\ \A p \in 1..n : W[p] = Studies!Reviewed(x, W[p - 1], p)
  BY <1>2, <1>5 DEF Walks
<1> QED BY <1>1, <1>3, <1>6

\* The dates of a plan, up to one of them.
Dates(first, c, n, D) == D = [k \in 0..n |-> IF k = 0 THEN first ELSE Studies!Later(D[k - 1], c)]

LEMMA DatesExist ==
  ASSUME NEW first, NEW c, NEW m \in Nat
  PROVE  \E D : Dates(first, c, m, D)
<1> DEFINE T == {n \in Nat : \E D : Dates(first, c, n, D)}
<1>1. 0 \in T
  <2>1. Dates(first, c, 0, [k \in 0..0 |-> first])
    BY DEF Dates
  <2> QED BY <2>1
<1>2. ASSUME NEW n \in T
      PROVE  n + 1 \in T
  <2>1. n \in Nat /\ \E D : Dates(first, c, n, D)
    OBVIOUS
  <2>2. PICK D : Dates(first, c, n, D)
    BY <2>1
  <2> DEFINE H == [k \in 0..(n + 1) |-> IF k = 0 THEN first ELSE Studies!Later(D[k - 1], c)]
  <2>3. \A k \in 0..n : H[k] = D[k]
    BY <2>1, <2>2 DEF Dates
  <2>4. \A k \in 0..(n + 1) : k # 0 => k - 1 \in 0..n
    BY <2>1
  <2>5. \A k \in 0..(n + 1) : k # 0 => Studies!Later(D[k - 1], c) = Studies!Later(H[k - 1], c)
    <3> HIDE DEF H
    <3> QED BY <2>3, <2>4
  <2>6. Dates(first, c, n + 1, H)
    BY <2>5 DEF Dates
  <2> HIDE DEF H
  <2> QED BY <2>1, <2>6
<1>3. T = Nat
  BY <1>1, <1>2, NatSetInduction
<1> QED BY <1>3

LEMMA DatesAgree ==
  ASSUME NEW first, NEW c, NEW m \in Nat, NEW n \in Nat, NEW D, NEW H,
         Dates(first, c, m, D), Dates(first, c, n, H)
  PROVE  \A k \in Nat : k <= m /\ k <= n => D[k] = H[k]
<1> DEFINE T == {k \in Nat : k <= m /\ k <= n => D[k] = H[k]}
<1>1. 0 \in T
  BY DEF Dates
<1>2. ASSUME NEW k \in T
      PROVE  k + 1 \in T
  <2> SUFFICES ASSUME k + 1 <= m, k + 1 <= n PROVE D[k + 1] = H[k + 1]
    OBVIOUS
  <2>1. k \in Nat /\ k + 1 \in 0..m /\ k + 1 \in 0..n /\ k + 1 # 0 /\ (k + 1) - 1 = k /\ D[k] = H[k]
    OBVIOUS
  <2>2. D[k + 1] = Studies!Later(D[(k + 1) - 1], c) /\ H[k + 1] = Studies!Later(H[(k + 1) - 1], c)
    BY <2>1 DEF Dates
  <2> QED BY <2>1, <2>2
<1>3. T = Nat
  BY <1>1, <1>2, NatSetInduction
<1> QED BY <1>3

\* The plan, from its first date and each one from the one before.
LEMMA PlanUnfolds ==
  ASSUME NEW first, NEW c
  PROVE  /\ Studies!Planned(first, c)[0] = first
         /\ \A k \in Nat : Studies!Planned(first, c)[k + 1] = Studies!Later(Studies!Planned(first, c)[k], c)
<1> DEFINE part(n) == CHOOSE D : Dates(first, c, n, D)
           F == [k \in Nat |-> part(k)[k]]
           G == CHOOSE f : f = [k \in Nat |-> IF k = 0 THEN first ELSE Studies!Later(f[k - 1], c)]
<1>1. \A n \in Nat : Dates(first, c, n, part(n))
  BY DatesExist
<1> HIDE DEF part
<1>2. ASSUME NEW k \in Nat
      PROVE  F[k] = IF k = 0 THEN first ELSE Studies!Later(F[k - 1], c)
  <2>1. Dates(first, c, k, part(k)) /\ k \in 0..k
    BY <1>1
  <2>2. CASE k = 0
    BY <2>1, <2>2 DEF Dates
  <2>3. CASE k # 0
    <3>1. k - 1 \in Nat /\ k - 1 <= k /\ k - 1 <= k - 1
      BY <2>3
    <3>2. part(k)[k - 1] = part(k - 1)[k - 1]
      BY <1>1, <3>1, DatesAgree
    <3>3. part(k)[k] = Studies!Later(part(k)[k - 1], c)
      BY <2>1, <2>3 DEF Dates
    <3>4. F[k] = part(k)[k] /\ F[k - 1] = part(k - 1)[k - 1]
      BY <3>1
    <3> HIDE DEF F
    <3> QED BY <2>3, <3>2, <3>3, <3>4
  <2> QED BY <2>2, <2>3
<1>3. F = [k \in Nat |-> IF k = 0 THEN first ELSE Studies!Later(F[k - 1], c)]
  <2>1. F = [k \in Nat |-> F[k]]
    OBVIOUS
  <2> HIDE DEF F
  <2> QED BY <1>2, <2>1
<1> HIDE DEF F
<1>4. G = [k \in Nat |-> IF k = 0 THEN first ELSE Studies!Later(G[k - 1], c)]
  BY <1>3
<1>5. Studies!Planned(first, c) = G
  BY DEF Studies!Planned
<1> HIDE DEF G
<1>6. G[0] = first
  BY <1>4
<1>7. ASSUME NEW k \in Nat
      PROVE  G[k + 1] = Studies!Later(G[k], c)
  <2>1. k + 1 \in Nat /\ k + 1 # 0 /\ (k + 1) - 1 = k
    OBVIOUS
  <2>2. G[k + 1] = IF k + 1 = 0 THEN first ELSE Studies!Later(G[(k + 1) - 1], c)
    BY <1>4, <2>1
  <2> QED BY <2>1, <2>2
<1> QED BY <1>5, <1>6, <1>7

\* Some months later is that many months later, whatever the day becomes.
LEMMA LaterIs ==
  ASSUME NEW date \in Int, NEW n \in Nat \ {0}
  PROVE  /\ Studies!Later(date, n) \in Int /\ date < Studies!Later(date, n)
         /\ Studies!MonthOf(Studies!Later(date, n)) = Studies!MonthOf(date) + n
<1> DEFINE m == date \div 31
           r == date % 31
           days == Studies!MonthDays(m + n)
           cut == IF r < days THEN r ELSE days - 1
<1>1. m \in Int /\ r \in 0..30 /\ date = 31 * m + r
  OBVIOUS
<1>2. days \in 28..31
  BY DEF Studies!MonthDays
<1>3. Studies!Later(date, n) = 31 * (m + n) + cut
  BY DEF Studies!Later, Studies!MonthOf
<1> HIDE DEF m, r, days
<1>4. cut \in 0..30
  BY <1>1, <1>2
<1> HIDE DEF cut
<1>5. (31 * (m + n) + cut) \div 31 = m + n
  BY <1>1, <1>4
<1>6. Studies!MonthOf(date) = m
  BY DEF Studies!MonthOf, m
<1>7. Studies!MonthOf(Studies!Later(date, n)) = m + n
  BY <1>3, <1>5 DEF Studies!MonthOf
<1> QED BY <1>1, <1>3, <1>4, <1>6, <1>7

\* A date before another is of its month or of one before.
LEMMA MonthsFollow ==
  ASSUME NEW d \in Int, NEW e \in Int, d <= e
  PROVE  Studies!MonthOf(d) \in Int /\ Studies!MonthOf(e) \in Int /\ Studies!MonthOf(d) <= Studies!MonthOf(e)
BY DEF Studies!MonthOf

\* The dates of a plan follow one another, and pass a month at least each time.
LEMMA PlanGrows ==
  ASSUME NEW first \in Int, NEW c \in Nat \ {0}, NEW n \in Nat
  PROVE  LET plan == Studies!Planned(first, c)
         IN /\ plan[n] \in Int /\ Studies!MonthOf(plan[n]) >= Studies!MonthOf(first) + n
            /\ plan[n] < plan[n + 1] /\ \A k \in Nat : k < n => plan[k] < plan[n]
<1> DEFINE plan == Studies!Planned(first, c)
           month(d) == Studies!MonthOf(d)
           T == {k \in Nat : plan[k] \in Int /\ month(plan[k]) \in Int /\ month(plan[k]) >= month(first) + k}
           S == {i \in Nat : \A k \in Nat : k < i => plan[k] < plan[i]}
<1>1. plan[0] = first /\ month(first) \in Int
  BY PlanUnfolds, MonthsFollow
<1>2. \A k \in Nat : plan[k + 1] = Studies!Later(plan[k], c)
  BY PlanUnfolds
<1> HIDE DEF plan, month
<1>3. 0 \in T
  BY <1>1
<1>4. ASSUME NEW k \in T
      PROVE  k + 1 \in T /\ plan[k] < plan[k + 1]
  <2>1. k \in Nat /\ plan[k] \in Int /\ month(plan[k]) \in Int /\ month(plan[k]) >= month(first) + k
    OBVIOUS
  <2>2. plan[k + 1] \in Int /\ plan[k] < plan[k + 1] /\ month(plan[k + 1]) = month(plan[k]) + c
    BY <1>2, <2>1, LaterIs DEF month
  <2> QED BY <1>1, <2>1, <2>2
<1>5. T = Nat
  <2> HIDE DEF T
  <2>1. \A k \in T : k + 1 \in T
    BY <1>4
  <2>2. T \subseteq Nat
    BY DEF T
  <2> QED BY <1>3, <2>1, <2>2, NatSetInduction
<1>6. \A k \in Nat : /\ plan[k] \in Int /\ month(plan[k]) >= month(first) + k
                     /\ plan[k] < plan[k + 1]
  BY <1>4, <1>5
<1>7. 0 \in S
  OBVIOUS
<1>8. ASSUME NEW i \in S
      PROVE  i + 1 \in S
  <2> SUFFICES ASSUME NEW k \in Nat, k < i + 1 PROVE plan[k] < plan[i + 1]
    OBVIOUS
  <2>1. i \in Nat /\ (k < i => plan[k] < plan[i]) /\ (k = i \/ k < i)
    OBVIOUS
  <2>2. plan[k] \in Int /\ plan[i] \in Int /\ plan[i + 1] \in Int /\ plan[i] < plan[i + 1]
    BY <1>6, <2>1
  <2> QED BY <2>1, <2>2
<1>9. S = Nat
  BY <1>7, <1>8, NatSetInduction
<1> QED BY <1>6, <1>9 DEF plan, month

\* The plan from one of its dates is the rest of the plan.
LEMMA PlanGoesOn ==
  ASSUME NEW first, NEW c, NEW K \in Nat
  PROVE  \A n \in Nat : Studies!Planned(Studies!Planned(first, c)[K], c)[n] = Studies!Planned(first, c)[K + n]
<1> DEFINE plan == Studies!Planned(first, c)
           rest == Studies!Planned(plan[K], c)
           T == {n \in Nat : rest[n] = plan[K + n]}
<1>1. /\ rest[0] = plan[K] /\ \A k \in Nat : rest[k + 1] = Studies!Later(rest[k], c)
      /\ \A k \in Nat : plan[k + 1] = Studies!Later(plan[k], c)
  BY PlanUnfolds
<1> HIDE DEF plan, rest
<1>2. 0 \in T
  BY <1>1
<1>3. ASSUME NEW n \in T
      PROVE  n + 1 \in T
  <2>1. n \in Nat /\ rest[n] = plan[K + n] /\ K + n \in Nat /\ K + (n + 1) = (K + n) + 1
    OBVIOUS
  <2>2. rest[n + 1] = Studies!Later(rest[n], c) /\ plan[(K + n) + 1] = Studies!Later(plan[K + n], c)
    BY <1>1, <2>1
  <2> QED BY <2>1, <2>2
<1>4. T = Nat
  BY <1>2, <1>3, NatSetInduction
<1> QED BY <1>4 DEF plan, rest

\* The least of the naturals with a property of a function.
LEMMA FirstAfter ==
  ASSUME NEW f, NEW day \in Int, NEW n \in Nat, \A k \in 0..n : f[k] \in Int, f[n] > day
  PROVE  \E k \in 0..n : f[k] > day /\ \A j \in 0..(k - 1) : f[j] <= day
<1> DEFINE T == {m \in Nat : m <= n => \/ \A j \in 0..m : f[j] <= day
                                      \/ \E k \in 0..m : f[k] > day /\ \A j \in 0..(k - 1) : f[j] <= day}
<1>1. 0 \in T
  <2>1. 0 \in 0..n /\ f[0] \in Int
    OBVIOUS
  <2>2. CASE f[0] <= day
    BY <2>2
  <2>3. CASE f[0] > day
    BY <2>3
  <2> QED BY <2>1, <2>2, <2>3
<1>2. ASSUME NEW m \in T
      PROVE  m + 1 \in T
  <2> SUFFICES ASSUME m + 1 <= n
               PROVE  \/ \A j \in 0..(m + 1) : f[j] <= day
                      \/ \E k \in 0..(m + 1) : f[k] > day /\ \A j \in 0..(k - 1) : f[j] <= day
    OBVIOUS
  <2>1. m \in Nat /\ m <= n /\ (\A j \in 0..(m + 1) : j \in 0..m \/ j = m + 1) /\ 0..m \subseteq 0..(m + 1)
        /\ m + 1 \in 0..n /\ m + 1 \in 0..(m + 1) /\ (m + 1) - 1 = m
    OBVIOUS
  <2>2. CASE \A j \in 0..m : f[j] <= day
    <3>1. CASE f[m + 1] <= day
      BY <2>1, <2>2, <3>1
    <3>2. CASE f[m + 1] > day
      BY <2>1, <2>2, <3>2
    <3> QED BY <2>1, <3>1, <3>2
  <2>3. CASE \E k \in 0..m : f[k] > day /\ \A j \in 0..(k - 1) : f[j] <= day
    BY <2>1, <2>3
  <2> QED BY <2>1, <2>2, <2>3
<1>3. T = Nat
  BY <1>1, <1>2, NatSetInduction
<1>4. n \in T
  <2> HIDE DEF T
  <2> QED BY <1>3
<1>5. n \in 0..n /\ ~(f[n] <= day)
  OBVIOUS
<1> QED BY <1>4, <1>5

\* The next planned date is the first of the rest of the plan after the day.
LEMMA NextIsTheFirst ==
  ASSUME NEW first \in Int, NEW c \in Nat \ {0}, NEW K \in Nat, NEW day \in Int,
         Studies!Planned(first, c)[K] <= day
  PROVE  LET plan == Studies!Planned(first, c)
         IN \E k \in Nat \ {0} : /\ Studies!NextReview(plan[K], day, c) = plan[K + k]
                                  /\ plan[(K + k) - 1] <= day /\ day < plan[K + k]
<1> DEFINE plan == Studies!Planned(first, c)
           next == plan[K]
           rest == Studies!Planned(next, c)
           month(d) == Studies!MonthOf(d)
           n == month(day) - month(next) + 1
           after(k) == rest[k] > day /\ \A j \in 0..(k - 1) : rest[j] <= day
           q == CHOOSE k \in 0..n : after(k)
<1>0. plan[K] <= day
  OBVIOUS
<1>1. next \in Int
  BY PlanGrows
<1>2. month(next) \in Int /\ month(day) \in Int /\ month(next) <= month(day)
  BY <1>1, MonthsFollow
<1>3. n \in Nat
  BY <1>2
<1>4. \A k \in Nat : rest[k] \in Int /\ month(rest[k]) >= month(next) + k
  BY <1>1, PlanGrows
<1>5. \A k \in Nat : rest[k] = plan[K + k]
  BY PlanGoesOn
<1>6. Studies!NextReview(next, day, c) = rest[q]
  BY DEF Studies!NextReview
<1> HIDE DEF plan, rest
<1>7. rest[n] > day
  <2> SUFFICES ASSUME rest[n] <= day PROVE FALSE
    BY <1>3, <1>4
  <2>1. rest[n] \in Int /\ month(rest[n]) >= month(next) + n
    BY <1>3, <1>4
  <2>2. month(rest[n]) \in Int /\ month(rest[n]) <= month(day)
    BY <2>1, MonthsFollow
  <2> HIDE DEF month, next
  <2> QED BY <1>2, <2>1, <2>2
<1> HIDE DEF n
<1>8. \E k \in 0..n : after(k)
  BY <1>3, <1>4, <1>7, FirstAfter
<1> HIDE DEF after
<1>9. q \in 0..n /\ after(q)
  BY <1>8
<1> HIDE DEF q
<1>10. q \in Nat /\ rest[q] > day /\ \A j \in 0..(q - 1) : rest[j] <= day
  BY <1>3, <1>9 DEF after
<1>11. q # 0
  <2>1. rest[0] = plan[K + 0] /\ K + 0 = K /\ rest[0] \in Int
    BY <1>4, <1>5
  <2> QED BY <1>0, <1>10, <2>1
<1>12. q - 1 \in 0..(q - 1) /\ q - 1 \in Nat /\ (K + q) - 1 = K + (q - 1)
  BY <1>10, <1>11
<1>13. rest[q - 1] <= day /\ rest[q - 1] = plan[K + (q - 1)] /\ rest[q] = plan[K + q]
  BY <1>5, <1>10, <1>12
<1>14. /\ q \in Nat \ {0} /\ Studies!NextReview(next, day, c) = plan[K + q]
       /\ plan[(K + q) - 1] <= day /\ day < plan[K + q]
  BY <1>4, <1>6, <1>10, <1>11, <1>12, <1>13
<1> QED BY <1>14 DEF next, plan

\* What a step of the walk does to its plan.
LEMMA ReviewIs ==
  ASSUME NEW x, NEW s, NEW p \in Nat
  PROVE  LET day == Studies!Evaluation(x, p).day
             new == Studies!Reviewed(x, s, p)
         IN /\ new.review <=> (p = 1 \/ day >= s.next)
            /\ new.next = IF new.review /\ p > 1 THEN Studies!NextReview(s.next, day, x.cadence) ELSE s.next
BY DEF Studies!Reviewed

\* Between two reviews: the next date is one of the plan, the first after the day.
LEMMA PlanIsKept ==
  ASSUME NEW x \in Past, Studies!WalkForward(x) # Refused
  PROVE  \A p \in 1..Studies!Evaluated(x) :
           \E K \in Nat \ {0} :
             LET plan == Studies!Planned(Studies!Evaluation(x, 1).day, x.cadence)
             IN /\ Studies!WalkForward(x)[p].next = plan[K]
                /\ plan[K - 1] <= Studies!Evaluation(x, p).day /\ Studies!Evaluation(x, p).day < plan[K]
<1> DEFINE n == Studies!Evaluated(x)
           c == x.cadence
           day(p) == Studies!Evaluation(x, p).day
           W == Studies!WalkForward(x)
           plan == Studies!Planned(day(1), c)
           Good(p, K) == W[p].next = plan[K] /\ plan[K - 1] <= day(p) /\ day(p) < plan[K]
           T == {p \in Nat : p + 1 \in 1..n => \E K \in Nat \ {0} : Good(p + 1, K)}
<1>1. /\ Studies!Admitted(x) /\ W[0] = Studies!Start(x)
      /\ \A p \in 1..n : W[p] = Studies!Reviewed(x, W[p - 1], p)
  BY WalkUnfolds
<1>2. n \in Nat /\ (\A p \in 1..n : day(p) \in Int) /\ \A p \in 2..n : day(p - 1) < day(p)
  BY <1>1, RowsOfAHistory
<1>3. c \in Nat \ {0}
  BY DEF Past
<1>4. W[0].next = plan[1] /\ plan[0] = day(1)
  <2>1. plan[0] = day(1) /\ plan[0 + 1] = Studies!Later(plan[0], c) /\ 0 + 1 = 1
    BY PlanUnfolds
  <2>2. W[0].next = Studies!Later(day(1), c)
    BY <1>1 DEF Studies!Start
  <2> HIDE DEF plan, W, day, c
  <2> QED BY <2>1, <2>2
<1>5. \A p \in 1..n : /\ W[p].review <=> (p = 1 \/ day(p) >= W[p - 1].next)
                      /\ W[p].next = IF W[p].review /\ p > 1
                                     THEN Studies!NextReview(W[p - 1].next, day(p), c) ELSE W[p - 1].next
  <2> SUFFICES ASSUME NEW p \in 1..n
               PROVE  /\ W[p].review <=> (p = 1 \/ day(p) >= W[p - 1].next)
                      /\ W[p].next = IF W[p].review /\ p > 1
                                     THEN Studies!NextReview(W[p - 1].next, day(p), c) ELSE W[p - 1].next
    OBVIOUS
  <2>1. W[p] = Studies!Reviewed(x, W[p - 1], p) /\ p \in Nat
    BY <1>1, <1>2
  <2> QED BY <2>1, ReviewIs
<1> HIDE DEF plan, W, day, n, c
<1>6. 0 \in T
  <2>1. ASSUME 1 \in 1..n
        PROVE  Good(1, 1)
    <3>1. W[1].next = plan[1]
      BY <1>4, <1>5, <2>1
    <3>2. plan[0] < plan[0 + 1] /\ 0 + 1 = 1 /\ 1 - 1 = 0
      BY <1>2, <1>3, <2>1, PlanGrows DEF plan
    <3> HIDE DEF plan
    <3> QED BY <1>2, <1>4, <2>1, <3>1, <3>2
  <2> QED BY <2>1
<1>7. ASSUME NEW q \in T
      PROVE  q + 1 \in T
  <2> SUFFICES ASSUME q + 2 \in 1..n
               PROVE  \E K \in Nat \ {0} : Good(q + 2, K)
    OBVIOUS
  <2>1. q \in Nat /\ q + 1 \in 1..n /\ (q + 2) - 1 = q + 1 /\ q + 2 > 1 /\ q + 2 \in 2..n /\ q + 2 # 1
    BY <1>2
  <2>2. PICK K \in Nat \ {0} : Good(q + 1, K)
    BY <2>1
  <2>3. day(q + 1) < day(q + 2) /\ day(q + 1) \in Int /\ day(q + 2) \in Int /\ day(1) \in Int
    <3>1. day((q + 2) - 1) < day(q + 2)
      BY <1>2, <2>1
    <3>2. 1 \in 1..n
      BY <1>2, <2>1
    <3> QED BY <1>2, <2>1, <3>1, <3>2
  <2>4. W[q + 1].next = plan[K] /\ plan[K] \in Int /\ plan[K - 1] \in Int
    <3>1. K \in Nat /\ K - 1 \in Nat
      OBVIOUS
    <3>2. plan[K] \in Int /\ plan[K - 1] \in Int
      BY <1>3, <2>3, <3>1, PlanGrows DEF plan
    <3> QED BY <2>2, <3>2
  <2>5. /\ W[q + 2].review <=> day(q + 2) >= W[q + 1].next
        /\ W[q + 2].next = IF W[q + 2].review THEN Studies!NextReview(W[q + 1].next, day(q + 2), c) ELSE W[q + 1].next
    <3>1. /\ W[q + 2].review <=> (q + 2 = 1 \/ day(q + 2) >= W[(q + 2) - 1].next)
          /\ W[q + 2].next = IF W[q + 2].review /\ q + 2 > 1
                             THEN Studies!NextReview(W[(q + 2) - 1].next, day(q + 2), c) ELSE W[(q + 2) - 1].next
      BY <1>5, <2>1
    <3> QED BY <2>1, <3>1
  <2>6. CASE day(q + 2) >= W[q + 1].next
    <3>1. plan[K] <= day(q + 2)
      BY <2>3, <2>4, <2>6
    <3>2. PICK k \in Nat \ {0} : /\ Studies!NextReview(plan[K], day(q + 2), c) = plan[K + k]
                                 /\ plan[(K + k) - 1] <= day(q + 2) /\ day(q + 2) < plan[K + k]
      BY <1>3, <2>3, <3>1, NextIsTheFirst DEF plan
    <3>3. W[q + 2].next = plan[K + k] /\ K + k \in Nat \ {0}
      BY <2>4, <2>5, <2>6, <3>2
    <3> QED BY <3>2, <3>3
  <2>7. CASE ~(day(q + 2) >= W[q + 1].next)
    <3>1. W[q + 2].next = W[q + 1].next
      BY <2>5, <2>7
    <3>2. plan[K - 1] <= day(q + 2) /\ day(q + 2) < plan[K]
      BY <2>2, <2>3, <2>4, <2>7
    <3> QED BY <2>4, <3>1, <3>2
  <2> QED BY <2>6, <2>7
<1>8. T = Nat
  <2> HIDE DEF Good
  <2> QED BY <1>6, <1>7, NatSetInduction
<1>9. \A p \in 1..n : \E K \in Nat \ {0} : Good(p, K)
  <2> SUFFICES ASSUME NEW p \in 1..n
               PROVE  \E K \in Nat \ {0} : Good(p, K)
    OBVIOUS
  <2>1. p - 1 \in Nat /\ (p - 1) + 1 = p
    BY <1>2
  <2>2. p - 1 \in T
    <3> HIDE DEF T
    <3> QED BY <1>8, <2>1
  <2> HIDE DEF Good
  <2> QED BY <2>1, <2>2
<1> QED BY <1>9 DEF plan, W, day, n, c

\* The reviews are those of the plan.
LEMMA ReviewsArePlanned ==
  ASSUME NEW x \in Past
  PROVE  Studies!ReviewsAreAsPlanned(x)
<1> DEFINE n == Studies!Evaluated(x)
           c == x.cadence
           day(p) == Studies!Evaluation(x, p).day
           W == Studies!WalkForward(x)
           plan == Studies!Planned(day(1), c)
           months(p) == Studies!MonthOf(day(p)) - Studies!MonthOf(day(1))
<1> SUFFICES ASSUME W # Refused, NEW p \in 1..n
             PROVE  W[p].review <=>
                      p = 1 \/ \E k \in 1..months(p) : day(p - 1) < plan[k] /\ plan[k] <= day(p)
  BY DEF Studies!ReviewsAreAsPlanned
<1>1. /\ Studies!Admitted(x) /\ c \in Nat \ {0}
      /\ \A i \in 1..n : W[i] = Studies!Reviewed(x, W[i - 1], i)
  BY WalkUnfolds DEF Past
<1>2. n \in Nat /\ (\A i \in 1..n : day(i) \in Int) /\ \A i \in 2..n : day(i - 1) < day(i)
  BY <1>1, RowsOfAHistory
<1>3. W[p].review <=> (p = 1 \/ day(p) >= W[p - 1].next)
  <2>1. W[p] = Studies!Reviewed(x, W[p - 1], p) /\ p \in Nat
    BY <1>1, <1>2
  <2> QED BY <2>1, ReviewIs
<1>4. CASE p = 1
  BY <1>3, <1>4
<1>5. CASE p # 1
  <2>1. p - 1 \in 1..n /\ p \in 2..n /\ 1 \in 1..n
    BY <1>2, <1>5
  <2>2. PICK K \in Nat \ {0} : /\ W[p - 1].next = plan[K]
                               /\ plan[K - 1] <= day(p - 1) /\ day(p - 1) < plan[K]
    BY <2>1, PlanIsKept
  <2>3. day(p) \in Int /\ day(p - 1) \in Int /\ day(1) \in Int /\ (W[p].review <=> day(p) >= W[p - 1].next)
    BY <1>2, <1>3, <1>5, <2>1
  <2>4. K \in Nat /\ K - 1 \in Nat /\ (K - 1) + 1 = K
    OBVIOUS
  <2>5. \A k \in Nat : /\ plan[k] \in Int /\ Studies!MonthOf(plan[k]) >= Studies!MonthOf(day(1)) + k
                       /\ \A j \in Nat : j < k => plan[j] < plan[k]
    BY <1>1, <2>3, PlanGrows
  <2> HIDE DEF plan, W, day, n, c
  <2>6. ASSUME day(p) >= W[p - 1].next
        PROVE  \E k \in 1..months(p) : day(p - 1) < plan[k] /\ plan[k] <= day(p)
    <3>1. plan[K] <= day(p) /\ plan[K] \in Int
      BY <2>2, <2>3, <2>4, <2>5, <2>6
    <3>2. /\ Studies!MonthOf(plan[K]) <= Studies!MonthOf(day(p))
          /\ Studies!MonthOf(plan[K]) \in Int /\ Studies!MonthOf(day(p)) \in Int /\ Studies!MonthOf(day(1)) \in Int
      BY <2>3, <3>1, MonthsFollow
    <3>3. K \in 1..months(p)
      BY <2>4, <2>5, <3>2
    <3> QED BY <2>2, <3>1, <3>3
  <2>7. ASSUME NEW k \in 1..months(p), day(p - 1) < plan[k], plan[k] <= day(p)
        PROVE  day(p) >= W[p - 1].next
    <3>1. k \in Nat
      OBVIOUS
    <3>2. ~(k <= K - 1)
      <4> SUFFICES ASSUME k <= K - 1 PROVE FALSE
        OBVIOUS
      <4>1. k = K - 1 \/ k < K - 1
        BY <2>4, <3>1
      <4>2. plan[k] <= plan[K - 1] /\ plan[k] \in Int /\ plan[K - 1] \in Int
        BY <2>4, <2>5, <3>1, <4>1
      <4> QED BY <2>2, <2>3, <2>7, <4>2
    <3>3. K = k \/ K < k
      BY <2>4, <3>1, <3>2
    <3>4. plan[K] <= plan[k] /\ plan[k] \in Int /\ plan[K] \in Int
      BY <2>4, <2>5, <3>1, <3>3
    <3> QED BY <2>2, <2>3, <2>7, <3>4
  <2> QED BY <1>5, <2>3, <2>6, <2>7
<1> QED BY <1>4, <1>5

\* Other returns from a row on: the same days, and the same rows up to it.
LEMMA OtherReturns ==
  ASSUME NEW x \in Past, NEW i \in Int
  PROVE  LET y == Studies!Otherwise(x, i)
         IN /\ Len(y.returns) = Len(x.returns) /\ DOMAIN y.returns = DOMAIN x.returns
            /\ \A j \in DOMAIN x.returns : y.returns[j].day = x.returns[j].day
            /\ \A j \in DOMAIN x.returns : j <= i => y.returns[j] = x.returns[j]
            /\ y.fraction = x.fraction /\ y.current = x.current /\ y.cost = x.cost /\ y.cadence = x.cadence
<1> DEFINE rows == [j \in DOMAIN x.returns |->
                      IF j <= i THEN x.returns[j] ELSE [x.returns[j] EXCEPT !.gross = x.other[j]]]
           y == Studies!Otherwise(x, i)
<1>1. /\ x.returns \in Seq(Returns)
      /\ Len(x.returns) \in Nat /\ DOMAIN x.returns = 1..Len(x.returns)
      /\ \A j \in DOMAIN x.returns : x.returns[j] \in Returns
  <2>1. x.returns \in Seq(Returns)
    BY DEF Past
  <2> QED BY <2>1
<1>2. y = [x EXCEPT !.returns = rows]
  BY DEF Studies!Otherwise
<1>3. /\ y.returns = rows
      /\ y.fraction = x.fraction /\ y.current = x.current /\ y.cost = x.cost /\ y.cadence = x.cadence
  <2> HIDE DEF rows
  <2> QED BY <1>2 DEF Past
<1>4. DOMAIN rows = DOMAIN x.returns
  OBVIOUS
<1>5. Len(rows) = Len(x.returns)
  <2> HIDE DEF rows
  <2> QED BY <1>1, <1>4
<1>6. \A j \in DOMAIN x.returns : j <= i => rows[j] = x.returns[j]
  OBVIOUS
<1>7. \A j \in DOMAIN x.returns : rows[j].day = x.returns[j].day
  <2> SUFFICES ASSUME NEW j \in DOMAIN x.returns
               PROVE  rows[j].day = x.returns[j].day
    OBVIOUS
  <2>1. [x.returns[j] EXCEPT !.gross = x.other[j]].day = x.returns[j].day
    BY <1>1 DEF Returns
  <2>2. rows[j] = x.returns[j] \/ rows[j] = [x.returns[j] EXCEPT !.gross = x.other[j]]
    OBVIOUS
  <2> QED BY <2>1, <2>2
<1> HIDE DEF rows, y
<1> QED BY <1>3, <1>4, <1>5, <1>6, <1>7 DEF y

\* What two histories with the same rows up to one have in common.
LEMMA SameUpTo ==
  ASSUME NEW x \in Past, NEW i \in Int
  PROVE  LET y == Studies!Otherwise(x, i)
         IN /\ Studies!Training(y) = Studies!Training(x) /\ Studies!Evaluated(y) = Studies!Evaluated(x)
            /\ Studies!Admitted(y) <=> Studies!Admitted(x)
            /\ Studies!Scenarios(y) = Studies!Scenarios(x)
            /\ \A h, s : Studies!Allocation(y, h, s) = Studies!Allocation(x, h, s)
            /\ \A h, w : Studies!Rebalanced(y, h, w) = Studies!Rebalanced(x, h, w)
            /\ \A w : Studies!Before(y, w) = Studies!Before(x, w)
            /\ \A k \in 0..i : k <= Len(x.returns) => SubSeq(y.returns, 1, k) = SubSeq(x.returns, 1, k)
<1> DEFINE y == Studies!Otherwise(x, i)
<1>1. /\ Len(y.returns) = Len(x.returns) /\ DOMAIN y.returns = DOMAIN x.returns
      /\ \A j \in DOMAIN x.returns : y.returns[j].day = x.returns[j].day
      /\ \A j \in DOMAIN x.returns : j <= i => y.returns[j] = x.returns[j]
      /\ y.fraction = x.fraction /\ y.current = x.current /\ y.cost = x.cost /\ y.cadence = x.cadence
  BY OtherReturns
<1>2. Len(x.returns) \in Nat /\ DOMAIN x.returns = 1..Len(x.returns)
  <2>1. x.returns \in Seq(Returns)
    BY DEF Past
  <2> QED BY <2>1
<1> HIDE DEF y
<1>3. Studies!Training(y) = Studies!Training(x) /\ Studies!Evaluated(y) = Studies!Evaluated(x)
  BY <1>1 DEF Studies!Training, Studies!Evaluated
<1>4. Studies!Admitted(y) <=> Studies!Admitted(x)
  <2>1. \A j \in 2..Len(x.returns) : j \in DOMAIN x.returns /\ j - 1 \in DOMAIN x.returns
    BY <1>2
  <2> QED BY <1>1, <1>3, <2>1 DEF Studies!Admitted
<1>5. /\ Studies!Scenarios(y) = Studies!Scenarios(x)
      /\ \A h, s : Studies!Allocation(y, h, s) = Studies!Allocation(x, h, s)
      /\ \A w : Studies!Before(y, w) = Studies!Before(x, w)
  BY <1>1 DEF Studies!Scenarios, Studies!Allocation, Studies!Before
<1>7. \A h, w : Studies!Rebalanced(y, h, w) = Studies!Rebalanced(x, h, w)
  BY <1>1 DEF Studies!Rebalanced
<1>8. ASSUME NEW k \in 0..i, k <= Len(x.returns)
      PROVE  SubSeq(y.returns, 1, k) = SubSeq(x.returns, 1, k)
  <2>1. \A j \in 1..(1 + k - 1) : j + 1 - 1 = j /\ j \in DOMAIN x.returns /\ y.returns[j] = x.returns[j]
    BY <1>1, <1>2, <1>8
  <2>2. /\ SubSeq(x.returns, 1, k) = [j \in 1..(1 + k - 1) |-> x.returns[j + 1 - 1]]
        /\ SubSeq(y.returns, 1, k) = [j \in 1..(1 + k - 1) |-> y.returns[j + 1 - 1]]
    OBVIOUS
  <2> QED BY <2>1, <2>2
<1> QED BY <1>3, <1>4, <1>5, <1>7, <1>8 DEF y

\* What a review says and buys, and what it pays and holds.
LEMMA ReviewTells ==
  ASSUME NEW x \in Past, NEW i \in Int, NEW s, NEW p \in Nat,
         Studies!Training(x) + p - 1 \in 0..Len(x.returns), Studies!Training(x) + p - 1 <= i,
         Studies!Evaluation(Studies!Otherwise(x, i), p).day = Studies!Evaluation(x, p).day
  PROVE  LET y == Studies!Otherwise(x, i)
             own == Studies!Reviewed(x, s, p)
             other == Studies!Reviewed(y, s, p)
         IN /\ other.review = own.review /\ other.weights = own.weights
            /\ \A name \in Studies!Scenarios(x) : other.held[name].paid = own.held[name].paid
            /\ Studies!Evaluation(y, p) = Studies!Evaluation(x, p) => other = own
<1> DEFINE y == Studies!Otherwise(x, i)
           row == Studies!Evaluation(x, p)
           review == p = 1 \/ row.day >= s.next
           traded == {name \in Studies!Scenarios(x) : review /\ (p = 1 \/ name # "current")}
           weights == [name \in traded |-> Studies!Allocation(x, Studies!History(x, p), name)]
           before(name) == IF p = 1 THEN Studies!Before(x, weights[name]) ELSE s.held[name]
           bought(name) == IF name \in traded THEN Studies!Rebalanced(x, before(name), weights[name]) ELSE s.held[name]
           next == IF review /\ p > 1 THEN Studies!NextReview(s.next, row.day, x.cadence) ELSE s.next
           rowy == Studies!Evaluation(y, p)
           reviewy == p = 1 \/ rowy.day >= s.next
           tradedy == {name \in Studies!Scenarios(y) : reviewy /\ (p = 1 \/ name # "current")}
           weightsy == [name \in tradedy |-> Studies!Allocation(y, Studies!History(y, p), name)]
           beforey(name) == IF p = 1 THEN Studies!Before(y, weightsy[name]) ELSE s.held[name]
           boughty(name) == IF name \in tradedy THEN Studies!Rebalanced(y, beforey(name), weightsy[name]) ELSE s.held[name]
           nexty == IF reviewy /\ p > 1 THEN Studies!NextReview(s.next, rowy.day, y.cadence) ELSE s.next
<1>1. Studies!Reviewed(x, s, p) =
        [held |-> [name \in Studies!Scenarios(x) |-> Studies!Grown(bought(name), row)], next |-> next,
         review |-> review, weights |-> weights]
  BY DEF Studies!Reviewed
<1>2. Studies!Reviewed(y, s, p) =
        [held |-> [name \in Studies!Scenarios(y) |-> Studies!Grown(boughty(name), rowy)], next |-> nexty,
         review |-> reviewy, weights |-> weightsy]
  BY DEF Studies!Reviewed
<1>3. /\ Studies!Training(y) = Studies!Training(x)
      /\ Studies!Scenarios(y) = Studies!Scenarios(x)
      /\ \A h, n : Studies!Allocation(y, h, n) = Studies!Allocation(x, h, n)
      /\ \A h, w : Studies!Rebalanced(y, h, w) = Studies!Rebalanced(x, h, w)
      /\ \A w : Studies!Before(y, w) = Studies!Before(x, w)
      /\ \A k \in 0..i : k <= Len(x.returns) => SubSeq(y.returns, 1, k) = SubSeq(x.returns, 1, k)
      /\ y.cadence = x.cadence
  BY SameUpTo, OtherReturns
<1>4. Studies!History(y, p) = Studies!History(x, p)
  <2>1. Studies!Training(x) + p - 1 \in 0..i /\ Studies!Training(x) + p - 1 <= Len(x.returns)
    <3>1. Len(x.returns) \in Nat
      <4>1. x.returns \in Seq(Returns)
        BY DEF Past
      <4> QED BY <4>1
    <3> QED BY <3>1
  <2> QED BY <1>3, <2>1 DEF Studies!History
<1>5. rowy.day = row.day
  OBVIOUS
<1> HIDE DEF y, row, rowy
<1>6. reviewy = review /\ tradedy = traded /\ nexty = next
  BY <1>3, <1>5
<1> HIDE DEF review, reviewy, traded, tradedy, next, nexty
<1>7. weightsy = weights
  BY <1>3, <1>4, <1>6
<1> HIDE DEF weights, weightsy
<1>8. \A name : beforey(name) = before(name)
  BY <1>3, <1>7
<1> HIDE DEF before, beforey
<1>9. \A name : boughty(name) = bought(name)
  BY <1>3, <1>6, <1>7, <1>8
<1> HIDE DEF bought, boughty
<1>10. ASSUME NEW name \in Studies!Scenarios(x)
       PROVE  Studies!Reviewed(y, s, p).held[name].paid = Studies!Reviewed(x, s, p).held[name].paid
  <2>1. \A h, g : Studies!Grown(h, g).paid = h.paid
    BY DEF Studies!Grown
  <2>2. Studies!Reviewed(x, s, p).held[name] = Studies!Grown(bought(name), row)
    BY <1>1
  <2>3. Studies!Reviewed(y, s, p).held[name] = Studies!Grown(boughty(name), rowy)
    BY <1>2, <1>3
  <2> QED BY <1>9, <2>1, <2>2, <2>3
<1>11. ASSUME rowy = row
       PROVE  [name \in Studies!Scenarios(y) |-> Studies!Grown(boughty(name), rowy)]
              = [name \in Studies!Scenarios(x) |-> Studies!Grown(bought(name), row)]
  BY <1>3, <1>9, <1>11
<1>12. /\ Studies!Reviewed(y, s, p).review = Studies!Reviewed(x, s, p).review
       /\ Studies!Reviewed(y, s, p).weights = Studies!Reviewed(x, s, p).weights
  BY <1>1, <1>2, <1>6, <1>7
<1>13. ASSUME rowy = row
       PROVE  Studies!Reviewed(y, s, p) = Studies!Reviewed(x, s, p)
  BY <1>1, <1>2, <1>6, <1>7, <1>11, <1>13
<1> QED BY <1>10, <1>12, <1>13 DEF y, row, rowy

\* No walk looks ahead: with other returns from any row on, it is the same up to
\* it, and so is what is decided and paid on the day of the row.
LEMMA WalksLookBack ==
  ASSUME NEW x \in Past, Studies!WalkForward(x) # Refused, NEW p \in 1..Studies!Evaluated(x)
  PROVE  LET walk == Studies!WalkForward(x)
             other == Studies!WalkForward(Studies!Otherwise(x, Studies!Training(x) + p - 1))
         IN /\ \A q \in 0..(p - 1) : other[q] = walk[q]
            /\ other[p].review = walk[p].review /\ other[p].weights = walk[p].weights
            /\ \A name \in Studies!Scenarios(x) : other[p].held[name].paid = walk[p].held[name].paid
<1> DEFINE i == Studies!Training(x) + p - 1
           y == Studies!Otherwise(x, i)
           n == Studies!Evaluated(x)
           W == Studies!WalkForward(x)
           V == Studies!WalkForward(y)
           T == {q \in Nat : q <= p - 1 => V[q] = W[q]}
<1>1. /\ Studies!Admitted(x) /\ W[0] = Studies!Start(x)
      /\ \A q \in 1..n : W[q] = Studies!Reviewed(x, W[q - 1], q)
  BY WalkUnfolds
<1>2. /\ n \in Nat /\ Studies!Training(x) \in Nat /\ Len(x.returns) \in Nat
      /\ Studies!Training(x) + n = Len(x.returns) /\ DOMAIN x.returns = 1..Len(x.returns)
      /\ \A q \in 1..n : Studies!Training(x) + q \in DOMAIN x.returns
      /\ \A q \in 1..n : Studies!Evaluation(x, q) = x.returns[Studies!Training(x) + q]
  BY <1>1, RowsOfAHistory
<1>3. i \in Int /\ i = Studies!Training(x) + p - 1
  BY <1>2
<1> HIDE DEF i
<1>4. /\ Studies!Training(y) = Studies!Training(x) /\ Studies!Evaluated(y) = n
      /\ Studies!Admitted(y) /\ Studies!Scenarios(y) = Studies!Scenarios(x) /\ y.cadence = x.cadence
      /\ \A j \in DOMAIN x.returns : y.returns[j].day = x.returns[j].day
      /\ \A j \in DOMAIN x.returns : j <= i => y.returns[j] = x.returns[j]
  BY <1>1, <1>3, SameUpTo, OtherReturns
<1>5. /\ V = CHOOSE f : Walks(y, n, f)
      /\ \E f : Walks(y, n, f)
  BY <1>2, <1>4, WalksExist DEF Studies!WalkForward, Walks
<1>6. Walks(y, n, V)
  <2> HIDE DEF V
  <2> QED BY <1>5
<1> HIDE DEF V, W
<1>7. V[0] = Studies!Start(y) /\ \A q \in 1..n : V[q] = Studies!Reviewed(y, V[q - 1], q)
  BY <1>2, <1>6 DEF Walks
<1>8. \A q \in 1..n : /\ Studies!Evaluation(y, q).day = Studies!Evaluation(x, q).day
                      /\ q < p => Studies!Evaluation(y, q) = Studies!Evaluation(x, q)
  <2> SUFFICES ASSUME NEW q \in 1..n
               PROVE  /\ Studies!Evaluation(y, q).day = Studies!Evaluation(x, q).day
                      /\ q < p => Studies!Evaluation(y, q) = Studies!Evaluation(x, q)
    OBVIOUS
  <2>1. Studies!Evaluation(y, q) = y.returns[Studies!Training(x) + q]
    BY <1>4 DEF Studies!Evaluation
  <2>2. q < p => Studies!Training(x) + q <= i
    BY <1>2, <1>3
  <2> QED BY <1>2, <1>4, <2>1, <2>2
<1>9. Studies!Start(y) = Studies!Start(x)
  <2>1. n # 0
    BY <1>2
  <2>2. 1 \in 1..n
    BY <1>2
  <2> QED BY <1>4, <1>8, <2>2 DEF Studies!Start
<1>10. ASSUME NEW q \in 1..n, q <= p, V[q - 1] = W[q - 1]
       PROVE  /\ V[q].review = W[q].review /\ V[q].weights = W[q].weights
              /\ \A name \in Studies!Scenarios(x) : V[q].held[name].paid = W[q].held[name].paid
              /\ q < p => V[q] = W[q]
  <2>1. /\ Studies!Training(x) + q - 1 \in 0..Len(x.returns) /\ Studies!Training(x) + q - 1 <= i /\ q \in Nat
        /\ Studies!Evaluation(y, q).day = Studies!Evaluation(x, q).day
    BY <1>2, <1>3, <1>8, <1>10
  <2> DEFINE s == W[q - 1]
  <2>2. V[q] = Studies!Reviewed(y, s, q) /\ W[q] = Studies!Reviewed(x, s, q)
    BY <1>1, <1>7, <1>10
  <2> HIDE DEF s
  <2>3. LET own == Studies!Reviewed(x, s, q)
            other == Studies!Reviewed(y, s, q)
        IN /\ other.review = own.review /\ other.weights = own.weights
           /\ \A name \in Studies!Scenarios(x) : other.held[name].paid = own.held[name].paid
           /\ Studies!Evaluation(y, q) = Studies!Evaluation(x, q) => other = own
    BY <1>3, <2>1, ReviewTells
  <2> QED BY <1>8, <2>2, <2>3
<1>11. 0 \in T
  BY <1>1, <1>7, <1>9
<1>12. ASSUME NEW q \in T
       PROVE  q + 1 \in T
  <2> SUFFICES ASSUME q + 1 <= p - 1
               PROVE  V[q + 1] = W[q + 1]
    OBVIOUS
  <2>1. q + 1 \in 1..n /\ q + 1 < p /\ q + 1 <= p /\ (q + 1) - 1 = q /\ V[q] = W[q]
    BY <1>2
  <2> QED BY <1>10, <2>1
<1>13. T = Nat
  BY <1>11, <1>12, NatSetInduction
<1>14. \A q \in 0..(p - 1) : V[q] = W[q]
  <2> SUFFICES ASSUME NEW q \in 0..(p - 1)
               PROVE  V[q] = W[q]
    OBVIOUS
  <2>1. q \in Nat /\ q <= p - 1
    BY <1>2
  <2>2. q \in T
    <3> HIDE DEF T
    <3> QED BY <1>13, <2>1
  <2> QED BY <2>1, <2>2
<1>15. /\ V[p].review = W[p].review /\ V[p].weights = W[p].weights
       /\ \A name \in Studies!Scenarios(x) : V[p].held[name].paid = W[p].held[name].paid
  <2>1. p - 1 \in 0..(p - 1) /\ p <= p
    BY <1>2
  <2>2. V[p - 1] = W[p - 1]
    BY <1>14, <2>1
  <2> QED BY <1>10, <2>1, <2>2
<1> QED BY <1>14, <1>15 DEF V, W, i

\* A cut of other returns is the cut with other returns.
LEMMA CutsCommute ==
  ASSUME NEW x \in Past, NEW i \in Int, NEW u \in Int
  PROVE  /\ Studies!Cut(x, u) \in Past
         /\ Studies!Cut(Studies!Otherwise(x, i), u) = Studies!Otherwise(Studies!Cut(x, u), i)
         /\ Studies!Cut(x, u).returns = x.returns
<1> DEFINE rows == [j \in DOMAIN x.returns |->
                      IF j <= i THEN x.returns[j] ELSE [x.returns[j] EXCEPT !.gross = x.other[j]]]
           c == Studies!Cut(x, u)
<1>1. c = [x EXCEPT !.fraction = u]
  BY DEF Studies!Cut
<1>2. c \in Past /\ c.returns = x.returns /\ c.other = x.other
  BY <1>1 DEF Past
<1> HIDE DEF c
<1>3. Studies!Otherwise(c, i) = [c EXCEPT !.returns = rows]
  BY <1>2 DEF Studies!Otherwise
<1>4. Studies!Cut(Studies!Otherwise(x, i), u) = [[x EXCEPT !.returns = rows] EXCEPT !.fraction = u]
  BY DEF Studies!Otherwise, Studies!Cut
<1> HIDE DEF rows
<1>5. [[x EXCEPT !.returns = rows] EXCEPT !.fraction = u] = [[x EXCEPT !.fraction = u] EXCEPT !.returns = rows]
  BY DEF Past
<1> QED BY <1>1, <1>2, <1>3, <1>4, <1>5 DEF c

\* Neither does a cut: what it chose does not depend on what it evaluates.
LEMMA CutsLookBack ==
  ASSUME NEW x \in Past, Studies!Cuts(x) # Refused, NEW tenths \in 5..8
  PROVE  LET after == Studies!Training(Studies!Cut(x, tenths))
         IN Studies!Cuts(Studies!Otherwise(x, after))[tenths].allocations = Studies!Cuts(x)[tenths].allocations
<1> DEFINE i == Studies!Training(Studies!Cut(x, tenths))
           y == Studies!Otherwise(x, i)
           c == Studies!Cut(x, tenths)
           d == Studies!Otherwise(c, i)
           Chosen(z) == [name \in Studies!Scenarios(z) |-> Studies!Allocation(z, Studies!Estimation(z), name)]
<1>1. ~(Len(x.returns) < LeastForCuts) /\ \A u \in 5..8 : Studies!Admitted(Studies!Cut(x, u))
  BY DEF Studies!Cuts
<1>2. c \in Past /\ c.returns = x.returns /\ Studies!Admitted(c) /\ tenths \in Int
  BY <1>1, CutsCommute
<1>3. i \in Nat /\ i <= Len(c.returns) /\ Len(c.returns) \in Nat
  BY <1>2, RowsOfAHistory
<1>4. \A u \in 5..8 : /\ Studies!Admitted(Studies!Cut(y, u))
                      /\ Studies!Cut(y, u) = Studies!Otherwise(Studies!Cut(x, u), i)
  <2> HIDE DEF i
  <2> SUFFICES ASSUME NEW u \in 5..8
               PROVE  /\ Studies!Admitted(Studies!Cut(y, u))
                      /\ Studies!Cut(y, u) = Studies!Otherwise(Studies!Cut(x, u), i)
    OBVIOUS
  <2>1. u \in Int /\ i \in Int
    BY <1>3
  <2>2. Studies!Cut(y, u) = Studies!Otherwise(Studies!Cut(x, u), i) /\ Studies!Cut(x, u) \in Past
    BY <2>1, CutsCommute
  <2>3. Studies!Admitted(Studies!Otherwise(Studies!Cut(x, u), i)) <=> Studies!Admitted(Studies!Cut(x, u))
    BY <2>1, <2>2, SameUpTo
  <2> QED BY <1>1, <2>2, <2>3
<1>5. Len(y.returns) = Len(x.returns)
  <2> HIDE DEF i
  <2>1. i \in Int
    BY <1>3
  <2> QED BY <2>1, OtherReturns
<1>6. /\ Studies!Cuts(x)[tenths] = Studies!Holdout(c)
      /\ Studies!Cuts(y)[tenths] = Studies!Holdout(Studies!Cut(y, tenths))
  <2> HIDE DEF y, c
  <2> QED BY <1>1, <1>4, <1>5 DEF Studies!Cuts, c
<1>7. Studies!Cut(y, tenths) = d /\ Studies!Admitted(d)
  BY <1>4
<1>8. /\ Studies!Holdout(c).allocations = Chosen(c)
      /\ Studies!Holdout(d).allocations = Chosen(d)
  BY <1>2, <1>7 DEF Studies!Holdout
<1> HIDE DEF c
<1>9. Chosen(d) = Chosen(c)
  <2> HIDE DEF i
  <2>1. i \in Int /\ i \in 0..i /\ i <= Len(c.returns)
    BY <1>3
  <2>2. /\ Studies!Training(d) = Studies!Training(c)
        /\ Studies!Scenarios(d) = Studies!Scenarios(c)
        /\ \A h, s : Studies!Allocation(d, h, s) = Studies!Allocation(c, h, s)
        /\ SubSeq(d.returns, 1, i) = SubSeq(c.returns, 1, i)
    BY <1>2, <2>1, SameUpTo
  <2>3. Studies!Training(c) = i
    BY DEF c, i
  <2>4. Studies!Estimation(d) = Studies!Estimation(c)
    BY <2>2, <2>3 DEF Studies!Estimation
  <2> HIDE DEF d
  <2> QED BY <2>2, <2>4
<1> QED BY <1>6, <1>7, <1>8, <1>9

-----------------------------------------------------------------------------
(* Without reviews. *)

\* What is bought once and held.
Holds(x, name, n, H) ==
  H = [p \in 0..n |->
         IF p = 0 THEN Studies!Rebalanced(x, Studies!Before(x, Studies!Allocation(x, Studies!Estimation(x), name)),
                                          Studies!Allocation(x, Studies!Estimation(x), name))
         ELSE Studies!Grown(H[p - 1], Studies!Evaluation(x, p))]

LEMMA HoldsExist ==
  ASSUME NEW x, NEW name, NEW m \in Nat
  PROVE  \E H : Holds(x, name, m, H)
<1> DEFINE first == Studies!Rebalanced(x, Studies!Before(x, Studies!Allocation(x, Studies!Estimation(x), name)),
                                       Studies!Allocation(x, Studies!Estimation(x), name))
           T == {n \in Nat : \E H : Holds(x, name, n, H)}
<1>1. 0 \in T
  <2>1. Holds(x, name, 0, [p \in 0..0 |-> first])
    BY DEF Holds
  <2> QED BY <2>1
<1>2. ASSUME NEW n \in T
      PROVE  n + 1 \in T
  <2>1. n \in Nat /\ \E H : Holds(x, name, n, H)
    OBVIOUS
  <2>2. PICK H : Holds(x, name, n, H)
    BY <2>1
  <2> DEFINE G == [p \in 0..(n + 1) |-> IF p = 0 THEN first ELSE Studies!Grown(H[p - 1], Studies!Evaluation(x, p))]
  <2>3. \A p \in 0..n : G[p] = H[p]
    BY <2>1, <2>2 DEF Holds
  <2>4. \A p \in 0..(n + 1) : p # 0 => p - 1 \in 0..n
    BY <2>1
  <2>5. \A p \in 0..(n + 1) : p # 0 =>
          Studies!Grown(H[p - 1], Studies!Evaluation(x, p)) = Studies!Grown(G[p - 1], Studies!Evaluation(x, p))
    <3> HIDE DEF G
    <3> QED BY <2>3, <2>4
  <2>6. Holds(x, name, n + 1, G)
    BY <2>5 DEF Holds
  <2> HIDE DEF G
  <2> QED BY <2>1, <2>6
<1>3. T = Nat
  BY <1>1, <1>2, NatSetInduction
<1> QED BY <1>3

\* What a review holds: at the first one, what one cut buys; where it is not
\* time, what was held.
LEMMA ReviewHolds ==
  ASSUME NEW x \in Past, Studies!Training(x) \in Int, NEW s, NEW p \in Nat \ {0}, NEW name \in Studies!Scenarios(x)
  PROVE  LET new == Studies!Reviewed(x, s, p)
             weights == Studies!Allocation(x, Studies!Estimation(x), name)
         IN /\ p = 1 => new.held[name] =
                          Studies!Grown(Studies!Rebalanced(x, Studies!Before(x, weights), weights), Studies!Evaluation(x, p))
            /\ p # 1 /\ ~new.review => new.held[name] = Studies!Grown(s.held[name], Studies!Evaluation(x, p))
<1> DEFINE row == Studies!Evaluation(x, p)
           review == p = 1 \/ row.day >= s.next
           traded == {n \in Studies!Scenarios(x) : review /\ (p = 1 \/ n # "current")}
           weights == [n \in traded |-> Studies!Allocation(x, Studies!History(x, p), n)]
           before(n) == IF p = 1 THEN Studies!Before(x, weights[n]) ELSE s.held[n]
           bought(n) == IF n \in traded THEN Studies!Rebalanced(x, before(n), weights[n]) ELSE s.held[n]
           new == Studies!Reviewed(x, s, p)
<1>1. new.held = [n \in Studies!Scenarios(x) |-> Studies!Grown(bought(n), row)] /\ new.review = review
  BY DEF Studies!Reviewed
<1>2. new.held[name] = Studies!Grown(bought(name), row)
  <2> HIDE DEF bought, new
  <2> QED BY <1>1
<1>3. ASSUME p = 1
      PROVE  bought(name) = Studies!Rebalanced(x, Studies!Before(x, Studies!Allocation(x, Studies!Estimation(x), name)),
                                               Studies!Allocation(x, Studies!Estimation(x), name))
  <2>1. Studies!Training(x) + p - 1 = Studies!Training(x)
    BY <1>3
  <2>2. Studies!History(x, p) = Studies!Estimation(x)
    BY <2>1 DEF Studies!History, Studies!Estimation
  <2>3. name \in traded
    BY <1>3
  <2>4. weights[name] = Studies!Allocation(x, Studies!Estimation(x), name)
    BY <2>2, <2>3
  <2>5. before(name) = Studies!Before(x, weights[name])
    BY <1>3
  <2> HIDE DEF weights, before, traded
  <2> QED BY <2>3, <2>4, <2>5
<1>4. ASSUME p # 1, ~review
      PROVE  bought(name) = s.held[name]
  BY <1>4
<1> HIDE DEF bought, new, row, review
<1> QED BY <1>1, <1>2, <1>3, <1>4 DEF row, new

\* A walk whose reviews never come is the study of one cut.
LEMMA OneReview ==
  ASSUME NEW x \in Past
  PROVE  Studies!OneReviewIsOneCut(x)
<1> DEFINE n == Studies!Evaluated(x)
           W == Studies!WalkForward(x)
<1> SUFFICES ASSUME W # Refused, \A p \in 2..n : ~W[p].review, NEW name \in Studies!Scenarios(x), NEW p \in 1..n
             PROVE  Studies!Value(W[p].held[name]) = Studies!Holdout(x).curves[name][p]
  BY DEF Studies!OneReviewIsOneCut
<1> DEFINE first == Studies!Rebalanced(x, Studies!Before(x, Studies!Allocation(x, Studies!Estimation(x), name)),
                                       Studies!Allocation(x, Studies!Estimation(x), name))
           H == Studies!Held(x, name)
           T == {q \in Nat : q + 1 \in 1..n => W[q + 1].held[name] = H[q + 1]}
<1>1. /\ Studies!Admitted(x) /\ W[0] = Studies!Start(x)
      /\ \A q \in 1..n : W[q] = Studies!Reviewed(x, W[q - 1], q)
  BY WalkUnfolds
<1>2. n \in Nat /\ Studies!Training(x) \in Int
  BY <1>1, RowsOfAHistory
<1>3. H = CHOOSE f : Holds(x, name, n, f)
  BY DEF Studies!Held, Holds
<1>4. \E f : Holds(x, name, n, f)
  BY <1>2, HoldsExist
<1> HIDE DEF H
<1>5. Holds(x, name, n, H)
  BY <1>3, <1>4
<1>6. H[0] = first /\ \A q \in 1..n : H[q] = Studies!Grown(H[q - 1], Studies!Evaluation(x, q))
  BY <1>2, <1>5 DEF Holds
<1> HIDE DEF first
<1>7. 0 \in T
  <2> SUFFICES ASSUME 1 \in 1..n
               PROVE  W[1].held[name] = H[1]
    OBVIOUS
  <2> DEFINE s == W[0]
  <2>1. W[1] = Studies!Reviewed(x, s, 1) /\ H[1] = Studies!Grown(first, Studies!Evaluation(x, 1))
    BY <1>1, <1>6
  <2> HIDE DEF s
  <2>2. Studies!Reviewed(x, s, 1).held[name] = Studies!Grown(first, Studies!Evaluation(x, 1))
    BY <1>2, ReviewHolds DEF first
  <2> QED BY <2>1, <2>2
<1>8. ASSUME NEW q \in T
      PROVE  q + 1 \in T
  <2> SUFFICES ASSUME q + 2 \in 1..n
               PROVE  W[q + 2].held[name] = H[q + 2]
    OBVIOUS
  <2>1. q \in Nat /\ q + 1 \in 1..n /\ (q + 2) - 1 = q + 1 /\ q + 2 \in 2..n /\ q + 2 # 1 /\ q + 2 \in Nat \ {0}
    BY <1>2
  <2>2. W[q + 1].held[name] = H[q + 1]
    BY <2>1
  <2> DEFINE s == W[q + 1]
  <2>3. W[q + 2] = Studies!Reviewed(x, s, q + 2) /\ H[q + 2] = Studies!Grown(H[q + 1], Studies!Evaluation(x, q + 2))
    <3>1. /\ W[q + 2] = Studies!Reviewed(x, W[(q + 2) - 1], q + 2)
          /\ H[q + 2] = Studies!Grown(H[(q + 2) - 1], Studies!Evaluation(x, q + 2))
      BY <1>1, <1>6
    <3> QED BY <2>1, <3>1
  <2>4. ~W[q + 2].review /\ s.held[name] = H[q + 1]
    BY <2>1, <2>2
  <2> HIDE DEF s
  <2>5. ~Studies!Reviewed(x, s, q + 2).review =>
          Studies!Reviewed(x, s, q + 2).held[name] = Studies!Grown(s.held[name], Studies!Evaluation(x, q + 2))
    BY <1>2, <2>1, ReviewHolds
  <2> QED BY <2>3, <2>4, <2>5
<1>9. T = Nat
  BY <1>7, <1>8, NatSetInduction
<1>10. W[p].held[name] = H[p]
  <2>1. p - 1 \in Nat /\ (p - 1) + 1 = p
    BY <1>2
  <2>2. p - 1 \in T
    <3> HIDE DEF T
    <3> QED BY <1>9, <2>1
  <2> QED BY <2>1, <2>2
<1>11. Studies!Holdout(x).curves[name][p] = Studies!Value(H[p])
  <2>1. Studies!Holdout(x).curves = [nm \in Studies!Scenarios(x) |-> [q \in 1..n |-> Studies!Value(Studies!Held(x, nm)[q])]]
    BY <1>1 DEF Studies!Holdout
  <2> QED BY <2>1 DEF H
<1> QED BY <1>10, <1>11

\* The sum of a constant.
LEMMA SumOfOne ==
  ASSUME NEW S, IsFiniteSet(S), NEW k \in Int
  PROVE  SumFunctionOnSet([e \in S |-> k], S) = k * Cardinality(S)
<1> DEFINE f == [e \in S |-> k]
           F(s) == SumFunctionOnSet(f, s)
           IsOfOne(s) == F(s) = k * Cardinality(s)
           T == {s \in SUBSET S : IsOfOne(s)}
<1>1. {} \in T
  <2>1. F({}) = 0 /\ Cardinality({}) = 0
    BY SumOfNothing, FS_EmptySet
  <2> HIDE DEF F
  <2> QED BY <2>1
<1>2. ASSUME NEW s \in T, NEW e \in S \ s
      PROVE  s \cup {e} \in T
  <2>1. IsFiniteSet(s) /\ e \notin s /\ (\A y \in s \cup {e} : f[y] \in Int) /\ f[e] = k
    BY FS_Subset
  <2>2. F(s \cup {e}) = f[e] + F(s) /\ F(s) \in Int
    <3> HIDE DEF f
    <3> QED BY <2>1, SumAdds
  <2>3. Cardinality(s \cup {e}) = Cardinality(s) + 1 /\ Cardinality(s) \in Nat
    BY <2>1, FS_AddElement, FS_CardinalityType
  <2>4. IsOfOne(s)
    OBVIOUS
  <2> HIDE DEF F
  <2> DEFINE c == Cardinality(s)
             d == Cardinality(s \cup {e})
  <2>5. k * (c + 1) = k + k * c
    BY <2>3
  <2>6. F(s \cup {e}) = k * d
    BY <2>1, <2>2, <2>3, <2>4, <2>5
  <2> QED BY <2>6
<1>3. T = SUBSET S
  <2>1. T \in SUBSET SUBSET S
    OBVIOUS
  <2> HIDE DEF T
  <2> QED BY <1>1, <1>2, <2>1, SetInduction
<1>4. IsOfOne(S)
  BY <1>3
<1> QED BY <1>4

\* What is held and what was paid are what was had.
Balanced(h) ==
  /\ \A a \in Assets : h.of[a] \in Int
  /\ h.paid \in Int /\ h.unit \in Int
  /\ Studies!Worth(h) + h.paid = h.unit

LEMMA StudiesSum == \A f, s : Studies!SumFunctionOnSet(f, s) = SumFunctionOnSet(f, s)
BY DEF Studies!SumFunctionOnSet, Studies!FoldFunctionOnSet, Studies!MapThenFoldSet,
       SumFunctionOnSet, FoldFunctionOnSet, MapThenFoldSet

LEMMA WeightsSum ==
  /\ Studies!Whole \in Int
  /\ \A w \in Studies!Weights : /\ \A a \in Assets : w[a] \in Int
                                /\ SumFunctionOnSet(w, Assets) = Studies!Whole
  /\ [a \in Assets |-> Share] \in Studies!Weights
<1>1. Cardinality(Assets) \in Nat /\ Share \in Nat \ {0}
  BY AssetsAssumption, StudiesAssumption, FS_CardinalityType
<1> DEFINE n == Cardinality(Assets)
<1>2. Share * n \in Nat /\ (n # 0 => Share <= Share * n) /\ Studies!Whole = Share * n
  <2>1. Studies!Whole = Share * n
    BY DEF Studies!Whole, Studies!Cardinality, Cardinality
  <2> HIDE DEF n
  <2>2. n \in Nat => Share * n \in Nat
    BY <1>1
  <2>3. n \in Nat /\ n # 0 => n = (n - 1) + 1 /\ n - 1 \in Nat
    OBVIOUS
  <2>4. \A m \in Nat : Share * (m + 1) = Share * m + Share /\ Share * m \in Nat
    BY <1>1
  <2> QED BY <1>1, <2>1, <2>2, <2>3, <2>4 DEF n
<1>3. Assets # {} => n # 0
  BY AssetsAssumption, FS_EmptySet
<1>4. Studies!Whole \in Nat
  BY <1>2
<1>5. \A a \in Assets : Share \in 0..Studies!Whole
  <2> HIDE DEF n
  <2> QED BY <1>1, <1>2, <1>3
<1>6. Studies!SumFunctionOnSet([a \in Assets |-> Share], Assets) = Studies!Whole
  <2>1. Share \in Int
    BY <1>1
  <2>2. SumFunctionOnSet([a \in Assets |-> Share], Assets) = Share * Cardinality(Assets)
    BY <2>1, AssetsAssumption, SumOfOne
  <2> DEFINE f == [a \in Assets |-> Share]
  <2>3. Studies!SumFunctionOnSet(f, Assets) = SumFunctionOnSet(f, Assets)
    BY StudiesSum
  <2> HIDE DEF f
  <2> QED BY <1>2, <2>2, <2>3 DEF f
<1>7. [a \in Assets |-> Share] \in Studies!Weights
  BY <1>5, <1>6 DEF Studies!Weights
<1> QED BY <1>4, <1>7, StudiesSum DEF Studies!Weights

\* A purchase keeps the account: what it takes is what it pays.
LEMMA RebalancedIsBalanced ==
  ASSUME NEW x \in Past, NEW h, Balanced(h), NEW w \in Studies!Weights
  PROVE  Balanced(Studies!Rebalanced(x, h, w))
<1> DEFINE K == Studies!Whole
           F == Studies!Finer
           V == Studies!Worth(h)
           c == x.cost * Studies!Moved(h, w)
           new == Studies!Rebalanced(x, h, w)
           p == h.paid
           u == h.unit
           L == F * V - c
<1>1. K \in Int /\ F \in Int
  BY WeightsSum, StudiesAssumption DEF Studies!Finer
<1>2. V \in Int /\ p \in Int /\ u \in Int /\ V + p = u
  <2>1. SumFunctionOnSet(h.of, Assets) \in Int
    <3> DEFINE f == h.of
    <3>1. \A a \in Assets : f[a] \in Int
      BY DEF Balanced
    <3> HIDE DEF f
    <3>2. SumFunctionOnSet(f, Assets) \in Int
      BY <3>1, AssetsAssumption, SumIsInt
    <3> QED BY <3>2 DEF f
  <2> QED BY <2>1, StudiesSum DEF Studies!Worth, Balanced
<1>3. c \in Int
  <2> DEFINE m == [a \in Assets |-> Studies!Abs(Studies!Worth(h) * w[a] - Studies!Whole * h.of[a])]
  <2>1. \A a \in Assets : m[a] \in Int
    <3> SUFFICES ASSUME NEW a \in Assets PROVE m[a] \in Int
      OBVIOUS
    <3>1. w[a] \in Int /\ h.of[a] \in Int
      BY WeightsSum DEF Balanced
    <3> DEFINE v == V * w[a] - K * h.of[a]
    <3>2. v \in Int
      <4> DEFINE wa == w[a]
                 ha == h.of[a]
      <4>1. wa \in Int /\ ha \in Int
        BY <3>1
      <4> HIDE DEF wa, ha, V, K
      <4>2. V * wa - K * ha \in Int
        BY <1>1, <1>2, <4>1
      <4> QED BY <4>2 DEF wa, ha
    <3>3. m[a] = Studies!Abs(v)
      OBVIOUS
    <3> HIDE DEF v, m
    <3> QED BY <3>2, <3>3 DEF Studies!Abs
  <2>2. SumFunctionOnSet(m, Assets) \in Int
    <3> HIDE DEF m
    <3> QED BY <2>1, AssetsAssumption, SumIsInt
  <2>3. Studies!Moved(h, w) = SumFunctionOnSet(m, Assets)
    BY StudiesSum DEF Studies!Moved
  <2> HIDE DEF m
  <2>4. Studies!Moved(h, w) \in Int /\ x.cost \in Int
    BY <2>2, <2>3 DEF Past
  <2> QED BY <2>4
<1>4. new = [of |-> [a \in Assets |-> L * w[a]], paid |-> K * (F * p + c), unit |-> K * F * u]
  BY DEF Studies!Rebalanced
<1> HIDE DEF K, F, V, c, new, p, u
<1>5. L \in Int
  BY <1>1, <1>2, <1>3
<1>6. /\ new.paid = K * (F * p + c) /\ new.unit = K * F * u /\ new.paid \in Int /\ new.unit \in Int
  BY <1>1, <1>2, <1>3, <1>4
<1> HIDE DEF L
<1> DEFINE of == [a \in Assets |-> L * w[a]]
<1>7. \A a \in Assets : w[a] \in Int /\ of[a] = w[a] * L /\ of[a] \in Int
  BY <1>5, WeightsSum
<1>8. new.of = of
  BY <1>4
<1>9. Studies!Worth(new) = K * L
  <2>1. SumFunctionOnSet(of, Assets) = SumFunctionOnSet(w, Assets) * L
    <3> HIDE DEF of
    <3> QED BY <1>5, <1>7, AssetsAssumption, SumTimes
  <2>2. SumFunctionOnSet(w, Assets) = K
    BY WeightsSum DEF K
  <2> HIDE DEF of
  <2> QED BY <1>8, <2>1, <2>2, StudiesSum DEF Studies!Worth
<1>10. K * L + K * (F * p + c) = K * F * u
  <2>1. F * (V + p) = F * V + F * p
    BY <1>1, <1>2
  <2> DEFINE fv == F * V
             fp == F * p
             fu == F * u
  <2>2. fv \in Int /\ fp \in Int /\ fu \in Int /\ fu = fv + fp
    BY <1>1, <1>2, <2>1
  <2>3. L = fv - c /\ K * F * u = K * fu
    BY <1>1, <1>2 DEF L
  <2> HIDE DEF fv, fu
  <2>4. K * (fv - c) + K * (fp + c) = K * fu
    <3> HIDE DEF fp
    <3>1. \A a, b \in Int : K * a + K * b = K * (a + b)
      BY <1>1
    <3>2. fv - c \in Int /\ fp + c \in Int /\ (fv - c) + (fp + c) = fu
      BY <1>3, <2>2
    <3> QED BY <3>1, <3>2
  <2> QED BY <2>3, <2>4
<1> HIDE DEF of
<1>11. \A a \in Assets : new.of[a] \in Int
  BY <1>7, <1>8
<1>12. Balanced(new)
  BY <1>6, <1>9, <1>10, <1>11 DEF Balanced
<1> QED BY <1>12 DEF new

\* A day without movement of prices keeps it too.
LEMMA QuietIsBalanced ==
  ASSUME NEW h, Balanced(h), NEW row, \A a \in Assets : row.gross[a] = 1
  PROVE  Balanced(Studies!Grown(h, row))
<1> DEFINE new == Studies!Grown(h, row)
           f == h.of
           g == [a \in Assets |-> h.of[a] * row.gross[a]]
<1>1. new.of = g /\ new.paid = h.paid /\ new.unit = h.unit
  BY DEF Studies!Grown
<1>2. \A a \in Assets : f[a] \in Int /\ g[a] = f[a]
  BY DEF Balanced
<1>3. SumFunctionOnSet(f, Assets) = SumFunctionOnSet(g, Assets)
  <2> HIDE DEF f, g
  <2> QED BY <1>2, AssetsAssumption, SumSame
<1>4. \A a \in Assets : new.of[a] \in Int
  <2> HIDE DEF g, new
  <2> QED BY <1>1, <1>2
<1>5. Studies!Worth(new) = Studies!Worth(h)
  <2> HIDE DEF g, new
  <2> QED BY <1>1, <1>3, StudiesSum DEF Studies!Worth
<1> HIDE DEF new, g, f
<1>6. Balanced(new)
  BY <1>1, <1>4, <1>5 DEF Balanced
<1> QED BY <1>6 DEF new

\* What is bought at a review has weights of the whole.
LEMMA AllocationsAreWeights ==
  ASSUME NEW x \in Histories, Studies!Admitted(x), NEW p \in 1..Studies!Evaluated(x), NEW name \in Studies!Scenarios(x)
  PROVE  Studies!Allocation(x, Studies!History(x, p), name) \in Studies!Weights
<1>1. x \in Past
  BY StudiesAssumption DEF Past
<1>2. Studies!Training(x) \in Nat /\ Studies!Evaluated(x) \in Nat /\ Len(x.returns) \in Nat
      /\ Studies!Training(x) + Studies!Evaluated(x) = Len(x.returns)
  BY <1>1, RowsOfAHistory
<1>3. Studies!Training(x) + p - 1 \in 0..Len(x.returns)
  BY <1>2
<1>4. Optimal(Studies!History(x, p)) \in Studies!Weights
  BY <1>3, StudiesAssumption DEF Studies!History
<1>5. CASE name = "optimal"
  BY <1>4, <1>5 DEF Studies!Allocation
<1>6. CASE name = "equal"
  BY <1>6, WeightsSum DEF Studies!Allocation
<1>7. CASE name = "current" /\ x.current # Blank
  BY <1>1, <1>7 DEF Studies!Allocation, Past
<1> QED BY <1>5, <1>6, <1>7 DEF Studies!Scenarios

LEMMA BeforeIsBalanced ==
  ASSUME NEW x \in Past, NEW w \in Studies!Weights
  PROVE  Balanced(Studies!Before(x, w))
<1> DEFINE b == Studies!Before(x, w)
<1>1. b.of \in Studies!Weights /\ b.paid = 0 /\ b.unit = Studies!Whole
  BY DEF Studies!Before, Past
<1>2. Studies!Worth(b) = Studies!Whole
  <2> HIDE DEF b
  <2> QED BY <1>1, WeightsSum, StudiesSum DEF Studies!Worth
<1> HIDE DEF b
<1>3. Balanced(b)
  BY <1>1, <1>2, WeightsSum DEF Balanced
<1> QED BY <1>3 DEF b

\* Where no price moves, what is lost is what was paid, at every close.
LEMMA CostsAreWhatIsLost ==
  ASSUME NEW x \in Histories
  PROVE  Studies!OnlyCostsAreLost(x)
<1> DEFINE n == Studies!Evaluated(x)
           W == Studies!WalkForward(x)
<1>1. x \in Past
  BY StudiesAssumption DEF Past
<1> SUFFICES ASSUME W # Refused, \A p \in 1..n : \A a \in Assets : Studies!Evaluation(x, p).gross[a] = 1,
                    NEW p \in 1..n, NEW name \in Studies!Scenarios(x)
             PROVE  Studies!Worth(W[p].held[name]) = W[p].held[name].unit - W[p].held[name].paid
  BY DEF Studies!OnlyCostsAreLost
<1>2. /\ Studies!Admitted(x)
      /\ \A q \in 1..n : W[q] = Studies!Reviewed(x, W[q - 1], q)
  BY <1>1, WalkUnfolds
<1>3. n \in Nat
  BY <1>1, <1>2, RowsOfAHistory
<1> DEFINE T == {q \in Nat : q \in 1..n => Balanced(W[q].held[name])}
<1>4. ASSUME NEW q \in 1..n, q # 1 => Balanced(W[q - 1].held[name])
      PROVE  Balanced(W[q].held[name])
  <2> DEFINE s == W[q - 1]
             row == Studies!Evaluation(x, q)
             review == q = 1 \/ row.day >= s.next
             traded == {m \in Studies!Scenarios(x) : review /\ (q = 1 \/ m # "current")}
             weights == [m \in traded |-> Studies!Allocation(x, Studies!History(x, q), m)]
             before(m) == IF q = 1 THEN Studies!Before(x, weights[m]) ELSE s.held[m]
             bought(m) == IF m \in traded THEN Studies!Rebalanced(x, before(m), weights[m]) ELSE s.held[m]
             new == Studies!Reviewed(x, s, q)
  <2>1. new.held = [m \in Studies!Scenarios(x) |-> Studies!Grown(bought(m), row)]
    BY DEF Studies!Reviewed
  <2>2. new.held[name] = Studies!Grown(bought(name), row)
    <3> HIDE DEF bought, new
    <3> QED BY <2>1
  <2>3. Balanced(bought(name))
    <3>1. CASE name \in traded
      <4>1. weights[name] \in Studies!Weights
        <5>1. weights[name] = Studies!Allocation(x, Studies!History(x, q), name)
          BY <3>1
        <5> HIDE DEF weights
        <5> QED BY <1>2, <5>1, AllocationsAreWeights
      <4>2. Balanced(before(name))
        <5> HIDE DEF weights, s, traded
        <5>1. CASE q = 1
          BY <1>1, <4>1, <5>1, BeforeIsBalanced
        <5>2. CASE q # 1
          BY <1>4, <5>2 DEF s
        <5> QED BY <5>1, <5>2
      <4>3. bought(name) = Studies!Rebalanced(x, before(name), weights[name])
        BY <3>1
      <4> HIDE DEF bought, before, weights, traded
      <4> QED BY <1>1, <4>1, <4>2, <4>3, RebalancedIsBalanced
    <3>2. CASE name \notin traded
      <4>1. q # 1
        BY <3>2
      <4>2. bought(name) = s.held[name]
        BY <3>2
      <4> HIDE DEF bought, traded
      <4> QED BY <1>4, <4>1, <4>2
    <3> QED BY <3>1, <3>2
  <2>4. \A a \in Assets : row.gross[a] = 1
    OBVIOUS
  <2>5. Balanced(new.held[name])
    <3> HIDE DEF bought, row, new
    <3> QED BY <2>2, <2>3, <2>4, QuietIsBalanced
  <2>6. W[q] = new
    BY <1>2
  <2> HIDE DEF new
  <2> QED BY <2>5, <2>6
<1> HIDE DEF W
<1>5. 0 \in T
  OBVIOUS
<1>6. ASSUME NEW q \in T
      PROVE  q + 1 \in T
  <2> SUFFICES ASSUME q + 1 \in 1..n
               PROVE  Balanced(W[q + 1].held[name])
    OBVIOUS
  <2>1. q \in Nat /\ (q + 1) - 1 = q /\ (q + 1 # 1 => q \in 1..n)
    BY <1>3
  <2>2. q + 1 # 1 => Balanced(W[(q + 1) - 1].held[name])
    BY <2>1
  <2> HIDE DEF T
  <2> QED BY <1>4, <2>2
<1>7. T = Nat
  <2>1. T \in SUBSET Nat
    OBVIOUS
  <2> HIDE DEF T
  <2> QED BY <1>5, <1>6, <2>1, NatSetInduction
<1>8. Balanced(W[p].held[name])
  <2>1. p \in T
    <3> HIDE DEF T
    <3> QED BY <1>3, <1>7
  <2> QED BY <2>1
<1> DEFINE h == W[p].held[name]
           v == Studies!Worth(h)
<1>9. v + h.paid = h.unit /\ h.paid \in Int /\ h.unit \in Int /\ v \in Int
  <2>1. SumFunctionOnSet(h.of, Assets) \in Int
    <3> DEFINE f == h.of
    <3>1. \A a \in Assets : f[a] \in Int
      BY <1>8 DEF Balanced
    <3> HIDE DEF f
    <3>2. SumFunctionOnSet(f, Assets) \in Int
      BY <3>1, AssetsAssumption, SumIsInt
    <3> QED BY <3>2 DEF f
  <2> QED BY <1>8, <2>1, StudiesSum DEF Balanced, Studies!Worth
<1> HIDE DEF h, v
<1>10. v = h.unit - h.paid
  BY <1>9
<1> QED BY <1>10 DEF h, v

-----------------------------------------------------------------------------
\* For any history, whatever the optimizer answers: no study uses a return before
\* its day, the reviews are those of the plan, a walk without them is the study of
\* one cut, and where no price moves nothing but the costs is lost.
THEOREM StudiesAreHonest == EstimatesSpec => []StudiesLookBack
<1>1. ASSUME EstimatesInv, Answered("history")
      PROVE  /\ Studies!LooksBack(input) /\ Studies!ReviewsAreAsPlanned(input)
             /\ Studies!OneReviewIsOneCut(input) /\ Studies!OnlyCostsAreLost(input)
  <2>1. input \in Histories /\ input \in Past
    BY <1>1, StudiesAssumption DEF Answered, EstimatesInv, Questions, Past
  <2>2. Studies!LooksBack(input)
    BY <2>1, WalksLookBack, CutsLookBack DEF Studies!LooksBack
  <2> QED BY <2>1, <2>2, ReviewsArePlanned, OneReview, CostsAreWhatIsLost
<1>2. EstimatesInv => StudiesLookBack
  BY <1>1 DEF StudiesLookBack
<1> QED BY <1>2, EstimatesAreAnswers, PTL

-----------------------------------------------------------------------------
(* Part 3: the performance of several accounts. *)

Worlds == [closings : Seq(ClosingRows), rates : Seq(RateRows), flows : Seq(WealthFlows),
           base : Currencies, growth : Seq(Nat), value : [AccountIds -> Seq(Int)],
           money : [AccountIds -> Currencies], fx : [Currencies -> Int]]

\* What an account is worth in the base, and all of them together.
InMoney(x, a) == x.fx[x.money[a]]
ValueOf(x, day) == [a \in Fortune!Accounts(x.closings) |-> x.value[a][day] * InMoney(x, a)]
WorthAt(x, day) == SumFunctionOnSet(ValueOf(x, day), Fortune!Accounts(x.closings))

\* What flows move, in the base, at the opening of a day or later.
InBaseOf(x) == [i \in DOMAIN x.flows |-> Fortune!Into(x.flows[i]) * InMoney(x, x.flows[i].account)]
Moment(x, day, early) == {i \in Fortune!OfDay(x.flows, day) : Fortune!Early(x.flows[i]) = early}
MovedAt(x, day, early) == SumFunctionOnSet(InBaseOf(x), Moment(x, day, early))

Holding(x) ==
  /\ x \in Worlds /\ Fortune!HoldsTheMarket(x)
  /\ \A i \in DOMAIN x.flows : x.flows[i].account \in Fortune!Accounts(x.closings)

LEMMA FortuneTotals ==
  /\ \A f : Fortune!Total(f) = SumFunctionOnSet(f, DOMAIN f)
  /\ \A S : Fortune!Cardinality(S) = Cardinality(S)
<1>1. \A f : Fortune!Total(f) = SumFunctionOnSet(f, DOMAIN f)
  BY DEF Fortune!Total, Fortune!SumFunction, Fortune!SumFunctionOnSet, Fortune!FoldFunctionOnSet, Fortune!MapThenFoldSet,
         SumFunctionOnSet, FoldFunctionOnSet, MapThenFoldSet
<1>2. \A S : Fortune!Cardinality(S) = Cardinality(S)
  BY DEF Fortune!Cardinality, Cardinality
<1> QED BY <1>1, <1>2

\* The rows of a world.
LEMMA WorldIs ==
  ASSUME NEW x \in Worlds
  PROVE  /\ IsFiniteSet(DOMAIN x.closings) /\ IsFiniteSet(DOMAIN x.flows)
         /\ \A i \in DOMAIN x.closings : x.closings[i] \in ClosingRows
         /\ \A i \in DOMAIN x.rates : x.rates[i] \in RateRows
         /\ \A i \in DOMAIN x.flows : x.flows[i] \in WealthFlows
         /\ Len(x.growth) \in Nat /\ DOMAIN x.growth = 1..Len(x.growth)
         /\ \A d \in DOMAIN x.growth : x.growth[d] \in Nat
         /\ \A a \in AccountIds : InMoney(x, a) \in Int /\ \A d \in DOMAIN x.value[a] : x.value[a][d] \in Int
         /\ IsFiniteSet(Fortune!Accounts(x.closings)) /\ Fortune!Accounts(x.closings) \subseteq AccountIds
         /\ IsFiniteSet(Fortune!Days(x.closings)) /\ Fortune!Days(x.closings) \subseteq Int
<1>1. /\ x.closings \in Seq(ClosingRows) /\ x.rates \in Seq(RateRows) /\ x.flows \in Seq(WealthFlows)
      /\ x.growth \in Seq(Nat) /\ x.value \in [AccountIds -> Seq(Int)] /\ x.money \in [AccountIds -> Currencies]
      /\ x.fx \in [Currencies -> Int]
  BY DEF Worlds
<1>2. /\ DOMAIN x.closings = 1..Len(x.closings) /\ Len(x.closings) \in Nat
      /\ DOMAIN x.flows = 1..Len(x.flows) /\ Len(x.flows) \in Nat
      /\ Len(x.growth) \in Nat /\ DOMAIN x.growth = 1..Len(x.growth)
  BY <1>1
<1>3. IsFiniteSet(DOMAIN x.closings) /\ IsFiniteSet(DOMAIN x.flows)
  <2>1. \A n \in Nat : IsFiniteSet(1..n)
    BY FS_Interval
  <2> QED BY <1>2, <2>1
<1>4. /\ \A i \in DOMAIN x.closings : x.closings[i] \in ClosingRows
      /\ \A i \in DOMAIN x.rates : x.rates[i] \in RateRows
      /\ \A i \in DOMAIN x.flows : x.flows[i] \in WealthFlows
      /\ \A d \in DOMAIN x.growth : x.growth[d] \in Nat
  BY <1>1
<1>5. \A a \in AccountIds : InMoney(x, a) \in Int /\ \A d \in DOMAIN x.value[a] : x.value[a][d] \in Int
  <2> SUFFICES ASSUME NEW a \in AccountIds
               PROVE  InMoney(x, a) \in Int /\ \A d \in DOMAIN x.value[a] : x.value[a][d] \in Int
    OBVIOUS
  <2>1. x.value[a] \in Seq(Int)
    BY <1>1
  <2>2. x.money[a] \in Currencies
    BY <1>1
  <2>3. x.fx[x.money[a]] \in Int
    BY <1>1, <2>2
  <2> QED BY <2>1, <2>3 DEF InMoney
<1>6. IsFiniteSet(Fortune!Accounts(x.closings)) /\ Fortune!Accounts(x.closings) \subseteq AccountIds
  <2> DEFINE g == [i \in DOMAIN x.closings |-> x.closings[i].account]
  <2>1. Fortune!Accounts(x.closings) = {g[i] : i \in DOMAIN x.closings}
    BY DEF Fortune!Accounts
  <2> HIDE DEF g
  <2>2. IsFiniteSet(Fortune!Accounts(x.closings))
    BY <1>3, <2>1, ImagesAreFinite
  <2> QED BY <1>4, <2>2 DEF Fortune!Accounts, ClosingRows
<1>7. IsFiniteSet(Fortune!Days(x.closings)) /\ Fortune!Days(x.closings) \subseteq Int
  <2> DEFINE g == [i \in DOMAIN x.closings |-> x.closings[i].day]
  <2>1. Fortune!Days(x.closings) = {g[i] : i \in DOMAIN x.closings}
    BY DEF Fortune!Days
  <2> HIDE DEF g
  <2>2. IsFiniteSet(Fortune!Days(x.closings))
    BY <1>3, <2>1, ImagesAreFinite
  <2> QED BY <1>4, <2>2 DEF Fortune!Days, ClosingRows
<1> QED BY <1>2, <1>3, <1>4, <1>5, <1>6, <1>7

\* What is moved is an integer of a finite set of flows.
LEMMA FlowsMoveIntegers ==
  ASSUME NEW x, Holding(x)
  PROVE  /\ \A i \in DOMAIN x.flows : /\ Fortune!Into(x.flows[i]) \in Int /\ InBaseOf(x)[i] \in Int
                                      /\ x.flows[i].account \in AccountIds /\ x.flows[i].day \in Int
         /\ \A day, early : IsFiniteSet(Moment(x, day, early)) /\ Moment(x, day, early) \subseteq DOMAIN x.flows
<1>1. x \in Worlds
  BY DEF Holding
<1>2. \A i \in DOMAIN x.flows :
        /\ x.flows[i].amount \in Int /\ x.flows[i].account \in AccountIds /\ x.flows[i].day \in Int
  BY <1>1, WorldIs DEF WealthFlows
<1>3. \A i \in DOMAIN x.flows : Fortune!Into(x.flows[i]) \in Int /\ InMoney(x, x.flows[i].account) \in Int
  BY <1>1, <1>2, WorldIs DEF Fortune!Into
<1>4. \A i \in DOMAIN x.flows : InBaseOf(x)[i] \in Int
  BY <1>3 DEF InBaseOf
<1>5. \A day, early : IsFiniteSet(Moment(x, day, early)) /\ Moment(x, day, early) \subseteq DOMAIN x.flows
  <2> SUFFICES ASSUME NEW day, NEW early
               PROVE  IsFiniteSet(Moment(x, day, early)) /\ Moment(x, day, early) \subseteq DOMAIN x.flows
    OBVIOUS
  <2>1. Moment(x, day, early) \subseteq DOMAIN x.flows
    BY DEF Moment, Fortune!OfDay
  <2> QED BY <1>1, <2>1, WorldIs, FS_Subset
<1> QED BY <1>2, <1>3, <1>4, <1>5

\* What is moved at a moment, account by account.
LEMMA MovedByAccounts ==
  ASSUME NEW x, Holding(x), NEW day, NEW early
  PROVE  LET A == Fortune!Accounts(x.closings)
         IN /\ \A a \in A : Fortune!MovedBy(x, a, day, early) \in Int
            /\ MovedAt(x, day, early) =
                 SumFunctionOnSet([a \in A |-> Fortune!MovedBy(x, a, day, early) * InMoney(x, a)], A)
            /\ MovedAt(x, day, early) \in Int
<1> DEFINE A == Fortune!Accounts(x.closings)
           S == Moment(x, day, early)
           g == InBaseOf(x)
           by == [i \in DOMAIN x.flows |-> x.flows[i].account]
           m(a) == Fortune!MovedBy(x, a, day, early)
           target == [a \in A |-> m(a) * InMoney(x, a)]
           sums == SumsBy(g, S, by, A)
<1>1. IsFiniteSet(A) /\ A \subseteq AccountIds /\ IsFiniteSet(S) /\ S \subseteq DOMAIN x.flows
  BY WorldIs, FlowsMoveIntegers DEF Holding
<1>2. \A i \in S : g[i] \in Int
  BY <1>1, FlowsMoveIntegers
<1>3. \A a \in A : m(a) \in Int /\ sums[a] = m(a) * InMoney(x, a) /\ InMoney(x, a) \in Int
  <2> SUFFICES ASSUME NEW a \in A
               PROVE  m(a) \in Int /\ sums[a] = m(a) * InMoney(x, a) /\ InMoney(x, a) \in Int
    OBVIOUS
  <2> DEFINE P == {f \in Fortune!OfDay(x.flows, day) : x.flows[f].account = a /\ Fortune!Early(x.flows[f]) = early}
             f == [i \in P |-> Fortune!Into(x.flows[i])]
  <2>1. P = Grouped(S, by, {a}) /\ P \subseteq S
    BY DEF Grouped, Moment, Fortune!OfDay
  <2>2. IsFiniteSet(P)
    BY <1>1, <2>1, FS_Subset
  <2>3. InMoney(x, a) \in Int
    BY <1>1, WorldIs DEF Holding
  <2>4. \A i \in P : f[i] \in Int /\ g[i] = f[i] * InMoney(x, a)
    BY <1>1, <2>1, FlowsMoveIntegers DEF InBaseOf
  <2>5. m(a) = SumFunctionOnSet(f, P)
    BY FortuneTotals DEF Fortune!MovedBy
  <2>6. sums[a] = SumFunctionOnSet(g, P)
    BY <2>1 DEF SumsBy
  <2> HIDE DEF P, f, g, sums
  <2>7. SumFunctionOnSet(g, P) = SumFunctionOnSet(f, P) * InMoney(x, a)
    BY <2>2, <2>3, <2>4, SumTimes
  <2>8. SumFunctionOnSet(f, P) \in Int
    BY <2>2, <2>4, SumIsInt
  <2> QED BY <2>3, <2>5, <2>6, <2>7, <2>8
<1>4. SumFunctionOnSet(sums, A) = SumFunctionOnSet(g, Grouped(S, by, A))
  <2> HIDE DEF S, g, by, A
  <2> QED BY <1>1, <1>2, SumOfGroups
<1>5. Grouped(S, by, A) = S
  BY <1>1 DEF Grouped, Holding
<1>6. \A a \in A : sums[a] \in Int /\ target[a] = sums[a]
  <2> HIDE DEF sums, m
  <2> QED BY <1>3
<1>7. SumFunctionOnSet(sums, A) = SumFunctionOnSet(target, A) /\ SumFunctionOnSet(sums, A) \in Int
  <2> HIDE DEF sums, target, A
  <2> QED BY <1>1, <1>6, SumSame
<1> QED BY <1>3, <1>4, <1>5, <1>7 DEF MovedAt

\* Together they grow as the thing they hold.
LEMMA WorthGrows ==
  ASSUME NEW x, Holding(x), NEW day \in 2..Len(x.growth)
  PROVE  /\ WorthAt(x, day) \in Int /\ WorthAt(x, day - 1) \in Int /\ x.growth[day] \in Int
         /\ MovedAt(x, day, TRUE) \in Int /\ MovedAt(x, day, FALSE) \in Int
         /\ WorthAt(x, day) = (WorthAt(x, day - 1) + MovedAt(x, day, TRUE)) * x.growth[day] + MovedAt(x, day, FALSE)
<1> DEFINE A == Fortune!Accounts(x.closings)
           k == x.growth[day]
           e(a) == Fortune!MovedBy(x, a, day, TRUE)
           l(a) == Fortune!MovedBy(x, a, day, FALSE)
           first == [a \in A |-> e(a) * InMoney(x, a)]
           rest == [a \in A |-> l(a) * InMoney(x, a)]
           before == ValueOf(x, day - 1)
           after == ValueOf(x, day)
           opened == [a \in A |-> before[a] + first[a]]
           grown == [a \in A |-> opened[a] * k]
<1>1. /\ IsFiniteSet(A) /\ A \subseteq AccountIds /\ Len(x.growth) \in Nat
      /\ DOMAIN x.growth = 1..Len(x.growth) /\ x.growth[day] \in Int
  BY WorldIs DEF Holding
<1>2. \A a \in A : /\ DOMAIN x.value[a] = DOMAIN x.growth
                   /\ x.value[a][day] = (x.value[a][day - 1] + e(a)) * k + l(a)
  BY DEF Holding, Fortune!HoldsTheMarket
<1>3. \A a \in A : /\ InMoney(x, a) \in Int /\ x.value[a][day] \in Int /\ x.value[a][day - 1] \in Int
                   /\ e(a) \in Int /\ l(a) \in Int
  <2>1. day \in DOMAIN x.growth /\ day - 1 \in DOMAIN x.growth
    BY <1>1
  <2>2. \A a \in A : InMoney(x, a) \in Int /\ \A d \in DOMAIN x.value[a] : x.value[a][d] \in Int
    BY <1>1, WorldIs DEF Holding
  <2>3. \A a \in A : e(a) \in Int /\ l(a) \in Int
    BY MovedByAccounts
  <2> HIDE DEF e, l
  <2> QED BY <1>2, <2>1, <2>2, <2>3
<1>4. \A a \in A : /\ before[a] \in Int /\ first[a] \in Int /\ rest[a] \in Int /\ opened[a] \in Int /\ grown[a] \in Int
                   /\ opened[a] = before[a] + first[a] /\ grown[a] = opened[a] * k /\ after[a] = grown[a] + rest[a]
  <2> SUFFICES ASSUME NEW a \in A
               PROVE  /\ before[a] \in Int /\ first[a] \in Int /\ rest[a] \in Int /\ opened[a] \in Int /\ grown[a] \in Int
                      /\ opened[a] = before[a] + first[a] /\ grown[a] = opened[a] * k /\ after[a] = grown[a] + rest[a]
    OBVIOUS
  <2> DEFINE v == x.value[a][day - 1]
             w == x.value[a][day]
             c == InMoney(x, a)
             i == e(a)
             j == l(a)
  <2>1. /\ before[a] = v * c /\ first[a] = i * c /\ rest[a] = j * c /\ after[a] = w * c
        /\ opened[a] = before[a] + first[a] /\ grown[a] = opened[a] * k
    BY DEF ValueOf
  <2>2. v \in Int /\ w \in Int /\ c \in Int /\ i \in Int /\ j \in Int /\ k \in Int /\ w = (v + i) * k + j
    BY <1>1, <1>2, <1>3
  <2> HIDE DEF v, w, c, i, j, k, before, first, rest, after, opened, grown
  <2>3. before[a] \in Int /\ first[a] \in Int /\ rest[a] \in Int /\ opened[a] \in Int /\ grown[a] \in Int
    <3>1. v * c \in Int /\ i * c \in Int /\ j * c \in Int
      BY <2>2
    <3>2. before[a] \in Int /\ first[a] \in Int /\ rest[a] \in Int
      BY <2>1, <3>1
    <3>3. opened[a] \in Int
      BY <2>1, <3>2
    <3>4. opened[a] * k \in Int
      BY <2>2, <3>3
    <3> QED BY <2>1, <3>2, <3>3, <3>4
  <2>4. w * c = (v * c + i * c) * k + j * c
    <3> DEFINE o == v + i
    <3>1. o \in Int /\ v * c + i * c = o * c /\ w = o * k + j
      BY <2>2
    <3> HIDE DEF o
    <3>2. (o * k + j) * c = (o * k) * c + j * c /\ (o * k) * c = (o * c) * k
      <4> DEFINE p == o * k
      <4>1. p \in Int
        BY <2>2, <3>1
      <4> HIDE DEF p
      <4>2. (p + j) * c = p * c + j * c
        BY <2>2, <4>1
      <4> QED BY <2>2, <3>1, <4>2 DEF p
    <3> QED BY <3>1, <3>2
  <2> QED BY <2>1, <2>3, <2>4
<1> HIDE DEF A, k, first, rest, before, after, opened, grown
<1>5. SumFunctionOnSet(opened, A) = SumFunctionOnSet(before, A) + SumFunctionOnSet(first, A)
  BY <1>1, <1>4, SumOfSums
<1>6. SumFunctionOnSet(grown, A) = SumFunctionOnSet(opened, A) * k
  BY <1>1, <1>4, SumTimes DEF k
<1>7. SumFunctionOnSet(after, A) = SumFunctionOnSet(grown, A) + SumFunctionOnSet(rest, A)
  BY <1>1, <1>4, SumOfSums
<1>8. /\ SumFunctionOnSet(before, A) \in Int /\ SumFunctionOnSet(first, A) \in Int /\ SumFunctionOnSet(rest, A) \in Int
      /\ SumFunctionOnSet(grown, A) \in Int
  BY <1>1, <1>4, SumIsInt
<1>9. WorthAt(x, day) = SumFunctionOnSet(after, A) /\ WorthAt(x, day - 1) = SumFunctionOnSet(before, A)
  BY DEF WorthAt, after, before, A
<1>10. MovedAt(x, day, TRUE) = SumFunctionOnSet(first, A) /\ MovedAt(x, day, FALSE) = SumFunctionOnSet(rest, A)
  BY MovedByAccounts DEF A, first, rest
<1>11. /\ WorthAt(x, day) \in Int /\ WorthAt(x, day - 1) \in Int /\ x.growth[day] \in Int
       /\ MovedAt(x, day, TRUE) \in Int /\ MovedAt(x, day, FALSE) \in Int
  <2>1. SumFunctionOnSet(after, A) \in Int
    BY <1>7, <1>8
  <2>2. WorthAt(x, day) \in Int /\ WorthAt(x, day - 1) \in Int
    BY <1>8, <1>9, <2>1
  <2>3. MovedAt(x, day, TRUE) \in Int /\ MovedAt(x, day, FALSE) \in Int
    BY MovedByAccounts
  <2> QED BY <1>1, <2>2, <2>3
<1> DEFINE o == SumFunctionOnSet(opened, A)
           w == WorthAt(x, day)
           u == WorthAt(x, day - 1)
           m == MovedAt(x, day, TRUE)
           n == MovedAt(x, day, FALSE)
<1>12. w = o * k + n /\ o = u + m
  BY <1>5, <1>6, <1>7, <1>9, <1>10
<1> HIDE DEF o, w, u, m, n
<1>13. w = (u + m) * k + n
  BY <1>12
<1> QED BY <1>11, <1>13 DEF k, w, u, m, n

\* A closing is of its account, at the rate of its currency.
LEMMA CloseIsWorth ==
  ASSUME NEW x, Holding(x), Refused \notin Int, NEW d \in Fortune!Days(x.closings),
         {x.closings[i].account : i \in Fortune!OfDay(x.closings, d)} = Fortune!Accounts(x.closings),
         \A i, j \in DOMAIN x.closings :
           x.closings[i].day = x.closings[j].day /\ x.closings[i].account = x.closings[j].account => i = j,
         Fortune!InBase(x.closings, x.rates, d, x.base) # Refused
  PROVE  /\ Fortune!InBase(x.closings, x.rates, d, x.base) = WorthAt(x, d)
         /\ d \in DOMAIN x.growth /\ WorthAt(x, d) \in Int /\ WorthAt(x, d) > 0
<1> DEFINE S == Fortune!OfDay(x.closings, d)
           A == Fortune!Accounts(x.closings)
           f == [c \in S |-> x.closings[c].nav * Fortune!Rate(x.rates, d, x.closings[c].currency, x.base)]
           g == ValueOf(x, d)
           r == [c \in S |-> x.closings[c].account]
<1>1. x \in Worlds /\ Fortune!HoldsTheMarket(x)
  BY DEF Holding
<1>2. S \subseteq DOMAIN x.closings /\ IsFiniteSet(S) /\ \A c \in S : x.closings[c].day = d
  BY <1>1, WorldIs, FS_Subset DEF Fortune!OfDay
<1>3. /\ Fortune!RatesFit(x.rates, d) /\ Fortune!Covered(x.closings, x.rates, d, x.base)
      /\ Fortune!InBase(x.closings, x.rates, d, x.base) = Fortune!Total(f) /\ ~(Fortune!Total(f) <= 0)
  BY DEF Fortune!InBase
<1>4. \A c \in S : Fortune!Rate(x.rates, d, x.closings[c].currency, x.base) = x.fx[x.closings[c].currency]
  <2> SUFFICES ASSUME NEW c \in S
               PROVE  Fortune!Rate(x.rates, d, x.closings[c].currency, x.base) = x.fx[x.closings[c].currency]
    OBVIOUS
  <2> DEFINE u == x.closings[c].currency
             Q == Fortune!Quotes(x.rates, d, u, x.base)
  <2>1. CASE u = x.base
    BY <1>1, <2>1 DEF Fortune!HoldsTheMarket, Fortune!Rate
  <2>2. CASE u # x.base
    <3>1. Q # {}
      BY <1>3, <2>2 DEF Fortune!Covered
    <3>2. \A i \in Q : x.rates[i].rate = x.fx[u]
      BY <1>1 DEF Fortune!HoldsTheMarket, Fortune!Quotes, Fortune!OfDay
    <3>3. Fortune!Rate(x.rates, d, u, x.base) = x.rates[CHOOSE i \in Q : TRUE].rate
      BY <2>2 DEF Fortune!Rate
    <3>4. (CHOOSE i \in Q : TRUE) \in Q
      BY <3>1
    <3> HIDE DEF Q, u
    <3> QED BY <3>2, <3>3, <3>4 DEF u
  <2> QED BY <2>1, <2>2
<1>5. \A c \in S : /\ r[c] \in A /\ f[c] = x.value[r[c]][d] * InMoney(x, r[c])
                   /\ d \in DOMAIN x.growth
  <2> SUFFICES ASSUME NEW c \in S
               PROVE  r[c] \in A /\ f[c] = x.value[r[c]][d] * InMoney(x, r[c]) /\ d \in DOMAIN x.growth
    OBVIOUS
  <2>1. /\ d \in DOMAIN x.growth /\ x.closings[c].currency = x.money[x.closings[c].account]
        /\ x.closings[c].nav = x.value[x.closings[c].account][d]
    BY <1>1, <1>2 DEF Fortune!HoldsTheMarket
  <2>2. r[c] \in A
    BY <1>2 DEF Fortune!Accounts
  <2> QED BY <1>4, <2>1, <2>2 DEF InMoney
<1>6. \A a \in A : x.value[a][d] * InMoney(x, a) \in Int
  <2>1. d \in DOMAIN x.growth
    BY <1>5 DEF Fortune!Days, Fortune!OfDay
  <2> SUFFICES ASSUME NEW a \in A PROVE x.value[a][d] * InMoney(x, a) \in Int
    OBVIOUS
  <2>2. a \in AccountIds /\ d \in DOMAIN x.value[a]
    BY <1>1, <2>1, WorldIs DEF Fortune!HoldsTheMarket
  <2>3. x.value[a][d] \in Int /\ InMoney(x, a) \in Int
    BY <1>1, <2>2, WorldIs
  <2> QED BY <2>3
<1>7. Renames(r, S, A) /\ Carries(r, S, f, g)
  <2>1. Renames(r, S, A)
    <3>1. \A c, e \in S : r[c] = r[e] => c = e
      BY <1>2
    <3>2. A = {x.closings[i].account : i \in S}
      OBVIOUS
    <3> HIDE DEF S, A
    <3>3. \A y \in A : \E c \in S : y = r[c]
      BY <3>2
    <3> QED BY <1>5, <3>1, <3>3 DEF Renames
  <2>2. Carries(r, S, f, g)
    <3>1. \A c \in S : f[c] \in Int /\ g[r[c]] = f[c]
      BY <1>5, <1>6 DEF ValueOf
    <3> HIDE DEF S, f, g, r
    <3> QED BY <3>1 DEF Carries
  <2> QED BY <2>1, <2>2
<1>8. SumFunctionOnSet(f, S) = WorthAt(x, d)
  <2> HIDE DEF S, A, f, g, r
  <2>1. SumFunctionOnSet(f, S) = SumFunctionOnSet(g, A)
    BY <1>2, <1>7, SumRenamed
  <2> QED BY <2>1 DEF WorthAt, g, A
<1>9. Fortune!Total(f) = SumFunctionOnSet(f, S) /\ SumFunctionOnSet(f, S) \in Int
  <2>1. DOMAIN f = S /\ \A c \in S : f[c] \in Int
    BY <1>5, <1>6
  <2> HIDE DEF f, S
  <2> QED BY <1>2, <2>1, FortuneTotals, SumIsInt
<1>10. d \in DOMAIN x.growth
  BY <1>5 DEF Fortune!Days, Fortune!OfDay
<1> HIDE DEF f, S
<1> QED BY <1>3, <1>8, <1>9, <1>10

\* A set of two elements, and a set of one.
LEMMA PairIs ==
  ASSUME NEW S, IsFiniteSet(S)
  PROVE  /\ Cardinality(S) = 2 => \A a, b \in S : a # b => S = {a, b}
         /\ Cardinality(S) = 1 => \A a, b \in S : a = b
<1>1. ASSUME NEW T, IsFiniteSet(T), Cardinality(T) = 1, NEW a \in T, NEW b \in T
      PROVE  a = b
  <2>1. IsFiniteSet(T \ {a}) /\ Cardinality(T \ {a}) = 0
    BY <1>1, FS_RemoveElement
  <2>2. T \ {a} = {}
    BY <2>1, FS_EmptySet
  <2> QED BY <2>2
<1>2. ASSUME Cardinality(S) = 2, NEW a \in S, NEW b \in S, a # b
      PROVE  S = {a, b}
  <2>1. IsFiniteSet(S \ {a}) /\ Cardinality(S \ {a}) = 1
    BY <1>2, FS_RemoveElement
  <2>2. \A c \in S \ {a} : c = b
    BY <1>1, <1>2, <2>1
  <2> QED BY <1>2, <2>2
<1> QED BY <1>1, <1>2

\* The legs of a moment are worth nothing together: each one that goes out has
\* the one that comes in for partner.
LegsVerified(x) == \A i \in Fortune!Legs(x.flows) : Fortune!Verified(x.flows, i) /\ x.flows[i].kind \in Fortune!FlowKinds
GoingOut(x, S) == {i \in S : x.flows[i].kind = "TRANSFER_OUT"}
ComingIn(x, S) == {i \in S : x.flows[i].kind = "TRANSFER_IN"}
Partner(x, i) == CHOOSE j \in Fortune!Group(x.flows, i) : x.flows[j].kind = "TRANSFER_IN"
Opposite(x, i) == CHOOSE j \in Fortune!Group(x.flows, i) : x.flows[j].kind = "TRANSFER_OUT"

LEMMA GroupIs ==
  ASSUME NEW x, Holding(x), LegsVerified(x), NEW i \in Fortune!Legs(x.flows)
  PROVE  LET G == Fortune!Group(x.flows, i)
         IN /\ i \in G /\ G \subseteq Fortune!Legs(x.flows)
            /\ \A j \in G : Fortune!Group(x.flows, j) = G
            /\ \A j \in G : /\ x.flows[j].day = x.flows[i].day /\ x.flows[j].currency = x.flows[i].currency
                            /\ x.flows[j].amount = x.flows[i].amount
                            /\ Fortune!Early(x.flows[j]) = Fortune!Early(x.flows[i])
            /\ \A j, k \in G : x.flows[j].kind = x.flows[k].kind => j = k
            /\ {x.flows[j].kind : j \in G} = Fortune!TransferKinds
<1> DEFINE G == Fortune!Group(x.flows, i)
           kinds == {x.flows[j].kind : j \in G}
           amounts == {x.flows[j].amount : j \in G}
           f == [j \in G |-> x.flows[j].amount]
<1>1. /\ Cardinality(G) = 2 /\ kinds = Fortune!TransferKinds /\ Cardinality(amounts) = 1
  BY FortuneTotals DEF LegsVerified, Fortune!Verified
<1>2. i \in G /\ G \subseteq Fortune!Legs(x.flows) /\ G \subseteq DOMAIN x.flows
  BY DEF Fortune!Group, Fortune!Legs
<1>3. IsFiniteSet(G)
  BY <1>2, WorldIs, FS_Subset DEF Holding
<1>4. \A j \in G : Fortune!Group(x.flows, j) = G
  BY DEF Fortune!Group
<1>5. \A j \in G : /\ x.flows[j].day = x.flows[i].day /\ x.flows[j].currency = x.flows[i].currency
  BY DEF Fortune!Group
<1>6. \A j \in G : x.flows[j].amount = x.flows[i].amount
  <2>1. amounts = {f[j] : j \in G}
    OBVIOUS
  <2>2. IsFiniteSet(amounts)
    <3> HIDE DEF amounts, f, G
    <3> QED BY <1>3, <2>1, ImagesAreFinite
  <2>3. \A a, b \in amounts : a = b
    <3> HIDE DEF amounts
    <3> QED BY <1>1, <2>2, PairIs
  <2> QED BY <1>2, <2>3
<1>7. \A j \in G : Fortune!Early(x.flows[j]) = Fortune!Early(x.flows[i])
  <2>1. i \in DOMAIN x.flows /\ Fortune!HoldsTheMarket(x)
    BY DEF Holding, Fortune!Legs
  <2> QED BY <2>1 DEF Fortune!HoldsTheMarket
<1>8. ASSUME NEW j \in G, NEW k \in G, x.flows[j].kind = x.flows[k].kind
      PROVE  j = k
  <2>1. CASE j # k
    <3>1. G = {j, k}
      BY <1>1, <1>3, <2>1, PairIs
    <3>2. kinds = {x.flows[j].kind}
      <4> HIDE DEF G
      <4> QED BY <1>8, <3>1
    <3>3. kinds = {"TRANSFER_IN", "TRANSFER_OUT"}
      BY <1>1 DEF Fortune!TransferKinds
    <3>4. "TRANSFER_IN" # "TRANSFER_OUT"
      OBVIOUS
    <3> HIDE DEF kinds
    <3> QED BY <3>2, <3>3, <3>4
  <2> QED BY <2>1
<1> HIDE DEF G, amounts
<1> QED BY <1>1, <1>2, <1>4, <1>5, <1>6, <1>7, <1>8 DEF G

LEMMA PartnersAre ==
  ASSUME NEW x, Holding(x), LegsVerified(x), NEW i \in Fortune!Legs(x.flows)
  PROVE  /\ Partner(x, i) \in Fortune!Group(x.flows, i) /\ x.flows[Partner(x, i)].kind = "TRANSFER_IN"
         /\ Opposite(x, i) \in Fortune!Group(x.flows, i) /\ x.flows[Opposite(x, i)].kind = "TRANSFER_OUT"
<1>1. {x.flows[j].kind : j \in Fortune!Group(x.flows, i)} = {"TRANSFER_IN", "TRANSFER_OUT"}
  <2>1. {x.flows[j].kind : j \in Fortune!Group(x.flows, i)} = Fortune!TransferKinds
    BY GroupIs
  <2> QED BY <2>1 DEF Fortune!TransferKinds
<1>2. /\ \E j \in Fortune!Group(x.flows, i) : x.flows[j].kind = "TRANSFER_IN"
      /\ \E j \in Fortune!Group(x.flows, i) : x.flows[j].kind = "TRANSFER_OUT"
  BY <1>1
<1> QED BY <1>2 DEF Partner, Opposite

LEMMA LegsCancel ==
  ASSUME NEW x, Holding(x), LegsVerified(x), NEW S \in SUBSET Fortune!Legs(x.flows),
         \A i \in S : Fortune!Group(x.flows, i) \subseteq S
  PROVE  SumFunctionOnSet(InBaseOf(x), S) = 0
<1> DEFINE O == GoingOut(x, S)
           I == ComingIn(x, S)
           g == InBaseOf(x)
           f == [i \in O |-> g[i] * (-1)]
           r == [i \in O |-> Partner(x, i)]
<1>1. S \subseteq DOMAIN x.flows /\ IsFiniteSet(S) /\ IsFiniteSet(O) /\ IsFiniteSet(I)
  BY WorldIs, FS_Subset DEF Holding, Fortune!Legs, GoingOut, ComingIn
<1>2. S = O \cup I /\ O \cap I = {}
  BY DEF GoingOut, ComingIn, Fortune!Legs, Fortune!TransferKinds
<1>3. \A i \in S : g[i] \in Int
  BY <1>1, FlowsMoveIntegers
<1>4. \A i \in O : /\ r[i] \in I /\ g[r[i]] = f[i] /\ f[i] \in Int
                   /\ r[i] \in Fortune!Group(x.flows, i)
  <2> SUFFICES ASSUME NEW i \in O
               PROVE  r[i] \in I /\ g[r[i]] = f[i] /\ f[i] \in Int /\ r[i] \in Fortune!Group(x.flows, i)
    OBVIOUS
  <2> DEFINE j == r[i]
  <2>1. i \in S /\ x.flows[i].kind = "TRANSFER_OUT" /\ i \in Fortune!Legs(x.flows)
    BY DEF GoingOut
  <2>2. j \in Fortune!Group(x.flows, i) /\ x.flows[j].kind = "TRANSFER_IN"
    BY <2>1, PartnersAre
  <2>3. j \in S /\ j \in I
    BY <2>1, <2>2 DEF ComingIn
  <2>4. x.flows[j].currency = x.flows[i].currency /\ x.flows[j].amount = x.flows[i].amount
    BY <2>1, <2>2, GroupIs
  <2>5. /\ x.flows[i].currency = x.money[x.flows[i].account]
        /\ x.flows[j].currency = x.money[x.flows[j].account]
    BY <1>1, <2>1, <2>3 DEF Holding, Fortune!HoldsTheMarket
  <2>6. /\ g[i] = (-x.flows[i].amount) * x.fx[x.flows[i].currency]
        /\ g[j] = x.flows[i].amount * x.fx[x.flows[i].currency]
    <3>1. Fortune!Into(x.flows[j]) = x.flows[i].amount
      BY <2>2, <2>4 DEF Fortune!Into
    <3>2. Fortune!Into(x.flows[i]) = -x.flows[i].amount
      BY <2>1 DEF Fortune!Into
    <3>3. InMoney(x, x.flows[i].account) = x.fx[x.flows[i].currency] /\ InMoney(x, x.flows[j].account) = x.fx[x.flows[i].currency]
      BY <2>4, <2>5 DEF InMoney
    <3>4. i \in DOMAIN x.flows /\ j \in DOMAIN x.flows
      BY <1>1, <2>1, <2>3
    <3> HIDE DEF j
    <3> QED BY <3>1, <3>2, <3>3, <3>4 DEF InBaseOf
  <2>7. x.flows[i].amount \in Int /\ x.fx[x.flows[i].currency] \in Int
    <3>1. x \in Worlds /\ i \in DOMAIN x.flows
      BY <1>1, <2>1 DEF Holding
    <3>2. x.flows[i] \in WealthFlows /\ x.fx \in [Currencies -> Int]
      BY <3>1, WorldIs DEF Worlds
    <3> QED BY <3>2 DEF WealthFlows
  <2>8. \A a, b \in Int : a * b = ((-a) * b) * (-1) /\ ((-a) * b) * (-1) \in Int
    OBVIOUS
  <2>9. f[i] = g[i] * (-1)
    OBVIOUS
  <2> HIDE DEF f, g, r, O, I
  <2> QED BY <2>2, <2>3, <2>6, <2>7, <2>8, <2>9
<1>5. Renames(r, O, I)
  <2>1. ASSUME NEW i \in O, NEW j \in O, r[i] = r[j]
        PROVE  i = j
    <3>1. i \in Fortune!Legs(x.flows) /\ j \in Fortune!Legs(x.flows) /\ x.flows[i].kind = x.flows[j].kind
      BY DEF GoingOut
    <3>2. Fortune!Group(x.flows, i) = Fortune!Group(x.flows, r[i]) /\ Fortune!Group(x.flows, j) = Fortune!Group(x.flows, r[j])
      <4> HIDE DEF r, O
      <4> QED BY <1>4, <3>1, GroupIs
    <3>3. j \in Fortune!Group(x.flows, i) /\ i \in Fortune!Group(x.flows, i)
      <4>1. i \in Fortune!Group(x.flows, i) /\ j \in Fortune!Group(x.flows, j)
        BY <3>1, GroupIs
      <4> HIDE DEF r, O
      <4> QED BY <2>1, <3>2, <4>1
    <3> QED BY <3>1, <3>3, GroupIs
  <2>2. ASSUME NEW k \in I
        PROVE  \E i \in O : k = r[i]
    <3>1. k \in S /\ k \in Fortune!Legs(x.flows) /\ x.flows[k].kind = "TRANSFER_IN"
      BY DEF ComingIn
    <3>2. Opposite(x, k) \in Fortune!Group(x.flows, k) /\ x.flows[Opposite(x, k)].kind = "TRANSFER_OUT"
      BY <3>1, PartnersAre
    <3>3. Opposite(x, k) \in O
      BY <3>1, <3>2 DEF GoingOut
    <3>4. Fortune!Group(x.flows, Opposite(x, k)) = Fortune!Group(x.flows, k)
      BY <3>1, <3>2, GroupIs
    <3>5. r[Opposite(x, k)] \in Fortune!Group(x.flows, k) /\ x.flows[r[Opposite(x, k)]].kind = "TRANSFER_IN"
      <4>1. r[Opposite(x, k)] \in I
        BY <1>4, <3>3
      <4> QED BY <1>4, <3>3, <3>4, <4>1 DEF ComingIn
    <3>6. k \in Fortune!Group(x.flows, k)
      BY <3>1, GroupIs
    <3> HIDE DEF r
    <3>7. r[Opposite(x, k)] = k
      BY <3>1, <3>5, <3>6, GroupIs
    <3> QED BY <3>3, <3>7
  <2> HIDE DEF r, O, I
  <2> QED BY <1>4, <2>1, <2>2 DEF Renames
<1>6. Carries(r, O, f, g)
  <2> HIDE DEF r, O, f, g
  <2> QED BY <1>4 DEF Carries
<1>7. SumFunctionOnSet(f, O) = SumFunctionOnSet(g, I)
  <2> HIDE DEF r, O, I, f, g
  <2> QED BY <1>1, <1>5, <1>6, SumRenamed
<1>8. SumFunctionOnSet(f, O) = SumFunctionOnSet(g, O) * (-1) /\ SumFunctionOnSet(g, O) \in Int
  <2>1. \A i \in O : g[i] \in Int /\ f[i] = g[i] * (-1)
    BY <1>2, <1>3
  <2>2. -1 \in Int
    OBVIOUS
  <2> HIDE DEF O, f, g
  <2> QED BY <1>1, <2>1, <2>2, SumTimes, SumIsInt
<1>9. SumFunctionOnSet(g, S) = SumFunctionOnSet(g, O) + SumFunctionOnSet(g, I)
  <2> HIDE DEF O, I, g
  <2> QED BY <1>1, <1>2, <1>3, SumOfBoth
<1> DEFINE o == SumFunctionOnSet(g, O)
           t == SumFunctionOnSet(g, I)
<1>10. SumFunctionOnSet(g, S) = o + t /\ t = o * (-1) /\ o \in Int
  BY <1>7, <1>8, <1>9
<1> HIDE DEF o, t
<1>11. SumFunctionOnSet(g, S) = 0
  BY <1>10
<1> QED BY <1>11

\* What is moved is what comes from outside or goes there.
Outer(x, day, early) == Moment(x, day, early) \ Fortune!Legs(x.flows)

LEMMA MovedOutside ==
  ASSUME NEW x, Holding(x), LegsVerified(x), NEW day, NEW early
  PROVE  /\ MovedAt(x, day, early) = SumFunctionOnSet(InBaseOf(x), Outer(x, day, early))
         /\ IsFiniteSet(Outer(x, day, early)) /\ Outer(x, day, early) \subseteq DOMAIN x.flows
<1> DEFINE M == Moment(x, day, early)
           L == M \cap Fortune!Legs(x.flows)
           O == Outer(x, day, early)
           g == InBaseOf(x)
<1>1. IsFiniteSet(M) /\ M \subseteq DOMAIN x.flows /\ M = L \cup O /\ L \cap O = {}
  BY FlowsMoveIntegers DEF Outer
<1>2. IsFiniteSet(L) /\ IsFiniteSet(O)
  BY <1>1, FS_Subset
<1>3. \A i \in M : g[i] \in Int
  BY <1>1, FlowsMoveIntegers
<1>4. L \subseteq Fortune!Legs(x.flows)
  OBVIOUS
<1>5. \A i \in L : Fortune!Group(x.flows, i) \subseteq L
  <2> SUFFICES ASSUME NEW i \in L, NEW j \in Fortune!Group(x.flows, i)
               PROVE  j \in L
    OBVIOUS
  <2>1. i \in Fortune!Legs(x.flows) /\ x.flows[i].day = day /\ Fortune!Early(x.flows[i]) = early
    BY DEF Moment, Fortune!OfDay
  <2>2. /\ j \in Fortune!Legs(x.flows) /\ x.flows[j].day = x.flows[i].day
        /\ Fortune!Early(x.flows[j]) = Fortune!Early(x.flows[i])
    BY <2>1, GroupIs
  <2>3. j \in DOMAIN x.flows
    BY <2>2 DEF Fortune!Legs
  <2> QED BY <2>1, <2>2, <2>3 DEF Moment, Fortune!OfDay
<1>6. SumFunctionOnSet(g, L) = 0
  <2> HIDE DEF L, g
  <2> QED BY <1>4, <1>5, LegsCancel DEF g
<1>7. SumFunctionOnSet(g, M) = SumFunctionOnSet(g, L) + SumFunctionOnSet(g, O) /\ SumFunctionOnSet(g, O) \in Int
  <2> HIDE DEF L, O, M, g
  <2> QED BY <1>1, <1>2, <1>3, SumOfBoth, SumIsInt
<1>8. SumFunctionOnSet(g, M) = SumFunctionOnSet(g, O)
  <2> HIDE DEF L, O, M, g
  <2> QED BY <1>6, <1>7
<1> QED BY <1>1, <1>2, <1>8 DEF MovedAt

LEMMA ExternalIs ==
  ASSUME NEW x, Holding(x)
  PROVE  LET ext == Fortune!External(x.flows)
         IN /\ DOMAIN ext = DOMAIN x.flows \ Fortune!Legs(x.flows) /\ IsFiniteSet(DOMAIN ext)
            /\ \A f \in DOMAIN ext : /\ ext[f].amount = InBaseOf(x)[f] /\ ext[f].amount \in Int
                                     /\ ext[f].day = x.flows[f].day /\ ext[f].day \in Int
                                     /\ Fortune!Early(ext[f]) = Fortune!Early(x.flows[f])
                                     /\ ext[f].timing = x.flows[f].timing
<1> DEFINE ext == Fortune!External(x.flows)
<1>1. DOMAIN ext = DOMAIN x.flows \ Fortune!Legs(x.flows)
  BY DEF Fortune!External
<1>2. IsFiniteSet(DOMAIN ext)
  BY <1>1, WorldIs, FS_Subset DEF Holding
<1>3. ASSUME NEW f \in DOMAIN ext
      PROVE  /\ ext[f].amount = InBaseOf(x)[f] /\ ext[f].amount \in Int
             /\ ext[f].day = x.flows[f].day /\ ext[f].day \in Int
             /\ Fortune!Early(ext[f]) = Fortune!Early(x.flows[f])
             /\ ext[f].timing = x.flows[f].timing
  <2>1. f \in DOMAIN x.flows /\ f \in DOMAIN x.flows \ Fortune!Legs(x.flows)
    BY <1>1
  <2>2. /\ ext[f].amount = Fortune!Into(x.flows[f]) * x.flows[f].rate
        /\ ext[f].day = x.flows[f].day /\ ext[f].timing = x.flows[f].timing
    BY <2>1 DEF Fortune!External
  <2>3. x.flows[f].rate = InMoney(x, x.flows[f].account)
    <3>1. x.flows[f].currency = x.money[x.flows[f].account] /\ x.flows[f].rate = x.fx[x.flows[f].currency]
      BY <2>1 DEF Holding, Fortune!HoldsTheMarket
    <3> QED BY <3>1 DEF InMoney
  <2>4. ext[f].amount = InBaseOf(x)[f]
    BY <2>1, <2>2, <2>3 DEF InBaseOf
  <2>5. InBaseOf(x)[f] \in Int /\ x.flows[f].day \in Int
    BY <2>1, FlowsMoveIntegers
  <2>6. Fortune!Early(ext[f]) = Fortune!Early(x.flows[f])
    BY <2>2 DEF Fortune!Early
  <2> QED BY <2>2, <2>4, <2>5, <2>6
<1> QED BY <1>1, <1>2, <1>3

LEMMA AmountsAre ==
  ASSUME NEW x, Holding(x), LegsVerified(x), NEW day
  PROVE  LET ext == Fortune!External(x.flows)
         IN /\ Fortune!Amount(ext, day, "BOD") = MovedAt(x, day, TRUE)
            /\ (\A f \in DOMAIN ext : ext[f].timing \in {"BOD", "EOD"}) =>
                  Fortune!Amount(ext, day, "EOD") = MovedAt(x, day, FALSE)
            /\ \A early \in BOOLEAN :
                 (\A f \in DOMAIN ext : ext[f].day = day => Fortune!Early(ext[f]) # early) =>
                   MovedAt(x, day, early) = 0
<1> DEFINE ext == Fortune!External(x.flows)
           At(timing) == {g \in Fortune!OfDay(ext, day) : ext[g].timing = timing}
           own(timing) == [f \in At(timing) |-> ext[f].amount]
<1>1. /\ DOMAIN ext = DOMAIN x.flows \ Fortune!Legs(x.flows)
      /\ \A f \in DOMAIN ext : /\ ext[f].amount = InBaseOf(x)[f] /\ ext[f].amount \in Int
                               /\ ext[f].day = x.flows[f].day /\ Fortune!Early(ext[f]) = Fortune!Early(x.flows[f])
  BY ExternalIs
<1>2. \A early : Outer(x, day, early) = {f \in DOMAIN ext : ext[f].day = day /\ Fortune!Early(ext[f]) = early}
  BY <1>1 DEF Outer, Moment, Fortune!OfDay
<1>3. ASSUME NEW timing, NEW early, Outer(x, day, early) = At(timing)
      PROVE  Fortune!Amount(ext, day, timing) = MovedAt(x, day, early)
  <2>1. /\ MovedAt(x, day, early) = SumFunctionOnSet(InBaseOf(x), Outer(x, day, early))
        /\ IsFiniteSet(Outer(x, day, early))
    BY MovedOutside
  <2>2. \A f \in At(timing) : own(timing)[f] = InBaseOf(x)[f] /\ InBaseOf(x)[f] \in Int
    BY <1>1 DEF Fortune!OfDay
  <2>3. Fortune!Amount(ext, day, timing) = SumFunctionOnSet(own(timing), At(timing))
    BY FortuneTotals DEF Fortune!Amount
  <2> HIDE DEF At, own
  <2>4. SumFunctionOnSet(InBaseOf(x), At(timing)) = SumFunctionOnSet(own(timing), At(timing))
    BY <1>3, <2>1, <2>2, SumSame
  <2> QED BY <1>3, <2>1, <2>3, <2>4
<1>4. Outer(x, day, TRUE) = At("BOD")
  BY <1>2 DEF Fortune!Early, Fortune!OfDay
<1>5. ASSUME \A f \in DOMAIN ext : ext[f].timing \in {"BOD", "EOD"}
      PROVE  Outer(x, day, FALSE) = At("EOD")
  <2>1. ASSUME NEW f \in DOMAIN ext
        PROVE  (Fortune!Early(ext[f]) = FALSE) <=> ext[f].timing = "EOD"
    <3>1. ext[f].timing = "BOD" \/ ext[f].timing = "EOD"
      BY <1>5
    <3> HIDE DEF ext
    <3>2. "BOD" # "EOD"
      OBVIOUS
    <3> QED BY <3>1, <3>2 DEF Fortune!Early
  <2>2. Outer(x, day, FALSE) = {f \in DOMAIN ext : ext[f].day = day /\ Fortune!Early(ext[f]) = FALSE}
    BY <1>2
  <2>3. At("EOD") = {f \in DOMAIN ext : ext[f].day = day /\ ext[f].timing = "EOD"}
    BY DEF Fortune!OfDay
  <2> HIDE DEF ext, At
  <2> QED BY <2>1, <2>2, <2>3
<1>6. ASSUME NEW early \in BOOLEAN, \A f \in DOMAIN ext : ext[f].day = day => Fortune!Early(ext[f]) # early
      PROVE  MovedAt(x, day, early) = 0
  <2>1. Outer(x, day, early) = {}
    BY <1>2, <1>6
  <2> QED BY <2>1, MovedOutside, SumOfNothing
<1> HIDE DEF At, ext
<1> QED BY <1>3, <1>4, <1>5, <1>6 DEF ext

\* The first and the last of some days.
LEMMA ExtremesAre ==
  ASSUME NEW S, IsFiniteSet(S), S \subseteq Int, S # {}
  PROVE  /\ Fortune!Max(S) \in S /\ \A e \in S : e <= Fortune!Max(S)
         /\ Fortune!Min(S) \in S /\ \A e \in S : Fortune!Min(S) <= e
<1>1. \E d \in S : \A e \in S : e <= d
  BY LatestOfDays
<1>2. Fortune!Max(S) \in S /\ \A e \in S : e <= Fortune!Max(S)
  <2>1. \E d \in S : \A e \in S : d >= e
    BY <1>1
  <2>2. Fortune!Max(S) \in S /\ \A e \in S : Fortune!Max(S) >= e
    BY <2>1 DEF Fortune!Max
  <2> QED BY <2>2
<1>3. \E d \in S : \A e \in S : d <= e
  <2> DEFINE g == [e \in S |-> -e]
             N == {g[e] : e \in S}
  <2>1. IsFiniteSet(N)
    <3> HIDE DEF g
    <3> QED BY ImagesAreFinite
  <2>2. \A e \in S : e \in Int /\ g[e] = -e /\ g[e] \in N
    OBVIOUS
  <2>3. \A k \in N : \E e \in S : k = g[e]
    OBVIOUS
  <2> HIDE DEF N, g
  <2>4. N \subseteq Int /\ N # {}
    <3>1. \A k \in N : k \in Int
      BY <2>2, <2>3
    <3>2. PICK e : e \in S
      OBVIOUS
    <3>3. g[e] \in N
      BY <2>2, <3>2
    <3> QED BY <3>1, <3>3
  <2>5. PICK m \in N : \A k \in N : k <= m
    BY <2>1, <2>4, LatestOfDays
  <2>6. PICK d \in S : m = g[d]
    BY <2>3
  <2>7. \A e \in S : g[e] <= g[d]
    BY <2>2, <2>5, <2>6
  <2>8. \A e \in S : d <= e
    BY <2>2, <2>7
  <2> QED BY <2>8
<1>4. Fortune!Min(S) \in S /\ \A e \in S : Fortune!Min(S) <= e
  BY <1>3 DEF Fortune!Min
<1> QED BY <1>2, <1>4

\* A value for each day, from the one of the day before.
Stays(t, first, last, V) == \A d \in first..last : \A v \in V : t[d][v] \in V
Runs(h, t, first, last, init) == h[first] = init /\ \A d \in first..last : d # first => h[d] = t[d][h[d - 1]]

LEMMA DaysExist ==
  ASSUME NEW first \in Int, NEW last \in Int, first <= last, NEW V, NEW init \in V, NEW t, Stays(t, first, last, V)
  PROVE  \E h \in [first..last -> V] : Runs(h, t, first, last, init)
<1> DEFINE R == first..last
           Step(h, d) == IF d = first THEN init ELSE t[d][h[d - 1]]
           Good(n, h) == h \in [R -> V] /\ \A d \in R : d <= first + n => h[d] = Step(h, d)
           T == {n \in Nat : \E h : Good(n, h)}
<1>0. \A d \in R : \A v \in V : t[d][v] \in V
  BY DEF Stays
<1>1. 0 \in T
  <2> DEFINE h == [d \in R |-> init]
  <2>1. h \in [R -> V]
    OBVIOUS
  <2>2. \A d \in R : d <= first + 0 => d = first
    OBVIOUS
  <2>3. \A d \in R : d <= first + 0 => h[d] = Step(h, d)
    BY <2>2
  <2>4. Good(0, h)
    BY <2>1, <2>3
  <2> HIDE DEF Good, h
  <2> QED BY <2>4
<1>2. ASSUME NEW n \in T
      PROVE  n + 1 \in T
  <2>1. PICK h : Good(n, h)
    OBVIOUS
  <2> DEFINE m == first + (n + 1)
             g == [d \in R |-> IF d = m THEN Step(h, d) ELSE h[d]]
  <2>2. \A d \in R : d # first => d - 1 \in R
    OBVIOUS
  <2>3. n \in Nat /\ m \in Int /\ \A d \in R : d \in Int /\ (d <= m => d = m \/ d <= first + n)
    OBVIOUS
  <2>4. h \in [R -> V] /\ \A d \in R : d <= first + n => h[d] = Step(h, d)
    BY <2>1 DEF Good
  <2>5. \A d \in R : Step(h, d) \in V
    BY <1>0, <2>2, <2>4
  <2>6. g \in [R -> V]
    <3> HIDE DEF Step, R
    <3> QED BY <2>4, <2>5
  <2>7. \A d \in R : d <= m => Step(g, d) = Step(h, d)
    <3> SUFFICES ASSUME NEW d \in R, d <= m
                 PROVE  Step(g, d) = Step(h, d)
      OBVIOUS
    <3>1. CASE d = first
      BY <3>1
    <3>2. CASE d # first
      <4>1. d - 1 \in R /\ d - 1 # m
        BY <2>2, <2>3, <3>2
      <4>2. g[d - 1] = h[d - 1]
        BY <4>1
      <4> QED BY <3>2, <4>2
    <3> QED BY <3>1, <3>2
  <2>8. \A d \in R : d <= m => g[d] = Step(h, d)
    <3> SUFFICES ASSUME NEW d \in R, d <= m
                 PROVE  g[d] = Step(h, d)
      OBVIOUS
    <3>1. CASE d = m
      BY <3>1
    <3>2. CASE d # m
      BY <2>3, <2>4, <3>2
    <3> QED BY <3>1, <3>2
  <2>9. Good(n + 1, g)
    <3> HIDE DEF Step, R, g
    <3> QED BY <2>6, <2>7, <2>8
  <2> HIDE DEF Good, g
  <2> QED BY <2>3, <2>9
<1>3. T = Nat
  <2> HIDE DEF Good
  <2> QED BY <1>1, <1>2, NatSetInduction
<1>4. last - first \in Nat
  OBVIOUS
<1>5. PICK h : Good(last - first, h)
  <2>1. last - first \in T
    <3> HIDE DEF T
    <3> QED BY <1>3, <1>4
  <2> HIDE DEF Good
  <2> QED BY <2>1
<1>6. h \in [R -> V] /\ \A d \in R : h[d] = Step(h, d)
  <2>1. \A d \in R : d <= first + (last - first)
    OBVIOUS
  <2> QED BY <1>5, <2>1
<1>7. first \in R
  OBVIOUS
<1>8. Runs(h, t, first, last, init)
  BY <1>6, <1>7 DEF Runs
<1> QED BY <1>6, <1>8

\* What a reading that is not refused says of its files.
ReadingOf(x) == Fortune!Consolidated(x.closings, x.rates, x.flows, x.base)
NavOf(x) == Fortune!Closes(x.closings, x.rates, x.base)
FirstDay(x) == Fortune!Min(Fortune!Days(x.closings))
LastDay(x) == Fortune!Max(Fortune!Days(x.closings))
IsPlaced(x) == \A f \in DOMAIN Fortune!External(x.flows) :
                 Fortune!Placed(Fortune!External(x.flows)[f], Fortune!Days(x.closings))

LEMMA ReadingIs ==
  ASSUME NEW x \in Worlds, Refused \notin Int, Fortune!HoldsTheMarket(x), ReadingOf(x) # Refused
  PROVE  LET ext == Fortune!External(x.flows)
             D == Fortune!Days(x.closings)
         IN /\ Holding(x) /\ LegsVerified(x)
            /\ IsFiniteSet(D) /\ D \subseteq Int /\ DOMAIN NavOf(x) = D
            /\ FirstDay(x) \in D /\ LastDay(x) \in D /\ \A d \in D : FirstDay(x) <= d /\ d <= LastDay(x)
            /\ \A d \in D : NavOf(x)[d] = WorthAt(x, d) /\ WorthAt(x, d) \in Int /\ WorthAt(x, d) > 0 /\ d \in DOMAIN x.growth
            /\ \A f \in DOMAIN ext : FirstDay(x) < ext[f].day /\ ext[f].day <= LastDay(x) /\ ext[f].timing \in Fortune!Timings
            /\ ReadingOf(x).twr = IF IsPlaced(x) THEN Fortune!Linked(NavOf(x), ext) ELSE Blank
            /\ ReadingOf(x).gain = NavOf(x)[LastDay(x)] - NavOf(x)[FirstDay(x)] - Fortune!NetFlow(ext)
<1> DEFINE ext == Fortune!External(x.flows)
           D == Fortune!Days(x.closings)
           nav == NavOf(x)
           A == Fortune!Accounts(x.closings)
<1>1. /\ \A d \in D : {x.closings[i].account : i \in Fortune!OfDay(x.closings, d)} = A
      /\ \A i, j \in DOMAIN x.closings :
           x.closings[i].day = x.closings[j].day /\ x.closings[i].account = x.closings[j].account => i = j
      /\ \A d \in D : nav[d] # Refused
      /\ \A f \in DOMAIN x.flows :
           /\ x.flows[f].account \in A /\ x.flows[f].kind \in Fortune!FlowKinds
           /\ f \in Fortune!Legs(x.flows) => Fortune!Verified(x.flows, f)
      /\ ReadingOf(x) = Fortune!Performance(nav, ext)
  BY DEF ReadingOf, NavOf, Fortune!Consolidated
<1>2. Holding(x) /\ LegsVerified(x)
  BY <1>1 DEF Holding, LegsVerified, Fortune!Legs
<1>3. IsFiniteSet(D) /\ D \subseteq Int /\ DOMAIN nav = D /\ \A d \in D : nav[d] = Fortune!InBase(x.closings, x.rates, d, x.base)
  BY WorldIs DEF NavOf, Fortune!Closes
<1>4. /\ ~(Fortune!Cardinality(DOMAIN nav) < 2)
      /\ \A f \in DOMAIN ext : /\ ~(ext[f].day <= Fortune!Min(DOMAIN nav)) /\ ~(ext[f].day > Fortune!Max(DOMAIN nav))
                               /\ ext[f].timing \in Fortune!Timings
      /\ ReadingOf(x).twr = IF \A f \in DOMAIN ext : Fortune!Placed(ext[f], DOMAIN nav) THEN Fortune!Linked(nav, ext) ELSE Blank
      /\ ReadingOf(x).gain = nav[Fortune!Max(DOMAIN nav)] - nav[Fortune!Min(DOMAIN nav)] - Fortune!NetFlow(ext)
  <2> HIDE DEF nav, ext
  <2> QED BY <1>1 DEF Fortune!Performance
<1>5. D # {}
  <2>1. Fortune!Cardinality({}) = 0
    BY FortuneTotals, FS_EmptySet
  <2> HIDE DEF D, nav
  <2>2. DOMAIN nav # {}
    <3> DEFINE n == Fortune!Cardinality(DOMAIN nav)
    <3>1. ~(n < 2)
      BY <1>4
    <3>2. CASE DOMAIN nav = {}
      <4>1. n = 0
        BY <2>1, <3>2
      <4> HIDE DEF n
      <4> QED BY <3>1, <4>1
    <3> QED BY <3>2
  <2> QED BY <1>3, <2>2
<1>6. FirstDay(x) \in D /\ LastDay(x) \in D /\ \A d \in D : FirstDay(x) <= d /\ d <= LastDay(x)
  <2> HIDE DEF D
  <2> QED BY <1>3, <1>5, ExtremesAre DEF FirstDay, LastDay, D
<1>7. \A d \in D : nav[d] = WorthAt(x, d) /\ WorthAt(x, d) \in Int /\ WorthAt(x, d) > 0 /\ d \in DOMAIN x.growth
  <2> SUFFICES ASSUME NEW d \in D
               PROVE  nav[d] = WorthAt(x, d) /\ WorthAt(x, d) \in Int /\ WorthAt(x, d) > 0 /\ d \in DOMAIN x.growth
    OBVIOUS
  <2>1. Fortune!InBase(x.closings, x.rates, d, x.base) # Refused
    BY <1>1, <1>3
  <2> QED BY <1>1, <1>2, <1>3, <2>1, CloseIsWorth
<1>8. ASSUME NEW f \in DOMAIN ext
      PROVE  FirstDay(x) < ext[f].day /\ ext[f].day <= LastDay(x) /\ ext[f].timing \in Fortune!Timings
  <2>1. ext[f].day \in Int /\ FirstDay(x) \in Int /\ LastDay(x) \in Int
    BY <1>2, <1>3, <1>6, ExternalIs
  <2>2. FirstDay(x) = Fortune!Min(DOMAIN nav) /\ LastDay(x) = Fortune!Max(DOMAIN nav)
    BY <1>3 DEF FirstDay, LastDay
  <2> HIDE DEF ext, nav
  <2> QED BY <1>4, <2>1, <2>2
<1>9. /\ ReadingOf(x).twr = IF IsPlaced(x) THEN Fortune!Linked(nav, ext) ELSE Blank
      /\ ReadingOf(x).gain = nav[LastDay(x)] - nav[FirstDay(x)] - Fortune!NetFlow(ext)
  <2> HIDE DEF nav
  <2> QED BY <1>3, <1>4 DEF IsPlaced, FirstDay, LastDay
<1> HIDE DEF nav, ext
<1> QED BY <1>2, <1>3, <1>6, <1>7, <1>8, <1>9 DEF nav, ext

\* What the performance links, day by day, and what the thing returned.
Pairs == Int \X Int
Links(nav, flows, h) ==
  h = [day \in Fortune!Min(DOMAIN nav)..Fortune!Max(DOMAIN nav) |->
         IF day = Fortune!Min(DOMAIN nav) THEN <<1, 1>>
         ELSE IF day \notin DOMAIN nav THEN h[day - 1]
         ELSE LET q == Fortune!Subperiod(nav, flows, day)
              IN <<h[day - 1][1] * q[1], h[day - 1][2] * q[2]>>]
Returned(x, h) ==
  h = [day \in FirstDay(x)..LastDay(x) |-> IF day = FirstDay(x) THEN 1 ELSE h[day - 1] * x.growth[day]]

Measured(nav, flows, first, last) ==
  \A d \in first..last : d # first /\ d \in DOMAIN nav => Fortune!Subperiod(nav, flows, d) \in Pairs

LEMMA LinksExist ==
  ASSUME NEW nav, NEW flows, NEW first \in Int, NEW last \in Int, first <= last,
         first = Fortune!Min(DOMAIN nav), last = Fortune!Max(DOMAIN nav), Measured(nav, flows, first, last)
  PROVE  \E h \in [first..last -> Pairs] : Links(nav, flows, h) /\ Fortune!Linked(nav, flows) = h[last]
<1> USE DEF Measured
<1> DEFINE R == first..last
           q(d) == Fortune!Subperiod(nav, flows, d)
           t == [d \in R |-> [v \in Pairs |-> IF d = first \/ d \notin DOMAIN nav THEN v
                                             ELSE <<v[1] * q(d)[1], v[2] * q(d)[2]>>]]
           Body(h, d) == IF d \notin DOMAIN nav THEN h[d - 1] ELSE <<h[d - 1][1] * q(d)[1], h[d - 1][2] * q(d)[2]>>
<1>1. \A u, v \in Pairs : <<v[1] * u[1], v[2] * u[2]>> \in Pairs
  <2>1. \A a, b \in Int : a * b \in Int
    OBVIOUS
  <2>2. \A v \in Pairs : v[1] \in Int /\ v[2] \in Int
    BY DEF Pairs
  <2> QED BY <2>1, <2>2 DEF Pairs
<1>2. \A d \in R : \A v \in Pairs : t[d][v] \in Pairs
  <2> SUFFICES ASSUME NEW d \in R, NEW v \in Pairs PROVE t[d][v] \in Pairs
    OBVIOUS
  <2>1. CASE d = first \/ d \notin DOMAIN nav
    BY <2>1
  <2>2. CASE ~(d = first \/ d \notin DOMAIN nav)
    <3>1. q(d) \in Pairs
      BY <2>2
    <3>2. t[d][v] = <<v[1] * q(d)[1], v[2] * q(d)[2]>>
      BY <2>2
    <3> HIDE DEF q, t
    <3> QED BY <1>1, <3>1, <3>2
  <2> QED BY <2>1, <2>2
<1>3. <<1, 1>> \in Pairs
  BY DEF Pairs
<1>4. PICK h \in [R -> Pairs] : h[first] = <<1, 1>> /\ \A d \in R : d # first => h[d] = t[d][h[d - 1]]
  <2> HIDE DEF t
  <2>1. Stays(t, first, last, Pairs)
    BY <1>2 DEF Stays
  <2>2. \E h \in [R -> Pairs] : Runs(h, t, first, last, <<1, 1>>)
    BY <1>3, <2>1, DaysExist
  <2> QED BY <2>2 DEF Runs
<1>5. \A d \in R : d # first => t[d][h[d - 1]] = Body(h, d)
  <2> SUFFICES ASSUME NEW d \in R, d # first PROVE t[d][h[d - 1]] = Body(h, d)
    OBVIOUS
  <2>1. h[d - 1] \in Pairs
    <3>1. d - 1 \in R
      OBVIOUS
    <3> HIDE DEF R
    <3> QED BY <3>1
  <2> QED BY <2>1
<1>6. Links(nav, flows, h)
  <2>1. h = [d \in R |-> IF d = first THEN <<1, 1>> ELSE Body(h, d)]
    <3> HIDE DEF R, t, Body
    <3> QED BY <1>4, <1>5
  <2> QED BY <2>1 DEF Links
<1>7. ASSUME NEW g, Links(nav, flows, g)
      PROVE  g \in [R -> Pairs]
  <2> DEFINE T == {n \in Nat : first + n \in R => g[first + n] \in Pairs}
  <2>0. /\ \A d \in R : g[d] = IF d = first THEN <<1, 1>> ELSE Body(g, d)
        /\ g = [d \in R |-> IF d = first THEN <<1, 1>> ELSE Body(g, d)]
    BY <1>7 DEF Links
  <2>1. 0 \in T
    <3>1. g[first] = <<1, 1>>
      <4>1. first \in R
        OBVIOUS
      <4> HIDE DEF R, Body
      <4> QED BY <2>0, <4>1
    <3>2. first + 0 = first
      OBVIOUS
    <3> QED BY <1>3, <3>1, <3>2
  <2>2. ASSUME NEW n \in T PROVE n + 1 \in T
    <3> SUFFICES ASSUME first + (n + 1) \in R PROVE g[first + (n + 1)] \in Pairs
      OBVIOUS
    <3> DEFINE d == first + (n + 1)
    <3>1. d \in R /\ d # first /\ d - 1 = first + n /\ first + n \in R
      OBVIOUS
    <3>2. g[d - 1] \in Pairs
      BY <3>1
    <3>3. g[d] = Body(g, d)
      <4> HIDE DEF R, Body, d
      <4> QED BY <2>0, <3>1
    <3>4. Body(g, d) \in Pairs
      <4>1. CASE d \notin DOMAIN nav
        BY <3>2, <4>1
      <4>2. CASE d \in DOMAIN nav
        <5>1. q(d) \in Pairs
          BY <3>1, <4>2
        <5>2. Body(g, d) = <<g[d - 1][1] * q(d)[1], g[d - 1][2] * q(d)[2]>>
          BY <4>2
        <5> HIDE DEF q, Body, d
        <5> QED BY <1>1, <3>2, <5>1, <5>2
      <4> QED BY <4>1, <4>2
    <3> QED BY <3>3, <3>4
  <2>3. T = Nat
    <3> HIDE DEF T
    <3>1. T \in SUBSET Nat
      BY DEF T
    <3> QED BY <2>1, <2>2, <3>1, NatSetInduction
  <2>4. ASSUME NEW d \in R PROVE g[d] \in Pairs
    <3>1. d - first \in Nat /\ first + (d - first) = d
      OBVIOUS
    <3> QED BY <2>3, <3>1
  <2> HIDE DEF R, Body
  <2> QED BY <2>0, <2>4
<1> DEFINE g == CHOOSE l : Links(nav, flows, l)
<1>8. Links(nav, flows, g)
  <2> HIDE DEF R
  <2> QED BY <1>6
<1>9. Fortune!Linked(nav, flows) = g[last]
  BY DEF Fortune!Linked, Links
<1> HIDE DEF g
<1> QED BY <1>7, <1>8, <1>9

LEMMA ReturnExists ==
  ASSUME NEW x, FirstDay(x) \in Int, LastDay(x) \in Int, FirstDay(x) <= LastDay(x),
         \A d \in FirstDay(x)..LastDay(x) : x.growth[d] \in Int
  PROVE  /\ \E h : Returned(x, h)
         /\ \A h : Returned(x, h) => /\ h[FirstDay(x)] = 1
                                     /\ \A d \in FirstDay(x)..LastDay(x) :
                                          d # FirstDay(x) => h[d] = h[d - 1] * x.growth[d]
<1> DEFINE R == FirstDay(x)..LastDay(x)
           t == [d \in R |-> [v \in Int |-> v * x.growth[d]]]
<1>1. \A d \in R : \A v \in Int : t[d][v] \in Int
  OBVIOUS
<1>2. PICK h \in [R -> Int] : h[FirstDay(x)] = 1 /\ \A d \in R : d # FirstDay(x) => h[d] = t[d][h[d - 1]]
  <2> HIDE DEF t
  <2>1. Stays(t, FirstDay(x), LastDay(x), Int)
    BY <1>1 DEF Stays
  <2>2. 1 \in Int
    OBVIOUS
  <2>3. \E h \in [R -> Int] : Runs(h, t, FirstDay(x), LastDay(x), 1)
    BY <2>1, <2>2, DaysExist
  <2> QED BY <2>3 DEF Runs
<1>3. \A d \in R : d # FirstDay(x) => t[d][h[d - 1]] = h[d - 1] * x.growth[d]
  <2> SUFFICES ASSUME NEW d \in R, d # FirstDay(x) PROVE t[d][h[d - 1]] = h[d - 1] * x.growth[d]
    OBVIOUS
  <2>1. d - 1 \in R
    OBVIOUS
  <2>2. h[d - 1] \in Int
    <3> HIDE DEF R, t
    <3> QED BY <2>1
  <2> QED BY <2>2
<1>4. Returned(x, h)
  <2>1. h = [d \in R |-> IF d = FirstDay(x) THEN 1 ELSE h[d - 1] * x.growth[d]]
    <3> HIDE DEF R, t
    <3> QED BY <1>2, <1>3
  <2> QED BY <2>1 DEF Returned
<1>5. FirstDay(x) \in R
  OBVIOUS
<1> HIDE DEF t
<1> QED BY <1>4, <1>5 DEF Returned

LEMMA ProductsCommute ==
  ASSUME NEW a \in Int, NEW b \in Int, NEW c \in Int, NEW d \in Int
  PROVE  /\ (a * b) * (c * d) = (a * d) * (b * c)
         /\ (a * b) * c = a * (b * c)
<1>1. \A p, q, r \in Int : (p * q) * r = p * (q * r) /\ p * q = q * p /\ p * q \in Int
  OBVIOUS
<1>2. (a * b) * (c * d) = a * (b * (c * d))
  BY <1>1
<1>3. (a * d) * (b * c) = a * (d * (b * c))
  BY <1>1
<1>4. b * (c * d) = (b * c) * d /\ d * (b * c) = (b * c) * d
  BY <1>1
<1> QED BY <1>1, <1>2, <1>3, <1>4

\* Where every flow has its closes, nothing moves on the other days.
LEMMA QuietDays ==
  ASSUME NEW x, Holding(x), LegsVerified(x), IsPlaced(x), NEW d \in Int,
         \A f \in DOMAIN Fortune!External(x.flows) : Fortune!External(x.flows)[f].timing \in Fortune!Timings
  PROVE  /\ d \notin Fortune!Days(x.closings) => MovedAt(x, d, TRUE) = 0 /\ MovedAt(x, d, FALSE) = 0
         /\ d - 1 \notin Fortune!Days(x.closings) => MovedAt(x, d, TRUE) = 0
         /\ Fortune!Amount(Fortune!External(x.flows), d, "BOD") = MovedAt(x, d, TRUE)
         /\ Fortune!Amount(Fortune!External(x.flows), d, "EOD") = MovedAt(x, d, FALSE)
<1> DEFINE ext == Fortune!External(x.flows)
           D == Fortune!Days(x.closings)
<1>1. \A f \in DOMAIN ext : /\ ext[f].timing \in {"BOD", "EOD"} /\ ext[f].day \in D
                            /\ Fortune!Early(ext[f]) => ext[f].day - 1 \in D
  BY DEF IsPlaced, Fortune!Placed, Fortune!Timings, Fortune!Early
<1>2. /\ Fortune!Amount(ext, d, "BOD") = MovedAt(x, d, TRUE)
      /\ (\A f \in DOMAIN ext : ext[f].timing \in {"BOD", "EOD"}) => Fortune!Amount(ext, d, "EOD") = MovedAt(x, d, FALSE)
  BY AmountsAre
<1>3. \A early \in BOOLEAN :
        (\A f \in DOMAIN ext : ext[f].day = d => Fortune!Early(ext[f]) # early) => MovedAt(x, d, early) = 0
  BY AmountsAre
<1>4. ASSUME d \notin D
      PROVE  MovedAt(x, d, TRUE) = 0 /\ MovedAt(x, d, FALSE) = 0
  <2>1. \A f \in DOMAIN ext : ext[f].day # d
    BY <1>1, <1>4
  <2> HIDE DEF ext
  <2> QED BY <1>3, <2>1
<1>5. ASSUME d - 1 \notin D
      PROVE  MovedAt(x, d, TRUE) = 0
  <2>1. \A f \in DOMAIN ext : ext[f].day = d => Fortune!Early(ext[f]) # TRUE
    BY <1>1, <1>5
  <2> HIDE DEF ext
  <2> QED BY <1>3, <2>1
<1> HIDE DEF ext, D
<1> QED BY <1>1, <1>2, <1>4, <1>5 DEF ext, D

\* What is linked up to a day is what the thing returned until its last close,
\* and since then the worth follows the thing.
Along(x, h, k, d) ==
  \E e \in Fortune!Days(x.closings), r \in Int :
    /\ e <= d /\ \A c \in Fortune!Days(x.closings) : c <= d => c <= e
    /\ k[e] \in Int /\ h[d][1] = k[e] * h[d][2] /\ k[d] = k[e] * r /\ WorthAt(x, d) = WorthAt(x, e) * r

LEMMA ADayAlong ==
  ASSUME NEW x \in Worlds, Refused \notin Int, Fortune!HoldsTheMarket(x), ReadingOf(x) # Refused, IsPlaced(x),
         NEW h \in [FirstDay(x)..LastDay(x) -> Pairs], Links(NavOf(x), Fortune!External(x.flows), h),
         NEW k, Returned(x, k),
         NEW d \in FirstDay(x)..LastDay(x), d # FirstDay(x), Along(x, h, k, d - 1)
  PROVE  Along(x, h, k, d)
<1> DEFINE ext == Fortune!External(x.flows)
           D == Fortune!Days(x.closings)
           nav == NavOf(x)
           W(c) == WorthAt(x, c)
           g == x.growth[d]
           b == MovedAt(x, d, TRUE)
           n == MovedAt(x, d, FALSE)
<1>1. /\ Holding(x) /\ LegsVerified(x) /\ D \subseteq Int /\ DOMAIN nav = D
      /\ FirstDay(x) \in D /\ LastDay(x) \in D
      /\ \A c \in D : nav[c] = W(c) /\ W(c) \in Int /\ W(c) > 0 /\ c \in DOMAIN x.growth
      /\ \A f \in DOMAIN ext : ext[f].timing \in Fortune!Timings
  BY ReadingIs
<1>2. d \in 2..Len(x.growth) /\ d \in Int /\ d - 1 \in FirstDay(x)..LastDay(x)
  <2>1. Len(x.growth) \in Nat /\ DOMAIN x.growth = 1..Len(x.growth)
    BY WorldIs
  <2>2. FirstDay(x) \in 1..Len(x.growth) /\ LastDay(x) \in 1..Len(x.growth)
    BY <1>1, <2>1
  <2> QED BY <2>1, <2>2
<1>3. /\ W(d) \in Int /\ W(d - 1) \in Int /\ g \in Int /\ b \in Int /\ n \in Int
      /\ W(d) = (W(d - 1) + b) * g + n
  BY <1>1, <1>2, WorthGrows
<1>4. /\ d \notin D => b = 0 /\ n = 0
      /\ d - 1 \notin D => b = 0
      /\ Fortune!Amount(ext, d, "BOD") = b /\ Fortune!Amount(ext, d, "EOD") = n
  BY <1>1, <1>2, QuietDays
<1>5. k[d] = k[d - 1] * g
  <2>1. \A c \in FirstDay(x)..LastDay(x) : c # FirstDay(x) => k[c] = k[c - 1] * x.growth[c]
    BY DEF Returned
  <2> QED BY <2>1
<1>6. /\ d \notin D => h[d] = h[d - 1]
      /\ d \in D => h[d] = <<h[d - 1][1] * Fortune!Subperiod(nav, ext, d)[1], h[d - 1][2] * Fortune!Subperiod(nav, ext, d)[2]>>
  <2>1. FirstDay(x) = Fortune!Min(DOMAIN nav) /\ LastDay(x) = Fortune!Max(DOMAIN nav)
    BY <1>1 DEF FirstDay, LastDay
  <2> HIDE DEF nav, ext
  <2>2. \A c \in FirstDay(x)..LastDay(x) :
          h[c] = IF c = FirstDay(x) THEN <<1, 1>>
                 ELSE IF c \notin DOMAIN nav THEN h[c - 1]
                 ELSE LET q == Fortune!Subperiod(nav, ext, c)
                      IN <<h[c - 1][1] * q[1], h[c - 1][2] * q[2]>>
    BY <2>1 DEF Links, nav, ext
  <2> QED BY <1>1, <2>2
<1>7. PICK e \in D, r \in Int :
        /\ e <= d - 1 /\ \A c \in D : c <= d - 1 => c <= e
        /\ k[e] \in Int /\ h[d - 1][1] = k[e] * h[d - 1][2] /\ k[d - 1] = k[e] * r /\ W(d - 1) = W(e) * r
  BY DEF Along
<1>8. h[d - 1][1] \in Int /\ h[d - 1][2] \in Int
  <2>1. h[d - 1] \in Pairs
    BY <1>2
  <2> QED BY <2>1 DEF Pairs
<1>9. W(e) \in Int /\ e \in Int
  BY <1>1, <1>7
<1>10. k[d - 1] * g = k[e] * (r * g) /\ r * g \in Int /\ W(d - 1) * g = W(e) * (r * g)
  <2>1. r * g \in Int
    BY <1>3
  <2>2. (k[e] * r) * g = k[e] * (r * g) /\ (W(e) * r) * g = W(e) * (r * g)
    <3> HIDE DEF W, g
    <3> QED BY <1>3, <1>7, <1>9, ProductsCommute
  <2> HIDE DEF W, g
  <2> QED BY <1>7, <2>1, <2>2
<1> HIDE DEF D, W, g, b, n, ext, nav
<1>11. CASE d \notin D
  <2>1. W(d) = W(d - 1) * g
    BY <1>3, <1>4, <1>11
  <2>2. h[d][1] = k[e] * h[d][2] /\ k[d] = k[e] * (r * g) /\ W(d) = W(e) * (r * g)
    BY <1>5, <1>6, <1>7, <1>10, <1>11, <2>1
  <2>3. e <= d /\ \A c \in D : c <= d => c <= e
    <3> SUFFICES ASSUME NEW c \in D, c <= d PROVE c <= e /\ e <= d
      BY <1>2, <1>7, <1>9
    <3>1. c \in Int /\ c # d
      BY <1>1, <1>11
    <3>2. c <= d - 1
      BY <1>2, <3>1
    <3> QED BY <1>2, <1>7, <1>9, <3>2
  <2> QED BY <1>7, <1>10, <2>2, <2>3 DEF Along, D, W
<1>12. CASE d \in D
  <2> DEFINE q == Fortune!Subperiod(nav, ext, d)
  <2>1. Fortune!CloseBefore(nav, d) = e
    <3> DEFINE S == {c \in DOMAIN nav : c < d}
    <3>1. e \in S /\ \A c \in S : c \in Int /\ c <= e
      <4>1. e \in S
        BY <1>1, <1>2, <1>7, <1>9
      <4>2. ASSUME NEW c \in S PROVE c \in Int /\ c <= e
        <5>1. c \in D /\ c \in Int /\ c < d
          BY <1>1
        <5>2. c <= d - 1
          BY <1>2, <5>1
        <5> QED BY <1>7, <5>1, <5>2
      <4> QED BY <4>1, <4>2
    <3>2. Fortune!CloseBefore(nav, d) = CHOOSE m \in S : \A c \in S : m >= c
      BY DEF Fortune!CloseBefore, Fortune!Max
    <3> HIDE DEF S
    <3>3. \E m \in S : \A c \in S : m >= c
      BY <1>9, <3>1
    <3> DEFINE m == CHOOSE m \in S : \A c \in S : m >= c
    <3>4. m \in S /\ \A c \in S : m >= c
      BY <3>3
    <3> HIDE DEF m
    <3>5. m >= e /\ m <= e /\ m \in Int
      BY <3>1, <3>4
    <3>6. m = e
      BY <1>9, <3>5
    <3> QED BY <3>2, <3>6 DEF m
  <2>2. q = <<W(d) - n, W(e) + b>>
    BY <1>1, <1>4, <1>7, <1>12, <2>1 DEF Fortune!Subperiod
  <2>3. W(d) - n = (W(d - 1) + b) * g
    <3> DEFINE p == (W(d - 1) + b) * g
    <3>1. p \in Int
      <4>1. W(d - 1) + b \in Int
        BY <1>3
      <4> QED BY <1>3, <4>1
    <3> HIDE DEF p
    <3>2. W(d) = p + n
      BY <1>3 DEF p
    <3>3. W(d) - n = p
      BY <1>3, <3>1, <3>2
    <3> QED BY <3>3 DEF p
  <2>4. \E s \in Int : W(d) - n = (W(e) + b) * s /\ k[d] = k[e] * s
    <3>1. CASE d - 1 \in D
      <4>1. e = d - 1
        BY <1>2, <1>7, <1>9, <3>1
      <4> QED BY <1>3, <1>5, <2>3, <4>1
    <3>2. CASE d - 1 \notin D
      <4>1. b = 0
        BY <1>4, <3>2
      <4>2. W(d - 1) + b = W(d - 1) /\ W(e) + b = W(e)
        BY <1>3, <1>9, <4>1
      <4>3. W(d) - n = (W(e) + b) * (r * g) /\ k[d] = k[e] * (r * g)
        BY <1>5, <1>10, <2>3, <4>2
      <4> QED BY <1>10, <4>3
    <3> QED BY <3>1, <3>2
  <2>5. PICK s \in Int : W(d) - n = (W(e) + b) * s /\ k[d] = k[e] * s
    BY <2>4
  <2> DEFINE z == W(e) + b
             y == h[d - 1][2]
             a == k[e]
  <2>6. z \in Int /\ y \in Int /\ a \in Int
    BY <1>3, <1>7, <1>8, <1>9
  <2>7. h[d] = <<(a * y) * (z * s), y * z>>
    <3>1. h[d] = <<h[d - 1][1] * q[1], h[d - 1][2] * q[2]>>
      BY <1>6, <1>12
    <3>2. q[1] = z * s /\ q[2] = z /\ h[d - 1][1] = a * y
      BY <1>7, <2>2, <2>5
    <3> HIDE DEF q, z, a
    <3> QED BY <3>1, <3>2
  <2>8. (a * y) * (z * s) = (a * s) * (y * z)
    <3> HIDE DEF a, y, z
    <3> QED BY <2>6, ProductsCommute
  <2>9. h[d][1] = k[d] * h[d][2]
    <3> HIDE DEF y, z
    <3> QED BY <2>5, <2>7, <2>8
  <2>10. k[d] \in Int
    <3> HIDE DEF y, z
    <3> QED BY <2>5, <2>6
  <2>11. k[d] = k[d] * 1 /\ W(d) = W(d) * 1 /\ d <= d /\ \A c \in D : c <= d => c <= d
    BY <1>2, <1>3, <2>10
  <2> HIDE DEF q, z, y, a
  <2>12. 1 \in Int
    OBVIOUS
  <2> QED BY <1>12, <2>9, <2>10, <2>11, <2>12 DEF Along, D, W
<1> QED BY <1>11, <1>12

\* At the last close it is what the thing returned.
LEMMA ReturnIsOfTheMarket ==
  ASSUME NEW x \in Worlds, Refused \notin Int, Fortune!HoldsTheMarket(x), ReadingOf(x) # Refused, IsPlaced(x),
         NEW k, Returned(x, k)
  PROVE  LET linked == Fortune!Linked(NavOf(x), Fortune!External(x.flows))
         IN linked[1] = k[LastDay(x)] * linked[2]
<1> DEFINE ext == Fortune!External(x.flows)
           D == Fortune!Days(x.closings)
           nav == NavOf(x)
           R == FirstDay(x)..LastDay(x)
<1>1. /\ Holding(x) /\ LegsVerified(x) /\ D \subseteq Int /\ DOMAIN nav = D
      /\ FirstDay(x) \in D /\ LastDay(x) \in D /\ \A c \in D : FirstDay(x) <= c /\ c <= LastDay(x)
      /\ \A c \in D : nav[c] = WorthAt(x, c) /\ WorthAt(x, c) \in Int /\ WorthAt(x, c) > 0 /\ c \in DOMAIN x.growth
      /\ \A f \in DOMAIN ext : ext[f].timing \in Fortune!Timings
  BY ReadingIs
<1>2. FirstDay(x) \in Int /\ LastDay(x) \in Int /\ FirstDay(x) <= LastDay(x)
  BY <1>1
<1>3. FirstDay(x) = Fortune!Min(DOMAIN nav) /\ LastDay(x) = Fortune!Max(DOMAIN nav)
  BY <1>1 DEF FirstDay, LastDay
<1>4. \A d \in R : d # FirstDay(x) /\ d \in DOMAIN nav => Fortune!Subperiod(nav, ext, d) \in Pairs
  <2> SUFFICES ASSUME NEW d \in R, d # FirstDay(x), d \in D
               PROVE  Fortune!Subperiod(nav, ext, d) \in Pairs
    BY <1>1
  <2> DEFINE S == {c \in DOMAIN nav : c < d}
             e == Fortune!CloseBefore(nav, d)
  <2>1. S \subseteq Int /\ IsFiniteSet(S) /\ S # {}
    <3>1. IsFiniteSet(D)
      BY WorldIs
    <3>2. FirstDay(x) \in S
      BY <1>1, <1>2
    <3>3. S \subseteq D
      BY <1>1
    <3> HIDE DEF S, D
    <3> QED BY <1>1, <3>1, <3>2, <3>3, FS_Subset
  <2>2. e \in S
    <3>1. e = Fortune!Max(S)
      BY DEF Fortune!CloseBefore
    <3> HIDE DEF S, e
    <3> QED BY <2>1, <3>1, ExtremesAre
  <2>3. nav[d] \in Int /\ nav[e] \in Int
    <3>1. e \in D
      BY <1>1, <2>2
    <3> HIDE DEF e
    <3> QED BY <1>1, <3>1
  <2>4. Fortune!Amount(ext, d, "EOD") \in Int /\ Fortune!Amount(ext, d, "BOD") \in Int
    <3>1. MovedAt(x, d, TRUE) \in Int /\ MovedAt(x, d, FALSE) \in Int
      BY <1>1, MovedByAccounts
    <3>2. Fortune!Amount(ext, d, "BOD") = MovedAt(x, d, TRUE) /\ Fortune!Amount(ext, d, "EOD") = MovedAt(x, d, FALSE)
      BY <1>1, QuietDays
    <3> QED BY <3>1, <3>2
  <2> HIDE DEF nav, ext
  <2>5. Fortune!Subperiod(nav, ext, d) = <<nav[d] - Fortune!Amount(ext, d, "EOD"), nav[e] + Fortune!Amount(ext, d, "BOD")>>
    BY DEF Fortune!Subperiod
  <2> HIDE DEF e
  <2> QED BY <2>3, <2>4, <2>5 DEF Pairs
<1>5. PICK h \in [R -> Pairs] : Links(nav, ext, h) /\ Fortune!Linked(nav, ext) = h[LastDay(x)]
  <2> HIDE DEF nav, ext
  <2>1. Measured(nav, ext, FirstDay(x), LastDay(x))
    BY <1>4 DEF Measured
  <2> QED BY <1>2, <1>3, <2>1, LinksExist
<1>6. k[FirstDay(x)] = 1
  <2>1. FirstDay(x) \in R
    BY <1>2
  <2> QED BY <2>1 DEF Returned
<1> DEFINE T == {m \in Nat : FirstDay(x) + m \in R => Along(x, h, k, FirstDay(x) + m)}
<1>7. 0 \in T
  <2>1. h[FirstDay(x)] = <<1, 1>>
    <3>1. FirstDay(x) \in R
      BY <1>2
    <3> HIDE DEF nav, ext
    <3> QED BY <1>3, <1>5, <3>1 DEF Links
  <2>2. WorthAt(x, FirstDay(x)) \in Int
    BY <1>1
  <2>3. /\ FirstDay(x) <= FirstDay(x) /\ \A c \in D : c <= FirstDay(x) => c <= FirstDay(x)
        /\ k[FirstDay(x)] \in Int /\ h[FirstDay(x)][1] = k[FirstDay(x)] * h[FirstDay(x)][2]
        /\ k[FirstDay(x)] = k[FirstDay(x)] * 1 /\ WorthAt(x, FirstDay(x)) = WorthAt(x, FirstDay(x)) * 1
        /\ 1 \in Int
    BY <1>2, <1>6, <2>1, <2>2
  <2>4. Along(x, h, k, FirstDay(x))
    <3> HIDE DEF D
    <3> QED BY <1>1, <2>3 DEF Along, D
  <2>5. FirstDay(x) + 0 = FirstDay(x)
    BY <1>2
  <2> QED BY <2>4, <2>5
<1>8. ASSUME NEW m \in T PROVE m + 1 \in T
  <2> SUFFICES ASSUME FirstDay(x) + (m + 1) \in R
               PROVE  Along(x, h, k, FirstDay(x) + (m + 1))
    OBVIOUS
  <2> DEFINE d == FirstDay(x) + (m + 1)
  <2>1. d \in R /\ d # FirstDay(x) /\ d - 1 = FirstDay(x) + m /\ FirstDay(x) + m \in R
    BY <1>2
  <2>2. Along(x, h, k, d - 1)
    BY <2>1
  <2> HIDE DEF d
  <2>3. Along(x, h, k, d)
    BY <1>5, <2>1, <2>2, ADayAlong
  <2> QED BY <2>3 DEF d
<1>9. T = Nat
  <2> HIDE DEF T
  <2>1. T \in SUBSET Nat
    BY DEF T
  <2> QED BY <1>7, <1>8, <2>1, NatSetInduction
<1>10. Along(x, h, k, LastDay(x))
  <2>1. /\ LastDay(x) - FirstDay(x) \in Nat /\ FirstDay(x) + (LastDay(x) - FirstDay(x)) = LastDay(x)
        /\ LastDay(x) \in R
    BY <1>2
  <2> QED BY <1>9, <2>1
<1>11. PICK e \in D, r \in Int :
         /\ e <= LastDay(x) /\ \A c \in D : c <= LastDay(x) => c <= e
         /\ h[LastDay(x)][1] = k[e] * h[LastDay(x)][2]
  BY <1>10 DEF Along
<1>12. e = LastDay(x)
  <2>1. LastDay(x) <= e /\ e <= LastDay(x) /\ e \in Int
    BY <1>1, <1>2, <1>11
  <2> QED BY <1>2, <2>1
<1> QED BY <1>5, <1>11, <1>12

\* Where the thing never grows, the worth changes by what comes from outside.
LEMMA NoGain ==
  ASSUME NEW x \in Worlds, Refused \notin Int, Fortune!HoldsTheMarket(x), ReadingOf(x) # Refused,
         \A d \in 2..Len(x.growth) : x.growth[d] = 1
  PROVE  ReadingOf(x).gain = 0
<1> DEFINE ext == Fortune!External(x.flows)
           D == Fortune!Days(x.closings)
           nav == NavOf(x)
           R == FirstDay(x)..LastDay(x)
           g == InBaseOf(x)
           Up(d) == {f \in DOMAIN ext : ext[f].day <= d}
           Sum(s) == SumFunctionOnSet(g, s)
           W(d) == WorthAt(x, d)
<1>1. /\ Holding(x) /\ LegsVerified(x) /\ D \subseteq Int /\ DOMAIN nav = D
      /\ FirstDay(x) \in D /\ LastDay(x) \in D /\ \A c \in D : FirstDay(x) <= c /\ c <= LastDay(x)
      /\ \A c \in D : nav[c] = W(c) /\ W(c) \in Int /\ c \in DOMAIN x.growth
      /\ \A f \in DOMAIN ext : FirstDay(x) < ext[f].day /\ ext[f].day <= LastDay(x)
      /\ ReadingOf(x).gain = nav[LastDay(x)] - nav[FirstDay(x)] - Fortune!NetFlow(ext)
  BY ReadingIs
<1>2. FirstDay(x) \in Int /\ LastDay(x) \in Int /\ FirstDay(x) <= LastDay(x)
  BY <1>1
<1>3. /\ DOMAIN ext = DOMAIN x.flows \ Fortune!Legs(x.flows) /\ IsFiniteSet(DOMAIN ext)
      /\ \A f \in DOMAIN ext : /\ ext[f].amount = g[f] /\ g[f] \in Int /\ ext[f].day = x.flows[f].day /\ ext[f].day \in Int
                               /\ Fortune!Early(ext[f]) = Fortune!Early(x.flows[f])
  BY <1>1, ExternalIs
<1>4. ASSUME NEW d \in Int
      PROVE  /\ IsFiniteSet(Up(d)) /\ IsFiniteSet(Up(d - 1)) /\ Sum(Up(d)) \in Int /\ Sum(Up(d - 1)) \in Int
             /\ Sum(Up(d)) = Sum(Up(d - 1)) + MovedAt(x, d, TRUE) + MovedAt(x, d, FALSE)
             /\ MovedAt(x, d, TRUE) \in Int /\ MovedAt(x, d, FALSE) \in Int
  <2> DEFINE E == Outer(x, d, TRUE)
             L == Outer(x, d, FALSE)
             U == Up(d - 1)
  <2>1. \A early : Outer(x, d, early) = {f \in DOMAIN ext : ext[f].day = d /\ Fortune!Early(ext[f]) = early}
    BY <1>3 DEF Outer, Moment, Fortune!OfDay
  <2>2. \A f \in DOMAIN ext : Fortune!Early(ext[f]) \in BOOLEAN
    BY DEF Fortune!Early
  <2>3. \A f \in DOMAIN ext : ext[f].day <= d <=> ext[f].day <= d - 1 \/ ext[f].day = d
    BY <1>3
  <2>4. \A f \in DOMAIN ext : ~(ext[f].day <= d - 1 /\ ext[f].day = d)
    BY <1>3
  <2> HIDE DEF ext
  <2>5. Up(d) = (U \cup E) \cup L
    BY <2>1, <2>2, <2>3
  <2>6. U \cap E = {} /\ (U \cup E) \cap L = {}
    BY <2>1, <2>4
  <2>7. IsFiniteSet(U) /\ IsFiniteSet(E) /\ IsFiniteSet(L) /\ IsFiniteSet(U \cup E)
    <3>1. U \subseteq DOMAIN ext /\ E \subseteq DOMAIN ext /\ L \subseteq DOMAIN ext /\ U \cup E \subseteq DOMAIN ext
      BY <2>1
    <3> HIDE DEF U, E, L
    <3> QED BY <1>3, <3>1, FS_Subset
  <2>8. \A f \in (U \cup E) \cup L : g[f] \in Int
    BY <1>3, <2>1
  <2>9. MovedAt(x, d, TRUE) = Sum(E) /\ MovedAt(x, d, FALSE) = Sum(L)
    BY <1>1, MovedOutside
  <2>10. IsFiniteSet(Up(d))
    <3>1. Up(d) \subseteq DOMAIN ext
      OBVIOUS
    <3> HIDE DEF Up
    <3> QED BY <1>3, <3>1, FS_Subset
  <2> HIDE DEF U, E, L, g
  <2>11. Sum(U) \in Int /\ Sum(E) \in Int /\ Sum(L) \in Int
    BY <2>7, <2>8, SumIsInt
  <2>12. Sum(U \cup E) = Sum(U) + Sum(E)
    BY <2>6, <2>7, <2>8, SumOfBoth
  <2>13. Sum((U \cup E) \cup L) = Sum(U \cup E) + Sum(L)
    BY <2>6, <2>7, <2>8, SumOfBoth
  <2>14. Sum(Up(d)) = Sum((U \cup E) \cup L)
    BY <2>5
  <2> HIDE DEF Sum, Up
  <2>15. Sum(Up(d)) = Sum(U) + Sum(E) + Sum(L) /\ Sum(Up(d)) \in Int
    BY <2>11, <2>12, <2>13, <2>14
  <2> QED BY <2>7, <2>9, <2>10, <2>11, <2>15 DEF U
<1> HIDE DEF Up, Sum, W
<1> DEFINE T == {m \in Nat : FirstDay(x) + m \in R => W(FirstDay(x) + m) = W(FirstDay(x)) + Sum(Up(FirstDay(x) + m))}
<1>5. 0 \in T
  <2>1. Up(FirstDay(x)) = {}
    <3>1. \A f \in DOMAIN ext : ~(ext[f].day <= FirstDay(x))
      BY <1>1, <1>2, <1>3
    <3> HIDE DEF ext
    <3> QED BY <3>1 DEF Up
  <2>2. Sum(Up(FirstDay(x))) = 0
    BY <2>1, SumOfNothing DEF Sum
  <2>3. W(FirstDay(x)) = W(FirstDay(x)) + Sum(Up(FirstDay(x))) /\ FirstDay(x) + 0 = FirstDay(x)
    BY <1>1, <1>2, <2>2
  <2> QED BY <2>3
<1>6. ASSUME NEW m \in T PROVE m + 1 \in T
  <2> SUFFICES ASSUME FirstDay(x) + (m + 1) \in R
               PROVE  W(FirstDay(x) + (m + 1)) = W(FirstDay(x)) + Sum(Up(FirstDay(x) + (m + 1)))
    OBVIOUS
  <2> DEFINE d == FirstDay(x) + (m + 1)
  <2>1. d \in R /\ d # FirstDay(x) /\ d - 1 = FirstDay(x) + m /\ FirstDay(x) + m \in R /\ d \in Int
    BY <1>2
  <2>2. W(d - 1) = W(FirstDay(x)) + Sum(Up(d - 1))
    BY <2>1
  <2> HIDE DEF d
  <2>3. d \in 2..Len(x.growth)
    <3>1. Len(x.growth) \in Nat /\ DOMAIN x.growth = 1..Len(x.growth)
      BY WorldIs
    <3>2. FirstDay(x) \in 1..Len(x.growth) /\ LastDay(x) \in 1..Len(x.growth)
      BY <1>1, <3>1
    <3> QED BY <2>1, <3>1, <3>2
  <2> DEFINE b == MovedAt(x, d, TRUE)
             n == MovedAt(x, d, FALSE)
             w == W(FirstDay(x))
  <2>4. /\ W(d) \in Int /\ W(d - 1) \in Int /\ b \in Int /\ n \in Int /\ w \in Int
        /\ W(d) = (W(d - 1) + b) * x.growth[d] + n
    BY <1>1, <2>3, WorthGrows DEF W
  <2>5. Sum(Up(d)) = Sum(Up(d - 1)) + b + n /\ Sum(Up(d)) \in Int /\ Sum(Up(d - 1)) \in Int
    BY <1>4, <2>1
  <2> HIDE DEF b, n, w
  <2>6. W(d) = W(d - 1) + b + n
    <3>1. W(d) = (W(d - 1) + b) * 1 + n
      <4>1. x.growth[d] = 1
        BY <2>3
      <4> QED BY <2>4, <4>1
    <3> QED BY <2>4, <3>1
  <2>7. W(d - 1) = w + Sum(Up(d - 1))
    BY <2>2 DEF w
  <2>8. W(d) = w + Sum(Up(d))
    BY <2>4, <2>5, <2>6, <2>7
  <2> QED BY <2>8 DEF d, w
<1>7. T = Nat
  <2> HIDE DEF T
  <2>1. T \in SUBSET Nat
    BY DEF T
  <2> QED BY <1>5, <1>6, <2>1, NatSetInduction
<1>8. W(LastDay(x)) = W(FirstDay(x)) + Sum(Up(LastDay(x)))
  <2>1. /\ LastDay(x) - FirstDay(x) \in Nat /\ FirstDay(x) + (LastDay(x) - FirstDay(x)) = LastDay(x)
        /\ LastDay(x) \in R
    BY <1>2
  <2> QED BY <1>7, <2>1
<1>9. Fortune!NetFlow(ext) = Sum(Up(LastDay(x)))
  <2>1. Up(LastDay(x)) = DOMAIN ext
    BY <1>1 DEF Up
  <2> DEFINE a == [f \in DOMAIN ext |-> ext[f].amount]
  <2>2. Fortune!NetFlow(ext) = SumFunctionOnSet(a, DOMAIN ext)
    BY FortuneTotals DEF Fortune!NetFlow
  <2>3. \A f \in DOMAIN ext : g[f] \in Int /\ a[f] = g[f]
    BY <1>3
  <2> HIDE DEF a, g, ext
  <2>4. SumFunctionOnSet(g, DOMAIN ext) = SumFunctionOnSet(a, DOMAIN ext)
    BY <1>3, <2>3, SumSame
  <2> QED BY <2>1, <2>2, <2>4 DEF Sum
<1>10. Sum(Up(LastDay(x))) \in Int
  BY <1>2, <1>4
<1> HIDE DEF nav, ext
<1> QED BY <1>1, <1>8, <1>9, <1>10

\* The answer is that of the code.
WealthInv ==
  book = "wealth" => /\ input \in WealthFiles
                     /\ output # Unanswered => output = <<ReadingOf(input)>>

LEMMA WealthIsAnswered == EstimatesSpec => []WealthInv
<1>1. EstimatesInit => WealthInv
  BY DEF EstimatesInit, WealthInv, Unanswered
<1>2. WealthInv /\ [EstimatesNext]_answers => WealthInv'
  <2> SUFFICES ASSUME WealthInv, [EstimatesNext]_answers
               PROVE  WealthInv'
    OBVIOUS
  <2>1. CASE UNCHANGED answers
    BY <2>1 DEF answers, WealthInv
  <2>2. CASE Perform
    BY <2>2 DEF Perform, Answers, Asked, WealthInv, ReadingOf
  <2>3. CASE \/ Propose \/ ReadRules \/ ReserveTaxes \/ ClassifyIncome \/ ReadInputs \/ KeepBook \/ AddAccounts
             \/ ReadResults \/ PrepareCetes \/ PrepareBond \/ AccrueLiquidity \/ Study
    BY <2>3 DEF Propose, ReadRules, ReserveTaxes, ClassifyIncome, ReadInputs, KeepBook, AddAccounts, ReadResults,
                PrepareCetes, PrepareBond, AccrueLiquidity, Study, Answers, Asked, WealthInv
  <2> QED BY <2>1, <2>2, <2>3 DEF EstimatesNext
<1> QED BY <1>1, <1>2, PTL DEF EstimatesSpec

\* Whatever is paid in, taken out or moved between accounts that hold the same
\* thing, on whatever days and in whatever currencies, the time-weighted return
\* is that of the thing, and there is no gain where it never grows
\* (multi_currency_wealth.py:117, realized_performance.py:50).
THEOREM PerformanceIsKept == EstimatesSpec => []PerformanceIsOfTheMarket
<1>1. ASSUME NEW x \in Worlds, NEW k, Returned(x, k), Fortune!HoldsTheMarket(x), ReadingOf(x) # Refused,
             ReadingOf(x).twr # Blank
      PROVE  ReadingOf(x).twr[1] = k[LastDay(x)] * ReadingOf(x).twr[2]
  <2>1. Refused \notin Int
    BY BooksAssumption
  <2>2. IsPlaced(x) /\ ReadingOf(x).twr = Fortune!Linked(NavOf(x), Fortune!External(x.flows))
    BY <1>1, <2>1, ReadingIs
  <2> QED BY <1>1, <2>1, <2>2, ReturnIsOfTheMarket
<1>2. ASSUME NEW x \in Worlds, Fortune!HoldsTheMarket(x), ReadingOf(x) # Refused
      PROVE  \E k : Returned(x, k)
  <2>1. Refused \notin Int
    BY BooksAssumption
  <2> DEFINE D == Fortune!Days(x.closings)
  <2>2. /\ D \subseteq Int /\ FirstDay(x) \in D /\ LastDay(x) \in D /\ \A c \in D : FirstDay(x) <= c /\ c \in DOMAIN x.growth
    BY <1>2, <2>1, ReadingIs
  <2>3. /\ Len(x.growth) \in Nat /\ DOMAIN x.growth = 1..Len(x.growth)
        /\ \A d \in DOMAIN x.growth : x.growth[d] \in Nat
    BY WorldIs
  <2> HIDE DEF D
  <2>4. FirstDay(x) \in 1..Len(x.growth) /\ LastDay(x) \in 1..Len(x.growth)
    BY <2>2, <2>3
  <2>5. FirstDay(x) \in Int /\ LastDay(x) \in Int /\ FirstDay(x) <= LastDay(x)
    BY <2>2
  <2>6. \A d \in FirstDay(x)..LastDay(x) : x.growth[d] \in Int
    BY <2>3, <2>4
  <2> QED BY <2>5, <2>6, ReturnExists
<1>3. ASSUME NEW x \in Worlds
      PROVE  Fortune!FlowsAreNotPerformance(x, ReadingOf(x))
  <2> DEFINE market == CHOOSE k : Returned(x, k)
  <2>1. ASSUME Fortune!HoldsTheMarket(x), ReadingOf(x) # Refused
        PROVE  /\ ReadingOf(x).twr # Blank => ReadingOf(x).twr[1] = market[LastDay(x)] * ReadingOf(x).twr[2]
               /\ (\A day \in 2..Len(x.growth) : x.growth[day] = 1) => ReadingOf(x).gain = 0
    <3>1. Returned(x, market)
      BY <1>2, <2>1
    <3>2. Refused \notin Int
      BY BooksAssumption
    <3> HIDE DEF market
    <3> QED BY <1>1, <2>1, <3>1, <3>2, NoGain
  <2> QED BY <2>1 DEF Fortune!FlowsAreNotPerformance, Returned, FirstDay, LastDay
<1>4. ASSUME WealthInv
      PROVE  PerformanceIsOfTheMarket
  <2> SUFFICES ASSUME Answered("wealth")
               PROVE  Fortune!FlowsAreNotPerformance(input, output[1])
    BY DEF PerformanceIsOfTheMarket
  <2>1. input \in WealthFiles /\ output[1] = ReadingOf(input)
    BY <1>4 DEF WealthInv, Answered
  <2>2. input \in Worlds
    BY <2>1, WealthAssumption DEF Worlds
  <2> QED BY <1>3, <2>1, <2>2
<1> QED BY <1>4, WealthIsAnswered, PTL
=============================================================================
