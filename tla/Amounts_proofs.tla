--------------------------- MODULE Amounts_proofs ---------------------------
(***************************************************************************)
(* What is added up, each for any values of its constants.                 *)
(*                                                                         *)
(* Part 1, finite sums: a sum does not depend on the order, one element    *)
(* more adds its term, sums that cover one another term by term do so in   *)
(* all, and a sum is that of its groups.                                   *)
(*                                                                         *)
(* Part 2, TrialBudget: whatever moves between the reads of a session,     *)
(* what it reserves covers what every other attempt commits the account    *)
(* to, so that a claim never takes the account over a limit.  The          *)
(* inductive invariant adds to the types                                   *)
(*   Promised   what is told of a draft is behind what the market holds;   *)
(*   Settled    an attempt known to have ended, with nothing recorded of   *)
(*              it since the reads began, had ended when the positions     *)
(*              were read: its shares are in them.                         *)
(*                                                                         *)
(* Part 3, TradeOrders: the three cents that the constraint of the cash    *)
(* keeps for each order cover every rounding of its charges, for the costs *)
(* that the code admits.  The two readings of a file of rules agree.       *)
(*                                                                         *)
(* Part 4, TaxBooks: no reserve takes part of the basis of a sale, and the *)
(* income of a year is classified whole.                                   *)
(*                                                                         *)
(* Part 5, AnalysisInputs: of the files that may come together each is     *)
(* read, whichever they are.                                               *)
(*                                                                         *)
(* Part 6, Estimates: the invariant says that an answer is one the code    *)
(* gives to a question that was asked; Parts 3 to 5 then give the three    *)
(* theorems about plans, taxes and files.                                  *)
(***************************************************************************)
EXTENDS TrialBudget, Estimates, FiniteSetTheorems, WellFoundedInduction, TLAPS

----------------------------------------------------------------------------
(* Part 1: finite sums. *)

\* Induction over the naturals, said of a set.
LEMMA NatSetInduction ==
  ASSUME NEW T \in SUBSET Nat, 0 \in T, \A n \in T : n + 1 \in T
  PROVE  T = Nat
<1>1. SUFFICES ASSUME Nat \ T # {} PROVE FALSE
  OBVIOUS
<1>2. PICK x \in Nat \ T : \A y \in Nat \ T : ~(<<y, x>> \in OpToRel(<, Nat))
  BY <1>1, NatLessThanWellFounded, WFMin
<1>3. x # 0 /\ x \in Nat
  OBVIOUS
<1>4. x - 1 \in Nat /\ x - 1 < x
  BY <1>3
<1>5. <<x - 1, x>> \in OpToRel(<, Nat)
  BY <1>3, <1>4 DEF OpToRel
<1>6. x - 1 \in T
  BY <1>2, <1>4, <1>5
<1>7. (x - 1) + 1 = x
  BY <1>3
<1> QED BY <1>6, <1>7, <1>3

\* Induction over the subsets of a finite set, one element more at a time.
LEMMA SetInduction ==
  ASSUME NEW S, IsFiniteSet(S), NEW T \in SUBSET SUBSET S, {} \in T,
         \A s \in T : \A x \in S \ s : s \cup {x} \in T
  PROVE  T = SUBSET S
<1> DEFINE N == {n \in Nat : \A s \in SUBSET S : Cardinality(s) = n => s \in T}
<1>1. \A s \in SUBSET S : IsFiniteSet(s) /\ Cardinality(s) \in Nat
  BY FS_Subset, FS_CardinalityType
<1>2. 0 \in N
  <2>1. ASSUME NEW s \in SUBSET S, Cardinality(s) = 0
        PROVE  s = {}
    BY <1>1, <2>1, FS_EmptySet
  <2> QED BY <2>1
<1>3. ASSUME NEW n \in N
      PROVE  n + 1 \in N
  <2> SUFFICES ASSUME NEW s \in SUBSET S, Cardinality(s) = n + 1
               PROVE  s \in T
    OBVIOUS
  <2>1. IsFiniteSet(s) /\ n \in Nat
    BY <1>1
  <2>2. PICK x : x \in s
    <3>1. Cardinality(s) # 0
      BY <2>1
    <3>2. s # {}
      BY <2>1, <3>1, FS_EmptySet
    <3> QED BY <3>2
  <2>3. Cardinality(s \ {x}) = Cardinality(s) - 1
    BY <2>1, <2>2, FS_RemoveElement
  <2>4. Cardinality(s \ {x}) = n
    BY <2>1, <2>3
  <2>5. s \ {x} \in T
    BY <2>4
  <2>6. (s \ {x}) \cup {x} \in T
    BY <2>2, <2>5
  <2>7. (s \ {x}) \cup {x} = s
    BY <2>2
  <2> QED BY <2>6, <2>7
<1>4. N = Nat
  BY <1>2, <1>3, NatSetInduction
<1>5. ASSUME NEW s \in SUBSET S
      PROVE  s \in T
  BY <1>1, <1>4
<1> QED BY <1>5

\* A sum folds by taking one chosen element out at a time.
Element(s) == CHOOSE x \in s : TRUE

PartialSum(f, S, g) ==
  g = [s \in SUBSET S |-> IF s = {} THEN 0 ELSE f[Element(s)] + g[s \ {Element(s)}]]

\* The sum is the value of that iteration on the whole set.
LEMMA SumIsIterated ==
  ASSUME NEW f, NEW S
  PROVE  SumFunctionOnSet(f, S) = (CHOOSE g : PartialSum(f, S, g))[S]
BY DEF SumFunctionOnSet, FoldFunctionOnSet, MapThenFoldSet, PartialSum, Element

\* Taking its chosen element out of a finite set leaves a smaller one.
LEMMA ElementOut ==
  ASSUME NEW s, IsFiniteSet(s), s # {}
  PROVE  /\ Element(s) \in s
         /\ IsFiniteSet(s \ {Element(s)})
         /\ Cardinality(s) \in Nat
         /\ Cardinality(s \ {Element(s)}) = Cardinality(s) - 1
<1>1. Element(s) \in s
  BY DEF Element
<1> QED BY <1>1, FS_RemoveElement, FS_CardinalityType

\* The function that iterates the sum exists.
LEMMA PartialSumExists ==
  ASSUME NEW S, IsFiniteSet(S), NEW f
  PROVE  \E g : PartialSum(f, S, g)
<1> DEFINE Small(n) == {s \in SUBSET S : Cardinality(s) <= n}
           Step(g, s) == IF s = {} THEN 0 ELSE f[Element(s)] + g[s \ {Element(s)}]
           Good(n, g) == g = [s \in Small(n) |-> Step(g, s)]
           T == {n \in Nat : \E g : Good(n, g)}
<1>0. \A s \in SUBSET S : IsFiniteSet(s) /\ Cardinality(s) \in Nat
  BY FS_Subset, FS_CardinalityType
<1>1. 0 \in T
  <2>1. \A s \in Small(0) : s = {}
    BY <1>0, FS_EmptySet
  <2>2. Good(0, [s \in Small(0) |-> 0])
    BY <2>1
  <2> QED BY <2>2
<1>2. ASSUME NEW n \in T
      PROVE  n + 1 \in T
  <2>1. PICK g : Good(n, g)
    OBVIOUS
  <2> DEFINE h == [s \in Small(n + 1) |-> Step(g, s)]
  <2>2. ASSUME NEW s \in Small(n + 1), s # {}
        PROVE  s \ {Element(s)} \in Small(n)
    BY <1>0, <2>2, ElementOut
  <2>3. ASSUME NEW s \in Small(n)
        PROVE  h[s] = g[s]
    <3>1. s \in Small(n + 1)
      BY <1>0
    <3>2. h[s] = Step(g, s)
      BY <3>1
    <3>3. g[s] = Step(g, s)
      BY <2>1 DEF Good
    <3> QED BY <3>2, <3>3
  <2>4. ASSUME NEW s \in Small(n + 1)
        PROVE  Step(g, s) = Step(h, s)
    BY <2>2, <2>3
  <2>5. h = [s \in Small(n + 1) |-> Step(h, s)]
    <3> HIDE DEF Step, Small
    <3> QED BY <2>4
  <2>6. Good(n + 1, h)
    BY <2>5
  <2> HIDE DEF Good, h
  <2> QED BY <2>6
<1>3. T = Nat
  <2> HIDE DEF Good
  <2> QED BY <1>1, <1>2, NatSetInduction
<1>4. Cardinality(S) \in T
  BY <1>3, FS_CardinalityType
<1>5. PICK g : Good(Cardinality(S), g)
  BY <1>4
<1>6. Small(Cardinality(S)) = SUBSET S
  BY FS_Subset
<1>7. PartialSum(f, S, g)
  BY <1>5, <1>6 DEF PartialSum
<1> QED BY <1>7

\* Two such iterations agree where both say something.
LEMMA PartialSumsAgree ==
  ASSUME NEW R, IsFiniteSet(R), NEW S \in SUBSET R, NEW f, NEW g, NEW h,
         PartialSum(f, R, g), PartialSum(f, S, h)
  PROVE  \A s \in SUBSET S : g[s] = h[s]
<1> DEFINE N == {n \in Nat : \A s \in SUBSET S : Cardinality(s) = n => g[s] = h[s]}
<1>1. \A s \in SUBSET S : IsFiniteSet(s) /\ Cardinality(s) \in Nat /\ s \in SUBSET R
  BY FS_Subset, FS_CardinalityType
<1>2. /\ g[{}] = 0 /\ h[{}] = 0
      /\ \A s \in SUBSET S : s # {} => /\ g[s] = f[Element(s)] + g[s \ {Element(s)}]
                                       /\ h[s] = f[Element(s)] + h[s \ {Element(s)}]
  BY DEF PartialSum
<1>3. 0 \in N
  <2>1. ASSUME NEW s \in SUBSET S, Cardinality(s) = 0
        PROVE  s = {}
    BY <1>1, <2>1, FS_EmptySet
  <2> QED BY <1>2, <2>1
<1>4. ASSUME NEW n \in N
      PROVE  n + 1 \in N
  <2> SUFFICES ASSUME NEW s \in SUBSET S, Cardinality(s) = n + 1
               PROVE  g[s] = h[s]
    OBVIOUS
  <2>1. IsFiniteSet(s) /\ n \in Nat
    BY <1>1
  <2>2. Cardinality(s) # 0
    BY <2>1
  <2>3. s # {}
    BY <2>1, <2>2, FS_EmptySet
  <2>4. Cardinality(s \ {Element(s)}) = Cardinality(s) - 1
    BY <2>1, <2>3, ElementOut
  <2>5. Cardinality(s \ {Element(s)}) = n
    BY <2>1, <2>4
  <2>6. g[s \ {Element(s)}] = h[s \ {Element(s)}]
    BY <2>5
  <2> QED BY <1>2, <2>3, <2>6
<1>5. N = Nat
  BY <1>3, <1>4, NatSetInduction
<1> QED BY <1>1, <1>5

\* A sum is that of its chosen element and of the rest.
LEMMA SumUnfolds ==
  ASSUME NEW S, IsFiniteSet(S), NEW f
  PROVE  /\ SumFunctionOnSet(f, {}) = 0
         /\ S # {} => SumFunctionOnSet(f, S) = f[Element(S)] + SumFunctionOnSet(f, S \ {Element(S)})
<1> DEFINE g(s) == CHOOSE h : PartialSum(f, s, h)
<1>1. \A s \in SUBSET S : IsFiniteSet(s)
  BY FS_Subset
<1>2. \A s \in SUBSET S : PartialSum(f, s, g(s))
  BY <1>1, PartialSumExists
<1>3. \A s \in SUBSET S : SumFunctionOnSet(f, s) = g(s)[s]
  BY SumIsIterated
<1> HIDE DEF g
<1>4. g({})[{}] = 0
  BY <1>2 DEF PartialSum
<1>5. ASSUME S # {}
      PROVE  g(S)[S] = f[Element(S)] + g(S \ {Element(S)})[S \ {Element(S)}]
  <2>1. g(S)[S] = f[Element(S)] + g(S)[S \ {Element(S)}]
    BY <1>2, <1>5 DEF PartialSum
  <2>2. g(S)[S \ {Element(S)}] = g(S \ {Element(S)})[S \ {Element(S)}]
    BY <1>2, PartialSumsAgree
  <2> QED BY <2>1, <2>2
<1> QED BY <1>3, <1>4, <1>5

\* A sum of nothing.
LEMMA SumOfNothing == \A f : SumFunctionOnSet(f, {}) = 0
<1> SUFFICES ASSUME NEW f PROVE SumFunctionOnSet(f, {}) = 0
  OBVIOUS
<1>1. IsFiniteSet({})
  BY FS_EmptySet
<1> QED BY <1>1, SumUnfolds

\* A sum of integers is an integer.
LEMMA SumIsInt ==
  ASSUME NEW S, IsFiniteSet(S), NEW f, \A x \in S : f[x] \in Int
  PROVE  SumFunctionOnSet(f, S) \in Int
<1> DEFINE N == {n \in Nat : \A s \in SUBSET S : Cardinality(s) = n => SumFunctionOnSet(f, s) \in Int}
<1>1. \A s \in SUBSET S : IsFiniteSet(s) /\ Cardinality(s) \in Nat
  BY FS_Subset, FS_CardinalityType
<1>2. 0 \in N
  <2>1. ASSUME NEW s \in SUBSET S, Cardinality(s) = 0
        PROVE  s = {}
    BY <1>1, <2>1, FS_EmptySet
  <2>2. SumFunctionOnSet(f, {}) \in Int
    BY SumOfNothing
  <2> QED BY <2>1, <2>2
<1>3. ASSUME NEW n \in N
      PROVE  n + 1 \in N
  <2> SUFFICES ASSUME NEW s \in SUBSET S, Cardinality(s) = n + 1
               PROVE  SumFunctionOnSet(f, s) \in Int
    OBVIOUS
  <2>1. IsFiniteSet(s) /\ n \in Nat
    BY <1>1
  <2>2. Cardinality(s) # 0
    BY <2>1
  <2>3. s # {}
    BY <2>1, <2>2, FS_EmptySet
  <2>4. Element(s) \in s /\ Cardinality(s \ {Element(s)}) = Cardinality(s) - 1
    BY <2>1, <2>3, ElementOut
  <2>5. Cardinality(s \ {Element(s)}) = n
    BY <2>1, <2>4
  <2>6. SumFunctionOnSet(f, s \ {Element(s)}) \in Int /\ f[Element(s)] \in Int
    BY <2>4, <2>5
  <2>7. SumFunctionOnSet(f, s) = f[Element(s)] + SumFunctionOnSet(f, s \ {Element(s)})
    BY <2>1, <2>3, SumUnfolds
  <2> QED BY <2>6, <2>7
<1>4. N = Nat
  BY <1>2, <1>3, NatSetInduction
<1> QED BY <1>1, <1>4

\* A sum does not depend on the element that is taken out.
LEMMA SumTakesOut ==
  ASSUME NEW S, IsFiniteSet(S), NEW f, \A x \in S : f[x] \in Int
  PROVE  \A x \in S : SumFunctionOnSet(f, S) = f[x] + SumFunctionOnSet(f, S \ {x})
<1> DEFINE Splits(s) == \A x \in s : SumFunctionOnSet(f, s) = f[x] + SumFunctionOnSet(f, s \ {x})
           N == {n \in Nat : \A s \in SUBSET S : Cardinality(s) = n => Splits(s)}
<1>1. \A s \in SUBSET S : IsFiniteSet(s) /\ Cardinality(s) \in Nat
  BY FS_Subset, FS_CardinalityType
<1>2. 0 \in N
  <2>1. ASSUME NEW s \in SUBSET S, Cardinality(s) = 0
        PROVE  s = {}
    BY <1>1, <2>1, FS_EmptySet
  <2> QED BY <2>1
<1>3. ASSUME NEW n \in N
      PROVE  n + 1 \in N
  <2> SUFFICES ASSUME NEW s \in SUBSET S, Cardinality(s) = n + 1, NEW x \in s
               PROVE  SumFunctionOnSet(f, s) = f[x] + SumFunctionOnSet(f, s \ {x})
    OBVIOUS
  <2> DEFINE e == Element(s)
             both == s \ {e, x}
  <2>1. IsFiniteSet(s) /\ n \in Nat /\ s # {}
    BY <1>1
  <2>2. e \in s
    BY <2>1, ElementOut
  <2>3. SumFunctionOnSet(f, s) = f[e] + SumFunctionOnSet(f, s \ {e})
    BY <2>1, SumUnfolds
  <2> HIDE DEF e
  <2>4. CASE e = x
    BY <2>3, <2>4
  <2>5. CASE e # x
    <3>1. \A y \in s : Cardinality(s \ {y}) = n
      <4> SUFFICES ASSUME NEW y \in s PROVE Cardinality(s \ {y}) = n
        OBVIOUS
      <4>1. Cardinality(s \ {y}) = Cardinality(s) - 1
        BY <2>1, FS_RemoveElement
      <4> QED BY <2>1, <4>1
    <3>2. Splits(s \ {e}) /\ Splits(s \ {x})
      BY <2>2, <3>1
    <3>3. (s \ {e}) \ {x} = both /\ (s \ {x}) \ {e} = both /\ x \in s \ {e} /\ e \in s \ {x}
      BY <2>2, <2>5
    <3>4. SumFunctionOnSet(f, s \ {e}) = f[x] + SumFunctionOnSet(f, both)
      BY <3>2, <3>3
    <3>5. SumFunctionOnSet(f, s \ {x}) = f[e] + SumFunctionOnSet(f, both)
      BY <3>2, <3>3
    <3>6. f[x] \in Int /\ f[e] \in Int
      BY <2>2
    <3>7. SumFunctionOnSet(f, both) \in Int
      <4>1. IsFiniteSet(both) /\ both \subseteq S
        BY <1>1
      <4> HIDE DEF both
      <4> QED BY <4>1, SumIsInt
    <3> HIDE DEF both
    <3> QED BY <2>3, <3>4, <3>5, <3>6, <3>7
  <2> QED BY <2>4, <2>5
<1>4. N = Nat
  <2> HIDE DEF Splits
  <2> QED BY <1>2, <1>3, NatSetInduction
<1>5. Splits(S)
  <2> HIDE DEF Splits
  <2> QED BY <1>1, <1>4
<1> QED BY <1>5

\* One element more adds its term.
LEMMA SumAdds ==
  ASSUME NEW S, IsFiniteSet(S), NEW e, e \notin S, NEW f, \A x \in S \cup {e} : f[x] \in Int
  PROVE  /\ SumFunctionOnSet(f, S \cup {e}) = f[e] + SumFunctionOnSet(f, S)
         /\ SumFunctionOnSet(f, S) \in Int
<1>1. IsFiniteSet(S \cup {e})
  BY FS_AddElement
<1>2. e \in S \cup {e} /\ (S \cup {e}) \ {e} = S
  OBVIOUS
<1>3. SumFunctionOnSet(f, S \cup {e}) = f[e] + SumFunctionOnSet(f, (S \cup {e}) \ {e})
  BY <1>1, <1>2, SumTakesOut
<1> QED BY <1>2, <1>3, SumIsInt

\* Two sums that differ in one term by at most c differ by at most c.
LEMMA SumIsBounded ==
  ASSUME NEW S, IsFiniteSet(S), NEW f \in [S -> Nat], NEW g \in [S -> Nat],
         NEW m \in S, NEW c \in Nat,
         f[m] <= c + g[m], \A e \in S \ {m} : f[e] <= g[e]
  PROVE  /\ SumFunction(f) \in Nat /\ SumFunction(g) \in Nat
         /\ SumFunction(f) <= c + SumFunction(g)
<1> DEFINE F(s) == SumFunctionOnSet(f, s)
           G(s) == SumFunctionOnSet(g, s)
           extra(s) == IF m \in s THEN c ELSE 0
           Bounded(s) == F(s) \in Nat /\ G(s) \in Nat /\ F(s) <= extra(s) + G(s)
           T == {s \in SUBSET S : Bounded(s)}
<1>1. {} \in T
  BY SumOfNothing
<1>2. ASSUME NEW s \in T, NEW x \in S \ s
      PROVE  s \cup {x} \in T
  <2>1. IsFiniteSet(s) /\ (\A y \in s \cup {x} : f[y] \in Int /\ g[y] \in Int)
    BY FS_Subset
  <2>2. F(s \cup {x}) = f[x] + F(s) /\ G(s \cup {x}) = g[x] + G(s)
    BY <2>1, SumAdds
  <2>3. Bounded(s) /\ f[x] \in Nat /\ g[x] \in Nat
    OBVIOUS
  <2>4. f[x] + extra(s) <= g[x] + extra(s \cup {x})
    <3>1. CASE x = m
      BY <2>3, <3>1
    <3>2. CASE x # m
      BY <2>3, <3>2
    <3> QED BY <3>1, <3>2
  <2>5. extra(s) \in Nat /\ extra(s \cup {x}) \in Nat
    OBVIOUS
  <2> HIDE DEF F, G, extra
  <2>6. Bounded(s \cup {x})
    BY <2>2, <2>3, <2>4, <2>5
  <2> QED BY <2>6
<1>3. T = SUBSET S
  <2>1. T \in SUBSET SUBSET S
    OBVIOUS
  <2> HIDE DEF T
  <2> QED BY <1>1, <1>2, <2>1, SetInduction
<1>4. Bounded(S)
  BY <1>3
<1>5. DOMAIN f = S /\ DOMAIN g = S
  OBVIOUS
<1> QED BY <1>4, <1>5 DEF SumFunction

\* Multiplying by a natural keeps the order.
LEMMA TimesMonotone ==
  ASSUME NEW a \in Nat, NEW b \in Nat, NEW c \in Nat, a <= b
  PROVE  c * a \in Nat /\ c * b \in Nat /\ c * a <= c * b
<1>1. PICK k \in Nat : b = a + k
  <2>1. b - a \in Nat /\ b = a + (b - a)
    OBVIOUS
  <2> QED BY <2>1
<1>2. c * b = c * a + c * k
  BY <1>1
<1>3. c * a \in Nat /\ c * k \in Nat
  OBVIOUS
<1> QED BY <1>2, <1>3

----------------------------------------------------------------------------
(* Part 2: the budget. *)

Steps == {"idle", "load", "fills", "open", "claim"}

TypeOK ==
  /\ told \in [Drafts -> OrderStates]
  /\ sent \in SUBSET Drafts
  /\ truth \in [Drafts -> Issuable \cup {NoReceipt}]
  /\ controls \in Controls
  /\ step \in [Sessions -> Steps]
  /\ mine \in [Sessions -> Drafts \cup {NoDraft}]
  /\ key \in [Sessions -> Controls]
  /\ held \in [Sessions -> [Drafts -> Nat]]
  /\ open \in [Sessions -> SUBSET Drafts]
  /\ seen \in [Sessions -> SUBSET Drafts]
  /\ late \in [Sessions -> SUBSET Drafts]

Promised ==
  \A d \in Drafts :
    /\ told[d] = NoIntent => d \notin sent
    /\ d \notin sent => truth[d] = NoReceipt
    /\ HasReceipt(told[d]) => truth[d] # NoReceipt /\ Follows(told[d].rcpt, truth[d])

\* A session that reads has a draft to claim, and names only orders it read.
Reading ==
  \A s \in Sessions : /\ step[s] # "idle" => mine[s] \in Drafts
                      /\ seen[s] \subseteq open[s]

Settled ==
  \A s \in Sessions \ Skewed, d \in Drafts :
    /\ step[s] # "idle" /\ d \notin late[s]
    /\ HasReceipt(told[d]) /\ told[d].rcpt.status \in Terminal
    => held[s][d] = truth[d].filled

BudgetInv == TypeOK /\ Promised /\ Reading /\ Settled

----------------------------------------------------------------------------
(* The data of the orders. *)

\* The orders of the promise are the same states and receipts.
LEMMA SameOrders ==
  /\ Orders!NoIntent = NoIntent /\ Orders!Intent = Intent
  /\ Orders!Unknown = Unknown /\ Orders!Rejected = Rejected
  /\ Orders!NoReceipt = NoReceipt /\ Orders!Issuable = Issuable
  /\ \A r : Orders!Confirmed(r) = Confirmed(r)
  /\ \A st : Orders!HasReceipt(st) <=> HasReceipt(st)
  /\ \A r1, r2 : Orders!Follows(r1, r2) <=> Follows(r1, r2)
<1>1. Orders!Issuable = Issuable
  BY DEF Orders!Issuable, Issuable, Orders!Receipts, Receipts, Orders!Statuses, Statuses,
         Orders!Terminal, Terminal
<1>2. Orders!NoReceipt = NoReceipt
  BY DEF Orders!NoReceipt, NoReceipt
<1>3. /\ Orders!NoIntent = NoIntent /\ Orders!Intent = Intent
      /\ Orders!Unknown = Unknown /\ Orders!Rejected = Rejected
  BY <1>2 DEF Orders!NoIntent, NoIntent, Orders!Intent, Intent, Orders!Unknown, Unknown,
              Orders!Rejected, Rejected
<1>4. \A r : Orders!Confirmed(r) = Confirmed(r)
  BY DEF Orders!Confirmed, Confirmed
<1>5. \A st : Orders!HasReceipt(st) <=> HasReceipt(st)
  BY DEF Orders!HasReceipt, HasReceipt
<1>6. \A r1, r2 : Orders!Follows(r1, r2) <=> Follows(r1, r2)
  BY DEF Orders!Follows, Follows, Orders!Terminal, Terminal
<1> QED BY <1>1, <1>2, <1>3, <1>4, <1>5, <1>6

\* What may be told: the states that are not a receipt, and issued receipts.
LEMMA ToldStates ==
  /\ {NoIntent, Intent, Unknown, Rejected} \subseteq OrderStates
  /\ \A st \in {NoIntent, Intent, Unknown, Rejected} : ~HasReceipt(st)
  /\ \A r \in Issuable : /\ Confirmed(r) \in OrderStates /\ HasReceipt(Confirmed(r))
                         /\ Confirmed(r).rcpt = r /\ r # NoReceipt
                         /\ r.filled \in 0..Qty
                         /\ r.status \in Statuses
  /\ NoIntent # Intent /\ NoIntent # Unknown /\ NoIntent # Rejected
<1> USE DEF NoIntent, Intent, Unknown, Rejected, Confirmed, HasReceipt
<1>1. {NoIntent, Intent, Unknown, Rejected} \subseteq OrderStates
  BY DEF OrderStates, Kinds
<1>2. ASSUME NEW r \in Issuable
      PROVE  /\ r \in Receipts /\ r # NoReceipt
             /\ r.filled \in 0..Qty /\ r.status \in Statuses
  BY DEF Issuable, Receipts, Statuses, Terminal, NoReceipt
<1>3. ASSUME NEW r \in Issuable
      PROVE  Confirmed(r) \in OrderStates
  BY <1>2 DEF OrderStates, Kinds
<1> QED BY <1>1, <1>2, <1>3

\* What the market holds counts no more than the order.
LEMMA TruthIsBounded ==
  ASSUME TypeOK, NEW d \in Drafts
  PROVE  truth[d].filled \in Nat /\ truth[d].filled <= Qty
<1>1. truth[d] \in Issuable \cup {NoReceipt}
  BY DEF TypeOK
<1>2. NoReceipt.filled = 0
  BY DEF NoReceipt
<1> QED BY <1>1, <1>2, ToldStates, QtyAssumption

----------------------------------------------------------------------------
(* The invariant is inductive. *)

OrdersOK ==
  /\ told \in [Drafts -> OrderStates]
  /\ sent \in SUBSET Drafts
  /\ truth \in [Drafts -> Issuable \cup {NoReceipt}]

\* A step of one order keeps what is told behind what the market holds.
LEMMA OrdersKeep ==
  ASSUME OrdersOK, Promised, NEW d \in Drafts,
         \/ Orders!Claim(d) \/ Orders!Send(d)
         \/ Orders!MarketRefuses(d) \/ Orders!MarketMoves(d)
         \/ Orders!TellNothing(d) \/ Orders!TellReceipt(d)
  PROVE  OrdersOK' /\ Promised'
<1> USE DEF OrdersOK, Promised
<1>1. CASE Orders!Claim(d)
  BY <1>1, SameOrders, ToldStates DEF Orders!Claim
<1>2. CASE Orders!Send(d)
  BY <1>2, SameOrders DEF Orders!Send
<1>3. CASE Orders!MarketRefuses(d)
  BY <1>3, SameOrders DEF Orders!MarketRefuses
<1>4. CASE Orders!MarketMoves(d)
  <2>1. PICK r \in Issuable : /\ truth[d] # NoReceipt => Follows(truth[d], r)
                              /\ truth' = [truth EXCEPT ![d] = r]
    BY <1>4, SameOrders DEF Orders!MarketMoves
  <2>2. UNCHANGED <<told, sent>> /\ d \in sent
    BY <1>4 DEF Orders!MarketMoves
  <2>3. ASSUME HasReceipt(told[d])
        PROVE  r # NoReceipt /\ Follows(told[d].rcpt, r)
    <3>1. truth[d] # NoReceipt /\ truth[d] \in Issuable
      BY <2>3
    <3>2. Follows(told[d].rcpt, truth[d]) /\ Follows(truth[d], r)
      BY <2>1, <2>3, <3>1
    <3>3. told[d].rcpt \in Receipts
      BY <2>3 DEF OrderStates, HasReceipt
    <3>4. Follows(told[d].rcpt, r)
      BY <3>1, <3>2, <3>3 DEF Follows, Issuable, Receipts, Statuses, Terminal
    <3> QED BY <3>4, ToldStates
  <2> QED BY <2>1, <2>2, <2>3
<1>5. CASE Orders!TellNothing(d)
  BY <1>5, SameOrders, ToldStates DEF Orders!TellNothing
<1>6. CASE Orders!TellReceipt(d)
  <2>1. PICK r \in Issuable : /\ truth[d] # NoReceipt /\ Follows(r, truth[d])
                              /\ told' = [told EXCEPT ![d] = Confirmed(r)]
    BY <1>6, SameOrders DEF Orders!TellReceipt
  <2>2. UNCHANGED <<sent, truth>> /\ told[d] # NoIntent
    BY <1>6, SameOrders DEF Orders!TellReceipt
  <2>3. Confirmed(r).rcpt = r /\ Confirmed(r) # NoIntent /\ Confirmed(r) \in OrderStates
    BY ToldStates
  <2> QED BY <2>1, <2>2, <2>3
<1> QED BY <1>1, <1>2, <1>3, <1>4, <1>5, <1>6

\* What is recorded of a draft it is recorded of no other, and a draft that
\* has ended moves no more.
LEMMA OrdersMoveOne ==
  ASSUME OrdersOK, Promised, NEW d \in Drafts, NEW e \in Drafts
  PROVE  /\ Orders!TellNothing(d) \/ Orders!TellReceipt(d) =>
              truth' = truth /\ (e # d => told'[e] = told[e])
         /\ Orders!Send(d) \/ Orders!MarketRefuses(d) \/ Orders!MarketMoves(d) =>
              /\ told' = told
              /\ HasReceipt(told[e]) /\ told[e].rcpt.status \in Terminal =>
                   truth'[e].filled = truth[e].filled
         /\ Orders!Claim(d) =>
              truth' = truth /\ (e # d => told'[e] = told[e]) /\ ~HasReceipt(told'[d])
<1> USE DEF OrdersOK, Promised
<1>1. ASSUME Orders!MarketMoves(d), HasReceipt(told[e]), told[e].rcpt.status \in Terminal
      PROVE  truth'[e].filled = truth[e].filled
  <2>1. PICK r \in Issuable : /\ truth[d] # NoReceipt => Follows(truth[d], r)
                              /\ truth' = [truth EXCEPT ![d] = r]
    BY <1>1, SameOrders DEF Orders!MarketMoves
  <2>2. truth[e] # NoReceipt /\ truth[e].status \in Terminal
    BY <1>1 DEF Follows
  <2> QED BY <2>1, <2>2 DEF Follows
<1>2. Orders!MarketMoves(d) => told' = told
  BY DEF Orders!MarketMoves
<1>3. Orders!Send(d) \/ Orders!MarketRefuses(d) => told' = told /\ truth' = truth
  BY DEF Orders!Send, Orders!MarketRefuses
<1>4. Orders!TellNothing(d) \/ Orders!TellReceipt(d) =>
        truth' = truth /\ (e # d => told'[e] = told[e])
  BY DEF Orders!TellNothing, Orders!TellReceipt
<1>5. Orders!Claim(d) =>
        truth' = truth /\ (e # d => told'[e] = told[e]) /\ ~HasReceipt(told'[d])
  BY SameOrders, ToldStates DEF Orders!Claim
<1> QED BY <1>1, <1>2, <1>3, <1>4, <1>5

\* Nothing is ordered, read or reserved at first.
LEMMA BudgetInit == TrialInit => BudgetInv
BY SameOrders, ToldStates, NoDraftAssumption
   DEF TrialInit, BudgetInv, TypeOK, Promised, Reading, Settled, Orders!Init, Steps, NothingHeld,
       NothingLoaded

\* A step of the orders alone keeps the rest of the types.
LEMMA TypesKeep ==
  ASSUME TypeOK, OrdersOK', UNCHANGED <<controls, reads>>,
         late' \in [Sessions -> SUBSET Drafts]
  PROVE  TypeOK'
BY DEF TypeOK, OrdersOK, reads

\* Leaving the reads keeps the invariant, whatever the orders did meanwhile.
LEMMA ForgetKeeps ==
  ASSUME BudgetInv, NEW s \in Sessions, Forget(s), OrdersOK', Promised',
         UNCHANGED controls,
         \A e \in Drafts : /\ truth'[e] = truth[e]
                           /\ HasReceipt(told'[e]) => told'[e] = told[e]
  PROVE  BudgetInv'
<1> USE DEF BudgetInv, TypeOK, OrdersOK, Forget, Proceed
<1>1. TypeOK'
  BY DEF Steps, NothingHeld
<1>2. Reading'
  BY DEF Reading
<1>3. Settled'
  BY DEF Settled
<1> QED BY <1>1, <1>2, <1>3

\* One step of a session that reads or claims.
LEMMA BuildKeeps ==
  ASSUME BudgetInv, NEW s \in Sessions, Build(s)
  PROVE  BudgetInv'
<1>0. OrdersOK /\ TypeOK /\ Promised /\ Reading /\ Settled
  BY DEF BudgetInv, TypeOK, OrdersOK
<1>1. ASSUME NEW d \in Drafts, ReadPositions(s, d)
      PROVE  BudgetInv'
  <2> USE DEF ReadPositions, Proceed, orders
  <2>1. \A e \in Drafts : truth[e].filled \in Nat
    BY <1>0, TruthIsBounded
  <2>2. TypeOK'
    BY <1>0, <1>1, <2>1 DEF TypeOK, Steps
  <2>3. Promised' /\ Reading'
    BY <1>0, <1>1 DEF TypeOK, Promised, Reading
  <2>4. Settled'
    BY <1>0, <1>1 DEF TypeOK, Settled
  <2> QED BY <2>2, <2>3, <2>4 DEF BudgetInv
<1>2. CASE Load(s) \/ FetchFills(s)
  <2> USE DEF Load, FetchFills, Proceed, orders
  <2>1. TypeOK'
    BY <1>0, <1>2 DEF TypeOK, Steps
  <2>2. Promised' /\ Reading' /\ Settled'
    BY <1>0, <1>2 DEF TypeOK, Promised, Reading, Settled
  <2> QED BY <2>1, <2>2 DEF BudgetInv
<1>3. CASE FetchOpenOrders(s)
  <2> USE DEF FetchOpenOrders, Proceed, orders, OpenAtBroker
  <2>1. TypeOK'
    BY <1>0, <1>3 DEF TypeOK, Steps
  <2>2. Promised' /\ Reading' /\ Settled'
    BY <1>0, <1>3 DEF TypeOK, Promised, Reading, Settled
  <2> QED BY <2>1, <2>2 DEF BudgetInv
<1>4. CASE GiveUp(s)
  <2>1. UNCHANGED <<told, sent, truth, controls>> /\ Forget(s)
    BY <1>4 DEF GiveUp, orders
  <2>2. OrdersOK' /\ Promised'
    BY <1>0, <2>1 DEF OrdersOK, Promised
  <2> QED BY <2>1, <2>2, ForgetKeeps
<1>5. CASE ClaimBudget(s)
  <2>1. Forget(s) /\ Orders!Claim(mine[s]) /\ UNCHANGED controls /\ step[s] = "claim"
    BY <1>5 DEF ClaimBudget
  <2>2. mine[s] \in Drafts
    BY <1>0, <2>1 DEF Reading
  <2>3. PICK d \in Drafts : d = mine[s]
    BY <2>2
  <2>4. Orders!Claim(d)
    BY <2>1, <2>3
  <2>5. OrdersOK' /\ Promised'
    BY <1>0, <2>4, OrdersKeep
  <2>6. \A e \in Drafts : truth'[e] = truth[e] /\ (HasReceipt(told'[e]) => told'[e] = told[e])
    BY <1>0, <2>4, OrdersMoveOne
  <2> QED BY <2>1, <2>5, <2>6, ForgetKeeps
<1> QED BY <1>1, <1>2, <1>3, <1>4, <1>5 DEF Build

\* One step of a lookup, of the market, or of whoever saves controls.
LEMMA RestKeeps ==
  ASSUME BudgetInv,
         \/ \E d \in Drafts : Tell(d) \/ Market(d)
         \/ \E k \in Controls : SaveControls(k)
  PROVE  BudgetInv'
<1>0. OrdersOK /\ TypeOK /\ Promised /\ Reading /\ Settled
  BY DEF BudgetInv, TypeOK, OrdersOK
<1>1. ASSUME NEW d \in Drafts, Tell(d)
      PROVE  BudgetInv'
  <2>1. (Orders!TellNothing(d) \/ Orders!TellReceipt(d)) /\ UNCHANGED <<controls, reads>>
    BY <1>1 DEF Tell
  <2>2. PICK ahead \in SUBSET Skewed :
          late' = [s \in Sessions |-> IF step[s] = "idle" THEN {}
                                      ELSE IF s \in ahead THEN late[s]
                                      ELSE late[s] \cup {d}]
    BY <1>1 DEF Tell
  <2>3. OrdersOK' /\ Promised'
    BY <1>0, <2>1, OrdersKeep
  <2>4. late' \in [Sessions -> SUBSET Drafts]
    BY <1>0, <2>2 DEF TypeOK
  <2>5. TypeOK'
    BY <1>0, <2>1, <2>3, <2>4, TypesKeep
  <2>6. Reading'
    BY <1>0, <2>1 DEF Reading, reads
  <2>7. truth' = truth /\ \A e \in Drafts \ {d} : told'[e] = told[e]
    BY <1>0, <2>1, OrdersMoveOne
  <2>8. \A s \in Sessions \ Skewed : step[s] # "idle" => late'[s] = late[s] \cup {d}
    BY <2>2
  <2>9. Settled'
    BY <1>0, <2>1, <2>7, <2>8 DEF Settled, reads
  <2> QED BY <2>3, <2>5, <2>6, <2>9 DEF BudgetInv
<1>2. ASSUME NEW d \in Drafts, Market(d)
      PROVE  BudgetInv'
  <2>1. /\ Orders!Send(d) \/ Orders!MarketRefuses(d) \/ Orders!MarketMoves(d)
        /\ UNCHANGED <<controls, reads, late>>
    BY <1>2 DEF Market
  <2>2. OrdersOK' /\ Promised'
    BY <1>0, <2>1, OrdersKeep
  <2>3. TypeOK'
    BY <1>0, <2>1, <2>2, TypesKeep DEF TypeOK
  <2>4. Reading'
    BY <1>0, <2>1 DEF Reading, reads
  <2>5. \A e \in Drafts :
          /\ told' = told
          /\ HasReceipt(told[e]) /\ told[e].rcpt.status \in Terminal =>
               truth'[e].filled = truth[e].filled
    BY <1>0, <2>1, OrdersMoveOne
  <2>6. Settled'
    BY <1>0, <2>1, <2>5 DEF Settled, reads
  <2> QED BY <2>2, <2>3, <2>4, <2>6 DEF BudgetInv
<1>3. ASSUME NEW k \in Controls, SaveControls(k)
      PROVE  BudgetInv'
  BY <1>0, <1>3 DEF SaveControls, orders, reads, BudgetInv, TypeOK, Promised, Reading, Settled
<1> QED BY <1>1, <1>2, <1>3

\* Every step of the sessions, the market and the controls keeps the budget.
LEMMA BudgetStep == BudgetInv /\ [TrialNext]_trial => BudgetInv'
<1> SUFFICES ASSUME BudgetInv, [TrialNext]_trial PROVE BudgetInv'
  OBVIOUS
<1>1. CASE UNCHANGED trial
  BY <1>1 DEF trial, orders, reads, BudgetInv, TypeOK, Promised, Reading, Settled
<1> QED BY <1>1, BuildKeeps, RestKeeps DEF TrialNext

\* The budget is always as said: the inductive invariant of TrialBudget.
THEOREM BudgetIsKept == TrialSpec => []BudgetInv
BY BudgetInit, BudgetStep, PTL DEF TrialSpec

----------------------------------------------------------------------------
(* What the budget promises. *)

\* What a session reserves for another attempt covers it.
LEMMA ReservedCovers ==
  ASSUME BudgetInv, NEW s \in Sessions, step[s] # "idle", NEW d \in Drafts
  PROVE  /\ Reserved(s, d) \in Nat
         /\ Exposure(d) \in Nat
         /\ s \notin Skewed /\ d # mine[s] => Exposure(d) <= Reserved(s, d)
<1> USE QtyAssumption DEF BudgetInv
<1>0. truth[d].filled \in Nat /\ truth[d].filled <= Qty
  BY TruthIsBounded
<1>1. held[s][d] \in Nat
  BY DEF TypeOK
<1>2. Exposure(d) \in Nat /\ Exposure(d) <= Qty
  BY <1>0 DEF Exposure
<1>3. Reserved(s, d) \in Nat
  BY <1>1 DEF Reserved
<1>4. ASSUME s \notin Skewed, d # mine[s]
      PROVE  Exposure(d) <= Reserved(s, d)
  <2>1. CASE told[d] \in {NoIntent, Rejected}
    BY <1>3, <2>1 DEF Exposure
  <2>2. CASE d \in open[s] \/ d \in Extra(s)
    BY <1>1, <1>2, <2>2 DEF Reserved
  <2>3. CASE told[d] \notin {NoIntent, Rejected} /\ d \notin open[s] /\ d \notin Extra(s)
    <3>1. d \notin seen[s]
      BY <2>3 DEF Reading
    <3>2. HasReceipt(told[d]) /\ told[d].rcpt.status \in Terminal /\ d \notin late[s]
      BY <1>4, <2>3, <3>1 DEF Extra
    <3>3. held[s][d] = truth[d].filled
      BY <1>4, <3>2 DEF Settled
    <3>4. truth[d].status \in Terminal
      BY <3>2 DEF Promised, Follows
    <3>5. Exposure(d) = truth[d].filled
      BY <2>3, <3>4 DEF Exposure
    <3> QED BY <1>1, <2>3, <3>3, <3>5 DEF Reserved
  <2> QED BY <2>1, <2>2, <2>3
<1> QED BY <1>2, <1>3, <1>4

\* Whatever moved between the reads of a session, no other attempt commits the
\* account to more than the session reserves for it.
THEOREM AttemptsAreReserved == TrialSpec => []ReservationsCover
<1>1. BudgetInv => ReservationsCover
  BY ReservedCovers DEF ReservationsCover
<1> QED BY <1>1, BudgetIsKept, PTL

\* Only the claim of a session takes an attempt out of the drafts.
LEMMA OnlyClaims ==
  ASSUME BudgetInv, [TrialNext]_trial, NEW s \in Sessions, NEW d \in Drafts,
         step'[s] # step[s], told[d] = NoIntent, told'[d] # NoIntent
  PROVE  ClaimBudget(s)
<1>0. OrdersOK /\ Promised
  BY DEF BudgetInv, TypeOK, OrdersOK
<1>1. ASSUME NEW t \in Sessions, Build(t)
      PROVE  ClaimBudget(s)
  <2>1. ClaimBudget(t)
    BY <1>1 DEF Build, ReadPositions, Load, FetchFills, FetchOpenOrders, GiveUp, orders
  <2>2. step' = [step EXCEPT ![t] = "idle"]
    BY <2>1 DEF ClaimBudget, Forget, Proceed
  <2>3. t = s
    BY <2>2 DEF BudgetInv, TypeOK
  <2> QED BY <2>1, <2>3
<1>2. ASSUME NEW e \in Drafts, Tell(e) \/ Market(e)
      PROVE  FALSE
  BY <1>2 DEF Tell, Market, reads
<1>3. ASSUME NEW k \in Controls, SaveControls(k)
      PROVE  FALSE
  BY <1>3 DEF SaveControls, orders
<1>4. CASE UNCHANGED trial
  BY <1>4 DEF trial, orders
<1> QED BY <1>1, <1>2, <1>3, <1>4 DEF TrialNext

\* At a claim, the whole account fits every limit the draft is in.
LEMMA ClaimFits ==
  ASSUME BudgetInv, NEW s \in Sessions \ Skewed, NEW d \in Drafts, d = mine[s],
         told[d] = NoIntent, ClaimBudget(s), NEW l \in Ledgers, Charge[l][d] > 0
  PROVE  SumFunction([e \in Drafts |-> Charge[l][e] * Exposure(e)']) <= Limit[controls][l]
<1> DEFINE f == [e \in Drafts |-> Charge[l][e] * Exposure(e)']
           g == [e \in Drafts |-> Charge[l][e] * Reserved(s, e)]
           c == Charge[l][d] * Qty
<1>0. /\ step[s] = "claim" /\ key[s] = controls /\ Fits(s, l) /\ Orders!Claim(d)
      /\ OrdersOK /\ Promised
  BY DEF ClaimBudget, BudgetInv, TypeOK, OrdersOK
<1>1. told' = [told EXCEPT ![d] = Intent] /\ truth' = truth
  BY <1>0, SameOrders DEF Orders!Claim
<1>2. ASSUME NEW e \in Drafts \ {d}
      PROVE  Exposure(e)' = Exposure(e)
  BY <1>1 DEF Exposure
<1>3. Exposure(d)' = Qty
  <2>1. truth'[d] = NoReceipt /\ told'[d] = Intent
    BY <1>0, <1>1 DEF OrdersOK, Promised
  <2>2. Intent \notin {NoIntent, Rejected} /\ NoReceipt.status \notin Terminal
    BY DEF Intent, NoIntent, Rejected, NoReceipt, Terminal
  <2> QED BY <2>1, <2>2 DEF Exposure
<1>4. \A e \in Drafts : Charge[l][e] \in Nat
  BY LedgerAssumption
<1>5. \A e \in Drafts : Exposure(e) \in Nat /\ Reserved(s, e) \in Nat
  BY <1>0, ReservedCovers
<1>6. f \in [Drafts -> Nat] /\ g \in [Drafts -> Nat] /\ c \in Nat
  <2>1. \A e \in Drafts : Exposure(e)' \in Nat
    BY <1>2, <1>3, <1>5, QtyAssumption
  <2>2. \A e \in Drafts : Charge[l][e] * Exposure(e)' \in Nat /\ Charge[l][e] * Reserved(s, e) \in Nat
    BY <1>4, <1>5, <2>1, TimesMonotone
  <2> QED BY <1>4, <2>2, QtyAssumption, TimesMonotone
<1>7. \A e \in Drafts \ {d} : f[e] <= g[e]
  <2> SUFFICES ASSUME NEW e \in Drafts \ {d} PROVE f[e] <= g[e]
    OBVIOUS
  <2>1. Exposure(e) <= Reserved(s, e)
    BY <1>0, ReservedCovers
  <2> QED BY <1>2, <1>4, <1>5, <2>1, TimesMonotone
<1>8. f[d] <= c + g[d]
  <2>1. f[d] = c
    BY <1>3
  <2>2. g[d] \in Nat
    BY <1>6
  <2> QED BY <1>6, <2>1, <2>2
<1>9. SumFunction(f) <= c + SumFunction(g) /\ SumFunction(f) \in Nat /\ SumFunction(g) \in Nat
  <2> HIDE DEF f, g, c
  <2> QED BY <1>6, <1>7, <1>8, SumIsBounded, DraftsAssumption
<1>10. c + SumFunction(g) <= Limit[controls][l]
  BY <1>0 DEF Fits
<1>11. Limit[controls][l] \in Nat
  BY LedgerAssumption DEF BudgetInv, TypeOK
<1> HIDE DEF f, g, c
<1>12. SumFunction(f) <= Limit[controls][l]
  BY <1>6, <1>9, <1>10, <1>11
<1> QED BY <1>12 DEF f

\* When an intent is claimed, the whole account, with it and with what the
\* others claimed, fits the limits in force at that moment.
THEOREM BudgetIsNotSpentTwice == TrialSpec => ClaimsFitTheBudget
<1> DEFINE Fitting ==
      \A s \in Sessions \ Skewed, d \in Drafts :
        d = mine[s] /\ step'[s] # step[s] /\ told[d] = NoIntent /\ told'[d] # NoIntent =>
        \A l \in Ledgers : Charge[l][d] > 0 =>
          SumFunction([e \in Drafts |-> Charge[l][e] * Exposure(e)']) <= Limit[controls][l]
<1>1. BudgetInv /\ [TrialNext]_trial => Fitting
  BY OnlyClaims, ClaimFits
<1>2. BudgetInv /\ [TrialNext]_trial => [Fitting]_trial
  BY <1>1
<1> HIDE DEF Fitting
<1>3. TrialSpec => [][Fitting]_trial
  BY <1>2, BudgetIsKept, PTL DEF TrialSpec
<1> QED BY <1>3 DEF ClaimsFitTheBudget, Fitting

----------------------------------------------------------------------------
(* Part 3: the orders of a plan. *)

\* Where each term of a sum covers k times one of another, so does the sum.
LEMMA SumIsCovered ==
  ASSUME NEW S, IsFiniteSet(S), NEW f, NEW g, NEW k \in Int,
         \A x \in S : f[x] \in Int /\ g[x] \in Int /\ f[x] * k <= g[x]
  PROVE  /\ SumFunctionOnSet(f, S) \in Int /\ SumFunctionOnSet(g, S) \in Int
         /\ SumFunctionOnSet(f, S) * k <= SumFunctionOnSet(g, S)
<1> DEFINE F(s) == SumFunctionOnSet(f, s)
           G(s) == SumFunctionOnSet(g, s)
           Covered(s) == F(s) * k <= G(s)
           T == {s \in SUBSET S : Covered(s)}
<1>1. {} \in T
  BY SumOfNothing
<1>2. ASSUME NEW s \in T, NEW x \in S \ s
      PROVE  s \cup {x} \in T
  <2>1. IsFiniteSet(s) /\ (\A y \in s \cup {x} : f[y] \in Int /\ g[y] \in Int)
    BY FS_Subset
  <2>2. /\ F(s \cup {x}) = f[x] + F(s) /\ G(s \cup {x}) = g[x] + G(s)
        /\ F(s) \in Int /\ G(s) \in Int
    BY <2>1, SumAdds
  <2>3. Covered(s) /\ f[x] \in Int /\ g[x] \in Int /\ f[x] * k <= g[x]
    OBVIOUS
  <2> HIDE DEF F, G
  <2>4. (f[x] + F(s)) * k = f[x] * k + F(s) * k
    BY <2>2, <2>3
  <2>5. Covered(s \cup {x})
    BY <2>2, <2>3, <2>4
  <2> QED BY <2>5
<1>3. T = SUBSET S
  <2>1. T \in SUBSET SUBSET S
    OBVIOUS
  <2> HIDE DEF T
  <2> QED BY <1>1, <1>2, <2>1, SetInduction
<1>4. Covered(S)
  BY <1>3
<1> QED BY <1>4, SumIsInt

\* Rounding to the nearest cent.
LEMMA Roundings ==
  \A a \in Nat : /\ Plans!Rounded(a) \in Nat
                 /\ Plans!Rounded(a) <= a + 5 /\ a <= Plans!Rounded(a) + 5
                 /\ a = 0 => Plans!Rounded(a) = 0
BY DEF Plans!Rounded, Plans!Cent

\* A product of a bounded natural and another one.
LEMMA ProductIsBounded ==
  ASSUME NEW a \in Nat, NEW b \in Nat, NEW k \in Nat, NEW m \in Nat, NEW c \in 0..m, b <= a + k
  PROVE  a * c \in Nat /\ b * c \in Nat /\ b * c <= a * c + k * m
<1>1. c \in Nat /\ c <= m
  BY SMT
<1>2. c * b <= c * (a + k) /\ c * b \in Nat /\ c * (a + k) \in Nat
  BY <1>1, TimesMonotone, SMT
<1>3. c * (a + k) = a * c + k * c /\ c * b = b * c
  BY <1>1, SMT
<1>4. k * c <= k * m /\ k * c \in Nat /\ k * m \in Nat
  BY <1>1, TimesMonotone, SMT
<1>5. a * c \in Nat
  BY <1>1, TimesMonotone, SMT
<1> QED BY <1>2, <1>3, <1>4, <1>5, SMT

\* The charges of an order, with the rounding of its amount, are within what
\* the constraint of the cash counts for it.
LEMMA ChargesAreCounted ==
  ASSUME NEW c \in CostLimits, NEW a \in Nat
  PROVE  /\ Plans!Charged(a, c) \in Nat /\ Plans!Counted(a, c) \in Nat
         /\ a # 0 => (Plans!Charged(a, c) + 5) * 1000000 <= Plans!Counted(a, c)
         /\ a = 0 => Plans!Charged(a, c) = 0 /\ Plans!Counted(a, c) = 0
<1> DEFINE n == Plans!Rounded(a)
           floor == c.minimum * 10000
           fee == Plans!Larger(a * c.commission, floor)
           feeOf == Plans!Larger(n * c.commission, floor)
           vat == 100 + c.vat
           X == feeOf * vat
           Y == n * c.market
           up(q) == Plans!RoundedUp(q)
<1>1. /\ c.commission \in 0..500 /\ c.market \in 0..500 /\ c.vat \in 0..100 /\ c.minimum \in Nat
      /\ floor \in Nat /\ vat \in 0..200
  BY SMT DEF CostLimits
<1>2. n \in Nat /\ n <= a + 5 /\ a <= n + 5 /\ (a = 0 => n = 0)
  BY Roundings, SMT
<1>3. /\ a * c.commission \in Nat /\ n * c.commission \in Nat
      /\ n * c.commission <= a * c.commission + 2500
  <2> DEFINE k == 5
             most == 500
  <2>1. k * most = 2500 /\ k \in Nat /\ most \in Nat /\ n <= a + k /\ c.commission \in 0..most
    BY <1>1, <1>2
  <2> HIDE DEF n, k, most
  <2>2. /\ a * c.commission \in Nat /\ n * c.commission \in Nat
        /\ n * c.commission <= a * c.commission + k * most
    BY <1>2, <2>1, ProductIsBounded
  <2> QED BY <2>1, <2>2
<1>4. /\ a * c.market \in Nat /\ Y \in Nat /\ Y <= a * c.market + 2500
  <2> DEFINE k == 5
             most == 500
  <2>1. k * most = 2500 /\ k \in Nat /\ most \in Nat /\ n <= a + k /\ c.market \in 0..most
    BY <1>1, <1>2
  <2> HIDE DEF n, k, most
  <2>2. /\ a * c.market \in Nat /\ n * c.market \in Nat
        /\ n * c.market <= a * c.market + k * most
    BY <1>2, <2>1, ProductIsBounded
  <2> QED BY <2>1, <2>2
<1> HIDE DEF n, floor, vat
<1>5. fee \in Nat /\ feeOf \in Nat /\ feeOf <= fee + 2500
  BY <1>1, <1>3, SMT DEF Plans!Larger
<1>6. fee * vat \in Nat /\ X \in Nat /\ X <= fee * vat + 500000
  <2> DEFINE k == 2500
             most == 200
  <2>1. k * most = 500000 /\ k \in Nat /\ most \in Nat /\ feeOf <= fee + k /\ vat \in 0..most
    BY <1>1, <1>5, SMT
  <2> HIDE DEF fee, feeOf, k, most
  <2>2. fee * vat \in Nat /\ feeOf * vat \in Nat /\ feeOf * vat <= fee * vat + k * most
    BY <1>5, <2>1, ProductIsBounded
  <2> QED BY <2>1, <2>2, SMT
<1> HIDE DEF X, Y, fee, feeOf
<1> DEFINE x == Plans!Ceiling(X, 1000000)
           y == Plans!Ceiling(Y, 10000)
<1>7. x \in Nat /\ x * 1000000 <= X + 999999 /\ y \in Nat /\ y * 10000 <= Y + 9999
  BY <1>4, <1>6, SMT DEF Plans!Ceiling
<1> HIDE DEF x, y
<1>8. up(x) \in Nat /\ up(x) <= x + 9 /\ up(y) \in Nat /\ up(y) <= y + 9
  BY <1>7, SMT DEF Plans!RoundedUp, Plans!Ceiling, Plans!Cent
<1> HIDE DEF up
<1>9. Plans!Charged(a, c) = IF n = 0 THEN 0 ELSE up(x) + up(y)
  BY SMT DEF Plans!Charged, n, x, y, X, Y, up, feeOf, floor, vat
<1>10. Plans!Counted(a, c) = IF a = 0 THEN 0 ELSE 100 * (a * c.market) + fee * vat + 30000000
  <2>1. 100 * a * c.market = 100 * (a * c.market)
    BY <1>1, SMT
  <2>2. Plans!Reserve * 1000000 = 30000000
    BY SMT DEF Plans!Reserve, Plans!Cent
  <2> QED BY <2>1, <2>2, SMT DEF Plans!Counted, fee, floor, vat
<1>11. (up(x) + up(y) + 5) * 1000000 <= 100 * (a * c.market) + fee * vat + 30000000
  <2>1. up(x) * 1000000 <= X + 9999999
    BY <1>6, <1>7, <1>8, SMT
  <2>2. up(y) * 1000000 <= 100 * Y + 9999900
    BY <1>4, <1>7, <1>8, SMT
  <2> QED BY <1>4, <1>6, <1>8, <2>1, <2>2, SMT
<1>12. 100 * (a * c.market) + fee * vat + 30000000 \in Nat
  BY <1>4, <1>6, SMT
<1>13. 5 * 1000000 <= 100 * (a * c.market) + fee * vat + 30000000
  BY <1>4, <1>6, SMT
<1> QED BY <1>2, <1>8, <1>9, <1>10, <1>11, <1>12, <1>13, SMT

\* An order takes from the cash no more than the constraint counts for it.
LEMMA OrderIsCovered ==
  ASSUME NEW x \in Cases, NEW lots \in [Assets -> Int], NEW a \in Assets
  PROVE  /\ Plans!Paid(x, lots, a) \in Int /\ Plans!Planned(x, lots, a) \in Int
         /\ Plans!Paid(x, lots, a) * 1000000 <= Plans!Planned(x, lots, a)
<1> DEFINE m == Plans!Amount(x, lots, a)
           sign == Plans!Sign(lots, a)
           charged == Plans!Charged(m, x.costs)
           counted == Plans!Counted(m, x.costs)
           rounded == Plans!Rounded(m)
<1>1. m \in Nat
  <2>1. Plans!Distance(lots[a]) \in Nat /\ x.price[a] \in Nat
    BY SMT DEF Plans!Distance, Cases
  <2> QED BY <2>1, TimesMonotone, SMT DEF Plans!Amount
<1>2. x.costs \in CostLimits /\ sign \in {-1, 1}
  BY SMT DEF Cases, Plans!Sign
<1> HIDE DEF m, sign
<1>3. /\ charged \in Nat /\ counted \in Nat
      /\ m # 0 => (charged + 5) * 1000000 <= counted
      /\ m = 0 => charged = 0 /\ counted = 0
  BY <1>1, <1>2, ChargesAreCounted, SMT
<1>4. rounded \in Nat /\ rounded <= m + 5 /\ m <= rounded + 5 /\ (m = 0 => rounded = 0)
  BY <1>1, Roundings, SMT
<1> HIDE DEF charged, counted, rounded
<1>5. /\ Plans!Paid(x, lots, a) = sign * rounded + charged
      /\ Plans!Planned(x, lots, a) = sign * m * 1000000 + counted
  BY SMT DEF Plans!Paid, Plans!Planned, m, sign, charged, counted, rounded
<1>6. sign * rounded + charged \in Int /\ sign * m * 1000000 + counted \in Int
  BY <1>1, <1>2, <1>3, <1>4, SMT
<1>7. (sign * rounded + charged) * 1000000 <= sign * m * 1000000 + counted
  <2>1. CASE sign = 1
    BY <1>1, <1>3, <1>4, <2>1, SMT
  <2>2. CASE sign = -1
    BY <1>1, <1>3, <1>4, <2>2, SMT
  <2> QED BY <1>2, <2>1, <2>2, SMT
<1> QED BY <1>5, <1>6, <1>7, SMT

\* A plan that the constraints admit leaves the cash that was asked for.
LEMMA PlanIsPaid ==
  ASSUME IsFiniteSet(Assets), NEW x \in Cases, NEW lots \in [Assets -> Int], Plans!Admitted(x, lots)
  PROVE  Plans!Remaining(x, lots) >= x.floor
<1> DEFINE paid == [a \in Assets |-> Plans!Paid(x, lots, a)]
           planned == [a \in Assets |-> Plans!Planned(x, lots, a)]
<1>1. \A a \in Assets : paid[a] \in Int /\ planned[a] \in Int /\ paid[a] * 1000000 <= planned[a]
  BY OrderIsCovered, SMT
<1>2. DOMAIN paid = Assets /\ DOMAIN planned = Assets
  BY SMT
<1>3. Plans!SumFunction(planned) <= (x.cash - x.floor) * 1000000
  BY SMT DEF Plans!Admitted
<1>4. Plans!Remaining(x, lots) = x.cash - Plans!SumFunction(paid)
  BY SMT DEF Plans!Remaining
<1> DEFINE k == 1000000
<1> HIDE DEF paid, planned
<1>5. /\ Plans!SumFunction(paid) = SumFunctionOnSet(paid, Assets)
      /\ Plans!SumFunction(planned) = SumFunctionOnSet(planned, Assets)
  BY <1>2, SMT DEF Plans!SumFunction, Plans!SumFunctionOnSet, Plans!FoldFunctionOnSet, Plans!MapThenFoldSet,
              SumFunctionOnSet, FoldFunctionOnSet, MapThenFoldSet
<1>6. /\ SumFunctionOnSet(paid, Assets) \in Int /\ SumFunctionOnSet(planned, Assets) \in Int
      /\ SumFunctionOnSet(paid, Assets) * k <= SumFunctionOnSet(planned, Assets)
  <2>1. k \in Int /\ (\A a \in Assets : paid[a] \in Int /\ planned[a] \in Int /\ paid[a] * k <= planned[a])
    BY <1>1, SMT
  <2> HIDE DEF k
  <2> QED BY <2>1, SumIsCovered
<1>7. x.cash \in Nat /\ x.floor \in Nat
  BY SMT DEF Cases
<1> QED BY <1>3, <1>4, <1>5, <1>6, <1>7, SMT

\* What answers for a direction of an asset is at most one rule when no two of
\* the rules that can are apart, and the reverse.
LEMMA AtMostOne ==
  ASSUME NEW n \in Nat, NEW C \in SUBSET (1..n)
  PROVE  Plans!Cardinality(C) <= 1 <=> \A i, j \in C : i = j
<1>1. IsFiniteSet(C)
  <2>1. IsFiniteSet(1..n)
    BY FS_Interval
  <2> QED BY <2>1, FS_Subset
<1>2. Plans!Cardinality(C) = Cardinality(C)
  BY DEF Plans!Cardinality, Cardinality
<1>3. ASSUME \A i, j \in C : i = j
      PROVE  Cardinality(C) <= 1
  <2>1. CASE C = {}
    <3>1. Cardinality({}) = 0
      BY FS_EmptySet
    <3> QED BY <2>1, <3>1
  <2>2. CASE C # {}
    <3> PICK i : i \in C
      BY <2>2
    <3>1. C = {i}
      BY <1>3
    <3>2. Cardinality({i}) = 1
      BY FS_Singleton
    <3> QED BY <3>1, <3>2
  <2> QED BY <2>1, <2>2
<1>4. ASSUME NEW i \in C, NEW j \in C, i # j
      PROVE  Cardinality(C) > 1
  <2>1. Cardinality({i}) = 1 /\ IsFiniteSet({i})
    BY FS_Singleton
  <2>2. Cardinality({i} \cup {j}) = 2
    <3>1. Cardinality({i} \cup {j}) = Cardinality({i}) + 1
      BY <1>4, <2>1, FS_AddElement
    <3> QED BY <2>1, <3>1
  <2>3. {i} \cup {j} \subseteq C
    OBVIOUS
  <2>4. Cardinality({i} \cup {j}) <= Cardinality(C) /\ Cardinality(C) \in Nat
    BY <1>1, <2>3, FS_Subset, FS_CardinalityType
  <2> QED BY <2>2, <2>4
<1>5. Cardinality(C) \in Nat
  BY <1>1, FS_CardinalityType
<1> QED BY <1>2, <1>3, <1>4, <1>5

\* A file of rules that is read is one that the estimate accepts on the same
\* day, and the reverse.
LEMMA FilesAgree ==
  ASSUME NEW file \in Seq(Rules), NEW day
  PROVE  Plans!RulesAgree(file, day)
<1> DEFINE Valid(i) ==
             /\ file[i].asset \in Assets
             /\ file[i].until # Never => file[i].until >= file[i].from
             /\ file[i].consulted <= Today /\ file[i].consulted <= day
             /\ Plans!Current(file[i], day)
           Apart(i, j) == file[j].asset = file[i].asset =>
                            Plans!Directions(file[j]) \cap Plans!Directions(file[i]) = {}
           n == Len(file)
           Cover(a, s) == Plans!Covering(file, a, s)
<1>1. n \in Nat /\ DOMAIN file = 1..n /\ \A i \in 1..n : file[i] \in Rules
  OBVIOUS
<1>2. \A i \in 1..n : file[i].operation \in {"Compra", "Venta", "Ambas"}
  BY <1>1 DEF Rules, Plans!Operations, Plans!Sides
<1>3. Plans!Readable(file, day) <=> /\ n \in 1..200
                                    /\ \A i \in 1..n : Valid(i)
                                    /\ \A i \in 1..n : \A j \in 1..(i - 1) : Apart(i, j)
  BY <1>1 DEF Plans!Readable
<1>4. Plans!Looked(file, day) <=> /\ \A i \in 1..n : Valid(i)
                                  /\ \A a \in Assets, s \in Plans!Sides : Plans!Cardinality(Cover(a, s)) <= 1
  BY <1>1 DEF Plans!Looked
<1>5. \A a, s : /\ Cover(a, s) \in SUBSET (1..n)
                /\ \A i \in 1..n : i \in Cover(a, s) <=>
                     file[i].asset = a /\ (file[i].operation = "Ambas" \/ file[i].operation = s)
  BY <1>1 DEF Plans!Covering
<1>6. \A i \in 1..n, s \in Plans!Sides :
        s \in Plans!Directions(file[i]) <=> (file[i].operation = "Ambas" \/ file[i].operation = s)
  BY <1>2 DEF Plans!Directions, Plans!Sides
<1>7. \A i \in 1..n : Plans!Directions(file[i]) \subseteq Plans!Sides
  BY <1>2 DEF Plans!Directions, Plans!Sides
<1> HIDE DEF Cover, n
<1>8. \A a, s : Plans!Cardinality(Cover(a, s)) <= 1 <=> \A i, j \in Cover(a, s) : i = j
  BY <1>1, <1>5, AtMostOne
<1>9. ASSUME \A i \in 1..n : \A j \in 1..(i - 1) : Apart(i, j),
             NEW a \in Assets, NEW s \in Plans!Sides, NEW i \in Cover(a, s), NEW j \in Cover(a, s), i # j
      PROVE  FALSE
  <2>1. i \in 1..n /\ j \in 1..n /\ file[i].asset = a /\ file[j].asset = a
    BY <1>5
  <2>2. s \in Plans!Directions(file[i]) /\ s \in Plans!Directions(file[j])
    BY <1>5, <1>6, <2>1
  <2>3. ~Apart(i, j) /\ ~Apart(j, i)
    BY <2>1, <2>2
  <2>4. j \in 1..(i - 1) \/ i \in 1..(j - 1)
    BY <1>1, <1>9, <2>1
  <2> QED BY <1>9, <2>1, <2>3, <2>4
<1>10. ASSUME \A i \in 1..n : Valid(i),
              \A a \in Assets, s \in Plans!Sides : \A i, j \in Cover(a, s) : i = j,
              NEW i \in 1..n, NEW j \in 1..(i - 1), ~Apart(i, j)
       PROVE  FALSE
  <2>1. j \in 1..n /\ i # j
    BY <1>1
  <2>2. PICK s : s \in Plans!Directions(file[i]) /\ s \in Plans!Directions(file[j])
    BY <1>10
  <2>3. file[j].asset = file[i].asset /\ file[i].asset \in Assets /\ s \in Plans!Sides
    BY <1>7, <1>10, <2>2
  <2>4. i \in Cover(file[i].asset, s) /\ j \in Cover(file[i].asset, s)
    BY <1>5, <1>6, <2>1, <2>2, <2>3
  <2> QED BY <1>10, <2>1, <2>3, <2>4
<1> HIDE DEF Valid, Apart
<1>11. Plans!Readable(file, day) <=> n \in 1..200 /\ Plans!Looked(file, day)
  BY <1>3, <1>4, <1>8, <1>9, <1>10
<1> QED BY <1>11 DEF Plans!RulesAgree, n

----------------------------------------------------------------------------
(* Part 4: taxes. *)

\* What is reserved of a gain, at a rate of at most all of it, is part of it.
LEMMA ReserveIsOfTheGain ==
  ASSUME NEW gain \in Nat, NEW rate \in 0..100
  PROVE  (gain * rate) \div 100 \in Nat /\ (gain * rate) \div 100 <= gain
<1>1. rate \in Nat /\ rate <= 100
  OBVIOUS
<1>2. gain * rate \in Nat /\ gain * rate <= gain * 100
  BY <1>1, TimesMonotone
<1> DEFINE p == gain * rate
<1> HIDE DEF p
<1>3. p \in Nat /\ p <= gain * 100
  BY <1>2 DEF p
<1>4. p \div 100 \in Nat /\ p \div 100 <= gain
  BY <1>3
<1> QED BY <1>4 DEF p

\* A profile has a cost that is not negative and a rate that fits for each of
\* its assets.
LEMMA ProfileFits ==
  ASSUME NEW rows \in Seq(BasisRows), NEW expected, NEW cut, NEW today,
         NEW profile, profile = Taxes!Basis(rows, expected, cut, today), profile # Refused,
         NEW a \in expected
  PROVE  /\ profile[a].cost \in Nat
         /\ profile[a].treatment \in Taxes!BasisTreatments
         /\ profile[a].treatment # "NO_ESTIMADO" => profile[a].rate \in 0..100
<1> DEFINE i == CHOOSE i \in DOMAIN rows : rows[i].asset = a
<1>1. /\ \A j \in DOMAIN rows : /\ rows[j].cost >= 0
                                /\ rows[j].treatment \in Taxes!BasisTreatments
                                /\ Taxes!RateFits(rows[j])
      /\ {rows[j].asset : j \in DOMAIN rows} = expected
      /\ profile = [b \in expected |-> rows[CHOOSE j \in DOMAIN rows : rows[j].asset = b]]
  BY DEF Taxes!Basis
<1>2. i \in DOMAIN rows
  BY <1>1
<1>3. profile[a] = rows[i]
  BY <1>1
<1> HIDE DEF i
<1>4. rows[i].cost \in Int
  <2>1. rows[i] \in BasisRows
    BY <1>2
  <2> QED BY <2>1 DEF BasisRows
<1>5. ASSUME rows[i].treatment # "NO_ESTIMADO"
      PROVE  rows[i].rate \in 0..100
  <2>1. Taxes!RateFits(rows[i]) /\ rows[i].treatment \in Taxes!BasisTreatments
    BY <1>1, <1>2
  <2>2. CASE rows[i].treatment = "PF_ACCIONES_BOLSA_ART129"
    BY <2>1, <2>2 DEF Taxes!RateFits
  <2>3. CASE rows[i].treatment = "ESCENARIO_TASA_DECLARADA"
    BY <2>1, <2>3 DEF Taxes!RateFits
  <2> QED BY <1>5, <2>1, <2>2, <2>3 DEF Taxes!BasisTreatments
<1> QED BY <1>1, <1>2, <1>3, <1>4, <1>5

\* What a sale leaves after its commission and its reserve is at least its
\* basis, or all of it when it loses.
LEMMA BasisIsKept ==
  ASSUME NEW rows \in Seq(BasisRows), NEW cut, NEW today,
         NEW sales \in SUBSET Sales, NEW values \in [Assets -> Int]
  PROVE  Taxes!BasisIsNeverTaxed(sales, values, Taxes!Basis(rows, Assets, cut, today))
<1> DEFINE profile == Taxes!Basis(rows, Assets, cut, today)
<1> SUFFICES ASSUME Taxes!Reserve(sales, values, profile) # Refused, NEW s \in sales,
                    profile[s.asset].treatment # "NO_ESTIMADO"
             PROVE  LET net == Taxes!Larger(s.notional - s.commission, 0)
                        basis == Taxes!Allocated(s, values, profile)
                    IN net - Taxes!ReserveOf(s, values, profile) >= (IF net < basis THEN net ELSE basis)
  BY DEF Taxes!BasisIsNeverTaxed
<1> DEFINE net == Taxes!Larger(s.notional - s.commission, 0)
           basis == Taxes!Allocated(s, values, profile)
           gain == Taxes!Gain(s, basis)
<1>1. profile # Refused /\ values[s.asset] > 0 /\ values[s.asset] \in Int
  <2>1. ~(profile = Refused \/ \E t \in sales : values[t.asset] <= 0 \/ t.notional > values[t.asset])
    BY DEF Taxes!Reserve
  <2>2. values[s.asset] \in Int
    BY DEF Sales
  <2> QED BY <2>1, <2>2
<1>2. s.asset \in Assets /\ s.notional \in Nat /\ s.commission \in Nat
  BY DEF Sales
<1>3. /\ profile[s.asset].cost \in Nat
      /\ profile[s.asset].rate \in 0..100
  BY <1>1, <1>2, ProfileFits
<1>4. Taxes!ReserveOf(s, values, profile) = (gain * profile[s.asset].rate) \div 100
  BY DEF Taxes!ReserveOf
<1> HIDE DEF profile
<1>5. basis \in Int
  <2>1. profile[s.asset].cost * s.notional \in Nat
    BY <1>2, <1>3, TimesMonotone
  <2> DEFINE p == profile[s.asset].cost * s.notional
             v == values[s.asset]
  <2>2. p \in Int /\ v \in Int /\ v > 0
    BY <1>1, <2>1
  <2> HIDE DEF p, v
  <2>3. p \div v \in Int
    BY <2>2
  <2> QED BY <2>3 DEF Taxes!Allocated, p, v
<1> HIDE DEF basis
<1>6. net \in Nat
  BY <1>2 DEF Taxes!Larger
<1>7. gain = Taxes!Larger(net - basis, 0)
  BY DEF Taxes!Gain
<1> HIDE DEF net, gain
<1>8. gain \in Nat
  BY <1>5, <1>6, <1>7 DEF Taxes!Larger
<1>9. (gain * profile[s.asset].rate) \div 100 \in Nat /\ (gain * profile[s.asset].rate) \div 100 <= gain
  BY <1>3, <1>8, ReserveIsOfTheGain
<1> DEFINE reserve == Taxes!ReserveOf(s, values, profile)
<1>10. reserve \in Nat /\ reserve <= gain
  BY <1>4, <1>9
<1> HIDE DEF reserve
<1>11. net - reserve >= (IF net < basis THEN net ELSE basis)
  <2>1. CASE net < basis
    BY <1>5, <1>6, <1>7, <1>10, <2>1 DEF Taxes!Larger
  <2>2. CASE ~(net < basis)
    BY <1>5, <1>6, <1>7, <1>10, <2>2 DEF Taxes!Larger
  <2> QED BY <2>1, <2>2
<1> QED BY <1>11 DEF net, basis, reserve

\* The sum of two sets that are apart.
LEMMA SumOfBoth ==
  ASSUME NEW A, IsFiniteSet(A), NEW B, IsFiniteSet(B), A \cap B = {},
         NEW f, \A x \in A \cup B : f[x] \in Int
  PROVE  SumFunctionOnSet(f, A \cup B) = SumFunctionOnSet(f, A) + SumFunctionOnSet(f, B)
<1> DEFINE F(s) == SumFunctionOnSet(f, s)
           Adds(b) == F(A \cup b) = F(A) + F(b)
           T == {b \in SUBSET B : Adds(b)}
<1>1. F(A) \in Int
  BY SumIsInt
<1>2. {} \in T
  <2>1. A \cup {} = A /\ F({}) = 0
    BY SumOfNothing
  <2> HIDE DEF F
  <2> QED BY <1>1, <2>1
<1>3. ASSUME NEW b \in T, NEW x \in B \ b
      PROVE  b \cup {x} \in T
  <2>1. IsFiniteSet(b) /\ IsFiniteSet(A \cup b)
    BY FS_Subset, FS_Union
  <2>2. x \notin b /\ x \notin A \cup b /\ A \cup (b \cup {x}) = (A \cup b) \cup {x}
    OBVIOUS
  <2>3. (\A y \in b \cup {x} : f[y] \in Int) /\ (\A y \in (A \cup b) \cup {x} : f[y] \in Int)
    OBVIOUS
  <2>4. F(b \cup {x}) = f[x] + F(b) /\ F(b) \in Int
    BY <2>1, <2>2, <2>3, SumAdds
  <2>5. F((A \cup b) \cup {x}) = f[x] + F(A \cup b)
    BY <2>1, <2>2, <2>3, SumAdds
  <2>6. Adds(b) /\ f[x] \in Int
    OBVIOUS
  <2> HIDE DEF F
  <2>7. F(A \cup (b \cup {x})) = F((A \cup b) \cup {x})
    BY <2>2
  <2>8. F(A \cup (b \cup {x})) = F(A) + F(b \cup {x})
    BY <1>1, <2>4, <2>5, <2>6, <2>7
  <2>9. Adds(b \cup {x})
    BY <2>8
  <2> QED BY <2>9
<1>4. T = SUBSET B
  <2>1. T \in SUBSET SUBSET B
    OBVIOUS
  <2> HIDE DEF T
  <2> QED BY <1>2, <1>3, <2>1, SetInduction
<1>5. Adds(B)
  BY <1>4
<1> QED BY <1>5

\* A sum without the terms that are not in a part of its set.
LEMMA SumOfPart ==
  ASSUME NEW S, IsFiniteSet(S), NEW P, NEW g, NEW u,
         \A x \in S : g[x] \in Int /\ u[x] = IF x \in P THEN 0 ELSE g[x]
  PROVE  SumFunctionOnSet(g, S) - SumFunctionOnSet(u, S) = SumFunctionOnSet(g, S \cap P)
<1> DEFINE G(s) == SumFunctionOnSet(g, s)
           U(s) == SumFunctionOnSet(u, s)
           Left(s) == G(s) - U(s) = G(s \cap P)
           T == {s \in SUBSET S : Left(s)}
<1>1. {} \in T
  <2>1. G({}) = 0 /\ U({}) = 0 /\ {} \cap P = {}
    BY SumOfNothing
  <2> HIDE DEF G, U
  <2> QED BY <2>1
<1>2. ASSUME NEW s \in T, NEW x \in S \ s
      PROVE  s \cup {x} \in T
  <2>1. IsFiniteSet(s) /\ IsFiniteSet(s \cap P)
    BY FS_Subset
  <2>2. x \notin s /\ x \notin s \cap P
    OBVIOUS
  <2>3. \A y \in s \cup {x} : g[y] \in Int /\ u[y] \in Int
    OBVIOUS
  <2>4. G(s \cup {x}) = g[x] + G(s) /\ U(s \cup {x}) = u[x] + U(s) /\ G(s) \in Int /\ U(s) \in Int
    BY <2>1, <2>2, <2>3, SumAdds
  <2>5. G((s \cap P) \cup {x}) = g[x] + G(s \cap P) /\ G(s \cap P) \in Int
    <3>1. \A y \in (s \cap P) \cup {x} : g[y] \in Int
      BY <2>3
    <3> QED BY <2>1, <2>2, <3>1, SumAdds
  <2>6. Left(s) /\ g[x] \in Int /\ u[x] = IF x \in P THEN 0 ELSE g[x]
    OBVIOUS
  <2>7. (s \cup {x}) \cap P = IF x \in P THEN (s \cap P) \cup {x} ELSE s \cap P
    OBVIOUS
  <2> HIDE DEF G, U
  <2>8. Left(s \cup {x})
    <3>1. CASE x \in P
      <4>1. G((s \cup {x}) \cap P) = G((s \cap P) \cup {x})
        BY <2>7, <3>1
      <4>2. G(s \cup {x}) - U(s \cup {x}) = G((s \cup {x}) \cap P)
        BY <2>4, <2>5, <2>6, <3>1, <4>1
      <4> QED BY <4>2
    <3>2. CASE x \notin P
      <4>1. G((s \cup {x}) \cap P) = G(s \cap P)
        BY <2>7, <3>2
      <4>2. G(s \cup {x}) - U(s \cup {x}) = G((s \cup {x}) \cap P)
        BY <2>4, <2>5, <2>6, <3>2, <4>1
      <4> QED BY <4>2
    <3> QED BY <3>1, <3>2
  <2> QED BY <2>8
<1>3. T = SUBSET S
  <2>1. T \in SUBSET SUBSET S
    OBVIOUS
  <2> HIDE DEF T
  <2> QED BY <1>1, <1>2, <2>1, SetInduction
<1>4. Left(S)
  BY <1>3
<1> QED BY <1>4

\* What has its key in K.
Grouped(S, by, K) == {x \in S : by[x] \in K}
SumsBy(g, S, by, K) == [k \in K |-> SumFunctionOnSet(g, Grouped(S, by, {k}))]

\* A sum by groups, and the sum of the groups.
LEMMA SumOfGroups ==
  ASSUME NEW S, IsFiniteSet(S), NEW g, \A x \in S : g[x] \in Int, NEW by,
         NEW K, IsFiniteSet(K)
  PROVE  SumFunctionOnSet(SumsBy(g, S, by, K), K) = SumFunctionOnSet(g, Grouped(S, by, K))
<1> DEFINE G(s) == SumFunctionOnSet(g, s)
           m == SumsBy(g, S, by, K)
           M(k) == SumFunctionOnSet(m, k)
           In(k) == Grouped(S, by, k)
           Whole(k) == M(k) = G(In(k))
           T == {k \in SUBSET K : Whole(k)}
<1>1. \A k : IsFiniteSet(In(k)) /\ (\A x \in In(k) : g[x] \in Int)
  BY FS_Subset DEF Grouped
<1>2. {} \in T
  <2>1. In({}) = {} /\ G({}) = 0 /\ M({}) = 0
    BY SumOfNothing DEF Grouped
  <2> HIDE DEF G, M, In
  <2> QED BY <2>1
<1>3. \A k \in K : m[k] \in Int /\ m[k] = G(In({k}))
  <2> SUFFICES ASSUME NEW k \in K PROVE m[k] \in Int /\ m[k] = G(In({k}))
    OBVIOUS
  <2>1. G(In({k})) \in Int
    BY <1>1, SumIsInt
  <2> QED BY <2>1 DEF SumsBy
<1>4. ASSUME NEW k \in T, NEW x \in K \ k
      PROVE  k \cup {x} \in T
  <2>1. IsFiniteSet(k) /\ x \notin k /\ (\A y \in k \cup {x} : m[y] \in Int)
    BY <1>3, FS_Subset
  <2>2. M(k \cup {x}) = m[x] + M(k) /\ M(k) \in Int
    BY <2>1, SumAdds
  <2>3. In(k \cup {x}) = In(k) \cup In({x}) /\ In(k) \cap In({x}) = {}
    BY DEF Grouped
  <2>4. G(In(k) \cup In({x})) = G(In(k)) + G(In({x}))
    <3> HIDE DEF In
    <3>1. \A y \in In(k) \cup In({x}) : g[y] \in Int
      BY <1>1
    <3> QED BY <1>1, <2>3, <3>1, SumOfBoth
  <2>5. m[x] = G(In({x})) /\ m[x] \in Int
    BY <1>3
  <2>6. Whole(k)
    OBVIOUS
  <2> HIDE DEF G, M, In
  <2>7. G(In(k \cup {x})) = G(In(k) \cup In({x}))
    BY <2>3
  <2>8. G(In({x})) \in Int /\ G(In(k)) \in Int
    BY <2>2, <2>5, <2>6
  <2>9. M(k \cup {x}) = G(In(k \cup {x}))
    BY <2>2, <2>4, <2>5, <2>6, <2>7, <2>8
  <2> QED BY <2>9
<1>5. T = SUBSET K
  <2>1. T \in SUBSET SUBSET K
    OBVIOUS
  <2> HIDE DEF T
  <2> QED BY <1>2, <1>4, <2>1, SetInduction
<1>6. Whole(K)
  BY <1>5
<1> QED BY <1>6

\* The income of a year splits, kind by kind, in what is not estimated and what
\* has a declared treatment.
LEMMA IncomeSplits ==
  ASSUME NEW rows \in Seq(FlowRows), NEW expected, NEW cut, NEW today
  PROVE  Taxes!IncomeIsClassified(rows, expected, cut, today)
<1> DEFINE S == DOMAIN rows
           g == [i \in S |-> rows[i].gross]
           u == [i \in S |-> Taxes!Unestimated(rows[i])]
           by == [i \in S |-> rows[i].kind]
           kinds == {rows[i].kind : i \in S}
           m == [k \in kinds |-> Taxes!SumFunctionOnSet(g, {i \in S : rows[i].kind = k})]
           treated == {i \in S : rows[i].treatment # "NO_ESTIMADO"}
           flows == Taxes!Flows(rows, expected, cut, today)
<1>1. \A f, s : Taxes!SumFunctionOnSet(f, s) = SumFunctionOnSet(f, s)
  BY DEF Taxes!SumFunctionOnSet, Taxes!FoldFunctionOnSet, Taxes!MapThenFoldSet,
         SumFunctionOnSet, FoldFunctionOnSet, MapThenFoldSet
<1>2. ASSUME flows # Refused
      PROVE  /\ flows.gross = Taxes!SumFunctionOnSet(g, S)
             /\ flows.unestimated = Taxes!SumFunctionOnSet(u, S)
             /\ flows.summary = m
  BY <1>2 DEF Taxes!Flows
<1>3. IsFiniteSet(S)
  <2>1. S = 1..Len(rows) /\ Len(rows) \in Nat
    OBVIOUS
  <2> HIDE DEF S
  <2> QED BY <2>1, FS_Interval
<1>4. IsFiniteSet(kinds)
  <2>1. kinds = {by[i] : i \in S}
    OBVIOUS
  <2>2. by \in Surjection(S, kinds)
    BY DEF Surjection
  <2> HIDE DEF S, by, kinds
  <2> QED BY <1>3, <2>2, FS_Surjection DEF ExistsSurjection
<1>5. \A i \in S : /\ g[i] \in Int
                   /\ u[i] = IF i \in treated THEN 0 ELSE g[i]
                   /\ by[i] = rows[i].kind /\ by[i] \in kinds
  <2> SUFFICES ASSUME NEW i \in S
               PROVE  /\ g[i] \in Int
                      /\ u[i] = IF i \in treated THEN 0 ELSE g[i]
                      /\ by[i] = rows[i].kind /\ by[i] \in kinds
    OBVIOUS
  <2>1. rows[i] \in FlowRows
    OBVIOUS
  <2> QED BY <2>1 DEF FlowRows, Taxes!Unestimated
<1>6. m = SumsBy(g, S, by, kinds)
  <2> SUFFICES ASSUME NEW k \in kinds PROVE m[k] = SumFunctionOnSet(g, Grouped(S, by, {k}))
    BY DEF SumsBy
  <2>1. Grouped(S, by, {k}) = {i \in S : rows[i].kind = k}
    BY DEF Grouped
  <2> QED BY <1>1, <2>1
<1>7. DOMAIN m = kinds /\ Grouped(S, by, kinds) = S /\ S \cap treated = treated
  BY <1>5 DEF Grouped
<1>8. Taxes!SumFunction(m) = SumFunctionOnSet(m, kinds)
  BY <1>1, <1>7 DEF Taxes!SumFunction
<1> HIDE DEF S, g, u, by, kinds, m, treated, flows
<1>9. SumFunctionOnSet(m, kinds) = SumFunctionOnSet(g, Grouped(S, by, kinds))
  <2>1. \A i \in S : g[i] \in Int
    BY <1>5
  <2> QED BY <1>3, <1>4, <1>6, <2>1, SumOfGroups
<1>10. SumFunctionOnSet(g, S) - SumFunctionOnSet(u, S) = SumFunctionOnSet(g, S \cap treated)
  BY <1>3, <1>5, SumOfPart
<1>11. flows # Refused =>
         /\ flows.gross = Taxes!SumFunction(flows.summary)
         /\ flows.gross - flows.unestimated = Taxes!SumFunctionOnSet(g, treated)
  BY <1>1, <1>2, <1>7, <1>8, <1>9, <1>10
<1> QED BY <1>11 DEF Taxes!IncomeIsClassified, flows, treated, g, S

----------------------------------------------------------------------------
(* Part 5: the files of an analysis, which may come together and which are read. *)

\* The review has a dozen controls of its own.
LEMMA ControlsAreFinite ==
  /\ IsFiniteSet(DOMAIN Files!ReviewControls)
  /\ DOMAIN Files!ReviewControls =
       {"scope", "rights", "identity", "portfolio", "detail", "subtotal", "coverage", "cash",
        "titles", "costs", "contrast", "prices"}
<1> DEFINE names == {"scope", "rights", "identity", "portfolio", "detail", "subtotal", "coverage", "cash",
                     "titles", "costs", "contrast", "prices"}
<1>1. DOMAIN Files!ReviewControls = names
  BY DEF Files!ReviewControls
<1>2. \A x : IsFiniteSet({x})
  BY FS_Singleton
<1>3. \A S, T : IsFiniteSet(S) /\ IsFiniteSet(T) => IsFiniteSet(S \cup T)
  BY FS_Union
<1>4. \A x, y, z : IsFiniteSet({x, y, z})
  <2> SUFFICES ASSUME NEW x, NEW y, NEW z
               PROVE  IsFiniteSet({x, y, z})
    OBVIOUS
  <2>1. IsFiniteSet({x} \cup {y})
    BY <1>2, <1>3
  <2>2. IsFiniteSet(({x} \cup {y}) \cup {z})
    BY <1>2, <1>3, <2>1
  <2>3. {x, y, z} = ({x} \cup {y}) \cup {z}
    OBVIOUS
  <2> QED BY <2>2, <2>3
<1> DEFINE half == {"scope", "rights", "identity"} \cup {"portfolio", "detail", "subtotal"}
           rest == {"coverage", "cash", "titles"} \cup {"costs", "contrast", "prices"}
<1>5. IsFiniteSet(half)
  BY <1>3, <1>4
<1>6. IsFiniteSet(rest)
  BY <1>3, <1>4
<1>7. IsFiniteSet(half \cup rest)
  BY <1>3, <1>5, <1>6
<1>8. names = half \cup rest
  OBVIOUS
<1> QED BY <1>1, <1>7, <1>8

\* No file is left out in silence: an analysis reads every file that it was
\* given, or it is refused, whichever come together.
LEMMA FilesAreRead ==
  ASSUME NEW P \in SUBSET Inputs, NEW scope
  PROVE  Files!NothingIsIgnored(P, scope)
<1> SUFFICES ASSUME Files!Admitted(P, scope), NEW f \in P \ Files!Choices
             PROVE  f \in Files!Read(P)
  BY DEF Files!NothingIsIgnored
<1> USE DEF Files!With
<1>1. CASE f \in Files!PriceInputs
  <2>1. f \in Files!PricesRead(P)
    BY <1>1 DEF Files!Admitted, Files!PricesAdmitted, Files!PricesRead, Files!PriceInputs
  <2> QED BY <2>1 DEF Files!Read
<1>2. CASE f \in Files!SeriesInputs
  BY <1>2 DEF Files!Read
<1>3. CASE f \in Files!AccountInputs
  <2>1. f \in Files!AccountRead(P)
    BY <1>3 DEF Files!Admitted, Files!AccountAdmitted, Files!AccountRead, Files!AccountInputs,
                Files!ControlInputs
  <2> QED BY <2>1 DEF Files!Read
<1>4. CASE f \in Files!CostInputs
  <2>1. f \in Files!CostsRead(P)
    BY <1>4 DEF Files!Admitted, Files!CostsAdmitted, Files!CostsRead, Files!CostInputs,
                Files!Choices
  <2> QED BY <2>1 DEF Files!Read
<1> QED BY <1>1, <1>2, <1>3, <1>4 DEF Inputs, Files!Choices

\* A control of the review that says it has evidence had the files that it
\* leans on, and at least two controls stay pending, whatever was supplied and
\* found.
LEMMA ControlsAreSupported ==
  ASSUME NEW P \in SUBSET Inputs, NEW scope, NEW found
  PROVE  Files!EvidenceIsSupported(P, scope, found)
<1>1. ASSUME Files!Admitted(P, scope), NEW c \in DOMAIN Files!ReviewControls,
             Files!Status(c, P, found) = "evidence"
      PROVE  Files!Supports[c] \subseteq P
  <2>1. Files!ReviewControls[c].about \subseteq P
    BY <1>1 DEF Files!Status
  <2>2. c = "contrast" => "reference identity" \in P
    BY <1>1 DEF Files!Status
  <2> USE DEF Files!With
  <2>3. /\ "scope" \in P => "orders" \in P
        /\ "orders" \in P => {"MXN", "scope"} \subseteq P
    BY <1>1 DEF Files!Admitted, Files!CostsAdmitted
  <2>4. /\ "rights" \in P => "prices" \in P
        /\ "prices" \in P => "rights" \in P
        /\ "reference" \in P => /\ {"prices", "rights", "reference rights"} \subseteq P
                                /\ "identity" \in P <=> "reference identity" \in P
    BY <1>1 DEF Files!Admitted, Files!PricesAdmitted
  <2>5. /\ "holdings" \in P => "MXN" \in P
        /\ P \cap Files!ControlInputs # {} => "holdings" \in P
        /\ "cash" \in P => "coverage" \in P
        /\ "ledger" \in P <=> "closing" \in P
    BY <1>1 DEF Files!Admitted, Files!AccountAdmitted
  <2>6. {"detail", "subtotal", "coverage", "cash", "ledger"} \subseteq Files!ControlInputs
    BY DEF Files!ControlInputs
  <2>7. c \in {"scope", "rights", "identity", "portfolio", "detail", "subtotal", "coverage", "cash",
               "titles", "costs", "contrast", "prices"}
    BY ControlsAreFinite
  <2>8. CASE c = "scope"
    BY <2>1, <2>3, <2>8 DEF Files!ReviewControls, Files!Supports
  <2>9. CASE c = "rights"
    BY <2>1, <2>4, <2>9 DEF Files!ReviewControls, Files!Supports
  <2>10. CASE c = "identity"
    BY <2>1, <2>4, <2>10 DEF Files!ReviewControls, Files!Supports
  <2>11. CASE c = "portfolio"
    BY <2>1, <2>5, <2>11 DEF Files!ReviewControls, Files!Supports
  <2>12. CASE c = "detail"
    BY <2>1, <2>5, <2>6, <2>12 DEF Files!ReviewControls, Files!Supports
  <2>13. CASE c = "subtotal"
    BY <2>1, <2>5, <2>6, <2>13 DEF Files!ReviewControls, Files!Supports
  <2>14. CASE c = "coverage"
    BY <2>1, <2>5, <2>6, <2>14 DEF Files!ReviewControls, Files!Supports
  <2>15. CASE c = "cash"
    BY <2>1, <2>5, <2>6, <2>15 DEF Files!ReviewControls, Files!Supports
  <2>16. CASE c = "titles"
    BY <2>1, <2>5, <2>6, <2>16 DEF Files!ReviewControls, Files!Supports
  <2>17. CASE c = "costs"
    BY <2>1, <2>3, <2>17 DEF Files!ReviewControls, Files!Supports
  <2>18. CASE c = "prices"
    BY <2>1, <2>4, <2>18 DEF Files!ReviewControls, Files!Supports
  <2>19. CASE c = "contrast"
    BY <2>1, <2>2, <2>4, <2>19 DEF Files!ReviewControls, Files!Supports
  <2> QED BY <2>7, <2>8, <2>9, <2>10, <2>11, <2>12, <2>13, <2>14, <2>15, <2>16, <2>17, <2>18, <2>19
<1>2. Files!Unresolved(P, found) >= 2
  <2> DEFINE unmet == {c \in DOMAIN Files!ReviewControls : Files!Status(c, P, found) # "evidence"}
  <2>1. IsFiniteSet(unmet)
    BY ControlsAreFinite, FS_Subset
  <2>2. Cardinality(unmet) \in Nat
    BY <2>1, FS_CardinalityType
  <2>3. Files!Cardinality(unmet) = Cardinality(unmet)
    BY DEF Files!Cardinality, Cardinality
  <2> HIDE DEF unmet
  <2>4. Files!Cardinality(unmet) + 2 >= 2
    BY <2>2, <2>3
  <2> QED BY <2>4 DEF Files!Unresolved, unmet
<1> QED BY <1>1, <1>2 DEF Files!EvidenceIsSupported

----------------------------------------------------------------------------
(* Part 6: the questions.  What is answered was asked, and a plan is one that *)
(* its constraints admit.                                                     *)

Questions == [plan |-> PlanCases, rules |-> RuleFiles, sales |-> SaleCases,
              income |-> FlowFiles, inputs |-> SuppliedFiles,
              ledger |-> LedgerFiles, accounts |-> AccountFiles, results |-> ResultCases,
              cetes |-> CetesFiles, bond |-> BondFiles, liquidity |-> LiquidityFiles, history |-> Histories,
              wealth |-> WealthFiles]

EstimatesInv ==
  /\ book \in DOMAIN Questions /\ input \in Questions[book]
  /\ book = "plan" /\ output # Unanswered =>
       \E lots \in [Assets -> Int] :
         /\ Plans!Admitted(input, lots)
         /\ output = <<[lots |-> lots, remaining |-> Plans!Remaining(input, lots)]>>

\* Every question is asked and answered once.
LEMMA EstimatesAreAnswers == EstimatesSpec => []EstimatesInv
<1>1. EstimatesInit => EstimatesInv
  BY DEF EstimatesInit, EstimatesInv, Questions, Unanswered
<1>2. EstimatesInv /\ [EstimatesNext]_answers => EstimatesInv'
  <2> SUFFICES ASSUME EstimatesInv, [EstimatesNext]_answers
               PROVE  EstimatesInv'
    OBVIOUS
  <2>1. UNCHANGED <<book, input>>
    BY DEF EstimatesNext, answers, Answers, Propose, ReadRules, ReserveTaxes, ClassifyIncome, ReadInputs,
           KeepBook, AddAccounts, ReadResults, PrepareCetes, PrepareBond, AccrueLiquidity, Study, Perform
  <2>2. CASE UNCHANGED output \/ book # "plan"
    BY <2>1, <2>2 DEF EstimatesInv, Questions
  <2>3. CASE book = "plan" /\ ~UNCHANGED output
    <3>1. Propose
      BY <2>3 DEF EstimatesNext, answers, Answers, Asked, ReadRules, ReserveTaxes, ClassifyIncome, ReadInputs,
              KeepBook, AddAccounts, ReadResults, PrepareCetes, PrepareBond, AccrueLiquidity, Study, Perform
    <3>2. PICK lots \in [Assets -> Lots] :
            /\ Plans!Admitted(input, lots)
            /\ output' = <<[lots |-> lots, remaining |-> Plans!Remaining(input, lots)]>>
      BY <3>1 DEF Propose, Answers
    <3>3. lots \in [Assets -> Int]
      BY AssetsAssumption
    <3> QED BY <2>1, <3>2, <3>3 DEF EstimatesInv, Questions
  <2> QED BY <2>2, <2>3
<1> QED BY <1>1, <1>2, PTL DEF EstimatesSpec

\* For any assets, prices, holdings and costs within the limits of the code, a
\* plan that the constraints admit pays its orders to the cent and keeps the
\* cash that was asked for; a file of rules is read exactly when the estimate
\* accepts it.
THEOREM PlansArePaid == EstimatesSpec => []PlansAreSound
<1>1. ASSUME EstimatesInv
      PROVE  PlansAreSound
  <2> DEFINE plans == IF Answered("plan") THEN {[case |-> input, lots |-> output[1].lots]} ELSE {}
             files == IF Answered("rules") THEN {input} ELSE {}
  <2>1. ASSUME NEW p \in plans
        PROVE  Plans!Remaining(p.case, p.lots) >= p.case.floor
    <3>1. book = "plan" /\ output # Unanswered /\ p = [case |-> input, lots |-> output[1].lots]
      BY DEF Answered
    <3>2. PICK lots \in [Assets -> Int] :
            /\ Plans!Admitted(input, lots)
            /\ output = <<[lots |-> lots, remaining |-> Plans!Remaining(input, lots)]>>
      BY <1>1, <3>1 DEF EstimatesInv
    <3>3. p.case = input /\ p.lots = lots
      BY <3>1, <3>2
    <3>4. input \in Cases
      BY <1>1, <3>1, QuestionsAssumption DEF EstimatesInv, Questions
    <3> QED BY <3>2, <3>3, <3>4, PlanIsPaid, AssetsAssumption
  <2>2. ASSUME NEW f \in files
        PROVE  Plans!RulesAgree(f.file, f.day)
    <3>1. f \in RuleFiles
      BY <1>1 DEF Answered, EstimatesInv, Questions
    <3>2. f.file \in Seq(Rules)
      BY <3>1, QuestionsAssumption
    <3> QED BY <3>2, FilesAgree
  <2> HIDE DEF plans, files
  <2>3. Plans!PlansAreSound(plans, files)
    BY <2>1, <2>2 DEF Plans!PlansAreSound
  <2> QED BY <2>3 DEF PlansAreSound, plans, files
<1> QED BY <1>1, EstimatesAreAnswers, PTL

\* For any files: no reserve of a sale takes part of its basis, and the income
\* of a year is classified whole.
THEOREM TaxesFollow == EstimatesSpec => []TaxesFollowTheirFiles
<1>1. ASSUME EstimatesInv
      PROVE  TaxesFollowTheirFiles
  <2> DEFINE asked == IF Answered("sales")
                      THEN {[sales |-> input.sales, values |-> input.values, profile |-> Profile(input)]}
                      ELSE {}
             files == IF Answered("income") THEN {input} ELSE {}
  <2>1. ASSUME NEW q \in asked
        PROVE  Taxes!BasisIsNeverTaxed(q.sales, q.values, q.profile)
    <3>1. /\ input \in SaleCases
          /\ q = [sales |-> input.sales, values |-> input.values, profile |-> Profile(input)]
      BY <1>1 DEF Answered, EstimatesInv, Questions
    <3>2. /\ input.sales \in SUBSET Sales /\ input.basis \in Seq(BasisRows)
          /\ input.values \in [Assets -> Int]
      BY <3>1, QuestionsAssumption
    <3>3. Taxes!BasisIsNeverTaxed(input.sales, input.values, Profile(input))
      BY <3>2, BasisIsKept DEF Profile
    <3> QED BY <3>1, <3>3
  <2>2. ASSUME NEW f \in files
        PROVE  Taxes!IncomeIsClassified(f.rows, f.expected, f.cut, f.today)
    <3>1. f \in FlowFiles
      BY <1>1 DEF Answered, EstimatesInv, Questions
    <3>2. f.rows \in Seq(FlowRows)
      BY <3>1, QuestionsAssumption
    <3> QED BY <3>2, IncomeSplits
  <2> HIDE DEF asked, files
  <2>3. Taxes!TaxesFollowTheirFiles(asked, files)
    BY <2>1, <2>2 DEF Taxes!TaxesFollowTheirFiles
  <2> QED BY <2>3 DEF TaxesFollowTheirFiles, asked, files
<1> QED BY <1>1, EstimatesAreAnswers, PTL

\* Whichever files are supplied, an analysis reads each of them or is refused,
\* and what the review shows as evidence had its support.
THEOREM FilesAreReadOrRefused == EstimatesSpec => []FilesAreUsedOrRefused
<1>1. ASSUME EstimatesInv, Answered("inputs")
      PROVE  Files!FilesAreUsedOrRefused(input.files, input.scope, input.found)
  <2>1. input \in SuppliedFiles
    BY <1>1 DEF Answered, EstimatesInv, Questions
  <2>2. input.files \in SUBSET Inputs
    BY <2>1, QuestionsAssumption
  <2> QED BY <2>2, FilesAreRead, ControlsAreSupported DEF Files!FilesAreUsedOrRefused
<1>2. EstimatesInv => FilesAreUsedOrRefused
  BY <1>1 DEF FilesAreUsedOrRefused
<1> QED BY <1>2, EstimatesAreAnswers, PTL
=============================================================================
