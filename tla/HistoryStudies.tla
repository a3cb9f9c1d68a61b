--------------------------- MODULE HistoryStudies ---------------------------
(***************************************************************************)
(* The studies of a history of returns: one cut between estimation and     *)
(* evaluation (backtesting.py), the four cuts of multi_cut.py, and the     *)
(* reviews every so many months of walk_forward.py.                        *)
(*                                                                         *)
(* A row of returns is [day, gross]: what one unit of each asset becomes.  *)
(* A day is 31 times its month, counted from that of year zero, and the    *)
(* day of the month from zero.                                             *)
(* Weights are parts of Whole.  What a portfolio holds, [of, paid, unit],  *)
(* is counted in parts of the initial capital, unit of them: a purchase    *)
(* takes finer parts, so that nothing is rounded.                          *)
(***************************************************************************)
EXTENDS Integers, Sequences, FiniteSets, Functions

CONSTANTS Assets,
          Optimal(_),        \* the weights optimize_portfolio finds in a history: external
          Share,             \* the parts of a weight in an equal portfolio
          Points,            \* the parts of a cost (10_000 basis points)
          Least, Enough,     \* rows of estimation (60) and of evaluation (20)
          LeastForCuts,      \* rows of the four cuts (120)
          NoWeights,         \* the current portfolio is not given
          Refused

\* What is studied: [returns, fraction (tenths), current, cost, cadence], and
\* other: for each row, another gross it might have had.
Training(x) == (Len(x.returns) * x.fraction) \div 10
Evaluated(x) == Len(x.returns) - Training(x)
Evaluation(x, p) == x.returns[Training(x) + p]
Admitted(x) ==
  /\ \A i \in 2..Len(x.returns) : x.returns[i - 1].day < x.returns[i].day
  /\ x.fraction \in 5..9
  /\ Training(x) >= Least /\ Evaluated(x) >= Enough

Whole == Share * Cardinality(Assets)
Weights == {w \in [Assets -> 0..Whole] : SumFunctionOnSet(w, Assets) = Whole}

Scenarios(x) == {"optimal", "equal"} \cup (IF x.current = NoWeights THEN {} ELSE {"current"})
Allocation(x, history, name) ==
  CASE name = "optimal" -> Optimal(history)
    [] name = "equal" -> [a \in Assets |-> Share]
    [] name = "current" -> x.current

-----------------------------------------------------------------------------
Abs(n) == IF n < 0 THEN -n ELSE n
Worth(held) == SumFunctionOnSet(held.of, Assets)
Value(held) == <<Worth(held), held.unit>>

\* What moves of each asset, the turnover twice over, in parts of Whole.
Moved(held, weights) ==
  SumFunctionOnSet([a \in Assets |-> Abs(Worth(held) * weights[a] - Whole * held.of[a])], Assets)
Finer == 2 * Whole * Points

\* Mutant: the cost is noted and not taken.
Rebalanced_CostApart(x, held, weights) ==
  LET cost == x.cost * Moved(held, weights)
  IN [of |-> [a \in Assets |-> Finer * Worth(held) * weights[a]],
      paid |-> Whole * (Finer * held.paid + cost), unit |-> Whole * Finer * held.unit]

Rebalanced(x, held, weights) ==
  LET cost == x.cost * Moved(held, weights)
  IN [of |-> [a \in Assets |-> (Finer * Worth(held) - cost) * weights[a]],
      paid |-> Whole * (Finer * held.paid + cost), unit |-> Whole * Finer * held.unit]
Grown(held, row) ==
  [of |-> [a \in Assets |-> held.of[a] * row.gross[a]], paid |-> held.paid, unit |-> held.unit]
(* before the first purchase: the current portfolio, or the cash of it, whose *)
(* purchase is no turnover                                                     *)
Before(x, weights) == [of |-> IF x.current = NoWeights THEN weights ELSE x.current, paid |-> 0, unit |-> Whole]

-----------------------------------------------------------------------------
(* One cut: bought once and held.                                           *)
Estimation(x) == SubSeq(x.returns, 1, Training(x))
Held(x, name) ==
  LET weights == Allocation(x, Estimation(x), name)
      held[p \in 0..Evaluated(x)] ==
        IF p = 0 THEN Rebalanced(x, Before(x, weights), weights) ELSE Grown(held[p - 1], Evaluation(x, p))
  IN held
Holdout(x) ==
  IF ~Admitted(x) THEN Refused
  ELSE [allocations |-> [name \in Scenarios(x) |-> Allocation(x, Estimation(x), name)],
        curves |-> [name \in Scenarios(x) |-> [p \in 1..Evaluated(x) |-> Value(Held(x, name)[p])]]]

(* Four fixed cuts of the same sample, each one reported by itself.         *)
Cut(x, tenths) == [x EXCEPT !.fraction = tenths]
Cuts(x) ==
  IF Len(x.returns) < LeastForCuts \/ \E tenths \in 5..8 : ~Admitted(Cut(x, tenths)) THEN Refused
  ELSE [tenths \in 5..8 |-> Holdout(Cut(x, tenths))]

-----------------------------------------------------------------------------
(* Reviews: the estimation grows to the day before the purchase.            *)

\* Mutant: the return of the day is known when it trades.
History_WithTheDay(x, p) == SubSeq(x.returns, 1, Training(x) + p)

History(x, p) == SubSeq(x.returns, 1, Training(x) + p - 1)

\* pd.DateOffset(months=n), external: the same day n months later, or the last
\* one of a shorter month.
MonthOf(date) == date \div 31
Leap(year) == year % 4 = 0 /\ (year % 100 # 0 \/ year % 400 = 0)
MonthDays(month) ==
  CASE month % 12 = 1 -> IF Leap(month \div 12) THEN 29 ELSE 28
    [] month % 12 \in {3, 5, 8, 10} -> 30
    [] OTHER -> 31
Later(date, n) ==
  LET month == MonthOf(date) + n
  IN 31 * month + (IF date % 31 < MonthDays(month) THEN date % 31 ELSE MonthDays(month) - 1)

\* The dates that follow one, each counted from the one before it.
Planned(first, cadence) ==
  LET plan[k \in Nat] == IF k = 0 THEN first ELSE Later(plan[k - 1], cadence)
  IN plan

\* Mutant: the next review is counted from the day of the last one.
NextReview_FromTheDay(next, day, cadence) == Later(day, cadence)

\* The first planned date after the day, whatever was missed in between.
NextReview(next, day, cadence) ==
  LET plan == Planned(next, cadence)
  IN plan[CHOOSE k \in 0..(MonthOf(day) - MonthOf(next) + 1) : plan[k] > day /\ \A j \in 0..(k - 1) : plan[j] <= day]

(* The walk: for each row evaluated, what is held at its close, the next     *)
(* planned date, whether it was reviewed and the weights bought before its   *)
(* return.  The current portfolio is never rebalanced.                       *)
Reviewed(x, s, p) ==
  LET row == Evaluation(x, p)
      review == p = 1 \/ row.day >= s.next
      traded == {name \in Scenarios(x) : review /\ (p = 1 \/ name # "current")}
      weights == [name \in traded |-> Allocation(x, History(x, p), name)]
      before(name) == IF p = 1 THEN Before(x, weights[name]) ELSE s.held[name]
      bought(name) == IF name \in traded THEN Rebalanced(x, before(name), weights[name]) ELSE s.held[name]
  IN [held |-> [name \in Scenarios(x) |-> Grown(bought(name), row)],
      next |-> IF review /\ p > 1 THEN NextReview(s.next, row.day, x.cadence) ELSE s.next,
      review |-> review, weights |-> weights]

Start(x) ==
  [held |-> [name \in Scenarios(x) |-> [of |-> [a \in Assets |-> 0], paid |-> 0, unit |-> Whole]],
   next |-> Later(Evaluation(x, 1).day, x.cadence), review |-> FALSE,
   weights |-> [name \in {} |-> NoWeights]]

WalkForward(x) ==
  LET walk[p \in 0..Evaluated(x)] == IF p = 0 THEN Start(x) ELSE Reviewed(x, walk[p - 1], p)
  IN IF ~Admitted(x) THEN Refused ELSE walk

-----------------------------------------------------------------------------
(* The same history up to its row i, and other returns after it. *)
Otherwise(x, i) ==
  [x EXCEPT !.returns = [j \in DOMAIN @ |-> IF j <= i THEN @[j] ELSE [@[j] EXCEPT !.gross = x.other[j]]]]

\* Nothing that is decided or earned up to a day depends on the returns that
\* follow it: with other returns from any row on, what was held at each close
\* before it, when and what was bought before its return are the same
\* (walk_forward.py:81 and 130), and so is what each cut chose
\* (backtesting.py:100).
LooksBack(x) ==
  /\ WalkForward(x) # Refused =>
       \A p \in 1..Evaluated(x) :
         LET walk == WalkForward(x)
             other == WalkForward(Otherwise(x, Training(x) + p - 1))
         IN /\ \A q \in 0..(p - 1) : other[q] = walk[q]
            /\ other[p].review = walk[p].review /\ other[p].weights = walk[p].weights
            /\ \A name \in Scenarios(x) : other[p].held[name].paid = walk[p].held[name].paid
  /\ Cuts(x) # Refused =>
       \A tenths \in 5..8 :
         LET after == Training(Cut(x, tenths))
         IN Cuts(Otherwise(x, after))[tenths].allocations = Cuts(x)[tenths].allocations

\* Each planned date is reviewed on the first day observed from it on, and there
\* is no other review: neither weekends nor holidays move the plan
\* (walk_forward.py:122-129).
ReviewsAreAsPlanned(x) ==
  WalkForward(x) # Refused =>
    \A p \in 1..Evaluated(x) :
      LET day(q) == Evaluation(x, q).day
          plan == Planned(day(1), x.cadence)
      IN WalkForward(x)[p].review <=>
           p = 1 \/ \E k \in 1..(MonthOf(day(p)) - MonthOf(day(1))) : day(p - 1) < plan[k] /\ plan[k] <= day(p)

\* A study whose reviews never come is the study of one cut
\* (walk_forward.py:105-118, backtesting.py:38-60).
OneReviewIsOneCut(x) ==
  LET walk == WalkForward(x)
  IN (walk # Refused /\ \A p \in 2..Evaluated(x) : ~walk[p].review) =>
       \A name \in Scenarios(x) : \A p \in 1..Evaluated(x) :
         Value(walk[p].held[name]) = Holdout(x).curves[name][p]

\* Where no price moves, what is lost is what was paid, with any weights and
\* costs and however many reviews (walk_forward.py:111-114).
OnlyCostsAreLost(x) ==
  LET walk == WalkForward(x)
      quiet == \A p \in 1..Evaluated(x) : \A a \in Assets : Evaluation(x, p).gross[a] = 1
  IN (walk # Refused /\ quiet) =>
       \A p \in 1..Evaluated(x), name \in Scenarios(x) :
         LET held == walk[p].held[name]
         IN Worth(held) = held.unit - held.paid
=============================================================================
