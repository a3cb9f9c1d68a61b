------------------------------ MODULE MCBooks ------------------------------
(* Estimates over small files: one question of each of its algorithms.     *)
EXTENDS Estimates, TLC

CONSTANTS a1, a2, foreign

-----------------------------------------------------------------------------
MCLots == -2..3
MCPlanCases ==
  {x \in [held : [{a1, a2} -> {0, 2}], price : [{a1, a2} -> {15, 24}], cash : {0, 71, 90}, floor : {0, 10},
          turnover : {200}, weight : {100}, trade : {0, 20},
          costs : [commission : {0, 25}, market : {0, 30}, vat : {0, 16}, minimum : {0, 3}]] :
     x.cash >= x.floor /\ Plans!Capital(x) > 0}
MCRuleFiles == [file : [1..2 -> [asset : {a1, foreign}, operation : Plans!Operations, from : {1, 4},
                       until : {2, 3, 99}, consulted : {3, 4}]], day : {3}]

-----------------------------------------------------------------------------
MCClosings == 1..4
MCQuote == [a \in {a1, a2} |-> IF a = a1 THEN 2 ELSE 3]
Event(i, day, settled, kind, asset, quantity, amount, fee) ==
  [id |-> i, day |-> day, settled |-> settled, kind |-> kind, asset |-> asset, quantity |-> quantity,
   price |-> IF kind \in {"BUY", "SELL"} THEN MCQuote[asset] ELSE IF kind = "ASSET_IN" THEN 1 ELSE 0,
   amount |-> amount, fee |-> fee]
Day == {1, 2, 3}
\* A trade with a fee is a cent off: it costs more and gives less.
LedgerEvents(i) ==
  {e \in UNION {{Event(i, d, d, "DEPOSIT", Blank, 0, 9, 0), Event(i, d, d, "ASSET_IN", a1, 2, 0, 0),
          Event(i, d, d + 1, "BUY", a1, 2, 4 + f, f), Event(i, d, d + 2, "SELL", a1, 1, 2 - f, f),
          Event(i, d, d, "DIVIDEND", Blank, 0, 1, f), Event(i, d, d + 1, "BUY", a2, 1, 3, 0),
          Event(i, d, d, "SPLIT", a1, 2, 0, 0), Event(i, d, d, "WITHDRAWAL", Blank, 0, 5, f)} :
         d \in Day, f \in {0, 1}} : Books!WellFormed(e)}
MCLedgerFiles ==
  {<<e, f, g>> : e \in LedgerEvents(1), f \in {x \in LedgerEvents(2) : x.fee = 1},
                 g \in LedgerEvents(1) \cup {x \in LedgerEvents(3) : x.day # 2 /\ x.fee = 1}}

\* Two accounts, imported from two drafts of two rows each.
TwoRows == {<<r, s>> : r \in [quantity : {1, 2}, price : {3}, value : {3, 6}], s \in [quantity : {2}, price : {2}, value : {4}]}
Mappings == {<<a1, a2>>, <<a2, a1>>, <<a1, a1>>, <<a1>>}
Draft(cash, declared, series) ==
  [rows : TwoRows, mapping : Mappings, cash : cash, declared : declared, cut : {1},
   series : {[a \in {a1, a2} |-> IF a = a1 THEN s ELSE 3] : s \in series}]
MCAccountFiles == Draft({0, 2}, {7, 9, 12}, {1}) \X Draft({1}, {8, 11}, {1, 2})

-----------------------------------------------------------------------------
Fill(order, side, quantity, price, time) ==
  [order |-> order, side |-> side, quantity |-> quantity, price |-> price, time |-> time]
\* Two purchases and a sale of the app, the first one in one part or two, and
\* one purchase made elsewhere; order 9 is not of the app.
MCFills ==
  {(1 :> Fill(1, "buy", q1, 2, t1)) @@ (2 :> Fill(2, "buy", 2, 3, t2)) @@ (3 :> Fill(3, "sell", 2, p, t3)) @@ more :
     q1 \in {1, 2}, t1 \in 1..4, t2 \in 1..4, t3 \in 1..4, p \in {1, 4},
     more \in {<<>>, 4 :> Fill(1, "buy", 1, 4, 3), 4 :> Fill(9, "buy", 1, 4, 1), 4 :> Fill(9, "buy", 1, 4, 4)}}
Attempt(i, side, prepared, whole, fills) ==
  LET own == Paper!Of(fills, i)
  IN [id |-> i, side |-> side, prepared |-> prepared, unresolved |-> FALSE, order |-> i, whole |-> whole,
      filled |-> Paper!Total([f \in own |-> fills[f].quantity]),
      notional |-> Paper!Total([f \in own |-> fills[f].quantity * fills[f].price]),
      at |-> CHOOSE t \in {fills[f].time : f \in own} : \A f \in own : fills[f].time <= t]
MCResultCases ==
  {[fills |-> f, held |-> c[1], cost |-> 1, capital |-> 9, entries |-> c[2], bars |-> {1, 2, 4},
    attempts |-> <<Attempt(1, "buy", 1, c[3], f), Attempt(2, "buy", 1, TRUE, f), Attempt(3, "sell", 2, TRUE, f)>>] :
     f \in MCFills, c \in {<<1, {1}, TRUE>>, <<2, {1, 2}, TRUE>>, <<3, {1, 2}, FALSE>>}}

-----------------------------------------------------------------------------
Rated == {q \in [price : {3, 4, 6, 8, 9, 12}, term : {0, 1, 2, 3, 6}, rate : {0, 1, 2, 3, 6}] : Debt!Implied(q)}
Unrated == [price : {7, 12}, term : {0, 3}, rate : {Blank}]
MCCetesFiles ==
  [rows : {<<[day |-> d[1]] @@ p, [day |-> d[2]] @@ q, [day |-> d[3]] @@ r>> :
             d \in {<<0, 3, 6>>, <<0, 1, 3>>, <<3, 0, 6>>}, p \in Rated, q \in Rated, r \in Rated \cup Unrated}
            \cup {<<[day |-> 0] @@ p, [day |-> 3] @@ q, [day |-> 6] @@ r>> : p \in Unrated, q \in Unrated, r \in Unrated},
   market : {{0, 1, 3, 6}, {0, 6, 9}}, period : {<<0, 9>>, <<1, 6>>}]
Bonds(d, coupons) == [day : {d}, issue : {1}, clean : {9, 12}, accrued : {0, 1}, coupon : coupons]
MCBondFiles ==
  [rows : Bonds(0, {0}) \X Bonds(2, {0, 2}) \X Bonds(3, {0, 2}), market : {{0, 2, 3}}, period : {<<0, 9>>}, maturity : {3}]
Vehicles(d) == [day : {d}, vehicle : {1}, convention : {"nominal_360", "efectiva_365"}, treatment : {"BRUTA"}, rate : {0, 1, 3}]
MCLiquidityFiles ==
  [rows : Vehicles(0) \X Vehicles(6) \X Vehicles(12), market : {{0, 6, 12}}, period : {<<0, 12>>}, other : {0, 2}]

BasisRow(a) == [cut : {1}, asset : {a}, cost : {0, 4, 20}, treatment : Taxes!BasisTreatments, rate : {Blank, 10, 100}]
Sale(a) == [asset : {a}, notional : {5, 10}, commission : {0, 1, 6}]
MCSaleCases ==
  [sales : {{s, t} : s \in Sale(a1), t \in Sale(a2)} \cup {{s} : s \in Sale(a1)},
   basis : {<<r, s>> : r \in BasisRow(a1), s \in {r \in BasisRow(a2) : r.cost = 4}},
   values : {[a \in {a1, a2} |-> 10]}, cut : {1}, today : {1}]

FlowRow(d) == {r \in [day : {d}, year : {2026}, asset : {a1}, kind : {"INTERES", "DIVIDENDO_MEX"}, gross : {200},
                      domestic : {0, 20}, foreign : {0}, treatment : Taxes!FlowTreatments, base : {Blank, 200},
                      days : {Blank, 30}, control : {Blank, 90, 1000}, additional : {Blank, 0, 50}] : Taxes!FlowFits(r)}
MCFlowFiles ==
  [rows : {<<r, s>> : r \in FlowRow(1), s \in FlowRow(2)}, expected : {{a1}}, cut : {2}, today : {2}]

-----------------------------------------------------------------------------
Scopes == [start : {"CARTERA", "EFECTIVO"}, tariff : {"this", "other"}, holdings : {"this", "other"}]
AnyScope == [start |-> "EFECTIVO", tariff |-> "this", holdings |-> "this"]
Supplied(sets, scopes, found) == [files : sets, scope : scopes, found : found]
MCSuppliedFiles ==
  Supplied(SUBSET (Files!PriceInputs \cup {"cetes"}), {AnyScope}, {{}} \cup {{f} : f \in Files!Findings})
    \cup Supplied(SUBSET (Files!AccountInputs \cup {"MXN"}), {AnyScope}, {{}})
    \cup Supplied({p \cup q : p \in SUBSET {"holdings", "weights", "MXN", "basis"}, q \in SUBSET Files!CostInputs}, Scopes, {{}})

-----------------------------------------------------------------------------
\* The optimizer, external: all in the asset that grew most, halves if both did.
Growth(history, a) == 2^Cardinality({i \in DOMAIN history : history[i].gross[a] = 2})
Grows(history) ==
  [a \in {a1, a2} |-> LET other == CHOOSE b \in {a1, a2} : b # a
                      IN CASE Growth(history, a) > Growth(history, other) -> 2
                           [] Growth(history, a) = Growth(history, other) -> 1
                           [] OTHER -> 0]

\* Five returns, two to estimate and three to evaluate, from the last day of a
\* month: a planned date of February made the day after and the next one, or two
\* planned dates missed at once and a third that is not due.
Date(year, month, day) == 31 * (12 * year + month - 1) + day - 1
LateDays == <<Date(2023, 11, 28), Date(2023, 11, 29), Date(2023, 11, 30), Date(2024, 3, 1), Date(2024, 5, 29)>>
MissedDays == <<Date(2022, 8, 29), Date(2022, 8, 30), Date(2022, 8, 31), Date(2023, 3, 2), Date(2023, 5, 27)>>
MCGrosses == {(a1 :> 1) @@ (a2 :> 1), (a1 :> 2) @@ (a2 :> 1), (a1 :> 1) @@ (a2 :> 2)}
Past(days) ==
  {[returns |-> [i \in 1..5 |-> [day |-> days[i], gross |-> g[i]]],
    other |-> [i \in 1..5 |-> [a \in {a1, a2} |-> 3 - g[i][a]]]] : g \in [1..5 -> MCGrosses]}
MCHistories ==
  {y @@ z : y \in Past(LateDays) \cup Past(MissedDays),
            z \in [fraction : {5}, current : {Blank, (a1 :> 2) @@ (a2 :> 0)}, cost : {1}, cadence : {3, 12}]}

-----------------------------------------------------------------------------
Money == [a \in {a1, a2, foreign} |-> IF a = foreign THEN "USD" ELSE "MXN"]
Worth == ("MXN" :> 1) @@ ("USD" :> 2)
Flow(day, account, kind, amount, timing, reference) ==
  [day |-> day, account |-> account, kind |-> kind, currency |-> Money[account], amount |-> amount,
   timing |-> timing, reference |-> reference, rate |-> Worth[Money[account]]]
Paid(accounts) ==
  {Flow(d, a, k, 2, t, "") : d \in {2, 3}, a \in accounts, k \in {"DEPOSIT", "WITHDRAWAL"}, t \in Fortune!Timings}
Moves == {<<Flow(d, a1, "TRANSFER_OUT", 3, t, "r"), Flow(d, b, "TRANSFER_IN", n, t, "r")>> :
            d \in {2, 3}, t \in {"BOD", "EOD"}, n \in {2, 3}, b \in {a2, foreign}}
\* Accounts that begin with eight of one thing, closed on some of three days.
World(days, growth, flows) ==
  LET value(a) ==
        LET f[d \in 1..3] ==
              IF d = 1 THEN 8
              ELSE (f[d - 1] + Fortune!MovedBy([flows |-> flows], a, d, TRUE)) * growth[d]
                     + Fortune!MovedBy([flows |-> flows], a, d, FALSE)
        IN f
      close(d, a) == [day |-> d, account |-> a, currency |-> Money[a], nav |-> value(a)[d]]
      closes(a) == [i \in DOMAIN days |-> close(days[i], a)]
  IN [closings |-> closes(a1) \o closes(a2) \o closes(foreign), flows |-> flows, base |-> "MXN",
      rates |-> [i \in DOMAIN days |-> [day |-> days[i], currency |-> "USD", base |-> "MXN", rate |-> 2]],
      growth |-> growth, value |-> [a \in {a1, a2, foreign} |-> value(a)], money |-> Money, fx |-> Worth]
MCWealthFiles ==
  {World(days, growth, m \o p) : days \in {<<1, 3>>, <<1, 2, 3>>}, growth \in {1} \X {1, 2} \X {1, 2},
     m \in {<<>>} \cup Moves, p \in {<<>>} \cup (Paid({a1}) \X Paid({foreign}))}
=============================================================================
