---------------------------- MODULE TradeOrders ----------------------------
(***************************************************************************)
(* From target weights to orders that can be paid: the rules of a tariff   *)
(* file (broker_tariffs.py) as the estimate of a cost looks them up        *)
(* (implementation_costs.py), and the whole-lot plan                       *)
(* (executable_allocation.py).                                             *)
(*                                                                         *)
(* Money is in tenths of a cent, rates in basis points, limits in          *)
(* hundredths.  The solver is the set of the plans its constraints admit:  *)
(* what is shown of the plan it chooses holds for each of them.            *)
(***************************************************************************)
EXTENDS Integers, FiniteSets, Functions, Sequences

CONSTANTS Assets,     \* the universe of the analysis
          Foreign,    \* an asset outside of it
          Today,      \* the day of the analysis, a natural
          Never       \* a rule without an end

Cent == 10
Sides == {"Compra", "Venta"}
Operations == Sides \cup {"Ambas"}

Larger(a, b) == IF a > b THEN a ELSE b
Distance(a) == IF a < 0 THEN -a ELSE a
Ceiling(a, b) == (a + b - 1) \div b
RoundedUp(a) == Ceiling(a, Cent) * Cent
\* Decimal.quantize(cent, ROUND_HALF_UP) of a positive amount
Rounded(a) == ((a + Cent \div 2) \div Cent) * Cent

-----------------------------------------------------------------------------
(* Rules: [asset, operation, from, until, consulted] in the order of a file *)
Directions_AsWritten(rule) == {rule.operation}
Directions(rule) == IF rule.operation = "Ambas" THEN Sides ELSE {rule.operation}

Current(rule, day) == rule.from <= day /\ (rule.until = Never \/ day <= rule.until)

(* read_order_tariffs_csv: row by row, no direction of an asset twice *)
Readable(file, day) ==
  /\ Len(file) \in 1..200
  /\ \A i \in DOMAIN file :
       /\ file[i].asset \in Assets
       /\ file[i].until # Never => file[i].until >= file[i].from
       /\ Current(file[i], day)
       /\ file[i].consulted <= Today /\ file[i].consulted <= day
       /\ \A j \in 1..(i - 1) :
            file[j].asset = file[i].asset => Directions(file[j]) \cap Directions(file[i]) = {}

(* _order_rule_lookup: the rules that answer for a direction of an asset *)
Covering(file, asset, side) ==
  {i \in DOMAIN file : file[i].asset = asset /\ (file[i].operation = "Ambas" \/ file[i].operation = side)}
Looked(file, day) ==
  /\ \A i \in DOMAIN file : /\ file[i].asset \in Assets
                            /\ file[i].until # Never => file[i].until >= file[i].from
                            /\ file[i].consulted <= Today /\ file[i].consulted <= day
                            /\ Current(file[i], day)
  /\ \A a \in Assets, s \in Sides : Cardinality(Covering(file, a, s)) <= 1

-----------------------------------------------------------------------------
(* A plan: lots[a], negative when they are sold.  A case is                 *)
(* [held, price, cash, floor, turnover, weight, trade, costs], with one     *)
(* share in a lot and the limits in hundredths of the starting capital.     *)
Amount(x, lots, a) == Distance(lots[a]) * x.price[a]
Capital(x) == SumFunction([a \in Assets |-> x.held[a] * x.price[a]]) + x.cash

(* the reserve of an order in the constraint of the cash *)
Reserve_Short == 2 * Cent
Reserve == 3 * Cent

(* what the constraint counts for an order, in millionths of the unit,     *)
(* commission and its VAT exact                                             *)
Counted(amount, c) ==
  IF amount = 0 THEN 0
  ELSE 100 * amount * c.market
       + Larger(amount * c.commission, c.minimum * 10000) * (100 + c.vat)
       + Reserve * 1000000

Sign(lots, a) == IF lots[a] < 0 THEN -1 ELSE 1
(* what an order takes from the cash in the constraint *)
Planned(x, lots, a) == Sign(lots, a) * Amount(x, lots, a) * 1000000 + Counted(Amount(x, lots, a), x.costs)

Admitted(x, lots) ==
  LET nav == Capital(x)
  IN /\ \A a \in Assets : /\ lots[a] >= -x.held[a]
                          /\ lots[a] # 0 => Amount(x, lots, a) >= Larger(x.trade, x.price[a])
                          /\ 100 * (x.held[a] + lots[a]) * x.price[a] <= x.weight * nav
     /\ 100 * SumFunction([a \in Assets |-> Amount(x, lots, a)]) <= x.turnover * nav
     /\ SumFunction([a \in Assets |-> Planned(x, lots, a)]) <= (x.cash - x.floor) * 1000000

(* what the orders are charged: the amount to the cent, each charge up *)
Charged(amount, c) ==
  LET notional == Rounded(amount)
  IN IF notional = 0 THEN 0
     ELSE RoundedUp(Ceiling(Larger(notional * c.commission, c.minimum * 10000) * (100 + c.vat), 1000000))
          + RoundedUp(Ceiling(notional * c.market, 10000))
(* what it takes from the cash *)
Paid(x, lots, a) == Sign(lots, a) * Rounded(Amount(x, lots, a)) + Charged(Amount(x, lots, a), x.costs)
Remaining(x, lots) == x.cash - SumFunction([a \in Assets |-> Paid(x, lots, a)])

-----------------------------------------------------------------------------
(* A file of rules that is read is one the estimate accepts on the same     *)
(* day, and the reverse: the two checks of the two modules agree            *)
(* (broker_tariffs.py:161-239, implementation_costs.py:84-135).             *)
RulesAgree(file, day) == Readable(file, day) <=> (Len(file) \in 1..200 /\ Looked(file, day))

(* A plan [case, lots] that the constraints admit pays its orders, to the   *)
(* cent and with their costs, and keeps the cash the user asked for         *)
(* (executable_allocation.py:180, 204-220); the rules [file, day] agree.    *)
PlansAreSound(plans, files) ==
  /\ \A p \in plans : Admitted(p.case, p.lots) => Remaining(p.case, p.lots) >= p.case.floor
  /\ \A f \in files : RulesAgree(f.file, f.day)
=============================================================================
