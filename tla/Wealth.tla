------------------------------- MODULE Wealth -------------------------------
(***************************************************************************)
(* The wealth of several accounts in one base currency                     *)
(* (multi_currency_wealth.py) and its performance with the flows taken out *)
(* (realized_performance.py).                                              *)
(*                                                                         *)
(* The files are sequences of rows: a closing is [day, account, currency,  *)
(* nav], a rate [day, currency, base, rate], a flow [day, account, kind,   *)
(* currency, amount, reference, timing, rate].  A ratio is a fraction      *)
(* <<n, d>>.  The root of the money-weighted return is left out, with the  *)
(* reasons it is not looked for kept.                                      *)
(***************************************************************************)
EXTENDS Integers, Sequences, FiniteSetsExt, Functions

CONSTANTS Refused, Unknown

TransferKinds == {"TRANSFER_IN", "TRANSFER_OUT"}
FlowKinds == TransferKinds \cup {"DEPOSIT", "WITHDRAWAL"}
Timings == {"BOD", "EOD", "UNKNOWN"}
Total(f) == SumFunction(f)
OfDay(rows, day) == {i \in DOMAIN rows : rows[i].day = day}

-----------------------------------------------------------------------------
(* consolidate_wealth: one cut, one rate for each currency of that day.     *)
Quotes(rates, day, currency, base) ==
  {i \in OfDay(rates, day) : rates[i].currency = currency /\ rates[i].base = base}
RatesFit(rates, day) ==
  \A i \in OfDay(rates, day) : rates[i].rate > 0 /\ Quotes(rates, day, rates[i].currency, rates[i].base) = {i}
Covered(closings, rates, day, base) ==
  \A c \in OfDay(closings, day) :
    closings[c].currency = base \/ Quotes(rates, day, closings[c].currency, base) # {}
Rate(rates, day, currency, base) ==
  IF currency = base THEN 1 ELSE rates[CHOOSE i \in Quotes(rates, day, currency, base) : TRUE].rate
InBase(closings, rates, day, base) ==
  IF ~RatesFit(rates, day) \/ ~Covered(closings, rates, day, base) THEN Refused
  ELSE LET nav == Total([c \in OfDay(closings, day) |->
                           closings[c].nav * Rate(rates, day, closings[c].currency, base)])
       IN IF nav <= 0 THEN Refused ELSE nav

(* match_internal_flows: two opposite legs of two accounts with one day,    *)
(* currency, reference and amount, and no third one.                        *)
Legs(flows) == {l \in DOMAIN flows : flows[l].kind \in TransferKinds}
Group(flows, l) ==
  {m \in Legs(flows) : /\ flows[m].day = flows[l].day /\ flows[m].currency = flows[l].currency
                       /\ flows[m].reference = flows[l].reference}

\* Mutant: the amounts are not compared.
Verified_AnyAmount(flows, l) ==
  /\ Cardinality(Group(flows, l)) = 2
  /\ Cardinality({flows[m].account : m \in Group(flows, l)}) = 2
  /\ {flows[m].kind : m \in Group(flows, l)} = TransferKinds

Verified(flows, l) ==
  /\ Cardinality(Group(flows, l)) = 2
  /\ Cardinality({flows[m].account : m \in Group(flows, l)}) = 2
  /\ {flows[m].kind : m \in Group(flows, l)} = TransferKinds
  /\ Cardinality({flows[m].amount : m \in Group(flows, l)}) = 1

-----------------------------------------------------------------------------
(* performance over closings nav[day], flows [day, amount, timing]          *)
Amount(flows, day, timing) ==
  Total([f \in {g \in OfDay(flows, day) : flows[g].timing = timing} |-> flows[f].amount])
NetFlow(flows) == Total([f \in DOMAIN flows |-> flows[f].amount])

\* Mutant: a flow before the opening needs no close of the day before.
Placed_AnyClose(flow, days) == flow.timing # "UNKNOWN" /\ flow.day \in days

Placed(flow, days) ==
  /\ flow.timing # "UNKNOWN" /\ flow.day \in days
  /\ flow.timing = "BOD" => flow.day - 1 \in days

CloseBefore(nav, day) == Max({d \in DOMAIN nav : d < day})
Subperiod(nav, flows, day) ==
  <<nav[day] - Amount(flows, day, "EOD"), nav[CloseBefore(nav, day)] + Amount(flows, day, "BOD")>>
Possible(ratio) == ratio[1] >= 0 /\ ratio[2] > 0
Linked(nav, flows) ==
  LET first == Min(DOMAIN nav)
      linked[day \in first..Max(DOMAIN nav)] ==
        IF day = first THEN <<1, 1>>
        ELSE IF day \notin DOMAIN nav THEN linked[day - 1]
        ELSE LET q == Subperiod(nav, flows, day)
             IN <<linked[day - 1][1] * q[1], linked[day - 1][2] * q[2]>>
  IN linked[Max(DOMAIN nav)]

(* xirr: the amounts of each day, and whether they change sign just once    *)
Cashflow(nav, flows, day) ==
  (IF day = Min(DOMAIN nav) THEN -nav[day] ELSE 0) + (IF day = Max(DOMAIN nav) THEN nav[day] ELSE 0)
    - Total([f \in OfDay(flows, day) |-> flows[f].amount])
Changes(nav, flows) ==
  LET paid == {d \in Min(DOMAIN nav)..Max(DOMAIN nav) : Cashflow(nav, flows, d) # 0}
  IN Cardinality({d \in paid : \E e \in paid :
                    /\ e < d /\ \A c \in paid : c <= e \/ c >= d
                    /\ (Cashflow(nav, flows, d) > 0) # (Cashflow(nav, flows, e) > 0)})
MoneyWeighted(nav, flows) ==
  IF Changes(nav, flows) = 0 THEN "FLUJOS_INSUFICIENTES"
  ELSE IF Changes(nav, flows) > 1 THEN "MULTIPLES_RAICES_POSIBLES" ELSE "CALCULADA"

Performance(nav, flows) ==
  IF \/ Cardinality(DOMAIN nav) < 2 \/ \E d \in DOMAIN nav : nav[d] <= 0
     \/ \E f \in DOMAIN flows : \/ flows[f].day <= Min(DOMAIN nav) \/ flows[f].day > Max(DOMAIN nav)
                                \/ flows[f].timing \notin Timings
  THEN Refused
  ELSE LET placed == \A f \in DOMAIN flows : Placed(flows[f], DOMAIN nav)
       IN IF placed /\ \E d \in DOMAIN nav \ {Min(DOMAIN nav)} : ~Possible(Subperiod(nav, flows, d))
          THEN Refused
          ELSE [twr |-> IF placed THEN Linked(nav, flows) ELSE Unknown,
                gain |-> nav[Max(DOMAIN nav)] - nav[Min(DOMAIN nav)] - NetFlow(flows),
                money |-> MoneyWeighted(nav, flows)]

-----------------------------------------------------------------------------
(* consolidated_performance: every account at every close, each close with  *)
(* its own rates, only the verified legs left out.                          *)
Into(flow) == IF flow.kind \in {"DEPOSIT", "TRANSFER_IN"} THEN flow.amount ELSE -flow.amount
External(flows) ==
  [f \in DOMAIN flows \ Legs(flows) |->
     [day |-> flows[f].day, amount |-> Into(flows[f]) * flows[f].rate, timing |-> flows[f].timing]]

Days(closings) == {closings[i].day : i \in DOMAIN closings}
Accounts(closings) == {closings[i].account : i \in DOMAIN closings}
Closes(closings, rates, base) == [day \in Days(closings) |-> InBase(closings, rates, day, base)]

Consolidated(closings, rates, flows, base) ==
  LET nav == Closes(closings, rates, base)
  IN IF \/ \E day \in Days(closings) : {closings[i].account : i \in OfDay(closings, day)} # Accounts(closings)
        \/ \E i, j \in DOMAIN closings :
             i # j /\ closings[i].day = closings[j].day /\ closings[i].account = closings[j].account
        \/ \E day \in Days(closings) : nav[day] = Refused
        \/ \E f \in DOMAIN flows :
             \/ flows[f].account \notin Accounts(closings) \/ flows[f].kind \notin FlowKinds \/ flows[f].amount <= 0
             \/ f \in Legs(flows) /\ ~Verified(flows, f)
             \/ f \notin Legs(flows) /\ (flows[f].rate <= 0 \/ (flows[f].currency = base /\ flows[f].rate # 1))
     THEN Refused
     ELSE Performance(nav, External(flows))

-----------------------------------------------------------------------------
(* Accounts that hold one and the same thing: each close is that of the day *)
(* before with what moved before the opening, grown as the thing grew, and  *)
(* what moved afterwards.  The rates do not move, and both legs of a        *)
(* transfer are of one moment.  x has the files and, of the world they tell *)
(* of, growth of each day, value of each account at the end of each day,    *)
(* money of each account and fx of each currency.                           *)
Early(flow) == flow.timing = "BOD"
MovedBy(x, account, day, early) ==
  Total([i \in {f \in OfDay(x.flows, day) : x.flows[f].account = account /\ Early(x.flows[f]) = early} |-> Into(x.flows[i])])
HoldsTheMarket(x) ==
  /\ x.fx[x.base] = 1
  /\ \A i \in DOMAIN x.closings :
       LET c == x.closings[i]
       IN c.day \in DOMAIN x.growth /\ c.currency = x.money[c.account] /\ c.nav = x.value[c.account][c.day]
  /\ \A i \in DOMAIN x.rates : x.rates[i].base = x.base => x.rates[i].rate = x.fx[x.rates[i].currency]
  /\ \A i \in DOMAIN x.flows :
       /\ x.flows[i].currency = x.money[x.flows[i].account] /\ x.flows[i].rate = x.fx[x.flows[i].currency]
       /\ i \in Legs(x.flows) => \A j \in Group(x.flows, i) : Early(x.flows[i]) = Early(x.flows[j])
  /\ \A a \in Accounts(x.closings) :
       /\ DOMAIN x.value[a] = DOMAIN x.growth
       /\ \A day \in 2..Len(x.growth) :
            x.value[a][day] = (x.value[a][day - 1] + MovedBy(x, a, day, TRUE)) * x.growth[day] + MovedBy(x, a, day, FALSE)

\* Where every account holds the same thing, the time-weighted return is what
\* that thing returned, whatever was paid in, taken out or moved between the
\* accounts, on whatever days and moments, in whatever currency; and where it
\* returned nothing there is no gain (multi_currency_wealth.py:117-173,
\* realized_performance.py:50-102).
FlowsAreNotPerformance(x, read) ==
  LET first == Min(Days(x.closings))
      last == Max(Days(x.closings))
      market[day \in first..last] == IF day = first THEN 1 ELSE market[day - 1] * x.growth[day]
  IN HoldsTheMarket(x) /\ read # Refused =>
       /\ read.twr # Unknown => read.twr[1] = market[last] * read.twr[2]
       /\ (\A day \in 2..Len(x.growth) : x.growth[day] = 1) => read.gain = 0
=============================================================================
