---------------------------- MODULE FixedIncome ----------------------------
(***************************************************************************)
(* The total-return indexes the code prepares from the files of a person:  *)
(* CETES from price and term, one bond from its clean price, accrued       *)
(* interest and coupons (fixed_income.py), a liquidity vehicle from its    *)
(* declared rate (liquidity.py), and how one of them joins the prices of   *)
(* the market.  A file is a sequence of rows; once read, a row for each    *)
(* day.  An index is a gross factor for each day, a fraction <<n, d>>.     *)
(***************************************************************************)
EXTENDS Integers, Sequences, FiniteSets

CONSTANTS Nominal,    \* what one title pays at maturity
          Year,       \* days of the year of the conventions (360 or 365)
          NoRate,     \* a CETES file without the column Tasa
          Least,      \* observations a prepared series needs (3)
          Enough,     \* observations the joined series needs (60)
          Refused

One == <<1, 1>>
Times(p, q) == <<p[1] * q[1], p[2] * q[2]>>
Same(p, q) == p[1] * q[2] = q[1] * p[2]

(* cumprod: the factors of some days, by date                               *)
Latest(days) == CHOOSE d \in days : \A e \in days : e <= d
Chained(index, days) ==
  LET chain[s \in SUBSET DOMAIN index] ==
        IF s = {} THEN One ELSE Times(chain[s \ {Latest(s)}], index[Latest(s)])
  IN chain[days]

(* growth of an index from the close of a day to that of a later one        *)
Growth(index, from, to) == Chained(index, {d \in DOMAIN index : from < d /\ d <= to})

(* the rows of the file by day, and the refusals every series shares        *)
Readable(rows) == Len(rows) >= Least /\ \A i, j \in DOMAIN rows : i # j => rows[i].day # rows[j].day
Dated(rows) ==
  [d \in {rows[i].day : i \in DOMAIN rows} |-> rows[CHOOSE i \in DOMAIN rows : rows[i].day = d]]
Earlier(days, day) == {e \in days : e < day}
Later(days) == {d \in days : Earlier(days, d) # {}}
Previous(dated, day) == dated[Latest(Earlier(DOMAIN dated, day))]

(* one factor per day, the first one 1 *)
IndexOf(dated, gross) ==
  [d \in DOMAIN dated |-> IF d \in Later(DOMAIN dated) THEN gross[d] ELSE One]

-----------------------------------------------------------------------------
(* CETES: rows [day, price, term, rate], the rate in every row or in none *)
Implied(o) == o.rate = NoRate \/ o.price * (Year + o.rate * o.term) = Nominal * Year
Rolls(before, o) == o.term # before.term - (o.day - before.day)
Matures(before, o) == Rolls(before, o) /\ before.term <= o.day - before.day
Redeemed_AtThePrice(before, o) == <<o.price, before.price>>
Redeemed(before, o) ==
  IF Matures(before, o) THEN <<Nominal, before.price>> ELSE <<o.price, before.price>>
Cetes(rows) ==
  LET dated == Dated(rows)
      later == Later(DOMAIN dated)
  IN IF \/ ~Readable(rows)
        \/ \E i \in DOMAIN rows : \/ rows[i].price <= 0 \/ rows[i].price > 2 * Nominal
                                  \/ rows[i].term < 0 \/ ~Implied(rows[i])
                                  \/ (rows[i].rate = NoRate) # (rows[1].rate = NoRate)
        \/ \E d \in later : Rolls(Previous(dated, d), dated[d]) /\ ~Matures(Previous(dated, d), dated[d])
     THEN Refused
     ELSE IndexOf(dated, [d \in later |-> Redeemed(Previous(dated, d), dated[d])])

(* One bond: rows [day, issue, clean, accrued, coupon] *)
Dirty(o) == o.clean + o.accrued
Paid(before, o) == <<Dirty(o) + o.coupon, Dirty(before)>>
Bond(rows, maturity) ==
  LET dated == Dated(rows)
      later == Later(DOMAIN dated)
  IN IF \/ ~Readable(rows)
        \/ \E d \in DOMAIN dated \ later : dated[d].coupon # 0
        \/ \E i \in DOMAIN rows : \/ rows[i].day > maturity \/ rows[i].issue # rows[1].issue
                                  \/ rows[i].clean <= 0 \/ rows[i].clean > 3 * Nominal
                                  \/ rows[i].accrued \notin 0..(Nominal - 1)
                                  \/ rows[i].coupon \notin 0..Nominal
     THEN Refused
     ELSE IndexOf(dated, [d \in later |-> Paid(Previous(dated, d), dated[d])])

(* Liquidity: rows [day, vehicle, convention, treatment, rate], the rate in *)
(* whole units; the effective convention is taken at whole years            *)
Accrued_AtItsOwnRate(before, o) == <<Year + o.rate * (o.day - before.day), Year>>
Accrued(before, o) ==
  LET days == o.day - before.day
  IN IF before.convention = "nominal_360" THEN <<Year + before.rate * days, Year>>
     ELSE <<(1 + before.rate)^(days \div Year), 1>>
Liquidity(rows) ==
  LET dated == Dated(rows)
      later == Later(DOMAIN dated)
  IN IF \/ ~Readable(rows)
        \/ \E i \in DOMAIN rows : \/ rows[i].rate \notin 0..5
                                  \/ \E part \in {"vehicle", "convention", "treatment"} : rows[i][part] # rows[1][part]
        \/ rows[1].convention \notin {"nominal_360", "efectiva_365"}
        \/ rows[1].treatment \notin {"BRUTA", "NETA"}
     THEN Refused
     ELSE IndexOf(dated, [d \in later |-> Accrued(Previous(dated, d), dated[d])])

-----------------------------------------------------------------------------
(* the observations of the period that is analysed, <<from, until>> *)
Within(index, period) ==
  IF index = Refused THEN Refused
  ELSE [d \in {e \in DOMAIN index : period[1] <= e /\ e <= period[2]} |-> index[d]]

(* merge_prepared_index: the days of the market in the common period, every *)
(* one of them observed by the index; nothing is filled                     *)
Window(market, days) ==
  {d \in market : (\E e \in days : e <= d) /\ \E e \in days : d <= e}
Joined(market, index) ==
  LET window == Window(market, DOMAIN index)
  IN IF index = Refused THEN Refused
     ELSE IF window = {} \/ ~(window \subseteq DOMAIN index) \/ Cardinality(window) < Enough THEN Refused
     ELSE [d \in window |-> IF d \in Later(window) THEN Growth(index, Latest(Earlier(window, d)), d) ELSE One]

-----------------------------------------------------------------------------
(* A CETES held to its maturity pays the nominal: from any day of the market *)
(* to the first one observed at or after the end of its term, whatever days *)
(* the market has between them, the joined index grows by nominal over      *)
(* price (fixed_income.py:104-127 and 369-385).                             *)
PaysNominal(rows, market, period) ==
  LET index == Joined(market, Within(Cetes(rows), period))
      dated == Dated(rows)
  IN index # Refused =>
       \A d, e \in DOMAIN index :
         LET ends(day) == day > d /\ day - d >= dated[d].term
         IN (ends(e) /\ dated[d].rate # NoRate /\ \A f \in Earlier(DOMAIN dated, e) : ~ends(f))
              => Same(Growth(index, d, e), <<Nominal, dated[d].price>>)

(* The index of a bond is the dirty value of the titles bought with every   *)
(* coupon at the dirty price of its day (fixed_income.py:203-262).          *)
Reinvests(rows, maturity) ==
  LET index == Bond(rows, maturity)
      dated == Dated(rows)
      bought == [d \in DOMAIN dated |-> <<Dirty(dated[d]) + dated[d].coupon, Dirty(dated[d])>>]
  IN index # Refused =>
       \A d, e \in DOMAIN dated : d <= e =>
         Same(Growth(index, d, e), Times(Growth(bought, d, e), <<Dirty(dated[e]), Dirty(dated[d])>>))

(* No rate of a day, or of a later one, is in the index of that day         *)
(* (liquidity.py:76-84).                                                    *)
RatesOfThePast(rows, other) ==
  \A i \in DOMAIN rows :
    LET changed == [j \in DOMAIN rows |-> IF rows[j].day >= rows[i].day THEN [rows[j] EXCEPT !.rate = other] ELSE rows[j]]
        index == Liquidity(rows)
    IN (index # Refused /\ Liquidity(changed) # Refused) =>
         \A d, e \in DOMAIN index : e <= rows[i].day => Growth(Liquidity(changed), d, e) = Growth(index, d, e)
=============================================================================
