------------------------------ MODULE TaxBooks ------------------------------
(***************************************************************************)
(* The fiscal files of a portfolio: the basis of each instrument and the   *)
(* reserve of the sales of a plan (tax_impact.py), and the dividends and   *)
(* interest of a year with what was withheld of them (tax_cash_flows.py).  *)
(* Rates are percentages; amounts are chosen so that no division is left   *)
(* over.                                                                   *)
(***************************************************************************)
EXTENDS Integers, Sequences, Functions

CONSTANTS Blank,      \* an empty cell
          Refused

Larger(a, b) == IF a >= b THEN a ELSE b
Number(cell) == cell # Blank

-----------------------------------------------------------------------------
(* Basis: rows [cut, asset, cost, treatment, rate] *)
BasisTreatments == {"PF_ACCIONES_BOLSA_ART129", "ESCENARIO_TASA_DECLARADA", "NO_ESTIMADO"}
RateFits(row) ==
  CASE row.treatment = "NO_ESTIMADO" -> row.rate = Blank
    [] row.treatment = "PF_ACCIONES_BOLSA_ART129" -> Number(row.rate) /\ row.rate = 10
    [] OTHER -> Number(row.rate) /\ row.rate \in 0..100
Basis(rows, expected, cut, today) ==
  IF /\ rows # <<>> /\ cut <= today
     /\ \A i \in DOMAIN rows : /\ rows[i].cut = cut /\ rows[i].cost >= 0
                               /\ rows[i].treatment \in BasisTreatments /\ RateFits(rows[i])
                               /\ \A j \in DOMAIN rows : i # j => rows[i].asset # rows[j].asset
     /\ {rows[i].asset : i \in DOMAIN rows} = expected
  THEN [a \in expected |-> rows[CHOOSE i \in DOMAIN rows : rows[i].asset = a]]
  ELSE Refused

(* One sale [asset, notional, commission] of a portfolio of these values *)
Gain_BeforeCommission(sale, basis) == Larger(sale.notional - basis, 0)
Gain(sale, basis) == Larger(Larger(sale.notional - sale.commission, 0) - basis, 0)
Allocated(sale, values, profile) == (profile[sale.asset].cost * sale.notional) \div values[sale.asset]
ReserveOf(sale, values, profile) ==
  LET row == profile[sale.asset]
  IN IF row.treatment = "NO_ESTIMADO" THEN Blank
     ELSE (Gain(sale, Allocated(sale, values, profile)) * row.rate) \div 100
Reserve(sales, values, profile) ==
  IF profile = Refused \/ \E s \in sales : values[s.asset] <= 0 \/ s.notional > values[s.asset] THEN Refused
  ELSE LET estimated == {s \in sales : ReserveOf(s, values, profile) # Blank}
       IN [reserve |-> SumFunction([s \in estimated |-> ReserveOf(s, values, profile)]),
           uncovered |-> SumFunctionOnSet([s \in sales |-> s.notional], sales \ estimated)]

-----------------------------------------------------------------------------
(* Flows of a year: rows [day, year, asset, kind, gross, domestic, foreign, *)
(* treatment, base, days, control, additional]                              *)
FlowKinds == {"INTERES", "DIVIDENDO_MEX", "DIVIDENDO_EXTRANJERO_SIC", "DISTRIBUCION_FONDO_DEUDA", "DISTRIBUCION_FONDO_RV"}
FlowTreatments == {"PF_DIVIDENDO_MEX_ART140", "PF_INTERES_LIF2026", "RETENCION_DOCUMENTADA",
                   "ESCENARIO_TASA_ADICIONAL", "NO_ESTIMADO"}
FlowFits(row) ==
  CASE row.treatment = "PF_DIVIDENDO_MEX_ART140" ->
         /\ row.kind = "DIVIDENDO_MEX" /\ Number(row.base) /\ row.base = row.gross
         /\ row.days = Blank /\ Number(row.control) /\ row.control = 1000 /\ row.additional = Blank
    [] row.treatment = "PF_INTERES_LIF2026" ->
         /\ row.kind = "INTERES" /\ row.year = 2026 /\ Number(row.base) /\ row.base > 0
         /\ Number(row.days) /\ row.days \in 1..366 /\ Number(row.control) /\ row.control = 90
         /\ row.additional = Blank
    [] row.treatment = "ESCENARIO_TASA_ADICIONAL" ->
         /\ row.base = Blank /\ row.days = Blank /\ row.control = Blank
         /\ Number(row.additional) /\ row.additional \in 0..100
    [] OTHER -> row.base = Blank /\ row.days = Blank /\ row.control = Blank /\ row.additional = Blank
FlowsAdmitted(rows, expected, cut, today) ==
  /\ rows # <<>> /\ cut <= today
  /\ \A i \in DOMAIN rows :
       /\ rows[i].day <= cut /\ rows[i].year = rows[1].year /\ rows[i].asset \in expected
       /\ rows[i].kind \in FlowKinds /\ rows[i].treatment \in FlowTreatments
       /\ rows[i].gross > 0 /\ rows[i].domestic >= 0 /\ rows[i].foreign >= 0
       /\ rows[i].domestic + rows[i].foreign <= rows[i].gross
       /\ FlowFits(rows[i])

(* what one row adds; the rates of control are in hundredths of a percent *)
Expected(row) ==
  CASE row.treatment = "PF_DIVIDENDO_MEX_ART140" -> (row.base * row.control) \div 10000
    [] row.treatment = "PF_INTERES_LIF2026" -> (row.base * row.control * row.days) \div (10000 * 365)
    [] OTHER -> 0
Additional(row) == IF row.treatment = "ESCENARIO_TASA_ADICIONAL" THEN (row.gross * row.additional) \div 100 ELSE 0
Unestimated_IfNothingReserved(row) == IF Additional(row) = 0 THEN row.gross ELSE 0
Unestimated(row) == IF row.treatment = "NO_ESTIMADO" THEN row.gross ELSE 0
Flows(rows, expected, cut, today) ==
  IF FlowsAdmitted(rows, expected, cut, today)
  THEN LET total(Part(_), chosen) == SumFunctionOnSet([i \in DOMAIN rows |-> Part(rows[i])], chosen)
           ofKind(k) == {i \in DOMAIN rows : rows[i].kind = k}
       IN [gross |-> total(LAMBDA r : r.gross, DOMAIN rows),
           withheld |-> total(LAMBDA r : r.domestic + r.foreign, DOMAIN rows),
           expected |-> total(Expected, DOMAIN rows),
           reserve |-> total(Additional, DOMAIN rows),
           unestimated |-> total(Unestimated, DOMAIN rows),
           summary |-> [k \in {rows[i].kind : i \in DOMAIN rows} |-> total(LAMBDA r : r.gross, ofKind(k))]]
  ELSE Refused

-----------------------------------------------------------------------------
(* Only the gain is taxed: what a sale leaves after its commission and its  *)
(* reserve is at least its basis, or all of it when it loses                *)
(* (tax_impact.py:160-186).                                                 *)
BasisIsNeverTaxed(sales, values, profile) ==
  Reserve(sales, values, profile) # Refused =>
    \A s \in sales : profile[s.asset].treatment # "NO_ESTIMADO" =>
      LET net == Larger(s.notional - s.commission, 0)
          basis == Allocated(s, values, profile)
      IN net - ReserveOf(s, values, profile) >= (IF net < basis THEN net ELSE basis)

(* The income of a year splits in what is said not to be estimated and what *)
(* has a declared treatment, kind by kind (tax_cash_flows.py:264-296).      *)
IncomeIsClassified(rows, expected, cut, today) ==
  LET flows == Flows(rows, expected, cut, today)
      treated == {i \in DOMAIN rows : rows[i].treatment # "NO_ESTIMADO"}
  IN flows # Refused =>
       /\ flows.gross = SumFunction(flows.summary)
       /\ flows.gross - flows.unestimated = SumFunctionOnSet([i \in DOMAIN rows |-> rows[i].gross], treated)

(* Both, of any sales [sales, values, profile] and any files [rows,         *)
(* expected, cut, today].                                                   *)
TaxesFollowTheirFiles(asked, files) ==
  /\ \A q \in asked : BasisIsNeverTaxed(q.sales, q.values, q.profile)
  /\ \A f \in files : IncomeIsClassified(f.rows, f.expected, f.cut, f.today)
=============================================================================
