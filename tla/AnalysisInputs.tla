--------------------------- MODULE AnalysisInputs ---------------------------
(***************************************************************************)
(* The inputs of the advanced analysis (app_inversiones.py): which of them *)
(* may come together, which of them a run reads, and what the review       *)
(* before a delivery (case_preflight.py) says of them.                     *)
(*                                                                         *)
(* P is the set of inputs that are supplied: the files with contents, the  *)
(* text of the manual weights, a non-zero manual cost, the choice of MXN.  *)
(* What a file says is left out, but for what the review tells apart       *)
(* (review) and for the files that a scope is bound to (scope).            *)
(***************************************************************************)
EXTENDS Integers, FiniteSets

\* The groups of the sidebar.
PriceInputs == {"prices", "rights", "identity", "reference", "reference rights", "reference identity"}
SeriesInputs == {"cetes", "bond", "liquidity", "fund"}
ControlInputs == {"detail", "subtotal", "coverage", "cash", "ledger", "closing"}
AccountInputs == {"holdings", "weights", "basis", "flows"} \cup ControlInputs
CostInputs == {"tariff", "orders", "scope", "rates", "annual", "reference text"}
Choices == {"MXN", "rates", "annual", "reference text"}

With(P, inputs) == P \cap inputs # {}

----------------------------------------------------------------------------
\* Mutant: the rights of the main prices may come without them.
PricesAdmitted_StrayRights(P) ==
  IF "prices" \in P
  THEN /\ "rights" \in P
       /\ With(P, {"reference", "reference rights", "reference identity"}) =>
            /\ {"reference", "reference rights"} \subseteq P
            /\ "identity" \in P <=> "reference identity" \in P
  ELSE ~With(P, {"reference", "reference rights", "reference identity"})

\* Prices come with their rights; a reference with its own, and with the main
\* prices; identities are contrasted when both sources have theirs.
PricesAdmitted(P) ==
  IF "prices" \in P
  THEN /\ "rights" \in P
       /\ With(P, {"reference", "reference rights", "reference identity"}) =>
            /\ {"reference", "reference rights"} \subseteq P
            /\ "identity" \in P <=> "reference identity" \in P
  ELSE ~With(P, {"reference", "reference rights", "reference identity", "rights"})

PricesRead(P) ==
  (P \cap {"identity"}) \cup
  (IF "prices" \in P THEN P \cap PriceInputs ELSE {})

\* The series are joined to the prices, in pesos.
SeriesAdmitted(P) == With(P, SeriesInputs) => "MXN" \in P

\* The portfolio comes valued or as weights; its controls come with the valued
\* one, the cash with the coverage that it ends in, titles with their closing.
AccountAdmitted(P) ==
  /\ ~({"holdings", "weights"} \subseteq P)
  /\ With(P, ControlInputs \cup {"basis"}) => "holdings" \in P
  /\ With(P, {"holdings", "flows"}) => "MXN" \in P
  /\ "cash" \in P => "coverage" \in P
  /\ "ledger" \in P <=> "closing" \in P

AccountRead(P) ==
  (P \cap {"weights", "flows"}) \cup
  (IF "holdings" \in P THEN P \cap ({"holdings", "basis"} \cup ControlInputs) ELSE {})

\* A scope names the files that it was made for, by their digests.
Bound(P, scope) ==
  /\ scope.tariff = "this"
  /\ IF scope.start = "CARTERA"
     THEN "holdings" \in P /\ scope.holdings = "this"
     ELSE "holdings" \notin P

\* Costs are a profile, rules by order with the scope of an account, or typed.
CostsAdmitted(P, scope) ==
  /\ ~({"tariff", "orders"} \subseteq P)
  /\ "scope" \in P => "orders" \in P
  /\ "tariff" \in P => "MXN" \in P /\ ~With(P, {"rates", "annual", "reference text"})
  /\ "orders" \in P =>
       /\ {"MXN", "scope"} \subseteq P
       /\ ~With(P, {"rates", "weights"})
       /\ Bound(P, scope)
  /\ With(P, {"rates", "annual"}) => "reference text" \in P

CostsRead(P) ==
  IF "tariff" \in P THEN {"tariff"}
  ELSE (P \cap {"rates", "annual"}) \cup
       (IF "orders" \in P THEN P \cap {"orders", "scope", "reference text"}
        ELSE IF With(P, {"rates", "annual"}) THEN {"reference text"} ELSE {})

Admitted(P, scope) ==
  PricesAdmitted(P) /\ SeriesAdmitted(P) /\ AccountAdmitted(P) /\ CostsAdmitted(P, scope)

Read(P) ==
  PricesRead(P) \cup (P \cap SeriesInputs) \cup AccountRead(P) \cup CostsRead(P) \cup (P \cap {"MXN"})

----------------------------------------------------------------------------
\* What the review finds in the files it is shown.
Findings == {"expired", "internal use", "proxies", "issues", "differences",
             "other movements", "adjustments", "public tariffs"}

\* Each control of the review: the inputs that it is about, and what makes an
\* alert of it.
ReviewControls ==
  [scope |-> [about |-> {"scope", "orders"}, alerts |-> {}],
   rights |-> [about |-> {"prices", "rights"}, alerts |-> {"expired", "internal use"}],
   identity |-> [about |-> {"identity"}, alerts |-> {"proxies"}],
   portfolio |-> [about |-> {"holdings"}, alerts |-> {}],
   detail |-> [about |-> {"detail"}, alerts |-> {}],
   subtotal |-> [about |-> {"subtotal"}, alerts |-> {}],
   coverage |-> [about |-> {"coverage"}, alerts |-> {}],
   cash |-> [about |-> {"cash"}, alerts |-> {"other movements"}],
   titles |-> [about |-> {"ledger"}, alerts |-> {"adjustments"}],
   costs |-> [about |-> {"orders", "scope"}, alerts |-> {"public tariffs"}],
   contrast |-> [about |-> {"reference"}, alerts |-> {"differences"}],
   prices |-> [about |-> {"prices"}, alerts |-> {"issues"}]]

\* Mutant: what is found in a contrast makes no alert of the ones it lacks.
Status_Trusting(c, P, found) ==
  IF ~(ReviewControls[c].about \subseteq P) THEN "pending"
  ELSE IF ReviewControls[c].alerts \cap found # {} THEN "alert" ELSE "evidence"

\* The state of control c; two more controls are always pending.
Status(c, P, found) ==
  IF ~(ReviewControls[c].about \subseteq P) THEN "pending"
  ELSE IF ReviewControls[c].alerts \cap found # {} THEN "alert"
  ELSE IF c = "contrast" /\ "reference identity" \notin P THEN "alert"
  ELSE "evidence"

Unresolved(P, found) == Cardinality({c \in DOMAIN ReviewControls : Status(c, P, found) # "evidence"}) + 2

----------------------------------------------------------------------------
\* No file is left out in silence: an analysis reads every file it was given,
\* or it is refused.
NothingIsIgnored(P, scope) == Admitted(P, scope) => P \ Choices \subseteq Read(P)

\* "fail-closed inventory" (case_preflight.py:1): what a control needs besides
\* its own file was supplied too when the control says that it has evidence.
Supports ==
  [scope |-> {"MXN", "orders"}, rights |-> {"prices"}, identity |-> {}, portfolio |-> {"MXN"},
   detail |-> {"holdings"}, subtotal |-> {"holdings"}, coverage |-> {"holdings"},
   cash |-> {"holdings", "coverage"}, titles |-> {"holdings", "closing"}, costs |-> {"scope", "MXN"},
   contrast |-> {"prices", "rights", "reference rights", "identity", "reference identity"}, prices |-> {"rights"}]
EvidenceIsSupported(P, scope, found) ==
  /\ Admitted(P, scope) =>
       \A c \in DOMAIN ReviewControls : Status(c, P, found) = "evidence" => Supports[c] \subseteq P
  /\ Unresolved(P, found) >= 2

\* Every file is read, or the analysis is refused, and a control that shows
\* its evidence had its support.
FilesAreUsedOrRefused(P, scope, found) == NothingIsIgnored(P, scope) /\ EvidenceIsSupported(P, scope, found)
=============================================================================
