----------------------------- MODULE Estimates -----------------------------
(***************************************************************************)
(* What is worked out from files: the plan of orders and the rules of its  *)
(* costs (TradeOrders), the taxes (TaxBooks), which files an analysis      *)
(* takes (AnalysisInputs), the book of a ledger at each of some cuts and   *)
(* the consolidation of the accounts that some drafts import               *)
(* (AccountBooks), the results of the Paper orders of a symbol             *)
(* (PaperResults), the total-return series of a debt and of a vehicle      *)
(* (FixedIncome), the studies of a history (HistoryStudies) and the        *)
(* performance of several accounts (Wealth).  Each is a question over      *)
(* files: it is asked, and its one action answers it as the code does.     *)
(***************************************************************************)
EXTENDS Integers, Sequences, FiniteSets

CONSTANTS
  Assets, Foreign, Today, Never, Lots,      \* TradeOrders; the lots a plan may trade
  Blank, Refused,                           \* TaxBooks
  BridgeRows, Closings, Quote,      \* AccountBooks; the cuts of a ledger, the price of each asset
  NoOrder, Outside,     \* PaperResults
  Nominal, Year, LeastRows, EnoughDays,     \* FixedIncome
  Optimal(_), Share, Points, Least, Enough, LeastForCuts,     \* HistoryStudies
  AccountIds,                                                 \* Wealth
  PlanCases, RuleFiles, SaleCases, FlowFiles, SuppliedFiles,    \* what is asked
  LedgerFiles, AccountFiles, ResultCases, CetesFiles, BondFiles, LiquidityFiles, Histories, WealthFiles

VARIABLES
  book,      \* the algorithm that is asked
  input,     \* its question
  output     \* its answer, in a tuple

Plans == INSTANCE TradeOrders
Taxes == INSTANCE TaxBooks
Files == INSTANCE AnalysisInputs
Books == INSTANCE AccountBooks
Paper == INSTANCE PaperResults
Debt == INSTANCE FixedIncome WITH NoRate <- Blank, Least <- LeastRows, Enough <- EnoughDays
Studies == INSTANCE HistoryStudies WITH NoWeights <- Blank
Fortune == INSTANCE Wealth WITH Unknown <- Blank

(* Cases of a plan, with the costs that an estimate admits                  *)
(* (implementation_costs.py:74-81), and rules of assets of the analysis or  *)
(* of others.                                                               *)
CostLimits == [commission : 0..500, market : 0..500, vat : 0..100, minimum : Nat]
Cases == [held : [Assets -> Nat], price : [Assets -> Nat], cash : Nat, floor : Nat,
          turnover : Nat, weight : Nat, trade : Nat, costs : CostLimits]
Rules == [asset : Assets \cup {Foreign}, operation : Plans!Operations, from : Int,
          until : Int \cup {Never}, consulted : Int]

(* Sales of a portfolio, with the rows of its bases, and rows of flows.     *)
Sales == [asset : Assets, notional : Nat, commission : Nat]
BasisRows == [cut : Int, asset : Assets, cost : Int, treatment : STRING, rate : Int \cup {Blank}]
FlowRows == [day : Int, year : Int, asset : Assets, kind : STRING, gross : Int, domestic : Int, foreign : Int,
             treatment : STRING, base : Int \cup {Blank}, days : Int \cup {Blank},
             control : Int \cup {Blank}, additional : Int \cup {Blank}]

(* Everything that the sidebar can be given. *)
Inputs == Files!PriceInputs \cup Files!SeriesInputs \cup Files!AccountInputs \cup Files!CostInputs \cup {"MXN"}

(* Rows of a ledger, and the drafts of an account as they are imported      *)
(* (account_import.py:17), with the identity of its instruments.            *)
Events == [id : Nat, day : Int, settled : Int, kind : STRING, asset : Assets \cup {Blank},
           quantity : Nat, price : Nat, amount : Nat, fee : Nat]
DraftRows == [quantity : Nat, price : Nat, value : Nat]
ImportDrafts == [rows : Seq(DraftRows), mapping : Seq(Assets), cash : Nat, declared : Int,
                 series : [Assets -> Int], cut : Int]

(* Executions, and attempts with the receipt known of each.                 *)
Fills == [order : Int, side : {"buy", "sell"}, quantity : Nat \ {0}, price : Nat, time : Int]
Attempts == [id : Int, side : {"buy", "sell"}, prepared : Int, unresolved : BOOLEAN, order : Int \cup {NoOrder},
             filled : Nat, whole : BOOLEAN, notional : Nat, at : Int]

(* Rows of the files of a debt or of a vehicle, and of a history.           *)
CetesRows == [day : Int, price : Int, term : Int, rate : Int \cup {Blank}]
BondRows == [day : Int, issue : Int, clean : Int, accrued : Int, coupon : Int]
LiquidityRows == [day : Int, vehicle : Int, convention : STRING, treatment : STRING, rate : Int]
Grosses == [Assets -> Int]
Returns == [day : Int, gross : Grosses]

(* Closes of accounts, rates and flows of several of them.                  *)
Currencies == {"MXN", "USD"}
ClosingRows == [day : Int, account : AccountIds, currency : Currencies, nav : Int]
RateRows == [day : Int, currency : Currencies, base : Currencies, rate : Int]
WealthFlows == [day : Int, account : AccountIds, kind : STRING, currency : Currencies, amount : Int,
                reference : STRING, timing : STRING, rate : Int]

ASSUME AssetsAssumption == IsFiniteSet(Assets) /\ Lots \subseteq Int
ASSUME QuestionsAssumption ==
  /\ PlanCases \subseteq Cases
  /\ RuleFiles \subseteq [file : Seq(Rules), day : Nat]
  /\ SaleCases \subseteq [sales : SUBSET Sales, basis : Seq(BasisRows), values : [Assets -> Int], cut : Int, today : Int]
  /\ FlowFiles \subseteq [rows : Seq(FlowRows), expected : SUBSET Assets, cut : Int, today : Int]
  /\ SuppliedFiles \subseteq [files : SUBSET Inputs, scope : [start : STRING, tariff : STRING, holdings : STRING],
                              found : SUBSET Files!Findings]

ASSUME BooksAssumption ==
  /\ Refused \notin Int /\ BridgeRows \in Nat \ {0} /\ Closings \subseteq Int /\ Quote \in [Assets -> Nat]
  /\ \A file \in LedgerFiles : file \in Seq(Events) /\ \A i \in DOMAIN file : Books!WellFormed(file[i])
  /\ AccountFiles \subseteq Seq(ImportDrafts)

\* An attempt has its own identity and its own order (client_order_id).
ASSUME ResultsAssumption ==
  /\ NoOrder \notin Int /\ Outside \notin Int
  /\ \A x \in ResultCases :
       /\ IsFiniteSet(DOMAIN x.fills) /\ DOMAIN x.fills \subseteq Int /\ x.fills \in [DOMAIN x.fills -> Fills]
       /\ IsFiniteSet(DOMAIN x.attempts) /\ DOMAIN x.attempts \subseteq Int
       /\ x.attempts \in [DOMAIN x.attempts -> Attempts]
       /\ \A a, b \in DOMAIN x.attempts :
            \/ x.attempts[a].id = x.attempts[b].id
            \/ x.attempts[a].order = x.attempts[b].order /\ x.attempts[a].order # NoOrder
            => a = b
       /\ x.held \in Int /\ x.cost \in 0..10 /\ x.capital \in Nat /\ x.bars \subseteq Int

ASSUME SeriesAssumption ==
  /\ Nominal \in Nat \ {0} /\ Year \in Nat \ {0} /\ LeastRows \in Nat \ {0} /\ Blank \notin Int
  /\ CetesFiles \subseteq [rows : Seq(CetesRows), market : SUBSET Int, period : Int \X Int]
  /\ BondFiles \subseteq [rows : Seq(BondRows), market : SUBSET Int, period : Int \X Int, maturity : Int]
  /\ LiquidityFiles \subseteq [rows : Seq(LiquidityRows), market : SUBSET Int, period : Int \X Int, other : Int]

ASSUME StudiesAssumption ==
  /\ Least \in Nat /\ Enough \in Nat /\ Share \in Nat \ {0} /\ Points \in Nat \ {0}
  /\ Histories \subseteq [returns : Seq(Returns), other : Seq(Grosses), fraction : Int,
                          current : Studies!Weights \cup {Blank}, cost : Nat, cadence : Nat \ {0}]
  /\ \A x \in Histories : \A n \in 0..Len(x.returns) : Optimal(SubSeq(x.returns, 1, n)) \in Studies!Weights

ASSUME WealthAssumption ==
  WealthFiles \subseteq [closings : Seq(ClosingRows), rates : Seq(RateRows), flows : Seq(WealthFlows),
                          base : Currencies, growth : Seq(Nat), value : [AccountIds -> Seq(Int)],
                          money : [AccountIds -> Currencies], fx : [Currencies -> Int]]

-----------------------------------------------------------------------------
answers == <<book, input, output>>
Unanswered == <<>>
Asked(b) == book = b /\ output = Unanswered
Answered(b) == book = b /\ output # Unanswered
Answers(b, answer) == Asked(b) /\ output' = <<answer>> /\ UNCHANGED <<book, input>>

Propose ==
  Asked("plan") /\ \E lots \in [Assets -> Lots] :
    /\ Plans!Admitted(input, lots)
    /\ Answers("plan", [lots |-> lots, remaining |-> Plans!Remaining(input, lots)])
ReadRules == Answers("rules", [read |-> Plans!Readable(input.file, input.day)])

Profile(x) == Taxes!Basis(x.basis, Assets, x.cut, x.today)
ReserveTaxes == Answers("sales", Taxes!Reserve(input.sales, input.values, Profile(input)))
ClassifyIncome == Answers("income", Taxes!Flows(input.rows, input.expected, input.cut, input.today))

ReadInputs ==
  Answers("inputs", IF Files!Admitted(input.files, input.scope)
                    THEN [read |-> Files!Read(input.files), unresolved |-> Files!Unresolved(input.files, input.found)]
                    ELSE Refused)

KeepBook == Answers("ledger", [cut \in Closings |-> Books!Book(input, cut)])

\* The accounts of the drafts, with the coverage their import declares.
Account(draft) ==
  LET read == Books!Imported(draft.rows, draft.cash, draft.mapping, draft.declared)
  IN IF read = Refused THEN Refused
     ELSE [holdings |-> read.holdings, cut |-> draft.cut, series |-> draft.series,
           coverage |-> [analyzed |-> Books!Total(read.holdings), cash |-> read.cash,
                         pending |-> 0, other |-> 0, total |-> read.total]]
Accounts(drafts) == [i \in DOMAIN drafts |-> Account(drafts[i])]
AddAccounts ==
  Answers("accounts", LET accounts == Accounts(input)
                      IN IF \E i \in DOMAIN accounts : accounts[i] = Refused THEN Refused
                         ELSE Books!Consolidated(accounts))

ReadResults == Answers("results", [byFill |-> Paper!Results(input.attempts, input.fills, input.held, input.cost),
                                   byOrder |-> Paper!OrderResults(input.attempts, input.held, input.cost)])

\* A series of its own, in the period of the analysis, beside the prices of the market.
Added(index) == Debt!Joined(input.market, Debt!Within(index, input.period))
PrepareCetes == Answers("cetes", Added(Debt!Cetes(input.rows)))
PrepareBond == Answers("bond", Added(Debt!Bond(input.rows, input.maturity)))
AccrueLiquidity == Answers("liquidity", Added(Debt!Liquidity(input.rows)))

Study == Answers("history", [walk |-> Studies!WalkForward(input), cuts |-> Studies!Cuts(input)])

Perform == Answers("wealth", Fortune!Consolidated(input.closings, input.rates, input.flows, input.base))

EstimatesInit ==
  /\ output = Unanswered
  /\ \/ book = "plan" /\ input \in PlanCases
     \/ book = "rules" /\ input \in RuleFiles
     \/ book = "sales" /\ input \in SaleCases
     \/ book = "income" /\ input \in FlowFiles
     \/ book = "inputs" /\ input \in SuppliedFiles
     \/ book = "ledger" /\ input \in LedgerFiles
     \/ book = "accounts" /\ input \in AccountFiles
     \/ book = "results" /\ input \in ResultCases
     \/ book = "cetes" /\ input \in CetesFiles
     \/ book = "bond" /\ input \in BondFiles
     \/ book = "liquidity" /\ input \in LiquidityFiles
     \/ book = "history" /\ input \in Histories
     \/ book = "wealth" /\ input \in WealthFiles

EstimatesNext ==
  Propose \/ ReadRules \/ ReserveTaxes \/ ClassifyIncome \/ ReadInputs \/ KeepBook \/ AddAccounts
    \/ ReadResults \/ PrepareCetes \/ PrepareBond \/ AccrueLiquidity \/ Study \/ Perform

EstimatesSpec == EstimatesInit /\ [][EstimatesNext]_answers

-----------------------------------------------------------------------------
\* The plan that is shown pays its orders and keeps the cash the user asked for,
\* after whole lots and costs rounded up to the cent (executable_plan), and a
\* file of order rules is read exactly when the estimate accepts it
\* (broker_tariffs.py:161, implementation_costs.py:84).
PlansAreSound ==
  Plans!PlansAreSound(IF Answered("plan") THEN {[case |-> input, lots |-> output[1].lots]} ELSE {},
                      IF Answered("rules") THEN {input} ELSE {})

\* Taxes: what a sale leaves after its commission and its reserve is at least its
\* basis (tax_impact.py:173-179), and the income of a year splits, kind by kind,
\* in what is not estimated and what has a treatment (tax_cash_flows.py:232).
TaxesFollowTheirFiles ==
  Taxes!TaxesFollowTheirFiles(
    IF Answered("sales") THEN {[sales |-> input.sales, values |-> input.values, profile |-> Profile(input)]} ELSE {},
    IF Answered("income") THEN {input} ELSE {})

\* No file is ignored in silence, and a control of the review that shows its
\* evidence had its support (app_inversiones.py, evaluate_case_preflight).
FilesAreUsedOrRefused ==
  Answered("inputs") => Files!FilesAreUsedOrRefused(input.files, input.scope, input.found)

\* Two closings of one ledger and the movements between them pass both bridges: a
\* true account is refused only when its movements do not fit in the rows of a
\* file (position_bridge.py:66, cash_bridge.py:63).
BridgesFollowTheBook ==
  Answered("ledger") =>
    \A from, to \in Closings : from < to => Books!BridgesFollow(input, from, to, output[1][from], output[1][to])

\* The book is worth what was put into it less what was taken and paid: a trade
\* between its day and its settlement neither adds nor loses money, but for the
\* cent its amount may be off (value_book, transaction_ledger.py:101).
NothingIsCreated ==
  Answered("ledger") => \A cut \in Closings : Books!NothingIsCreated(input, cut, Quote, output[1][cut])

\* The consolidated positions and what the accounts keep outside them add up to
\* their totals, a series held in several accounts once for each of them
\* (account_consolidation.py:76 and 97).
AccountsAddUp == Answered("accounts") => Books!AccountsAddUp(output[1], Accounts(input))

\* The ledger and the accounts: two closings whose movements fit pass both
\* bridges, nothing but the cents of the trades is created between a trade and its
\* settlement, and accounts add up.
BooksAddUp == BridgesFollowTheBook /\ NothingIsCreated /\ AccountsAddUp

\* Each entry is what it still holds and what was closed, the cash of the curve
\* is that of the closed results and of the basis still open, costs included, and
\* no day sells what was bought later (alpaca_fill_results.py:63,
\* alpaca_performance.py:67); where every order was filled whole, at once and by
\* this program, its receipts and its executions give the same rows
\* (alpaca_results.py:12).
ResultsAddUp == Answered("results") => Paper!RowsAddUp(input) /\ Paper!ReadingsAgree(input)

\* A CETES held to the end of its term pays the nominal whatever days the market
\* has (fixed_income.py:124 and 369), each coupon of a bond buys titles at the
\* dirty price of its day (fixed_income.py:257), and no rate of a day, or of a
\* later one, is in the index of liquidity of that day (liquidity.py:78).
SeriesFollowTheirTerms ==
  /\ Answered("cetes") => Debt!PaysNominal(input.rows, input.market, input.period)
  /\ Answered("bond") => Debt!Reinvests(input.rows, input.maturity)
  /\ Answered("liquidity") => Debt!RatesOfThePast(input.rows, input.other)

\* Nothing decided or earned up to a day depends on the returns after it, each
\* planned date is reviewed and nothing else is, without reviews the walk is the study of one cut, and
\* where no price moves what is lost is what was paid (walk_forward.py:81, 111
\* and 122, backtesting.py:100, multi_cut.py:42).
StudiesLookBack ==
  Answered("history") =>
    /\ Studies!LooksBack(input) /\ Studies!ReviewsAreAsPlanned(input)
    /\ Studies!OneReviewIsOneCut(input) /\ Studies!OnlyCostsAreLost(input)

\* Accounts that hold the same thing return what it returned, whatever is paid in,
\* taken out or moved between them (multi_currency_wealth.py:113,
\* realized_performance.py:52).
PerformanceIsOfTheMarket == Answered("wealth") => Fortune!FlowsAreNotPerformance(input, output[1])
=============================================================================
