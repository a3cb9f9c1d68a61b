# Verification of the SIG investment workspace

TLA+ models of the parts of the application where steps of several sessions,
processes and services interleave, with TLC runs that check them on small
instances and TLAPS proofs for every instance. The application is a Streamlit
app for one or a few advisers: it analyses portfolios, keeps an encrypted
register of cases, and manually executes orders against an Alpaca Paper
account. Its state is small and shared, and most modules follow it; its
arithmetic is large and sequential, and where it is exact (orders, books, taxes,
terms of a debt) it is checked against what it should add up to.

File names below are relative to the repository.

## 1. Inventory

| component | state | operations | how it interacts | what makes it hard |
|---|---|---|---|---|
| Paper order execution (`alpaca_orders.py`, `alpaca_paper.py`, `alpaca_orders_ui.py`) | none of its own: a draft in the browser session | `prepare_order`, `submit_order`, `reconcile_order` | reads and appends the order log, GETs and POSTs to Alpaca | two sessions, lost answers, crash between intent and POST, late orders |
| Paper order log (`alpaca_order_store.py`, `alpaca_order_models.py`, `supabase/alpaca_paper_order_events.sql`) | insert-only events | `append`, `load`, `order_states` | written by execution and refresh, read by everybody | observations recorded out of order, several owners of one account |
| Refresh of results (`alpaca_results_sync.py`) | none; a batch in the session | `refresh_results` | looks orders up, downloads executions, appends to both stores | starvation in the batch, failure half way, overlapping refreshes |
| Trial controls (`alpaca_risk.py`, `alpaca_trial_store.py`, `supabase/alpaca_trial_controls.sql`) | insert-only settings, plans, fills | `build_trial_context`, `check_claim`, `extra_reservations`, the claim | four reads that are not a snapshot, then one transaction | what moved between the reads, two clocks, two budgets spent at once |
| FIFO results (`alpaca_fill_results.py`, `alpaca_results.py`, `alpaca_performance.py`) | derived | `fill_results`, results by order, the curve | gates the budget | executions of several orders, sales without enough purchases |
| Case register (`case_workspace.py`, `workspace_ui.py`, `scripts/workspace_operations.py`) | SQLite: cases, files, working records, audit chain | create, update, attach, grant, revoke, review, archive, purge | the page reads and then writes; the worker writes working records | obsolete reads, reviews that must not outlive content or access |
| Periodic sources (`operations_jobs.py`, `operations_ui.py`, `scripts/operations_worker.py`) | working records: feed, alert, subscription | `refresh_subscription`, `scheduler_tick`, save of the programming | worker beside the app, both over the same records | three saves, each with its own version; crash between them |
| Backups (`operational_backup.py`, backup and restore of `case_workspace.py`) | a file per day, a new directory | create, verify, restore | worker, operator | two bases copied one after the other, a crash between the creation of a file and its contents |
| Account analysis (`account_workflow*.py`, `account_drafts.py`, `account_scope.py`) | one flow per browser session, one draft record per account, saved runs, bundles | choose an account, upload, automatic save, analyse, save, download, open | working records and files of the register | two tabs, a form that changes after the analysis, a bundle of another account |
| Operations of an account (`operations_ui.py`) | files and ticks of five tabs; the last book, the last proposal and the account analysis in the session | save evidence, calculate and save a proposal, apply a catalogue, program a monitor | case register, account analysis, periodic sources | what was computed for one account is still there when another is shown |
| Advanced analysis (`app_inversiones.py`, `analysis_session.py`, `reporting.py`) | settings, models under a key, reports | edit, analyse, simulate, report, save | one session; the case register | a result of inputs that are no longer on the screen |
| Access and session (`access.py`, `data_rights.py`, `deployment_runtime.py`) | the identity in the cookie and in the session | log in, expire, log out, isolate | every page | results of a former identity |
| Technical journal (`technical_paper*.py`) | an append-only journal | signal, entry, exit, load | one owner, several sessions | rows loaded before the insert, clocks by the minute, a limit counted before the insert |
| Watchlists (`watchlist_*.py`, `supabase_watchlist.py`) | one row per owner; lists and histories in the session | load, import, save | the technical page | a session that changes owner; two requests to import |
| Technical analysis (`technical_analysis.py`, `technical_backtesting.py`, `technical_market_data.py`, `technical_ui.py`) | a downloaded history | signals, backtest | feeds the journal | a candle in progress looked at later; the order of events inside a bar |
| Ledger, bridges, import, consolidation (`transaction_ledger.py`, `position_bridge.py`, `cash_bridge.py`, `holdings*.py`, `account_*.py`) | none | folds over dated books, sums of accounts | called by the pages | the day of the trade and that of its settlement |
| Allocation, costs, taxes, fixed income (`executable_allocation.py`, `implementation_costs.py`, `broker_tariffs.py`, `tax_*.py`, `fixed_income.py`, `liquidity.py`) | none | pure functions in decimals | called by the pages | whole lots, rounding up, days of maturity and coupon |
| Inputs and review of an analysis (`app_inversiones.py`, `case_preflight.py`, `account_scope.py`) | none | which files may come together, what the review shows | before every analysis | a file that is given and not used |
| Controls and alerts of the Paper trial (`alpaca_trial_ui.py`, `alpaca_alerts.py`, `alpaca_trial_store.py`) | insert-only settings, plans, observations, alerts, reviews | save limits or a plan, consult, evaluate, record, review | a panel that runs by itself; the trial store | several loads in one run, a review that must not silence another alert |
| Historical evaluation and wealth (`backtesting.py`, `multi_cut.py`, `walk_forward.py`, `multi_currency_wealth.py`, `realized_performance.py`) | none | pure functions over dated series | called by the pages | a study that sees its future, a calendar that drifts, flows that count as performance |
| Portfolio mathematics, conversions of series, prices, instruments | none | pure functions in floating point | called by the pages | numeric |
| Pilots, intake, PDF, scripts | none that lasts | one-shot checks, layout | | I/O |

`PROJECT.json` lists the same components with their source files and status,
and, under "hazards", every place where this code is hard to test, with the
properties that cover it or the reason why none does.

## 2. Modules

```
             ┌── PaperAccount ─┬── PaperOrders ──┬── PaperOrders_proofs
OrderState ──┤                 │                 └───────────────┐
             │                 └── TrialBudget ──┐               ├── MCPaperStores
             ├── OrderPromise ───────────────────┼── PaperStores ┤
             └── OrderLog ───────────────────────┤               └── PaperStores_proofs
TrialAlerts ─────────────────────────────────────┘
BatchRotation ──┐
                ├── ResultsRefresh ── ResultsRefresh_proofs
FillsSync ──────┘
FeedJobs, CaseRegistry, Backups ──┬── MCCases
                                  └── Records_proofs
Shell, Desk, AccountFlow, Watchlists ──┐           ┌── MCPages
TechnicalJournal, TechnicalSignals ────┼── Pages ──┴── Pages_proofs
TradeSimulation ───────────────────────┘
TradeOrders, TaxBooks, AnalysisInputs ─┬── Estimates ──┬── MCBooks
AccountBooks, PaperResults ────────────┘               │
FixedIncome, HistoryStudies, Wealth ───────────────────┘
TrialBudget, Estimates ── Amounts_proofs ── Ledgers_proofs ── History_proofs
```

PaperStores and Pages put side by side components that share no state. A variable
`system` says, from their Init on, which component moves while the others stay
where they began: the behaviours of the whole are those of the parts, so one run
checks the invariants of all of them, and a theorem about a part is one about the
whole (`LogMoves`, `FlowsMove` and their like). Estimates does the same for
algorithms: its Init asks one question of one of them (`book`, `input`), and the
only step answers it (`output`). What is asked are constants of its specification,
so that the theorems are about any question of the right shape. The components'
properties keep their names in these modules: a run and a theorem state the same
definition.

The modules whose names begin with MC give TLC the instances. MCCases extends
FeedJobs, CaseRegistry and Backups and holds a `system` of its own; hence the names
RegistryInit or BackupsNext. MCPaperStores explores, of two panels of alerts, one
alone with every alert or both at one moment (`active`), and beside the stores the
attempts of PaperOrders (`submitting`), which it extends too: hence TrialInit or
ClaimBudget in TrialBudget. MCBooks gives Estimates the files it asks about.

**OrderState.** The data of one Paper order: receipts, the states that
`order_states` derives, and `Merge`, the fold of one more event. The log only
grows and is folded left to right, so the other modules keep, per draft, the
fold and not the log. Qty, the quantity of a draft, is a parameter. Four
terminal statuses that the code treats alike are one.

**PaperAccount.** The sessions and the drafts that attempts and budget share.

**PaperOrders.** One action per call that leaves the process: the load of the
log, the claim (`store.append` of the intent), the POST, the answer, each
append, each GET. `pc`, `draft`, `reply` and `todo` are the locals of a handler
in each session; `known` is the durable log; `minted` the drafts of
`prepare_order`; `posts` and `wire` the requests; `broker` what Alpaca holds.
Between any two of them other sessions, the broker and crashes may step. An
append may commit, fail, or commit and lose its confirmation. The broker is
external: it takes or refuses a POST at any time after it was sent, also after
the caller gave up, fills share by share, may date a complete fill later, and
cancels. The checks of account, instrument, funds, market clock and budget
before the claim are one action that may always refuse (`Abort`).

**OrderPromise.** The abstract attempt: claimed before it is sent, sent once,
moved only forward by the market, told only in receipts the market did issue.
PaperOrders implements it, under the mapping at the end of PaperOrders. TrialBudget
instantiates it instead of the whole of PaperOrders.

**OrderLog.** The table with its constraints (unique intent, foreign key of
observations), several owners, and appends by anybody in any order; `load` and
`order_states` over the rows as the code computes them.

**TrialBudget.** `build_trial_context` as its four reads (positions, both logs,
executions, open orders) and the claim as one transaction, with `late` standing
for the comparison of `recorded_at` with `read_started_at`. Amounts are shares;
a ledger is any limit that charges an amount per share (capital, amount per
symbol, loss at the stop). `Skewed` is the set of sessions whose clock may be
ahead of the database's.

**TrialAlerts.** The panel of the alerts as the calls of one run (load, consult,
record, evaluate, save one by one, load again and show, review at the end of the
run after the press), next to the forms of limits and plans, whose every
revision has a key of its own. An alert is its kind, what it refers to and its
day; its key is the part of it that the code hashes. `reviewed` is history.

**BatchRotation.** Which attempts a press of "Actualizar resultados" looks up:
the pending ones by the time of their last event, a batch at a time.

**FillsSync.** The download of the executions, saved one by one under their own
keys, then the summary (count and digest) without which `stored_fills` refuses
to return them.

**ResultsRefresh.** A press as a whole: the lookups of BatchRotation and then the
download of FillsSync, from the same sessions, which may die or fail in either
half.

**CaseRegistry.** Every method of CaseStore that changes a case, one transaction
each. The page around them is modelled too: a press of a button reruns the
script, which reads the case again (`Press`) before it calls the method with
the revision just read (`Update`, `Review`...). `screen` and `shown` keep what
the person had in front of them. Profile, accounts, evidence and files are one
numbered content. `author` is a history variable: who changed the content last,
whatever `editor` (the code's `content_editor`) says.

**FeedJobs.** `refresh_subscription` in its three saves, run by the worker and
by the page, next to the page's save of the programming. A version is modelled
by `missed`: the records that somebody else saved since a client read them,
which is exactly when the expected version does not match. The interval is left
out: the worker may look at any time. So is the monitor of drift, one more
component of the signature.

**Backups.** A bundle of the day by the worker and bundles by the operator: the
register is copied, then the watchlists, then the file is created, then written;
a verification reads it, a restoration creates a folder and writes the two bases
one by one. Any process may die after any step, and people go on committing.

**Shell.** A browser session of the advanced analysis: whose cookie it is, whose
state it holds (`isolate_session_identity`), the models kept under a key, the
reports kept under another, and the confirmation before one is saved in a case.
The series of prices come in two downloads, kept apart: that of the assets
(`data`), which is in the keys, and that of the benchmark, which is in none.
`from` and `made` are history: the inputs a model or a report was computed from.

**Desk.** The operations page. Its tabs are drawn in order and one that cannot
read its file stops those after it (`Drawn`); what was given for an account is
forgotten when another is shown, the last book, the proposal and the account
analysis are not. Each of them carries, as history, the account it is of.

**AccountFlow.** The account analysis. One action is one run of the script with
the automatic save at its end (`Put`); the draft has a version, and `seen` keeps
the versions a session ever read or wrote.

**TechnicalJournal.** The three events of a paper test, the page that captures
them from the rows it has in memory, the checks before the insert on a load of
its own, and the limit. A quote is of a whole minute and an instant is a tick.

**Watchlists.** Logins, the load of an identity with or without a row, its import
in two requests, saves, and what the page keeps when its owner changes.

**TechnicalSignals.** `completed_bars` at the time of every run of the page, over
a history downloaded earlier, and the registration of what is shown.

**TradeSimulation.** The loop of `_simulate`, a bar a step, over any bars and any
signals.

**TradeOrders, AccountBooks, PaperResults, FixedIncome, TaxBooks,
AnalysisInputs.** The algorithms over files as operators: folds for loops,
`Refused` for an exception. Money is in integers (tenths of a cent, cents), a
factor of an index is a fraction. The solver of `executable_plan` is the set of
the plans its constraints admit. The amount of a trade may be a cent (`Cent`) away from
its quantity by its price, as `transaction_ledger.py:101` admits, and the bridges refuse files
of more than `BridgeRows` rows (1,000 in the code; the limits in bytes are left
out). The price of a CETES is exactly that of its rate, where `fixed_income.py:183`
admits a ten-thousandth of a peso: a CETES observed on the day it is due is worth
its nominal only as closely as that.

**HistoryStudies.** The studies of a history of returns, with any optimizer (a
CONSTANT operator). A gross return is an integer, a weight is counted in parts
(`Share`), a cost in points of a price (`Points`), and what a portfolio holds in
parts of the initial capital, finer at each purchase, so that nothing is rounded.
Its dates are those of the calendar, months of 28 to 31 days: a date is 31 times
its month plus its day. A date planned is the one before it plus `DateOffset`
(`Later`), which takes the last day of a shorter month, and the plan is that step
repeated, as the code repeats it.

**Wealth.** The wealth of several accounts at each close and its performance. The
files are sequences of rows and a ratio is a fraction; of the money-weighted
return only the reasons it is not looked for are kept, not the root. A file may give
each close its rate; in the instances and in the theorem the rates do not move.

**Estimates.** Asks of these algorithms the plan and its rules, the taxes, the
files of an analysis, the book of a ledger at each of the days `Closings` with
the prices `Quote`, the consolidation of the accounts that some drafts import,
the results of the Paper orders of a symbol, the three kinds of total-return
series (cut to the period and joined with the days of the market), the studies of
a history and the performance of several accounts. Which questions there are is a
set per algorithm, a constant.

## 3. Runs

All passing runs are exhaustive over their instance. Sessions, drafts, owners and
accounts are symmetric in the safety runs whose cfg says so.

| run | instance | distinct states | question |
|---|---|---|---|
| PaperOrders_one | 1 session, 2 drafts of 2 shares, batches of 2 | 26,772 | what reached the broker is confirmed, and its end recorded |
| PaperStores | 2 sessions, 2 drafts of 2 shares, batches of 1; 2 owners and 4 rows of a log; 2 revisions of the controls; 1 panel of alerts with 3 prices, 2 days and 4 rows, and 2 panels at one moment | 966,868 | at most one POST, refusals final, the log behind the broker and never back; PaperOrders implements OrderPromise; a log can always be loaded and its fold ends on the newest receipt; reservations cover every exposure; claims fit the limits in force; only the alert that was reviewed is quiet |
| ResultsRefresh | 2 sessions, 2 attempts in batches of 1, 2 executions | 80,196 | turns are shared; what can be read is one complete download; one session that goes on pressing repairs everything |
| Cases | 2 administrators, 1 reviewer, 3 revisions; a worker that refreshes and two pages that program and may die, 2 contents, 2 programmings; 2 processes, 2 files, 1 folder, 2 commits | 647,424 | reviews are by others, of this content, by people with access; archived is closed and purged is gone; newer data and programmings are kept, the alert is current and given once, a lasting failure is told; bundles are whole and stay |
| Pages | 2 accounts or identities of each kind, sessions of 5 and 3 presses, 3 files and confirmations at a time, 3 rows of a journal and 6 instants, 3 days of 7 ticks, 5 bars of 4 prices | 917,489 | nothing of another person is shown; what is shown is of the inputs on the screen; what is kept is of its account; drafts are read before they are replaced; the journal is in order; signals use final candles; trades keep the rules |
| Books | every input of a small domain per algorithm | 443,334 | plans are paid, books and accounts add up but for the cents of trades, two readings of the results agree, series follow their terms, studies look back and flows are no performance, taxes follow their files, no file is ignored |

Why the bounds are enough to be interesting. Two sessions and two drafts give
every race between two handlers and between two attempts; a third actor, the
broker, is always there. Two shares are the least that have a partial fill. Two
drafts are one to be open while the other is submitted. Four rows of a log are
an intent and three receipts, enough for an old one to come last, or two
attempts of two owners with an observation each. In TrialBudget the limits leave
room for one and a half orders, so that two claims that both fitted would be one
too many; both clocks agree with the database's (one ahead is TrialBudget_clock, and
the theorems leave room for any number of them). Two attempts in batches of one leave one over, and the session that
dies in the middle of a batch leaves another. Two executions are the least of
which a part can be saved. Three revisions of a case are a creation, a change
and a change after a review, or an archiving and a recovery; two administrators
and a reviewer are the least that can complete the reviews of a case of an
administrator. Two programmings are the least for one to be overwritten. Two
commits between the copies of two bases are the least for them to disagree by
more than the event that asked for the bundle. Five presses of one session and
three of another take a draft through a save, a conflict and a reload, and an
analysis through a change of form and a save. Three rows are a whole paper test,
and the least at which two sessions overrun the limit together. Days of seven
ticks have an instant before, within, at and after a session and its fifteen
minutes. Five bars hold a trade, its exit and another, with a maximum of two
sessions in a trade. In MCBooks three operations of a ledger over four cuts hold
a purchase, its sale and a split or a withdrawal, settled before or after a cut;
four executions hold a purchase filled in two parts and one made elsewhere. Five
returns, two to estimate and three to evaluate, hold a plan that the end of February
cuts, a review made a day late and two planned dates missed at once. Trades that
are a cent off and bridges of four rows hold accounts that add up to the cent and
files that a bridge refuses for their size; three accounts, one in another currency, with
a transfer and a flow of each timing, hold every reason a return is unknown or
refused. Four rows of the trial store are a plan, its alert, the review of it
and the next revision of the plan.

The names of the bounds are MaxEvents, MaxRevision, MaxContent, MaxAged,
MaxSaves, MaxCommits, MaxData, MaxEntries, MaxGiven, MaxVersion, MaxRuns,
Presses, MaxTime, LastTick, MaxRows,
LastMoment, Bars and BridgeRows; the rest of the state is finite by itself,
except `posts` and `turns`, which the checked properties bound.

CHECK_DEADLOCK is off where the system really stops: every draft used, every
revision, row, press or bar of the instance taken and every handler at rest, or
the answer given.

### Fairness

* `HandlerFairness` (PaperOrders): a handler that has begun goes on. Every call
  it waits for has a timeout of 10 seconds (`alpaca_paper.py`), and its loops
  are over a finite batch.
* `PressesGetThrough` (PaperOrders) and the fairness of ResultsRefresh are asked
  of the surroundings and not of the code: the code has no background retry, so
  an order is confirmed only if somebody presses "Actualizar resultados" again
  and again and some of those presses are not cut short. Strong fairness says
  exactly this, for one lookup at a time; the liveness results are conditional
  on it. ResultsRefresh asks it of one session only.
* FeedJobs: weak fairness of the worker, an endless loop with a pause of 30
  seconds (`scripts/operations_worker.py`). In the run Cases it is stated of its
  step while the sources are the component explored, and the worker does not
  crash.

### Disagreements between the code and its documents

Each is a run that must end in a counterexample.

1. `PaperOrders_rejection`: refusals are said to stay closed. A lookup that
   began before the refusal was recorded appends "unknown" after it, and the
   fold takes the later event: the attempt is open again and blocks the account.
2. `TrialBudget_clock`: attempts not yet represented in the reads are said to
   be reserved. With the app's clock up to a minute ahead of the database's, an
   order that fills after the positions are read and is recorded "before" the
   cutoff is reserved by nobody.
3. `CaseRegistry_screen`: reviewers are said to review the version in force and
   obsolete editions to be refused. The press on the review button reads the
   case again first, so the expected revision is never the one the reviewer saw.
4. `FeedJobs_lost`: an alert is said to be given when availability changes. Of
   two refreshes that overlap, the one with the older data can save its alert
   last; the other then records its own signature as told, and the alert
   contradicts the data until the source changes again. A worker that is the
   only one to refresh keeps it (Cases).
5. `TechnicalSignals_candle`: a candle downloaded before the close is said to
   stay out although it is looked at later. The moment of the download is
   compared only for the candle of today; a history kept until the next day
   passes its unfinished last candle as yesterday's. What the journal registers
   is not affected, since a download older than an hour is refused.
6. `PaperOrders_overlap`: an attempt without a confirmed result is said to block
   other proposals of the account. `submit_order` looks for one several calls
   before it inserts its intent, and the store refuses only the same draft: two
   sessions that both looked first both send.

Two more are of documents whose words admit another reading. No run is made of
them; the models have the behaviour of the code, and the properties named here
are stated so that they are true of it.

* "Los resultados se conservan en la sesión del usuario con claves que incluyen
  entradas y parámetros" (`docs/account_workflow.md:57`). In the advanced analysis
  the series of the benchmark is downloaded apart from the prices
  (`app_inversiones.py:1468`), both PDFs print it, and it is in no key (2862):
  renewed alone, it leaves the report of the former series on offer.
  ShownIsOfTheInputs speaks of every input but that one.
* A review made late "mantiene la programación de calendario original"
  (`docs/backtesting.md:39`). Each planned date is counted from the one before
  (`walk_forward.py:129`), so that one cut by a short month stays cut: every three
  months from 30 November, the plan is 29 February and then 29 May. StudiesLookBack
  says that the reviews are those of the plan so counted, late or not.

The opposite of some properties is worth knowing, though no document says
otherwise:

* A rights file left in its uploader is put back over the declaration saved with
  the form by every later run of the page (`account_workflow_ui.py:268`).
* The import of a local watchlist reads, then writes by upsert
  (`supabase_watchlist.py:85`): a row the same owner empties in between is filled
  again.
* "The latest consultation" of a symbol is the one appended last: of two pages
  that consult at once, the older answer may be appended after the newer one.
* The confirmations of the case pages keep their tick when another account is
  chosen (`workspace_ui.py:505` and `583`), and numbers typed for a proposal stay
  when another account is shown (`operations_ui.py:282`).
* `scheduler_tick` reads a case outside the try of `operations_jobs.py:230`: one
  that is revoked meanwhile ends that tick for the others too. `initialize`
  (`case_workspace.py:211`) creates the file before its tables.
* The reservation of the database (`alpaca_trial_controls.sql:77`) takes the last
  receipt inserted where the SQLite store takes the fold.

## 4. Proofs

`PaperOrders_proofs` proves, for any sets of sessions and drafts, any positive
quantity and batch size (QtyAssumption, NoDraftAssumption, BatchAssumption):

| theorem | property |
|---|---|
| TypeCorrect | TypeOK (proved only) |
| OnePost | AtMostOnePost |
| IntentBeforePost | PostHasIntent (proved only) |
| RejectedIsFinal | RejectedNeverAtBroker |
| LogFollowsBroker | KnownFollowsBroker |
| ConfirmationsStay | ConfirmedNeverRegresses |

None of these but the first is inductive. The inductive invariant `IInv` has
three parts, each inductive given the ones before it:

* `TypeInv`: the types, what a session holds at each step, and that an order
  that is alive at the broker is not full.
* `ClaimInv`: a session about to POST is the only one about to POST that draft,
  its intent is in the log and it was not sent before. This is what the unique
  key of the intent gives; AtMostOnePost alone does not survive a session
  standing at "post".
* `BrokerInv`: `WireInv` (the broker holds an order exactly when it took the
  POST), `HeldInv` (whatever a session holds and has not recorded yet is a
  refusal the broker gave or a receipt that what the broker holds now follows)
  and `KnownInv` (so is everything recorded). Since the broker only moves
  forward (`BrokerForward`) and `Follows` is transitive, a reply may be recorded
  as late as one likes; `MergeFollows` shows that the fold then keeps the newer
  of two facts that precede the same truth. A fill date comes only with a
  complete fill (`Dated`): without it the date that Merge carries over could
  belong to another end.

It also proves PromiseIsKept (KeepsPromise): PaperOrders implements OrderPromise,
for the same constants. What the app knows is the folded log, what
was sent are the drafts with a POST, the market is the broker. `PInv` adds two
facts to `IInv`: every receipt held or recorded is one the broker issues
(`Issued`; the fold only adds a date to a complete fill, `MergeIssued`), and
whoever is about to record has an attempt in the log (`Attempted`; no record
takes an intent out of it, `KnownStays`). A claim is then a claim, a POST a send,
the steps of the broker are the market refusing or moving, a record that changes
the log tells the app a receipt or nothing (`RecordTells`), and every other step
is a stutter. TrialBudget takes its orders from OrderPromise, so what it shows of
the budget rests on this theorem for any number of sessions.

`Records_proofs` proves of FeedJobs, for any clients refreshing and dying at once and any
bounds (ClientsAssumption, BoundsAssumption), TypeCorrect, DataStays
(DataNeverGoesBack) and ProgrammingStays (ProgrammingIsKept). The run has one
client that refreshes; the proof needs no such limit. Its `FreshInv` is what the
versions are for: a client whose copy of the subscription is not outdated holds
the subscription, and a feed about to be saved, not outdated, is not older than
the one it replaces. The second half holds because the source only gets newer
and a refresh keeps what it had when it fails (`RefreshedIsNewer`).

It also proves AlertSaysTheState (AlertIsCurrent) and AlertsAreNotRepeated
(OneAlertPerChange), when one client `r` is the only one to refresh and does not
die (`Refreshers = {r}`, `r \notin Crashing`), among any that save programmings.
Both hypotheses are needed: the run FeedJobs_lost shows the first property fail
with two that refresh, and one that dies between its alert and its subscription
gives the alert again when it comes back. `SoleInv` says that nothing but a
programming is saved under the refresh, and that one saved meanwhile resets what
was told; `ToldInv` that what the subscription says was told is what the alert
says, but for the moment between the two saves.

`ResultsRefresh_proofs` proves OnlyCompleteIsRead (ReadableIsComplete) for any
sessions, attempts and executions: whatever a session holds is one whole
download, so the summary is that of one, and rows that match it are too. That
the least of the executions left to save is one of them (`MinIsOfTheSet`) rests
on the natural numbers being well founded.

It also proves TurnsStayShared (TurnsAreShared), for any finite sets of sessions
and attempts (SetsAssumption). An attempt that is looked up goes behind those
that wait, in the order of their last events (`OrderInv`: each attempt has one
place in it). From then on only a batch taken earlier can look it up again before
the one that waits; the sessions that hold such a batch are `Early`, and each
lookup uses one up: `turns + Early <= Sessions` is inductive (`TurnsInv`).

`Records_proofs` proves of CaseRegistry, for any people with any roles, sessions and cases
(PolicyAssumption), ReviewsOfTheContent (ReviewsAreOfTheContent),
TwoOthersReviewed (ReviewedByTwoOthers), ReviewersAreMembers and CasesStayClosed
(ClosedStaysClosed). All of it rests on the revision. `CaseInv` says of a case
that no review is of a revision to come and that those in force are of its
content, by people with access, of whom none edited it last and none reviewed
twice: a change of content, members or archive takes the next revision, so it
leaves no review in force (`NewRevision`). A review is of the content that the
press had read; that this is still the content of the case is `PressInv`: a
press whose revision is the one of the case has read its content, because no
content changes without the revision.

It also proves BackupsAreWhole (BundlesAreWhole) and BackupsStay (BundlesStay)
for any processes, files and folders (NamesAssumption: what stands for no file,
a partial file and no folder is none of the others). A file is created by one
process and only that one writes it (`SavingInv`); a process that restores reads
a whole bundle, into a folder that only it has (`RestoringInv`). Whoever dies
leaves a partial file, which nobody writes again.

`Pages_proofs` proves of Shell, for any identities, settings and sizes of the cache
(ShellAssumption), OwnSession (NothingOfAnotherPerson) and OfTheInputs
(ShownIsOfTheInputs). The first needs `OwnerInv`: a session that shows a page was
isolated for the identity of its cookie, and only that one left anything behind.
The second needs that what is kept was computed from what its key is made of
(`Entries`, `Pdfs`) and that the run that draws results has looked both up under
the keys of the screen (`KeysInv`); a full cache drops the oldest entry and never
the one asked for (`RememberedKeeps`), and two runs with one key are the same run
but for the benchmark (`ReportIsOfItsKey`), which the property leaves out for the
reports. Of Watchlists it proves OwnData (OwnDataOnly), for any
identities and lists (OwnersAssumption); given the types it is inductive as it
stands. NothingIsOfAnother (NothingOfAnotherIdentity of Pages) puts the two
together: the steps of Pages are steps of the session or of the lists, or leave
them alone (`SessionMoves`, `ListsMove`).

`PaperStores_proofs` proves of PaperStores

* LoadStaysNewest (LoadIsNewest of OrderLog), for logs of any length, any owners
  and any order of the appends. `load` and `order_states` are loops: recursive
  functions of the number of rows taken. That such functions exist is proved by
  induction on the length (`TakenExists`, `MergedExists`), and one more row
  unrolls them by one step (`LoadAppended`, `StatesAppended`). The invariant
  adds that of two receipts of a draft one follows the other (`IssuedInOrder`,
  which OrderPromise gives) and that every row has its owner's intent beside it
  (`ClaimedFirst`, the foreign key).
* AlertsStayKept (AlertsAreKept of TrialAlerts), for any panels, days, revisions and
  size of the store (RowsAssumption). What is acknowledged was marked and is in
  the history (`Marked`); a run that is about to show has saved every alert it
  found, or they were there (`Saved`).

`Pages_proofs` also proves of Pages, for any value of its constants,

| theorem | property | what its invariant adds |
|---|---|---|
| WorkStaysWithItsAccount | WorkIsOfItsAccount | Desk: a book is of the account whose key it is under; what used a model used that of its account. AccountFlow: every form, draft, run and bundle holds positions of its own account (`FormOf`, `FlowIsOwn`) |
| DraftsStayReadFirst | DraftsAreReadFirst | the version a session writes over is one it has seen |
| JournalStaysInItsRules | JournalKeepsItsRules | a session about to insert has checked, on rows that stay, that its row comes after another; the rows plus the sessions about to insert pass the limit by fewer than there are sessions |
| SignalsStayFinal | SignalsUseFinalCandles | a download is of a moment past, and its last candle of no later day |
| TradesObeyTheRules | TradesKeepTheRules | a position is held for fewer sessions than the maximum, and none is left at the end |

Each of them is proved of its component first (`FlowsAreOfTheirAccount`,
`LegsAreInOrder`...) and then of Pages, whose steps are steps or stutters of the
component. The assumptions are ContextsAssumption (the contexts without an account
are no accounts), SessionsAssumption (finitely many sessions), SignalsAssumption,
TimesAssumption, PricesAssumption and BarsAssumption; Pages assumes them under the
names AppAssumption to SimulationAssumption.

`Amounts_proofs` is about sums. Its first part proves, by induction over finite
sets, what the other parts need of SumFunctionOnSet: one element more adds its
term (`SumUnfolds`), terms that cover terms cover their sum, a sum is that of its
groups. Then

* AttemptsAreReserved (ReservationsCover) and BudgetIsNotSpentTwice
  (ClaimsFitTheBudget) of TrialBudget, for any sessions whose clock is not ahead,
  any finite set of drafts (DraftsAssumption) and any quantity, limits and
  charges (LedgerAssumption). `Settled` is what the order of the four reads is
  for: an attempt that the log shows ended, with nothing recorded of it since the
  reads began, had ended before the positions were read, so its shares are in
  them. `Promised` is what OrderPromise gives: what is told of a draft is behind
  what the market holds. The claim then fits because the limit and what is
  reserved are read again in its own transaction. Skewed sessions are left out
  because the property fails for them (TrialBudget_clock).
* PlansArePaid (PlansAreSound of TradeOrders), for any finite set of assets, any
  holdings, prices and lots, and every tariff within the limits of
  `implementation_costs.py:74-81`. `executable_plan` reserves three cents per order in
  the constraint of the solver and then rounds twice to the cent upward and once
  to the nearest; `OrderIsCovered` shows that what an order is charged is never
  more than what the constraint counted for it, a sale included. The files of
  rules are of any length.
* TaxesFollow (TaxesFollowTheirFiles of TaxBooks), for any files whose rows have
  the fields the reader gives them and any sales of the assets of the profile.
* FilesAreReadOrRefused (FilesAreUsedOrRefused of AnalysisInputs), for every set of
  files, scope and account.

The last three are theorems of EstimatesSpec, from AssetsAssumption and
QuestionsAssumption, which say only of what shape a question is. The assumptions
named in this section are definitions or ASSUMEs of their modules, and the
instances check all of them.

`Ledgers_proofs` proves BooksAreKept (BooksAddUp of Estimates), from
AssetsAssumption and BooksAssumption, which say of what shape files, drafts and
quotes are: for files of events of any length, any cuts and quotes, any limit of rows
of the bridges, and any number of accounts. What a bridge follows is exact, and what it
refuses too: of a true account it refuses the file that has no row or more than
it may. What a trade brings in is known to the cent, so a book may be worth a cent
more or less for each of its trades. Given that an answer is the one the code gives (`LedgersInv`), it is
about the algorithms.

* *Titles.* What a ledger holds is a fold over its rows by date, which may refuse.
  `HeldIsSum` shows that without splits it is what the rows add less what they
  take, and `HeldAllAlong` that a book which is not refused was refused at none of
  its earlier rows. So the balance of an asset after each move of the bridge is
  what the ledger held there (`BalanceIsHeld`), and never negative: the bridge of
  positions follows if its rows fit (`PositionsFollow`). That the moves can be listed by date, each
  once, is `ListedIs`, by induction over finite sets.
* *Cash.* The rows due by the later cut are those due by the first and those that
  settle between them (`CashAddsUp`), whatever the days of the trades; a row whose
  cash is zero makes no flow. The bridge of cash follows if its rows fit
  (`CashFollow`).
* *Value.* Row by row, what a row brings in is what it adds to the titles at their
  quotes and to the cash, settled or pending, but for the cent of a trade
  (`BroughtIs`, `NothingAppears`).
* *Accounts.* An injective mapping renames the rows of a draft as holdings, so the
  declared total covers them and the cash (`ImportsAreCovered`); the sums of the
  holdings by series and by account are the same table added by columns and by
  rows (`SumByColumns`, `SeriesAddUp`).

The bridges and the value say nothing of a file with a split: a split is no
movement for the bridges of the code, and it changes the titles without a price.

It also proves ResultsAreKept (ResultsAddUp; ResultsAssumption), for any executions,
attempts, costs and days. The book of some trades is that of the trades before the
last one, with it taken (`BookUnfolds`), so `BookInv` is kept trade by trade: what
is left of a lot and what the sales used of it is what was bought, and all that a
sale used was bought before it. A row and the curve are then sums of one table, of
what each sale used of each lot, by lots for a row (`RowIsSums`) and by sales for a
day (`StrategyIs`); the cash of the curve telescopes to that of the rows
(`StrategyAtTheEnd`). The reading by executions and the reading by receipts are one
book under other names (`SameBooks`, `ReadingsAgreeFor`).

`History_proofs` proves three more theorems of EstimatesSpec. Each rests on an
assumption that says of what shape the files of its questions are, and each
begins with the invariant that an answer is the one the code gives, which leaves
a statement about the algorithm.

* SeriesAreKept (SeriesFollowTheirTerms; SeriesAssumption), for any files and any
  days of the market. An index is a chain of factors: its growth through a day is
  that up to it times that from it (`GrowthIs`), so joining other days changes
  nothing (`JoinedGrows`). Before the end of its term a CETES grows as its price
  (`CetesRun`), a bond as its dirty price times the titles that its coupons bought
  (`CouponsAreReinvested`), and the index through a day reads no rate of that day
  or of a later one (`RatesOfThePastOnly`).
* StudiesAreHonest (StudiesLookBack; StudiesAssumption), for any history on dates of the
  calendar, any cadence in months, cost and optimizer, of which only that it
  answers weights is assumed. Two
  walks over histories with the same rows up to one are the same up to it
  (`WalksLookBack`), the next planned date is the first one of the plan after
  the day (`PlanIsKept`), and a walk with no review is the study of one cut (`OneReview`). The plan is a recursive
  function, which exists and unrolls (`DatesExist`, `PlanUnfolds`); each of its dates is
  in the month that many cadences later and after the one before
  (`MonthsFollow`, `PlanGrows`), so it has one after any day (`PlanGoesOn`), and the
  loop that looks for it stops at the first (`FirstAfter`).
  Where no price moves, what is held and what was paid are together what there
  was, at every purchase (`Balanced`).
* PerformanceIsKept (PerformanceIsOfTheMarket; WealthAssumption), for any files
  whose accounts hold one and the same thing, in any currencies. The two legs of
  a verified transfer are worth nothing together (`LegsCancel`), so what the
  performance takes out of a day is what moved in all the accounts (`AmountsAre`)
  and their worth grows as the thing does (`WorthGrows`). What is linked up to a
  day is then what the thing returned until its last close (`ADayAlong`, by
  induction over the days), whether or not there is a close every day.

Only model-checked are the liveness properties (ReachedIsConfirmed,
FinishedIsRecorded, CatchesUp, FailureIsTold): fairness is beyond the prover. Every
other property of the passing runs is stated by a theorem.

## 5. Not modelled

* Encryption and the audit chain of the register: a change outside the program
  is not one of its behaviours.
* The checks of quotes, instruments and market hours before an order (one action
  that may refuse), sales and price moves in the budget, the SQL variant of
  `extra_reservations`, the limit of 5,000 order events (it fails closed).
* The contents of the files an analysis is given, but for what the properties
  tell apart, and the layout of reports and bundles.
* The choice of the solver among the plans its constraints admit, and everything
  that is a floating-point series: estimation and optimisation of portfolios,
  risk, simulation, statistics of the curves, technical indicators. A
  model checker has nothing to say of them; their sequencing, where it decides
  something (TradeSimulation, FixedIncome, HistoryStudies), is modelled.
* One-shot scripts and the intake of documents, which keep no state.
* Streamlit, Supabase, Alpaca and the file system are external: modelled from
  how the code uses them.

## 6. Plan

1. *Done:* the Paper account (PaperOrders, OrderLog, TrialBudget, ResultsRefresh
   and their parts), the case register, sources and backups, the pages, and the
   algorithms over files.
2. *Done:* a theorem for every safety and action property of the passing runs.
3. *Extensions:* the SQL reservation as a second definition of Extra; sales and
   price moves in TrialBudget; the conversions of series in `currencies.py`.
