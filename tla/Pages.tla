------------------------------- MODULE Pages -------------------------------
(***************************************************************************)
(* What the pages of the application keep, each on its own: the session    *)
(* and its advanced analysis (Shell), the operations of an account (Desk), *)
(* the account analysis (AccountFlow), the technical page with its journal *)
(* (TechnicalJournal), watchlists (Watchlists) and candles                 *)
(* (TechnicalSignals), and the simulation it runs (TradeSimulation).  They *)
(* share no state: one of them moves, and the others stay as they began.   *)
(***************************************************************************)
EXTENDS Shell, Watchlists, Integers

CONSTANTS
  Given, MaxGiven,                                                  \* Desk
  Access, Presses,
  Temporary, Bare, Example, Nothing, Cuts, MaxVersion, MaxRuns,     \* AccountFlow
  Signals, Buys, DayEnds,
  Minute, Fresh, MaxEvents, MaxTime,                                \* TechnicalJournal
  Day, Open, Close, Settle, Recent, MaxAge, LastTick,               \* TechnicalSignals
  Prices, ATR, MaxHold, Bars                                        \* TradeSimulation

VARIABLES
  system,      \* the component that moves
  area, account, files, bad, ticks, books, proposal, other, evidence, monitors,
  flow, drafts, archive, packages, runs, left, seen,
  clock, journal, shown, step, event,
  now, history, registered,
  i, signal, position, bar, trade

Operations == INSTANCE Desk WITH flow <- other, saved <- evidence
Flows == INSTANCE AccountFlow
Journal == INSTANCE TechnicalJournal
Candles == INSTANCE TechnicalSignals WITH journal <- registered, MaxTime <- LastTick
Simulation == INSTANCE TradeSimulation

ASSUME AppAssumption == ShellAssumption
ASSUME ListsAssumption == OwnersAssumption
ASSUME FlowsAssumption == Flows!ContextsAssumption
ASSUME JournalAssumption ==
  Journal!SessionsAssumption /\ Journal!SignalsAssumption /\ Journal!TimesAssumption
ASSUME CandlesAssumption == Candles!TimesAssumption
ASSUME SimulationAssumption == Simulation!PricesAssumption /\ Simulation!BarsAssumption

operations == <<area, account, files, bad, ticks, books, proposal, other, evidence, monitors>>
flows == <<flow, drafts, archive, packages, runs, left, seen>>
journals == <<clock, journal, shown, step, event>>
candles == <<now, history, registered>>
simulated == <<i, signal, position, bar, trade>>
technical == <<journals, lists, candles, simulated>>
pages == <<system, vars, operations, flows, technical>>

PagesInit ==
  /\ system \in {"app", "operations", "flows", "journal", "lists", "candles", "simulation"}
  /\ Init /\ Operations!Init /\ Flows!Init
  /\ Journal!Init /\ ListsInit /\ Candles!Init /\ Simulation!Init

PagesNext ==
  /\ \/ system = "app" /\ Next /\ UNCHANGED <<operations, flows, technical>>
     \/ system = "operations" /\ Operations!Next /\ UNCHANGED <<vars, flows, technical>>
     \/ system = "flows" /\ Flows!Next /\ UNCHANGED <<vars, operations, technical>>
     \/ system = "journal" /\ Journal!Next
          /\ UNCHANGED <<vars, operations, flows, lists, candles, simulated>>
     \/ system = "lists" /\ ListsNext
          /\ UNCHANGED <<vars, operations, flows, journals, candles, simulated>>
     \/ system = "candles" /\ Candles!Next
          /\ UNCHANGED <<vars, operations, flows, journals, lists, simulated>>
     \/ system = "simulation" /\ Simulation!Next
          /\ UNCHANGED <<vars, operations, flows, journals, lists, candles>>
  /\ UNCHANGED system

PagesSpec == PagesInit /\ [][PagesNext]_pages

----------------------------------------------------------------------------
\* A draft is replaced only by a session that read or wrote the version it
\* replaces: what another tab saved is never overwritten unseen
\* (account_workflow_ui.py:835-840 and 919-935).
DraftsAreReadFirst == Flows!DraftsAreReadFirst

\* Neither the operations page nor the account analysis ever works on what is of
\* another account, although both keep it while the page goes from one to
\* another (operations_ui.py:312, 362 and 448, account_workflow_ui.py:831 and 944).
WorkIsOfItsAccount == Operations!WorkIsOfItsAccount /\ Flows!WorkIsOfItsAccount

\* Nothing is written into the technical journal after the fact: each quote is
\* of the minute of the row before it or later, although the checks of a save
\* run against rows loaded at different moments (technical_paper.py:155 and 197);
\* and of those checks the limit may be overrun by the one event each session is
\* saving, and by no more (technical_paper_store.py:70 and 116).
JournalKeepsItsRules == Journal!LegsInOrder /\ Journal!OverrunIsBounded

\* Nothing under a page that is seen, and no list shown or saved, is of another
\* identity, however logins, expiries, loads, imports and saves come
\* (access.py:41, technical_ui.py:550).
NothingOfAnotherIdentity == NothingOfAnotherPerson /\ OwnDataOnly

\* No signal of today uses a candle in progress, however often the page runs
\* between the download and the close, and what the journal fixes was computed
\* from a final candle (technical_analysis.py:120, technical_paper_ui.py:78).
SignalsUseFinalCandles == Candles!SignalsUseFinalCandles

\* Of two levels a bar reaches the stop counts, no trade outlives its sessions
\* and no day has two positions (technical_backtesting.py:43 and 74).
TradesKeepTheRules == Simulation!TradesKeepTheRules
=============================================================================
