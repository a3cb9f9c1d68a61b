----------------------------- MODULE PaperStores -----------------------------
(***************************************************************************)
(* The stores of the Paper account, each on its own: the order log any     *)
(* owner appends to (OrderLog), the budget sessions claim against          *)
(* (TrialBudget) and the controls of the trial with its alerts             *)
(* (TrialAlerts).  They share no state: one of them moves, and the others  *)
(* stay as they began.                                                     *)
(***************************************************************************)
EXTENDS TrialBudget, Sequences

CONSTANTS
  Owners, MaxEvents,                                                    \* OrderLog
  Panels, Prices, NoPrice, Entry, Plans, Settings, Signals, Unavailable, \* TrialAlerts
  None, Day, Fresh, Hour, MaxRows, LastMoment

VARIABLES
  system,      \* the store that moves
  log, issued,
  moment, table, reviewed, panel, account, marking, reading, found, toSave, screen

Log == INSTANCE OrderLog
Alerts == INSTANCE TrialAlerts WITH Sessions <- Panels

ASSUME LogAssumption == Log!MaxEventsAssumption
ASSUME AlertsAssumption == Alerts!RowsAssumption

logs == <<log, issued>>
alerts == <<moment, table, reviewed, panel, account, marking, reading, found, toSave, screen>>
stores == <<system, trial, logs, alerts>>

StoresInit ==
  /\ system \in {"log", "budget", "alerts"}
  /\ Log!Init /\ TrialInit /\ Alerts!Init

StoresNext ==
  /\ \/ system = "log" /\ Log!Next /\ UNCHANGED <<trial, alerts>>
     \/ system = "budget" /\ TrialNext /\ UNCHANGED <<logs, alerts>>
     \/ system = "alerts" /\ Alerts!Next /\ UNCHANGED <<trial, logs>>
  /\ UNCHANGED system

StoresSpec == StoresInit /\ [][StoresNext]_stores

----------------------------------------------------------------------------
\* The constraints of the table are enough: no order of appends makes the log
\* of an owner unreadable, which would block the account for good.  Receipts
\* may be recorded in any order: the fold ends on the newest of them, and the
\* failures recorded around it change nothing.
LoadIsNewest == Log!LoadIsNewest

\* No alert in force is left out unless that very alert was reviewed, what is
\* shown or reviewed is in the history, and the table that holds it can be read
\* (alpaca_alerts.py:47, alpaca_trial_ui.py:268-276, alpaca_trial_store.py:148).
AlertsAreKept == Alerts!AlertsAreKept
=============================================================================
