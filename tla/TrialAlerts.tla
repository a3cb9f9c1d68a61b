---------------------------- MODULE TrialAlerts ----------------------------
(***************************************************************************)
(* The controls of a trial and its alerts (alpaca_trial_ui.py,             *)
(* alpaca_alerts.py), kept in the insert-only table alpaca_trial_events    *)
(* (alpaca_trial_store.py).  The panel of the alerts runs again at every   *)
(* press and, with its toggle on, by itself: it reads the table, evaluates *)
(* the position, appends the alerts that are new and shows those nobody    *)
(* has marked as reviewed.  Sessions run it side by side, each of its      *)
(* calls may fail, and what is pressed is carried out at the end of the    *)
(* run that follows.                                                       *)
(*                                                                         *)
(* One symbol, with a position of one share in the account.  The executions*)
(* kept in the same table are in FillsSync.  "reviewed" is the history of  *)
(* the alerts that were marked, in full.  What is on a screen is forgotten *)
(* when its next run begins.                                               *)
(***************************************************************************)
EXTENDS Integers, Sequences, FiniteSets

CONSTANTS
  Sessions,
  Prices,       \* of the position, at the broker: external
  NoPrice,      \* the broker has no confirmed price
  Entry,        \* the entry price of the position
  Plans,        \* exit plans a user may write: [stop, reference, target, review]
  Settings,     \* limits a user may write: [capital, loss, position, order]
  Signals,      \* what the strategy says of a final session; "buy" is told the first time
  Unavailable,
  None,         \* no plan, no settings, no observation
  Day,          \* ticks of a day
  Fresh,        \* age of an account (15 minutes) and of an observation (an hour)
  Hour,
  MaxRows,      \* MAX_EVENTS of the table
  LastMoment    \* bound of the clock

RowsAssumption == MaxRows \in Nat

VARIABLES
  moment,       \* the clock
  table,        \* the rows of the trial, the latest plan and settings and how many rows
  reviewed,     \* the alerts marked so far (history)
  panel,        \* per session: the next call of its panel
  account,      \* per session: the account consulted last
  marking,      \* per session: whether "Marcar revisada" was pressed
  reading,      \* per session: the observation it is about to record
  found,        \* per session: the alerts in force in this run
  toSave,       \* per session: those it still has to append
  screen        \* per session: what its last run found and shows as not reviewed

vars == <<moment, table, reviewed, panel, account, marking, reading, found, toSave, screen>>

Today == moment \div Day
Blank == [found |-> {}, unread |-> {}]

Init ==
  /\ moment = 0
  /\ table = [plan |-> None, settings |-> None, observed |-> <<>>, alerts |-> {}, acks |-> {}, rows |-> 0]
  /\ reviewed = {}
  /\ panel = [s \in Sessions |-> "idle"]
  /\ account \in [Sessions -> [price : Prices, at : {0}]]
  /\ marking = [s \in Sessions |-> FALSE]
  /\ reading = [s \in Sessions |-> None]
  /\ found = [s \in Sessions |-> {}]
  /\ toSave = [s \in Sessions |-> {}]
  /\ screen = [s \in Sessions |-> Blank]

-----------------------------------------------------------------------------
(* append: in one transaction, a row that is there already is left as it is *)
(* and a new one needs room.                                                *)
HasRoom == table.rows < MaxRows
Insert(part, value) == table' = [table EXCEPT ![part] = value, !.rows = @ + 1]

Recorded == {a.key : a \in table.alerts}
RecordAlert(alert) ==
  IF alert.key \in Recorded THEN UNCHANGED table
  ELSE HasRoom /\ Insert("alerts", table.alerts \cup {alert})

Acknowledge(alert) ==
  IF alert.key \in table.acks THEN UNCHANGED table
  ELSE HasRoom /\ Insert("acks", table.acks \cup {alert.key})

\* Two consultations are two rows, a repeated response is one.
Observe(o) ==
  IF \E i \in DOMAIN table.observed : table.observed[i] = o THEN UNCHANGED table
  ELSE HasRoom /\ Insert("observed", Append(table.observed, o))

-----------------------------------------------------------------------------
(* The forms, in any session: every revision has a key of its own.          *)
PlanFits(p) == 0 < p.stop /\ p.stop < p.reference /\ p.reference < p.target /\ Today <= p.review
SettingsFit(v) ==
  /\ \A part \in DOMAIN v : v[part] > 0
  /\ v.position <= v.capital /\ v.loss <= v.capital /\ v.order <= v.loss

SaveControls ==
  /\ HasRoom
  /\ \/ \E p \in Plans : PlanFits(p) /\ Insert("plan", [key |-> table.rows, value |-> p])
     \/ \E v \in Settings : SettingsFit(v) /\ Insert("settings", [key |-> table.rows, value |-> v])
  /\ UNCHANGED <<moment, reviewed, panel, account, marking, reading, found, toSave, screen>>

-----------------------------------------------------------------------------
(* active_alerts.  What an alert is about: its kind, the revision or the    *)
(* reading it refers to, and the day, None when it is no part of it.        *)

\* Mutant: a revision is not part of the key.
Key_AnyRevision(kind, about, day) == <<kind, day>>

Key(kind, about, day) == <<kind, about, day>>
Alert(kind, about, day) == [key |-> Key(kind, about, day), kind |-> kind, about |-> about, day |-> day]

Exposure(now) == IF now.price < Entry THEN Entry ELSE now.price

OfThePosition(now) ==
  LET plan == table.plan.value
      told == {kind \in {"stop", "target", "review"} :
                 CASE kind = "stop" -> now.price <= plan.stop
                   [] kind = "target" -> now.price >= plan.target
                   [] kind = "review" -> Today > plan.review}
  IN IF now.price = NoPrice THEN {Alert("missing_price", None, Today)}
     ELSE IF table.plan = None THEN {Alert("missing_plan", None, Today)}
     ELSE {Alert(kind, table.plan.key, Today) : kind \in told}

OfTheLimits(now) ==
  LET limits == table.settings.value
      exceeded == {kind \in {"position_limit", "capital"} :
                     CASE kind = "position_limit" -> table.plan # None /\ Exposure(now) > limits.position
                       [] kind = "capital" -> Exposure(now) > limits.capital}
  IN IF table.settings = None \/ now.price = NoPrice THEN {}
     ELSE {Alert(kind, table.settings.key, Today) : kind \in exceeded}

\* Two consultations of one session and signal are one reading.
Logical(o) == <<o.session, o.signal>>
OfTheReading ==
  LET o == table.observed[Len(table.observed)]
      others == {i \in DOMAIN table.observed : Logical(table.observed[i]) # Logical(o)}
      previous == table.observed[CHOOSE i \in others : \A j \in others : j <= i]
      news == IF others = {} THEN IF o.signal = "buy" THEN {"signal"} ELSE {}
              ELSE IF previous.signal # o.signal THEN {"signal_change"} ELSE {}
  IN IF table.observed = <<>> THEN {}
     ELSE IF o.signal = Unavailable THEN {Alert("data", None, Today)}
     ELSE {Alert(kind, Logical(o), None) : kind \in news}
          \cup (IF moment - o.fetched > Hour THEN {Alert("stale_signal", None, Today)} ELSE {})

Active(now) ==
  OfThePosition(now) \cup OfTheLimits(now) \cup OfTheReading
    \cup (IF moment - now.at > Fresh THEN {Alert("stale_account", None, Today)} ELSE {})

-----------------------------------------------------------------------------
(* One run of the panel.                                                    *)
Goto(s, next) == panel' = [panel EXCEPT ![s] = next]
Consult(s) == \E p \in Prices \cup {NoPrice} : account' = [account EXCEPT ![s] = [price |-> p, at |-> moment]]

\* A press, or the timer of the toggle, which consults the account first.
Run(s) ==
  /\ panel[s] = "idle"
  /\ UNCHANGED account \/ Consult(s)
  /\ \E press \in BOOLEAN : /\ press => screen[s].unread # {}
                           /\ marking' = [marking EXCEPT ![s] = press]
  /\ screen' = [screen EXCEPT ![s] = Blank]
  /\ Goto(s, "evaluate")
  /\ UNCHANGED <<moment, table, reviewed, reading, found, toSave>>

\* "Actualizar señales y alertas": the account, then the history; a history
\* that fails is an observation too.
Fetch(s) ==
  /\ panel[s] = "idle"
  /\ Consult(s)
  /\ \E o \in [session : {Today}, signal : Signals, fetched : {moment}]
               \cup [session : {None}, signal : {Unavailable}, fetched : {moment}] :
       reading' = [reading EXCEPT ![s] = o]
  /\ screen' = [screen EXCEPT ![s] = Blank]
  /\ Goto(s, "record")
  /\ UNCHANGED <<moment, table, reviewed, marking, found, toSave>>

Record(s) ==
  /\ panel[s] = "record"
  /\ Observe(reading[s])
  /\ reading' = [reading EXCEPT ![s] = None]
  /\ Goto(s, "evaluate")
  /\ UNCHANGED <<moment, reviewed, account, marking, found, toSave, screen>>

Evaluate(s) ==
  /\ panel[s] = "evaluate"
  /\ found' = [found EXCEPT ![s] = Active(account[s])]
  /\ toSave' = [toSave EXCEPT ![s] = {a \in Active(account[s]) : a.key \notin Recorded}]
  /\ Goto(s, "save")
  /\ UNCHANGED <<moment, table, reviewed, account, marking, reading, screen>>

Save(s) ==
  /\ panel[s] = "save"
  /\ \E a \in toSave[s] : RecordAlert(a) /\ toSave' = [toSave EXCEPT ![s] = @ \ {a}]
  /\ UNCHANGED <<moment, reviewed, panel, account, marking, reading, found, screen>>

\* Mutant: the list is shown while the alerts are being saved.
Show_AtOnce(s) ==
  /\ panel[s] = "save"
  /\ LET unread == {a \in found[s] : a.key \notin table.acks}
     IN /\ screen' = [screen EXCEPT ![s] = [found |-> found[s], unread |-> unread]]
        /\ Goto(s, IF marking[s] /\ unread # {} THEN "mark" ELSE "idle")
  /\ found' = [found EXCEPT ![s] = {}]
  /\ toSave' = [toSave EXCEPT ![s] = {}]
  /\ marking' = [marking EXCEPT ![s] = FALSE]
  /\ UNCHANGED <<moment, table, reviewed, account, reading>>

\* The acknowledgements are read after every alert is saved.
Show(s) ==
  /\ panel[s] = "save"
  /\ toSave[s] = {}
  /\ LET unread == {a \in found[s] : a.key \notin table.acks}
     IN /\ screen' = [screen EXCEPT ![s] = [found |-> found[s], unread |-> unread]]
        /\ Goto(s, IF marking[s] /\ unread # {} THEN "mark" ELSE "idle")
  /\ found' = [found EXCEPT ![s] = {}]
  /\ marking' = [marking EXCEPT ![s] = FALSE]
  /\ UNCHANGED <<moment, table, reviewed, account, reading, toSave>>

\* "Marcar revisada" marks what the selection holds in this run: with other
\* alerts to choose from, Streamlit, external, may have moved it.
Mark(s) ==
  /\ panel[s] = "mark"
  /\ \E a \in screen[s].unread : Acknowledge(a) /\ reviewed' = reviewed \cup {a}
  /\ screen' = [screen EXCEPT ![s] = Blank]
  /\ Goto(s, "idle")
  /\ UNCHANGED <<moment, account, marking, reading, found, toSave>>

\* A call fails, or the table is full: an error, and no alerts on the screen.
Fail(s) ==
  /\ panel[s] # "idle"
  /\ marking' = [marking EXCEPT ![s] = FALSE]
  /\ reading' = [reading EXCEPT ![s] = None]
  /\ found' = [found EXCEPT ![s] = {}]
  /\ toSave' = [toSave EXCEPT ![s] = {}]
  /\ screen' = [screen EXCEPT ![s] = Blank]
  /\ Goto(s, "idle")
  /\ UNCHANGED <<moment, table, reviewed, account>>

Panel(s) == Run(s) \/ Fetch(s) \/ Record(s) \/ Evaluate(s) \/ Save(s) \/ Show(s) \/ Mark(s) \/ Fail(s)

Tick ==
  /\ moment < LastMoment
  /\ moment' = moment + 1
  /\ UNCHANGED <<table, reviewed, panel, account, marking, reading, found, toSave, screen>>

Next == Tick \/ SaveControls \/ \E s \in Sessions : Panel(s)

Spec == Init /\ [][Next]_vars

-----------------------------------------------------------------------------
\* What is in force and not shown as pending was marked as reviewed by
\* somebody, for the same revision of the plan or of the limits, the same
\* reading and the same day: no review silences anything else
\* (alpaca_alerts.py:47, alpaca_trial_ui.py:274-276).
OnlyTheReviewedIsQuiet ==
  \A s \in Sessions : \A a \in screen[s].found \ screen[s].unread :
    \E r \in reviewed : r.kind = a.kind /\ r.about = a.about /\ r.day = a.day

\* Whatever is on a screen, or was marked, is in the history, and once
\* (alpaca_trial_ui.py:270-276, alpaca_trial_store.py:146-151).
ShownIsRecorded ==
  /\ \A s \in Sessions : \A a \in screen[s].unread : a.key \in Recorded
  /\ table.acks \subseteq Recorded

\* The limit is checked in the transaction of the insert: the load of the
\* controls, which refuses more rows than that, always succeeds
\* (alpaca_trial_store.py:131 and 148).
ControlsAreReadable == table.rows <= MaxRows

\* No alert in force is left out unless that very alert was reviewed, what is
\* shown or reviewed is in the history, and the table that holds it can be read.
AlertsAreKept == OnlyTheReviewedIsQuiet /\ ShownIsRecorded /\ ControlsAreReadable
=============================================================================
