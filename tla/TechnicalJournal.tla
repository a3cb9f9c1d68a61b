-------------------------- MODULE TechnicalJournal --------------------------
(***************************************************************************)
(* The prospective journal of the technical page: the insert-only table    *)
(* technical_paper_events (technical_paper_store.py), the observations     *)
(* that technical_paper.py lets in, and the page that captures them        *)
(* (technical_paper_ui.py), for one owner with several sessions.           *)
(*                                                                         *)
(* A save is three steps of its own: load and check, insert, load again.   *)
(* Another session may act between them, and only the primary key of the   *)
(* table stands in the way.                                                *)
(*                                                                         *)
(* Time is in ticks, Minute of them to a minute: the server stamps a row   *)
(* with the tick, the user dates a quote by the minute.  Left out: prices  *)
(* and their checks, the optional reference, and payloads.                 *)
(***************************************************************************)
EXTENDS Naturals, FiniteSets

CONSTANTS
  Sessions,    \* sessions of the owner's page
  Signals,     \* evaluable signals: ticker, session and version of the rules
  Buys,        \* those that say "Compra"
  DayEnds,     \* per signal: the last tick of the day of its session
  Minute,      \* ticks to a minute
  Fresh,       \* ticks of the 15 minutes a quote is good for
  MaxEvents,   \* MAX_EVENTS: rows the journal may hold
  MaxTime      \* ticks in this model

SessionsAssumption == IsFiniteSet(Sessions)
SignalsAssumption == Buys \subseteq Signals /\ DayEnds \in [Signals -> Nat]
TimesAssumption ==
  Minute \in Nat \ {0} /\ Fresh \in Nat /\ MaxEvents \in Nat \ {0} /\ MaxTime \in Nat

VARIABLES
  clock,     \* the server's
  journal,   \* the rows of the owner
  shown,     \* per session: the rows it has in memory
  step,      \* per session: the next step of its save
  event      \* per session: the event it is saving

vars == <<clock, journal, shown, step, event>>

Kinds == {"signal", "entry", "exit"}
Times == 0..MaxTime
Events == [signal : Signals, kind : Kinds, quote : Times]
Rows == [signal : Signals, kind : Kinds, quote : Times, at : Times]
NoEvent == [signal |-> CHOOSE g \in Signals : TRUE, kind |-> "signal", quote |-> 0]

Truncated(t) == t - (t % Minute)
Quotes == {t \in Times : Truncated(t) = t}

Has(rows, g, k) == \E r \in rows : r.signal = g /\ r.kind = k
RecordedAt(rows, g, k) == (CHOOSE r \in rows : r.signal = g /\ r.kind = k).at

Init ==
  /\ clock = 0
  /\ journal = {}
  /\ shown = [s \in Sessions |-> {}]
  /\ step = [s \in Sessions |-> "new"]
  /\ event = [s \in Sessions |-> NoEvent]

----------------------------------------------------------------------------
\* load raises when it finds more than MAX_EVENTS rows.
Readable == Cardinality(journal) <= MaxEvents

\* A session opens the page, or presses "Actualizar bitácora".
Show(s) ==
  /\ step[s] \in {"new", "idle"}
  /\ Readable
  /\ shown' = [shown EXCEPT ![s] = journal]
  /\ step' = [step EXCEPT ![s] = "idle"]
  /\ UNCHANGED <<clock, journal, event>>

\* _recent_quote: neither later than now nor older than 15 minutes.
Timely(q) == q \in Quotes /\ q <= clock /\ clock - q <= Fresh

\* What the forms of the page let a session with these rows in memory build.
SignalEvent(rows, ev) == ev.kind = "signal" /\ ~Has(rows, ev.signal, "signal") /\ ev.quote = 0

EntryEvent(rows, ev) ==
  /\ ev.kind = "entry" /\ ev.signal \in Buys
  /\ Has(rows, ev.signal, "signal") /\ ~Has(rows, ev.signal, "entry")
  /\ Timely(ev.quote)
  /\ ev.quote > DayEnds[ev.signal]
  /\ ev.quote >= Truncated(RecordedAt(rows, ev.signal, "signal"))

\* Mutant: the quote of an exit only has to be recent.
ExitEvent_AnyRecent(rows, ev) ==
  /\ ev.kind = "exit"
  /\ Has(rows, ev.signal, "entry") /\ ~Has(rows, ev.signal, "exit")
  /\ Timely(ev.quote)

ExitEvent(rows, ev) ==
  /\ ev.kind = "exit"
  /\ Has(rows, ev.signal, "entry") /\ ~Has(rows, ev.signal, "exit")
  /\ Timely(ev.quote)
  /\ ev.quote >= Truncated(RecordedAt(rows, ev.signal, "entry"))

\* Mutant: one row too many.
Admits_OneMore(ev) ==
  /\ ~Has(journal, ev.signal, ev.kind)
  /\ ev.kind = "signal" \/ Has(journal, ev.signal, "signal")
  /\ ev.kind = "exit" => Has(journal, ev.signal, "entry")
  /\ Cardinality(journal) <= MaxEvents

\* _check_append over the rows just loaded.
Admits(ev) ==
  /\ ~Has(journal, ev.signal, ev.kind)
  /\ ev.kind = "signal" \/ Has(journal, ev.signal, "signal")
  /\ ev.kind = "entry" => ev.signal \in Buys
  /\ ev.kind = "exit" => Has(journal, ev.signal, "entry")
  /\ Cardinality(journal) < MaxEvents

\* A press on one of the three buttons, up to the check of append; what the
\* check refuses is told, and nothing changes.
Check(s, ev) ==
  /\ step[s] = "idle"
  /\ SignalEvent(shown[s], ev) \/ EntryEvent(shown[s], ev) \/ ExitEvent(shown[s], ev)
  /\ Readable
  /\ Admits(ev)
  /\ event' = [event EXCEPT ![s] = ev]
  /\ step' = [step EXCEPT ![s] = "insert"]
  /\ UNCHANGED <<clock, journal, shown>>

\* The insert; the primary key (owner, event_key) refuses a second row.
Insert(s) ==
  /\ step[s] = "insert"
  /\ IF Has(journal, event[s].signal, event[s].kind)
       THEN step' = [step EXCEPT ![s] = "idle"] /\ UNCHANGED journal
       ELSE /\ journal' = journal \cup
                 {[signal |-> event[s].signal, kind |-> event[s].kind,
                   quote |-> event[s].quote, at |-> clock]}
            /\ step' = [step EXCEPT ![s] = "reload"]
  /\ event' = [event EXCEPT ![s] = NoEvent]
  /\ UNCHANGED <<clock, shown>>

\* _save_event: load again; when it fails the session keeps what it had.
Reload(s) ==
  /\ step[s] = "reload"
  /\ shown' = [shown EXCEPT ![s] = IF Readable THEN journal ELSE @]
  /\ step' = [step EXCEPT ![s] = "idle"]
  /\ UNCHANGED <<clock, journal, event>>

\* Any step may fail or be the last one of the session, which starts anew.
Leave(s) ==
  /\ step[s] # "new"
  /\ step' = [step EXCEPT ![s] = "new"]
  /\ shown' = [shown EXCEPT ![s] = {}]
  /\ event' = [event EXCEPT ![s] = NoEvent]
  /\ UNCHANGED <<clock, journal>>

Tick ==
  /\ clock < MaxTime
  /\ clock' = clock + 1
  /\ UNCHANGED <<journal, shown, step, event>>

Next ==
  \/ \E s \in Sessions : Show(s) \/ Insert(s) \/ Reload(s) \/ Leave(s)
  \/ \E s \in Sessions, ev \in Events : Check(s, ev)
  \/ Tick

Spec == Init /\ [][Next]_vars

----------------------------------------------------------------------------
\* Nothing is written into the journal after the fact: an exit has its entry
\* and an entry its signal, and each quote is of the minute of the row before
\* it or later, although the checks of a save run against rows loaded at
\* different moments (technical_paper.py:155 and 197, technical_paper_store.py:116).
LegsInOrder ==
  \A r \in journal : r.kind # "signal" =>
    /\ r.quote <= r.at
    /\ \E p \in journal : /\ p.signal = r.signal
                          /\ p.kind = IF r.kind = "exit" THEN "entry" ELSE "signal"
                          /\ p.quote <= r.quote
                          /\ Truncated(p.at) <= r.quote

\* The limit is checked on a load made before the insert: each session may
\* overrun it by the one event it is saving, and by no more.
OverrunIsBounded == Cardinality(journal) < MaxEvents + Cardinality(Sessions)
=============================================================================
