-------------------------- MODULE TechnicalSignals --------------------------
(***************************************************************************)
(* Which candles a signal is computed from.  A session downloads the       *)
(* history of an action (technical_market_data.py), keeps it, and computes *)
(* the signal anew on every run of the page (technical_ui.py): what is a   *)
(* complete candle is decided when the signal is computed                  *)
(* (completed_bars, technical_analysis.py), not when it was downloaded.    *)
(* The journal registers what the page shows, if the download is recent    *)
(* (technical_paper_ui.py).                                                *)
(*                                                                         *)
(* Time is in ticks of the exchange's zone, Day of them to a day; a        *)
(* candle is that of a day, final once its session has closed and settled. *)
(* The session is one that closes well before midnight: of an exchange     *)
(* open until late (RegisteredAreFinal) the hour would not be enough.      *)
(* Left out: weekends, the 252 candles a signal needs, prices.             *)
(***************************************************************************)
EXTENDS Integers

CONSTANTS
  Day,       \* ticks to a day
  Open,      \* tick of the day at which the session opens
  Close,     \* tick of the day at which it closes
  Settle,    \* ticks of the 15 minutes after the close
  Recent,    \* ticks of the hour a download may be registered for
  MaxAge,    \* 5: days that the last candle may be old
  MaxTime    \* ticks in this model

TimesAssumption ==
  /\ Day \in Nat /\ Open \in Nat /\ Close \in Nat /\ Settle \in Nat \ {0} /\ Recent \in Nat
  /\ Open < Close /\ Close + Settle + Recent < Day
  /\ MaxAge \in Nat /\ MaxTime \in Nat

VARIABLES
  now,       \* the clock
  history,   \* the download kept: when, its last candle, whether it tells the close
  journal    \* the candles of the signals registered, and when they were taken

vars == <<now, history, journal>>

DayOf(t) == t \div Day
TickOf(t) == t % Day
Days == 0..DayOf(MaxTime)

NoHistory == [at |-> -1, last |-> -1, close |-> FALSE]

\* A candle of day d taken at t is final once that session has settled.
Final(d, t) == d < DayOf(t) \/ (d = DayOf(t) /\ TickOf(t) >= Close + Settle)

Init == now = 0 /\ history = NoHistory /\ journal = {}

Tick == now < MaxTime /\ now' = now + 1 /\ UNCHANGED <<history, journal>>

\* The provider, external: a candle of today from the open on, or not yet; it
\* may say when today's session closes, or say nothing.
Newest(d) ==
  \/ d = DayOf(now) /\ TickOf(now) >= Open
  \/ d < DayOf(now)

\* "Actualizar señales": download_market_history.
Download(d, close) ==
  /\ Newest(d)
  /\ history' = [at |-> now, last |-> d, close |-> close]
  /\ UNCHANGED <<now, journal>>

----------------------------------------------------------------------------
\* Mutant: the close has passed when the page runs, whenever the download was.
ConfirmedToday_AtAnyTime(h, t) == h.close /\ TickOf(t) >= Close + Settle

\* The close told is today's, and both now and the download are later than it
\* by 15 minutes.
ConfirmedToday(h, t) ==
  /\ h.close /\ DayOf(h.at) = DayOf(t)
  /\ TickOf(t) >= Close + Settle
  /\ TickOf(h.at) >= Close + Settle

\* completed_bars: the days up to today or before it; its last one is the
\* candle that the signal is computed from.
LastBar(h, t) == IF h.last = DayOf(t) /\ ~ConfirmedToday(h, t) THEN h.last - 1 ELSE h.last

\* analyze_history: there is a signal, unless the last candle is too old.
Evaluable(h, t) == h # NoHistory /\ LastBar(h, t) >= 0 /\ DayOf(t) - LastBar(h, t) <= MaxAge

\* Mutant: any download may be registered.
Registrable_AnyAge(h, t) == Evaluable(h, t)

\* _render_signal_capture: the download is at most an hour old.
Registrable(h, t) == Evaluable(h, t) /\ t - h.at <= Recent

\* "Registrar señal observada"; signal_event fixes the session and the source.
Register ==
  /\ Registrable(history, now)
  /\ \A r \in journal : r.day # LastBar(history, now)
  /\ journal' = journal \cup {[day |-> LastBar(history, now), taken |-> history.at]}
  /\ UNCHANGED <<now, history>>

Next == Tick \/ Register \/ \E d \in Days, close \in BOOLEAN : Download(d, close)

Spec == Init /\ [][Next]_vars

----------------------------------------------------------------------------
\* The signal of the same day never uses a candle in progress, however often
\* the page runs between the download and the close (technical_analysis.py:120).
TodayOnlyWhenClosed ==
  Evaluable(history, now) /\ DayOf(history.at) = DayOf(now)
    => Final(LastBar(history, now), history.at)

\* What the journal fixes for good was computed from a final candle: within
\* the hour that a download may be registered for, no session that was open
\* becomes yesterday's (technical_paper_ui.py:78).
RegisteredAreFinal == \A r \in journal : Final(r.day, r.taken)

\* No signal of today uses a candle in progress, and what the journal fixes was
\* computed from a final candle.
SignalsUseFinalCandles == TodayOnlyWhenClosed /\ RegisteredAreFinal

\* "Una vela descargada antes del cierre sigue excluida aunque se revise
\* después; hay que actualizar" (docs/technical_signals.md:67).
UnfinishedStaysOut == Evaluable(history, now) => Final(LastBar(history, now), history.at)
=============================================================================
