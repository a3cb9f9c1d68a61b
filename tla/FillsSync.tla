----------------------------- MODULE FillsSync -----------------------------
(***************************************************************************)
(* The download of the executions: the second half of refresh_results      *)
(* (alpaca_results_sync.py), its rows in the trial store                   *)
(* (alpaca_trial_store.py) and stored_fills, which lets the results and    *)
(* the budget read them only if they are a complete download.              *)
(*                                                                         *)
(* Fills are numbered by (timestamp, id), the order they are saved in; the *)
(* broker, external, may report them in another.  A fill is one row under  *)
(* a key of its own, and a repeated append of the same row changes nothing.*)
(* Sessions die between any two calls, and any append may fail.            *)
(***************************************************************************)
EXTENDS FiniteSetsExt

CONSTANTS
  Sessions,
  Fills        \* the executions of this model, positive numbers

VARIABLES
  made,      \* the fills the broker has reported
  rows,      \* the fills in the store
  synced,    \* what the latest fills_sync event says was downloaded
  step,      \* per session: the next call of its refresh
  got,       \* per session: the fills it downloaded
  toSave,    \* per session: those it still has to append
  downloads  \* the complete downloads made so far (history)

vars == <<made, rows, synced, step, got, toSave, downloads>>

NeverSynced == {0}

Init ==
  /\ made = {}
  /\ rows = {}
  /\ synced = NeverSynced
  /\ step = [s \in Sessions |-> "idle"]
  /\ got = [s \in Sessions |-> {}]
  /\ toSave = [s \in Sessions |-> {}]
  /\ downloads = {}

Goto(s, next) == step' = [step EXCEPT ![s] = next]

Return(s) ==
  /\ Goto(s, "idle")
  /\ got' = [got EXCEPT ![s] = {}]
  /\ toSave' = [toSave EXCEPT ![s] = {}]

----------------------------------------------------------------------------
\* fetch_fills: every page, or an error.
Download(s) ==
  /\ step[s] = "idle"
  /\ got' = [got EXCEPT ![s] = made]
  /\ downloads' = downloads \cup {made}
  /\ Goto(s, "load")
  /\ UNCHANGED <<made, rows, synced, toSave>>

\* Mutant: with nothing to save the refresh ends here.
LoadKnown_NothingNew(s) ==
  /\ step[s] = "load"
  /\ IF got[s] \subseteq rows
     THEN Return(s)
     ELSE /\ toSave' = [toSave EXCEPT ![s] = got[s] \ rows]
          /\ Goto(s, "save")
          /\ UNCHANGED got
  /\ UNCHANGED <<made, rows, synced, downloads>>

\* The fills already in the store.
LoadKnown(s) ==
  /\ step[s] = "load"
  /\ toSave' = [toSave EXCEPT ![s] = got[s] \ rows]
  /\ Goto(s, "save")
  /\ UNCHANGED <<made, rows, synced, got, downloads>>

\* One fill, in the order of the download; another session may have it saved.
SaveFill(s) ==
  /\ step[s] = "save"
  /\ toSave[s] # {}
  /\ rows' = rows \cup {Min(toSave[s])}
  /\ toSave' = [toSave EXCEPT ![s] = @ \ {Min(@)}]
  /\ UNCHANGED <<made, synced, step, got, downloads>>

\* Mutant: the summary is made of what is stored.
SaveSync_OfStored(s) ==
  /\ step[s] = "save"
  /\ synced' = rows
  /\ Return(s)
  /\ UNCHANGED <<made, rows, downloads>>

\* The summary of the download: how many fills, and their digest.
SaveSync(s) ==
  /\ step[s] = "save"
  /\ toSave[s] = {}
  /\ synced' = got[s]
  /\ Return(s)
  /\ UNCHANGED <<made, rows, downloads>>

\* A call fails or the session dies; an append may have been made.
Fail(s) ==
  /\ step[s] # "idle"
  /\ Return(s)
  /\ UNCHANGED <<made, rows, synced, downloads>>

BrokerFills ==
  /\ \E f \in Fills \ made : made' = made \cup {f}
  /\ UNCHANGED <<rows, synced, step, got, toSave, downloads>>

Refresh(s) == Download(s) \/ LoadKnown(s) \/ SaveFill(s) \/ SaveSync(s)

Next == BrokerFills \/ \E s \in Sessions : Refresh(s) \/ Fail(s)

Spec == Init /\ [][Next]_vars

----------------------------------------------------------------------------
\* stored_fills: whether it returns the rows or asks for another refresh.
Readable == rows = {} \/ synced = rows

\* Results and budgets are never computed from part of a download, whatever
\* failed half way and however the refreshes overlap.
ReadableIsComplete == rows # {} /\ Readable => rows \in downloads
=============================================================================
