--------------------------- MODULE ResultsRefresh ---------------------------
(***************************************************************************)
(* refresh_results (alpaca_results_sync.py) as a whole: a press looks up a *)
(* batch of attempts (BatchRotation) and then downloads the executions     *)
(* (FillsSync), whatever the lookups came to.  Sessions press at the same  *)
(* time and may die anywhere.                                              *)
(***************************************************************************)
EXTENDS Naturals, Sequences, FiniteSets

CONSTANTS Sessions, Drafts, BatchSize, Fills

ASSUME SetsAssumption == IsFiniteSet(Sessions) /\ IsFiniteSet(Drafts)
ASSUME BatchAssumption == BatchSize \in Nat \ {0}
ASSUME FillsAssumption == Fills \subseteq Nat \ {0}

VARIABLES
  phase,                         \* per session: the half of the press it is in
  pending, order, batch, turns,  \* see BatchRotation
  made, rows, synced, step, got, toSave, downloads  \* see FillsSync

lookups == <<pending, order, batch, turns>>
executions == <<made, rows, synced, step, got, toSave, downloads>>
vars == <<phase, lookups, executions>>

Lookups == INSTANCE BatchRotation
Executions == INSTANCE FillsSync

Init ==
  /\ phase = [s \in Sessions |-> "idle"]
  /\ Lookups!Init
  /\ Executions!Init

Enter(s, next) == phase' = [phase EXCEPT ![s] = next]

\* The log is loaded.  With nothing pending the press goes on to the download.
Press(s) ==
  /\ phase[s] = "idle"
  /\ \/ Lookups!Press(s) /\ Enter(s, "lookups")
     \/ pending = {} /\ Enter(s, "executions") /\ UNCHANGED lookups
  /\ UNCHANGED executions

LookUp(s) ==
  /\ phase[s] = "lookups"
  /\ Lookups!LookUp(s) \/ Lookups!LookUpUnsaved(s)
  /\ IF batch'[s] = <<>> THEN Enter(s, "executions") ELSE UNCHANGED phase
  /\ UNCHANGED executions

Fetch(s) ==
  /\ phase[s] = "executions"
  /\ Executions!Refresh(s)
  /\ IF step'[s] = "idle" THEN Enter(s, "idle") ELSE UNCHANGED phase
  /\ UNCHANGED lookups

\* The session dies, or the download or an append of it fails.
Fail(s) ==
  /\ \/ phase[s] = "lookups" /\ Lookups!Crash(s) /\ UNCHANGED executions
     \/ phase[s] = "executions" /\ Executions!Fail(s) /\ UNCHANGED lookups
     \/ phase[s] = "executions" /\ step[s] = "idle" /\ UNCHANGED <<lookups, executions>>
  /\ Enter(s, "idle")

BrokerFills == Executions!BrokerFills /\ UNCHANGED <<phase, lookups>>

Next ==
  \/ BrokerFills
  \/ \E s \in Sessions : Press(s) \/ LookUp(s) \/ Fetch(s) \/ Fail(s)

Spec == Init /\ [][Next]_vars

\* Asked of the user and of the calls: one session presses again and again and
\* is not cut at the same place for ever.
LiveSpec ==
  Spec /\ \E s \in Sessions :
            /\ SF_vars(Press(s))
            /\ \A n \in 1..BatchSize : SF_vars(LookUp(s) /\ Len(batch[s]) = n)
            /\ \A call \in {"idle", "load", "save"} : SF_vars(Fetch(s) /\ step[s] = call)

----------------------------------------------------------------------------
\* "Los intentos que fallan rotan para no bloquear indefinidamente la consulta
\* de los demás": while an attempt waits for its lookup, no other is looked up
\* and recorded more than once per session refreshing.
TurnsAreShared == Lookups!TurnsAreShared

\* Results and budgets are never computed from part of a download, whatever
\* failed half way and however the refreshes overlap.
ReadableIsComplete == Executions!ReadableIsComplete

\* Overlapping refreshes, failed lookups and failed appends leave nothing that
\* the next press does not repair: once the broker is quiet the rows are all
\* there and readable, also if no lookup ever succeeds.
CatchesUp == <>[](Executions!Readable /\ rows = made)
=============================================================================
