---------------------------- MODULE TrialBudget ----------------------------
(***************************************************************************)
(* The budget of a trial: build_trial_context (alpaca_risk.py) reads the   *)
(* account in four calls that are not one transaction, and the claim of    *)
(* the intent (alpaca_order_store.py, supabase/alpaca_trial_controls.sql)  *)
(* adds, in one transaction, what those reads may have missed.             *)
(*                                                                         *)
(* The orders are those of OrderPromise, which PaperOrders implements: the *)
(* other sessions, the broker and the lookups move them at any moment.     *)
(*                                                                         *)
(* Amounts are shares at one price, so that every limit (capital, amount   *)
(* per symbol, loss at the stop) is a ledger: a charge per share of each   *)
(* draft and a limit that depends on the controls in force.  Sales and     *)
(* price moves, which free or consume a budget with no claim, are left     *)
(* out.  "controls" stands for the latest settings and plan events, each   *)
(* saved once under a key of its own.                                      *)
(***************************************************************************)
EXTENDS PaperAccount, FiniteSets, Functions

CONSTANTS
  Symbol,       \* per draft
  Controls,     \* revisions of the settings and the plan
  Ledgers,
  Charge,       \* per ledger and draft: charge of one share, 0 if not in it
  Limit,        \* per revision and ledger
  Skewed        \* sessions whose clock may be ahead of the database's

ASSUME DraftsAssumption == IsFiniteSet(Drafts)
ASSUME LedgerAssumption ==
  /\ Charge \in [Ledgers -> [Drafts -> Nat]]
  /\ Limit \in [Controls -> [Ledgers -> Nat]]
  /\ Skewed \subseteq Sessions

VARIABLES
  told, sent, refused, truth,   \* the orders: see OrderPromise
  controls,            \* the revision in force
  retired,             \* earlier revisions
  step,                \* per session: the next call of build_trial_context
  mine,                \* per session: the draft to claim
  key,                 \* per session: the revision it read
  loaded,              \* per session: the order states it loaded
  held,                \* per session: shares of each draft in the positions read
  open,                \* per session: open orders read
  seen,                \* per session: those it can name (seen_order_ids)
  late                 \* per session: drafts recorded on after read_started_at

orders == <<told, sent, refused, truth>>
reads == <<step, mine, key, loaded, held, open, seen>>
trial == <<orders, controls, retired, reads, late>>

Orders == INSTANCE OrderPromise

NothingHeld == [d \in Drafts |-> 0]
NothingLoaded == [d \in Drafts |-> NoIntent]

TrialInit ==
  /\ Orders!Init
  /\ controls \in Controls
  /\ retired = {}
  /\ step = [s \in Sessions |-> "idle"]
  /\ mine = [s \in Sessions |-> NoDraft]
  /\ key = [s \in Sessions |-> controls]
  /\ loaded = [s \in Sessions |-> NothingLoaded]
  /\ held = [s \in Sessions |-> NothingHeld]
  /\ open = [s \in Sessions |-> {}]
  /\ seen = [s \in Sessions |-> {}]
  /\ late = [s \in Sessions |-> {}]

Proceed(s, next) == step' = [step EXCEPT ![s] = next]

Forget(s) ==
  /\ Proceed(s, "idle")
  /\ mine' = [mine EXCEPT ![s] = NoDraft]
  /\ key' = [key EXCEPT ![s] = controls]
  /\ loaded' = [loaded EXCEPT ![s] = NothingLoaded]
  /\ held' = [held EXCEPT ![s] = NothingHeld]
  /\ open' = [open EXCEPT ![s] = {}]
  /\ seen' = [seen EXCEPT ![s] = {}]
  /\ late' = [late EXCEPT ![s] = {}]

----------------------------------------------------------------------------
OpenAtBroker == {d \in Drafts : truth[d].status \in Statuses \ Terminal}

\* read_started_at is noted and the snapshot brings the positions.
ReadPositions(s, d) ==
  /\ step[s] = "idle"
  /\ told[d] = NoIntent
  /\ mine' = [mine EXCEPT ![s] = d]
  /\ held' = [held EXCEPT ![s] = [e \in Drafts |-> truth[e].filled]]
  /\ Proceed(s, "load")
  /\ UNCHANGED <<orders, controls, retired, key, loaded, open, seen, late>>

\* Both logs are loaded.  That the stored fills are those of a complete
\* download is in FillsSync.
Load(s) ==
  /\ step[s] = "load"
  /\ key' = [key EXCEPT ![s] = controls]
  /\ loaded' = [loaded EXCEPT ![s] = told]
  /\ Proceed(s, "fills")
  /\ UNCHANGED <<orders, controls, retired, mine, held, open, seen, late>>

\* fill_results finds no issue: nothing is unresolved, the executions are
\* those of the confirmed orders and add up to the positions.
Reconciled(s) ==
  LET attempts == {d \in Drafts : loaded[s][d] # NoIntent}
      alike(d) == {e \in Drafts : Symbol[e] = Symbol[d]}
  IN  \A d \in attempts :
        /\ ~Unresolved(loaded[s][d])
        /\ HasReceipt(loaded[s][d]) => loaded[s][d].rcpt.filled = truth[d].filled
        /\ SumFunctionOnSet([e \in Drafts |-> truth[e].filled], alike(d))
             = SumFunctionOnSet(held[s], alike(d))

FetchFills(s) ==
  /\ step[s] = "fills"
  /\ Reconciled(s)
  /\ Proceed(s, "open")
  /\ UNCHANGED <<orders, controls, retired, mine, key, loaded, held, open, seen, late>>

\* The open orders, and which of them this session can name by a receipt.
FetchOpenOrders(s) ==
  /\ step[s] = "open"
  /\ open' = [open EXCEPT ![s] = OpenAtBroker]
  /\ seen' = [seen EXCEPT ![s] = {d \in OpenAtBroker : HasReceipt(loaded[s][d])}]
  /\ loaded' = [loaded EXCEPT ![s] = NothingLoaded]
  /\ Proceed(s, "claim")
  /\ UNCHANGED <<orders, controls, retired, mine, key, held, late>>

\* Any check refuses, or the handler dies.
GiveUp(s) ==
  /\ step[s] # "idle"
  /\ Forget(s)
  /\ UNCHANGED <<orders, controls, retired>>

----------------------------------------------------------------------------
\* Mutant: an attempt that has ended is never extra, however late it ended.
Extra_EndedIsSettled(s) ==
  {d \in Drafts \ {mine[s]} :
     /\ told[d] \notin {NoIntent, Rejected}
     /\ HasReceipt(told[d]) => d \notin seen[s] /\ told[d].rcpt.status \notin Terminal}

\* extra_reservations: the attempts the reads of s may have missed.
Extra(s) ==
  {d \in Drafts \ {mine[s]} :
     /\ told[d] \notin {NoIntent, Rejected}
     /\ HasReceipt(told[d]) => /\ d \notin seen[s]
                               /\ told[d].rcpt.status \in Terminal => d \in late[s]}

\* What s reckons for draft d: its shares in the positions, the whole of it if
\* it is open (the two reads are not one snapshot), the whole if it is extra.
Reserved(s, d) ==
  held[s][d] + (IF d \in open[s] THEN Qty ELSE 0) + (IF d \in Extra(s) THEN Qty ELSE 0)

\* check_claim, for the ledgers the draft is in.
Fits(s, l) ==
  Charge[l][mine[s]] > 0 =>
    Charge[l][mine[s]] * Qty + SumFunction([d \in Drafts |-> Charge[l][d] * Reserved(s, d)])
      <= Limit[key[s]][l]

\* Mutant: the controls are not compared again.
ClaimBudget_StaleControls(s) ==
  /\ step[s] = "claim"
  /\ \A l \in Ledgers : Fits(s, l)
  /\ Orders!Claim(mine[s])
  /\ Forget(s)
  /\ UNCHANGED <<controls, retired>>

\* One transaction: the controls are those read, the budget holds with what
\* was missed, and the intent is inserted.
ClaimBudget(s) ==
  /\ step[s] = "claim"
  /\ key[s] = controls
  /\ \A l \in Ledgers : Fits(s, l)
  /\ Orders!Claim(mine[s])
  /\ Forget(s)
  /\ UNCHANGED <<controls, retired>>

\* Settings or a plan are saved: the revision before is never in force again.
SaveControls(k) ==
  /\ k \notin retired \cup {controls}
  /\ controls' = k
  /\ retired' = retired \cup {controls}
  /\ UNCHANGED <<orders, reads, late>>

\* An event of d is recorded.  It counts as later than read_started_at for
\* every session reading, except those whose clock is ahead: the database
\* admits a cutoff up to a minute ahead of its own clock.
Tell(d) ==
  /\ Orders!TellNothing(d) \/ Orders!TellReceipt(d)
  /\ \E ahead \in SUBSET Skewed :
       late' = [s \in Sessions |-> IF step[s] = "idle" THEN {}
                                  ELSE IF s \in ahead THEN late[s]
                                  ELSE late[s] \cup {d}]
  /\ UNCHANGED <<controls, retired, reads>>

Market(d) ==
  /\ Orders!Send(d) \/ Orders!MarketRefuses(d) \/ Orders!MarketMoves(d)
  /\ UNCHANGED <<controls, retired, reads, late>>

Build(s) ==
  \/ \E d \in Drafts : ReadPositions(s, d)
  \/ Load(s) \/ FetchFills(s) \/ FetchOpenOrders(s) \/ GiveUp(s) \/ ClaimBudget(s)

TrialNext ==
  \/ \E s \in Sessions : Build(s)
  \/ \E d \in Drafts : Tell(d) \/ Market(d)
  \/ \E k \in Controls : SaveControls(k)

TrialSpec == TrialInit /\ [][TrialNext]_trial

----------------------------------------------------------------------------
\* What draft d commits the account to: its shares once it has ended, the
\* whole order until then, nothing if it was refused.
Exposure(d) ==
  IF told[d] \in {NoIntent, Rejected} THEN 0
  ELSE IF truth[d].status \in Terminal THEN truth[d].filled ELSE Qty

\* "Los intentos de la app aún no representados en esa consulta también
\* consumen reserva": whatever moved between the reads of a session, no other
\* attempt commits the account to more than the session reserves for it.  It
\* takes a clock that is not ahead: see ReservationsCoverAll.
ReservationsCover ==
  \A s \in Sessions \ Skewed : step[s] = "claim" =>
    \A d \in Drafts \ {mine[s]} : Exposure(d) <= Reserved(s, d)

\* The same of every session, as the document says it.
ReservationsCoverAll ==
  \A s \in Sessions : step[s] = "claim" =>
    \A d \in Drafts \ {mine[s]} : Exposure(d) <= Reserved(s, d)

\* Two sessions cannot both spend the same budget: when an intent is claimed,
\* the whole account, with it and with what the others claimed, fits the limits
\* in force at that moment.
ClaimsFitTheBudget ==
  [][\A s \in Sessions \ Skewed, d \in Drafts :
       d = mine[s] /\ step'[s] # step[s] /\ told[d] = NoIntent /\ told'[d] # NoIntent =>
       \A l \in Ledgers : Charge[l][d] > 0 =>
         SumFunction([e \in Drafts |-> Charge[l][e] * Exposure(e)'])
           <= Limit[controls][l]]_trial
=============================================================================
