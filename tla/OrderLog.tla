------------------------------ MODULE OrderLog ------------------------------
(***************************************************************************)
(* The insert-only table alpaca_paper_order_events (alpaca_order_store.py, *)
(* supabase/alpaca_paper_order_events.sql) of one Paper account, and the   *)
(* fold order_states over what an owner loads from it.                     *)
(*                                                                         *)
(* The callers are PaperOrders; here any caller may append anything at any *)
(* moment, and only the constraints of the table stand in the way.  A      *)
(* receipt is one the broker issued, recorded however late.                *)
(***************************************************************************)
EXTENDS OrderState, Sequences

CONSTANTS
  Owners,       \* OIDC identities
  Drafts,       \* client_order_ids
  MaxEvents     \* rows the table may hold in this model

MaxEventsAssumption == MaxEvents \in Nat

VARIABLES
  log,      \* the rows, by event_seq
  issued    \* per draft: the receipts the broker issued so far

vars == <<log, issued>>

Row(o, d, ev) == [owner |-> o, draft |-> d, event |-> ev]

Init == log = <<>> /\ issued = [d \in Drafts |-> {}]

----------------------------------------------------------------------------
Rows == {log[i] : i \in DOMAIN log}
Insert(o, d, ev) == log' = Append(log, Row(o, d, ev)) /\ UNCHANGED issued

\* Unique index on (account_id, event_key) for intents, whose key is the
\* client_order_id: the second claim of a draft fails, whoever makes it.
AppendIntent(o, d) ==
  /\ ~\E r \in Rows : r.draft = d /\ r.event = Intent
  /\ Insert(o, d, Intent)

\* Mutant: no foreign key.
AppendObservation_Free(o, d) ==
  \E ev \in {Unknown, Rejected} \cup {Confirmed(r) : r \in issued[d]} : Insert(o, d, ev)

\* Foreign key (owner, account_id, client_order_id): an observation belongs to
\* an intent of the same owner and account.
AppendObservation(o, d) ==
  /\ \E r \in Rows : r = Row(o, d, Intent)
  /\ \E ev \in {Unknown, Rejected} \cup {Confirmed(r) : r \in issued[d]} : Insert(o, d, ev)

\* The broker, external: each receipt follows the ones before it.
Issue(d) ==
  /\ \E r \in Issuable : /\ \A q \in issued[d] : Follows(q, r)
                         /\ r \notin issued[d]
                         /\ issued' = [issued EXCEPT ![d] = @ \cup {r}]
  /\ UNCHANGED log

Next ==
  \/ Len(log) < MaxEvents /\ \E o \in Owners, d \in Drafts :
                                AppendIntent(o, d) \/ AppendObservation(o, d)
  \/ \E d \in Drafts : Issue(d)

Spec == Init /\ [][Next]_vars

----------------------------------------------------------------------------
\* The rows of an owner, by event_seq.
Load(o) ==
  LET taken[n \in 0..Len(log)] ==
        IF n = 0 THEN <<>>
        ELSE IF log[n].owner = o THEN Append(taken[n - 1], log[n]) ELSE taken[n - 1]
  IN  taken[Len(log)]

\* order_states raises on an intent it already has and on an observation
\* whose intent it has not seen yet.
FoldFails(events) ==
  \E n \in DOMAIN events :
    LET before == {m \in 1..(n - 1) : events[m].draft = events[n].draft}
    IN  (events[n].event = Intent) <=> (before # {})

\* order_states: the events by sequence, each merged into its draft's state.
OrderStatesOf(events) ==
  LET fold[n \in 0..Len(events)] ==
        IF n = 0 THEN [d \in Drafts |-> NoIntent]
        ELSE [fold[n - 1] EXCEPT ![events[n].draft] = Merge(@, events[n].event)]
  IN  fold[Len(events)]

----------------------------------------------------------------------------
Recorded(o, d) ==
  {r.event : r \in {r \in Rows : r.owner = o /\ r.draft = d}}

\* The constraints of the table are enough: no order of appends makes the log
\* of an owner unreadable, which would block the account for good.
LoadNeverFails == \A o \in Owners : ~FoldFails(Load(o))

\* Receipts may be recorded in any order: the fold ends on the newest one that
\* was recorded, and failures recorded around it change nothing.
FoldIsNewest ==
  \A o \in Owners, d \in Drafts :
    LET seen == {ev.rcpt : ev \in {e \in Recorded(o, d) : HasReceipt(e)}}
    IN  seen # {} =>
          LET known == OrderStatesOf(Load(o))[d]
          IN  known.rcpt \in seen /\ \A r \in seen : Follows(r, known.rcpt)

\* What an owner loads can always be read, and says the newest of each draft.
LoadIsNewest == LoadNeverFails /\ FoldIsNewest
=============================================================================
