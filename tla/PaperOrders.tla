---------------------------- MODULE PaperOrders ----------------------------
(***************************************************************************)
(* The two-phase manual Paper execution of alpaca_orders.py: several       *)
(* sessions of one owner prepare drafts for one Paper account, claim an    *)
(* intent in the durable log, POST it once, and learn what happened from   *)
(* the answer, from a lookup by client_order_id or from a batch of them.   *)
(*                                                                         *)
(* Every call that leaves the process (a read or an append of the store, a *)
(* GET, the POST) is a step of its own, so the steps of the sessions, of   *)
(* the broker and of crashes interleave between any two of them.  An       *)
(* append may commit, fail, or commit while its confirmation is lost: the  *)
(* last two leave the session in the same place.                           *)
(*                                                                         *)
(* A crash takes the local state of a session and nothing else.  The       *)
(* broker is external: it keeps one order per client_order_id, may handle  *)
(* a POST long after its caller gave up, and never revives an order.       *)
(***************************************************************************)
EXTENDS PaperAccount, FiniteSets

CONSTANT BatchSize     \* lookups of one press of "Actualizar resultados"

ASSUME BatchAssumption == BatchSize \in Nat \ {0}

VARIABLES
  known,    \* per draft: the folded event log (durable)
  minted,   \* drafts some session prepared
  pc,       \* per session: the next step of its handler
  draft,    \* per session: the draft in hand
  reply,    \* per session: the receipt read and not yet recorded
  todo,     \* per session: drafts left in the batch being refreshed
  posts,    \* per draft: POST requests sent (history)
  wire,     \* per draft: the POST on its way to the broker and back
  broker    \* per draft: the order the broker holds

session == <<pc, draft, reply, todo>>
outside == <<posts, wire, broker>>
vars == <<known, minted, session, outside>>

Steps == {"idle", "check", "post", "wait", "accept", "reject", "reload",
          "batch", "lookup", "observe", "miss"}

\* The receipt of an order the broker has just taken.
Accepted == [status |-> "new", filled |-> 0, at |-> FALSE]

NoneUnresolved == \A d \in Drafts : ~Unresolved(known[d])

Init ==
  /\ known = [d \in Drafts |-> NoIntent]
  /\ minted = {}
  /\ pc = [s \in Sessions |-> "idle"]
  /\ draft = [s \in Sessions |-> NoDraft]
  /\ reply = [s \in Sessions |-> NoReceipt]
  /\ todo = [s \in Sessions |-> {}]
  /\ posts = [d \in Drafts |-> 0]
  /\ wire = [d \in Drafts |-> "none"]
  /\ broker = [d \in Drafts |-> NoReceipt]

Goto(s, step) == pc' = [pc EXCEPT ![s] = step]

\* The handler of s returns or dies: what it held is gone.
Return(s) ==
  /\ pc' = [pc EXCEPT ![s] = "idle"]
  /\ draft' = [draft EXCEPT ![s] = NoDraft]
  /\ reply' = [reply EXCEPT ![s] = NoReceipt]
  /\ todo' = [todo EXCEPT ![s] = {}]

\* The lookup of draft[s] is over: on to the rest of the batch, if any.
NextLookup(s) ==
  /\ reply' = [reply EXCEPT ![s] = NoReceipt]
  /\ draft' = [draft EXCEPT ![s] = NoDraft]
  /\ todo' = [todo EXCEPT ![s] = @ \ {draft[s]}]
  /\ pc' = [pc EXCEPT ![s] = IF todo[s] \subseteq {draft[s]} THEN "idle" ELSE "batch"]

Record(s, ev) == known' = [known EXCEPT ![draft[s]] = Merge(@, ev)]

----------------------------------------------------------------------------
\* prepare_order: a new client_order_id, unless an attempt is unresolved.
Prepare(d) ==
  /\ d \notin minted
  /\ NoneUnresolved
  /\ minted' = minted \cup {d}
  /\ UNCHANGED <<known, session, outside>>

\* submit_order loads the log: a recorded draft is returned as it is and an
\* unresolved one refuses the submission; otherwise the checks begin.
SubmitLoad(s, d) ==
  /\ pc[s] = "idle"
  /\ d \in minted
  /\ known[d] = NoIntent
  /\ NoneUnresolved
  /\ Goto(s, "check")
  /\ draft' = [draft EXCEPT ![s] = d]
  /\ UNCHANGED <<known, minted, reply, todo, outside>>

\* A check refuses: the draft expired, the account, instrument, funds, clock,
\* signal or budget changed, or another session claimed the intent first.
Abort(s) ==
  /\ pc[s] = "check"
  /\ Return(s)
  /\ UNCHANGED <<known, minted, outside>>

\* Mutant: the intent is not unique.
Claim_Repeatable(s) ==
  /\ pc[s] = "check"
  /\ known' = [known EXCEPT ![draft[s]] = Intent]
  /\ Goto(s, "post")
  /\ UNCHANGED <<minted, draft, reply, todo, outside>>

\* The intent is inserted under the unique key client_order_id.  If the
\* confirmation of the insert is lost the handler ends without its POST.
Claim(s) ==
  /\ pc[s] = "check"
  /\ known[draft[s]] = NoIntent
  /\ known' = [known EXCEPT ![draft[s]] = Intent]
  /\ \/ Goto(s, "post") /\ UNCHANGED <<draft, reply, todo>>
     \/ Return(s)
  /\ UNCHANGED <<minted, outside>>

Post(s) ==
  /\ pc[s] = "post"
  /\ posts' = [posts EXCEPT ![draft[s]] = @ + 1]
  /\ wire' = [wire EXCEPT ![draft[s]] = "sent"]
  /\ Goto(s, "wait")
  /\ UNCHANGED <<known, minted, draft, reply, todo, broker>>

\* Mutant: an order taken is recorded as an order executed.
Answered_AsFilled(s) ==
  /\ pc[s] = "wait"
  /\ wire[draft[s]] = "created"
  /\ reply' = [reply EXCEPT ![s] = [status |-> "filled", filled |-> Qty, at |-> FALSE]]
  /\ Goto(s, "accept")
  /\ UNCHANGED <<known, minted, draft, todo, outside>>

\* 200 or 201 with a receipt that matches the draft.
Answered(s) ==
  /\ pc[s] = "wait"
  /\ wire[draft[s]] = "created"
  /\ reply' = [reply EXCEPT ![s] = Accepted]
  /\ Goto(s, "accept")
  /\ UNCHANGED <<known, minted, draft, todo, outside>>

\* A 4xx that is neither 408 nor a duplicate client_order_id.
Refused(s) ==
  /\ pc[s] = "wait"
  /\ wire[draft[s]] = "refused"
  /\ Goto(s, "reject")
  /\ UNCHANGED <<known, minted, draft, reply, todo, outside>>

\* Mutant: a timeout is taken for a refusal.
Ambiguous_AsRefusal(s) ==
  /\ pc[s] = "wait"
  /\ Goto(s, "reject")
  /\ UNCHANGED <<known, minted, draft, reply, todo, outside>>

\* Timeout, 5xx, 408, duplicate id or an answer that does not validate:
\* nothing is concluded and the handler reconciles.
Ambiguous(s) ==
  /\ pc[s] = "wait"
  /\ Goto(s, "reload")
  /\ UNCHANGED <<known, minted, draft, reply, todo, outside>>

SaveAccepted(s) ==
  /\ pc[s] = "accept"
  /\ Record(s, Confirmed(reply[s])) \/ UNCHANGED known
  /\ Return(s)
  /\ UNCHANGED <<minted, outside>>

SaveRejected(s) ==
  /\ pc[s] = "reject"
  /\ Record(s, Rejected) \/ UNCHANGED known
  /\ Return(s)
  /\ UNCHANGED <<minted, outside>>

----------------------------------------------------------------------------
\* reconcile_order on a recorded attempt, pressed by the user.
Reconcile(s, d) ==
  /\ pc[s] = "idle"
  /\ known[d].kind \notin {"none", "rejected"}
  /\ Goto(s, "lookup")
  /\ draft' = [draft EXCEPT ![s] = d]
  /\ UNCHANGED <<known, minted, reply, todo, outside>>

\* reconcile_order called by submit_order; a failed load or a failed account
\* check is swallowed and ends the submission.
Reload(s) ==
  /\ pc[s] = "reload"
  /\ \/ known[draft[s]] # Rejected /\ Goto(s, "lookup") /\ UNCHANGED <<draft, reply, todo>>
     \/ Return(s)
  /\ UNCHANGED <<known, minted, outside>>

\* refresh_results loads the log and takes one batch of what is pending.
\* The order inside the batch and its rotation are in BatchRotation.
RefreshLoad(s) ==
  LET pending == {d \in Drafts : Pending(known[d])}
  IN  /\ pc[s] = "idle"
      /\ \E batch \in SUBSET pending :
           /\ batch # {}
           /\ Cardinality(batch) <= BatchSize
           /\ Cardinality(batch) < BatchSize => batch = pending
           /\ todo' = [todo EXCEPT ![s] = batch]
      /\ Goto(s, "batch")
      /\ UNCHANGED <<known, minted, draft, reply, outside>>

RefreshNext(s, d) ==
  /\ pc[s] = "batch"
  /\ d \in todo[s]
  /\ Goto(s, "lookup")
  /\ draft' = [draft EXCEPT ![s] = d]
  /\ UNCHANGED <<known, minted, reply, todo, outside>>

\* The GET by client_order_id finds the order.
LookupFound(s) ==
  /\ pc[s] = "lookup"
  /\ broker[draft[s]] # NoReceipt
  /\ reply' = [reply EXCEPT ![s] = broker[draft[s]]]
  /\ Goto(s, "observe")
  /\ UNCHANGED <<known, minted, draft, todo, outside>>

\* 404, an error, or an order that does not validate.
LookupMissed(s) ==
  /\ pc[s] = "lookup"
  /\ Goto(s, "miss")
  /\ UNCHANGED <<known, minted, draft, reply, todo, outside>>

SaveObserved(s) ==
  /\ pc[s] = "observe"
  /\ Record(s, Confirmed(reply[s]))
  /\ NextLookup(s)
  /\ UNCHANGED <<minted, outside>>

\* The append fails or its confirmation is lost: a reconciliation ends, a
\* batch goes on to record the failure.
SaveObservedFails(s) ==
  /\ pc[s] = "observe"
  /\ Record(s, Confirmed(reply[s])) \/ UNCHANGED known
  /\ IF todo[s] = {}
     THEN Return(s)
     ELSE Goto(s, "miss") /\ UNCHANGED <<draft, reply, todo>>
  /\ UNCHANGED <<minted, outside>>

SaveUnknown(s) ==
  /\ pc[s] = "miss"
  /\ Record(s, Unknown) \/ UNCHANGED known
  /\ NextLookup(s)
  /\ UNCHANGED <<minted, outside>>

Crash(s) ==
  /\ pc[s] # "idle"
  /\ Return(s)
  /\ UNCHANGED <<known, minted, outside>>

----------------------------------------------------------------------------
\* The broker takes or refuses the POST it received.
BrokerTakes(d) ==
  /\ wire[d] = "sent"
  /\ broker[d] = NoReceipt
  /\ wire' = [wire EXCEPT ![d] = "created"]
  /\ broker' = [broker EXCEPT ![d] = Accepted]
  /\ UNCHANGED <<known, minted, session, posts>>

BrokerRefuses(d) ==
  /\ wire[d] = "sent"
  /\ wire' = [wire EXCEPT ![d] = "refused"]
  /\ UNCHANGED <<known, minted, session, posts, broker>>

\* A share is executed; the broker may date a complete fill later.
BrokerFills(d) ==
  /\ broker[d].status \in {"new", "partially_filled"}
  /\ IF broker[d].filled + 1 = Qty
     THEN \E at \in BOOLEAN :
            broker' = [broker EXCEPT ![d] = [status |-> "filled", filled |-> Qty, at |-> at]]
     ELSE broker' = [broker EXCEPT ![d] =
                       [status |-> "partially_filled", filled |-> @.filled + 1, at |-> FALSE]]
  /\ UNCHANGED <<known, minted, session, posts, wire>>

BrokerDates(d) ==
  /\ broker[d].status = "filled"
  /\ ~broker[d].at
  /\ broker' = [broker EXCEPT ![d].at = TRUE]
  /\ UNCHANGED <<known, minted, session, posts, wire>>

\* Canceled from the broker's panel, expired at the close, or replaced.
BrokerCancels(d) ==
  /\ broker[d].status \in {"new", "partially_filled"}
  /\ broker' = [broker EXCEPT ![d].status = "canceled"]
  /\ UNCHANGED <<known, minted, session, posts, wire>>

----------------------------------------------------------------------------
Submit(s) ==
  \/ \E d \in Drafts : SubmitLoad(s, d)
  \/ Abort(s) \/ Claim(s) \/ Post(s)
  \/ Answered(s) \/ Refused(s) \/ Ambiguous(s)
  \/ SaveAccepted(s) \/ SaveRejected(s) \/ Reload(s)

LookUp(s) ==
  \/ \E d \in Drafts : Reconcile(s, d) \/ RefreshNext(s, d)
  \/ RefreshLoad(s)
  \/ LookupFound(s) \/ LookupMissed(s)
  \/ SaveObserved(s) \/ SaveObservedFails(s) \/ SaveUnknown(s)

BrokerStep(d) ==
  \/ BrokerTakes(d) \/ BrokerRefuses(d)
  \/ BrokerFills(d) \/ BrokerDates(d) \/ BrokerCancels(d)

Next ==
  \/ \E d \in Drafts : Prepare(d) \/ BrokerStep(d)
  \/ \E s \in Sessions : Submit(s) \/ LookUp(s) \/ Crash(s)

Spec == Init /\ [][Next]_vars

\* Every call a handler waits for carries a 10 s timeout, so its steps end.
HandlerFairness ==
  \A s \in Sessions : /\ WF_vars(Submit(s) /\ pc[s] # "idle")
                      /\ WF_vars(LookUp(s) /\ pc[s] # "idle")

\* Asked of the surroundings, not of the code: the user presses "Actualizar
\* resultados" again and again, and not every press dies before its lookup
\* answers and is recorded.
PressesGetThrough ==
  \A s \in Sessions :
    /\ SF_vars(RefreshLoad(s))
    /\ \A d \in Drafts : /\ SF_vars(RefreshNext(s, d))
                         /\ SF_vars(LookupFound(s) /\ draft[s] = d)
                         /\ SF_vars(SaveObserved(s) /\ draft[s] = d)

LiveSpec == Spec /\ HandlerFairness /\ PressesGetThrough

----------------------------------------------------------------------------
TypeOK ==
  /\ known \in [Drafts -> OrderStates]
  /\ minted \in SUBSET Drafts
  /\ pc \in [Sessions -> Steps]
  /\ draft \in [Sessions -> Drafts \cup {NoDraft}]
  /\ reply \in [Sessions -> Receipts \cup {NoReceipt}]
  /\ todo \in [Sessions -> SUBSET Drafts]
  /\ posts \in [Drafts -> Nat]
  /\ wire \in [Drafts -> {"none", "sent", "created", "refused"}]
  /\ broker \in [Drafts -> Receipts \cup {NoReceipt}]

\* "A repeated click, browser reload or second session never repeats the
\* POST", nor does a crash, a timeout or a lost confirmation.
AtMostOnePost == \A d \in Drafts : posts[d] <= 1

\* A POST is only sent for an attempt already in the durable log, so every
\* order the broker ever holds can be found again and attributed.
PostHasIntent == \A d \in Drafts : posts[d] > 0 => known[d] # NoIntent

\* An attempt shown as rejected is not at the broker, now or later: no failure
\* is taken for the absence of an order.
RejectedNeverAtBroker ==
  \A d \in Drafts : known[d] = Rejected =>
                       broker[d] = NoReceipt /\ wire[d] = "refused"

\* The log never says more than the broker: executed quantities are behind the
\* real ones, and an order recorded as finished has finished that way.
KnownFollowsBroker ==
  \A d \in Drafts : HasReceipt(known[d]) =>
                       broker[d] # NoReceipt /\ Follows(known[d].rcpt, broker[d])

\* An observation read earlier and recorded later does not reduce a filled
\* quantity, undo a terminal status or a fill date, or forget a receipt.
ConfirmedNeverRegresses ==
  [][\A d \in Drafts : HasReceipt(known[d]) =>
       HasReceipt(known'[d]) /\ Follows(known[d].rcpt, known'[d].rcpt)]_vars

\* "Los rechazos explícitos quedan cerrados".
RejectionsStayClosed ==
  [][\A d \in Drafts : known[d] = Rejected => known'[d] = Rejected]_vars

\* An attempt that cannot be confirmed "bloquea otras propuestas de la cuenta"
\* (docs/alpaca_paper_connection.md:186-187): nothing is sent while the outcome
\* of another attempt is open.  The load of alpaca_orders.py:165 and the claim
\* are several calls apart, and two sessions may be in between.
UnresolvedBlocksOthers ==
  [][\A d, e \in Drafts : posts'[d] > posts[d] /\ e # d => ~Unresolved(known[e])]_vars

\* An order that reached the broker ends up confirmed in the log, whatever
\* crashes, timeouts and failed lookups happen on the way.
ReachedIsConfirmed ==
  \A d \in Drafts : broker[d] # NoReceipt ~> HasReceipt(known[d])

\* The final state of an order, with its fill date, reaches the log as well: a
\* confirmed order is looked up until nothing about it is pending.
FinishedIsRecorded ==
  \A d \in Drafts :
    broker[d].status \in Terminal ~> /\ known[d].rcpt.status = broker[d].status
                                     /\ known[d].rcpt.filled = broker[d].filled
                                     /\ known[d].rcpt.at = broker[d].at

----------------------------------------------------------------------------
\* OrderPromise over the state of PaperOrders: what the app is told of a draft
\* is the fold of its events, what was sent is what was posted.
Promise == INSTANCE OrderPromise WITH told <- known,
                                      sent <- {d \in Drafts : posts[d] > 0},
                                      refused <- {d \in Drafts : wire[d] = "refused"},
                                      truth <- broker

\* The detailed attempt, with its sessions, steps, crashes and lookups, is an
\* attempt as OrderPromise abstracts it: submit_order and refresh_results keep
\* the promise that the budget is built on.
KeepsPromise == Promise!Spec
=============================================================================
