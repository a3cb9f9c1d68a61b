------------------------- MODULE PaperOrders_proofs -------------------------
(***************************************************************************)
(* Proofs about PaperOrders, for any numbers of sessions, drafts and       *)
(* shares.  The inductive invariant IInv has three parts, each inductive   *)
(* given the ones before it:                                               *)
(*   TypeInv    the types, and what a session holds at each step;          *)
(*   ClaimInv   who may POST: the one session that inserted the intent;    *)
(*   BrokerInv  everything recorded or about to be recorded is something   *)
(*              the broker said, and it only moves forward.                *)
(*                                                                         *)
(* PaperOrders implements OrderPromise: PInv adds to IInv that receipts    *)
(* are ones the broker issues and that who records has its intent saved.   *)
(***************************************************************************)
EXTENDS PaperOrders, TLAPS

Live(r) == r.status \in {"new", "partially_filled"}

TypeInv ==
  /\ TypeOK
  /\ \A s \in Sessions :
       /\ pc[s] \notin {"idle", "batch"} => draft[s] \in Drafts
       /\ pc[s] \in {"accept", "observe"} => reply[s] \in Receipts
  /\ \A d \in Drafts : Live(broker[d]) => broker[d].filled < Qty

ClaimInv ==
  /\ \A s \in Sessions : pc[s] = "post" =>
       /\ known[draft[s]] # NoIntent
       /\ posts[draft[s]] = 0
       /\ \A t \in Sessions : pc[t] = "post" /\ draft[t] = draft[s] => t = s
  /\ AtMostOnePost
  /\ PostHasIntent

\* A dated fill is a complete one.
Dated(r) == r.at => r.status = "filled"

\* What the broker holds, and where its answer to a POST stands.
WireInv ==
  \A d \in Drafts :
    /\ posts[d] = 0 <=> wire[d] = "none"
    /\ broker[d] # NoReceipt <=> wire[d] = "created"
    /\ Dated(broker[d])

\* What a session read and has not recorded yet.
HeldInv ==
  \A s \in Sessions :
    /\ pc[s] = "reject" => wire[draft[s]] = "refused"
    /\ pc[s] \in {"accept", "observe"} => /\ Dated(reply[s])
                                          /\ broker[draft[s]] # NoReceipt
                                          /\ Follows(reply[s], broker[draft[s]])

\* What the log says.
KnownInv ==
  /\ \A d \in Drafts : Dated(known[d].rcpt)
  /\ RejectedNeverAtBroker
  /\ KnownFollowsBroker

BrokerInv == WireInv /\ HeldInv /\ KnownInv

IInv == TypeInv /\ ClaimInv /\ BrokerInv

----------------------------------------------------------------------------
(* Facts about the data. *)

\* What validate_receipt lets through is a record of its three fields.
LEMMA ReceiptFields ==
  \A r \in Receipts : /\ r # NoReceipt
                      /\ r.status \in Statuses /\ r.filled \in 0..Qty /\ r.at \in BOOLEAN
                      /\ r = [status |-> r.status, filled |-> r.filled, at |-> r.at]
                      /\ r.status = "filled" => r.filled = Qty
BY DEF Receipts, Statuses, Terminal, NoReceipt

\* The order the broker creates for a POST is a receipt.
LEMMA FreshIsReceipt == Accepted \in Receipts /\ Accepted # NoReceipt
BY QtyAssumption DEF Accepted, Receipts, Statuses, Terminal, NoReceipt

\* Every state that order_states can start from or fold in is typed.
LEMMA StatesAreTyped ==
  /\ NoIntent \in OrderStates /\ Intent \in OrderStates
  /\ Unknown \in OrderStates /\ Rejected \in OrderStates
  /\ \A r \in Receipts : Confirmed(r) \in OrderStates
BY ReceiptFields DEF NoIntent, Intent, Unknown, Rejected, Confirmed, OrderStates, Kinds

\* The fold stays in its type, and never returns to "no intent".
LEMMA MergeType ==
  ASSUME NEW old \in OrderStates, NEW ev \in Observations
  PROVE  Merge(old, ev) \in OrderStates /\ Merge(old, ev) # NoIntent
<1>1. CASE ~HasReceipt(old)
  BY <1>1, StatesAreTyped DEF Merge, Observations, NoIntent, Unknown, Rejected, Confirmed
<1>2. CASE HasReceipt(old) /\ (~HasReceipt(ev) \/ Stale(old.rcpt, ev.rcpt))
  BY <1>2 DEF Merge, HasReceipt, NoIntent
<1>3. CASE HasReceipt(old) /\ HasReceipt(ev) /\ ~Stale(old.rcpt, ev.rcpt)
  <2>1. ev.rcpt \in Receipts
    BY <1>3 DEF HasReceipt, Observations, Unknown, Rejected, Confirmed
  <2>2. [ev.rcpt EXCEPT !.at = @ \/ (old.rcpt.at /\ ev.rcpt.status = "filled")] \in Receipts
    BY <2>1, <1>3 DEF Receipts, HasReceipt, OrderStates, NoReceipt
  <2>3. Merge(old, ev) = Confirmed([ev.rcpt EXCEPT
                            !.at = @ \/ (old.rcpt.at /\ ev.rcpt.status = "filled")])
    BY <1>3 DEF Merge
  <2> QED BY <2>2, <2>3, StatesAreTyped DEF Confirmed, NoIntent
<1> QED BY <1>1, <1>2, <1>3

\* Merging two facts that both precede what the broker holds gives a fact that
\* precedes it too, and that is not older than the recorded one.
LEMMA MergeFollows ==
  ASSUME NEW old \in OrderStates, NEW ev \in Observations, NEW now \in Receipts,
         HasReceipt(old), Dated(old.rcpt), Follows(old.rcpt, now), Dated(now),
         HasReceipt(ev) => Dated(ev.rcpt) /\ Follows(ev.rcpt, now)
  PROVE  /\ HasReceipt(Merge(old, ev))
         /\ Dated(Merge(old, ev).rcpt)
         /\ Follows(old.rcpt, Merge(old, ev).rcpt)
         /\ Follows(Merge(old, ev).rcpt, now)
<1>1. old.rcpt \in Receipts
  BY DEF OrderStates, HasReceipt
<1>2. CASE ~HasReceipt(ev) \/ Stale(old.rcpt, ev.rcpt)
  <2>1. Merge(old, ev) = old
    BY <1>2 DEF Merge
  <2> QED BY <2>1, <1>1, ReceiptFields DEF Follows
<1>3. CASE HasReceipt(ev) /\ ~Stale(old.rcpt, ev.rcpt)
  <2> DEFINE new == [ev.rcpt EXCEPT !.at = @ \/ (old.rcpt.at /\ ev.rcpt.status = "filled")]
  <2>1. ev.rcpt \in Receipts
    BY <1>3 DEF HasReceipt, Observations, Unknown, Rejected, Confirmed
  <2>2. Merge(old, ev) = Confirmed(new)
    BY <1>3 DEF Merge
  <2>3. /\ new.status = ev.rcpt.status /\ new.filled = ev.rcpt.filled
        /\ new.at = (ev.rcpt.at \/ (old.rcpt.at /\ ev.rcpt.status = "filled"))
    BY <2>1 DEF Receipts
  <2>4. Dated(new)
    BY <2>3, <1>3 DEF Dated
  <2>5. Follows(new, now)
    BY <2>3, <1>3 DEF Follows
  <2>6. /\ old.rcpt.filled <= ev.rcpt.filled
        /\ old.rcpt.status \in Terminal => ev.rcpt.status \in Terminal
        /\ old.rcpt.status = "filled" => ev.rcpt.status = "filled"
    BY <1>1, <1>3, <2>1, ReceiptFields DEF Stale
  <2>7. Follows(old.rcpt, new)
    <3>1. ASSUME old.rcpt.status \in Terminal
          PROVE  ev.rcpt.status = old.rcpt.status /\ ev.rcpt.filled = old.rcpt.filled
      BY <3>1, <2>6, <1>1, <1>3, <2>1, ReceiptFields DEF Follows
    <3>2. old.rcpt.at => new.at
      BY <2>3, <2>6 DEF Dated
    <3> QED BY <3>1, <3>2, <2>3, <2>6 DEF Follows
  <2> QED BY <2>2, <2>4, <2>5, <2>7 DEF Confirmed, HasReceipt
<1> QED BY <1>2, <1>3

----------------------------------------------------------------------------
(* TypeInv is inductive. *)

\* The empty log and the idle sessions are typed.
LEMMA TypeInit == Init => TypeInv
BY ReceiptFields, StatesAreTyped DEF Init, TypeInv, TypeOK, Steps, Live, NoReceipt

\* What Record writes: the state of the draft in hand, merged.
LEMMA RecordType ==
  ASSUME TypeOK, NEW s \in Sessions, draft[s] \in Drafts, NEW ev \in Observations,
         Record(s, ev)
  PROVE  known' \in [Drafts -> OrderStates]
BY MergeType DEF Record, TypeOK

\* Every step of submit_order keeps the types, and what the session holds.
LEMMA TypeSubmit ==
  ASSUME TypeInv, NEW s \in Sessions, Submit(s)
  PROVE  TypeInv'
<1> USE DEF TypeInv, TypeOK, Steps, Goto, outside
<1>1. ASSUME NEW d \in Drafts, SubmitLoad(s, d) PROVE TypeInv'
  BY <1>1 DEF SubmitLoad
<1>2. CASE Abort(s)
  BY <1>2 DEF Abort, Return
<1>3. CASE Claim(s)
  BY <1>3, StatesAreTyped DEF Claim, Return
<1>4. CASE Post(s)
  BY <1>4 DEF Post
<1>5. CASE Answered(s)
  BY <1>5, FreshIsReceipt DEF Answered
<1>6. CASE Refused(s)
  BY <1>6 DEF Refused
<1>7. CASE Ambiguous(s)
  BY <1>7 DEF Ambiguous
<1>8. CASE SaveAccepted(s)
  <2>1. Confirmed(reply[s]) \in Observations
    BY <1>8 DEF SaveAccepted, Observations
  <2>2. known' \in [Drafts -> OrderStates]
    BY <1>8, <2>1, RecordType DEF SaveAccepted
  <2> QED BY <1>8, <2>2 DEF SaveAccepted, Return
<1>9. CASE SaveRejected(s)
  <2>1. Rejected \in Observations
    BY DEF Observations
  <2>2. known' \in [Drafts -> OrderStates]
    BY <1>9, <2>1, RecordType DEF SaveRejected
  <2> QED BY <1>9, <2>2 DEF SaveRejected, Return
<1>10. CASE Reload(s)
  BY <1>10 DEF Reload, Return
<1> QED BY <1>1, <1>2, <1>3, <1>4, <1>5, <1>6, <1>7, <1>8, <1>9, <1>10 DEF Submit

\* So does every step of refresh_results and reconcile_order.
LEMMA TypeLookUp ==
  ASSUME TypeInv, NEW s \in Sessions, LookUp(s)
  PROVE  TypeInv'
<1> USE DEF TypeInv, TypeOK, Steps, Goto, outside
<1>1. ASSUME NEW d \in Drafts, Reconcile(s, d) PROVE TypeInv'
  BY <1>1 DEF Reconcile
<1>2. ASSUME NEW d \in Drafts, RefreshNext(s, d) PROVE TypeInv'
  BY <1>2 DEF RefreshNext
<1>3. CASE RefreshLoad(s)
  BY <1>3 DEF RefreshLoad
<1>4. CASE LookupFound(s)
  BY <1>4 DEF LookupFound
<1>5. CASE LookupMissed(s)
  BY <1>5 DEF LookupMissed
<1>6. ASSUME pc[s] = "observe", Record(s, Confirmed(reply[s])) \/ UNCHANGED known
      PROVE  known' \in [Drafts -> OrderStates]
  <2>1. Confirmed(reply[s]) \in Observations
    BY <1>6 DEF Observations
  <2> QED BY <1>6, <2>1, RecordType
<1>7. CASE SaveObserved(s)
  BY <1>6, <1>7 DEF SaveObserved, NextLookup
<1>8. CASE SaveObservedFails(s)
  <2>1. known' \in [Drafts -> OrderStates]
    BY <1>6, <1>8 DEF SaveObservedFails
  <2> QED BY <1>8, <2>1 DEF SaveObservedFails, Return
<1>9. CASE SaveUnknown(s)
  <2>1. Unknown \in Observations
    BY DEF Observations
  <2>2. known' \in [Drafts -> OrderStates]
    BY <1>9, <2>1, RecordType DEF SaveUnknown
  <2> QED BY <1>9, <2>2 DEF SaveUnknown, NextLookup
<1> QED BY <1>1, <1>2, <1>3, <1>4, <1>5, <1>7, <1>8, <1>9 DEF LookUp

\* So does every step of the broker, whose live orders are not full.
LEMMA TypeBroker ==
  ASSUME TypeInv, NEW d \in Drafts, BrokerStep(d)
  PROVE  TypeInv'
<1> USE DEF TypeInv, TypeOK, session
<1>1. CASE BrokerTakes(d)
  BY <1>1, FreshIsReceipt, QtyAssumption DEF BrokerTakes, Live, Accepted
<1>2. CASE BrokerRefuses(d)
  BY <1>2 DEF BrokerRefuses
<1>3. CASE BrokerFills(d)
  <2>1. broker[d] \in Receipts
    BY <1>3 DEF BrokerFills, NoReceipt
  <2>2. /\ broker'[d] \in Receipts /\ broker' = [broker EXCEPT ![d] = broker'[d]]
        /\ Live(broker'[d]) => broker'[d].filled < Qty
    <3>1. CASE broker[d].filled + 1 = Qty
      <4>1. PICK at \in BOOLEAN :
              broker' = [broker EXCEPT ![d] = [status |-> "filled", filled |-> Qty, at |-> at]]
        BY <1>3, <3>1 DEF BrokerFills
      <4>2. [status |-> "filled", filled |-> Qty, at |-> at] \in Receipts
        BY QtyAssumption DEF Receipts, Statuses, Terminal
      <4> QED BY <4>1, <4>2 DEF Live
    <3>2. CASE broker[d].filled + 1 # Qty
      <4> DEFINE r == [status |-> "partially_filled", filled |-> broker[d].filled + 1, at |-> FALSE]
      <4>1. broker' = [broker EXCEPT ![d] = r]
        BY <1>3, <3>2 DEF BrokerFills
      <4>2. broker[d].filled \in 0..Qty /\ broker[d].filled < Qty
        BY <1>3, <2>1, ReceiptFields DEF BrokerFills, Live
      <4>3. r \in Receipts
        BY <4>2, QtyAssumption DEF Receipts, Statuses
      <4>4. r.filled < Qty
        BY <3>2, <4>2, QtyAssumption
      <4> QED BY <4>1, <4>3, <4>4 DEF Live
    <3> QED BY <3>1, <3>2
  <2> QED BY <1>3, <2>2 DEF BrokerFills
<1>4. CASE BrokerDates(d)
  <2>1. broker[d] \in Receipts
    BY <1>4 DEF BrokerDates, NoReceipt
  <2>2. /\ [broker[d] EXCEPT !.at = TRUE] \in Receipts
        /\ ~Live([broker[d] EXCEPT !.at = TRUE])
    BY <1>4, <2>1 DEF Receipts, BrokerDates, Live
  <2>3. broker' = [broker EXCEPT ![d] = [broker[d] EXCEPT !.at = TRUE]]
    BY <1>4 DEF BrokerDates
  <2> QED BY <1>4, <2>2, <2>3 DEF BrokerDates
<1>5. CASE BrokerCancels(d)
  <2>1. broker[d] \in Receipts
    BY <1>5 DEF BrokerCancels, NoReceipt
  <2>2. /\ [broker[d] EXCEPT !.status = "canceled"] \in Receipts
        /\ ~Live([broker[d] EXCEPT !.status = "canceled"])
    BY <2>1 DEF Receipts, Statuses, Terminal, Live
  <2>3. broker' = [broker EXCEPT ![d] = [broker[d] EXCEPT !.status = "canceled"]]
    BY <1>5 DEF BrokerCancels
  <2> QED BY <1>5, <2>2, <2>3 DEF BrokerCancels
<1> QED BY <1>1, <1>2, <1>3, <1>4, <1>5 DEF BrokerStep

\* Every step of the system keeps the types.
LEMMA TypeStep == TypeInv /\ [Next]_vars => TypeInv'
<1> SUFFICES ASSUME TypeInv, [Next]_vars PROVE TypeInv'
  OBVIOUS
<1>1. ASSUME NEW d \in Drafts, Prepare(d) PROVE TypeInv'
  BY <1>1 DEF Prepare, TypeInv, TypeOK, session, outside
<1>2. ASSUME NEW s \in Sessions, Crash(s) PROVE TypeInv'
  BY <1>2 DEF Crash, Return, TypeInv, TypeOK, Steps, outside
<1>3. CASE UNCHANGED vars
  BY <1>3 DEF vars, session, outside, TypeInv, TypeOK
<1> QED BY <1>1, <1>2, <1>3, TypeSubmit, TypeLookUp, TypeBroker DEF Next

\* Every variable keeps its type in every reachable state.
THEOREM TypeCorrect == Spec => []TypeOK
<1>1. TypeInv => TypeOK
  BY DEF TypeInv
<1> QED BY <1>1, TypeInit, TypeStep, PTL DEF Spec

----------------------------------------------------------------------------
(* ClaimInv is inductive: the intent is inserted once, and whoever inserted *)
(* it is the only one that may POST.                                       *)

\* Nobody may POST at first.
LEMMA ClaimInit == Init => ClaimInv
BY DEF Init, ClaimInv, AtMostOnePost, PostHasIntent

\* Recording never forgets an intent, whoever records.
LEMMA KnownStays ==
  ASSUME TypeInv, [Next]_vars, NEW d \in Drafts, known[d] # NoIntent
  PROVE  known'[d] # NoIntent
<1> USE DEF TypeInv, TypeOK
<1>1. ASSUME NEW s \in Sessions, draft[s] \in Drafts, NEW ev \in Observations, Record(s, ev)
      PROVE  known'[d] # NoIntent
  BY <1>1, MergeType DEF Record
<1>2. ASSUME NEW s \in Sessions, Submit(s) PROVE known'[d] # NoIntent
  <2>1. CASE SaveAccepted(s)
    BY <2>1, <1>1 DEF SaveAccepted, Observations
  <2>2. CASE SaveRejected(s)
    BY <2>2, <1>1 DEF SaveRejected, Observations
  <2>3. CASE Claim(s)
    BY <2>3 DEF Claim, Intent, NoIntent
  <2> QED BY <1>2, <2>1, <2>2, <2>3 DEF Submit, SubmitLoad, Abort, Post, Answered, Refused,
                                      Ambiguous, Reload
<1>3. ASSUME NEW s \in Sessions, LookUp(s) PROVE known'[d] # NoIntent
  <2>1. CASE SaveObserved(s)
    BY <2>1, <1>1 DEF SaveObserved, Observations
  <2>2. CASE SaveObservedFails(s)
    BY <2>2, <1>1 DEF SaveObservedFails, Observations
  <2>3. CASE SaveUnknown(s)
    BY <2>3, <1>1 DEF SaveUnknown, Observations
  <2> QED BY <1>3, <2>1, <2>2, <2>3 DEF LookUp, Reconcile, RefreshNext, RefreshLoad,
                                      LookupFound, LookupMissed
<1>4. ASSUME NEW e \in Drafts, Prepare(e) \/ BrokerStep(e) PROVE known'[d] # NoIntent
  BY <1>4 DEF Prepare, BrokerStep, BrokerTakes, BrokerRefuses, BrokerFills, BrokerDates,
              BrokerCancels
<1> QED BY <1>2, <1>3, <1>4 DEF Next, Crash, vars

\* A step other than Claim and Post: nobody gets ready to POST, nothing is sent.
Quiet ==
  /\ posts' = posts
  /\ \A t \in Sessions : pc'[t] = "post" => pc[t] = "post" /\ draft'[t] = draft[t]

\* Steps other than a claim and a POST give nobody the right to POST.
LEMMA OthersAreQuiet ==
  ASSUME TypeInv, [Next]_vars, \A s \in Sessions : ~Claim(s) /\ ~Post(s)
  PROVE  Quiet
<1> USE DEF TypeInv, TypeOK, Quiet, Goto, Return, outside, session
<1>1. ASSUME NEW s \in Sessions, Submit(s) PROVE Quiet
  BY <1>1 DEF Submit, SubmitLoad, Abort, Answered, Refused, Ambiguous, SaveAccepted,
              SaveRejected, Reload
<1>2. ASSUME NEW s \in Sessions, LookUp(s) PROVE Quiet
  <2>1. ASSUME NEW d \in Drafts, Reconcile(s, d) \/ RefreshNext(s, d) PROVE Quiet
    BY <2>1 DEF Reconcile, RefreshNext
  <2>2. CASE RefreshLoad(s)
    BY <2>2 DEF RefreshLoad
  <2>3. CASE LookupFound(s) \/ LookupMissed(s) \/ SaveObservedFails(s)
    BY <2>3 DEF LookupFound, LookupMissed, SaveObservedFails
  <2>4. CASE SaveObserved(s) \/ SaveUnknown(s)
    BY <2>4 DEF SaveObserved, SaveUnknown, NextLookup
  <2> QED BY <1>2, <2>1, <2>2, <2>3, <2>4 DEF LookUp
<1>3. ASSUME NEW s \in Sessions, Crash(s) PROVE Quiet
  BY <1>3 DEF Crash
<1>4. ASSUME NEW d \in Drafts, Prepare(d) \/ BrokerStep(d) PROVE Quiet
  BY <1>4 DEF Prepare, BrokerStep, BrokerTakes, BrokerRefuses, BrokerFills, BrokerDates,
              BrokerCancels
<1> QED BY <1>1, <1>2, <1>3, <1>4 DEF Next, vars

\* Every step keeps the right to POST to the one session that inserted the intent.
LEMMA ClaimStep == TypeInv /\ ClaimInv /\ [Next]_vars => ClaimInv'
<1> SUFFICES ASSUME TypeInv, ClaimInv, [Next]_vars PROVE ClaimInv'
  OBVIOUS
<1> USE DEF TypeInv, TypeOK, ClaimInv, AtMostOnePost, PostHasIntent
<1>1. \A d \in Drafts : known[d] # NoIntent => known'[d] # NoIntent
  BY KnownStays
<1>2. ASSUME NEW s \in Sessions, Claim(s) PROVE ClaimInv'
  <2>1. /\ draft[s] \in Drafts /\ known[draft[s]] = NoIntent
        /\ posts' = posts /\ known'[draft[s]] # NoIntent
    BY <1>2 DEF Claim, outside, Intent, NoIntent
  <2>2. posts[draft[s]] = 0
    BY <2>1
  <2>3. \A t \in Sessions : pc[t] = "post" => draft[t] # draft[s]
    BY <2>1
  <2>4. \A t \in Sessions : pc'[t] = "post" => /\ draft'[t] = draft[t]
                                               /\ t = s \/ pc[t] = "post"
    BY <1>2 DEF Claim, Goto, Return
  <2> QED BY <1>1, <2>1, <2>2, <2>3, <2>4
<1>3. ASSUME NEW s \in Sessions, Post(s) PROVE ClaimInv'
  <2>0. draft[s] \in Drafts /\ posts[draft[s]] = 0
    BY <1>3 DEF Post
  <2>1. /\ draft[s] \in Drafts /\ draft' = draft
        /\ posts' = [posts EXCEPT ![draft[s]] = 1]
        /\ known' = known
        /\ \A t \in Sessions : pc'[t] = "post" => pc[t] = "post" /\ t # s
    BY <1>3, <2>0 DEF Post, Goto
  <2>2. \A t \in Sessions : pc'[t] = "post" => draft[t] # draft[s]
    BY <1>3, <2>1 DEF Post
  <2> QED BY <1>3, <2>1, <2>2 DEF Post
<1>4. CASE \A s \in Sessions : ~Claim(s) /\ ~Post(s)
  <2>1. Quiet
    BY <1>4, OthersAreQuiet
  <2> QED BY <1>1, <2>1 DEF Quiet
<1> QED BY <1>2, <1>3, <1>4

\* The POST of a draft is sent at most once, by whatever sessions, crashes,
\* timeouts and lost confirmations.
THEOREM OnePost == Spec => []AtMostOnePost
<1>1. TypeInv /\ ClaimInv => AtMostOnePost
  BY DEF ClaimInv
<1> QED BY <1>1, TypeInit, TypeStep, ClaimInit, ClaimStep, PTL DEF Spec

\* A POST is sent only for an attempt already in the durable log.
THEOREM IntentBeforePost == Spec => []PostHasIntent
<1>1. TypeInv /\ ClaimInv => PostHasIntent
  BY DEF ClaimInv
<1> QED BY <1>1, TypeInit, TypeStep, ClaimInit, ClaimStep, PTL DEF Spec

----------------------------------------------------------------------------
(* BrokerInv is inductive: what is read from the broker precedes what it    *)
(* holds from then on, so it may be recorded at any later time.             *)

\* An order may stay as it is between two readings.
LEMMA FollowsReflexive == \A r \in Receipts : Follows(r, r)
BY ReceiptFields DEF Follows

\* What may follow in two stretches may follow in one.
LEMMA FollowsTransitive ==
  ASSUME NEW a \in Receipts, NEW b \in Receipts, NEW c \in Receipts,
         Follows(a, b), Follows(b, c)
  PROVE  Follows(a, c)
BY ReceiptFields DEF Follows

\* Nothing is recorded or held at first.
LEMMA BrokerInit == Init => BrokerInv
BY StatesAreTyped DEF Init, BrokerInv, WireInv, HeldInv, KnownInv, RejectedNeverAtBroker,
  KnownFollowsBroker, Dated, NoReceipt, NoIntent, Rejected, HasReceipt

\* The broker only moves forward, and its verdict on a POST is final.
Forward ==
  \A d \in Drafts :
    /\ broker[d] # NoReceipt => broker'[d] # NoReceipt /\ Follows(broker[d], broker'[d])
    /\ wire[d] = "refused" => wire'[d] = "refused"

\* The broker only moves an order forward, and a refusal is final.
LEMMA BrokerForward ==
  ASSUME TypeInv, WireInv, NEW d \in Drafts, BrokerStep(d)
  PROVE  Forward /\ WireInv'
<1> USE DEF TypeInv, TypeOK
<1>0. \A e \in Drafts : broker[e] # NoReceipt => broker[e] \in Receipts /\ Follows(broker[e], broker[e])
  BY FollowsReflexive
<1>1. CASE BrokerTakes(d)
  BY <1>0, <1>1, FreshIsReceipt DEF BrokerTakes, Forward, WireInv, Dated, Accepted
<1>2. CASE BrokerRefuses(d)
  BY <1>0, <1>2 DEF BrokerRefuses, Forward, WireInv
<1>3. ASSUME NEW r \in Receipts, broker[d] # NoReceipt, Follows(broker[d], r), Dated(r),
             broker' = [broker EXCEPT ![d] = r], UNCHANGED <<posts, wire>>
      PROVE  Forward /\ WireInv'
  BY <1>0, <1>3, ReceiptFields DEF Forward, WireInv
<1>4. CASE BrokerFills(d)
  <2>0. broker[d] \in Receipts /\ broker[d].filled \in Nat /\ broker[d].filled < Qty /\ ~broker[d].at
    BY <1>4, ReceiptFields DEF BrokerFills, NoReceipt, Live, WireInv, Dated
  <2>1. CASE broker[d].filled + 1 = Qty
    <3>1. PICK at \in BOOLEAN :
            broker' = [broker EXCEPT ![d] = [status |-> "filled", filled |-> Qty, at |-> at]]
      BY <1>4, <2>1 DEF BrokerFills
    <3> DEFINE r == [status |-> "filled", filled |-> Qty, at |-> at]
    <3>2. r \in Receipts /\ Dated(r)
      BY QtyAssumption DEF Receipts, Statuses, Terminal, Dated
    <3>3. Follows(broker[d], r)
      BY <1>4, <2>0, QtyAssumption DEF BrokerFills, Follows, Terminal
    <3> QED BY <1>3, <1>4, <2>0, <3>1, <3>2, <3>3, ReceiptFields DEF BrokerFills
  <2>2. CASE broker[d].filled + 1 # Qty
    <3> DEFINE r == [status |-> "partially_filled", filled |-> broker[d].filled + 1, at |-> FALSE]
    <3>1. broker' = [broker EXCEPT ![d] = r]
      BY <1>4, <2>2 DEF BrokerFills
    <3>2. r \in Receipts /\ Dated(r)
      BY <2>0, QtyAssumption DEF Receipts, Statuses, Dated
    <3>3. Follows(broker[d], r)
      BY <1>4, <2>0, QtyAssumption DEF BrokerFills, Follows, Terminal
    <3> QED BY <1>3, <1>4, <2>0, <3>1, <3>2, <3>3, ReceiptFields DEF BrokerFills
  <2> QED BY <2>1, <2>2
<1>5. CASE BrokerDates(d)
  <2> DEFINE r == [broker[d] EXCEPT !.at = TRUE]
  <2>1. broker[d] \in Receipts /\ broker' = [broker EXCEPT ![d] = r]
    BY <1>5 DEF BrokerDates, NoReceipt
  <2>2. r \in Receipts /\ Dated(r)
    BY <1>5, <2>1 DEF BrokerDates, Receipts, Dated
  <2>3. Follows(broker[d], r)
    BY <2>1, FollowsReflexive DEF Follows, Receipts
  <2> QED BY <1>3, <1>5, <2>1, <2>2, <2>3, ReceiptFields DEF BrokerDates
<1>6. CASE BrokerCancels(d)
  <2> DEFINE r == [broker[d] EXCEPT !.status = "canceled"]
  <2>1. broker[d] \in Receipts /\ ~broker[d].at /\ broker' = [broker EXCEPT ![d] = r]
    BY <1>6, ReceiptFields DEF BrokerCancels, NoReceipt, WireInv, Dated
  <2>2. r \in Receipts /\ Dated(r)
    BY <2>1 DEF Receipts, Dated, Statuses, Terminal
  <2>3. Follows(broker[d], r)
    BY <1>6, <2>1 DEF BrokerCancels, Follows, Receipts, Terminal
  <2> QED BY <1>3, <1>6, <2>1, <2>2, <2>3, ReceiptFields DEF BrokerCancels
<1> QED BY <1>1, <1>2, <1>4, <1>5, <1>6 DEF BrokerStep

\* What was read or recorded still precedes the broker after a step of it.
LEMMA BrokerStepKeeps ==
  ASSUME TypeInv, BrokerInv, NEW d \in Drafts, BrokerStep(d)
  PROVE  BrokerInv'
<1> USE DEF TypeInv, TypeOK
<1>1. Forward /\ WireInv' /\ broker' \in [Drafts -> Receipts \cup {NoReceipt}]
  BY BrokerForward, TypeBroker DEF BrokerInv
<1>2. UNCHANGED <<known, pc, draft, reply>>
  BY DEF BrokerStep, BrokerTakes, BrokerRefuses, BrokerFills, BrokerDates, BrokerCancels, session
<1>3. ASSUME NEW r \in Receipts, NEW e \in Drafts, broker[e] # NoReceipt, Follows(r, broker[e])
      PROVE  broker'[e] # NoReceipt /\ Follows(r, broker'[e])
  BY <1>1, <1>3, FollowsTransitive DEF Forward
<1>4. HeldInv'
  BY <1>1, <1>2, <1>3 DEF HeldInv, BrokerInv, Forward
<1>5. KnownInv'
  <2>1. \A e \in Drafts : HasReceipt(known[e]) => known[e].rcpt \in Receipts
    BY DEF HasReceipt, OrderStates
  <2>2. KnownFollowsBroker'
    BY <1>2, <1>3, <2>1 DEF KnownFollowsBroker, BrokerInv, KnownInv
  <2>3. RejectedNeverAtBroker'
    BY <1>1, <1>2 DEF RejectedNeverAtBroker, BrokerInv, KnownInv, WireInv, Forward
  <2> QED BY <1>2, <2>2, <2>3 DEF KnownInv, BrokerInv
<1> QED BY <1>1, <1>4, <1>5 DEF BrokerInv

\* Recording something the broker said keeps the log behind the broker, and
\* ahead of what it said before.
LEMMA RecordSound ==
  ASSUME TypeInv, BrokerInv, NEW s \in Sessions, draft[s] \in Drafts,
         NEW ev \in Observations, Record(s, ev), UNCHANGED <<wire, broker>>,
         ev = Rejected => wire[draft[s]] = "refused",
         HasReceipt(ev) => /\ Dated(ev.rcpt)
                           /\ broker[draft[s]] # NoReceipt
                           /\ Follows(ev.rcpt, broker[draft[s]])
  PROVE  /\ KnownInv'
         /\ \A d \in Drafts : HasReceipt(known[d]) =>
              HasReceipt(known'[d]) /\ Follows(known[d].rcpt, known'[d].rcpt)
<1> USE DEF TypeInv, TypeOK
<1> DEFINE d == draft[s]
           new == Merge(known[d], ev)
<1>1. known' = [known EXCEPT ![d] = new]
  BY DEF Record
<1>2. \A e \in Drafts : HasReceipt(known[e]) => known[e].rcpt \in Receipts
  BY DEF HasReceipt, OrderStates
<1>3. CASE HasReceipt(known[d])
  <2>1. /\ broker[d] # NoReceipt /\ broker[d] \in Receipts
        /\ Dated(broker[d]) /\ Dated(known[d].rcpt)
        /\ Follows(known[d].rcpt, broker[d])
    BY <1>3 DEF BrokerInv, WireInv, KnownInv, KnownFollowsBroker
  <2>2. /\ HasReceipt(new) /\ Dated(new.rcpt)
        /\ Follows(known[d].rcpt, new.rcpt) /\ Follows(new.rcpt, broker[d])
    BY <1>3, <2>1, MergeFollows
  <2>3. new # Rejected
    BY <2>2 DEF HasReceipt, Rejected
  <2> HIDE DEF new
  <2>4. \A e \in Drafts : known'[e] = IF e = d THEN new ELSE known[e]
    BY <1>1
  <2>5. \A e \in Drafts : Dated(known'[e].rcpt)
    BY <2>2, <2>4 DEF KnownInv, BrokerInv
  <2>6. RejectedNeverAtBroker'
    BY <2>3, <2>4 DEF KnownInv, RejectedNeverAtBroker, BrokerInv
  <2>7. KnownFollowsBroker'
    <3>1. ASSUME NEW e \in Drafts, HasReceipt(known'[e])
          PROVE  broker'[e] # NoReceipt /\ Follows(known'[e].rcpt, broker'[e])
      <4>1. CASE e = d
        BY <4>1, <2>1, <2>2, <2>4
      <4>2. CASE e # d
        BY <4>2, <3>1, <2>4 DEF BrokerInv, KnownInv, KnownFollowsBroker
      <4> QED BY <4>1, <4>2
    <3> QED BY <3>1 DEF KnownFollowsBroker
  <2>8. KnownInv'
    BY <2>5, <2>6, <2>7 DEF KnownInv
  <2> QED BY <2>4, <1>2, <2>2, <2>8, FollowsReflexive
<1>4. CASE ~HasReceipt(known[d])
  <2>1. new = ev
    BY <1>4 DEF Merge
  <2>2. Dated(ev.rcpt)
    <3>1. CASE HasReceipt(ev)
      BY <3>1
    <3>2. CASE ~HasReceipt(ev)
      BY <3>2 DEF Observations, Unknown, Rejected, Confirmed, HasReceipt, Dated, NoReceipt
    <3> QED BY <3>1, <3>2
  <2>3. wire[d] = "refused" => broker[d] = NoReceipt
    BY DEF BrokerInv, WireInv
  <2>4. KnownInv'
    BY <1>1, <2>1, <2>2, <2>3 DEF KnownInv, KnownFollowsBroker, RejectedNeverAtBroker, BrokerInv
  <2> QED BY <1>1, <1>2, <1>4, <2>4, FollowsReflexive
<1> QED BY <1>3, <1>4

\* A session step that records nothing and sends nothing.
LEMMA UnrecordedKeeps ==
  ASSUME TypeInv, BrokerInv, UNCHANGED <<known, outside>>
  PROVE  /\ WireInv' /\ KnownInv'
         /\ \A d \in Drafts : HasReceipt(known[d]) =>
              HasReceipt(known'[d]) /\ Follows(known[d].rcpt, known'[d].rcpt)
<1>1. \A e \in Drafts : HasReceipt(known[e]) => known[e].rcpt \in Receipts
  BY DEF HasReceipt, OrderStates, TypeInv, TypeOK
<1>2. UNCHANGED <<known, posts, wire, broker>>
  BY DEF outside
<1>3. WireInv'
  BY <1>2 DEF BrokerInv, WireInv
<1>4. KnownInv'
  BY <1>2 DEF BrokerInv, KnownInv, KnownFollowsBroker, RejectedNeverAtBroker
<1> QED BY <1>1, <1>2, <1>3, <1>4, FollowsReflexive

\* What a step does to the log: nothing older is recorded over a receipt.
LogForward ==
  \A d \in Drafts : HasReceipt(known[d]) =>
    HasReceipt(known'[d]) /\ Follows(known[d].rcpt, known'[d].rcpt)

\* The held replies after a step of s that leaves s holding nothing new.
LEMMA HeldElsewhere ==
  ASSUME TypeInv, BrokerInv, NEW s \in Sessions, UNCHANGED <<wire, broker>>,
         \A t \in Sessions : t # s => pc'[t] = pc[t] /\ draft'[t] = draft[t] /\ reply'[t] = reply[t],
         pc'[s] \notin {"reject", "accept", "observe"}
  PROVE  HeldInv'
BY DEF BrokerInv, HeldInv

\* Every step of submit_order records only what the broker said.
LEMMA SubmitKeeps ==
  ASSUME TypeInv, ClaimInv, BrokerInv, NEW s \in Sessions, Submit(s)
  PROVE  BrokerInv' /\ LogForward
<1> USE DEF TypeInv, TypeOK
<1>0. \A r \in Receipts : Confirmed(r).rcpt = r /\ HasReceipt(Confirmed(r)) /\ Confirmed(r) # Rejected
  BY DEF Confirmed, HasReceipt, Rejected
<1>1. ASSUME NEW d \in Drafts, SubmitLoad(s, d) PROVE BrokerInv' /\ LogForward
  BY <1>1, UnrecordedKeeps, HeldElsewhere DEF SubmitLoad, Goto, outside, BrokerInv, LogForward
<1>2. CASE Abort(s) \/ Reload(s) \/ Ambiguous(s)
  BY <1>2, UnrecordedKeeps, HeldElsewhere
     DEF Abort, Reload, Ambiguous, Goto, Return, outside, BrokerInv, LogForward
<1>3. CASE Claim(s)
  <2>1. /\ draft[s] \in Drafts /\ known' = [known EXCEPT ![draft[s]] = Intent]
        /\ ~HasReceipt(known[draft[s]]) /\ UNCHANGED <<posts, wire, broker>>
    BY <1>3 DEF Claim, outside, HasReceipt, NoIntent
  <2>2. HeldInv'
    BY <1>3, <2>1, HeldElsewhere DEF Claim, Goto, Return
  <2>3. ~HasReceipt(Intent) /\ Dated(Intent.rcpt) /\ Intent # Rejected
    BY DEF Intent, HasReceipt, Dated, NoReceipt, Rejected
  <2>4. KnownInv'
    BY <2>1, <2>3 DEF BrokerInv, KnownInv, RejectedNeverAtBroker, KnownFollowsBroker
  <2>5. WireInv'
    BY <2>1 DEF BrokerInv, WireInv
  <2>6. \A d \in Drafts : HasReceipt(known[d]) => known[d].rcpt \in Receipts /\ known'[d] = known[d]
    BY <2>1 DEF HasReceipt, OrderStates
  <2> QED BY <2>2, <2>4, <2>5, <2>6, FollowsReflexive DEF BrokerInv, LogForward
<1>4. CASE Post(s)
  <2>0. draft[s] \in Drafts /\ posts[draft[s]] = 0 /\ UNCHANGED <<known, broker, draft, reply>>
    BY <1>4 DEF Post, ClaimInv
  <2>1. wire[draft[s]] = "none" /\ broker[draft[s]] = NoReceipt
    BY <2>0 DEF BrokerInv, WireInv
  <2>2. posts' = [posts EXCEPT ![draft[s]] = 1] /\ wire' = [wire EXCEPT ![draft[s]] = "sent"]
    BY <1>4, <2>0 DEF Post
  <2>3. WireInv'
    BY <2>0, <2>1, <2>2 DEF BrokerInv, WireInv
  <2>4. KnownInv'
    BY <2>0, <2>1, <2>2 DEF BrokerInv, KnownInv, RejectedNeverAtBroker, KnownFollowsBroker
  <2>5. \A t \in Sessions : pc'[t] \in {"reject", "accept", "observe"} => pc'[t] = pc[t]
    BY <1>4 DEF Post, Goto
  <2>6. HeldInv'
    BY <2>0, <2>1, <2>2, <2>5 DEF BrokerInv, HeldInv
  <2>7. \A d \in Drafts : HasReceipt(known[d]) => known[d].rcpt \in Receipts
    BY DEF HasReceipt, OrderStates
  <2> QED BY <2>0, <2>3, <2>4, <2>6, <2>7, FollowsReflexive DEF BrokerInv, LogForward
<1>5. CASE Answered(s)
  <2>1. draft[s] \in Drafts /\ wire[draft[s]] = "created" /\ UNCHANGED <<known, draft, outside>>
    BY <1>5 DEF Answered
  <2>2. broker[draft[s]] # NoReceipt /\ Follows(Accepted, broker[draft[s]]) /\ Dated(Accepted)
    BY <2>1, ReceiptFields DEF BrokerInv, WireInv, Follows, Accepted, Terminal, Dated
  <2>3. HeldInv'
    BY <1>5, <2>1, <2>2 DEF Answered, Goto, outside, BrokerInv, HeldInv
  <2> QED BY <2>1, <2>3, UnrecordedKeeps DEF BrokerInv, LogForward
<1>6. CASE Refused(s)
  <2>1. UNCHANGED <<known, draft, reply, outside>> /\ wire[draft[s]] = "refused"
    BY <1>6 DEF Refused
  <2>2. HeldInv'
    BY <1>6, <2>1 DEF Refused, Goto, outside, BrokerInv, HeldInv
  <2> QED BY <2>1, <2>2, UnrecordedKeeps DEF BrokerInv, LogForward
<1>7. CASE SaveAccepted(s)
  <2>1. /\ draft[s] \in Drafts /\ reply[s] \in Receipts /\ UNCHANGED <<posts, wire, broker>>
        /\ Record(s, Confirmed(reply[s])) \/ UNCHANGED known
        /\ Confirmed(reply[s]) \in Observations
    BY <1>7 DEF SaveAccepted, outside, Observations
  <2>2. /\ Dated(reply[s]) /\ broker[draft[s]] # NoReceipt
        /\ Follows(reply[s], broker[draft[s]])
    BY <1>7 DEF SaveAccepted, BrokerInv, HeldInv
  <2>3. KnownInv' /\ LogForward
    BY <2>1, <2>2, <1>0, RecordSound, UnrecordedKeeps DEF outside, LogForward
  <2>4. HeldInv'
    BY <1>7, <2>1, HeldElsewhere DEF SaveAccepted, Return
  <2> QED BY <2>1, <2>3, <2>4 DEF BrokerInv, WireInv
<1>8. CASE SaveRejected(s)
  <2>1. /\ draft[s] \in Drafts /\ wire[draft[s]] = "refused" /\ UNCHANGED <<posts, wire, broker>>
        /\ Record(s, Rejected) \/ UNCHANGED known
        /\ Rejected \in Observations /\ ~HasReceipt(Rejected)
    BY <1>8 DEF SaveRejected, outside, Observations, BrokerInv, HeldInv, Rejected, HasReceipt
  <2>2. KnownInv' /\ LogForward
    BY <2>1, RecordSound, UnrecordedKeeps DEF outside, LogForward
  <2>3. HeldInv'
    BY <1>8, <2>1, HeldElsewhere DEF SaveRejected, Return
  <2> QED BY <2>1, <2>2, <2>3 DEF BrokerInv, WireInv
<1> QED BY <1>1, <1>2, <1>3, <1>4, <1>5, <1>6, <1>7, <1>8 DEF Submit

\* So does every step of a lookup, and no lookup records a refusal.
LEMMA LookUpKeeps ==
  ASSUME TypeInv, BrokerInv, NEW s \in Sessions, LookUp(s)
  PROVE  BrokerInv' /\ LogForward
<1> USE DEF TypeInv, TypeOK
<1>0. \A r \in Receipts : Confirmed(r).rcpt = r /\ HasReceipt(Confirmed(r)) /\ Confirmed(r) # Rejected
  BY DEF Confirmed, HasReceipt, Rejected
<1>1. ASSUME NEW d \in Drafts, Reconcile(s, d) \/ RefreshNext(s, d) PROVE BrokerInv' /\ LogForward
  BY <1>1, UnrecordedKeeps, HeldElsewhere
     DEF Reconcile, RefreshNext, Goto, outside, BrokerInv, LogForward
<1>2. CASE RefreshLoad(s) \/ LookupMissed(s)
  BY <1>2, UnrecordedKeeps, HeldElsewhere
     DEF RefreshLoad, LookupMissed, Goto, outside, BrokerInv, LogForward
<1>3. CASE LookupFound(s)
  <2>1. /\ draft[s] \in Drafts /\ broker[draft[s]] # NoReceipt /\ UNCHANGED <<known, draft, outside>>
    BY <1>3 DEF LookupFound
  <2>2. Follows(broker[draft[s]], broker[draft[s]]) /\ Dated(broker[draft[s]])
    BY <2>1, FollowsReflexive DEF BrokerInv, WireInv
  <2>3. HeldInv'
    BY <1>3, <2>1, <2>2 DEF LookupFound, Goto, outside, BrokerInv, HeldInv
  <2> QED BY <2>1, <2>3, UnrecordedKeeps DEF BrokerInv, LogForward
<1>4. ASSUME pc[s] = "observe", UNCHANGED outside,
             Record(s, Confirmed(reply[s])) \/ UNCHANGED known
      PROVE  WireInv' /\ KnownInv' /\ LogForward
  <2>1. /\ draft[s] \in Drafts /\ reply[s] \in Receipts /\ UNCHANGED <<posts, wire, broker>>
        /\ Confirmed(reply[s]) \in Observations
    BY <1>4 DEF outside, Observations
  <2>2. /\ Dated(reply[s]) /\ broker[draft[s]] # NoReceipt
        /\ Follows(reply[s], broker[draft[s]])
    BY <1>4 DEF BrokerInv, HeldInv
  <2>3. KnownInv' /\ LogForward
    BY <1>4, <2>1, <2>2, <1>0, RecordSound, UnrecordedKeeps DEF LogForward
  <2> QED BY <2>1, <2>3 DEF BrokerInv, WireInv
<1>5. CASE SaveObserved(s)
  <2>1. WireInv' /\ KnownInv' /\ LogForward /\ UNCHANGED <<wire, broker>>
    BY <1>4, <1>5 DEF SaveObserved, outside
  <2>2. HeldInv'
    BY <1>5, <2>1, HeldElsewhere DEF SaveObserved, NextLookup
  <2> QED BY <2>1, <2>2 DEF BrokerInv
<1>6. CASE SaveObservedFails(s)
  <2>1. WireInv' /\ KnownInv' /\ LogForward /\ UNCHANGED <<wire, broker>>
    BY <1>4, <1>6 DEF SaveObservedFails, outside
  <2>2. HeldInv'
    BY <1>6, <2>1, HeldElsewhere DEF SaveObservedFails, Return, Goto
  <2> QED BY <2>1, <2>2 DEF BrokerInv
<1>7. CASE SaveUnknown(s)
  <2>1. /\ draft[s] \in Drafts /\ UNCHANGED <<posts, wire, broker>>
        /\ Record(s, Unknown) \/ UNCHANGED known
        /\ Unknown \in Observations /\ ~HasReceipt(Unknown) /\ Unknown # Rejected
    BY <1>7 DEF SaveUnknown, outside, Observations, Unknown, Rejected, HasReceipt
  <2>2. KnownInv' /\ LogForward
    BY <2>1, RecordSound, UnrecordedKeeps DEF outside, LogForward
  <2>3. HeldInv'
    BY <1>7, <2>1, HeldElsewhere DEF SaveUnknown, NextLookup
  <2> QED BY <2>1, <2>2, <2>3 DEF BrokerInv, WireInv
<1> QED BY <1>1, <1>2, <1>3, <1>5, <1>6, <1>7 DEF LookUp

\* Every step of the system keeps the log behind the broker and moves it forward.
LEMMA BrokerInvStep == IInv /\ [Next]_vars => BrokerInv' /\ LogForward
<1> SUFFICES ASSUME IInv, [Next]_vars PROVE BrokerInv' /\ LogForward
  OBVIOUS
<1> USE DEF IInv
<1>1. ASSUME NEW s \in Sessions, Submit(s) \/ LookUp(s) PROVE BrokerInv' /\ LogForward
  BY <1>1, SubmitKeeps, LookUpKeeps
<1>2. ASSUME NEW s \in Sessions, Crash(s) PROVE BrokerInv' /\ LogForward
  BY <1>2, UnrecordedKeeps, HeldElsewhere
     DEF Crash, Return, outside, BrokerInv, LogForward, TypeInv, TypeOK
<1>3. ASSUME UNCHANGED <<known, session, outside>> PROVE BrokerInv' /\ LogForward
  <2>1. HeldInv'
    BY <1>3 DEF session, outside, BrokerInv, HeldInv
  <2> QED BY <1>3, <2>1, UnrecordedKeeps DEF BrokerInv, LogForward
<1>4. ASSUME NEW d \in Drafts, BrokerStep(d) PROVE BrokerInv' /\ LogForward
  <2>1. UNCHANGED known
    BY <1>4 DEF BrokerStep, BrokerTakes, BrokerRefuses, BrokerFills, BrokerDates, BrokerCancels
  <2>2. \A e \in Drafts : HasReceipt(known[e]) => known[e].rcpt \in Receipts
    BY DEF HasReceipt, OrderStates, TypeInv, TypeOK
  <2>3. LogForward
    BY <2>1, <2>2, FollowsReflexive DEF LogForward
  <2> QED BY <1>4, <2>3, BrokerStepKeeps
<1>5. ASSUME NEW d \in Drafts, Prepare(d) PROVE UNCHANGED <<known, session, outside>>
  BY <1>5 DEF Prepare
<1> QED BY <1>1, <1>2, <1>3, <1>4, <1>5 DEF Next, vars

\* The inductive invariant holds at first.
LEMMA IInvInit == Init => IInv
BY TypeInit, ClaimInit, BrokerInit DEF IInv

\* The inductive invariant is kept by every step.
LEMMA IInvStep == IInv /\ [Next]_vars => IInv'
BY TypeStep, ClaimStep, BrokerInvStep DEF IInv

\* No failure is ever taken for the absence of an order.
THEOREM RejectedIsFinal == Spec => []RejectedNeverAtBroker
<1>1. IInv => RejectedNeverAtBroker
  BY DEF IInv, BrokerInv, KnownInv
<1> QED BY <1>1, IInvInit, IInvStep, PTL DEF Spec

\* The log never runs ahead of the broker.
THEOREM LogFollowsBroker == Spec => []KnownFollowsBroker
<1>1. IInv => KnownFollowsBroker
  BY DEF IInv, BrokerInv, KnownInv
<1> QED BY <1>1, IInvInit, IInvStep, PTL DEF Spec

\* No step takes back a confirmation: quantities, final states and fill dates
\* only move forward, in whatever order observations are recorded.
THEOREM ConfirmationsStay == Spec => ConfirmedNeverRegresses
<1>1. IInv /\ [Next]_vars =>
        [\A d \in Drafts : HasReceipt(known[d]) =>
           HasReceipt(known'[d]) /\ Follows(known[d].rcpt, known'[d].rcpt)]_vars
  BY BrokerInvStep DEF LogForward
<1> QED BY <1>1, IInvInit, IInvStep, PTL DEF Spec, ConfirmedNeverRegresses

----------------------------------------------------------------------------
(* PaperOrders implements OrderPromise.  Two facts are added to IInv:       *)
(*   Issued     every receipt held or recorded is one the broker issues;    *)
(*   Attempted  whoever is about to record has an attempt in the log.       *)
(* Only claims, POSTs, records that change the log and the steps of the     *)
(* broker are steps of the promise; everything else is a stutter.           *)

Issued ==
  /\ \A d \in Drafts : broker[d] # NoReceipt => broker[d] \in Issuable
  /\ \A s \in Sessions : pc[s] \in {"accept", "observe"} => reply[s] \in Issuable
  /\ \A d \in Drafts : HasReceipt(known[d]) => known[d].rcpt \in Issuable

Recording == {"post", "wait", "accept", "reject", "reload", "lookup", "observe", "miss"}

Attempted ==
  \A s \in Sessions : /\ pc[s] \in Recording => known[draft[s]] # NoIntent
                      /\ \A d \in todo[s] : known[d] # NoIntent

PInv == IInv /\ Issued /\ Attempted

----------------------------------------------------------------------------
(* The data of the promise and the merging of issued receipts. *)

\* The promise talks about the same states and receipts.
LEMMA SameData ==
  /\ Promise!NoIntent = NoIntent /\ Promise!Intent = Intent
  /\ Promise!Unknown = Unknown /\ Promise!Rejected = Rejected
  /\ Promise!NoReceipt = NoReceipt /\ Promise!Issuable = Issuable
  /\ \A r : Promise!Confirmed(r) = Confirmed(r)
  /\ \A st : Promise!HasReceipt(st) <=> HasReceipt(st)
  /\ \A r1, r2 : Promise!Follows(r1, r2) <=> Follows(r1, r2)
<1>1. Promise!Issuable = Issuable
  BY DEF Promise!Issuable, Issuable, Promise!Receipts, Receipts, Promise!Statuses, Statuses,
         Promise!Terminal, Terminal
<1>2. Promise!NoReceipt = NoReceipt
  BY DEF Promise!NoReceipt, NoReceipt
<1>3. /\ Promise!NoIntent = NoIntent /\ Promise!Intent = Intent
      /\ Promise!Unknown = Unknown /\ Promise!Rejected = Rejected
  BY <1>2 DEF Promise!NoIntent, NoIntent, Promise!Intent, Intent, Promise!Unknown, Unknown,
              Promise!Rejected, Rejected
<1>4. \A r : Promise!Confirmed(r) = Confirmed(r)
  BY DEF Promise!Confirmed, Confirmed
<1>5. \A st : Promise!HasReceipt(st) <=> HasReceipt(st)
  BY DEF Promise!HasReceipt, HasReceipt
<1>6. \A r1, r2 : Promise!Follows(r1, r2) <=> Follows(r1, r2)
  BY DEF Promise!Follows, Follows, Promise!Terminal, Terminal
<1> QED BY <1>1, <1>2, <1>3, <1>4, <1>5, <1>6

\* Each action of the promise is a step of it.
LEMMA PromiseSteps ==
  ASSUME NEW d \in Drafts,
         \/ Promise!Claim(d) \/ Promise!Send(d)
         \/ Promise!MarketRefuses(d) \/ Promise!MarketMoves(d)
         \/ Promise!TellNothing(d) \/ Promise!TellReceipt(d)
  PROVE  [Promise!Next]_(Promise!vars)
BY DEF Promise!Next

\* Folding an issued receipt over an issued one gives an issued one.
LEMMA MergeIssued ==
  ASSUME NEW old \in OrderStates, NEW ev \in Observations,
         HasReceipt(old) => old.rcpt \in Issuable,
         HasReceipt(ev) => ev.rcpt \in Issuable
  PROVE  HasReceipt(Merge(old, ev)) => Merge(old, ev).rcpt \in Issuable
<1>1. CASE ~HasReceipt(old)
  BY <1>1 DEF Merge
<1>2. CASE HasReceipt(old) /\ (~HasReceipt(ev) \/ Stale(old.rcpt, ev.rcpt))
  BY <1>2 DEF Merge
<1>3. CASE HasReceipt(old) /\ HasReceipt(ev) /\ ~Stale(old.rcpt, ev.rcpt)
  <2> DEFINE new == [ev.rcpt EXCEPT !.at = @ \/ (old.rcpt.at /\ ev.rcpt.status = "filled")]
  <2>1. Merge(old, ev).rcpt = new
    BY <1>3 DEF Merge, Confirmed
  <2>2. ev.rcpt \in Issuable
    BY <1>3
  <2>3. old.rcpt.at \in BOOLEAN
    BY <1>3 DEF Issuable, Receipts
  <2>4. new \in Issuable
    BY <2>2, <2>3 DEF Issuable, Receipts, Statuses, Terminal
  <2> QED BY <2>1, <2>4
<1> QED BY <1>1, <1>2, <1>3

\* Recording an issued receipt keeps the log to issued receipts, and is what
\* the promise allows the app to be told.
LEMMA RecordTells ==
  ASSUME PInv, NEW s \in Sessions, draft[s] \in Drafts, known[draft[s]] # NoIntent,
         NEW ev \in Observations, Record(s, ev), UNCHANGED <<posts, wire, broker>>,
         ev = Rejected => wire[draft[s]] = "refused",
         HasReceipt(ev) => /\ ev.rcpt \in Issuable
                           /\ Dated(ev.rcpt)
                           /\ broker[draft[s]] # NoReceipt
                           /\ Follows(ev.rcpt, broker[draft[s]])
  PROVE  /\ \A d \in Drafts : HasReceipt(known'[d]) => known'[d].rcpt \in Issuable
         /\ [Promise!Next]_(Promise!vars)
<1> DEFINE d == draft[s]
           new == Merge(known[d], ev)
<1>0. TypeInv /\ BrokerInv /\ Issued /\ known \in [Drafts -> OrderStates]
  BY DEF PInv, IInv, TypeInv, TypeOK
<1>1. known' = [known EXCEPT ![d] = new]
  BY DEF Record
<1>2. HasReceipt(new) => new.rcpt \in Issuable
  BY <1>0, MergeIssued DEF Issued
<1>3. new \in OrderStates /\ known[d] \in OrderStates
  BY <1>0, MergeType
<1>4. known'[d] = new
  BY <1>0, <1>1
<1>5. /\ KnownInv'
      /\ HasReceipt(known[d]) => HasReceipt(new) /\ Follows(known[d].rcpt, new.rcpt)
  BY <1>0, <1>4, RecordSound
<1>6. \A e \in Drafts : HasReceipt(known'[e]) => known'[e].rcpt \in Issuable
  BY <1>0, <1>1, <1>2 DEF Issued
<1>7. CASE HasReceipt(new)
  <2>1. broker[d] # NoReceipt /\ Follows(new.rcpt, broker[d])
    BY <1>4, <1>5, <1>7 DEF KnownInv, KnownFollowsBroker
  <2>2. new = Confirmed(new.rcpt)
    BY <1>3, <1>7 DEF OrderStates, HasReceipt, Confirmed
  <2>3. Promise!TellReceipt(d)
    BY <1>1, <1>2, <1>5, <1>7, <2>1, <2>2, SameData DEF Promise!TellReceipt
  <2> QED BY <1>6, <2>3, PromiseSteps
<1>8. CASE ~HasReceipt(new)
  <2>1. ~HasReceipt(known[d])
    BY <1>5, <1>8
  <2>2. new = ev
    BY <2>1 DEF Merge
  <2>3. new = Unknown \/ (new = Rejected /\ wire[d] = "refused")
    BY <1>8, <2>2 DEF Observations, Confirmed, HasReceipt
  <2>4. known[d] \in {Intent, Unknown, Rejected}
    BY <1>3, <2>1 DEF OrderStates, Kinds, HasReceipt, NoIntent, Intent, Unknown, Rejected
  <2>5. Promise!TellNothing(d)
    BY <1>1, <2>3, <2>4, SameData DEF Promise!TellNothing
  <2> QED BY <1>6, <2>5, PromiseSteps
<1> QED BY <1>7, <1>8

----------------------------------------------------------------------------
(* The two facts added are inductive. *)

\* Nothing is issued or attempted at first.
LEMMA PInvInit == Init => PInv
BY IInvInit DEF Init, PInv, Issued, Attempted, Recording, HasReceipt, NoIntent

\* Whoever records found the attempt in the log or put it there, and no record
\* takes an attempt out of it.
LEMMA AttemptedStep ==
  ASSUME PInv, [Next]_vars
  PROVE  Attempted'
<1> USE DEF PInv, IInv, TypeInv, TypeOK, Attempted, Recording, Goto, Return, outside, session
<1>1. \A d \in Drafts : known[d] # NoIntent => known'[d] # NoIntent
  BY KnownStays
<1>2. ASSUME NEW s \in Sessions, Submit(s) PROVE Attempted'
  <2>1. CASE Claim(s)
    <3>1. known'[draft[s]] # NoIntent
      BY <2>1 DEF Claim, Intent, NoIntent
    <3> QED BY <1>1, <2>1, <3>1 DEF Claim
  <2>2. CASE SaveAccepted(s) \/ SaveRejected(s)
    BY <1>1, <2>2 DEF SaveAccepted, SaveRejected
  <2>3. ASSUME NEW d \in Drafts, SubmitLoad(s, d) PROVE Attempted'
    BY <2>3 DEF SubmitLoad
  <2>4. CASE Abort(s) \/ Post(s) \/ Answered(s) \/ Refused(s) \/ Ambiguous(s) \/ Reload(s)
    BY <2>4 DEF Abort, Post, Answered, Refused, Ambiguous, Reload
  <2> QED BY <1>2, <2>1, <2>2, <2>3, <2>4 DEF Submit
<1>3. ASSUME NEW s \in Sessions, LookUp(s) PROVE Attempted'
  <2>1. ASSUME NEW d \in Drafts, Reconcile(s, d) \/ RefreshNext(s, d) PROVE Attempted'
    BY <2>1 DEF Reconcile, RefreshNext, NoIntent
  <2>2. CASE RefreshLoad(s)
    BY <2>2 DEF RefreshLoad, Pending, Unresolved, HasReceipt, NoIntent
  <2>3. CASE LookupFound(s) \/ LookupMissed(s)
    BY <2>3 DEF LookupFound, LookupMissed
  <2>4. CASE SaveObserved(s) \/ SaveUnknown(s)
    BY <1>1, <2>4 DEF SaveObserved, SaveUnknown, NextLookup
  <2>5. CASE SaveObservedFails(s)
    BY <1>1, <2>5 DEF SaveObservedFails
  <2> QED BY <1>3, <2>1, <2>2, <2>3, <2>4, <2>5 DEF LookUp
<1>4. ASSUME NEW s \in Sessions, Crash(s) PROVE Attempted'
  BY <1>4 DEF Crash
<1>5. ASSUME NEW d \in Drafts, Prepare(d) \/ BrokerStep(d) PROVE Attempted'
  BY <1>5 DEF Prepare, BrokerStep, BrokerTakes, BrokerRefuses, BrokerFills, BrokerDates,
              BrokerCancels
<1>6. CASE UNCHANGED vars
  BY <1>6 DEF vars
<1> QED BY <1>2, <1>3, <1>4, <1>5, <1>6 DEF Next

----------------------------------------------------------------------------
(* Every step is a step of the promise or a stutter. *)

\* What the promise sees of a step that changes neither the log nor the outside.
LEMMA UnseenStutters ==
  ASSUME UNCHANGED <<known, outside>>
  PROVE  [Promise!Next]_(Promise!vars)
BY DEF outside, Promise!vars

\* An issued receipt is still the only kind held, when no session of another
\* changes and s holds none.
LEMMA IssuedElsewhere ==
  ASSUME Issued, NEW s \in Sessions, UNCHANGED broker,
         \A t \in Sessions : t # s => pc'[t] = pc[t] /\ reply'[t] = reply[t],
         pc'[s] \in {"accept", "observe"} => reply'[s] \in Issuable,
         \A d \in Drafts : HasReceipt(known'[d]) => known'[d].rcpt \in Issuable
  PROVE  Issued'
BY DEF Issued

\* The order the broker creates for a POST is one it issues.
LEMMA FreshIsIssued == Accepted \in Issuable /\ Dated(Accepted)
BY FreshIsReceipt DEF Accepted, Issuable, Dated

\* A claim is a claim, a POST is a send, a saved answer tells the app what the
\* broker answered; the other steps of submit_order are its own business.
LEMMA PromiseSubmit ==
  ASSUME PInv, NEW s \in Sessions, Submit(s)
  PROVE  Issued' /\ [Promise!Next]_(Promise!vars)
<1> USE DEF PInv, IInv, TypeInv, TypeOK, Goto, Return
<1>0. \A d \in Drafts : HasReceipt(known[d]) => known[d].rcpt \in Issuable
  BY DEF Issued
<1>1. ASSUME NEW d \in Drafts, SubmitLoad(s, d) PROVE Issued' /\ [Promise!Next]_(Promise!vars)
  BY <1>0, <1>1, UnseenStutters, IssuedElsewhere DEF SubmitLoad, outside
<1>2. CASE Abort(s) \/ Reload(s) \/ Ambiguous(s) \/ Refused(s)
  BY <1>0, <1>2, UnseenStutters, IssuedElsewhere DEF Abort, Reload, Ambiguous, Refused, outside
<1>3. CASE Claim(s)
  <2>1. /\ draft[s] \in Drafts /\ known[draft[s]] = NoIntent
        /\ known' = [known EXCEPT ![draft[s]] = Intent]
        /\ UNCHANGED <<posts, wire, broker>>
    BY <1>3 DEF Claim, outside
  <2>2. Promise!Claim(draft[s])
    BY <2>1, SameData DEF Promise!Claim
  <2>3. \A d \in Drafts : HasReceipt(known'[d]) => known'[d].rcpt \in Issuable
    BY <1>0, <2>1 DEF HasReceipt, Intent
  <2>4. Issued'
    BY <1>3, <2>1, <2>3, IssuedElsewhere DEF Claim
  <2> QED BY <2>1, <2>2, <2>4, PromiseSteps
<1>4. CASE Post(s)
  <2>0. PICK d \in Drafts : d = draft[s]
    BY <1>4 DEF Post
  <2>1. known[d] # NoIntent /\ posts[d] = 0 /\ UNCHANGED <<known, broker, reply>>
    BY <1>4, <2>0 DEF Post, ClaimInv
  <2>2. posts' = [posts EXCEPT ![d] = 1] /\ wire' = [wire EXCEPT ![d] = "sent"]
    BY <1>4, <2>0, <2>1 DEF Post
  <2>3. wire[d] = "none"
    BY <2>1 DEF BrokerInv, WireInv
  <2>4. {e \in Drafts : posts'[e] > 0} = {e \in Drafts : posts[e] > 0} \cup {d}
    BY <2>2
  <2>5. {e \in Drafts : wire'[e] = "refused"} = {e \in Drafts : wire[e] = "refused"}
    BY <2>2, <2>3
  <2>6. Promise!Send(d)
    BY <2>1, <2>4, <2>5, SameData DEF Promise!Send
  <2>7. Issued'
    BY <1>0, <1>4, <2>1, IssuedElsewhere DEF Post
  <2> QED BY <2>6, <2>7, PromiseSteps
<1>5. CASE Answered(s)
  <2>1. UNCHANGED <<known, outside, broker>> /\ reply'[s] = Accepted
    BY <1>5 DEF Answered, outside
  <2>2. Issued'
    BY <1>0, <1>5, <2>1, FreshIsIssued, IssuedElsewhere DEF Answered
  <2> QED BY <2>1, <2>2, UnseenStutters
<1>6. CASE SaveAccepted(s)
  <2>1. /\ draft[s] \in Drafts /\ reply[s] \in Receipts /\ UNCHANGED <<posts, wire, broker>>
        /\ Record(s, Confirmed(reply[s])) \/ UNCHANGED known
        /\ Confirmed(reply[s]) \in Observations /\ Confirmed(reply[s]) # Rejected
        /\ Confirmed(reply[s]).rcpt = reply[s]
    BY <1>6 DEF SaveAccepted, outside, Observations, Confirmed, Rejected
  <2>2. /\ Dated(reply[s]) /\ broker[draft[s]] # NoReceipt
        /\ Follows(reply[s], broker[draft[s]])
        /\ reply[s] \in Issuable /\ known[draft[s]] # NoIntent
    BY <1>6 DEF SaveAccepted, BrokerInv, HeldInv, Issued, Attempted, Recording
  <2>3. /\ \A d \in Drafts : HasReceipt(known'[d]) => known'[d].rcpt \in Issuable
        /\ [Promise!Next]_(Promise!vars)
    <3>1. CASE Record(s, Confirmed(reply[s]))
      BY <2>1, <2>2, <3>1, RecordTells
    <3>2. CASE UNCHANGED known
      BY <1>0, <2>1, <3>2, UnseenStutters DEF outside
    <3> QED BY <2>1, <3>1, <3>2
  <2>4. Issued'
    BY <1>6, <2>1, <2>3, IssuedElsewhere DEF SaveAccepted
  <2> QED BY <2>3, <2>4
<1>7. CASE SaveRejected(s)
  <2>1. /\ draft[s] \in Drafts /\ wire[draft[s]] = "refused" /\ UNCHANGED <<posts, wire, broker>>
        /\ Record(s, Rejected) \/ UNCHANGED known
        /\ Rejected \in Observations /\ ~HasReceipt(Rejected) /\ known[draft[s]] # NoIntent
    BY <1>7 DEF SaveRejected, outside, Observations, BrokerInv, HeldInv, Rejected, HasReceipt,
                Attempted, Recording
  <2>2. /\ \A d \in Drafts : HasReceipt(known'[d]) => known'[d].rcpt \in Issuable
        /\ [Promise!Next]_(Promise!vars)
    <3>1. CASE Record(s, Rejected)
      BY <2>1, <3>1, RecordTells
    <3>2. CASE UNCHANGED known
      BY <1>0, <2>1, <3>2, UnseenStutters DEF outside
    <3> QED BY <2>1, <3>1, <3>2
  <2>3. Issued'
    BY <1>7, <2>1, <2>2, IssuedElsewhere DEF SaveRejected
  <2> QED BY <2>2, <2>3
<1> QED BY <1>1, <1>2, <1>3, <1>4, <1>5, <1>6, <1>7 DEF Submit

\* A saved lookup tells the app what the broker answered, a failed one that the
\* outcome is open; reading tells it nothing.
LEMMA PromiseLookUp ==
  ASSUME PInv, NEW s \in Sessions, LookUp(s)
  PROVE  Issued' /\ [Promise!Next]_(Promise!vars)
<1> USE DEF PInv, IInv, TypeInv, TypeOK, Goto, Return
<1>0. \A d \in Drafts : HasReceipt(known[d]) => known[d].rcpt \in Issuable
  BY DEF Issued
<1>1. ASSUME NEW d \in Drafts, Reconcile(s, d) \/ RefreshNext(s, d)
      PROVE  Issued' /\ [Promise!Next]_(Promise!vars)
  BY <1>0, <1>1, UnseenStutters, IssuedElsewhere DEF Reconcile, RefreshNext, outside
<1>2. CASE RefreshLoad(s) \/ LookupMissed(s)
  BY <1>0, <1>2, UnseenStutters, IssuedElsewhere DEF RefreshLoad, LookupMissed, outside
<1>3. CASE LookupFound(s)
  <2>1. /\ draft[s] \in Drafts /\ broker[draft[s]] # NoReceipt
        /\ UNCHANGED <<known, outside, broker>> /\ reply'[s] = broker[draft[s]]
    BY <1>3 DEF LookupFound, outside
  <2>2. reply'[s] \in Issuable
    BY <2>1 DEF Issued
  <2>3. Issued'
    BY <1>0, <1>3, <2>1, <2>2, IssuedElsewhere DEF LookupFound
  <2> QED BY <2>1, <2>3, UnseenStutters
<1>4. ASSUME pc[s] = "observe", UNCHANGED outside,
             Record(s, Confirmed(reply[s])) \/ UNCHANGED known
      PROVE  /\ \A d \in Drafts : HasReceipt(known'[d]) => known'[d].rcpt \in Issuable
             /\ [Promise!Next]_(Promise!vars)
  <2>1. /\ draft[s] \in Drafts /\ reply[s] \in Receipts /\ UNCHANGED <<posts, wire, broker>>
        /\ Confirmed(reply[s]) \in Observations /\ Confirmed(reply[s]) # Rejected
        /\ Confirmed(reply[s]).rcpt = reply[s]
    BY <1>4 DEF outside, Observations, Confirmed, Rejected
  <2>2. /\ Dated(reply[s]) /\ broker[draft[s]] # NoReceipt
        /\ Follows(reply[s], broker[draft[s]])
        /\ reply[s] \in Issuable /\ known[draft[s]] # NoIntent
    BY <1>4 DEF BrokerInv, HeldInv, Issued, Attempted, Recording
  <2>3. CASE Record(s, Confirmed(reply[s]))
    BY <2>1, <2>2, <2>3, RecordTells
  <2>4. CASE UNCHANGED known
    BY <1>0, <1>4, <2>4, UnseenStutters
  <2> QED BY <1>4, <2>3, <2>4
<1>5. CASE SaveObserved(s)
  <2>1. /\ \A d \in Drafts : HasReceipt(known'[d]) => known'[d].rcpt \in Issuable
        /\ [Promise!Next]_(Promise!vars) /\ UNCHANGED broker
    BY <1>4, <1>5 DEF SaveObserved, outside
  <2>2. Issued'
    BY <1>5, <2>1, IssuedElsewhere DEF SaveObserved, NextLookup
  <2> QED BY <2>1, <2>2
<1>6. CASE SaveObservedFails(s)
  <2>1. /\ \A d \in Drafts : HasReceipt(known'[d]) => known'[d].rcpt \in Issuable
        /\ [Promise!Next]_(Promise!vars) /\ UNCHANGED broker
    BY <1>4, <1>6 DEF SaveObservedFails, outside
  <2>2. Issued'
    BY <1>6, <2>1, IssuedElsewhere DEF SaveObservedFails
  <2> QED BY <2>1, <2>2
<1>7. CASE SaveUnknown(s)
  <2>1. /\ draft[s] \in Drafts /\ UNCHANGED <<posts, wire, broker>>
        /\ Record(s, Unknown) \/ UNCHANGED known
        /\ Unknown \in Observations /\ ~HasReceipt(Unknown) /\ Unknown # Rejected
        /\ known[draft[s]] # NoIntent
    BY <1>7 DEF SaveUnknown, outside, Observations, Unknown, Rejected, HasReceipt,
                Attempted, Recording
  <2>2. /\ \A d \in Drafts : HasReceipt(known'[d]) => known'[d].rcpt \in Issuable
        /\ [Promise!Next]_(Promise!vars)
    <3>1. CASE Record(s, Unknown)
      BY <2>1, <3>1, RecordTells
    <3>2. CASE UNCHANGED known
      BY <1>0, <2>1, <3>2, UnseenStutters DEF outside
    <3> QED BY <2>1, <3>1, <3>2
  <2>3. Issued'
    BY <1>7, <2>1, <2>2, IssuedElsewhere DEF SaveUnknown, NextLookup
  <2> QED BY <2>2, <2>3
<1> QED BY <1>1, <1>2, <1>3, <1>5, <1>6, <1>7 DEF LookUp

\* An order the broker takes, fills, dates or cancels is the market moving.
LEMMA PromiseBroker ==
  ASSUME PInv, NEW d \in Drafts, BrokerStep(d)
  PROVE  Issued' /\ [Promise!Next]_(Promise!vars)
<1> USE DEF PInv, IInv, TypeInv, TypeOK
<1>0. UNCHANGED <<known, pc, reply>>
  BY DEF BrokerStep, BrokerTakes, BrokerRefuses, BrokerFills, BrokerDates, BrokerCancels, session
<1>1. ASSUME NEW r \in Issuable, broker' = [broker EXCEPT ![d] = r], posts' = posts,
             posts[d] > 0, wire[d] # "refused",
             broker[d] # NoReceipt => Follows(broker[d], r),
             {e \in Drafts : wire'[e] = "refused"} = {e \in Drafts : wire[e] = "refused"}
      PROVE  Issued' /\ [Promise!Next]_(Promise!vars)
  <2>1. Issued'
    BY <1>0, <1>1 DEF Issued
  <2>2. Promise!MarketMoves(d)
    BY <1>0, <1>1, SameData DEF Promise!MarketMoves
  <2> QED BY <2>1, <2>2, PromiseSteps
<1>2. CASE BrokerRefuses(d)
  <2>1. /\ wire[d] = "sent" /\ wire' = [wire EXCEPT ![d] = "refused"] /\ UNCHANGED <<posts, broker>>
    BY <1>2 DEF BrokerRefuses
  <2>2. posts[d] > 0 /\ broker[d] = NoReceipt
    BY <2>1 DEF BrokerInv, WireInv
  <2>3. {e \in Drafts : wire'[e] = "refused"} = {e \in Drafts : wire[e] = "refused"} \cup {d}
    BY <2>1
  <2>4. Promise!MarketRefuses(d)
    BY <1>0, <2>1, <2>2, <2>3, SameData DEF Promise!MarketRefuses
  <2>5. Issued'
    BY <1>0, <2>1 DEF Issued
  <2> QED BY <2>4, <2>5, PromiseSteps
<1>3. CASE BrokerTakes(d)
  <2>1. /\ wire[d] = "sent" /\ broker[d] = NoReceipt /\ posts' = posts
        /\ wire' = [wire EXCEPT ![d] = "created"] /\ broker' = [broker EXCEPT ![d] = Accepted]
    BY <1>3 DEF BrokerTakes
  <2>2. posts[d] > 0
    BY <2>1 DEF BrokerInv, WireInv
  <2>3. {e \in Drafts : wire'[e] = "refused"} = {e \in Drafts : wire[e] = "refused"}
    BY <2>1
  <2> QED BY <1>1, <2>1, <2>2, <2>3, FreshIsIssued
<1>4. CASE BrokerFills(d) \/ BrokerDates(d) \/ BrokerCancels(d)
  <2>1. /\ broker[d] # NoReceipt /\ UNCHANGED <<posts, wire>>
        /\ broker' = [broker EXCEPT ![d] = broker'[d]]
    BY <1>4 DEF BrokerFills, BrokerDates, BrokerCancels, NoReceipt
  <2>2. posts[d] > 0 /\ wire[d] # "refused"
    BY <2>1 DEF BrokerInv, WireInv
  <2>3. Follows(broker[d], broker'[d])
    BY <2>1, BrokerForward DEF Forward, BrokerInv
  <2>4. broker[d] \in Issuable /\ broker'[d] \in Receipts /\ Dated(broker'[d])
    BY <2>1, BrokerForward, TypeBroker, FollowsReflexive
       DEF Issued, BrokerInv, WireInv, Forward, NoReceipt
  <2>5. broker'[d] \in Issuable
    <3>1. CASE BrokerFills(d)
      BY <2>1, <2>4, <3>1, QtyAssumption DEF BrokerFills, Issuable, Receipts
    <3>2. CASE BrokerDates(d)
      BY <2>1, <2>4, <3>2 DEF BrokerDates, Issuable, Receipts
    <3>3. CASE BrokerCancels(d)
      BY <2>1, <2>4, <3>3 DEF BrokerCancels, Issuable, Receipts, Live, Dated
    <3> QED BY <1>4, <3>1, <3>2, <3>3
  <2> QED BY <1>1, <2>1, <2>2, <2>3, <2>5
<1> QED BY <1>2, <1>3, <1>4 DEF BrokerStep

----------------------------------------------------------------------------
\* Every step keeps the strengthened invariant and is a step of the promise.
LEMMA PInvStep == PInv /\ [Next]_vars => PInv' /\ [Promise!Next]_(Promise!vars)
<1> SUFFICES ASSUME PInv, [Next]_vars PROVE PInv' /\ [Promise!Next]_(Promise!vars)
  OBVIOUS
<1>1. IInv' /\ Attempted'
  BY IInvStep, AttemptedStep DEF PInv
<1>2. Issued' /\ [Promise!Next]_(Promise!vars)
  <2>1. ASSUME NEW s \in Sessions, Submit(s) \/ LookUp(s)
        PROVE  Issued' /\ [Promise!Next]_(Promise!vars)
    BY <2>1, PromiseSubmit, PromiseLookUp
  <2>2. ASSUME NEW d \in Drafts, BrokerStep(d)
        PROVE  Issued' /\ [Promise!Next]_(Promise!vars)
    BY <2>2, PromiseBroker
  <2>3. ASSUME NEW s \in Sessions, Crash(s)
        PROVE  Issued' /\ [Promise!Next]_(Promise!vars)
    <3>1. UNCHANGED <<known, outside, broker>>
      BY <2>3 DEF Crash, outside
    <3>2. Issued'
      BY <2>3, <3>1, IssuedElsewhere DEF Crash, Return, PInv, IInv, TypeInv, TypeOK, Issued
    <3> QED BY <3>1, <3>2, UnseenStutters
  <2>4. ASSUME UNCHANGED <<known, session, outside>>
        PROVE  Issued' /\ [Promise!Next]_(Promise!vars)
    <3>1. Issued'
      BY <2>4 DEF PInv, Issued, session, outside
    <3> QED BY <2>4, <3>1, UnseenStutters
  <2>5. ASSUME NEW d \in Drafts, Prepare(d) PROVE UNCHANGED <<known, session, outside>>
    BY <2>5 DEF Prepare
  <2> QED BY <2>1, <2>2, <2>3, <2>4, <2>5 DEF Next, vars
<1> QED BY <1>1, <1>2 DEF PInv

\* The attempt with its sessions, crashes, timeouts and late observations is an
\* attempt as OrderPromise states it, for any numbers of sessions and drafts.
THEOREM PromiseIsKept == Spec => KeepsPromise
<1>1. Init => Promise!Init
  BY SameData DEF Init, Promise!Init
<1>2. PInv /\ [Next]_vars => [Promise!Next]_(Promise!vars)
  BY PInvStep
<1>3. PInv /\ [Next]_vars => PInv'
  BY PInvStep
<1> QED BY <1>1, <1>2, <1>3, PInvInit, PTL DEF Spec, KeepsPromise, Promise!Spec
=============================================================================
