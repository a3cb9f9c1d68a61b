----------------------------- MODULE OrderState -----------------------------
(***************************************************************************)
(* What the app knows of one Paper order: the OrderState that order_states *)
(* (alpaca_orders.py) folds out of the insert-only event log.              *)
(*                                                                         *)
(* The log only grows and the fold runs left to right, so its value after  *)
(* an append is Merge of its value before and of the appended event: the   *)
(* modules that append keep the value and not the log.  OrderLog checks    *)
(* the fold over whole logs.                                               *)
(*                                                                         *)
(* A receipt keeps what the fold compares: status, filled quantity and     *)
(* whether the broker dated the complete fill.  "canceled" stands for the  *)
(* four terminal statuses the code treats alike (canceled, expired,        *)
(* rejected, replaced) and "confirmed" for the kinds accepted and observed.*)
(***************************************************************************)
EXTENDS Naturals

CONSTANT Qty            \* the quantity of a draft, in whole shares

ASSUME QtyAssumption == Qty \in Nat \ {0}

Terminal == {"filled", "canceled"}
Statuses == {"new", "partially_filled"} \cup Terminal

\* What validate_receipt lets through: a complete fill has the full quantity.
Receipts == {r \in [status : Statuses, filled : 0..Qty, at : BOOLEAN] :
                r.status = "filled" => r.filled = Qty}

\* What the broker, external, does issue among them.
Issuable == {r \in Receipts :
               /\ r.status = "new" => r.filled = 0
               /\ r.status = "partially_filled" => r.filled \in 1..(Qty - 1)
               /\ r.status = "canceled" => r.filled < Qty
               /\ r.at => r.status = "filled"}

NoReceipt == [status |-> "none", filled |-> 0, at |-> FALSE]

Kinds == {"none", "intent", "unknown", "rejected", "confirmed"}

OrderStates == {s \in [kind : Kinds, rcpt : Receipts \cup {NoReceipt}] :
                   (s.kind = "confirmed") <=> (s.rcpt # NoReceipt)}

NoIntent == [kind |-> "none",     rcpt |-> NoReceipt]
Intent   == [kind |-> "intent",   rcpt |-> NoReceipt]
Unknown  == [kind |-> "unknown",  rcpt |-> NoReceipt]
Rejected == [kind |-> "rejected", rcpt |-> NoReceipt]
Confirmed(r) == [kind |-> "confirmed", rcpt |-> r]

\* The events that may follow the intent.
Observations == {Unknown, Rejected} \cup {Confirmed(r) : r \in Receipts}

Unresolved(s) == s.kind \in {"intent", "unknown"}
HasReceipt(s) == s.kind = "confirmed"

\* Mutant: quantities are not compared.
Stale_ByStatus(old, new) ==
  \/ old.status \in Terminal /\ new.status \notin Terminal
  \/ old.status = "filled" /\ new.status # "filled"

\* Mutant: a terminal status may be undone.
Stale_ByQuantity(old, new) ==
  \/ new.filled < old.filled
  \/ old.status = "filled" /\ new.status # "filled"

\* An observation that arrives after a newer one was recorded.
Stale(old, new) ==
  \/ new.filled < old.filled
  \/ old.status \in Terminal /\ new.status \notin Terminal
  \/ old.status = "filled" /\ new.status # "filled"

\* Mutant: the last event wins.
Merge_LastWins(old, ev) == ev

\* One step of the fold: the event ev is recorded on top of the state old.
Merge(old, ev) ==
  CASE ~HasReceipt(old) -> ev
    [] HasReceipt(old) /\ (~HasReceipt(ev) \/ Stale(old.rcpt, ev.rcpt)) -> old
    [] OTHER -> Confirmed([ev.rcpt EXCEPT
                  !.at = @ \/ (old.rcpt.at /\ ev.rcpt.status = "filled")])

\* Mutant: an attempt whose last lookup failed is not asked about again.
Pending_ForgetsUnknown(s) ==
  \/ s.kind = "intent"
  \/ HasReceipt(s) /\ \/ s.rcpt.status \notin Terminal
                      \/ s.rcpt.status = "filled" /\ ~s.rcpt.at

\* Mutant: a terminal order is not asked about again, dated or not.
Pending_IgnoresDate(s) ==
  \/ Unresolved(s)
  \/ HasReceipt(s) /\ s.rcpt.status \notin Terminal

\* What refresh_results still asks the broker about.
Pending(s) ==
  \/ Unresolved(s)
  \/ HasReceipt(s) /\ \/ s.rcpt.status \notin Terminal
                      \/ s.rcpt.status = "filled" /\ ~s.rcpt.at

\* r2 is what the broker may say after it said r1.
Follows(r1, r2) ==
  /\ r1.filled <= r2.filled
  /\ r1.status \in Terminal => r2.status = r1.status /\ r2.filled = r1.filled
  /\ r1.at => r2.at
=============================================================================
