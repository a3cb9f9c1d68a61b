---------------------------- MODULE OrderPromise ----------------------------
(***************************************************************************)
(* What PaperOrders promises about one attempt, whatever the number of     *)
(* sessions: it is claimed before it is sent, it is sent at most once, the *)
(* market moves it only forward, and what the app is told of it is a       *)
(* receipt the market did issue, never an older one than the last.         *)
(*                                                                         *)
(* The only thing not promised is that a refusal stays told: see the run   *)
(* PaperOrders_rejection.                                                  *)
(***************************************************************************)
EXTENDS OrderState

CONSTANT Drafts

VARIABLES
  told,   \* per draft: what the app knows
  sent,   \* the drafts sent to the market
  refused, \* the drafts the market refused
  truth   \* per draft: what the market holds

vars == <<told, sent, refused, truth>>

Init ==
  /\ told = [d \in Drafts |-> NoIntent]
  /\ sent = {}
  /\ refused = {}
  /\ truth = [d \in Drafts |-> NoReceipt]

Claim(d) ==
  /\ told[d] = NoIntent
  /\ told' = [told EXCEPT ![d] = Intent]
  /\ UNCHANGED <<sent, refused, truth>>

Send(d) ==
  /\ told[d] # NoIntent
  /\ d \notin sent
  /\ sent' = sent \cup {d}
  /\ UNCHANGED <<told, refused, truth>>

\* A refusal is final.
MarketRefuses(d) ==
  /\ d \in sent \ refused
  /\ truth[d] = NoReceipt
  /\ refused' = refused \cup {d}
  /\ UNCHANGED <<told, sent, truth>>

MarketMoves(d) ==
  /\ d \in sent \ refused
  /\ \E r \in Issuable : /\ truth[d] # NoReceipt => Follows(truth[d], r)
                         /\ truth' = [truth EXCEPT ![d] = r]
  /\ UNCHANGED <<told, sent, refused>>

\* Without a receipt the app is told that the outcome is open, or a refusal.
TellNothing(d) ==
  /\ told[d] \in {Intent, Unknown, Rejected}
  /\ \/ told' = [told EXCEPT ![d] = Unknown]
     \/ d \in refused /\ told' = [told EXCEPT ![d] = Rejected]
  /\ UNCHANGED <<sent, refused, truth>>

TellReceipt(d) ==
  /\ told[d] # NoIntent
  /\ \E r \in Issuable : /\ truth[d] # NoReceipt /\ Follows(r, truth[d])
                         /\ HasReceipt(told[d]) => Follows(told[d].rcpt, r)
                         /\ told' = [told EXCEPT ![d] = Confirmed(r)]
  /\ UNCHANGED <<sent, refused, truth>>

Next == \E d \in Drafts : \/ Claim(d) \/ Send(d)
                          \/ MarketRefuses(d) \/ MarketMoves(d)
                          \/ TellNothing(d) \/ TellReceipt(d)

Spec == Init /\ [][Next]_vars
=============================================================================
