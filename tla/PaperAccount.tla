---------------------------- MODULE PaperAccount ----------------------------
(* Who works on the Paper account, and with which drafts: what the modules  *)
(* of the attempts (PaperOrders) and of the budget (TrialBudget) share.     *)
EXTENDS OrderState

CONSTANTS
  Sessions,     \* browser sessions running a handler
  Drafts,       \* client_order_ids that get minted
  NoDraft       \* no draft in hand

ASSUME NoDraftAssumption == NoDraft \notin Drafts
=============================================================================
