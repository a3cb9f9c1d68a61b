--------------------------- MODULE MCPaperStores ---------------------------
(* The stores with two sessions on a budget and two panels of alerts.  The  *)
(* ledgers of the budget are the capital and the amount per symbol, and    *)
(* every draft is of one symbol: the first revision has no room on it for  *)
(* two whole orders, the second has capital for one.                       *)
(* One panel explores every alert; two together explore one moment, at     *)
(* which each may find the position at its stop, a purchase, or no price    *)
(* and no history.  Beside the stores, the attempts of two sessions         *)
(* (PaperOrders): they or the stores are explored, and the others stay as   *)
(* they began.                                                              *)
EXTENDS PaperOrders, PaperStores, TLC

VARIABLES
  active,       \* the panels that run
  submitting    \* whether the attempts are explored

MCSymbol == [d \in Drafts |-> "AAPL"]
MCControls == {"first", "second"}
MCLedgers == {"capital", "symbol"}
MCCharge == [l \in MCLedgers |-> [d \in Drafts |-> 1]]
MCLimit == [k \in MCControls |-> [l \in MCLedgers |->
              CASE k = "first" /\ l = "symbol" -> 2 * Qty - 1
                [] k = "second" /\ l = "capital" -> Qty
                [] OTHER -> 2 * Qty]]

\* Two plans, the second one with its stop above its reference.
MCPlans == {[stop |-> 1, reference |-> 2, target |-> 3, review |-> 0],
            [stop |-> 3, reference |-> 2, target |-> 3, review |-> 1]}
MCSettings == {[capital |-> 2, loss |-> 1, position |-> 1, order |-> 1]}

AtTheStop(s) ==
  /\ account[s].price \in {1, NoPrice}
  /\ reading[s] # None => reading[s].signal # "wait"

\* The stores that are not explored are as they began.
Explored ==
  /\ \A s \in Panels \ active : panel[s] = "idle" /\ account[s].price = 1
  /\ active = Panels => /\ moment = 0
                        /\ table.settings = None
                        /\ \A s \in Panels : AtTheStop(s)
  /\ system # "alerts" => active = Panels
  /\ system # "budget" => controls = "first"

MCInit ==
  /\ active \in SUBSET Panels \ {{}} /\ StoresInit /\ Explored
  /\ submitting \in BOOLEAN /\ Init
  /\ submitting => system = "log" /\ controls = "first"
MCNext ==
  /\ UNCHANGED <<active, submitting>>
  /\ \/ submitting /\ Next /\ UNCHANGED stores
     \/ ~submitting /\ StoresNext /\ Explored' /\ UNCHANGED vars
MCSpec == MCInit /\ [][MCNext]_<<active, submitting, stores, vars>>

\* No draft and no owner differs from another one; no session does where both
\* clocks agree.
StoresSymmetry == Permutations(Drafts) \cup Permutations(Owners) \cup Permutations(Panels)
=============================================================================
