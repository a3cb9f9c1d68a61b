------------------------------- MODULE MCCases -------------------------------
(* What is kept of an account outside the broker, each on its own: the     *)
(* case register with two administrators and a reviewer, a session each    *)
(* (CaseRegistry), a periodic source with the worker and two pages         *)
(* (FeedJobs), and the backups of both bases (Backups).  Those that are    *)
(* not explored stay in their initial state.                               *)
EXTENDS FeedJobs, CaseRegistry, Backups, TLC

CONSTANTS ana, ben, rita,        \* of the register
          worker, page, other    \* of the sources

VARIABLE system

MCActors == {ana, ben, rita}
MCRole == [p \in MCActors |-> IF p = rita THEN "REVIEWER" ELSE "ADMIN"]
MCWho == [p \in MCActors |-> p]
MCOnePage == {page}
MCTwoPages == {page, other}
MCBoth == {worker, page}
MCWorkerOnly == {worker}

ASSUME RegistryAssumptions == PolicyAssumption /\ BoundAssumption
ASSUME BackupsAssumption == NamesAssumption

all == <<system, vars, registry, bundles>>

CasesInit ==
  /\ system \in {"registry", "feeds", "backups"}
  /\ RegistryInit /\ Init /\ BackupsInit

CasesNext ==
  /\ \/ system = "registry" /\ RegistryNext /\ UNCHANGED <<vars, bundles>>
     \/ system = "feeds" /\ Next /\ UNCHANGED <<registry, bundles>>
     \/ system = "backups" /\ BackupsNext /\ UNCHANGED <<vars, registry>>
  /\ UNCHANGED system

\* The fairness of FeedJobs: the worker loops for ever.
CasesSpec == CasesInit /\ [][CasesNext]_all /\ WF_vars(system = "feeds" /\ Refresh(Worker))
=============================================================================
