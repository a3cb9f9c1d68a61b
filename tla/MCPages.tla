------------------------------- MODULE MCPages -------------------------------
(* Pages with two accounts, identities and signals: what each session of   *)
(* the account analysis may press, and the lists of each identity.         *)
EXTENDS Pages, TLC

CONSTANTS s1, s2, ana, ben, g1, g2, t1, t2, t3

MCAccess == [s \in Sessions |-> Accounts]
MCPresses == (s1 :> 5) @@ (s2 :> 3)
MCClaims == {[iss |-> 1, sub |-> 1], [iss |-> 2, sub |-> 1], [iss |-> 1, sub |-> 2]}
MCDayEnds == (g1 :> 1) @@ (g2 :> 0)
MCTickers == (ana :> {t1, t2}) @@ (ben :> {t3})
MCLegacy == (ana :> {t1}) @@ (ben :> {})

\* No case and no account differs from another one.
Symmetry == Permutations(Accounts)

\* The bars and signals to come are drawn only where they are simulated.
MCInit ==
  /\ PagesInit
  /\ system # "simulation" => /\ signal = [buy |-> FALSE, sell |-> FALSE]
                              /\ bar = [open |-> 4, high |-> 4, low |-> 4, close |-> 4]
MCSpec == MCInit /\ [][PagesNext]_pages
=============================================================================
