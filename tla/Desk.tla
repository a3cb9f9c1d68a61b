-------------------------------- MODULE Desk --------------------------------
(***************************************************************************)
(* The operations page of an account (operations_ui.py): five tabs drawn   *)
(* in order, whose files and confirmations are of the account that is      *)
(* shown, over what the session keeps longer than them: the last book of   *)
(* each account, the last proposal of orders and the account analysis of   *)
(* the other page.  A file is taken to be of the account it was given for. *)
(*                                                                         *)
(* What the store checks when it is written (roles, versions) is in        *)
(* CaseRegistry, what a schedule does then in FeedJobs.                    *)
(***************************************************************************)
EXTENDS Naturals, FiniteSets

CONSTANTS
  Accounts,  \* accounts of the cases of the session
  Given,     \* the files that may be given
  MaxGiven,  \* files and confirmations given at a time in this model
  Nobody     \* no account, no file

VARIABLES
  area,      \* "operation" or "analysis"
  account,   \* the account the operations page shows, Nobody elsewhere
  files,     \* the files given for it
  bad,       \* the file that cannot be read, where the page stops, or Nobody
  ticks,     \* the confirmations given for it
  books,     \* the last book kept under each key: the account that it is of
  proposal,  \* the proposal of orders: its account, that of the model it used
  flow,      \* the account analysis: its account, whether it is complete, and
             \* the account of the catalogue applied to it
  saved,     \* the evidence saved last: where, and of what
  monitors   \* the monitor of the schedule of each account

vars == <<area, account, files, bad, ticks, books, proposal, flow, saved, monitors>>

Of(book, model) == [of |-> book, model |-> model]
Nowhere == Of(Nobody, Nobody)
NoFlow == [of |-> Nobody, done |-> FALSE, catalogue |-> Nobody]
NotSaved == [account |-> Nobody, what |-> Nowhere]

\* The tabs, by the files and the confirmations that they ask for.
Tab == [ledger |-> 1, nav |-> 1, orders |-> 2, catalogue |-> 3, wealth |-> 4, closings |-> 4]
TickTab == [flows |-> 1, orders |-> 2, monitor |-> 3, closings |-> 4]
Drawn(tab) == area = "operation" /\ (bad # Nobody => tab < Tab[bad])

Init ==
  /\ area = "analysis" /\ account = Nobody
  /\ files = {} /\ bad = Nobody /\ ticks = {}
  /\ books = [a \in Accounts |-> Nobody]
  /\ proposal = Nowhere /\ flow = NoFlow
  /\ saved = NotSaved /\ monitors = [a \in Accounts |-> Nowhere]

Emptied == files' = {} /\ bad' = Nobody /\ ticks' = {}

\* A page that is not drawn forgets its selection: back on it, the account is
\* the first one of the list, whichever that is.
GoTo ==
  /\ IF area = "operation" THEN area' = "analysis" /\ account' = Nobody
                           ELSE area' = "operation" /\ account' \in Accounts
  /\ Emptied
  /\ UNCHANGED <<books, proposal, flow, saved, monitors>>

\* _context: every key of a widget has the digest of the account in it.
Show(a) ==
  /\ area = "operation" /\ a # account
  /\ account' = a /\ Emptied
  /\ UNCHANGED <<area, books, proposal, flow, saved, monitors>>

\* The other page opens an account, and completes its analysis.
OpenAnalysis(a) ==
  /\ area = "analysis" /\ flow' = [of |-> a, done |-> FALSE, catalogue |-> Nobody]
  /\ UNCHANGED <<area, account, files, bad, ticks, books, proposal, saved, monitors>>

Complete ==
  /\ area = "analysis" /\ flow.of # Nobody
  /\ flow' = [flow EXCEPT !.done = TRUE]
  /\ UNCHANGED <<area, account, files, bad, ticks, books, proposal, saved, monitors>>

----------------------------------------------------------------------------
\* Mutant: the last book is kept under one key.
BookKey_Shared(a) == CHOOSE b \in Accounts : TRUE

\* The key of the last book: that of the account.
BookKey(a) == a

\* Mutant: the analysis that is open, whatever its account.
OpenFor_Any(a) == flow.done

\* The completed analysis of account a, which orders and monitors may use.
OpenFor(a) == flow.done /\ flow.of = a

RoomForMore == Cardinality(files) + Cardinality(ticks) < MaxGiven

Watchable == books[BookKey(account)] # Nobody /\ OpenFor(account)

\* A ledger that is read is the last book of the account from that run on.
Upload(r) ==
  /\ Drawn(Tab[r]) /\ r \notin files /\ RoomForMore
  /\ r = "nav" => "ledger" \in files
  /\ files' = files \cup {r}
  /\ books' = IF r = "ledger" THEN [books EXCEPT ![BookKey(account)] = account] ELSE books
  /\ UNCHANGED <<area, account, bad, ticks, proposal, flow, saved, monitors>>

\* A file that is refused stops the page there: the tabs after it are not
\* drawn, and lose what they were given.
Refuse(r) ==
  /\ Drawn(Tab[r]) /\ r \notin files
  /\ bad' = r
  /\ files' = {f \in files : Tab[f] <= Tab[r]}
  /\ ticks' = {t \in ticks : TickTab[t] <= Tab[r]}
  /\ UNCHANGED <<area, account, books, proposal, flow, saved, monitors>>

\* The confirmations that need a file, or the book, go with it.
Remove(r) ==
  /\ area = "operation" /\ (r = bad \/ (Drawn(Tab[r]) /\ r \in files))
  /\ bad' = IF r = bad THEN Nobody ELSE bad
  /\ files' = files \ (IF r = "ledger" THEN {"ledger", "nav"} ELSE {r})
  /\ ticks' = IF r = "ledger" THEN ticks \ {"flows"} ELSE ticks
  /\ UNCHANGED <<area, account, books, proposal, flow, saved, monitors>>

Tick(t) ==
  /\ Drawn(TickTab[t])
  /\ t = "flows" => "ledger" \in files
  /\ t = "monitor" => Watchable
  /\ \/ t \in ticks /\ ticks' = ticks \ {t}
     \/ t \notin ticks /\ RoomForMore /\ ticks' = ticks \cup {t}
  /\ UNCHANGED <<area, account, files, bad, books, proposal, flow, saved, monitors>>

----------------------------------------------------------------------------
\* _save_evidence: an attachment of the account that is shown.
Attach(what) ==
  /\ saved' = [account |-> account, what |-> what]
  /\ UNCHANGED <<area, account, files, bad, ticks, books, proposal, flow, monitors>>

SavePerformance ==
  /\ Drawn(1) /\ {"ledger", "nav"} \subseteq files /\ "flows" \in ticks
  /\ Attach(Of(account, Nobody))

\* A proposal may use the costs and the risk of the analysis of the account.
Calculate(optimize) ==
  /\ Drawn(2) /\ "orders" \in files /\ "orders" \in ticks
  /\ optimize => OpenFor(account)
  /\ proposal' = Of(account, IF optimize THEN flow.of ELSE Nobody)
  /\ UNCHANGED <<area, account, files, bad, ticks, books, flow, saved, monitors>>

\* Mutant: the last proposal, whatever its account.
Binds_Any(p) == p # Nowhere

\* The proposal that is shown is that of the account.
Binds(p) == p # Nowhere /\ p.of = account

SaveProposal == Drawn(2) /\ Binds(proposal) /\ Attach(proposal)

\* The classification goes to the preparation of the account, if it is open.
ApplyCatalogue ==
  /\ Drawn(3) /\ "catalogue" \in files /\ flow.of = account
  /\ flow' = [flow EXCEPT !.catalogue = account]
  /\ UNCHANGED <<area, account, files, bad, ticks, books, proposal, saved, monitors>>

\* The schedule is saved with the monitor it had, or with the one confirmed.
SaveSchedule ==
  /\ Drawn(3)
  /\ monitors' = IF "monitor" \in ticks /\ Watchable
                 THEN [monitors EXCEPT ![account] = Of(books[BookKey(account)], flow.of)]
                 ELSE monitors
  /\ UNCHANGED <<area, account, files, bad, ticks, books, proposal, flow, saved>>

\* The wealth of all the accounts of the case, saved with the one shown.
SaveWealth ==
  /\ Drawn(4)
  /\ "wealth" \in files \/ ("closings" \in files /\ "closings" \in ticks)
  /\ Attach(Of(account, Nobody))

Next ==
  \/ GoTo \/ Complete
  \/ \E a \in Accounts : Show(a) \/ OpenAnalysis(a)
  \/ \E r \in Given : Upload(r) \/ Refuse(r) \/ Remove(r)
  \/ \E t \in DOMAIN TickTab : Tick(t)
  \/ \E optimize \in BOOLEAN : Calculate(optimize)
  \/ SavePerformance \/ SaveProposal \/ ApplyCatalogue \/ SaveSchedule \/ SaveWealth

Spec == Init /\ [][Next]_vars

----------------------------------------------------------------------------
\* What is kept as evidence of an account is of that account, the model behind
\* its proposal too, whatever was opened and shown in between
\* (operations_ui.py:312, operations_ui.py:362).
EvidenceIsOfItsAccount ==
  saved # NotSaved => saved.what.of = saved.account /\ saved.what.model \in {saved.account, Nobody}

\* The quantities and the weights that a schedule watches are both of its
\* account: two pages of the session gave them (operations_ui.py:448).
MonitorIsOfItsAccount ==
  /\ \A a \in Accounts : monitors[a] # Nowhere => monitors[a] = Of(a, a)
  /\ flow.catalogue \in {flow.of, Nobody}

\* The page never works on what is of another account, although it keeps it
\* while it goes from one account to another.
WorkIsOfItsAccount == EvidenceIsOfItsAccount /\ MonitorIsOfItsAccount
=============================================================================
