---------------------------- MODULE AccountFlow ----------------------------
(***************************************************************************)
(* The page "Análisis por cuenta": each browser session keeps one flow,    *)
(* tied to a case and an account; its form is saved by itself as an        *)
(* encrypted draft, an analysis copies the form, and the result is saved   *)
(* or downloaded as a bundle that can be opened again later.               *)
(*                                                                         *)
(* Every action is one run of the page's script (with the st.rerun() it    *)
(* asks for): the handler of what was pressed and the automatic save at    *)
(* the end.  The sessions are of people who may write in the case.  An     *)
(* input is what the properties tell apart: the account it was given for,  *)
(* its cut and where its declaration of rights came from.                  *)
(***************************************************************************)
EXTENDS Naturals

CONSTANTS Sessions,
          Accounts,    \* the MXN accounts of the cases
          Access,      \* the accounts each session's user is granted
          Temporary,   \* no case chosen: "Analizar en esta sesión"
          Bare,        \* a case that has no MXN account
          Example,     \* the positions of the demonstration
          Nothing,
          Cuts,        \* the cuts a portfolio is uploaded for
          MaxVersion,  \* bound: versions of a draft
          MaxRuns,     \* bound: analyses
          Presses      \* bound: what each session presses

VARIABLES flow,      \* st.session_state["_account_flow"] of each session
          drafts,    \* the working record "analysis" of each account
          archive,   \* the runs attached to each account
          packages,  \* the bundles that have been downloaded
          runs,      \* how many analyses were made: the next run_id
          left,      \* the presses each session has left
          seen       \* the versions of each draft a session read or wrote

vars == <<flow, drafts, archive, packages, runs, left, seen>>

(* a case without a choice, one without accounts and nothing are no account *)
ContextsAssumption ==
  /\ Temporary \notin Accounts /\ Bare \notin Accounts /\ Nothing \notin Accounts
  /\ Temporary # Bare
  /\ Presses \in [Sessions -> Nat]

Contexts == Accounts \cup {Temporary, Bare}
Positions == [of : Contexts, cut : Cuts]
(* what the properties tell apart in the form; "rights" stands for all that *)
(* is uploaded besides the positions: without it nothing can be analysed    *)
Blank == [holdings |-> Nothing, rights |-> "none"]

-----------------------------------------------------------------------------
(* the flow of a context just chosen: nothing of the one before, and the   *)
(* draft of its account as it is now                                       *)
NewState_KeepsTheVersion(s, c) ==
  [at |-> c, form |-> Blank, uploader |-> FALSE, done |-> Nothing,
   version |-> IF flow[s].at \in Accounts THEN flow[s].version ELSE
               IF c \in Accounts THEN drafts[c].version ELSE 0,
   offered |-> IF c \in Accounts THEN drafts[c].form ELSE Nothing, digest |-> Nothing]

NewState(s, c) ==
  [at |-> c, form |-> Blank, uploader |-> FALSE, done |-> Nothing,
   version |-> IF c \in Accounts THEN drafts[c].version ELSE 0,
   offered |-> IF c \in Accounts THEN drafts[c].form ELSE Nothing, digest |-> Nothing]

Init ==
  /\ flow = [s \in Sessions |-> [at |-> Temporary, form |-> Blank, uploader |-> FALSE, done |-> Nothing,
                                 version |-> 0, offered |-> Nothing, digest |-> Nothing]]
  /\ drafts = [a \in Accounts |-> [version |-> 0, form |-> Nothing]]
  /\ archive = [a \in Accounts |-> {}]
  /\ packages = {} /\ runs = 0 /\ left = Presses
  /\ seen = [s \in Sessions |-> {}]

(* the automatic save: only when the form changed since this session's last *)
(* save, and refused (with a warning) when the draft has moved on           *)
Accepted(f) ==
  /\ f.at \in Accounts /\ f.form.holdings # Nothing
  /\ f.digest # f.form
  /\ f.version = drafts[f.at].version

(* the end of a run of the script that leaves the flow f *)
Finish(s, f) ==
  LET saved == Accepted(f)
      g == IF saved THEN [f EXCEPT !.version = @ + 1, !.digest = f.form] ELSE f
  IN /\ saved => f.version < MaxVersion
     /\ left[s] > 0 /\ left' = [left EXCEPT ![s] = @ - 1]
     /\ flow' = [flow EXCEPT ![s] = g]
     /\ drafts' = IF saved THEN [drafts EXCEPT ![f.at] = [version |-> g.version, form |-> f.form]] ELSE drafts
     /\ seen' = [seen EXCEPT ![s] = @ \cup (IF g.at \in Accounts /\ (saved \/ g.at # flow[s].at)
                                            THEN {[account |-> g.at, version |-> drafts'[g.at].version]}
                                            ELSE {})]

(* a run of the script with the inputs on the screen: a file left in the    *)
(* uploader of the rights manifest is read again every time                 *)
Shown(s) == IF flow[s].uploader THEN [flow[s] EXCEPT !.form.rights = "file"] ELSE flow[s]

(* the user's change of the form; a finished analysis keeps its own copy    *)
Put_Shared(f, form) ==
  [f EXCEPT !.form = form, !.done = IF @ = Nothing THEN @ ELSE [@ EXCEPT !.inputs = form]]
Put(f, form) == [f EXCEPT !.form = form]

-----------------------------------------------------------------------------
Choose(s, c) ==
  /\ flow[s].at # c /\ c \in Access[s] \cup {Temporary, Bare}
  /\ Finish(s, NewState(s, c))
  /\ UNCHANGED <<archive, packages, runs>>

Recover(s) ==
  /\ flow[s].offered # Nothing /\ flow[s].form.holdings = Nothing
  /\ Finish(s, [flow[s] EXCEPT !.form = flow[s].offered, !.offered = Nothing, !.done = Nothing])
  /\ UNCHANGED <<archive, packages, runs>>

Loaded(s, form) == [flow[s] EXCEPT !.form = form, !.uploader = FALSE, !.done = Nothing]

(* "Abrir ejecución": read_run_bundle checks the bundle against the account *)
OpenArchived(s, b) ==
  /\ flow[s].at \in Accounts /\ b \in archive[flow[s].at]
  /\ Finish(s, Loaded(s, b.inputs))
  /\ UNCHANGED <<archive, packages, runs>>

(* the bundle of an account opens in that account only; without a case none *)
(* that is tied to one; in a case without accounts any                      *)
Opens_Anywhere(c, b) == TRUE
Opens(c, b) ==
  /\ c \in Accounts => b.account = c
  /\ c = Temporary => b.account = Nothing

OpenPackage(s, b) ==
  /\ b \in packages /\ Opens(flow[s].at, b)
  /\ Finish(s, Loaded(s, b.inputs))
  /\ UNCHANGED <<archive, packages, runs>>

OpenDemo(s) ==
  /\ Finish(s, Loaded(s, [holdings |-> Example, rights |-> "file"]))
  /\ UNCHANGED <<archive, packages, runs>>

ImportPositions(s, cut) ==
  /\ Finish(s, Put(Shown(s), [Shown(s).form EXCEPT !.holdings = [of |-> flow[s].at, cut |-> cut]]))
  /\ UNCHANGED <<archive, packages, runs>>

(* what follows the positions on the page needs them *)
Changes(s, f) ==
  /\ flow[s].form.holdings # Nothing
  /\ Finish(s, f)
  /\ UNCHANGED <<archive, packages, runs>>

UploadRights(s) ==
  /\ ~flow[s].uploader
  /\ Changes(s, [Put(Shown(s), [flow[s].form EXCEPT !.rights = "file"]) EXCEPT !.uploader = TRUE])
RemoveRights(s) == flow[s].uploader /\ Changes(s, [flow[s] EXCEPT !.uploader = FALSE])
(* "Guardar procedencia revisada": after the uploader, in the same run *)
DeclareRights(s) == Changes(s, Put(flow[s], [flow[s].form EXCEPT !.rights = "declared"]))

Ready(form) == form.holdings # Nothing /\ form.rights # "none"

(* "Analizar cuenta": the copy and the key of the same form *)
Analyze(s) ==
  LET f == Shown(s)
  IN /\ Ready(f.form) /\ runs < MaxRuns
     /\ runs' = runs + 1
     /\ Finish(s, [f EXCEPT !.done = [run |-> runs, inputs |-> f.form, key |-> f.form]])
     /\ UNCHANGED <<archive, packages>>

(* make_run_bundle refuses inputs that are not those of the result *)
Bundled(f) == f.done # Nothing /\ f.done.inputs = f.done.key
Bundle(f) == [run |-> f.done.run, account |-> IF f.at \in Accounts THEN f.at ELSE Nothing,
              inputs |-> f.done.inputs]

Save(s) ==
  LET f == Shown(s)
  IN /\ f.at \in Accounts /\ Bundled(f)
     /\ \A b \in archive[f.at] : b.run # f.done.run
     /\ archive' = [archive EXCEPT ![f.at] = @ \cup {Bundle(f)}]
     /\ Finish(s, f)
     /\ UNCHANGED <<packages, runs>>

Download(s) ==
  /\ Bundled(flow[s])
  /\ packages' = packages \cup {Bundle(flow[s])}
  /\ UNCHANGED <<flow, drafts, archive, runs, left, seen>>

Next ==
  \E s \in Sessions :
    \/ \E c \in Contexts : Choose(s, c)
    \/ Recover(s) \/ OpenDemo(s)
    \/ flow[s].at \in Accounts /\ \E b \in archive[flow[s].at] : OpenArchived(s, b)
    \/ \E b \in packages : OpenPackage(s, b)
    \/ \E cut \in Cuts : ImportPositions(s, cut)
    \/ UploadRights(s) \/ RemoveRights(s) \/ DeclareRights(s)
    \/ Analyze(s) \/ Save(s) \/ Download(s)

Spec == Init /\ [][Next]_vars

-----------------------------------------------------------------------------
(* A draft is replaced only from its own account's flow, by a session that  *)
(* read or wrote the version it replaces: what another tab saved is never   *)
(* overwritten unseen (account_workflow_ui.py:835-840 and 919-935).         *)
DraftsAreReadFirst ==
  [][\A a \in Accounts : drafts'[a] # drafts[a] =>
       \E s \in Sessions : /\ flow'[s].at = a
                           /\ [account |-> a, version |-> drafts[a].version] \in seen[s]]_vars

(* A finished analysis can always be bundled, however the form changes      *)
(* after it: the copy stays the one its key was computed from               *)
(* (account_workflow_ui.py:944-955, account_workflow.py:510).               *)
ResultsKeepTheirInputs ==
  \A s \in Sessions : flow[s].done # Nothing => flow[s].done.inputs = flow[s].done.key

(* The form, the draft and the runs of an account hold that account's       *)
(* positions or the demonstration's: a flow, a draft or a package of        *)
(* another account never reaches them (account_workflow_ui.py:831, 872).    *)
OwnPositionsOnly ==
  LET own(a, h) == h \in {Example, Nothing} \/ (h \in Positions /\ h.of = a)
  IN /\ \A s \in Sessions : flow[s].at \in Accounts => own(flow[s].at, flow[s].form.holdings)
     /\ \A a \in Accounts : /\ drafts[a].version > 0 => own(a, drafts[a].form.holdings)
                            /\ \A b \in archive[a] : own(a, b.inputs.holdings)

(* The analysis never works on what is of another account, although it      *)
(* keeps it while the page goes from one account to another.                *)
WorkIsOfItsAccount == ResultsKeepTheirInputs /\ OwnPositionsOnly
=============================================================================
