---------------------------- MODULE CaseRegistry ----------------------------
(***************************************************************************)
(* The case register: CaseStore (case_workspace.py) behind its page        *)
(* (workspace_ui.py).                                                      *)
(*                                                                         *)
(* A method of CaseStore is one transaction.  The page is not: a press     *)
(* reruns the whole script, which reads the case again, shows it, and only *)
(* then calls the method with the revision it has just read.  So a press   *)
(* is two steps, and what the person had on the screen is older than both. *)
(*                                                                         *)
(* Profile, accounts, evidence and files are one content, numbered by its  *)
(* changes.  Encryption, the audit chain and downloads are left out.       *)
(***************************************************************************)
EXTENDS Naturals, FiniteSets

CONSTANTS
  Actors,       \* identities of the policy
  Role,         \* per actor
  Browsers,     \* browser sessions
  Who,          \* the actor of each session
  Cases,        \* case ids that get minted
  NoActor,
  MaxRevision   \* revisions of a case in this model

Roles == {"ADMIN", "ANALYST", "REVIEWER", "VIEWER"}
ReviewKinds == {"TECNICA", "FINANCIERA"}

PolicyAssumption ==
  Role \in [Actors -> Roles] /\ Who \in [Browsers -> Actors] /\ NoActor \notin Actors
BoundAssumption == MaxRevision \in Nat

VARIABLES
  cases,     \* per id: the case (durable)
  working,   \* per id: who has working records in it (durable)
  screen,    \* per session and case: the content on display, 0 if none
  press,     \* per session: "write" between the two steps of a press
  at,        \* per session: the case pressed on
  base,      \* per session: revision and content read by that press
  shown      \* per session: the content on display when it was made

browser == <<screen, press, at, base, shown>>
registry == <<cases, working, browser>>

NotThere(status) ==
  [status |-> status, revision |-> 0, content |-> 0, author |-> NoActor, editor |-> NoActor,
   members |-> {}, archived |-> FALSE, reviews |-> {}]

Nothing == [revision |-> 0, content |-> 0]

RegistryInit ==
  /\ cases = [c \in Cases |-> NotThere("unused")]
  /\ working = [c \in Cases |-> {}]
  /\ screen = [s \in Browsers |-> [c \in Cases |-> 0]]
  /\ press = [s \in Browsers |-> "idle"]
  /\ at \in [Browsers -> Cases]
  /\ base = [s \in Browsers |-> Nothing]
  /\ shown = [s \in Browsers |-> 0]

IsAdmin(s) == Role[Who[s]] = "ADMIN"

\* _state: administration reads every case, the others those they belong to.
HasAccess(p, c) ==
  /\ cases[c].status = "live"
  /\ Role[p] = "ADMIN" \/ p \in cases[c].members

MayEdit(s, c) ==
  /\ HasAccess(Who[s], c)
  /\ Role[Who[s]] \in {"ADMIN", "ANALYST"}
  /\ ~cases[c].archived

\* The press of s is over, whatever came of it.
EndPress(s) ==
  /\ press' = [press EXCEPT ![s] = "idle"]
  /\ base' = [base EXCEPT ![s] = Nothing]
  /\ shown' = [shown EXCEPT ![s] = 0]
  /\ UNCHANGED at

\* The write of the press: the case becomes new and is shown again.
Write(s, new) ==
  /\ press[s] = "write"
  /\ cases' = [cases EXCEPT ![at[s]] = new]
  /\ screen' = [screen EXCEPT ![s][at[s]] = new.content]
  /\ EndPress(s)
  /\ UNCHANGED working

UpToDate(s) == base[s].revision = cases[at[s]].revision

----------------------------------------------------------------------------
Create(s, c) ==
  /\ press[s] = "idle"
  /\ Role[Who[s]] \in {"ADMIN", "ANALYST"}
  /\ cases[c].status = "unused"
  /\ cases' = [cases EXCEPT ![c] =
       [status |-> "live", revision |-> 1, content |-> 1, author |-> Who[s], editor |-> Who[s],
        members |-> {Who[s]}, archived |-> FALSE, reviews |-> {}]]
  /\ screen' = [screen EXCEPT ![s][c] = 1]
  /\ UNCHANGED <<working, press, at, base, shown>>

\* The page is opened or run again with nothing pressed.
Show(s, c) ==
  /\ press[s] = "idle"
  /\ HasAccess(Who[s], c)
  /\ screen' = [screen EXCEPT ![s][c] = cases[c].content]
  /\ UNCHANGED <<cases, working, press, at, base, shown>>

\* A button of the page is pressed: the rerun reads the case.
Press(s, c) ==
  /\ press[s] = "idle"
  /\ screen[s][c] # 0
  /\ HasAccess(Who[s], c)
  /\ press' = [press EXCEPT ![s] = "write"]
  /\ at' = [at EXCEPT ![s] = c]
  /\ base' = [base EXCEPT ![s] = [revision |-> cases[c].revision, content |-> cases[c].content]]
  /\ shown' = [shown EXCEPT ![s] = screen[s][c]]
  /\ screen' = [screen EXCEPT ![s][c] = cases[c].content]
  /\ UNCHANGED <<cases, working>>

\* The method raises, or the session dies before it.
Refused(s) ==
  /\ press[s] = "write"
  /\ EndPress(s)
  /\ UNCHANGED <<cases, working, screen>>

\* The case with its content changed by p.
Changed(case, p) ==
  [case EXCEPT !.revision = @ + 1, !.content = @ + 1, !.author = p, !.editor = p]

\* Mutant: an archived case can be edited.
Update_Archived(s) ==
  LET c == at[s]
  IN  /\ HasAccess(Who[s], c)
      /\ Role[Who[s]] \in {"ADMIN", "ANALYST"}
      /\ UpToDate(s)
      /\ Write(s, Changed(cases[c], Who[s]))

\* update, sections profile, account and evidence.
Update(s) ==
  /\ MayEdit(s, at[s])
  /\ UpToDate(s)
  /\ Write(s, Changed(cases[at[s]], Who[s]))

\* Mutant: a file does not change the revision.
Attach_SameRevision(s) ==
  /\ MayEdit(s, at[s])
  /\ UpToDate(s)
  /\ Write(s, [cases[at[s]] EXCEPT !.content = @ + 1, !.author = Who[s], !.editor = Who[s]])

\* attach: a file is part of the content.
Attach(s) ==
  /\ MayEdit(s, at[s])
  /\ UpToDate(s)
  /\ Write(s, Changed(cases[at[s]], Who[s]))

\* update, section archived: archived or recovered.
Archive(s) ==
  /\ IsAdmin(s)
  /\ HasAccess(Who[s], at[s])
  /\ UpToDate(s)
  /\ Write(s, [cases[at[s]] EXCEPT !.archived = ~@, !.revision = @ + 1])

\* Mutant: whoever changes the members counts as the editor.
Grant_TakesAuthorship(s, p) ==
  /\ IsAdmin(s)
  /\ HasAccess(Who[s], at[s])
  /\ Write(s, [cases[at[s]] EXCEPT !.members = @ \cup {p}, !.revision = @ + 1, !.editor = Who[s]])

\* grant: no revision is expected; the reviews are invalidated, the editor of
\* the content stays.
Grant(s, p) ==
  /\ IsAdmin(s)
  /\ HasAccess(Who[s], at[s])
  /\ Write(s, [cases[at[s]] EXCEPT !.members = @ \cup {p}, !.revision = @ + 1])

\* Mutant: a revocation does not change the revision.
Revoke_SameRevision(s, p) ==
  /\ IsAdmin(s)
  /\ Role[p] # "ADMIN"
  /\ HasAccess(Who[s], at[s])
  /\ Write(s, [cases[at[s]] EXCEPT !.members = @ \ {p}])

Revoke(s, p) ==
  /\ IsAdmin(s)
  /\ Role[p] # "ADMIN"
  /\ HasAccess(Who[s], at[s])
  /\ Write(s, [cases[at[s]] EXCEPT !.members = @ \ {p}, !.revision = @ + 1])

\* review: of the revision in force, by somebody who neither edited its content
\* last nor reviewed it before.
Review(s, kind) ==
  LET c == at[s]
  IN  /\ Role[Who[s]] \in {"ADMIN", "REVIEWER"}
      /\ HasAccess(Who[s], c)
      /\ ~cases[c].archived
      /\ UpToDate(s)
      /\ Who[s] # cases[c].editor
      /\ ~\E r \in cases[c].reviews : r.revision = cases[c].revision /\ r.actor = Who[s]
      /\ Write(s, [cases[c] EXCEPT !.reviews = @ \cup
           {[revision |-> cases[c].revision, actor |-> Who[s], kind |-> kind,
             content |-> base[s].content, shown |-> shown[s]]}])

\* save_working: a draft saved by the page, or a job of the worker.
SaveWorking(s, c) ==
  /\ MayEdit(s, c)
  /\ working' = [working EXCEPT ![c] = @ \cup {Who[s]}]
  /\ UNCHANGED <<cases, browser>>

\* Mutant: foreign keys are off, so the working records are not deleted.
Purge_NoCascade(s, c) ==
  /\ IsAdmin(s)
  /\ HasAccess(Who[s], c)
  /\ cases[c].archived
  /\ cases' = [cases EXCEPT ![c] = NotThere("purged")]
  /\ UNCHANGED <<working, browser>>

\* purge: an archived case, its files and, by the cascade, its working records.
Purge(s, c) ==
  /\ IsAdmin(s)
  /\ HasAccess(Who[s], c)
  /\ cases[c].archived
  /\ cases' = [cases EXCEPT ![c] = NotThere("purged")]
  /\ working' = [working EXCEPT ![c] = {}]
  /\ UNCHANGED browser

----------------------------------------------------------------------------
Method(s) ==
  \/ \E kind \in ReviewKinds : Review(s, kind)
  \/ cases[at[s]].revision < MaxRevision /\ \/ Update(s) \/ Attach(s) \/ Archive(s)
                                            \/ \E p \in Actors : Grant(s, p) \/ Revoke(s, p)

RegistryNext ==
  \E s \in Browsers :
    \/ Method(s) \/ Refused(s)
    \/ \E c \in Cases : \/ Create(s, c) \/ Show(s, c) \/ Press(s, c)
                        \/ SaveWorking(s, c) \/ Purge(s, c)

RegistrySpec == RegistryInit /\ [][RegistryNext]_registry

----------------------------------------------------------------------------
\* The reviews case_readiness counts.
CurrentReviews(c) == {r \in cases[c].reviews : r.revision = cases[c].revision}

\* case_readiness has nothing to ask of the reviews.
Reviewed(c) ==
  /\ Cardinality({r.actor : r \in CurrentReviews(c)}) >= 2
  /\ {r.kind : r \in CurrentReviews(c)} = ReviewKinds

\* "Dos personas distintas de la última que editó contenido": a case with its
\* reviews complete has a technical and a financial one by two people, neither
\* of them the author of the content, whatever was granted or archived since.
ReviewedByTwoOthers ==
  \A c \in Cases : Reviewed(c) =>
    \E r1, r2 \in CurrentReviews(c) :
      /\ r1.kind = "TECNICA" /\ r2.kind = "FINANCIERA"
      /\ r1.actor # r2.actor
      /\ cases[c].author \notin {r1.actor, r2.actor}
      /\ HasAccess(r1.actor, c) /\ HasAccess(r2.actor, c)

\* No review outlives the content it was recorded for.
ReviewsAreOfTheContent ==
  \A c \in Cases : \A r \in CurrentReviews(c) : r.content = cases[c].content

\* Nobody whose access was taken away counts as a reviewer.
ReviewersHaveAccess ==
  \A c \in Cases : \A r \in CurrentReviews(c) : HasAccess(r.actor, c)

\* Archiving closes a case for editions, reviews and jobs, also for the press
\* that had read it open.
ArchivedIsClosed ==
  [][\A c \in Cases : cases[c].archived /\ cases'[c].archived =>
       /\ cases'[c].content = cases[c].content
       /\ cases'[c].reviews = cases[c].reviews
       /\ working'[c] = working[c]]_registry

\* Nothing private is left of a purged case, whoever was saving meanwhile.
PurgedLeavesNothing ==
  \A c \in Cases : cases[c].status = "purged" => working[c] = {} /\ cases[c].members = {}

\* Archiving closes a case for editions, reviews and jobs, also for the press
\* that had read it open; nothing private is left of a purged case, whoever was
\* saving meanwhile.
ClosedStaysClosed == ArchivedIsClosed /\ []PurgedLeavesNothing

\* "registran sus conclusiones para la versión vigente": who reviews has seen
\* the content that is reviewed.
ReviewersSawTheContent ==
  \A c \in Cases : \A r \in CurrentReviews(c) : r.shown = cases[c].content
=============================================================================
