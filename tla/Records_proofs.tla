--------------------------- MODULE Records_proofs ---------------------------
(***************************************************************************)
(* Proofs about CaseRegistry, for any people, roles, sessions and cases:   *)
(* what the reviews of a case are worth.  All of it rests on the revision. *)
(* It grows with every change of content, members or archive, so no review *)
(* survives one (CaseInv); and a press whose revision is still that of the *)
(* case has read its content (PressInv).                                   *)
(*                                                                         *)
(* And about Backups, for any processes, files and folders: a bundle holds *)
(* what was committed before it was asked for, stays as it was written,    *)
(* and is what a finished folder was restored from.  The invariant says,   *)
(* of each process, what it has copied when it writes (SavingInv) and what *)
(* it has read when it restores (RestoringInv).                            *)
(***************************************************************************)
EXTENDS CaseRegistry, Backups, FeedJobs, TLAPS

People == Actors \cup {NoActor}
ReviewRecords ==
  [revision : Nat, actor : Actors, kind : ReviewKinds, content : Nat, shown : Nat]
CaseRecords ==
  [status : {"unused", "live", "purged"}, revision : Nat, content : Nat,
   author : People, editor : People, members : SUBSET Actors,
   archived : BOOLEAN, reviews : SUBSET ReviewRecords]

CaseTypes ==
  /\ cases \in [Cases -> CaseRecords]
  /\ working \in [Cases -> SUBSET Actors]
  /\ screen \in [Browsers -> [Cases -> Nat]]
  /\ press \in [Browsers -> {"idle", "write"}]
  /\ at \in [Browsers -> Cases]
  /\ base \in [Browsers -> [revision : Nat, content : Nat]]
  /\ shown \in [Browsers -> Nat]

InForce(k) == {r \in k.reviews : r.revision = k.revision}

\* The reviews of a case k: none is of a revision to come, and those in force
\* are of its content, by people with access, of whom none edited it last and
\* none reviewed twice.
CaseInv(k) ==
  /\ k.author = k.editor
  /\ k.status # "live" => k.reviews = {} /\ k.members = {}
  /\ \A r \in k.reviews : r.revision <= k.revision
  /\ \A r \in InForce(k) :
       /\ r.content = k.content /\ r.actor # k.editor
       /\ Role[r.actor] = "ADMIN" \/ r.actor \in k.members
  /\ \A r, q \in InForce(k) : r.actor = q.actor => r = q

\* What a press has read, unless the case was purged meanwhile.
PressInv(s) ==
  press[s] = "write" =>
    /\ cases[at[s]].status # "unused"
    /\ cases[at[s]].status = "live" =>
         /\ base[s].revision <= cases[at[s]].revision
         /\ UpToDate(s) => base[s].content = cases[at[s]].content

WorkingInv(c) == cases[c].status # "live" => working[c] = {}

CasesInv ==
  /\ CaseTypes
  /\ \A c \in Cases : CaseInv(cases[c]) /\ WorkingInv(c)
  /\ \A s \in Browsers : PressInv(s)

----------------------------------------------------------------------------
(* Facts about the data. *)

\* A case that is not there has nothing.
LEMMA NotThereInv ==
  ASSUME NEW status \in {"unused", "purged"}
  PROVE  NotThere(status) \in CaseRecords /\ CaseInv(NotThere(status))
BY DEF NotThere, CaseRecords, People, CaseInv, InForce

\* An edition is typed, counts as a revision and leaves the reviews.
LEMMA ChangedFields ==
  ASSUME NEW k \in CaseRecords, NEW p \in People
  PROVE  /\ Changed(k, p) \in CaseRecords
         /\ Changed(k, p).status = k.status
         /\ Changed(k, p).revision = k.revision + 1
         /\ Changed(k, p).reviews = k.reviews
         /\ Changed(k, p).author = Changed(k, p).editor
<1>1. k.revision + 1 \in Nat /\ k.content + 1 \in Nat
  BY DEF CaseRecords
<1>2. Changed(k, p) \in CaseRecords
  BY <1>1 DEF Changed, CaseRecords
<1>3. /\ Changed(k, p).status = k.status
      /\ Changed(k, p).revision = k.revision + 1
      /\ Changed(k, p).reviews = k.reviews
  BY DEF Changed, CaseRecords
<1>4. Changed(k, p).author = p /\ Changed(k, p).editor = p
  BY DEF Changed, CaseRecords
<1> QED BY <1>2, <1>3, <1>4

\* So is a change of the archive,
LEMMA ArchivedFields ==
  ASSUME NEW k \in CaseRecords
  PROVE  LET new == [k EXCEPT !.archived = ~@, !.revision = @ + 1]
         IN  /\ new \in CaseRecords
             /\ new.status = k.status /\ new.revision = k.revision + 1
             /\ new.reviews = k.reviews /\ new.author = k.author /\ new.editor = k.editor
<1> DEFINE new == [k EXCEPT !.archived = ~@, !.revision = @ + 1]
<1>1. k.revision + 1 \in Nat /\ (~k.archived) \in BOOLEAN
  BY DEF CaseRecords
<1>2. new \in CaseRecords
  BY <1>1 DEF CaseRecords
<1>3. new.status = k.status /\ new.revision = k.revision + 1 /\ new.reviews = k.reviews
  BY DEF CaseRecords
<1>4. new.author = k.author /\ new.editor = k.editor
  BY DEF CaseRecords
<1> QED BY <1>2, <1>3, <1>4

\* and a change of the members.
LEMMA MembersFields ==
  ASSUME NEW k \in CaseRecords, NEW members \in SUBSET Actors
  PROVE  LET new == [k EXCEPT !.members = members, !.revision = @ + 1]
         IN  /\ new \in CaseRecords
             /\ new.status = k.status /\ new.revision = k.revision + 1
             /\ new.reviews = k.reviews /\ new.author = k.author /\ new.editor = k.editor
<1> DEFINE new == [k EXCEPT !.members = members, !.revision = @ + 1]
<1>1. k.revision + 1 \in Nat
  BY DEF CaseRecords
<1>2. new \in CaseRecords
  BY <1>1 DEF CaseRecords
<1>3. new.status = k.status /\ new.revision = k.revision + 1 /\ new.reviews = k.reviews
  BY DEF CaseRecords
<1>4. new.author = k.author /\ new.editor = k.editor
  BY DEF CaseRecords
<1> QED BY <1>2, <1>3, <1>4

\* Whatever the content, the members or the archive become, a change that
\* counts as a revision leaves no review in force.
LEMMA NewRevision ==
  ASSUME NEW k \in CaseRecords, CaseInv(k), k.status = "live",
         NEW new \in CaseRecords,
         new.status = "live", new.revision = k.revision + 1,
         new.reviews = k.reviews, new.author = new.editor
  PROVE  CaseInv(new)
<1>1. \A r \in k.reviews : r.revision \in Nat /\ r.revision <= k.revision
  BY DEF CaseRecords, ReviewRecords, CaseInv
<1>2. k.revision \in Nat
  BY DEF CaseRecords
<1>3. InForce(new) = {}
  BY <1>1, <1>2 DEF InForce
<1>4. \A r \in new.reviews : r.revision <= new.revision
  BY <1>1, <1>2
<1> QED BY <1>3, <1>4 DEF CaseInv

\* The write of a press that keeps its promises: a case that stays live and
\* whose content changes only with its revision.
LEMMA WriteInv ==
  ASSUME CasesInv, NEW s \in Browsers, NEW new \in CaseRecords, Write(s, new),
         CaseInv(new), cases[at[s]].status = "live", new.status = "live",
         \/ new.revision = cases[at[s]].revision + 1
         \/ new.revision = cases[at[s]].revision /\ new.content = cases[at[s]].content
  PROVE  CasesInv'
<1> DEFINE c == at[s]
<1>1. c \in Cases /\ cases' = [cases EXCEPT ![c] = new] /\ UNCHANGED <<working, at>>
  BY DEF Write, EndPress, CasesInv, CaseTypes
<1>2. /\ press' = [press EXCEPT ![s] = "idle"]
      /\ base' = [base EXCEPT ![s] = Nothing]
      /\ shown' = [shown EXCEPT ![s] = 0]
      /\ screen' = [screen EXCEPT ![s][c] = new.content]
  BY DEF Write, EndPress
<1>3. new.content \in Nat /\ new.revision \in Nat /\ cases[c].revision \in Nat
  BY <1>1 DEF CaseRecords, CasesInv, CaseTypes
<1>4. CaseTypes'
  <2>1. cases' \in [Cases -> CaseRecords]
    BY <1>1 DEF CasesInv, CaseTypes
  <2>2. screen' \in [Browsers -> [Cases -> Nat]]
    BY <1>1, <1>2, <1>3 DEF CasesInv, CaseTypes
  <2>3. press' \in [Browsers -> {"idle", "write"}] /\ shown' \in [Browsers -> Nat]
    BY <1>2 DEF CasesInv, CaseTypes
  <2>4. base' \in [Browsers -> [revision : Nat, content : Nat]]
    BY <1>2 DEF Nothing, CasesInv, CaseTypes
  <2> QED BY <1>1, <2>1, <2>2, <2>3, <2>4 DEF CasesInv, CaseTypes
<1>5. ASSUME NEW d \in Cases PROVE CaseInv(cases'[d]) /\ WorkingInv(d)'
  BY <1>1 DEF CasesInv, CaseTypes, WorkingInv
<1>6. ASSUME NEW t \in Browsers PROVE PressInv(t)'
  <2>1. CASE t = s
    BY <1>2, <2>1 DEF CasesInv, CaseTypes, PressInv
  <2>2. CASE t # s
    <3>1. press'[t] = press[t] /\ base'[t] = base[t] /\ at'[t] = at[t] /\ at[t] \in Cases
      BY <1>1, <1>2, <2>2 DEF CasesInv, CaseTypes
    <3>2. base[t].revision \in Nat
      BY DEF CasesInv, CaseTypes
    <3>3. CASE at[t] = c
      <4>1. cases'[at'[t]] = new
        BY <1>1, <3>1, <3>3 DEF CasesInv, CaseTypes
      <4>2. press[t] = "write" =>
              /\ base[t].revision <= cases[c].revision
              /\ base[t].revision = cases[c].revision => base[t].content = cases[c].content
        BY <3>3 DEF CasesInv, PressInv, UpToDate
      <4>3. press[t] = "write" =>
              /\ base[t].revision <= new.revision
              /\ base[t].revision = new.revision => base[t].content = new.content
        BY <1>3, <3>2, <4>2
      <4> QED BY <3>1, <4>1, <4>3 DEF PressInv, UpToDate
    <3>4. CASE at[t] # c
      <4>1. cases'[at'[t]] = cases[at[t]]
        BY <1>1, <3>1, <3>4 DEF CasesInv, CaseTypes
      <4> QED BY <3>1, <4>1 DEF CasesInv, PressInv, UpToDate
    <3> QED BY <3>3, <3>4
  <2> QED BY <2>1, <2>2
<1> QED BY <1>4, <1>5, <1>6 DEF CasesInv

----------------------------------------------------------------------------
(* The methods of a press. *)

\* update and attach: the content changes, and with it the revision.
LEMMA ContentInv ==
  ASSUME PolicyAssumption, CasesInv, NEW s \in Browsers, Update(s) \/ Attach(s)
  PROVE  CasesInv'
<1> DEFINE k == cases[at[s]]
           new == Changed(k, Who[s])
<1>1. k \in CaseRecords /\ CaseInv(k) /\ k.status = "live" /\ Write(s, new)
  BY DEF Update, Attach, MayEdit, HasAccess, CasesInv, CaseTypes
<1>2. Who[s] \in People
  BY DEF PolicyAssumption, People
<1>3. /\ new \in CaseRecords
      /\ new.status = "live" /\ new.revision = k.revision + 1
      /\ new.reviews = k.reviews /\ new.author = new.editor
  BY <1>1, <1>2, ChangedFields
<1> HIDE DEF k, new
<1>4. CaseInv(new)
  BY <1>1, <1>3, NewRevision
<1> QED BY <1>1, <1>3, <1>4, WriteInv DEF k

\* update of the archive, grant and revoke: the revision changes alone.
LEMMA MembersInv ==
  ASSUME PolicyAssumption, CasesInv, NEW s \in Browsers,
         \/ Archive(s)
         \/ \E p \in Actors : Grant(s, p) \/ Revoke(s, p)
  PROVE  CasesInv'
<1> DEFINE k == cases[at[s]]
<1>1. k \in CaseRecords /\ CaseInv(k) /\ k.status = "live"
  BY DEF Archive, Grant, Revoke, HasAccess, CasesInv, CaseTypes
<1>2. PICK new :
        /\ Write(s, new) /\ new \in CaseRecords
        /\ new.status = k.status /\ new.revision = k.revision + 1
        /\ new.reviews = k.reviews /\ new.author = k.author /\ new.editor = k.editor
  <2>1. CASE Archive(s)
    <3>1. Write(s, [k EXCEPT !.archived = ~@, !.revision = @ + 1])
      BY <2>1 DEF Archive
    <3> QED BY <1>1, <3>1, ArchivedFields
  <2>2. CASE \E p \in Actors : Grant(s, p)
    <3>1. PICK p \in Actors : Write(s, [k EXCEPT !.members = @ \cup {p}, !.revision = @ + 1])
      BY <2>2 DEF Grant
    <3>2. k.members \cup {p} \in SUBSET Actors
      BY <1>1 DEF CaseRecords
    <3> DEFINE members == k.members \cup {p}
               new == [k EXCEPT !.members = members, !.revision = @ + 1]
    <3>3. Write(s, new)
      BY <3>1
    <3> HIDE DEF k, members
    <3>4. /\ new \in CaseRecords
          /\ new.status = k.status /\ new.revision = k.revision + 1
          /\ new.reviews = k.reviews /\ new.author = k.author /\ new.editor = k.editor
      BY <1>1, <3>2, MembersFields DEF members
    <3> HIDE DEF new
    <3> QED BY <3>3, <3>4
  <2>3. CASE \E p \in Actors : Revoke(s, p)
    <3>1. PICK p \in Actors : Write(s, [k EXCEPT !.members = @ \ {p}, !.revision = @ + 1])
      BY <2>3 DEF Revoke
    <3>2. k.members \ {p} \in SUBSET Actors
      BY <1>1 DEF CaseRecords
    <3> DEFINE members == k.members \ {p}
               new == [k EXCEPT !.members = members, !.revision = @ + 1]
    <3>3. Write(s, new)
      BY <3>1
    <3> HIDE DEF k, members
    <3>4. /\ new \in CaseRecords
          /\ new.status = k.status /\ new.revision = k.revision + 1
          /\ new.reviews = k.reviews /\ new.author = k.author /\ new.editor = k.editor
      BY <1>1, <3>2, MembersFields DEF members
    <3> HIDE DEF new
    <3> QED BY <3>3, <3>4
  <2> QED BY <2>1, <2>2, <2>3
<1>3. new.author = new.editor /\ new.status = "live"
  BY <1>1, <1>2 DEF CaseInv
<1> HIDE DEF k
<1>4. CaseInv(new)
  BY <1>1, <1>2, <1>3, NewRevision
<1> QED BY <1>1, <1>2, <1>3, <1>4, WriteInv DEF k

\* review: one more in force, of the content that the press had read.
LEMMA ReviewInv ==
  ASSUME PolicyAssumption, CasesInv, NEW s \in Browsers, NEW kind \in ReviewKinds, Review(s, kind)
  PROVE  CasesInv'
<1> DEFINE k == cases[at[s]]
           r == [revision |-> k.revision, actor |-> Who[s], kind |-> kind,
                 content |-> base[s].content, shown |-> shown[s]]
           new == [k EXCEPT !.reviews = @ \cup {r}]
<1>1. /\ k \in CaseRecords /\ CaseInv(k) /\ k.status = "live" /\ Write(s, new)
      /\ Who[s] \in Actors /\ Who[s] # k.editor
      /\ Role[Who[s]] = "ADMIN" \/ Who[s] \in k.members
      /\ \A q \in InForce(k) : q.actor # Who[s]
  BY DEF Review, HasAccess, InForce, CasesInv, CaseTypes, PolicyAssumption
<1>2. base[s].content = k.content
  BY DEF Review, HasAccess, Write, CasesInv, PressInv
<1>3. r \in ReviewRecords
  BY <1>1 DEF CasesInv, CaseTypes, CaseRecords, ReviewRecords
<1>4. /\ r.revision = k.revision /\ r.actor = Who[s] /\ r.content = k.content
  BY <1>2
<1>5. /\ new \in CaseRecords
      /\ new.status = "live" /\ new.revision = k.revision /\ new.content = k.content
      /\ new.author = k.author /\ new.editor = k.editor /\ new.members = k.members
      /\ new.reviews = k.reviews \cup {r}
  BY <1>1, <1>3 DEF CaseRecords
<1> HIDE DEF k, r, new
<1>6. InForce(new) = InForce(k) \cup {r}
  BY <1>4, <1>5 DEF InForce
<1>7. CaseInv(new)
  <2>1. \A q \in new.reviews : q.revision <= new.revision
    BY <1>1, <1>4, <1>5 DEF CaseInv, CaseRecords
  <2>2. \A q \in InForce(new) :
          /\ q.content = new.content /\ q.actor # new.editor
          /\ Role[q.actor] = "ADMIN" \/ q.actor \in new.members
    BY <1>1, <1>4, <1>5, <1>6 DEF CaseInv
  <2>3. \A q, p \in InForce(new) : q.actor = p.actor => q = p
    BY <1>1, <1>4, <1>6 DEF CaseInv
  <2> QED BY <1>1, <1>5, <2>1, <2>2, <2>3 DEF CaseInv
<1> QED BY <1>1, <1>5, <1>7, WriteInv DEF k

----------------------------------------------------------------------------
(* The other steps. *)

\* No case, no press and no working record at first.
LEMMA CasesStart == ASSUME PolicyAssumption PROVE RegistryInit => CasesInv
<1> SUFFICES ASSUME RegistryInit PROVE CasesInv
  OBVIOUS
<1>1. NotThere("unused") \in CaseRecords /\ CaseInv(NotThere("unused"))
  BY NotThereInv
<1>2. CaseTypes
  BY <1>1 DEF RegistryInit, CaseTypes, Nothing
<1>3. \A c \in Cases : CaseInv(cases[c]) /\ WorkingInv(c)
  BY <1>1 DEF RegistryInit, WorkingInv
<1>4. \A s \in Browsers : PressInv(s)
  BY DEF RegistryInit, PressInv
<1> QED BY <1>2, <1>3, <1>4 DEF CasesInv

\* A new case has its author as only member and no review.
LEMMA CreateInv ==
  ASSUME PolicyAssumption, CasesInv, NEW s \in Browsers, NEW c \in Cases, Create(s, c)
  PROVE  CasesInv'
<1> DEFINE new == [status |-> "live", revision |-> 1, content |-> 1, author |-> Who[s],
                   editor |-> Who[s], members |-> {Who[s]}, archived |-> FALSE, reviews |-> {}]
<1>1. /\ cases' = [cases EXCEPT ![c] = new] /\ cases[c].status = "unused"
      /\ screen' = [screen EXCEPT ![s][c] = 1]
      /\ UNCHANGED <<working, press, at, base, shown>>
  BY DEF Create
<1>2. new \in CaseRecords /\ CaseInv(new) /\ new.status = "live"
  BY DEF PolicyAssumption, CaseRecords, People, CaseInv, InForce
<1> HIDE DEF new
<1>3. CaseTypes'
  BY <1>1, <1>2 DEF CasesInv, CaseTypes
<1>4. ASSUME NEW d \in Cases PROVE CaseInv(cases'[d]) /\ WorkingInv(d)'
  BY <1>1, <1>2 DEF CasesInv, CaseTypes, WorkingInv
<1>5. ASSUME NEW t \in Browsers PROVE PressInv(t)'
  <2>1. at[t] \in Cases /\ (press[t] = "write" => at[t] # c)
    BY <1>1 DEF CasesInv, CaseTypes, PressInv
  <2>2. press[t] = "write" => cases'[at'[t]] = cases[at[t]]
    BY <1>1, <2>1 DEF CasesInv, CaseTypes
  <2> QED BY <1>1, <2>2 DEF CasesInv, PressInv, UpToDate
<1> QED BY <1>3, <1>4, <1>5 DEF CasesInv

\* A press reads the content with the revision it belongs to.
LEMMA PressesInv ==
  ASSUME CasesInv, NEW s \in Browsers, NEW c \in Cases, Press(s, c) \/ Show(s, c)
  PROVE  CasesInv'
<1>1. cases[c].status = "live" /\ UNCHANGED <<cases, working>>
  BY DEF Press, Show, HasAccess
<1>2. cases[c].revision \in Nat /\ cases[c].content \in Nat
  BY DEF CasesInv, CaseTypes, CaseRecords
<1>3. CaseTypes'
  <2>1. screen[s][c] \in Nat /\ screen' = [screen EXCEPT ![s][c] = cases[c].content]
    BY DEF CasesInv, CaseTypes, Press, Show
  <2>2. screen' \in [Browsers -> [Cases -> Nat]]
    BY <1>2, <2>1 DEF CasesInv, CaseTypes
  <2>3. ASSUME Press(s, c)
        PROVE  /\ at' \in [Browsers -> Cases] /\ press' \in [Browsers -> {"idle", "write"}]
               /\ base' \in [Browsers -> [revision : Nat, content : Nat]]
    <3> DEFINE read == [revision |-> cases[c].revision, content |-> cases[c].content]
    <3>1. /\ at' = [at EXCEPT ![s] = c] /\ press' = [press EXCEPT ![s] = "write"]
          /\ base' = [base EXCEPT ![s] = read]
      BY <2>3 DEF Press
    <3>2. read \in [revision : Nat, content : Nat]
      BY <1>2
    <3> HIDE DEF read
    <3>3. base' \in [Browsers -> [revision : Nat, content : Nat]]
      BY <3>1, <3>2 DEF CasesInv, CaseTypes
    <3>4. at' \in [Browsers -> Cases]
      BY <3>1 DEF CasesInv, CaseTypes
    <3>5. press' \in [Browsers -> {"idle", "write"}]
      BY <3>1 DEF CasesInv, CaseTypes
    <3> QED BY <3>3, <3>4, <3>5
  <2>4. ASSUME Show(s, c)
        PROVE  /\ at' \in [Browsers -> Cases] /\ press' \in [Browsers -> {"idle", "write"}]
               /\ base' \in [Browsers -> [revision : Nat, content : Nat]]
    BY <2>4 DEF Show, CasesInv, CaseTypes
  <2>5. shown' \in [Browsers -> Nat]
    BY <2>1 DEF Press, Show, CasesInv, CaseTypes
  <2> QED BY <1>1, <2>2, <2>3, <2>4, <2>5 DEF CasesInv, CaseTypes
<1>4. \A d \in Cases : CaseInv(cases[d])' /\ WorkingInv(d)'
  BY <1>1 DEF CasesInv, WorkingInv, CaseInv, InForce
<1>5. ASSUME NEW t \in Browsers PROVE PressInv(t)'
  <2>1. CASE Press(s, c) /\ t = s
    <3>1. /\ at'[t] = c /\ cases' = cases
          /\ base'[t] = [revision |-> cases[c].revision, content |-> cases[c].content]
      BY <1>1, <2>1 DEF Press, CasesInv, CaseTypes
    <3> QED BY <1>1, <1>2, <3>1 DEF PressInv, UpToDate
  <2>2. CASE Show(s, c) \/ t # s
    <3>1. press'[t] = press[t] /\ at'[t] = at[t] /\ base'[t] = base[t] /\ cases' = cases
      BY <1>1, <2>2 DEF Press, Show, CasesInv, CaseTypes
    <3> QED BY <3>1 DEF CasesInv, PressInv, UpToDate
  <2> QED BY <2>1, <2>2
<1> QED BY <1>3, <1>4, <1>5 DEF CasesInv

\* A refused press leaves the register as it was.
LEMMA RefusedInv ==
  ASSUME CasesInv, NEW s \in Browsers, Refused(s)
  PROVE  CasesInv'
<1>1. UNCHANGED <<cases, working, screen, at>>
  BY DEF Refused, EndPress
<1>2. CaseTypes'
  BY <1>1 DEF Refused, EndPress, Nothing, CasesInv, CaseTypes
<1>3. \A d \in Cases : CaseInv(cases[d])' /\ WorkingInv(d)'
  BY <1>1 DEF CasesInv, WorkingInv, CaseInv, InForce
<1>4. ASSUME NEW t \in Browsers PROVE PressInv(t)'
  <2>1. press'[t] = "write" => press[t] = "write" /\ base'[t] = base[t]
    BY DEF Refused, EndPress, CasesInv, CaseTypes
  <2> QED BY <1>1, <2>1 DEF CasesInv, PressInv, UpToDate
<1> QED BY <1>2, <1>3, <1>4 DEF CasesInv

\* A working record is of somebody who has access.
LEMMA SaveWorkingInv ==
  ASSUME PolicyAssumption, CasesInv, NEW s \in Browsers, NEW c \in Cases, SaveWorking(s, c)
  PROVE  CasesInv'
<1>1. /\ cases[c].status = "live" /\ UNCHANGED <<cases, screen, press, at, base, shown>>
      /\ working' = [working EXCEPT ![c] = @ \cup {Who[s]}] /\ Who[s] \in Actors
  BY DEF SaveWorking, MayEdit, HasAccess, browser, PolicyAssumption
<1>2. CaseTypes'
  BY <1>1 DEF CasesInv, CaseTypes
<1>3. \A d \in Cases : CaseInv(cases[d])' /\ WorkingInv(d)'
  BY <1>1 DEF CasesInv, CaseTypes, WorkingInv, CaseInv, InForce
<1>4. \A t \in Browsers : PressInv(t)'
  BY <1>1 DEF CasesInv, PressInv, UpToDate
<1> QED BY <1>2, <1>3, <1>4 DEF CasesInv

\* A purge takes content, members, reviews and working records.
LEMMA PurgeInv ==
  ASSUME CasesInv, NEW s \in Browsers, NEW c \in Cases, Purge(s, c)
  PROVE  CasesInv'
<1>1. /\ cases' = [cases EXCEPT ![c] = NotThere("purged")]
      /\ working' = [working EXCEPT ![c] = {}]
      /\ UNCHANGED <<screen, press, at, base, shown>>
  BY DEF Purge, browser
<1>2. /\ NotThere("purged") \in CaseRecords /\ CaseInv(NotThere("purged"))
      /\ NotThere("purged").status = "purged"
  BY NotThereInv DEF NotThere
<1>3. CaseTypes'
  BY <1>1, <1>2 DEF CasesInv, CaseTypes
<1>4. ASSUME NEW d \in Cases PROVE CaseInv(cases'[d]) /\ WorkingInv(d)'
  BY <1>1, <1>2 DEF CasesInv, CaseTypes, WorkingInv
<1>5. ASSUME NEW t \in Browsers PROVE PressInv(t)'
  <2>1. CASE at[t] = c
    BY <1>1, <1>2, <2>1 DEF CasesInv, CaseTypes, PressInv
  <2>2. CASE at[t] # c
    <3>1. cases'[at'[t]] = cases[at[t]]
      BY <1>1, <2>2 DEF CasesInv, CaseTypes
    <3> QED BY <1>1, <3>1 DEF CasesInv, PressInv, UpToDate
  <2> QED BY <2>1, <2>2
<1> QED BY <1>3, <1>4, <1>5 DEF CasesInv

\* Every method and every press keeps the invariant.
LEMMA CasesStep ==
  ASSUME PolicyAssumption, CasesInv, [RegistryNext]_registry
  PROVE  CasesInv'
<1>1. CASE UNCHANGED registry
  BY <1>1 DEF registry, browser, CasesInv, CaseTypes, CaseInv, InForce, WorkingInv, PressInv, UpToDate
<1>2. CASE RegistryNext
  <2>1. PICK s \in Browsers :
          \/ Method(s) \/ Refused(s)
          \/ \E c \in Cases : \/ Create(s, c) \/ Show(s, c) \/ Press(s, c)
                              \/ SaveWorking(s, c) \/ Purge(s, c)
    BY <1>2 DEF RegistryNext
  <2>2. CASE Method(s)
    BY <2>2, ReviewInv, ContentInv, MembersInv DEF Method
  <2>3. CASE Refused(s)
    BY <2>3, RefusedInv
  <2>4. CASE \E c \in Cases : \/ Create(s, c) \/ Show(s, c) \/ Press(s, c)
                              \/ SaveWorking(s, c) \/ Purge(s, c)
    BY <2>4, CreateInv, PressesInv, SaveWorkingInv, PurgeInv
  <2> QED BY <2>1, <2>2, <2>3, <2>4
<1> QED BY <1>1, <1>2

\* The inductive invariant of CaseRegistry.
LEMMA Inductive == ASSUME PolicyAssumption PROVE RegistrySpec => []CasesInv
<1>1. RegistryInit => CasesInv
  BY CasesStart
<1>2. CasesInv /\ [RegistryNext]_registry => CasesInv'
  BY CasesStep
<1> QED BY <1>1, <1>2, PTL DEF RegistrySpec

----------------------------------------------------------------------------
\* No review outlives the content it was recorded for, whatever was edited,
\* attached, granted or archived in between (case_workspace.py:review).
THEOREM ReviewsOfTheContent == ASSUME PolicyAssumption PROVE RegistrySpec => []ReviewsAreOfTheContent
<1>1. CasesInv => ReviewsAreOfTheContent
  BY DEF CasesInv, CaseInv, InForce, ReviewsAreOfTheContent, CurrentReviews
<1> QED BY <1>1, Inductive, PTL

\* Who reviewed what is in force has access.
LEMMA AccessOfReviewers ==
  ASSUME CasesInv, NEW c \in Cases, NEW r \in CurrentReviews(c)
  PROVE  HasAccess(r.actor, c)
<1>1. r \in InForce(cases[c]) /\ cases[c].reviews # {}
  BY DEF CurrentReviews, InForce
<1> QED BY <1>1 DEF CasesInv, CaseInv, HasAccess

\* "Dos personas distintas de la última que editó contenido": a case with its
\* reviews complete has one of each kind by two people who are not its author
\* and still have access.
THEOREM TwoOthersReviewed == ASSUME PolicyAssumption PROVE RegistrySpec => []ReviewedByTwoOthers
<1>1. ASSUME CasesInv, NEW c \in Cases, Reviewed(c)
      PROVE  \E r1, r2 \in CurrentReviews(c) :
               /\ r1.kind = "TECNICA" /\ r2.kind = "FINANCIERA"
               /\ r1.actor # r2.actor
               /\ cases[c].author \notin {r1.actor, r2.actor}
               /\ HasAccess(r1.actor, c) /\ HasAccess(r2.actor, c)
  <2>1. CurrentReviews(c) = InForce(cases[c])
    BY DEF CurrentReviews, InForce
  <2>2. PICK r1 \in CurrentReviews(c), r2 \in CurrentReviews(c) :
          r1.kind = "TECNICA" /\ r2.kind = "FINANCIERA"
    BY <1>1 DEF Reviewed, ReviewKinds
  <2>3. r1 # r2
    BY <2>2
  <2>4. r1.actor # r2.actor
    BY <1>1, <2>1, <2>3 DEF CasesInv, CaseInv
  <2>5. cases[c].author \notin {r1.actor, r2.actor}
    BY <1>1, <2>1 DEF CasesInv, CaseInv
  <2>6. HasAccess(r1.actor, c) /\ HasAccess(r2.actor, c)
    BY <1>1, AccessOfReviewers
  <2> QED BY <2>2, <2>4, <2>5, <2>6
<1>2. CasesInv => ReviewedByTwoOthers
  BY <1>1 DEF ReviewedByTwoOthers
<1> QED BY <1>2, Inductive, PTL

\* Nobody whose access was taken away counts as a reviewer.
THEOREM ReviewersAreMembers == ASSUME PolicyAssumption PROVE RegistrySpec => []ReviewersHaveAccess
<1>1. CasesInv => ReviewersHaveAccess
  BY AccessOfReviewers DEF ReviewersHaveAccess
<1> QED BY <1>1, Inductive, PTL

\* Nothing private is left of a purged case, whoever was saving meanwhile.
LEMMA PurgedIsGone == ASSUME PolicyAssumption PROVE RegistrySpec => []PurgedLeavesNothing
<1>1. CasesInv => PurgedLeavesNothing
  BY DEF CasesInv, CaseInv, WorkingInv, PurgedLeavesNothing
<1> QED BY <1>1, Inductive, PTL

\* Archiving closes a case for editions, reviews and jobs, also for the press
\* that had read it open.
LEMMA ArchivedStaysClosed == ASSUME PolicyAssumption PROVE RegistrySpec => ArchivedIsClosed
<1> DEFINE Closed(c) ==
      cases[c].archived /\ cases'[c].archived =>
        /\ cases'[c].content = cases[c].content
        /\ cases'[c].reviews = cases[c].reviews
        /\ working'[c] = working[c]
<1>1. ASSUME CasesInv, NEW s \in Browsers, NEW c \in Cases, Method(s)
      PROVE  Closed(c)
  <2>1. at[s] \in Cases /\ cases[at[s]] \in CaseRecords /\ UNCHANGED working
    BY <1>1 DEF CasesInv, CaseTypes, Method, Update, Attach, Archive, Grant, Revoke, Review, Write
  <2>2. CASE c # at[s]
    <3>1. cases'[c] = cases[c]
      BY <1>1, <2>2 DEF CasesInv, CaseTypes, Method, Update, Attach, Archive, Grant, Revoke, Review, Write
    <3> QED BY <2>1, <3>1
  <2>3. CASE c = at[s]
    <3>1. CASE Update(s) \/ Attach(s) \/ \E kind \in ReviewKinds : Review(s, kind)
      <4>1. ~cases[c].archived
        BY <2>3, <3>1 DEF Update, Attach, MayEdit, Review
      <4> QED BY <4>1
    <3>2. CASE Archive(s)
      <4>1. cases'[c] = [cases[c] EXCEPT !.archived = ~@, !.revision = @ + 1]
        BY <1>1, <2>1, <2>3, <3>2 DEF Archive, Write, CasesInv, CaseTypes
      <4>2. cases'[c].archived = ~cases[c].archived
        BY <2>1, <2>3, <4>1 DEF CaseRecords
      <4> QED BY <4>2
    <3>3. CASE \E p \in Actors : Grant(s, p) \/ Revoke(s, p)
      <4>1. PICK p \in Actors :
              \/ cases'[c] = [cases[c] EXCEPT !.members = @ \cup {p}, !.revision = @ + 1]
              \/ cases'[c] = [cases[c] EXCEPT !.members = @ \ {p}, !.revision = @ + 1]
        BY <1>1, <2>1, <2>3, <3>3 DEF Grant, Revoke, Write, CasesInv, CaseTypes
      <4>2. cases'[c].content = cases[c].content /\ cases'[c].reviews = cases[c].reviews
        BY <2>1, <2>3, <4>1 DEF CaseRecords
      <4> QED BY <2>1, <4>2
    <3> QED BY <1>1, <3>1, <3>2, <3>3 DEF Method
  <2> QED BY <2>2, <2>3
<1>2. ASSUME CasesInv, NEW s \in Browsers, NEW c \in Cases, NEW d \in Cases,
             \/ Create(s, d) \/ Show(s, d) \/ Press(s, d)
             \/ SaveWorking(s, d) \/ Purge(s, d)
      PROVE  Closed(c)
  <2>1. CASE Create(s, d)
    BY <1>2, <2>1 DEF Create, CasesInv, CaseTypes
  <2>2. CASE Show(s, d) \/ Press(s, d)
    BY <2>2 DEF Show, Press
  <2>3. CASE SaveWorking(s, d)
    BY <1>2, <2>3 DEF SaveWorking, MayEdit, CasesInv, CaseTypes
  <2>4. CASE Purge(s, d)
    <3>1. UNCHANGED browser /\ ~NotThere("purged").archived
      BY <2>4 DEF Purge, NotThere
    <3> QED BY <1>2, <2>4, <3>1 DEF Purge, CasesInv, CaseTypes
  <2> QED BY <1>2, <2>1, <2>2, <2>3, <2>4
<1>3. ASSUME CasesInv, [RegistryNext]_registry, NEW c \in Cases PROVE Closed(c)
  <2>1. CASE UNCHANGED registry \/ \E s \in Browsers : Refused(s)
    BY <2>1 DEF registry, Refused
  <2>2. CASE RegistryNext /\ ~\E s \in Browsers : Refused(s)
    BY <1>1, <1>2, <1>3, <2>2 DEF RegistryNext
  <2> QED BY <1>3, <2>1, <2>2
<1>4. CasesInv /\ [RegistryNext]_registry => [\A c \in Cases : Closed(c)]_registry
  BY <1>3
<1> QED BY <1>4, Inductive, PTL DEF RegistrySpec, ArchivedIsClosed

\* Both of them, of any number of cases.
THEOREM CasesStayClosed == ASSUME PolicyAssumption PROVE RegistrySpec => ClosedStaysClosed
BY PurgedIsGone, ArchivedStaysClosed, PTL DEF ClosedStaysClosed

----------------------------------------------------------------------------
(* Backups of the register, for any processes, files and folders.  A file    *)
(* is of the one process that created it until it is whole, and a folder of  *)
(* the one that made it; a process that dies leaves both as they are.        *)

SavingSteps == {"log", "copy", "lists", "create", "write"}
RestoringSteps == {"make", "first", "second"}
SavingJobs ==
  [doing : SavingSteps, to : Files, event : Commits, cases : Commits,
   lists : Commits]
RestoringJobs == [doing : RestoringSteps, from : Files, to : Folders]
BackupJobs == {Idle} \cup SavingJobs \cup RestoringJobs

BackupTypes ==
  /\ commits \in Commits /\ lists \in Commits
  /\ file \in [Files -> {Absent, Partial} \cup Bundles]
  /\ folder \in [Folders -> {Absent} \cup Restored]
  /\ job \in [Processes -> BackupJobs]

\* What a job has copied holds its event, and the file that it writes is its own.
SavingInv(p) ==
  /\ job[p].doing = "copy" => job[p].event <= commits
  /\ job[p].doing \in {"lists", "create", "write"} => job[p].event <= job[p].cases
  /\ job[p].doing = "write" =>
       /\ file[job[p].to] = Partial
       /\ \A q \in Processes : job[q].doing = "write" /\ job[q].to = job[p].to => q = p

\* A job restores a whole bundle, into a folder of its own.
RestoringInv(p) ==
  /\ job[p].doing \in RestoringSteps => file[job[p].from] \in Bundles
  /\ job[p].doing \in {"first", "second"} =>
       /\ folder[job[p].to] # Absent
       /\ folder[job[p].to].lists = Absent
       /\ job[p].doing = "second" => folder[job[p].to].cases = file[job[p].from].cases
       /\ \A q \in Processes :
            job[q].doing \in {"first", "second"} /\ job[q].to = job[p].to => q = p

BackupInv ==
  /\ BackupTypes
  /\ \A p \in Processes : SavingInv(p) /\ RestoringInv(p)
  /\ BundlesAreWhole

\* No bundle and no folder at first.
LEMMA BackupInit == NamesAssumption /\ BackupsInit => BackupInv
<1> SUFFICES ASSUME NamesAssumption, BackupsInit PROVE BackupInv
  OBVIOUS
<1>1. BackupTypes
  BY DEF NamesAssumption, BackupsInit, BackupTypes, BackupJobs, Commits
<1>2. \A p \in Processes : SavingInv(p) /\ RestoringInv(p)
  BY DEF BackupsInit, Idle, SavingInv, RestoringInv, RestoringSteps
<1>3. BundlesAreWhole
  BY DEF NamesAssumption, BackupsInit, BundlesAreWhole,
         BundlesHoldTheirEvent, RestoredWhole
<1> QED BY <1>1, <1>2, <1>3 DEF BackupInv

\* A job that saves and one that restores, by what they are doing.
LEMMA JobKinds ==
  ASSUME NEW j \in BackupJobs
  PROVE  /\ j.doing \in SavingSteps => j \in SavingJobs
         /\ j.doing \in RestoringSteps => j \in RestoringJobs
BY DEF BackupJobs, SavingJobs, RestoringJobs, Idle, SavingSteps, RestoringSteps

\* A step that changes no file and no folder keeps what they hold.
LEMMA FilesKept ==
  ASSUME BackupInv, UNCHANGED <<file, folder>>
  PROVE  BundlesAreWhole'
BY DEF BackupInv, BundlesAreWhole, BundlesHoldTheirEvent, RestoredWhole,
       Bundles, Commits

\* Nor does it take anything from the jobs that go on.
LEMMA OthersKept ==
  ASSUME BackupInv, UNCHANGED <<file, folder>>, commits' \in Commits, commits <= commits',
         NEW p \in Processes, NEW j, job' = [job EXCEPT ![p] = j],
         j.doing \notin {"write", "first", "second"}
  PROVE  \A q \in Processes \ {p} : SavingInv(q)' /\ RestoringInv(q)'
<1> SUFFICES ASSUME NEW q \in Processes, q # p
             PROVE  SavingInv(q)' /\ RestoringInv(q)'
  OBVIOUS
<1>1. /\ \A x \in Processes : job'[x] = IF x = p THEN j ELSE job[x]
      /\ SavingInv(q) /\ RestoringInv(q)
  BY DEF BackupInv, BackupTypes
<1>2. job[q].doing = "copy" => job[q].event \in Commits
  BY JobKinds DEF BackupInv, BackupTypes, SavingSteps, SavingJobs
<1>3. SavingInv(q)'
  BY <1>1, <1>2 DEF SavingInv, Commits, BackupInv, BackupTypes
<1>4. RestoringInv(q)'
  BY <1>1 DEF RestoringInv, RestoringSteps, Bundles, Commits
<1> QED BY <1>3, <1>4

\* The steps of a backup before it has a file.
LEMMA CopyKeeps ==
  ASSUME NamesAssumption, BackupInv, NEW p \in Processes,
         \/ \E f \in Files : Begin(p, f)
         \/ LogBackup(p) \/ CopyCases(p) \/ CopyLists(p)
  PROVE  BackupInv'
<1>1. /\ commits \in Nat /\ lists \in Commits /\ MaxCommits \in Nat
      /\ commits \in Commits /\ job[p] \in BackupJobs
      /\ DOMAIN job = Processes
  BY DEF BackupInv, BackupTypes, Commits, NamesAssumption
<1>2. ASSUME NEW j, j \in SavingJobs, j.doing \in {"log", "copy", "lists", "create"},
             job' = [job EXCEPT ![p] = j],
             UNCHANGED <<file, folder, lists>>, commits' \in Commits, commits <= commits',
             j.doing = "copy" => j.event <= commits',
             j.doing \in {"lists", "create"} => j.event <= j.cases
      PROVE  BackupInv'
  <2>1. BackupTypes'
    BY <1>2 DEF BackupInv, BackupTypes, BackupJobs, Bundles, Commits,
                Restored, SavingJobs, RestoringJobs, Idle
  <2>2. SavingInv(p)' /\ RestoringInv(p)'
    <3>1. job'[p] = j
      BY <1>1, <1>2
    <3> QED BY <1>2, <3>1 DEF SavingInv, RestoringInv, RestoringSteps
  <2>3. \A q \in Processes \ {p} : SavingInv(q)' /\ RestoringInv(q)'
    BY <1>2, OthersKept
  <2> QED BY <1>2, <2>1, <2>2, <2>3, FilesKept DEF BackupInv
<1>3. ASSUME NEW f \in Files, Begin(p, f)
      PROVE  BackupInv'
  <2>1. PICK j : j = [doing |-> "log", to |-> f, event |-> 0, cases |-> 0, lists |-> 0]
    OBVIOUS
  <2>2. j \in SavingJobs /\ j.doing = "log"
    BY <1>1, <2>1 DEF SavingJobs, SavingSteps, Commits
  <2>3. /\ job' = [job EXCEPT ![p] = j] /\ UNCHANGED <<file, folder, lists>>
        /\ commits' \in Commits /\ commits <= commits'
        /\ j.doing = "copy" => j.event <= commits'
    BY <1>1, <1>3, <2>1, <2>2 DEF Begin, Now
  <2> QED BY <1>2, <2>2, <2>3
<1>4. CASE LogBackup(p)
  <2>1. job[p] \in SavingJobs /\ commits < MaxCommits /\ commits' = commits + 1
    BY <1>1, <1>4, JobKinds DEF LogBackup, Does, SavingSteps
  <2>2. PICK j : j = [job[p] EXCEPT !.doing = "copy", !.event = commits + 1]
    OBVIOUS
  <2>3. commits + 1 \in Commits
    BY <1>1, <2>1 DEF Commits
  <2>4. j \in SavingJobs /\ j.doing = "copy" /\ j.event = commits + 1
    BY <2>1, <2>2, <2>3 DEF SavingJobs, SavingSteps
  <2>5. /\ job' = [job EXCEPT ![p] = j] /\ UNCHANGED <<file, folder, lists>>
        /\ commits' \in Commits /\ commits <= commits'
        /\ j.doing = "copy" => j.event <= commits'
    BY <1>1, <1>4, <2>1, <2>2, <2>3, <2>4 DEF LogBackup, Now
  <2> QED BY <1>2, <2>4, <2>5
<1>5. CASE CopyCases(p)
  <2>1. job[p] \in SavingJobs /\ job[p].event <= commits
    BY <1>1, <1>5, JobKinds
       DEF CopyCases, Does, SavingSteps, BackupInv, SavingInv
  <2>2. PICK j : j = [job[p] EXCEPT !.doing = "lists", !.cases = commits]
    OBVIOUS
  <2>3. j \in SavingJobs /\ j.doing = "lists" /\ j.event = job[p].event /\ j.cases = commits
    BY <1>1, <2>1, <2>2 DEF SavingJobs, SavingSteps
  <2>4. /\ job' = [job EXCEPT ![p] = j] /\ UNCHANGED <<file, folder, lists>>
        /\ commits' \in Commits /\ commits <= commits'
        /\ j.doing = "copy" => j.event <= commits'
    BY <1>1, <1>5, <2>2, <2>3 DEF CopyCases, Now
  <2> QED BY <1>2, <2>1, <2>3, <2>4
<1>6. CASE CopyLists(p)
  <2>1. job[p] \in SavingJobs /\ job[p].event <= job[p].cases
    BY <1>1, <1>6, JobKinds
       DEF CopyLists, Does, SavingSteps, BackupInv, SavingInv
  <2>2. PICK j : j = [job[p] EXCEPT !.doing = "create", !.lists = lists]
    OBVIOUS
  <2>3. j \in SavingJobs /\ j.doing = "create" /\ j.event = job[p].event /\ j.cases = job[p].cases
    BY <1>1, <2>1, <2>2 DEF SavingJobs, SavingSteps
  <2>4. /\ job' = [job EXCEPT ![p] = j] /\ UNCHANGED <<file, folder, lists>>
        /\ commits' \in Commits /\ commits <= commits'
        /\ j.doing = "copy" => j.event <= commits'
    BY <1>1, <1>6, <2>2, <2>3 DEF CopyLists, Now
  <2> QED BY <1>2, <2>1, <2>3, <2>4
<1> QED BY <1>3, <1>4, <1>5, <1>6

\* A process that stops has nothing, and takes nothing from the others.
LEMMA StopKeeps ==
  ASSUME BackupInv, NEW p \in Processes, Stop(p), UNCHANGED <<commits, lists, file, folder>>
  PROVE  BackupInv'
<1>1. job' = [job EXCEPT ![p] = Idle] /\ Idle.doing = "nothing"
  BY DEF Stop, Now, Idle
<1>2. BackupTypes'
  BY <1>1 DEF BackupInv, BackupTypes, BackupJobs, Bundles, Commits,
              Restored, SavingJobs, RestoringJobs, Idle
<1>3. SavingInv(p)' /\ RestoringInv(p)'
  <2>1. job'[p] = Idle
    BY <1>1 DEF BackupInv, BackupTypes
  <2> QED BY <1>1, <2>1 DEF SavingInv, RestoringInv, RestoringSteps
<1>4. \A q \in Processes \ {p} : SavingInv(q)' /\ RestoringInv(q)'
  <2>1. commits' \in Commits /\ commits <= commits'
    BY DEF BackupInv, BackupTypes, Commits
  <2>2. PICK j : j = Idle
    OBVIOUS
  <2> QED BY <1>1, <2>1, <2>2, OthersKept
<1> QED BY <1>2, <1>3, <1>4, FilesKept DEF BackupInv

\* The steps of a backup on its file: created by one process, written by it.
LEMMA WriteKeeps ==
  ASSUME NamesAssumption, BackupInv, NEW p \in Processes,
         CreateFile(p) \/ WriteFile(p)
  PROVE  /\ BackupInv'
         /\ \A f \in Files : file[f] \in Bundles => file'[f] = file[f]
<1> DEFINE f == job[p].to
<1>1. /\ job[p] \in SavingJobs /\ f \in Files /\ job[p].event <= job[p].cases
      /\ DOMAIN job = Processes /\ DOMAIN file = Files
      /\ job[p].doing \in {"create", "write"}
  <2>1. job[p] \in BackupJobs /\ SavingInv(p) /\ DOMAIN job = Processes /\ DOMAIN file = Files
    BY DEF BackupInv, BackupTypes
  <2>2. job[p].doing \in {"create", "write"}
    BY DEF CreateFile, WriteFile, Does
  <2>3. job[p] \in SavingJobs
    BY <2>1, <2>2, JobKinds DEF SavingSteps
  <2> QED BY <2>1, <2>2, <2>3 DEF SavingInv, SavingJobs
<1>2. CASE CreateFile(p) /\ file[f] # Absent
  <2>1. Stop(p) /\ UNCHANGED <<commits, lists, file, folder>>
    BY <1>2 DEF CreateFile
  <2> QED BY <2>1, StopKeeps
<1>3. CASE CreateFile(p) /\ file[f] = Absent
  <2>1. PICK j : j = [job[p] EXCEPT !.doing = "write"]
    OBVIOUS
  <2>2. /\ j \in SavingJobs /\ j.doing = "write" /\ j.to = f
        /\ j.event = job[p].event /\ j.cases = job[p].cases
    BY <1>1, <2>1 DEF SavingJobs, SavingSteps
  <2>3. /\ file' = [file EXCEPT ![f] = Partial] /\ job' = [job EXCEPT ![p] = j]
        /\ UNCHANGED <<commits, lists, folder>>
    BY <1>3, <2>1 DEF CreateFile, Then, Now
  <2> HIDE DEF f
  <2>4. /\ \A x \in Files : file'[x] = IF x = f THEN Partial ELSE file[x]
        /\ \A q \in Processes : job'[q] = IF q = p THEN j ELSE job[q]
    BY <1>1, <2>3
  <2>5. Absent # Partial /\ Absent \notin Bundles /\ Partial \notin Bundles
    BY DEF NamesAssumption
  <2>6. \A x \in Files : file[x] \in Bundles => file'[x] = file[x]
    BY <1>3, <2>4, <2>5 DEF f
  <2>7. BackupTypes'
    BY <1>1, <2>2, <2>3, <2>4
       DEF BackupInv, BackupTypes, BackupJobs, Bundles, Commits,
           Restored, SavingJobs, RestoringJobs, Idle
  <2>8. \A q \in Processes : job[q].doing = "write" => job[q].to # f
    BY <1>3, <2>5 DEF BackupInv, SavingInv, f
  <2>9. \A q \in Processes : SavingInv(q)'
    <3> SUFFICES ASSUME NEW q \in Processes PROVE SavingInv(q)'
      OBVIOUS
    <3>1. CASE q = p
      BY <1>1, <2>2, <2>4, <2>8, <3>1 DEF SavingInv
    <3>2. CASE q # p
      <4>1. SavingInv(q) /\ (job[q].doing = "write" => job[q].to \in Files)
        BY JobKinds DEF BackupInv, BackupTypes, SavingSteps, SavingJobs
      <4> QED BY <2>2, <2>3, <2>4, <2>8, <3>2, <4>1 DEF SavingInv
    <3> QED BY <3>1, <3>2
  <2>10. \A q \in Processes : RestoringInv(q)'
    <3> SUFFICES ASSUME NEW q \in Processes PROVE RestoringInv(q)'
      OBVIOUS
    <3>1. CASE q = p
      BY <2>2, <2>4, <3>1 DEF RestoringInv, RestoringSteps
    <3>2. CASE q # p
      <4>1. RestoringInv(q) /\ (job[q].doing \in RestoringSteps => job[q].from \in Files)
        BY JobKinds DEF BackupInv, BackupTypes, RestoringJobs
      <4> QED BY <2>2, <2>3, <2>4, <2>6, <3>2, <4>1
             DEF RestoringInv, RestoringSteps, Bundles, Commits
    <3> QED BY <3>1, <3>2
  <2>11. BundlesAreWhole'
    <3>1. BundlesHoldTheirEvent /\ RestoredWhole
      BY DEF BackupInv, BundlesAreWhole
    <3>2. BundlesHoldTheirEvent'
      BY <2>4, <2>5, <3>1 DEF BundlesHoldTheirEvent, Bundles, Commits
    <3>3. RestoredWhole'
      BY <2>3, <2>6, <3>1 DEF RestoredWhole, Bundles, Commits
    <3> QED BY <3>2, <3>3 DEF BundlesAreWhole
  <2> QED BY <2>6, <2>7, <2>9, <2>10, <2>11 DEF BackupInv
<1>4. CASE WriteFile(p)
  <2> DEFINE bundle == [event |-> job[p].event, cases |-> job[p].cases, lists |-> job[p].lists]
  <2>1. /\ bundle \in Bundles /\ bundle.event <= bundle.cases
        /\ file[f] = Partial
        /\ \A q \in Processes : job[q].doing = "write" /\ job[q].to = f => q = p
    BY <1>1, <1>4 DEF SavingJobs, Bundles, BackupInv, SavingInv, WriteFile,
                      Does
  <2>2. PICK j : j = Idle
    OBVIOUS
  <2>3. /\ file' = [file EXCEPT ![f] = bundle] /\ job' = [job EXCEPT ![p] = j]
        /\ j.doing = "nothing" /\ UNCHANGED <<commits, lists, folder>>
    BY <1>4, <2>2 DEF WriteFile, Stop, Now, Idle
  <2> HIDE DEF f, bundle
  <2>4. /\ \A x \in Files : file'[x] = IF x = f THEN bundle ELSE file[x]
        /\ \A q \in Processes : job'[q] = IF q = p THEN j ELSE job[q]
    BY <1>1, <2>3
  <2>5. Partial \notin Bundles
    BY DEF NamesAssumption
  <2>6. \A x \in Files : file[x] \in Bundles => file'[x] = file[x]
    BY <2>1, <2>4, <2>5
  <2>7. BackupTypes'
    BY <1>1, <2>1, <2>2, <2>3, <2>4
       DEF BackupInv, BackupTypes, BackupJobs, Bundles, Commits,
           Restored, SavingJobs, RestoringJobs, Idle
  <2>8. \A q \in Processes : SavingInv(q)'
    <3> SUFFICES ASSUME NEW q \in Processes PROVE SavingInv(q)'
      OBVIOUS
    <3>1. CASE q = p
      BY <2>3, <2>4, <3>1 DEF SavingInv
    <3>2. CASE q # p
      <4>1. SavingInv(q) /\ (job[q].doing = "write" => job[q].to \in Files)
        BY JobKinds DEF BackupInv, BackupTypes, SavingSteps, SavingJobs
      <4> QED BY <2>1, <2>3, <2>4, <3>2, <4>1 DEF SavingInv
    <3> QED BY <3>1, <3>2
  <2>9. \A q \in Processes : RestoringInv(q)'
    <3> SUFFICES ASSUME NEW q \in Processes PROVE RestoringInv(q)'
      OBVIOUS
    <3>1. CASE q = p
      BY <2>3, <2>4, <3>1 DEF RestoringInv, RestoringSteps
    <3>2. CASE q # p
      <4>1. RestoringInv(q) /\ (job[q].doing \in RestoringSteps => job[q].from \in Files)
        BY JobKinds DEF BackupInv, BackupTypes, RestoringJobs
      <4> QED BY <2>3, <2>4, <2>6, <3>2, <4>1
             DEF RestoringInv, RestoringSteps, Bundles, Commits
    <3> QED BY <3>1, <3>2
  <2>10. BundlesAreWhole'
    <3>1. BundlesHoldTheirEvent /\ RestoredWhole
      BY DEF BackupInv, BundlesAreWhole
    <3>2. BundlesHoldTheirEvent'
      <4>1. bundle.cases >= bundle.event
        BY <2>1 DEF Bundles, Commits
      <4> QED BY <2>4, <3>1, <4>1 DEF BundlesHoldTheirEvent, Bundles, Commits
    <3>3. RestoredWhole'
      BY <2>3, <2>6, <3>1 DEF RestoredWhole, Bundles, Commits
    <3> QED BY <3>2, <3>3 DEF BundlesAreWhole
  <2> QED BY <2>6, <2>7, <2>8, <2>9, <2>10 DEF BackupInv
<1> QED BY <1>2, <1>3, <1>4

\* The steps of a restoration: of a whole bundle, into a folder made for it.
LEMMA RestoreKeeps ==
  ASSUME NamesAssumption, BackupInv, NEW p \in Processes,
         \/ \E f \in Files, d \in Folders : Verify(p, f, d)
         \/ MakeFolder(p) \/ RestoreCases(p) \/ RestoreLists(p)
  PROVE  BackupInv'
<1>1. /\ DOMAIN job = Processes /\ DOMAIN folder = Folders /\ job[p] \in BackupJobs
      /\ commits \in Commits /\ commits <= commits
      /\ Absent \notin Commits /\ Absent \notin Restored
  BY DEF BackupInv, BackupTypes, Commits, NamesAssumption
<1>2. ASSUME UNCHANGED <<commits, lists, file>>, NEW d \in Folders, NEW copies \in Restored,
             NEW j \in BackupJobs, j.doing \notin SavingSteps,
             folder' = [folder EXCEPT ![d] = copies], job' = [job EXCEPT ![p] = j],
             \A q \in Processes \ {p} :
               job[q].doing \in {"first", "second"} => job[q].to # d,
             j.doing \in RestoringSteps => file[j.from] \in Bundles,
             j.doing \in {"first", "second"} => j.to = d /\ copies.lists = Absent,
             j.doing = "second" => copies.cases = file[j.from].cases,
             copies.lists # Absent =>
               \E f \in Files : /\ file[f] \in Bundles
                                /\ copies.cases = file[f].cases /\ copies.lists = file[f].lists
      PROVE  BackupInv'
  <2>1. /\ \A q \in Processes : job'[q] = IF q = p THEN j ELSE job[q]
        /\ \A x \in Folders : folder'[x] = IF x = d THEN copies ELSE folder[x]
    BY <1>1, <1>2
  <2>2. BackupTypes'
    BY <1>2 DEF BackupInv, BackupTypes, BackupJobs, Bundles, Commits,
                Restored, SavingJobs, RestoringJobs, Idle
  <2>3. \A q \in Processes : SavingInv(q)'
    <3> SUFFICES ASSUME NEW q \in Processes PROVE SavingInv(q)'
      OBVIOUS
    <3>1. j.doing \notin {"copy", "lists", "create", "write"}
      BY <1>2 DEF SavingSteps
    <3>2. CASE q = p
      BY <2>1, <3>1, <3>2 DEF SavingInv
    <3>3. CASE q # p
      <4>1. SavingInv(q)
        BY DEF BackupInv
      <4> QED BY <1>2, <2>1, <3>1, <3>3, <4>1 DEF SavingInv
    <3> QED BY <3>2, <3>3
  <2>4. \A q \in Processes : RestoringInv(q)'
    <3> SUFFICES ASSUME NEW q \in Processes PROVE RestoringInv(q)'
      OBVIOUS
    <3>1. copies # Absent
      BY <1>1
    <3>2. CASE q = p
      <4>1. job'[q] = j /\ file' = file
        BY <1>2, <2>1, <3>2
      <4>2. j.doing \in {"first", "second"} => folder'[j.to] = copies
        BY <1>2, <2>1
      <4> QED BY <1>2, <2>1, <3>1, <3>2, <4>1, <4>2
             DEF RestoringInv, RestoringSteps, Bundles, Commits
    <3>3. CASE q # p
      <4>1. /\ RestoringInv(q)
            /\ job[q].doing \in {"first", "second"} => job[q].to \in Folders /\ job[q].to # d
        BY <1>2, <3>3, JobKinds DEF BackupInv, BackupTypes, RestoringJobs, RestoringSteps
      <4> QED BY <1>2, <2>1, <3>3, <4>1
             DEF RestoringInv, RestoringSteps, Bundles, Commits
    <3> QED BY <3>2, <3>3
  <2>5. BundlesAreWhole'
    <3>1. BundlesHoldTheirEvent /\ RestoredWhole
      BY DEF BackupInv, BundlesAreWhole
    <3>2. BundlesHoldTheirEvent'
      BY <1>2, <3>1 DEF BundlesHoldTheirEvent, Bundles, Commits
    <3>3. RestoredWhole'
      BY <1>2, <2>1, <3>1 DEF RestoredWhole, Bundles, Commits
    <3> QED BY <3>2, <3>3 DEF BundlesAreWhole
  <2> QED BY <2>2, <2>3, <2>4, <2>5 DEF BackupInv
<1>3. ASSUME NEW f \in Files, NEW d \in Folders, Verify(p, f, d)
      PROVE  BackupInv'
  <2>1. PICK j : j = [doing |-> "make", from |-> f, to |-> d]
    OBVIOUS
  <2>2. j \in RestoringJobs /\ j.doing = "make" /\ j.from = f
    BY <2>1 DEF RestoringJobs, RestoringSteps
  <2>3. job' = [job EXCEPT ![p] = j] /\ UNCHANGED <<commits, lists, file, folder>>
    BY <1>3, <2>1 DEF Verify, Now
  <2>4. BackupTypes'
    BY <2>2, <2>3
       DEF BackupInv, BackupTypes, BackupJobs, Bundles, Commits,
           Restored, SavingJobs, RestoringJobs, Idle
  <2>5. SavingInv(p)' /\ RestoringInv(p)'
    <3>1. job'[p] = j /\ file'[f] = file[f] /\ file[f] \in Bundles
      BY <1>1, <1>3, <2>3 DEF Verify
    <3> QED BY <2>2, <3>1 DEF SavingInv, RestoringInv, Bundles, Commits
  <2>6. commits' \in Commits /\ commits <= commits'
    BY <1>1, <2>3
  <2>7. \A q \in Processes \ {p} : SavingInv(q)' /\ RestoringInv(q)'
    BY <2>2, <2>3, <2>6, OthersKept
  <2> QED BY <2>3, <2>4, <2>5, <2>7, FilesKept DEF BackupInv
<1>4. CASE MakeFolder(p)
  <2>1. job[p] \in RestoringJobs /\ file[job[p].from] \in Bundles
    BY <1>1, <1>4, JobKinds
       DEF MakeFolder, Does, RestoringSteps, BackupInv, RestoringInv
  <2>2. CASE folder[job[p].to] # Absent
    <3>1. Stop(p) /\ UNCHANGED <<commits, lists, file, folder>>
      BY <1>4, <2>2 DEF MakeFolder
    <3> QED BY <3>1, StopKeeps
  <2>3. CASE folder[job[p].to] = Absent
    <3>1. PICK d \in Folders : d = job[p].to
      BY <2>1 DEF RestoringJobs
    <3>2. PICK j : j = [job[p] EXCEPT !.doing = "first"]
      OBVIOUS
    <3>3. /\ j \in RestoringJobs /\ j.doing = "first" /\ j.to = d /\ j.from = job[p].from
      BY <2>1, <3>1, <3>2 DEF RestoringJobs, RestoringSteps
    <3>4. PICK copies : copies = [cases |-> Absent, lists |-> Absent]
      OBVIOUS
    <3>5. copies \in Restored /\ copies.lists = Absent
      BY <3>4 DEF Restored
    <3>6. /\ folder' = [folder EXCEPT ![d] = copies] /\ job' = [job EXCEPT ![p] = j]
          /\ UNCHANGED <<commits, lists, file>>
      BY <1>4, <2>3, <3>1, <3>2, <3>4 DEF MakeFolder, Then, Now
    <3>7. \A q \in Processes \ {p} : job[q].doing \in {"first", "second"} => job[q].to # d
      BY <2>3, <3>1 DEF BackupInv, RestoringInv
    <3>8. j \in BackupJobs /\ j.doing \notin SavingSteps /\ j.doing # "second"
      BY <3>3 DEF BackupJobs, SavingSteps
    <3>9. file[j.from] \in Bundles
      BY <2>1, <3>3
    <3> QED BY <1>2, <3>3, <3>5, <3>6, <3>7, <3>8, <3>9
  <2> QED BY <2>2, <2>3
<1>5. CASE RestoreCases(p)
  <2>1. /\ job[p] \in RestoringJobs /\ file[job[p].from] \in Bundles
        /\ folder[job[p].to].lists = Absent /\ folder[job[p].to] # Absent
        /\ \A q \in Processes : job[q].doing \in {"first", "second"} /\ job[q].to = job[p].to
                                  => q = p
    BY <1>1, <1>5, JobKinds
       DEF RestoreCases, Does, RestoringSteps, BackupInv, RestoringInv
  <2>2. PICK d \in Folders : d = job[p].to
    BY <2>1 DEF RestoringJobs
  <2>3. folder[d] \in Restored
    BY <2>1, <2>2 DEF BackupInv, BackupTypes
  <2>4. PICK j : j = [job[p] EXCEPT !.doing = "second"]
    OBVIOUS
  <2>5. /\ j \in RestoringJobs /\ j.doing = "second" /\ j.to = d /\ j.from = job[p].from
    BY <2>1, <2>2, <2>4 DEF RestoringJobs, RestoringSteps
  <2>6. PICK copies : copies = [folder[d] EXCEPT !.cases = file[job[p].from].cases]
    OBVIOUS
  <2>7. /\ copies \in Restored /\ copies.lists = Absent
        /\ copies.cases = file[job[p].from].cases
    BY <2>1, <2>2, <2>3, <2>6 DEF Restored, Bundles
  <2>8. /\ folder' = [folder EXCEPT ![d] = copies] /\ job' = [job EXCEPT ![p] = j]
        /\ UNCHANGED <<commits, lists, file>>
    BY <1>5, <2>2, <2>4, <2>6 DEF RestoreCases, Then, Now
  <2>9. \A q \in Processes \ {p} : job[q].doing \in {"first", "second"} => job[q].to # d
    BY <2>1, <2>2
  <2>10. /\ j \in BackupJobs /\ j.doing \notin SavingSteps
         /\ file[j.from] \in Bundles /\ copies.cases = file[j.from].cases
    BY <2>1, <2>5, <2>7 DEF BackupJobs, SavingSteps
  <2> QED BY <1>2, <2>5, <2>7, <2>8, <2>9, <2>10
<1>6. CASE RestoreLists(p)
  <2>1. /\ job[p] \in RestoringJobs /\ file[job[p].from] \in Bundles
        /\ folder[job[p].to].cases = file[job[p].from].cases /\ folder[job[p].to] # Absent
        /\ \A q \in Processes : job[q].doing \in {"first", "second"} /\ job[q].to = job[p].to
                                  => q = p
    BY <1>1, <1>6, JobKinds
       DEF RestoreLists, Does, RestoringSteps, BackupInv, RestoringInv
  <2>2. PICK d \in Folders : d = job[p].to
    BY <2>1 DEF RestoringJobs
  <2>3. folder[d] \in Restored
    BY <2>1, <2>2 DEF BackupInv, BackupTypes
  <2>4. PICK j : j = Idle
    OBVIOUS
  <2>5. j \in BackupJobs /\ j.doing \notin SavingSteps /\ j.doing \notin RestoringSteps
    BY <2>4 DEF BackupJobs, SavingSteps, RestoringSteps, Idle
  <2>6. PICK copies : copies = [folder[d] EXCEPT !.lists = file[job[p].from].lists]
    OBVIOUS
  <2>7. /\ copies \in Restored
        /\ copies.cases = file[job[p].from].cases /\ copies.lists = file[job[p].from].lists
    BY <2>1, <2>2, <2>3, <2>6 DEF Restored, Bundles
  <2>8. /\ folder' = [folder EXCEPT ![d] = copies] /\ job' = [job EXCEPT ![p] = j]
        /\ UNCHANGED <<commits, lists, file>>
    BY <1>6, <2>2, <2>4, <2>6 DEF RestoreLists, Stop, Now
  <2>9. \A q \in Processes \ {p} : job[q].doing \in {"first", "second"} => job[q].to # d
    BY <2>1, <2>2
  <2>10. /\ \E f \in Files : /\ file[f] \in Bundles
                             /\ copies.cases = file[f].cases /\ copies.lists = file[f].lists
         /\ j.doing \notin {"first", "second"}
    BY <2>1, <2>5, <2>7 DEF RestoringJobs, RestoringSteps
  <2> QED BY <1>2, <2>5, <2>7, <2>8, <2>9, <2>10
<1> QED BY <1>3, <1>4, <1>5, <1>6

\* Every step of a process keeps the invariant, and a whole bundle as it is.
LEMMA BackupStep ==
  ASSUME NamesAssumption, BackupInv, [BackupsNext]_bundles
  PROVE  /\ BackupInv'
         /\ \A f \in Files : file[f] \in Bundles => file'[f] = file[f]
<1>1. CASE UNCHANGED bundles
  BY <1>1 DEF bundles, BackupInv, BackupTypes, SavingInv, RestoringInv,
              BundlesAreWhole, BundlesHoldTheirEvent, RestoredWhole,
              BackupJobs, SavingJobs, RestoringJobs, Idle, Bundles,
              Commits, Restored
<1>2. CASE Edit
  <2>1. /\ UNCHANGED <<file, folder, job>>
        /\ commits' \in Commits /\ lists' \in Commits /\ commits <= commits'
    BY <1>2 DEF Edit, BackupInv, BackupTypes, Commits, NamesAssumption
  <2>2. BackupTypes'
    BY <2>1 DEF BackupInv, BackupTypes, BackupJobs, Bundles, Commits,
                Restored, SavingJobs, RestoringJobs, Idle
  <2>3. \A q \in Processes : SavingInv(q)' /\ RestoringInv(q)'
    <3> SUFFICES ASSUME NEW q \in Processes PROVE SavingInv(q)' /\ RestoringInv(q)'
      OBVIOUS
    <3>1. /\ SavingInv(q) /\ RestoringInv(q) /\ commits \in Commits
          /\ job[q].doing = "copy" => job[q].event \in Commits
      BY JobKinds DEF BackupInv, BackupTypes, SavingSteps, SavingJobs
    <3>2. SavingInv(q)'
      BY <2>1, <3>1 DEF SavingInv, Commits
    <3>3. RestoringInv(q)'
      BY <2>1, <3>1 DEF RestoringInv, Bundles, Commits
    <3> QED BY <3>2, <3>3
  <2> QED BY <2>1, <2>2, <2>3, FilesKept DEF BackupInv
<1>3. ASSUME NEW p \in Processes,
             \/ \E f \in Files : Begin(p, f)
             \/ LogBackup(p) \/ CopyCases(p) \/ CopyLists(p)
      PROVE  BackupInv' /\ UNCHANGED file
  BY <1>3, CopyKeeps DEF Begin, LogBackup, CopyCases, CopyLists
<1>4. ASSUME NEW p \in Processes,
             \/ \E f \in Files, d \in Folders : Verify(p, f, d)
             \/ MakeFolder(p) \/ RestoreCases(p) \/ RestoreLists(p)
      PROVE  BackupInv' /\ UNCHANGED file
  BY <1>4, RestoreKeeps
     DEF Verify, MakeFolder, RestoreCases, RestoreLists
<1>5. ASSUME NEW p \in Processes, Die(p)
      PROVE  BackupInv' /\ UNCHANGED file
  BY <1>5, StopKeeps DEF Die
<1> QED BY <1>1, <1>2, <1>3, <1>4, <1>5, WriteKeeps DEF BackupsNext, Edit, bundles

\* A bundle holds all that was committed before it was asked for, and a folder
\* that was restored whole holds the two bases of one bundle, whoever edits,
\* backs up, restores or dies meanwhile.
THEOREM BackupsAreWhole ==
  ASSUME NamesAssumption
  PROVE  BackupsSpec => []BundlesAreWhole
<1>1. BackupsInit => BackupInv
  BY BackupInit
<1>2. BackupInv /\ [BackupsNext]_bundles => BackupInv'
  BY BackupStep
<1>3. BackupInv => BundlesAreWhole
  BY DEF BackupInv
<1> QED BY <1>1, <1>2, <1>3, PTL DEF BackupsSpec

\* A finished bundle is never replaced, whoever writes to its destination.
THEOREM BackupsStay ==
  ASSUME NamesAssumption
  PROVE  BackupsSpec => BundlesStay
<1> DEFINE Stay == \A f \in Files : file[f] \in Bundles => file'[f] = file[f]
<1>1. BackupsInit => BackupInv
  BY BackupInit
<1>2. BackupInv /\ [BackupsNext]_bundles => BackupInv' /\ [Stay]_bundles
  BY BackupStep
<1> HIDE DEF Stay
<1>3. BackupsSpec => [][Stay]_bundles
  BY <1>1, <1>2, PTL DEF BackupsSpec
<1> QED BY <1>3 DEF Stay, BundlesStay

----------------------------------------------------------------------------
(***************************************************************************)
(* And about FeedJobs, for any clients refreshing and dying and any        *)
(* bounds: what the versions of the records protect.  A client whose copy  *)
(* is not outdated holds the record as it is now (FreshInv); everything    *)
(* else about the saves follows from it.                                   *)
(*                                                                         *)
(* The alerts, for one client r that refreshes and does not die, among any *)
(* that save programmings: only r outdates the feed and the alert          *)
(* (SoleInv), what was told is what the alert says (ToldInv), and the two  *)
(* are inductive with the properties (TellInv).                            *)
(***************************************************************************)

FreshInv ==
  \A p \in Clients :
    /\ step[p] # "idle" /\ "subscription" \notin missed[p] => rec[p] = sub
    /\ step[p] = "save feed" /\ "feed" \notin missed[p] => data[p].content >= feed.content

\* Data comes from the source.
SourceInv ==
  /\ feed.content <= source.content
  /\ \A p \in Clients : data[p].content <= source.content

IInv == TypeOK /\ SourceInv /\ FreshInv

----------------------------------------------------------------------------
(* Facts about the data. *)

\* The fields of the records that the proofs look at.
LEMMA FeedFields ==
  \A f \in Feeds : /\ f.content \in 0..MaxContent /\ f.stale \in BOOLEAN
                   /\ f.code \in {"none", "AVAILABLE", "REFRESH_FAILED"}
BY DEF Feeds, Signatures

\* The fields of a subscription.
LEMMA SubFields ==
  \A r \in Subscriptions : /\ r.programming \in 0..MaxSaves
                           /\ r.enabled \in BOOLEAN /\ r.notify \in BOOLEAN
                           /\ r.last \in Signatures
BY DEF Subscriptions

\* What the records start from is typed.
LEMMA Starts == /\ NoFeed \in Feeds /\ NoSub \in Subscriptions
                /\ NoSignature \in Signatures /\ NoFeed.content = 0
BY BoundsAssumption DEF NoFeed, NoSub, NoSignature, Feeds, Signatures, Subscriptions

\* The signature of a feed is typed.
LEMMA SignatureType ==
  ASSUME NEW f \in Feeds, NEW r \in Subscriptions
  PROVE  Signature(f, r) \in Signatures
BY BoundsAssumption, FeedFields, SubFields DEF Signature, Signatures

\* A refresh keeps the data or brings the newest.
LEMMA RefreshedIsNewer ==
  ASSUME TypeOK, SourceInv
  PROVE  /\ Refreshed \in Feeds
         /\ Refreshed.content <= source.content
         /\ Refreshed.content >= feed.content
<1>1. /\ feed.content \in 0..MaxContent
      /\ source.content \in 1..MaxContent
      /\ aged \in 0..MaxAged
  BY FeedFields DEF TypeOK
<1>2. CASE source.broken
  <2>1. Refreshed = [content |-> feed.content, code |-> "REFRESH_FAILED",
                     stale |-> feed.content <= aged]
    BY <1>2 DEF Refreshed, Received
  <2> QED BY <2>1, <1>1, BoundsAssumption DEF Feeds, Signatures, SourceInv
<1>3. CASE ~source.broken
  <2>1. Refreshed = [content |-> source.content, code |-> "AVAILABLE",
                     stale |-> source.content <= aged]
    BY <1>3 DEF Refreshed, Received
  <2> QED BY <2>1, <1>1, BoundsAssumption DEF Feeds, Signatures, SourceInv
<1> QED BY <1>2, <1>3

----------------------------------------------------------------------------
(* The invariant. *)

\* The records as they are created.
LEMMA InitInv == Init => IInv
<1> SUFFICES ASSUME Init PROVE IInv
  OBVIOUS
<1>1. TypeOK
  BY Starts, BoundsAssumption
     DEF Init, TypeOK, NoAlert, Records
<1>2. SourceInv
  BY Starts DEF Init, SourceInv
<1>3. FreshInv
  BY DEF Init, FreshInv
<1> QED BY <1>1, <1>2, <1>3 DEF IInv

\* A client reads the subscription: its copy is the record.
LEMMA ReadKeeps ==
  ASSUME IInv, NEW p \in Clients, ReadRecord(p)
  PROVE  IInv'
<1>1. TypeOK'
  BY DEF IInv, ReadRecord, TypeOK
<1>2. SourceInv'
  BY DEF IInv, ReadRecord, SourceInv
<1>3. FreshInv'
  BY DEF IInv, ReadRecord, FreshInv, TypeOK
<1> QED BY <1>1, <1>2, <1>3 DEF IInv

\* A client asks the source: what it holds is not older than the feed it read.
LEMMA FetchKeeps ==
  ASSUME IInv, NEW p \in Clients, Fetch(p)
  PROVE  IInv'
<1>1. TypeOK'
  BY RefreshedIsNewer DEF IInv, Fetch, TypeOK
<1>2. SourceInv'
  BY RefreshedIsNewer DEF IInv, Fetch, SourceInv, TypeOK
<1>3. FreshInv'
  BY RefreshedIsNewer DEF IInv, Fetch, FreshInv, TypeOK
<1> QED BY <1>1, <1>2, <1>3 DEF IInv

\* What the saves and the end of a refresh have in common: p goes on, and who
\* else has read the record that p saves is outdated.
Moved(p, next, gone) ==
  /\ Go(p, next)
  /\ missed' \in [Clients -> SUBSET Records]
  /\ \A q \in Clients \ {p} : step[q] # "idle" => missed[q] \cup gone \subseteq missed'[q]
  /\ next # "idle" /\ "subscription" \in missed[p] => "subscription" \in missed'[p]

Steps == {"idle", "read", "save feed", "decide", "save alert", "save subscription"}

\* Going on to the next save keeps the types of what a client holds.
LEMMA GoType ==
  ASSUME TypeOK, NEW p \in Clients, NEW next \in Steps, Go(p, next)
  PROVE  /\ step' \in [Clients -> Steps]
         /\ rec' \in [Clients -> Subscriptions]
         /\ data' \in [Clients -> Feeds]
<1>1. step' \in [Clients -> Steps]
  BY DEF TypeOK, Go, Steps
<1>2. CASE next = "idle"
  BY <1>1, <1>2, Starts DEF TypeOK, Go
<1>3. CASE next # "idle"
  BY <1>1, <1>3 DEF TypeOK, Go
<1> QED BY <1>2, <1>3

\* A save outdates the others' copies of its record and nothing else.
LEMMA OutdateMoves ==
  ASSUME TypeOK, NEW p \in Clients, NEW k \in Records, NEW next \in Steps,
         Go(p, next), Outdate(p, k, next)
  PROVE  Moved(p, next, {k})
<1>1. missed \in [Clients -> SUBSET Records]
  BY DEF TypeOK
<1> QED BY <1>1 DEF Moved, Outdate

\* Going on disturbs nobody else's copy, nor the copy of the client.
LEMMA MovedSource ==
  ASSUME TypeOK, SourceInv, NEW p \in Clients, NEW next \in Steps, Go(p, next),
         source' = source
  PROVE  \A q \in Clients : data'[q].content <= source'.content
<1>1. source.content \in 1..MaxContent
  BY DEF TypeOK
<1> SUFFICES ASSUME NEW q \in Clients PROVE data'[q].content <= source.content
  OBVIOUS
<1>2. CASE next = "idle" /\ q = p
  <2>1. data'[q] = NoFeed
    BY <1>2 DEF TypeOK, Go
  <2> QED BY <2>1, <1>1, Starts
<1>3. CASE ~(next = "idle" /\ q = p)
  <2>1. data'[q] = data[q]
    BY <1>3 DEF TypeOK, Go
  <2> QED BY <2>1 DEF SourceInv
<1> QED BY <1>2, <1>3

\* A copy that is not outdated is still that of the record.
LEMMA MovedFresh ==
  ASSUME IInv, NEW p \in Clients, NEW next \in Steps, NEW gone,
         Moved(p, next, gone), next # "save feed",
         sub' = sub \/ ("subscription" \in gone /\ next = "idle"),
         feed' = feed \/ "feed" \in gone, step[p] # "idle"
  PROVE  FreshInv'
<1> SUFFICES ASSUME NEW q \in Clients
             PROVE /\ step'[q] # "idle" /\ "subscription" \notin missed'[q] => rec'[q] = sub'
                   /\ step'[q] = "save feed" /\ "feed" \notin missed'[q]
                        => data'[q].content >= feed'.content
  BY DEF FreshInv
<1>1. CASE q = p
  BY <1>1 DEF IInv, FreshInv, Moved, Go, TypeOK
<1>2. CASE q # p
  <2>1. step'[q] = step[q] /\ rec'[q] = rec[q] /\ data'[q] = data[q]
    BY <1>2 DEF IInv, TypeOK, Moved, Go
  <2>2. step[q] # "idle" => missed[q] \cup gone \subseteq missed'[q]
    BY <1>2 DEF Moved
  <2> QED BY <2>1, <2>2 DEF IInv, FreshInv
<1> QED BY <1>1, <1>2

\* A step that only saves, or ends, keeps the invariant.
LEMMA MoveKeeps ==
  ASSUME IInv, NEW p \in Clients, NEW next \in Steps, NEW gone,
         Moved(p, next, gone), next # "save feed", step[p] # "idle",
         sub' = sub \/ ("subscription" \in gone /\ next = "idle"), sub' \in Subscriptions,
         feed' = feed \/ "feed" \in gone, feed' \in Feeds, feed'.content <= source.content,
         alert' \in [told : Signatures, under : 0..MaxSaves],
         UNCHANGED <<source, aged>>
  PROVE  IInv'
<1>1. Go(p, next)
  BY DEF Moved
<1>2. TypeOK'
  <2>1. TypeOK
    BY DEF IInv
  <2>2. step' \in [Clients -> Steps] /\ rec' \in [Clients -> Subscriptions]
        /\ data' \in [Clients -> Feeds] /\ missed' \in [Clients -> SUBSET Records]
    BY <2>1, <1>1, GoType DEF Moved
  <2> QED BY <2>1, <2>2 DEF TypeOK, Steps
<1>3. SourceInv'
  BY <1>1, MovedSource DEF IInv, SourceInv
<1>4. FreshInv'
  BY MovedFresh
<1> QED BY <1>2, <1>3, <1>4 DEF IInv

\* The feed is saved: the first of the three saves.
LEMMA SaveFeedKeeps ==
  ASSUME IInv, NEW p \in Clients, SaveFeed(p)
  PROVE  IInv'
<1> DEFINE next == IF rec[p].last = Signature(data[p], rec[p]) THEN "save subscription"
                                                            ELSE "decide"
<1>1. next \in Steps /\ next # "save feed" /\ "feed" \in Records
  BY DEF Steps, Records
<1>2. /\ TypeOK /\ Go(p, next) /\ Outdate(p, "feed", next)
      /\ step[p] # "idle" /\ feed' = data[p] /\ UNCHANGED <<source, aged, alert, sub>>
  BY DEF SaveFeed, IInv
<1>3. Moved(p, next, {"feed"})
  BY <1>1, <1>2, OutdateMoves
<1>4. feed' \in Feeds /\ feed'.content <= source.content
  BY <1>2 DEF IInv, SourceInv, TypeOK
<1>5. sub' = sub /\ sub' \in Subscriptions /\ alert' \in [told : Signatures, under : 0..MaxSaves]
  BY <1>2 DEF TypeOK
<1> HIDE DEF next
<1> QED BY <1>1, <1>2, <1>3, <1>4, <1>5, MoveKeeps

\* Whether there is something to tell is decided without saving.
LEMMA DecideKeeps ==
  ASSUME IInv, NEW p \in Clients, Decide(p)
  PROVE  IInv'
<1> DEFINE next == IF MustTell(Signature(data[p], rec[p]), rec[p].notify)
                   THEN "save alert" ELSE "save subscription"
<1>1. next \in Steps /\ next \notin {"save feed", "idle"}
  BY DEF Steps
<1>2. /\ TypeOK /\ Go(p, next) /\ missed' = [missed EXCEPT ![p] = @ \ {"alert"}]
      /\ step[p] # "idle" /\ UNCHANGED <<source, aged, feed, alert, sub>>
  BY DEF Decide, IInv
<1>3. Moved(p, next, {})
  BY <1>2 DEF Moved, TypeOK
<1>4. /\ feed' \in Feeds /\ feed'.content <= source.content /\ sub' \in Subscriptions
      /\ alert' \in [told : Signatures, under : 0..MaxSaves]
  BY <1>2 DEF IInv, SourceInv, TypeOK
<1> HIDE DEF next
<1> QED BY <1>1, <1>2, <1>3, <1>4, MoveKeeps

\* The alert is saved: the second.
LEMMA SaveAlertKeeps ==
  ASSUME IInv, NEW p \in Clients, SaveAlert(p)
  PROVE  IInv'
<1>1. /\ TypeOK /\ Go(p, "save subscription") /\ Outdate(p, "alert", "save subscription")
      /\ step[p] # "idle" /\ UNCHANGED <<source, aged, feed, sub>>
      /\ alert' = [told |-> Signature(data[p], rec[p]), under |-> rec[p].programming]
  BY DEF SaveAlert, IInv
<1>2. "save subscription" \in Steps /\ "alert" \in Records
  BY DEF Steps, Records
<1>3. Moved(p, "save subscription", {"alert"})
  BY <1>1, <1>2, OutdateMoves
<1>4. data[p] \in Feeds /\ rec[p] \in Subscriptions
  BY <1>1 DEF TypeOK
<1>5. alert' \in [told : Signatures, under : 0..MaxSaves]
  BY <1>1, <1>4, SignatureType, SubFields
<1>6. feed' \in Feeds /\ feed'.content <= source.content /\ sub' \in Subscriptions
  BY <1>1 DEF IInv, SourceInv, TypeOK
<1> QED BY <1>1, <1>2, <1>3, <1>5, <1>6, MoveKeeps

\* Both saves of the subscription: by the refresh and by the page.
LEMMA SubscriptionSaveKeeps ==
  ASSUME IInv, NEW p \in Clients, step[p] # "idle", sub' \in Subscriptions,
         Go(p, "idle"), Outdate(p, "subscription", "idle"),
         UNCHANGED <<source, aged, feed, alert>>
  PROVE  IInv'
<1>1. "idle" \in Steps /\ "subscription" \in Records /\ TypeOK
  BY DEF Steps, Records, IInv
<1>2. Moved(p, "idle", {"subscription"})
  BY <1>1, OutdateMoves
<1>3. /\ feed' \in Feeds /\ feed'.content <= source.content
      /\ alert' \in [told : Signatures, under : 0..MaxSaves]
  BY DEF IInv, SourceInv, TypeOK
<1> QED BY <1>1, <1>2, <1>3, MoveKeeps

\* The signature is recorded as told: the third.
LEMMA SaveSubscriptionKeeps ==
  ASSUME IInv, NEW p \in Clients, SaveSubscription(p)
  PROVE  IInv'
<1>1. data[p] \in Feeds /\ rec[p] \in Subscriptions
  BY DEF IInv, TypeOK
<1>2. [rec[p] EXCEPT !.last = Signature(data[p], rec[p])] \in Subscriptions
  BY <1>1, SignatureType DEF Subscriptions
<1> QED BY <1>2, SubscriptionSaveKeeps DEF SaveSubscription

\* The owner saves another programming.
LEMMA SaveSettingsKeeps ==
  ASSUME IInv, NEW p \in Clients, NEW enabled \in BOOLEAN, NEW notify \in BOOLEAN,
         SaveSettings(p, enabled, notify)
  PROVE  IInv'
<1>1. sub.programming \in 0..MaxSaves /\ sub.programming < MaxSaves
  BY SubFields DEF IInv, TypeOK, SaveSettings
<1>2. sub' \in Subscriptions
  BY <1>1, Starts, BoundsAssumption DEF SaveSettings, Subscriptions
<1> QED BY <1>2, SubscriptionSaveKeeps DEF SaveSettings

\* A save that conflicts and a client that dies: the refresh is over.
LEMMA EndKeeps ==
  ASSUME IInv, NEW p \in Clients, Conflict(p) \/ Crash(p)
  PROVE  IInv'
<1>1. /\ Go(p, "idle") /\ missed' = [missed EXCEPT ![p] = {}] /\ step[p] # "idle"
      /\ UNCHANGED <<source, aged, feed, alert, sub>> /\ TypeOK
  BY DEF Conflict, Crash, IInv
<1>2. "idle" \in Steps
  BY DEF Steps
<1>3. Moved(p, "idle", {})
  BY <1>1 DEF Moved, TypeOK
<1>4. /\ feed' \in Feeds /\ feed'.content <= source.content /\ sub' \in Subscriptions
      /\ alert' \in [told : Signatures, under : 0..MaxSaves]
  BY <1>1 DEF IInv, SourceInv, TypeOK
<1> QED BY <1>1, <1>2, <1>3, <1>4, MoveKeeps

\* What happens to the file.
LEMMA SourceKeeps ==
  ASSUME IInv, Publish \/ BreakOrRepair \/ Age
  PROVE  IInv'
<1>1. /\ source.content \in 1..MaxContent /\ source.broken \in BOOLEAN
      /\ aged \in 0..MaxAged
      /\ source = [content |-> source.content, broken |-> source.broken]
  BY DEF IInv, TypeOK
<1>2. UNCHANGED <<feed, alert, sub, client>>
  BY DEF Publish, BreakOrRepair, Age
<1>3. /\ source' \in [content : 1..MaxContent, broken : BOOLEAN]
      /\ aged' \in 0..MaxAged /\ source'.content >= source.content
  <2>1. CASE Publish
    <3>1. source' = [content |-> source.content + 1, broken |-> source.broken]
          /\ aged' = aged /\ source.content < MaxContent
      BY <1>1, <2>1 DEF Publish
    <3> QED BY <1>1, <3>1, BoundsAssumption
  <2>2. CASE BreakOrRepair
    <3>1. source' = [content |-> source.content, broken |-> ~source.broken] /\ aged' = aged
      BY <1>1, <2>2 DEF BreakOrRepair
    <3> QED BY <1>1, <3>1
  <2>3. CASE Age
    <3>1. source' = source /\ aged' = aged + 1 /\ aged < MaxAged
      BY <2>3 DEF Age
    <3>2. aged' \in 0..MaxAged
      BY <1>1, <3>1, BoundsAssumption
    <3>3. source' \in [content : 1..MaxContent, broken : BOOLEAN]
      BY <3>1 DEF IInv, TypeOK
    <3> QED BY <1>1, <3>1, <3>2, <3>3
  <2> QED BY <2>1, <2>2, <2>3
<1>4. TypeOK'
  BY <1>2, <1>3 DEF IInv, TypeOK, client
<1>5. SourceInv'
  <2>1. feed.content \in Nat /\ \A p \in Clients : data[p].content \in Nat
    <3>1. feed.content \in 0..MaxContent /\ \A p \in Clients : data[p].content \in 0..MaxContent
      BY FeedFields DEF IInv, TypeOK
    <3> QED BY <3>1, BoundsAssumption
  <2> QED BY <1>1, <1>2, <1>3, <2>1, BoundsAssumption DEF IInv, SourceInv, client
<1>6. FreshInv'
  BY <1>2 DEF IInv, FreshInv, client
<1> QED BY <1>4, <1>5, <1>6 DEF IInv

\* Every step of every client keeps the invariant.
LEMMA NextInv == IInv /\ [Next]_vars => IInv'
<1> SUFFICES ASSUME IInv, [Next]_vars PROVE IInv'
  OBVIOUS
<1>1. ASSUME NEW p \in Clients, Refresh(p)
      PROVE  IInv'
  BY <1>1, ReadKeeps, FetchKeeps, SaveFeedKeeps, DecideKeeps, SaveAlertKeeps,
     SaveSubscriptionKeeps, EndKeeps DEF Refresh
<1>2. ASSUME NEW p \in Clients, NEW enabled \in BOOLEAN, NEW notify \in BOOLEAN,
             SaveSettings(p, enabled, notify)
      PROVE  IInv'
  BY <1>2, SaveSettingsKeeps
<1>3. CASE UNCHANGED vars
  BY <1>3 DEF vars, client, IInv, TypeOK, SourceInv, FreshInv
<1> QED BY <1>1, <1>2, <1>3, EndKeeps, SourceKeeps DEF Next

\* The inductive invariant of FeedJobs.
LEMMA InvHolds == Spec => []IInv
<1> QED BY InitInv, NextInv, PTL DEF Spec

----------------------------------------------------------------------------
(* The theorems. *)

\* Type correctness of the three records and of what every client holds.
THEOREM TypeCorrect == Spec => []TypeOK
<1>1. IInv => TypeOK
  BY DEF IInv
<1> QED BY <1>1, InvHolds, PTL

\* A failed refresh, and one slower than another's, never takes the data that
\* the owner has back to an older content.
THEOREM DataStays == Spec => DataNeverGoesBack
<1>1. ASSUME IInv, [Next]_vars
      PROVE  [feed'.content >= feed.content]_vars
  <2>1. feed.content \in Nat
    <3>1. feed.content \in 0..MaxContent
      BY <1>1, FeedFields DEF IInv, TypeOK
    <3> QED BY <3>1, BoundsAssumption
  <2>2. ASSUME NEW p \in Clients, SaveFeed(p)
        PROVE  feed'.content >= feed.content
    BY <1>1, <2>2 DEF SaveFeed, IInv, FreshInv
  <2>3. CASE UNCHANGED feed
    BY <2>1, <2>3
  <2>4. (\E p \in Clients : SaveFeed(p)) \/ UNCHANGED feed
    BY <1>1 DEF Next, vars, Refresh, ReadRecord, Fetch, Decide, SaveAlert, SaveSubscription,
                Conflict, Crash, SaveSettings, Publish, BreakOrRepair, Age
  <2> QED BY <2>2, <2>3, <2>4
<1> QED BY <1>1, InvHolds, PTL DEF Spec, DataNeverGoesBack

\* A refresh that began under an older programming never brings it back.
THEOREM ProgrammingStays == Spec => ProgrammingIsKept
<1> DEFINE Kept == /\ sub'.programming >= sub.programming
                   /\ sub'.programming = sub.programming =>
                        <<sub'.enabled, sub'.notify>> = <<sub.enabled, sub.notify>>
<1>1. ASSUME IInv, [Next]_vars
      PROVE  [Kept]_vars
  <2>1. sub \in Subscriptions /\ sub.programming \in Nat
    <3>1. sub \in Subscriptions /\ sub.programming \in 0..MaxSaves
      BY <1>1, SubFields DEF IInv, TypeOK
    <3> QED BY <3>1, BoundsAssumption
  <2>2. ASSUME NEW p \in Clients, SaveSubscription(p)
        PROVE  Kept
    <3>1. sub' = [sub EXCEPT !.last = Signature(data[p], rec[p])]
      BY <1>1, <2>2 DEF SaveSubscription, IInv, FreshInv
    <3>2. /\ sub'.programming = sub.programming
          /\ sub'.enabled = sub.enabled /\ sub'.notify = sub.notify
      BY <2>1, <3>1 DEF Subscriptions
    <3> QED BY <2>1, <3>2
  <2>3. ASSUME NEW p \in Clients, NEW enabled \in BOOLEAN, NEW notify \in BOOLEAN,
               SaveSettings(p, enabled, notify)
        PROVE  Kept
    <3>1. sub'.programming = sub.programming + 1
      BY <2>3 DEF SaveSettings
    <3> QED BY <2>1, <3>1
  <2>4. CASE UNCHANGED sub
    BY <2>1, <2>4
  <2>5. \/ \E p \in Clients : SaveSubscription(p)
        \/ \E p \in Clients, enabled, notify \in BOOLEAN : SaveSettings(p, enabled, notify)
        \/ UNCHANGED sub
    BY <1>1 DEF Next, vars, Refresh, ReadRecord, Fetch, Decide, SaveAlert, SaveFeed,
                Conflict, Crash, Publish, BreakOrRepair, Age
  <2> QED BY <2>2, <2>3, <2>4, <2>5
<1> QED BY <1>1, InvHolds, PTL DEF Spec, ProgrammingIsKept

----------------------------------------------------------------------------
(* What the owner is told, when one client refreshes and does not die: of    *)
(* two that refresh, or of one that dies after its alert, it would be false. *)
(* The refresh is between its alert and its subscription when the signature  *)
(* is told, or needs no telling, and the subscription does not say so yet.   *)

Told(signature) == alert.told = signature \/ (alert = NoAlert /\ Healthy(signature))
Found(r) == Signature(data[r], rec[r])
Between(r) == step[r] = "save subscription" /\ rec[r].last # Found(r)

\* What the only refresh holds, and what the programmings saved meanwhile did.
SoleInv(r) ==
  /\ \A p \in Clients \ {r} : step[p] \in {"idle", "read"}
  /\ missed[r] \subseteq {"subscription"}
  /\ step[r] = "idle" => missed[r] = {}
  /\ "subscription" \in missed[r] =>
       /\ sub.last = NoSignature
       /\ rec[r].programming < sub.programming /\ alert.under < sub.programming
  /\ step[r] \in {"save feed", "decide", "save alert", "save subscription"} =>
       data[r].code # "none" /\ rec[r].programming # 0
  /\ step[r] \in {"decide", "save alert", "save subscription"} => feed = data[r]
  /\ step[r] \in {"decide", "save alert"} => rec[r].last # Found(r)
  /\ alert.under <= sub.programming
  /\ feed.code = "none" => alert = NoAlert

\* The subscription says what the alert said last, or what needed no alert.
ToldInv(r) ==
  /\ ~Between(r) /\ sub.last # NoSignature => Told(sub.last)
  /\ ~Between(r) /\ alert.under # 0 /\ alert.under = sub.programming => sub.last = alert.told
  /\ ~Between(r) /\ step[r] # "idle" /\ alert.under # 0 /\ alert.under = rec[r].programming
       => rec[r].last = alert.told
  /\ Between(r) =>
       /\ Told(Found(r))
       /\ alert.under = rec[r].programming => alert.told = Found(r)

TellInv(r) == SoleInv(r) /\ ToldInv(r)

\* Nothing has been told at first and there is nothing to tell.
LEMMA TellInit ==
  ASSUME NEW r \in Clients, Init
  PROVE  TellInv(r)
<1>1. SoleInv(r)
  BY DEF Init, SoleInv, NoAlert, NoSub, NoFeed, NoSignature
<1>2. ToldInv(r)
  BY DEF Init, ToldInv, Between, Told, NoAlert, NoSub, NoFeed, NoSignature
<1> QED BY <1>1, <1>2 DEF TellInv

\* The numbers of the programmings.
LEMMA Programmings ==
  ASSUME TypeOK, NEW r \in Clients
  PROVE  /\ sub.programming \in Nat /\ rec[r].programming \in Nat /\ alert.under \in Nat
         /\ rec[r] \in Subscriptions /\ data[r] \in Feeds
<1>1. /\ sub.programming \in 0..MaxSaves /\ rec[r] \in Subscriptions /\ data[r] \in Feeds
      /\ alert.under \in 0..MaxSaves
  BY SubFields DEF TypeOK
<1>2. rec[r].programming \in 0..MaxSaves
  BY <1>1, SubFields
<1> QED BY <1>1, <1>2, BoundsAssumption

\* A step that is none of the refresh, and saves nothing, changes nothing of it.
LEMMA AsideKeeps ==
  ASSUME NEW r \in Clients, TellInv(r), UNCHANGED <<feed, alert, sub>>,
         step'[r] = step[r], rec'[r] = rec[r], data'[r] = data[r], missed'[r] = missed[r],
         \A p \in Clients \ {r} : step'[p] \in {"idle", "read"}
  PROVE  TellInv(r)'
BY DEF TellInv, SoleInv, ToldInv, Between, Found, Told, Healthy, Signature

\* A programming saved meanwhile: nothing is told of it yet.
LEMMA SettingsKeep ==
  ASSUME IInv, NEW r \in Clients, TellInv(r), NEW p \in Clients,
         NEW enabled \in BOOLEAN, NEW notify \in BOOLEAN, SaveSettings(p, enabled, notify)
  PROVE  TellInv(r)'
<1>1. /\ sub.programming \in Nat /\ rec[r].programming \in Nat /\ alert.under \in Nat
  BY Programmings DEF IInv
<1>2. /\ sub'.programming = sub.programming + 1 /\ sub'.last = NoSignature
      /\ UNCHANGED <<feed, alert>>
      /\ step[p] = "read" /\ step' = [step EXCEPT ![p] = "idle"]
      /\ rec' = [rec EXCEPT ![p] = NoSub] /\ data' = [data EXCEPT ![p] = NoFeed]
  BY DEF SaveSettings, Go
<1>3. missed'[r] = IF r = p \/ step[r] = "idle" THEN {} ELSE missed[r] \cup {"subscription"}
  BY DEF SaveSettings, Outdate
<1>4. /\ \A q \in Clients : step'[q] = IF q = p THEN "idle" ELSE step[q]
      /\ r # p => rec'[r] = rec[r] /\ data'[r] = data[r]
  BY <1>2 DEF IInv, TypeOK
<1>5. alert.under <= sub.programming /\ alert'.under < sub'.programming
  <2>1. alert.under <= sub.programming
    BY DEF TellInv, SoleInv
  <2>2. alert.under < sub.programming + 1
    BY <1>1, <2>1
  <2> QED BY <1>2, <2>1, <2>2
<1>6. \A q \in Clients \ {r} : step'[q] \in {"idle", "read"}
  BY <1>4 DEF TellInv, SoleInv
<1>7. /\ alert'.under <= sub'.programming
      /\ feed'.code = "none" => alert' = NoAlert
  <2>1. feed.code = "none" => alert = NoAlert
    BY DEF TellInv, SoleInv
  <2>2. alert'.under \in Nat /\ sub'.programming \in Nat
    BY <1>1, <1>2
  <2> QED BY <1>2, <1>5, <2>1, <2>2
<1>8. /\ sub'.last # NoSignature => Told(sub.last)'
      /\ alert'.under = sub'.programming => sub'.last = alert'.told
  BY <1>1, <1>2, <1>5
<1>9. CASE r = p
  <2>1. step'[r] = "idle" /\ missed'[r] = {}
    BY <1>3, <1>4, <1>9
  <2>2. SoleInv(r)'
    BY <1>6, <1>7, <2>1 DEF SoleInv
  <2>3. ToldInv(r)'
    BY <1>8, <2>1 DEF ToldInv, Between
  <2> QED BY <2>2, <2>3 DEF TellInv
<1>10. CASE r # p
  <2>1. /\ step'[r] = step[r] /\ rec'[r] = rec[r] /\ data'[r] = data[r]
        /\ Found(r)' = Found(r) /\ (Between(r)' <=> Between(r))
    BY <1>4, <1>10 DEF Between, Found, Signature
  <2>2. step[r] = "idle" => missed'[r] = {}
    BY <1>3
  <2>3. missed'[r] \subseteq {"subscription"}
    BY <1>3, <1>10 DEF TellInv, SoleInv
  <2>4. step[r] # "idle" => rec[r].programming <= sub.programming
    <3>1. CASE "subscription" \in missed[r]
      <4>1. rec[r].programming < sub.programming
        BY <3>1 DEF TellInv, SoleInv
      <4> QED BY <1>1, <4>1
    <3>2. CASE "subscription" \notin missed[r]
      <4>1. step[r] # "idle" => rec[r] = sub
        BY <3>2 DEF IInv, FreshInv
      <4> QED BY <1>1, <4>1
    <3> QED BY <3>1, <3>2
  <2>5. "subscription" \in missed'[r] =>
           /\ sub'.last = NoSignature
           /\ rec'[r].programming < sub'.programming /\ alert'.under < sub'.programming
    BY <1>1, <1>2, <1>5, <2>1, <2>2, <2>4
  <2>6. /\ step[r] \in {"save feed", "decide", "save alert", "save subscription"} =>
             data[r].code # "none" /\ rec[r].programming # 0
        /\ step[r] \in {"decide", "save alert", "save subscription"} => feed = data[r]
        /\ step[r] \in {"decide", "save alert"} => rec[r].last # Found(r)
    BY DEF TellInv, SoleInv
  <2>7. SoleInv(r)'
    BY <1>2, <1>6, <1>7, <2>1, <2>2, <2>3, <2>5, <2>6 DEF SoleInv
  <2>8. /\ ~Between(r) /\ step[r] # "idle" /\ alert.under # 0
               /\ alert.under = rec[r].programming => rec[r].last = alert.told
        /\ Between(r) => /\ Told(Found(r))
                         /\ alert.under = rec[r].programming => alert.told = Found(r)
    BY DEF TellInv, ToldInv
  <2>9. (Told(Found(r)))' <=> Told(Found(r))
    BY <1>2, <2>1 DEF Told, Healthy
  <2>10. ToldInv(r)'
    BY <1>2, <1>8, <2>1, <2>8, <2>9 DEF ToldInv
  <2> QED BY <2>7, <2>10 DEF TellInv
<1> QED BY <1>9, <1>10

\* What the steps of the refresh have in common: it goes on, or ends.
LEMMA OwnStep ==
  ASSUME IInv, NEW r \in Clients, TellInv(r), NEW next, Go(r, next)
  PROVE  /\ step'[r] = next
         /\ \A p \in Clients \ {r} : step'[p] \in {"idle", "read"}
         /\ next # "idle" => rec'[r] = rec[r] /\ data'[r] = data[r] /\ Found(r)' = Found(r)
<1>1. step' = [step EXCEPT ![r] = next] /\ (next # "idle" => UNCHANGED <<rec, data>>)
  BY DEF Go
<1>2. step'[r] = next /\ \A p \in Clients \ {r} : step'[p] = step[p]
  BY <1>1 DEF IInv, TypeOK
<1>3. \A p \in Clients \ {r} : step[p] \in {"idle", "read"}
  BY DEF TellInv, SoleInv
<1> QED BY <1>1, <1>2, <1>3 DEF Found, Signature

\* The subscription is read: what it says was told is what was told.
LEMMA TellRead ==
  ASSUME IInv, NEW r \in Clients, TellInv(r), ReadRecord(r)
  PROVE  TellInv(r)'
<1>1. /\ step[r] = "idle" /\ missed[r] = {} /\ ~Between(r)
      /\ UNCHANGED <<feed, alert, sub, data, missed>>
  BY DEF ReadRecord, TellInv, SoleInv, Between
<1>2. /\ step'[r] = "read" /\ rec'[r] = sub
      /\ \A p \in Clients \ {r} : step'[p] = step[p]
  BY DEF IInv, TypeOK, ReadRecord
<1>3. /\ \A p \in Clients \ {r} : step[p] \in {"idle", "read"}
      /\ alert.under <= sub.programming
      /\ feed.code = "none" => alert = NoAlert
      /\ sub.last # NoSignature => Told(sub.last)
      /\ alert.under # 0 /\ alert.under = sub.programming => sub.last = alert.told
  BY <1>1 DEF TellInv, SoleInv, ToldInv
<1>4. SoleInv(r)'
  BY <1>1, <1>2, <1>3 DEF SoleInv
<1>5. ToldInv(r)'
  BY <1>1, <1>2, <1>3 DEF ToldInv, Between, Told, Healthy
<1> QED BY <1>4, <1>5 DEF TellInv

\* The source is read: what the refresh found is some data, or a failure.
LEMMA TellFetch ==
  ASSUME IInv, NEW r \in Clients, TellInv(r), Fetch(r)
  PROVE  TellInv(r)'
<1>1. /\ step[r] = "read" /\ rec[r].programming # 0 /\ ~Between(r)
      /\ UNCHANGED <<feed, alert, sub, rec>>
  BY DEF Fetch, Between
<1>2. /\ step'[r] = "save feed" /\ data'[r] = Refreshed /\ missed'[r] = missed[r] \ {"feed"}
      /\ \A p \in Clients \ {r} : step'[p] = step[p]
  BY DEF IInv, TypeOK, Fetch
<1>3. Refreshed.code # "none"
  BY DEF Refreshed, Received
<1>4. /\ \A p \in Clients \ {r} : step[p] \in {"idle", "read"}
      /\ missed[r] \subseteq {"subscription"}
      /\ "subscription" \in missed[r] =>
           /\ sub.last = NoSignature
           /\ rec[r].programming < sub.programming /\ alert.under < sub.programming
      /\ alert.under <= sub.programming
      /\ feed.code = "none" => alert = NoAlert
      /\ sub.last # NoSignature => Told(sub.last)
      /\ alert.under # 0 /\ alert.under = sub.programming => sub.last = alert.told
      /\ alert.under # 0 /\ alert.under = rec[r].programming => rec[r].last = alert.told
  BY <1>1 DEF TellInv, SoleInv, ToldInv
<1>5. SoleInv(r)'
  BY <1>1, <1>2, <1>3, <1>4 DEF SoleInv
<1>6. ToldInv(r)'
  BY <1>1, <1>2, <1>4 DEF ToldInv, Between, Told, Healthy
<1> QED BY <1>5, <1>6 DEF TellInv

\* The data received is saved: it is told, or needs deciding.
LEMMA TellSaveFeed ==
  ASSUME IInv, NEW r \in Clients, TellInv(r), SaveFeed(r)
  PROVE  TellInv(r)'
<1> DEFINE next == IF rec[r].last = Found(r) THEN "save subscription" ELSE "decide"
<1>1. /\ step[r] = "save feed" /\ ~Between(r) /\ feed' = data[r]
      /\ Go(r, next) /\ Outdate(r, "feed", next) /\ UNCHANGED <<alert, sub>>
  BY DEF SaveFeed, Between, Found
<1>2. /\ next # "idle" /\ next \in {"save subscription", "decide"}
      /\ next = "save subscription" <=> rec[r].last = Found(r)
  OBVIOUS
<1> HIDE DEF next
<1>3. /\ step'[r] = next /\ rec'[r] = rec[r] /\ data'[r] = data[r] /\ Found(r)' = Found(r)
      /\ \A p \in Clients \ {r} : step'[p] \in {"idle", "read"}
  BY <1>1, <1>2, OwnStep
<1>4. missed'[r] = missed[r]
  BY <1>1, <1>2 DEF Outdate
<1>5. ~Between(r)'
  BY <1>2, <1>3 DEF Between
<1>6. /\ missed[r] \subseteq {"subscription"}
      /\ "subscription" \in missed[r] =>
           /\ sub.last = NoSignature
           /\ rec[r].programming < sub.programming /\ alert.under < sub.programming
      /\ data[r].code # "none" /\ rec[r].programming # 0
      /\ alert.under <= sub.programming
      /\ sub.last # NoSignature => Told(sub.last)
      /\ alert.under # 0 /\ alert.under = sub.programming => sub.last = alert.told
      /\ alert.under # 0 /\ alert.under = rec[r].programming => rec[r].last = alert.told
  BY <1>1 DEF TellInv, SoleInv, ToldInv
<1>7. SoleInv(r)'
  BY <1>1, <1>2, <1>3, <1>4, <1>6 DEF SoleInv
<1>8. ToldInv(r)'
  BY <1>1, <1>2, <1>3, <1>5, <1>6 DEF ToldInv, Told, Healthy
<1> QED BY <1>7, <1>8 DEF TellInv

\* The refresh decides: what it does not tell is the first healthy data.
LEMMA TellDecide ==
  ASSUME IInv, NEW r \in Clients, TellInv(r), Decide(r)
  PROVE  TellInv(r)'
<1> DEFINE next == IF MustTell(Found(r), rec[r].notify) THEN "save alert" ELSE "save subscription"
<1>1. /\ step[r] = "decide" /\ ~Between(r) /\ UNCHANGED <<feed, alert, sub>>
      /\ Go(r, next) /\ missed' = [missed EXCEPT ![r] = @ \ {"alert"}]
  BY DEF Decide, Between, Found
<1>2. /\ next # "idle" /\ next \in {"save subscription", "save alert"}
      /\ next = "save subscription" => Healthy(Found(r)) /\ alert = NoAlert
  BY DEF MustTell
<1> HIDE DEF next
<1>3. /\ step'[r] = next /\ rec'[r] = rec[r] /\ data'[r] = data[r] /\ Found(r)' = Found(r)
      /\ \A p \in Clients \ {r} : step'[p] \in {"idle", "read"}
  BY <1>1, <1>2, OwnStep
<1>4. missed'[r] = missed[r] \ {"alert"}
  BY <1>1 DEF IInv, TypeOK
<1>5. /\ missed[r] \subseteq {"subscription"}
      /\ "subscription" \in missed[r] =>
           /\ sub.last = NoSignature
           /\ rec[r].programming < sub.programming /\ alert.under < sub.programming
      /\ data[r].code # "none" /\ rec[r].programming # 0
      /\ feed = data[r] /\ rec[r].last # Found(r)
      /\ alert.under <= sub.programming
      /\ feed.code = "none" => alert = NoAlert
      /\ sub.last # NoSignature => Told(sub.last)
      /\ alert.under # 0 /\ alert.under = sub.programming => sub.last = alert.told
      /\ alert.under # 0 /\ alert.under = rec[r].programming => rec[r].last = alert.told
  BY <1>1 DEF TellInv, SoleInv, ToldInv
<1>6. SoleInv(r)'
  BY <1>1, <1>2, <1>3, <1>4, <1>5 DEF SoleInv
<1>7. Between(r)' =>
        /\ Told(Found(r))'
        /\ alert'.under = rec'[r].programming => alert'.told = Found(r)'
  <2>1. CASE next = "save subscription"
    <3>1. Healthy(Found(r)) /\ alert = NoAlert /\ alert.under = 0
      <4>1. Healthy(Found(r)) /\ alert = NoAlert
        BY <1>2, <2>1
      <4>2. NoAlert.under = 0
        BY DEF NoAlert
      <4> QED BY <4>1, <4>2
    <3> QED BY <1>1, <1>3, <1>5, <3>1 DEF Told, Healthy
  <2>2. CASE next # "save subscription"
    BY <1>3, <2>2 DEF Between
  <2> QED BY <2>1, <2>2
<1>8. ToldInv(r)'
  BY <1>1, <1>3, <1>5, <1>7 DEF ToldInv, Told, Healthy
<1> QED BY <1>6, <1>8 DEF TellInv

\* The alert is saved: it says what the refresh found.
LEMMA TellSaveAlert ==
  ASSUME IInv, NEW r \in Clients, TellInv(r), SaveAlert(r)
  PROVE  TellInv(r)'
<1>1. /\ step[r] = "save alert" /\ ~Between(r) /\ UNCHANGED <<feed, sub>>
      /\ alert' = [told |-> Found(r), under |-> rec[r].programming]
      /\ Go(r, "save subscription") /\ Outdate(r, "alert", "save subscription")
  BY DEF SaveAlert, Between, Found
<1>2. /\ step'[r] = "save subscription" /\ rec'[r] = rec[r] /\ data'[r] = data[r]
      /\ Found(r)' = Found(r)
      /\ \A p \in Clients \ {r} : step'[p] \in {"idle", "read"}
  BY <1>1, OwnStep
<1>3. missed'[r] = missed[r]
  BY <1>1 DEF Outdate
<1>4. /\ missed[r] \subseteq {"subscription"}
      /\ "subscription" \in missed[r] =>
           /\ sub.last = NoSignature
           /\ rec[r].programming < sub.programming /\ alert.under < sub.programming
      /\ data[r].code # "none" /\ rec[r].programming # 0
      /\ feed = data[r] /\ rec[r].last # Found(r)
  BY <1>1 DEF TellInv, SoleInv
<1>5. alert'.told = Found(r) /\ alert'.under = rec[r].programming
  BY <1>1
<1>6. sub.programming \in Nat /\ rec[r].programming \in Nat
  BY Programmings DEF IInv
<1>7. alert'.under <= sub'.programming
  <2>1. CASE "subscription" \in missed[r]
    <3>1. rec[r].programming < sub.programming
      BY <1>4, <2>1
    <3>2. rec[r].programming <= sub.programming
      BY <1>6, <3>1
    <3> QED BY <1>1, <1>5, <3>2
  <2>2. CASE "subscription" \notin missed[r]
    <3>1. rec[r] = sub
      BY <1>1, <2>2 DEF IInv, FreshInv
    <3>2. rec[r].programming <= sub.programming
      BY <1>6, <3>1
    <3> QED BY <1>1, <1>5, <3>2
  <2> QED BY <2>1, <2>2
<1>8. SoleInv(r)'
  BY <1>1, <1>2, <1>3, <1>4, <1>5, <1>7 DEF SoleInv
<1>9. Between(r)'
  BY <1>2, <1>4 DEF Between
<1>10. ToldInv(r)'
  BY <1>2, <1>5, <1>9 DEF ToldInv, Told
<1> QED BY <1>8, <1>10 DEF TellInv

\* The subscription is saved: it says what was told.
LEMMA TellSaveSubscription ==
  ASSUME IInv, NEW r \in Clients, TellInv(r), SaveSubscription(r)
  PROVE  TellInv(r)'
<1>1. /\ step[r] = "save subscription" /\ UNCHANGED <<feed, alert>>
      /\ "subscription" \notin missed[r] /\ sub' = [rec[r] EXCEPT !.last = Found(r)]
      /\ Go(r, "idle") /\ Outdate(r, "subscription", "idle")
  BY DEF SaveSubscription, Found
<1>2. step'[r] = "idle" /\ \A p \in Clients \ {r} : step'[p] \in {"idle", "read"}
  BY <1>1, OwnStep
<1>3. missed'[r] = {}
  BY <1>1 DEF Outdate
<1>4. rec[r] = sub /\ rec[r] \in Subscriptions
  BY <1>1, Programmings DEF IInv, FreshInv
<1>5. sub'.last = Found(r) /\ sub'.programming = sub.programming
  BY <1>1, <1>4 DEF Subscriptions
<1>6. /\ data[r].code # "none" /\ rec[r].programming # 0 /\ feed = data[r]
      /\ alert.under <= sub.programming
      /\ feed.code = "none" => alert = NoAlert
  BY <1>1 DEF TellInv, SoleInv
<1>7. SoleInv(r)'
  BY <1>1, <1>2, <1>3, <1>5, <1>6 DEF SoleInv
<1>8. Told(Found(r))
  <2>1. CASE Between(r)
    BY <2>1 DEF TellInv, ToldInv
  <2>2. CASE ~Between(r)
    <3>1. sub.last = Found(r)
      BY <1>1, <1>4, <2>2 DEF Between
    <3>2. Found(r) # NoSignature
      BY <1>6 DEF Found, Signature, NoSignature
    <3> QED BY <2>2, <3>1, <3>2 DEF TellInv, ToldInv
  <2> QED BY <2>1, <2>2
<1>9. alert.under # 0 /\ alert.under = sub.programming => alert.told = Found(r)
  <2>1. CASE Between(r)
    BY <1>4, <2>1 DEF TellInv, ToldInv
  <2>2. CASE ~Between(r)
    <3>1. sub.last = Found(r)
      BY <1>1, <1>4, <2>2 DEF Between
    <3> QED BY <2>2, <3>1 DEF TellInv, ToldInv
  <2> QED BY <2>1, <2>2
<1>10. ToldInv(r)'
  BY <1>1, <1>2, <1>5, <1>8, <1>9 DEF ToldInv, Between, Told, Healthy
<1> QED BY <1>7, <1>10 DEF TellInv

\* The refresh conflicts: a programming was saved since it read, of which
\* nothing is told.
LEMMA TellConflict ==
  ASSUME IInv, NEW r \in Clients, TellInv(r), Conflict(r)
  PROVE  TellInv(r)'
<1>1. /\ UNCHANGED <<feed, alert, sub>> /\ Go(r, "idle")
      /\ missed' = [missed EXCEPT ![r] = {}] /\ Saves(r) \in missed[r]
  BY DEF Conflict
<1>2. step'[r] = "idle" /\ \A p \in Clients \ {r} : step'[p] \in {"idle", "read"}
  BY <1>1, OwnStep
<1>3. missed'[r] = {}
  BY <1>1 DEF IInv, TypeOK
<1>4. /\ "subscription" \in missed[r]
      /\ sub.last = NoSignature /\ alert.under < sub.programming
      /\ alert.under <= sub.programming
      /\ feed.code = "none" => alert = NoAlert
  BY <1>1 DEF TellInv, SoleInv
<1>5. alert.under # sub.programming
  BY <1>4, Programmings DEF IInv
<1>6. SoleInv(r)'
  BY <1>1, <1>2, <1>3, <1>4 DEF SoleInv
<1>7. ToldInv(r)'
  BY <1>1, <1>2, <1>4, <1>5 DEF ToldInv, Between
<1> QED BY <1>6, <1>7 DEF TellInv

\* What the other clients do: read the record to programme it, and give up.
LEMMA TellAside ==
  ASSUME IInv, NEW r \in Clients, TellInv(r), NEW p \in Clients, p # r,
         ReadRecord(p) \/ Conflict(p) \/ Crash(p)
  PROVE  TellInv(r)'
<1>1. CASE ReadRecord(p)
  <2>1. /\ UNCHANGED <<feed, alert, sub>> /\ data' = data /\ missed' = missed
        /\ step' = [step EXCEPT ![p] = "read"] /\ rec' = [rec EXCEPT ![p] = sub]
    BY <1>1 DEF ReadRecord
  <2>2. /\ step'[r] = step[r] /\ rec'[r] = rec[r]
        /\ \A q \in Clients \ {r} : step'[q] \in {step[q], "read"}
    BY <2>1 DEF IInv, TypeOK
  <2>3. \A q \in Clients \ {r} : step[q] \in {"idle", "read"}
    BY DEF TellInv, SoleInv
  <2> QED BY <2>1, <2>2, <2>3, AsideKeeps
<1>2. CASE Conflict(p) \/ Crash(p)
  <2>1. /\ UNCHANGED <<feed, alert, sub>> /\ missed' = [missed EXCEPT ![p] = {}]
        /\ step' = [step EXCEPT ![p] = "idle"] /\ rec' = [rec EXCEPT ![p] = NoSub]
        /\ data' = [data EXCEPT ![p] = NoFeed]
    BY <1>2 DEF Conflict, Crash, Go
  <2>2. /\ step'[r] = step[r] /\ rec'[r] = rec[r] /\ data'[r] = data[r] /\ missed'[r] = missed[r]
        /\ \A q \in Clients \ {r} : step'[q] \in {step[q], "idle"}
    BY <2>1 DEF IInv, TypeOK
  <2>3. \A q \in Clients \ {r} : step[q] \in {"idle", "read"}
    BY DEF TellInv, SoleInv
  <2> QED BY <2>1, <2>2, <2>3, AsideKeeps
<1> QED BY <1>1, <1>2

\* The file is replaced, breaks or ages; or nothing happens.
LEMMA TellSource ==
  ASSUME IInv, NEW r \in Clients, TellInv(r), Publish \/ BreakOrRepair \/ Age \/ UNCHANGED vars
  PROVE  TellInv(r)'
<1>1. UNCHANGED <<feed, alert, sub>> /\ UNCHANGED <<step, rec, data, missed>>
  BY DEF Publish, BreakOrRepair, Age, vars, client
<1>2. \A q \in Clients \ {r} : step[q] \in {"idle", "read"}
  BY DEF TellInv, SoleInv
<1> QED BY <1>1, <1>2, AsideKeeps

\* The only refresh that there is keeps what it tells and what it says it told
\* together.
LEMMA TellHolds ==
  ASSUME NEW r \in Clients, Refreshers = {r}, r \notin Crashing
  PROVE  Spec => [](IInv /\ TellInv(r))
<1>1. Init => IInv /\ TellInv(r)
  BY InitInv, TellInit
<1>2. ASSUME IInv, TellInv(r), [Next]_vars
      PROVE  (IInv /\ TellInv(r))'
  <2>1. IInv'
    BY <1>2, NextInv
  <2>2. ASSUME NEW p \in Clients, Refresh(p) \/ Crash(p)
        PROVE  TellInv(r)'
    <3>1. CASE p = r
      <4>1. Refresh(r)
        BY <2>2, <3>1 DEF Crash
      <4> QED BY <1>2, <4>1, TellRead, TellFetch, TellSaveFeed, TellDecide, TellSaveAlert,
                 TellSaveSubscription, TellConflict DEF Refresh
    <3>2. CASE p # r
      <4>1. step[p] \in {"idle", "read"} /\ p \notin Refreshers
        BY <1>2, <3>2 DEF TellInv, SoleInv
      <4>2. ReadRecord(p) \/ Conflict(p) \/ Crash(p)
        BY <2>2, <4>1 DEF Refresh, Fetch, SaveFeed, Decide, SaveAlert, SaveSubscription
      <4> QED BY <1>2, <3>2, <4>2, TellAside
    <3> QED BY <3>1, <3>2
  <2>3. TellInv(r)'
    BY <1>2, <2>2, SettingsKeep, TellSource DEF Next
  <2> QED BY <2>1, <2>3
<1> QED BY <1>1, <1>2, PTL DEF Spec

\* With one client refreshing and not dying, once the subscription says that
\* the owner knows about the state of the source, that is what the alert says:
\* whatever programmings are saved meanwhile and whatever happens to the file.
THEOREM AlertSaysTheState ==
  ASSUME NEW r \in Clients, Refreshers = {r}, r \notin Crashing
  PROVE  Spec => []AlertIsCurrent
<1>1. ASSUME IInv, TellInv(r)
      PROVE  AlertIsCurrent
  <2> SUFFICES ASSUME Quiet, sub.last = Signature(feed, sub)
               PROVE  Told(sub.last)
    BY DEF AlertIsCurrent, Told
  <2>1. ~Between(r)
    BY DEF Quiet, Between
  <2>2. CASE sub.last # NoSignature
    BY <1>1, <2>1, <2>2 DEF TellInv, ToldInv
  <2>3. CASE sub.last = NoSignature
    <3>1. feed.code = "none"
      BY <2>3 DEF Signature, NoSignature
    <3>2. alert = NoAlert
      BY <1>1, <3>1 DEF TellInv, SoleInv
    <3> QED BY <2>3, <3>2 DEF Told, NoAlert
  <2> QED BY <2>2, <2>3
<1> QED BY <1>1, TellHolds, PTL

\* With one client refreshing and not dying, an alert is saved only when it
\* differs from the one standing: the same state is not told twice under one
\* programming.
THEOREM AlertsAreNotRepeated ==
  ASSUME NEW r \in Clients, Refreshers = {r}, r \notin Crashing
  PROVE  Spec => OneAlertPerChange
<1>1. ASSUME IInv, TellInv(r), NEW p \in Clients, SaveAlert(p)
      PROVE  alert' # alert
  <2>1. p = r
    BY <1>1 DEF SaveAlert, TellInv, SoleInv
  <2>2. /\ step[r] = "save alert" /\ rec[r].programming # 0 /\ ~Between(r)
        /\ rec[r].last # Found(r)
        /\ alert'.told = Found(r) /\ alert'.under = rec[r].programming
    BY <1>1, <2>1 DEF SaveAlert, Found, Between, TellInv, SoleInv
  <2>3. alert.under = rec[r].programming => rec[r].last = alert.told
    BY <1>1, <2>2 DEF TellInv, ToldInv
  <2> QED BY <2>2, <2>3
<1>2. ASSUME IInv, TellInv(r), [Next]_vars
      PROVE  [\A p \in Clients : SaveAlert(p) => alert' # alert]_vars
  BY <1>1, <1>2
<1> QED BY <1>2, TellHolds, PTL DEF Spec, OneAlertPerChange
=============================================================================
