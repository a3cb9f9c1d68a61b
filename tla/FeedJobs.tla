------------------------------ MODULE FeedJobs ------------------------------
(***************************************************************************)
(* A periodic source of an account: refresh_subscription                   *)
(* (operations_jobs.py), run by the worker of the application and by the   *)
(* button of the page (operations_ui.py), which also saves the programming.*)
(*                                                                         *)
(* The refresh keeps three working records of one owner, each saved on its *)
(* own with the version it was read at: the data received, the standing    *)
(* alert and the subscription, whose last_signature says what the owner    *)
(* has been told.  A save whose record somebody else saved since it was    *)
(* read raises, and the rest of the refresh is not done.                   *)
(*                                                                         *)
(* Left out: the interval (the worker may look at any time), the monitor   *)
(* of drift (one more component of the signature) and the encryption.      *)
(***************************************************************************)
EXTENDS Naturals

CONSTANTS
  Worker,      \* the process of operations_worker.py
  Sessions,    \* sessions of the owner's page
  Refreshers,  \* the clients that refresh: the worker, sessions that press
  Crashing,    \* the clients that may die
  MaxContent,  \* contents of the source in this model
  MaxAged,     \* contents that get older than max_age_days in this model
  MaxSaves     \* programmings saved in this model

Clients == Sessions \cup {Worker}
Records == {"feed", "alert", "subscription"}

ASSUME ClientsAssumption ==
  Worker \notin Sessions /\ Refreshers \subseteq Clients /\ Crashing \subseteq Clients
ASSUME BoundsAssumption ==
  MaxContent \in Nat \ {0} /\ MaxAged \in Nat /\ MaxSaves \in Nat

VARIABLES
  source,   \* the approved file: its newest content, and whether it can be read
  aged,     \* contents up to this one are older than max_age_days
  feed,     \* record: last good content (0: none), status, stale
  alert,    \* record: the signature told, and the programming it was told under
  sub,      \* record: programming (0: none), its options, last_signature
  step,     \* per client: the next step of its refresh
  rec,      \* per client: the subscription it read
  data,     \* per client: the feed it is about to save
  missed    \* per client: records saved by others since it read them

client == <<step, rec, data, missed>>
vars == <<source, aged, feed, alert, sub, client>>

NoSignature == [code |-> "none", stale |-> FALSE, content |-> 0]
NoFeed == [content |-> 0, code |-> "none", stale |-> FALSE]
NoAlert == [told |-> NoSignature, under |-> 0]
NoSub == [programming |-> 0, enabled |-> FALSE, notify |-> FALSE, last |-> NoSignature]

Init ==
  /\ source = [content |-> 1, broken |-> FALSE]
  /\ aged = 0
  /\ feed = NoFeed
  /\ alert = NoAlert
  /\ sub = NoSub
  /\ step = [p \in Clients |-> "idle"]
  /\ rec = [p \in Clients |-> NoSub]
  /\ data = [p \in Clients |-> NoFeed]
  /\ missed = [p \in Clients |-> {}]

\* The signature of what a refresh under the programming r found.
Signature(f, r) ==
  [code |-> f.code, stale |-> f.stale, content |-> IF r.notify THEN f.content ELSE 0]

Healthy(signature) == signature.code = "AVAILABLE" /\ ~signature.stale

\* p goes on to its next step; a client that is done forgets what it read.
Go(p, next) ==
  /\ step' = [step EXCEPT ![p] = next]
  /\ IF next = "idle" THEN rec' = [rec EXCEPT ![p] = NoSub] /\ data' = [data EXCEPT ![p] = NoFeed]
                      ELSE UNCHANGED <<rec, data>>

\* The versions of the clients that have read record k, once p saves it.
Outdate(p, k, next) ==
  missed' = [q \in Clients |->
    IF q = p THEN IF next = "idle" THEN {} ELSE missed[p]
    ELSE IF step[q] = "idle" THEN {} ELSE missed[q] \cup {k}]

----------------------------------------------------------------------------
\* working_records of the subscriptions: by the tick, or by the page on a press.
ReadRecord(p) ==
  /\ step[p] = "idle"
  /\ p = Worker => sub.enabled
  /\ p \notin Refreshers => sub.programming < MaxSaves
  /\ step' = [step EXCEPT ![p] = "read"]
  /\ rec' = [rec EXCEPT ![p] = sub]
  /\ UNCHANGED <<source, aged, feed, alert, sub, data, missed>>

\* "Guardar programación": the record is written anew, without last_signature.
SaveSettings(p, enabled, notify) ==
  /\ p \in Sessions
  /\ step[p] = "read"
  /\ sub.programming < MaxSaves
  /\ "subscription" \notin missed[p]
  /\ sub' = [programming |-> sub.programming + 1, enabled |-> enabled, notify |-> notify,
             last |-> NoSignature]
  /\ Go(p, "idle")
  /\ Outdate(p, "subscription", "idle")
  /\ UNCHANGED <<source, aged, feed, alert>>

Received(content, code) ==
  [content |-> content, code |-> code, stale |-> content <= aged]

\* Mutant: a failure forgets the data.
Refreshed_Forgets ==
  IF source.broken THEN Received(0, "REFRESH_FAILED")
                   ELSE Received(source.content, "AVAILABLE")

\* What is saved after the source was read, or could not be.
Refreshed ==
  IF source.broken THEN Received(feed.content, "REFRESH_FAILED")
                   ELSE Received(source.content, "AVAILABLE")

\* The cache and then the file are read.  Nobody who saves the cache in between
\* lets this refresh get further than its own save, so they are one step.
Fetch(p) ==
  /\ p \in Refreshers
  /\ step[p] = "read"
  /\ rec[p].programming # 0
  /\ step' = [step EXCEPT ![p] = "save feed"]
  /\ data' = [data EXCEPT ![p] = Refreshed]
  /\ missed' = [missed EXCEPT ![p] = @ \ {"feed"}]
  /\ UNCHANGED <<source, aged, feed, alert, sub, rec>>

SaveFeed(p) ==
  LET next == IF rec[p].last = Signature(data[p], rec[p]) THEN "save subscription" ELSE "decide"
  IN  /\ step[p] = "save feed"
      /\ "feed" \notin missed[p]
      /\ feed' = data[p]
      /\ Go(p, next)
      /\ Outdate(p, "feed", next)
      /\ UNCHANGED <<source, aged, alert, sub>>

\* Mutant: only problems are told, not the end of one.
MustTell_ProblemsOnly(signature, notify) ==
  ~Healthy(signature) \/ notify

\* A first healthy refresh is not told, unless changes of content are.
MustTell(signature, notify) ==
  ~Healthy(signature) \/ alert # NoAlert \/ notify

\* Mutant: nothing is told of the first refresh of a programming.
Decide_SilentFirst(p) ==
  /\ step[p] = "decide"
  /\ Go(p, IF rec[p].last # NoSignature /\ MustTell(Signature(data[p], rec[p]), rec[p].notify)
           THEN "save alert" ELSE "save subscription")
  /\ missed' = [missed EXCEPT ![p] = @ \ {"alert"}]
  /\ UNCHANGED <<source, aged, feed, alert, sub>>

\* The signature is a new one: the standing alert is read.
Decide(p) ==
  /\ step[p] = "decide"
  /\ Go(p, IF MustTell(Signature(data[p], rec[p]), rec[p].notify)
           THEN "save alert" ELSE "save subscription")
  /\ missed' = [missed EXCEPT ![p] = @ \ {"alert"}]
  /\ UNCHANGED <<source, aged, feed, alert, sub>>

SaveAlert(p) ==
  /\ step[p] = "save alert"
  /\ "alert" \notin missed[p]
  /\ alert' = [told |-> Signature(data[p], rec[p]), under |-> rec[p].programming]
  /\ Go(p, "save subscription")
  /\ Outdate(p, "alert", "save subscription")
  /\ UNCHANGED <<source, aged, feed, sub>>

\* Mutant: the subscription is saved at whatever version it has.
SaveSubscription_Unchecked(p) ==
  /\ step[p] = "save subscription"
  /\ sub' = [rec[p] EXCEPT !.last = Signature(data[p], rec[p])]
  /\ Go(p, "idle")
  /\ Outdate(p, "subscription", "idle")
  /\ UNCHANGED <<source, aged, feed, alert>>

\* Mutant: only the attempt is recorded, not its signature.
SaveSubscription_Forgets(p) ==
  /\ step[p] = "save subscription"
  /\ "subscription" \notin missed[p]
  /\ sub' = rec[p]
  /\ Go(p, "idle")
  /\ Outdate(p, "subscription", "idle")
  /\ UNCHANGED <<source, aged, feed, alert>>

SaveSubscription(p) ==
  /\ step[p] = "save subscription"
  /\ "subscription" \notin missed[p]
  /\ sub' = [rec[p] EXCEPT !.last = Signature(data[p], rec[p])]
  /\ Go(p, "idle")
  /\ Outdate(p, "subscription", "idle")
  /\ UNCHANGED <<source, aged, feed, alert>>

Saves(p) ==
  CASE step[p] = "save feed" -> "feed"
    [] step[p] = "save alert" -> "alert"
    [] OTHER -> "subscription"

\* save_working finds a newer version and raises.
Conflict(p) ==
  /\ step[p] \in {"read", "save feed", "save alert", "save subscription"}
  /\ Saves(p) \in missed[p]
  /\ Go(p, "idle")
  /\ missed' = [missed EXCEPT ![p] = {}]
  /\ UNCHANGED <<source, aged, feed, alert, sub>>

Crash(p) ==
  /\ p \in Crashing
  /\ step[p] # "idle"
  /\ Go(p, "idle")
  /\ missed' = [missed EXCEPT ![p] = {}]
  /\ UNCHANGED <<source, aged, feed, alert, sub>>

----------------------------------------------------------------------------
\* The file is replaced by a newer one, cannot be read, can be read again; time
\* passes.
Publish ==
  /\ source.content < MaxContent
  /\ source' = [source EXCEPT !.content = @ + 1]
  /\ UNCHANGED <<aged, feed, alert, sub, client>>

BreakOrRepair ==
  /\ source' = [source EXCEPT !.broken = ~@]
  /\ UNCHANGED <<aged, feed, alert, sub, client>>

Age ==
  /\ aged < source.content /\ aged < MaxAged
  /\ aged' = aged + 1
  /\ UNCHANGED <<source, feed, alert, sub, client>>

----------------------------------------------------------------------------
Refresh(p) ==
  \/ ReadRecord(p) \/ Fetch(p) \/ SaveFeed(p) \/ Decide(p)
  \/ SaveAlert(p) \/ SaveSubscription(p) \/ Conflict(p)

Next ==
  \/ \E p \in Clients :
       Refresh(p) \/ Crash(p) \/ \E enabled, notify \in BOOLEAN : SaveSettings(p, enabled, notify)
  \/ Publish \/ BreakOrRepair \/ Age

Spec == Init /\ [][Next]_vars

\* operations_worker.py loops for ever, and a tick does not stop half way.
LiveSpec == Spec /\ WF_vars(Refresh(Worker))

----------------------------------------------------------------------------
Signatures == [code : {"none", "AVAILABLE", "REFRESH_FAILED"}, stale : BOOLEAN, content : 0..MaxContent]

\* Available data is some content; data that was never received is stale.
Feeds ==
  {f \in Signatures : f.code = "AVAILABLE" => f.content # 0}

Subscriptions ==
  [programming : 0..MaxSaves, enabled : BOOLEAN, notify : BOOLEAN, last : Signatures]

TypeOK ==
  /\ source \in [content : 1..MaxContent, broken : BOOLEAN]
  /\ aged \in 0..MaxAged
  /\ feed \in Feeds
  /\ alert \in [told : Signatures, under : 0..MaxSaves]
  /\ sub \in Subscriptions
  /\ step \in [Clients ->
       {"idle", "read", "save feed", "decide", "save alert", "save subscription"}]
  /\ rec \in [Clients -> Subscriptions]
  /\ data \in [Clients -> Feeds]
  /\ missed \in [Clients -> SUBSET Records]

\* "Un fallo conserva la última entrada válida": neither a failure nor a slower
\* refresh takes the data received back to an older content.
DataNeverGoesBack == [][feed'.content >= feed.content]_vars

\* A refresh that began under an older programming does not bring it back.
ProgrammingIsKept ==
  [][/\ sub'.programming >= sub.programming
     /\ sub'.programming = sub.programming =>
          <<sub'.enabled, sub'.notify>> = <<sub.enabled, sub.notify>>]_vars

Quiet == \A p \in Clients : step[p] = "idle"

\* "Se generan alertas cuando cambia su disponibilidad": once the owner counts
\* as told about the state of the source, that is what the alert says.
AlertIsCurrent ==
  Quiet /\ sub.programming # 0 /\ sub.last = Signature(feed, sub) =>
    \/ alert.told = sub.last
    \/ alert = NoAlert /\ Healthy(sub.last)

\* "Identical failure/staleness state creates one alert, not one per scheduled
\* run": the same state is told again only under another programming.
OneAlertPerChange ==
  [][\A p \in Clients : SaveAlert(p) => alert' # alert]_vars

\* A source that stays unreadable is eventually told to whoever asked for it.
FailureIsTold ==
  <>[](source.broken /\ sub.enabled) => <>[](alert.told.code = "REFRESH_FAILED")
=============================================================================
