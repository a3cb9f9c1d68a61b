------------------------- MODULE PaperStores_proofs -------------------------
(***************************************************************************)
(* The stores of the Paper account, each for any size of its constants.    *)
(*                                                                         *)
(* Part 1, OrderLog: what an owner loads can be read and its fold ends on  *)
(* the newest receipt, for logs of any length.  The two recursive          *)
(* functions, the load and the fold, are unrolled by one row at a time,    *)
(* and the invariant adds                                                  *)
(*   IssuedInOrder   of two receipts of a draft one follows the other;     *)
(*   ClaimedFirst    a row has the intent of its own owner beside it.      *)
(*                                                                         *)
(* Part 2, TrialAlerts: no review silences another alert, and what is      *)
(* shown or reviewed is in the history.  The invariant adds                *)
(*   Marked     what is acknowledged was marked, and was recorded;         *)
(*   Saved      what a run is about to show was saved by it or before it.  *)
(* At the end both are put together as in PaperStores.                     *)
(***************************************************************************)
EXTENDS PaperStores, FiniteSetTheorems, WellFoundedInduction, TLAPS

----------------------------------------------------------------------------
(* Part 1: the log. *)

\* Induction over the naturals, said of a set.
LEMMA NatSetInduction ==
  ASSUME NEW T \in SUBSET Nat, 0 \in T, \A n \in T : n + 1 \in T
  PROVE  T = Nat
<1>1. SUFFICES ASSUME Nat \ T # {} PROVE FALSE
  OBVIOUS
<1>2. PICK x \in Nat \ T : \A y \in Nat \ T : ~(<<y, x>> \in OpToRel(<, Nat))
  BY <1>1, NatLessThanWellFounded, WFMin
<1>3. x # 0 /\ x \in Nat
  OBVIOUS
<1>4. x - 1 \in Nat /\ x - 1 < x
  BY <1>3
<1>5. <<x - 1, x>> \in OpToRel(<, Nat)
  BY <1>3, <1>4 DEF OpToRel
<1>6. x - 1 \in T
  BY <1>2, <1>4, <1>5
<1>7. (x - 1) + 1 = x
  BY <1>3
<1> QED BY <1>6, <1>7, <1>3

\* The rows of an owner are taken one by one.
TakeRow(s, o, F, n) == IF s[n].owner = o THEN Append(F[n - 1], s[n]) ELSE F[n - 1]
Taken(s, o, F) == F = [n \in 0..Len(s) |-> IF n = 0 THEN <<>> ELSE TakeRow(s, o, F, n)]

\* The load of a log is defined: its rows can be taken one by one.
LEMMA TakenExists ==
  ASSUME NEW s, Len(s) \in Nat, NEW o
  PROVE  \E F : Taken(s, o, F)
<1> DEFINE Good(n, F) == F = [i \in 0..n |-> IF i = 0 THEN <<>> ELSE TakeRow(s, o, F, i)]
           T == {n \in Nat : \E F : Good(n, F)}
<1>1. 0 \in T
  <2>1. Good(0, [i \in 0..0 |-> <<>>])
    OBVIOUS
  <2> QED BY <2>1
<1>2. ASSUME NEW n \in T
      PROVE  n + 1 \in T
  <2>1. n \in Nat /\ \E F : Good(n, F)
    OBVIOUS
  <2>2. PICK F : Good(n, F)
    BY <2>1
  <2> DEFINE H == [i \in 0..(n + 1) |-> IF i = 0 THEN <<>> ELSE TakeRow(s, o, F, i)]
  <2>3. \A i \in 0..n : H[i] = F[i]
    BY <2>1, <2>2
  <2>4. \A i \in 1..(n + 1) : i - 1 \in 0..n
    BY <2>1
  <2>5. \A i \in 1..(n + 1) : TakeRow(s, o, F, i) = TakeRow(s, o, H, i)
    <3> HIDE DEF H
    <3> QED BY <2>3, <2>4 DEF TakeRow
  <2>6. \A i \in 0..(n + 1) : i # 0 => i \in 1..(n + 1)
    BY <2>1
  <2>7. Good(n + 1, H)
    BY <2>5, <2>6
  <2> HIDE DEF Good, H
  <2> QED BY <2>1, <2>7
<1>3. T = Nat
  <2> HIDE DEF Good
  <2> QED BY <1>1, <1>2, NatSetInduction
<1>4. Len(s) \in T
  BY <1>3
<1> QED BY <1>4 DEF Taken

\* An appended row is the last one taken, if it is of the owner.
LEMMA LoadAppended ==
  ASSUME NEW R, log \in Seq(R), NEW row \in R, log' = Append(log, row), NEW o
  PROVE  Log!Load(o)' = IF row.owner = o THEN Append(Log!Load(o), row) ELSE Log!Load(o)
<1> DEFINE F == CHOOSE f : Taken(log, o, f)
           G == CHOOSE f : Taken(log', o, f)
           T == {n \in Nat : n <= Len(log) => F[n] = G[n]}
<1>1. Len(log) \in Nat /\ Len(log') = Len(log) + 1 /\ log'[Len(log) + 1] = row
      /\ \A i \in 1..Len(log) : log'[i] = log[i]
  OBVIOUS
<1>2. Taken(log, o, F) /\ Taken(log', o, G)
  <2>1. Len(log) \in Nat /\ Len(log') \in Nat
    BY <1>1
  <2>2. \E f : Taken(log, o, f)
    BY <2>1, TakenExists
  <2>3. \E f : Taken(log', o, f)
    BY <2>1, TakenExists
  <2> QED BY <2>2, <2>3
<1>3. Log!Load(o) = F[Len(log)] /\ Log!Load(o)' = G[Len(log')]
  BY DEF Log!Load, Taken, TakeRow
<1> HIDE DEF F, G
<1>4. 0 \in T
  BY <1>1, <1>2 DEF Taken
<1>5. ASSUME NEW n \in T
      PROVE  n + 1 \in T
  <2> SUFFICES ASSUME n + 1 <= Len(log)
               PROVE  F[n + 1] = G[n + 1]
    OBVIOUS
  <2>1. n \in Nat /\ F[n] = G[n] /\ n + 1 \in 0..Len(log) /\ n + 1 \in 0..Len(log') /\ n + 1 # 0
    BY <1>1
  <2>2. F[n + 1] = TakeRow(log, o, F, n + 1)
    BY <1>2, <2>1 DEF Taken
  <2>3. G[n + 1] = TakeRow(log', o, G, n + 1)
    BY <1>2, <2>1 DEF Taken
  <2>4. log'[n + 1] = log[n + 1] /\ (n + 1) - 1 = n
    BY <1>1, <2>1
  <2> QED BY <2>1, <2>2, <2>3, <2>4 DEF TakeRow
<1>6. T = Nat
  BY <1>4, <1>5, NatSetInduction
<1>7. F[Len(log)] = G[Len(log)]
  BY <1>1, <1>6
<1>8. G[Len(log')] = TakeRow(log', o, G, Len(log) + 1)
  BY <1>1, <1>2 DEF Taken
<1> QED BY <1>1, <1>3, <1>7, <1>8 DEF TakeRow

\* The events are merged one by one.
MergeEvent(s, F, n) == [F[n - 1] EXCEPT ![s[n].draft] = Log!Merge(@, s[n].event)]
Merged(s, F) ==
  F = [n \in 0..Len(s) |-> IF n = 0 THEN [d \in Drafts |-> Log!NoIntent] ELSE MergeEvent(s, F, n)]

\* The fold of a log is defined: its events can be merged one by one.
LEMMA MergedExists ==
  ASSUME NEW s, Len(s) \in Nat
  PROVE  \E F : Merged(s, F)
<1> DEFINE Start == [d \in Drafts |-> Log!NoIntent]
           Good(n, F) == F = [i \in 0..n |-> IF i = 0 THEN Start ELSE MergeEvent(s, F, i)]
           T == {n \in Nat : \E F : Good(n, F)}
<1> HIDE DEF Start
<1>1. 0 \in T
  <2>1. Good(0, [i \in 0..0 |-> Start])
    OBVIOUS
  <2> QED BY <2>1
<1>2. ASSUME NEW n \in T
      PROVE  n + 1 \in T
  <2>1. n \in Nat /\ \E F : Good(n, F)
    OBVIOUS
  <2>2. PICK F : Good(n, F)
    BY <2>1
  <2> DEFINE H == [i \in 0..(n + 1) |-> IF i = 0 THEN Start ELSE MergeEvent(s, F, i)]
  <2>3. \A i \in 0..n : H[i] = F[i]
    BY <2>1, <2>2
  <2>4. \A i \in 1..(n + 1) : i - 1 \in 0..n
    BY <2>1
  <2>5. \A i \in 1..(n + 1) : MergeEvent(s, F, i) = MergeEvent(s, H, i)
    <3> HIDE DEF H
    <3> QED BY <2>3, <2>4 DEF MergeEvent
  <2>6. \A i \in 0..(n + 1) : i # 0 => i \in 1..(n + 1)
    BY <2>1
  <2>7. Good(n + 1, H)
    BY <2>5, <2>6
  <2> HIDE DEF Good, H
  <2> QED BY <2>1, <2>7
<1>3. T = Nat
  <2> HIDE DEF Good
  <2> QED BY <1>1, <1>2, NatSetInduction
<1>4. Len(s) \in T
  BY <1>3
<1> QED BY <1>4 DEF Merged, Start

\* An event at the end is merged last.
LEMMA StatesAppended ==
  ASSUME NEW R, NEW s \in Seq(R), NEW row \in R
  PROVE  Log!OrderStatesOf(Append(s, row))
           = [Log!OrderStatesOf(s) EXCEPT ![row.draft] = Log!Merge(@, row.event)]
<1> DEFINE s2 == Append(s, row)
           F == CHOOSE f : Merged(s, f)
           G == CHOOSE f : Merged(s2, f)
           T == {n \in Nat : n <= Len(s) => F[n] = G[n]}
<1>1. Len(s) \in Nat /\ Len(s2) = Len(s) + 1 /\ s2[Len(s) + 1] = row
      /\ \A i \in 1..Len(s) : s2[i] = s[i]
  OBVIOUS
<1> HIDE DEF s2
<1>2. Merged(s, F) /\ Merged(s2, G)
  BY <1>1, MergedExists
<1>3. Log!OrderStatesOf(s) = F[Len(s)] /\ Log!OrderStatesOf(s2) = G[Len(s2)]
  BY DEF Log!OrderStatesOf, Merged, MergeEvent
<1> HIDE DEF F, G
<1>4. 0 \in T
  BY <1>1, <1>2 DEF Merged
<1>5. ASSUME NEW n \in T
      PROVE  n + 1 \in T
  <2> SUFFICES ASSUME n + 1 <= Len(s)
               PROVE  F[n + 1] = G[n + 1]
    OBVIOUS
  <2>1. n \in Nat /\ F[n] = G[n] /\ n + 1 \in 0..Len(s) /\ n + 1 \in 0..Len(s2) /\ n + 1 # 0
    BY <1>1
  <2>2. F[n + 1] = MergeEvent(s, F, n + 1)
    BY <1>2, <2>1 DEF Merged
  <2>3. G[n + 1] = MergeEvent(s2, G, n + 1)
    BY <1>2, <2>1 DEF Merged
  <2>4. s2[n + 1] = s[n + 1] /\ (n + 1) - 1 = n
    BY <1>1, <2>1
  <2> QED BY <2>1, <2>2, <2>3, <2>4 DEF MergeEvent
<1>6. T = Nat
  BY <1>4, <1>5, NatSetInduction
<1>7. F[Len(s)] = G[Len(s)]
  BY <1>1, <1>6
<1>8. G[Len(s2)] = MergeEvent(s2, G, Len(s) + 1)
  BY <1>1, <1>2 DEF Merged
<1> QED BY <1>1, <1>3, <1>7, <1>8 DEF MergeEvent, s2

\* Nothing is loaded of an empty table.
LEMMA NothingIsLoaded ==
  ASSUME log = <<>>, NEW o
  PROVE  Log!Load(o) = <<>> /\ Log!OrderStatesOf(<<>>) = [d \in Drafts |-> Log!NoIntent]
<1>1. Len(log) = 0 /\ Len(<<>>) = 0
  OBVIOUS
<1>2. PICK F : Taken(log, o, F)
  BY <1>1, TakenExists
<1>3. Taken(log, o, CHOOSE f : Taken(log, o, f))
  BY <1>2
<1>4. Log!Load(o) = (CHOOSE f : Taken(log, o, f))[Len(log)]
  BY DEF Log!Load, Taken, TakeRow
<1>5. \E f : Merged(<<>>, f)
  BY <1>1, MergedExists
<1>6. Merged(<<>>, CHOOSE f : Merged(<<>>, f))
  BY <1>5
<1>7. Log!OrderStatesOf(<<>>) = (CHOOSE f : Merged(<<>>, f))[Len(<<>>)]
  BY DEF Log!OrderStatesOf, Merged, MergeEvent
<1> QED BY <1>1, <1>3, <1>4, <1>6, <1>7 DEF Taken, Merged

\* Folding one more event keeps the newest receipt of those seen.
LEMMA MergeIsNewest ==
  ASSUME NEW S \in SUBSET Log!Issuable,
         \A q, r \in S : Log!Follows(q, r) \/ Log!Follows(r, q),
         NEW known \in SUBSET S, NEW st, NEW ev,
         Log!HasReceipt(st) <=> known # {},
         Log!HasReceipt(st) => st.rcpt \in known /\ \A r \in known : Log!Follows(r, st.rcpt),
         Log!HasReceipt(ev) => ev.rcpt \in S /\ ev = Log!Confirmed(ev.rcpt)
  PROVE  LET new == Log!Merge(st, ev)
             now == known \cup (IF Log!HasReceipt(ev) THEN {ev.rcpt} ELSE {})
         IN  /\ Log!HasReceipt(new) <=> now # {}
             /\ Log!HasReceipt(new) => new.rcpt \in now /\ \A r \in now : Log!Follows(r, new.rcpt)
<1> DEFINE new == Log!Merge(st, ev)
           now == known \cup (IF Log!HasReceipt(ev) THEN {ev.rcpt} ELSE {})
<1> SUFFICES /\ Log!HasReceipt(new) <=> now # {}
             /\ Log!HasReceipt(new) => new.rcpt \in now /\ \A r \in now : Log!Follows(r, new.rcpt)
  OBVIOUS
<1>1. CASE ~Log!HasReceipt(st)
  <2>1. new = ev /\ known = {}
    BY <1>1 DEF Log!Merge
  <2>2. ASSUME Log!HasReceipt(ev)
        PROVE  Log!Follows(ev.rcpt, ev.rcpt)
    BY <2>2
  <2> QED BY <2>1, <2>2
<1>2. CASE Log!HasReceipt(st) /\ ~Log!HasReceipt(ev)
  BY <1>2 DEF Log!Merge
<1>3. CASE Log!HasReceipt(st) /\ Log!HasReceipt(ev) /\ Log!Stale(st.rcpt, ev.rcpt)
  <2>1. new = st
    BY <1>3 DEF Log!Merge
  <2>2. st.rcpt \in S /\ ev.rcpt \in S /\ st.rcpt \in Log!Issuable /\ ev.rcpt \in Log!Issuable
    BY <1>3
  <2>3. ~Log!Follows(st.rcpt, ev.rcpt)
    BY <1>3, <2>2 DEF Log!Follows, Log!Stale, Log!Issuable, Log!Receipts, Log!Statuses, Log!Terminal
  <2>4. Log!Follows(ev.rcpt, st.rcpt)
    BY <2>2, <2>3
  <2> QED BY <1>3, <2>1, <2>4
<1>4. CASE Log!HasReceipt(st) /\ Log!HasReceipt(ev) /\ ~Log!Stale(st.rcpt, ev.rcpt)
  <2> DEFINE at == ev.rcpt.at \/ (st.rcpt.at /\ ev.rcpt.status = "filled")
             boosted == [ev.rcpt EXCEPT !.at = at]
  <2>1. new = Log!Confirmed([ev.rcpt EXCEPT !.at = @ \/ (st.rcpt.at /\ ev.rcpt.status = "filled")])
    BY <1>4 DEF Log!Merge
  <2>2. new.rcpt = boosted /\ Log!HasReceipt(new)
    BY <2>1 DEF Log!Confirmed, Log!HasReceipt
  <2>3. st.rcpt \in S /\ ev.rcpt \in S /\ st.rcpt \in Log!Issuable /\ ev.rcpt \in Log!Issuable
    BY <1>4
  <2> USE DEF Log!Issuable, Log!Receipts, Log!Statuses, Log!Terminal
  <2>4. boosted \in {st.rcpt, ev.rcpt}
    BY <1>4, <2>3 DEF Log!Stale
  <2>5. Log!Follows(st.rcpt, boosted) /\ Log!Follows(ev.rcpt, boosted)
    BY <1>4, <2>3, <2>4 DEF Log!Stale, Log!Follows
  <2>6. boosted \in S /\ boosted \in Log!Issuable
    BY <2>3, <2>4
  <2>7. ASSUME NEW r \in known
        PROVE  Log!Follows(r, boosted)
    <3>1. Log!Follows(r, st.rcpt) /\ r \in Log!Issuable
      BY <1>4
    <3> HIDE DEF boosted
    <3> QED BY <2>3, <2>5, <2>6, <3>1 DEF Log!Follows
  <2> QED BY <1>4, <2>2, <2>4, <2>5, <2>7
<1> QED BY <1>1, <1>2, <1>3, <1>4


----------------------------------------------------------------------------
(* The invariant of the log. *)

Events == {Log!Intent, Log!Unknown, Log!Rejected} \cup {Log!Confirmed(r) : r \in Log!Issuable}
LogRows == [owner : Owners, draft : Drafts, event : Events]
ReceiptsOf(o, d) ==
  {r.event.rcpt : r \in {q \in Log!Rows : q.owner = o /\ q.draft = d /\ Log!HasReceipt(q.event)}}

LogTypes ==
  /\ log \in Seq(LogRows)
  /\ issued \in [Drafts -> SUBSET Log!Issuable]

\* What the broker issues of a draft follows one from another, and the log
\* holds nothing else.
IssuedInOrder ==
  /\ \A d \in Drafts : \A q, r \in issued[d] : Log!Follows(q, r) \/ Log!Follows(r, q)
  /\ \A q \in Log!Rows : Log!HasReceipt(q.event) => q.event.rcpt \in issued[q.draft]

\* Every row is of the owner who claimed its draft.
ClaimedFirst ==
  \A q \in Log!Rows : \E p \in Log!Rows : p = Log!Row(q.owner, q.draft, Log!Intent)

\* An owner loads the rows that are theirs, in an order that can be read, and
\* the fold ends on the newest receipt among them.
ReadBy(o) ==
  LET events == Log!Load(o)
  IN  /\ events \in Seq(LogRows)
      /\ {events[i] : i \in 1..Len(events)} = {q \in Log!Rows : q.owner = o}
      /\ ~Log!FoldFails(events)

NewestFor(o) ==
  LET states == Log!OrderStatesOf(Log!Load(o))
  IN  /\ states = [d \in Drafts |-> states[d]]
      /\ \A d \in Drafts :
           /\ Log!HasReceipt(states[d]) <=> ReceiptsOf(o, d) # {}
           /\ Log!HasReceipt(states[d]) =>
                /\ states[d].rcpt \in ReceiptsOf(o, d)
                /\ \A r \in ReceiptsOf(o, d) : Log!Follows(r, states[d].rcpt)

LogInv ==
  /\ LogTypes /\ IssuedInOrder /\ ClaimedFirst
  /\ \A o \in Owners : ReadBy(o) /\ NewestFor(o)

\* Which events of a log have a receipt.
LEMMA EventKinds ==
  /\ ~Log!HasReceipt(Log!Intent) /\ ~Log!HasReceipt(Log!Unknown) /\ ~Log!HasReceipt(Log!Rejected)
  /\ \A r : Log!HasReceipt(Log!Confirmed(r)) /\ Log!Confirmed(r).rcpt = r /\ Log!Confirmed(r) # Log!Intent
  /\ Log!Unknown # Log!Intent /\ Log!Rejected # Log!Intent
BY DEF Log!HasReceipt, Log!Intent, Log!Unknown, Log!Rejected, Log!Confirmed

\* A log begins empty.
LEMMA LogInit == Log!Init => LogInv
<1> SUFFICES ASSUME Log!Init PROVE LogInv
  OBVIOUS
<1>1. log = <<>> /\ issued = [d \in Drafts |-> {}] /\ Log!Rows = {}
  BY DEF Log!Init, Log!Rows
<1>2. LogTypes /\ IssuedInOrder /\ ClaimedFirst
  BY <1>1 DEF LogTypes, IssuedInOrder, ClaimedFirst
<1>3. ASSUME NEW o \in Owners
      PROVE  ReadBy(o) /\ NewestFor(o)
  <2>1. Log!Load(o) = <<>> /\ Log!OrderStatesOf(<<>>) = [d \in Drafts |-> Log!NoIntent]
    BY <1>1, NothingIsLoaded
  <2>2. ReadBy(o)
    BY <1>1, <2>1 DEF ReadBy, Log!FoldFails
  <2>3. ReceiptsOf(o, o) = {} /\ \A d : ReceiptsOf(o, d) = {}
    BY <1>1 DEF ReceiptsOf
  <2>4. NewestFor(o)
    BY <2>1, <2>3 DEF NewestFor, Log!HasReceipt, Log!NoIntent
  <2> QED BY <2>2, <2>4
<1> QED BY <1>2, <1>3 DEF LogInv

\* One more row of a draft that the log allows keeps every owner's log readable
\* and its fold on the newest.
LEMMA AppendKeeps ==
  ASSUME LogInv, NEW o \in Owners, NEW d \in Drafts, NEW ev \in Events,
         Log!Insert(o, d, ev),
         ev = Log!Intent => ~\E q \in Log!Rows : q.draft = d /\ q.event = Log!Intent,
         ev # Log!Intent => \E q \in Log!Rows : q = Log!Row(o, d, Log!Intent),
         Log!HasReceipt(ev) => ev.rcpt \in issued[d]
  PROVE  LogInv'
<1> DEFINE row == Log!Row(o, d, ev)
<1>1. row \in LogRows /\ row.owner = o /\ row.draft = d /\ row.event = ev
  BY DEF LogRows, Log!Row
<1>2. log' = Append(log, row) /\ issued' = issued
  BY DEF Log!Insert
<1> HIDE DEF row
<1>3. log \in Seq(LogRows) /\ log' \in Seq(LogRows)
  BY <1>1, <1>2 DEF LogInv, LogTypes
<1>4. Log!Rows' = Log!Rows \cup {row}
  <2>1. Len(log) \in Nat /\ DOMAIN log = 1..Len(log) /\ DOMAIN log' = 1..(Len(log) + 1)
        /\ log'[Len(log) + 1] = row /\ \A i \in 1..Len(log) : log'[i] = log[i]
    BY <1>1, <1>2, <1>3
  <2>2. 1..(Len(log) + 1) = 1..Len(log) \cup {Len(log) + 1}
    BY <2>1
  <2> QED BY <2>1, <2>2 DEF Log!Rows
<1>5. LogTypes'
  BY <1>2, <1>3 DEF LogInv, LogTypes
<1>6. IssuedInOrder'
  BY <1>1, <1>2, <1>4 DEF LogInv, IssuedInOrder
<1>7. ClaimedFirst'
  <2>1. \E p \in Log!Rows' : p = Log!Row(o, d, Log!Intent)
    BY <1>4 DEF row
  <2> QED BY <1>1, <1>4, <2>1 DEF LogInv, ClaimedFirst
<1>8. ASSUME NEW u \in Owners
      PROVE  ReadBy(u)' /\ NewestFor(u)'
  <2>1. ReadBy(u) /\ NewestFor(u)
    BY DEF LogInv
  <2>2. PICK events \in Seq(LogRows) : events = Log!Load(u)
    BY <2>1 DEF ReadBy
  <2>3. Log!Load(u)' = IF row.owner = u THEN Append(events, row) ELSE events
    BY <1>1, <1>2, <1>3, <2>2, LoadAppended
  <2>4. CASE u # o
    <3>1. Log!Load(u)' = Log!Load(u)
      BY <1>1, <2>2, <2>3, <2>4
    <3>2. {q \in Log!Rows' : q.owner = u} = {q \in Log!Rows : q.owner = u}
      BY <1>1, <1>4, <2>4
    <3>3. ReadBy(u)'
      BY <2>1, <3>1, <3>2 DEF ReadBy
    <3>4. \A e : ReceiptsOf(u, e)' = ReceiptsOf(u, e)
      BY <1>1, <1>4, <2>4 DEF ReceiptsOf
    <3>5. NewestFor(u)'
      BY <2>1, <3>1, <3>4 DEF NewestFor
    <3> QED BY <3>3, <3>5
  <2>5. CASE u = o
    <3>1. Log!Load(u)' = Append(events, row)
      BY <1>1, <2>3, <2>5
    <3>2. Len(events) \in Nat /\ Append(events, row) \in Seq(LogRows)
          /\ Len(Append(events, row)) = Len(events) + 1
          /\ Append(events, row)[Len(events) + 1] = row
          /\ \A i \in 1..Len(events) : Append(events, row)[i] = events[i]
          /\ DOMAIN events = 1..Len(events) /\ DOMAIN Append(events, row) = 1..(Len(events) + 1)
      BY <1>1
    <3> DEFINE more == Append(events, row)
    <3>3. {events[i] : i \in 1..Len(events)} = {q \in Log!Rows : q.owner = o} /\ ~Log!FoldFails(events)
      BY <2>1, <2>2, <2>5 DEF ReadBy
    <3>4. {more[i] : i \in 1..Len(more)} = {events[i] : i \in 1..Len(events)} \cup {row}
      <4>1. 1..Len(more) = 1..Len(events) \cup {Len(events) + 1}
        BY <3>2
      <4> QED BY <3>2, <4>1
    <3>5. {q \in Log!Rows' : q.owner = o} = {q \in Log!Rows : q.owner = o} \cup {row}
      BY <1>1, <1>4
    <3>6. ~Log!FoldFails(more)
      <4> HIDE DEF more
      <4> DEFINE before(s, n) == {m \in 1..(n - 1) : s[m].draft = s[n].draft}
      <4>1. ASSUME NEW n \in DOMAIN more
            PROVE  ~((more[n].event = Log!Intent) <=> (before(more, n) # {}))
        <5>1. CASE n \in 1..Len(events)
          <6>1. before(more, n) = before(events, n) /\ more[n] = events[n] /\ n \in DOMAIN events
            BY <3>2, <5>1 DEF more
          <6> QED BY <3>3, <6>1 DEF Log!FoldFails
        <5>2. CASE n = Len(events) + 1
          <6>1. more[n] = row /\ \A m \in 1..(n - 1) : m \in 1..Len(events) /\ more[m] = events[m]
            BY <3>2, <5>2 DEF more
          <6>2. CASE ev = Log!Intent
            <7>1. \A m \in 1..Len(events) : events[m].draft # d
              <8> SUFFICES ASSUME NEW m \in 1..Len(events), events[m].draft = d
                           PROVE  FALSE
                OBVIOUS
              <8>1. events[m] \in Log!Rows
                BY <3>3
              <8>2. \E p \in Log!Rows : p = Log!Row(events[m].owner, d, Log!Intent)
                BY <8>1 DEF LogInv, ClaimedFirst
              <8> QED BY <6>2, <8>2 DEF Log!Row
            <7> QED BY <1>1, <6>1, <6>2, <7>1
          <6>3. CASE ev # Log!Intent
            <7>1. Log!Row(o, d, Log!Intent) \in {events[i] : i \in 1..Len(events)}
              BY <3>3, <6>3 DEF Log!Row
            <7>2. PICK m \in 1..Len(events) : events[m] = Log!Row(o, d, Log!Intent)
              BY <7>1
            <7>3. m \in 1..(n - 1) /\ events[m].draft = d
              BY <3>2, <5>2, <7>2 DEF Log!Row
            <7> QED BY <1>1, <6>1, <6>3, <7>3
          <6> QED BY <6>2, <6>3
        <5> QED BY <3>2, <5>1, <5>2 DEF more
      <4> QED BY <4>1 DEF Log!FoldFails
    <3>7. ReadBy(u)'
      BY <2>5, <3>1, <3>2, <3>3, <3>4, <3>5, <3>6 DEF ReadBy
    <3>8. Log!OrderStatesOf(more)
            = [Log!OrderStatesOf(events) EXCEPT ![d] = Log!Merge(@, ev)]
      BY <1>1, StatesAppended
    <3>9. NewestFor(u)'
      <4> DEFINE old == Log!OrderStatesOf(events)
                 new == Log!OrderStatesOf(more)
      <4>1. /\ old = [e \in Drafts |-> old[e]]
            /\ \A e \in Drafts :
                 /\ Log!HasReceipt(old[e]) <=> ReceiptsOf(o, e) # {}
                 /\ Log!HasReceipt(old[e]) =>
                      /\ old[e].rcpt \in ReceiptsOf(o, e)
                      /\ \A r \in ReceiptsOf(o, e) : Log!Follows(r, old[e].rcpt)
        BY <2>1, <2>2, <2>5 DEF NewestFor
      <4>2. /\ new = [old EXCEPT ![d] = Log!Merge(@, ev)]
            /\ Log!OrderStatesOf(Log!Load(u))' = new
        BY <3>1, <3>8
      <4> HIDE DEF old, new
      <4>3. /\ \A e \in Drafts \ {d} : ReceiptsOf(o, e)' = ReceiptsOf(o, e)
            /\ ReceiptsOf(o, d)' = ReceiptsOf(o, d) \cup (IF Log!HasReceipt(ev) THEN {ev.rcpt} ELSE {})
        BY <1>1, <1>4 DEF ReceiptsOf
      <4>4. ReceiptsOf(o, d) \in SUBSET issued[d] /\ issued[d] \in SUBSET Log!Issuable
        BY DEF LogInv, LogTypes, IssuedInOrder, ReceiptsOf
      <4>5. \A q, r \in issued[d] : Log!Follows(q, r) \/ Log!Follows(r, q)
        BY DEF LogInv, IssuedInOrder
      <4>6. Log!HasReceipt(ev) => ev.rcpt \in issued[d] /\ ev = Log!Confirmed(ev.rcpt)
        BY EventKinds DEF Events
      <4>7. PICK S, known, st : /\ S = issued[d] /\ known = ReceiptsOf(o, d) /\ st = old[d]
                               /\ S \in SUBSET Log!Issuable /\ known \in SUBSET S
        BY <4>4
      <4>8. LET merged == Log!Merge(st, ev)
                now == known \cup (IF Log!HasReceipt(ev) THEN {ev.rcpt} ELSE {})
            IN  /\ Log!HasReceipt(merged) <=> now # {}
                /\ Log!HasReceipt(merged) =>
                     merged.rcpt \in now /\ \A r \in now : Log!Follows(r, merged.rcpt)
        <5>1. /\ S \in SUBSET Log!Issuable /\ known \in SUBSET S
              /\ \A q, r \in S : Log!Follows(q, r) \/ Log!Follows(r, q)
          BY <4>5, <4>7
        <5>2. /\ Log!HasReceipt(st) <=> known # {}
              /\ Log!HasReceipt(st) => st.rcpt \in known /\ \A r \in known : Log!Follows(r, st.rcpt)
          BY <4>1, <4>7
        <5>3. Log!HasReceipt(ev) => ev.rcpt \in S /\ ev = Log!Confirmed(ev.rcpt)
          BY <4>6, <4>7
        <5> QED BY <5>1, <5>2, <5>3, MergeIsNewest
      <4>9. new[d] = Log!Merge(st, ev) /\ \A e \in Drafts \ {d} : new[e] = old[e]
        BY <4>1, <4>2, <4>7
      <4>10. new = [e \in Drafts |-> new[e]]
        BY <4>1, <4>2
      <4>11. \A e \in Drafts :
               /\ Log!HasReceipt(new[e]) <=> ReceiptsOf(o, e)' # {}
               /\ Log!HasReceipt(new[e]) =>
                    /\ new[e].rcpt \in ReceiptsOf(o, e)'
                    /\ \A r \in ReceiptsOf(o, e)' : Log!Follows(r, new[e].rcpt)
        <5> SUFFICES ASSUME NEW e \in Drafts
                     PROVE  /\ Log!HasReceipt(new[e]) <=> ReceiptsOf(o, e)' # {}
                            /\ Log!HasReceipt(new[e]) =>
                                 /\ new[e].rcpt \in ReceiptsOf(o, e)'
                                 /\ \A r \in ReceiptsOf(o, e)' : Log!Follows(r, new[e].rcpt)
          OBVIOUS
        <5>1. CASE e = d
          BY <4>3, <4>7, <4>8, <4>9, <5>1
        <5>2. CASE e # d
          BY <4>1, <4>3, <4>9, <5>2
        <5> QED BY <5>1, <5>2
      <4> QED BY <2>5, <4>2, <4>10, <4>11 DEF NewestFor
    <3> QED BY <3>7, <3>9
  <2> QED BY <2>4, <2>5
<1> QED BY <1>5, <1>6, <1>7, <1>8 DEF LogInv

\* Nothing in the log changes when the broker issues.
LEMMA SameLog ==
  ASSUME LogInv, UNCHANGED log, LogTypes', IssuedInOrder'
  PROVE  LogInv'
<1>1. Log!Rows' = Log!Rows /\ \A o : Log!Load(o)' = Log!Load(o)
  BY DEF Log!Rows, Log!Load
<1>2. \A o, d : ReceiptsOf(o, d)' = ReceiptsOf(o, d)
  BY <1>1 DEF ReceiptsOf
<1>3. \A o \in Owners : ReadBy(o)' /\ NewestFor(o)'
  BY <1>1, <1>2 DEF LogInv, ReadBy, NewestFor
<1> QED BY <1>1, <1>3 DEF LogInv, ClaimedFirst

\* Every append, of any owner and in any order, keeps the invariant.
LEMMA LogStep == LogInv /\ [Log!Next]_(Log!vars) => LogInv'
<1> SUFFICES ASSUME LogInv, [Log!Next]_(Log!vars) PROVE LogInv'
  OBVIOUS
<1>1. ASSUME NEW o \in Owners, NEW d \in Drafts, Log!AppendIntent(o, d)
      PROVE  LogInv'
  BY <1>1, AppendKeeps, EventKinds DEF Log!AppendIntent, Events
<1>2. ASSUME NEW o \in Owners, NEW d \in Drafts, Log!AppendObservation(o, d)
      PROVE  LogInv'
  <2>1. PICK ev \in {Log!Unknown, Log!Rejected} \cup {Log!Confirmed(r) : r \in issued[d]} :
          Log!Insert(o, d, ev)
    BY <1>2 DEF Log!AppendObservation
  <2>2. issued[d] \in SUBSET Log!Issuable
    BY DEF LogInv, LogTypes
  <2>3. /\ ev \in Events /\ ev # Log!Intent
        /\ Log!HasReceipt(ev) => ev.rcpt \in issued[d]
    BY <2>2, EventKinds DEF Events
  <2>4. \E q \in Log!Rows : q = Log!Row(o, d, Log!Intent)
    BY <1>2 DEF Log!AppendObservation
  <2> QED BY <2>1, <2>3, <2>4, AppendKeeps
<1>3. ASSUME NEW d \in Drafts, Log!Issue(d)
      PROVE  LogInv'
  <2>1. PICK r \in Log!Issuable : /\ \A q \in issued[d] : Log!Follows(q, r)
                                  /\ issued' = [issued EXCEPT ![d] = @ \cup {r}]
    BY <1>3 DEF Log!Issue
  <2>2. UNCHANGED log
    BY <1>3 DEF Log!Issue
  <2>3. Log!Follows(r, r)
    BY DEF Log!Follows, Log!Issuable, Log!Receipts
  <2>4. issued'[d] = issued[d] \cup {r} /\ \A e \in Drafts \ {d} : issued'[e] = issued[e]
    BY <2>1 DEF LogInv, LogTypes
  <2>5. LogTypes'
    BY <2>1, <2>2 DEF LogInv, LogTypes
  <2>6. IssuedInOrder'
    <3>1. \A e \in Drafts : \A q, p \in issued'[e] : Log!Follows(q, p) \/ Log!Follows(p, q)
      BY <2>1, <2>3, <2>4 DEF LogInv, IssuedInOrder
    <3>2. \A q \in Log!Rows : q.draft \in Drafts
      <4>1. log \in Seq(LogRows) /\ DOMAIN log = 1..Len(log)
        BY DEF LogInv, LogTypes
      <4>2. \A i \in DOMAIN log : log[i] \in LogRows
        BY <4>1
      <4>3. \A q \in LogRows : q.draft \in Drafts
        BY DEF LogRows
      <4> QED BY <4>2, <4>3 DEF Log!Rows
    <3>3. Log!Rows' = Log!Rows
      BY <2>2 DEF Log!Rows
    <3>4. \A e \in Drafts : issued[e] \subseteq issued'[e]
      BY <2>4
    <3> QED BY <3>1, <3>2, <3>3, <3>4 DEF LogInv, IssuedInOrder
  <2> QED BY <2>2, <2>5, <2>6, SameLog
<1>4. CASE UNCHANGED Log!vars
  <2>1. UNCHANGED log /\ UNCHANGED issued
    BY <1>4 DEF Log!vars
  <2>2. LogTypes' /\ IssuedInOrder'
    BY <2>1 DEF LogInv, LogTypes, IssuedInOrder, Log!Rows
  <2> QED BY <2>1, <2>2, SameLog
<1> QED BY <1>1, <1>2, <1>3, <1>4 DEF Log!Next

\* What an owner loads can always be read, and says the newest of each draft,
\* in whatever order the receipts were recorded and however many there are.
THEOREM LogSaysTheNewest == Log!Spec => []Log!LoadIsNewest
<1>1. LogInv => Log!LoadIsNewest
  <2> SUFFICES ASSUME LogInv PROVE Log!LoadNeverFails /\ Log!FoldIsNewest
    BY DEF Log!LoadIsNewest
  <2>1. Log!LoadNeverFails
    BY DEF Log!LoadNeverFails, LogInv, ReadBy
  <2>2. ASSUME NEW o \in Owners, NEW d \in Drafts
        PROVE  {ev.rcpt : ev \in {e \in Log!Recorded(o, d) : Log!HasReceipt(e)}} = ReceiptsOf(o, d)
    BY DEF ReceiptsOf, Log!Recorded
  <2>3. \A o \in Owners : NewestFor(o)
    BY DEF LogInv
  <2>4. Log!FoldIsNewest
    BY <2>2, <2>3 DEF Log!FoldIsNewest, NewestFor
  <2> QED BY <2>1, <2>4
<1> QED BY <1>1, LogInit, LogStep, PTL DEF Log!Spec

----------------------------------------------------------------------------
(* Part 2: the alerts. *)

\* The key of an alert is its kind, what it is about and the day.
IsAlert(a) == a.key = <<a.kind, a.about, a.day>>
KeysOf(some) == {a.key : a \in some}

\* The parts of the table.
IsTable(t) == t = [plan |-> t.plan, settings |-> t.settings, observed |-> t.observed,
                   alerts |-> t.alerts, acks |-> t.acks, rows |-> t.rows]

AlertTypes ==
  /\ IsTable(table)
  /\ table.rows \in Nat /\ table.rows <= MaxRows
  /\ panel \in [Panels -> {"idle", "evaluate", "record", "save", "mark"}]
  /\ found = [s \in Panels |-> found[s]]
  /\ toSave = [s \in Panels |-> toSave[s]]
  /\ screen = [s \in Panels |-> screen[s]]

AlertsAreWhole ==
  /\ \A a \in reviewed : IsAlert(a)
  /\ \A s \in Panels : \A a \in found[s] \cup screen[s].found : IsAlert(a)

\* Who marks, marks what the history holds, and only that is acknowledged.
Marked ==
  /\ table.acks \subseteq KeysOf(reviewed)
  /\ table.acks \subseteq KeysOf(table.alerts)

\* What a run shows was saved by it or was there before.
SavedBy(s) ==
  /\ panel[s] = "save" => KeysOf(found[s] \ toSave[s]) \subseteq KeysOf(table.alerts)
  /\ KeysOf(screen[s].unread) \subseteq KeysOf(table.alerts)
  /\ screen[s].unread \subseteq screen[s].found
  /\ KeysOf(screen[s].found \ screen[s].unread) \subseteq table.acks
Saved == \A s \in Panels : SavedBy(s)

AlertsInv == AlertTypes /\ AlertsAreWhole /\ Marked /\ Saved

\* The table only grows.
Grows == /\ KeysOf(table.alerts) \subseteq KeysOf(table'.alerts)
         /\ table.acks \subseteq table'.acks
         /\ IsTable(table')
         /\ table'.rows \in Nat /\ table'.rows <= MaxRows

\* Inserting into one part of the table leaves the others.
LEMMA InsertOne ==
  ASSUME Alerts!RowsAssumption, AlertTypes, Alerts!HasRoom,
         NEW part \in {"plan", "settings", "observed", "alerts", "acks"}, NEW value,
         Alerts!Insert(part, value)
  PROVE  /\ IsTable(table')
         /\ table'.rows \in Nat /\ table'.rows <= MaxRows
         /\ table'[part] = value
         /\ part # "alerts" => table'.alerts = table.alerts
         /\ part # "acks" => table'.acks = table.acks
<1>1. table.rows + 1 \in Nat /\ table.rows + 1 <= MaxRows
  BY DEF AlertTypes, Alerts!HasRoom, Alerts!RowsAssumption
<1>2. table' = [table EXCEPT ![part] = value, !.rows = @ + 1]
  BY DEF Alerts!Insert
<1>3. IsTable(table)
  BY DEF AlertTypes
<1>4. CASE part = "plan"
  <2>1. table' = [table EXCEPT !.plan = value, !.rows = @ + 1]
    BY <1>2, <1>4
  <2> QED BY <1>1, <1>3, <1>4, <2>1 DEF IsTable
<1>5. CASE part = "settings"
  <2>1. table' = [table EXCEPT !.settings = value, !.rows = @ + 1]
    BY <1>2, <1>5
  <2> QED BY <1>1, <1>3, <1>5, <2>1 DEF IsTable
<1>6. CASE part = "observed"
  <2>1. table' = [table EXCEPT !.observed = value, !.rows = @ + 1]
    BY <1>2, <1>6
  <2> QED BY <1>1, <1>3, <1>6, <2>1 DEF IsTable
<1>7. CASE part = "alerts"
  <2>1. table' = [table EXCEPT !.alerts = value, !.rows = @ + 1]
    BY <1>2, <1>7
  <2> QED BY <1>1, <1>3, <1>7, <2>1 DEF IsTable
<1>8. CASE part = "acks"
  <2>1. table' = [table EXCEPT !.acks = value, !.rows = @ + 1]
    BY <1>2, <1>8
  <2> QED BY <1>1, <1>3, <1>8, <2>1 DEF IsTable
<1> QED BY <1>4, <1>5, <1>6, <1>7, <1>8

\* What does not touch the table and the marks keeps the invariant as far as
\* the sessions keep it.
LEMMA Quiet ==
  ASSUME AlertsInv, Grows, UNCHANGED <<reviewed, panel, found, toSave, screen>>,
         table'.acks = table.acks
  PROVE  AlertsInv'
<1>1. AlertTypes'
  BY DEF AlertsInv, AlertTypes, Grows
<1>2. AlertsAreWhole'
  BY DEF AlertsInv, AlertsAreWhole
<1>3. Marked' /\ Saved'
  BY DEF AlertsInv, Marked, Saved, SavedBy, Grows
<1> QED BY <1>1, <1>2, <1>3 DEF AlertsInv

\* Every alert in force has the key of its kind, its subject and its day.
LEMMA ActiveAreAlerts ==
  ASSUME NEW now
  PROVE  \A a \in Alerts!Active(now) : IsAlert(a)
<1>1. \A kind, about, day : IsAlert(Alerts!Alert(kind, about, day))
  BY DEF IsAlert, Alerts!Alert, Alerts!Key
<1>2. \A a \in Alerts!OfThePosition(now) : IsAlert(a)
  BY <1>1 DEF Alerts!OfThePosition
<1>3. \A a \in Alerts!OfTheLimits(now) : IsAlert(a)
  BY <1>1 DEF Alerts!OfTheLimits
<1>4. \A a \in Alerts!OfTheReading : IsAlert(a)
  BY <1>1 DEF Alerts!OfTheReading
<1> QED BY <1>1, <1>2, <1>3, <1>4 DEF Alerts!Active

\* Nothing is recorded, shown or marked at first.
LEMMA AlertsInit == Alerts!RowsAssumption /\ Alerts!Init => AlertsInv
<1> SUFFICES ASSUME Alerts!RowsAssumption, Alerts!Init
             PROVE  AlertsInv
  OBVIOUS
<1> USE DEF Alerts!RowsAssumption, Alerts!Init, Alerts!Blank
<1>1. AlertTypes
  BY DEF AlertTypes, IsTable
<1>2. AlertsAreWhole /\ Marked
  BY DEF AlertsAreWhole, Marked
<1>3. Saved
  BY DEF Saved, SavedBy, KeysOf
<1> QED BY <1>1, <1>2, <1>3 DEF AlertsInv

\* One call of a panel.
LEMMA PanelKeeps ==
  ASSUME Alerts!RowsAssumption, AlertsInv, NEW s \in Panels, Alerts!Panel(s)
  PROVE  AlertsInv'
<1> USE DEF AlertsInv, Alerts!Goto, Alerts!Blank
<1>1. CASE Alerts!Run(s) \/ Alerts!Fetch(s) \/ Alerts!Fail(s)
  <2>1. UNCHANGED <<table, reviewed>> /\ screen' = [screen EXCEPT ![s] = [found |-> {}, unread |-> {}]]
    BY <1>1 DEF Alerts!Run, Alerts!Fetch, Alerts!Fail
  <2>2. \/ UNCHANGED <<found, toSave>>
        \/ found' = [found EXCEPT ![s] = {}] /\ toSave' = [toSave EXCEPT ![s] = {}]
    BY <1>1 DEF Alerts!Run, Alerts!Fetch, Alerts!Fail
  <2>3. \E next \in {"evaluate", "record", "idle"} : panel' = [panel EXCEPT ![s] = next]
    BY <1>1 DEF Alerts!Run, Alerts!Fetch, Alerts!Fail
  <2>4. AlertTypes'
    BY <2>1, <2>2, <2>3 DEF AlertTypes
  <2>5. AlertsAreWhole' /\ Marked'
    BY <2>1, <2>2 DEF AlertTypes, AlertsAreWhole, Marked
  <2>6. Saved'
    BY <2>1, <2>2, <2>3 DEF AlertTypes, Saved, SavedBy, KeysOf
  <2> QED BY <2>4, <2>5, <2>6
<1>2. CASE Alerts!Record(s)
  <2>1. /\ UNCHANGED <<reviewed, found, toSave, screen>> /\ panel' = [panel EXCEPT ![s] = "evaluate"]
        /\ Alerts!Observe(reading[s])
    BY <1>2 DEF Alerts!Record
  <2>2. table'.alerts = table.alerts /\ table'.acks = table.acks
        /\ IsTable(table')
        /\ table'.rows \in Nat /\ table'.rows <= MaxRows
    <3>1. CASE UNCHANGED table
      BY <3>1 DEF AlertTypes
    <3>2. CASE Alerts!HasRoom /\ Alerts!Insert("observed", Append(table.observed, reading[s]))
      BY <3>2, InsertOne
    <3> QED BY <2>1, <3>1, <3>2 DEF Alerts!Observe
  <2>3. AlertTypes'
    BY <2>1, <2>2 DEF AlertTypes
  <2>4. AlertsAreWhole' /\ Marked' /\ Saved'
    BY <2>1, <2>2 DEF AlertTypes, AlertsAreWhole, Marked, Saved, SavedBy
  <2> QED BY <2>3, <2>4
<1>3. CASE Alerts!Evaluate(s)
  <2>1. /\ UNCHANGED <<table, reviewed, screen>> /\ panel' = [panel EXCEPT ![s] = "save"]
        /\ found' = [found EXCEPT ![s] = Alerts!Active(account[s])]
        /\ toSave' = [toSave EXCEPT ![s] =
                        {a \in Alerts!Active(account[s]) : a.key \notin KeysOf(table.alerts)}]
    BY <1>3 DEF Alerts!Evaluate, Alerts!Recorded, KeysOf
  <2>2. AlertTypes'
    BY <2>1 DEF AlertTypes
  <2>3. AlertsAreWhole' /\ Marked'
    BY <2>1, ActiveAreAlerts DEF AlertTypes, AlertsAreWhole, Marked
  <2>4. Saved'
    <3>1. /\ KeysOf(found'[s] \ toSave'[s]) \subseteq KeysOf(table.alerts)
          /\ \A t \in Panels \ {s} : panel'[t] = panel[t] /\ found'[t] = found[t] /\ toSave'[t] = toSave[t]
      BY <2>1 DEF AlertTypes, KeysOf
    <3> QED BY <2>1, <3>1 DEF Saved, SavedBy
  <2> QED BY <2>2, <2>3, <2>4
<1>4. CASE Alerts!Save(s)
  <2>1. PICK a \in toSave[s] : Alerts!RecordAlert(a) /\ toSave' = [toSave EXCEPT ![s] = @ \ {a}]
    BY <1>4 DEF Alerts!Save
  <2>2. UNCHANGED <<reviewed, panel, found, screen>>
    BY <1>4 DEF Alerts!Save
  <2>3. /\ KeysOf(table.alerts) \cup {a.key} \subseteq KeysOf(table'.alerts) /\ table'.acks = table.acks
        /\ IsTable(table')
        /\ table'.rows \in Nat /\ table'.rows <= MaxRows
    <3>1. CASE a.key \in Alerts!Recorded
      BY <2>1, <3>1 DEF Alerts!RecordAlert, Alerts!Recorded, KeysOf, AlertTypes
    <3>2. CASE a.key \notin Alerts!Recorded
      <4>1. Alerts!HasRoom /\ Alerts!Insert("alerts", table.alerts \cup {a})
        BY <2>1, <3>2 DEF Alerts!RecordAlert
      <4>2. table'["alerts"] = table.alerts \cup {a}
        BY <4>1, InsertOne
      <4> QED BY <4>1, <4>2, InsertOne DEF KeysOf
    <3> QED BY <3>1, <3>2
  <2>4. AlertTypes'
    BY <2>1, <2>2, <2>3 DEF AlertTypes
  <2>5. AlertsAreWhole' /\ Marked'
    BY <2>2, <2>3 DEF AlertsAreWhole, Marked
  <2>6. Saved'
    <3>1. /\ panel[s] = "save" => KeysOf(found[s] \ toSave'[s]) \subseteq KeysOf(table'.alerts)
          /\ \A t \in Panels \ {s} : toSave'[t] = toSave[t]
      <4>1. toSave'[s] = toSave[s] \ {a} /\ \A t \in Panels \ {s} : toSave'[t] = toSave[t]
        BY <2>1 DEF AlertTypes
      <4>2. KeysOf(found[s] \ toSave'[s]) \subseteq KeysOf(found[s] \ toSave[s]) \cup {a.key}
        BY <4>1 DEF KeysOf
      <4> QED BY <2>3, <4>1, <4>2 DEF Saved, SavedBy
    <3> QED BY <2>2, <2>3, <3>1 DEF Saved, SavedBy
  <2> QED BY <2>4, <2>5, <2>6
<1>5. CASE Alerts!Show(s)
  <2> DEFINE unread == {a \in found[s] : a.key \notin table.acks}
  <2>1. /\ UNCHANGED <<table, reviewed, toSave>> /\ panel[s] = "save" /\ toSave[s] = {}
        /\ screen' = [screen EXCEPT ![s] = [found |-> found[s], unread |-> unread]]
        /\ found' = [found EXCEPT ![s] = {}]
        /\ \E next \in {"mark", "idle"} : panel' = [panel EXCEPT ![s] = next]
    BY <1>5 DEF Alerts!Show
  <2>2. AlertTypes'
    BY <2>1 DEF AlertTypes
  <2>3. AlertsAreWhole' /\ Marked'
    BY <2>1 DEF AlertTypes, AlertsAreWhole, Marked
  <2>4. /\ screen'[s].found = found[s] /\ screen'[s].unread = unread
        /\ KeysOf(found[s]) \subseteq KeysOf(table.alerts)
        /\ \A t \in Panels \ {s} : screen'[t] = screen[t] /\ panel'[t] = panel[t] /\ found'[t] = found[t]
        /\ panel'[s] # "save"
    BY <2>1 DEF AlertTypes, Saved, SavedBy, KeysOf
  <2>5. Saved'
    <3> SUFFICES ASSUME NEW t \in Panels
                 PROVE  SavedBy(t)'
      BY DEF Saved
    <3>1. CASE t = s
      BY <2>1, <2>4, <3>1 DEF SavedBy, KeysOf
    <3>2. CASE t # s
      BY <2>1, <2>4, <3>2 DEF Saved, SavedBy
    <3> QED BY <3>1, <3>2
  <2> QED BY <2>2, <2>3, <2>5
<1>6. CASE Alerts!Mark(s)
  <2>1. PICK a \in screen[s].unread : Alerts!Acknowledge(a) /\ reviewed' = reviewed \cup {a}
    BY <1>6 DEF Alerts!Mark
  <2>2. /\ UNCHANGED <<found, toSave>> /\ panel' = [panel EXCEPT ![s] = "idle"]
        /\ screen' = [screen EXCEPT ![s] = [found |-> {}, unread |-> {}]]
    BY <1>6 DEF Alerts!Mark
  <2>3. /\ table'.alerts = table.alerts
        /\ table'.acks \in {table.acks, table.acks \cup {a.key}} /\ table.acks \subseteq table'.acks
        /\ IsTable(table')
        /\ table'.rows \in Nat /\ table'.rows <= MaxRows
    <3>1. CASE UNCHANGED table
      BY <3>1 DEF AlertTypes
    <3>2. CASE Alerts!HasRoom /\ Alerts!Insert("acks", table.acks \cup {a.key})
      <4>1. table'["acks"] = table.acks \cup {a.key}
        BY <3>2, InsertOne
      <4> QED BY <3>2, <4>1, InsertOne
    <3> QED BY <2>1, <3>1, <3>2 DEF Alerts!Acknowledge
  <2>4. a.key \in KeysOf(table.alerts) /\ IsAlert(a)
    BY DEF Saved, SavedBy, KeysOf, AlertsAreWhole
  <2>5. AlertTypes'
    BY <2>2, <2>3 DEF AlertTypes
  <2>6. AlertsAreWhole'
    BY <2>1, <2>2, <2>4 DEF AlertTypes, AlertsAreWhole
  <2>7. Marked'
    BY <2>1, <2>3, <2>4 DEF Marked, KeysOf
  <2>8. Saved'
    BY <2>2, <2>3 DEF AlertTypes, Saved, SavedBy, KeysOf
  <2> QED BY <2>5, <2>6, <2>7, <2>8
<1> QED BY <1>1, <1>2, <1>3, <1>4, <1>5, <1>6 DEF Alerts!Panel

\* Every step of the panel and of the forms keeps the invariant.
LEMMA AlertsStep == Alerts!RowsAssumption /\ AlertsInv /\ [Alerts!Next]_(Alerts!vars) => AlertsInv'
<1> SUFFICES ASSUME Alerts!RowsAssumption, AlertsInv, [Alerts!Next]_(Alerts!vars) PROVE AlertsInv'
  OBVIOUS
<1>1. CASE UNCHANGED table /\ UNCHANGED <<reviewed, panel, found, toSave, screen>>
  BY <1>1, Quiet DEF AlertsInv, AlertTypes, Grows
<1>2. CASE Alerts!SaveControls
  <2>1. UNCHANGED <<reviewed, panel, found, toSave, screen>>
    BY <1>2 DEF Alerts!SaveControls
  <2>2. PICK part \in {"plan", "settings"} : \E value : Alerts!HasRoom /\ Alerts!Insert(part, value)
    BY <1>2 DEF Alerts!SaveControls
  <2>3. Grows /\ table'.acks = table.acks
    BY <2>2, InsertOne DEF Grows, AlertsInv
  <2> QED BY <2>1, <2>3, Quiet
<1> QED BY <1>1, <1>2, PanelKeeps DEF Alerts!Next, Alerts!Tick, Alerts!vars

\* No alert in force is left out unless that very alert was reviewed, what is
\* shown or reviewed is in the history, and the table can be read.
THEOREM AlertsStay ==
  ASSUME Alerts!RowsAssumption
  PROVE  Alerts!Spec => []Alerts!AlertsAreKept
<1>1. AlertsInv => Alerts!AlertsAreKept
  <2> SUFFICES ASSUME AlertsInv PROVE Alerts!AlertsAreKept
    OBVIOUS
  <2> USE DEF AlertsInv, KeysOf
  <2>1. Alerts!OnlyTheReviewedIsQuiet
    <3> SUFFICES ASSUME NEW s \in Panels, NEW a \in screen[s].found \ screen[s].unread
                 PROVE  \E r \in reviewed : r.kind = a.kind /\ r.about = a.about /\ r.day = a.day
      BY DEF Alerts!OnlyTheReviewedIsQuiet
    <3>1. a.key \in table.acks
      BY DEF Saved, SavedBy
    <3>2. PICK r \in reviewed : r.key = a.key
      BY <3>1 DEF Marked
    <3>3. IsAlert(r) /\ IsAlert(a)
      BY DEF AlertsAreWhole
    <3>4. <<r.kind, r.about, r.day>> = <<a.kind, a.about, a.day>>
      BY <3>2, <3>3 DEF IsAlert
    <3> QED BY <3>4
  <2>2. Alerts!ShownIsRecorded
    BY DEF Alerts!ShownIsRecorded, Alerts!Recorded, Saved, SavedBy, Marked
  <2>3. Alerts!ControlsAreReadable
    BY DEF Alerts!ControlsAreReadable, AlertTypes
  <2> QED BY <2>1, <2>2, <2>3 DEF Alerts!AlertsAreKept
<1>2. Alerts!Init => AlertsInv
  BY AlertsInit
<1>3. AlertsInv /\ [Alerts!Next]_(Alerts!vars) => AlertsInv'
  BY AlertsStep
<1> QED BY <1>1, <1>2, <1>3, PTL DEF Alerts!Spec

----------------------------------------------------------------------------
(* Both among the stores, of which one moves. *)

\* The log is as OrderLog says.
LEMMA LogMoves == StoresSpec => Log!Spec
<1>1. StoresInit => Log!Init
  BY DEF StoresInit
<1>2. [StoresNext]_stores => [Log!Next]_(Log!vars)
  BY DEF StoresNext, stores, logs, Log!vars
<1> QED BY <1>1, <1>2, PTL DEF StoresSpec, Log!Spec

\* The alerts are as TrialAlerts says.
LEMMA AlertsMove == StoresSpec => Alerts!Spec
<1>1. StoresInit => Alerts!Init
  BY DEF StoresInit
<1>2. [StoresNext]_stores => [Alerts!Next]_(Alerts!vars)
  BY DEF StoresNext, stores, alerts, Alerts!vars
<1> QED BY <1>1, <1>2, PTL DEF StoresSpec, Alerts!Spec

\* What an owner loads can always be read, and says the newest of each draft,
\* in whatever order the receipts were recorded and however many there are.
THEOREM LoadStaysNewest == StoresSpec => []LoadIsNewest
<1>1. StoresSpec => []Log!LoadIsNewest
  BY LogMoves, LogSaysTheNewest, PTL
<1> QED BY <1>1, PTL DEF LoadIsNewest

\* No alert in force is left out unless that very alert was reviewed, what is
\* shown or reviewed is in the history, and the table can be read, for any
\* panels, controls and prices.
THEOREM AlertsStayKept == StoresSpec => []AlertsAreKept
<1>1. StoresSpec => []Alerts!AlertsAreKept
  BY AlertsMove, AlertsStay, AlertsAssumption, PTL
<1> QED BY <1>1, PTL DEF AlertsAreKept
=============================================================================
