--------------------------- MODULE BatchRotation ---------------------------
(***************************************************************************)
(* Which attempts a press of "Actualizar resultados" looks up: refresh_    *)
(* results (alpaca_results_sync.py) sorts the pending ones by their last   *)
(* event and takes a batch of them.                                        *)
(*                                                                         *)
(* What a lookup finds is in PaperOrders; here it settles the attempt or   *)
(* leaves it pending, and its event, found or not, moves the attempt       *)
(* behind the others unless it could not be saved.                         *)
(***************************************************************************)
EXTENDS Naturals, SequencesExt

CONSTANTS Sessions, Drafts, BatchSize

VARIABLES
  pending,   \* the attempts a refresh asks about
  order,     \* all attempts, the one with the oldest last event first
  batch,     \* per session: the lookups still to make in this press
  turns      \* per d and e: lookups of e recorded since d's (history)

vars == <<pending, order, batch, turns>>

NoTurns == [d \in Drafts |-> 0]

Init ==
  /\ pending = Drafts
  /\ order \in SetToSeqs(Drafts)
  /\ batch = [s \in Sessions |-> <<>>]
  /\ turns = [d \in Drafts |-> NoTurns]

TakeFirst(seq, n) == SubSeq(seq, 1, IF Len(seq) < n THEN Len(seq) ELSE n)

\* The members of S, in the order of seq.
Among(S, seq) ==
  LET kept[n \in 0..Len(seq)] ==
        IF n = 0 THEN <<>>
        ELSE IF seq[n] \in S THEN Append(kept[n - 1], seq[n]) ELSE kept[n - 1]
  IN  kept[Len(seq)]

----------------------------------------------------------------------------
\* Mutant: the most recent come first.
Chosen_NewestFirst == TakeFirst(Reverse(Among(pending, order)), BatchSize)

\* pending.sort(key=last_attempt), then pending[:batch_size].
Chosen == TakeFirst(Among(pending, order), BatchSize)

\* The log is loaded and the batch chosen.
Press(s) ==
  /\ batch[s] = <<>>
  /\ pending # {}
  /\ batch' = [batch EXCEPT ![s] = Chosen]
  /\ UNCHANGED <<pending, order, turns>>

\* A lookup and the event it records, "observed" or "unknown".
LookUp(s) ==
  LET d == Head(batch[s])
  IN  /\ batch[s] # <<>>
      /\ batch' = [batch EXCEPT ![s] = Tail(@)]
      /\ pending' \in {pending, pending \ {d}}
      /\ order' = Append(Among(Drafts \ {d}, order), d)
      /\ turns' = [e \in Drafts |-> IF e \in pending' \ {d} THEN [turns[e] EXCEPT ![d] = @ + 1]
                                                           ELSE NoTurns]

\* Neither event could be saved: the attempt stays where it was.
LookUpUnsaved(s) ==
  /\ batch[s] # <<>>
  /\ batch' = [batch EXCEPT ![s] = Tail(@)]
  /\ turns' = [turns EXCEPT ![Head(batch[s])] = NoTurns]
  /\ UNCHANGED <<pending, order>>

\* The session dies in the middle of its batch.
Crash(s) ==
  /\ batch[s] # <<>>
  /\ batch' = [batch EXCEPT ![s] = <<>>]
  /\ UNCHANGED <<pending, order, turns>>

Next == \E s \in Sessions : Press(s) \/ LookUp(s) \/ LookUpUnsaved(s) \/ Crash(s)

Spec == Init /\ [][Next]_vars
----------------------------------------------------------------------------
\* "Los intentos que fallan rotan para no bloquear indefinidamente la consulta
\* de los demás": while an attempt waits for its lookup, no other is looked up
\* and recorded more than once per session refreshing.
TurnsAreShared ==
  \A d \in pending, e \in Drafts : turns[d][e] <= Cardinality(Sessions)
=============================================================================
