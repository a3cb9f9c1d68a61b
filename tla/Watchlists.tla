----------------------------- MODULE Watchlists -----------------------------
(***************************************************************************)
(* The private watchlists of the technical page: one row per identity in   *)
(* technical_watchlists (supabase_watchlist.py over watchlist_store.py),   *)
(* imported once from the SQLite file of an earlier deployment, and what   *)
(* a browser session keeps of it (technical_ui.py).                        *)
(*                                                                         *)
(* A session belongs to whoever is logged in when its page runs; a run     *)
(* that finds another identity than the last one drops all it kept.  The   *)
(* first load of an identity without a row reads, then imports: two        *)
(* requests, with room for the runs of other sessions in between.          *)
(*                                                                         *)
(* Left out: the spelling of tickers (a list is a set of them, within the  *)
(* limit) and the bytes of a backup.                                       *)
(***************************************************************************)
EXTENDS Naturals

CONSTANTS
  Sessions,   \* browser sessions
  Owners,     \* OIDC identities
  Nobody,     \* no identity
  NoRow,      \* no row for an identity
  Tickers,    \* per identity: the tickers that its user follows
  Legacy      \* per identity: its list in the file of the earlier deployment

OwnersAssumption ==
  /\ Nobody \notin Owners
  /\ \A o \in Owners : Legacy[o] \subseteq Tickers[o]

VARIABLES
  row,        \* per identity: the list saved, NoRow before the first save
  user,       \* per session: who is logged in
  identity,   \* per session: _technical_owner, of the last run that loaded
  symbols,    \* per session: _technical_symbols
  histories,  \* per session: the tickers of _technical_histories
  importing   \* per session: an identity it found without a row, or Nobody

watchlist == <<identity, symbols, histories>>
lists == <<row, user, watchlist, importing>>

ListsInit ==
  /\ row = [o \in Owners |-> NoRow]
  /\ user = [s \in Sessions |-> Nobody]
  /\ identity = [s \in Sessions |-> Nobody]
  /\ symbols = [s \in Sessions |-> {}]
  /\ histories = [s \in Sessions |-> {}]
  /\ importing = [s \in Sessions |-> Nobody]

----------------------------------------------------------------------------
Keep(s, o, list, kept) ==
  /\ identity' = [identity EXCEPT ![s] = o]
  /\ symbols' = [symbols EXCEPT ![s] = list]
  /\ histories' = [histories EXCEPT ![s] = kept]

\* The user of a browser session changes; the page learns on its next run.
SwitchUser(s, o) ==
  /\ importing[s] = Nobody
  /\ user' = [user EXCEPT ![s] = o]
  /\ UNCHANGED <<row, watchlist, importing>>

\* A run that finds another identity drops everything of the last one first.
Arrives(s) ==
  /\ importing[s] = Nobody
  /\ user[s] \in Owners /\ identity[s] # user[s]

\* Mutant: the histories of the last identity stay.
OpenSaved_KeepsHistories(s) ==
  /\ Arrives(s)
  /\ row[user[s]] # NoRow
  /\ Keep(s, user[s], row[user[s]], histories[s])
  /\ UNCHANGED <<row, user, importing>>

\* load: the row of the identity.
OpenSaved(s) ==
  /\ Arrives(s)
  /\ row[user[s]] # NoRow
  /\ Keep(s, user[s], row[user[s]], {})
  /\ UNCHANGED <<row, user, importing>>

\* load: no row, and nothing to import.
OpenNew(s) ==
  /\ Arrives(s)
  /\ row[user[s]] = NoRow /\ Legacy[user[s]] = {}
  /\ Keep(s, user[s], {}, {})
  /\ UNCHANGED <<row, user, importing>>

\* load: no row; the list of the earlier file is read and is to be saved.
OpenLegacy(s) ==
  /\ Arrives(s)
  /\ row[user[s]] = NoRow /\ Legacy[user[s]] # {}
  /\ Keep(s, Nobody, {}, {})
  /\ importing' = [importing EXCEPT ![s] = user[s]]
  /\ UNCHANGED <<row, user>>

\* load: the request fails, nothing is kept and the next run starts again.
OpenFails(s) ==
  /\ Arrives(s)
  /\ Keep(s, Nobody, {}, {})
  /\ UNCHANGED <<row, user, importing>>

\* _import_local: an upsert of the list of the earlier file.
Import(s) ==
  /\ importing[s] # Nobody
  /\ LET o == importing[s]
     IN  row' = [row EXCEPT ![o] = Legacy[o]] /\ Keep(s, o, Legacy[o], {})
  /\ importing' = [importing EXCEPT ![s] = Nobody]
  /\ UNCHANGED user

ImportFails(s) ==
  /\ importing[s] # Nobody
  /\ importing' = [importing EXCEPT ![s] = Nobody]
  /\ UNCHANGED <<row, user, watchlist>>

\* A run of the page for the identity it was last run for.
Stays(s) == importing[s] = Nobody /\ identity[s] = user[s] /\ user[s] \in Owners

\* "Guardar lista": the whole list, in place of whatever is saved.
SaveList(s, list) ==
  /\ Stays(s)
  /\ list \subseteq Tickers[user[s]]
  /\ row' = [row EXCEPT ![user[s]] = list]
  /\ Keep(s, user[s], list, histories[s] \cap list)
  /\ UNCHANGED <<user, importing>>

\* "Restaurar y sustituir lista": the list of a backup; histories are dropped.
Restore(s, list) ==
  /\ Stays(s)
  /\ list \subseteq Tickers[user[s]]
  /\ row' = [row EXCEPT ![user[s]] = list]
  /\ Keep(s, user[s], list, {})
  /\ UNCHANGED <<user, importing>>

\* "Actualizar señales": a history, or the reason there is none, per ticker.
UpdateSignals(s) ==
  /\ Stays(s)
  /\ symbols[s] # {}
  /\ Keep(s, identity[s], symbols[s], symbols[s])
  /\ UNCHANGED <<row, user, importing>>

ListsNext ==
  \/ \E s \in Sessions, o \in Owners \cup {Nobody} : SwitchUser(s, o)
  \/ \E s \in Sessions : \/ OpenSaved(s) \/ OpenNew(s) \/ OpenLegacy(s) \/ OpenFails(s)
                         \/ Import(s) \/ ImportFails(s) \/ UpdateSignals(s)
  \/ \E s \in Sessions, list \in UNION {SUBSET Tickers[o] : o \in Owners} :
        SaveList(s, list) \/ Restore(s, list)

ListsSpec == ListsInit /\ [][ListsNext]_lists

----------------------------------------------------------------------------
\* Whatever order logins, loads, imports and saves come in, a page and a row
\* hold nothing of an identity other than theirs: "Keep no previous user's
\* lists, quotes or simulated positions" (technical_ui.py:550).
OwnDataOnly ==
  /\ \A o \in Owners : row[o] # NoRow => row[o] \subseteq Tickers[o]
  /\ \A s \in Sessions : /\ identity[s] = Nobody => symbols[s] \cup histories[s] = {}
                         /\ identity[s] # Nobody =>
                              /\ symbols[s] \subseteq Tickers[identity[s]]
                              /\ histories[s] \subseteq symbols[s]
=============================================================================
