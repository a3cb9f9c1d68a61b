------------------------------- MODULE Shell --------------------------------
(***************************************************************************)
(* A browser session of the app: who may see it (access.py), the advanced  *)
(* analysis and its reports (app_inversiones.py, analysis_session.py), and *)
(* what of it is saved in a case (workspace_ui.py): the report of one      *)
(* account, the consolidated positions of several.                         *)
(*                                                                         *)
(* Streamlit runs the page again after every change of a widget (Rerun); a *)
(* widget that a run does not draw loses its value.                        *)
(***************************************************************************)
EXTENDS Naturals, Sequences, FiniteSets

CONSTANTS
  Claims,       \* the identities a provider gives: [iss, sub]
  Authorized,   \* those of the access policy
  Accounts,     \* accounts of the cases of the register
  Settings,     \* what the inputs of the sidebar may be; 1 is what they start as
  MaxData,      \* versions of a series of the provider
  MaxEntries    \* 3: models kept by the session

ShellAssumption == Authorized \subseteq Claims /\ 1 \in Settings /\ MaxEntries \in Nat \ {0}

VARIABLES
  who,        \* the identity of the cookie, if any: {} or {claims}
  page,       \* "access" or the area that is shown
  owner,      \* the identity the session state was isolated for, if any
  traces,     \* the identities with inputs or results in the session state
  settings,   \* the inputs of the sidebar now
  optional,   \* the objective, and whether scenarios are calculated
  analysed,   \* the settings that were last sent to be analysed, if any
  data,       \* the prices of the tickers the provider gives now
  benchmark,  \* the series of the benchmark, which is asked for apart
  memo,       \* the models kept, oldest first: [key, from]
  pdf,        \* the reports of the session: their key, and what they were made of
  chosen,     \* the accounts chosen to save the report, or to consolidate
  tick,       \* the confirmation: {} or {the accounts chosen when it was made}
  saved       \* what was last saved, and what was confirmed of it

inputs == <<settings, optional, analysed>>
series == <<data, benchmark>>
vars == <<who, page, owner, traces, inputs, series, memo, pdf, chosen, tick, saved>>

NoPdf == [key |-> <<>>, made |-> <<>>]
NoOptions == [objective |-> 1, scenarios |-> FALSE]
NotSaved == [accounts |-> {}, confirmed |-> {}]
\* Nothing is drawn: the widgets lose their values.
Undrawn == settings' = 1 /\ optional' = NoOptions /\ chosen' = {} /\ tick' = {}
Cleared == Undrawn /\ traces' = {} /\ analysed' = {} /\ memo' = <<>> /\ pdf' = NoPdf

Init ==
  /\ who = {} /\ page = "access" /\ owner = {} /\ traces = {}
  /\ settings = 1 /\ optional = NoOptions /\ analysed = {}
  /\ data = 1 /\ benchmark = 1 /\ memo = <<>> /\ pdf = NoPdf
  /\ chosen = {} /\ tick = {} /\ saved = NotSaved

----------------------------------------------------------------------------
(* Access. *)

\* The cookie of the browser may be of another identity at any run.
LogIn(c) ==
  /\ who' = {c} /\ who' # who /\ page' = "access" /\ Undrawn
  /\ UNCHANGED <<owner, traces, analysed, series, memo, pdf, saved>>

\* The claims are past their expiry: the state stays until somebody enters.
Expire ==
  /\ page # "access" /\ page' = "access" /\ who' = {} /\ Undrawn
  /\ UNCHANGED <<owner, traces, analysed, series, memo, pdf, saved>>

LogOut ==
  /\ who # {} /\ who' = {} /\ page' = "access" /\ owner' = {} /\ Cleared
  /\ UNCHANGED <<series, saved>>

\* Mutant: an identity is its subject, whoever issued it.
SameIdentity_SubjectOnly(c, d) == c.sub = d.sub

\* The digest of issuer and subject.
SameIdentity(c, d) == c = d

----------------------------------------------------------------------------
(* The analysis. *)

\* What a run of the page is made of.
Run == [settings |-> settings, objective |-> optional.objective, scenarios |-> optional.scenarios,
        data |-> data, benchmark |-> benchmark]

\* Mutant: the objective, which is not of the settings, is left out.
ReportKey_NoObjective(r) == <<r.settings, r.scenarios, r.data>>

\* analysis_key of the settings, the prices, the scenarios and the objective:
\* the ticker of the benchmark is one of the settings, its series is in no key.
ReportKey(r) == <<r.settings, r.scenarios, r.data, r.objective>>

\* Mutant: the model of these settings, whatever prices it was made of.
ModelKey_NoPrices(r) == <<r.settings>>

\* The prices and the parameters of the model.
ModelKey(r) == <<r.settings, r.data>>

Kept(entries, key) == \E i \in DOMAIN entries : entries[i].key = key
ModelOf(entries, key) == entries[CHOOSE i \in DOMAIN entries : entries[i].key = key].from

\* session_compute: the newest models, with what they were computed from.
Remembered(entries, r) ==
  IF Kept(entries, ModelKey(r)) THEN entries
  ELSE LET all == Append(entries, [key |-> ModelKey(r), from |-> [settings |-> r.settings, data |-> r.data]])
       IN IF Len(all) > MaxEntries THEN Tail(all) ELSE all

\* The gate: results are shown for the settings that were sent.
Rendered == page = "analysis" /\ analysed = {settings}
Offered == Rendered /\ pdf.made # <<>>

\* The run of the page after a change: it drops the reports of another run,
\* and what confirms them is dropped with the form that is not drawn.
Computed ==
  IF Rendered'
  THEN /\ memo' = Remembered(memo, Run')
       /\ pdf' = IF pdf.key = ReportKey(Run') THEN pdf ELSE [key |-> ReportKey(Run'), made |-> <<>>]
  ELSE UNCHANGED <<memo, pdf>>
Rerun ==
  /\ Computed
  /\ IF Offered' THEN UNCHANGED <<chosen, tick>> ELSE chosen' = {} /\ tick' = {}

\* require_access lets an authorized identity in, and isolates its session.
Enter ==
  /\ page = "access" /\ page' = "analysis"
  /\ UNCHANGED <<who, series, saved>>
  /\ \E c \in who :
       /\ c \in Authorized
       /\ IF \E d \in owner : SameIdentity(c, d)
          THEN UNCHANGED <<owner, traces, inputs, chosen, tick>> /\ Computed
          ELSE owner' = who /\ Cleared

\* An input of the sidebar changes: unless the settings are the analysed ones
\* the page stops at the gate, and loses what it asked below it.
Edit(s) ==
  /\ page = "analysis" /\ s # settings
  /\ settings' = s
  /\ optional' = IF analysed = {s} THEN optional ELSE [optional EXCEPT !.scenarios = FALSE]
  /\ traces' = traces \cup who
  /\ UNCHANGED <<who, page, owner, analysed, series, saved>>
  /\ Rerun

Analyze ==
  /\ page = "analysis"
  /\ analysed' = {settings} /\ traces' = traces \cup who
  /\ UNCHANGED <<who, page, owner, settings, optional, series, saved>>
  /\ Rerun

\* The objective of the report is not one of the settings.
Describe(o) ==
  /\ page = "analysis" /\ optional' = [optional EXCEPT !.objective = o]
  /\ traces' = traces \cup who
  /\ UNCHANGED <<who, page, owner, settings, analysed, series, saved>>
  /\ Rerun

\* Monte Carlo or stress results come with the comparative report.
Simulate ==
  /\ Rendered /\ optional' = [optional EXCEPT !.scenarios = ~optional.scenarios]
  /\ UNCHANGED <<who, page, owner, traces, settings, analysed, series, saved>>
  /\ Rerun

\* What a download gave is kept for an hour: the prices of the tickers and those
\* of the benchmark are two downloads (1013 and 1468), and either may be due.
Refresh ==
  /\ page = "analysis"
  /\ data' \in data .. MaxData /\ data' <= data + 1
  /\ benchmark' \in benchmark .. MaxData /\ benchmark' <= benchmark + 1
  /\ series' # series
  /\ UNCHANGED <<who, page, owner, traces, inputs, saved>>
  /\ Rerun

MakeReport ==
  /\ Rendered /\ pdf' = [pdf EXCEPT !.made = <<Run>>]
  /\ UNCHANGED <<who, page, owner, traces, inputs, series, memo, chosen, tick, saved>>

\* Another area: the sidebar goes back to what it starts as, but for what the
\* session keeps by itself.
GoTo(area) ==
  /\ page # "access" /\ area # page
  /\ page' = area /\ Undrawn
  /\ UNCHANGED <<who, owner, traces, analysed, series, saved>>
  /\ Computed

----------------------------------------------------------------------------
(* What is saved in a case. *)

Asking == Offered \/ page = "cases"

\* One account for the report; any number of them to consolidate.
Choose(accounts) ==
  /\ Asking /\ accounts # chosen
  /\ page = "analysis" => Cardinality(accounts) <= 1
  /\ chosen' = accounts
  /\ UNCHANGED <<who, page, owner, traces, inputs, series, memo, pdf, tick, saved>>

Confirm ==
  /\ Asking /\ tick' = IF tick = {} THEN {chosen} ELSE {}
  /\ UNCHANGED <<who, page, owner, traces, inputs, series, memo, pdf, chosen, saved>>

\* Only with what was chosen and with the confirmation; the version of the case
\* is compared by the store (CaseRegistry).
Save ==
  /\ Asking /\ tick # {}
  /\ Cardinality(chosen) \in (IF page = "analysis" THEN {1} ELSE 2..Cardinality(Accounts))
  /\ saved' = [accounts |-> chosen, confirmed |-> tick]
  /\ UNCHANGED <<who, page, owner, traces, inputs, series, memo, pdf, chosen, tick>>

Next ==
  \/ \E c \in Claims : LogIn(c)
  \/ Expire \/ LogOut \/ Enter
  \/ \E s \in Settings : Edit(s)
  \/ \E o \in 1..2 : Describe(o)
  \/ Analyze \/ Simulate \/ Refresh \/ MakeReport
  \/ \E area \in {"analysis", "cases"} : GoTo(area)
  \/ \E accounts \in SUBSET Accounts : Choose(accounts)
  \/ Confirm \/ Save

Spec == Init /\ [][Next]_vars

----------------------------------------------------------------------------
\* "Private inputs and computed results must not survive an identity change"
\* (access.py:41): whoever sees a page, by whatever logins, expiries and exits,
\* nothing in its session is of anybody else.
NothingOfAnotherPerson == page # "access" => traces \subseteq who

\* A report that is offered is of the settings, prices, scenarios and objective
\* of the screen, and the model on the screen is of its settings and prices
\* (app_inversiones.py:1262 and 2862).  Of the series of the benchmark, which both
\* PDFs print (2893 and 2930), it is not: no key has it, and a report made with a
\* former one stays on offer.
ShownIsOfTheInputs ==
  Rendered =>
    /\ pdf.made # <<>> => [pdf.made[1] EXCEPT !.benchmark = benchmark] = Run
    /\ Kept(memo, ModelKey(Run))
    /\ ModelOf(memo, ModelKey(Run)) = [settings |-> settings, data |-> data]
=============================================================================
