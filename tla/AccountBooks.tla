---------------------------- MODULE AccountBooks ----------------------------
(***************************************************************************)
(* The books of an account and the controls that tie them together: the    *)
(* normalized ledger (transaction_ledger.py), the bridges of titles and of *)
(* cash (position_bridge.py, cash_bridge.py), the control of coverage      *)
(* (holdings_control.py), the import of a GBM portfolio                    *)
(* (account_import.py) and the sum of several accounts                     *)
(* (account_consolidation.py).  One currency; amounts in cents.            *)
(***************************************************************************)
EXTENDS Integers, Sequences, FiniteSets, Functions

CONSTANTS Assets,
          BridgeRows,   \* the rows a file of a bridge may have (1000)
          Refused       \* what a control that raises gives

Total(f) == SumFunction(f)
Distance(m, n) == IF m < n THEN n - m ELSE m - n
Cent == 1

(* Rows in an order: by a date they have and, of the same date, as written. *)
Precedes(date, i, j) == date[i] < date[j] \/ (date[i] = date[j] /\ i < j)
Latest(rows, date) == CHOOSE i \in rows : \A j \in rows \ {i} : Precedes(date, j, i)
Listed(rows, date) ==
  CHOOSE s \in [1..Cardinality(rows) -> rows] : \A m, n \in DOMAIN s : m < n => Precedes(date, s[m], s[n])

-----------------------------------------------------------------------------
(* Event: [id, day, settled, kind, asset, quantity, price, amount, fee] *)
Adds == {"BUY", "OPEN_POSITION", "ASSET_IN"}
Takes == {"SELL", "ASSET_OUT"}
WithoutCash == {"OPEN_POSITION", "SPLIT", "ASSET_IN", "ASSET_OUT"}
Debits == {"BUY", "WITHDRAWAL", "FEE", "TAX", "TRANSFER_OUT", "FX_OUT"}
Kinds == Adds \cup Takes \cup Debits
           \cup {"SPLIT", "DEPOSIT", "DIVIDEND", "COUPON", "INTEREST", "TRANSFER_IN", "FX_IN", "OPEN_CASH"}

(* what Event.__post_init__ admits: the amount of a trade may be a cent off *)
WellFormed(e) ==
  /\ e.kind \in Kinds /\ e.settled >= e.day
  /\ e.kind \in Adds \cup Takes \cup {"SPLIT"} => e.asset \in Assets /\ e.quantity > 0
  /\ e.kind \in {"BUY", "SELL"} => e.price > 0 /\ Distance(e.quantity * e.price, e.amount) <= Cent
  /\ e.kind \in WithoutCash => e.amount = 0 /\ e.fee = 0
  /\ e.kind \notin Adds \cup Takes \cup {"SPLIT"} => e.quantity = 0 /\ e.price = 0
  /\ e.kind \in {"ASSET_IN", "ASSET_OUT"} => e.price > 0
  /\ e.kind = "SELL" => e.fee <= e.amount

CashOf(e) == IF e.kind \in WithoutCash THEN 0
             ELSE (IF e.kind \in Debits THEN -e.amount ELSE e.amount) - e.fee

(* merge_events: one event per id, the same content or refused; by day, and *)
(* within a day in the order of the file                                    *)
Conflicting(file) == \E i, j \in DOMAIN file : file[i].id = file[j].id /\ file[i] # file[j]
Kept(file) == {i \in DOMAIN file : \A j \in 1..(i - 1) : file[j] # file[i]}
Days(file) == [i \in DOMAIN file |-> file[i].day]

(* book_at: titles on the day of the trade, cash on the day it settles *)
Until(file, cut) == {i \in Kept(file) : file[i].day <= cut}
Moved(held, e) ==
  IF \/ held = Refused
     \/ e.kind \in Takes /\ held < e.quantity
     \/ e.kind = "SPLIT" /\ held <= 0
  THEN Refused
  ELSE IF e.kind \in Adds THEN held + e.quantity
  ELSE IF e.kind \in Takes THEN held - e.quantity
  ELSE IF e.kind = "SPLIT" THEN held * e.quantity ELSE held
Held(file, rows) ==
  LET after[s \in SUBSET rows] ==
        IF s = {} THEN 0 ELSE LET i == Latest(s, Days(file)) IN Moved(after[s \ {i}], file[i])
  IN after[rows]
Titles(file, cut, asset) == Held(file, {i \in Until(file, cut) : file[i].asset = asset})
Cash(file, rows) == Total([i \in rows |-> CashOf(file[i])])
Settled_OnTradeDate(e, cut) == TRUE
Settled(e, cut) == e.settled <= cut

Book(file, cut) ==
  LET rows == Until(file, cut)
      due == {i \in rows : Settled(file[i], cut)}
  IN IF Conflicting(file) \/ \E a \in Assets : Titles(file, cut, a) = Refused THEN Refused
     ELSE [titles |-> [a \in Assets |-> Titles(file, cut, a)],
           cash |-> Cash(file, due), pending |-> Cash(file, rows \ due)]

(* value_book at the quotes of the cut *)
Value_CashOnly(book, quote) == Total([a \in Assets |-> book.titles[a] * quote[a]]) + book.cash
Value(book, quote) == Total([a \in Assets |-> book.titles[a] * quote[a]]) + book.cash + book.pending

-----------------------------------------------------------------------------
(* The rows of the two files: a balance of each asset and the moves, or the  *)
(* flows between two balances.  A file with more rows than the limit is      *)
(* refused, whatever it says.                                                *)
PositionRows(moves) == Cardinality(Assets) + Len(moves)
CashRows(flows) == Len(flows) + 2

(* Moves: a sequence of [day, asset, kind "in" or "out", quantity] *)
PositionsBridge(opening, start, moves, closing, cut) ==
  LET change == [i \in DOMAIN moves |-> IF moves[i].kind = "in" THEN moves[i].quantity ELSE -moves[i].quantity]
      balance(a, n) == opening[a] + Total([i \in {j \in 1..n : moves[j].asset = a} |-> change[i]])
  IN /\ start <= cut
     /\ PositionRows(moves) \in 1..BridgeRows /\ Cardinality(Assets) \in 1..BridgeRows
     /\ \A i \in DOMAIN moves : /\ moves[i].quantity > 0 /\ moves[i].asset \in Assets
                                /\ start <= moves[i].day /\ moves[i].day <= cut
                                /\ i > 1 => moves[i - 1].day <= moves[i].day
                                /\ balance(moves[i].asset, i) >= 0
     /\ \A a \in Assets : opening[a] >= 0 /\ closing[a] = balance(a, Len(moves))

(* Flows of cash: a sequence of [day, kind, amount] *)
CashBridge(opening, start, flows, closing, cut, outside) ==
  /\ opening >= 0 /\ closing >= 0 /\ CashRows(flows) \in 2..BridgeRows
  /\ \A i \in DOMAIN flows : /\ flows[i].amount > 0
                             /\ start <= flows[i].day /\ flows[i].day <= cut
                             /\ i > 1 => flows[i - 1].day <= flows[i].day
  /\ closing = opening
       + Total([i \in DOMAIN flows |-> IF flows[i].kind = "in" THEN flows[i].amount ELSE -flows[i].amount])
  /\ closing = outside

Coverage(holdings, c) ==
  /\ c.analyzed = Total(holdings)
  /\ c.cash >= 0 /\ c.total > 0
  /\ c.total = c.analyzed + c.cash + c.pending + c.other

(* read_gbm_draft and confirm_gbm_draft: rows [label, quantity, price,      *)
(* value], the cash below them, and the person's mapping of the rows        *)
Imported(rows, cash, mapping, declared) ==
  IF /\ DOMAIN mapping = DOMAIN rows
     /\ \A i \in DOMAIN rows : mapping[i] \in Assets /\ rows[i].value = rows[i].quantity * rows[i].price
     /\ IsInjective(mapping)
     /\ LET total == Total([i \in DOMAIN rows |-> rows[i].value])
        IN declared > 0 /\ total > 0 /\ total + cash = declared
  THEN [holdings |-> [a \in Range(mapping) |-> rows[CHOOSE i \in DOMAIN rows : mapping[i] = a].value],
        cash |-> cash, total |-> declared]
  ELSE Refused

(* consolidate_snapshots: accounts [holdings, series (the symbol's ISIN and *)
(* market), coverage, cut], each symbol one series                          *)
HeldIn(account, key) ==
  Total([a \in {b \in DOMAIN account.holdings : account.series[b] = key} |-> account.holdings[a]])
Summed_LastAccount(accounts, key) ==
  LET holding == {i \in DOMAIN accounts : HeldIn(accounts[i], key) > 0}
  IN HeldIn(accounts[CHOOSE i \in holding : \A j \in holding : j <= i], key)
Summed(accounts, key) == Total([i \in DOMAIN accounts |-> HeldIn(accounts[i], key)])
Consolidated(accounts) ==
  LET keys == UNION {{accounts[i].series[a] : a \in DOMAIN accounts[i].holdings} : i \in DOMAIN accounts}
  IN IF /\ Len(accounts) >= 2
        /\ \A i, j \in DOMAIN accounts :
             /\ accounts[i].cut = accounts[j].cut
             /\ i # j => accounts[i].holdings # accounts[j].holdings
             /\ \A a \in DOMAIN accounts[i].holdings \cap DOMAIN accounts[j].holdings :
                  accounts[i].series[a] = accounts[j].series[a]
        /\ \A i \in DOMAIN accounts :
             accounts[i].coverage.analyzed = Total(accounts[i].holdings)
     THEN [positions |-> [k \in keys |-> Summed(accounts, k)],
           total |-> Total([i \in DOMAIN accounts |-> accounts[i].coverage.total])]
     ELSE Refused

-----------------------------------------------------------------------------
(* The movements of a ledger between two cuts, written as the two bridges   *)
(* ask for them, lead from the book of the first cut to that of the second: *)
(* titles by the day of the trade, cash by the day of settlement, nothing   *)
(* lost or counted twice (transaction_ledger.py:184-209,                    *)
(* position_bridge.py:96-187, cash_bridge.py:46-101).  Only a file with too *)
(* many rows for the bridge is refused (position_bridge.py:66,              *)
(* cash_bridge.py:63).                                                      *)
MovesOf(file, from, to) ==
  LET chosen == {i \in Kept(file) : file[i].kind \in Adds \cup Takes /\ file[i].day > from /\ file[i].day <= to}
      listed == Listed(chosen, Days(file))
  IN [n \in DOMAIN listed |-> LET e == file[listed[n]]
                              IN [day |-> e.day, asset |-> e.asset, quantity |-> e.quantity,
                                  kind |-> IF e.kind \in Adds THEN "in" ELSE "out"]]
FlowsOf(file, from, to) ==
  LET chosen == {i \in Kept(file) : CashOf(file[i]) # 0 /\ file[i].settled > from /\ file[i].settled <= to}
      listed == Listed(chosen, [i \in DOMAIN file |-> file[i].settled])
  IN [n \in DOMAIN listed |-> LET c == CashOf(file[listed[n]])
                              IN [day |-> file[listed[n]].settled,
                                  kind |-> IF c > 0 THEN "in" ELSE "out", amount |-> IF c > 0 THEN c ELSE -c]]
BridgesFollow(file, from, to, first, last) ==
  (first # Refused /\ last # Refused /\ first.cash >= 0 /\ last.cash >= 0
     /\ \A i \in DOMAIN file : file[i].kind # "SPLIT") =>
  LET moves == MovesOf(file, from, to)
      flows == FlowsOf(file, from, to)
  IN /\ PositionsBridge(first.titles, from, moves, last.titles, to) <=> PositionRows(moves) \in 1..BridgeRows
     /\ CashBridge(first.cash, from, flows, last.cash, to, last.cash) <=> CashRows(flows) <= BridgeRows

(* A trade at the quote creates no wealth: at every cut the value is what   *)
(* was brought in by then less what was taken out and charged, whether or   *)
(* not it has settled, but for the cent that each trade may be off          *)
(* (transaction_ledger.py:101 and 205-249).                                 *)
Brought(e, quote) ==
  CASE e.kind \in {"OPEN_POSITION", "ASSET_IN"} -> e.quantity * quote[e.asset]
    [] e.kind = "ASSET_OUT" -> -(e.quantity * quote[e.asset])
    [] e.kind \in {"BUY", "SELL"} -> -e.fee
    [] OTHER -> CashOf(e)
Rounded(e) == IF e.kind \in {"BUY", "SELL"} THEN Cent ELSE 0
NothingIsCreated(file, cut, quote, book) ==
  (book # Refused /\ \A i \in DOMAIN file : /\ file[i].kind # "SPLIT"
                                            /\ file[i].kind \in {"BUY", "SELL"} => file[i].price = quote[file[i].asset])
    => Distance(Value(book, quote), Total([i \in Until(file, cut) |-> Brought(file[i], quote)]))
         <= Total([i \in Until(file, cut) |-> Rounded(file[i])])

(* The positions of the consolidated portfolio and what its accounts keep   *)
(* outside them add up to the sum of their totals, with a series held in    *)
(* several accounts taken once per account (account_consolidation.py), and  *)
(* what an import confirmed passes the control of its coverage.             *)
AccountsAddUp(consolidated, accounts) ==
  consolidated # Refused =>
    /\ \A i \in DOMAIN accounts : Coverage(accounts[i].holdings, accounts[i].coverage)
    /\ consolidated.total = Total(consolidated.positions)
        + Total([i \in DOMAIN accounts |-> LET c == accounts[i].coverage IN c.cash + c.pending + c.other])
=============================================================================
