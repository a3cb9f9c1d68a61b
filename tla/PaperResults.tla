---------------------------- MODULE PaperResults ----------------------------
(***************************************************************************)
(* The results of the Paper orders of one symbol, FIFO: from the single    *)
(* executions (alpaca_fill_results.py), from the receipts of the orders    *)
(* (alpaca_results.py), and the curve against holding the first entry      *)
(* (alpaca_performance.py).                                                *)
(*                                                                         *)
(* The executions are a function of their ids, [order, side, quantity,     *)
(* price, time], and the attempts one of their sequence in the log, [id,   *)
(* side, prepared, unresolved, order, filled, whole, notional, at]: the    *)
(* order is NoOrder until a receipt is known, notional stands for the      *)
(* average price times what was filled.  A cost is a percentage, and what  *)
(* is net of it is in hundredths.                                          *)
(***************************************************************************)
EXTENDS Integers, FiniteSets, Functions

CONSTANTS NoOrder, Outside, Refused

Total(f) == SumFunction(f)
Smaller(a, b) == IF a < b THEN a ELSE b

-----------------------------------------------------------------------------
(* Whether the executions of an order are all there *)
Of(fills, order) == {f \in DOMAIN fills : fills[f].order = order}
Explained(attempt, fills) ==
  LET own == Of(fills, attempt.order)
  IN IF attempt.order = NoOrder THEN ~attempt.unresolved
     ELSE /\ Total([f \in own |-> fills[f].quantity]) = attempt.filled
          /\ Total([f \in own |-> fills[f].quantity * fills[f].price]) = attempt.notional
          /\ \A f \in own : fills[f].side = attempt.side /\ fills[f].time >= attempt.prepared

(* the attempt a purchase belongs to, Outside for one of another program *)
EntryOf(attempts, fill) ==
  LET of == {a \in DOMAIN attempts : attempts[a].order = fill.order /\ attempts[a].side = "buy"}
  IN IF of = {} THEN Outside ELSE attempts[CHOOSE a \in of : TRUE].id

Executions(attempts, fills) ==
  [f \in DOMAIN fills |-> [side |-> fills[f].side, quantity |-> fills[f].quantity, price |-> fills[f].price,
                           time |-> fills[f].time, entry |-> EntryOf(attempts, fills[f])]]

(* the orders that were executed, by the hour of their last execution when  *)
(* there are sales, by that of their preparation otherwise                  *)
Executed(attempts) == {a \in DOMAIN attempts : attempts[a].order # NoOrder /\ attempts[a].filled > 0}
When_Prepared(attempts, a) == attempts[a].prepared
When(attempts, a) ==
  IF \E b \in Executed(attempts) : attempts[b].side = "sell" THEN attempts[a].at ELSE attempts[a].prepared
Orders(attempts) ==
  [a \in Executed(attempts) |->
     [side |-> attempts[a].side, quantity |-> attempts[a].filled,
      price |-> attempts[a].notional \div attempts[a].filled,
      time |-> When(attempts, a), entry |-> attempts[a].id]]

-----------------------------------------------------------------------------
(* FIFO over trades [side, quantity, price, time, entry], by time and then  *)
(* by id.  A book is what is left of each purchase, what each sale used of  *)
(* each of them, and whether a sale lacked purchases.                       *)
Precedes(date, i, j) == date[i] < date[j] \/ (date[i] = date[j] /\ i < j)
Latest(rows, date) == CHOOSE i \in rows : \A j \in rows \ {i} : Precedes(date, j, i)
Times(trades) == [i \in DOMAIN trades |-> trades[i].time]

Used_FromEachLot(trades, left, i) == [b \in DOMAIN trades |-> Smaller(left[b], trades[i].quantity)]
Used(trades, left, i) ==
  [b \in DOMAIN trades |->
     LET older == Total([c \in {c \in DOMAIN trades : Precedes(Times(trades), c, b)} |-> left[c]])
     IN Smaller(left[b], trades[i].quantity - Smaller(trades[i].quantity, older))]

Start(trades) ==
  [left |-> [b \in DOMAIN trades |-> 0],
   used |-> [i \in DOMAIN trades |-> [b \in DOMAIN trades |-> 0]], missing |-> FALSE]
Taken(trades, book, i) ==
  LET t == trades[i]
      used == Used(trades, book.left, i)
  IN IF book.missing THEN book
     ELSE IF t.side = "buy" THEN [book EXCEPT !.left[i] = t.quantity]
     ELSE IF Total(book.left) < t.quantity THEN [book EXCEPT !.missing = TRUE]
     ELSE [left |-> [b \in DOMAIN trades |-> book.left[b] - used[b]],
           used |-> [book.used EXCEPT ![i] = used], missing |-> FALSE]
Book(trades, rows) ==
  LET after[s \in SUBSET rows] ==
        IF s = {} THEN Start(trades) ELSE LET i == Latest(s, Times(trades)) IN Taken(trades, after[s \ {i}], i)
  IN after[rows]
Fifo(trades) == Book(trades, DOMAIN trades)

-----------------------------------------------------------------------------
(* The row of an entry *)
LotsOf(trades, entries) == {b \in DOMAIN trades : trades[b].side = "buy" /\ trades[b].entry \in entries}
Row(trades, book, entry, cost) ==
  LET lots == LotsOf(trades, {entry})
      closed(gain(_, _)) == Total([b \in lots |-> Total([i \in DOMAIN trades |-> book.used[i][b] * gain(i, b)])])
  IN [bought |-> Total([b \in lots |-> trades[b].quantity]),
      left |-> Total([b \in lots |-> book.left[b]]),
      basis |-> Total([b \in lots |-> book.left[b] * trades[b].price]),
      closed |-> closed(LAMBDA i, b : 1),
      gross |-> closed(LAMBDA i, b : trades[i].price - trades[b].price),
      net |-> closed(LAMBDA i, b : trades[i].price * (100 - cost) - trades[b].price * (100 + cost))]

Entries(trades) == {trades[b].entry : b \in {c \in DOMAIN trades : trades[c].side = "buy"}} \ {Outside}
Answer(trades, held, cost) ==
  LET book == Fifo(trades)
  IN IF book.missing THEN Refused
     ELSE [rows |-> [e \in Entries(trades) |-> Row(trades, book, e, cost)], reconciled |-> Total(book.left) = held]

(* fill_results for the symbol: what it answers, and whether the open part  *)
(* may be valued at the broker's mark                                       *)
Results(attempts, fills, held, cost) ==
  IF \E a \in DOMAIN attempts : ~Explained(attempts[a], fills) THEN Refused
  ELSE Answer(Executions(attempts, fills), held, cost)

(* paper_results, which asks for orders filled whole and none from outside *)
OrderResults(attempts, held, cost) ==
  IF \E a \in Executed(attempts) : ~attempts[a].whole THEN Refused ELSE Answer(Orders(attempts), held, cost)

-----------------------------------------------------------------------------
(* compare_to_hold: the cash and the shares of the strategy at a day, after *)
(* the purchases and sales of its entries, and of its first entry held      *)
Strategy(trades, book, entries, cost, capital, day) ==
  LET bought == {b \in LotsOf(trades, entries) : trades[b].time <= day}
      sales == {i \in DOMAIN trades : trades[i].time <= day}
      sold(worth(_)) == Total([i \in sales |-> Total([b \in LotsOf(trades, entries) |-> book.used[i][b] * worth(i)])])
  IN [cash |-> 100 * capital - Total([b \in bought |-> trades[b].quantity * trades[b].price * (100 + cost)])
                 + sold(LAMBDA i : trades[i].price * (100 - cost)),
      shares |-> Total([b \in bought |-> trades[b].quantity]) - sold(LAMBDA i : 1)]

Opening(trades, entries) ==
  LET lots == LotsOf(trades, entries)
  IN CHOOSE b \in lots : \A c \in lots \ {b} : Precedes(Times(trades), b, c)
Hold(trades, entries, cost, capital, day) ==
  LET bought == {b \in LotsOf(trades, {trades[Opening(trades, entries)].entry}) : trades[b].time <= day}
  IN [cash |-> 100 * capital - Total([b \in bought |-> trades[b].quantity * trades[b].price * (100 + cost)]),
      shares |-> Total([b \in bought |-> trades[b].quantity])]

Curve(trades, book, entries, cost, capital, bars) ==
  LET start == trades[Opening(trades, entries)].time
      strategy(day) == Strategy(trades, book, entries, cost, capital, day)
      hold(day) == Hold(trades, entries, cost, capital, day)
      days == {d \in bars : d >= start}
  IN IF \/ LotsOf(trades, entries) = {} \/ days = {} \/ \A d \in bars : d > start
        \/ \E d \in days : strategy(d).cash < -100 \/ hold(d).cash < -100 \/ strategy(d).shares < 0
     THEN Refused
     ELSE [d \in days |-> [strategy |-> strategy(d), hold |-> hold(d)]]

-----------------------------------------------------------------------------
(* Nothing is lost between the executions and the rows: each entry is what  *)
(* it still holds and what was closed, and after the last execution the     *)
(* cash of the curve is that of the closed results and of the basis still   *)
(* open, costs included.  The open part is valued exactly when the position *)
(* is what was traded.  No day has sold what was bought later, and until    *)
(* something is sold or another entry is bought the strategy is the holding *)
(* (alpaca_fill_results.py:63-172, alpaca_performance.py:42-81).            *)
RowsAddUp(x) ==
  LET answer == Results(x.attempts, x.fills, x.held, x.cost)
      trades == Executions(x.attempts, x.fills)
      book == Fifo(trades)
      rows == answer.rows
      entries == DOMAIN rows \cap x.entries
      curve == Curve(trades, book, entries, x.cost, x.capital, x.bars)
      traded(side) == Total([f \in {g \in DOMAIN x.fills : x.fills[g].side = side} |-> x.fills[f].quantity])
  IN answer # Refused =>
     /\ answer.reconciled <=> traded("buy") - traded("sell") = x.held
     /\ \A e \in DOMAIN rows : rows[e].left + rows[e].closed = rows[e].bought
     /\ \A day \in x.bars : Strategy(trades, book, entries, x.cost, x.capital, day).shares >= 0
     /\ curve # Refused =>
          \A d \in DOMAIN curve :
            /\ (\A f \in DOMAIN x.fills : x.fills[f].time <= d) =>
                 /\ curve[d].strategy.cash
                      = 100 * x.capital + Total([e \in entries |-> rows[e].net - rows[e].basis * (100 + x.cost)])
                 /\ curve[d].strategy.shares = Total([e \in entries |-> rows[e].left])
            /\ (\A f \in DOMAIN trades : trades[f].time <= d =>
                  trades[f].side = "buy" /\ (trades[f].entry \in entries => trades[f].entry = trades[Opening(trades, entries)].entry))
                 => curve[d].strategy = curve[d].hold

(* The two readings agree: where every order was filled whole, at once and  *)
(* by this program, its receipts and its executions give the same rows      *)
(* (alpaca_results.py:12-91, alpaca_fill_results.py:15-201).                *)
ReadingsAgree(x) ==
  (/\ \A a \in DOMAIN x.attempts : Explained(x.attempts[a], x.fills)
   /\ \A a \in Executed(x.attempts) :
        /\ x.attempts[a].whole
        /\ \E f \in DOMAIN x.fills : Of(x.fills, x.attempts[a].order) = {f} /\ x.fills[f].time = x.attempts[a].at
   /\ \A f \in DOMAIN x.fills : \E a \in DOMAIN x.attempts : x.attempts[a].order = x.fills[f].order
   /\ \A f, g \in DOMAIN x.fills : x.fills[f].time = x.fills[g].time => f = g
   /\ \E a \in Executed(x.attempts) : x.attempts[a].side = "sell")
  => Results(x.attempts, x.fills, x.held, x.cost) = OrderResults(x.attempts, x.held, x.cost)
=============================================================================
