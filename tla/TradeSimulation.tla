-------------------------- MODULE TradeSimulation ---------------------------
(***************************************************************************)
(* The historical simulation of the rules of the technical page: the loop  *)
(* of _simulate (technical_backtesting.py), a bar per step, over any bars  *)
(* and any signals.  A signal of the bar before is executed at the open;   *)
(* a position leaves at the open, or at a level that the bar reaches.      *)
(*                                                                         *)
(* Prices are small integers; a reference is enough to tell what was done, *)
(* so costs, slippage and the equity curves are left out.                  *)
(***************************************************************************)
EXTENDS Integers

CONSTANTS
  Prices,     \* prices a bar may take
  ATR,        \* the ATR of the bar of a signal, constant in this model
  MaxHold,    \* 20: bars a position may be held
  Bars        \* bars of the evaluation

PricesAssumption == Prices \subseteq Nat \ {0} /\ ATR \in Nat \ {0}
BarsAssumption == MaxHold \in Nat \ {0} /\ Bars \in Nat \ {0}

VARIABLES
  i,         \* the bar to be replayed
  signal,    \* the signal at the close of the bar before: [buy, sell]
  position,  \* the open position: entry price, its bar, levels
  bar,       \* the bar replayed last
  trade      \* the trade that it closed, if any

vars == <<i, signal, position, bar, trade>>

NoPosition == [entry |-> 0, bar |-> -1, stop |-> 0, target |-> 0]
NoTrade == [price |-> 0, why |-> "none", sessions |-> 0]
Candles == {b \in [open : Prices, high : Prices, low : Prices, close : Prices] :
              b.low <= b.open /\ b.low <= b.close /\ b.open <= b.high /\ b.close <= b.high}
\* A signal never says both.
BarSignals == {g \in [buy : BOOLEAN, sell : BOOLEAN] : ~(g.buy /\ g.sell)}

Init ==
  /\ i = 1
  /\ signal \in BarSignals
  /\ position = NoPosition
  /\ bar \in Candles
  /\ trade = NoTrade

----------------------------------------------------------------------------
\* create_trade_plan: a stop that is not positive stops the simulation.
Plannable(price) == price - 2 * ATR > 0
Plan(price) ==
  [entry |-> price, bar |-> i, stop |-> price - 2 * ATR, target |-> price + 4 * ATR]

\* Mutant: the position may stay one bar more.
AtOpen_HoldsLonger(p, b) ==
  IF p = NoPosition THEN "none"
  ELSE IF b.open <= p.stop THEN "gap stop"
  ELSE IF b.open >= p.target THEN "gap target"
  ELSE IF signal.sell THEN "sell signal"
  ELSE IF i - p.bar > MaxHold THEN "sessions" ELSE "none"

\* Why a position p, open before bar b, leaves at its open.
AtOpen(p, b) ==
  IF p = NoPosition THEN "none"
  ELSE IF b.open <= p.stop THEN "gap stop"
  ELSE IF b.open >= p.target THEN "gap target"
  ELSE IF signal.sell THEN "sell signal"
  ELSE IF i - p.bar >= MaxHold THEN "sessions" ELSE "none"

\* Mutant: a bar that reaches both levels is a gain.
Within_TargetFirst(p, b) ==
  IF p = NoPosition THEN "none"
  ELSE IF b.high >= p.target THEN "target"
  ELSE IF b.low <= p.stop THEN "stop"
  ELSE IF i = Bars THEN "end" ELSE "none"

\* Why a position p leaves within bar b: of two levels, the stop.
Within(p, b) ==
  IF p = NoPosition THEN "none"
  ELSE IF b.low <= p.stop THEN "stop"
  ELSE IF b.high >= p.target THEN "target"
  ELSE IF i = Bars THEN "end" ELSE "none"

PriceWithin(p, b, why) ==
  IF why = "stop" THEN p.stop ELSE IF why = "target" THEN p.target ELSE b.close

Trade(price, why, sessions) == [price |-> price, why |-> why, sessions |-> sessions]

\* Mutant: a position that leaves at the open may be followed by another.
Enters_SameDay(left, b) == (position = NoPosition \/ left # "none") /\ signal.buy /\ Plannable(b.open)

\* Whether bar b opens a position: never one that began with another.
Enters(left, b) == position = NoPosition /\ signal.buy /\ Plannable(b.open)

\* One bar: the exit at the open, the entry at the open, the exit within.
Replay(b, next) ==
  /\ i <= Bars
  /\ position = NoPosition /\ signal.buy => Plannable(b.open)
  /\ LET left == AtOpen(position, b)
         held == IF Enters(left, b) THEN Plan(b.open)
                 ELSE IF left # "none" THEN NoPosition ELSE position
         why == Within(held, b)
     IN  /\ position' = IF why # "none" THEN NoPosition ELSE held
         /\ trade' =
              IF why # "none" THEN Trade(PriceWithin(held, b, why), why, i - held.bar + 1)
              ELSE IF left # "none" THEN Trade(b.open, left, i - position.bar)
              ELSE NoTrade
  /\ bar' = b
  /\ signal' = next
  /\ i' = i + 1

Next == \E b \in Candles, next \in BarSignals : Replay(b, next)

Spec == Init /\ [][Next]_vars

----------------------------------------------------------------------------
\* A trade lasts between one and MaxHold sessions, whichever of the two counts
\* of sessions it got (technical_backtesting.py:74), and the evaluation ends
\* without a position.
HeldInTime ==
  /\ trade # NoTrade => trade.sessions \in 1..MaxHold
  /\ position # NoPosition => i - position.bar <= MaxHold
  /\ i > Bars => position = NoPosition

\* "Intrabar ambiguity always favors the stop" (technical_backtesting.py:43):
\* a position that a bar finds open and takes to its stop leaves in that bar,
\* at the stop or worse, unless it had left at the open; the day ends without
\* another one.
NeverBetterThanStop ==
  [][position # NoPosition /\ bar'.low <= position.stop =>
       /\ position' = NoPosition
       /\ trade' # NoTrade
       /\ trade'.price <= position.stop \/ trade'.price = bar'.open]_vars

\* Nothing is bought on the signal of its own bar, and a day that began with a
\* position ends with none or with the same one.
OnePositionPerDay ==
  [][/\ position # NoPosition => position' \in {position, NoPosition}
     /\ position = NoPosition /\ (position' # NoPosition \/ trade' # NoTrade) => signal.buy]_vars

\* Of two levels a bar reaches the stop counts, no trade outlives its sessions
\* and no day has two positions.
TradesKeepTheRules == []HeldInTime /\ NeverBetterThanStop /\ OnePositionPerDay
=============================================================================
