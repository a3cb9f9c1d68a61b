---------------------------- MODULE Pages_proofs ----------------------------
(***************************************************************************)
(* What the pages keep, for any values of their constants: the operations  *)
(* page (Desk), the account analysis (AccountFlow), the technical journal  *)
(* (TechnicalJournal), the candles behind a signal (TechnicalSignals) and  *)
(* the simulation of its rules (TradeSimulation), each with its inductive  *)
(* invariant, put together as in Pages; and whose data a session shows,    *)
(* for any identities, settings and bounds (Shell, Watchlists).            *)
(***************************************************************************)
EXTENDS Pages, Shell, Watchlists, FiniteSets, FiniteSetTheorems, SequenceTheorems, TLAPS

----------------------------------------------------------------------------
(* The operations page.  A book is of the account whose key it is under, a  *)
(* proposal that used a model used that of its own account.                 *)

DeskInv ==
  /\ \A a \in Accounts : books[a] \in {a, Nobody}
  /\ DOMAIN books = Accounts
  /\ proposal # Operations!Nowhere => proposal.model \in {proposal.of, Nobody}
  /\ other = [of |-> other.of, done |-> other.done, catalogue |-> other.catalogue]
  /\ other.catalogue \in {other.of, Nobody}
  /\ evidence # Operations!NotSaved =>
       /\ evidence.what.of = evidence.account
       /\ evidence.what.model \in {evidence.account, Nobody}
  /\ \A a \in Accounts : monitors[a] # Operations!Nowhere => monitors[a] = Operations!Of(a, a)
  /\ DOMAIN monitors = Accounts
  /\ books = [a \in Accounts |-> books[a]]
  /\ monitors = [a \in Accounts |-> monitors[a]]

\* Nothing was computed or saved at first.
LEMMA DeskInit == Operations!Init => DeskInv
BY DEF Operations!Init, DeskInv, Operations!NotSaved, Operations!Nowhere, Operations!NoFlow, Operations!Of

\* Every run of the page keeps what it saves with its account.
LEMMA DeskStep == DeskInv /\ [Operations!Next]_(Operations!vars) => DeskInv'
<1> SUFFICES ASSUME DeskInv, [Operations!Next]_(Operations!vars) PROVE DeskInv'
  OBVIOUS
<1> USE DEF DeskInv
<1>1. CASE UNCHANGED <<books, proposal, other, evidence, monitors>>
  BY <1>1
<1>2. ASSUME NEW a \in Accounts, Operations!OpenAnalysis(a)
      PROVE  DeskInv'
  BY <1>2 DEF Operations!OpenAnalysis
<1>3. CASE Operations!Complete
  BY <1>3 DEF Operations!Complete
<1>4. ASSUME NEW r \in Given, Operations!Upload(r)
      PROVE  DeskInv'
  BY <1>4 DEF Operations!Upload, Operations!BookKey
<1>5. ASSUME NEW optimize \in BOOLEAN, Operations!Calculate(optimize)
      PROVE  DeskInv'
  BY <1>5 DEF Operations!Calculate, Operations!OpenFor, Operations!Of
<1>6. CASE Operations!SavePerformance \/ Operations!SaveWealth
  BY <1>6 DEF Operations!SavePerformance, Operations!SaveWealth, Operations!Attach, Operations!Of
<1>7. CASE Operations!SaveProposal
  BY <1>7 DEF Operations!SaveProposal, Operations!Binds, Operations!Attach
<1>8. CASE Operations!ApplyCatalogue
  BY <1>8 DEF Operations!ApplyCatalogue
<1>9. CASE Operations!SaveSchedule
  <2>1. UNCHANGED <<books, proposal, other, evidence>>
    BY <1>9 DEF Operations!SaveSchedule
  <2>2. \/ UNCHANGED monitors
        \/ /\ books[account] # Nobody /\ other.of = account
           /\ monitors' = [monitors EXCEPT ![account] = Operations!Of(books[account], other.of)]
    BY <1>9 DEF Operations!SaveSchedule, Operations!Watchable, Operations!OpenFor, Operations!BookKey
  <2> QED BY <2>1, <2>2
<1> QED BY <1>1, <1>2, <1>3, <1>4, <1>5, <1>6, <1>7, <1>8, <1>9
        DEF Operations!Next, Operations!vars, Operations!GoTo, Operations!Show, Operations!Refuse,
            Operations!Remove, Operations!Tick

\* The operations page never works on what is of another account, whatever two
\* pages opened and showed in between.
THEOREM DeskIsOfItsAccount == Operations!Spec => []Operations!WorkIsOfItsAccount
<1>1. DeskInv => Operations!WorkIsOfItsAccount
  BY DEF DeskInv, Operations!WorkIsOfItsAccount, Operations!EvidenceIsOfItsAccount,
         Operations!MonitorIsOfItsAccount
<1> QED BY <1>1, DeskInit, DeskStep, PTL DEF Operations!Spec

----------------------------------------------------------------------------
(* The simulation.  A position is held for fewer sessions than it may be,   *)
(* and none is left at the end.                                             *)

HoldsInv ==
  /\ i \in Nat \ {0}
  /\ i <= Bars + 1
  /\ position # Simulation!NoPosition => position.bar \in Nat /\ i - position.bar \in 1..MaxHold
  /\ i > Bars => position = Simulation!NoPosition
  /\ position.stop \in Int
  /\ trade # Simulation!NoTrade => trade.sessions \in 1..MaxHold

\* No position is held at first.
LEMMA HoldsInit == Simulation!BarsAssumption /\ Simulation!Init => HoldsInv
BY DEF Simulation!BarsAssumption, Simulation!Init, HoldsInv, Simulation!NoPosition

\* A bar opens, holds or closes a position within its rules.
LEMMA HoldsStep ==
  ASSUME Simulation!BarsAssumption, Simulation!PricesAssumption,
         HoldsInv, [Simulation!Next]_(Simulation!vars)
  PROVE  HoldsInv'
<1>1. CASE UNCHANGED Simulation!vars
  BY <1>1 DEF HoldsInv, Simulation!vars
<1>2. ASSUME NEW b \in Simulation!Candles, NEW next \in Simulation!BarSignals,
             Simulation!Replay(b, next)
      PROVE  HoldsInv'
  <2> DEFINE goes == Simulation!AtOpen(position, b)
             held == IF Simulation!Enters(goes, b) THEN Simulation!Plan(b.open)
                     ELSE IF goes # "none" THEN Simulation!NoPosition ELSE position
             why == Simulation!Within(held, b)
  <2>1. /\ i <= Bars /\ i' = i + 1
        /\ position' = IF why # "none" THEN Simulation!NoPosition ELSE held
        /\ trade' =
             IF why # "none"
             THEN Simulation!Trade(Simulation!PriceWithin(held, b, why), why, i - held.bar + 1)
             ELSE IF goes # "none" THEN Simulation!Trade(b.open, goes, i - position.bar)
             ELSE Simulation!NoTrade
    BY <1>2 DEF Simulation!Replay
  <2>2. held # Simulation!NoPosition => held.bar \in Nat /\ i - held.bar \in 0..(MaxHold - 1)
    <3>1. CASE Simulation!Enters(goes, b)
      BY <3>1 DEF HoldsInv, Simulation!Plan, Simulation!BarsAssumption
    <3>2. CASE ~Simulation!Enters(goes, b) /\ goes # "none"
      BY <3>2
    <3>3. CASE ~Simulation!Enters(goes, b) /\ goes = "none"
      <4>1. held = position
        BY <3>3
      <4>2. position # Simulation!NoPosition => ~(i - position.bar >= MaxHold)
        BY <3>3 DEF Simulation!AtOpen
      <4> QED BY <4>1, <4>2 DEF HoldsInv, Simulation!BarsAssumption
    <3> QED BY <3>1, <3>2, <3>3
  <2>3. why # "none" => held # Simulation!NoPosition
    BY DEF Simulation!Within
  <2>4. goes # "none" => position # Simulation!NoPosition
    BY DEF Simulation!AtOpen
  <2>5. i = Bars => why # "none" \/ held = Simulation!NoPosition
    BY DEF Simulation!Within
  <2> HIDE DEF goes, held, why
  <2>6. trade' # Simulation!NoTrade => trade'.sessions \in 1..MaxHold
    <3>1. CASE why # "none"
      BY <2>1, <2>2, <2>3, <3>1 DEF HoldsInv, Simulation!Trade, Simulation!BarsAssumption
    <3>2. CASE why = "none" /\ goes # "none"
      BY <2>1, <2>4, <3>2 DEF HoldsInv, Simulation!Trade
    <3>3. CASE why = "none" /\ goes = "none"
      BY <2>1, <3>3
    <3> QED BY <3>1, <3>2, <3>3
  <2>7. position' # Simulation!NoPosition =>
          position'.bar \in Nat /\ i' - position'.bar \in 1..MaxHold
    BY <2>1, <2>2 DEF HoldsInv, Simulation!BarsAssumption
  <2>8. i' \in Nat \ {0} /\ i' <= Bars + 1 /\ (i' > Bars => position' = Simulation!NoPosition)
    BY <2>1, <2>5 DEF HoldsInv, Simulation!BarsAssumption
  <2>9. held.stop \in Int
    <3>1. Simulation!NoPosition.stop \in Int
      BY DEF Simulation!NoPosition
    <3>2. b.open - 2 * ATR \in Int
      <4>1. b.open \in Prices
        BY DEF Simulation!Candles
      <4>2. b.open \in Nat /\ ATR \in Nat
        BY <4>1 DEF Simulation!PricesAssumption
      <4> QED BY <4>2
    <3>3. Simulation!Plan(b.open).stop = b.open - 2 * ATR
      BY DEF Simulation!Plan
    <3> QED BY <3>1, <3>2, <3>3 DEF HoldsInv, held
  <2>10. position'.stop \in Int
    BY <2>1, <2>9 DEF Simulation!NoPosition
  <2> QED BY <2>6, <2>7, <2>8, <2>10 DEF HoldsInv
<1> QED BY <1>1, <1>2 DEF Simulation!Next

\* Of two levels a bar reaches the stop counts, no trade outlives its sessions
\* and no day has two positions.
THEOREM SimulationKeepsTheRules ==
  ASSUME Simulation!BarsAssumption, Simulation!PricesAssumption
  PROVE  Simulation!Spec => Simulation!TradesKeepTheRules
<1>1. HoldsInv => Simulation!HeldInTime
  BY DEF HoldsInv, Simulation!HeldInTime
<1>2. Simulation!Init => HoldsInv
  BY HoldsInit
<1>3. HoldsInv /\ [Simulation!Next]_(Simulation!vars) => HoldsInv'
  BY HoldsStep
<1> DEFINE Stops == position # Simulation!NoPosition /\ bar'.low <= position.stop =>
                      /\ position' = Simulation!NoPosition
                      /\ trade' # Simulation!NoTrade
                      /\ trade'.price <= position.stop \/ trade'.price = bar'.open
           Once == /\ position # Simulation!NoPosition =>
                        position' \in {position, Simulation!NoPosition}
                   /\ position = Simulation!NoPosition
                        /\ (position' # Simulation!NoPosition \/ trade' # Simulation!NoTrade)
                      => signal.buy
<1>4. HoldsInv /\ [Simulation!Next]_(Simulation!vars) => [Stops]_(Simulation!vars)
  <2> SUFFICES ASSUME HoldsInv, NEW b \in Simulation!Candles, NEW next \in Simulation!BarSignals,
                      Simulation!Replay(b, next),
                      position # Simulation!NoPosition, bar'.low <= position.stop
               PROVE  /\ position' = Simulation!NoPosition
                      /\ trade' # Simulation!NoTrade
                      /\ trade'.price <= position.stop \/ trade'.price = bar'.open
    BY DEF Simulation!Next
  <2>1. /\ bar' = b
        /\ ~Simulation!Enters(Simulation!AtOpen(position, b), b)
    BY DEF Simulation!Replay, Simulation!Enters
  <2>2. CASE Simulation!AtOpen(position, b) = "none"
    <3>1. /\ position' = Simulation!NoPosition
          /\ trade' = Simulation!Trade(position.stop, "stop", i - position.bar + 1)
      <4>1. Simulation!Within(position, b) = "stop"
        BY <2>1 DEF Simulation!Within
      <4> QED BY <2>1, <2>2, <4>1 DEF Simulation!Replay, Simulation!PriceWithin
    <3>2. b.low <= position.stop
      BY <2>1
    <3> QED BY <3>1, <3>2, <2>1 DEF HoldsInv, Simulation!Trade, Simulation!NoTrade
  <2>3. CASE Simulation!AtOpen(position, b) # "none"
    <3>1. Simulation!Within(Simulation!NoPosition, b) = "none"
      BY DEF Simulation!Within
    <3>2. /\ position' = Simulation!NoPosition
          /\ trade' = Simulation!Trade(b.open, Simulation!AtOpen(position, b), i - position.bar)
      BY <2>1, <2>3, <3>1 DEF Simulation!Replay
    <3> QED BY <3>2, <2>1, <2>3 DEF Simulation!Trade, Simulation!NoTrade
  <2> QED BY <2>2, <2>3
<1>5. [Simulation!Next]_(Simulation!vars) => [Once]_(Simulation!vars)
  <2> SUFFICES ASSUME NEW b \in Simulation!Candles, NEW next \in Simulation!BarSignals,
                      Simulation!Replay(b, next)
               PROVE  Once
    BY DEF Simulation!Next
  <2>1. CASE position # Simulation!NoPosition
    BY <2>1 DEF Simulation!Replay, Simulation!Enters
  <2>2. CASE position = Simulation!NoPosition /\ ~signal.buy
    <3>1. /\ Simulation!AtOpen(position, b) = "none"
          /\ ~Simulation!Enters("none", b)
          /\ Simulation!Within(position, b) = "none"
      BY <2>2 DEF Simulation!AtOpen, Simulation!Enters, Simulation!Within
    <3> QED BY <2>2, <3>1 DEF Simulation!Replay
  <2>3. CASE position = Simulation!NoPosition /\ signal.buy
    BY <2>3
  <2> QED BY <2>1, <2>2, <2>3
<1> HIDE DEF Stops, Once
<1>6. Simulation!Spec => []Simulation!HeldInTime
  BY <1>1, <1>2, <1>3, PTL DEF Simulation!Spec
<1>7. Simulation!Spec => [][Stops]_(Simulation!vars)
  BY <1>2, <1>3, <1>4, PTL DEF Simulation!Spec
<1>8. Simulation!Spec => [][Once]_(Simulation!vars)
  BY <1>5, PTL DEF Simulation!Spec
<1> QED BY <1>6, <1>7, <1>8
        DEF Simulation!TradesKeepTheRules, Simulation!NeverBetterThanStop,
            Simulation!OnePositionPerDay, Stops, Once

----------------------------------------------------------------------------
(* Ticks, minutes and days. *)

\* A time is its whole units and what is left of the last one.
LEMMA UnitsAndRest ==
  ASSUME NEW unit \in Nat \ {0}, NEW t \in Nat
  PROVE  /\ t \div unit \in Nat /\ t % unit \in 0..(unit - 1)
         /\ t = unit * (t \div unit) + (t % unit)
<1>1. t \div unit \in Nat
  OBVIOUS
<1>2. t % unit \in 0..(unit - 1)
  OBVIOUS
<1>3. t = unit * (t \div unit) + (t % unit)
  OBVIOUS
<1> QED BY <1>1, <1>2, <1>3

\* One unit more is at least that much more time.
LEMMA UnitMore ==
  ASSUME NEW unit \in Nat, NEW a \in Nat, NEW b \in Nat, a < b
  PROVE  unit * a + unit <= unit * b
<1>1. PICK k \in Nat : b = (a + 1) + k
  <2>1. b - (a + 1) \in Nat /\ b = (a + 1) + (b - (a + 1))
    OBVIOUS
  <2> QED BY <2>1
<1>2. unit * b = unit * (a + 1) + unit * k
  BY <1>1
<1>3. unit * (a + 1) = unit * a + unit
  OBVIOUS
<1>4. unit * a \in Nat /\ unit * k \in Nat
  OBVIOUS
<1> QED BY <1>2, <1>3, <1>4

\* A later time is not of an earlier unit.
LEMMA UnitsGrow ==
  ASSUME NEW unit \in Nat \ {0}, NEW t \in Nat, NEW u \in Nat, t <= u
  PROVE  t \div unit <= u \div unit
<1> DEFINE a == t \div unit
           b == u \div unit
<1>1. /\ a \in Nat /\ b \in Nat
      /\ t = unit * a + (t % unit) /\ u = unit * b + (u % unit)
      /\ t % unit \in 0..(unit - 1) /\ u % unit \in 0..(unit - 1)
  BY UnitsAndRest
<1> HIDE DEF a, b
<1>2. SUFFICES ASSUME b < a PROVE FALSE
  BY <1>1 DEF a, b
<1>3. unit * b + unit <= unit * a
  BY <1>1, <1>2, UnitMore
<1>4. unit * a \in Nat /\ unit * b \in Nat
  BY <1>1
<1>5. t >= unit * a /\ u < unit * b + unit
  BY <1>1, <1>4
<1> QED BY <1>3, <1>4, <1>5

\* Of two times of different units, the later one is as far from the first as
\* the rest of its unit at least.
LEMMA RestOfTheUnit ==
  ASSUME NEW unit \in Nat \ {0}, NEW t \in Nat, NEW u \in Nat, t <= u,
         t \div unit # u \div unit
  PROVE  (t % unit) + (u - t) >= unit /\ t \div unit < u \div unit
<1> DEFINE a == t \div unit
           b == u \div unit
<1>1. /\ a \in Nat /\ b \in Nat
      /\ t = unit * a + (t % unit) /\ u = unit * b + (u % unit)
      /\ t % unit \in 0..(unit - 1) /\ u % unit \in 0..(unit - 1)
  BY UnitsAndRest
<1>2. a <= b /\ a # b
  BY UnitsGrow
<1> HIDE DEF a, b
<1>3. unit * a + unit <= unit * b
  BY <1>1, <1>2, UnitMore
<1>4. unit * a \in Nat /\ unit * b \in Nat
  BY <1>1
<1>5. (t % unit) + (u - t) >= unit
  <2> DEFINE x == unit * a
             y == unit * b
             r == t % unit
             s == u % unit
  <2>1. /\ x \in Nat /\ y \in Nat /\ r \in Nat /\ s \in Nat
        /\ t = x + r /\ u = y + s /\ x + unit <= y
    BY <1>1, <1>3, <1>4
  <2> HIDE DEF x, y, r, s
  <2>2. r + (u - t) >= unit
    BY <2>1
  <2> QED BY <2>2 DEF r
<1> QED BY <1>1, <1>2, <1>5 DEF a, b

\* A multiple of the unit that is no later than a time is no later than its
\* unit.
LEMMA WholeUnits ==
  ASSUME NEW unit \in Nat \ {0}, NEW t \in Nat, NEW q \in Nat, q % unit = 0, q <= t
  PROVE  q <= t - (t % unit)
<1> DEFINE a == q \div unit
           b == t \div unit
<1>1. /\ a \in Nat /\ b \in Nat
      /\ q = unit * a + (q % unit) /\ t = unit * b + (t % unit)
      /\ t % unit \in 0..(unit - 1)
  BY UnitsAndRest
<1>2. a <= b
  BY UnitsGrow
<1> HIDE DEF a, b
<1>3. unit * a \in Nat /\ unit * b \in Nat
  BY <1>1
<1>4. unit * a <= unit * b
  <2>1. CASE a = b
    BY <2>1, <1>3
  <2>2. CASE a < b
    <3>1. unit * a + unit <= unit * b
      BY <1>1, <2>2, UnitMore
    <3> QED BY <3>1, <1>3
  <2> QED BY <1>1, <1>2, <2>1, <2>2
<1> QED BY <1>1, <1>3, <1>4

----------------------------------------------------------------------------
(* The candles behind a signal.  What is registered was computed from a     *)
(* download of the last hour: of the day before it was made after the close. *)

CandlesInv ==
  /\ now \in Nat
  /\ history # Candles!NoHistory =>
       /\ history.at \in Nat /\ history.last \in Nat
       /\ history.at <= now /\ history.last <= Candles!DayOf(history.at)
  /\ Candles!RegisteredAreFinal

\* Nothing is registered at first.
LEMMA CandlesInit == Candles!Init => CandlesInv
BY DEF Candles!Init, CandlesInv, Candles!RegisteredAreFinal

\* The last bar of a signal of the day of its download is final.
LEMMA SameDayIsFinal ==
  ASSUME Candles!TimesAssumption, CandlesInv,
         Candles!Evaluable(history, now), Candles!DayOf(history.at) = Candles!DayOf(now)
  PROVE  Candles!Final(Candles!LastBar(history, now), history.at)
<1>1. /\ history.at \in Nat /\ history.last \in Nat
      /\ history.last <= Candles!DayOf(history.at)
  BY DEF CandlesInv, Candles!Evaluable
<1>2. Candles!DayOf(history.at) \in Nat
  BY <1>1, UnitsAndRest DEF Candles!DayOf, Candles!TimesAssumption
<1>3. CASE history.last # Candles!DayOf(now)
  BY <1>1, <1>2, <1>3 DEF Candles!LastBar, Candles!Final
<1>4. CASE history.last = Candles!DayOf(now) /\ ~Candles!ConfirmedToday(history, now)
  BY <1>1, <1>2, <1>4 DEF Candles!LastBar, Candles!Final
<1>5. CASE history.last = Candles!DayOf(now) /\ Candles!ConfirmedToday(history, now)
  BY <1>1, <1>2, <1>5 DEF Candles!LastBar, Candles!Final, Candles!ConfirmedToday
<1> QED BY <1>3, <1>4, <1>5

\* So is that of a download of the last hour, whatever its day.
LEMMA RegistrableIsFinal ==
  ASSUME Candles!TimesAssumption, CandlesInv, Candles!Registrable(history, now)
  PROVE  Candles!Final(Candles!LastBar(history, now), history.at)
<1>1. CASE Candles!DayOf(history.at) = Candles!DayOf(now)
  BY <1>1, SameDayIsFinal DEF Candles!Registrable
<1>2. CASE Candles!DayOf(history.at) # Candles!DayOf(now)
  <2>1. /\ now \in Nat /\ history.at \in Nat /\ history.last \in Nat /\ history.at <= now
        /\ history.last <= Candles!DayOf(history.at) /\ now - history.at <= Recent
    BY DEF CandlesInv, Candles!Registrable, Candles!Evaluable
  <2>2. /\ Day \in Nat \ {0} /\ Close + Settle + Recent < Day
        /\ Close \in Nat /\ Settle \in Nat /\ Recent \in Nat
    BY DEF Candles!TimesAssumption
  <2>3. /\ (history.at % Day) + (now - history.at) >= Day
        /\ history.at \div Day < now \div Day
    BY <1>2, <2>1, <2>2, RestOfTheUnit DEF Candles!DayOf
  <2>4. history.at \div Day \in Nat /\ now \div Day \in Nat
        /\ history.at % Day \in 0..(Day - 1)
    BY <2>1, <2>2, UnitsAndRest
  <2>5. Candles!TickOf(history.at) >= Close + Settle
    BY <2>1, <2>2, <2>3, <2>4 DEF Candles!TickOf
  <2>6. Candles!LastBar(history, now) = history.last
    BY <2>1, <2>3, <2>4 DEF Candles!LastBar, Candles!DayOf
  <2> QED BY <2>1, <2>4, <2>5, <2>6 DEF Candles!Final, Candles!DayOf
<1> QED BY <1>1, <1>2

\* What is registered was computed on a final candle.
LEMMA CandlesStep ==
  ASSUME Candles!TimesAssumption, CandlesInv, [Candles!Next]_(Candles!vars)
  PROVE  CandlesInv'
<1>1. CASE UNCHANGED Candles!vars
  BY <1>1 DEF CandlesInv, Candles!vars, Candles!RegisteredAreFinal
<1>2. CASE Candles!Tick
  BY <1>2 DEF CandlesInv, Candles!Tick, Candles!RegisteredAreFinal
<1>3. CASE Candles!Register
  <2>1. Candles!Final(Candles!LastBar(history, now), history.at)
    BY <1>3, RegistrableIsFinal DEF Candles!Register
  <2>2. Candles!RegisteredAreFinal'
    BY <1>3, <2>1 DEF CandlesInv, Candles!Register, Candles!RegisteredAreFinal
  <2> QED BY <1>3, <2>2 DEF CandlesInv, Candles!Register
<1>4. ASSUME NEW d \in Candles!Days, NEW close \in BOOLEAN, Candles!Download(d, close)
      PROVE  CandlesInv'
  <2>1. /\ history'.at = now /\ history'.last = d /\ now' = now /\ registered' = registered
    BY <1>4 DEF Candles!Download
  <2>2. now \in Nat /\ LastTick \in Nat /\ Day \in Nat \ {0}
    BY DEF CandlesInv, Candles!TimesAssumption
  <2>3. Candles!DayOf(now) \in Nat /\ d \in Nat
    BY <2>2, UnitsAndRest DEF Candles!DayOf, Candles!Days
  <2>4. d <= Candles!DayOf(now)
    BY <1>4, <2>2, <2>3 DEF Candles!Download, Candles!Newest
  <2>5. Candles!RegisteredAreFinal'
    BY <2>1 DEF CandlesInv, Candles!RegisteredAreFinal
  <2> QED BY <2>1, <2>2, <2>3, <2>4, <2>5 DEF CandlesInv
<1> QED BY <1>1, <1>2, <1>3, <1>4 DEF Candles!Next

\* No signal is computed from a candle in progress, however long the download
\* was kept before the page ran again, nor is one registered from it.
THEOREM SignalsAreOfFinalCandles ==
  ASSUME Candles!TimesAssumption
  PROVE  Candles!Spec => []Candles!SignalsUseFinalCandles
<1>1. CandlesInv => Candles!SignalsUseFinalCandles
  BY SameDayIsFinal DEF CandlesInv, Candles!SignalsUseFinalCandles, Candles!TodayOnlyWhenClosed
<1>2. CandlesInv /\ [Candles!Next]_(Candles!vars) => CandlesInv'
  BY CandlesStep
<1> QED BY <1>1, <1>2, CandlesInit, PTL DEF Candles!Spec

----------------------------------------------------------------------------
(* The journal.  A session may have been shown fewer rows than there are,   *)
(* never others; and what it is about to insert follows a row that is there *)
(* for good, since no row is ever changed.                                  *)

\* A quote is of a whole minute, of time t or before it.
QuotedBy(q, t) == q \in Nat /\ q % Minute = 0 /\ q <= t

\* Row p is the one before an event, which is later than it.
IsBefore(p, signalled, kind, quote) ==
  /\ p.signal = signalled
  /\ p.kind = IF kind = "exit" THEN "entry" ELSE "signal"
  /\ p.quote <= quote
  /\ Journal!Truncated(p.at) <= quote

Inserting == {s \in Sessions : step[s] = "insert"}

JournalInv ==
  /\ clock \in Nat
  /\ \A r \in journal : r.at \in Nat /\ r.at <= clock /\ QuotedBy(r.quote, r.at)
  /\ \A r \in journal : r.kind # "signal" =>
       \E p \in journal : IsBefore(p, r.signal, r.kind, r.quote)
  /\ \A s \in Sessions : shown[s] \subseteq journal
  /\ \A s \in Inserting :
       /\ QuotedBy(event[s].quote, clock)
       /\ event[s].kind # "signal" =>
            \E p \in journal : IsBefore(p, event[s].signal, event[s].kind, event[s].quote)
  /\ DOMAIN shown = Sessions /\ DOMAIN step = Sessions /\ DOMAIN event = Sessions

RoomInv ==
  /\ IsFiniteSet(journal)
  /\ Cardinality(journal) + Cardinality(Inserting) < MaxEvents + Cardinality(Sessions)
  /\ DOMAIN step = Sessions

JournalAssumptions ==
  Journal!SessionsAssumption /\ Journal!SignalsAssumption /\ Journal!TimesAssumption

\* The finite sets of an instance are those of its importer.
LEMMA JournalIsFinite == \A set : Journal!IsFiniteSet(set) <=> IsFiniteSet(set)
BY DEF Journal!IsFiniteSet, IsFiniteSet

\* The sessions, and those about to insert, can be counted.
LEMMA SessionsAreFinite ==
  ASSUME JournalAssumptions
  PROVE  /\ IsFiniteSet(Sessions) /\ Cardinality(Sessions) \in Nat /\ MaxEvents \in Nat \ {0}
         /\ IsFiniteSet(Inserting) /\ Cardinality(Inserting) \in Nat
<1>1. IsFiniteSet(Sessions) /\ MaxEvents \in Nat \ {0}
  BY JournalIsFinite
     DEF JournalAssumptions, Journal!SessionsAssumption, Journal!TimesAssumption
<1>2. Inserting \in SUBSET Sessions
  BY DEF Inserting
<1> QED BY <1>1, <1>2, FS_Subset, FS_CardinalityType

\* The journal is empty at first.
LEMMA JournalInit == JournalAssumptions /\ Journal!Init => JournalInv /\ RoomInv
<1> SUFFICES ASSUME JournalAssumptions, Journal!Init PROVE JournalInv /\ RoomInv
  OBVIOUS
<1>1. Inserting = {} /\ journal = {}
  BY DEF Inserting, Journal!Init
<1>2. JournalInv
  BY <1>1 DEF Journal!Init, JournalInv
<1>3. Cardinality(journal) = 0 /\ Cardinality(Inserting) = 0 /\ IsFiniteSet(journal)
  BY <1>1, FS_EmptySet
<1>4. Cardinality(Sessions) \in Nat /\ MaxEvents \in Nat \ {0}
  BY SessionsAreFinite
<1> QED BY <1>2, <1>3, <1>4 DEF Journal!Init, RoomInv

\* A time cut to its minute is a time no later.
LEMMA TruncatedIsNat ==
  ASSUME Journal!TimesAssumption, NEW t \in Nat
  PROVE  Journal!Truncated(t) \in Nat
<1>1. Minute \in Nat \ {0}
  BY DEF Journal!TimesAssumption
<1>2. /\ t \div Minute \in Nat /\ t % Minute \in 0..(Minute - 1)
      /\ t = Minute * (t \div Minute) + (t % Minute)
  BY <1>1, UnitsAndRest
<1>3. Minute * (t \div Minute) \in Nat
  BY <1>1, <1>2
<1> QED BY <1>2, <1>3 DEF Journal!Truncated

\* A quote that a form takes is of a whole minute, and not later than now.
LEMMA TimelyIsQuoted ==
  ASSUME Journal!TimesAssumption, NEW q, Journal!Timely(q)
  PROVE  QuotedBy(q, clock)
<1>1. q \in 0..MaxTime /\ q - (q % Minute) = q /\ q <= clock
  BY DEF Journal!Timely, Journal!Quotes, Journal!Times, Journal!Truncated
<1>2. q \in Nat /\ Minute \in Nat \ {0} /\ q % Minute \in 0..(Minute - 1)
  BY <1>1, UnitsAndRest DEF Journal!TimesAssumption
<1> QED BY <1>1, <1>2 DEF QuotedBy

\* The row that a form found in memory is a row of the journal.
LEMMA FoundIsRecorded ==
  ASSUME JournalInv, NEW s \in Sessions, NEW g, NEW k, Journal!Has(shown[s], g, k)
  PROVE  \E p \in journal : /\ p.signal = g /\ p.kind = k
                            /\ p.at = Journal!RecordedAt(shown[s], g, k)
<1>1. \E r \in shown[s] : r.signal = g /\ r.kind = k
  BY DEF Journal!Has
<1> DEFINE p == CHOOSE r \in shown[s] : r.signal = g /\ r.kind = k
<1>2. p \in shown[s] /\ p.signal = g /\ p.kind = k
  BY <1>1
<1>3. p.at = Journal!RecordedAt(shown[s], g, k)
  BY DEF Journal!RecordedAt
<1> QED BY <1>2, <1>3 DEF JournalInv

\* Of a row of the journal, a quote of its minute or later follows it.
LEMMA LaterFollows ==
  ASSUME Journal!TimesAssumption, JournalInv, NEW p \in journal, NEW q \in Nat,
         Journal!Truncated(p.at) <= q
  PROVE  p.quote <= q
<1>1. /\ p.at \in Nat /\ p.quote \in Nat /\ p.quote % Minute = 0 /\ p.quote <= p.at
  BY DEF JournalInv, QuotedBy
<1>2. p.quote <= p.at - (p.at % Minute)
  BY <1>1, WholeUnits DEF Journal!TimesAssumption
<1>3. Journal!Truncated(p.at) \in Nat
  BY <1>1, TruncatedIsNat
<1> QED BY <1>1, <1>2, <1>3 DEF Journal!Truncated

\* What the forms let a session save is quoted in time and has the row before
\* it in the journal.
LEMMA FormsFollow ==
  ASSUME Journal!TimesAssumption, JournalInv, NEW s \in Sessions, NEW ev \in Journal!Events,
         \/ Journal!SignalEvent(shown[s], ev)
         \/ Journal!EntryEvent(shown[s], ev)
         \/ Journal!ExitEvent(shown[s], ev)
  PROVE  /\ QuotedBy(ev.quote, clock)
         /\ ev.kind # "signal" => \E p \in journal : IsBefore(p, ev.signal, ev.kind, ev.quote)
<1>1. CASE Journal!SignalEvent(shown[s], ev)
  <2>1. ev.quote = 0 /\ ev.kind = "signal"
    BY <1>1 DEF Journal!SignalEvent
  <2>2. 0 % Minute = 0
    BY DEF Journal!TimesAssumption
  <2> QED BY <2>1, <2>2 DEF QuotedBy, JournalInv
<1>2. ASSUME NEW k, k \in {"signal", "entry"}, Journal!Has(shown[s], ev.signal, k),
             k = IF ev.kind = "exit" THEN "entry" ELSE "signal",
             Journal!Timely(ev.quote),
             ev.quote >= Journal!Truncated(Journal!RecordedAt(shown[s], ev.signal, k))
      PROVE  /\ QuotedBy(ev.quote, clock)
             /\ \E p \in journal : IsBefore(p, ev.signal, ev.kind, ev.quote)
  <2>1. QuotedBy(ev.quote, clock)
    BY <1>2, TimelyIsQuoted
  <2>2. PICK p \in journal : /\ p.signal = ev.signal /\ p.kind = k
                             /\ p.at = Journal!RecordedAt(shown[s], ev.signal, k)
    BY <1>2, FoundIsRecorded
  <2>3. ev.quote \in Nat /\ p.at \in Nat
    BY <2>1 DEF QuotedBy, JournalInv
  <2>4. Journal!Truncated(p.at) <= ev.quote
    BY <1>2, <2>2, <2>3, TruncatedIsNat
  <2>5. p.quote <= ev.quote
    BY <2>3, <2>4, LaterFollows
  <2> QED BY <1>2, <2>1, <2>2, <2>4, <2>5 DEF IsBefore
<1>3. CASE Journal!EntryEvent(shown[s], ev)
  BY <1>2, <1>3 DEF Journal!EntryEvent
<1>4. CASE Journal!ExitEvent(shown[s], ev)
  BY <1>2, <1>4 DEF Journal!ExitEvent
<1> QED BY <1>1, <1>3, <1>4

\* Every insert follows the rows it depends on.
LEMMA JournalStep ==
  ASSUME JournalAssumptions, JournalInv, [Journal!Next]_(Journal!vars)
  PROVE  JournalInv'
<1>1. CASE UNCHANGED Journal!vars
  BY <1>1 DEF JournalInv, Journal!vars, Inserting, QuotedBy, IsBefore, Journal!Truncated
<1>2. ASSUME NEW s \in Sessions, Journal!Show(s) \/ Journal!Reload(s)
      PROVE  JournalInv'
  <2>1. /\ UNCHANGED <<clock, journal, event>>
        /\ \E rows \in SUBSET journal : shown' = [shown EXCEPT ![s] = rows]
        /\ step' = [step EXCEPT ![s] = "idle"]
    BY <1>2 DEF Journal!Show, Journal!Reload, JournalInv
  <2>2. Inserting' \subseteq Inserting
    BY <2>1 DEF Inserting, JournalInv
  <2>3. DOMAIN shown' = Sessions /\ DOMAIN step' = Sessions
    BY <2>1 DEF JournalInv
  <2>4. \A x \in Sessions : shown'[x] \subseteq journal'
    BY <2>1 DEF JournalInv
  <2> QED BY <2>1, <2>2, <2>3, <2>4
         DEF JournalInv, QuotedBy, IsBefore, Journal!Truncated
<1>3. ASSUME NEW s \in Sessions, Journal!Leave(s)
      PROVE  JournalInv'
  <2>1. /\ UNCHANGED <<clock, journal>>
        /\ shown' = [shown EXCEPT ![s] = {}]
        /\ step' = [step EXCEPT ![s] = "new"]
        /\ event' = [event EXCEPT ![s] = Journal!NoEvent]
    BY <1>3 DEF Journal!Leave
  <2>2. \A x \in Inserting' : x \in Inserting /\ event'[x] = event[x]
    BY <2>1 DEF Inserting, JournalInv
  <2>3. DOMAIN shown' = Sessions /\ DOMAIN step' = Sessions /\ DOMAIN event' = Sessions
    BY <2>1 DEF JournalInv
  <2>4. \A x \in Sessions : shown'[x] \subseteq journal'
    BY <2>1 DEF JournalInv
  <2> QED BY <2>1, <2>2, <2>3, <2>4
         DEF JournalInv, QuotedBy, IsBefore, Journal!Truncated
<1>4. ASSUME NEW s \in Sessions, Journal!Insert(s)
      PROVE  JournalInv'
  <2>1. /\ UNCHANGED <<clock, shown>> /\ s \in Inserting
        /\ event' = [event EXCEPT ![s] = Journal!NoEvent]
        /\ step' = [step EXCEPT ![s] = "idle"] \/ step' = [step EXCEPT ![s] = "reload"]
    BY <1>4 DEF Journal!Insert, Inserting
  <2>2. \A x \in Inserting' : x \in Inserting /\ event'[x] = event[x]
    BY <2>1 DEF Inserting, JournalInv
  <2>3. DOMAIN shown' = Sessions /\ DOMAIN step' = Sessions /\ DOMAIN event' = Sessions
    BY <2>1 DEF JournalInv
  <2> DEFINE added == [signal |-> event[s].signal, kind |-> event[s].kind,
                       quote |-> event[s].quote, at |-> clock]
  <2>4. journal' = journal \/ journal' = journal \cup {added}
    BY <1>4 DEF Journal!Insert
  <2>5. /\ added.at = clock /\ added.signal = event[s].signal
        /\ added.kind = event[s].kind /\ added.quote = event[s].quote
    OBVIOUS
  <2> HIDE DEF added
  <2>6. \A r \in journal' : r.at \in Nat /\ r.at <= clock /\ QuotedBy(r.quote, r.at)
    BY <2>1, <2>4, <2>5 DEF JournalInv
  <2>7. \A r \in journal' : r.kind # "signal" =>
          \E p \in journal : IsBefore(p, r.signal, r.kind, r.quote)
    BY <2>1, <2>4, <2>5 DEF JournalInv
  <2>8. journal \subseteq journal'
    BY <2>4
  <2> QED BY <2>1, <2>2, <2>3, <2>6, <2>7, <2>8
         DEF JournalInv, QuotedBy, IsBefore, Journal!Truncated
<1>5. ASSUME NEW s \in Sessions, NEW ev \in Journal!Events, Journal!Check(s, ev)
      PROVE  JournalInv'
  <2>1. /\ UNCHANGED <<clock, journal, shown>>
        /\ event' = [event EXCEPT ![s] = ev]
        /\ step' = [step EXCEPT ![s] = "insert"]
    BY <1>5 DEF Journal!Check
  <2>2. \A x \in Inserting' : \/ x = s /\ event'[x] = ev
                              \/ x \in Inserting /\ event'[x] = event[x]
    BY <2>1 DEF Inserting, JournalInv
  <2>3. DOMAIN step' = Sessions /\ DOMAIN event' = Sessions
    BY <2>1 DEF JournalInv
  <2>4. /\ QuotedBy(ev.quote, clock)
        /\ ev.kind # "signal" => \E p \in journal : IsBefore(p, ev.signal, ev.kind, ev.quote)
    BY <1>5, FormsFollow DEF Journal!Check, JournalAssumptions
  <2>5. \A x \in Inserting' :
          /\ QuotedBy(event'[x].quote, clock)
          /\ event'[x].kind # "signal" =>
               \E p \in journal : IsBefore(p, event'[x].signal, event'[x].kind, event'[x].quote)
    BY <2>2, <2>4 DEF JournalInv
  <2> QED BY <2>1, <2>3, <2>5 DEF JournalInv, QuotedBy, IsBefore, Journal!Truncated
<1>6. CASE Journal!Tick
  <2>1. clock \in Nat /\ clock' = clock + 1 /\ UNCHANGED <<journal, shown, step, event>>
    BY <1>6 DEF Journal!Tick, JournalInv
  <2>2. \A q : QuotedBy(q, clock) => QuotedBy(q, clock')
    BY <2>1 DEF QuotedBy
  <2>3. \A r \in journal : r.at \in Nat /\ r.at <= clock /\ QuotedBy(r.quote, r.at)
    BY DEF JournalInv
  <2>4. \A r \in journal : r.at \in Nat /\ r.at <= clock' /\ QuotedBy(r.quote, r.at)
    BY <2>1, <2>3
  <2>5. Inserting' = Inserting
    BY <2>1 DEF Inserting
  <2> QED BY <2>1, <2>2, <2>4, <2>5 DEF JournalInv, QuotedBy, IsBefore, Journal!Truncated
<1> QED BY <1>1, <1>2, <1>3, <1>4, <1>5, <1>6 DEF Journal!Next

\* The rows there are, and those about to be inserted, pass the limit by fewer
\* than there are sessions.
LEMMA RoomStep ==
  ASSUME JournalAssumptions, RoomInv, [Journal!Next]_(Journal!vars)
  PROVE  RoomInv'
<1>0. /\ IsFiniteSet(Sessions) /\ IsFiniteSet(Inserting) /\ IsFiniteSet(journal)
      /\ Cardinality(Inserting) \in Nat /\ Cardinality(Sessions) \in Nat
      /\ Cardinality(journal) \in Nat /\ MaxEvents \in Nat
  BY SessionsAreFinite, FS_CardinalityType DEF RoomInv
<1>1. CASE UNCHANGED <<journal, step>>
  BY <1>1 DEF RoomInv, Inserting
<1>2. ASSUME NEW s \in Sessions, UNCHANGED journal, NEW to, to # "insert",
             step' = [step EXCEPT ![s] = to]
      PROVE  RoomInv'
  <2>1. Inserting' \subseteq Inserting
    BY <1>2 DEF Inserting, RoomInv
  <2>2. Cardinality(Inserting') <= Cardinality(Inserting) /\ Cardinality(Inserting') \in Nat
    BY <1>0, <2>1, FS_Subset, FS_CardinalityType
  <2> QED BY <1>0, <1>2, <2>2 DEF RoomInv
<1>3. ASSUME NEW s \in Sessions, Journal!Insert(s)
      PROVE  RoomInv'
  <2>1. CASE UNCHANGED journal
    BY <1>2, <1>3, <2>1 DEF Journal!Insert
  <2>2. CASE ~UNCHANGED journal
    <3>1. PICK added : journal' = journal \cup {added}
      BY <1>3, <2>2 DEF Journal!Insert
    <3>2. s \in Inserting /\ Inserting' = Inserting \ {s} /\ DOMAIN step' = Sessions
      BY <1>3 DEF Journal!Insert, Inserting, RoomInv
    <3>3. Cardinality(Inserting') = Cardinality(Inserting) - 1
      BY <1>0, <3>2, FS_RemoveElement
    <3>4. /\ IsFiniteSet(journal')
          /\ Cardinality(journal') \in Nat /\ Cardinality(journal') <= Cardinality(journal) + 1
      <4>1. /\ IsFiniteSet(journal \cup {added})
            /\ \/ Cardinality(journal \cup {added}) = Cardinality(journal)
               \/ Cardinality(journal \cup {added}) = Cardinality(journal) + 1
        BY <1>0, FS_AddElement
      <4> QED BY <1>0, <3>1, <4>1
    <3> QED BY <1>0, <3>2, <3>3, <3>4 DEF RoomInv
  <2> QED BY <2>1, <2>2
<1>4. ASSUME NEW s \in Sessions, NEW ev \in Journal!Events, Journal!Check(s, ev)
      PROVE  RoomInv'
  <2>1. Cardinality(journal) < MaxEvents /\ journal' = journal /\ DOMAIN step' = Sessions
    <3>1. Journal!Cardinality(journal) = Cardinality(journal)
      BY DEF Journal!Cardinality, Cardinality
    <3> QED BY <1>4, <3>1 DEF Journal!Check, Journal!Admits, RoomInv
  <2>2. Inserting' \subseteq Sessions
    BY DEF Inserting
  <2>3. Cardinality(Inserting') <= Cardinality(Sessions) /\ Cardinality(Inserting') \in Nat
    BY <1>0, <2>2, FS_Subset, FS_CardinalityType
  <2> QED BY <1>0, <2>1, <2>3 DEF RoomInv
<1> QED BY <1>1, <1>2, <1>3, <1>4
        DEF Journal!Next, Journal!vars, Journal!Show, Journal!Reload, Journal!Leave, Journal!Tick

\* No row is written after the fact: an exit has its entry and an entry its
\* signal, of the minute before it at the latest, whatever the sessions that
\* save them had loaded.
THEOREM LegsAreInOrder ==
  ASSUME JournalAssumptions
  PROVE  Journal!Spec => []Journal!LegsInOrder
<1>1. JournalInv => Journal!LegsInOrder
  BY DEF JournalInv, Journal!LegsInOrder, IsBefore, QuotedBy
<1>2. JournalInv /\ [Journal!Next]_(Journal!vars) => JournalInv'
  BY JournalStep
<1>3. Journal!Init => JournalInv
  BY JournalInit
<1> QED BY <1>1, <1>2, <1>3, PTL DEF Journal!Spec

\* The sessions overrun the limit by the events they are saving, one each, and
\* by less than that.
THEOREM JournalOverrunIsBounded ==
  ASSUME JournalAssumptions
  PROVE  Journal!Spec => []Journal!OverrunIsBounded
<1>1. RoomInv => Journal!OverrunIsBounded
  <2> SUFFICES ASSUME RoomInv PROVE Journal!OverrunIsBounded
    OBVIOUS
  <2>1. /\ Cardinality(Inserting) \in Nat /\ Cardinality(journal) \in Nat
        /\ Cardinality(Sessions) \in Nat /\ MaxEvents \in Nat
    BY SessionsAreFinite, FS_CardinalityType DEF RoomInv
  <2>2. /\ Journal!Cardinality(journal) = Cardinality(journal)
        /\ Journal!Cardinality(Sessions) = Cardinality(Sessions)
    BY DEF Journal!Cardinality, Cardinality
  <2> QED BY <2>1, <2>2 DEF RoomInv, Journal!OverrunIsBounded
<1>2. RoomInv /\ [Journal!Next]_(Journal!vars) => RoomInv'
  BY RoomStep
<1>3. Journal!Init => RoomInv
  BY JournalInit
<1> QED BY <1>1, <1>2, <1>3, PTL DEF Journal!Spec

----------------------------------------------------------------------------
(* The account analysis.  Whatever holds positions holds those of the       *)
(* account it is kept under, and a flow's version is one its session read   *)
(* or wrote: of an account just chosen there is nothing to be saved yet.    *)

Own(c, h) == h \in {Example, Nothing} \/ (h \in Flows!Positions /\ h.of = c)

\* A form that may be in context c.
FormOf(c, form) ==
  /\ form = [holdings |-> form.holdings, rights |-> form.rights]
  /\ c \in Accounts => Own(c, form.holdings)

FlowIsOwn(f) ==
  /\ f = [at |-> f.at, form |-> f.form, uploader |-> f.uploader, done |-> f.done,
          version |-> f.version, offered |-> f.offered, digest |-> f.digest]
  /\ f.at \in Flows!Contexts /\ f.version \in Nat
  /\ FormOf(f.at, f.form)
  /\ f.done # Nothing => f.done.inputs = f.done.key /\ FormOf(f.at, f.done.inputs)
  /\ f.offered # Nothing => FormOf(f.at, f.offered)

Version(a, v) == [account |-> a, version |-> v]

DraftIsOwn(a, draft) ==
  /\ draft = [version |-> draft.version, form |-> draft.form]
  /\ draft.version \in Nat
  /\ draft.version > 0 \/ draft.form # Nothing => FormOf(a, draft.form)

BundleIsOwn(b) == FormOf(b.account, b.inputs)

FlowsInv ==
  /\ DOMAIN flow = Sessions /\ DOMAIN drafts = Accounts /\ DOMAIN seen = Sessions
  /\ \A s \in Sessions : FlowIsOwn(flow[s])
  /\ \A s \in Sessions :
       flow[s].at \in Accounts => Version(flow[s].at, flow[s].version) \in seen[s]
  /\ \A a \in Accounts : DraftIsOwn(a, drafts[a])

BundlesInv ==
  /\ DOMAIN archive = Accounts
  /\ \A a \in Accounts : \A b \in archive[a] : FormOf(a, b.inputs)
  /\ \A b \in packages : BundleIsOwn(b)

\* The flow a run of the script leaves: of its account as it was, or of one
\* just chosen, with the draft as it is and nothing in the form.
Leaves(s, f) ==
  /\ FlowIsOwn(f)
  /\ \/ f.at = flow[s].at /\ f.version = flow[s].version
     \/ /\ f.at # flow[s].at /\ f.form = Flows!Blank
        /\ f.at \in Accounts => f.version = drafts[f.at].version

\* What a flow is made of, when it is not its context's already.
LEMMA FlowOf ==
  ASSUME NEW at \in Flows!Contexts, NEW form, FormOf(at, form), NEW uploader,
         NEW done, done # Nothing => done.inputs = done.key /\ FormOf(at, done.inputs),
         NEW version \in Nat,
         NEW offered, offered # Nothing => FormOf(at, offered), NEW digest
  PROVE  FlowIsOwn([at |-> at, form |-> form, uploader |-> uploader, done |-> done,
                    version |-> version, offered |-> offered, digest |-> digest])
BY DEF FlowIsOwn

\* What the page's changes of a flow leave of it: of the uploader alone, of a
\* form that is recovered or loaded, and of a form that is saved.
LEMMA UploaderChanged ==
  ASSUME NEW f, FlowIsOwn(f), NEW up
  PROVE  [f EXCEPT !.uploader = up] =
           [at |-> f.at, form |-> f.form, uploader |-> up, done |-> f.done,
            version |-> f.version, offered |-> f.offered, digest |-> f.digest]
<1>1. PICK at, held, shows, done, version, offered, digest :
        f = [at |-> at, form |-> held, uploader |-> shows, done |-> done,
             version |-> version, offered |-> offered, digest |-> digest]
  BY DEF FlowIsOwn
<1>2. /\ f.at = at /\ f.form = held /\ f.uploader = shows /\ f.done = done
      /\ f.version = version /\ f.offered = offered /\ f.digest = digest
  BY <1>1
<1> QED BY <1>1, <1>2

\* The fields of a flow whose form was recovered.
LEMMA FormRecovered ==
  ASSUME NEW f, FlowIsOwn(f), NEW form
  PROVE  [f EXCEPT !.form = form, !.offered = Nothing, !.done = Nothing] =
           [at |-> f.at, form |-> form, uploader |-> f.uploader, done |-> Nothing,
            version |-> f.version, offered |-> Nothing, digest |-> f.digest]
<1>1. PICK at, held, shows, done, version, offered, digest :
        f = [at |-> at, form |-> held, uploader |-> shows, done |-> done,
             version |-> version, offered |-> offered, digest |-> digest]
  BY DEF FlowIsOwn
<1>2. /\ f.at = at /\ f.form = held /\ f.uploader = shows /\ f.done = done
      /\ f.version = version /\ f.offered = offered /\ f.digest = digest
  BY <1>1
<1>3. PICK g : g = [f EXCEPT !.form = form]
  OBVIOUS
<1>4. g =
        [at |-> at, form |-> form, uploader |-> shows, done |-> done,
         version |-> version, offered |-> offered, digest |-> digest]
  BY <1>1, <1>2, <1>3
<1>5. PICK h : h = [g EXCEPT !.offered = Nothing]
  OBVIOUS
<1>6. h =
        [at |-> at, form |-> form, uploader |-> shows, done |-> done,
         version |-> version, offered |-> Nothing, digest |-> digest]
  BY <1>4, <1>5
<1>7. [h EXCEPT !.done = Nothing] =
        [at |-> at, form |-> form, uploader |-> shows, done |-> Nothing,
         version |-> version, offered |-> Nothing, digest |-> digest]
  BY <1>2, <1>6
<1>8. [f EXCEPT !.form = form, !.offered = Nothing, !.done = Nothing] =
        [h EXCEPT !.done = Nothing]
  BY <1>3, <1>5
<1> QED BY <1>1, <1>2, <1>7, <1>8

\* The fields of a flow whose form was loaded or edited.
LEMMA FormLoaded ==
  ASSUME NEW f, FlowIsOwn(f), NEW form, NEW up
  PROVE  [f EXCEPT !.form = form, !.uploader = up, !.done = Nothing] =
           [at |-> f.at, form |-> form, uploader |-> up, done |-> Nothing,
            version |-> f.version, offered |-> f.offered, digest |-> f.digest]
<1>1. PICK at, held, shows, done, version, offered, digest :
        f = [at |-> at, form |-> held, uploader |-> shows, done |-> done,
             version |-> version, offered |-> offered, digest |-> digest]
  BY DEF FlowIsOwn
<1>2. /\ f.at = at /\ f.form = held /\ f.uploader = shows /\ f.done = done
      /\ f.version = version /\ f.offered = offered /\ f.digest = digest
  BY <1>1
<1>3. PICK g : g = [f EXCEPT !.form = form]
  OBVIOUS
<1>4. g =
        [at |-> at, form |-> form, uploader |-> shows, done |-> done,
         version |-> version, offered |-> offered, digest |-> digest]
  BY <1>1, <1>2, <1>3
<1>5. PICK h : h = [g EXCEPT !.uploader = up]
  OBVIOUS
<1>6. h =
        [at |-> at, form |-> form, uploader |-> up, done |-> done,
         version |-> version, offered |-> offered, digest |-> digest]
  BY <1>4, <1>5
<1>7. [h EXCEPT !.done = Nothing] =
        [at |-> at, form |-> form, uploader |-> up, done |-> Nothing,
         version |-> version, offered |-> offered, digest |-> digest]
  BY <1>2, <1>6
<1>8. [f EXCEPT !.form = form, !.uploader = up, !.done = Nothing] =
        [h EXCEPT !.done = Nothing]
  BY <1>3, <1>5
<1> QED BY <1>1, <1>2, <1>7, <1>8

\* The fields of a flow whose form was saved.
LEMMA FormSaved ==
  ASSUME NEW f, FlowIsOwn(f)
  PROVE  [f EXCEPT !.version = @ + 1, !.digest = f.form] =
           [at |-> f.at, form |-> f.form, uploader |-> f.uploader, done |-> f.done,
            version |-> f.version + 1, offered |-> f.offered, digest |-> f.form]
<1>1. PICK at, held, shows, done, version, offered, digest :
        f = [at |-> at, form |-> held, uploader |-> shows, done |-> done,
             version |-> version, offered |-> offered, digest |-> digest]
  BY DEF FlowIsOwn
<1>2. /\ f.at = at /\ f.form = held /\ f.uploader = shows /\ f.done = done
      /\ f.version = version /\ f.offered = offered /\ f.digest = digest
  BY <1>1
<1>3. PICK g : g = [f EXCEPT !.version = @ + 1]
  OBVIOUS
<1>4. g =
        [at |-> at, form |-> held, uploader |-> shows, done |-> done,
         version |-> version + 1, offered |-> offered, digest |-> digest]
  BY <1>1, <1>2, <1>3
<1>5. [g EXCEPT !.digest = f.form] =
        [at |-> at, form |-> held, uploader |-> shows, done |-> done,
         version |-> version + 1, offered |-> offered, digest |-> held]
  BY <1>2, <1>4
<1>6. [f EXCEPT !.version = @ + 1, !.digest = f.form] =
        [g EXCEPT !.digest = f.form]
  BY <1>3
<1> QED BY <1>1, <1>2, <1>5, <1>6

\* Every session begins in the temporary context, with nothing of any account.
LEMMA FlowsInit ==
  ASSUME Flows!ContextsAssumption, Flows!Init
  PROVE  FlowsInv /\ BundlesInv
<1> DEFINE f == [at |-> Temporary, form |-> Flows!Blank, uploader |-> FALSE,
                 done |-> Nothing, version |-> 0, offered |-> Nothing, digest |-> Nothing]
<1>1. FormOf(Temporary, Flows!Blank)
  BY DEF FormOf, Own, Flows!Blank
<1>2. FlowIsOwn(f)
  BY <1>1 DEF FlowIsOwn, Flows!Contexts
<1>3. flow = [s \in Sessions |-> f] /\ f.at \notin Accounts
  BY DEF Flows!Init, Flows!ContextsAssumption
<1> HIDE DEF f
<1>4. \A a \in Accounts : DraftIsOwn(a, drafts[a])
  BY DEF Flows!Init, DraftIsOwn
<1> QED BY <1>2, <1>3, <1>4 DEF Flows!Init, FlowsInv, BundlesInv

\* The automatic save at the end of a run keeps what is kept of each account,
\* and replaces a draft only by the session that knew its version.
LEMMA FinishKeeps ==
  ASSUME Flows!ContextsAssumption, FlowsInv, NEW s \in Sessions, NEW f, Leaves(s, f),
         Flows!Finish(s, f)
  PROVE  /\ FlowsInv'
         /\ \A a \in Accounts : drafts'[a] # drafts[a] =>
              flow'[s].at = a /\ Version(a, drafts[a].version) \in seen[s]
<1>1. /\ flow[s].at \in Accounts => Version(flow[s].at, flow[s].version) \in seen[s]
      /\ DOMAIN flow = Sessions /\ DOMAIN drafts = Accounts /\ DOMAIN seen = Sessions
  BY DEF FlowsInv
<1>2. CASE ~Flows!Accepted(f)
  <2>1. /\ flow' = [flow EXCEPT ![s] = f] /\ drafts' = drafts
        /\ seen' = [seen EXCEPT ![s] = @ \cup
             (IF f.at \in Accounts /\ f.at # flow[s].at
              THEN {Version(f.at, drafts[f.at].version)} ELSE {})]
    BY <1>2 DEF Flows!Finish, Version
  <2>2. f.at \in Accounts => Version(f.at, f.version) \in seen'[s]
    BY <1>1, <2>1 DEF Leaves
  <2>3. \A x \in Sessions : seen[x] \subseteq seen'[x]
    BY <1>1, <2>1
  <2>4. \A x \in Sessions : flow'[x] = IF x = s THEN f ELSE flow[x]
    BY <1>1, <2>1
  <2>5. \A x \in Sessions : FlowIsOwn(flow'[x])
    BY <2>4 DEF FlowsInv, Leaves
  <2>6. \A x \in Sessions :
          flow'[x].at \in Accounts => Version(flow'[x].at, flow'[x].version) \in seen'[x]
    BY <2>2, <2>3, <2>4 DEF FlowsInv
  <2>7. DOMAIN flow' = Sessions /\ DOMAIN drafts' = Accounts /\ DOMAIN seen' = Sessions
    BY <1>1, <2>1
  <2> QED BY <2>1, <2>5, <2>6, <2>7
         DEF FlowsInv, FlowIsOwn, DraftIsOwn, FormOf, Own, Flows!Positions, Flows!Contexts
<1>3. CASE Flows!Accepted(f)
  <2> DEFINE g == [f EXCEPT !.version = @ + 1, !.digest = f.form]
             draft == [version |-> g.version, form |-> f.form]
  <2>1. /\ f.at \in Accounts /\ f.version = drafts[f.at].version /\ f.form.holdings # Nothing
    BY <1>3 DEF Flows!Accepted
  <2>2. f.at = flow[s].at /\ f.version = flow[s].version
    BY <2>1 DEF Leaves, Flows!Blank
  <2>3. /\ g = [at |-> f.at, form |-> f.form, uploader |-> f.uploader, done |-> f.done,
                version |-> f.version + 1, offered |-> f.offered, digest |-> f.form]
        /\ f.version \in Nat
    BY FormSaved DEF Leaves, FlowIsOwn
  <2>4. FlowIsOwn(g)
    BY <2>3, FlowOf DEF Leaves, FlowIsOwn
  <2>5. DraftIsOwn(f.at, draft)
    BY <2>3 DEF Leaves, FlowIsOwn, DraftIsOwn
  <2>6. /\ flow' = [flow EXCEPT ![s] = g]
        /\ drafts' = [drafts EXCEPT ![f.at] = draft]
        /\ seen' = [seen EXCEPT ![s] = @ \cup {Version(g.at, drafts'[g.at].version)}]
    BY <1>3, <2>1, <2>3 DEF Flows!Finish, Version
  <2>7. g.at = f.at /\ draft.version = g.version
    BY <2>3
  <2> HIDE DEF g, draft
  <2>8. drafts'[g.at].version = g.version
    BY <1>1, <2>1, <2>6, <2>7
  <2>9. \A x \in Sessions : flow'[x] = IF x = s THEN g ELSE flow[x]
    BY <1>1, <2>6
  <2>10. /\ \A x \in Sessions : seen[x] \subseteq seen'[x]
         /\ Version(g.at, g.version) \in seen'[s]
    BY <1>1, <2>6, <2>8
  <2>11. \A x \in Sessions : FlowIsOwn(flow'[x])
    BY <2>4, <2>9 DEF FlowsInv
  <2>12. \A x \in Sessions :
           flow'[x].at \in Accounts => Version(flow'[x].at, flow'[x].version) \in seen'[x]
    BY <2>9, <2>10 DEF FlowsInv
  <2>13. \A a \in Accounts : drafts'[a] = IF a = f.at THEN draft ELSE drafts[a]
    BY <1>1, <2>6
  <2>14. \A a \in Accounts : DraftIsOwn(a, drafts'[a])
    BY <2>5, <2>13 DEF FlowsInv
  <2>15. DOMAIN flow' = Sessions /\ DOMAIN drafts' = Accounts /\ DOMAIN seen' = Sessions
    BY <1>1, <2>6
  <2>16. FlowsInv'
    BY <2>11, <2>12, <2>14, <2>15
       DEF FlowsInv, FlowIsOwn, DraftIsOwn, FormOf, Own, Flows!Positions, Flows!Contexts, Version
  <2>17. \A a \in Accounts : drafts'[a] # drafts[a] => a = f.at
    BY <2>13
  <2>18. flow'[s].at = f.at /\ Version(f.at, drafts[f.at].version) \in seen[s]
    BY <1>1, <2>1, <2>2, <2>7, <2>9
  <2> QED BY <2>16, <2>17, <2>18
<1> QED BY <1>2, <1>3

\* What is on the screen is the flow, with the form as the uploader fills it.
LEMMA ShownIsOwn ==
  ASSUME FlowsInv, NEW s \in Sessions
  PROVE  /\ Leaves(s, flow[s]) /\ Leaves(s, Flows!Shown(s))
         /\ Flows!Shown(s).at = flow[s].at
         /\ Flows!Shown(s).form.holdings = flow[s].form.holdings
         /\ Flows!Shown(s).done = flow[s].done
<1>1. FlowIsOwn(flow[s])
  BY DEF FlowsInv
<1>2. Leaves(s, flow[s])
  BY <1>1 DEF Leaves
<1>3. CASE ~flow[s].uploader
  BY <1>2, <1>3 DEF Flows!Shown
<1>4. CASE flow[s].uploader
  <2> DEFINE form == [holdings |-> flow[s].form.holdings, rights |-> "file"]
  <2>1. Flows!Shown(s) = [flow[s] EXCEPT !.form.rights = "file"]
    BY <1>4 DEF Flows!Shown
  <2>2. [flow[s].form EXCEPT !.rights = "file"] = form
    BY <1>1 DEF FlowIsOwn, FormOf
  <2>3. Flows!Shown(s) = [flow[s] EXCEPT !.form = form]
    BY <2>1, <2>2
  <2>4. FormOf(flow[s].at, form)
    BY <1>1 DEF FlowIsOwn, FormOf
  <2> HIDE DEF form
  <2>5. Leaves(s, [flow[s] EXCEPT !.form = form])
    BY <1>1, <2>4 DEF Leaves, FlowIsOwn
  <2>6. form.holdings = flow[s].form.holdings
    BY DEF form
  <2> QED BY <1>1, <1>2, <2>3, <2>5, <2>6 DEF FlowIsOwn
<1> QED BY <1>3, <1>4

\* So is a flow with another form of its context.
LEMMA PutIsOwn ==
  ASSUME NEW s \in Sessions, NEW f, Leaves(s, f), f.at = flow[s].at, NEW form,
         FormOf(f.at, form)
  PROVE  Leaves(s, Flows!Put(f, form)) /\ Flows!Put(f, form).at = f.at
BY DEF Leaves, FlowIsOwn, Flows!Put

\* A bundle that is opened replaces the form by its inputs.
LEMMA LoadedIsOwn ==
  ASSUME FlowsInv, NEW s \in Sessions, NEW form, FormOf(flow[s].at, form)
  PROVE  Leaves(s, Flows!Loaded(s, form))
<1>1. FlowIsOwn(flow[s])
  BY DEF FlowsInv
<1>2. Flows!Loaded(s, form) =
        [at |-> flow[s].at, form |-> form, uploader |-> FALSE, done |-> Nothing,
         version |-> flow[s].version, offered |-> flow[s].offered, digest |-> flow[s].digest]
  BY <1>1, FormLoaded DEF Flows!Loaded
<1> QED BY <1>1, <1>2, FlowOf DEF Leaves, FlowIsOwn

\* A bundle of a flow is of its account, or of none.
LEMMA BundleOfFlowIsOwn ==
  ASSUME Flows!ContextsAssumption, NEW f, FlowIsOwn(f), Flows!Bundled(f)
  PROVE  BundleIsOwn(Flows!Bundle(f)) /\ FormOf(f.at, Flows!Bundle(f).inputs)
BY DEF FlowIsOwn, Flows!Bundled, Flows!Bundle, BundleIsOwn, FormOf, Flows!ContextsAssumption

\* Every step keeps the flows and the bundles, and replaces only drafts that
\* its session knew.
LEMMA FlowsStep ==
  ASSUME Flows!ContextsAssumption, FlowsInv, BundlesInv, NEW s \in Sessions,
         \/ \E c \in Flows!Contexts : Flows!Choose(s, c)
         \/ Flows!Recover(s) \/ Flows!OpenDemo(s)
         \/ flow[s].at \in Accounts /\ \E b \in archive[flow[s].at] : Flows!OpenArchived(s, b)
         \/ \E b \in packages : Flows!OpenPackage(s, b)
         \/ \E cut \in Cuts : Flows!ImportPositions(s, cut)
         \/ Flows!UploadRights(s) \/ Flows!RemoveRights(s) \/ Flows!DeclareRights(s)
         \/ Flows!Analyze(s) \/ Flows!Save(s) \/ Flows!Download(s)
  PROVE  /\ FlowsInv' /\ BundlesInv'
         /\ \A a \in Accounts : drafts'[a] # drafts[a] =>
              \E x \in Sessions : flow'[x].at = a /\ Version(a, drafts[a].version) \in seen[x]
<1> DEFINE KeptFlow == /\ FlowsInv'
                       /\ \A a \in Accounts : drafts'[a] # drafts[a] =>
                            flow'[s].at = a /\ Version(a, drafts[a].version) \in seen[s]
<1>0. FlowIsOwn(flow[s]) /\ Leaves(s, flow[s]) /\ Leaves(s, Flows!Shown(s))
      /\ Flows!Shown(s).at = flow[s].at /\ Flows!Shown(s).done = flow[s].done
      /\ FormOf(flow[s].at, flow[s].form) /\ FormOf(flow[s].at, Flows!Shown(s).form)
  BY ShownIsOwn DEF Leaves, FlowIsOwn
<1>1. ASSUME NEW f, Leaves(s, f), Flows!Finish(s, f)
      PROVE  KeptFlow
  BY <1>1, FinishKeeps
<1> HIDE DEF KeptFlow
<1>2. ASSUME UNCHANGED <<archive, packages>>
      PROVE  BundlesInv'
  BY <1>2 DEF BundlesInv, BundleIsOwn, FormOf, Own, Flows!Positions, Flows!Contexts
<1>3. ASSUME NEW c \in Flows!Contexts, Flows!Choose(s, c)
      PROVE  KeptFlow /\ BundlesInv'
  <2>1. FormOf(c, Flows!Blank)
    BY DEF FormOf, Own, Flows!Blank
  <2>2. Leaves(s, Flows!NewState(s, c))
    <3>1. c \in Accounts => DraftIsOwn(c, drafts[c])
      BY DEF FlowsInv
    <3>2. CASE c \in Accounts
      BY <1>3, <2>1, <3>1, <3>2
         DEF Leaves, FlowIsOwn, DraftIsOwn, Flows!NewState, Flows!Choose
    <3>3. CASE c \notin Accounts
      BY <1>3, <2>1, <3>3 DEF Leaves, FlowIsOwn, Flows!NewState, Flows!Choose
    <3> QED BY <3>2, <3>3
  <2> QED BY <1>1, <1>2, <1>3, <2>2 DEF Flows!Choose
<1>4. ASSUME Flows!Recover(s)
      PROVE  KeptFlow /\ BundlesInv'
  <2>1. Leaves(s, [flow[s] EXCEPT !.form = flow[s].offered, !.offered = Nothing, !.done = Nothing])
    <3>1. [flow[s] EXCEPT !.form = flow[s].offered, !.offered = Nothing, !.done = Nothing] =
            [at |-> flow[s].at, form |-> flow[s].offered, uploader |-> flow[s].uploader,
             done |-> Nothing, version |-> flow[s].version, offered |-> Nothing,
             digest |-> flow[s].digest]
      BY <1>0, FormRecovered
    <3> QED BY <1>0, <1>4, <3>1, FlowOf DEF Leaves, FlowIsOwn, Flows!Recover
  <2> QED BY <1>1, <1>2, <1>4, <2>1 DEF Flows!Recover
<1>5. ASSUME Flows!OpenDemo(s)
      PROVE  KeptFlow /\ BundlesInv'
  <2>1. FormOf(flow[s].at, [holdings |-> Example, rights |-> "file"])
    BY DEF FormOf, Own
  <2> QED BY <1>1, <1>2, <1>5, <2>1, LoadedIsOwn DEF Flows!OpenDemo
<1>6. ASSUME flow[s].at \in Accounts, NEW b \in archive[flow[s].at], Flows!OpenArchived(s, b)
      PROVE  KeptFlow /\ BundlesInv'
  <2>1. FormOf(flow[s].at, b.inputs)
    BY <1>6 DEF BundlesInv
  <2> QED BY <1>1, <1>2, <1>6, <2>1, LoadedIsOwn DEF Flows!OpenArchived
<1>7. ASSUME NEW b \in packages, Flows!OpenPackage(s, b)
      PROVE  KeptFlow /\ BundlesInv'
  <2>1. FormOf(flow[s].at, b.inputs)
    BY <1>7 DEF BundlesInv, BundleIsOwn, FormOf, Flows!OpenPackage, Flows!Opens
  <2> QED BY <1>1, <1>2, <1>7, <2>1, LoadedIsOwn DEF Flows!OpenPackage
<1>8. ASSUME NEW cut \in Cuts, Flows!ImportPositions(s, cut)
      PROVE  KeptFlow /\ BundlesInv'
  <2> DEFINE form == [Flows!Shown(s).form EXCEPT !.holdings = [of |-> flow[s].at, cut |-> cut]]
  <2>1. [of |-> flow[s].at, cut |-> cut] \in Flows!Positions
    BY <1>0 DEF Flows!Positions, FlowIsOwn
  <2>2. FormOf(flow[s].at, form)
    BY <1>0, <2>1 DEF FormOf, Own
  <2> HIDE DEF form
  <2>3. Leaves(s, Flows!Put(Flows!Shown(s), form))
    BY <1>0, <2>2, PutIsOwn
  <2> QED BY <1>1, <1>2, <1>8, <2>3 DEF Flows!ImportPositions, form
<1>9. ASSUME Flows!UploadRights(s)
      PROVE  KeptFlow /\ BundlesInv'
  <2> DEFINE form == [flow[s].form EXCEPT !.rights = "file"]
             f == Flows!Put(Flows!Shown(s), form)
  <2>1. FormOf(flow[s].at, form)
    BY <1>0 DEF FormOf
  <2> HIDE DEF form
  <2>2. Leaves(s, f) /\ f.at = flow[s].at
    BY <1>0, <2>1, PutIsOwn
  <2>3. Flows!Finish(s, [f EXCEPT !.uploader = TRUE]) /\ UNCHANGED <<archive, packages>>
    BY <1>9 DEF Flows!UploadRights, Flows!Changes, form
  <2> HIDE DEF f
  <2>4. Leaves(s, [f EXCEPT !.uploader = TRUE])
    <3>1. [f EXCEPT !.uploader = TRUE] =
            [at |-> f.at, form |-> f.form, uploader |-> TRUE, done |-> f.done,
             version |-> f.version, offered |-> f.offered, digest |-> f.digest]
      BY <2>2, UploaderChanged DEF Leaves
    <3> QED BY <2>2, <3>1, FlowOf DEF Leaves, FlowIsOwn
  <2> QED BY <1>1, <1>2, <2>3, <2>4
<1>10. ASSUME Flows!RemoveRights(s)
      PROVE  KeptFlow /\ BundlesInv'
  <2>1. Leaves(s, [flow[s] EXCEPT !.uploader = FALSE])
    <3>1. [flow[s] EXCEPT !.uploader = FALSE] =
            [at |-> flow[s].at, form |-> flow[s].form, uploader |-> FALSE,
             done |-> flow[s].done, version |-> flow[s].version,
             offered |-> flow[s].offered, digest |-> flow[s].digest]
      BY <1>0, UploaderChanged
    <3> QED BY <1>0, <3>1, FlowOf DEF Leaves, FlowIsOwn
  <2> QED BY <1>1, <1>2, <1>10, <2>1 DEF Flows!RemoveRights, Flows!Changes
<1>11. ASSUME Flows!DeclareRights(s)
      PROVE  KeptFlow /\ BundlesInv'
  <2> DEFINE form == [flow[s].form EXCEPT !.rights = "declared"]
  <2>1. FormOf(flow[s].at, form)
    BY <1>0 DEF FormOf
  <2> HIDE DEF form
  <2>2. Leaves(s, Flows!Put(flow[s], form))
    BY <1>0, <2>1, PutIsOwn
  <2> QED BY <1>1, <1>2, <1>11, <2>2 DEF Flows!DeclareRights, Flows!Changes, form
<1>12. ASSUME Flows!Analyze(s)
      PROVE  KeptFlow /\ BundlesInv'
  <2> DEFINE f == Flows!Shown(s)
             done == [run |-> runs, inputs |-> f.form, key |-> f.form]
  <2>1. done.inputs = done.key /\ FormOf(f.at, done.inputs)
    BY <1>0
  <2>2. Flows!Finish(s, [f EXCEPT !.done = done]) /\ UNCHANGED <<archive, packages>>
    BY <1>12 DEF Flows!Analyze
  <2> HIDE DEF f, done
  <2>3. Leaves(s, f)
    BY <1>0 DEF f
  <2>4. Leaves(s, [f EXCEPT !.done = done])
    BY <2>1, <2>3 DEF Leaves, FlowIsOwn
  <2> QED BY <1>1, <1>2, <2>2, <2>4
<1>13. ASSUME Flows!Save(s)
      PROVE  KeptFlow /\ BundlesInv'
  <2> DEFINE f == Flows!Shown(s)
  <2>1. /\ f.at \in Accounts /\ Flows!Bundled(f) /\ Flows!Finish(s, f)
        /\ archive' = [archive EXCEPT ![f.at] = @ \cup {Flows!Bundle(f)}]
        /\ UNCHANGED packages
    BY <1>13 DEF Flows!Save
  <2>2. FlowIsOwn(f)
    BY <1>0 DEF Leaves
  <2>3. FormOf(f.at, Flows!Bundle(f).inputs)
    BY <2>1, <2>2, BundleOfFlowIsOwn
  <2>4. KeptFlow
    BY <1>0, <1>1, <2>1
  <2> HIDE DEF f
  <2>5. \A a \in Accounts : archive'[a] \subseteq
          (IF a = f.at THEN archive[a] \cup {Flows!Bundle(f)} ELSE archive[a])
    BY <2>1 DEF BundlesInv
  <2>6. \A a \in Accounts : \A b \in archive'[a] : FormOf(a, b.inputs)
    BY <2>3, <2>5 DEF BundlesInv
  <2>7. DOMAIN archive' = Accounts
    BY <2>1 DEF BundlesInv
  <2> QED BY <2>1, <2>4, <2>6, <2>7
         DEF BundlesInv, BundleIsOwn, FormOf, Own, Flows!Positions, Flows!Contexts
<1>14. ASSUME Flows!Download(s)
      PROVE  KeptFlow /\ BundlesInv'
  <2>1. /\ Flows!Bundled(flow[s]) /\ packages' = packages \cup {Flows!Bundle(flow[s])}
        /\ UNCHANGED <<flow, drafts, archive, seen>>
    BY <1>14 DEF Flows!Download
  <2>2. BundleIsOwn(Flows!Bundle(flow[s]))
    BY <1>0, <2>1, BundleOfFlowIsOwn
  <2>3. \A b \in packages' : BundleIsOwn(b)
    BY <2>1, <2>2 DEF BundlesInv
  <2>4. BundlesInv'
    BY <2>1, <2>3 DEF BundlesInv, BundleIsOwn, FormOf, Own, Flows!Positions, Flows!Contexts
  <2>5. KeptFlow
    BY <2>1 DEF KeptFlow, FlowsInv, FlowIsOwn, DraftIsOwn, FormOf, Own, Flows!Positions,
                Flows!Contexts, Version
  <2> QED BY <2>4, <2>5
<1>15. KeptFlow /\ BundlesInv'
  BY <1>3, <1>4, <1>5, <1>6, <1>7, <1>8, <1>9, <1>10, <1>11, <1>12, <1>13, <1>14
<1> QED BY <1>15 DEF KeptFlow

\* In any order of presses of any sessions, a step or a stutter of the page.
LEMMA FlowsNext ==
  ASSUME Flows!ContextsAssumption, FlowsInv, BundlesInv, [Flows!Next]_(Flows!vars)
  PROVE  /\ FlowsInv' /\ BundlesInv'
         /\ \A a \in Accounts : drafts'[a] # drafts[a] =>
              \E x \in Sessions : flow'[x].at = a /\ Version(a, drafts[a].version) \in seen[x]
<1>1. CASE UNCHANGED Flows!vars
  BY <1>1 DEF Flows!vars, FlowsInv, BundlesInv, FlowIsOwn, DraftIsOwn, BundleIsOwn, FormOf,
              Own, Flows!Positions, Flows!Contexts, Version
<1>2. CASE Flows!Next
  BY <1>2, FlowsStep DEF Flows!Next
<1> QED BY <1>1, <1>2

\* The analysis never works on what is of another account, although it keeps
\* flow, drafts, runs and bundles while the page goes from one to another.
THEOREM FlowsAreOfTheirAccount ==
  ASSUME Flows!ContextsAssumption
  PROVE  Flows!Spec => []Flows!WorkIsOfItsAccount
<1> DEFINE Inv == FlowsInv /\ BundlesInv
<1>1. Inv => Flows!WorkIsOfItsAccount
  <2> SUFFICES ASSUME Inv PROVE Flows!WorkIsOfItsAccount
    OBVIOUS
  <2>1. Flows!ResultsKeepTheirInputs
    BY DEF FlowsInv, FlowIsOwn, Flows!ResultsKeepTheirInputs
  <2>2. \A s \in Sessions : flow[s].at \in Accounts => Own(flow[s].at, flow[s].form.holdings)
    BY DEF FlowsInv, FlowIsOwn, FormOf
  <2>3. \A a \in Accounts : drafts[a].version > 0 => Own(a, drafts[a].form.holdings)
    BY DEF FlowsInv, DraftIsOwn, FormOf
  <2>4. \A a \in Accounts : \A b \in archive[a] : Own(a, b.inputs.holdings)
    BY DEF BundlesInv, FormOf
  <2>5. Flows!OwnPositionsOnly
    BY <2>2, <2>3, <2>4 DEF Own, Flows!OwnPositionsOnly
  <2> QED BY <2>1, <2>5 DEF Flows!WorkIsOfItsAccount
<1>2. Flows!Init => Inv
  BY FlowsInit
<1>3. Inv /\ [Flows!Next]_(Flows!vars) => Inv'
  BY FlowsNext
<1> HIDE DEF Inv
<1> QED BY <1>1, <1>2, <1>3, PTL DEF Flows!Spec

\* What another tab saved in a draft is never overwritten unseen.
THEOREM FlowsReadDraftsFirst ==
  ASSUME Flows!ContextsAssumption
  PROVE  Flows!Spec => Flows!DraftsAreReadFirst
<1> DEFINE Inv == FlowsInv /\ BundlesInv
           Read == \A a \in Accounts : drafts'[a] # drafts[a] =>
                     \E s \in Sessions :
                       /\ flow'[s].at = a
                       /\ [account |-> a, version |-> drafts[a].version] \in seen[s]
<1>1. Flows!Init => Inv
  BY FlowsInit
<1>2. Inv /\ [Flows!Next]_(Flows!vars) => Inv' /\ [Read]_(Flows!vars)
  BY FlowsNext DEF Version
<1> HIDE DEF Inv, Read
<1>3. Flows!Spec => [][Read]_(Flows!vars)
  BY <1>1, <1>2, PTL DEF Flows!Spec
<1> QED BY <1>3 DEF Read, Flows!DraftsAreReadFirst

----------------------------------------------------------------------------
(* The pages together: whichever component moves, each does what it does    *)
(* alone or stays as it is.                                                 *)

\* The operations page among the others.
LEMMA OperationsMove == PagesSpec => Operations!Spec
<1>1. PagesInit => Operations!Init
  BY DEF PagesInit
<1>2. [PagesNext]_pages => [Operations!Next]_(Operations!vars)
  BY DEF PagesNext, pages, operations, Operations!vars
<1> QED BY <1>1, <1>2, PTL DEF PagesSpec, Operations!Spec

\* The account analysis among the others.
LEMMA FlowsMove == PagesSpec => Flows!Spec
<1>1. PagesInit => Flows!Init
  BY DEF PagesInit
<1>2. [PagesNext]_pages => [Flows!Next]_(Flows!vars)
  BY DEF PagesNext, pages, flows, Flows!vars
<1> QED BY <1>1, <1>2, PTL DEF PagesSpec, Flows!Spec

\* The journal among the others.
LEMMA JournalMoves == PagesSpec => Journal!Spec
<1>1. PagesInit => Journal!Init
  BY DEF PagesInit
<1>2. [PagesNext]_pages => [Journal!Next]_(Journal!vars)
  BY DEF PagesNext, pages, technical, journals, Journal!vars
<1> QED BY <1>1, <1>2, PTL DEF PagesSpec, Journal!Spec

\* The candles among the others.
LEMMA CandlesMove == PagesSpec => Candles!Spec
<1>1. PagesInit => Candles!Init
  BY DEF PagesInit
<1>2. [PagesNext]_pages => [Candles!Next]_(Candles!vars)
  BY DEF PagesNext, pages, technical, candles, Candles!vars
<1> QED BY <1>1, <1>2, PTL DEF PagesSpec, Candles!Spec

\* The simulation among the others.
LEMMA SimulationMoves == PagesSpec => Simulation!Spec
<1>1. PagesInit => Simulation!Init
  BY DEF PagesInit
<1>2. [PagesNext]_pages => [Simulation!Next]_(Simulation!vars)
  BY DEF PagesNext, pages, technical, simulated, Simulation!vars
<1> QED BY <1>1, <1>2, PTL DEF PagesSpec, Simulation!Spec

\* Neither the operations page nor the account analysis ever works on what is
\* of another account, whatever both keep while the page goes from one account
\* to another.
THEOREM WorkStaysWithItsAccount == PagesSpec => []WorkIsOfItsAccount
<1>1. PagesSpec => []Operations!WorkIsOfItsAccount
  BY OperationsMove, DeskIsOfItsAccount, PTL
<1>2. PagesSpec => []Flows!WorkIsOfItsAccount
  BY FlowsMove, FlowsAreOfTheirAccount, FlowsAssumption, PTL
<1>3. Operations!WorkIsOfItsAccount /\ Flows!WorkIsOfItsAccount => WorkIsOfItsAccount
  BY DEF WorkIsOfItsAccount
<1> QED BY <1>1, <1>2, <1>3, PTL

\* No session replaces a draft that it neither read nor wrote, however many
\* sessions save by themselves.
THEOREM DraftsStayReadFirst == PagesSpec => DraftsAreReadFirst
<1>1. PagesSpec => Flows!DraftsAreReadFirst
  BY FlowsMove, FlowsReadDraftsFirst, FlowsAssumption, PTL
<1> QED BY <1>1 DEF DraftsAreReadFirst

\* Every row of the journal is of the minute of the row before it or later,
\* whoever captures and inserts, and whatever they had loaded, and the journal
\* passes its limit by fewer rows than there are sessions.
THEOREM JournalStaysInItsRules == PagesSpec => []JournalKeepsItsRules
<1>1. PagesSpec => []Journal!LegsInOrder
  BY JournalMoves, LegsAreInOrder, JournalAssumption, PTL DEF JournalAssumptions
<1>2. PagesSpec => []Journal!OverrunIsBounded
  BY JournalMoves, JournalOverrunIsBounded, JournalAssumption, PTL DEF JournalAssumptions
<1>3. Journal!LegsInOrder /\ Journal!OverrunIsBounded => JournalKeepsItsRules
  BY DEF JournalKeepsItsRules
<1> QED BY <1>1, <1>2, <1>3, PTL

\* No signal shown on the day of its download, and none that the journal fixes,
\* was computed from a candle in progress.
THEOREM SignalsStayFinal == PagesSpec => []SignalsUseFinalCandles
<1>1. PagesSpec => []Candles!SignalsUseFinalCandles
  BY CandlesMove, SignalsAreOfFinalCandles, CandlesAssumption, PTL
<1> QED BY <1>1, PTL DEF SignalsUseFinalCandles

\* On any bars and signals a trade ends in time, never better than its stop, and
\* no day has two positions.
THEOREM TradesObeyTheRules == PagesSpec => TradesKeepTheRules
<1>1. PagesSpec => Simulation!TradesKeepTheRules
  BY SimulationMoves, SimulationKeepsTheRules, SimulationAssumption, PTL
<1> QED BY <1>1 DEF TradesKeepTheRules
----------------------------------------------------------------------------
(* The session of Shell.  A session that shows a page was isolated for the  *)
(* identity of its cookie, and only it left anything behind (OwnerInv).  A  *)
(* model is kept with the inputs its key is made of (Entries), so is a      *)
(* report (Pdfs); the run that draws results has just looked both up under  *)
(* the keys of the screen (KeysInv).                                        *)

Options == [objective : 1..2, scenarios : BOOLEAN]
RunSet == [settings : Settings, objective : 1..2, scenarios : BOOLEAN, data : Nat, benchmark : Nat]
Entry(s, d) == [key |-> <<s, d>>, from |-> [settings |-> s, data |-> d]]
Entries == {Entry(s, d) : s \in Settings, d \in Nat}
Pdfs == {NoPdf} \cup {[key |-> ReportKey(r), made |-> <<>>] : r \in RunSet}
                \cup {[key |-> ReportKey(r), made |-> <<r>>] : r \in RunSet}

TypeOK ==
  /\ page \in {"access", "analysis", "cases"}
  /\ settings \in Settings
  /\ optional \in Options
  /\ data \in Nat /\ benchmark \in Nat
  /\ memo \in Seq(Entries)
  /\ pdf \in Pdfs

OwnerInv ==
  /\ \A c, d \in who : c = d
  /\ \A c, d \in owner : c = d
  /\ traces \subseteq owner
  /\ page # "access" => owner = who

KeysInv == Rendered => pdf.key = ReportKey(Run) /\ Kept(memo, ModelKey(Run))

----------------------------------------------------------------------------
(* Whose session it is. *)

\* A session begins with nobody's results.
LEMMA InitOwner == Init => OwnerInv
BY DEF Init, OwnerInv

\* Only an entry lets an identity see a page, and it clears the session of
\* any other.
LEMMA EnterOwner == ASSUME OwnerInv, Enter PROVE OwnerInv'
<1>1. PICK c \in who :
        \/ (\E d \in owner : SameIdentity(c, d)) /\ UNCHANGED <<owner, traces>>
        \/ owner' = who /\ traces' = {}
  BY DEF Enter, Cleared
<1>2. who' = who
  BY DEF Enter
<1> QED BY <1>1, <1>2 DEF OwnerInv, SameIdentity

\* A login, an expiry, an exit and a run keep the owner of what is left.
LEMMA NextOwner == ASSUME OwnerInv, [Next]_vars PROVE OwnerInv'
<1>1. CASE UNCHANGED vars
  BY <1>1 DEF vars, OwnerInv
<1>2. CASE (\E c \in Claims : LogIn(c)) \/ Expire
  BY <1>2 DEF LogIn, Expire, OwnerInv
<1>3. CASE LogOut
  BY <1>3 DEF LogOut, Cleared, OwnerInv
<1>4. CASE Enter
  BY <1>4, EnterOwner
<1>5. CASE (\E s \in Settings : Edit(s)) \/ (\E o \in 1..2 : Describe(o)) \/ Analyze
  BY <1>5 DEF Edit, Describe, Analyze, OwnerInv
<1>6. CASE Simulate \/ Refresh \/ MakeReport
  BY <1>6 DEF Simulate, Refresh, MakeReport, OwnerInv
<1>7. CASE \E to \in {"analysis", "cases"} : GoTo(to)
  BY <1>7 DEF GoTo, OwnerInv
<1>8. CASE (\E accounts \in SUBSET Accounts : Choose(accounts)) \/ Confirm \/ Save
  BY <1>8 DEF Choose, Confirm, Save, OwnerInv
<1> QED BY <1>1, <1>2, <1>3, <1>4, <1>5, <1>6, <1>7, <1>8 DEF Next

\* "Private inputs and computed results must not survive an identity change"
\* (access.py:41): whoever sees a page, by whatever logins, expiries and exits,
\* nothing in its session is of anybody else.
THEOREM OwnSession == Spec => []NothingOfAnotherPerson
<1>1. Init => OwnerInv
  BY InitOwner
<1>2. OwnerInv /\ [Next]_vars => OwnerInv'
  BY NextOwner
<1>3. OwnerInv => NothingOfAnotherPerson
  BY DEF OwnerInv, NothingOfAnotherPerson
<1> QED BY <1>1, <1>2, <1>3, PTL DEF Spec

----------------------------------------------------------------------------
(* What is on the screen. *)

\* The cache keeps entries of its kind, and the model asked for is among them:
\* what is dropped when it is full is the oldest.
LEMMA RememberedKeeps ==
  ASSUME ShellAssumption, NEW entries \in Seq(Entries), NEW r \in RunSet
  PROVE  /\ Remembered(entries, r) \in Seq(Entries)
         /\ Kept(Remembered(entries, r), ModelKey(r))
<1> DEFINE new == [key |-> ModelKey(r), from |-> [settings |-> r.settings, data |-> r.data]]
           all == Append(entries, new)
<1>1. CASE Kept(entries, ModelKey(r))
  BY <1>1 DEF Remembered
<1>2. CASE ~Kept(entries, ModelKey(r))
  <2>1. new \in Entries /\ new.key = ModelKey(r)
    <3>1. new = Entry(r.settings, r.data)
      BY DEF ModelKey, Entry
    <3>2. r.settings \in Settings /\ r.data \in Nat
      BY DEF RunSet
    <3> QED BY <3>1, <3>2 DEF Entries
  <2>2. Remembered(entries, r) = IF Len(all) > MaxEntries THEN Tail(all) ELSE all
    BY <1>2 DEF Remembered
  <2> HIDE DEF new
  <2>3. /\ all \in Seq(Entries) /\ Len(all) = Len(entries) + 1 /\ Len(entries) \in Nat
        /\ all[Len(all)] = new
    BY <2>1
  <2> HIDE DEF all
  <2>4. CASE Len(all) > MaxEntries
    <3>1. Len(all) > 1 /\ all # <<>>
      BY <2>3, <2>4 DEF ShellAssumption
    <3>2. /\ Tail(all) \in Seq(Entries) /\ Len(Tail(all)) = Len(all) - 1
          /\ Tail(all)[Len(all) - 1] = all[Len(all)]
      BY <2>3, <3>1
    <3>3. Len(all) - 1 \in DOMAIN Tail(all)
      BY <2>3, <3>1, <3>2
    <3> QED BY <2>1, <2>2, <2>3, <2>4, <3>2, <3>3 DEF Kept
  <2>5. CASE ~(Len(all) > MaxEntries)
    <3>1. Len(all) \in DOMAIN all
      BY <2>3
    <3> QED BY <2>1, <2>2, <2>3, <2>5, <3>1 DEF Kept
  <2> QED BY <2>4, <2>5
<1> QED BY <1>1, <1>2

\* A model that is found was computed from what its key is made of.
LEMMA ModelIsOfItsKey ==
  ASSUME NEW entries \in Seq(Entries), NEW r \in RunSet, Kept(entries, ModelKey(r))
  PROVE  ModelOf(entries, ModelKey(r)) = [settings |-> r.settings, data |-> r.data]
<1> DEFINE place == CHOOSE n \in DOMAIN entries : entries[n].key = ModelKey(r)
<1>1. place \in DOMAIN entries /\ entries[place].key = ModelKey(r)
  BY DEF Kept
<1>2. ModelOf(entries, ModelKey(r)) = entries[place].from
  BY DEF ModelOf
<1> HIDE DEF place
<1>3. entries[place] \in Entries
  BY <1>1
<1>4. PICK s \in Settings, d \in Nat : entries[place] = Entry(s, d)
  BY <1>3 DEF Entries
<1>5. entries[place].key = <<s, d>> /\ entries[place].from = [settings |-> s, data |-> d]
  BY <1>4 DEF Entry
<1>6. s = r.settings /\ d = r.data
  BY <1>1, <1>5 DEF ModelKey
<1> QED BY <1>2, <1>5, <1>6

\* So was a report, but for the benchmark, which its key leaves out.
LEMMA ReportIsOfItsKey ==
  ASSUME NEW r \in RunSet, NEW q \in RunSet, ReportKey(r) = ReportKey(q)
  PROVE  [r EXCEPT !.benchmark = q.benchmark] = q
<1>1. /\ r.settings = q.settings /\ r.scenarios = q.scenarios
      /\ r.data = q.data /\ r.objective = q.objective
  BY DEF ReportKey
<1> QED BY <1>1 DEF RunSet

\* A run of the page over inputs of their types.
LEMMA ComputedInv ==
  ASSUME ShellAssumption, TypeOK, Computed, NEW r \in RunSet, Run' = r
  PROVE  /\ memo' \in Seq(Entries)
         /\ pdf' \in Pdfs
         /\ KeysInv'
<1>1. CASE ~Rendered'
  BY <1>1 DEF TypeOK, Computed, KeysInv
<1>2. CASE Rendered'
  <2>1. /\ memo' = Remembered(memo, r)
        /\ pdf' = IF pdf.key = ReportKey(r) THEN pdf ELSE [key |-> ReportKey(r), made |-> <<>>]
    BY <1>2 DEF Computed
  <2>2. memo' \in Seq(Entries) /\ Kept(memo', ModelKey(r))
    BY <2>1, RememberedKeeps DEF TypeOK
  <2>3. pdf' \in Pdfs /\ pdf'.key = ReportKey(r)
    BY <2>1 DEF TypeOK, Pdfs
  <2> QED BY <2>2, <2>3 DEF KeysInv
<1> QED BY <1>1, <1>2

ScreenInv == TypeOK /\ KeysInv

\* The run of the page is of its type.
LEMMA RunType ==
  ASSUME settings \in Settings, optional \in Options, data \in Nat, benchmark \in Nat
  PROVE  Run \in RunSet
BY DEF Run, RunSet, Options

\* The same after a step.
LEMMA RunTypeNext ==
  ASSUME settings' \in Settings, optional' \in Options, data' \in Nat, benchmark' \in Nat
  PROVE  Run' \in RunSet
BY DEF Run, RunSet, Options

\* Nothing is kept under any key at first.
LEMMA InitScreen == ASSUME ShellAssumption PROVE Init => ScreenInv
<1> SUFFICES ASSUME Init PROVE ScreenInv
  OBVIOUS
<1>1. TypeOK
  BY DEF Init, ShellAssumption, TypeOK, Options, NoOptions, Pdfs
<1>2. KeysInv
  BY DEF Init, KeysInv, Rendered
<1> QED BY <1>1, <1>2 DEF ScreenInv

\* The steps that end in a run of the page.
LEMMA RerunScreen ==
  ASSUME ShellAssumption, ScreenInv,
         \/ \E s \in Settings : Edit(s)
         \/ \E o \in 1..2 : Describe(o)
         \/ Analyze \/ Simulate \/ Refresh
         \/ \E to \in {"analysis", "cases"} : GoTo(to)
  PROVE  ScreenInv'
<1>1. page' \in {"access", "analysis", "cases"}
  BY DEF Edit, Describe, Analyze, Simulate, Refresh, GoTo, ScreenInv, TypeOK
<1>2. settings' \in Settings
  BY DEF Edit, Describe, Analyze, Simulate, Refresh, GoTo, Undrawn, inputs, ShellAssumption, ScreenInv, TypeOK
<1>3. optional' \in Options
  <2>1. optional \in Options /\ NoOptions \in Options
    BY DEF ScreenInv, TypeOK, NoOptions, Options
  <2>2. [optional EXCEPT !.scenarios = FALSE] \in Options
    BY <2>1 DEF Options
  <2>3. [optional EXCEPT !.scenarios = ~optional.scenarios] \in Options
    BY <2>1 DEF Options
  <2>4. \A o \in 1..2 : [optional EXCEPT !.objective = o] \in Options
    BY <2>1 DEF Options
  <2> QED BY <2>1, <2>2, <2>3, <2>4
          DEF Edit, Describe, Analyze, Simulate, Refresh, GoTo, Undrawn, inputs
<1>4. data' \in Nat /\ benchmark' \in Nat
  BY DEF Edit, Describe, Analyze, Simulate, Refresh, GoTo, series, ScreenInv, TypeOK
<1>5. Computed
  BY DEF Edit, Describe, Analyze, Simulate, Refresh, GoTo, Rerun
<1>6. Run' \in RunSet
  BY <1>2, <1>3, <1>4, RunTypeNext
<1>7. memo' \in Seq(Entries) /\ pdf' \in Pdfs /\ KeysInv'
  BY <1>5, <1>6, ComputedInv DEF ScreenInv
<1> QED BY <1>1, <1>2, <1>3, <1>4, <1>7 DEF ScreenInv, TypeOK

\* An entry runs the page over the inputs that are there, or clears them.
LEMMA EnterScreen == ASSUME ShellAssumption, ScreenInv, Enter PROVE ScreenInv'
<1>1. page' = "analysis" /\ data' \in Nat /\ benchmark' \in Nat
  BY DEF Enter, series, ScreenInv, TypeOK
<1>2. CASE Cleared
  <2>1. settings' \in Settings /\ optional' \in Options /\ memo' = <<>> /\ pdf' = NoPdf
    BY <1>2 DEF Cleared, Undrawn, NoOptions, Options, ShellAssumption
  <2>2. ~Rendered'
    BY <1>2 DEF Cleared, Rendered
  <2> QED BY <1>1, <2>1, <2>2 DEF ScreenInv, TypeOK, KeysInv, Pdfs
<1>3. CASE UNCHANGED inputs /\ Computed
  <2>1. settings' \in Settings /\ optional' \in Options
    BY <1>3 DEF inputs, ScreenInv, TypeOK
  <2>2. Run' \in RunSet
    BY <1>1, <2>1, RunTypeNext
  <2>3. memo' \in Seq(Entries) /\ pdf' \in Pdfs /\ KeysInv'
    BY <1>3, <2>2, ComputedInv DEF ScreenInv
  <2> QED BY <1>1, <2>1, <2>3 DEF ScreenInv, TypeOK
<1> QED BY <1>2, <1>3 DEF Enter

\* The steps that leave the page: nothing is drawn.
LEMMA LeaveScreen ==
  ASSUME ShellAssumption, ScreenInv, (\E c \in Claims : LogIn(c)) \/ Expire \/ LogOut
  PROVE  ScreenInv'
<1>1. /\ page' = "access" /\ UNCHANGED series /\ settings' = 1 /\ optional' = NoOptions
      /\ (memo' = memo /\ pdf' = pdf) \/ (memo' = <<>> /\ pdf' = NoPdf)
  <2>1. CASE (\E c \in Claims : LogIn(c)) \/ Expire
    BY <2>1 DEF LogIn, Expire, Undrawn
  <2>2. CASE LogOut
    BY <2>2 DEF LogOut, Cleared, Undrawn
  <2> QED BY <2>1, <2>2
<1>2. ~Rendered' /\ NoOptions \in Options
  BY <1>1 DEF Rendered, NoOptions, Options
<1>3. memo' \in Seq(Entries)
  <2>1. CASE memo' = memo
    BY <2>1 DEF ScreenInv, TypeOK
  <2>2. CASE memo' = <<>>
    BY <2>2
  <2> QED BY <1>1, <2>1, <2>2
<1>4. pdf' \in Pdfs
  BY <1>1 DEF ScreenInv, TypeOK, Pdfs
<1>5. page' \in {"access", "analysis", "cases"} /\ settings' \in Settings /\ data' \in Nat /\ benchmark' \in Nat
  BY <1>1 DEF series, ShellAssumption, ScreenInv, TypeOK
<1>6. optional' \in Options
  BY <1>1, <1>2
<1> QED BY <1>2, <1>3, <1>4, <1>5, <1>6 DEF ScreenInv, TypeOK, KeysInv

\* The report is made from the run on the screen, under its key.
LEMMA ReportScreen == ASSUME ScreenInv, MakeReport PROVE ScreenInv'
<1>1. Rendered /\ pdf' = [pdf EXCEPT !.made = <<Run>>] /\ pdf.key = ReportKey(Run)
  BY DEF MakeReport, ScreenInv, KeysInv
<1>2. UNCHANGED <<page, settings, optional, analysed, data, benchmark, memo>>
  BY DEF MakeReport, inputs, series
<1>3. Run \in RunSet
  BY RunType DEF ScreenInv, TypeOK
<1>4. pdf' = [key |-> ReportKey(Run), made |-> <<Run>>]
  BY <1>1 DEF ScreenInv, TypeOK, Pdfs, NoPdf
<1>5. pdf' \in Pdfs /\ pdf'.key = ReportKey(Run)
  BY <1>3, <1>4 DEF Pdfs
<1>6. Run' = Run
  BY <1>2 DEF Run
<1> QED BY <1>2, <1>5, <1>6 DEF ScreenInv, TypeOK, KeysInv, Rendered

\* Nothing on the screen changes.
LEMMA SameScreen ==
  ASSUME ScreenInv, UNCHANGED <<page, settings, optional, analysed, data, benchmark, memo, pdf>>
  PROVE  ScreenInv'
<1>1. Run' = Run
  BY DEF Run
<1> QED BY <1>1 DEF ScreenInv, TypeOK, KeysInv, Rendered

\* Every run and every edition keeps the entries under their keys.
LEMMA NextScreen == ASSUME ShellAssumption, ScreenInv, [Next]_vars PROVE ScreenInv'
<1>1. CASE \/ UNCHANGED vars
           \/ (\E accounts \in SUBSET Accounts : Choose(accounts)) \/ Confirm \/ Save
  BY <1>1, SameScreen DEF vars, inputs, series, Choose, Confirm, Save
<1>2. CASE Next /\ ~((\E accounts \in SUBSET Accounts : Choose(accounts)) \/ Confirm \/ Save)
  BY <1>2, RerunScreen, EnterScreen, LeaveScreen, ReportScreen DEF Next
<1> QED BY <1>1, <1>2

\* A report that is offered is of the settings, prices, scenarios and objective
\* of the screen, and the model on the screen of its settings and prices,
\* whatever was edited, refreshed or left in between
\* (app_inversiones.py:1262, app_inversiones.py:2862).
THEOREM OfTheInputs == ASSUME ShellAssumption PROVE Spec => []ShownIsOfTheInputs
<1>1. Init => ScreenInv
  BY InitScreen
<1>2. ScreenInv /\ [Next]_vars => ScreenInv'
  BY NextScreen
<1>3. ASSUME ScreenInv, Rendered
      PROVE  /\ pdf.made # <<>> => [pdf.made[1] EXCEPT !.benchmark = benchmark] = Run
             /\ Kept(memo, ModelKey(Run))
             /\ ModelOf(memo, ModelKey(Run)) = [settings |-> settings, data |-> data]
  <2>1. Run \in RunSet /\ pdf \in Pdfs /\ memo \in Seq(Entries)
    BY <1>3, RunType DEF ScreenInv, TypeOK
  <2>2. pdf.key = ReportKey(Run) /\ Kept(memo, ModelKey(Run))
    BY <1>3 DEF ScreenInv, KeysInv
  <2>3. pdf.made # <<>> => [pdf.made[1] EXCEPT !.benchmark = benchmark] = Run
    <3>1. SUFFICES ASSUME pdf.made # <<>>
                   PROVE  [pdf.made[1] EXCEPT !.benchmark = benchmark] = Run
      OBVIOUS
    <3>2. PICK r \in RunSet : pdf = [key |-> ReportKey(r), made |-> <<r>>]
      BY <2>1, <3>1 DEF Pdfs, NoPdf
    <3>3. [r EXCEPT !.benchmark = Run.benchmark] = Run
      BY <2>1, <2>2, <3>2, ReportIsOfItsKey
    <3>4. Run.benchmark = benchmark /\ pdf.made[1] = r
      BY <3>2 DEF Run
    <3> QED BY <3>3, <3>4
  <2>4. ModelOf(memo, ModelKey(Run)) = [settings |-> Run.settings, data |-> Run.data]
    BY <2>1, <2>2, ModelIsOfItsKey
  <2>5. Run.settings = settings /\ Run.data = data
    BY DEF Run
  <2> QED BY <2>2, <2>3, <2>4, <2>5
<1>4. ScreenInv => ShownIsOfTheInputs
  BY <1>3 DEF ShownIsOfTheInputs
<1> QED BY <1>1, <1>2, <1>4, PTL DEF Spec

----------------------------------------------------------------------------
(* The watchlists, for any sessions, identities and lists.  Given the       *)
(* types, OwnDataOnly is inductive as it stands: the lists that reach a     *)
(* page come from the row of its owner, from the earlier file of its owner  *)
(* or from what its owner writes, and every change of owner drops the       *)
(* histories.                                                               *)

AllTickers == UNION {Tickers[o] : o \in Owners}

ListsTypeOK ==
  /\ row \in [Owners -> {NoRow} \cup SUBSET AllTickers]
  /\ user \in [Sessions -> Owners \cup {Nobody}]
  /\ identity \in [Sessions -> Owners \cup {Nobody}]
  /\ symbols \in [Sessions -> SUBSET AllTickers]
  /\ histories \in [Sessions -> SUBSET AllTickers]
  /\ importing \in [Sessions -> Owners \cup {Nobody}]

\* OwnDataOnly, of one identity and of one session.
RowOf(o) == row[o] # NoRow => row[o] \subseteq Tickers[o]
PageOf(s) ==
  /\ identity[s] = Nobody => symbols[s] = {} /\ histories[s] = {}
  /\ identity[s] # Nobody => symbols[s] \subseteq Tickers[identity[s]] /\ histories[s] \subseteq symbols[s]

ListsInv == ListsTypeOK /\ (\A o \in Owners : RowOf(o)) /\ (\A s \in Sessions : PageOf(s))

----------------------------------------------------------------------------
\* What Keep puts on a page is typed and of its owner, whoever it is: nothing
\* for nobody, and histories of what is listed.
LEMMA KeepOwn ==
  ASSUME OwnersAssumption, ListsInv,
         NEW s \in Sessions, NEW o \in Owners \cup {Nobody}, NEW list, NEW kept,
         Keep(s, o, list, kept),
         o = Nobody => list = {},
         o # Nobody => list \subseteq Tickers[o],
         kept \subseteq list
  PROVE  /\ identity' \in [Sessions -> Owners \cup {Nobody}]
         /\ symbols' \in [Sessions -> SUBSET AllTickers]
         /\ histories' \in [Sessions -> SUBSET AllTickers]
         /\ \A t \in Sessions : PageOf(t)'
<1>1. list \subseteq AllTickers
  BY DEF AllTickers
<1>2. /\ identity' = [identity EXCEPT ![s] = o]
      /\ symbols' = [symbols EXCEPT ![s] = list]
      /\ histories' = [histories EXCEPT ![s] = kept]
  BY DEF Keep
<1>3. /\ identity' \in [Sessions -> Owners \cup {Nobody}]
      /\ symbols' \in [Sessions -> SUBSET AllTickers]
      /\ histories' \in [Sessions -> SUBSET AllTickers]
  BY <1>1, <1>2 DEF ListsInv, ListsTypeOK
<1>4. ASSUME NEW t \in Sessions PROVE PageOf(t)'
  <2>1. CASE t = s
    <3>1. identity'[t] = o /\ symbols'[t] = list /\ histories'[t] = kept
      BY <1>2, <2>1 DEF ListsInv, ListsTypeOK
    <3> QED BY <3>1 DEF PageOf
  <2>2. CASE t # s
    <3>1. identity'[t] = identity[t] /\ symbols'[t] = symbols[t] /\ histories'[t] = histories[t]
      BY <1>2, <2>2 DEF ListsInv, ListsTypeOK
    <3> QED BY <3>1 DEF PageOf, ListsInv
  <2> QED BY <2>1, <2>2
<1> QED BY <1>3, <1>4

\* A row that is replaced by a list of its identity.
LEMMA RowOwn ==
  ASSUME ListsInv, NEW o \in Owners, NEW list \in SUBSET Tickers[o],
         row' = [row EXCEPT ![o] = list]
  PROVE  /\ row' \in [Owners -> {NoRow} \cup SUBSET AllTickers]
         /\ \A p \in Owners : RowOf(p)'
<1>1. list \in SUBSET AllTickers
  BY DEF AllTickers
<1>2. row' \in [Owners -> {NoRow} \cup SUBSET AllTickers]
  BY <1>1 DEF ListsInv, ListsTypeOK
<1>3. ASSUME NEW p \in Owners PROVE RowOf(p)'
  BY DEF ListsInv, ListsTypeOK, RowOf
<1> QED BY <1>2, <1>3

\* Pages stay as they are.
LEMMA PageStays ==
  ASSUME ListsInv, UNCHANGED watchlist
  PROVE  /\ identity' \in [Sessions -> Owners \cup {Nobody}]
         /\ symbols' \in [Sessions -> SUBSET AllTickers]
         /\ histories' \in [Sessions -> SUBSET AllTickers]
         /\ \A s \in Sessions : PageOf(s)'
BY DEF ListsInv, ListsTypeOK, watchlist, PageOf

\* Rows stay as they are.
LEMMA RowStays ==
  ASSUME ListsInv, UNCHANGED row
  PROVE  /\ row' \in [Owners -> {NoRow} \cup SUBSET AllTickers]
         /\ \A o \in Owners : RowOf(o)'
BY DEF ListsInv, ListsTypeOK, RowOf

----------------------------------------------------------------------------
\* No page and no row holds a list at first.
LEMMA ListsBegin == ASSUME OwnersAssumption PROVE ListsInit => ListsInv
BY DEF ListsInit, ListsInv, ListsTypeOK, RowOf, PageOf

\* The runs that find another identity.
LEMMA ArrivalKeeps ==
  ASSUME OwnersAssumption, ListsInv, NEW s \in Sessions,
         OpenSaved(s) \/ OpenNew(s) \/ OpenLegacy(s) \/ OpenFails(s)
  PROVE  ListsInv'
<1>1. Arrives(s) /\ user[s] \in Owners /\ UNCHANGED <<row, user>>
  BY DEF OpenSaved, OpenNew, OpenLegacy, OpenFails, Arrives
<1>2. importing' \in [Sessions -> Owners \cup {Nobody}]
  BY <1>1 DEF OpenSaved, OpenNew, OpenLegacy, OpenFails, ListsInv, ListsTypeOK
<1>3. PICK o \in Owners \cup {Nobody}, list \in SUBSET AllTickers :
        /\ Keep(s, o, list, {})
        /\ o = Nobody => list = {}
        /\ o # Nobody => list \subseteq Tickers[o]
  <2>1. CASE OpenSaved(s)
    <3>1. /\ Keep(s, user[s], row[user[s]], {})
          /\ row[user[s]] \subseteq Tickers[user[s]]
      BY <1>1, <2>1 DEF OpenSaved, ListsInv, RowOf
    <3>2. row[user[s]] \in SUBSET AllTickers /\ user[s] # Nobody
      BY <1>1, <3>1 DEF AllTickers, OwnersAssumption
    <3> QED BY <1>1, <3>1, <3>2
  <2>2. CASE OpenNew(s)
    BY <1>1, <2>2 DEF OpenNew
  <2>3. CASE OpenLegacy(s) \/ OpenFails(s)
    BY <2>3 DEF OpenLegacy, OpenFails
  <2> QED BY <2>1, <2>2, <2>3
<1>4. /\ identity' \in [Sessions -> Owners \cup {Nobody}]
      /\ symbols' \in [Sessions -> SUBSET AllTickers]
      /\ histories' \in [Sessions -> SUBSET AllTickers]
      /\ \A t \in Sessions : PageOf(t)'
  BY <1>3, KeepOwn
<1>5. user' \in [Sessions -> Owners \cup {Nobody}]
  BY <1>1 DEF ListsInv, ListsTypeOK
<1> QED BY <1>1, <1>2, <1>4, <1>5, RowStays DEF ListsInv, ListsTypeOK

\* The second request of an import.
LEMMA ImportKeeps ==
  ASSUME OwnersAssumption, ListsInv, NEW s \in Sessions, Import(s)
  PROVE  ListsInv'
<1> DEFINE o == importing[s]
<1>1. o \in Owners /\ Legacy[o] \in SUBSET Tickers[o]
  BY DEF Import, ListsInv, ListsTypeOK, OwnersAssumption
<1>2. row' = [row EXCEPT ![o] = Legacy[o]] /\ Keep(s, o, Legacy[o], {})
  BY DEF Import
<1>3. /\ importing' \in [Sessions -> Owners \cup {Nobody}]
      /\ user' \in [Sessions -> Owners \cup {Nobody}]
  BY DEF Import, ListsInv, ListsTypeOK
<1>4. /\ row' \in [Owners -> {NoRow} \cup SUBSET AllTickers]
      /\ \A p \in Owners : RowOf(p)'
  BY <1>1, <1>2, RowOwn
<1>5. o # Nobody
  BY DEF Import
<1> HIDE DEF o
<1>6. /\ identity' \in [Sessions -> Owners \cup {Nobody}]
      /\ symbols' \in [Sessions -> SUBSET AllTickers]
      /\ histories' \in [Sessions -> SUBSET AllTickers]
      /\ \A t \in Sessions : PageOf(t)'
  BY <1>1, <1>2, <1>5, KeepOwn
<1> QED BY <1>3, <1>4, <1>6 DEF ListsInv, ListsTypeOK

\* A list saved or restored by its owner.
LEMMA WriteKeeps ==
  ASSUME OwnersAssumption, ListsInv, NEW s \in Sessions, NEW list,
         SaveList(s, list) \/ Restore(s, list)
  PROVE  ListsInv'
<1> DEFINE o == user[s]
<1>1. /\ o \in Owners /\ o # Nobody /\ list \in SUBSET Tickers[o]
      /\ row' = [row EXCEPT ![o] = list]
      /\ UNCHANGED <<user, importing>>
  BY DEF SaveList, Restore, Stays, OwnersAssumption
<1>2. PICK kept : Keep(s, o, list, kept) /\ kept \subseteq list
  <2>1. CASE SaveList(s, list)
    <3>1. Keep(s, o, list, histories[s] \cap list)
      BY <2>1 DEF SaveList
    <3> QED BY <3>1
  <2>2. CASE Restore(s, list)
    <3>1. Keep(s, o, list, {})
      BY <2>2 DEF Restore
    <3> QED BY <3>1
  <2> QED BY <2>1, <2>2
<1>3. /\ row' \in [Owners -> {NoRow} \cup SUBSET AllTickers]
      /\ \A p \in Owners : RowOf(p)'
  BY <1>1, RowOwn
<1> HIDE DEF o
<1>4. /\ identity' \in [Sessions -> Owners \cup {Nobody}]
      /\ symbols' \in [Sessions -> SUBSET AllTickers]
      /\ histories' \in [Sessions -> SUBSET AllTickers]
      /\ \A t \in Sessions : PageOf(t)'
  BY <1>1, <1>2, KeepOwn
<1> QED BY <1>1, <1>3, <1>4 DEF ListsInv, ListsTypeOK

\* The other steps of a session.
LEMMA RestKeeps ==
  ASSUME OwnersAssumption, ListsInv, NEW s \in Sessions,
         \/ \E o \in Owners \cup {Nobody} : SwitchUser(s, o)
         \/ ImportFails(s) \/ UpdateSignals(s)
  PROVE  ListsInv'
<1>1. CASE (\E o \in Owners \cup {Nobody} : SwitchUser(s, o)) \/ ImportFails(s)
  <2>1. UNCHANGED row /\ UNCHANGED watchlist
    BY <1>1 DEF SwitchUser, ImportFails
  <2>2. /\ user' \in [Sessions -> Owners \cup {Nobody}]
        /\ importing' \in [Sessions -> Owners \cup {Nobody}]
    BY <1>1 DEF SwitchUser, ImportFails, ListsInv, ListsTypeOK
  <2> QED BY <2>1, <2>2, RowStays, PageStays DEF ListsInv, ListsTypeOK
<1>2. CASE UpdateSignals(s)
  <2>1. /\ Keep(s, identity[s], symbols[s], symbols[s])
        /\ identity[s] \in Owners /\ identity[s] # Nobody
        /\ symbols[s] \subseteq Tickers[identity[s]]
        /\ UNCHANGED <<row, user, importing>>
    BY <1>2 DEF UpdateSignals, Stays, ListsInv, PageOf, OwnersAssumption
  <2>2. /\ identity' \in [Sessions -> Owners \cup {Nobody}]
        /\ symbols' \in [Sessions -> SUBSET AllTickers]
        /\ histories' \in [Sessions -> SUBSET AllTickers]
        /\ \A t \in Sessions : PageOf(t)'
    BY <2>1, KeepOwn
  <2> QED BY <2>1, <2>2, RowStays DEF ListsInv, ListsTypeOK
<1> QED BY <1>1, <1>2

\* Every load, import and save keeps the lists with their identity.
LEMMA ListsStep ==
  ASSUME OwnersAssumption, ListsInv, [ListsNext]_lists
  PROVE  ListsInv'
<1>1. CASE UNCHANGED lists
  BY <1>1, RowStays, PageStays DEF lists, watchlist, ListsInv, ListsTypeOK
<1>2. CASE ListsNext
  BY <1>2, ArrivalKeeps, ImportKeeps, WriteKeeps, RestKeeps DEF ListsNext
<1> QED BY <1>1, <1>2

----------------------------------------------------------------------------
\* Whatever order logins, loads, imports and saves come in, whoever they are
\* of, a page and a row hold nothing of an identity other than theirs
\* (technical_ui.py:550).
THEOREM OwnData == ASSUME OwnersAssumption PROVE ListsSpec => []OwnDataOnly
<1>1. ListsInit => ListsInv
  BY ListsBegin
<1>2. ListsInv /\ [ListsNext]_lists => ListsInv'
  BY ListsStep
<1>3. ListsInv => OwnDataOnly
  BY DEF ListsInv, RowOf, PageOf, OwnDataOnly
<1> QED BY <1>1, <1>2, <1>3, PTL DEF ListsSpec

-----------------------------------------------------------------------------
(* The session and the lists of the whole of the pages.                     *)
LEMMA SessionMoves == PagesSpec => Spec
<1>1. PagesInit => Init
  BY DEF PagesInit
<1>2. [PagesNext]_pages => [Next]_vars
  BY DEF PagesNext, pages
<1> QED BY <1>1, <1>2, PTL DEF PagesSpec, Spec

LEMMA ListsMove == PagesSpec => ListsSpec
<1>1. PagesInit => ListsInit
  BY DEF PagesInit
<1>2. [PagesNext]_pages => [ListsNext]_lists
  BY DEF PagesNext, pages, technical
<1> QED BY <1>1, <1>2, PTL DEF PagesSpec, ListsSpec

\* Nothing under a page that is seen, no list that is shown and none that is
\* saved is of another identity, by whatever logins, expiries, loads, imports
\* and saves.
THEOREM NothingIsOfAnother == PagesSpec => []NothingOfAnotherIdentity
<1>1. PagesSpec => []NothingOfAnotherPerson
  BY SessionMoves, OwnSession, PTL
<1>2. PagesSpec => []OwnDataOnly
  BY ListsMove, OwnData, ListsAssumption, PTL
<1>3. NothingOfAnotherPerson /\ OwnDataOnly => NothingOfAnotherIdentity
  BY DEF NothingOfAnotherIdentity
<1> QED BY <1>1, <1>2, <1>3, PTL
=============================================================================
