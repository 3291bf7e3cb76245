------------------------------ MODULE Backtest ------------------------------
(***************************************************************************)
(* The replay of one ticker day by day (run_backtest_for_ticker): a signal *)
(* from the bars before today, an entry on the breakout, an exit at the    *)
(* stop or by a rule, and what is left sold on the last day.  What the     *)
(* detector finds, what the rules say and the bars themselves are any.     *)
(***************************************************************************)
EXTENDS Integers, Sequences, SequencesExt, FiniteSetsExt

CONSTANTS BtPrices,   \* price levels
          BtDays,     \* the last day of the test
          BtLife,     \* days a signal waits for its breakout
          BtRisk,     \* the amount put at risk in a trade
          BtSettings  \* sets of rules that are switched on; {} leaves the replay asleep

ASSUME BtAssumption ==
    BtPrices \subseteq Nat \ {0} /\ BtDays \in Nat /\ BtLife \in Nat /\ BtRisk \in Nat

VARIABLES btOn,        \* the rules switched on
          btDay,       \* the day replayed last; 0 before the first
          btBar,       \* its bar
          btSignal,    \* the pending signal, or none
          btPosition,  \* the open position, or none
          btTrades     \* the trades so far

btVars == <<btOn, btDay, btBar, btSignal, btPosition, btTrades>>
NoSignal == [day |-> 0, pivot |-> 0, stop |-> 0]
NoPosition == [day |-> 0, entry |-> 0, stop |-> 0, qty |-> 0]

BtBars ==
    {b \in [open : BtPrices, high : BtPrices, low : BtPrices, close : BtPrices] :
        /\ b.low <= b.open /\ b.open <= b.high
        /\ b.low <= b.close /\ b.close <= b.high}

BtInit ==
    /\ btOn \in BtSettings
    /\ btDay = 0 /\ btBar \in {b \in BtBars : b.low = b.high /\ b.high = Min(BtPrices)}
    /\ btSignal = NoSignal /\ btPosition = NoPosition /\ btTrades = <<>>

\* The next day with a bar, after a weekend or not.
NextDay ==
    /\ btOn # {} /\ btDay < BtDays
    /\ btDay' \in {d \in {btDay + 1, btDay + 3} : d <= BtDays}
    /\ btBar' \in BtBars
    /\ UNCHANGED btOn

Sold(price, why) ==
    Append(btTrades, [entered |-> btPosition.day, entry |-> btPosition.entry, qty |-> btPosition.qty,
                      left |-> btDay', exit |-> price, why |-> why])

\* A bar that opens under the stop sells at the opening.
StopFill(stop, open) == Min({stop, open})

\* Mutant: a stopped position is not forgotten.
StopHitAgain ==
    /\ NextDay /\ btPosition # NoPosition
    /\ btBar'.low <= btPosition.stop
    /\ btTrades' = Sold(StopFill(btPosition.stop, btBar'.open), "stop")
    /\ btSignal' = NoSignal /\ UNCHANGED btPosition

\* The stop is looked at before the rules; both forget the signal.
StopHit ==
    /\ NextDay /\ btPosition # NoPosition
    /\ btBar'.low <= btPosition.stop
    /\ btTrades' = Sold(StopFill(btPosition.stop, btBar'.open), "stop")
    /\ btPosition' = NoPosition /\ btSignal' = NoSignal

RuleSells ==
    /\ NextDay /\ btPosition # NoPosition
    /\ btBar'.low > btPosition.stop
    /\ btTrades' = Sold(btBar'.close, "rule")
    /\ btPosition' = NoPosition /\ btSignal' = NoSignal

Hold ==
    /\ NextDay /\ btPosition # NoPosition
    /\ btBar'.low > btPosition.stop
    /\ UNCHANGED <<btSignal, btPosition, btTrades>>

\* Of the two breakout rules the one on the volume says anything.
Breakout(bar) == "price" \in btOn => bar.close >= btSignal.pivot

QtyOf(entry, signal) ==
    IF entry > signal.stop THEN Max({1, BtRisk \div (entry - signal.stop)}) ELSE 100

Enter ==
    /\ NextDay /\ btPosition = NoPosition /\ btSignal # NoSignal
    /\ Breakout(btBar')
    /\ LET price == Max({btSignal.pivot, btBar'.open})
       IN  btPosition' = [day |-> btDay', entry |-> price, stop |-> btSignal.stop,
                          qty |-> QtyOf(price, btSignal)]
    /\ btSignal' = NoSignal
    /\ UNCHANGED btTrades

\* No breakout today; a signal that is too old is dropped.
Wait ==
    /\ NextDay /\ btPosition = NoPosition /\ btSignal # NoSignal
    /\ "volume" \in btOn \/ ~Breakout(btBar')
    /\ btSignal' = IF btDay' - btSignal.day > BtLife THEN NoSignal ELSE btSignal
    /\ UNCHANGED <<btPosition, btTrades>>

\* The bars before today show a pattern, or none.
LookForPattern ==
    /\ NextDay /\ btPosition = NoPosition /\ btSignal = NoSignal
    /\ \/ \E pivot, stop \in BtPrices :
             stop < pivot /\ btSignal' = [day |-> btDay', pivot |-> pivot, stop |-> stop]
       \/ UNCHANGED btSignal
    /\ UNCHANGED <<btPosition, btTrades>>

\* What is open after the last day is sold at its close.
EndOfTest ==
    /\ btDay = BtDays /\ btPosition # NoPosition
    /\ btTrades' = Append(btTrades, [entered |-> btPosition.day, entry |-> btPosition.entry,
                                     qty |-> btPosition.qty, left |-> btDay,
                                     exit |-> btBar.close, why |-> "end"])
    /\ btPosition' = NoPosition
    /\ UNCHANGED <<btOn, btDay, btBar, btSignal>>

BtNext ==
    \/ StopHit \/ RuleSells \/ Hold \/ Enter \/ Wait \/ LookForPattern \/ EndOfTest

BtSpec == BtInit /\ [][BtNext]_btVars

-----------------------------------------------------------------------------
(* Properties.                                                             *)

\* With the price rule on, whatever the replay buys or sells it does at a price
\* the day's bar traded at: an entry is not filled at a pivot the market stayed
\* under, nor a stop at a price it opened below.
FillsAreTraded ==
    /\ btPosition' # btPosition /\ btPosition' # NoPosition /\ "price" \in btOn =>
          btPosition'.entry \in btBar'.low..btBar'.high
    /\ btTrades' # btTrades => Last(btTrades').exit \in btBar'.low..btBar'.high

\* Trades follow each other: none begins before the last one ended, and all but
\* one sold at the end of the test are held overnight.
TradesDoNotOverlap ==
    \A i \in 1..Len(btTrades) :
        /\ btTrades[i].entered < btTrades[i].left \/ btTrades[i].why = "end"
        /\ i > 1 => btTrades[i - 1].left < btTrades[i].entered

\* A position larger than one share loses no more than the risk it was sized
\* for when it is stopped at its stop, also if it was bought above the pivot.
LossWithinRisk ==
    btPosition.qty > 1 => btPosition.qty * (btPosition.entry - btPosition.stop) <= BtRisk

\* The replay could have been traded: at prices of the day, one position at a
\* time, and within the risk.
ReplayIsSound == [][FillsAreTraded /\ TradesDoNotOverlap' /\ LossWithinRisk']_btVars
=============================================================================
