----------------------------- MODULE Decisions -----------------------------
(***************************************************************************)
(* The decisions about a position: what the exit rules sell, how large an  *)
(* entry and an add-on are, what a watchlist row shows as its plan, and    *)
(* what an amount in dollars is worth at home.  They keep no state: an     *)
(* action asks one of them one question, and the invariants say what all   *)
(* the answers have in common.                                             *)
(***************************************************************************)
EXTENDS Integers, Sequences, FiniteSetsExt

CONSTANTS DcCapital,   \* capital in the currency of the stock
          DcPrice,     \* entry prices
          DcRisk,      \* distances from entry to stop
          DcVolume,    \* average volumes; 0 when it is not known
          DcOdd        \* prices that geometry is resolved from; 0 is missing

ASSUME DcAssumption ==
    /\ DcCapital \subseteq Nat /\ DcPrice \subseteq Nat \ {0} /\ DcRisk \subseteq Int
    /\ DcVolume \subseteq Nat /\ DcOdd \subseteq Nat
    /\ \A price \in DcOdd : price % 25 = 0   \* 92 and 120 percent are exact

VARIABLE asking   \* the question at hand

dcVars == <<asking>>
DcNothing == [about |-> "nothing"]
DcInit == asking = DcNothing

-----------------------------------------------------------------------------
(* evaluate_exit_rules                                                     *)

ExitRules == {"failed", "time", "earnings", "cushion", "target1", "target2",
              "giveback", "climax", "parabolic", "ma50", "tight"}

\* What the prices say.  gain: under 10%, and from 10, 20, 40 and 50%.
ExitQuestions ==
    [stop : BOOLEAN, gain : {0, 10, 20, 40, 50}, days : {"early", "between", "late"},
     under : BOOLEAN, earnings : {"far", "near", "close"}, back : BOOLEAN,
     climax : BOOLEAN, weeks : {"few", "up", "tight"}, broken : BOOLEAN,
     off : {{}} \cup {{r} : r \in ExitRules}]

EnabledIn(x, rule) == rule \notin x.off
Tight(x) == EnabledIn(x, "tight") /\ x.weeks = "tight"

\* Three tight weeks drop every signal but a stop's and earnings'.
Signal(x, cond, reason, kind) ==
    IF cond /\ (Tight(x) => reason \in {"STOP_LOSS", "EARNINGS_AVOID"})
      THEN <<[reason |-> reason, kind |-> kind]>> ELSE <<>>

\* Signals that exit; those that only inform are left out.
Defensive(x) ==
    Signal(x, EnabledIn(x, "failed") /\ x.days = "early" /\ x.under, "FAILED_BREAKOUT", "FULL")
    \o Signal(x, EnabledIn(x, "time") /\ x.days = "late" /\ x.gain < 10, "TIME_STOP", "FULL")
    \o Signal(x, EnabledIn(x, "earnings") /\ x.earnings = "close"
                   /\ ~(EnabledIn(x, "cushion") /\ x.gain >= 10), "EARNINGS_AVOID", "FULL")

Offensive(x) ==
    Signal(x, EnabledIn(x, "target1") /\ x.gain >= 20, "PROFIT_TARGET_1", "PARTIAL")
    \o Signal(x, EnabledIn(x, "target2") /\ x.gain >= 40 /\ (EnabledIn(x, "giveback") => x.back),
              "PROFIT_TARGET_2", "FULL")
    \o Signal(x, EnabledIn(x, "climax") /\ x.climax /\ x.gain >= 50, "CLIMAX_TOP", "FULL")
    \o Signal(x, EnabledIn(x, "parabolic") /\ x.weeks = "up", "CLIMAX_TOP", "PARTIAL")
    \o Signal(x, EnabledIn(x, "ma50") /\ x.broken, "TRAILING_STOP", "FULL")

\* Mutant: the offensive rules are looked at first.
OffensiveFirst(x) ==
    IF x.stop THEN Signal(x, TRUE, "STOP_LOSS", "FULL") ELSE Offensive(x) \o Defensive(x)

\* A stop returns at once.
ExitSignals(x) ==
    IF x.stop THEN Signal(x, TRUE, "STOP_LOSS", "FULL") ELSE Defensive(x) \o Offensive(x)

\* check_exit_rules_task carries out the first signal and stops there.
CarriedOut(x) == IF ExitSignals(x) = <<>> THEN {} ELSE {ExitSignals(x)[1]}

-----------------------------------------------------------------------------
(* calculate_position_size for a stock, in whole shares                    *)

SizeQuestions ==
    [capital : DcCapital, entry : DcPrice, risk : DcRisk, volume : DcVolume,
     multiplier : {0, 50, 100}, riskPct : {1, 2}, capPct : {10, 30},
     commission : {1, 6}]

AtLeastOne(n) == Max({1, n})
PositionCap(x) == (x.capital * x.capPct) \div 100
VolumeCap(x) == AtLeastOne(x.volume \div 5)

\* By risk, by the share of the capital, by a fifth of the average volume.
CappedSize(x) ==
    Min({AtLeastOne((x.capital * x.riskPct * x.multiplier) \div (10000 * x.risk)),
         AtLeastOne(PositionCap(x) \div x.entry)}
        \cup (IF x.volume > 0 THEN {VolumeCap(x)} ELSE {}))

\* Shares for which the minimum commission is one percent.
WorthTheFee(x) == (100 * x.commission + x.entry - 1) \div x.entry

\* Mutant: the fee raises the size without a look at the capital.
SizeForFee(x) ==
    IF x.multiplier = 0 \/ x.risk <= 0 THEN 0
    ELSE Max({CappedSize(x), WorthTheFee(x)})

PositionSize(x) ==
    IF x.multiplier = 0 \/ x.risk <= 0 THEN 0
    ELSE IF 100 * x.commission <= CappedSize(x) * x.entry THEN CappedSize(x)
    ELSE IF 100 * WorthTheFee(x) * x.entry > x.capital * x.capPct THEN 0
    ELSE Max({CappedSize(x), WorthTheFee(x)})

-----------------------------------------------------------------------------
(* calculate_pyramid_size and request_pyramid_add_on; tenths of a unit, of  *)
(* which shares have whole units only                                      *)

AddOnQuestions == [tenths : {4, 10, 20, 30, 70, 150}, gain : {0, 2, 5}, count : 0..2]

\* The second add-on divides what is held by one and a half.
Tranche(x) == IF x.count = 0 THEN x.tenths ELSE (x.tenths * 2) \div 3

AddOnSize(x) ==
    IF x.count + 1 > 2 \/ x.gain < 2 THEN 0
    ELSE 10 * AtLeastOne(Tranche(x) \div (IF x.count = 0 THEN 20 ELSE 40))

-----------------------------------------------------------------------------
(* resolve_watchlist_geometry, in hundredths; 0 is a price that is missing *)

GeometryQuestions == [pivot : DcOdd, stop : DcOdd, high : DcOdd, close : DcOdd, atr : DcOdd]

FallbackStop(pivot, atr) ==
    LET wide == pivot - 2 * atr
    IN  IF atr > 0 /\ wide > 0 /\ wide < pivot THEN wide ELSE (pivot * 92) \div 100

Geometry(x) ==
    IF x.pivot > 0
      THEN [pivot |-> x.pivot, stop |-> x.stop, target |-> (x.pivot * 120) \div 100]
      ELSE LET pivot == IF x.high > 0 THEN x.high ELSE x.close
           IN  [pivot |-> pivot, stop |-> FallbackStop(pivot, x.atr),
                target |-> (pivot * 120) \div 100]

-----------------------------------------------------------------------------
(* What an amount in US dollars becomes in the books, three Australian for *)
(* two: when an exit rule sells, when the broker reports a sale, when a    *)
(* crypto venue does, when open positions are marked and when their risk   *)
(* is added up.  The rate a position could keep is never written.          *)

MoneyQuestions ==
    [path : {"rule", "fill", "venue", "mark", "heat"}, native : {-60, 12, 60},
     currency : {"AUD", "USD"}]

InAud(x) ==
    IF x.currency = "AUD" \/ x.path = "fill" THEN x.native
    ELSE IF x.path \in {"rule", "heat"} THEN (x.native * 2) \div 3
    ELSE (x.native * 3) \div 2

-----------------------------------------------------------------------------
DcAsk(about, questions) ==
    /\ asking = DcNothing
    /\ \E q \in questions : asking' = [about |-> about, x |-> q]

AskExit == DcAsk("exit", ExitQuestions)
AskSize == DcAsk("size", SizeQuestions)
AskAddOn == DcAsk("addon", AddOnQuestions)
AskGeometry == DcAsk("geometry", GeometryQuestions)
AskMoney == DcAsk("money", MoneyQuestions)

DcNext ==
    \/ AskExit \/ AskSize \/ AskAddOn \/ AskGeometry \/ AskMoney

DcSpec == DcInit /\ [][DcNext]_dcVars

Deciding(about) == asking.about = about

-----------------------------------------------------------------------------
(* Properties.                                                             *)

\* What protects comes before what takes profit: a position at its stop, under
\* its pivot too early, without a gain for too long or thin before earnings is
\* sold whole, unless three tight weeks speak for it; a partial sale of another
\* rule never takes that place, although only the first signal is carried out.
DefenceComesFirst ==
    Deciding("exit") /\ (asking.x.stop \/ Defensive(asking.x) # <<>>) =>
        \E s \in CarriedOut(asking.x) : s.kind = "FULL"

\* Three tight weeks: nothing sells but the stop and earnings.
TightWeeksHold ==
    Deciding("exit") /\ Tight(asking.x) =>
        \A s \in CarriedOut(asking.x) : s.reason \in {"STOP_LOSS", "EARNINGS_AVOID"}

\* No order costs more than the position's share of the capital, but for a
\* single share: raising a size for the commission does not lift it over.
SizeWithinCapital ==
    Deciding("size") =>
        \/ PositionSize(asking.x) <= 1
        \/ 100 * PositionSize(asking.x) * asking.x.entry <= asking.x.capital * asking.x.capPct

\* Geometry without a pattern: the stop is under the pivot and above nothing,
\* however wide the ATR is.
GeometryOrdered ==
    Deciding("geometry") =>
        LET g == Geometry(asking.x)
        IN  asking.x.pivot = 0 /\ g.pivot > 0 =>
                g.stop > 0 /\ g.stop < g.pivot /\ g.pivot < g.target

\* Pyramiding shrinks: the second add-on is no larger than the first, and the
\* first is at most half of what was held, but for the one unit that is least.
AddOnsShrink ==
    Deciding("addon") =>
        LET first == AddOnSize([asking.x EXCEPT !.count = 0])
            second == AddOnSize([asking.x EXCEPT !.count = 1, !.tenths = @ + first])
        IN  second <= first /\ (first > 10 => 2 * first <= asking.x.tenths)

\* What trading.py says of a Trade: totals are consistently in AUD, whichever
\* task writes the row.
TradesInAud ==
    Deciding("money") /\ asking.x.path \in {"rule", "fill", "venue"} =>
        InAud(asking.x) = InAud([asking.x EXCEPT !.path = "mark"])

\* What the exit rules sell, and in which order.
ExitOrder == DefenceComesFirst /\ TightWeeksHold

\* The plan of a trade: its levels in order, its cost within the capital, and
\* no add-on larger than the one before.
PlanIsSound == SizeWithinCapital /\ GeometryOrdered /\ AddOnsShrink
=============================================================================
