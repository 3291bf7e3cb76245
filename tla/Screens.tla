------------------------------ MODULE Screens ------------------------------
(***************************************************************************)
(* What a screen decides about a ticker: the trend template, fundamentals, *)
(* the rules for coins, contraction patterns, the breakout, the market     *)
(* regime, sector leadership and the outcome of the three screens that     *)
(* combine them.  The rules keep no state: an action asks one of them one  *)
(* question, and the invariants say what all the answers have in common.   *)
(***************************************************************************)
EXTENDS Integers, Sequences, FiniteSets, SequencesExt, FiniteSetsExt

CONSTANTS ScAverages,  \* prices and averages of the template; 0 is unknown
          ScQuarters,  \* earnings of a quarter
          ScSectors,   \* how many sectors there are
          ScBars,      \* daily bars: [high, low]
          ScLength     \* days in a window of bars

ASSUME ScAssumption ==
    /\ ScAverages \subseteq Nat /\ ScQuarters \subseteq Int
    /\ ScSectors \in Nat /\ ScLength \in Nat \ {0}
    /\ \A b \in ScBars : b.low \in Nat /\ b.high >= b.low /\ b.high > 0

VARIABLE screening   \* the question at hand

scVars == <<screening>>
ScNothing == [about |-> "nothing"]
ScInit == screening = ScNothing

-----------------------------------------------------------------------------
(* evaluate_trend_template                                                 *)

TrendQuestions ==
    [close : ScAverages \ {0}, ma50 : ScAverages, ma150 : ScAverages, ma200 : ScAverages,
     before : ScAverages, low : ScAverages, high : ScAverages, rs : {0, 70}]

\* Mutant: an average that is not known does not stand in the way.
UnknownIsMet(x) ==
    {c \in {"over200", "over150", "150over200", "rising", "50over", "over50", "low", "high", "rs"} :
        CASE c = "over200" -> x.close > x.ma200
          [] c = "over150" -> x.close > x.ma150
          [] c = "150over200" -> x.ma150 > x.ma200
          [] c = "rising" -> x.ma200 > x.before
          [] c = "50over" -> x.ma50 > x.ma150 /\ x.ma50 > x.ma200
          [] c = "over50" -> x.close > x.ma50
          [] c = "low" -> 10 * x.close >= 13 * x.low
          [] c = "high" -> 4 * x.close >= 3 * x.high
          [] OTHER -> x.rs >= 70}

\* The criteria that are met; an average of 0 is one that is missing.
TrendMet(x) ==
    {c \in {"over200", "over150", "150over200", "rising", "50over", "over50", "low", "high", "rs"} :
        CASE c = "over200" -> x.close > x.ma200 /\ x.ma200 > 0
          [] c = "over150" -> x.close > x.ma150 /\ x.ma150 > 0
          [] c = "150over200" -> x.ma150 > x.ma200 /\ x.ma200 > 0
          [] c = "rising" -> x.ma200 > x.before /\ x.before > 0
          [] c = "50over" -> x.ma50 > x.ma150 /\ x.ma50 > x.ma200 /\ x.ma50 > 0
          [] c = "over50" -> x.close > x.ma50 /\ x.ma50 > 0
          [] c = "low" -> x.low > 0 /\ 10 * x.close >= 13 * x.low
          [] c = "high" -> x.high > 0 /\ 4 * x.close >= 3 * x.high
          [] OTHER -> x.rs >= 70}

-----------------------------------------------------------------------------
(* evaluate_fundamentals: earnings of this quarter and the last, of the    *)
(* same quarters a year ago, and of the other two of each year.  quarters  *)
(* says how many are known; shares of a hundred, -1 when not known.        *)

ScOther ==
    {[sales |-> s, roe |-> 90, margin |-> 5, owned |-> 40] : s \in {"unknown", "more", "less"}}
    \cup {[sales |-> "more", roe |-> r, margin |-> m, owned |-> o] :
             r \in {-1, 10, 90}, m \in {-1, 0, 5}, o \in {-1, 2, 40, 85}}

FundamentalQuestions ==
    [now : ScQuarters, last : ScQuarters, ago : ScQuarters, lastAgo : ScQuarters,
     rest : {0, 4}, restAgo : {-4, 0, 4}, quarters : {4, 5, 6, 8}, other : ScOther]

\* Growth over the year as a fraction; none from nothing.
Growth(now, ago) ==
    IF ago = 0 THEN <<0, 1>> ELSE <<now - ago, IF ago < 0 THEN -ago ELSE ago>>
Exceeds(a, b) == a[1] * b[2] > b[1] * a[2]

\* A quarter more than a year ago, and a loss turned into a profit.
GrewFrom(now, ago) == 4 * now >= 5 * ago

\* Mutant: growth is measured from the earnings with their sign.
SignedGrowth(x) ==
    x.quarters < 6
      \/ LET g(now, ago) == IF ago = 0 THEN <<0, 1>>
                            ELSE IF ago < 0 THEN <<ago - now, -ago>> ELSE <<now - ago, ago>>
         IN  Exceeds(g(x.now, x.ago), g(x.last, x.lastAgo))

Accelerates(x) == x.quarters < 6 \/ Exceeds(Growth(x.now, x.ago), Growth(x.last, x.lastAgo))

Annual(x) ==
    LET year == x.now + x.last + x.rest
        before == x.ago + x.lastAgo + x.restAgo
    IN  x.quarters < 8 \/ IF before > 0 THEN GrewFrom(year, before) ELSE before < 0 /\ year > 0

\* Seven criteria are evaluated; what is not known passes.
FundamentalsMet(x) ==
    {c \in {"recent", "accel", "annual", "sales", "roe", "margin", "owned"} :
        CASE c = "recent" -> x.quarters < 5 \/ x.ago <= 0 \/ GrewFrom(x.now, x.ago)
          [] c = "accel" -> Accelerates(x)
          [] c = "annual" -> Annual(x)
          [] c = "sales" -> x.other.sales # "less"
          [] c = "roe" -> x.other.roe = -1 \/ x.other.roe >= 17
          [] c = "margin" -> x.other.margin # 0
          [] OTHER -> x.other.owned = -1 \/ x.other.owned \in 5..80}

Enough(met, on) == on = 0 \/ 4 * met >= 3 * on

-----------------------------------------------------------------------------
(* evaluate_crypto_rules.  No bitcoin prices are handed over, so bitcoin   *)
(* judges its own regime and the others skip it; -1 is not known.  atr is  *)
(* in tenths of a percent of the price, rr in tenths.                      *)

CoinQuestions ==
    [coin : {"BTC", "ETH", "alt"}, above : BOOLEAN, cap : {-1, 50, 200}, volume : {-1, 1, 9},
     estimate : {1, 9}, atr : {0, 30, 50, 80}, stopMin : {50, 100}, rrMin : {15, 25},
     depth : {10, 20}, momentum : BOOLEAN, bars : {50, 100}]

\* The exchange's own volume or, without one, price times units of the day.
VolumeOK(x) ==
    \/ x.coin \in {"BTC", "ETH"}
    \/ IF x.volume = -1 THEN x.estimate >= 5 ELSE x.volume >= 5

\* Twenty percent to the target over one and a half ATR, or over 15% when the
\* ATR is not known.
RewardOK(x) == 3 * x.rrMin * (IF x.atr > 0 THEN x.atr ELSE 100) <= 4000

CoinRules == {"regime", "cap", "volume", "stop", "risk", "depth", "momentum", "reward", "strength"}

CoinMet(x) ==
    {c \in CoinRules :
        CASE c = "regime" -> x.coin = "BTC" => x.above
          [] c = "cap" -> x.coin \in {"BTC", "ETH"} \/ x.cap = -1 \/ x.cap >= 100
          [] c = "volume" -> VolumeOK(x)
          [] c = "stop" -> x.atr = 0 \/ 3 * x.atr >= 2 * x.stopMin
          [] c = "depth" -> x.depth >= 15
          [] c = "momentum" -> x.momentum
          [] c = "reward" -> RewardOK(x)
          [] OTHER -> TRUE}

CoinOK(x) == CoinMet(x) = CoinRules

-----------------------------------------------------------------------------
(* evaluate_market_regime and get_size_multiplier                          *)

RegimeRules == {"index", "breadth", "distribution"}
RegimeQuestions == [on : SUBSET RegimeRules, met : SUBSET RegimeRules, crypto : BOOLEAN]

\* A crypto exchange is judged by its index only.
Judged(x) == IF x.crypto THEN x.on \cap {"index"} ELSE x.on

Regime(x) ==
    LET missed == Judged(x) \ x.met
    IN  IF missed = {} THEN "BULL"
        ELSE IF Cardinality(Judged(x)) > 1 /\ Cardinality(missed) = 1 THEN "CAUTION"
        ELSE "BEAR"

\* In percent of the full size.
SizeMultiplier(regime) == [BULL |-> 100, CAUTION |-> 50, BEAR |-> 0][regime]

-----------------------------------------------------------------------------
(* load_sector_returns and evaluate_sector_leadership                      *)

SectorQuestions == [median : [1..ScSectors -> 0..2], top : {20, 34, 50, 100}]

\* sorted() is stable: of equal sectors the earlier one leads.
Rank(x, s) ==
    1 + Cardinality({o \in 1..ScSectors : x.median[o] > x.median[s]
                                          \/ (x.median[o] = x.median[s] /\ o < s)})

Cohort(x) == Max({1, (ScSectors * x.top + 99) \div 100})
Leads(x, s) == ScSectors >= 3 /\ Rank(x, s) <= Cohort(x)

-----------------------------------------------------------------------------
(* detect_vcp: pivots of the window, legs from high to low, the tail of    *)
(* legs that tighten                                                       *)

VcpQuestions == [bars : [1..ScLength -> ScBars], dry : BOOLEAN]

Around(x, i) == {x.bars[j] : j \in {i - 1, i, i + 1}}
PivotHighs(x) == {i \in 2..(ScLength - 1) : \A b \in Around(x, i) : b.high <= x.bars[i].high}
PivotLows(x) == {i \in 2..(ScLength - 1) : \A b \in Around(x, i) : b.low >= x.bars[i].low}

\* The first pivot low after the high.
NextLow(x, h) ==
    LET later == {l \in PivotLows(x) : l > h} IN IF later = {} THEN {} ELSE {Min(later)}

\* A leg goes from a high to the next low; one without a drop is no leg.
Legs(x) ==
    {g \in [from : PivotHighs(x), to : PivotLows(x)] :
        g.to \in NextLow(x, g.from) /\ x.bars[g.from].high > x.bars[g.to].low}

\* Leg a is shallower than leg b, each measured from its own high.
Shallower(x, a, b) ==
    (x.bars[a.from].high - x.bars[a.to].low) * x.bars[b.from].high
      < (x.bars[b.from].high - x.bars[b.to].low) * x.bars[a.from].high

ScContractions == 2   \* vcp_min_contractions
ScBase == 2           \* vcp_min_weeks, in bars

\* A leg that is not tighter starts the count again when enough legs are left,
\* and ends it otherwise.
TakeLeg(x, acc, g) ==
    IF acc.done THEN acc
    ELSE IF acc.kept = <<>> \/ Shallower(x, g, Last(acc.kept))
           THEN [acc EXCEPT !.kept = Append(@, g)]
    ELSE IF Cardinality({o \in Legs(x) : o.from >= g.from}) >= ScContractions
           THEN [acc EXCEPT !.kept = <<g>>]
    ELSE [acc EXCEPT !.done = TRUE]

\* The legs are taken in the order of their highs, of which a bar is one at most.
TakenBy(x) ==
    LET taken[i \in 0..ScLength] ==
            IF i = 0 THEN [kept |-> <<>>, done |-> FALSE]
            ELSE IF \E g \in Legs(x) : g.from = i
                   THEN TakeLeg(x, taken[i - 1], CHOOSE g \in Legs(x) : g.from = i)
            ELSE taken[i - 1]
    IN  taken

Tightening(x) == TakenBy(x)[ScLength].kept

Detected(x) ==
    /\ Cardinality(PivotHighs(x)) >= 2 /\ Cardinality(PivotLows(x)) >= 2
    /\ Len(Tightening(x)) >= ScContractions
    /\ Last(Tightening(x)).from - Head(Tightening(x)).from >= ScBase
    /\ x.dry

PivotPrice(x) == x.bars[Last(Tightening(x)).from].high
StopPrice(x) == x.bars[Last(Tightening(x)).to].low

-----------------------------------------------------------------------------
(* check_breakout: prices in percent of the pivot, volumes in percent of   *)
(* the average, minutes since the opening of a day of ScDay minutes        *)

ScDay == 390
BreakoutQuestions ==
    [close : {0, 99, 100, 104, 106}, volume : {0, 10, 80, 150}, crypto : BOOLEAN,
     minute : {0, 1, 13, 195, 389, 390}]

\* While the market is open the volume is projected to the whole day.
Projected(x) ==
    IF ~x.crypto /\ x.minute \in 1..(ScDay - 1) THEN (x.volume * ScDay) \div x.minute ELSE x.volume

BreaksOut(x) == x.close \in 100..105 /\ Projected(x) >= 150

-----------------------------------------------------------------------------
(* The outcome of a screen: the daily one, the forced one and that of a    *)
(* single ticker.  A limit of 0 is none.                                   *)

Scores == {[trendOn |-> t[1], trendMet |-> t[2], fundOn |-> f[1], fundMet |-> f[2]] :
              t \in {<<9, 9>>, <<9, 6>>, <<9, 5>>, <<5, 5>>, <<5, 4>>},
              f \in {<<7, 6>>, <<7, 5>>, <<4, 3>>, <<0, 0>>}}

ScreenQuestions ==
    [crypto : BOOLEAN, bars : {30, 100, 250}, price : {1, 4}, least : {0, 2}, most : {0, 3},
     thin : BOOLEAN, score : Scores, vcp : BOOLEAN, sector : BOOLEAN, coin : BOOLEAN]

\* price_in_range and liquidity_ok are for stocks.
Tradable(x) ==
    x.crypto \/ ((x.least > 0 => x.price >= x.least) /\ (x.most > 0 => x.price <= x.most) /\ ~x.thin)

TrendOK(x) == x.score.trendMet = x.score.trendOn
FundOK(x) == Enough(x.score.fundMet, x.score.fundOn)

\* What is left of a stock that misses its trend: six criteria are enough.
NearMiss(x) == IF x.score.trendMet >= 6 THEN "watch" ELSE "refresh"

\* run_daily_screen needs the bars of an average, and knows no rules for coins.
DailyScreen(x) ==
    IF x.bars < 200 \/ ~Tradable(x) THEN "skip"
    ELSE IF ~TrendOK(x) THEN NearMiss(x)
    ELSE IF FundOK(x) /\ x.vcp /\ (x.crypto \/ x.sector) THEN "signal" ELSE "watch"

\* _run_screen_force
ForcedScreen(x) ==
    IF x.bars < 50 \/ ~Tradable(x) THEN "skip"
    ELSE IF ~TrendOK(x) THEN NearMiss(x)
    ELSE IF FundOK(x) /\ x.vcp /\ (IF x.crypto THEN x.coin ELSE x.sector) THEN "signal" ELSE "watch"

\* Mutant: the fundamentals are left to the watchlist.
SingleTechnical(x) ==
    IF x.bars < 50 THEN "watch"
    ELSE IF ~Tradable(x) THEN "skip"
    ELSE IF TrendOK(x) /\ x.vcp /\ (IF x.crypto THEN x.coin ELSE x.sector) THEN "signal" ELSE "watch"

\* screen_single_ticker: a ticker that somebody asked for is watched in any
\* case but the filters'.
SingleScreen(x) ==
    IF x.bars < 50 THEN "watch"
    ELSE IF ~Tradable(x) THEN "skip"
    ELSE IF TrendOK(x) /\ FundOK(x) /\ x.vcp /\ (IF x.crypto THEN x.coin ELSE x.sector)
           THEN "signal" ELSE "watch"

-----------------------------------------------------------------------------
(* compute_rs_ratings: the rank of a stock's performance among its peers,  *)
(* ties sharing their middle.  A stock without a year of bars has none.    *)

NoYear == -999

\* The gains of a stock's four quarters, first to last, and its peers'
\* performance.
RatingQuestions == [gains : [1..4 -> {-2, 0, 3}], peers : [1..2 -> {NoYear, -2, 0, 4}]]

\* _compute_performance, in fifths
Performance(gains) == gains[1] + gains[2] + gains[3] + 2 * gains[4]

\* In halves of a rank, of as many as have one.
Rating(x) ==
    LET own == Performance(x.gains)
        ranked == {p \in 1..2 : x.peers[p] # NoYear}
        below == {p \in ranked : x.peers[p] < own}
        ties == {p \in ranked : x.peers[p] = own}
    IN  (100 * (2 * Cardinality(below) + Cardinality(ties) + 2)) \div (2 * (Cardinality(ranked) + 1))

-----------------------------------------------------------------------------
ScAsk(about, questions) ==
    /\ screening = ScNothing
    /\ \E q \in questions : screening' = [about |-> about, x |-> q]

AskTrend == ScAsk("trend", TrendQuestions)
AskFundamentals == ScAsk("fundamentals", FundamentalQuestions)
AskCoin == ScAsk("coin", CoinQuestions)
AskRegime == ScAsk("regime", RegimeQuestions)
AskSector == ScAsk("sector", SectorQuestions)
AskVcp == ScAsk("vcp", VcpQuestions)
AskBreakout == ScAsk("breakout", BreakoutQuestions)
AskScreen == ScAsk("screen", ScreenQuestions)
AskRating == ScAsk("rating", RatingQuestions)

ScNext ==
    \/ AskTrend \/ AskFundamentals \/ AskCoin \/ AskRegime
    \/ AskSector \/ AskVcp \/ AskBreakout \/ AskScreen \/ AskRating

ScSpec == ScInit /\ [][ScNext]_scVars

Asked(about) == screening.about = about

-----------------------------------------------------------------------------
(* Properties.                                                             *)

\* An average that could not be computed never counts for a stock: one without
\* its two long averages stays under the six criteria that put it on the
\* watchlist, and one that meets all nine has every average, in order.
TrendNeedsAverages ==
    Asked("trend") =>
        LET x == screening.x
        IN  /\ x.ma150 = 0 /\ x.ma200 = 0 => Cardinality(TrendMet(x)) < 6
            /\ Cardinality(TrendMet(x)) = 9 =>
                  /\ x.close > x.ma50 /\ x.ma50 > x.ma150 /\ x.ma150 > x.ma200
                  /\ x.ma200 > x.before /\ x.before > 0 /\ x.low > 0 /\ x.high > 0

\* A better quarter never costs a stock its fundamentals, through losses and
\* out of them.
BetterQuarterNeverHurts ==
    Asked("fundamentals") =>
        \A now \in ScQuarters :
            now > screening.x.now =>
                FundamentalsMet(screening.x) \subseteq FundamentalsMet([screening.x EXCEPT !.now = now])

\* What the data source does not know never fails a stock: with fewer quarters,
\* or without a return, a margin or an owner, it meets whatever it met.
MissingNeverHurts ==
    Asked("fundamentals") =>
        LET met == FundamentalsMet(screening.x)
        IN  /\ \A q \in {4, 5, 6} :
                  q < screening.x.quarters =>
                     met \subseteq FundamentalsMet([screening.x EXCEPT !.quarters = q])
            /\ \A f \in {"roe", "margin", "owned"} :
                  met \subseteq FundamentalsMet([screening.x EXCEPT !.other[f] = -1])

\* A coin that passes also passes with a deeper history and momentum, with more
\* volume of its own, and when nothing is known of its market cap; and a coin
\* with a known range passes with a wider one until the reward rule stops it.
BetterCoinNeverHurts ==
    Asked("coin") /\ CoinOK(screening.x) =>
        LET x == screening.x
        IN  /\ CoinOK([x EXCEPT !.depth = 20, !.momentum = TRUE, !.volume = 9, !.cap = -1])
            /\ \A a \in {30, 50, 80} :
                  x.atr \in 1..a => CoinOK([x EXCEPT !.atr = a]) \/ ~RewardOK([x EXCEPT !.atr = a])

\* One more criterion met never makes the regime worse, and a market that
\* meets none of its criteria is a bear market, also one with a single one.
RegimeIsMonotone ==
    Asked("regime") =>
        /\ \A r \in RegimeRules :
              SizeMultiplier(Regime(screening.x))
                <= SizeMultiplier(Regime([screening.x EXCEPT !.met = @ \cup {r}]))
        /\ Judged(screening.x) # {} /\ Judged(screening.x) \cap screening.x.met = {} =>
              Regime(screening.x) = "BEAR"

\* The leading sectors are the best ones, ties or not, and never fewer than
\* the percentage says, once there are enough to rank.
LeadersAreTheTop ==
    Asked("sector") =>
        LET leading == {s \in 1..ScSectors : Leads(screening.x, s)}
        IN  /\ \A s \in leading, o \in (1..ScSectors) \ leading :
                  screening.x.median[s] >= screening.x.median[o]
            /\ ScSectors >= 3 => 100 * Cardinality(leading) >= ScSectors * screening.x.top

\* A detected pattern: every leg falls, starts after the last one started, is
\* shallower than it, and the stop is under the pivot.
LegsTighten ==
    Asked("vcp") /\ Detected(screening.x) =>
        LET kept == Tightening(screening.x)
        IN  /\ \A i \in 1..Len(kept) : kept[i].from < kept[i].to
            /\ \A i \in 2..Len(kept) : /\ kept[i - 1].from < kept[i].from
                                       /\ Shallower(screening.x, kept[i], kept[i - 1])
            /\ StopPrice(screening.x) < PivotPrice(screening.x)

\* A breakout is never called later than the volume allows: at once when what
\* was traded is enough, and at any earlier minute with the same volume.
EarlierProjectsMore ==
    Asked("breakout") =>
        LET x == screening.x
        IN  /\ x.close \in 100..105 /\ x.volume >= 150 => BreaksOut(x)
            /\ BreaksOut(x) => \A m \in 1..x.minute : BreaksOut([x EXCEPT !.minute = m])

\* A rating is in 1..100, and what a stock gained lately counts for more: with
\* its best quarter last it is rated no lower.
LatelyCountsMore ==
    Asked("rating") =>
        LET x == screening.x
        IN  /\ Rating(x) \in 1..100
            /\ \A q \in 1..3 : x.gains[q] > x.gains[4] =>
                  Rating(x) <= Rating([x EXCEPT !.gains[q] = x.gains[4], !.gains[4] = x.gains[q]])

\* The three screens agree on a stock that has the bars: one of them signals it
\* only when all do, and a signal is no stock outside the price band or too thin
\* to trade, nor one that misses more than a quarter of the fundamentals.
ScreensAgree ==
    Asked("screen") /\ ~screening.x.crypto /\ screening.x.bars >= 200 =>
        LET x == screening.x
            outcomes == {DailyScreen(x), ForcedScreen(x), SingleScreen(x)}
        IN  "signal" \in outcomes =>
                outcomes = {"signal"} /\ Tradable(x) /\ 4 * x.score.fundMet >= 3 * x.score.fundOn

\* A ticker that a user asked for is never dropped without a trace, however few
\* bars it has, unless the organisation's own filters exclude it.
AskedForIsKept ==
    Asked("screen") /\ Tradable(screening.x) => SingleScreen(screening.x) \in {"watch", "signal"}

\* Doing better never costs a stock anything: in a quarter, in what is known of
\* it, in the market around it, in its sector, in the day and in the year.
BetterNeverHurts ==
    /\ BetterQuarterNeverHurts /\ MissingNeverHurts /\ BetterCoinNeverHurts /\ RegimeIsMonotone
    /\ LeadersAreTheTop /\ EarlierProjectsMore /\ LatelyCountsMore

\* What passes as a trend or a pattern has its averages and its legs in order.
PatternsAreOrdered == TrendNeedsAverages /\ LegsTighten

\* The screens keep the same stocks, and by hand every one that is tradable.
ScreensAgreeAndKeep == ScreensAgree /\ AskedForIsKept
=============================================================================
