------------------------------- MODULE MarketData -------------------------------
(***************************************************************************)
(* What the platform knows of the markets: the daily bars of a ticker, the *)
(* regime that each organisation is shown, the exchange rate and the live  *)
(* price that several processes cache, and the calendar.  The parts do not *)
(* meet; a behaviour has the one of its setting.                           *)
(***************************************************************************)
EXTENDS Integers, FiniteSets, FiniteSetsExt

CONSTANTS MdDays,       \* the last day of a behaviour
          MdOrgs,       \* organisations
          MdRegimes,    \* regimes the index can be in
          MdTtl,        \* time that an exchange rate is kept
          MdProcesses,  \* processes with a memory of their own
          MdSettings    \* sets of parts and hazards: Init picks one

ASSUME MdAssumption ==
    /\ MdDays \in Nat \ {0} /\ MdTtl \in Nat \ {0}
    /\ MdSettings \subseteq
         SUBSET {"bars", "manual", "regime", "faults", "rate", "bridge", "price", "outage", "calendar"}
    /\ \A s \in MdSettings : ~ ({"rate", "price"} \subseteq s)   \* keys of their own in Redis

VARIABLES
    mdSetting,  \* the part of this behaviour and its hazards, fixed
    today,      \* the day
    source,     \* bars: the day of the newest bar the source has
    fetched,    \* the days of the bars that a refresh under way has fetched
    bars,       \* day -> the day whose prices its bar holds; 0 when there is none
    record,     \* regime: the newest MarketRegimeRecord
    shown,      \* organisation -> the regime its config row says
    evaluation, \* run -> where an evaluation is, its result, whom it has to tell
    redis,      \* whether Redis answers, and the value it holds
    memory,     \* process -> the value it holds itself
    hours       \* the calendar's question and answer

mdBars == <<today, source, fetched, bars>>
mdRegime == <<record, shown, evaluation>>
mdCache == <<redis, memory>>
mdVars == <<mdSetting, mdBars, mdRegime, mdCache, hours>>

MdHas(p) == p \in mdSetting
Runs == {1, 2}
Idle == [at |-> "idle", value |-> "none", tell |-> {}]

MdInit ==
    /\ mdSetting \in MdSettings
    /\ today = 1 /\ source = 0 /\ fetched = {} /\ bars = [d \in 1..MdDays |-> 0]
    /\ record = "none" /\ shown = [o \in MdOrgs |-> "none"] /\ evaluation = [r \in Runs |-> Idle]
    /\ redis = [up |-> TRUE, holds |-> {}] /\ memory = [p \in MdProcesses |-> {}]
    /\ hours = [asked |-> FALSE]

-----------------------------------------------------------------------------
(* refresh_price_data for one ticker, and the bar that a manual screen of  *)
(* the ticker stores.                                                      *)

NextTradingDay ==
    /\ MdHas("bars") /\ today < MdDays
    /\ today' = today + 1
    /\ UNCHANGED <<mdSetting, source, fetched, bars, mdRegime, mdCache, hours>>

SourceMoves(d) ==
    /\ MdHas("bars") /\ source < d /\ d <= today
    /\ source' = d
    /\ UNCHANGED <<mdSetting, today, fetched, bars, mdRegime, mdCache, hours>>

FetchBars ==
    /\ MdHas("bars") /\ fetched = {} /\ source > 0
    /\ fetched' = {source}
    /\ UNCHANGED <<mdSetting, today, source, bars, mdRegime, mdCache, hours>>

\* The session of a market that is not Australian ends on the next day here.
Acceptable(asx) == IF asx THEN {today} ELSE {today, today - 1}

DatedAs(d) == d

StoreBars(asx) ==
    /\ fetched # {}
    /\ bars' = [d \in 1..MdDays |->
          IF \E f \in fetched \cap Acceptable(asx) : DatedAs(f) = d
          THEN CHOOSE f \in fetched : TRUE ELSE bars[d]]
    /\ fetched' = {}
    /\ UNCHANGED <<mdSetting, today, source, mdRegime, mdCache, hours>>

\* screen_single_ticker stores the source's newest bar, whatever its day.
StoreScreened ==
    /\ MdHas("manual") /\ source > 0
    /\ bars' = [bars EXCEPT ![today] = source]
    /\ UNCHANGED <<mdSetting, today, source, fetched, mdRegime, mdCache, hours>>

-----------------------------------------------------------------------------
(* evaluate_market_regime_task: one commit for the record and one for each *)
(* organisation.  The message is acknowledged at the end.                  *)

\* The second run overlaps the first only among the faults.
Evaluate(r, value) ==
    /\ MdHas("regime") /\ evaluation[r].at = "idle"
    /\ MdHas("faults") \/ \A q \in Runs : evaluation[q].at = "idle"
    /\ evaluation' = [evaluation EXCEPT ![r] = [at |-> "judged", value |-> value, tell |-> {}]]
    /\ UNCHANGED <<mdSetting, mdBars, record, shown, mdCache, hours>>

Record(r) ==
    /\ evaluation[r].at = "judged"
    /\ record' = evaluation[r].value
    /\ evaluation' = [evaluation EXCEPT ![r].at = "telling", ![r].tell = MdOrgs]
    /\ UNCHANGED <<mdSetting, mdBars, shown, mdCache, hours>>

Tell(r, o) ==
    /\ o \in evaluation[r].tell
    /\ shown' = [shown EXCEPT ![o] = evaluation[r].value]
    /\ evaluation' = [evaluation EXCEPT ![r] =
          IF @.tell = {o} THEN Idle ELSE [@ EXCEPT !.tell = evaluation[r].tell \ {o}]]
    /\ UNCHANGED <<mdSetting, mdBars, record, mdCache, hours>>

\* What is left of an evaluation when its worker dies: the message comes again
\* and the index is judged anew.
Redelivered(value) == [at |-> "judged", value |-> value, tell |-> {}]

EvaluatorDies(r, value) ==
    /\ evaluation[r].at # "idle"
    /\ evaluation' = [evaluation EXCEPT ![r] = Redelivered(value)]
    /\ UNCHANGED <<mdSetting, mdBars, record, shown, mdCache, hours>>

\* An exception, for instance of the database, ends the task for good.
EvaluationFails(r) ==
    /\ MdHas("faults") /\ evaluation[r].at # "idle"
    /\ evaluation' = [evaluation EXCEPT ![r] = Idle]
    /\ UNCHANGED <<mdSetting, mdBars, record, shown, mdCache, hours>>

-----------------------------------------------------------------------------
(* Time and Redis, for the two caches.  A value has an age, the time it    *)
(* still has in Redis or has been in a memory, and whether a source gave   *)
(* it.  Ages stop at OldAge.                                               *)

OldAge == 2 * MdTtl
PriceTtl == 3   \* 360 seconds, in units of two minutes
FailTtl == 1    \* 120 seconds

Value(good, ttl) == {[good |-> good, age |-> 0, left |-> ttl, kept |-> 0]}
Aged(v) == [v EXCEPT !.age = IF @ < OldAge THEN @ + 1 ELSE @, !.left = IF @ > 0 THEN @ - 1 ELSE 0,
                     !.kept = IF @ < MdTtl THEN @ + 1 ELSE @]

Tick ==
    /\ MdHas("rate") \/ MdHas("price")
    /\ redis' = [redis EXCEPT !.holds = {Aged(v) : v \in {w \in redis.holds : w.left > 1}}]
    /\ memory' = [p \in MdProcesses |-> {Aged(v) : v \in memory[p]}]
    /\ UNCHANGED <<mdSetting, mdBars, mdRegime, hours>>

RedisFails ==
    /\ MdHas("outage") /\ redis' = [redis EXCEPT !.up = ~@]
    /\ UNCHANGED <<mdSetting, mdBars, mdRegime, memory, hours>>

ProcessRestarts(p) ==
    /\ MdHas("rate") \/ MdHas("price")
    /\ memory[p] # {} /\ memory' = [memory EXCEPT ![p] = {}]
    /\ UNCHANGED <<mdSetting, mdBars, mdRegime, redis, hours>>

-----------------------------------------------------------------------------
(* get_fx_rate.  The legs of a bridge fall back like any other rate, and   *)
(* their product is kept like a quote.                                     *)

InMemory(p) == {v \in memory[p] : v.kept < MdTtl}
InRedis == IF redis.up THEN redis.holds ELSE {}

\* Mutant: a rate found in Redis is written back with a new hour.
CopyAndRenew(p) ==
    /\ memory' = [memory EXCEPT ![p] = {[v EXCEPT !.kept = 0] : v \in InRedis}]
    /\ redis' = [redis EXCEPT !.holds = {[v EXCEPT !.left = MdTtl] : v \in @}]

CopyFromRedis(p) ==
    /\ memory' = [memory EXCEPT ![p] = {[v EXCEPT !.kept = 0] : v \in InRedis}]
    /\ UNCHANGED redis

AskRate(p, quoted) ==
    /\ MdHas("rate") /\ InMemory(p) = {}
    /\ \/ InRedis # {} /\ CopyFromRedis(p)
       \/ /\ InRedis = {} /\ (quoted \/ MdHas("bridge"))
          /\ memory' = [memory EXCEPT ![p] = Value(quoted, MdTtl)]
          /\ redis' = IF redis.up THEN [redis EXCEPT !.holds = Value(quoted, MdTtl)] ELSE redis
    /\ UNCHANGED <<mdSetting, mdBars, mdRegime, hours>>

-----------------------------------------------------------------------------
(* The live price of a coin: RedisCache, the tasks that write it and the   *)
(* pages that read it.                                                     *)

CacheGet(p) == IF InRedis # {} THEN InRedis ELSE memory[p]

CacheSet(p, v) ==
    IF redis.up THEN redis' = [redis EXCEPT !.holds = v] /\ UNCHANGED memory
                ELSE memory' = [memory EXCEPT ![p] = v] /\ UNCHANGED redis

\* get_intraday_price: the venue of a coin, else Yahoo, else nothing.
Intraday(feeds) == IF feeds = {} THEN Value(FALSE, FailTtl) ELSE Value(TRUE, PriceTtl)

\* update_position_pnl_task and refresh_live_prices_cache_task.
RefreshLivePrice(p, feeds) ==
    /\ MdHas("price")
    /\ CacheSet(p, Intraday(feeds))
    /\ UNCHANGED <<mdSetting, mdBars, mdRegime, hours>>

\* A page asks for the price when there is none; the watchlist's rows also
\* when the last attempt failed.
ShowPrice(p, feeds, rows) ==
    /\ MdHas("price")
    /\ \A v \in CacheGet(p) : rows /\ ~v.good
    /\ CacheSet(p, Intraday(feeds))
    /\ UNCHANGED <<mdSetting, mdBars, mdRegime, hours>>

-----------------------------------------------------------------------------
(* The calendar of an exchange: its trading days among the days of a       *)
(* behaviour, and a session from OpenAt to CloseAt in a day of DayLength.  *)

OpenAt == 1
CloseAt == 2
DayLength == 4
Moment(d, t) == d * DayLength + t

MarketIsOpen(days, m) ==
    m \div DayLength \in days /\ m % DayLength \in OpenAt..CloseAt

\* Mutant: the search begins on the day after.
OpensAfterToday(days, m) ==
    {Moment(d, OpenAt) : d \in {e \in days : e > m \div DayLength}}

OpensAfter(days, m) == {o \in {Moment(d, OpenAt) : d \in days} : o > m}

\* minutes_to_open; the code looks ten days ahead and says 9999 beyond.
Forever == 9999
TimeToOpen(days, m) ==
    IF MarketIsOpen(days, m) THEN 0
    ELSE IF OpensAfter(days, m) = {} THEN Forever ELSE Min(OpensAfter(days, m)) - m

AskCalendar(days, d, t) ==
    /\ MdHas("calendar")
    /\ hours' = [asked |-> TRUE, days |-> days, at |-> Moment(d, t),
                 wait |-> TimeToOpen(days, Moment(d, t))]
    /\ UNCHANGED <<mdSetting, mdBars, mdRegime, mdCache>>

-----------------------------------------------------------------------------
MdNext ==
    \/ NextTradingDay \/ FetchBars \/ StoreScreened
    \/ \E d \in 1..MdDays : SourceMoves(d)
    \/ \E asx \in BOOLEAN : StoreBars(asx)
    \/ \E r \in Runs, value \in MdRegimes : Evaluate(r, value) \/ EvaluatorDies(r, value)
    \/ \E r \in Runs : Record(r) \/ EvaluationFails(r) \/ \E o \in MdOrgs : Tell(r, o)
    \/ Tick \/ RedisFails
    \/ \E p \in MdProcesses, quoted \in BOOLEAN : AskRate(p, quoted)
    \/ \E p \in MdProcesses, feeds \in SUBSET {"venue", "yahoo"} :
          RefreshLivePrice(p, feeds) \/ \E rows \in BOOLEAN : ShowPrice(p, feeds, rows)
    \/ \E p \in MdProcesses : ProcessRestarts(p)
    \/ \E days \in SUBSET (0..MdDays), d \in 0..MdDays, t \in 0..(DayLength - 1) : AskCalendar(days, d, t)

MdSpec == MdInit /\ [][MdNext]_mdVars

-----------------------------------------------------------------------------
(* Properties.                                                             *)

\* A bar holds the prices of the day it is filed under, whenever the refresh
\* runs and however late the source is.  A screen of one ticker by hand files
\* an old bar under today, and is left out.
BarIsOfItsDay ==
    ~MdHas("manual") => \A d \in 1..MdDays : bars[d] \in {0, d}

\* Between evaluations every organisation is shown the regime of the newest
\* record, also when a worker died half way through the organisations.  An
\* exception in the task, or two evaluations at once, are left out.
EveryoneSeesTheRegime ==
    MdHas("regime") /\ ~MdHas("faults") /\ (\A r \in Runs : evaluation[r] = Idle) =>
        \A o \in MdOrgs : shown[o] = record

\* An exchange rate in use was quoted less than two lifetimes ago, through
\* Redis, its outages and the processes' own memories; and it was quoted,
\* unless it is a product of two rates.
RateIsRecent ==
    MdHas("rate") => \A p \in MdProcesses : \A v \in InMemory(p) :
        v.age < 2 * MdTtl /\ (v.good \/ MdHas("bridge"))

\* While Redis answers, no page shows as live a price older than its lifetime.
\* (After an outage the copy of the process, which does not expire, is shown
\* whenever Redis has none.)
LivePriceIsFresh ==
    MdHas("price") /\ ~MdHas("outage") =>
        \A p \in MdProcesses : \A v \in CacheGet(p) : v.good => v.age < PriceTtl

\* minutes_to_open: the market is closed until then, and open at that moment.
WaitEndsAtTheOpen ==
    hours.asked =>
        /\ \A m \in hours.at..(hours.at + DayLength * (MdDays + 1)) :
              MarketIsOpen(hours.days, m) => m >= hours.at + hours.wait
        /\ hours.wait # Forever => MarketIsOpen(hours.days, hours.at + hours.wait)

\* What the platform shows is of the time it shows it for: bars, exchange
\* rates, live prices and the regime.
DataIsCurrent == BarIsOfItsDay /\ RateIsRecent /\ LivePriceIsFresh /\ EveryoneSeesTheRegime
=============================================================================
