------------------------------ MODULE Universe ------------------------------
(***************************************************************************)
(* What the screens work on: the coins of a venue, the market a US stock   *)
(* belongs to, the label of a watchlist row and the stories of equities,   *)
(* and the tasks that refresh them beside the people who write the same    *)
(* rows.  The four do not meet; a behaviour has the ones of its setting.   *)
(***************************************************************************)
EXTENDS Naturals, Sequences, SequencesExt

CONSTANTS UvCoins,     \* coins that the venue may list
          UvStocks,    \* equities in the order the table returns them
          UvCap,       \* stories that one run fetches
          UvStale,     \* runs after which a story is stale
          UvSettings   \* sets of parts and hazards: Init picks one

ASSUME UvAssumption ==
    /\ UvCap \in Nat \ {0} /\ UvStale \in Nat \ {0}
    /\ UvSettings \subseteq SUBSET {"coins", "market", "labels", "overlap", "stories"}

VARIABLES
    uvSetting,  \* the parts of this behaviour, fixed
    listed,     \* the coins the venue lists now
    coinRow,    \* coin -> none, active or inactive
    us,         \* the US stock's row: its market, and the index it is in
    label,      \* the row's label: none, two of the classifier's, the user's
    sector,     \* what the stock's row says of its sector
    recat,      \* the re-categorisation under way: the label it has loaded
    throttled,  \* the sector was asked for today already
    story       \* equity -> runs since its story was fetched

uvVars == <<uvSetting, listed, coinRow, us, label, sector, recat, throttled, story>>

AutoLabels == {"coarse", "fine"}
Never == UvStale + 1
UvHas(p) == p \in uvSetting

UvInit ==
    /\ uvSetting \in UvSettings
    /\ listed = UvCoins /\ coinRow = [c \in UvCoins |-> "none"]
    /\ us = [market |-> "none", index |-> "none"]
    /\ label = "none" /\ sector = "blank" /\ recat = {} /\ throttled = FALSE
    /\ story = [t \in ToSet(UvStocks) |-> Never]

-----------------------------------------------------------------------------
(* refresh_crypto_universe.  The branch for a coin that is active but not  *)
(* listed names a status that does not exist: the task fails and nothing   *)
(* of it is committed.  An organisation's own pairs shorten the list.      *)

VenueLists(coins) ==
    /\ UvHas("coins") /\ listed' = coins
    /\ UNCHANGED <<uvSetting, coinRow, us, label, sector, recat, throttled, story>>

RefreshCoins(pairs) ==
    LET supported == listed \cap pairs
    IN  /\ UvHas("coins")
        /\ {c \in UvCoins : coinRow[c] = "active"} \subseteq supported
        /\ coinRow' = [c \in UvCoins |-> IF c \in supported THEN "active" ELSE coinRow[c]]
        /\ UNCHANGED <<uvSetting, listed, us, label, sector, recat, throttled, story>>

-----------------------------------------------------------------------------
(* refresh_us_universe, refresh_universe and the manual add, for a stock.  *)

\* A list that cannot be fetched is replaced by a short one: the stock may be
\* missing from either.
RefreshUS(sp500, nasdaq) ==
    LET market == IF nasdaq THEN "NASDAQ" ELSE "NYSE"
    IN  /\ UvHas("market") /\ (sp500 \/ nasdaq)
        /\ us' = [market |-> IF us.market \in {"none", "ASX"} THEN market ELSE us.market,
                  index |-> IF nasdaq THEN "NASDAQ100" ELSE "SP500"]
        /\ UNCHANGED <<uvSetting, listed, coinRow, label, sector, recat, throttled, story>>

\* screen_single_ticker: the market that the user chose, if the row has none
\* or the column's old default.
AddByHand(market) ==
    /\ UvHas("market")
    /\ us' = [us EXCEPT !.market = IF @ \in {"none", "ASX"} THEN market ELSE @]
    /\ UNCHANGED <<uvSetting, listed, coinRow, label, sector, recat, throttled, story>>

-----------------------------------------------------------------------------
(* Labels.                                                                 *)

\* refresh_asx_sector_data and the refresh of the universe fill blanks only.
FillSector(value) ==
    /\ UvHas("labels") /\ sector = "blank"
    /\ sector' = value
    /\ UNCHANGED <<uvSetting, listed, coinRow, us, label, recat, throttled, story>>

\* infer_sector_label_for_ticker
Inferred(known) == IF known = "blank" THEN {} ELSE {known}

\* _auto_assign_sector_label: a blank sector is asked for once a day; the
\* answer is kept on the stock's row.
AskSource(answer) ==
    /\ answer # "blank" => sector = "blank" /\ ~throttled
    /\ sector' = IF answer = "blank" THEN sector ELSE answer
    /\ throttled' = (throttled \/ sector = "blank")

\* _upsert_watchlist labels a row that has no label.
ScreenLabels(answer) ==
    /\ UvHas("labels") /\ label = "none" /\ AskSource(answer)
    /\ label' = IF sector' = "blank" THEN "none" ELSE sector'
    /\ UNCHANGED <<uvSetting, listed, coinRow, us, recat, story>>

\* set-label and toggle-favourite.
UserLabels(choice) ==
    /\ UvHas("labels") /\ (recat = {} \/ UvHas("overlap"))
    /\ label' = choice
    /\ UNCHANGED <<uvSetting, listed, coinRow, us, sector, recat, throttled, story>>

\* recategorise_watchlist_labels loads the organisation's rows, goes through
\* them and commits at the end.
RecatLoad(force) ==
    /\ UvHas("labels") /\ recat = {}
    /\ recat' = {[loaded |-> label, force |-> force]}
    /\ UNCHANGED <<uvSetting, listed, coinRow, us, label, sector, throttled, story>>

\* Mutant: labels are re-assigned whoever chose them.
Unprotected(r) == TRUE

\* The classifier's own labels are always re-assignable.
Assignable(r) == r.force \/ r.loaded \in {"none"} \cup AutoLabels

\* The session writes what differs from what it has loaded.
RecatCommit(answer) == \E r \in recat :
    /\ IF Assignable(r)
         THEN /\ AskSource(answer)
              /\ label' = IF Inferred(sector') \subseteq {r.loaded} THEN label ELSE sector'
         ELSE answer = "blank" /\ UNCHANGED <<label, sector, throttled>>
    /\ recat' = {}
    /\ UNCHANGED <<uvSetting, listed, coinRow, us, story>>

NextDayAsks ==
    /\ throttled /\ throttled' = FALSE
    /\ UNCHANGED <<uvSetting, listed, coinRow, us, label, sector, recat, story>>

-----------------------------------------------------------------------------
(* refresh_stock_fundamentals, once a week.                                *)

Stale(t) == story[t] >= UvStale

\* The first of the stale ones, in the order of the table.
Candidates == SelectSeq(UvStocks, Stale)
Fetched == {Candidates[i] : i \in {j \in 1..Len(Candidates) : j <= UvCap}}

\* Mutant: a story that the source refuses keeps its old date.
FetchUnlessRefused ==
    /\ UvHas("stories")
    /\ \E refused \in SUBSET Fetched :
          story' = [t \in ToSet(UvStocks) |->
             IF t \in Fetched \ refused THEN 0 ELSE IF story[t] < Never THEN story[t] + 1 ELSE Never]
    /\ UNCHANGED <<uvSetting, listed, coinRow, us, label, sector, recat, throttled>>

\* A week passes and the task runs; a refused story is stamped like any other.
FetchStories ==
    /\ UvHas("stories")
    /\ story' = [t \in ToSet(UvStocks) |->
          IF t \in Fetched THEN 0 ELSE IF story[t] < Never THEN story[t] + 1 ELSE Never]
    /\ UNCHANGED <<uvSetting, listed, coinRow, us, label, sector, recat, throttled>>

\* Somebody opens the story of a ticker, which fetches it when it is stale.
OpenStory(t) ==
    /\ UvHas("stories") /\ Stale(t)
    /\ story' = [story EXCEPT ![t] = 0]
    /\ UNCHANGED <<uvSetting, listed, coinRow, us, label, sector, recat, throttled>>

-----------------------------------------------------------------------------
UvNext ==
    \/ \E coins \in SUBSET UvCoins : VenueLists(coins) \/ RefreshCoins(coins)
    \/ \E sp500, nasdaq \in BOOLEAN : RefreshUS(sp500, nasdaq)
    \/ \E market \in {"ASX", "NYSE", "NASDAQ"} : AddByHand(market)
    \/ \E value \in AutoLabels : FillSector(value)
    \/ \E answer \in {"blank", "fine"} : ScreenLabels(answer) \/ RecatCommit(answer)
    \/ \E choice \in {"none", "user"} : UserLabels(choice)
    \/ \E force \in BOOLEAN : RecatLoad(force)
    \/ NextDayAsks \/ FetchStories
    \/ \E t \in ToSet(UvStocks) : OpenStory(t)

UvSpec == UvInit /\ [][UvNext]_uvVars

\* The beat starts every task again and again.
UvFairness ==
    WF_uvVars(FetchStories) /\ WF_uvVars(RefreshCoins(UvCoins))

UvFairSpec == UvSpec /\ UvFairness

-----------------------------------------------------------------------------
(* Properties.                                                             *)

\* A stock that has a market keeps it: its calendar, benchmark and regime do
\* not change under a position, whatever list it is found on and whoever adds
\* it again.
MarketIsKept ==
    [][us.market \in {"NYSE", "NASDAQ"} => us'.market = us.market]_uvVars

\* A label that the user chose before a run of the classifier began or while
\* it went on is what the row has after it, unless the run was forced.  Holds
\* without overlap.
UserLabelKept ==
    [][~UvHas("overlap") =>
        \A r \in recat : recat' = {} /\ ~r.force /\ label = "user" => label' = "user"]_uvVars

\* What the beat's schedule says of the weekly run: it guarantees that nothing
\* goes stale, also when nobody opens a story.
NothingStaysStale ==
    UvHas("stories") => \A t \in ToSet(UvStocks) : []<>(story[t] < UvStale)

\* What is settled about a stock stays as it is: its market, its user's label.
SettledIsKept == MarketIsKept /\ UserLabelKept
=============================================================================
