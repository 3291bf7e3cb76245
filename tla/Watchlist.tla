----------------------------- MODULE Watchlist -----------------------------
(***************************************************************************)
(* The watchlist rows and the signals of one ticker in one organisation:   *)
(* the screens that write them, the dashboard that promotes, removes and   *)
(* skips, the promotion task in the worker, and the entry that a signal    *)
(* leads to.  What a screen decides is in Screens; here it is a choice.    *)
(***************************************************************************)
EXTENDS Naturals, FiniteSets

CONSTANTS WlItems,     \* ids of watchlist rows
          WlSignals,   \* ids of signals
          WlWorkers,   \* worker processes that take promotion messages
          WlSettings   \* sets of faults and programs: Init picks one

\* overlap: other writers commit while a promotion is between its look for a
\* signal and its own commit.
ASSUME WlAssumption == WlSettings \subseteq SUBSET {"overlap", "skip", "faults"}

VARIABLES
    wlSetting,  \* the setting of this behaviour, fixed
    item,       \* watchlist row -> status
    wlSignal,   \* signal -> status, and whether its signal_date is today
    trade,      \* the ticker's entry: none, working or held, and its signal
    web,        \* rows whose promotion the dashboard has flipped, not queued
    asked,      \* rows with a promotion message not yet acknowledged
    worker      \* each worker: its row, its step, what it has read

wlVars == <<wlSetting, item, wlSignal, trade, web, asked, worker>>

Unused == [status |-> "none", today |-> FALSE]
FreeWorker == [step |-> "idle", item |-> {}, loaded |-> "none", found |-> FALSE]
NoTrade == [state |-> "none", of |-> {}]

WlTypeOK ==
    /\ wlSetting \in WlSettings
    /\ item \in [WlItems -> {"none", "WATCHING", "SIGNALLED", "REMOVED"}]
    /\ wlSignal \in [WlSignals ->
          [status : {"none", "PENDING", "TRIGGERED", "SKIPPED"}, today : BOOLEAN]]
    /\ trade \in [state : {"none", "working", "held"}, of : SUBSET WlSignals]
    /\ web \subseteq WlItems /\ asked \subseteq WlItems
    /\ worker \in [WlWorkers -> [step : {"idle", "dedup", "commit"},
                                 item : SUBSET WlItems,
                                 loaded : {"none", "WATCHING", "SIGNALLED", "REMOVED"},
                                 found : BOOLEAN]]

WlInit ==
    /\ wlSetting \in WlSettings
    /\ item = [i \in WlItems |-> "none"]
    /\ wlSignal = [s \in WlSignals |-> Unused]
    /\ trade = NoTrade
    /\ web = {} /\ asked = {}
    /\ worker = [w \in WlWorkers |-> FreeWorker]

WlHas(f) == f \in wlSetting
Rows(status) == {i \in WlItems : item[i] = status}
WithStatus(set) == {s \in WlSignals : wlSignal[s].status \in set}
Live == WithStatus({"PENDING", "TRIGGERED"})
OfToday == {s \in WlSignals : wlSignal[s].status # "none" /\ wlSignal[s].today}
AtCommit == \E w \in WlWorkers : worker[w].step = "commit"
MayWrite == WlHas("overlap") \/ ~AtCommit

NewSignal(s) == [wlSignal EXCEPT ![s] = [status |-> "PENDING", today |-> TRUE]]

-----------------------------------------------------------------------------
(* The screens: the daily one, the forced one, and a single ticker.        *)

\* Mutant: signals that already led to an order are no reason to hold back.
SignalPending == WithStatus({"PENDING"}) # {}

\* The screens' own look for a signal that still stands.
SignalStands == Live # {}

\* All criteria met: a signal, and the WATCHING row becomes SIGNALLED.
ScreenSignals(s) ==
    /\ MayWrite
    /\ wlSignal[s].status = "none" /\ ~SignalStands /\ trade.state # "held"
    /\ wlSignal' = NewSignal(s)
    /\ \/ Rows("WATCHING") = {} /\ item' = item
       \/ \E i \in Rows("WATCHING") : item' = [item EXCEPT ![i] = "SIGNALLED"]
    /\ UNCHANGED <<wlSetting, trade, web, asked, worker>>

\* _upsert_watchlist: a WATCHING row is refreshed, otherwise one is added,
\* whatever rows of another status the ticker has.
ScreenWatches(i) ==
    /\ Rows("WATCHING") = {} /\ item[i] = "none"
    /\ item' = [item EXCEPT ![i] = "WATCHING"]
    /\ UNCHANGED <<wlSetting, wlSignal, trade, web, asked, worker>>

\* The dashboard's remove, and the star taken off a row it had added.
RemoveItem(i) ==
    /\ item[i] \notin {"none", "REMOVED"}
    /\ item' = [item EXCEPT ![i] = "REMOVED"]
    /\ UNCHANGED <<wlSetting, wlSignal, trade, web, asked, worker>>

-----------------------------------------------------------------------------
(* Promotion: the dashboard flips the row, then queues the task.           *)

\* Mirrors the task's own refusals; the row's status is not looked at.
WebPromote(i) ==
    /\ item[i] # "none" /\ i \notin web \cup asked
    /\ trade.state # "held" /\ ~SignalStands /\ OfToday = {}
    /\ item' = [item EXCEPT ![i] = "SIGNALLED"]
    /\ web' = web \cup {i}
    /\ UNCHANGED <<wlSetting, wlSignal, trade, asked, worker>>

WebQueues(i) ==
    /\ i \in web
    /\ web' = web \ {i} /\ asked' = asked \cup {i}
    /\ UNCHANGED <<wlSetting, item, wlSignal, trade, worker>>

\* The message broker is down: the row is put back.
WebQueueFails(i) ==
    /\ i \in web /\ WlHas("faults")
    /\ web' = web \ {i}
    /\ item' = [item EXCEPT ![i] = "WATCHING"]
    /\ UNCHANGED <<wlSetting, wlSignal, trade, asked, worker>>

\* promote_watchlist_item_task: the row and the open position are read.  It
\* refuses a held ticker, and one without a price.
PromoteTake(w, i) ==
    /\ worker[w].step = "idle" /\ i \in asked
    /\ \A v \in WlWorkers : i \notin worker[v].item
    /\ \/ /\ trade.state # "held"
          /\ worker' = [worker EXCEPT ![w] =
                [step |-> "dedup", item |-> {i}, loaded |-> item[i], found |-> FALSE]]
          /\ UNCHANGED <<item, asked>>
       \/ /\ trade.state = "held" \/ WlHas("faults")
          /\ item' = [item EXCEPT ![i] = "WATCHING"]
          /\ asked' = asked \ {i}
          /\ UNCHANGED worker
    /\ UNCHANGED <<wlSetting, wlSignal, trade, web>>

\* The look for a signal of today or one that stands; sizing follows it.
PromoteDedup(w) ==
    /\ worker[w].step = "dedup" /\ MayWrite
    /\ worker' = [worker EXCEPT ![w].step = "commit",
                                ![w].found = SignalStands \/ OfToday # {}]
    /\ UNCHANGED <<wlSetting, item, wlSignal, trade, web, asked>>

\* A row loaded as SIGNALLED is not written again: it has not changed for
\* the session that loaded it.
PromoteCommit(w, i) ==
    /\ worker[w].step = "commit" /\ i \in worker[w].item
    /\ \/ worker[w].found /\ UNCHANGED wlSignal
       \/ /\ ~worker[w].found
          /\ \E s \in WlSignals : wlSignal[s].status = "none" /\ wlSignal' = NewSignal(s)
    /\ item' = IF worker[w].loaded = "SIGNALLED" THEN item
               ELSE [item EXCEPT ![i] = "SIGNALLED"]
    /\ asked' = asked \ {i}
    /\ worker' = [worker EXCEPT ![w] = FreeWorker]
    /\ UNCHANGED <<wlSetting, trade, web>>

\* Mutant: the error is logged and the row left as the dashboard flipped it.
PromoteForgets(w, i) ==
    /\ WlHas("faults") /\ worker[w].step # "idle" /\ i \in worker[w].item
    /\ asked' = asked \ {i}
    /\ worker' = [worker EXCEPT ![w] = FreeWorker]
    /\ UNCHANGED <<wlSetting, item, wlSignal, trade, web>>

\* Anything that goes wrong rolls back; a second session undoes the flip.
PromoteFails(w, i) ==
    /\ WlHas("faults") /\ worker[w].step # "idle" /\ i \in worker[w].item
    /\ item' = IF item[i] = "SIGNALLED" THEN [item EXCEPT ![i] = "WATCHING"] ELSE item
    /\ asked' = asked \ {i}
    /\ worker' = [worker EXCEPT ![w] = FreeWorker]
    /\ UNCHANGED <<wlSetting, wlSignal, trade, web>>

\* task_acks_late: the message of a killed worker is delivered again.
WorkerDies(w) ==
    /\ WlHas("faults") /\ worker[w].step # "idle"
    /\ worker' = [worker EXCEPT ![w] = FreeWorker]
    /\ UNCHANGED <<wlSetting, item, wlSignal, trade, web, asked>>

-----------------------------------------------------------------------------
(* Skipping.  The dashboard's skip looks at no status; the chat's and the  *)
(* MCP tool's take a PENDING signal only.                                  *)

SkipSignal(s) ==
    /\ WlHas("skip") /\ wlSignal[s].status \in {"PENDING", "TRIGGERED"}
    /\ wlSignal' = [wlSignal EXCEPT ![s].status = "SKIPPED"]
    /\ UNCHANGED <<wlSetting, item, trade, web, asked, worker>>

UnskipSignal(s) ==
    /\ WlHas("skip") /\ wlSignal[s].status = "SKIPPED"
    /\ wlSignal' = [wlSignal EXCEPT ![s].status = "PENDING"]
    /\ UNCHANGED <<wlSetting, item, trade, web, asked, worker>>

-----------------------------------------------------------------------------
(* The entry, as far as signals can tell: see EquityOrders for its steps.  *)

Trigger(s) ==
    /\ wlSignal[s].status = "PENDING" /\ trade.state = "none"
    /\ wlSignal' = [wlSignal EXCEPT ![s].status = "TRIGGERED"]
    /\ trade' = [state |-> "working", of |-> {s}]
    /\ UNCHANGED <<wlSetting, item, web, asked, worker>>

EntryFilled ==
    /\ trade.state = "working"
    /\ trade' = [trade EXCEPT !.state = "held"]
    /\ UNCHANGED <<wlSetting, item, wlSignal, web, asked, worker>>

\* sync_order_status: an entry that ended unfilled arms its signal again.
EntryLapses ==
    /\ trade.state = "working"
    /\ trade' = NoTrade
    /\ wlSignal' = [s \in WlSignals |->
          IF s \in trade.of /\ wlSignal[s].status = "TRIGGERED"
            THEN [wlSignal[s] EXCEPT !.status = "PENDING"] ELSE wlSignal[s]]
    /\ UNCHANGED <<wlSetting, item, web, asked, worker>>

\* The position is closed; no one looks at its signal again.
TradeCloses ==
    /\ trade.state = "held"
    /\ trade' = NoTrade
    /\ UNCHANGED <<wlSetting, item, wlSignal, web, asked, worker>>

NewDay ==
    /\ OfToday # {}
    /\ wlSignal' = [s \in WlSignals |-> [wlSignal[s] EXCEPT !.today = FALSE]]
    /\ UNCHANGED <<wlSetting, item, trade, web, asked, worker>>

-----------------------------------------------------------------------------
WlNext ==
    \/ EntryFilled \/ EntryLapses \/ TradeCloses \/ NewDay
    \/ \E s \in WlSignals :
          ScreenSignals(s) \/ SkipSignal(s) \/ UnskipSignal(s) \/ Trigger(s)
    \/ \E i \in WlItems :
          \/ ScreenWatches(i) \/ RemoveItem(i)
          \/ WebPromote(i) \/ WebQueues(i) \/ WebQueueFails(i)
    \/ \E w \in WlWorkers : PromoteDedup(w) \/ WorkerDies(w)
    \/ \E w \in WlWorkers, i \in WlItems :
          PromoteTake(w, i) \/ PromoteCommit(w, i) \/ PromoteFails(w, i)

WlSpec == WlInit /\ [][WlNext]_wlVars

-----------------------------------------------------------------------------
(* Properties.                                                             *)

\* A row that left the list for a signal has one to show, or its promotion is
\* still under way: no failure, kill or redelivery in between loses it.
PromotedIsNotLost ==
    \A i \in Rows("SIGNALLED") : i \in web \cup asked \/ Live \cup WithStatus({"SKIPPED"}) # {}

\* Two signals of the ticker never wait side by side, as long as nobody brings
\* a skipped one back and no screen commits in the middle of a promotion.
OneLiveSignal ==
    ~WlHas("skip") /\ ~WlHas("overlap") => Cardinality(Live) <= 1

\* A ticker whose trade is over can be signalled again.
ClosedTickerCanSignal ==
    trade.state = "none" => WithStatus({"TRIGGERED"}) = {}
=============================================================================
