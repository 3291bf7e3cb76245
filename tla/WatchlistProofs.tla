-------------------------- MODULE WatchlistProofs --------------------------
(***************************************************************************)
(* What holds of a ticker's watchlist rows and signals for any number of   *)
(* rows, signals and workers, in every setting.                            *)
(***************************************************************************)
EXTENDS Watchlist, FiniteSetTheorems, TLAPS

SignalRow == [status : {"none", "PENDING", "TRIGGERED", "SKIPPED"}, today : BOOLEAN]
WorkerState == [step : {"idle", "dedup", "commit"}, item : SUBSET WlItems,
                loaded : {"none", "WATCHING", "SIGNALLED", "REMOVED"}, found : BOOLEAN]

LEMMA NewSignalTyped ==
    ASSUME WlTypeOK, NEW s \in WlSignals
    PROVE  /\ NewSignal(s) \in [WlSignals -> SignalRow]
           /\ NewSignal(s)[s].status = "PENDING"
           /\ \A t \in WlSignals \ {s} : NewSignal(s)[t] = wlSignal[t]
<1> DEFINE new == [status |-> "PENDING", today |-> TRUE]
<1>1. new \in SignalRow /\ wlSignal \in [WlSignals -> SignalRow]
  BY DEF SignalRow, WlTypeOK
<1>2. NewSignal(s) = [wlSignal EXCEPT ![s] = new]
  BY DEF NewSignal
<1> QED
  BY <1>1, <1>2

LEMMA FreeWorkerTyped == FreeWorker \in WorkerState
BY DEF FreeWorker, WorkerState

LEMMA WlInitTyped == WlInit => WlTypeOK
BY FreeWorkerTyped DEF WlInit, WlTypeOK, Unused, NoTrade, WorkerState

LEMMA WlStepTyped == WlTypeOK /\ [WlNext]_wlVars => WlTypeOK'
<1> SUFFICES ASSUME WlTypeOK, [WlNext]_wlVars PROVE WlTypeOK'
  OBVIOUS
<1>a. /\ wlSetting \in WlSettings
      /\ item \in [WlItems -> {"none", "WATCHING", "SIGNALLED", "REMOVED"}]
      /\ wlSignal \in [WlSignals -> SignalRow]
      /\ trade \in [state : {"none", "working", "held"}, of : SUBSET WlSignals]
      /\ web \subseteq WlItems /\ asked \subseteq WlItems
      /\ worker \in [WlWorkers -> WorkerState]
  BY DEF WlTypeOK, SignalRow, WorkerState
<1>b. ASSUME /\ wlSetting' \in WlSettings
             /\ item' \in [WlItems -> {"none", "WATCHING", "SIGNALLED", "REMOVED"}]
             /\ wlSignal' \in [WlSignals -> SignalRow]
             /\ trade' \in [state : {"none", "working", "held"}, of : SUBSET WlSignals]
             /\ web' \subseteq WlItems /\ asked' \subseteq WlItems
             /\ worker' \in [WlWorkers -> WorkerState]
      PROVE  WlTypeOK'
  BY <1>b DEF WlTypeOK, SignalRow, WorkerState
<1>1. CASE EntryFilled \/ TradeCloses
  BY <1>1, <1>a, <1>b DEF EntryFilled, TradeCloses, NoTrade
<1>2. CASE EntryLapses
  <2>1. wlSignal' \in [WlSignals -> SignalRow]
    BY <1>2, <1>a DEF EntryLapses, SignalRow
  <2> QED
    BY <1>2, <1>a, <1>b, <2>1 DEF EntryLapses, NoTrade
<1>3. CASE NewDay
  <2>1. wlSignal' \in [WlSignals -> SignalRow]
    BY <1>3, <1>a DEF NewDay, SignalRow
  <2> QED
    BY <1>3, <1>a, <1>b, <2>1 DEF NewDay
<1>4. ASSUME NEW s \in WlSignals,
             ScreenSignals(s) \/ SkipSignal(s) \/ UnskipSignal(s) \/ Trigger(s)
      PROVE  WlTypeOK'
  <2>1. CASE ScreenSignals(s)
    <3>1. item' \in [WlItems -> {"none", "WATCHING", "SIGNALLED", "REMOVED"}]
      BY <2>1, <1>a DEF ScreenSignals
    <3> QED
      BY <2>1, <3>1, <1>a, <1>b, NewSignalTyped DEF ScreenSignals
  <2>2. CASE SkipSignal(s) \/ UnskipSignal(s) \/ Trigger(s)
    <3>1. wlSignal' \in [WlSignals -> SignalRow]
      BY <2>2, <1>a DEF SkipSignal, UnskipSignal, Trigger, SignalRow
    <3> QED
      BY <2>2, <3>1, <1>a, <1>b DEF SkipSignal, UnskipSignal, Trigger
  <2> QED
    BY <1>4, <2>1, <2>2
<1>5. ASSUME NEW i \in WlItems,
             \/ ScreenWatches(i) \/ RemoveItem(i)
             \/ WebPromote(i) \/ WebQueues(i) \/ WebQueueFails(i)
      PROVE  WlTypeOK'
  BY <1>5, <1>a, <1>b DEF ScreenWatches, RemoveItem, WebPromote, WebQueues, WebQueueFails
<1>6. ASSUME NEW w \in WlWorkers, PromoteDedup(w) \/ WorkerDies(w)
      PROVE  WlTypeOK'
  <2>1. (SignalStands \/ OfToday # {}) \in BOOLEAN
    OBVIOUS
  <2>2. worker' \in [WlWorkers -> WorkerState]
    BY <1>6, <1>a, <2>1, FreeWorkerTyped DEF PromoteDedup, WorkerDies, WorkerState
  <2> QED
    BY <1>6, <1>a, <1>b, <2>2 DEF PromoteDedup, WorkerDies
<1>7. ASSUME NEW w \in WlWorkers, NEW i \in WlItems,
             PromoteTake(w, i) \/ PromoteCommit(w, i) \/ PromoteFails(w, i)
      PROVE  WlTypeOK'
  <2>1. CASE PromoteTake(w, i)
    <3>1. [step |-> "dedup", item |-> {i}, loaded |-> item[i], found |-> FALSE] \in WorkerState
      BY <1>a DEF WorkerState
    <3> QED
      BY <2>1, <3>1, <1>a, <1>b DEF PromoteTake
  <2>2. CASE PromoteCommit(w, i)
    <3>1. wlSignal' \in [WlSignals -> SignalRow]
      BY <2>2, <1>a, NewSignalTyped DEF PromoteCommit
    <3> QED
      BY <2>2, <3>1, <1>a, <1>b, FreeWorkerTyped DEF PromoteCommit
  <2>3. CASE PromoteFails(w, i)
    BY <2>3, <1>a, <1>b, FreeWorkerTyped DEF PromoteFails
  <2> QED
    BY <1>7, <2>1, <2>2, <2>3
<1>8. CASE UNCHANGED wlVars
  BY <1>8, <1>a, <1>b DEF wlVars
<1> QED
  BY <1>1, <1>2, <1>3, <1>4, <1>5, <1>6, <1>7, <1>8 DEF WlNext

\* Every row and every worker's local state keeps its type.
THEOREM WlTypeCorrect == WlSpec => []WlTypeOK
BY WlInitTyped, WlStepTyped, PTL DEF WlSpec

-----------------------------------------------------------------------------
\* A signal is never deleted: once the ticker has one, it has one for good.
SomeSignal == \E s \in WlSignals : wlSignal[s].status # "none"

\* A row that is SIGNALLED has a signal or its promotion is under way; a
\* promotion that is about to make no signal has found one.
PromotedInv ==
    /\ \A i \in WlItems : item[i] = "SIGNALLED" => i \in web \cup asked \/ SomeSignal
    /\ \A w \in WlWorkers : worker[w].step = "commit" /\ worker[w].found => SomeSignal

LEMMA PromotedStep == WlTypeOK /\ PromotedInv /\ [WlNext]_wlVars => PromotedInv'
<1> SUFFICES ASSUME WlTypeOK, PromotedInv, [WlNext]_wlVars PROVE PromotedInv'
  OBVIOUS
<1>a. /\ item \in [WlItems -> {"none", "WATCHING", "SIGNALLED", "REMOVED"}]
      /\ wlSignal \in [WlSignals -> SignalRow]
      /\ web \subseteq WlItems /\ asked \subseteq WlItems
      /\ worker \in [WlWorkers -> WorkerState]
  BY DEF WlTypeOK, SignalRow, WorkerState
<1> USE DEF PromotedInv
<1>1. CASE EntryFilled \/ TradeCloses
  BY <1>1 DEF EntryFilled, TradeCloses, SomeSignal
<1>2. CASE EntryLapses
  <2>1. SomeSignal => SomeSignal'
    BY <1>2, <1>a DEF EntryLapses, SomeSignal, SignalRow
  <2> QED
    BY <1>2, <2>1 DEF EntryLapses
<1>3. CASE NewDay
  <2>1. SomeSignal => SomeSignal'
    BY <1>3, <1>a DEF NewDay, SomeSignal, SignalRow
  <2> QED
    BY <1>3, <2>1 DEF NewDay
<1>4. ASSUME NEW s \in WlSignals,
             ScreenSignals(s) \/ SkipSignal(s) \/ UnskipSignal(s) \/ Trigger(s)
      PROVE  PromotedInv'
  <2>1. CASE ScreenSignals(s)
    <3>1. SomeSignal'
      BY <2>1, NewSignalTyped DEF ScreenSignals, SomeSignal
    <3> QED
      BY <3>1
  <2>2. CASE SkipSignal(s) \/ UnskipSignal(s) \/ Trigger(s)
    <3>1. SomeSignal => SomeSignal'
      BY <2>2, <1>a DEF SkipSignal, UnskipSignal, Trigger, SomeSignal, SignalRow
    <3> QED
      BY <2>2, <3>1 DEF SkipSignal, UnskipSignal, Trigger
  <2> QED
    BY <1>4, <2>1, <2>2
<1>5. ASSUME NEW i \in WlItems,
             \/ ScreenWatches(i) \/ RemoveItem(i)
             \/ WebPromote(i) \/ WebQueues(i) \/ WebQueueFails(i)
      PROVE  PromotedInv'
  <2>1. SomeSignal' <=> SomeSignal
    BY <1>5 DEF ScreenWatches, RemoveItem, WebPromote, WebQueues, WebQueueFails, SomeSignal
  <2> QED
    BY <1>5, <2>1, <1>a DEF ScreenWatches, RemoveItem, WebPromote, WebQueues, WebQueueFails
<1>6. ASSUME NEW w \in WlWorkers, PromoteDedup(w) \/ WorkerDies(w)
      PROVE  PromotedInv'
  <2>1. SomeSignal' <=> SomeSignal
    BY <1>6 DEF PromoteDedup, WorkerDies, SomeSignal
  <2>2. SignalStands \/ OfToday # {} => SomeSignal
    BY DEF SignalStands, Live, WithStatus, OfToday, SomeSignal
  <2>3. CASE PromoteDedup(w)
    BY <2>1, <2>2, <2>3, <1>a DEF PromoteDedup, WorkerState
  <2>4. CASE WorkerDies(w)
    BY <2>1, <2>4, <1>a DEF WorkerDies, FreeWorker, WorkerState
  <2> QED
    BY <1>6, <2>3, <2>4
<1>7. ASSUME NEW w \in WlWorkers, NEW i \in WlItems, PromoteTake(w, i)
      PROVE  PromotedInv'
  <2>1. SomeSignal' <=> SomeSignal
    BY <1>7 DEF PromoteTake, SomeSignal
  <2> QED
    BY <1>7, <2>1, <1>a DEF PromoteTake, WorkerState
<1>8. ASSUME NEW w \in WlWorkers, NEW i \in WlItems, PromoteCommit(w, i)
      PROVE  PromotedInv'
  <2>1. SomeSignal'
    <3>1. CASE worker[w].found /\ UNCHANGED wlSignal
      BY <1>8, <3>1 DEF PromoteCommit, SomeSignal
    <3>2. ASSUME NEW s \in WlSignals, wlSignal' = NewSignal(s)
          PROVE  SomeSignal'
      BY <3>2, NewSignalTyped DEF SomeSignal
    <3> QED
      BY <1>8, <3>1, <3>2 DEF PromoteCommit
  <2> QED
    BY <2>1
<1>9. ASSUME NEW w \in WlWorkers, NEW i \in WlItems, PromoteFails(w, i)
      PROVE  PromotedInv'
  <2>1. SomeSignal' <=> SomeSignal
    BY <1>9 DEF PromoteFails, SomeSignal
  <2> QED
    BY <1>9, <2>1, <1>a DEF PromoteFails, FreeWorker, WorkerState
<1>10. CASE UNCHANGED wlVars
  BY <1>10 DEF wlVars, SomeSignal
<1> QED
  BY <1>1, <1>2, <1>3, <1>4, <1>5, <1>6, <1>7, <1>8, <1>9, <1>10 DEF WlNext

LEMMA PromotedInvShows == WlTypeOK /\ PromotedInv => PromotedIsNotLost
BY DEF WlTypeOK, PromotedInv, SomeSignal, PromotedIsNotLost, Rows, Live, WithStatus

\* A row that left the watchlist for a signal has one to show or its promotion
\* is still under way, with any number of workers, kills and redeliveries.
THEOREM PromotionIsKept == WlSpec => []PromotedIsNotLost
<1>1. WlInit => PromotedInv
  BY DEF WlInit, PromotedInv, FreeWorker
<1>2. WlTypeOK /\ PromotedInv /\ [WlNext]_wlVars => WlTypeOK' /\ PromotedInv'
  BY WlStepTyped, PromotedStep
<1> QED
  BY <1>1, <1>2, WlInitTyped, PromotedInvShows, PTL DEF WlSpec

-----------------------------------------------------------------------------
\* At most one signal is live, one promotion is about to commit, and one that
\* found no signal before is about to make the only one.
AtMostOne(set) == \A x, y \in set : x = y
LiveInv ==
    ~WlHas("skip") /\ ~WlHas("overlap") =>
        /\ AtMostOne(Live)
        /\ AtMostOne({w \in WlWorkers : worker[w].step = "commit"})
        /\ \A w \in WlWorkers : worker[w].step = "commit" /\ ~worker[w].found => Live = {}

LEMMA NewSignalLive ==
    ASSUME WlTypeOK, NEW s \in WlSignals, Live = {}, wlSignal' = NewSignal(s)
    PROVE  AtMostOne(Live')
BY NewSignalTyped DEF Live, WithStatus, AtMostOne

LEMMA LiveStep == WlTypeOK /\ LiveInv /\ [WlNext]_wlVars => LiveInv'
<1> SUFFICES ASSUME WlTypeOK, LiveInv, [WlNext]_wlVars,
                    ~WlHas("skip"), ~WlHas("overlap")
             PROVE  LiveInv'
  BY DEF LiveInv, WlHas, WlNext, wlVars, EntryFilled, EntryLapses, TradeCloses, NewDay,
         ScreenSignals, SkipSignal, UnskipSignal, Trigger, ScreenWatches, RemoveItem,
         WebPromote, WebQueues, WebQueueFails, PromoteDedup, WorkerDies, PromoteTake,
         PromoteCommit, PromoteFails
<1>a. /\ wlSignal \in [WlSignals -> SignalRow]
      /\ worker \in [WlWorkers -> WorkerState]
  BY DEF WlTypeOK, SignalRow, WorkerState
<1>b. /\ AtMostOne(Live)
      /\ AtMostOne({w \in WlWorkers : worker[w].step = "commit"})
      /\ \A w \in WlWorkers : worker[w].step = "commit" /\ ~worker[w].found => Live = {}
  BY DEF LiveInv
<1>c. ASSUME Live' \subseteq Live,
             \A w \in WlWorkers : worker'[w].step = "commit" => worker'[w] = worker[w]
      PROVE  LiveInv'
  BY <1>b, <1>c DEF LiveInv, AtMostOne
<1>1. CASE UNCHANGED <<wlSignal, worker>>
  BY <1>1, <1>c DEF Live, WithStatus
<1>2. CASE EntryLapses \/ NewDay
  <2>1. Live' \subseteq Live
    BY <1>2, <1>a DEF EntryLapses, NewDay, Live, WithStatus, SignalRow
  <2> QED
    BY <1>2, <1>c, <2>1 DEF EntryLapses, NewDay
<1>3. ASSUME NEW s \in WlSignals,
             ScreenSignals(s) \/ SkipSignal(s) \/ UnskipSignal(s) \/ Trigger(s)
      PROVE  LiveInv'
  <2>1. CASE ScreenSignals(s)
    <3>1. AtMostOne(Live')
      BY <2>1, NewSignalLive DEF ScreenSignals, SignalStands
    <3>2. \A w \in WlWorkers : worker'[w].step # "commit"
      BY <2>1 DEF ScreenSignals, MayWrite, AtCommit
    <3> QED
      BY <3>1, <3>2 DEF LiveInv, AtMostOne
  <2>2. CASE Trigger(s)
    <3>1. Live' \subseteq Live
      BY <2>2, <1>a DEF Trigger, Live, WithStatus, SignalRow
    <3> QED
      BY <2>2, <3>1, <1>c DEF Trigger
  <2> QED
    BY <1>3, <2>1, <2>2 DEF SkipSignal, UnskipSignal
<1>4. ASSUME NEW w \in WlWorkers, PromoteDedup(w)
      PROVE  LiveInv'
  <2>1. Live' = Live /\ \A v \in WlWorkers \ {w} : worker'[v] = worker[v] /\ worker[v].step # "commit"
    BY <1>4, <1>a DEF PromoteDedup, MayWrite, AtCommit, Live, WithStatus
  <2>2. ~worker'[w].found => Live = {}
    <3>1. worker'[w].found = (SignalStands \/ OfToday # {})
      BY <1>4, <1>a DEF PromoteDedup, WorkerState
    <3> QED
      BY <3>1 DEF SignalStands
  <2>3. \A v \in WlWorkers : worker'[v].step = "commit" => v = w
    BY <2>1
  <2> QED
    BY <1>b, <2>1, <2>2, <2>3 DEF LiveInv, AtMostOne
<1>5. ASSUME NEW w \in WlWorkers, WorkerDies(w)
      PROVE  LiveInv'
  BY <1>5, <1>a, <1>c DEF WorkerDies, FreeWorker, Live, WithStatus
<1>6. ASSUME NEW w \in WlWorkers, NEW i \in WlItems, PromoteTake(w, i) \/ PromoteFails(w, i)
      PROVE  LiveInv'
  BY <1>6, <1>a, <1>c DEF PromoteTake, PromoteFails, FreeWorker, Live, WithStatus
<1>7. ASSUME NEW w \in WlWorkers, NEW i \in WlItems, PromoteCommit(w, i)
      PROVE  LiveInv'
  <2>1. CASE UNCHANGED wlSignal
    BY <1>7, <2>1, <1>a, <1>c DEF PromoteCommit, FreeWorker, Live, WithStatus
  <2>2. ASSUME ~worker[w].found, NEW s \in WlSignals, wlSignal' = NewSignal(s)
        PROVE  LiveInv'
    <3>1. AtMostOne(Live')
      BY <1>7, <2>2, <1>b, NewSignalLive DEF PromoteCommit
    <3>2. \A v \in WlWorkers : worker'[v].step # "commit"
      BY <1>7, <1>a, <1>b DEF PromoteCommit, FreeWorker, AtMostOne
    <3> QED
      BY <3>1, <3>2 DEF LiveInv, AtMostOne
  <2> QED
    BY <1>7, <2>1, <2>2 DEF PromoteCommit
<1> QED
  BY <1>1, <1>2, <1>3, <1>4, <1>5, <1>6, <1>7
  DEF WlNext, wlVars, EntryFilled, TradeCloses, ScreenWatches, RemoveItem,
      WebPromote, WebQueues, WebQueueFails

LEMMA OneAtMostCounts ==
    ASSUME NEW S, AtMostOne(S)
    PROVE  Cardinality(S) <= 1
<1>1. CASE S = {}
  BY <1>1, FS_EmptySet
<1>2. ASSUME NEW x \in S PROVE Cardinality(S) <= 1
  <2>1. S = {x}
    BY <1>2 DEF AtMostOne
  <2>2. Cardinality({x}) = 1
    BY FS_Singleton, Zenon
  <2> QED
    BY <2>1, <2>2
<1> QED
  BY <1>1, <1>2

\* Without a skip undone and without a commit in the middle of a promotion, the
\* ticker never has two live signals, with any number of workers and screens.
THEOREM LiveSignalIsOne == WlSpec => []OneLiveSignal
<1>1. WlInit => LiveInv
  BY DEF WlInit, LiveInv, Live, WithStatus, Unused, FreeWorker, AtMostOne
<1>2. WlTypeOK /\ LiveInv /\ [WlNext]_wlVars => WlTypeOK' /\ LiveInv'
  BY WlStepTyped, LiveStep
<1>3. LiveInv => OneLiveSignal
  BY OneAtMostCounts DEF LiveInv, OneLiveSignal
<1> QED
  BY <1>1, <1>2, <1>3, WlInitTyped, PTL DEF WlSpec
=============================================================================
