---------------------------- MODULE EquityOrders ----------------------------
(***************************************************************************)
(* The life of an equity entry in AstraTrade, for one organisation and one *)
(* ticker: a PENDING signal becomes a bracket order at Interactive Brokers,*)
(* its executions become a Position row, and the sale of the shares        *)
(* becomes a Trade row.  Five programs write the same tables, each in      *)
(* database sessions of its own and with calls to the broker in between:   *)
(*                                                                         *)
(*   check_entry_triggers      every 5 min    app/tasks/trading.py         *)
(*   execute_signal_order      chat and MCP   app/trading/order_executor.py*)
(*   sync_order_status         every 5 min    app/tasks/trading.py         *)
(*   sync_ibkr_positions_task  every 5 min    app/tasks/trading.py         *)
(*   the paper exit            every 5 min    app/tasks/trading.py         *)
(*                                                                         *)
(* A session that reads, calls out and then writes is several actions; what *)
(* it read stays in the program's own variable until its commit.           *)
(***************************************************************************)
EXTENDS Integers, FiniteSets, Functions

CONSTANTS
    Signals,      \* the signals raised for the ticker
    EntryRuns,    \* runs of check_entry_triggers the Redis lock lets overlap
    Agents,       \* callers of execute_signal_order; a name in both is a
                  \* program that is the one or the other in turn
    Orders,       \* bound: broker orders that are ever submitted
    Positions,    \* bound: Position rows that are ever inserted
    MaxExits,     \* bound: exits on paper that are ever tried
    Lot,          \* shares one entry orders
    OtherHoldings,\* may the account hold other tickers: a subset of BOOLEAN
    Hazards,      \* what the environment may do, a subset of AllHazards
    NoSignal, NoOrder, NoPosition

AllHazards ==
    { "crash",     \* a worker is killed between two steps
      "partial",   \* an entry fills in more than one execution
      "sell",      \* a bracket's stop or target sells the shares
      "extend",    \* the price runs past the entry's limit
      "blind",     \* a broker read fails and returns an empty list
      "aging",     \* executions get older than the two days asked for
      "simulate" } \* the gateway is down and the order is simulated

ASSUME LotAssumption      == Lot \in Nat \ {0}
ASSUME ExitsAssumption    == MaxExits \in Nat
ASSUME HazardsAssumption  == Hazards \subseteq AllHazards
ASSUME OthersAssumption   == OtherHoldings \subseteq BOOLEAN
ASSUME NullAssumption     == /\ NoSignal \notin Signals
                             /\ NoOrder \notin Orders
                             /\ NoPosition \notin Positions

VARIABLES
    signal,   \* the status column of each Signal row
    order,    \* the Order rows, by the broker's order id
    pos,      \* the Position rows
    trades,   \* how many Trade rows carry each position_id
    broker,   \* the orders as Interactive Brokers knows them
    holding,  \* the shares of the ticker in the account at Interactive Brokers
    buyer,    \* the local variables of every run that may buy
    sync,     \* those of the run of sync_order_status, and its session
    posSync,  \* those of the run of sync_ibkr_positions_task
    closer    \* those of the paper exit

vars == <<signal, order, pos, trades, broker, holding, buyer, sync, posSync,
          closer>>

-----------------------------------------------------------------------------
Buyers == EntryRuns \cup Agents
NullableSignal == Signals \cup {NoSignal}
NullableOrder  == Orders \cup {NoOrder}

OrderRow == [status : {"none", "SUBMITTED", "PARTIAL", "FILLED", "CANCELLED"},
             sig : NullableSignal, filled : 0..Lot]

\* src is the order whose executions (or simulation) the row was made from.
PositionRow == [status : {"none", "OPEN", "CLOSED"}, sig : NullableSignal,
                qty : Nat, src : NullableOrder]

\* ref is the signal in the order reference "astratrade-<id>"; the references
\* of execute_signal_order, "AGENT-<id>-<time>", name none.
BrokerOrder == [state : {"none", "working", "done", "simulated"},
                ref : NullableSignal, filled : 0..Lot, sold : 0..Lot,
                aged : BOOLEAN]

NoRow         == [status |-> "none", sig |-> NoSignal, filled |-> 0]
NoPos         == [status |-> "none", sig |-> NoSignal, qty |-> 0, src |-> NoOrder]
NoBrokerOrder == [state |-> "none", ref |-> NoSignal, filled |-> 0, sold |-> 0,
                  aged |-> FALSE]
IdleBuyer     == [pc |-> "idle", todo |-> {}, sig |-> NoSignal, ord |-> NoOrder]

IdleSync == [pc |-> "idle", rows |-> {}, held |-> {}, live |-> {},
             bought |-> [o \in Orders |-> 0], sold |-> [o \in Orders |-> 0],
             sess |-> [p \in Positions |-> 0],
             link |-> [p \in Positions |-> NoSignal],
             qty |-> [p \in Positions |-> 0],
             ord |-> [o \in Orders |-> "keep"],
             rearm |-> {}, create |-> {}, close |-> {}]

IdlePosSync == [pc |-> "idle", held |-> 0, others |-> FALSE, do |-> "none",
                p |-> NoPosition]

\* The rows a status filter selects.
OpenPositions == {p \in Positions : pos[p].status = "OPEN"}
FreePositions == {p \in Positions : pos[p].status = "none"}
FreeOrders    == {o \in Orders : broker[o].state = "none"}

\* Mutant: a trades table without the constraint.
NoUniqueConstraint(closing) == FALSE

\* The UNIQUE constraint on trades.position_id refuses the whole transaction.
UniqueViolated(closing) == \E p \in closing : trades[p] > 0

\* One commit that closes the Positions and inserts one Trade row for each.
Traded(closing) == [p \in Positions |-> IF p \in closing THEN trades[p] + 1
                                                         ELSE trades[p]]

Init ==
    /\ signal  = [s \in Signals |-> "PENDING"]
    /\ order   = [o \in Orders |-> NoRow]
    /\ pos     = [p \in Positions |-> NoPos]
    /\ trades  = [p \in Positions |-> 0]
    /\ broker  = [o \in Orders |-> NoBrokerOrder]
    /\ holding = 0
    /\ buyer   = [b \in Buyers |-> IdleBuyer]
    /\ sync    = IdleSync
    /\ posSync = IdlePosSync
    /\ closer  = [pc |-> "idle", p |-> NoPosition, tried |-> 0]

-----------------------------------------------------------------------------
(***************************************************************************)
(* check_entry_triggers.  The first session lists the PENDING signals; they *)
(* are then taken one at a time, each with several sessions of its own.    *)
(***************************************************************************)
dbAndBroker == <<signal, order, pos, trades, broker, holding>>

\* The buyer is done with signal s: on to the next one, or the run ends.
Finished(b, s) ==
    LET rest == buyer[b].todo \ {s}
    IN  IF rest = {} THEN IdleBuyer
        ELSE [IdleBuyer EXCEPT !.pc = "loop", !.todo = rest]

EntryStart(b) ==
    /\ buyer[b].pc = "idle"
    /\ \E s \in Signals : signal[s] = "PENDING"
    /\ buyer' = [buyer EXCEPT ![b] = [@ EXCEPT !.pc = "loop",
                              !.todo = {s \in Signals : signal[s] = "PENDING"}]]
    /\ UNCHANGED <<dbAndBroker, sync, posSync, closer>>

\* A ticker that is held already cannot be entered: the signal is SKIPPED.
EntrySelfHeal(b, s) ==
    /\ buyer[b].pc = "loop" /\ s \in buyer[b].todo
    /\ OpenPositions # {}
    /\ signal' = [signal EXCEPT ![s] = "SKIPPED"]
    /\ buyer' = [buyer EXCEPT ![b] = Finished(b, s)]
    /\ UNCHANGED <<order, pos, trades, broker, holding, sync, posSync, closer>>

\* No data, no breakout, a filter, the extension guard, no capital, or the
\* guard below: the signal stays as it is.
EntrySkip(b, s) ==
    /\ buyer[b].pc = "loop" /\ s \in buyer[b].todo
    /\ buyer' = [buyer EXCEPT ![b] = Finished(b, s)]
    /\ UNCHANGED <<dbAndBroker, sync, posSync, closer>>

\* Mutant: no guard before the order is submitted.
NoOrderGuard == FALSE

AlreadyOrdered == \E o \in Orders : order[o].status = "SUBMITTED"

\* The breakout is confirmed and the guard against a second entry passes.
EntryGuard(b, s) ==
    /\ buyer[b].pc = "loop" /\ s \in buyer[b].todo
    /\ OpenPositions = {}
    /\ ~AlreadyOrdered
    /\ buyer' = [buyer EXCEPT ![b] = [@ EXCEPT !.pc = "submit", !.sig = s]]
    /\ UNCHANGED <<dbAndBroker, sync, posSync, closer>>

\* execute_signal_order asks only that the signal be PENDING.
AgentStart(a, s) ==
    /\ buyer[a].pc = "idle"
    /\ signal[s] = "PENDING"
    /\ buyer' = [buyer EXCEPT ![a] = [@ EXCEPT !.pc = "submit", !.sig = s]]
    /\ UNCHANGED <<dbAndBroker, sync, posSync, closer>>

\* submit_bracket_order is accepted, or falls back to a simulated fill.
SubmitTo(b, state) ==
    /\ buyer[b].pc = "submit"
    /\ FreeOrders # {}
    /\ LET o == CHOOSE x \in Orders : x \in FreeOrders
       IN  /\ broker' = [broker EXCEPT ![o] =
                [NoBrokerOrder EXCEPT !.state = state,
                    !.ref = IF b \in EntryRuns THEN buyer[b].sig ELSE NoSignal]]
           /\ buyer' = [buyer EXCEPT ![b] = [@ EXCEPT !.pc = "record", !.ord = o]]
    /\ UNCHANGED <<signal, order, pos, trades, holding, sync, posSync, closer>>

SubmitAccepted(b)  == SubmitTo(b, "working")
SubmitSimulated(b) == "simulate" \in Hazards /\ SubmitTo(b, "simulated")

\* A broker error leaves the signal PENDING for the next run.
SubmitRejected(b) ==
    /\ buyer[b].pc = "submit"
    /\ buyer' = [buyer EXCEPT ![b] = Finished(b, buyer[b].sig)]
    /\ UNCHANGED <<dbAndBroker, sync, posSync, closer>>

\* Mutant: the row is added with the status column's default.
RecordDefaultRow(b, status, filled) ==
    order' = [order EXCEPT ![buyer[b].ord] =
                 [status |-> "PENDING", sig |-> buyer[b].sig, filled |-> filled]]

\* One transaction: the Order row, the signal, and a simulated Position.
RecordRow(b, status, filled) ==
    order' = [order EXCEPT ![buyer[b].ord] =
                 [status |-> status, sig |-> buyer[b].sig, filled |-> filled]]

RecordSubmitted(b) ==
    /\ buyer[b].pc = "record"
    /\ broker[buyer[b].ord].state # "simulated"
    /\ RecordRow(b, "SUBMITTED", 0)
    /\ signal' = [signal EXCEPT ![buyer[b].sig] = "TRIGGERED"]
    /\ buyer' = [buyer EXCEPT ![b] = Finished(b, buyer[b].sig)]
    /\ UNCHANGED <<pos, trades, broker, holding, sync, posSync, closer>>

RecordSimulated(b) ==
    /\ buyer[b].pc = "record"
    /\ broker[buyer[b].ord].state = "simulated"
    /\ \E p \in FreePositions :
          /\ p = CHOOSE x \in Positions : x \in FreePositions
          /\ pos' = [pos EXCEPT ![p] = [status |-> "OPEN", sig |-> buyer[b].sig,
                                        qty |-> Lot, src |-> buyer[b].ord]]
    /\ RecordRow(b, "FILLED", Lot)
    /\ signal' = [signal EXCEPT ![buyer[b].sig] = "TRIGGERED"]
    /\ buyer' = [buyer EXCEPT ![b] = Finished(b, buyer[b].sig)]
    /\ UNCHANGED <<trades, broker, holding, sync, posSync, closer>>

\* The worker is lost; acks_late redelivers the task as a new run.
BuyerCrash(b) ==
    /\ "crash" \in Hazards
    /\ buyer[b].pc # "idle"
    /\ buyer' = [buyer EXCEPT ![b] = IdleBuyer]
    /\ UNCHANGED <<dbAndBroker, sync, posSync, closer>>

-----------------------------------------------------------------------------
(***************************************************************************)
(* Interactive Brokers: entries fill, expire at the close of the day, and  *)
(* a filled bracket's children sell.                                       *)
(***************************************************************************)
allButBroker == <<signal, order, pos, trades, buyer, sync, posSync, closer>>

Fill(o) ==
    /\ broker[o].state = "working"
    /\ \E n \in 1..(Lot - broker[o].filled) :
          LET all == broker[o].filled + n
          IN  /\ "partial" \notin Hazards => n = Lot
              /\ holding' = holding + n
              /\ broker' = [broker EXCEPT ![o] = [@ EXCEPT !.filled = all,
                               !.state = IF all = Lot THEN "done" ELSE "working"]]
    /\ UNCHANGED allButBroker

Expire(o) ==
    /\ broker[o].state = "working"
    /\ broker' = [broker EXCEPT ![o].state = "done"]
    /\ UNCHANGED <<holding, allButBroker>>

\* A stop or a target executes for everything the bracket has bought.
BracketSell(o) ==
    /\ "sell" \in Hazards
    /\ broker[o].sold < broker[o].filled
    /\ broker' = [broker EXCEPT ![o].sold = broker[o].filled]
    /\ holding' = holding - (broker[o].filled - broker[o].sold)
    /\ UNCHANGED allButBroker

\* The order's executions are older than get_executions(days=2) asks for.
ExecutionsAge(o) ==
    /\ "aging" \in Hazards
    /\ broker[o].state = "done" /\ ~broker[o].aged
    /\ broker' = [broker EXCEPT ![o].aged = TRUE]
    /\ UNCHANGED <<holding, allButBroker>>

-----------------------------------------------------------------------------
(***************************************************************************)
(* sync_order_status.  One session for the organisation: it loads the open *)
(* BUY orders and the OPEN positions, asks the broker for its open orders  *)
(* and then for its executions, goes through the orders (pass A) and the   *)
(* positions (pass B), and commits everything or nothing.  The session has *)
(* autoflush off: what it changed is written by the commit, and an object  *)
(* it loaded keeps the attributes it was loaded with.                      *)
(***************************************************************************)
allButSync == <<buyer, posSync, closer>>

\* rows: the orders of the pass still to do; held: the positions of pass B;
\* sess: the qty of the Position objects the session has loaded.
SyncRead ==
    LET rows == {o \in Orders : order[o].status \in {"SUBMITTED", "PARTIAL"}}
    IN  /\ sync.pc = "idle"
        /\ rows \cup OpenPositions # {}
        /\ sync' = [sync EXCEPT !.pc = "open", !.rows = rows, !.held = OpenPositions,
                        !.sess = [p \in Positions |->
                                    IF p \in OpenPositions THEN pos[p].qty ELSE 0]]
        /\ UNCHANGED <<dbAndBroker, allButSync>>

\* get_open_orders: a failed read is an empty list.
SyncOpenOrders ==
    /\ sync.pc = "open"
    /\ \E blind \in BOOLEAN :
          /\ blind => "blind" \in Hazards
          /\ sync' = [sync EXCEPT !.pc = "execs",
                         !.live = IF blind THEN {}
                                  ELSE {o \in Orders : broker[o].state = "working"}]
    /\ UNCHANGED <<dbAndBroker, allButSync>>

\* get_executions, grouped by order id for the buys and by orderRef for the
\* sells; likewise empty when it fails.
SyncExecutions ==
    /\ sync.pc = "execs"
    /\ \E blind \in BOOLEAN :
          LET seen(o) == ~blind /\ ~broker[o].aged
          IN  /\ blind => "blind" \in Hazards
              /\ sync' = [sync EXCEPT !.pc = "passA",
                    !.bought = [o \in Orders |-> IF seen(o) THEN broker[o].filled ELSE 0],
                    !.sold   = [o \in Orders |-> IF seen(o) THEN broker[o].sold ELSE 0]]
    /\ UNCHANGED <<dbAndBroker, allButSync>>

\* Mutant: a full fill is compared with > instead of >=.
AlwaysPartial(o) == "PARTIAL"

FillStatus(o) == IF sync.bought[o] = Lot THEN "FILLED" ELSE "PARTIAL"

\* Mutant: the status of the row is never set, the bug the task was written for.
RowLeftSubmitted(o, status) ==
    [sync EXCEPT !.rows = @ \ {o}]

\* The order is done in this pass, with this status to write.
RowDone(o, status) ==
    [sync EXCEPT !.rows = @ \ {o}, !.ord[o] = status]

\* What the Position object of the session says of its qty.
LoadedQty(p) == IF sync.sess[p] > 0 THEN sync.sess[p] ELSE pos[p].qty

\* A position imported without a signal gets the order's.
Repaired(o, p) ==
    IF pos[p].sig # NoSignal \/ sync.link[p] # NoSignal THEN sync.link[p]
                                                       ELSE order[o].sig

\* Mutant: the executions are added to what the position has already.
AddedQty(o, p) == LoadedQty(p) + sync.bought[o]

\* The qty is computed from all the executions, not incrementally.
FilledQty(o, p) == sync.bought[o]

\* Pass A, fills, an OPEN position for the ticker: it is repaired, and its qty
\* set to what the order has bought.
SyncFilledHeld(o, p) ==
    /\ sync.pc = "passA" /\ o \in sync.rows /\ sync.bought[o] > 0
    /\ p \in OpenPositions
    /\ sync' = [RowDone(o, FillStatus(o)) EXCEPT
                   !.link[p] = Repaired(o, p),
                   !.sess[p] = FilledQty(o, p),
                   !.qty[p]  = IF LoadedQty(p) = FilledQty(o, p) THEN @ ELSE FilledQty(o, p)]
    /\ UNCHANGED <<dbAndBroker, allButSync>>

\* Pass A, fills, no OPEN position: a new one from the signal.
SyncFilledNew(o) ==
    /\ sync.pc = "passA" /\ o \in sync.rows /\ sync.bought[o] > 0
    /\ OpenPositions = {}
    /\ sync' = [RowDone(o, FillStatus(o)) EXCEPT !.create = @ \cup {o}]
    /\ UNCHANGED <<dbAndBroker, allButSync>>

\* Mutant: the signal of a dead order stays TRIGGERED.
NotRearmed(o) == sync.rearm

\* The signal goes back to PENDING if it is TRIGGERED.
Rearmed(o) ==
    IF order[o].sig # NoSignal /\ signal[order[o].sig] = "TRIGGERED"
    THEN sync.rearm \cup {order[o].sig} ELSE sync.rearm

\* Mutant: any order the broker no longer works on has expired.
SyncExpiredUnchecked(o) ==
    /\ sync.pc = "passA" /\ o \in sync.rows /\ o \notin sync.live
    /\ sync' = [RowDone(o, "CANCELLED") EXCEPT !.rearm = Rearmed(o)]
    /\ UNCHANGED <<dbAndBroker, allButSync>>

\* Pass A, no fills and not among the open orders: expired.
SyncExpired(o) ==
    /\ sync.pc = "passA" /\ o \in sync.rows
    /\ sync.bought[o] = 0 /\ o \notin sync.live
    /\ sync' = [RowDone(o, "CANCELLED") EXCEPT !.rearm = Rearmed(o)]
    /\ UNCHANGED <<dbAndBroker, allButSync>>

\* Pass A, still working: the babysitter cancels it if the price ran away.  A
\* cancel that fails is only logged.
SyncExtended(o) ==
    /\ "extend" \in Hazards
    /\ sync.pc = "passA" /\ o \in sync.rows
    /\ sync.bought[o] = 0 /\ o \in sync.live
    /\ \E accepted \in BOOLEAN :
          broker' = IF accepted /\ broker[o].state = "working"
                    THEN [broker EXCEPT ![o].state = "done"] ELSE broker
    /\ sync' = [RowDone(o, "CANCELLED") EXCEPT !.rearm = Rearmed(o)]
    /\ UNCHANGED <<signal, order, pos, trades, holding, allButSync>>

SyncWorking(o) ==
    /\ sync.pc = "passA" /\ o \in sync.rows
    /\ sync.bought[o] = 0 /\ o \in sync.live
    /\ sync' = RowDone(o, "keep")
    /\ UNCHANGED <<dbAndBroker, allButSync>>

\* The signal a position belongs to, as the session sees it.
SignalOf(p) == IF sync.link[p] # NoSignal THEN sync.link[p] ELSE pos[p].sig

\* Mutant: only the entries still open are looked at.
SoldWhileOpen(p) ==
    \E o \in sync.rows : sync.sold[o] > 0 /\ broker[o].ref = SignalOf(p)

\* A sell execution carries the reference of the position's signal.
SoldFor(p) ==
    \E o \in Orders : /\ sync.sold[o] > 0
                      /\ broker[o].ref # NoSignal
                      /\ broker[o].ref = SignalOf(p)

\* Pass B: a held position is closed when any sell execution carries the
\* reference of its signal, whatever the quantity sold.  The check that the
\* object is still OPEN reads the attribute the session loaded: always true.
SyncPassB ==
    /\ sync.pc = "passA" /\ sync.rows = {}
    /\ sync' = [sync EXCEPT !.pc = "commit",
                   !.close = {p \in sync.held : SoldFor(p)},
                   !.held = {}, !.live = {},
                   !.sold = [o \in Orders |-> 0],
                   !.sess = [p \in Positions |-> 0]]
    /\ UNCHANGED <<dbAndBroker, allButSync>>

\* Mutant: a repaired row is written back with the status it was loaded with.
SyncWrittenBack(p) ==
    [status |-> IF p \in sync.close THEN "CLOSED"
                ELSE IF sync.link[p] # NoSignal THEN "OPEN" ELSE pos[p].status,
     sig |-> pos[p].sig, qty |-> pos[p].qty, src |-> pos[p].src]

\* What the commit writes to a Position row that exists already.
SyncWritten(p) ==
    [status |-> IF p \in sync.close THEN "CLOSED" ELSE pos[p].status,
     sig    |-> IF sync.link[p] # NoSignal THEN sync.link[p] ELSE pos[p].sig,
     qty    |-> IF sync.qty[p] > 0 THEN sync.qty[p] ELSE pos[p].qty,
     src    |-> pos[p].src]

SyncCommit ==
    /\ sync.pc = "commit"
    /\ ~UniqueViolated(sync.close)
    /\ order' = [o \in Orders |->
                   CASE sync.ord[o] = "keep" -> order[o]
                     [] sync.ord[o] = "CANCELLED" -> [order[o] EXCEPT !.status = "CANCELLED"]
                     [] OTHER -> [order[o] EXCEPT !.status = sync.ord[o],
                                                  !.filled = sync.bought[o]]]
    /\ signal' = [s \in Signals |-> IF s \in sync.rearm THEN "PENDING" ELSE signal[s]]
    /\ ExistsInjection(sync.create, FreePositions)
    /\ LET new == CHOOSE f \in Injection(sync.create, FreePositions) : TRUE
           made(p) == CHOOSE o \in sync.create : new[o] = p
       IN  pos' = [p \in Positions |->
                     IF \E o \in sync.create : new[o] = p
                     THEN [status |-> "OPEN", sig |-> order[made(p)].sig,
                           qty |-> sync.bought[made(p)], src |-> made(p)]
                     ELSE SyncWritten(p)]
    /\ trades' = Traded(sync.close)
    /\ sync' = IdleSync
    /\ UNCHANGED <<broker, holding, allButSync>>

\* The unique constraint fails: the whole pass is rolled back.
SyncRollback ==
    /\ sync.pc = "commit"
    /\ UniqueViolated(sync.close)
    /\ sync' = IdleSync
    /\ UNCHANGED <<dbAndBroker, allButSync>>

SyncCrash ==
    /\ "crash" \in Hazards
    /\ sync.pc # "idle"
    /\ sync' = IdleSync
    /\ UNCHANGED <<dbAndBroker, allButSync>>

-----------------------------------------------------------------------------
(***************************************************************************)
(* sync_ibkr_positions_task.  It asks the broker first, reads the OPEN     *)
(* positions afterwards, and commits.  It takes no lock.                   *)
(***************************************************************************)
allButPosSync == <<signal, order, broker, holding, buyer, sync, closer>>

PosSyncBroker ==
    /\ posSync.pc = "idle"
    /\ \/ \E others \in OtherHoldings :
             posSync' = [IdlePosSync EXCEPT !.pc = "read", !.others = others,
                            !.held = IF holding < 0 THEN -holding ELSE holding]
       \/ /\ "blind" \in Hazards
          /\ posSync' = [IdlePosSync EXCEPT !.pc = "read"]
    /\ UNCHANGED <<pos, trades, allButPosSync>>

\* The three outcomes for the ticker; db_by_sym keeps one row of several.
PosSyncPlan(do, p) ==
    posSync' = [posSync EXCEPT !.pc = "commit", !.do = do, !.p = p]

PosSyncRead ==
    /\ posSync.pc = "read"
    /\ \/ posSync.held > 0 /\ OpenPositions = {} /\ PosSyncPlan("import", NoPosition)
       \/ posSync.held > 0 /\ \E p \in OpenPositions :
             PosSyncPlan(IF pos[p].qty # posSync.held THEN "qty" ELSE "none", p)
       \/ posSync.held = 0 /\ posSync.others /\ \E p \in OpenPositions :
             PosSyncPlan("close", p)
       \/ /\ posSync.held = 0
          /\ posSync.others => OpenPositions = {}   \* nothing to close, or skip_orphan_close
          /\ PosSyncPlan("none", NoPosition)
    /\ UNCHANGED <<pos, trades, allButPosSync>>

PosSyncImport ==
    /\ posSync.pc = "commit" /\ posSync.do = "import"
    /\ FreePositions # {}
    /\ LET p == CHOOSE x \in Positions : x \in FreePositions
       IN  pos' = [pos EXCEPT ![p] = [status |-> "OPEN", sig |-> NoSignal,
                                      qty |-> posSync.held, src |-> NoOrder]]
    /\ posSync' = IdlePosSync
    /\ UNCHANGED <<trades, allButPosSync>>

PosSyncQty ==
    /\ posSync.pc = "commit" /\ posSync.do = "qty"
    /\ pos' = [pos EXCEPT ![posSync.p].qty = posSync.held]
    /\ posSync' = IdlePosSync
    /\ UNCHANGED <<trades, allButPosSync>>

PosSyncClose ==
    /\ posSync.pc = "commit" /\ posSync.do = "close"
    /\ ~UniqueViolated({posSync.p})
    /\ pos' = [pos EXCEPT ![posSync.p].status = "CLOSED"]
    /\ trades' = Traded({posSync.p})
    /\ posSync' = IdlePosSync
    /\ UNCHANGED allButPosSync

\* Nothing to write, a rolled back close, or a lost worker.
PosSyncEnd ==
    /\ \/ posSync.pc = "commit" /\ posSync.do = "none"
       \/ posSync.pc = "commit" /\ posSync.do = "close" /\ UniqueViolated({posSync.p})
       \/ posSync.pc # "idle" /\ "crash" \in Hazards
    /\ posSync' = IdlePosSync
    /\ UNCHANGED <<pos, trades, allButPosSync>>

-----------------------------------------------------------------------------
(***************************************************************************)
(* check_exit_rules_task for an exit that was simulated: the row is fetched *)
(* again in the session that closes it (T-DEDUP-1).                        *)
(***************************************************************************)
allButCloser == <<signal, order, broker, holding, buyer, sync, posSync>>

PaperExitFetch(p) ==
    /\ closer.pc = "idle" /\ closer.tried < MaxExits
    /\ p \in OpenPositions
    /\ closer' = [pc |-> "commit", p |-> p, tried |-> closer.tried + 1]
    /\ UNCHANGED <<pos, trades, allButCloser>>

PaperExitCommit ==
    /\ closer.pc = "commit"
    /\ ~UniqueViolated({closer.p})
    /\ pos' = [pos EXCEPT ![closer.p].status = "CLOSED"]
    /\ trades' = Traded({closer.p})
    /\ closer' = [closer EXCEPT !.pc = "idle", !.p = NoPosition]
    /\ UNCHANGED allButCloser

PaperExitAbort ==
    /\ closer.pc = "commit"
    /\ UniqueViolated({closer.p})
    /\ closer' = [closer EXCEPT !.pc = "idle", !.p = NoPosition]
    /\ UNCHANGED <<pos, trades, allButCloser>>

-----------------------------------------------------------------------------
BuyerStep(b) ==
    \/ b \in EntryRuns /\ EntryStart(b)
    \/ b \in EntryRuns /\ \E s \in Signals : \/ EntrySelfHeal(b, s)
                                             \/ EntrySkip(b, s)
                                             \/ EntryGuard(b, s)
    \/ b \in Agents /\ \E s \in Signals : AgentStart(b, s)
    \/ SubmitAccepted(b)
    \/ SubmitSimulated(b)
    \/ SubmitRejected(b)
    \/ RecordSubmitted(b)
    \/ RecordSimulated(b)

BrokerStep ==
    \E o \in Orders : Fill(o) \/ Expire(o) \/ BracketSell(o) \/ ExecutionsAge(o)

SyncStep ==
    \/ SyncRead
    \/ SyncOpenOrders
    \/ SyncExecutions
    \/ \E o \in Orders : \/ \E p \in Positions : SyncFilledHeld(o, p)
                         \/ SyncFilledNew(o)
                         \/ SyncExpired(o)
                         \/ SyncExtended(o)
                         \/ SyncWorking(o)
    \/ SyncPassB
    \/ SyncCommit
    \/ SyncRollback

PosSyncStep ==
    \/ PosSyncBroker
    \/ PosSyncRead
    \/ PosSyncImport
    \/ PosSyncQty
    \/ PosSyncClose
    \/ PosSyncEnd

PaperExitStep ==
    \/ \E p \in Positions : PaperExitFetch(p)
    \/ PaperExitCommit
    \/ PaperExitAbort

Next ==
    \/ \E b \in Buyers : BuyerStep(b) \/ BuyerCrash(b)
    \/ BrokerStep
    \/ SyncStep
    \/ SyncCrash
    \/ PosSyncStep
    \/ PaperExitStep

Spec == Init /\ [][Next]_vars

\* Beat starts sync_order_status and sync_ibkr_positions_task every five
\* minutes, and a run that started goes on until it ends.
FairSpec == Spec /\ WF_vars(SyncStep) /\ WF_vars(PosSyncStep)

-----------------------------------------------------------------------------
(* Properties *)

BuyerState   == [pc : {"idle", "loop", "submit", "record"}, todo : SUBSET Signals,
                 sig : NullableSignal, ord : NullableOrder]
SyncState    == [pc : {"idle", "open", "execs", "passA", "commit"},
                 rows : SUBSET Orders, held : SUBSET Positions, live : SUBSET Orders,
                 bought : [Orders -> 0..Lot], sold : [Orders -> 0..Lot],
                 sess : [Positions -> Nat], link : [Positions -> NullableSignal],
                 qty : [Positions -> Nat],
                 ord : [Orders -> {"keep", "PARTIAL", "FILLED", "CANCELLED"}],
                 rearm : SUBSET Signals, create : SUBSET Orders,
                 close : SUBSET Positions]
PosSyncState == [pc : {"idle", "read", "commit"}, held : Nat, others : BOOLEAN,
                 do : {"none", "import", "qty", "close"},
                 p : Positions \cup {NoPosition}]
CloserState  == [pc : {"idle", "commit"}, p : Positions \cup {NoPosition},
                 tried : Nat]

\* Every variable stays within the values its column or its program can hold.
TypeOK ==
    /\ signal \in [Signals -> {"PENDING", "TRIGGERED", "SKIPPED"}]
    /\ order \in [Orders -> OrderRow]
    /\ pos \in [Positions -> PositionRow]
    /\ trades \in [Positions -> Nat]
    /\ broker \in [Orders -> BrokerOrder]
    /\ holding \in Int
    /\ buyer \in [Buyers -> BuyerState]
    /\ sync \in SyncState
    /\ posSync \in PosSyncState
    /\ closer \in CloserState

\* T-DEDUP: three programs close positions from what they read earlier, and
\* still a CLOSED position has exactly one Trade row, any other none.
OneTradePerPosition ==
    \A p \in Positions : trades[p] = IF pos[p].status = "CLOSED" THEN 1 ELSE 0

\* What a program holds on to between its read and its commit is a row that
\* exists: with OneTradePerPosition, what is closed was OPEN until then.
ClosersKnowRows ==
    /\ \A p \in sync.held \cup sync.close : pos[p].status # "none"
    /\ posSync.do = "close" =>
          posSync.p \in Positions /\ pos[posSync.p].status # "none"
    /\ closer.pc = "commit" =>
          closer.p \in Positions /\ pos[closer.p].status # "none"

LedgerInv == TypeOK /\ OneTradePerPosition /\ ClosersKnowRows

\* A signal waits for a breakout or it has an entry, never both: a PENDING
\* signal has no Order row that is still working or was filled, and a TRIGGERED
\* one has at least one that was not cancelled.
SignalMatchesOrders ==
    \A s \in Signals :
       /\ signal[s] = "PENDING" =>
             \A o \in Orders : order[o].sig = s => order[o].status = "CANCELLED"
       /\ signal[s] = "TRIGGERED" =>
             \E o \in Orders : order[o].sig = s /\ order[o].status # "CANCELLED"

\* An order that bought shares is never written off as CANCELLED, which would
\* re-arm its signal and buy them again.
CancelledMeansUnfilled ==
    \A o \in Orders : order[o].status = "CANCELLED" => broker[o].filled = 0

\* Two entries for the ticker never work at the broker at the same time.
OneWorkingEntry ==
    \A o1, o2 \in Orders :
       broker[o1].state = "working" /\ broker[o2].state = "working" => o1 = o2

\* One order's executions become one Position row, however often they are read.
OnePositionPerOrder ==
    \A p1, p2 \in Positions :
       pos[p1].src = pos[p2].src /\ pos[p1].src # NoOrder => p1 = p2

\* The Position rows never claim more shares than were bought: an order's
\* executions are read again in every pass and never counted twice.
Shares(o) == IF broker[o].state = "simulated" THEN Lot ELSE broker[o].filled

BookedSharesWereBought ==
    \A p \in Positions :
       pos[p].qty <= FoldFunction(LAMBDA x, y : x + y, 0, [o \in Orders |-> Shares(o)])

\* The ticker has one OPEN Position row.
OneOpenPosition ==
    \A p1, p2 \in OpenPositions : p1 = p2

\* No entry is left SUBMITTED for ever once the broker is done with it, even
\* if passes over it are rolled back.
DeadEntryResolved ==
    \A o \in Orders :
       (order[o].status = "SUBMITTED" /\ broker[o].state = "done")
          ~> (order[o].status # "SUBMITTED")

\* When the bracket has sold all an order bought, the Position made from the
\* order is closed in the end.
SoldOut(o) == /\ broker[o].state = "done"
              /\ broker[o].sold > 0 /\ broker[o].sold = broker[o].filled

SoldPositionCloses ==
    \A o \in Orders, p \in Positions :
       (pos[p].src = o /\ SoldOut(o)) ~> (pos[p].status = "CLOSED")

\* The tables keep the promise of PositionLedger, under every hazard.
Ledger == INSTANCE PositionLedger
             WITH status <- [p \in Positions |-> pos[p].status], booked <- trades

LedgerSpec == Ledger!Spec
=============================================================================
