---------------------------- MODULE CryptoOrders ----------------------------
(***************************************************************************)
(* Live crypto trading in AstraTrade, for one organisation, one venue and  *)
(* one coin.  "A crypto order acknowledgement is not a fill": the programs *)
(* that trade only submit an order and record it, and every minute         *)
(* sync_crypto_order_status reads each order back from the venue and turns *)
(* what was filled into positions and trades.                              *)
(*                                                                         *)
(*   chat     execute_signal_order       app/trading/order_executor.py     *)
(*   entry    check_entry_triggers       app/tasks/trading.py              *)
(*   add      request_pyramid_add_on     app/trading/pyramid_executor.py   *)
(*   rules    check_exit_rules_task      app/tasks/trading.py              *)
(*   stops    sync_stop_orders           app/tasks/trading.py              *)
(*   manual   request_position_exit      app/trading/exit_executor.py      *)
(*   amend    request_stop_update        app/trading/stop_executor.py      *)
(*                                                                         *)
(* Each of the seven reads the tables, calls the venue, and writes the     *)
(* tables again in a session of its own: one action for each.              *)
(***************************************************************************)
EXTENDS Integers, FiniteSets, Functions

CONSTANTS
    Programs,     \* those of the seven that run
    Passes,       \* runs of sync_crypto_order_status the lock lets overlap
    Signals,      \* the signals raised for the coin
    Orders,       \* bound: orders that are ever submitted
    Positions,    \* bound: Position rows that are ever inserted
    Lot,          \* what one order buys, in the smallest unit of the coin
    Coin,         \* such units in one coin
    Hazards,      \* what the venue may do, a subset of AllHazards
    NoSignal, NoOrder, NoPosition

AllPrograms == {"chat", "entry", "add", "rules", "stops", "manual", "amend"}

AllHazards ==
    { "partial",   \* a buy fills in more than one execution
      "pieces",    \* so does a sell
      "cancel",    \* the venue ends an order that was not filled
      "reject",    \* it refuses an order or a cancel
      "offline",   \* the connection fails: orders are simulated, reads empty
      "crash" }    \* a worker is killed between two steps

ASSUME ProgramsAssumption == Programs \subseteq AllPrograms
ASSUME HazardsAssumption  == Hazards \subseteq AllHazards
ASSUME LotAssumption      == Lot \in Nat \ {0} /\ Coin \in Nat \ {0}
ASSUME NullAssumption     == /\ NoSignal \notin Signals
                             /\ NoOrder \notin Orders
                             /\ NoPosition \notin Positions

VARIABLES
    signal,  \* the status column of each Signal row
    row,     \* the Order rows, by the id the venue (or the simulation) gave
    pos,     \* the Position rows
    trades,  \* how many Trade rows carry each position_id
    booked,  \* the quantity in all Trade rows made for each position
    venue,   \* the orders as the venue knows them
    coins,   \* the balance at the venue, relative to the start
    prog,    \* the local variables of the seven programs
    rec      \* those of each reconciliation pass, with its session

tables == <<signal, row, pos, trades, booked>>
vars   == <<tables, venue, coins, prog, rec>>

-----------------------------------------------------------------------------
\* kind: a bracket's entry, an add-on, a market sell or a protective stop; an
\* "orphan" is recorded without what reconciliation selects orders by.
\* p is the position_id (pyramid_position_id) kept in raw_ibkr_response.
NoRow == [kind |-> "none", status |-> "none", sig |-> NoSignal,
          p |-> NoPosition, filled |-> 0]

NoPos == [status |-> "none", sig |-> NoSignal, qty |-> 0, paper |-> FALSE]

\* A simulated order has an id the venue does not know.
NoVenueOrder == [state |-> "none", side |-> "buy", amount |-> 0, filled |-> 0]

IdleProgram == [pc |-> "idle", sig |-> NoSignal, p |-> NoPosition, qty |-> 0,
                full |-> TRUE, cancel |-> {}, stops |-> {}, ord |-> NoOrder]

\* A session: the orders to do and their qty_filled as loaded, the Position
\* objects in its identity map with their qty, and what its commit will write.
IdlePass == [pc |-> "idle", todo |-> {},
             prev   |-> [o \in Orders |-> 0],
             status |-> [o \in Orders |-> "keep"],
             filled |-> [o \in Orders |-> 0],
             add    |-> [o \in Orders |-> NoRow],
             held   |-> {}, qty |-> [p \in Positions |-> 0], dirty |-> {},
             made   |-> [p \in Positions |-> NoSignal],
             final  |-> [p \in Positions |-> 0],
             book   |-> [p \in Positions |-> 0],
             rearm  |-> {}]

Init ==
    /\ signal = [s \in Signals |-> "PENDING"]
    /\ row    = [o \in Orders |-> NoRow]
    /\ pos    = [p \in Positions |-> NoPos]
    /\ trades = [p \in Positions |-> 0]
    /\ booked = [p \in Positions |-> 0]
    /\ venue  = [o \in Orders |-> NoVenueOrder]
    /\ coins  = 0
    /\ prog   = [x \in Programs |-> IdleProgram]
    /\ rec    = [r \in Passes |-> IdlePass]

Active         == {"SUBMITTED", "PARTIAL"}
OpenPositions  == {p \in Positions : pos[p].status = "OPEN"}
Made(r)        == {p \in Positions : rec[r].made[p] # NoSignal}
FreePositions  == {p \in Positions : pos[p].status = "none"} \ UNION {Made(r) : r \in Passes}
NextPosition   == CHOOSE p \in FreePositions : TRUE
FreeOrders     == {o \in Orders : venue[o].state = "none"}
NextOrder      == CHOOSE o \in FreeOrders : TRUE

\* The rows with action SELL, and those of the protective stops, still active.
ActiveSells == {o \in Orders : row[o].kind \in {"market", "stop"} /\ row[o].status \in Active}
ActiveStops == {o \in ActiveSells : row[o].kind = "stop"}

SumOver(f, S) == FoldFunctionOnSet(LAMBDA x, y : x + y, 0, f, S)
Least(a, b)   == IF a < b THEN a ELSE b
Excess(a, b)  == IF a > b THEN a - b ELSE 0

-----------------------------------------------------------------------------
(***************************************************************************)
(* The venue.                                                              *)
(***************************************************************************)
Placed(v, o, side, n, state) ==
    [v EXCEPT ![o] = [state |-> state, side |-> side, amount |-> n, filled |-> 0]]

VenueFill(o) ==
    /\ venue[o].state = "open"
    /\ \E n \in 1..(venue[o].amount - venue[o].filled) :
          LET all  == venue[o].filled + n
              some == IF venue[o].side = "buy" THEN "partial" ELSE "pieces"
          IN  /\ some \notin Hazards => all = venue[o].amount
              /\ venue' = [venue EXCEPT ![o] = [@ EXCEPT !.filled = all,
                     !.state = IF all = venue[o].amount THEN "filled" ELSE "open"]]
              /\ coins' = IF venue[o].side = "buy" THEN coins + n ELSE coins - n
    /\ UNCHANGED <<tables, prog, rec>>

VenueCancel(o) ==
    /\ "cancel" \in Hazards
    /\ venue[o].state = "open"
    /\ venue' = [venue EXCEPT ![o] = [@ EXCEPT !.state = "cancelled"]]
    /\ UNCHANGED <<tables, coins, prog, rec>>

-----------------------------------------------------------------------------
(***************************************************************************)
(* The programs that trade.  First session: what to trade.                 *)
(***************************************************************************)
outside == <<coins, rec>>

Begin(x, local) ==
    /\ x \in Programs /\ prog[x].pc = "idle"
    /\ prog' = [prog EXCEPT ![x] = local]
    /\ UNCHANGED <<tables, venue, outside>>

ChatStart ==
    \E s \in Signals :
       /\ signal[s] = "PENDING"
       /\ Begin("chat", [IdleProgram EXCEPT !.pc = "call", !.sig = s, !.qty = Lot])

\* The entry task looks for an open position and for a BUY order first.
EntryStart ==
    \E s \in Signals :
       /\ signal[s] = "PENDING"
       /\ OpenPositions = {}
       /\ \A o \in Orders : ~ (row[o].kind \in {"entry", "add", "orphan"}
                                 /\ row[o].status = "SUBMITTED")
       /\ Begin("entry", [IdleProgram EXCEPT !.pc = "call", !.sig = s, !.qty = Lot])

\* A ticker that is held already cannot be entered: the signal is SKIPPED.
EntrySelfHeal ==
    \E s \in Signals :
       /\ "entry" \in Programs /\ prog["entry"].pc = "idle"
       /\ signal[s] = "PENDING" /\ OpenPositions # {}
       /\ signal' = [signal EXCEPT ![s] = "SKIPPED"]
       /\ UNCHANGED <<row, pos, trades, booked, venue, prog, outside>>

AddStart ==
    \E p \in OpenPositions :
       /\ \A o \in Orders : ~ (row[o].kind = "add" /\ row[o].p = p
                                 /\ row[o].status \in Active)
       /\ Begin("add", [IdleProgram EXCEPT !.pc = "call", !.p = p, !.qty = Lot])

\* A partial exit sells half, in whole coins, and one coin at the least.
PartialQty(q) ==
    LET whole == Coin * ((q \div 2) \div Coin)
    IN  IF whole < Coin THEN Coin ELSE whole

RulesStart ==
    \E p \in OpenPositions, full \in BOOLEAN :
       Begin("rules", [IdleProgram EXCEPT !.pc = "call", !.p = p, !.full = full,
                          !.qty = IF full THEN pos[p].qty ELSE PartialQty(pos[p].qty)])

StopsStart ==
    \E p \in OpenPositions :
       Begin("stops", [IdleProgram EXCEPT !.pc = "check", !.p = p, !.qty = pos[p].qty])

\* The price is through the stop and no sell is on its way.
StopsCheck ==
    /\ "stops" \in Programs /\ prog["stops"].pc = "check"
    /\ prog' = [prog EXCEPT !["stops"] =
                   IF ActiveSells = {} THEN [@ EXCEPT !.pc = "call"] ELSE IdleProgram]
    /\ UNCHANGED <<tables, venue, outside>>

\* A position on paper is closed at once.
ManualPaper ==
    \E p \in OpenPositions :
       /\ "manual" \in Programs /\ prog["manual"].pc = "idle"
       /\ pos[p].paper /\ ActiveSells \subseteq ActiveStops
       /\ trades[p] = 0
       /\ pos' = [pos EXCEPT ![p] = [@ EXCEPT !.status = "CLOSED"]]
       /\ trades' = [trades EXCEPT ![p] = @ + 1]
       /\ booked' = [booked EXCEPT ![p] = @ + pos[p].qty]
       /\ UNCHANGED <<signal, row, venue, prog, outside>>

\* A manual exit of a live one is refused beside a sell that is not a stop.
ManualStart ==
    \E p \in OpenPositions :
       /\ ~pos[p].paper /\ ActiveSells \subseteq ActiveStops
       /\ Begin("manual", [IdleProgram EXCEPT !.pc = "call", !.p = p, !.qty = pos[p].qty,
                              !.cancel = ActiveStops, !.stops = ActiveStops])

\* Mutant: the new stop is placed beside the working ones.
AmendBesideStops ==
    \E p \in OpenPositions :
       /\ ~pos[p].paper
       /\ Begin("amend", [IdleProgram EXCEPT !.pc = "call", !.p = p, !.qty = pos[p].qty])

AmendStart ==
    \E p \in OpenPositions :
       /\ ~pos[p].paper
       /\ Begin("amend", [IdleProgram EXCEPT !.pc = "call", !.p = p, !.qty = pos[p].qty,
                             !.cancel = ActiveStops, !.stops = ActiveStops])

-----------------------------------------------------------------------------
(***************************************************************************)
(* The calls to the venue, and the second session.                         *)
(***************************************************************************)
Ends(x) == prog' = [prog EXCEPT ![x] = IdleProgram]

\* The exit and the amendment cancel the stops one by one; the first that
\* cannot be cancelled ends the program.
CancelStop(x) ==
    /\ prog[x].pc = "call"
    /\ \E o \in prog[x].cancel :
          \/ /\ venue[o].state = "open"
             /\ venue' = [venue EXCEPT ![o] = [@ EXCEPT !.state = "cancelled"]]
             /\ prog' = [prog EXCEPT ![x] = [@ EXCEPT !.cancel = prog[x].cancel \ {o}]]
          \/ /\ venue[o].state # "open" \/ Hazards \cap {"reject", "offline"} # {}
             /\ Ends(x)
             /\ UNCHANGED venue
    /\ UNCHANGED <<tables, outside>>

Side(x) == IF x \in {"chat", "entry", "add"} THEN "buy" ELSE "sell"

Acked(x, state) ==
    /\ FreeOrders # {}
    /\ venue' = Placed(venue, NextOrder, Side(x), prog[x].qty, state)
    /\ prog' = [prog EXCEPT ![x] = [@ EXCEPT !.pc = "record", !.ord = NextOrder]]

\* The venue takes the order; without a connection everything but a protective
\* stop is simulated.
Submit(x) ==
    /\ prog[x].pc = "call" /\ prog[x].cancel = {}
    /\ \/ Acked(x, "open")
       \/ "offline" \in Hazards /\ x # "amend" /\ Acked(x, "sim")
    /\ UNCHANGED <<tables, outside>>

SubmitRejected(x) ==
    /\ prog[x].pc = "call" /\ prog[x].cancel = {} /\ x # "amend"
    /\ "reject" \in Hazards
    /\ Ends(x)
    /\ UNCHANGED <<tables, venue, outside>>

\* A refused amendment sells everything at market and records nothing.
AmendRejected ==
    /\ "amend" \in Programs
    /\ prog["amend"].pc = "call" /\ prog["amend"].cancel = {}
    /\ Hazards \cap {"reject", "offline"} # {}
    /\ \/ FreeOrders # {} /\ venue' = Placed(venue, NextOrder, "sell", prog["amend"].qty, "open")
       \/ UNCHANGED venue
    /\ Ends("amend")
    /\ UNCHANGED <<tables, outside>>

Simulated(x) == venue[prog[x].ord].state = "sim"

\* Mutant: the row keeps the column's default status.
NewRowPending(x, kind, status) ==
    [kind |-> kind, status |-> "PENDING", sig |-> prog[x].sig, p |-> prog[x].p,
     filled |-> IF status = "FILLED" THEN prog[x].qty ELSE 0]

NewRow(x, kind, status) ==
    [kind |-> kind, status |-> status, sig |-> prog[x].sig, p |-> prog[x].p,
     filled |-> IF status = "FILLED" THEN prog[x].qty ELSE 0]

Recorded(x, kind, status) ==
    row' = [row EXCEPT ![prog[x].ord] = NewRow(x, kind, status)]

\* An acknowledged entry: the row and the signal, in one commit.
RecordEntry ==
    /\ "chat" \in Programs /\ prog["chat"].pc = "record" /\ ~Simulated("chat")
    /\ Recorded("chat", "entry", "SUBMITTED")
    /\ signal' = [signal EXCEPT ![prog["chat"].sig] = "TRIGGERED"]
    /\ Ends("chat")
    /\ UNCHANGED <<pos, trades, booked, venue, outside>>

\* The scheduled entry writes the venue's id into the integer ibkr_order_id
\* and leaves asset_type and external_order_id at their defaults.  An id that
\* is no number fails the commit, and the signal stays PENDING.
RecordOrphan ==
    /\ "entry" \in Programs /\ prog["entry"].pc = "record" /\ ~Simulated("entry")
    /\ \/ /\ Recorded("entry", "orphan", "SUBMITTED")
          /\ signal' = [signal EXCEPT ![prog["entry"].sig] = "TRIGGERED"]
       \/ UNCHANGED <<row, signal>>
    /\ Ends("entry")
    /\ UNCHANGED <<pos, trades, booked, venue, outside>>

\* sync_order_status takes the orphan for an equity order and finds no fill.
OrphanExpires(o) ==
    /\ row[o].kind = "orphan" /\ row[o].status = "SUBMITTED"
    /\ row' = [row EXCEPT ![o] = [@ EXCEPT !.status = "CANCELLED"]]
    /\ signal' = IF signal[row[o].sig] = "TRIGGERED"
                 THEN [signal EXCEPT ![row[o].sig] = "PENDING"] ELSE signal
    /\ UNCHANGED <<pos, trades, booked, venue, prog, outside>>

\* A simulated entry is a position at once, on paper unless the scheduled
\* entry says otherwise.
RecordSimulatedEntry(x) ==
    /\ x \in {"chat", "entry"}
    /\ prog[x].pc = "record" /\ Simulated(x) /\ FreePositions # {}
    /\ Recorded(x, IF x = "chat" THEN "entry" ELSE "orphan", "FILLED")
    /\ pos' = [pos EXCEPT ![NextPosition] =
                  [status |-> "OPEN", sig |-> prog[x].sig, qty |-> prog[x].qty,
                   paper |-> x = "chat"]]
    /\ signal' = [signal EXCEPT ![prog[x].sig] = "TRIGGERED"]
    /\ Ends(x)
    /\ UNCHANGED <<trades, booked, venue, outside>>

\* An add-on waits for its fill, a simulated one counts at once.
RecordAdd ==
    /\ "add" \in Programs /\ prog["add"].pc = "record"
    /\ Recorded("add", "add", IF Simulated("add") THEN "FILLED" ELSE "SUBMITTED")
    /\ pos' = IF Simulated("add") /\ prog["add"].p \in OpenPositions
              THEN [pos EXCEPT ![prog["add"].p] =
                      [@ EXCEPT !.qty = pos[prog["add"].p].qty + prog["add"].qty]]
              ELSE pos
    /\ Ends("add")
    /\ UNCHANGED <<signal, trades, booked, venue, outside>>

\* The rules sell first and look for a working SELL afterwards.
RecordRules ==
    /\ "rules" \in Programs /\ prog["rules"].pc = "record" /\ ~Simulated("rules")
    /\ \/ ActiveSells = {} /\ Recorded("rules", "market", "SUBMITTED")
       \/ ActiveSells # {} /\ UNCHANGED row
    /\ Ends("rules")
    /\ UNCHANGED <<signal, pos, trades, booked, venue, outside>>

\* A simulated full exit closes the position, a partial one does nothing.
RulesClose ==
    LET p == prog["rules"].p
    IN  /\ "rules" \in Programs /\ prog["rules"].pc = "record" /\ Simulated("rules")
        /\ \/ /\ prog["rules"].full /\ p \in OpenPositions /\ trades[p] = 0
              /\ pos' = [pos EXCEPT ![p] = [@ EXCEPT !.status = "CLOSED"]]
              /\ trades' = [trades EXCEPT ![p] = @ + 1]
              /\ booked' = [booked EXCEPT ![p] = @ + prog["rules"].qty]
           \/ /\ ~prog["rules"].full \/ p \notin OpenPositions \/ trades[p] > 0
              /\ UNCHANGED <<pos, trades, booked>>
        /\ Ends("rules")
        /\ UNCHANGED <<signal, row, venue, outside>>

\* The stop task records what it submitted, simulated or not.
RecordStops ==
    /\ "stops" \in Programs /\ prog["stops"].pc = "record"
    /\ Recorded("stops", "market", "SUBMITTED")
    /\ Ends("stops")
    /\ UNCHANGED <<signal, pos, trades, booked, venue, outside>>

\* Mutant: the rows of the cancelled stops are left as they are.
StopsForgotten(x) == row

\* Rows of the stops that were cancelled: the exit leaves one that is no
\* longer active alone, the amendment overwrites it.
StopsCancelled(x) ==
    [o \in Orders |->
       IF o \in prog[x].stops /\ (x = "amend" \/ row[o].status \in Active)
       THEN [row[o] EXCEPT !.status = "CANCELLED"] ELSE row[o]]

\* Neither records anything if the position was closed meanwhile.
RecordExit(x, kind) ==
    /\ x \in Programs /\ prog[x].pc = "record"
    /\ row' = IF prog[x].p \in OpenPositions
              THEN [StopsCancelled(x) EXCEPT ![prog[x].ord] = NewRow(x, kind, "SUBMITTED")]
              ELSE row
    /\ Ends(x)
    /\ UNCHANGED <<signal, pos, trades, booked, venue, outside>>

ProgramCrash(x) ==
    /\ "crash" \in Hazards /\ prog[x].pc # "idle"
    /\ Ends(x)
    /\ UNCHANGED <<tables, venue, outside>>

-----------------------------------------------------------------------------
(***************************************************************************)
(* sync_crypto_order_status.  One session loads the active orders and goes *)
(* through them one by one.  It has autoflush off: a query sees what is    *)
(* committed, and of the session's own changes only a position it created  *)
(* (which is flushed); an object it has loaded keeps the session's values. *)
(***************************************************************************)
aside == <<tables, prog>>

\* The orders reconciliation selects.
Reconciled == {o \in Orders : row[o].kind # "orphan" /\ row[o].status \in Active}

RecStart(r) ==
    /\ rec[r].pc = "idle"
    /\ Reconciled # {}
    /\ rec' = [rec EXCEPT ![r] = [IdlePass EXCEPT !.pc = "loop", !.todo = Reconciled,
                                    !.prev = [o \in Orders |-> row[o].filled]]]
    /\ UNCHANGED <<aside, venue, coins>>

\* What the session finds OPEN, and what it takes a position's qty to be.
OpenSeen(r)  == OpenPositions \cup Made(r)
SeenQty(l, p) == IF p \in l.held THEN l.qty[p] ELSE pos[p].qty

\* The venue reports a fill: the order's new status and quantity.
Fills(o)   == venue[o].state \in {"open", "filled"} /\ venue[o].filled > 0
Done(r, o) == [rec[r] EXCEPT !.todo = @ \ {o}]

\* Mutant: a full fill is taken for a partial one.
AlwaysPartial(r, o) ==
    [Done(r, o) EXCEPT !.filled = [@ EXCEPT ![o] = venue[o].filled],
                       !.status = [@ EXCEPT ![o] = "PARTIAL"]]

Filled(r, o) ==
    [Done(r, o) EXCEPT !.filled = [@ EXCEPT ![o] = venue[o].filled],
        !.status = [@ EXCEPT ![o] = IF venue[o].state = "filled" THEN "FILLED" ELSE "PARTIAL"]]

\* The object of position p gets this qty.
WithQty(l, p, n) ==
    [l EXCEPT !.held = @ \cup {p}, !.qty = [@ EXCEPT ![p] = n],
              !.dirty = IF SeenQty(l, p) = n THEN @ ELSE @ \cup {p}]

Ready(r, o) == rec[r].pc = "loop" /\ o \in rec[r].todo

\* The lookup fails, or nothing is filled yet.
RecNothing(r, o) ==
    /\ Ready(r, o)
    /\ \/ venue[o].state = "sim" \/ "offline" \in Hazards
       \/ venue[o].state = "open" /\ venue[o].filled = 0
    /\ rec' = [rec EXCEPT ![r] = Done(r, o)]
    /\ UNCHANGED <<aside, venue, coins>>

\* Cancelled at the venue, whatever it had filled; an entry's signal is
\* armed again.
RecCancelled(r, o) ==
    /\ Ready(r, o)
    /\ venue[o].state = "cancelled"
    /\ rec' = [rec EXCEPT ![r] =
                  [Done(r, o) EXCEPT !.status = [@ EXCEPT ![o] = "CANCELLED"],
                      !.rearm = IF /\ row[o].sig # NoSignal
                                   /\ signal[row[o].sig] = "TRIGGERED"
                                THEN @ \cup {row[o].sig} ELSE @]]
    /\ UNCHANGED <<aside, venue, coins>>

\* Mutant: a database without the constraint.
NoUniqueConstraint(r) == FALSE

\* UNIQUE (position_id): one final Trade for a position.
UniqueViolated(r) == \E p \in Positions : rec[r].final[p] > 0
                                            /\ trades[p] + rec[r].final[p] > 1

\* The stops a query finds for position p: committed rows, by qty_ordered.
ProtectedQty(p) == SumOver([o \in Orders |-> venue[o].amount],
                           {o \in ActiveStops : row[o].p = p})

\* Mutant: the order's id at the venue is not written.
SellRowWithoutId(kind, p) == [NoRow EXCEPT !.kind = "orphan", !.status = "SUBMITTED", !.p = p]

SellRow(kind, p) == [NoRow EXCEPT !.kind = kind, !.status = "SUBMITTED", !.p = p]

\* Mutant: a confirmed buy is left without a stop.
Unprotected(r, l, o, p) == rec' = [rec EXCEPT ![r] = l] /\ UNCHANGED venue

\* Every confirmed buy gets a stop for what is not protected yet.  If the venue
\* refuses it, the rest of the entry is cancelled and all of it sold.
Protect(r, l, o, p) ==
    LET delta == Excess(SeenQty(l, p), ProtectedQty(p))
        new   == NextOrder
    IN  \/ /\ delta = 0
           /\ rec' = [rec EXCEPT ![r] = l]
           /\ UNCHANGED venue
        \/ /\ delta \in Nat \ {0} /\ FreeOrders # {}
           /\ venue' = Placed(venue, new, "sell", delta, "open")
           /\ rec' = [rec EXCEPT ![r] = [l EXCEPT !.add = [@ EXCEPT ![new] = SellRow("stop", p)]]]
        \/ /\ delta \in Nat \ {0} /\ FreeOrders # {}
           /\ Hazards \cap {"reject", "offline"} # {}
           /\ \E cancelled \in BOOLEAN, state \in {"open", "sim", "none"} :
                 LET v == IF cancelled /\ venue[o].state = "open"
                          THEN [venue EXCEPT ![o] = [@ EXCEPT !.state = "cancelled"]] ELSE venue
                 IN  /\ state = "sim" => "offline" \in Hazards /\ ~cancelled
                     /\ state = "none" => "reject" \in Hazards
                     /\ venue' = IF state = "none" THEN v
                                 ELSE Placed(v, new, "sell", SeenQty(l, p), state)
                     /\ rec' = [rec EXCEPT ![r] = IF state = "none" THEN l
                                    ELSE [l EXCEPT !.add = [@ EXCEPT ![new] = SellRow("market", p)]]]

\* An entry's fill and a position for the ticker: its qty is the order's.
RecEntryHeld(r, o) ==
    /\ Ready(r, o) /\ Fills(o) /\ row[o].kind = "entry"
    /\ \E p \in OpenSeen(r) : Protect(r, WithQty(Filled(r, o), p, venue[o].filled), o, p)
    /\ UNCHANGED <<aside, coins>>

\* An entry's fill and none: a position is created and flushed.
Creates(r, o) == Ready(r, o) /\ Fills(o) /\ row[o].kind = "entry" /\ OpenSeen(r) = {}

RecEntryNew(r, o) ==
    /\ Creates(r, o) /\ ~UniqueViolated(r) /\ FreePositions # {}
    /\ LET p == NextPosition
           l == [Filled(r, o) EXCEPT !.made = [@ EXCEPT ![p] = row[o].sig],
                       !.held = @ \cup {p}, !.qty = [@ EXCEPT ![p] = venue[o].filled]]
       IN  Protect(r, l, o, p)
    /\ UNCHANGED <<aside, coins>>

\* An add-on adds what was filled since the last pass.
Added(r, o) == Excess(venue[o].filled, rec[r].prev[o])

RecAdd(r, o) ==
    LET p == row[o].p
        l == Filled(r, o)
    IN  /\ Ready(r, o) /\ Fills(o) /\ row[o].kind = "add"
        /\ p \in OpenSeen(r)
        /\ Protect(r, WithQty(l, p, SeenQty(l, p) + Added(r, o)), o, p)
        /\ UNCHANGED <<aside, coins>>

\* Nothing is OPEN any more for the add-on or the sell: only the order's row
\* is written.
RecGone(r, o) ==
    /\ Ready(r, o) /\ Fills(o)
    /\ \/ row[o].kind = "add" /\ row[o].p \notin OpenSeen(r)
       \/ row[o].kind \in {"market", "stop"} /\ OpenSeen(r) = {}
    /\ rec' = [rec EXCEPT ![r] = Filled(r, o)]
    /\ UNCHANGED <<aside, venue, coins>>

\* Mutant: a sell closes all of the position.
ClosedAll(r, o, p) == SeenQty(rec[r], p)

\* A sell books what it has filled so far, up to the position's qty.
Closed(r, o, p) == Least(venue[o].filled, SeenQty(rec[r], p))

\* Mutant: the sell's row is written and the position is not.
SoldRowOnly(r, o, p) == Filled(r, o)

\* It closes the position or reduces it.  Only the last Trade row has the
\* position_id.
Sold(r, o, p) ==
    LET l == [Filled(r, o) EXCEPT !.book = [@ EXCEPT ![p] = rec[r].book[p] + Closed(r, o, p)]]
    IN  IF Closed(r, o, p) = SeenQty(l, p)
        THEN [l EXCEPT !.final = [@ EXCEPT ![p] = l.final[p] + 1], !.held = @ \cup {p},
                          !.qty = [@ EXCEPT ![p] = SeenQty(l, p)]]
        ELSE WithQty(l, p, SeenQty(l, p) - Closed(r, o, p))

RecSell(r, o) ==
    /\ Ready(r, o) /\ Fills(o) /\ row[o].kind \in {"market", "stop"}
    /\ \E p \in OpenSeen(r) :
          /\ row[o].p \in OpenSeen(r) => p = row[o].p
          /\ rec' = [rec EXCEPT ![r] = Sold(r, o, p)]
    /\ UNCHANGED <<aside, venue, coins>>

\* Mutant: the commit writes back every column of a loaded position.
WrittenBack(l, p) ==
    [status |-> IF l.final[p] > 0 THEN "CLOSED"
                ELSE IF p \in l.held THEN "OPEN" ELSE pos[p].status,
     sig   |-> IF l.made[p] # NoSignal THEN l.made[p] ELSE pos[p].sig,
     qty   |-> IF p \in l.held THEN l.qty[p] ELSE pos[p].qty,
     paper |-> pos[p].paper]

Written(l, p) ==
    [status |-> IF l.final[p] > 0 THEN "CLOSED"
                ELSE IF l.made[p] # NoSignal THEN "OPEN" ELSE pos[p].status,
     sig   |-> IF l.made[p] # NoSignal THEN l.made[p] ELSE pos[p].sig,
     qty   |-> IF p \in l.dirty \/ l.made[p] # NoSignal THEN l.qty[p] ELSE pos[p].qty,
     paper |-> pos[p].paper]

RecCommit(r) ==
    LET l == rec[r]
    IN  /\ l.pc = "loop" /\ l.todo = {}
        /\ ~UniqueViolated(r)
        /\ row' = [o \in Orders |->
                     IF l.add[o] # NoRow THEN l.add[o]
                     ELSE CASE l.status[o] = "keep" -> row[o]
                            [] l.status[o] = "CANCELLED" -> [row[o] EXCEPT !.status = "CANCELLED"]
                            [] OTHER -> [row[o] EXCEPT !.status = l.status[o], !.filled = l.filled[o]]]
        /\ signal' = [s \in Signals |-> IF s \in l.rearm THEN "PENDING" ELSE signal[s]]
        /\ pos'    = [p \in Positions |-> Written(l, p)]
        /\ trades' = [p \in Positions |-> trades[p] + l.final[p]]
        /\ booked' = [p \in Positions |-> booked[p] + l.book[p]]
        /\ rec'    = [rec EXCEPT ![r] = IdlePass]
        /\ UNCHANGED <<venue, coins, prog>>

\* The commit or a flush fails, or the worker dies: nothing is written, and
\* what was submitted at the venue stays there.
RecRollback(r) ==
    /\ rec[r].pc = "loop"
    /\ \/ "crash" \in Hazards
       \/ UniqueViolated(r) /\ (rec[r].todo = {} \/ \E o \in Orders : Creates(r, o))
    /\ rec' = [rec EXCEPT ![r] = IdlePass]
    /\ UNCHANGED <<aside, venue, coins>>

-----------------------------------------------------------------------------
VenueStep == \E o \in Orders : VenueFill(o) \/ VenueCancel(o)

ProgramStep ==
    \/ ChatStart \/ EntryStart \/ EntrySelfHeal \/ AddStart \/ RulesStart
    \/ StopsStart \/ StopsCheck \/ ManualPaper \/ ManualStart \/ AmendStart
    \/ \E x \in Programs : CancelStop(x) \/ Submit(x) \/ SubmitRejected(x)
                            \/ RecordSimulatedEntry(x) \/ ProgramCrash(x)
    \/ AmendRejected
    \/ RecordEntry \/ RecordOrphan \/ RecordAdd \/ RecordRules \/ RulesClose
    \/ RecordStops \/ RecordExit("manual", "market") \/ RecordExit("amend", "stop")
    \/ \E o \in Orders : OrphanExpires(o)

RecStep(r) ==
    \/ RecStart(r)
    \/ \E o \in Orders : \/ RecNothing(r, o) \/ RecCancelled(r, o)
                         \/ RecEntryHeld(r, o) \/ RecEntryNew(r, o)
                         \/ RecAdd(r, o) \/ RecGone(r, o) \/ RecSell(r, o)
    \/ RecCommit(r)
    \/ RecRollback(r)

Next ==
    \/ VenueStep
    \/ ProgramStep
    \/ \E r \in Passes : RecStep(r)

Spec == Init /\ [][Next]_vars

\* Beat starts a pass every minute, and a pass that started goes on.
FairSpec == Spec /\ \A r \in Passes : WF_vars(RecStep(r))

-----------------------------------------------------------------------------
(* Properties *)

NullableSignal   == Signals \cup {NoSignal}
NullablePosition == Positions \cup {NoPosition}

RowType      == [kind : {"none", "entry", "orphan", "add", "market", "stop"},
                 status : {"none", "SUBMITTED", "PARTIAL", "FILLED", "CANCELLED"},
                 sig : NullableSignal, p : NullablePosition, filled : Nat]
PositionType == [status : {"none", "OPEN", "CLOSED"}, sig : NullableSignal,
                 qty : Nat, paper : BOOLEAN]
VenueType    == [state : {"none", "open", "filled", "cancelled", "sim"},
                 side : {"buy", "sell"}, amount : Nat, filled : Nat]
ProgramType  == [pc : {"idle", "check", "call", "record"}, sig : NullableSignal,
                 p : NullablePosition, qty : Nat, full : BOOLEAN,
                 cancel : SUBSET Orders, stops : SUBSET Orders,
                 ord : Orders \cup {NoOrder}]
PassType     == [pc : {"idle", "loop"}, todo : SUBSET Orders,
                 prev : [Orders -> Nat],
                 status : [Orders -> {"keep", "PARTIAL", "FILLED", "CANCELLED"}],
                 filled : [Orders -> Nat], add : [Orders -> RowType],
                 held : SUBSET Positions, qty : [Positions -> Nat],
                 dirty : SUBSET Positions, made : [Positions -> NullableSignal],
                 final : [Positions -> Nat], book : [Positions -> Nat],
                 rearm : SUBSET Signals]

\* Every variable stays within the values its column or its program can hold.
TypeOK ==
    /\ signal \in [Signals -> {"PENDING", "TRIGGERED", "SKIPPED"}]
    /\ row \in [Orders -> RowType]
    /\ pos \in [Positions -> PositionType]
    /\ trades \in [Positions -> Nat]
    /\ booked \in [Positions -> Nat]
    /\ venue \in [Orders -> VenueType]
    /\ coins \in Int
    /\ prog \in [Programs -> ProgramType]
    /\ rec \in [Passes -> PassType]

\* Whoever closes it, a CLOSED position has one final Trade row and any other
\* none.
OneFinalTrade ==
    \A p \in Positions : trades[p] = IF pos[p].status = "CLOSED" THEN 1 ELSE 0

\* The tables keep the promise of PositionLedger, under every hazard.
Ledger == INSTANCE PositionLedger
             WITH status <- [p \in Positions |-> pos[p].status], booked <- trades

LedgerSpec == Ledger!Spec

\* The programs never sell coins they did not buy: the rest of the account is
\* not theirs.
SellsOnlyWhatItBought == coins >= 0

Total(side) == SumOver([o \in Orders |-> venue[o].filled],
                       {o \in Orders : venue[o].side = side})

\* What the trades of live positions say was sold never exceeds what the venue
\* has sold: a position is reduced and closed only by fills.
ReducedOnlyByFills ==
    SumOver(booked, {p \in Positions : ~pos[p].paper}) <= Total("sell")

\* Once every order is done at the venue and in the tables, and nothing runs,
\* the live positions hold exactly the coins that were bought and not sold.
Quiet ==
    /\ \A o \in Orders : venue[o].state # "open" /\ row[o].status \notin Active
    /\ \A x \in Programs : prog[x].pc = "idle"
    /\ \A r \in Passes : rec[r].pc = "idle"

PositionsMatchVenue ==
    Quiet => coins = SumOver([p \in Positions |-> pos[p].qty],
                             {p \in OpenPositions : ~pos[p].paper})

\* The active stops of a position never cover more than it holds: together
\* they cannot sell other coins.
NeverOverProtected ==
    \A p \in OpenPositions : ProtectedQty(p) <= pos[p].qty

\* When a pass commits a position it made or changed, the position is covered
\* by stops, or a sell for it is on its way, or its stops are being exchanged.
ProtectedByCommit ==
    [][\A r \in Passes : RecCommit(r) =>
         \A p \in Made(r) \cup rec[r].dirty :
            pos'[p].status = "OPEN" =>
               \/ ProtectedQty(p)' >= pos'[p].qty
               \/ \E o \in Orders : row'[o].kind = "market" /\ row'[o].status \in Active
               \/ \E x \in Programs \cap {"manual", "amend"} :
                     prog[x].p = p /\ prog[x].pc # "idle"]_vars

\* Every order at the venue has a row, once the program that sent it is done.
EverySellTracked ==
    \A o \in Orders :
       venue[o].state \in {"open", "filled"} =>
          \/ row[o].kind \notin {"none", "orphan"}
          \/ \E x \in Programs : prog[x].ord = o
          \/ \E r \in Passes : rec[r].add[o] # NoRow

\* A fill is booked in the end: the row of an order the venue has filled does
\* not stay active, unless a bound of the instance is reached.
BoundReached == FreeOrders = {} \/ FreePositions = {}

FillsAreBooked ==
    \A o \in Orders :
       (row[o].status \in Active /\ row[o].kind # "orphan" /\ venue[o].state = "filled")
          ~> (row[o].status \notin Active \/ BoundReached)
=============================================================================
