---------------------------- MODULE EquityExits ----------------------------
(***************************************************************************)
(* One live equity position on its way out: the bracket working at the     *)
(* broker, the market sells that the exit rules, the stop task and a       *)
(* person submit beside it, the SELL rows that remember them, the stop in  *)
(* the table, and the order sync that turns executions into a closed row.  *)
(* Prices and stops are levels in ticks; one position of ExitsLot shares.  *)
(***************************************************************************)
EXTENDS Integers, FiniteSets, FiniteSetsExt

CONSTANTS ExitsLot,       \* shares held when the position opens
          ExitsTop,       \* prices and stops are levels 1..ExitsTop
          ExitsSettings,  \* who is at work and what may go wrong: Init picks one
          ExitsRetries    \* bound: market sells of the stop task; others submit one

ExitsPrograms == {"rules", "stops", "manual", "amend", "command", "web"}
\* offline: no gateway.  expire: a DAY order ends unfilled.  blind: a failed
\* read of open orders is an empty list.  foreign: another client's orders
\* cannot be cancelled.  partial: rules that sell a part.  reject: the gateway
\* refuses a market sell, after the working orders have been cancelled for it.
ExitsFaults == {"offline", "expire", "blind", "foreign", "partial", "reject"}

Levels == 1..ExitsTop
Sells == {m \in {"rules", "stops", "manual"} \X (1..ExitsRetries) : m[1] # "stops" => m[2] = 1}

ASSUME ExitsAssumption ==
    /\ ExitsLot \in Nat \ {0}
    /\ ExitsTop \in Nat \ {0}
    /\ ExitsSettings \subseteq [programs : SUBSET ExitsPrograms, faults : SUBSET ExitsFaults]
    /\ ExitsRetries \in Nat \ {0}

VARIABLES
    setting,  \* the programs and faults of this behaviour, fixed
    price,    \* what a quote answers
    pos,      \* the Position row
    held,     \* shares the account holds; negative is a short
    bracket,  \* the OCA pair left of the entry's bracket: its stop, its state
    sells,    \* the market sells the broker knows
    rows,     \* the SELL Order rows
    runs      \* local state of each program between two calls

exitsVars == <<setting, price, pos, held, bracket, sells, rows, runs>>

PositionStatus == {"OPEN", "CLOSED", "DELETED"}
NoSell == [state |-> "none", qty |-> 0, sold |-> 0]
Program(p) == p \in setting.programs
Fault(f) == f \in setting.faults
Idle == [pc |-> "idle", stop |-> 1, qty |-> 0, sell |-> 1]

ExitsTypeOK ==
    /\ setting \in ExitsSettings
    /\ price \in Levels
    /\ pos \in [status : PositionStatus, stop : Levels, trades : Nat]
    /\ held \in Int
    /\ bracket \in [state : {"working", "filled", "cancelled"}, stop : Levels]
    /\ sells \in [Sells -> [state : {"none", "working", "done", "cancelled"},
                            qty : Nat, sold : Nat]]
    /\ rows \in [Sells -> {"none", "SUBMITTED", "FILLED", "CANCELLED"}]
    /\ runs \in [ExitsPrograms -> [pc : {"idle", "look", "sell", "sent", "raise", "write"},
                                   stop : Levels, qty : Nat, sell : 1..ExitsRetries]]

\* The entry has filled; its stop is at the lowest level.
ExitsInit ==
    /\ setting \in ExitsSettings
    /\ price \in Levels
    /\ pos = [status |-> "OPEN", stop |-> 1, trades |-> 0]
    /\ held = ExitsLot
    /\ bracket = [state |-> "working", stop |-> 1]
    /\ sells = [m \in Sells |-> NoSell]
    /\ rows = [m \in Sells |-> "none"]
    /\ runs = [p \in ExitsPrograms |-> Idle]

-----------------------------------------------------------------------------
(* The market and the broker.                                              *)

PriceMoves ==
    /\ price' \in Levels \ {price}
    /\ UNCHANGED <<setting, pos, held, bracket, sells, rows, runs>>

\* A child of the bracket executes; its OCA partner is cancelled with it.
BracketFills ==
    /\ bracket.state = "working"
    /\ price <= bracket.stop \/ price = ExitsTop
    /\ bracket' = [bracket EXCEPT !.state = "filled"]
    /\ held' = held - ExitsLot
    /\ UNCHANGED <<setting, price, pos, sells, rows, runs>>

SellFills(m) ==
    /\ sells[m].state = "working"
    /\ sells' = [sells EXCEPT ![m].state = "done", ![m].sold = sells[m].qty]
    /\ held' = held - sells[m].qty
    /\ UNCHANGED <<setting, price, pos, bracket, rows, runs>>

\* Bound: the last market sell a program has left does not fail.
Unused(p) == {m \in Sells : m[1] = p /\ sells[m].state = "none"}

\* Market sells are DAY orders: one that the venue did not fill is gone.
SellExpires(m) ==
    /\ Fault("expire") /\ Unused(m[1]) # {}
    /\ sells[m].state = "working"
    /\ sells' = [sells EXCEPT ![m].state = "done"]
    /\ UNCHANGED <<setting, price, pos, held, bracket, rows, runs>>

-----------------------------------------------------------------------------
(* The broker calls and table reads the programs share.                    *)

At(p, pc) == Program(p) /\ runs[p].pc = pc
Goto(p, pc) == runs' = [runs EXCEPT ![p].pc = pc]
WorkingSell == \E m \in Sells : sells[m].state = "working"
ActiveRow == \E m \in Sells : rows[m] = "SUBMITTED"

\* submit_market_sell: cancel what works on the symbol, as far as this client
\* may, then place the sell; the gateway can refuse it after the cancels.
MarketSell(p) ==
    \E m \in Unused(p), mine \in BOOLEAN, ok \in BOOLEAN :
        /\ \A n \in Unused(p) : m[2] <= n[2]
        /\ mine \/ Fault("foreign")
        /\ ok \/ (Fault("reject") /\ Unused(p) # {m})
        /\ bracket' = IF mine /\ bracket.state = "working"
                        THEN [bracket EXCEPT !.state = "cancelled"] ELSE bracket
        /\ sells' = [n \in Sells |->
              IF n = m THEN [state |-> IF ok THEN "working" ELSE "done",
                             qty |-> runs[p].qty, sold |-> 0]
              ELSE IF mine /\ sells[n].state = "working"
                   THEN [sells[n] EXCEPT !.state = "cancelled"] ELSE sells[n]]
        /\ runs' = [runs EXCEPT ![p].pc = IF ok THEN "sent" ELSE "idle", ![p].sell = m[2]]
        /\ UNCHANGED <<setting, price, pos, held, rows>>

\* The SELL row of the sell that program p has just sent.
AddRow(p) == rows' = [rows EXCEPT ![<<p, runs[p].sell>>] = "SUBMITTED"]

\* Mutant: the broker's stop is set without a look at the one that works.
SetBrokerStop(p) ==
    /\ At(p, "raise") /\ bracket.state = "working"
    /\ bracket' = [bracket EXCEPT !.stop = runs[p].stop]
    /\ Goto(p, "write")
    /\ UNCHANGED <<setting, price, pos, held, sells, rows>>

\* modify_stop_order: raise the working stop, or find it tight enough.
RaiseBrokerStop(p) ==
    /\ At(p, "raise") /\ bracket.state = "working"
    /\ bracket' = [bracket EXCEPT !.stop = Max({bracket.stop, runs[p].stop})]
    /\ Goto(p, "write")
    /\ UNCHANGED <<setting, price, pos, held, sells, rows>>

\* The amended stop reaches the row if the position is still open.
WriteStop(p) ==
    /\ At(p, "write")
    /\ pos' = IF pos.status = "OPEN" THEN [pos EXCEPT !.stop = runs[p].stop] ELSE pos
    /\ Goto(p, "idle")
    /\ UNCHANGED <<setting, price, held, bracket, sells, rows>>

\* No gateway, or no working stop to modify: the call ends with an audit row.
GivesUp(p) ==
    /\ \/ At(p, "raise") /\ (bracket.state # "working" \/ Fault("offline"))
       \/ (At(p, "sell") \/ At(p, "look")) /\ Fault("offline")
    /\ Goto(p, "idle")
    /\ UNCHANGED <<setting, price, pos, held, bracket, sells, rows>>

-----------------------------------------------------------------------------
(* check_exit_rules_task: while the price is above the stop of the row it  *)
(* listed, a rule may fire.  It looks for a SELL row after it has sold.    *)

RulesFire ==
    /\ At("rules", "idle") /\ Unused("rules") # {}
    /\ pos.status = "OPEN" /\ price > pos.stop
    /\ \E q \in IF Fault("partial")
                  THEN {ExitsLot, Max({1, ExitsLot \div 2})} ELSE {ExitsLot} :
          runs' = [runs EXCEPT !["rules"].pc = "sell", !["rules"].qty = q]
    /\ UNCHANGED <<setting, price, pos, held, bracket, sells, rows>>

RulesSell == At("rules", "sell") /\ MarketSell("rules")

RulesRecord ==
    /\ At("rules", "sent")
    /\ IF ActiveRow THEN UNCHANGED rows ELSE AddRow("rules")
    /\ Goto("rules", "idle")
    /\ UNCHANGED <<setting, price, pos, held, bracket, sells>>

-----------------------------------------------------------------------------
(* sync_stop_orders, one run at a time under its organisation lock: trail  *)
(* the stop above the price's gain, or sell what went through it.          *)

StopsRead ==
    /\ At("stops", "idle") /\ pos.status = "OPEN"
    /\ \/ \E c \in Levels :
             /\ pos.stop < c /\ c < price
             /\ runs' = [runs EXCEPT !["stops"].pc = "raise", !["stops"].stop = c]
       \/ /\ price <= pos.stop
          /\ runs' = [runs EXCEPT !["stops"].pc = "look", !["stops"].qty = ExitsLot]
    /\ UNCHANGED <<setting, price, pos, held, bracket, sells, rows>>

\* Mutant: a SELL row that is still SUBMITTED counts as an order at work.
StopsTrustRows ==
    /\ At("stops", "look")
    /\ Goto("stops", IF bracket.state = "working" \/ ActiveRow THEN "idle" ELSE "sell")
    /\ UNCHANGED <<setting, price, pos, held, bracket, sells, rows>>

\* Any SELL the broker lists makes it alert only; a failed read lists none.
StopsLook ==
    /\ At("stops", "look")
    /\ \E live \in BOOLEAN :
          /\ live = (bracket.state = "working" \/ WorkingSell) \/ (~live /\ Fault("blind"))
          /\ Goto("stops", IF live THEN "idle" ELSE "sell")
    /\ UNCHANGED <<setting, price, pos, held, bracket, sells, rows>>

StopsSell == At("stops", "sell") /\ MarketSell("stops")

StopsRecord ==
    /\ At("stops", "sent")
    /\ AddRow("stops")
    /\ Goto("stops", "idle")
    /\ UNCHANGED <<setting, price, pos, held, bracket, sells>>

-----------------------------------------------------------------------------
(* request_position_exit, from the dashboard's close form.                 *)

ManualAsk ==
    /\ At("manual", "idle") /\ Unused("manual") # {}
    /\ pos.status = "OPEN" /\ ~ActiveRow
    /\ runs' = [runs EXCEPT !["manual"].pc = "sell", !["manual"].qty = ExitsLot]
    /\ UNCHANGED <<setting, price, pos, held, bracket, sells, rows>>

ManualSell == At("manual", "sell") /\ MarketSell("manual")

ManualRecord ==
    /\ At("manual", "sent")
    /\ IF pos.status = "OPEN" THEN AddRow("manual") ELSE UNCHANGED rows
    /\ Goto("manual", "idle")
    /\ UNCHANGED <<setting, price, pos, held, bracket, sells>>

-----------------------------------------------------------------------------
(* request_stop_update and the chat's EXIT.                                *)

AmendAsk ==
    /\ At("amend", "idle") /\ pos.status = "OPEN"
    /\ \E c \in Levels :
          /\ pos.stop < c /\ c < price
          /\ runs' = [runs EXCEPT !["amend"].pc = "raise", !["amend"].stop = c]
    /\ UNCHANGED <<setting, price, pos, held, bracket, sells, rows>>

\* EXIT moves the stop of the row to the price and asks nobody to sell.
ExitCommand ==
    /\ Program("command") /\ pos.status = "OPEN"
    /\ pos' = [pos EXCEPT !.stop = price]
    /\ UNCHANGED <<setting, price, held, bracket, sells, rows, runs>>

-----------------------------------------------------------------------------
(* The dashboard's order buttons.                                          *)

\* cancel_order finds the order among the broker's open ones.
BrokerCancel(m) ==
    /\ sells[m].state = "working"
    /\ sells' = [sells EXCEPT ![m].state = "cancelled"]

\* cancel_all_orders: one call for every order of the account.
GlobalCancel ==
    /\ bracket.state = "working" \/ WorkingSell
    /\ bracket' = IF bracket.state = "working"
                    THEN [bracket EXCEPT !.state = "cancelled"] ELSE bracket
    /\ sells' = [m \in Sells |-> IF sells[m].state = "working"
                    THEN [sells[m] EXCEPT !.state = "cancelled"] ELSE sells[m]]

\* cancel_open_order: a row of that order which is still SUBMITTED is
\* cancelled, and the open position of its ticker is deleted with it.
CancelOpenOrder(m) ==
    /\ Program("web") /\ BrokerCancel(m)
    /\ rows' = IF rows[m] = "SUBMITTED" THEN [rows EXCEPT ![m] = "CANCELLED"] ELSE rows
    /\ pos' = IF rows[m] = "SUBMITTED" /\ pos.status = "OPEN"
                THEN [pos EXCEPT !.status = "DELETED"] ELSE pos
    /\ UNCHANGED <<setting, price, held, bracket, runs>>

\* cancel_all_open_orders touches no table.
CancelAllOpenOrders ==
    /\ Program("web") /\ GlobalCancel
    /\ UNCHANGED <<setting, price, pos, held, rows, runs>>

\* A superadmin deletes the row, whatever the account holds.
PurgePosition ==
    /\ Program("web") /\ pos.status # "DELETED"
    /\ pos' = [pos EXCEPT !.status = "DELETED"]
    /\ UNCHANGED <<setting, price, held, bracket, sells, rows, runs>>

-----------------------------------------------------------------------------
(* sync_order_status, pass B: any execution of a sell closes the row; the  *)
(* bracket's come first, then the stop task's, then one exit's.            *)

Executed(who) == {m \in Sells : m[1] \in who /\ sells[m].sold > 0}

\* Mutant: a SELL row is taken for its fill.
SyncAcknowledged ==
    /\ pos.status = "OPEN" /\ ActiveRow
    /\ rows' = [m \in Sells |-> IF rows[m] = "SUBMITTED" THEN "FILLED" ELSE rows[m]]
    /\ pos' = [pos EXCEPT !.status = "CLOSED", !.trades = pos.trades + 1]
    /\ UNCHANGED <<setting, price, held, bracket, sells, runs>>

SyncSells ==
    /\ pos.status = "OPEN"
    /\ \/ bracket.state = "filled" /\ UNCHANGED rows
       \/ /\ bracket.state # "filled"
          /\ \E m \in IF Executed({"stops"}) # {} THEN Executed({"stops"})
                       ELSE Executed({"rules", "manual"}) :
                rows' = IF rows[m] # "none" THEN [rows EXCEPT ![m] = "FILLED"] ELSE rows
    /\ pos' = [pos EXCEPT !.status = "CLOSED", !.trades = pos.trades + 1]
    /\ UNCHANGED <<setting, price, held, bracket, sells, runs>>

-----------------------------------------------------------------------------
ExitsNext ==
    \/ PriceMoves \/ BracketFills
    \/ \E m \in Sells : SellFills(m) \/ SellExpires(m) \/ CancelOpenOrder(m)
    \/ RulesFire \/ RulesSell \/ RulesRecord
    \/ StopsRead \/ StopsLook \/ StopsSell \/ StopsRecord
    \/ ManualAsk \/ ManualSell \/ ManualRecord
    \/ AmendAsk \/ ExitCommand
    \/ \E p \in {"stops", "amend"} : RaiseBrokerStop(p) \/ WriteStop(p)
    \/ \E p \in ExitsPrograms : GivesUp(p)
    \/ CancelAllOpenOrders \/ PurgePosition
    \/ SyncSells

ExitsSpec == ExitsInit /\ [][ExitsNext]_exitsVars

\* The beat runs the stop task and the order sync for ever, the market fills
\* what it can, and the gateway is back often enough to be asked.
ExitsFairness ==
    /\ WF_exitsVars(BracketFills) /\ WF_exitsVars(SyncSells)
    /\ \A m \in Sells : WF_exitsVars(SellFills(m))
    /\ WF_exitsVars(StopsRead) /\ WF_exitsVars(StopsRecord)
    /\ SF_exitsVars(StopsLook) /\ SF_exitsVars(StopsSell)
    /\ WF_exitsVars(RaiseBrokerStop("stops") \/ GivesUp("stops"))
    /\ WF_exitsVars(WriteStop("stops"))

ExitsFairSpec == ExitsSpec /\ ExitsFairness

-----------------------------------------------------------------------------
(* Properties.                                                             *)

\* While the bracket's stop works, it is at least as tight as the stop the
\* table shows: request_stop_update and the trailing branch modify the broker
\* first, and two that race never leave the row ahead of the broker.
TableStopIsWorking ==
    ~Program("command") /\ pos.status = "OPEN" /\ bracket.state = "working" => pos.stop <= bracket.stop

\* A row is closed only when the account no longer holds the shares it stands
\* for, with one Trade: no acknowledgement, rejection or expiry is a fill.
ClosedMeansSoldOut ==
    ~Fault("partial") /\ pos.status = "CLOSED" => held <= 0 /\ pos.trades = 1

\* A price that stays at or under the stop gets the shares sold and the row
\* closed, whatever was cancelled, refused or expired on the way.
BreachIsSold ==
    ~Program("web") /\ ~Program("command") /\ <>[](price <= pos.stop) => <>(held <= 0 /\ pos.status # "OPEN")

\* The account never ends up short: the stop task and the exits do not sell
\* what another order has sold.
NeverShort == held >= 0
=============================================================================
