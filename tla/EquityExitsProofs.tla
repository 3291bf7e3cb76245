------------------------- MODULE EquityExitsProofs -------------------------
(***************************************************************************)
(* What holds of one position on its way out for any number of shares,     *)
(* price levels and retries, and in every setting.                         *)
(***************************************************************************)
EXTENDS EquityExits, TLAPS

PositionRow == [status : PositionStatus, stop : Levels, trades : Nat]
BracketState == [state : {"working", "filled", "cancelled"}, stop : Levels]
SellState == [state : {"none", "working", "done", "cancelled"}, qty : Nat, sold : Nat]
RowStatus == {"none", "SUBMITTED", "FILLED", "CANCELLED"}
RunState == [pc : {"idle", "look", "sell", "sent", "raise", "write"},
             stop : Levels, qty : Nat, sell : 1..ExitsRetries]

\* The state, variable by variable.
Typed ==
    /\ setting \in ExitsSettings /\ price \in Levels
    /\ pos \in PositionRow /\ held \in Int /\ bracket \in BracketState
    /\ sells \in [Sells -> SellState] /\ rows \in [Sells -> RowStatus]
    /\ runs \in [ExitsPrograms -> RunState]

LEMMA TypedIsTypeOK == Typed <=> ExitsTypeOK
BY DEF Typed, ExitsTypeOK, PositionRow, BracketState, SellState, RowStatus, RunState

LEMMA LevelsAreNumbers == Levels \subseteq Int /\ 1 \in Levels /\ 1 \in 1..ExitsRetries
BY ExitsAssumption DEF Levels

LEMMA MaxOfTwo ==
    ASSUME NEW a \in Levels, NEW b \in Levels
    PROVE  Max({a, b}) \in {a, b} /\ Max({a, b}) >= a /\ Max({a, b}) >= b
<1>1. \E x \in {a, b} : \A y \in {a, b} : x >= y
  BY LevelsAreNumbers
<1> QED
  BY <1>1 DEF Max

\* A program's local state after it has moved on.
LEMMA GotoTyped ==
    ASSUME Typed, NEW p \in ExitsPrograms,
           NEW pc \in {"idle", "look", "sell", "sent", "raise", "write"}, Goto(p, pc)
    PROVE  /\ runs' \in [ExitsPrograms -> RunState]
           /\ runs'[p] = [runs[p] EXCEPT !.pc = pc]
           /\ \A q \in ExitsPrograms \ {p} : runs'[q] = runs[q]
<1>1. [runs[p] EXCEPT !.pc = pc] \in RunState
  BY DEF Typed, RunState
<1> QED
  BY <1>1 DEF Typed, Goto

\* What a market sell leaves: one order more, and less that works.
LEMMA MarketSellTyped ==
    ASSUME Typed, NEW p \in {"rules", "stops", "manual"}, MarketSell(p)
    PROVE  /\ Typed'
           /\ runs'[p].pc \in {"sent", "idle"}
           /\ \A q \in ExitsPrograms \ {p} : runs'[q] = runs[q]
           /\ \A n \in Sells : \/ sells'[n].sold = 0 /\ sells'[n].qty = runs[p].qty
                               \/ sells'[n].sold = sells[n].sold /\ sells'[n].qty = sells[n].qty
                                  /\ (sells'[n].state = "none" <=> sells[n].state = "none")
           /\ bracket'.stop = bracket.stop
           /\ bracket'.state # bracket.state => bracket'.state = "cancelled"
<1>1. PICK m \in Unused(p), mine \in BOOLEAN, ok \in BOOLEAN :
        /\ \A n \in Unused(p) : m[2] <= n[2]
        /\ mine \/ Fault("foreign")
        /\ ok \/ (Fault("reject") /\ Unused(p) # {m})
        /\ bracket' = IF mine /\ bracket.state = "working"
                        THEN [bracket EXCEPT !.state = "cancelled"] ELSE bracket
        /\ sells' = [n \in Sells |->
              IF n = m THEN [state |-> IF ok THEN "working" ELSE "done",
                             qty |-> runs[p].qty, sold |-> 0]
              ELSE IF mine /\ sells[n].state = "working"
                   THEN [sells[n] EXCEPT !.state = "cancelled"] ELSE sells[n]]
        /\ runs' = [runs EXCEPT ![p].pc = IF ok THEN "sent" ELSE "idle", ![p].sell = m[2]]
        /\ UNCHANGED <<setting, price, pos, held, rows>>
  BY DEF MarketSell
<1>2. p \in ExitsPrograms /\ runs[p] \in RunState /\ m \in Sells /\ m[2] \in 1..ExitsRetries
  BY <1>1 DEF Typed, ExitsPrograms, Unused, Sells
<1>3. bracket' \in BracketState /\ bracket'.stop = bracket.stop
      /\ (bracket'.state # bracket.state => bracket'.state = "cancelled")
  BY <1>1 DEF Typed, BracketState
<1>4. \A n \in Sells : /\ sells'[n] \in SellState
                       /\ \/ sells'[n].sold = 0 /\ sells'[n].qty = runs[p].qty
                          \/ sells'[n].sold = sells[n].sold /\ sells'[n].qty = sells[n].qty
                             /\ (sells'[n].state = "none" <=> sells[n].state = "none")
  <2> SUFFICES ASSUME NEW n \in Sells
               PROVE  /\ sells'[n] \in SellState
                      /\ \/ sells'[n].sold = 0 /\ sells'[n].qty = runs[p].qty
                         \/ sells'[n].sold = sells[n].sold /\ sells'[n].qty = sells[n].qty
                            /\ (sells'[n].state = "none" <=> sells[n].state = "none")
    OBVIOUS
  <2>1. sells[n] \in SellState /\ runs[p].qty \in Nat
    BY <1>2 DEF Typed, RunState
  <2> QED
    BY <1>1, <2>1 DEF SellState
<1>5. /\ runs' \in [ExitsPrograms -> RunState]
      /\ runs'[p].pc \in {"sent", "idle"}
      /\ \A q \in ExitsPrograms \ {p} : runs'[q] = runs[q]
  <2>1. runs \in [ExitsPrograms -> RunState]
    BY DEF Typed
  <2>2. [[runs[p] EXCEPT !.pc = IF ok THEN "sent" ELSE "idle"] EXCEPT !.sell = m[2]] \in RunState
    BY <1>2 DEF RunState
  <2> QED
    BY <1>1, <1>2, <2>1, <2>2 DEF RunState
<1>6. sells' \in [Sells -> SellState]
  BY <1>1, <1>4
<1> QED
  BY <1>1, <1>3, <1>4, <1>5, <1>6 DEF Typed

LEMMA ExitsInitTyped == ExitsInit => Typed
BY LevelsAreNumbers, ExitsAssumption
DEF ExitsInit, Typed, PositionRow, PositionStatus, BracketState, SellState, RowStatus, RunState, NoSell, Idle

LEMMA ExitsStepTyped == Typed /\ [ExitsNext]_exitsVars => Typed'
<1> SUFFICES ASSUME Typed, [ExitsNext]_exitsVars PROVE Typed'
  OBVIOUS
<1>a. /\ setting \in ExitsSettings /\ price \in Levels
      /\ pos \in PositionRow /\ held \in Int /\ bracket \in BracketState
      /\ sells \in [Sells -> SellState] /\ rows \in [Sells -> RowStatus]
      /\ runs \in [ExitsPrograms -> RunState]
  BY DEF Typed
<1>b. ExitsLot \in Nat \ {0}
  BY ExitsAssumption
<1>1. CASE PriceMoves
  BY <1>1, <1>a DEF PriceMoves, Typed
<1>2. CASE BracketFills
  BY <1>2, <1>a, <1>b DEF BracketFills, Typed, BracketState
<1>3. ASSUME NEW m \in Sells, SellFills(m) \/ SellExpires(m) \/ CancelOpenOrder(m)
      PROVE  Typed'
  <2>1. sells[m] \in SellState
    BY <1>a
  <2>2. /\ [[sells[m] EXCEPT !.state = "done"] EXCEPT !.sold = sells[m].qty] \in SellState
        /\ [sells[m] EXCEPT !.state = "done"] \in SellState
        /\ [sells[m] EXCEPT !.state = "cancelled"] \in SellState
        /\ sells[m].qty \in Int
    <3>1. sells[m].qty \in Nat
      BY <2>1 DEF SellState
    <3>2. [sells[m] EXCEPT !.state = "done"] \in SellState
      BY <2>1 DEF SellState
    <3>3. [[sells[m] EXCEPT !.state = "done"] EXCEPT !.sold = sells[m].qty] \in SellState
      BY <3>1, <3>2 DEF SellState
    <3>4. [sells[m] EXCEPT !.state = "cancelled"] \in SellState
      BY <2>1 DEF SellState
    <3> QED
      BY <3>1, <3>2, <3>3, <3>4
  <2>3. CASE SellFills(m)
    BY <2>2, <2>3, <1>a DEF SellFills, Typed
  <2>4. CASE SellExpires(m)
    BY <2>2, <2>4, <1>a DEF SellExpires, Typed
  <2>5. CASE CancelOpenOrder(m)
    <3>1. pos' \in PositionRow
      BY <2>5, <1>a DEF CancelOpenOrder, PositionRow, PositionStatus
    <3>2. rows' \in [Sells -> RowStatus]
      BY <2>5, <1>a DEF CancelOpenOrder, RowStatus
    <3> QED
      BY <2>2, <2>5, <3>1, <3>2, <1>a DEF CancelOpenOrder, BrokerCancel, Typed
  <2> QED
    BY <1>3, <2>3, <2>4, <2>5
<1>4. CASE RulesFire
  <2>1. PICK q \in Nat : runs' = [runs EXCEPT !["rules"].pc = "sell", !["rules"].qty = q]
    <3>1. ExitsLot \div 2 \in Nat
      BY <1>b
    <3>2. Max({1, ExitsLot \div 2}) \in Nat
      <4>1. \E x \in {1, ExitsLot \div 2} : \A y \in {1, ExitsLot \div 2} : x >= y
        BY <3>1
      <4> QED
        BY <3>1, <4>1 DEF Max
    <3> QED
      BY <1>4, <1>b, <3>2 DEF RulesFire
  <2>2. "rules" \in ExitsPrograms
    BY DEF ExitsPrograms
  <2>3. [[runs["rules"] EXCEPT !.pc = "sell"] EXCEPT !.qty = q] \in RunState
    BY <1>a, <2>2 DEF RunState
  <2>4. runs' \in [ExitsPrograms -> RunState]
    BY <1>a, <2>1, <2>2, <2>3
  <2> QED
    BY <1>4, <1>a, <2>4 DEF RulesFire, Typed
<1>5. CASE RulesSell \/ StopsSell \/ ManualSell
  BY <1>5, MarketSellTyped DEF RulesSell, StopsSell, ManualSell
<1>6. ASSUME NEW p \in {"rules", "stops", "manual"}, rows' = rows \/ AddRow(p), Goto(p, "idle"),
             UNCHANGED <<setting, price, pos, held, bracket, sells>>
      PROVE  Typed'
  <2>1. rows' \in [Sells -> RowStatus]
    BY <1>6, <1>a DEF AddRow, RowStatus
  <2>2. p \in ExitsPrograms
    BY DEF ExitsPrograms
  <2> QED
    BY <1>6, <1>a, <2>1, <2>2, GotoTyped DEF Typed
<1>7. CASE RulesRecord \/ StopsRecord \/ ManualRecord
  BY <1>6, <1>7 DEF RulesRecord, StopsRecord, ManualRecord
<1>8. CASE StopsRead \/ AmendAsk
  <2>1. "stops" \in ExitsPrograms /\ "amend" \in ExitsPrograms
    BY DEF ExitsPrograms
  <2>2. ASSUME NEW p \in {"stops", "amend"}, NEW c \in Levels,
               runs' = [runs EXCEPT ![p].pc = "raise", ![p].stop = c]
        PROVE  runs' \in [ExitsPrograms -> RunState]
    <3>1. [[runs[p] EXCEPT !.pc = "raise"] EXCEPT !.stop = c] \in RunState
      BY <1>a, <2>1 DEF RunState
    <3> QED
      BY <1>a, <2>1, <2>2, <3>1
  <2>3. ASSUME runs' = [runs EXCEPT !["stops"].pc = "look", !["stops"].qty = ExitsLot]
        PROVE  runs' \in [ExitsPrograms -> RunState]
    <3>1. [[runs["stops"] EXCEPT !.pc = "look"] EXCEPT !.qty = ExitsLot] \in RunState
      BY <1>a, <1>b, <2>1 DEF RunState
    <3> QED
      BY <1>a, <2>1, <2>3, <3>1
  <2>4. runs' \in [ExitsPrograms -> RunState]
    BY <1>8, <2>2, <2>3 DEF StopsRead, AmendAsk
  <2> QED
    BY <1>8, <1>a, <2>4 DEF StopsRead, AmendAsk, Typed
<1>9. CASE StopsLook
  <2>1. PICK pc \in {"idle", "sell"} : Goto("stops", pc)
    BY <1>9 DEF StopsLook
  <2>2. runs' \in [ExitsPrograms -> RunState]
    BY <2>1, GotoTyped DEF ExitsPrograms
  <2> QED
    BY <1>9, <1>a, <2>2 DEF StopsLook, Typed
<1>10. CASE ManualAsk
  <2>1. "manual" \in ExitsPrograms
    BY DEF ExitsPrograms
  <2>2. [[runs["manual"] EXCEPT !.pc = "sell"] EXCEPT !.qty = ExitsLot] \in RunState
    BY <1>a, <1>b, <2>1 DEF RunState
  <2>3. runs' \in [ExitsPrograms -> RunState]
    BY <1>10, <1>a, <2>1, <2>2 DEF ManualAsk
  <2> QED
    BY <1>10, <1>a, <2>3 DEF ManualAsk, Typed
<1>11. CASE ExitCommand
  BY <1>11, <1>a DEF ExitCommand, Typed, PositionRow
<1>12. ASSUME NEW p \in {"stops", "amend"}, RaiseBrokerStop(p) \/ WriteStop(p)
       PROVE  Typed'
  <2>1. p \in ExitsPrograms /\ runs[p].stop \in Levels /\ bracket.stop \in Levels
    BY <1>a DEF ExitsPrograms, RunState, BracketState
  <2>2. bracket' \in BracketState
    <3> DEFINE stop == Max({bracket.stop, runs[p].stop})
    <3>1. stop \in Levels
      BY <2>1, MaxOfTwo
    <3>2. [bracket EXCEPT !.stop = stop] \in BracketState
      BY <1>a, <3>1 DEF BracketState
    <3> QED
      BY <1>12, <1>a, <3>2 DEF RaiseBrokerStop, WriteStop
  <2>3. pos' \in PositionRow
    BY <1>12, <1>a, <2>1 DEF RaiseBrokerStop, WriteStop, PositionRow
  <2>4. runs' \in [ExitsPrograms -> RunState]
    BY <1>12, <2>1, GotoTyped DEF RaiseBrokerStop, WriteStop
  <2> QED
    BY <1>12, <1>a, <2>2, <2>3, <2>4 DEF RaiseBrokerStop, WriteStop, Typed
<1>13. ASSUME NEW p \in ExitsPrograms, GivesUp(p)
       PROVE  Typed'
  BY <1>13, <1>a, GotoTyped DEF GivesUp, Typed
<1>14. CASE CancelAllOpenOrders
  <2>1. bracket' \in BracketState
    BY <1>14, <1>a DEF CancelAllOpenOrders, GlobalCancel, BracketState
  <2>2. \A m \in Sells : sells'[m] \in SellState
    BY <1>14, <1>a DEF CancelAllOpenOrders, GlobalCancel, SellState
  <2>3. sells' \in [Sells -> SellState]
    BY <1>14, <2>2 DEF CancelAllOpenOrders, GlobalCancel
  <2> QED
    BY <1>14, <1>a, <2>1, <2>3 DEF CancelAllOpenOrders, Typed
<1>15. CASE PurgePosition
  BY <1>15, <1>a DEF PurgePosition, Typed, PositionRow, PositionStatus
<1>16. CASE SyncSells
  <2>1. rows' \in [Sells -> RowStatus]
    BY <1>16, <1>a DEF SyncSells, RowStatus
  <2>2. pos' \in PositionRow
    <3>1. pos.trades + 1 \in Nat
      BY <1>a DEF PositionRow
    <3>2. [[pos EXCEPT !.status = "CLOSED"] EXCEPT !.trades = pos.trades + 1] \in PositionRow
      BY <1>a, <3>1 DEF PositionRow, PositionStatus
    <3> QED
      BY <1>16, <3>2 DEF SyncSells
  <2> QED
    BY <1>16, <1>a, <2>1, <2>2 DEF SyncSells, Typed
<1>17. CASE UNCHANGED exitsVars
  BY <1>17, <1>a DEF exitsVars, Typed
<1> QED
  BY <1>1, <1>2, <1>3, <1>4, <1>5, <1>7, <1>8, <1>9, <1>10, <1>11, <1>12, <1>13,
     <1>14, <1>15, <1>16, <1>17 DEF ExitsNext

\* The position, the orders and every program's local state keep their types.
THEOREM ExitsTypeCorrect == ExitsSpec => []ExitsTypeOK
BY ExitsInitTyped, ExitsStepTyped, TypedIsTypeOK, PTL DEF ExitsSpec

-----------------------------------------------------------------------------
\* A program that is about to write its stop to the row has raised the broker's
\* stop to it, and the broker's stop only rises while it works.
StopInv ==
    /\ ~Program("command") /\ pos.status = "OPEN" /\ bracket.state = "working" =>
          pos.stop <= bracket.stop
    /\ \A p \in ExitsPrograms :
          runs[p].pc = "write" /\ bracket.state = "working" => runs[p].stop <= bracket.stop

LEMMA StopStep == Typed /\ StopInv /\ [ExitsNext]_exitsVars => StopInv'
<1> SUFFICES ASSUME Typed, StopInv, [ExitsNext]_exitsVars PROVE StopInv'
  OBVIOUS
<1>a. /\ pos \in PositionRow /\ bracket \in BracketState
      /\ runs \in [ExitsPrograms -> RunState]
  BY DEF Typed
<1>b. /\ ~Program("command") /\ pos.status = "OPEN" /\ bracket.state = "working" =>
            pos.stop <= bracket.stop
      /\ \A p \in ExitsPrograms :
            runs[p].pc = "write" /\ bracket.state = "working" => runs[p].stop <= bracket.stop
  BY DEF StopInv
\* Steps that leave the stops alone: the bracket may end, no one writes next.
<1>c. ASSUME setting' = setting,
             pos'.status = "OPEN" => pos.status = "OPEN" /\ pos'.stop = pos.stop,
             bracket'.state = "working" => bracket' = bracket,
             \A p \in ExitsPrograms : runs'[p].pc = "write" => runs'[p] = runs[p]
      PROVE  StopInv'
  BY <1>b, <1>c DEF StopInv, Program
<1>1. CASE PriceMoves \/ BracketFills
  BY <1>1, <1>a, <1>c DEF PriceMoves, BracketFills, BracketState
<1>2. ASSUME NEW m \in Sells, SellFills(m) \/ SellExpires(m) \/ CancelOpenOrder(m)
      PROVE  StopInv'
  <2>1. pos'.status = "OPEN" => pos' = pos
    BY <1>2, <1>a DEF SellFills, SellExpires, CancelOpenOrder, PositionRow
  <2> QED
    BY <1>2, <2>1, <1>c DEF SellFills, SellExpires, CancelOpenOrder
<1>3. CASE RulesFire \/ ManualAsk
  <2>1. \A p \in ExitsPrograms : runs'[p].pc = "write" => runs'[p] = runs[p]
    BY <1>3, <1>a DEF RulesFire, ManualAsk, RunState
  <2> QED
    BY <1>3, <2>1, <1>c DEF RulesFire, ManualAsk
<1>4. ASSUME NEW p \in {"rules", "stops", "manual"}, MarketSell(p)
      PROVE  StopInv'
  <2>1. \A q \in ExitsPrograms : runs'[q].pc = "write" => runs'[q] = runs[q]
    BY <1>4, MarketSellTyped
  <2>2. bracket'.state = "working" => bracket' = bracket
    BY <1>4, <1>a DEF MarketSell, BracketState
  <2> QED
    BY <1>4, <2>1, <2>2, <1>c DEF MarketSell
<1>5. CASE RulesSell \/ StopsSell \/ ManualSell
  BY <1>4, <1>5 DEF RulesSell, StopsSell, ManualSell
<1>6. ASSUME NEW p \in ExitsPrograms,
             NEW pc \in {"idle", "sell"}, Goto(p, pc),
             UNCHANGED <<setting, pos, bracket>>
      PROVE  StopInv'
  <2>1. \A q \in ExitsPrograms : runs'[q].pc = "write" => runs'[q] = runs[q]
    BY <1>6, GotoTyped, <1>a DEF RunState
  <2> QED
    BY <1>6, <2>1, <1>c
<1>7. CASE RulesRecord \/ StopsRecord \/ ManualRecord
  BY <1>6, <1>7 DEF RulesRecord, StopsRecord, ManualRecord, ExitsPrograms
<1>8. CASE StopsLook
  <2>1. PICK pc \in {"idle", "sell"} : Goto("stops", pc)
    BY <1>8 DEF StopsLook
  <2> QED
    BY <1>6, <1>8, <2>1 DEF StopsLook, ExitsPrograms
<1>9. CASE StopsRead \/ AmendAsk
  <2>1. \A p \in ExitsPrograms : runs'[p].pc = "write" => runs'[p] = runs[p]
    BY <1>9, <1>a DEF StopsRead, AmendAsk, RunState
  <2> QED
    BY <1>9, <2>1, <1>c DEF StopsRead, AmendAsk
<1>10. CASE ExitCommand
  BY <1>10, <1>b, <1>a DEF ExitCommand, StopInv, Program, PositionRow
<1>11. ASSUME NEW p \in {"stops", "amend"}, RaiseBrokerStop(p)
       PROVE  StopInv'
  <2> DEFINE stop == Max({bracket.stop, runs[p].stop})
  <2>1. p \in ExitsPrograms /\ runs[p].stop \in Levels /\ bracket.stop \in Levels
    BY <1>a DEF ExitsPrograms, RunState, BracketState
  <2>2. stop \in Levels /\ stop >= bracket.stop /\ stop >= runs[p].stop
    BY <2>1, MaxOfTwo
  <2>3. bracket'.stop = stop /\ bracket'.state = bracket.state
    BY <1>11, <1>a DEF RaiseBrokerStop, BracketState
  <2>4. /\ runs'[p] = [runs[p] EXCEPT !.pc = "write"]
        /\ \A q \in ExitsPrograms \ {p} : runs'[q] = runs[q]
    BY <1>11, <2>1, GotoTyped DEF RaiseBrokerStop
  <2>5. runs'[p].stop = runs[p].stop
    BY <2>1, <2>4, <1>a DEF RunState
  <2>6. pos.stop \in Int /\ bracket.stop \in Int /\ stop \in Int /\ \A q \in ExitsPrograms : runs[q].stop \in Int
    BY <2>1, <2>2, <1>a, LevelsAreNumbers DEF PositionRow, RunState
  <2>7. ASSUME ~Program("command")', pos'.status = "OPEN", bracket'.state = "working"
        PROVE  pos'.stop <= bracket'.stop
    BY <1>11, <1>b, <2>2, <2>3, <2>6, <2>7 DEF RaiseBrokerStop, Program
  <2>8. ASSUME NEW q \in ExitsPrograms, runs'[q].pc = "write", bracket'.state = "working"
        PROVE  runs'[q].stop <= bracket'.stop
    <3>1. CASE q = p
      BY <3>1, <2>2, <2>3, <2>5
    <3>2. CASE q # p
      BY <3>2, <2>8, <1>b, <2>2, <2>3, <2>4, <2>6
    <3> QED
      BY <3>1, <3>2
  <2> QED
    BY <2>7, <2>8 DEF StopInv
<1>12. ASSUME NEW p \in {"stops", "amend"}, WriteStop(p)
       PROVE  StopInv'
  <2>1. p \in ExitsPrograms
    BY DEF ExitsPrograms
  <2>2. \A q \in ExitsPrograms : runs'[q].pc = "write" => runs'[q] = runs[q]
    BY <1>12, <2>1, GotoTyped, <1>a DEF WriteStop, RunState
  <2>3. pos'.status = "OPEN" => pos'.stop = runs[p].stop
    BY <1>12, <1>a DEF WriteStop, PositionRow
  <2> QED
    BY <1>12, <1>b, <2>1, <2>2, <2>3 DEF WriteStop, StopInv, At
<1>13. ASSUME NEW p \in ExitsPrograms, GivesUp(p)
       PROVE  StopInv'
  BY <1>6, <1>13 DEF GivesUp
<1>14. CASE CancelAllOpenOrders
  <2>1. bracket'.state = "working" => bracket' = bracket
    BY <1>14, <1>a DEF CancelAllOpenOrders, GlobalCancel, BracketState
  <2> QED
    BY <1>14, <2>1, <1>c DEF CancelAllOpenOrders
<1>15. CASE PurgePosition \/ SyncSells
  <2>1. pos'.status # "OPEN"
    BY <1>15, <1>a DEF PurgePosition, SyncSells, PositionRow
  <2> QED
    BY <1>15, <2>1, <1>c DEF PurgePosition, SyncSells
<1>16. CASE UNCHANGED exitsVars
  BY <1>16, <1>c DEF exitsVars
<1> QED
  BY <1>1, <1>2, <1>3, <1>5, <1>7, <1>8, <1>9, <1>10, <1>11, <1>12, <1>13,
     <1>14, <1>15, <1>16 DEF ExitsNext

\* The stop the table shows is never tighter than the one that works, with any
\* number of levels and two amendments racing, unless the chat's EXIT moved it.
THEOREM TableStopWorks == ExitsSpec => []TableStopIsWorking
<1>1. ExitsInit => StopInv
  BY LevelsAreNumbers DEF ExitsInit, StopInv, Idle
<1>2. StopInv => TableStopIsWorking
  BY DEF StopInv, TableStopIsWorking
<1>3. Typed /\ StopInv /\ [ExitsNext]_exitsVars => Typed' /\ StopInv'
  BY ExitsStepTyped, StopStep
<1> QED
  BY <1>1, <1>2, <1>3, ExitsInitTyped, PTL DEF ExitsSpec

-----------------------------------------------------------------------------
\* Where no rule sells a part, every sell is one of the whole position, so one
\* execution, the bracket's or a sell's, is all it takes to hold none of it.
SoldInv ==
    ~Fault("partial") =>
       /\ held <= ExitsLot
       /\ \A m \in Sells : sells[m].state # "none" => sells[m].qty = ExitsLot
       /\ \A m \in Sells : sells[m].sold > 0 => held <= 0
       /\ \A p \in ExitsPrograms : runs[p].pc \in {"look", "sell"} => runs[p].qty = ExitsLot
       /\ bracket.state = "filled" => held <= 0
       /\ pos.status = "OPEN" => pos.trades = 0
       /\ pos.status = "CLOSED" => held <= 0 /\ pos.trades = 1

\* Init chooses the setting; no step changes it.
LEMMA SettingKept == [ExitsNext]_exitsVars => setting' = setting
<1> SUFFICES ASSUME [ExitsNext]_exitsVars PROVE setting' = setting
  OBVIOUS
<1>1. CASE PriceMoves \/ BracketFills \/ RulesFire \/ RulesRecord \/ StopsRead \/ StopsLook \/ StopsRecord
  BY <1>1 DEF PriceMoves, BracketFills, RulesFire, RulesRecord, StopsRead, StopsLook, StopsRecord
<1>2. ASSUME NEW m \in Sells, SellFills(m) \/ SellExpires(m) \/ CancelOpenOrder(m)
      PROVE  setting' = setting
  BY <1>2 DEF SellFills, SellExpires, CancelOpenOrder
<1>3. CASE RulesSell \/ StopsSell \/ ManualSell
  BY <1>3 DEF RulesSell, StopsSell, ManualSell, MarketSell
<1>4. CASE ManualAsk \/ ManualRecord \/ AmendAsk \/ ExitCommand \/ CancelAllOpenOrders \/ PurgePosition \/ SyncSells
  BY <1>4 DEF ManualAsk, ManualRecord, AmendAsk, ExitCommand, CancelAllOpenOrders, PurgePosition, SyncSells
<1>5. ASSUME NEW p \in ExitsPrograms, RaiseBrokerStop(p) \/ WriteStop(p) \/ GivesUp(p)
      PROVE  setting' = setting
  BY <1>5 DEF RaiseBrokerStop, WriteStop, GivesUp
<1>6. CASE UNCHANGED exitsVars
  BY <1>6 DEF exitsVars
<1> QED
  BY <1>1, <1>2, <1>3, <1>4, <1>5, <1>6 DEF ExitsNext, ExitsPrograms

LEMMA SoldStep == Typed /\ SoldInv /\ [ExitsNext]_exitsVars => SoldInv'
<1> SUFFICES ASSUME Typed, SoldInv, [ExitsNext]_exitsVars, ~Fault("partial"), setting' = setting
             PROVE  SoldInv'
  BY SettingKept DEF SoldInv, Fault
<1>a. /\ pos \in PositionRow /\ bracket \in BracketState /\ held \in Int
      /\ sells \in [Sells -> SellState] /\ runs \in [ExitsPrograms -> RunState]
      /\ ExitsLot \in Nat \ {0}
  BY ExitsAssumption DEF Typed
<1>b. /\ held <= ExitsLot
      /\ \A m \in Sells : sells[m].state # "none" => sells[m].qty = ExitsLot
      /\ \A m \in Sells : sells[m].sold > 0 => held <= 0
      /\ \A p \in ExitsPrograms : runs[p].pc \in {"look", "sell"} => runs[p].qty = ExitsLot
      /\ bracket.state = "filled" => held <= 0
      /\ pos.status = "OPEN" => pos.trades = 0
      /\ pos.status = "CLOSED" => held <= 0 /\ pos.trades = 1
  BY DEF SoldInv
\* Steps that execute nothing and close nothing.
<1>c. ASSUME held' = held,
             pos'.status # "DELETED" => pos'.status = pos.status /\ pos'.trades = pos.trades,
             bracket'.state = "filled" => bracket.state = "filled",
             \A m \in Sells : sells'[m].state = "none" \/ sells'[m].qty = ExitsLot,
             \A m \in Sells : sells'[m].sold \in {0, sells[m].sold},
             \A p \in ExitsPrograms :
                runs'[p].pc \in {"look", "sell"} => runs'[p].qty = ExitsLot,
             pos' \in PositionRow
      PROVE  SoldInv'
  BY <1>b, <1>c, <1>a DEF SoldInv, PositionRow, PositionStatus
<1>d. \A m \in Sells : \/ sells[m].state = "none"
                       \/ sells[m].qty = ExitsLot
  BY <1>b
<1>e. pos' \in PositionRow
  BY ExitsStepTyped DEF Typed
<1>f. ASSUME NEW p \in ExitsPrograms, NEW pc \in {"idle", "raise", "write", "sent"}, Goto(p, pc)
      PROVE  \A q \in ExitsPrograms : runs'[q].pc \in {"look", "sell"} => runs'[q].qty = ExitsLot
  <2>1. pc \in {"idle", "look", "sell", "sent", "raise", "write"}
    OBVIOUS
  <2>2. /\ runs'[p] = [runs[p] EXCEPT !.pc = pc]
        /\ \A q \in ExitsPrograms \ {p} : runs'[q] = runs[q]
    BY <1>f, <2>1, GotoTyped
  <2>3. runs'[p].pc = pc
    BY <2>2, <1>a DEF RunState
  <2> QED
    BY <2>2, <2>3, <1>b
<1>1. CASE PriceMoves \/ ExitCommand
  BY <1>1, <1>a, <1>b, <1>c, <1>d, <1>e DEF PriceMoves, ExitCommand, PositionRow
<1>2. CASE BracketFills
  BY <1>2, <1>a, <1>b DEF BracketFills, SoldInv, BracketState
<1>3. ASSUME NEW m \in Sells, SellFills(m)
      PROVE  SoldInv'
  <2>1. sells[m].qty = ExitsLot
    BY <1>3, <1>b DEF SellFills
  <2>2. held' <= 0 /\ held' <= ExitsLot
    BY <1>3, <2>1, <1>a, <1>b DEF SellFills
  <2>3. \A n \in Sells : sells'[n].qty = sells[n].qty
                        /\ (sells'[n].state = "none" <=> sells[n].state = "none")
    BY <1>3, <1>a DEF SellFills, SellState
  <2> QED
    BY <1>3, <2>2, <2>3, <1>b DEF SellFills, SoldInv
<1>4. ASSUME NEW m \in Sells, SellExpires(m) \/ CancelOpenOrder(m)
      PROVE  SoldInv'
  <2>1. \A n \in Sells : sells'[n].qty = sells[n].qty /\ sells'[n].sold = sells[n].sold
                        /\ (sells'[n].state = "none" <=> sells[n].state = "none")
    BY <1>4, <1>a DEF SellExpires, CancelOpenOrder, BrokerCancel, SellState
  <2>2. pos'.status # "DELETED" => pos' = pos
    BY <1>4, <1>a DEF SellExpires, CancelOpenOrder, PositionRow
  <2> QED
    BY <1>4, <2>1, <2>2, <1>b, <1>c, <1>d, <1>e DEF SellExpires, CancelOpenOrder
<1>5. CASE RulesFire
  <2>1. runs' = [runs EXCEPT !["rules"].pc = "sell", !["rules"].qty = ExitsLot]
    BY <1>5 DEF RulesFire
  <2>2. \A p \in ExitsPrograms : runs'[p].pc \in {"look", "sell"} => runs'[p].qty = ExitsLot
    BY <2>1, <1>a, <1>b DEF RunState
  <2> QED
    BY <1>5, <2>2, <1>b, <1>c, <1>d, <1>e DEF RulesFire
<1>6. ASSUME NEW p \in {"rules", "stops", "manual"}, At(p, "sell"), MarketSell(p)
      PROVE  SoldInv'
  <2>1. runs[p].qty = ExitsLot
    BY <1>6, <1>b DEF At, ExitsPrograms
  <2>2. \A q \in ExitsPrograms : runs'[q].pc \in {"look", "sell"} => runs'[q].qty = ExitsLot
    BY <1>6, <1>b, MarketSellTyped DEF ExitsPrograms
  <2>3. /\ \A m \in Sells : sells'[m].state = "none" \/ sells'[m].qty = ExitsLot
        /\ \A m \in Sells : sells'[m].sold \in {0, sells[m].sold}
    BY <1>6, <2>1, <1>d, MarketSellTyped
  <2>4. bracket'.state = "filled" => bracket.state = "filled"
    BY <1>6, MarketSellTyped
  <2> QED
    BY <1>6, <2>2, <2>3, <2>4, <1>c, <1>e DEF MarketSell
<1>7. CASE RulesSell \/ StopsSell \/ ManualSell
  BY <1>6, <1>7 DEF RulesSell, StopsSell, ManualSell
<1>8. ASSUME NEW p \in ExitsPrograms, Goto(p, "idle"), UNCHANGED <<pos, held, bracket, sells>>
      PROVE  SoldInv'
  BY <1>8, <1>b, <1>c, <1>d, <1>e, <1>f
<1>9. CASE RulesRecord \/ StopsRecord \/ ManualRecord
  BY <1>8, <1>9 DEF RulesRecord, StopsRecord, ManualRecord, ExitsPrograms
<1>10. CASE StopsRead \/ AmendAsk
  <2>1. \A p \in ExitsPrograms : runs'[p].pc \in {"look", "sell"} => runs'[p].qty = ExitsLot
    BY <1>10, <1>a, <1>b DEF StopsRead, AmendAsk, RunState
  <2> QED
    BY <1>10, <2>1, <1>b, <1>c, <1>d, <1>e DEF StopsRead, AmendAsk
<1>11. CASE StopsLook
  <2>1. PICK pc \in {"idle", "sell"} : Goto("stops", pc)
    BY <1>11 DEF StopsLook
  <2>2. "stops" \in ExitsPrograms /\ runs["stops"].qty = ExitsLot
    BY <1>11, <1>b DEF StopsLook, At, ExitsPrograms
  <2>3. /\ runs'["stops"] = [runs["stops"] EXCEPT !.pc = pc]
        /\ \A q \in ExitsPrograms \ {"stops"} : runs'[q] = runs[q]
    BY <2>1, <2>2, GotoTyped
  <2>4. runs'["stops"].qty = ExitsLot
    BY <2>2, <2>3, <1>a DEF RunState
  <2> QED
    BY <1>11, <2>3, <2>4, <1>b, <1>c, <1>d, <1>e DEF StopsLook
<1>12. CASE ManualAsk
  <2>1. \A p \in ExitsPrograms : runs'[p].pc \in {"look", "sell"} => runs'[p].qty = ExitsLot
    BY <1>12, <1>a, <1>b DEF ManualAsk, RunState
  <2> QED
    BY <1>12, <2>1, <1>b, <1>c, <1>d, <1>e DEF ManualAsk
<1>13. ASSUME NEW p \in {"stops", "amend"}, RaiseBrokerStop(p) \/ WriteStop(p)
       PROVE  SoldInv'
  <2>1. p \in ExitsPrograms
    BY DEF ExitsPrograms
  <2>2. \A q \in ExitsPrograms : runs'[q].pc \in {"look", "sell"} => runs'[q].qty = ExitsLot
    BY <1>13, <2>1, <1>f DEF RaiseBrokerStop, WriteStop
  <2>3. bracket'.state = bracket.state
    BY <1>13, <1>a DEF RaiseBrokerStop, WriteStop, BracketState
  <2>4. pos'.status = pos.status /\ pos'.trades = pos.trades
    BY <1>13, <1>a DEF RaiseBrokerStop, WriteStop, PositionRow
  <2> QED
    BY <1>13, <2>2, <2>3, <2>4, <1>b, <1>c, <1>d, <1>e DEF RaiseBrokerStop, WriteStop
<1>14. ASSUME NEW p \in ExitsPrograms, GivesUp(p)
       PROVE  SoldInv'
  BY <1>8, <1>14 DEF GivesUp
<1>15. CASE CancelAllOpenOrders
  <2>1. \A n \in Sells : sells'[n].qty = sells[n].qty /\ sells'[n].sold = sells[n].sold
                        /\ (sells'[n].state = "none" <=> sells[n].state = "none")
    BY <1>15, <1>a DEF CancelAllOpenOrders, GlobalCancel, SellState
  <2>2. bracket'.state = "filled" => bracket.state = "filled"
    BY <1>15, <1>a DEF CancelAllOpenOrders, GlobalCancel, BracketState
  <2> QED
    BY <1>15, <2>1, <2>2, <1>b, <1>c, <1>d, <1>e DEF CancelAllOpenOrders
<1>16. CASE PurgePosition
  <2>1. pos'.status = "DELETED"
    BY <1>16, <1>a DEF PurgePosition, PositionRow
  <2> QED
    BY <1>16, <2>1, <1>b, <1>c, <1>d, <1>e DEF PurgePosition
<1>17. CASE SyncSells
  <2>1. held <= 0
    BY <1>17, <1>b DEF SyncSells, Executed
  <2>2. pos'.status = "CLOSED" /\ pos'.trades = 1
    BY <1>17, <1>a, <1>b DEF SyncSells, PositionRow
  <2> QED
    BY <1>17, <2>1, <2>2, <1>b DEF SyncSells, SoldInv
<1>18. CASE UNCHANGED exitsVars
  BY <1>18, <1>b, <1>c, <1>d, <1>e DEF exitsVars
<1> QED
  BY <1>1, <1>2, <1>3, <1>4, <1>5, <1>7, <1>9, <1>10, <1>11, <1>12, <1>13, <1>14,
     <1>15, <1>16, <1>17, <1>18 DEF ExitsNext

\* A row is closed, with one Trade, only when its shares are gone: no
\* acknowledgement, refusal or expiry of any number of sells is a fill.
THEOREM ClosedIsSoldOut == ExitsSpec => []ClosedMeansSoldOut
<1>1. ExitsInit => SoldInv
  BY ExitsAssumption DEF ExitsInit, SoldInv, NoSell, Idle
<1>2. SoldInv => ClosedMeansSoldOut
  BY DEF SoldInv, ClosedMeansSoldOut
<1>3. Typed /\ SoldInv /\ [ExitsNext]_exitsVars => Typed' /\ SoldInv'
  BY ExitsStepTyped, SoldStep
<1> QED
  BY <1>1, <1>2, <1>3, ExitsInitTyped, PTL DEF ExitsSpec
=============================================================================
