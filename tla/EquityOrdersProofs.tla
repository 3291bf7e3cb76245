------------------------- MODULE EquityOrdersProofs -------------------------
(***************************************************************************)
(* What holds of EquityOrders for any number of signals, orders, positions *)
(* and runs, and for every choice of hazards; a theorem that needs some of *)
(* them left out says so in its hypotheses.                                *)
(***************************************************************************)
EXTENDS EquityOrders, SumProofs, TLAPS

\* One lemma for each program: its steps keep every variable in its type.
LEMMA BuyerKeepsType ==
    ASSUME TypeOK, NEW b \in Buyers, BuyerStep(b) \/ BuyerCrash(b)
    PROVE  TypeOK'
<1> USE DEF TypeOK, BuyerState, NullableSignal, NullableOrder, dbAndBroker
<1>1. CASE EntryStart(b)
  BY <1>1 DEF EntryStart
<1>a. \A s \in Signals : Finished(b, s) \in BuyerState
  BY DEF Finished, IdleBuyer
<1>2. ASSUME NEW s \in Signals, EntrySelfHeal(b, s) \/ EntrySkip(b, s)
      PROVE  TypeOK'
  <2>1. CASE EntrySelfHeal(b, s)
    BY <1>a, <2>1 DEF EntrySelfHeal
  <2>2. CASE EntrySkip(b, s)
    BY <1>a, <2>2 DEF EntrySkip
  <2> QED
    BY <1>2, <2>1, <2>2
<1>3. ASSUME NEW s \in Signals, EntryGuard(b, s) \/ AgentStart(b, s)
      PROVE  TypeOK'
  <2>1. CASE EntryGuard(b, s)
    BY <2>1 DEF EntryGuard
  <2>2. CASE AgentStart(b, s)
    BY <2>2 DEF AgentStart
  <2> QED
    BY <1>3, <2>1, <2>2
<1>4. ASSUME NEW state \in {"working", "simulated"}, SubmitTo(b, state)
      PROVE  TypeOK'
  <2> DEFINE o == CHOOSE x \in Orders : x \in FreeOrders
             new == [NoBrokerOrder EXCEPT !.state = state,
                        !.ref = IF b \in EntryRuns THEN buyer[b].sig ELSE NoSignal]
  <2>1. o \in Orders
    BY <1>4 DEF SubmitTo, FreeOrders
  <2>2. new \in BrokerOrder
    <3>1. buyer[b].sig \in NullableSignal
      OBVIOUS
    <3>2. 0 \in 0..Lot
      BY LotAssumption
    <3> QED
      BY <3>1, <3>2 DEF NoBrokerOrder, BrokerOrder
  <2>3. /\ broker' = [broker EXCEPT ![o] = new]
        /\ buyer' = [buyer EXCEPT ![b] = [@ EXCEPT !.pc = "record", !.ord = o]]
        /\ UNCHANGED <<signal, order, pos, trades, holding, sync, posSync, closer>>
    BY <1>4 DEF SubmitTo
  <2>4. broker' \in [Orders -> BrokerOrder]
    BY <2>1, <2>2, <2>3
  <2>5. buyer' \in [Buyers -> BuyerState]
    BY <2>1, <2>3
  <2> QED
    BY <2>3, <2>4, <2>5
<1>5. CASE SubmitRejected(b) \/ BuyerCrash(b)
  <2>1. Finished(b, buyer[b].sig) \in BuyerState /\ IdleBuyer \in BuyerState
    BY DEF Finished, IdleBuyer
  <2>2. CASE SubmitRejected(b)
    BY <2>1, <2>2 DEF SubmitRejected
  <2>3. CASE BuyerCrash(b)
    BY <2>1, <2>3 DEF BuyerCrash
  <2> QED
    BY <1>5, <2>2, <2>3
<1>6. ASSUME NEW status \in {"SUBMITTED", "FILLED"}, NEW filled \in 0..Lot,
             RecordRow(b, status, filled)
      PROVE  order' \in [Orders -> OrderRow]
  <2>1. [status |-> status, sig |-> buyer[b].sig, filled |-> filled] \in OrderRow
    BY DEF OrderRow
  <2> QED
    BY <1>6, <2>1 DEF RecordRow
<1>7. Finished(b, buyer[b].sig) \in BuyerState
  BY DEF Finished, IdleBuyer
<1>8. CASE RecordSubmitted(b)
  <2>1. order' \in [Orders -> OrderRow]
    BY <1>6, <1>8, LotAssumption DEF RecordSubmitted
  <2> QED
    BY <1>7, <1>8, <2>1 DEF RecordSubmitted
<1>9. CASE RecordSimulated(b)
  <2>1. order' \in [Orders -> OrderRow]
    BY <1>6, <1>9, LotAssumption DEF RecordSimulated
  <2>2. [status |-> "OPEN", sig |-> buyer[b].sig, qty |-> Lot, src |-> buyer[b].ord]
           \in PositionRow
    BY LotAssumption DEF PositionRow
  <2>3. pos' \in [Positions -> PositionRow]
    BY <1>9, <2>2 DEF RecordSimulated
  <2> QED
    BY <1>7, <1>9, <2>1, <2>3 DEF RecordSimulated
<1> QED
  BY <1>1, <1>2, <1>3, <1>4, <1>5, <1>8, <1>9
  DEF BuyerStep, SubmitAccepted, SubmitSimulated

LEMMA BrokerKeepsType ==
    ASSUME TypeOK, BrokerStep
    PROVE  TypeOK'
<1> USE DEF TypeOK, BrokerOrder, allButBroker
<1>1. ASSUME NEW o \in Orders, Fill(o)
      PROVE  TypeOK'
  <2>1. PICK n \in 1..(Lot - broker[o].filled) :
           /\ holding' = holding + n
           /\ broker' = [broker EXCEPT ![o] = [@ EXCEPT !.filled = broker[o].filled + n,
                   !.state = IF broker[o].filled + n = Lot THEN "done" ELSE "working"]]
    BY <1>1 DEF Fill
  <2>2. broker[o].filled + n \in 0..Lot
    BY LotAssumption
  <2> DEFINE new == [broker[o] EXCEPT !.filled = broker[o].filled + n,
                        !.state = IF broker[o].filled + n = Lot THEN "done" ELSE "working"]
  <2>a. new \in BrokerOrder
    BY <2>2
  <2>b. broker' = [broker EXCEPT ![o] = new]
    BY <2>1
  <2>3. broker' \in [Orders -> BrokerOrder]
    BY <2>a, <2>b
  <2>4. holding' \in Int
    BY <2>1
  <2> QED
    BY <1>1, <2>3, <2>4 DEF Fill
<1>2. ASSUME NEW o \in Orders, Expire(o) \/ ExecutionsAge(o)
      PROVE  TypeOK'
  <2>1. CASE Expire(o)
    BY <2>1 DEF Expire
  <2>2. CASE ExecutionsAge(o)
    BY <2>2 DEF ExecutionsAge
  <2> QED
    BY <1>2, <2>1, <2>2
<1>3. ASSUME NEW o \in Orders, BracketSell(o)
      PROVE  TypeOK'
  BY <1>3, LotAssumption DEF BracketSell
<1> QED
  BY <1>1, <1>2, <1>3 DEF BrokerStep

LEMMA TradedType ==
    ASSUME trades \in [Positions -> Nat], NEW closing
    PROVE  Traded(closing) \in [Positions -> Nat]
  BY DEF Traded

LEMMA SyncKeepsType ==
    ASSUME TypeOK, SyncStep \/ SyncCrash
    PROVE  TypeOK'
<1> USE DEF TypeOK, allButSync, dbAndBroker
<1>i. IdleSync \in SyncState
  BY LotAssumption DEF IdleSync, SyncState, NullableSignal
<1>1. CASE SyncRead
  <2>1. sync' \in SyncState
    BY <1>1 DEF SyncRead, SyncState, OpenPositions, PositionRow
  <2> QED
    BY <1>1, <2>1 DEF SyncRead
<1>2. CASE SyncOpenOrders
  <2> PICK live \in SUBSET Orders : sync' = [sync EXCEPT !.pc = "execs", !.live = live]
    BY <1>2 DEF SyncOpenOrders
  <2>1. sync' \in SyncState
    BY DEF SyncState
  <2> QED
    BY <1>2, <2>1 DEF SyncOpenOrders
<1>3. CASE SyncExecutions
  <2> PICK blind \in BOOLEAN :
         LET seen(o) == ~blind /\ ~broker[o].aged
         IN  sync' = [sync EXCEPT !.pc = "passA",
               !.bought = [o \in Orders |-> IF seen(o) THEN broker[o].filled ELSE 0],
               !.sold   = [o \in Orders |-> IF seen(o) THEN broker[o].sold ELSE 0]]
    BY <1>3 DEF SyncExecutions
  <2> DEFINE bought == [o \in Orders |-> IF ~blind /\ ~broker[o].aged THEN broker[o].filled ELSE 0]
             sold   == [o \in Orders |-> IF ~blind /\ ~broker[o].aged THEN broker[o].sold ELSE 0]
  <2>a. bought \in [Orders -> 0..Lot] /\ sold \in [Orders -> 0..Lot]
    BY LotAssumption DEF BrokerOrder
  <2>b. sync' = [sync EXCEPT !.pc = "passA", !.bought = bought, !.sold = sold]
    OBVIOUS
  <2> HIDE DEF bought, sold
  <2>1. sync' \in SyncState
    BY <2>a, <2>b DEF SyncState
  <2> QED
    BY <1>3, <2>1 DEF SyncExecutions
<1>4. ASSUME NEW o \in Orders, NEW status \in {"keep", "PARTIAL", "FILLED", "CANCELLED"}
      PROVE  RowDone(o, status) \in SyncState
  BY DEF RowDone, SyncState
<1>5. \A o \in Orders : FillStatus(o) \in {"PARTIAL", "FILLED"}
  BY DEF FillStatus
<1>6. ASSUME NEW o \in Orders, NEW p \in Positions, SyncFilledHeld(o, p)
      PROVE  TypeOK'
  <2>1. Repaired(o, p) \in NullableSignal
    BY DEF Repaired, OrderRow, SyncState
  <2>2. FilledQty(o, p) \in Nat
    BY LotAssumption DEF FilledQty, SyncState
  <2> DEFINE link == [sync.link EXCEPT ![p] = Repaired(o, p)]
             sess == [sync.sess EXCEPT ![p] = FilledQty(o, p)]
             qty  == [sync.qty EXCEPT ![p] = IF LoadedQty(p) = FilledQty(o, p) THEN @
                                                                        ELSE FilledQty(o, p)]
             r    == RowDone(o, FillStatus(o))
  <2>a. r \in SyncState
    BY <1>4, <1>5
  <2>b. /\ link \in [Positions -> NullableSignal]
        /\ sess \in [Positions -> Nat]
        /\ qty \in [Positions -> Nat]
    BY <2>1, <2>2 DEF SyncState
  <2>c. r.link = sync.link /\ r.sess = sync.sess /\ r.qty = sync.qty
    BY DEF RowDone, SyncState
  <2>d. sync' = [r EXCEPT !.link = link, !.sess = sess, !.qty = qty]
    BY <1>6, <2>c DEF SyncFilledHeld, SyncState
  <2> HIDE DEF r, link, sess, qty
  <2>3. sync' \in SyncState
    BY <2>a, <2>b, <2>d DEF SyncState
  <2> QED
    BY <1>6, <2>3 DEF SyncFilledHeld
<1>7. ASSUME NEW o \in Orders, SyncFilledNew(o)
      PROVE  TypeOK'
  <2> DEFINE r == RowDone(o, FillStatus(o))
  <2>a. r \in SyncState
    BY <1>4, <1>5
  <2>b. sync' = [r EXCEPT !.create = @ \cup {o}]
    BY <1>7 DEF SyncFilledNew
  <2> HIDE DEF r
  <2>1. sync' \in SyncState
    BY <2>a, <2>b DEF SyncState
  <2> QED
    BY <1>7, <2>1 DEF SyncFilledNew
<1>8. ASSUME NEW o \in Orders, SyncExpired(o) \/ SyncExtended(o)
      PROVE  TypeOK'
  <2> DEFINE r == RowDone(o, "CANCELLED")
  <2>a. r \in SyncState
    BY <1>4
  <2>b. Rearmed(o) \in SUBSET Signals
    BY NullAssumption DEF Rearmed, OrderRow, NullableSignal, SyncState
  <2>c. sync' = [r EXCEPT !.rearm = Rearmed(o)]
    BY <1>8 DEF SyncExpired, SyncExtended
  <2>d. UNCHANGED <<signal, order, pos, trades, holding, buyer, posSync, closer>>
    BY <1>8 DEF SyncExpired, SyncExtended
  <2>e. broker' \in [Orders -> BrokerOrder]
    <3>1. broker' = broker \/ broker' = [broker EXCEPT ![o].state = "done"]
      BY <1>8 DEF SyncExpired, SyncExtended
    <3> QED
      BY <3>1 DEF BrokerOrder
  <2> HIDE DEF r
  <2>1. sync' \in SyncState
    BY <2>a, <2>b, <2>c DEF SyncState
  <2> QED
    BY <2>1, <2>d, <2>e
<1>9. ASSUME NEW o \in Orders, SyncWorking(o)
      PROVE  TypeOK'
  <2>1. sync' \in SyncState
    BY <1>4, <1>9 DEF SyncWorking
  <2> QED
    BY <1>9, <2>1 DEF SyncWorking
<1>10. CASE SyncPassB
  <2>a. PICK close \in SUBSET sync.held :
           sync' = [sync EXCEPT !.pc = "commit", !.close = close, !.held = {}, !.live = {},
                       !.sold = [o \in Orders |-> 0], !.sess = [p \in Positions |-> 0]]
    BY <1>10 DEF SyncPassB
  <2>b. [o \in Orders |-> 0] \in [Orders -> 0..Lot] /\ [p \in Positions |-> 0] \in [Positions -> Nat]
    BY LotAssumption
  <2>1. sync' \in SyncState
    BY <2>a, <2>b DEF SyncState
  <2> QED
    BY <1>10, <2>1 DEF SyncPassB
<1>11. CASE SyncCommit
  <2>1. order' \in [Orders -> OrderRow]
    <3>1. ASSUME NEW o \in Orders
          PROVE  (CASE sync.ord[o] = "keep" -> order[o]
                    [] sync.ord[o] = "CANCELLED" -> [order[o] EXCEPT !.status = "CANCELLED"]
                    [] OTHER -> [order[o] EXCEPT !.status = sync.ord[o],
                                                 !.filled = sync.bought[o]]) \in OrderRow
      <4>1. /\ order[o] \in OrderRow /\ sync.bought[o] \in 0..Lot
            /\ sync.ord[o] \in {"keep", "PARTIAL", "FILLED", "CANCELLED"}
        BY DEF SyncState
      <4>2. CASE sync.ord[o] = "keep"
        BY <4>1, <4>2
      <4>3. CASE sync.ord[o] = "CANCELLED"
        BY <4>1, <4>3 DEF OrderRow
      <4>4. CASE sync.ord[o] \in {"PARTIAL", "FILLED"}
        BY <4>1, <4>4 DEF OrderRow
      <4> QED
        BY <4>1, <4>2, <4>3, <4>4
    <3> QED
      BY <1>11, <3>1 DEF SyncCommit
  <2>2. signal' \in [Signals -> {"PENDING", "TRIGGERED", "SKIPPED"}]
    BY <1>11 DEF SyncCommit
  <2>3. pos' \in [Positions -> PositionRow]
    <3>1. \A p \in Positions : SyncWritten(p) \in PositionRow
      BY DEF SyncWritten, PositionRow, SyncState
    <3>2. \A o \in Orders :
             [status |-> "OPEN", sig |-> order[o].sig, qty |-> sync.bought[o], src |-> o]
                \in PositionRow
      BY LotAssumption DEF PositionRow, OrderRow, NullableOrder, SyncState
    <3> QED
      BY <1>11, <3>1, <3>2 DEF SyncCommit, SyncState
  <2>4. trades' \in [Positions -> Nat]
    BY <1>11, TradedType DEF SyncCommit
  <2> QED
    BY <1>11, <1>i, <2>1, <2>2, <2>3, <2>4 DEF SyncCommit
<1>12. CASE SyncRollback
  BY <1>12, <1>i DEF SyncRollback
<1>13. CASE SyncCrash
  BY <1>13, <1>i DEF SyncCrash
<1> QED
  BY <1>1, <1>2, <1>3, <1>6, <1>7, <1>8, <1>9, <1>10, <1>11, <1>12, <1>13 DEF SyncStep

LEMMA PosSyncKeepsType ==
    ASSUME TypeOK, PosSyncStep
    PROVE  TypeOK'
<1> USE DEF TypeOK, allButPosSync
<1>i. IdlePosSync \in PosSyncState
  BY DEF IdlePosSync, PosSyncState
<1>1. CASE PosSyncBroker
  <2> DEFINE shares == IF holding < 0 THEN -holding ELSE holding
  <2>1. shares \in Nat
    OBVIOUS
  <2>2. posSync' \in PosSyncState
    <3>1. CASE \E others \in OtherHoldings :
                  posSync' = [IdlePosSync EXCEPT !.pc = "read", !.others = others,
                                                 !.held = shares]
      <4> PICK others \in BOOLEAN :
             posSync' = [IdlePosSync EXCEPT !.pc = "read", !.others = others,
                                            !.held = shares]
        BY <3>1, OthersAssumption
      <4> HIDE DEF shares
      <4> QED
        BY <2>1 DEF IdlePosSync, PosSyncState
    <3>2. CASE posSync' = [IdlePosSync EXCEPT !.pc = "read"]
      BY <3>2 DEF IdlePosSync, PosSyncState
    <3> QED
      BY <1>1, <3>1, <3>2 DEF PosSyncBroker
  <2> QED
    BY <1>1, <2>2 DEF PosSyncBroker
<1>2. CASE PosSyncRead
  BY <1>2 DEF PosSyncRead, PosSyncPlan, PosSyncState, OpenPositions
<1>3. CASE PosSyncImport
  BY <1>3, <1>i DEF PosSyncImport, PosSyncState, PositionRow, NullableSignal, NullableOrder
<1>4. CASE PosSyncQty
  BY <1>4, <1>i DEF PosSyncQty, PosSyncState, PositionRow
<1>5. CASE PosSyncClose
  <2>1. pos' \in [Positions -> PositionRow]
    BY <1>5 DEF PosSyncClose, PositionRow
  <2> QED
    BY <1>5, <1>i, <2>1, TradedType DEF PosSyncClose
<1>6. CASE PosSyncEnd
  BY <1>6, <1>i DEF PosSyncEnd
<1> QED
  BY <1>1, <1>2, <1>3, <1>4, <1>5, <1>6 DEF PosSyncStep

LEMMA PaperExitKeepsType ==
    ASSUME TypeOK, PaperExitStep
    PROVE  TypeOK'
<1> USE DEF TypeOK, CloserState, allButCloser
<1>1. ASSUME NEW p \in Positions, PaperExitFetch(p)
      PROVE  TypeOK'
  BY <1>1 DEF PaperExitFetch
<1>2. CASE PaperExitCommit
  <2>1. pos' \in [Positions -> PositionRow]
    BY <1>2 DEF PaperExitCommit, PositionRow
  <2> QED
    BY <1>2, <2>1, TradedType DEF PaperExitCommit
<1>3. CASE PaperExitAbort
  BY <1>3 DEF PaperExitAbort
<1> QED
  BY <1>1, <1>2, <1>3 DEF PaperExitStep

LEMMA InitTypeOK ==
    ASSUME Init
    PROVE  TypeOK
<1>1. 0 \in 0..Lot
  BY LotAssumption
<1>2. order \in [Orders -> OrderRow] /\ pos \in [Positions -> PositionRow]
  BY <1>1 DEF Init, NoRow, NoPos, OrderRow, PositionRow, NullableSignal, NullableOrder
<1>3. broker \in [Orders -> BrokerOrder]
  BY <1>1 DEF Init, NoBrokerOrder, BrokerOrder, NullableSignal
<1>4. buyer \in [Buyers -> BuyerState]
  BY DEF Init, IdleBuyer, BuyerState, NullableSignal, NullableOrder
<1>5. sync \in SyncState
  BY <1>1 DEF Init, IdleSync, SyncState, NullableSignal
<1>6. posSync \in PosSyncState /\ closer \in CloserState
  BY DEF Init, IdlePosSync, PosSyncState, CloserState
<1> QED
  BY <1>2, <1>3, <1>4, <1>5, <1>6 DEF Init, TypeOK

LEMMA NextTypeOK ==
    ASSUME TypeOK, [Next]_vars
    PROVE  TypeOK'
<1>1. CASE Next
  BY <1>1, BuyerKeepsType, BrokerKeepsType, SyncKeepsType, PosSyncKeepsType,
     PaperExitKeepsType DEF Next
<1>2. CASE UNCHANGED vars
  BY <1>2 DEF TypeOK, vars
<1> QED
  BY <1>1, <1>2

\* Every column and every local variable keeps its type, whatever happens.
THEOREM TypeCorrect == Spec => []TypeOK
<1>1. Init => TypeOK
  BY InitTypeOK
<1>2. TypeOK /\ [Next]_vars => TypeOK'
  BY NextTypeOK
<1> QED
  BY <1>1, <1>2, PTL DEF Spec

-----------------------------------------------------------------------------
\* A step of the tables: the opened rows were free, the closed ones OPEN, and
\* each closed one gets its Trade row in the same commit.
TableStep(opened, closed) ==
    /\ opened \subseteq Positions /\ closed \subseteq Positions
    /\ \A p \in opened : pos[p].status = "none"
    /\ \A p \in closed : pos[p].status = "OPEN"
    /\ \A p \in Positions :
          /\ p \in opened => pos'[p].status = "OPEN"
          /\ p \in closed => pos'[p].status = "CLOSED"
          /\ p \notin opened \cup closed => pos'[p].status = pos[p].status
          /\ trades'[p] = IF p \in closed THEN trades[p] + 1 ELSE trades[p]

LEMMA TableStepKeepsTrades ==
    ASSUME TypeOK, OneTradePerPosition, NEW opened, NEW closed, TableStep(opened, closed)
    PROVE  OneTradePerPosition'
  BY DEF TypeOK, OneTradePerPosition, TableStep

LEMMA TableStepIsLedgerStep ==
    ASSUME TypeOK, TypeOK', NEW opened, NEW closed, TableStep(opened, closed)
    PROVE  Ledger!Next
<1>1. Ledger!Commit(opened, closed)
  <2>1. [p \in Positions |-> pos'[p].status]
          = [p \in Positions |-> IF p \in closed THEN "CLOSED"
                                 ELSE IF p \in opened THEN "OPEN"
                                 ELSE [q \in Positions |-> pos[q].status][p]]
    BY DEF TableStep
  <2>2. trades' = [p \in Positions |-> IF p \in closed THEN trades[p] + 1 ELSE trades[p]]
    BY DEF TableStep, TypeOK
  <2> QED
    BY <2>1, <2>2 DEF Ledger!Commit, TableStep
<1> QED
  BY <1>1 DEF Ledger!Next, TableStep

\* A position with no Trade row that is not free is OPEN.
LEMMA UnbookedIsOpen ==
    ASSUME TypeOK, OneTradePerPosition, NEW p \in Positions, trades[p] = 0,
           pos[p].status # "none"
    PROVE  pos[p].status = "OPEN"
  BY DEF TypeOK, OneTradePerPosition, PositionRow

LEMMA CommitIsTableStep ==
    ASSUME LedgerInv, SyncCommit
    PROVE  \E opened, closed \in SUBSET Positions : TableStep(opened, closed)
<1> USE DEF LedgerInv
<1> DEFINE new == CHOOSE f \in Injection(sync.create, FreePositions) : TRUE
           opened == {p \in Positions : \E o \in sync.create : new[o] = p}
           closed == sync.close
<1>1. new \in Injection(sync.create, FreePositions)
  BY DEF SyncCommit, ExistsInjection
<1>2. \A p \in opened : p \in Positions /\ pos[p].status = "none"
  BY <1>1 DEF Injection, FreePositions
<1>3. \A p \in closed : p \in Positions /\ pos[p].status = "OPEN"
  <2>1. \A p \in closed : p \in Positions /\ pos[p].status # "none"
    BY DEF ClosersKnowRows, TypeOK, SyncState
  <2>2. ASSUME NEW p \in closed
        PROVE  trades[p] = 0
    <3>1. ~(trades[p] > 0)
      BY DEF SyncCommit, UniqueViolated
    <3>2. trades[p] \in Nat
      BY <2>1 DEF TypeOK
    <3> QED
      BY <3>1, <3>2
  <2> QED
    BY <2>1, <2>2, UnbookedIsOpen
<1>4. ASSUME NEW p \in Positions
      PROVE  /\ p \in opened => pos'[p].status = "OPEN"
             /\ p \notin opened => pos'[p].status = SyncWritten(p).status
  BY DEF SyncCommit
<1>5. \A p \in Positions : trades'[p] = IF p \in closed THEN trades[p] + 1 ELSE trades[p]
  BY DEF SyncCommit, Traded
<1>6. TableStep(opened, closed)
  BY <1>2, <1>3, <1>4, <1>5 DEF TableStep, SyncWritten
<1>7. opened \in SUBSET Positions /\ closed \in SUBSET Positions
  BY <1>3
<1> HIDE DEF opened, closed
<1> QED
  BY <1>6, <1>7

\* No step makes a row free again, or lets a program hold on to a free one.
LEMMA KeepsRows ==
    ASSUME TypeOK, TypeOK', ClosersKnowRows, Next,
           \A p \in Positions : pos[p].status # "none" => pos'[p].status # "none"
    PROVE  ClosersKnowRows'
<1> DEFINE held == sync'.held \cup sync'.close
<1>1. ASSUME \A p \in held : p \in sync.held \cup sync.close
                             \/ (p \in Positions /\ pos[p].status # "none"),
             posSync'.do = "close" =>
                \/ posSync.do = "close" /\ posSync'.p = posSync.p
                \/ posSync'.p \in Positions /\ pos[posSync'.p].status # "none",
             closer'.pc = "commit" =>
                \/ closer.pc = "commit" /\ closer'.p = closer.p
                \/ closer'.p \in Positions /\ pos[closer'.p].status # "none"
      PROVE  ClosersKnowRows'
  BY <1>1 DEF ClosersKnowRows, TypeOK, SyncState
<1>s. ASSUME UNCHANGED <<posSync, closer>>,
             \A p \in held : p \in sync.held \cup sync.close
                            \/ (p \in Positions /\ pos[p].status # "none")
      PROVE  ClosersKnowRows'
  BY <1>1, <1>s
<1> HIDE DEF held
<1>2. ASSUME NEW b \in Buyers, BuyerStep(b) \/ BuyerCrash(b)
      PROVE  ClosersKnowRows'
  <2>1. UNCHANGED <<sync, posSync, closer>>
    BY <1>2
    DEF BuyerStep, BuyerCrash, EntryStart, EntrySelfHeal, EntrySkip, EntryGuard,
        AgentStart, SubmitAccepted, SubmitSimulated, SubmitTo, SubmitRejected,
        RecordSubmitted, RecordSimulated
  <2> QED
    BY <1>s, <2>1 DEF held
<1>3. CASE BrokerStep
  <2>1. UNCHANGED <<sync, posSync, closer>>
    BY <1>3 DEF BrokerStep, Fill, Expire, BracketSell, ExecutionsAge, allButBroker
  <2> QED
    BY <1>s, <2>1 DEF held
<1>4. CASE SyncStep \/ SyncCrash
  <2>1. UNCHANGED <<posSync, closer>>
    BY <1>4
    DEF SyncStep, SyncCrash, SyncRead, SyncOpenOrders, SyncExecutions, SyncFilledHeld,
        SyncFilledNew, SyncExpired, SyncExtended, SyncWorking, SyncPassB, SyncCommit,
        SyncRollback, allButSync
  <2>2. CASE SyncRead
    BY <1>s, <2>1, <2>2 DEF SyncRead, OpenPositions, TypeOK, SyncState, held
  <2>3. CASE SyncPassB
    <3>1. sync'.held = {} /\ sync'.close \subseteq sync.held
      BY <2>3 DEF SyncPassB, TypeOK, SyncState
    <3> QED
      BY <1>s, <2>1, <3>1 DEF held
  <2>4. CASE SyncCommit \/ SyncRollback \/ SyncCrash
    <3>0. sync' = IdleSync
      BY <2>4 DEF SyncCommit, SyncRollback, SyncCrash
    <3>1. sync'.held = {} /\ sync'.close = {}
      BY <3>0 DEF IdleSync
    <3> QED
      BY <1>s, <2>1, <3>1 DEF held
  <2> DEFINE Same == sync'.held = sync.held /\ sync'.close = sync.close
  <2>5. ASSUME SyncOpenOrders \/ SyncExecutions
        PROVE  Same
    <3>1. CASE SyncOpenOrders
      <4> PICK live : sync' = [sync EXCEPT !.pc = "execs", !.live = live]
        BY <3>1 DEF SyncOpenOrders
      <4> QED
        BY DEF TypeOK, SyncState
    <3>2. CASE SyncExecutions
      <4> PICK bought, sold :
             sync' = [sync EXCEPT !.pc = "passA", !.bought = bought, !.sold = sold]
        BY <3>2 DEF SyncExecutions
      <4> QED
        BY DEF TypeOK, SyncState
    <3> QED
      BY <2>5, <3>1, <3>2
  <2>6. ASSUME NEW o \in Orders, NEW p \in Positions, SyncFilledHeld(o, p)
        PROVE  Same
    BY <2>6 DEF SyncFilledHeld, RowDone, TypeOK, SyncState
  <2>7. ASSUME NEW o \in Orders, SyncFilledNew(o)
        PROVE  Same
    BY <2>7 DEF SyncFilledNew, RowDone, TypeOK, SyncState
  <2>8. ASSUME NEW o \in Orders, SyncExpired(o) \/ SyncExtended(o) \/ SyncWorking(o)
        PROVE  Same
    BY <2>8 DEF SyncExpired, SyncExtended, SyncWorking, RowDone, TypeOK, SyncState
  <2>9. ASSUME Same
        PROVE  ClosersKnowRows'
    BY <1>s, <2>1, <2>9 DEF held
  <2> QED
    BY <1>4, <2>2, <2>3, <2>4, <2>5, <2>6, <2>7, <2>8, <2>9 DEF SyncStep
<1>5. CASE PosSyncStep
  <2>1. UNCHANGED <<sync, closer>>
    BY <1>5 DEF PosSyncStep, PosSyncBroker, PosSyncRead, PosSyncPlan, PosSyncImport,
                PosSyncQty, PosSyncClose, PosSyncEnd, allButPosSync
  <2>2. CASE PosSyncRead
    <3>1. posSync'.do = "close" => posSync'.p \in Positions /\ pos[posSync'.p].status # "none"
      BY <2>2 DEF PosSyncRead, PosSyncPlan, OpenPositions, TypeOK, PosSyncState
    <3> QED
      BY <1>1, <2>1, <3>1 DEF held
  <2>3. CASE ~PosSyncRead
    <3>1. posSync'.do # "close"
      <4>1. posSync' = IdlePosSync \/ PosSyncBroker
        BY <1>5, <2>3 DEF PosSyncStep, PosSyncImport, PosSyncQty, PosSyncClose, PosSyncEnd
      <4>2. CASE PosSyncBroker
        BY <4>2 DEF PosSyncBroker, IdlePosSync
      <4> QED
        BY <4>1, <4>2 DEF IdlePosSync
    <3> QED
      BY <1>1, <2>1, <3>1 DEF held
  <2> QED
    BY <2>2, <2>3
<1>6. CASE PaperExitStep
  <2>1. UNCHANGED <<sync, posSync>>
    BY <1>6 DEF PaperExitStep, PaperExitFetch, PaperExitCommit, PaperExitAbort, allButCloser
  <2>2. closer'.pc = "commit" => closer'.p \in Positions /\ pos[closer'.p].status # "none"
    <3>1. ASSUME NEW p \in Positions, PaperExitFetch(p)
          PROVE  closer'.p \in Positions /\ pos[closer'.p].status # "none"
      BY <3>1 DEF PaperExitFetch, OpenPositions
    <3>2. CASE PaperExitCommit \/ PaperExitAbort
      BY <3>2 DEF PaperExitCommit, PaperExitAbort, TypeOK, CloserState
    <3> QED
      BY <1>6, <3>1, <3>2 DEF PaperExitStep
  <2> QED
    BY <1>1, <2>1, <2>2 DEF held
<1> QED
  BY <1>2, <1>3, <1>4, <1>5, <1>6 DEF Next

\* Any step is a step of the tables or leaves them alone.
LEMMA NextIsTableStep ==
    ASSUME LedgerInv, Next
    PROVE  \/ \E opened, closed \in SUBSET Positions : TableStep(opened, closed)
           \/ UNCHANGED trades /\ \A p \in Positions : pos'[p].status = pos[p].status
<1> DEFINE Goal == \/ \E opened, closed \in SUBSET Positions : TableStep(opened, closed)
                   \/ UNCHANGED trades /\ \A p \in Positions : pos'[p].status = pos[p].status
<1>f. ASSUME UNCHANGED <<pos, trades>>
      PROVE  Goal
  BY <1>f
<1>o. ASSUME NEW p \in Positions, pos[p].status = "none", UNCHANGED trades,
             \A q \in Positions : pos'[q].status = IF q = p THEN "OPEN" ELSE pos[q].status
      PROVE  Goal
  <2>1. TableStep({p}, {})
    BY <1>o DEF TableStep
  <2> QED
    BY <2>1
<1>c. ASSUME NEW p \in Positions, pos[p].status # "none", ~UniqueViolated({p}),
             \A q \in Positions : pos'[q].status = IF q = p THEN "CLOSED" ELSE pos[q].status,
             trades' = Traded({p})
      PROVE  Goal
  <2>1. trades[p] \in Nat /\ ~(trades[p] > 0)
    BY <1>c DEF UniqueViolated, LedgerInv, TypeOK
  <2>2. pos[p].status = "OPEN"
    BY <1>c, <2>1, UnbookedIsOpen DEF LedgerInv
  <2>3. TableStep({}, {p})
    BY <1>c, <2>2 DEF TableStep, Traded
  <2> QED
    BY <2>3
<1> HIDE DEF Goal
<1>1. ASSUME NEW b \in Buyers, BuyerStep(b) \/ BuyerCrash(b)
      PROVE  Goal
  <2>1. CASE RecordSimulated(b)
    <3> PICK p \in FreePositions :
           pos' = [pos EXCEPT ![p] = [status |-> "OPEN", sig |-> buyer[b].sig,
                                      qty |-> Lot, src |-> buyer[b].ord]]
      BY <2>1 DEF RecordSimulated
    <3>1. \A q \in Positions : pos'[q].status = IF q = p THEN "OPEN" ELSE pos[q].status
      BY DEF LedgerInv, TypeOK
    <3> QED
      BY <1>o, <2>1, <3>1 DEF RecordSimulated, FreePositions
  <2>2. CASE ~RecordSimulated(b)
    <3>1. UNCHANGED <<pos, trades>>
      BY <1>1, <2>2
      DEF BuyerStep, BuyerCrash, EntryStart, EntrySelfHeal, EntrySkip, EntryGuard,
          AgentStart, SubmitAccepted, SubmitSimulated, SubmitTo, SubmitRejected,
          RecordSubmitted, dbAndBroker
    <3> QED
      BY <1>f, <3>1
  <2> QED
    BY <2>1, <2>2
<1>2. CASE BrokerStep
  <2>1. UNCHANGED <<pos, trades>>
    BY <1>2 DEF BrokerStep, Fill, Expire, BracketSell, ExecutionsAge, allButBroker
  <2> QED
    BY <1>f, <2>1
<1>3. CASE SyncStep \/ SyncCrash
  <2>1. CASE SyncCommit
    BY <2>1, CommitIsTableStep DEF Goal
  <2>2. CASE ~SyncCommit
    <3>1. UNCHANGED <<pos, trades>>
      BY <1>3, <2>2
      DEF SyncStep, SyncCrash, SyncRead, SyncOpenOrders, SyncExecutions, SyncFilledHeld,
          SyncFilledNew, SyncExpired, SyncExtended, SyncWorking, SyncPassB, SyncRollback,
          dbAndBroker
    <3> QED
      BY <1>f, <3>1
  <2> QED
    BY <2>1, <2>2
<1>4. CASE PosSyncStep
  <2>1. CASE PosSyncImport
    <3>1. PICK p \in Positions : /\ p = CHOOSE x \in Positions : x \in FreePositions
                                 /\ pos[p].status = "none"
      BY <2>1 DEF PosSyncImport, FreePositions
    <3>2. \A q \in Positions : pos'[q].status = IF q = p THEN "OPEN" ELSE pos[q].status
      BY <2>1, <3>1 DEF PosSyncImport, LedgerInv, TypeOK
    <3>3. UNCHANGED trades
      BY <2>1 DEF PosSyncImport
    <3> QED
      BY <1>o, <3>1, <3>2, <3>3 DEF Goal
  <2>2. CASE PosSyncQty
    BY <2>2 DEF PosSyncQty, Goal, LedgerInv, TypeOK, PositionRow
  <2>3. CASE PosSyncClose
    <3>1. PICK p \in Positions : p = posSync.p /\ pos[p].status # "none"
      BY <2>3 DEF PosSyncClose, LedgerInv, ClosersKnowRows
    <3>2. /\ ~UniqueViolated({p}) /\ trades' = Traded({p})
          /\ \A q \in Positions : pos'[q].status = IF q = p THEN "CLOSED" ELSE pos[q].status
      BY <2>3, <3>1 DEF PosSyncClose, LedgerInv, TypeOK, PositionRow
    <3> QED
      BY <1>c, <3>1, <3>2 DEF Goal
  <2>4. CASE PosSyncBroker \/ PosSyncRead \/ PosSyncEnd
    BY <1>f, <2>4 DEF PosSyncBroker, PosSyncRead, PosSyncEnd
  <2> QED
    BY <1>4, <2>1, <2>2, <2>3, <2>4 DEF PosSyncStep
<1>5. CASE PaperExitStep
  <2>1. CASE PaperExitCommit
    <3>1. PICK p \in Positions : p = closer.p /\ pos[p].status # "none"
      BY <2>1 DEF PaperExitCommit, LedgerInv, ClosersKnowRows
    <3>2. /\ ~UniqueViolated({p}) /\ trades' = Traded({p})
          /\ \A q \in Positions : pos'[q].status = IF q = p THEN "CLOSED" ELSE pos[q].status
      BY <2>1, <3>1 DEF PaperExitCommit, LedgerInv, TypeOK, PositionRow
    <3> QED
      BY <1>c, <3>1, <3>2 DEF Goal
  <2>2. CASE ~PaperExitCommit
    BY <1>5, <1>f, <2>2 DEF PaperExitStep, PaperExitFetch, PaperExitAbort
  <2> QED
    BY <2>1, <2>2
<1> QED
  BY <1>1, <1>2, <1>3, <1>4, <1>5 DEF Next, Goal

-----------------------------------------------------------------------------
\* The types, one Trade for each closed row, and that the programs close rows
\* that exist hold together in every behaviour.
THEOREM LedgerInvariant == Spec => []LedgerInv
<1>1. Init => LedgerInv
  <2>1. Init => OneTradePerPosition /\ ClosersKnowRows
    BY DEF Init, OneTradePerPosition, ClosersKnowRows, NoPos, IdleSync, IdlePosSync
  <2> QED
    BY <2>1, InitTypeOK DEF LedgerInv
<1>2. LedgerInv /\ [Next]_vars => LedgerInv'
  <2> SUFFICES ASSUME LedgerInv, [Next]_vars PROVE LedgerInv'
    OBVIOUS
  <2>1. TypeOK'
    BY NextTypeOK DEF LedgerInv
  <2>2. CASE Next
    <3>1. CASE \E opened, closed \in SUBSET Positions : TableStep(opened, closed)
      <4> PICK opened \in SUBSET Positions, closed \in SUBSET Positions :
             TableStep(opened, closed)
        BY <3>1
      <4>1. OneTradePerPosition'
        BY TableStepKeepsTrades DEF LedgerInv
      <4>2. \A p \in Positions : pos[p].status # "none" => pos'[p].status # "none"
        BY DEF TableStep
      <4> QED
        BY <2>1, <2>2, <4>1, <4>2, KeepsRows DEF LedgerInv
    <3>2. CASE UNCHANGED trades /\ \A p \in Positions : pos'[p].status = pos[p].status
      <4>1. OneTradePerPosition'
        BY <3>2 DEF LedgerInv, OneTradePerPosition
      <4> QED
        BY <2>1, <2>2, <3>2, <4>1, KeepsRows DEF LedgerInv
    <3> QED
      BY <2>2, <3>1, <3>2, NextIsTableStep
  <2>3. CASE UNCHANGED vars
    BY <2>1, <2>3 DEF LedgerInv, OneTradePerPosition, ClosersKnowRows, vars
  <2> QED
    BY <2>2, <2>3
<1> QED
  BY <1>1, <1>2, PTL DEF Spec

\* T-DEDUP for any number of positions and any interleaving: the unique key
\* on trades and the transactions are enough for one Trade row per position.
THEOREM OneTrade == Spec => []OneTradePerPosition
<1>1. LedgerInv => OneTradePerPosition
  BY DEF LedgerInv
<1> QED
  BY <1>1, LedgerInvariant, PTL

\* Every behaviour of the five programs is one of the ledger: a position is
\* opened once, closed once, and booked by the commit that closes it.
THEOREM ImplementsLedger == Spec => LedgerSpec
<1>1. Init => Ledger!Init
  BY DEF Init, Ledger!Init, NoPos
<1>2. LedgerInv /\ LedgerInv' /\ [Next]_vars => [Ledger!Next]_Ledger!vars
  <2> SUFFICES ASSUME LedgerInv, LedgerInv', [Next]_vars
               PROVE  [Ledger!Next]_Ledger!vars
    OBVIOUS
  <2>1. CASE \E opened, closed \in SUBSET Positions : TableStep(opened, closed)
    BY <2>1, TableStepIsLedgerStep DEF LedgerInv
  <2>2. CASE UNCHANGED trades /\ \A p \in Positions : pos'[p].status = pos[p].status
    BY <2>2 DEF Ledger!vars
  <2> QED
    BY <2>1, <2>2, NextIsTableStep DEF vars
<1> QED
  BY <1>1, <1>2, LedgerInvariant, PTL DEF Spec, LedgerSpec, Ledger!Spec

-----------------------------------------------------------------------------
(***************************************************************************)
(* The rows of orders, under every hazard: a row exists only for an order  *)
(* the broker knows, two buyers never record the same order, and a pass of *)
(* sync_order_status works on rows that stay active until its commit.      *)
(***************************************************************************)
Active(o)   == order[o].status \in {"SUBMITTED", "PARTIAL"}
Standing(o) == order[o].status \notin {"none", "CANCELLED"}

RowsFollowBroker ==
    \A o \in Orders :
       /\ broker[o].state = "none" => order[o] = NoRow /\ broker[o] = NoBrokerOrder
       /\ order[o].status = "none" <=> order[o].sig = NoSignal

RecordsNewOrder(b) ==
    /\ buyer[b].ord \in Orders
    /\ broker[buyer[b].ord].state # "none"
    /\ order[buyer[b].ord] = NoRow

BuyersHoldNewOrders ==
    /\ \A b \in Buyers :
          /\ buyer[b].pc \in {"submit", "record"} => buyer[b].sig \in Signals
          /\ buyer[b].pc = "record" => RecordsNewOrder(b)
    /\ \A b1, b2 \in Buyers :
          buyer[b1].pc = "record" /\ buyer[b2].pc = "record" /\ buyer[b1].ord = buyer[b2].ord
             => b1 = b2

SyncHoldsActive ==
    /\ sync.pc \in {"idle", "open", "execs"} =>
          sync.create = {} /\ sync.rearm = {} /\ \A o \in Orders : sync.ord[o] = "keep"
    /\ sync.pc = "idle" => sync = IdleSync
    /\ \A o \in Orders :
          /\ o \in sync.rows => sync.ord[o] = "keep" /\ Active(o)
          /\ sync.ord[o] # "keep" => Active(o)
          /\ o \in sync.create => sync.ord[o] \in {"PARTIAL", "FILLED"}
          /\ sync.ord[o] \in {"PARTIAL", "FILLED"} =>
                sync.ord[o] = FillStatus(o) /\ sync.bought[o] > 0

RowsInv == TypeOK /\ RowsFollowBroker /\ BuyersHoldNewOrders /\ SyncHoldsActive

\* A row that stays what it was keeps whatever sync has planned for it.
LEMMA SyncKeepsPlan ==
    ASSUME SyncHoldsActive, UNCHANGED sync,
           \A o \in Orders : Active(o) => Active(o)'
    PROVE  SyncHoldsActive'
  BY DEF SyncHoldsActive, Active, FillStatus

\* The buyer that records makes a row of an order that had none.
LEMMA RecordMakesRow ==
    ASSUME RowsInv, NEW b \in Buyers, RecordSubmitted(b) \/ RecordSimulated(b)
    PROVE  /\ buyer[b].pc = "record" /\ RecordsNewOrder(b) /\ buyer[b].sig \in Signals
           /\ \E status \in {"SUBMITTED", "FILLED"}, filled \in 0..Lot :
                 order' = [order EXCEPT ![buyer[b].ord] =
                             [status |-> status, sig |-> buyer[b].sig, filled |-> filled]]
           /\ buyer' = [buyer EXCEPT ![b] = Finished(b, buyer[b].sig)]
           /\ signal' = [signal EXCEPT ![buyer[b].sig] = "TRIGGERED"]
           /\ UNCHANGED <<broker, sync>>
<1>1. buyer[b].pc = "record"
  BY DEF RecordSubmitted, RecordSimulated
<1>2. RecordsNewOrder(b) /\ buyer[b].sig \in Signals
  BY <1>1 DEF RowsInv, BuyersHoldNewOrders
<1>3. 0 \in 0..Lot /\ Lot \in 0..Lot
  BY LotAssumption
<1>4. RecordRow(b, "SUBMITTED", 0) \/ RecordRow(b, "FILLED", Lot)
  BY DEF RecordSubmitted, RecordSimulated
<1>5. \E status \in {"SUBMITTED", "FILLED"}, filled \in 0..Lot :
         RecordRow(b, status, filled)
  BY <1>3, <1>4
<1> QED
  BY <1>1, <1>2, <1>5 DEF RecordSubmitted, RecordSimulated, RecordRow

\* A buyer that is finished with a signal holds no order.
LEMMA FinishedHolds ==
    ASSUME NEW b, NEW s
    PROVE  /\ Finished(b, s).pc \in {"idle", "loop"}
           /\ Finished(b, s).todo \subseteq buyer[b].todo \ {s}
  BY DEF Finished, IdleBuyer

\* The order a submission takes is one the broker did not know.
Takes(b, state, o, ref) ==
    /\ buyer[b].pc = "submit"
    /\ broker' = [broker EXCEPT ![o] = [NoBrokerOrder EXCEPT !.state = state, !.ref = ref]]
    /\ buyer' = [buyer EXCEPT ![b] = [@ EXCEPT !.pc = "record", !.ord = o]]
    /\ UNCHANGED <<signal, order, pos, sync>>

LEMMA SubmitTakesFree ==
    ASSUME TypeOK, NEW b \in Buyers, NEW state, SubmitTo(b, state)
    PROVE  \E o \in FreeOrders, ref \in NullableSignal : Takes(b, state, o, ref)
<1> DEFINE o == CHOOSE x \in Orders : x \in FreeOrders
           ref == IF b \in EntryRuns THEN buyer[b].sig ELSE NoSignal
<1>1. o \in FreeOrders
  BY DEF SubmitTo, FreeOrders
<1>2. ref \in NullableSignal
  BY DEF TypeOK, BuyerState, NullableSignal
<1>3. Takes(b, state, o, ref)
  BY DEF SubmitTo, Takes
<1> HIDE DEF o, ref
<1> QED
  BY <1>1, <1>2, <1>3

\* What a buyer does before it submits leaves the orders alone.
Choosing(b) ==
    \/ EntryStart(b) \/ SubmitRejected(b) \/ BuyerCrash(b)
    \/ \E s \in Signals : EntrySelfHeal(b, s) \/ EntrySkip(b, s) \/ EntryGuard(b, s)
                          \/ AgentStart(b, s)

LEMMA ChoosingHoldsNothing ==
    ASSUME TypeOK, NEW b \in Buyers, Choosing(b)
    PROVE  /\ \A c \in Buyers \ {b} : buyer'[c] = buyer[c]
           /\ buyer'[b].pc \in {"idle", "loop", "submit"}
           /\ buyer'[b].pc = "submit" => buyer'[b].sig \in Signals
           /\ UNCHANGED <<order, pos, broker, sync>>
<1> DEFINE Goal == /\ \A c \in Buyers \ {b} : buyer'[c] = buyer[c]
                   /\ buyer'[b].pc \in {"idle", "loop", "submit"}
                   /\ buyer'[b].pc = "submit" => buyer'[b].sig \in Signals
                   /\ UNCHANGED <<order, pos, broker, sync>>
<1> USE DEF dbAndBroker, TypeOK, BuyerState
<1>1. CASE EntryStart(b)
  BY <1>1 DEF EntryStart
<1>2. CASE SubmitRejected(b)
  BY <1>2, FinishedHolds DEF SubmitRejected
<1>3. CASE BuyerCrash(b)
  BY <1>3 DEF BuyerCrash, IdleBuyer
<1>4. ASSUME NEW s \in Signals, EntrySelfHeal(b, s) \/ EntrySkip(b, s)
      PROVE  /\ buyer' = [buyer EXCEPT ![b] = Finished(b, s)]
             /\ UNCHANGED <<order, pos, broker, sync>>
  BY <1>4 DEF EntrySelfHeal, EntrySkip
<1>5. ASSUME NEW s \in Signals, EntryGuard(b, s) \/ AgentStart(b, s)
      PROVE  /\ buyer' = [buyer EXCEPT ![b] = [@ EXCEPT !.pc = "submit", !.sig = s]]
             /\ UNCHANGED <<order, pos, broker, sync>>
  BY <1>5 DEF EntryGuard, AgentStart
<1>6. ASSUME NEW s \in Signals, \/ EntrySelfHeal(b, s) \/ EntrySkip(b, s)
                                 \/ EntryGuard(b, s) \/ AgentStart(b, s)
      PROVE  Goal
  <2>1. CASE EntrySelfHeal(b, s) \/ EntrySkip(b, s)
    BY <1>4, <2>1, FinishedHolds
  <2>2. CASE EntryGuard(b, s) \/ AgentStart(b, s)
    <3>1. /\ buyer' = [buyer EXCEPT ![b] = [@ EXCEPT !.pc = "submit", !.sig = s]]
          /\ UNCHANGED <<order, pos, broker, sync>>
      BY <1>5, <2>2
    <3>2. buyer'[b].pc = "submit" /\ buyer'[b].sig = s
      BY <3>1
    <3> QED
      BY <3>1, <3>2
  <2> QED
    BY <1>6, <2>1, <2>2
<1> QED
  BY <1>1, <1>2, <1>3, <1>6 DEF Choosing

\* A buyer's step is one of three.
LEMMA BuyerSteps ==
    ASSUME NEW b \in Buyers, BuyerStep(b) \/ BuyerCrash(b)
    PROVE  \/ Choosing(b)
           \/ "simulate" \in Hazards /\ SubmitTo(b, "simulated")
           \/ SubmitTo(b, "working")
           \/ RecordSubmitted(b) \/ RecordSimulated(b)
  BY DEF BuyerStep, Choosing, SubmitAccepted, SubmitSimulated

LEMMA BuyerKeepsRows ==
    ASSUME RowsInv, NEW b \in Buyers, BuyerStep(b) \/ BuyerCrash(b)
    PROVE  RowsInv'
<1>t. TypeOK /\ TypeOK'
  BY BuyerKeepsType DEF RowsInv
<1>1. CASE Choosing(b)
  <2>1. /\ \A c \in Buyers \ {b} : buyer'[c] = buyer[c]
        /\ buyer'[b].pc \in {"idle", "loop", "submit"}
        /\ buyer'[b].pc = "submit" => buyer'[b].sig \in Signals
        /\ UNCHANGED <<order, pos, broker, sync>>
    BY <1>t, <1>1, ChoosingHoldsNothing
  <2>2. SyncHoldsActive'
    BY <2>1, SyncKeepsPlan DEF RowsInv, Active
  <2>3. RowsFollowBroker'
    BY <2>1 DEF RowsInv, RowsFollowBroker
  <2>4. BuyersHoldNewOrders'
    BY <2>1 DEF RowsInv, BuyersHoldNewOrders, RecordsNewOrder
  <2> QED
    BY <1>t, <2>2, <2>3, <2>4 DEF RowsInv
<1>2. ASSUME NEW state \in {"working", "simulated"}, SubmitTo(b, state)
      PROVE  RowsInv'
  <2> PICK o \in FreeOrders, ref \in NullableSignal : Takes(b, state, o, ref)
    BY <1>t, <1>2, SubmitTakesFree
  <2> USE DEF Takes
  <2>1. o \in Orders /\ broker[o].state = "none" /\ order[o] = NoRow
    BY DEF FreeOrders, RowsInv, RowsFollowBroker
  <2>2. SyncHoldsActive'
    BY SyncKeepsPlan DEF RowsInv, Active
  <2>3. /\ broker'[o].state = state
        /\ \A x \in Orders \ {o} : broker'[x] = broker[x]
    BY <1>t, <2>1 DEF TypeOK, NoBrokerOrder
  <2>4. RowsFollowBroker'
    BY <2>1, <2>3 DEF RowsInv, RowsFollowBroker
  <2>5. /\ \A c \in Buyers \ {b} : buyer'[c] = buyer[c]
        /\ buyer'[b].pc = "record" /\ buyer'[b].ord = o /\ buyer'[b].sig = buyer[b].sig
    BY <1>t DEF TypeOK, BuyerState
  <2>6. BuyersHoldNewOrders'
    BY <2>1, <2>3, <2>5 DEF RowsInv, BuyersHoldNewOrders, RecordsNewOrder
  <2> QED
    BY <1>t, <2>2, <2>4, <2>6 DEF RowsInv
<1>3. CASE RecordSubmitted(b) \/ RecordSimulated(b)
  <2>1. /\ buyer[b].pc = "record" /\ RecordsNewOrder(b) /\ buyer[b].sig \in Signals
        /\ buyer' = [buyer EXCEPT ![b] = Finished(b, buyer[b].sig)]
        /\ UNCHANGED <<broker, sync>>
    BY <1>3, RecordMakesRow
  <2> PICK status \in {"SUBMITTED", "FILLED"}, filled \in 0..Lot :
        order' = [order EXCEPT ![buyer[b].ord] =
                    [status |-> status, sig |-> buyer[b].sig, filled |-> filled]]
    BY <1>3, RecordMakesRow
  <2> DEFINE o == buyer[b].ord
  <2>2. o \in Orders /\ broker[o].state # "none" /\ order[o] = NoRow
    BY <2>1 DEF RecordsNewOrder
  <2>3. /\ order'[o].status = status /\ order'[o].sig = buyer[b].sig
        /\ \A x \in Orders \ {o} : order'[x] = order[x]
    BY <1>t, <2>2 DEF TypeOK
  <2>4. \A c \in Buyers \ {b} : buyer'[c] = buyer[c]
    BY <1>t, <2>1 DEF TypeOK
  <2>5. buyer'[b].pc \in {"idle", "loop"}
    BY <1>t, <2>1, FinishedHolds DEF TypeOK
  <2>6. \A c \in Buyers \ {b} : buyer[c].pc = "record" => buyer[c].ord # o
    BY <2>1 DEF RowsInv, BuyersHoldNewOrders
  <2> HIDE DEF o
  <2>7. SyncHoldsActive'
    BY <2>1, <2>2, <2>3, SyncKeepsPlan DEF RowsInv, Active, NoRow
  <2>8. RowsFollowBroker'
    BY <2>1, <2>2, <2>3, NullAssumption DEF RowsInv, RowsFollowBroker
  <2>9. BuyersHoldNewOrders'
    BY <2>1, <2>3, <2>4, <2>5, <2>6 DEF RowsInv, BuyersHoldNewOrders, RecordsNewOrder
  <2> QED
    BY <1>t, <2>7, <2>8, <2>9 DEF RowsInv
<1> QED
  BY <1>1, <1>2, <1>3, BuyerSteps

\* The broker, or the babysitter's cancel: an order that is over stays as it
\* is, and no order starts to work.
BrokerMoves(o) ==
    /\ broker[o].state = "none" => broker'[o] = broker[o]
    /\ broker[o].state # "none" => broker'[o].state # "none"
    /\ broker[o].state \notin {"none", "working"} =>
          broker'[o].state = broker[o].state /\ broker'[o].filled = broker[o].filled
    /\ broker'[o].state = "working" => broker[o].state = "working"
    /\ "aging" \notin Hazards => broker'[o].aged = broker[o].aged
    /\ broker'[o].filled # broker[o].filled /\ "partial" \notin Hazards =>
          broker'[o].filled = Lot /\ broker'[o].state = "done"
    /\ broker[o].filled <= broker'[o].filled

LEMMA BrokerStepMoves ==
    ASSUME RowsInv, BrokerStep
    PROVE  /\ \A o \in Orders : BrokerMoves(o)
           /\ UNCHANGED <<signal, order, pos, buyer, sync>>
<1> USE DEF RowsInv, TypeOK, BrokerOrder, allButBroker
<1>0. \A o \in Orders : broker[o].state = "none" => broker[o].filled = 0 /\ broker[o].sold = 0
  BY DEF RowsFollowBroker, NoBrokerOrder
<1>1. ASSUME NEW x \in Orders, Fill(x), NEW o \in Orders
      PROVE  BrokerMoves(o)
  <2> PICK n \in 1..(Lot - broker[x].filled) :
           /\ "partial" \notin Hazards => n = Lot
           /\ broker' = [broker EXCEPT ![x] = [@ EXCEPT !.filled = broker[x].filled + n,
                   !.state = IF broker[x].filled + n = Lot THEN "done" ELSE "working"]]
    BY <1>1 DEF Fill
  <2>1. broker[x].state = "working"
    BY <1>1 DEF Fill
  <2>2. CASE o = x
    <3>1. /\ broker'[x].filled = broker[x].filled + n
          /\ broker'[x].state = (IF broker[x].filled + n = Lot THEN "done" ELSE "working")
          /\ broker'[x].aged = broker[x].aged
      OBVIOUS
    <3>2. broker[x].filled \in 0..Lot /\ Lot \in Nat
      BY LotAssumption
    <3>3. "partial" \notin Hazards => broker[x].filled + n = Lot
      BY <3>2
    <3> QED
      BY <2>1, <2>2, <3>1, <3>2, <3>3 DEF BrokerMoves
  <2>3. CASE o # x
    BY <2>3, LotAssumption DEF BrokerMoves
  <2> QED
    BY <2>2, <2>3
<1>2. ASSUME NEW x \in Orders, Expire(x) \/ ExecutionsAge(x), NEW o \in Orders
      PROVE  BrokerMoves(o)
  BY <1>2, LotAssumption DEF BrokerMoves, Expire, ExecutionsAge
<1>3. ASSUME NEW x \in Orders, BracketSell(x), NEW o \in Orders
      PROVE  BrokerMoves(o)
  <2>1. broker[x].state # "none"
    BY <1>0, <1>3 DEF BracketSell
  <2> QED
    BY <1>3, <2>1, LotAssumption DEF BrokerMoves, BracketSell
<1>4. UNCHANGED <<signal, order, pos, buyer, sync>>
  BY DEF BrokerStep, Fill, Expire, BracketSell, ExecutionsAge
<1> QED
  BY <1>1, <1>2, <1>3, <1>4 DEF BrokerStep

\* Pass A goes through one row and decides what the commit will write to it.
RowStep(o, status) ==
    /\ sync.pc = "passA" /\ o \in sync.rows
    /\ sync'.pc = "passA" /\ sync'.rows = sync.rows \ {o}
    /\ sync'.ord = [sync.ord EXCEPT ![o] = status]
    /\ sync'.live = sync.live /\ sync'.bought = sync.bought
    /\ sync'.rearm = IF status = "CANCELLED" THEN Rearmed(o) ELSE sync.rearm
    /\ sync'.create \subseteq
          sync.create \cup (IF status \in {"PARTIAL", "FILLED"} THEN {o} ELSE {})
    /\ status \in {"PARTIAL", "FILLED"} => status = FillStatus(o) /\ sync.bought[o] > 0
    /\ status = "CANCELLED" =>
          sync.bought[o] = 0 /\ (o \notin sync.live \/ "extend" \in Hazards)
    /\ \A x \in Orders : BrokerMoves(x)
    /\ "extend" \notin Hazards => UNCHANGED broker
    /\ UNCHANGED <<signal, order, pos, buyer>>

PassAStep(o) ==
    \/ \E p \in Positions : SyncFilledHeld(o, p)
    \/ SyncFilledNew(o) \/ SyncExpired(o) \/ SyncExtended(o) \/ SyncWorking(o)

LEMMA BrokerStays ==
    ASSUME RowsInv, UNCHANGED broker
    PROVE  \A o \in Orders : BrokerMoves(o)
  BY LotAssumption DEF RowsInv, TypeOK, BrokerOrder, BrokerMoves

LEMMA PassASteps ==
    ASSUME RowsInv, NEW o \in Orders, PassAStep(o)
    PROVE  \E status \in {"keep", "PARTIAL", "FILLED", "CANCELLED"} : RowStep(o, status)
<1> USE DEF RowsInv, TypeOK, allButSync, dbAndBroker
<1>b. UNCHANGED broker => \A x \in Orders : BrokerMoves(x)
  BY BrokerStays
<1>s. FillStatus(o) \in {"PARTIAL", "FILLED"}
  BY DEF FillStatus
<1>1. ASSUME NEW p \in Positions, SyncFilledHeld(o, p)
      PROVE  RowStep(o, FillStatus(o))
  BY <1>1, <1>b, <1>s DEF SyncFilledHeld, RowDone, RowStep, SyncState
<1>2. CASE SyncFilledNew(o)
  <2>1. RowStep(o, FillStatus(o))
    BY <1>2, <1>b, <1>s DEF SyncFilledNew, RowDone, RowStep, SyncState
  <2> QED
    BY <1>s, <2>1
<1>3. CASE SyncExpired(o)
  <2>1. RowStep(o, "CANCELLED")
    BY <1>3, <1>b DEF SyncExpired, RowDone, RowStep, SyncState
  <2> QED
    BY <2>1
<1>4. CASE SyncExtended(o)
  <2>1. broker' = broker \/ (broker[o].state = "working"
                             /\ broker' = [broker EXCEPT ![o].state = "done"])
    BY <1>4 DEF SyncExtended
  <2>2. \A x \in Orders : BrokerMoves(x)
    BY <1>b, <2>1, LotAssumption DEF BrokerMoves, BrokerOrder
  <2>3. RowStep(o, "CANCELLED")
    BY <1>4, <2>2 DEF SyncExtended, RowDone, RowStep, SyncState
  <2> QED
    BY <2>3
<1>5. CASE SyncWorking(o)
  <2>1. RowStep(o, "keep")
    BY <1>5, <1>b DEF SyncWorking, RowDone, RowStep, SyncState
  <2> QED
    BY <2>1
<1> QED
  BY <1>s, <1>1, <1>2, <1>3, <1>4, <1>5 DEF PassAStep

\* The commit writes to each row what pass A decided, and nothing else.
LEMMA CommitWrites ==
    ASSUME TypeOK, SyncCommit
    PROVE  /\ \A o \in Orders :
                 /\ order'[o].status = IF sync.ord[o] = "keep" THEN order[o].status
                                                               ELSE sync.ord[o]
                 /\ order'[o].sig = order[o].sig
                 /\ sync.ord[o] = "keep" => order'[o] = order[o]
           /\ signal' = [s \in Signals |-> IF s \in sync.rearm THEN "PENDING" ELSE signal[s]]
           /\ sync' = IdleSync
           /\ UNCHANGED <<broker, buyer>>
<1>1. ASSUME NEW o \in Orders
      PROVE  /\ order'[o].status = IF sync.ord[o] = "keep" THEN order[o].status
                                                           ELSE sync.ord[o]
             /\ order'[o].sig = order[o].sig
             /\ sync.ord[o] = "keep" => order'[o] = order[o]
  <2>0. order[o] \in OrderRow
    BY DEF TypeOK
  <2>1. order'[o] = CASE sync.ord[o] = "keep" -> order[o]
                      [] sync.ord[o] = "CANCELLED" -> [order[o] EXCEPT !.status = "CANCELLED"]
                      [] OTHER -> [order[o] EXCEPT !.status = sync.ord[o],
                                                   !.filled = sync.bought[o]]
    BY DEF SyncCommit
  <2>2. CASE sync.ord[o] = "keep"
    BY <2>1, <2>2
  <2>3. CASE sync.ord[o] = "CANCELLED"
    BY <2>0, <2>1, <2>3 DEF OrderRow
  <2>4. CASE sync.ord[o] \notin {"keep", "CANCELLED"}
    BY <2>0, <2>1, <2>4 DEF OrderRow
  <2> QED
    BY <2>2, <2>3, <2>4
<1> QED
  BY <1>1 DEF SyncCommit, allButSync

\* The two programs that only close and repair positions.
LEMMA ClosersLeaveOrders ==
    ASSUME PosSyncStep \/ PaperExitStep
    PROVE  UNCHANGED <<signal, order, broker, buyer, sync>>
  BY DEF PosSyncStep, PosSyncBroker, PosSyncRead, PosSyncPlan, PosSyncImport, PosSyncQty,
         PosSyncClose, PosSyncEnd, PaperExitStep, PaperExitFetch, PaperExitCommit,
         PaperExitAbort, allButPosSync, allButCloser

\* A pass that begins, reads, or ends without a commit.
LEMMA SyncSteps ==
    ASSUME SyncStep \/ SyncCrash
    PROVE  \/ SyncRead \/ SyncOpenOrders \/ SyncExecutions \/ SyncPassB
           \/ \E o \in Orders : PassAStep(o)
           \/ SyncCommit
           \/ sync' = IdleSync /\ UNCHANGED <<dbAndBroker, buyer>>
  BY DEF SyncStep, SyncCrash, SyncRollback, PassAStep, allButSync

LEMMA IdleSyncPlansNothing ==
    /\ IdleSync.pc = "idle" /\ IdleSync.rows = {} /\ IdleSync.create = {}
    /\ IdleSync.rearm = {} /\ IdleSync.live = {} /\ IdleSync.close = {}
    /\ \A o \in Orders : IdleSync.ord[o] = "keep" /\ IdleSync.bought[o] = 0
    /\ \A p \in Positions : IdleSync.qty[p] = 0 /\ IdleSync.link[p] = NoSignal
  BY DEF IdleSync

\* The reads of a pass decide nothing yet.
LEMMA ReadsPlan ==
    ASSUME TypeOK, SyncHoldsActive, SyncRead \/ SyncOpenOrders \/ SyncExecutions
    PROVE  /\ sync.pc \in {"idle", "open", "execs"} /\ sync'.pc \in {"open", "execs", "passA"}
           /\ sync'.create = {} /\ sync'.rearm = {} /\ \A o \in Orders : sync'.ord[o] = "keep"
           /\ sync'.rows = IF sync.pc = "idle" THEN {o \in Orders : Active(o)} ELSE sync.rows
           /\ UNCHANGED <<dbAndBroker, buyer>>
<1> USE DEF TypeOK, SyncState, SyncHoldsActive, allButSync
<1>1. CASE SyncRead
  BY <1>1 DEF SyncRead, Active
<1>2. CASE SyncOpenOrders
  <2> PICK live : sync' = [sync EXCEPT !.pc = "execs", !.live = live]
    BY <1>2 DEF SyncOpenOrders
  <2> QED
    BY <1>2 DEF SyncOpenOrders
<1>3. CASE SyncExecutions
  <2> PICK bought, sold : sync' = [sync EXCEPT !.pc = "passA", !.bought = bought, !.sold = sold]
    BY <1>3 DEF SyncExecutions
  <2> QED
    BY <1>3 DEF SyncExecutions
<1> QED
  BY <1>1, <1>2, <1>3

LEMMA PassBPlan ==
    ASSUME TypeOK, SyncPassB
    PROVE  /\ sync'.pc = "commit" /\ sync'.rows = sync.rows /\ sync'.ord = sync.ord
           /\ sync'.create = sync.create /\ sync'.rearm = sync.rearm
           /\ sync'.bought = sync.bought /\ sync.rows = {} /\ sync.pc = "passA"
           /\ sync'.close = {p \in sync.held : SoldFor(p)}
           /\ sync'.link = sync.link /\ sync'.qty = sync.qty
           /\ UNCHANGED <<dbAndBroker, buyer>>
<1> DEFINE close == {p \in sync.held : SoldFor(p)}
<1>1. sync' = [sync EXCEPT !.pc = "commit", !.close = close, !.held = {}, !.live = {},
                   !.sold = [o \in Orders |-> 0], !.sess = [p \in Positions |-> 0]]
  BY DEF SyncPassB
<1>2. sync.rows = {} /\ sync.pc = "passA" /\ UNCHANGED <<dbAndBroker, buyer>>
  BY DEF SyncPassB, allButSync
<1> HIDE DEF close
<1>3. /\ sync'.pc = "commit" /\ sync'.rows = sync.rows /\ sync'.ord = sync.ord
      /\ sync'.create = sync.create /\ sync'.rearm = sync.rearm /\ sync'.close = close
      /\ sync'.bought = sync.bought /\ sync'.link = sync.link /\ sync'.qty = sync.qty
  BY <1>1 DEF TypeOK, SyncState
<1> QED
  BY <1>2, <1>3 DEF close

LEMMA SyncKeepsRows ==
    ASSUME RowsInv, SyncStep \/ SyncCrash
    PROVE  RowsInv'
<1>t. TypeOK /\ TypeOK'
  BY SyncKeepsType DEF RowsInv
<1>a. ASSUME UNCHANGED <<order, broker, buyer>>, SyncHoldsActive'
      PROVE  RowsInv'
  BY <1>t, <1>a DEF RowsInv, RowsFollowBroker, BuyersHoldNewOrders, RecordsNewOrder
<1>1. CASE SyncRead \/ SyncOpenOrders \/ SyncExecutions
  <2>1. /\ sync.pc \in {"idle", "open", "execs"} /\ sync'.pc \in {"open", "execs", "passA"}
        /\ sync'.create = {} /\ sync'.rearm = {} /\ \A o \in Orders : sync'.ord[o] = "keep"
        /\ sync'.rows = IF sync.pc = "idle" THEN {o \in Orders : Active(o)} ELSE sync.rows
        /\ UNCHANGED <<order, broker, buyer>>
    BY <1>1, ReadsPlan DEF RowsInv, dbAndBroker
  <2>2. SyncHoldsActive'
    BY <2>1 DEF RowsInv, SyncHoldsActive, Active
  <2> QED
    BY <1>a, <2>1, <2>2
<1>2. CASE SyncPassB
  <2>1. /\ sync'.pc = "commit" /\ sync'.rows = sync.rows /\ sync'.ord = sync.ord
        /\ sync'.create = sync.create /\ sync'.rearm = sync.rearm
        /\ sync'.bought = sync.bought
        /\ UNCHANGED <<order, broker, buyer>>
    BY <1>2, <1>t, PassBPlan DEF dbAndBroker
  <2>2. SyncHoldsActive'
    BY <2>1 DEF RowsInv, SyncHoldsActive, Active, FillStatus
  <2> QED
    BY <1>a, <2>1, <2>2
<1>3. ASSUME NEW o \in Orders, PassAStep(o)
      PROVE  RowsInv'
  <2> PICK status \in {"keep", "PARTIAL", "FILLED", "CANCELLED"} : RowStep(o, status)
    BY <1>3, PassASteps
  <2> USE DEF RowStep
  <2>1. sync'.ord[o] = status /\ \A x \in Orders \ {o} : sync'.ord[x] = sync.ord[x]
    BY <1>t DEF TypeOK, SyncState
  <2>2. SyncHoldsActive'
    BY <2>1 DEF RowsInv, SyncHoldsActive, Active, FillStatus
  <2>3. RowsFollowBroker'
    BY DEF RowsInv, RowsFollowBroker, BrokerMoves
  <2>4. BuyersHoldNewOrders'
    BY DEF RowsInv, BuyersHoldNewOrders, RecordsNewOrder, BrokerMoves
  <2> QED
    BY <1>t, <2>2, <2>3, <2>4 DEF RowsInv
<1>4. CASE SyncCommit
  <2>1. /\ \A o \in Orders :
              /\ order'[o].status = IF sync.ord[o] = "keep" THEN order[o].status
                                                            ELSE sync.ord[o]
              /\ order'[o].sig = order[o].sig
              /\ sync.ord[o] = "keep" => order'[o] = order[o]
        /\ sync' = IdleSync
        /\ UNCHANGED <<broker, buyer>>
    BY <1>4, <1>t, CommitWrites
  <2>2. SyncHoldsActive'
    BY <2>1, IdleSyncPlansNothing DEF SyncHoldsActive
  <2>3. \A o \in Orders : order[o].status = "none" => order'[o] = order[o]
    BY <2>1 DEF RowsInv, SyncHoldsActive, Active
  <2>4. \A o \in Orders : order[o] = NoRow => order'[o] = NoRow
    BY <2>3 DEF NoRow
  <2>5. RowsFollowBroker'
    <3>1. ASSUME NEW o \in Orders
          PROVE  order'[o].status = "none" <=> order'[o].sig = NoSignal
      <4>1. CASE sync.ord[o] = "keep"
        BY <2>1, <4>1 DEF RowsInv, RowsFollowBroker
      <4>2. CASE sync.ord[o] # "keep"
        <5>1. order'[o].status # "none"
          <6>1. sync.ord[o] \in {"keep", "PARTIAL", "FILLED", "CANCELLED"}
            BY <1>t DEF TypeOK, SyncState
          <6> QED
            BY <2>1, <4>2, <6>1
        <5>2. order[o].status # "none"
          BY <4>2 DEF RowsInv, SyncHoldsActive, Active
        <5> QED
          BY <2>1, <5>1, <5>2 DEF RowsInv, RowsFollowBroker
      <4> QED
        BY <4>1, <4>2
    <3> QED
      BY <2>1, <2>4, <3>1 DEF RowsInv, RowsFollowBroker
  <2>6. BuyersHoldNewOrders'
    BY <2>1, <2>4 DEF RowsInv, BuyersHoldNewOrders, RecordsNewOrder
  <2> QED
    BY <1>t, <2>2, <2>5, <2>6 DEF RowsInv
<1>5. CASE sync' = IdleSync /\ UNCHANGED <<dbAndBroker, buyer>>
  <2>1. SyncHoldsActive'
    BY <1>5, IdleSyncPlansNothing DEF SyncHoldsActive
  <2> QED
    BY <1>5, <1>a, <2>1 DEF dbAndBroker
<1> QED
  BY <1>1, <1>2, <1>3, <1>4, <1>5, SyncSteps

LEMMA NextKeepsRows ==
    ASSUME RowsInv, [Next]_vars
    PROVE  RowsInv'
<1>t. TypeOK'
  BY NextTypeOK DEF RowsInv
<1>1. CASE BrokerStep
  <2>1. /\ \A o \in Orders : BrokerMoves(o)
        /\ UNCHANGED <<order, buyer, sync>>
    BY <1>1, BrokerStepMoves
  <2>2. RowsFollowBroker'
    BY <2>1 DEF RowsInv, RowsFollowBroker, BrokerMoves
  <2>3. BuyersHoldNewOrders'
    BY <2>1 DEF RowsInv, BuyersHoldNewOrders, RecordsNewOrder, BrokerMoves
  <2>4. SyncHoldsActive'
    BY <2>1, SyncKeepsPlan DEF RowsInv, Active
  <2> QED
    BY <1>t, <2>2, <2>3, <2>4 DEF RowsInv
<1>2. ASSUME UNCHANGED <<order, broker, buyer, sync>>
      PROVE  RowsInv'
  BY <1>t, <1>2
  DEF RowsInv, RowsFollowBroker, BuyersHoldNewOrders, RecordsNewOrder, SyncHoldsActive,
      Active, FillStatus
<1>3. CASE PosSyncStep \/ PaperExitStep
  BY <1>2, <1>3, ClosersLeaveOrders
<1>4. CASE UNCHANGED vars
  BY <1>2, <1>4 DEF vars
<1> QED
  BY <1>1, <1>3, <1>4, BuyerKeepsRows, SyncKeepsRows DEF Next

\* Under every hazard a row follows an order the broker has, no order is
\* recorded twice, and a pass of sync_order_status decides only about rows that
\* are still active when it commits.
THEOREM RowsInvariant == Spec => []RowsInv
<1>1. Init => RowsInv
  <2> SUFFICES ASSUME Init PROVE RowsInv
    OBVIOUS
  <2>1. RowsFollowBroker /\ BuyersHoldNewOrders
    BY DEF Init, RowsFollowBroker, BuyersHoldNewOrders, NoRow, IdleBuyer
  <2>2. SyncHoldsActive
    BY IdleSyncPlansNothing DEF Init, SyncHoldsActive
  <2> QED
    BY <2>1, <2>2, InitTypeOK DEF RowsInv
<1>2. RowsInv /\ [Next]_vars => RowsInv'
  BY NextKeepsRows
<1> QED
  BY <1>1, <1>2, PTL DEF Spec

-----------------------------------------------------------------------------
(***************************************************************************)
(* A signal and its orders.  check_entry_triggers and execute_signal_order *)
(* do not claim a signal before they buy for it, so two of them that have  *)
(* the same signal in hand may both order; when they keep apart, the tables *)
(* agree under every hazard.                                               *)
(***************************************************************************)
InHand(b) == buyer[b].todo
                \cup (IF buyer[b].pc \in {"submit", "record"} THEN {buyer[b].sig} ELSE {})

BuyersApart == \A b1, b2 \in Buyers : b1 # b2 => InHand(b1) \cap InHand(b2) = {}

InHandIsPending == \A b \in Buyers : \A s \in InHand(b) : signal[s] = "PENDING"

OneStandingOrder ==
    /\ \A o \in Orders : Standing(o) => signal[order[o].sig] = "TRIGGERED"
    /\ \A o1, o2 \in Orders :
          Standing(o1) /\ Standing(o2) /\ order[o1].sig = order[o2].sig => o1 = o2
    /\ \A s \in Signals :
          signal[s] = "TRIGGERED" => \E o \in Orders : order[o].sig = s /\ Standing(o)

RearmsWhatItCancels ==
    /\ \A o \in Orders : sync.ord[o] = "CANCELLED" => order[o].sig \in sync.rearm
    /\ \A s \in sync.rearm :
          \E o \in Orders : sync.ord[o] = "CANCELLED" /\ order[o].sig = s

SignalInv == InHandIsPending /\ OneStandingOrder /\ RearmsWhatItCancels

LEMMA FinishedInHand ==
    ASSUME TypeOK, NEW b \in Buyers, NEW s,
           buyer' = [buyer EXCEPT ![b] = Finished(b, s)]
    PROVE  InHand(b)' \subseteq buyer[b].todo \ {s}
  BY DEF TypeOK, InHand, Finished, IdleBuyer

\* What a buyer has in hand before it submits was PENDING, or has just become
\* SKIPPED and is laid aside.
LEMMA ChoosingKeepsPending ==
    ASSUME TypeOK, NEW b \in Buyers, Choosing(b)
    PROVE  \/ /\ UNCHANGED signal
              /\ \A s \in InHand(b)' : s \in InHand(b) \/ (s \in Signals /\ signal[s] = "PENDING")
           \/ \E s \in InHand(b) : /\ signal' = [signal EXCEPT ![s] = "SKIPPED"]
                                   /\ InHand(b)' \subseteq InHand(b) \ {s}
<1> DEFINE Kept == /\ UNCHANGED signal
                   /\ \A s \in InHand(b)' :
                         s \in InHand(b) \/ (s \in Signals /\ signal[s] = "PENDING")
<1>1. CASE EntryStart(b)
  <2>1. buyer'[b].pc = "loop" /\ buyer'[b].todo = {s \in Signals : signal[s] = "PENDING"}
    BY <1>1 DEF EntryStart, TypeOK, BuyerState
  <2>2. InHand(b)' = {s \in Signals : signal[s] = "PENDING"}
    BY <2>1 DEF InHand
  <2> QED
    BY <1>1, <2>2 DEF EntryStart, dbAndBroker
<1>2. CASE SubmitRejected(b)
  <2>1. InHand(b)' \subseteq buyer[b].todo
    BY <1>2, FinishedInHand DEF SubmitRejected
  <2> QED
    BY <1>2, <2>1 DEF SubmitRejected, dbAndBroker, InHand
<1>3. CASE BuyerCrash(b)
  <2>1. InHand(b)' = {}
    BY <1>3 DEF BuyerCrash, IdleBuyer, TypeOK, InHand
  <2> QED
    BY <1>3, <2>1 DEF BuyerCrash, dbAndBroker
<1>4. ASSUME NEW s \in Signals, EntrySelfHeal(b, s)
      PROVE  /\ s \in InHand(b)
             /\ signal' = [signal EXCEPT ![s] = "SKIPPED"]
             /\ InHand(b)' \subseteq InHand(b) \ {s}
  <2>1. InHand(b)' \subseteq buyer[b].todo \ {s}
    BY <1>4, FinishedInHand DEF EntrySelfHeal
  <2>2. InHand(b) = buyer[b].todo /\ s \in buyer[b].todo
    BY <1>4 DEF EntrySelfHeal, InHand
  <2> QED
    BY <1>4, <2>1, <2>2 DEF EntrySelfHeal
<1>5. ASSUME NEW s \in Signals, EntrySkip(b, s)
      PROVE  Kept
  <2>1. InHand(b)' \subseteq buyer[b].todo \ {s}
    BY <1>5, FinishedInHand DEF EntrySkip
  <2> QED
    BY <1>5, <2>1 DEF EntrySkip, InHand, dbAndBroker
<1>6. ASSUME NEW s \in Signals, EntryGuard(b, s) \/ AgentStart(b, s)
      PROVE  Kept
  <2>1. /\ buyer' = [buyer EXCEPT ![b] = [@ EXCEPT !.pc = "submit", !.sig = s]]
        /\ UNCHANGED signal
        /\ s \in buyer[b].todo \/ signal[s] = "PENDING"
    BY <1>6 DEF EntryGuard, AgentStart, dbAndBroker
  <2>2. buyer'[b].todo = buyer[b].todo /\ buyer'[b].sig = s
    BY <2>1 DEF TypeOK, BuyerState
  <2>3. InHand(b)' \subseteq buyer[b].todo \cup {s}
    BY <2>2 DEF InHand
  <2> QED
    BY <2>1, <2>3 DEF InHand
<1> QED
  BY <1>1, <1>2, <1>3, <1>4, <1>5, <1>6 DEF Choosing

LEMMA BuyerKeepsSignals ==
    ASSUME RowsInv, RowsInv', SignalInv, BuyersApart, NEW b \in Buyers,
           BuyerStep(b) \/ BuyerCrash(b)
    PROVE  SignalInv'
<1>t. TypeOK /\ TypeOK'
  BY DEF RowsInv
<1>1. CASE Choosing(b)
  <2>1. /\ \A c \in Buyers \ {b} : InHand(c)' = InHand(c)
        /\ UNCHANGED <<order, sync>>
    BY <1>t, <1>1, ChoosingHoldsNothing DEF InHand
  <2>2. RearmsWhatItCancels'
    BY <2>1 DEF SignalInv, RearmsWhatItCancels
  <2>3. CASE /\ UNCHANGED signal
             /\ \A s \in InHand(b)' : s \in InHand(b) \/ (s \in Signals /\ signal[s] = "PENDING")
    <3>1. OneStandingOrder'
      BY <2>1, <2>3 DEF SignalInv, OneStandingOrder, Standing
    <3>2. InHandIsPending'
      BY <2>1, <2>3 DEF SignalInv, InHandIsPending
    <3> QED
      BY <2>2, <3>1, <3>2 DEF SignalInv
  <2>4. CASE \E s \in InHand(b) : /\ signal' = [signal EXCEPT ![s] = "SKIPPED"]
                                  /\ InHand(b)' \subseteq InHand(b) \ {s}
    <3> PICK s \in InHand(b) : /\ signal' = [signal EXCEPT ![s] = "SKIPPED"]
                               /\ InHand(b)' \subseteq InHand(b) \ {s}
      BY <2>4
    <3>1. signal[s] = "PENDING"
      BY DEF SignalInv, InHandIsPending
    <3>2. \A c \in Buyers \ {b} : s \notin InHand(c)
      BY DEF BuyersApart
    <3>3. \A r \in Signals : r # s => signal'[r] = signal[r]
      BY <1>t DEF TypeOK
    <3>4. \A o \in Orders : Standing(o) => order[o].sig \in Signals /\ order[o].sig # s
      <4>1. \A o \in Orders : Standing(o) => order[o].sig \in Signals
        BY <1>t DEF RowsInv, RowsFollowBroker, Standing, TypeOK, OrderRow, NullableSignal
      <4> QED
        BY <3>1, <4>1 DEF SignalInv, OneStandingOrder
    <3>5. \A r \in Signals : signal'[r] = "TRIGGERED" => signal[r] = "TRIGGERED"
      BY <1>t DEF TypeOK
    <3>6. OneStandingOrder'
      BY <2>1, <3>3, <3>4, <3>5 DEF SignalInv, OneStandingOrder, Standing
    <3>7. \A c \in Buyers : InHand(c) \subseteq Signals
      BY <1>t DEF InHand, TypeOK, BuyerState, RowsInv, BuyersHoldNewOrders
    <3>8. InHandIsPending'
      BY <2>1, <3>2, <3>3, <3>7 DEF SignalInv, InHandIsPending
    <3> QED
      BY <2>2, <3>6, <3>8 DEF SignalInv
  <2> QED
    BY <1>t, <1>1, <2>3, <2>4, ChoosingKeepsPending
<1>2. ASSUME NEW state \in {"working", "simulated"}, SubmitTo(b, state)
      PROVE  SignalInv'
  <2> PICK o \in FreeOrders, ref \in NullableSignal : Takes(b, state, o, ref)
    BY <1>t, <1>2, SubmitTakesFree
  <2>1. /\ \A c \in Buyers \ {b} : buyer'[c] = buyer[c]
        /\ buyer'[b].pc = "record" /\ buyer'[b].sig = buyer[b].sig
        /\ buyer'[b].todo = buyer[b].todo /\ buyer[b].pc = "submit"
        /\ UNCHANGED <<signal, order, sync>>
    BY <1>t DEF Takes, TypeOK, BuyerState
  <2>2. \A c \in Buyers : InHand(c)' = InHand(c)
    BY <2>1 DEF InHand
  <2> QED
    BY <2>1, <2>2
    DEF SignalInv, InHandIsPending, OneStandingOrder, Standing, RearmsWhatItCancels
<1>3. CASE RecordSubmitted(b) \/ RecordSimulated(b)
  <2>0. RecordsNewOrder(b) /\ buyer[b].sig \in Signals
    BY <1>3, RecordMakesRow
  <2> PICK o \in Orders, s \in Signals : o = buyer[b].ord /\ s = buyer[b].sig
    BY <2>0 DEF RecordsNewOrder
  <2>1. /\ buyer[b].pc = "record" /\ RecordsNewOrder(b) /\ s \in Signals
        /\ buyer' = [buyer EXCEPT ![b] = Finished(b, s)]
        /\ signal' = [signal EXCEPT ![s] = "TRIGGERED"]
        /\ UNCHANGED <<broker, sync>>
    BY <1>3, RecordMakesRow
  <2> PICK status \in {"SUBMITTED", "FILLED"}, filled \in 0..Lot :
         order' = [order EXCEPT ![buyer[b].ord] =
                     [status |-> status, sig |-> buyer[b].sig, filled |-> filled]]
    BY <1>3, RecordMakesRow
  <2>2. order' = [order EXCEPT ![o] = [status |-> status, sig |-> s, filled |-> filled]]
    OBVIOUS
  <2>3. ~Standing(o) /\ ~Active(o)
    BY <2>1 DEF RecordsNewOrder, NoRow, Standing, Active
  <2>4. /\ order'[o].sig = s /\ order'[o].status \in {"SUBMITTED", "FILLED"}
        /\ \A x \in Orders \ {o} : order'[x] = order[x]
    BY <1>t, <2>2, <2>3 DEF TypeOK
  <2>5. signal'[s] = "TRIGGERED" /\ \A r \in Signals \ {s} : signal'[r] = signal[r]
    BY <1>t, <2>1 DEF TypeOK
  <2>6. /\ s \in InHand(b)
        /\ InHand(b)' \subseteq InHand(b) \ {s}
        /\ \A c \in Buyers \ {b} : InHand(c)' = InHand(c)
    <3>1. InHand(b)' \subseteq buyer[b].todo \ {s}
      BY <1>t, <2>1, FinishedInHand
    <3> QED
      BY <1>t, <2>1, <3>1 DEF InHand, TypeOK
  <2>7. signal[s] = "PENDING" /\ \A c \in Buyers \ {b} : s \notin InHand(c)
    BY <2>6 DEF SignalInv, InHandIsPending, BuyersApart
  <2>8. \A c \in Buyers : InHand(c) \subseteq Signals
    BY <1>t DEF InHand, TypeOK, BuyerState, RowsInv, BuyersHoldNewOrders
  <2>9. \A x \in Orders : Standing(x) => order[x].sig \in Signals /\ order[x].sig # s
    <3>1. \A x \in Orders : Standing(x) => order[x].sig \in Signals
      BY <1>t DEF RowsInv, RowsFollowBroker, Standing, TypeOK, OrderRow, NullableSignal
    <3> QED
      BY <2>7, <3>1 DEF SignalInv, OneStandingOrder
  <2>10. InHandIsPending'
    BY <2>5, <2>6, <2>7, <2>8 DEF SignalInv, InHandIsPending
  <2>a. /\ Standing(o)'
        /\ \A x \in Orders \ {o} : Standing(x)' <=> Standing(x)
    BY <2>4 DEF Standing
  <2>11. OneStandingOrder'
    <3>1. \A x \in Orders : Standing(x)' => signal'[order'[x].sig] = "TRIGGERED"
      BY <2>3, <2>4, <2>5, <2>9, <2>a DEF SignalInv, OneStandingOrder
    <3>2. \A x, y \in Orders :
             Standing(x)' /\ Standing(y)' /\ order'[x].sig = order'[y].sig => x = y
      BY <2>3, <2>4, <2>9, <2>a DEF SignalInv, OneStandingOrder
    <3>3. ASSUME NEW r \in Signals, signal'[r] = "TRIGGERED"
          PROVE  \E x \in Orders : order'[x].sig = r /\ Standing(x)'
      <4>1. CASE r = s
        BY <2>3, <2>4, <2>a, <4>1
      <4>2. CASE r # s
        <5>1. PICK x \in Orders : order[x].sig = r /\ Standing(x)
          BY <2>5, <3>3, <4>2 DEF SignalInv, OneStandingOrder
        <5> QED
          BY <2>3, <2>4, <2>a, <5>1
      <4> QED
        BY <4>1, <4>2
    <3> QED
      BY <3>1, <3>2, <3>3 DEF OneStandingOrder
  <2>12. RearmsWhatItCancels'
    <3>1. \A x \in Orders : sync.ord[x] = "CANCELLED" => x # o
      BY <2>3 DEF RowsInv, SyncHoldsActive
    <3> QED
      BY <2>1, <2>4, <3>1 DEF SignalInv, RearmsWhatItCancels
  <2> QED
    BY <2>10, <2>11, <2>12 DEF SignalInv
<1> QED
  BY <1>1, <1>2, <1>3, BuyerSteps

LEMMA SyncKeepsSignals ==
    ASSUME RowsInv, RowsInv', SignalInv, SyncStep \/ SyncCrash
    PROVE  SignalInv'
<1>t. TypeOK /\ TypeOK'
  BY DEF RowsInv
<1>a. ASSUME UNCHANGED <<signal, order, buyer>>, RearmsWhatItCancels'
      PROVE  SignalInv'
  BY <1>a DEF SignalInv, InHandIsPending, InHand, OneStandingOrder, Standing
<1>1. CASE SyncRead \/ SyncOpenOrders \/ SyncExecutions
  <2>1. /\ sync'.rearm = {} /\ \A o \in Orders : sync'.ord[o] = "keep"
        /\ UNCHANGED <<signal, order, buyer>>
    BY <1>1, <1>t, ReadsPlan DEF RowsInv, dbAndBroker
  <2> QED
    BY <1>a, <2>1 DEF RearmsWhatItCancels
<1>2. CASE SyncPassB
  <2>1. /\ sync'.rearm = sync.rearm /\ sync'.ord = sync.ord
        /\ UNCHANGED <<signal, order, buyer>>
    BY <1>2, <1>t, PassBPlan DEF dbAndBroker
  <2> QED
    BY <1>a, <2>1 DEF SignalInv, RearmsWhatItCancels
<1>3. ASSUME NEW o \in Orders, PassAStep(o)
      PROVE  SignalInv'
  <2> PICK status \in {"keep", "PARTIAL", "FILLED", "CANCELLED"} : RowStep(o, status)
    BY <1>3, PassASteps
  <2>1. /\ sync'.ord[o] = status /\ \A x \in Orders \ {o} : sync'.ord[x] = sync.ord[x]
        /\ sync.ord[o] = "keep"
        /\ UNCHANGED <<signal, order, buyer>>
    BY <1>t DEF RowStep, TypeOK, SyncState, RowsInv, SyncHoldsActive
  <2>2. CASE status = "CANCELLED"
    <3>1. Standing(o) /\ order[o].sig # NoSignal
      BY DEF RowStep, RowsInv, SyncHoldsActive, RowsFollowBroker, Active, Standing
    <3>2. sync'.rearm = sync.rearm \cup {order[o].sig}
      BY <2>2, <3>1 DEF RowStep, Rearmed, SignalInv, OneStandingOrder
    <3>3. RearmsWhatItCancels'
      BY <2>1, <2>2, <3>2 DEF SignalInv, RearmsWhatItCancels
    <3> QED
      BY <1>a, <2>1, <3>3
  <2>3. CASE status # "CANCELLED"
    <3>1. sync'.rearm = sync.rearm
      BY <2>3 DEF RowStep
    <3>2. RearmsWhatItCancels'
      BY <2>1, <2>3, <3>1 DEF SignalInv, RearmsWhatItCancels
    <3> QED
      BY <1>a, <2>1, <3>2
  <2> QED
    BY <2>2, <2>3
<1>4. CASE SyncCommit
  <2>1. /\ \A o \in Orders :
              /\ order'[o].status = IF sync.ord[o] = "keep" THEN order[o].status
                                                            ELSE sync.ord[o]
              /\ order'[o].sig = order[o].sig
        /\ signal' = [s \in Signals |-> IF s \in sync.rearm THEN "PENDING" ELSE signal[s]]
        /\ sync' = IdleSync
        /\ UNCHANGED <<broker, buyer>>
    BY <1>4, <1>t, CommitWrites
  <2>2. RearmsWhatItCancels'
    BY <2>1, IdleSyncPlansNothing DEF RearmsWhatItCancels
  <2>3. \A s \in Signals : signal'[s] = IF s \in sync.rearm THEN "PENDING" ELSE signal[s]
    BY <2>1
  <2>4. \A b \in Buyers : InHand(b) \subseteq Signals /\ InHand(b)' = InHand(b)
    BY <1>t, <2>1 DEF InHand, TypeOK, BuyerState, RowsInv, BuyersHoldNewOrders
  <2>5. InHandIsPending'
    BY <2>3, <2>4 DEF SignalInv, InHandIsPending
  <2>6. \A o \in Orders : Standing(o)' <=> Standing(o) /\ sync.ord[o] # "CANCELLED"
    <3>1. ASSUME NEW o \in Orders
          PROVE  Standing(o)' <=> Standing(o) /\ sync.ord[o] # "CANCELLED"
      <4>1. sync.ord[o] \in {"keep", "PARTIAL", "FILLED", "CANCELLED"}
        BY <1>t DEF TypeOK, SyncState
      <4>2. sync.ord[o] # "keep" => Standing(o)
        BY DEF RowsInv, SyncHoldsActive, Active, Standing
      <4> QED
        BY <2>1, <4>1, <4>2 DEF Standing
    <3> QED
      BY <3>1
  <2>7. \A o \in Orders : Standing(o) => order[o].sig \in Signals
    BY <1>t DEF RowsInv, RowsFollowBroker, Standing, TypeOK, OrderRow, NullableSignal
  <2>8. \A o \in Orders : Standing(o) /\ sync.ord[o] # "CANCELLED" => order[o].sig \notin sync.rearm
    <3>1. ASSUME NEW o \in Orders, Standing(o), order[o].sig \in sync.rearm
          PROVE  sync.ord[o] = "CANCELLED"
      <4>1. PICK x \in Orders : sync.ord[x] = "CANCELLED" /\ order[x].sig = order[o].sig
        BY <3>1 DEF SignalInv, RearmsWhatItCancels
      <4>2. Standing(x)
        BY <4>1 DEF RowsInv, SyncHoldsActive, Active, Standing
      <4> QED
        BY <3>1, <4>1, <4>2 DEF SignalInv, OneStandingOrder
    <3> QED
      BY <3>1
  <2>9. OneStandingOrder'
    <3>1. \A o \in Orders : Standing(o)' => signal'[order'[o].sig] = "TRIGGERED"
      BY <2>1, <2>3, <2>6, <2>7, <2>8 DEF SignalInv, OneStandingOrder
    <3>2. \A x, y \in Orders :
             Standing(x)' /\ Standing(y)' /\ order'[x].sig = order'[y].sig => x = y
      BY <2>1, <2>6 DEF SignalInv, OneStandingOrder
    <3>3. ASSUME NEW s \in Signals, signal'[s] = "TRIGGERED"
          PROVE  \E o \in Orders : order'[o].sig = s /\ Standing(o)'
      <4>1. s \notin sync.rearm /\ signal[s] = "TRIGGERED"
        BY <2>3, <3>3
      <4>2. PICK o \in Orders : order[o].sig = s /\ Standing(o)
        BY <4>1 DEF SignalInv, OneStandingOrder
      <4>3. sync.ord[o] # "CANCELLED"
        BY <4>1, <4>2 DEF SignalInv, RearmsWhatItCancels
      <4> QED
        BY <2>1, <2>6, <4>2, <4>3
    <3> QED
      BY <3>1, <3>2, <3>3 DEF OneStandingOrder
  <2> QED
    BY <2>2, <2>5, <2>9 DEF SignalInv
<1>5. CASE sync' = IdleSync /\ UNCHANGED <<dbAndBroker, buyer>>
  BY <1>5, <1>a, IdleSyncPlansNothing DEF RearmsWhatItCancels, dbAndBroker
<1> QED
  BY <1>1, <1>2, <1>3, <1>4, <1>5, SyncSteps

LEMMA NextKeepsSignals ==
    ASSUME RowsInv, RowsInv', SignalInv, BuyersApart, [Next]_vars
    PROVE  SignalInv'
<1>1. ASSUME UNCHANGED <<signal, order, buyer, sync>>
      PROVE  SignalInv'
  BY <1>1
  DEF SignalInv, InHandIsPending, InHand, OneStandingOrder, Standing, RearmsWhatItCancels
<1>2. CASE BrokerStep
  BY <1>1, <1>2, BrokerStepMoves
<1>3. CASE PosSyncStep \/ PaperExitStep
  BY <1>1, <1>3, ClosersLeaveOrders
<1>4. CASE UNCHANGED vars
  BY <1>1, <1>4 DEF vars
<1> QED
  BY <1>2, <1>3, <1>4, BuyerKeepsSignals, SyncKeepsSignals DEF Next

LEMMA SignalInvIsEnough ==
    ASSUME RowsInv, SignalInv
    PROVE  SignalMatchesOrders
<1>1. ASSUME NEW s \in Signals, signal[s] = "PENDING", NEW o \in Orders, order[o].sig = s
      PROVE  order[o].status = "CANCELLED"
  <2>1. order[o].status # "none"
    BY <1>1, NullAssumption DEF RowsInv, RowsFollowBroker
  <2> QED
    BY <1>1, <2>1 DEF SignalInv, OneStandingOrder, Standing
<1> QED
  BY <1>1 DEF SignalInv, OneStandingOrder, Standing, SignalMatchesOrders

\* As long as no two buyers have the same signal in hand, a signal waits for a
\* breakout or has an entry and never both: with any number of signals, orders
\* and buyers, under every hazard.
THEOREM SignalsMatch == Spec /\ []BuyersApart => []SignalMatchesOrders
<1>1. Init => SignalInv
  BY IdleSyncPlansNothing
  DEF Init, SignalInv, InHandIsPending, InHand, IdleBuyer, OneStandingOrder, Standing,
      NoRow, RearmsWhatItCancels
<1>2. RowsInv /\ RowsInv' /\ BuyersApart /\ SignalInv /\ [Next]_vars => SignalInv'
  BY NextKeepsSignals
<1>3. RowsInv /\ SignalInv => SignalMatchesOrders
  BY SignalInvIsEnough
<1> QED
  BY <1>1, <1>2, <1>3, RowsInvariant, PTL DEF Spec

\* A single program that buys, be it the task and the chat in turn, needs no
\* such hypothesis: it crashes, comes back, and the tables still agree.
THEOREM OneBuyerSignalsMatch ==
    ASSUME \A b1, b2 \in Buyers : b1 = b2
    PROVE  Spec => []SignalMatchesOrders
<1>1. BuyersApart
  BY DEF BuyersApart
<1> QED
  BY <1>1, SignalsMatch, PTL

-----------------------------------------------------------------------------
(***************************************************************************)
(* What a pass concludes from the broker's answers.  It asks for the open  *)
(* orders before it asks for the executions: an order that was missing from *)
(* the first answer was over, so the second shows all it will ever buy.    *)
(***************************************************************************)
Over(o) == broker[o].state \in {"done", "simulated"}

MissingIsOver ==
    sync.pc \in {"execs", "passA"} => \A o \in sync.rows \ sync.live : Over(o)

MissingIsCounted ==
    sync.pc = "passA" =>
       \A o \in sync.rows \ sync.live : sync.bought[o] = broker[o].filled

CancelInv ==
    /\ \A o \in Orders : ~broker[o].aged
    /\ MissingIsOver /\ MissingIsCounted
    /\ \A o \in Orders :
          order[o].status = "CANCELLED" \/ sync.ord[o] = "CANCELLED"
             => Over(o) /\ broker[o].filled = 0

\* The broker knows the orders of the rows a pass goes through.
LEMMA RowsAreKnown ==
    ASSUME RowsInv, NEW o \in sync.rows
    PROVE  o \in Orders /\ broker[o].state # "none"
<1>1. o \in Orders
  BY DEF RowsInv, TypeOK, SyncState
<1>2. order[o].status # "none"
  BY <1>1 DEF RowsInv, SyncHoldsActive, Active
<1> QED
  BY <1>1, <1>2 DEF RowsInv, RowsFollowBroker, NoRow

\* get_open_orders that answers, and the rows it misses.
LEMMA SeesOpenOrders ==
    ASSUME TypeOK, RowsInv, "blind" \notin Hazards, SyncOpenOrders
    PROVE  /\ sync'.pc = "execs" /\ sync'.rows = sync.rows /\ sync'.ord = sync.ord
           /\ sync'.bought = sync.bought
           /\ \A o \in sync.rows \ sync'.live : Over(o)
           /\ UNCHANGED <<dbAndBroker, buyer>>
<1>1. sync' = [sync EXCEPT !.pc = "execs", !.live = {o \in Orders : broker[o].state = "working"}]
  BY DEF SyncOpenOrders
<1>2. /\ sync'.pc = "execs" /\ sync'.rows = sync.rows /\ sync'.ord = sync.ord
      /\ sync'.bought = sync.bought
      /\ sync'.live = {o \in Orders : broker[o].state = "working"}
  BY <1>1 DEF TypeOK, SyncState
<1>3. ASSUME NEW o \in sync.rows, broker[o].state # "working"
      PROVE  Over(o)
  <2>1. o \in Orders /\ broker[o].state \in {"none", "working", "done", "simulated"}
    BY DEF TypeOK, SyncState, BrokerOrder
  <2>3. broker[o].state # "none"
    BY RowsAreKnown
  <2> QED
    BY <1>3, <2>1, <2>3 DEF Over
<1>4. \A o \in sync.rows \ sync'.live : Over(o)
  BY <1>2, <1>3 DEF TypeOK, SyncState
<1> QED
  BY <1>2, <1>4 DEF SyncOpenOrders, allButSync

\* get_executions that answers: everything bought that is young enough.
LEMMA SeesExecutions ==
    ASSUME TypeOK, SyncExecutions
    PROVE  /\ sync.pc = "execs" /\ sync'.pc = "passA" /\ sync'.rows = sync.rows
           /\ sync'.ord = sync.ord /\ sync'.live = sync.live
           /\ \A o \in Orders : sync'.bought[o] \in {0, broker[o].filled}
           /\ "blind" \notin Hazards =>
                 \A o \in Orders : ~broker[o].aged => sync'.bought[o] = broker[o].filled
           /\ UNCHANGED <<dbAndBroker, buyer>>
<1>1. PICK blind \in BOOLEAN :
        /\ blind => "blind" \in Hazards
        /\ sync' = [sync EXCEPT !.pc = "passA",
              !.bought = [o \in Orders |-> IF ~blind /\ ~broker[o].aged THEN broker[o].filled ELSE 0],
              !.sold   = [o \in Orders |-> IF ~blind /\ ~broker[o].aged THEN broker[o].sold ELSE 0]]
  BY DEF SyncExecutions
<1> DEFINE bought == [o \in Orders |-> IF ~blind /\ ~broker[o].aged THEN broker[o].filled ELSE 0]
           sold   == [o \in Orders |-> IF ~blind /\ ~broker[o].aged THEN broker[o].sold ELSE 0]
<1>2. sync' = [sync EXCEPT !.pc = "passA", !.bought = bought, !.sold = sold]
  BY <1>1
<1>3. /\ \A o \in Orders : bought[o] \in {0, broker[o].filled}
      /\ "blind" \notin Hazards =>
            \A o \in Orders : ~broker[o].aged => bought[o] = broker[o].filled
  BY <1>1
<1> HIDE DEF bought, sold
<1>4. /\ sync'.pc = "passA" /\ sync'.rows = sync.rows /\ sync'.ord = sync.ord
      /\ sync'.live = sync.live /\ sync'.bought = bought
  BY <1>2 DEF TypeOK, SyncState
<1> QED
  BY <1>3, <1>4 DEF SyncExecutions, allButSync

\* Between the answers and the commit the orders that are over stay so.
LEMMA MissingStaysOver ==
    ASSUME RowsInv, MissingIsOver, \A o \in Orders : BrokerMoves(o), UNCHANGED sync
    PROVE  MissingIsOver' /\ (MissingIsCounted => MissingIsCounted')
<1>1. sync.rows \subseteq Orders
  BY DEF RowsInv, TypeOK, SyncState
<1> QED
  BY <1>1 DEF MissingIsOver, MissingIsCounted, Over, BrokerMoves

LEMMA SyncKeepsMissing ==
    ASSUME RowsInv, MissingIsOver, "blind" \notin Hazards, SyncStep \/ SyncCrash
    PROVE  /\ MissingIsOver'
           /\ (\A o \in Orders : ~broker[o].aged) /\ MissingIsCounted => MissingIsCounted'
<1>t. TypeOK
  BY DEF RowsInv
<1>r. sync.rows \subseteq Orders
  BY <1>t DEF TypeOK, SyncState
<1>a. ASSUME sync'.pc \in {"idle", "open", "commit"}
      PROVE  MissingIsOver' /\ MissingIsCounted'
  BY <1>a DEF MissingIsOver, MissingIsCounted
<1>1. CASE SyncRead
  <2>1. sync'.pc = "open"
    BY <1>1, <1>t DEF SyncRead, TypeOK, SyncState
  <2> QED
    BY <1>a, <2>1
<1>2. CASE SyncOpenOrders
  <2>1. /\ sync'.pc = "execs" /\ sync'.rows = sync.rows /\ UNCHANGED broker
        /\ \A o \in sync.rows \ sync'.live : Over(o)
    BY <1>2, <1>t, SeesOpenOrders DEF dbAndBroker
  <2> QED
    BY <2>1 DEF MissingIsOver, MissingIsCounted, Over
<1>3. CASE SyncExecutions
  <2>1. /\ sync.pc = "execs" /\ sync'.rows = sync.rows /\ sync'.live = sync.live
        /\ \A o \in Orders : ~broker[o].aged => sync'.bought[o] = broker[o].filled
        /\ UNCHANGED broker
    BY <1>3, <1>t, SeesExecutions DEF dbAndBroker
  <2> QED
    BY <1>r, <2>1 DEF MissingIsOver, MissingIsCounted, Over
<1>4. CASE SyncPassB
  <2>1. sync'.pc = "commit"
    BY <1>4, <1>t, PassBPlan
  <2> QED
    BY <1>a, <2>1
<1>5. ASSUME NEW o \in Orders, PassAStep(o)
      PROVE  /\ MissingIsOver'
             /\ (\A x \in Orders : ~broker[x].aged) /\ MissingIsCounted => MissingIsCounted'
  <2> PICK status \in {"keep", "PARTIAL", "FILLED", "CANCELLED"} : RowStep(o, status)
    BY <1>5, PassASteps
  <2> QED
    BY <1>r DEF RowStep, MissingIsOver, MissingIsCounted, Over, BrokerMoves
<1>6. CASE SyncCommit \/ (sync' = IdleSync /\ UNCHANGED <<dbAndBroker, buyer>>)
  <2>1. sync'.pc = "idle"
    BY <1>6, <1>t, CommitWrites, IdleSyncPlansNothing
  <2> QED
    BY <1>a, <2>1
<1> QED
  BY <1>1, <1>2, <1>3, <1>4, <1>5, <1>6, SyncSteps

\* Buyers change what the broker knows only for an order it did not know.
LEMMA BuyersAndTheBroker ==
    ASSUME RowsInv, NEW b \in Buyers, BuyerStep(b) \/ BuyerCrash(b)
    PROVE  /\ UNCHANGED sync
           /\ \A o \in Orders :
                 \/ broker'[o] = broker[o]
                 \/ /\ broker[o].state = "none" /\ broker'[o].state \in {"working", "simulated"}
                    /\ broker'[o].filled = 0 /\ broker'[o].sold = 0 /\ ~broker'[o].aged
           /\ \A o \in Orders :
                 \/ order'[o] = order[o]
                 \/ /\ order[o].status = "none" /\ order'[o].status \in {"SUBMITTED", "FILLED"}
                    /\ buyer[b].pc = "record" /\ buyer[b].ord = o
<1>t. TypeOK
  BY DEF RowsInv
<1>1. CASE Choosing(b)
  BY <1>t, <1>1, ChoosingHoldsNothing
<1>2. ASSUME NEW state \in {"working", "simulated"}, SubmitTo(b, state)
      PROVE  /\ UNCHANGED <<order, sync>>
             /\ \A o \in Orders :
                   \/ broker'[o] = broker[o]
                   \/ /\ broker[o].state = "none" /\ broker'[o].state = state
                      /\ broker'[o].filled = 0 /\ broker'[o].sold = 0 /\ ~broker'[o].aged
  <2> PICK o \in FreeOrders, ref \in NullableSignal : Takes(b, state, o, ref)
    BY <1>t, <1>2, SubmitTakesFree
  <2>1. o \in Orders /\ broker[o].state = "none"
    BY DEF FreeOrders
  <2>2. /\ broker'[o].state = state /\ broker'[o].filled = 0 /\ broker'[o].sold = 0
        /\ ~broker'[o].aged
        /\ \A x \in Orders \ {o} : broker'[x] = broker[x]
    BY <1>t, <2>1 DEF TypeOK, NoBrokerOrder, Takes
  <2> QED
    BY <2>1, <2>2 DEF Takes
<1>3. CASE RecordSubmitted(b) \/ RecordSimulated(b)
  <2>1. /\ buyer[b].pc = "record" /\ RecordsNewOrder(b)
        /\ UNCHANGED <<broker, sync>>
    BY <1>3, RecordMakesRow
  <2> PICK status \in {"SUBMITTED", "FILLED"}, filled \in 0..Lot :
        order' = [order EXCEPT ![buyer[b].ord] =
                    [status |-> status, sig |-> buyer[b].sig, filled |-> filled]]
    BY <1>3, RecordMakesRow
  <2>2. buyer[b].ord \in Orders /\ order[buyer[b].ord].status = "none"
    BY <2>1 DEF RecordsNewOrder, NoRow
  <2> QED
    BY <1>t, <2>1, <2>2 DEF TypeOK
<1> QED
  BY <1>1, <1>2, <1>3, BuyerSteps

LEMMA NextKeepsCancelled ==
    ASSUME Hazards \cap {"extend", "blind", "aging"} = {}, RowsInv, CancelInv, [Next]_vars
    PROVE  CancelInv'
<1>t. TypeOK
  BY DEF RowsInv
<1>u. ASSUME UNCHANGED <<order, broker, sync>>
      PROVE  CancelInv'
  BY <1>u DEF CancelInv, MissingIsOver, MissingIsCounted, Over
<1>1. ASSUME NEW b \in Buyers, BuyerStep(b) \/ BuyerCrash(b)
      PROVE  CancelInv'
  <2>1. /\ UNCHANGED sync
        /\ \A o \in Orders :
              \/ broker'[o] = broker[o]
              \/ /\ broker[o].state = "none" /\ broker'[o].state \in {"working", "simulated"}
                 /\ broker'[o].filled = 0 /\ broker'[o].sold = 0 /\ ~broker'[o].aged
        /\ \A o \in Orders :
              order'[o] = order[o] \/ order'[o].status \in {"SUBMITTED", "FILLED"}
    BY <1>1, BuyersAndTheBroker
  <2>a. sync.rows \subseteq Orders /\ \A o \in sync.rows : broker[o].state # "none"
    BY RowsAreKnown
  <2>2. MissingIsOver' /\ MissingIsCounted'
    BY <2>1, <2>a DEF CancelInv, MissingIsOver, MissingIsCounted, Over
  <2> QED
    BY <2>1, <2>2 DEF CancelInv, Over
<1>2. CASE BrokerStep
  <2>1. (\A o \in Orders : BrokerMoves(o)) /\ UNCHANGED <<order, sync>>
    BY <1>2, BrokerStepMoves
  <2>2. MissingIsOver' /\ MissingIsCounted'
    BY <2>1, MissingStaysOver DEF CancelInv
  <2> QED
    BY <2>1, <2>2 DEF CancelInv, BrokerMoves, Over
<1>3. CASE SyncStep \/ SyncCrash
  <2>1. MissingIsOver' /\ MissingIsCounted'
    BY <1>3, SyncKeepsMissing DEF CancelInv
  <2>2. CASE SyncRead \/ SyncOpenOrders \/ SyncExecutions
    <3>1. /\ \A o \in Orders : sync'.ord[o] = "keep"
          /\ UNCHANGED <<order, broker>>
      BY <2>2, <1>t, ReadsPlan DEF RowsInv, dbAndBroker
    <3> QED
      BY <2>1, <3>1 DEF CancelInv, Over
  <2>3. CASE SyncPassB
    <3>1. sync'.ord = sync.ord /\ UNCHANGED <<order, broker>>
      BY <2>3, <1>t, PassBPlan DEF dbAndBroker
    <3> QED
      BY <2>1, <3>1 DEF CancelInv, Over
  <2>4. ASSUME NEW o \in Orders, PassAStep(o)
        PROVE  CancelInv'
    <3> PICK status \in {"keep", "PARTIAL", "FILLED", "CANCELLED"} : RowStep(o, status)
      BY <2>4, PassASteps
    <3>1. sync'.ord[o] = status /\ \A x \in Orders \ {o} : sync'.ord[x] = sync.ord[x]
      BY <1>t DEF RowStep, TypeOK, SyncState
    <3>2. status = "CANCELLED" => Over(o) /\ broker[o].filled = 0
      BY DEF RowStep, CancelInv, MissingIsOver, MissingIsCounted
    <3>3. UNCHANGED <<order, broker>>
      BY DEF RowStep
    <3> QED
      BY <2>1, <3>1, <3>2, <3>3 DEF CancelInv, Over
  <2>5. CASE SyncCommit
    <3>1. /\ \A o \in Orders :
                order'[o].status = IF sync.ord[o] = "keep" THEN order[o].status
                                                           ELSE sync.ord[o]
          /\ sync' = IdleSync
          /\ UNCHANGED broker
      BY <2>5, <1>t, CommitWrites
    <3> QED
      BY <2>1, <3>1, IdleSyncPlansNothing DEF CancelInv, Over
  <2>6. CASE sync' = IdleSync /\ UNCHANGED <<dbAndBroker, buyer>>
    BY <2>1, <2>6, IdleSyncPlansNothing DEF CancelInv, Over, dbAndBroker
  <2> QED
    BY <1>3, <2>2, <2>3, <2>4, <2>5, <2>6, SyncSteps
<1>4. CASE PosSyncStep \/ PaperExitStep
  BY <1>4, <1>u, ClosersLeaveOrders
<1>5. CASE UNCHANGED vars
  BY <1>5, <1>u DEF vars
<1> QED
  BY <1>1, <1>2, <1>3, <1>4, <1>5 DEF Next

\* While the broker's reads answer, executions are young and nobody cancels an
\* entry, an order with fills is never written off as CANCELLED: with any number
\* of buyers, crashes, partial fills, sales and simulated orders.
THEOREM CancelledUnfilled ==
    ASSUME Hazards \cap {"extend", "blind", "aging"} = {}
    PROVE  Spec => []CancelledMeansUnfilled
<1>1. Init => CancelInv
  BY IdleSyncPlansNothing DEF Init, CancelInv, MissingIsOver, MissingIsCounted, NoBrokerOrder, NoRow
<1>2. RowsInv /\ CancelInv /\ [Next]_vars => CancelInv'
  BY NextKeepsCancelled
<1>3. CancelInv => CancelledMeansUnfilled
  BY DEF CancelInv, CancelledMeansUnfilled
<1> QED
  BY <1>1, <1>2, <1>3, RowsInvariant, PTL DEF Spec

-----------------------------------------------------------------------------
(***************************************************************************)
(* Entries that fill in one execution.                                     *)
(***************************************************************************)
FillsAreWhole ==
    \A o \in Orders :
       /\ broker[o].filled \in {0, Lot}
       /\ broker[o].filled = Lot => broker[o].state # "working"
       /\ sync.bought[o] = 0 \/ (sync.bought[o] = Lot /\ broker[o].filled = Lot)
       /\ order[o].status # "PARTIAL" /\ sync.ord[o] # "PARTIAL"

LEMMA NextKeepsWhole ==
    ASSUME "partial" \notin Hazards, RowsInv, RowsInv', FillsAreWhole, [Next]_vars
    PROVE  FillsAreWhole'
<1> USE LotAssumption
<1>t. TypeOK /\ TypeOK'
  BY DEF RowsInv
<1>m. \A o \in Orders :
         /\ broker[o].filled \in 0..Lot /\ broker'[o].filled \in 0..Lot
         /\ sync.bought[o] \in 0..Lot /\ sync'.bought[o] \in 0..Lot
  BY <1>t DEF TypeOK, BrokerOrder, SyncState
<1>u. ASSUME UNCHANGED <<order, broker, sync>>
      PROVE  FillsAreWhole'
  BY <1>u DEF FillsAreWhole
<1>b. ASSUME \A o \in Orders : BrokerMoves(o), NEW o \in Orders
      PROVE  /\ broker'[o].filled \in {0, Lot}
             /\ broker'[o].filled = Lot => broker'[o].state # "working"
             /\ broker[o].filled = Lot => broker'[o].filled = Lot
  BY <1>b, <1>m DEF BrokerMoves, FillsAreWhole
<1>1. ASSUME NEW b \in Buyers, BuyerStep(b) \/ BuyerCrash(b)
      PROVE  FillsAreWhole'
  <2>1. /\ UNCHANGED sync
        /\ \A o \in Orders :
              \/ broker'[o] = broker[o]
              \/ /\ broker[o].state = "none" /\ broker'[o].state \in {"working", "simulated"}
                 /\ broker'[o].filled = 0
        /\ \A o \in Orders :
              order'[o] = order[o] \/ order'[o].status \in {"SUBMITTED", "FILLED"}
    BY <1>1, BuyersAndTheBroker
  <2>2. \A o \in Orders : broker[o].state = "none" => broker[o].filled = 0
    BY DEF RowsInv, RowsFollowBroker, NoBrokerOrder
  <2> QED
    BY <2>1, <2>2 DEF FillsAreWhole
<1>2. CASE BrokerStep
  <2>1. (\A o \in Orders : BrokerMoves(o)) /\ UNCHANGED <<order, sync>>
    BY <1>2, BrokerStepMoves
  <2> QED
    BY <1>b, <2>1 DEF FillsAreWhole
<1>3. CASE SyncStep \/ SyncCrash
  <2>1. CASE SyncRead \/ SyncOpenOrders
    <3>1. sync'.bought = sync.bought
      <4>1. CASE SyncRead
        BY <4>1, <1>t DEF SyncRead, TypeOK, SyncState
      <4>2. CASE SyncOpenOrders
        <5> PICK live : sync' = [sync EXCEPT !.pc = "execs", !.live = live]
          BY <4>2 DEF SyncOpenOrders
        <5> QED
          BY <1>t DEF TypeOK, SyncState
      <4> QED
        BY <2>1, <4>1, <4>2
    <3>2. (\A o \in Orders : sync'.ord[o] = "keep") /\ UNCHANGED <<order, broker>>
      BY <2>1, <1>t, ReadsPlan DEF RowsInv, dbAndBroker
    <3> QED
      BY <3>1, <3>2 DEF FillsAreWhole
  <2>2. CASE SyncExecutions
    <3>1. /\ sync'.ord = sync.ord /\ UNCHANGED <<order, broker>>
          /\ \A o \in Orders : sync'.bought[o] \in {0, broker[o].filled}
      BY <2>2, <1>t, SeesExecutions DEF dbAndBroker
    <3> QED
      BY <3>1 DEF FillsAreWhole
  <2>3. CASE SyncPassB
    <3>1. /\ sync'.ord = sync.ord /\ sync'.bought = sync.bought
          /\ UNCHANGED <<order, broker>>
      BY <2>3, <1>t, PassBPlan DEF dbAndBroker
    <3> QED
      BY <3>1 DEF FillsAreWhole
  <2>4. ASSUME NEW o \in Orders, PassAStep(o)
        PROVE  FillsAreWhole'
    <3> PICK status \in {"keep", "PARTIAL", "FILLED", "CANCELLED"} : RowStep(o, status)
      BY <2>4, PassASteps
    <3>1. sync'.ord[o] = status /\ \A x \in Orders \ {o} : sync'.ord[x] = sync.ord[x]
      BY <1>t DEF RowStep, TypeOK, SyncState
    <3>2. status # "PARTIAL"
      BY <1>m DEF RowStep, FillStatus, FillsAreWhole
    <3>3. (\A x \in Orders : BrokerMoves(x)) /\ sync'.bought = sync.bought /\ UNCHANGED order
      BY DEF RowStep
    <3> QED
      BY <1>b, <3>1, <3>2, <3>3 DEF FillsAreWhole
  <2>5. CASE SyncCommit
    <3>1. /\ \A o \in Orders :
                order'[o].status = IF sync.ord[o] = "keep" THEN order[o].status
                                                           ELSE sync.ord[o]
          /\ sync' = IdleSync
          /\ UNCHANGED broker
      BY <2>5, <1>t, CommitWrites
    <3> QED
      BY <3>1, IdleSyncPlansNothing DEF FillsAreWhole
  <2>6. CASE sync' = IdleSync /\ UNCHANGED <<dbAndBroker, buyer>>
    BY <2>6, IdleSyncPlansNothing DEF FillsAreWhole, dbAndBroker
  <2> QED
    BY <1>3, <2>1, <2>2, <2>3, <2>4, <2>5, <2>6, SyncSteps
<1>4. CASE PosSyncStep \/ PaperExitStep
  BY <1>4, <1>u, ClosersLeaveOrders
<1>5. CASE UNCHANGED vars
  BY <1>5, <1>u DEF vars
<1> QED
  BY <1>1, <1>2, <1>3, <1>4, <1>5 DEF Next

LEMMA WholeInvariant ==
    ASSUME "partial" \notin Hazards
    PROVE  Spec => []FillsAreWhole
<1>1. Init => FillsAreWhole
  BY LotAssumption, IdleSyncPlansNothing DEF Init, FillsAreWhole, NoBrokerOrder, NoRow
<1>2. RowsInv /\ RowsInv' /\ FillsAreWhole /\ [Next]_vars => FillsAreWhole'
  BY NextKeepsWhole
<1> QED
  BY <1>1, <1>2, RowsInvariant, PTL DEF Spec

-----------------------------------------------------------------------------
(***************************************************************************)
(* One entry at a time: the guard of check_entry_triggers looks for a row, *)
(* and the order it must not miss has one or is about to get one.          *)
(***************************************************************************)
Working(o)   == broker[o].state = "working"
Recording(o) == \E b \in Buyers : buyer[b].pc = "record" /\ buyer[b].ord = o

EntryInv ==
    /\ MissingIsOver
    /\ \A o \in Orders : Working(o) =>
          /\ Recording(o) \/ order[o].status = "SUBMITTED"
          /\ sync.ord[o] = "keep"
    /\ \A b \in Buyers : buyer[b].pc = "submit" => \A o \in Orders : ~Working(o)
    /\ OneWorkingEntry

OneEntryRun ==
    /\ Agents = {} /\ \A b1, b2 \in EntryRuns : b1 = b2
    /\ Hazards \cap {"crash", "partial", "extend", "blind"} = {}

LEMMA OneRunKeepsEntries ==
    ASSUME OneEntryRun, RowsInv, RowsInv', FillsAreWhole, EntryInv, NEW b \in Buyers,
           BuyerStep(b) \/ BuyerCrash(b)
    PROVE  EntryInv'
<1>t. TypeOK
  BY DEF RowsInv
<1>b. (\A c \in Buyers : c = b) /\ ~BuyerCrash(b)
  BY DEF OneEntryRun, Buyers, BuyerCrash
<1>r. \A o \in sync.rows : o \in Orders /\ broker[o].state # "none"
  BY RowsAreKnown
<1>m. MissingIsOver'
  <2>1. UNCHANGED sync /\ \A o \in Orders : broker'[o] = broker[o] \/ broker[o].state = "none"
    BY BuyersAndTheBroker
  <2> QED
    BY <1>r, <2>1 DEF EntryInv, MissingIsOver, Over
<1>1. CASE EntryGuard(b, buyer'[b].sig)
  <2>1. /\ buyer[b].pc = "loop" /\ ~AlreadyOrdered
        /\ UNCHANGED <<order, broker, sync>>
    BY <1>1 DEF EntryGuard, dbAndBroker
  <2>2. \A o \in Orders : ~Recording(o)
    BY <1>b, <2>1 DEF Recording
  <2>3. \A o \in Orders : ~Working(o)
    BY <2>1, <2>2 DEF EntryInv, AlreadyOrdered
  <2> QED
    BY <1>m, <2>1, <2>3 DEF EntryInv, Working, OneWorkingEntry
<1>2. CASE Choosing(b) /\ buyer'[b].pc \in {"idle", "loop"}
  <2>1. UNCHANGED <<order, broker, sync>>
    BY <1>t, <1>2, ChoosingHoldsNothing
  <2>2. buyer[b].pc # "record"
    BY <1>b, <1>2 DEF Choosing, EntryStart, SubmitRejected, EntrySelfHeal, EntrySkip,
                      EntryGuard, AgentStart
  <2>3. \A o \in Orders : ~Recording(o)
    BY <1>b, <2>2 DEF Recording
  <2> QED
    BY <1>b, <1>m, <1>2, <2>1, <2>3 DEF EntryInv, Working, OneWorkingEntry
<1>3. ASSUME NEW state \in {"working", "simulated"}, SubmitTo(b, state)
      PROVE  EntryInv'
  <2> PICK o \in FreeOrders, ref \in NullableSignal : Takes(b, state, o, ref)
    BY <1>t, <1>3, SubmitTakesFree
  <2>1. o \in Orders /\ broker[o].state = "none"
    BY DEF FreeOrders
  <2>2. /\ \A x \in Orders \ {o} : broker'[x] = broker[x]
        /\ buyer'[b].pc = "record" /\ buyer'[b].ord = o /\ buyer[b].pc = "submit"
        /\ UNCHANGED <<order, sync>>
    BY <1>t, <2>1 DEF Takes, TypeOK, BuyerState
  <2>3. \A x \in Orders : Working(x)' => x = o
    BY <2>2 DEF EntryInv, Working
  <2>4. Recording(o)'
    BY <2>2 DEF Recording
  <2>5. sync'.ord[o] = "keep"
    BY <2>1, <2>2 DEF RowsInv, RowsFollowBroker, SyncHoldsActive, Active, NoRow
  <2> QED
    BY <1>b, <1>m, <2>2, <2>3, <2>4, <2>5 DEF EntryInv, Working, OneWorkingEntry
<1>4. CASE RecordSubmitted(b) \/ RecordSimulated(b)
  <2>1. /\ buyer[b].pc = "record" /\ RecordsNewOrder(b)
        /\ buyer' = [buyer EXCEPT ![b] = Finished(b, buyer[b].sig)]
        /\ UNCHANGED <<broker, sync>>
    BY <1>4, RecordMakesRow
  <2>2. buyer'[b].pc \in {"idle", "loop"}
    BY <1>t, <2>1, FinishedHolds DEF TypeOK
  <2>3. ASSUME NEW o \in Orders, Working(o)
        PROVE  order'[o].status = "SUBMITTED"
    <3>1. CASE o = buyer[b].ord
      BY <1>4, <1>t, <2>3, <3>1 DEF Working, RecordSubmitted, RecordSimulated, RecordRow, TypeOK
    <3>2. CASE o # buyer[b].ord
      <4>1. order'[o] = order[o]
        BY <3>2, BuyersAndTheBroker
      <4>2. ~Recording(o)
        BY <1>b, <3>2 DEF Recording
      <4> QED
        BY <2>3, <4>1, <4>2 DEF EntryInv
    <3> QED
      BY <3>1, <3>2
  <2> QED
    BY <1>b, <1>m, <2>1, <2>2, <2>3 DEF EntryInv, Working, OneWorkingEntry
<1>5. ASSUME Choosing(b), buyer'[b].pc = "submit"
      PROVE  EntryGuard(b, buyer'[b].sig)
  <2>1. b \notin Agents
    BY DEF OneEntryRun
  <2>2. PICK s \in Signals : EntryGuard(b, s)
    <3>1. ~EntryStart(b) /\ ~SubmitRejected(b)
          /\ \A s \in Signals : ~EntrySelfHeal(b, s) /\ ~EntrySkip(b, s)
      <4> USE <1>5, <1>t DEF TypeOK, BuyerState
      <4>1. ~EntryStart(b)
        BY DEF EntryStart
      <4>2. ~SubmitRejected(b)
        BY FinishedHolds DEF SubmitRejected
      <4>3. \A s \in Signals : ~EntrySelfHeal(b, s) /\ ~EntrySkip(b, s)
        BY FinishedHolds DEF EntrySelfHeal, EntrySkip
      <4> QED
        BY <4>1, <4>2, <4>3
    <3>2. ~SubmitTo(b, "working") /\ ~SubmitTo(b, "simulated") /\ ~RecordSubmitted(b)
          /\ ~RecordSimulated(b)
      <4>1. UNCHANGED <<order, broker>>
        BY <1>5, <1>t, ChoosingHoldsNothing
      <4>2. ~RecordSubmitted(b) /\ ~RecordSimulated(b)
        <5>1. buyer[b].pc # "record"
          BY <1>b, <1>5 DEF Choosing, EntryStart, SubmitRejected, EntrySelfHeal, EntrySkip,
                            EntryGuard, AgentStart
        <5> QED
          BY <5>1 DEF RecordSubmitted, RecordSimulated
      <4>3. ASSUME NEW state \in {"working", "simulated"}, SubmitTo(b, state)
            PROVE  FALSE
        <5> PICK o \in FreeOrders, ref \in NullableSignal : Takes(b, state, o, ref)
          BY <1>t, <4>3, SubmitTakesFree
        <5>1. buyer'[b].pc = "record"
          BY <1>t DEF Takes, TypeOK, BuyerState
        <5> QED
          BY <1>5, <5>1
      <4> QED
        BY <4>2, <4>3
    <3> QED
      BY <1>b, <2>1, <3>1, <3>2 DEF BuyerStep, SubmitAccepted, SubmitSimulated
  <2>3. buyer'[b].sig = s
    BY <1>t, <2>2 DEF EntryGuard, TypeOK, BuyerState
  <2> QED
    BY <2>2, <2>3
<1>6. Choosing(b) => buyer'[b].pc \in {"idle", "loop", "submit"}
  BY <1>t, ChoosingHoldsNothing
<1> QED
  BY <1>1, <1>2, <1>3, <1>4, <1>5, <1>6, BuyerSteps

LEMMA NextKeepsEntries ==
    ASSUME OneEntryRun, RowsInv, RowsInv', FillsAreWhole, EntryInv, [Next]_vars
    PROVE  EntryInv'
<1>t. TypeOK
  BY DEF RowsInv
<1>h. "blind" \notin Hazards /\ "extend" \notin Hazards
  BY DEF OneEntryRun
<1>u. ASSUME UNCHANGED <<order, broker, buyer, sync>>
      PROVE  EntryInv'
  BY <1>u DEF EntryInv, MissingIsOver, Over, Working, Recording, OneWorkingEntry
<1>a. ASSUME MissingIsOver', UNCHANGED <<order, buyer>>,
             \A o \in Orders : Working(o)' => Working(o) /\ sync'.ord[o] = sync.ord[o]
      PROVE  EntryInv'
  BY <1>a DEF EntryInv, Working, Recording, OneWorkingEntry
<1>2. CASE BrokerStep
  <2>1. (\A o \in Orders : BrokerMoves(o)) /\ UNCHANGED <<order, buyer, sync>>
    BY <1>2, BrokerStepMoves
  <2>2. MissingIsOver'
    BY <2>1, MissingStaysOver DEF EntryInv
  <2> QED
    BY <1>a, <2>1, <2>2 DEF BrokerMoves, Working
<1>3. CASE SyncStep \/ SyncCrash
  <2>1. MissingIsOver'
    BY <1>3, <1>h, SyncKeepsMissing DEF EntryInv
  <2>2. CASE SyncRead \/ SyncOpenOrders \/ SyncExecutions
    <3>1. /\ \A o \in Orders : sync'.ord[o] = "keep"
          /\ UNCHANGED <<order, broker, buyer>>
      BY <2>2, <1>t, ReadsPlan DEF RowsInv, dbAndBroker
    <3> QED
      BY <1>a, <2>1, <3>1 DEF EntryInv, Working
  <2>3. CASE SyncPassB
    <3>1. sync'.ord = sync.ord /\ UNCHANGED <<order, broker, buyer>>
      BY <2>3, <1>t, PassBPlan DEF dbAndBroker
    <3> QED
      BY <1>a, <2>1, <3>1 DEF Working
  <2>4. ASSUME NEW o \in Orders, PassAStep(o)
        PROVE  EntryInv'
    <3> PICK status \in {"keep", "PARTIAL", "FILLED", "CANCELLED"} : RowStep(o, status)
      BY <2>4, PassASteps
    <3>1. sync'.ord[o] = status /\ \A x \in Orders \ {o} : sync'.ord[x] = sync.ord[x]
      BY <1>t DEF RowStep, TypeOK, SyncState
    <3>2. UNCHANGED <<order, broker, buyer>> /\ sync.ord[o] = "keep"
      BY <1>h DEF RowStep, RowsInv, SyncHoldsActive
    <3>3. Working(o) => status = "keep"
      <4>1. status = "CANCELLED" => Over(o)
        BY <1>h DEF RowStep, EntryInv, MissingIsOver
      <4>2. status \in {"PARTIAL", "FILLED"} => broker[o].state # "working"
        <5>1. status \in {"PARTIAL", "FILLED"} => sync.bought[o] > 0
          BY DEF RowStep
        <5> QED
          BY <5>1, LotAssumption DEF FillsAreWhole
      <4> QED
        BY <4>1, <4>2 DEF Over, Working
    <3> QED
      BY <1>a, <2>1, <3>1, <3>2, <3>3 DEF Working
  <2>5. CASE SyncCommit
    <3>1. /\ \A o \in Orders :
                order'[o].status = IF sync.ord[o] = "keep" THEN order[o].status
                                                           ELSE sync.ord[o]
          /\ sync' = IdleSync
          /\ UNCHANGED <<broker, buyer>>
      BY <2>5, <1>t, CommitWrites
    <3> QED
      BY <2>1, <3>1, IdleSyncPlansNothing DEF EntryInv, Working, Recording, OneWorkingEntry
  <2>6. CASE sync' = IdleSync /\ UNCHANGED <<dbAndBroker, buyer>>
    BY <2>1, <2>6, IdleSyncPlansNothing
    DEF EntryInv, Working, Recording, OneWorkingEntry, dbAndBroker
  <2> QED
    BY <1>3, <2>2, <2>3, <2>4, <2>5, <2>6, SyncSteps
<1>4. CASE PosSyncStep \/ PaperExitStep
  BY <1>4, <1>u, ClosersLeaveOrders
<1>5. CASE UNCHANGED vars
  BY <1>5, <1>u DEF vars
<1> QED
  BY <1>2, <1>3, <1>4, <1>5, OneRunKeepsEntries DEF Next

\* One run of check_entry_triggers at a time, which no crash cuts off between
\* the submission and the row, never has two entries at the broker, however
\* many signals and orders there are and whatever the account sells.
THEOREM OneEntryWorks ==
    ASSUME OneEntryRun
    PROVE  Spec => []OneWorkingEntry
<1>1. Init => EntryInv
  BY IdleSyncPlansNothing
  DEF Init, EntryInv, MissingIsOver, Working, OneWorkingEntry, NoBrokerOrder, IdleBuyer
<1>2. RowsInv /\ RowsInv' /\ FillsAreWhole /\ EntryInv /\ [Next]_vars => EntryInv'
  BY NextKeepsEntries
<1>3. EntryInv => OneWorkingEntry
  BY DEF EntryInv
<1>4. Spec => []FillsAreWhole
  BY WholeInvariant DEF OneEntryRun
<1> QED
  BY <1>1, <1>2, <1>3, <1>4, RowsInvariant, PTL DEF Spec

-----------------------------------------------------------------------------
(***************************************************************************)
(* The Position made from an order.                                        *)
(***************************************************************************)
Origins ==
    /\ \A p \in Positions : pos[p].src # NoOrder =>
          pos[p].src \in Orders /\ order[pos[p].src].status = "FILLED"
    /\ OnePositionPerOrder

\* The rows a commit makes, one for each order it creates a position for, and
\* the rows it keeps.
Makes(new) ==
    /\ new \in Injection(sync.create, FreePositions)
    /\ \A p \in Positions :
          \/ \E o \in sync.create :
                new[o] = p /\ pos'[p].src = o /\ pos'[p].qty = sync.bought[o]
          \/ pos'[p].src = pos[p].src /\ pos'[p].qty = SyncWritten(p).qty

LEMMA CommitMakes ==
    ASSUME TypeOK, SyncCommit
    PROVE  \E new : Makes(new)
<1> DEFINE new == CHOOSE f \in Injection(sync.create, FreePositions) : TRUE
           made(p) == CHOOSE o \in sync.create : new[o] = p
<1>1. new \in Injection(sync.create, FreePositions)
  BY DEF SyncCommit, ExistsInjection
<1>2. ASSUME NEW p \in Positions, \E o \in sync.create : new[o] = p
      PROVE  /\ made(p) \in sync.create /\ new[made(p)] = p
             /\ pos'[p].src = made(p) /\ pos'[p].qty = sync.bought[made(p)]
  <2>1. made(p) \in sync.create /\ new[made(p)] = p
    BY <1>2
  <2>2. pos'[p] = [status |-> "OPEN", sig |-> order[made(p)].sig,
                   qty |-> sync.bought[made(p)], src |-> made(p)]
    BY <1>2 DEF SyncCommit
  <2> QED
    BY <2>1, <2>2
<1>3. ASSUME NEW p \in Positions, ~ \E o \in sync.create : new[o] = p
      PROVE  pos'[p].src = pos[p].src /\ pos'[p].qty = SyncWritten(p).qty
  <2>1. pos'[p] = SyncWritten(p)
    BY <1>3 DEF SyncCommit
  <2> QED
    BY <2>1 DEF SyncWritten
<1>4. \A p \in Positions :
         \/ \E o \in sync.create :
               new[o] = p /\ pos'[p].src = o /\ pos'[p].qty = sync.bought[o]
         \/ pos'[p].src = pos[p].src /\ pos'[p].qty = SyncWritten(p).qty
  BY <1>2, <1>3
<1> HIDE DEF new
<1>5. Makes(new)
  BY <1>1, <1>4 DEF Makes
<1> QED
  BY <1>5

LEMMA NextKeepsOrigins ==
    ASSUME RowsInv, FillsAreWhole, Origins, [Next]_vars
    PROVE  Origins'
<1>t. TypeOK
  BY DEF RowsInv
\* Steps that make no position and leave the FILLED rows as they are.
<1>a. ASSUME \A p \in Positions : pos'[p].src \in {pos[p].src, NoOrder},
             \A o \in Orders : order[o].status = "FILLED" => order'[o].status = "FILLED"
      PROVE  Origins'
  BY <1>a, NullAssumption DEF Origins, OnePositionPerOrder
\* A step that makes one from an order that had no row.
<1>b. ASSUME NEW p \in Positions, NEW o \in Orders, order[o].status # "FILLED",
             pos'[p].src = o, \A q \in Positions \ {p} : pos'[q].src = pos[q].src,
             order'[o].status = "FILLED",
             \A x \in Orders : order[x].status = "FILLED" => order'[x].status = "FILLED"
      PROVE  Origins'
  BY <1>b, NullAssumption DEF Origins, OnePositionPerOrder
<1>1. ASSUME NEW b \in Buyers, BuyerStep(b) \/ BuyerCrash(b)
      PROVE  Origins'
  <2>1. \A o \in Orders : order[o].status = "FILLED" => order'[o] = order[o]
    BY <1>1, BuyersAndTheBroker
  <2>2. CASE RecordSimulated(b)
    <3>1. RecordsNewOrder(b)
      BY <2>2, RecordMakesRow
    <3> PICK o \in Orders : o = buyer[b].ord /\ order[o] = NoRow
      BY <3>1 DEF RecordsNewOrder
    <3>2. order'[o].status = "FILLED" /\ order[o].status # "FILLED"
      BY <1>t, <2>2 DEF RecordSimulated, RecordRow, TypeOK, NoRow
    <3>3. PICK p \in FreePositions :
             pos' = [pos EXCEPT ![p] = [status |-> "OPEN", sig |-> buyer[b].sig,
                                        qty |-> Lot, src |-> buyer[b].ord]]
      BY <2>2 DEF RecordSimulated
    <3>4. /\ p \in Positions /\ pos'[p].src = o
          /\ \A q \in Positions \ {p} : pos'[q].src = pos[q].src
      BY <1>t, <3>3 DEF TypeOK, FreePositions
    <3> QED
      BY <1>b, <2>1, <3>2, <3>4
  <2>3. CASE ~RecordSimulated(b)
    <3>1. UNCHANGED pos
      BY <1>1, <2>3
      DEF BuyerStep, BuyerCrash, EntryStart, EntrySelfHeal, EntrySkip, EntryGuard,
          AgentStart, SubmitAccepted, SubmitSimulated, SubmitTo, SubmitRejected,
          RecordSubmitted, dbAndBroker
    <3> QED
      BY <1>a, <2>1, <3>1
  <2> QED
    BY <2>2, <2>3
<1>2. CASE BrokerStep
  BY <1>2, <1>a, BrokerStepMoves
<1>3. CASE SyncStep \/ SyncCrash
  <2>1. CASE SyncCommit
    <3>1. \A o \in Orders : order'[o].status = IF sync.ord[o] = "keep" THEN order[o].status
                                                                       ELSE sync.ord[o]
      BY <2>1, <1>t, CommitWrites
    <3>2. \A o \in Orders : order[o].status = "FILLED" => order'[o].status = "FILLED"
      BY <3>1 DEF RowsInv, SyncHoldsActive, Active
    <3>3. ASSUME NEW o \in sync.create
          PROVE  o \in Orders /\ order[o].status # "FILLED" /\ order'[o].status = "FILLED"
      <4>1. o \in Orders
        BY <1>t DEF TypeOK, SyncState
      <4> QED
        BY <3>1, <4>1 DEF RowsInv, SyncHoldsActive, Active, FillsAreWhole
    <3>4. PICK new : Makes(new)
      BY <2>1, <1>t, CommitMakes
    <3>5. \A x, y \in sync.create : new[x] = new[y] => x = y
      BY <3>4 DEF Makes, Injection, IsInjective
    <3>6. \A p \in Positions :
             \/ \E o \in sync.create : new[o] = p /\ pos'[p].src = o
             \/ pos'[p].src = pos[p].src
      BY <3>4 DEF Makes
    <3>7. \A p \in Positions : pos[p].src \notin sync.create
      BY <3>3, NullAssumption DEF Origins
    <3>8. OnePositionPerOrder'
      <4>1. ASSUME NEW p1 \in Positions, NEW p2 \in Positions,
                   pos'[p1].src = pos'[p2].src, pos'[p1].src # NoOrder
            PROVE  p1 = p2
        <5>1. CASE pos'[p1].src \in sync.create
          BY <3>6, <3>7, <4>1, <5>1
        <5>2. CASE pos'[p1].src \notin sync.create
          <6>1. pos'[p1].src = pos[p1].src /\ pos'[p2].src = pos[p2].src
            BY <3>6, <4>1, <5>2
          <6> QED
            BY <4>1, <6>1 DEF Origins, OnePositionPerOrder
        <5> QED
          BY <5>1, <5>2
      <4> QED
        BY <4>1 DEF OnePositionPerOrder
    <3> QED
      BY <3>2, <3>3, <3>6, <3>8 DEF Origins
  <2>2. CASE ~SyncCommit
    <3>1. UNCHANGED <<order, pos>>
      BY <1>3, <2>2
      DEF SyncStep, SyncCrash, SyncRead, SyncOpenOrders, SyncExecutions, SyncFilledHeld,
          SyncFilledNew, SyncExpired, SyncExtended, SyncWorking, SyncPassB, SyncRollback,
          dbAndBroker
    <3> QED
      BY <1>a, <3>1
  <2> QED
    BY <2>1, <2>2
<1>4. CASE PosSyncStep \/ PaperExitStep
  <2>1. UNCHANGED order
    BY <1>4, ClosersLeaveOrders
  <2>2. \A p \in Positions : pos'[p].src \in {pos[p].src, NoOrder}
    <3> USE <1>t DEF TypeOK, PositionRow
    <3>1. CASE PosSyncImport
      BY <3>1 DEF PosSyncImport
    <3>2. CASE PosSyncQty
      BY <3>2 DEF PosSyncQty
    <3>3. CASE PosSyncClose
      BY <3>3 DEF PosSyncClose
    <3>4. CASE PaperExitCommit
      BY <3>4 DEF PaperExitCommit
    <3>5. ASSUME ~(PosSyncImport \/ PosSyncQty \/ PosSyncClose \/ PaperExitCommit)
          PROVE  UNCHANGED pos
      BY <1>4, <3>5
      DEF PosSyncStep, PosSyncBroker, PosSyncRead, PosSyncEnd, PaperExitStep,
          PaperExitFetch, PaperExitAbort
    <3> QED
      BY <3>1, <3>2, <3>3, <3>4, <3>5
  <2> QED
    BY <1>a, <2>1, <2>2
<1>5. CASE UNCHANGED vars
  BY <1>5, <1>a DEF vars
<1> QED
  BY <1>1, <1>2, <1>3, <1>4, <1>5 DEF Next

\* When entries fill in one execution, an order becomes one Position however
\* often its executions are read: with any number of buyers and positions, and
\* whatever crashes, fails to answer, is sold, cancelled, aged or simulated.
THEOREM OneOriginEach ==
    ASSUME "partial" \notin Hazards
    PROVE  Spec => []OnePositionPerOrder
<1>1. Init => Origins
  BY DEF Init, Origins, OnePositionPerOrder, NoPos
<1>2. RowsInv /\ FillsAreWhole /\ Origins /\ [Next]_vars => Origins'
  BY NextKeepsOrigins
<1>3. Origins => OnePositionPerOrder
  BY DEF Origins
<1> QED
  BY <1>1, <1>2, <1>3, RowsInvariant, WholeInvariant, PTL DEF Spec

-----------------------------------------------------------------------------
(***************************************************************************)
(* The shares that were bought, and those the tables and the programs      *)
(* speak of.                                                               *)
(***************************************************************************)
SharesOf == [o \in Orders |-> Shares(o)]
KeptOf   == [o \in Orders |-> broker[o].filled - broker[o].sold]
Bought   == Sum(SharesOf, Orders)

HoldingIsKept ==
    /\ \A o \in Orders : broker[o].sold <= broker[o].filled
    /\ holding = Sum(KeptOf, Orders)

NoMoreThanBought ==
    /\ \A o \in Orders : sync.bought[o] <= Shares(o)
    /\ \A p \in Positions : pos[p].qty <= Bought /\ sync.qty[p] <= Bought
    /\ posSync.held <= Bought

\* The fold of the property is the sum.
LEMMA BoughtIsFold ==
    FoldFunction(LAMBDA x, y : x + y, 0, [o \in Orders |-> Shares(o)]) = Bought
<1>1. DOMAIN SharesOf = Orders
  BY DEF SharesOf
<1>2. FoldFunction(LAMBDA x, y : x + y, 0, SharesOf) = Sum(SharesOf, DOMAIN SharesOf)
  BY DEF FoldFunction, Sum
<1> QED
  BY <1>1, <1>2 DEF Bought, SharesOf

LEMMA SharesAreNat ==
    ASSUME TypeOK
    PROVE  \A o \in Orders : SharesOf[o] \in Nat /\ SharesOf[o] = Shares(o)
  BY LotAssumption DEF TypeOK, BrokerOrder, SharesOf, Shares

\* What an order bought is never more than all of them did.
LEMMA SharesInBought ==
    ASSUME IsFiniteSet(Orders), TypeOK
    PROVE  Bought \in Nat /\ \A o \in Orders : Shares(o) <= Bought
<1>1. \A o \in Orders : SharesOf[o] \in Nat /\ SharesOf[o] = Shares(o)
  BY SharesAreNat
<1>2. Sum(SharesOf, Orders) \in Nat /\ \A o \in Orders : SharesOf[o] <= Sum(SharesOf, Orders)
  BY <1>1, SumIsNat
<1> QED
  BY <1>1, <1>2 DEF Bought

LEMMA KeptAreNat ==
    ASSUME TypeOK, \A o \in Orders : broker[o].sold <= broker[o].filled
    PROVE  \A o \in Orders : KeptOf[o] \in Nat /\ KeptOf[o] <= Shares(o)
  BY LotAssumption DEF TypeOK, BrokerOrder, KeptOf, Shares

\* The account holds what was bought and not sold: never a short position.
LEMMA HoldingInBought ==
    ASSUME IsFiniteSet(Orders), TypeOK, HoldingIsKept
    PROVE  holding \in Nat /\ holding <= Bought
<1>1. \A o \in Orders : KeptOf[o] \in Nat /\ KeptOf[o] <= Shares(o)
  BY KeptAreNat DEF HoldingIsKept
<1>2. \A o \in Orders : SharesOf[o] \in Nat /\ SharesOf[o] = Shares(o)
  BY SharesAreNat
<1>3. Sum(KeptOf, Orders) \in Nat
  BY <1>1, SumIsNat
<1>4. \A o \in Orders : KeptOf[o] \in Int /\ SharesOf[o] \in Int /\ KeptOf[o] <= SharesOf[o]
  BY <1>1, <1>2
<1>5. Sum(KeptOf, Orders) <= Sum(SharesOf, Orders)
  BY <1>4, SumMonotone
<1> QED
  BY <1>3, <1>5 DEF HoldingIsKept, Bought

\* Shares are bought, never unbought.
LEMMA BoughtGrows ==
    ASSUME IsFiniteSet(Orders), TypeOK, TypeOK', \A o \in Orders : Shares(o) <= Shares(o)'
    PROVE  Bought \in Nat /\ Bought' \in Nat /\ Bought <= Bought'
<1>1. \A o \in Orders : SharesOf[o] \in Nat /\ SharesOf[o] = Shares(o)
  BY SharesAreNat
<1>2. \A o \in Orders : SharesOf'[o] \in Nat /\ SharesOf'[o] = Shares(o)'
  BY LotAssumption DEF TypeOK, BrokerOrder, SharesOf, Shares
<1>3. \A o \in Orders : SharesOf[o] \in Int /\ SharesOf'[o] \in Int /\ SharesOf[o] <= SharesOf'[o]
  BY <1>1, <1>2
<1>4. Sum(SharesOf, Orders) <= Sum(SharesOf', Orders)
  BY <1>3, SumMonotone
<1>5. Sum(SharesOf, Orders) \in Nat /\ Sum(SharesOf', Orders) \in Nat
  BY <1>1, <1>2, SumIsNat
<1> QED
  BY <1>4, <1>5 DEF Bought

\* No step takes shares from what an order has bought.
LEMMA SharesGrow ==
    ASSUME RowsInv, RowsInv', [Next]_vars
    PROVE  \A o \in Orders : Shares(o) <= Shares(o)'
<1> USE LotAssumption
<1>t. TypeOK /\ TypeOK'
  BY DEF RowsInv
<1>m. \A o \in Orders : broker[o].filled \in 0..Lot /\ broker'[o].filled \in 0..Lot
  BY <1>t DEF TypeOK, BrokerOrder
<1>u. ASSUME UNCHANGED broker
      PROVE  \A o \in Orders : Shares(o) <= Shares(o)'
  BY <1>u, <1>m DEF Shares
<1>b. ASSUME \A o \in Orders : BrokerMoves(o)
      PROVE  \A o \in Orders : Shares(o) <= Shares(o)'
  BY <1>b, <1>m DEF BrokerMoves, Shares
<1>1. ASSUME NEW b \in Buyers, BuyerStep(b) \/ BuyerCrash(b)
      PROVE  \A o \in Orders : Shares(o) <= Shares(o)'
  <2>1. \A o \in Orders :
           \/ broker'[o] = broker[o]
           \/ broker[o].state = "none" /\ broker'[o].filled = 0
    BY <1>1, BuyersAndTheBroker
  <2>2. \A o \in Orders : broker[o].state = "none" => broker[o].filled = 0
    BY DEF RowsInv, RowsFollowBroker, NoBrokerOrder
  <2> QED
    BY <1>m, <2>1, <2>2 DEF Shares
<1>2. CASE BrokerStep
  BY <1>2, <1>b, BrokerStepMoves
<1>3. CASE SyncStep \/ SyncCrash
  <2>1. CASE \E o \in Orders : PassAStep(o)
    <3>1. PICK o \in Orders, status \in {"keep", "PARTIAL", "FILLED", "CANCELLED"} :
             RowStep(o, status)
      BY <2>1, PassASteps
    <3> QED
      BY <1>b, <3>1 DEF RowStep
  <2>2. CASE ~ \E o \in Orders : PassAStep(o)
    <3>1. UNCHANGED broker
      BY <1>3, <1>t, <2>2, SyncSteps
      DEF SyncRead, SyncOpenOrders, SyncExecutions, SyncPassB, SyncCommit, dbAndBroker
    <3> QED
      BY <1>u, <3>1
  <2> QED
    BY <2>1, <2>2
<1>4. CASE PosSyncStep \/ PaperExitStep
  BY <1>4, <1>u, ClosersLeaveOrders
<1>5. CASE UNCHANGED vars
  BY <1>5, <1>u DEF vars
<1> QED
  BY <1>1, <1>2, <1>3, <1>4, <1>5 DEF Next

LEMMA NextKeepsHolding ==
    ASSUME IsFiniteSet(Orders), RowsInv, RowsInv', HoldingIsKept, [Next]_vars
    PROVE  HoldingIsKept'
<1> USE LotAssumption
<1>t. TypeOK /\ TypeOK'
  BY DEF RowsInv
<1>m. \A o \in Orders :
         /\ broker[o].filled \in 0..Lot /\ broker'[o].filled \in 0..Lot
         /\ broker[o].sold \in 0..Lot /\ broker'[o].sold \in 0..Lot
         /\ KeptOf[o] = broker[o].filled - broker[o].sold
         /\ KeptOf'[o] = broker'[o].filled - broker'[o].sold
  BY <1>t DEF TypeOK, BrokerOrder, KeptOf
<1>i. \A o \in Orders : KeptOf[o] \in Int /\ KeptOf'[o] \in Int
  BY <1>m
<1>u. ASSUME UNCHANGED holding,
             \A o \in Orders : broker'[o].filled = broker[o].filled
                               /\ broker'[o].sold = broker[o].sold
      PROVE  HoldingIsKept'
  <2>1. \A o \in Orders : KeptOf[o] = KeptOf'[o]
    BY <1>m, <1>u
  <2>2. Sum(KeptOf, Orders) = Sum(KeptOf', Orders)
    BY <2>1, SumAgrees
  <2> QED
    BY <1>u, <2>2 DEF HoldingIsKept
<1>c. ASSUME NEW x \in Orders, \A o \in Orders \ {x} : broker'[o] = broker[o],
             broker'[x].sold <= broker'[x].filled,
             holding' = holding - KeptOf[x] + KeptOf'[x]
      PROVE  HoldingIsKept'
  <2>1. \A o \in Orders \ {x} : KeptOf'[o] = KeptOf[o]
    BY <1>c, <1>m
  <2>2. Sum(KeptOf', Orders) = Sum(KeptOf, Orders) - KeptOf[x] + KeptOf'[x]
    BY <1>i, <2>1, SumUpdate
  <2> QED
    BY <1>c, <2>2 DEF HoldingIsKept
<1>1. ASSUME NEW b \in Buyers, BuyerStep(b) \/ BuyerCrash(b)
      PROVE  HoldingIsKept'
  <2>1. \A o \in Orders :
           \/ broker'[o] = broker[o]
           \/ broker[o].state = "none" /\ broker'[o].filled = 0 /\ broker'[o].sold = 0
    BY <1>1, BuyersAndTheBroker
  <2>2. \A o \in Orders : broker[o].state = "none" => broker[o].filled = 0 /\ broker[o].sold = 0
    BY DEF RowsInv, RowsFollowBroker, NoBrokerOrder
  <2>3. UNCHANGED holding
    BY <1>1
    DEF BuyerStep, BuyerCrash, EntryStart, EntrySelfHeal, EntrySkip, EntryGuard,
        AgentStart, SubmitAccepted, SubmitSimulated, SubmitTo, SubmitRejected,
        RecordSubmitted, RecordSimulated, dbAndBroker
  <2> QED
    BY <1>u, <2>1, <2>2, <2>3
<1>2. ASSUME NEW x \in Orders, Fill(x)
      PROVE  HoldingIsKept'
  <2>1. PICK n \in 1..(Lot - broker[x].filled) :
           /\ holding' = holding + n
           /\ broker' = [broker EXCEPT ![x] = [@ EXCEPT !.filled = broker[x].filled + n,
                   !.state = IF broker[x].filled + n = Lot THEN "done" ELSE "working"]]
    BY <1>2 DEF Fill
  <2>2. /\ broker'[x].filled = broker[x].filled + n /\ broker'[x].sold = broker[x].sold
        /\ \A o \in Orders \ {x} : broker'[o] = broker[o]
    BY <1>t, <2>1 DEF TypeOK, BrokerOrder
  <2>3. n \in Nat /\ broker[x].sold <= broker[x].filled
    BY <1>m DEF HoldingIsKept
  <2>4. KeptOf'[x] = KeptOf[x] + n /\ broker'[x].sold <= broker'[x].filled
    BY <1>m, <2>2, <2>3
  <2>5. holding' = holding - KeptOf[x] + KeptOf'[x]
    BY <1>i, <1>t, <2>1, <2>3, <2>4 DEF TypeOK
  <2> QED
    BY <1>c, <2>2, <2>4, <2>5
<1>3. ASSUME NEW x \in Orders, BracketSell(x)
      PROVE  HoldingIsKept'
  <2>1. /\ broker'[x].filled = broker[x].filled /\ broker'[x].sold = broker[x].filled
        /\ \A o \in Orders \ {x} : broker'[o] = broker[o]
        /\ holding' = holding - (broker[x].filled - broker[x].sold)
    BY <1>3, <1>t DEF BracketSell, TypeOK, BrokerOrder
  <2>2. KeptOf'[x] = 0 /\ broker'[x].sold <= broker'[x].filled
    BY <1>m, <2>1
  <2>3. holding' = holding - KeptOf[x] + KeptOf'[x]
    BY <1>m, <1>i, <1>t, <2>1, <2>2 DEF TypeOK
  <2> QED
    BY <1>c, <2>1, <2>2, <2>3
<1>4. ASSUME NEW x \in Orders, Expire(x) \/ ExecutionsAge(x)
      PROVE  HoldingIsKept'
  BY <1>4, <1>t, <1>u DEF Expire, ExecutionsAge, TypeOK, BrokerOrder
<1>5. CASE SyncStep \/ SyncCrash
  <2>1. ASSUME NEW o \in Orders, SyncExtended(o)
        PROVE  HoldingIsKept'
    <3>1. broker' = broker \/ broker' = [broker EXCEPT ![o].state = "done"]
      BY <2>1 DEF SyncExtended
    <3>2. \A x \in Orders : broker'[x].filled = broker[x].filled /\ broker'[x].sold = broker[x].sold
      BY <1>t, <3>1 DEF TypeOK, BrokerOrder
    <3> QED
      BY <1>u, <2>1, <3>2 DEF SyncExtended
  <2>2. CASE ~ \E o \in Orders : SyncExtended(o)
    <3>1. UNCHANGED <<broker, holding>>
      BY <1>5, <2>2
      DEF SyncStep, SyncCrash, SyncRead, SyncOpenOrders, SyncExecutions, SyncFilledHeld,
          SyncFilledNew, SyncExpired, SyncWorking, SyncPassB, SyncCommit, SyncRollback,
          dbAndBroker
    <3> QED
      BY <1>u, <3>1
  <2> QED
    BY <2>1, <2>2
<1>6. CASE PosSyncStep \/ PaperExitStep
  <2>1. UNCHANGED <<broker, holding>>
    BY <1>6
    DEF PosSyncStep, PosSyncBroker, PosSyncRead, PosSyncPlan, PosSyncImport, PosSyncQty,
        PosSyncClose, PosSyncEnd, PaperExitStep, PaperExitFetch, PaperExitCommit,
        PaperExitAbort, allButPosSync, allButCloser
  <2> QED
    BY <1>u, <2>1
<1>7. CASE UNCHANGED vars
  BY <1>7, <1>u DEF vars
<1> QED
  BY <1>1, <1>2, <1>3, <1>4, <1>5, <1>6, <1>7 DEF Next, BrokerStep

\* What pass A plans for the quantities are executions it has read.
LEMMA SyncPlansBought ==
    ASSUME TypeOK, SyncStep \/ SyncCrash, ~SyncCommit
    PROVE  /\ UNCHANGED <<pos, posSync>>
           /\ \/ sync'.bought = sync.bought
              \/ \A o \in Orders : sync'.bought[o] \in {0, broker[o].filled} /\ UNCHANGED broker
           /\ \A p \in Positions :
                 sync'.qty[p] \in {0, sync.qty[p]} \cup {sync.bought[o] : o \in Orders}
<1> DEFINE Same == sync'.bought = sync.bought /\ sync'.qty = sync.qty
<1> USE DEF TypeOK, SyncState
<1>u. UNCHANGED <<pos, posSync>>
  BY DEF SyncStep, SyncCrash, SyncRead, SyncOpenOrders, SyncExecutions, SyncFilledHeld,
         SyncFilledNew, SyncExpired, SyncExtended, SyncWorking, SyncPassB, SyncRollback,
         dbAndBroker, allButSync
<1>1. CASE SyncRead
  <2>1. Same
    BY <1>1 DEF SyncRead
  <2> QED
    BY <1>u, <2>1
<1>2. CASE SyncOpenOrders
  <2> PICK live : sync' = [sync EXCEPT !.pc = "execs", !.live = live]
    BY <1>2 DEF SyncOpenOrders
  <2>1. Same
    OBVIOUS
  <2> QED
    BY <1>u, <2>1
<1>3. CASE SyncExecutions
  <2>1. sync'.qty = sync.qty
    <3> PICK bought, sold :
           sync' = [sync EXCEPT !.pc = "passA", !.bought = bought, !.sold = sold]
      BY <1>3 DEF SyncExecutions
    <3> QED
      OBVIOUS
  <2>2. \A o \in Orders : sync'.bought[o] \in {0, broker[o].filled} /\ UNCHANGED broker
    BY <1>3, SeesExecutions DEF dbAndBroker
  <2> QED
    BY <1>u, <2>1, <2>2
<1>4. CASE SyncPassB
  <2>1. Same
    BY <1>4, PassBPlan
  <2> QED
    BY <1>u, <2>1
<1>5. ASSUME NEW o \in Orders, NEW p \in Positions, SyncFilledHeld(o, p)
      PROVE  /\ sync'.bought = sync.bought
             /\ \A q \in Positions : sync'.qty[q] \in {sync.qty[q], sync.bought[o]}
  <2>1. sync'.bought = sync.bought
    BY <1>5 DEF SyncFilledHeld, RowDone
  <2>2. \E v \in {sync.qty[p], sync.bought[o]} : sync'.qty = [sync.qty EXCEPT ![p] = v]
    BY <1>5 DEF SyncFilledHeld, RowDone, FilledQty
  <2> QED
    BY <2>1, <2>2
<1>6. ASSUME NEW o \in Orders, SyncFilledNew(o)
      PROVE  Same
  BY <1>6 DEF SyncFilledNew, RowDone
<1>7. ASSUME NEW o \in Orders, SyncExpired(o) \/ SyncExtended(o) \/ SyncWorking(o)
      PROVE  Same
  BY <1>7 DEF SyncExpired, SyncExtended, SyncWorking, RowDone
<1>8. CASE \E o \in Orders : PassAStep(o)
  <2> PICK o \in Orders : PassAStep(o)
    BY <1>8
  <2>1. CASE \E p \in Positions : SyncFilledHeld(o, p)
    BY <1>u, <1>5, <2>1
  <2>2. CASE ~ \E p \in Positions : SyncFilledHeld(o, p)
    <3>1. Same
      BY <1>6, <1>7, <2>2 DEF PassAStep
    <3> QED
      BY <1>u, <3>1
  <2> QED
    BY <2>1, <2>2
<1>9. CASE sync' = IdleSync /\ UNCHANGED <<dbAndBroker, buyer>>
  <2>1. /\ \A o \in Orders : sync'.bought[o] = 0
        /\ \A p \in Positions : sync'.qty[p] = 0
        /\ UNCHANGED broker
    BY <1>9, IdleSyncPlansNothing DEF dbAndBroker
  <2> QED
    BY <1>u, <2>1
<1> QED
  BY <1>1, <1>2, <1>3, <1>4, <1>8, <1>9, SyncSteps

LEMMA NextKeepsBooked ==
    ASSUME IsFiniteSet(Orders), RowsInv, RowsInv', HoldingIsKept, NoMoreThanBought,
           [Next]_vars
    PROVE  NoMoreThanBought'
<1> USE LotAssumption
<1>t. TypeOK /\ TypeOK'
  BY DEF RowsInv
<1>g. \A o \in Orders : Shares(o) <= Shares(o)'
  BY SharesGrow
<1>b. Bought \in Nat /\ Bought' \in Nat /\ Bought <= Bought'
  BY <1>t, <1>g, BoughtGrows
<1>s. /\ \A o \in Orders : Shares(o) <= Bought /\ Shares(o) \in Nat /\ Shares(o)' \in Nat
      /\ \A o \in Orders : sync.bought[o] \in Nat /\ sync.bought[o] <= Bought
  <2>1. \A o \in Orders : Shares(o) <= Bought /\ Shares(o) \in Nat
    BY <1>t, SharesInBought, SharesAreNat
  <2>2. \A o \in Orders : Shares(o)' \in Nat
    BY <1>t DEF TypeOK, BrokerOrder, Shares
  <2>3. \A o \in Orders : sync.bought[o] \in Nat
    BY <1>t DEF TypeOK, SyncState
  <2> QED
    BY <1>b, <2>1, <2>2, <2>3 DEF NoMoreThanBought
<1>q. /\ \A p \in Positions : pos[p].qty \in Nat /\ sync.qty[p] \in Nat
      /\ posSync.held \in Nat
  BY <1>t DEF TypeOK, PositionRow, SyncState, PosSyncState
\* The quantities written or planned in a step are ones that were bought.
<1>a. ASSUME \A o \in Orders : sync'.bought[o] = sync.bought[o] \/ sync'.bought[o] <= Shares(o)',
             \A p \in Positions : pos'[p].qty = pos[p].qty \/ pos'[p].qty <= Bought,
             \A p \in Positions : sync'.qty[p] = sync.qty[p] \/ sync'.qty[p] <= Bought,
             posSync'.held = posSync.held \/ posSync'.held <= Bought
      PROVE  NoMoreThanBought'
  <2>1. \A o \in Orders : sync'.bought[o] <= Shares(o)'
    BY <1>a, <1>g, <1>s DEF NoMoreThanBought
  <2>2. /\ \A p \in Positions : pos'[p].qty \in Nat /\ sync'.qty[p] \in Nat
        /\ posSync'.held \in Nat
    BY <1>t DEF TypeOK, PositionRow, SyncState, PosSyncState
  <2>3. /\ \A p \in Positions : pos'[p].qty <= Bought' /\ sync'.qty[p] <= Bought'
        /\ posSync'.held <= Bought'
    BY <1>a, <1>b, <1>q, <2>2 DEF NoMoreThanBought
  <2> QED
    BY <2>1, <2>3 DEF NoMoreThanBought
<1>1. ASSUME NEW b \in Buyers, BuyerStep(b) \/ BuyerCrash(b)
      PROVE  NoMoreThanBought'
  <2>1. UNCHANGED <<sync, posSync>>
    BY <1>1
    DEF BuyerStep, BuyerCrash, EntryStart, EntrySelfHeal, EntrySkip, EntryGuard,
        AgentStart, SubmitAccepted, SubmitSimulated, SubmitTo, SubmitRejected,
        RecordSubmitted, RecordSimulated
  <2>2. CASE RecordSimulated(b)
    <3>1. RecordsNewOrder(b) /\ broker[buyer[b].ord].state = "simulated"
      BY <2>2, RecordMakesRow DEF RecordSimulated
    <3>2. Lot <= Bought
      BY <1>s, <3>1 DEF RecordsNewOrder, Shares
    <3>3. PICK p \in FreePositions :
             pos' = [pos EXCEPT ![p] = [status |-> "OPEN", sig |-> buyer[b].sig,
                                        qty |-> Lot, src |-> buyer[b].ord]]
      BY <2>2 DEF RecordSimulated
    <3>4. \A q \in Positions : pos'[q].qty = pos[q].qty \/ pos'[q].qty = Lot
      BY <1>t, <3>3 DEF TypeOK, FreePositions
    <3> QED
      BY <1>a, <2>1, <3>2, <3>4
  <2>3. CASE ~RecordSimulated(b)
    <3>1. UNCHANGED pos
      BY <1>1, <2>3
      DEF BuyerStep, BuyerCrash, EntryStart, EntrySelfHeal, EntrySkip, EntryGuard,
          AgentStart, SubmitAccepted, SubmitSimulated, SubmitTo, SubmitRejected,
          RecordSubmitted, dbAndBroker
    <3> QED
      BY <1>a, <2>1, <3>1
  <2> QED
    BY <2>2, <2>3
<1>2. CASE BrokerStep
  <2>1. UNCHANGED <<pos, sync, posSync>>
    BY <1>2 DEF BrokerStep, Fill, Expire, BracketSell, ExecutionsAge, allButBroker
  <2> QED
    BY <1>a, <2>1
<1>3. CASE SyncStep \/ SyncCrash
  <2>1. CASE SyncCommit
    <3>1. /\ \A o \in Orders : sync'.bought[o] = 0
          /\ \A p \in Positions : sync'.qty[p] = 0
          /\ UNCHANGED posSync
      BY <2>1, IdleSyncPlansNothing DEF SyncCommit, allButSync
    <3>2. \A p \in Positions : pos'[p].qty \in {pos[p].qty, sync.qty[p]}
                                                \cup {sync.bought[o] : o \in Orders}
      <4>1. PICK new : Makes(new)
        BY <1>t, <2>1, CommitMakes
      <4>2. sync.create \subseteq Orders
        BY <1>t DEF TypeOK, SyncState
      <4>3. \A p \in Positions : SyncWritten(p).qty \in {pos[p].qty, sync.qty[p]}
        BY DEF SyncWritten
      <4> QED
        BY <4>1, <4>2, <4>3 DEF Makes
    <3>3. \A p \in Positions : pos'[p].qty <= Bought
      BY <1>s, <3>2 DEF NoMoreThanBought
    <3> QED
      BY <1>a, <1>b, <1>s, <3>1, <3>3
  <2>2. CASE ~SyncCommit
    <3>1. /\ UNCHANGED <<pos, posSync>>
          /\ \/ sync'.bought = sync.bought
             \/ \A o \in Orders : sync'.bought[o] \in {0, broker[o].filled} /\ UNCHANGED broker
          /\ \A p \in Positions :
                sync'.qty[p] \in {0, sync.qty[p]} \cup {sync.bought[o] : o \in Orders}
      BY <1>3, <1>t, <2>2, SyncPlansBought
    <3>2. \A o \in Orders : 0 <= Shares(o) /\ broker[o].filled <= Shares(o)
      BY <1>t DEF TypeOK, BrokerOrder, Shares
    <3>3. \A o \in Orders : sync'.bought[o] = sync.bought[o] \/ sync'.bought[o] <= Shares(o)'
      BY <3>1, <3>2 DEF Shares
    <3>4. \A p \in Positions : sync'.qty[p] = sync.qty[p] \/ sync'.qty[p] <= Bought
      BY <1>b, <1>s, <3>1
    <3> QED
      BY <1>a, <3>1, <3>3, <3>4
  <2> QED
    BY <2>1, <2>2
<1>4. CASE PosSyncStep
  <2>1. UNCHANGED sync
    BY <1>4, ClosersLeaveOrders
  <2>2. IdlePosSync.held = 0
    BY DEF IdlePosSync
  <2>3. CASE PosSyncBroker
    <3>1. holding \in Nat /\ holding <= Bought
      BY <1>t, HoldingInBought
    <3>2. posSync'.held \in {0, holding}
      <4>1. (IF holding < 0 THEN -holding ELSE holding) = holding
        BY <3>1
      <4>2. \/ \E others \in OtherHoldings :
                  posSync' = [IdlePosSync EXCEPT !.pc = "read", !.others = others,
                                                 !.held = holding]
            \/ posSync' = [IdlePosSync EXCEPT !.pc = "read"]
        BY <2>3, <4>1 DEF PosSyncBroker
      <4> QED
        BY <4>2 DEF IdlePosSync
    <3> QED
      <4>1. UNCHANGED pos
        BY <2>3 DEF PosSyncBroker
      <4>2. posSync'.held <= Bought
        BY <1>b, <3>1, <3>2
      <4> QED
        BY <1>a, <2>1, <4>1, <4>2
  <2>4. CASE PosSyncRead
    <3>1. posSync'.held = posSync.held /\ UNCHANGED pos
      BY <1>t, <2>4 DEF PosSyncRead, PosSyncPlan, TypeOK, PosSyncState
    <3> QED
      BY <1>a, <2>1, <3>1
  <2>5. CASE PosSyncImport \/ PosSyncQty
    <3>1. posSync'.held = 0
      BY <2>2, <2>5 DEF PosSyncImport, PosSyncQty
    <3>2. \A p \in Positions : pos'[p].qty \in {pos[p].qty, posSync.held}
      <4>1. CASE PosSyncImport
        BY <1>t, <4>1 DEF PosSyncImport, TypeOK
      <4>2. CASE PosSyncQty
        BY <1>t, <4>2 DEF PosSyncQty, TypeOK, PositionRow
      <4> QED
        BY <2>5, <4>1, <4>2
    <3> QED
      BY <1>a, <1>b, <2>1, <3>1, <3>2 DEF NoMoreThanBought
  <2>6. CASE PosSyncClose \/ PosSyncEnd
    <3>1. posSync'.held = 0
      BY <2>2, <2>6 DEF PosSyncClose, PosSyncEnd
    <3>2. \A p \in Positions : pos'[p].qty = pos[p].qty
      BY <1>t, <2>6 DEF PosSyncClose, PosSyncEnd, TypeOK, PositionRow
    <3> QED
      BY <1>a, <1>b, <2>1, <3>1, <3>2
  <2> QED
    BY <1>4, <2>3, <2>4, <2>5, <2>6 DEF PosSyncStep
<1>5. CASE PaperExitStep
  <2>1. UNCHANGED <<sync, posSync>>
    BY <1>5 DEF PaperExitStep, PaperExitFetch, PaperExitCommit, PaperExitAbort, allButCloser
  <2>2. \A p \in Positions : pos'[p].qty = pos[p].qty
    BY <1>5, <1>t
    DEF PaperExitStep, PaperExitFetch, PaperExitCommit, PaperExitAbort, TypeOK, PositionRow
  <2> QED
    BY <1>a, <2>1, <2>2
<1>6. CASE UNCHANGED vars
  BY <1>6, <1>a DEF vars
<1> QED
  BY <1>1, <1>2, <1>3, <1>4, <1>5, <1>6 DEF Next

\* No Position row ever claims more shares than were bought, under every hazard
\* and for any finite set of orders: executions are read again in every pass,
\* positions are imported and repaired, and nothing is counted twice.
THEOREM BookedWereBought ==
    ASSUME IsFiniteSet(Orders)
    PROVE  Spec => []BookedSharesWereBought
<1>1. Init => HoldingIsKept /\ NoMoreThanBought
  <2> SUFFICES ASSUME Init PROVE HoldingIsKept /\ NoMoreThanBought
    OBVIOUS
  <2>1. TypeOK
    BY InitTypeOK
  <2>2. Bought \in Nat /\ \A o \in Orders : Shares(o) \in Nat
    BY <2>1, SharesInBought, SharesAreNat
  <2>3. NoMoreThanBought
    BY <2>2, IdleSyncPlansNothing DEF Init, NoMoreThanBought, NoPos, IdlePosSync
  <2> DEFINE z == [o \in Orders |-> 0]
  <2>4. KeptOf = z
    BY DEF Init, KeptOf, NoBrokerOrder
  <2>5. Sum(z, Orders) = 0
    BY SumOfZeros
  <2> HIDE DEF z
  <2>6. HoldingIsKept
    BY <2>4, <2>5 DEF Init, HoldingIsKept, NoBrokerOrder
  <2> QED
    BY <2>3, <2>6
<1>2. /\ RowsInv /\ RowsInv' /\ HoldingIsKept /\ NoMoreThanBought /\ [Next]_vars
         => HoldingIsKept' /\ NoMoreThanBought'
  BY NextKeepsHolding, NextKeepsBooked
<1>3. NoMoreThanBought => BookedSharesWereBought
  BY BoughtIsFold DEF NoMoreThanBought, BookedSharesWereBought
<1> QED
  BY <1>1, <1>2, <1>3, RowsInvariant, PTL DEF Spec
====
