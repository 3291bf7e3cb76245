------------------------- MODULE CryptoOrdersProofs -------------------------
(***************************************************************************)
(* What holds of CryptoOrders for any programs, passes, signals, orders    *)
(* and positions, and for every choice of hazards; a theorem that needs    *)
(* some of them left out says so in its hypotheses.                        *)
(***************************************************************************)
EXTENDS CryptoOrders, SumProofs, TLAPS

-----------------------------------------------------------------------------
(* Types. *)

LEMMA NextOrderIsFree ==
    ASSUME FreeOrders # {}
    PROVE  NextOrder \in Orders /\ venue[NextOrder].state = "none"
<1>1. NextOrder \in FreeOrders
  BY DEF NextOrder
<1> QED
  BY <1>1 DEF FreeOrders

LEMMA NextPositionIsFree ==
    ASSUME FreePositions # {}
    PROVE  /\ NextPosition \in Positions
           /\ pos[NextPosition].status = "none"
           /\ \A r \in Passes : NextPosition \notin Made(r)
<1>1. NextPosition \in FreePositions
  BY DEF NextPosition
<1> QED
  BY <1>1 DEF FreePositions

\* A partial exit sells a natural number of units.
LEMMA PartialQtyType ==
    ASSUME NEW q \in Nat
    PROVE  PartialQty(q) \in Nat
<1>1. Coin \in Nat /\ Coin > 0
  BY LotAssumption
<1> DEFINE h == q \div 2
           n == h \div Coin
<1>2. h \in Nat
  BY SMT
<1> HIDE DEF h
<1>3. n \in Nat
  BY <1>1, <1>2, SMT
<1> HIDE DEF n
<1>4. Coin * n \in Nat
  BY <1>1, <1>3
<1> QED
  BY <1>1, <1>4 DEF PartialQty, n, h

LEMMA PlacedType ==
    ASSUME NEW v \in [Orders -> VenueType], NEW o \in Orders, NEW side \in {"buy", "sell"},
           NEW n \in Nat, NEW state \in {"open", "sim"}
    PROVE  Placed(v, o, side, n, state) \in [Orders -> VenueType]
  BY DEF Placed, VenueType

\* What a pass knows keeps its type: lemmas for the operators that update it.
LEMMA DoneType ==
    ASSUME TypeOK, NEW r \in Passes, NEW o \in Orders
    PROVE  Done(r, o) \in PassType
<1>1. rec[r] \in PassType
  BY DEF TypeOK
<1> QED
  BY <1>1 DEF Done, PassType

LEMMA FilledType ==
    ASSUME TypeOK, NEW r \in Passes, NEW o \in Orders
    PROVE  Filled(r, o) \in PassType
<1>1. Done(r, o) \in PassType /\ venue[o].filled \in Nat
  BY DoneType DEF TypeOK, VenueType
<1> QED
  BY <1>1 DEF Filled, PassType

LEMMA SeenQtyType ==
    ASSUME TypeOK, NEW l \in PassType, NEW p \in Positions
    PROVE  SeenQty(l, p) \in Nat
  BY DEF TypeOK, SeenQty, PassType, PositionType

LEMMA WithQtyType ==
    ASSUME NEW l \in PassType, NEW p \in Positions, NEW n \in Nat
    PROVE  WithQty(l, p, n) \in PassType
  BY DEF WithQty, PassType

LEMMA SellRowType ==
    ASSUME NEW kind \in {"market", "stop"}, NEW p \in Positions
    PROVE  SellRow(kind, p) \in RowType
  BY DEF SellRow, NoRow, RowType, NullableSignal, NullablePosition

LEMMA AddType ==
    ASSUME NEW l \in PassType, NEW o \in Orders, NEW x \in RowType
    PROVE  [l EXCEPT !.add = [@ EXCEPT ![o] = x]] \in PassType
  BY DEF PassType

LEMMA IdlePassType == IdlePass \in PassType
<1>1. NoRow \in RowType
  BY DEF NoRow, RowType, NullableSignal, NullablePosition
<1>2. NoSignal \in NullableSignal
  BY DEF NullableSignal
<1> QED
  BY <1>1, <1>2 DEF IdlePass, PassType

\* Protecting position p after o leaves the venue and the pass well typed.
LEMMA ProtectType ==
    ASSUME TypeOK, NEW r \in Passes, NEW o \in Orders, NEW p \in Positions,
           NEW l \in PassType, Protect(r, l, o, p)
    PROVE  venue' \in [Orders -> VenueType] /\ rec' \in [Passes -> PassType]
<1> DEFINE delta == Excess(SeenQty(l, p), ProtectedQty(p))
           new   == NextOrder
<1>1. venue \in [Orders -> VenueType] /\ rec \in [Passes -> PassType]
  BY DEF TypeOK
<1>2. SeenQty(l, p) \in Nat
  BY SeenQtyType
<1>3. SellRow("stop", p) \in RowType /\ SellRow("market", p) \in RowType
  BY SellRowType
<1>4. CASE rec' = [rec EXCEPT ![r] = l] /\ UNCHANGED venue
  BY <1>1, <1>4
<1>5. CASE /\ delta \in Nat \ {0} /\ FreeOrders # {}
           /\ venue' = Placed(venue, new, "sell", delta, "open")
           /\ rec' = [rec EXCEPT ![r] = [l EXCEPT !.add = [@ EXCEPT ![new] = SellRow("stop", p)]]]
  <2> HIDE DEF delta
  <2>1. new \in Orders
    BY <1>5, NextOrderIsFree
  <2>2. venue' \in [Orders -> VenueType]
    BY <1>1, <1>5, <2>1, PlacedType
  <2>3. [l EXCEPT !.add = [@ EXCEPT ![new] = SellRow("stop", p)]] \in PassType
    BY <1>3, <2>1, AddType
  <2> QED
    BY <1>1, <1>5, <2>2, <2>3
<1>6. ASSUME FreeOrders # {}, NEW cancelled \in BOOLEAN, NEW state \in {"open", "sim", "none"},
             LET v == IF cancelled /\ venue[o].state = "open"
                      THEN [venue EXCEPT ![o] = [@ EXCEPT !.state = "cancelled"]] ELSE venue
             IN  /\ venue' = IF state = "none" THEN v
                             ELSE Placed(v, new, "sell", SeenQty(l, p), state)
                 /\ rec' = [rec EXCEPT ![r] = IF state = "none" THEN l
                              ELSE [l EXCEPT !.add = [@ EXCEPT ![new] = SellRow("market", p)]]]
      PROVE  venue' \in [Orders -> VenueType] /\ rec' \in [Passes -> PassType]
  <2> DEFINE v == IF cancelled /\ venue[o].state = "open"
                  THEN [venue EXCEPT ![o] = [@ EXCEPT !.state = "cancelled"]] ELSE venue
  <2>1. new \in Orders
    BY <1>6, NextOrderIsFree
  <2>2. v \in [Orders -> VenueType]
    BY <1>1 DEF VenueType
  <2>3. [l EXCEPT !.add = [@ EXCEPT ![new] = SellRow("market", p)]] \in PassType
    BY <1>3, <2>1, AddType
  <2>4. venue' = IF state = "none" THEN v ELSE Placed(v, new, "sell", SeenQty(l, p), state)
    BY <1>6
  <2> HIDE DEF v
  <2>5. venue' \in [Orders -> VenueType]
    BY <1>2, <2>1, <2>2, <2>4, PlacedType
  <2>6. rec' \in [Passes -> PassType]
    BY <1>1, <1>6, <2>3
  <2> QED
    BY <2>5, <2>6
<1> QED
  BY <1>4, <1>5, <1>6 DEF Protect

LEMMA SoldType ==
    ASSUME TypeOK, NEW r \in Passes, NEW o \in Orders, NEW p \in Positions
    PROVE  Sold(r, o, p) \in PassType
<1> DEFINE l == [Filled(r, o) EXCEPT !.book = [@ EXCEPT ![p] = rec[r].book[p] + Closed(r, o, p)]]
<1>1. rec[r] \in PassType /\ venue[o].filled \in Nat
  BY DEF TypeOK, VenueType
<1>2. SeenQty(rec[r], p) \in Nat
  BY <1>1, SeenQtyType
<1>3. Closed(r, o, p) \in Nat
  BY <1>1, <1>2 DEF Closed, Least
<1> DEFINE f == Filled(r, o)
<1>a. f \in PassType
  BY FilledType
<1>4. l \in PassType
  <2> HIDE DEF f
  <2>1. [f.book EXCEPT ![p] = rec[r].book[p] + Closed(r, o, p)] \in [Positions -> Nat]
    BY <1>1, <1>3, <1>a DEF PassType
  <2>2. [f EXCEPT !.book = [@ EXCEPT ![p] = rec[r].book[p] + Closed(r, o, p)]] \in PassType
    BY <1>a, <2>1 DEF PassType
  <2> QED
    BY <2>2 DEF f
<1>5. SeenQty(l, p) \in Nat
  BY <1>4, SeenQtyType
<1>6. SeenQty(l, p) = SeenQty(rec[r], p)
  BY <1>1 DEF SeenQty, Filled, Done, PassType
<1>7. SeenQty(l, p) - Closed(r, o, p) \in Nat
  BY <1>1, <1>2, <1>3, <1>6 DEF Closed, Least
<1> HIDE DEF l
<1>8. [l EXCEPT !.final = [@ EXCEPT ![p] = l.final[p] + 1], !.held = @ \cup {p},
                !.qty = [@ EXCEPT ![p] = SeenQty(l, p)]] \in PassType
  <2>1. /\ [l.final EXCEPT ![p] = l.final[p] + 1] \in [Positions -> Nat]
        /\ [l.qty EXCEPT ![p] = SeenQty(l, p)] \in [Positions -> Nat]
        /\ l.held \cup {p} \in SUBSET Positions
    BY <1>4, <1>5 DEF PassType
  <2> QED
    BY <1>4, <2>1 DEF PassType
<1>9. WithQty(l, p, SeenQty(l, p) - Closed(r, o, p)) \in PassType
  BY <1>4, <1>7, WithQtyType
<1> QED
  BY <1>8, <1>9 DEF Sold, l

LEMMA InitTypeOK ==
    ASSUME Init
    PROVE  TypeOK
<1>1. NoRow \in RowType /\ NoPos \in PositionType
  BY DEF NoRow, RowType, NoPos, PositionType, NullableSignal, NullablePosition
<1>2. NoVenueOrder \in VenueType
  BY DEF NoVenueOrder, VenueType
<1>3. IdleProgram \in ProgramType
  BY DEF IdleProgram, ProgramType, NullableSignal, NullablePosition
<1> QED
  BY <1>1, <1>2, <1>3, IdlePassType DEF Init, TypeOK

LEMMA VenueKeepsType ==
    ASSUME TypeOK, VenueStep
    PROVE  TypeOK'
<1> USE DEF TypeOK
<1>1. ASSUME NEW o \in Orders, VenueFill(o)
      PROVE  TypeOK'
  <2>1. PICK n \in 1..(venue[o].amount - venue[o].filled) :
           LET all == venue[o].filled + n
           IN  /\ venue' = [venue EXCEPT ![o] = [@ EXCEPT !.filled = all,
                      !.state = IF all = venue[o].amount THEN "filled" ELSE "open"]]
               /\ coins' = IF venue[o].side = "buy" THEN coins + n ELSE coins - n
    BY <1>1 DEF VenueFill
  <2>2. venue[o] \in VenueType
    OBVIOUS
  <2>3. venue[o].filled + n \in Nat /\ n \in Nat
    BY <2>2 DEF VenueType
  <2> DEFINE new == [venue[o] EXCEPT !.filled = venue[o].filled + n,
               !.state = IF venue[o].filled + n = venue[o].amount THEN "filled" ELSE "open"]
  <2>4. new \in VenueType
    BY <2>2, <2>3 DEF VenueType
  <2>5. venue' = [venue EXCEPT ![o] = new]
    BY <2>1
  <2>6. venue' \in [Orders -> VenueType]
    BY <2>4, <2>5
  <2>7. coins' \in Int
    BY <2>1, <2>3
  <2> QED
    BY <1>1, <2>6, <2>7 DEF VenueFill, tables
<1>2. ASSUME NEW o \in Orders, VenueCancel(o)
      PROVE  TypeOK'
  <2>1. [venue[o] EXCEPT !.state = "cancelled"] \in VenueType
    BY DEF VenueType
  <2> QED
    BY <1>2, <2>1 DEF VenueCancel, tables
<1> QED
  BY <1>1, <1>2 DEF VenueStep

\* The programs: first what Begin, Ends and the submissions do.
LEMMA BeginType ==
    ASSUME TypeOK, NEW x, NEW local \in ProgramType, Begin(x, local)
    PROVE  TypeOK'
  BY DEF TypeOK, Begin, tables, outside

LEMMA EndsType ==
    ASSUME TypeOK, NEW x \in Programs, Ends(x)
    PROVE  prog' \in [Programs -> ProgramType]
<1>1. IdleProgram \in ProgramType
  BY DEF IdleProgram, ProgramType, NullableSignal, NullablePosition
<1> QED
  BY <1>1 DEF TypeOK, Ends

LEMMA StartsKeepType ==
    ASSUME TypeOK,
           ChatStart \/ EntryStart \/ AddStart \/ RulesStart \/ StopsStart \/ ManualStart \/ AmendStart
    PROVE  TypeOK'
<1>0. /\ NoSignal \in NullableSignal /\ Signals \subseteq NullableSignal
      /\ NoPosition \in NullablePosition /\ Positions \subseteq NullablePosition
      /\ NoOrder \in Orders \cup {NoOrder} /\ Lot \in Nat /\ ActiveStops \in SUBSET Orders
  BY LotAssumption DEF NullableSignal, NullablePosition, ActiveStops, ActiveSells
<1>2. \A p \in OpenPositions : p \in Positions /\ pos[p].qty \in Nat
  BY DEF OpenPositions, TypeOK, PositionType
<1>3. CASE ChatStart
  <2>1. PICK s \in Signals :
           Begin("chat", [IdleProgram EXCEPT !.pc = "call", !.sig = s, !.qty = Lot])
    BY <1>3 DEF ChatStart
  <2>2. [IdleProgram EXCEPT !.pc = "call", !.sig = s, !.qty = Lot] \in ProgramType
    BY <1>0 DEF IdleProgram, ProgramType
  <2> QED
    BY <2>1, <2>2, BeginType
<1>4. CASE EntryStart
  <2>1. PICK s \in Signals :
           Begin("entry", [IdleProgram EXCEPT !.pc = "call", !.sig = s, !.qty = Lot])
    BY <1>4 DEF EntryStart
  <2>2. [IdleProgram EXCEPT !.pc = "call", !.sig = s, !.qty = Lot] \in ProgramType
    BY <1>0 DEF IdleProgram, ProgramType
  <2> QED
    BY <2>1, <2>2, BeginType
<1>5. CASE AddStart
  <2>1. PICK p \in OpenPositions :
           Begin("add", [IdleProgram EXCEPT !.pc = "call", !.p = p, !.qty = Lot])
    BY <1>5 DEF AddStart
  <2>2. [IdleProgram EXCEPT !.pc = "call", !.p = p, !.qty = Lot] \in ProgramType
    BY <1>0, <1>2 DEF IdleProgram, ProgramType
  <2> QED
    BY <2>1, <2>2, BeginType
<1>6. CASE RulesStart
  <2>1. PICK p \in OpenPositions, full \in BOOLEAN :
           Begin("rules", [IdleProgram EXCEPT !.pc = "call", !.p = p, !.full = full,
                     !.qty = IF full THEN pos[p].qty ELSE PartialQty(pos[p].qty)])
    BY <1>6 DEF RulesStart
  <2> DEFINE q == IF full THEN pos[p].qty ELSE PartialQty(pos[p].qty)
  <2>2. q \in Nat
    BY <1>2, PartialQtyType
  <2> HIDE DEF q
  <2>3. [IdleProgram EXCEPT !.pc = "call", !.p = p, !.full = full, !.qty = q] \in ProgramType
    BY <1>0, <1>2, <2>2 DEF IdleProgram, ProgramType
  <2> QED
    BY <2>1, <2>3, BeginType DEF q
<1>7. CASE StopsStart
  <2>1. PICK p \in OpenPositions :
           Begin("stops", [IdleProgram EXCEPT !.pc = "check", !.p = p, !.qty = pos[p].qty])
    BY <1>7 DEF StopsStart
  <2>2. [IdleProgram EXCEPT !.pc = "check", !.p = p, !.qty = pos[p].qty] \in ProgramType
    BY <1>0, <1>2 DEF IdleProgram, ProgramType
  <2> QED
    BY <2>1, <2>2, BeginType
<1>8. CASE ManualStart \/ AmendStart
  <2>1. PICK p \in OpenPositions, x \in {"manual", "amend"} :
           Begin(x, [IdleProgram EXCEPT !.pc = "call", !.p = p, !.qty = pos[p].qty,
                                        !.cancel = ActiveStops, !.stops = ActiveStops])
    BY <1>8 DEF ManualStart, AmendStart
  <2>2. [IdleProgram EXCEPT !.pc = "call", !.p = p, !.qty = pos[p].qty,
                            !.cancel = ActiveStops, !.stops = ActiveStops] \in ProgramType
    BY <1>0, <1>2 DEF IdleProgram, ProgramType
  <2> QED
    BY <2>1, <2>2, BeginType
<1> QED
  BY <1>3, <1>4, <1>5, <1>6, <1>7, <1>8

\* Calls to the venue.
LEMMA CallsKeepType ==
    ASSUME TypeOK, NEW x \in Programs,
           CancelStop(x) \/ Submit(x) \/ SubmitRejected(x) \/ ProgramCrash(x)
    PROVE  TypeOK'
<1> USE DEF TypeOK, outside, tables
<1>0. prog[x] \in ProgramType
  OBVIOUS
<1>1. CASE CancelStop(x)
  <2>1. PICK o \in prog[x].cancel :
           \/ /\ venue' = [venue EXCEPT ![o] = [@ EXCEPT !.state = "cancelled"]]
              /\ prog' = [prog EXCEPT ![x] = [@ EXCEPT !.cancel = prog[x].cancel \ {o}]]
           \/ Ends(x) /\ UNCHANGED venue
    BY <1>1 DEF CancelStop
  <2>2. o \in Orders
    BY <1>0, <2>1 DEF ProgramType
  <2>3. [venue[o] EXCEPT !.state = "cancelled"] \in VenueType
    BY <2>2 DEF VenueType
  <2>4. [prog[x] EXCEPT !.cancel = prog[x].cancel \ {o}] \in ProgramType
    BY <1>0 DEF ProgramType
  <2>5. venue' \in [Orders -> VenueType] /\ prog' \in [Programs -> ProgramType]
    BY <2>1, <2>3, <2>4, EndsType
  <2> QED
    BY <1>1, <2>5 DEF CancelStop
<1>2. CASE Submit(x)
  <2>1. PICK state \in {"open", "sim"} : Acked(x, state)
    BY <1>2 DEF Submit
  <2>2. NextOrder \in Orders
    BY <2>1, NextOrderIsFree DEF Acked
  <2>3. prog[x].qty \in Nat /\ Side(x) \in {"buy", "sell"}
    BY <1>0 DEF ProgramType, Side
  <2>4. venue' \in [Orders -> VenueType]
    BY <2>1, <2>2, <2>3, PlacedType DEF Acked
  <2>5. [prog[x] EXCEPT !.pc = "record", !.ord = NextOrder] \in ProgramType
    BY <1>0, <2>2 DEF ProgramType
  <2>6. prog' \in [Programs -> ProgramType]
    BY <2>1, <2>5 DEF Acked
  <2> QED
    BY <1>2, <2>4, <2>6 DEF Submit
<1>3. CASE SubmitRejected(x)
  BY <1>3, EndsType DEF SubmitRejected
<1>4. CASE ProgramCrash(x)
  BY <1>4, EndsType DEF ProgramCrash
<1> QED
  BY <1>1, <1>2, <1>3, <1>4

LEMMA StopsCheckKeepsType ==
    ASSUME TypeOK, StopsCheck
    PROVE  TypeOK'
<1>1. /\ "stops" \in Programs
      /\ prog' = [prog EXCEPT !["stops"] =
                     IF ActiveSells = {} THEN [@ EXCEPT !.pc = "call"] ELSE IdleProgram]
      /\ UNCHANGED <<tables, venue, outside>>
  BY DEF StopsCheck
<1>2. [prog["stops"] EXCEPT !.pc = "call"] \in ProgramType
  BY <1>1 DEF TypeOK, ProgramType
<1>3. IdleProgram \in ProgramType
  BY DEF IdleProgram, ProgramType, NullableSignal, NullablePosition
<1>4. prog' \in [Programs -> ProgramType]
  BY <1>1, <1>2, <1>3 DEF TypeOK
<1> QED
  BY <1>1, <1>4 DEF TypeOK, tables, outside

LEMMA AmendRejectedKeepsType ==
    ASSUME TypeOK, AmendRejected
    PROVE  TypeOK'
<1>1. "amend" \in Programs /\ prog["amend"].qty \in Nat
  BY DEF TypeOK, AmendRejected, ProgramType
<1>2. venue' \in [Orders -> VenueType]
  BY <1>1, NextOrderIsFree, PlacedType DEF TypeOK, AmendRejected
<1>3. prog' \in [Programs -> ProgramType]
  BY <1>1, EndsType DEF AmendRejected
<1> QED
  BY <1>2, <1>3 DEF TypeOK, AmendRejected, tables, outside

\* The rows a program writes.
LEMMA NewRowType ==
    ASSUME TypeOK, NEW x \in Programs, NEW kind \in {"entry", "orphan", "add", "market", "stop"},
           NEW status \in {"SUBMITTED", "FILLED"}
    PROVE  NewRow(x, kind, status) \in RowType
<1>1. prog[x] \in ProgramType
  BY DEF TypeOK
<1> QED
  BY <1>1 DEF NewRow, RowType, ProgramType

LEMMA RecordedType ==
    ASSUME TypeOK, NEW x \in Programs, NEW kind \in {"entry", "orphan", "add", "market", "stop"},
           NEW status \in {"SUBMITTED", "FILLED"}, Recorded(x, kind, status)
    PROVE  row' \in [Orders -> RowType]
  BY NewRowType DEF TypeOK, Recorded

LEMMA EntriesKeepType ==
    ASSUME TypeOK,
           \/ EntrySelfHeal \/ RecordEntry \/ RecordOrphan
           \/ \E o \in Orders : OrphanExpires(o)
           \/ \E x \in Programs : RecordSimulatedEntry(x)
    PROVE  TypeOK'
<1>1. CASE EntrySelfHeal
  BY <1>1 DEF TypeOK, EntrySelfHeal, outside
<1>2. CASE RecordEntry
  <2>1. row' \in [Orders -> RowType] /\ prog' \in [Programs -> ProgramType]
    BY <1>2, RecordedType, EndsType DEF RecordEntry
  <2> QED
    BY <1>2, <2>1 DEF TypeOK, RecordEntry, outside
<1>3. CASE RecordOrphan
  <2>1. row' \in [Orders -> RowType] /\ prog' \in [Programs -> ProgramType]
    BY <1>3, RecordedType, EndsType DEF RecordOrphan, TypeOK
  <2> QED
    BY <1>3, <2>1 DEF TypeOK, RecordOrphan, outside
<1>4. ASSUME NEW o \in Orders, OrphanExpires(o)
      PROVE  TypeOK'
  <2>1. [row[o] EXCEPT !.status = "CANCELLED"] \in RowType
    BY DEF TypeOK, RowType
  <2> QED
    BY <1>4, <2>1 DEF TypeOK, OrphanExpires, outside
<1>5. ASSUME NEW x \in Programs, RecordSimulatedEntry(x)
      PROVE  TypeOK'
  <2>1. prog[x] \in ProgramType
    BY DEF TypeOK
  <2>2. row' \in [Orders -> RowType] /\ prog' \in [Programs -> ProgramType]
    BY <1>5, RecordedType, EndsType DEF RecordSimulatedEntry
  <2>3. [status |-> "OPEN", sig |-> prog[x].sig, qty |-> prog[x].qty, paper |-> x = "chat"]
           \in PositionType
    BY <2>1 DEF PositionType, ProgramType
  <2>4. pos' \in [Positions -> PositionType]
    BY <1>5, <2>3 DEF RecordSimulatedEntry, TypeOK
  <2> QED
    BY <1>5, <2>2, <2>4 DEF TypeOK, RecordSimulatedEntry, outside
<1> QED
  BY <1>1, <1>2, <1>3, <1>4, <1>5

LEMMA ClosePositionType ==
    ASSUME TypeOK, NEW p \in Positions, NEW n \in Nat,
           pos' = [pos EXCEPT ![p] = [@ EXCEPT !.status = "CLOSED"]],
           trades' = [trades EXCEPT ![p] = @ + 1],
           booked' = [booked EXCEPT ![p] = @ + n]
    PROVE  /\ pos' \in [Positions -> PositionType]
           /\ trades' \in [Positions -> Nat] /\ booked' \in [Positions -> Nat]
<1>1. [pos[p] EXCEPT !.status = "CLOSED"] \in PositionType
  BY DEF TypeOK, PositionType
<1> QED
  BY <1>1 DEF TypeOK

LEMMA ExitsKeepType ==
    ASSUME TypeOK,
           \/ ManualPaper \/ RecordAdd \/ RecordRules \/ RulesClose \/ RecordStops
           \/ RecordExit("manual", "market") \/ RecordExit("amend", "stop")
    PROVE  TypeOK'
<1>1. CASE ManualPaper
  <2>1. PICK p \in Positions :
           /\ pos' = [pos EXCEPT ![p] = [@ EXCEPT !.status = "CLOSED"]]
           /\ trades' = [trades EXCEPT ![p] = @ + 1]
           /\ booked' = [booked EXCEPT ![p] = @ + pos[p].qty]
           /\ UNCHANGED <<signal, row, venue, prog, outside>>
    BY <1>1 DEF ManualPaper, OpenPositions
  <2>2. pos[p].qty \in Nat
    BY DEF TypeOK, PositionType
  <2>3. /\ pos' \in [Positions -> PositionType]
        /\ trades' \in [Positions -> Nat] /\ booked' \in [Positions -> Nat]
    BY <2>1, <2>2, ClosePositionType
  <2> QED
    BY <2>1, <2>3 DEF TypeOK, outside
<1>2. CASE RecordAdd
  <2>1. "add" \in Programs /\ prog["add"].qty \in Nat
    BY <1>2 DEF RecordAdd, TypeOK, ProgramType
  <2>2. row' \in [Orders -> RowType] /\ prog' \in [Programs -> ProgramType]
    BY <1>2, <2>1, RecordedType, EndsType DEF RecordAdd
  <2>3. pos' \in [Positions -> PositionType]
    <3> DEFINE p == prog["add"].p
    <3>1. CASE Simulated("add") /\ p \in OpenPositions
      <4>1. p \in Positions
        BY <3>1 DEF OpenPositions
      <4>2. [pos[p] EXCEPT !.qty = pos[p].qty + prog["add"].qty] \in PositionType
        BY <2>1, <4>1 DEF TypeOK, PositionType
      <4>3. pos' = [pos EXCEPT ![p] = [@ EXCEPT !.qty = pos[p].qty + prog["add"].qty]]
        BY <1>2, <3>1 DEF RecordAdd
      <4> QED
        BY <4>2, <4>3 DEF TypeOK
    <3>2. CASE ~(Simulated("add") /\ p \in OpenPositions)
      BY <1>2, <3>2 DEF RecordAdd, TypeOK
    <3> QED
      BY <3>1, <3>2
  <2> QED
    BY <1>2, <2>2, <2>3 DEF TypeOK, RecordAdd, outside
<1>3. CASE RecordRules
  <2>1. row' \in [Orders -> RowType] /\ prog' \in [Programs -> ProgramType]
    BY <1>3, RecordedType, EndsType DEF RecordRules, TypeOK
  <2> QED
    BY <1>3, <2>1 DEF TypeOK, RecordRules, outside
<1>4. CASE RulesClose
  <2>1. "rules" \in Programs /\ prog["rules"].qty \in Nat
    BY <1>4 DEF RulesClose, TypeOK, ProgramType
  <2>2. prog' \in [Programs -> ProgramType]
    BY <1>4, <2>1, EndsType DEF RulesClose
  <2>3. /\ pos' \in [Positions -> PositionType]
        /\ trades' \in [Positions -> Nat] /\ booked' \in [Positions -> Nat]
    BY <1>4, <2>1, ClosePositionType DEF RulesClose, OpenPositions, TypeOK
  <2> QED
    BY <1>4, <2>2, <2>3 DEF TypeOK, RulesClose, outside
<1>5. CASE RecordStops
  <2>1. row' \in [Orders -> RowType] /\ prog' \in [Programs -> ProgramType]
    BY <1>5, RecordedType, EndsType DEF RecordStops
  <2> QED
    BY <1>5, <2>1 DEF TypeOK, RecordStops, outside
<1>6. ASSUME NEW x \in Programs, NEW kind \in {"market", "stop"}, RecordExit(x, kind)
      PROVE  TypeOK'
  <2>1. \A o \in Orders : [row[o] EXCEPT !.status = "CANCELLED"] \in RowType
    BY DEF TypeOK, RowType
  <2>2. StopsCancelled(x) \in [Orders -> RowType]
    BY <2>1 DEF TypeOK, StopsCancelled
  <2>3. NewRow(x, kind, "SUBMITTED") \in RowType
    BY NewRowType
  <2>4. row' \in [Orders -> RowType] /\ prog' \in [Programs -> ProgramType]
    BY <1>6, <2>2, <2>3, EndsType DEF RecordExit, TypeOK
  <2> QED
    BY <1>6, <2>4 DEF TypeOK, RecordExit, outside
<1> QED
  BY <1>1, <1>2, <1>3, <1>4, <1>5, <1>6 DEF RecordExit

LEMMA ProgramKeepsType ==
    ASSUME TypeOK, ProgramStep
    PROVE  TypeOK'
  BY StartsKeepType, CallsKeepType, StopsCheckKeepsType, AmendRejectedKeepsType,
     EntriesKeepType, ExitsKeepType DEF ProgramStep

\* A reconciliation pass.
LEMMA OpenSeenType ==
    ASSUME NEW r \in Passes
    PROVE  OpenSeen(r) \subseteq Positions
  BY DEF OpenSeen, OpenPositions, Made

LEMMA RecOrdersKeepType ==
    ASSUME TypeOK, NEW r \in Passes, NEW o \in Orders,
           \/ RecNothing(r, o) \/ RecCancelled(r, o) \/ RecEntryHeld(r, o)
           \/ RecEntryNew(r, o) \/ RecAdd(r, o) \/ RecGone(r, o) \/ RecSell(r, o)
    PROVE  TypeOK'
<1>0. /\ rec \in [Passes -> PassType] /\ Done(r, o) \in PassType /\ Filled(r, o) \in PassType
      /\ row[o] \in RowType /\ venue[o].filled \in Nat
  BY DoneType, FilledType DEF TypeOK, VenueType
<1>1. CASE RecNothing(r, o)
  BY <1>0, <1>1 DEF RecNothing, TypeOK, aside, tables
<1>2. CASE RecCancelled(r, o)
  <2> DEFINE d == Done(r, o)
             armed == IF /\ row[o].sig # NoSignal
                         /\ signal[row[o].sig] = "TRIGGERED"
                      THEN d.rearm \cup {row[o].sig} ELSE d.rearm
             l == [d EXCEPT !.status = [@ EXCEPT ![o] = "CANCELLED"], !.rearm = armed]
  <2>1. d \in PassType
    BY <1>0
  <2>2. rec' = [rec EXCEPT ![r] = l]
    BY <1>2 DEF RecCancelled
  <2> HIDE DEF d
  <2>3. armed \in SUBSET Signals
    BY <1>0, <2>1 DEF PassType, RowType, NullableSignal
  <2> HIDE DEF armed
  <2>4. [d.status EXCEPT ![o] = "CANCELLED"]
           \in [Orders -> {"keep", "PARTIAL", "FILLED", "CANCELLED"}]
    BY <2>1 DEF PassType
  <2>5. l \in PassType
    BY <2>1, <2>3, <2>4 DEF PassType
  <2> HIDE DEF l
  <2> QED
    BY <1>0, <1>2, <2>2, <2>5 DEF RecCancelled, TypeOK, aside, tables
<1>3. CASE RecEntryHeld(r, o)
  <2>1. PICK p \in OpenSeen(r) : Protect(r, WithQty(Filled(r, o), p, venue[o].filled), o, p)
    BY <1>3 DEF RecEntryHeld
  <2>2. WithQty(Filled(r, o), p, venue[o].filled) \in PassType /\ p \in Positions
    BY <1>0, <2>1, WithQtyType, OpenSeenType
  <2>3. venue' \in [Orders -> VenueType] /\ rec' \in [Passes -> PassType]
    BY <2>1, <2>2, ProtectType
  <2> QED
    BY <1>3, <2>3 DEF RecEntryHeld, TypeOK, aside, tables
<1>4. CASE RecEntryNew(r, o)
  <2> DEFINE p == NextPosition
             f == Filled(r, o)
             l == [f EXCEPT !.made = [@ EXCEPT ![p] = row[o].sig],
                            !.held = @ \cup {p}, !.qty = [@ EXCEPT ![p] = venue[o].filled]]
  <2>1. p \in Positions /\ Protect(r, l, o, p)
    BY <1>4, NextPositionIsFree DEF RecEntryNew
  <2> HIDE DEF p
  <2>2. row[o].sig \in NullableSignal
    BY <1>0 DEF RowType
  <2>3. l \in PassType
    <3>1. f \in PassType
      BY <1>0
    <3> HIDE DEF f
    <3>2. /\ [f.made EXCEPT ![p] = row[o].sig] \in [Positions -> NullableSignal]
          /\ [f.qty EXCEPT ![p] = venue[o].filled] \in [Positions -> Nat]
          /\ f.held \cup {p} \in SUBSET Positions
      BY <1>0, <2>1, <2>2, <3>1 DEF PassType
    <3> QED
      BY <3>1, <3>2 DEF PassType
  <2> HIDE DEF l
  <2>4. venue' \in [Orders -> VenueType] /\ rec' \in [Passes -> PassType]
    BY <2>1, <2>3, ProtectType
  <2> QED
    BY <1>4, <2>4 DEF RecEntryNew, TypeOK, aside, tables
<1>5. CASE RecAdd(r, o)
  <2> DEFINE p == row[o].p
             n == SeenQty(Filled(r, o), p) + Added(r, o)
  <2>1. p \in Positions /\ Protect(r, WithQty(Filled(r, o), p, n), o, p)
    BY <1>5, OpenSeenType DEF RecAdd
  <2>2. Added(r, o) \in Nat
    BY <1>0 DEF Added, Excess, PassType
  <2>3. n \in Nat
    BY <1>0, <2>1, <2>2, SeenQtyType
  <2>4. WithQty(Filled(r, o), p, n) \in PassType
    BY <1>0, <2>1, <2>3, WithQtyType
  <2>5. venue' \in [Orders -> VenueType] /\ rec' \in [Passes -> PassType]
    BY <2>1, <2>4, ProtectType
  <2> QED
    BY <1>5, <2>5 DEF RecAdd, TypeOK, aside, tables
<1>6. CASE RecGone(r, o)
  BY <1>0, <1>6 DEF RecGone, TypeOK, aside, tables
<1>7. CASE RecSell(r, o)
  <2>1. PICK p \in OpenSeen(r) : rec' = [rec EXCEPT ![r] = Sold(r, o, p)]
    BY <1>7 DEF RecSell
  <2>2. Sold(r, o, p) \in PassType
    BY <2>1, OpenSeenType, SoldType
  <2> QED
    BY <1>0, <1>7, <2>1, <2>2 DEF RecSell, TypeOK, aside, tables
<1> QED
  BY <1>1, <1>2, <1>3, <1>4, <1>5, <1>6, <1>7

LEMMA RecStartKeepsType ==
    ASSUME TypeOK, NEW r \in Passes, RecStart(r)
    PROVE  TypeOK'
<1> DEFINE before == [o \in Orders |-> row[o].filled]
<1>1. Reconciled \in SUBSET Orders /\ before \in [Orders -> Nat]
  BY DEF Reconciled, TypeOK, RowType
<1>2. [IdlePass EXCEPT !.pc = "loop", !.todo = Reconciled, !.prev = before] \in PassType
  <2>1. IdlePass \in PassType
    BY IdlePassType
  <2> HIDE DEF before
  <2> QED
    BY <1>1, <2>1 DEF PassType
<1> QED
  BY <1>2 DEF RecStart, TypeOK, aside, tables

LEMMA WrittenType ==
    ASSUME TypeOK, NEW l \in PassType, NEW p \in Positions
    PROVE  Written(l, p) \in PositionType
<1>1. pos[p] \in PositionType
  BY DEF TypeOK
<1> QED
  BY <1>1 DEF Written, PositionType, PassType

LEMMA RecCommitKeepsType ==
    ASSUME TypeOK, NEW r \in Passes, RecCommit(r)
    PROVE  TypeOK'
<1> DEFINE l == rec[r]
<1>1. l \in PassType
  BY DEF TypeOK
<1> HIDE DEF l
<1>2. /\ row' = [o \in Orders |->
                   IF l.add[o] # NoRow THEN l.add[o]
                   ELSE CASE l.status[o] = "keep" -> row[o]
                          [] l.status[o] = "CANCELLED" -> [row[o] EXCEPT !.status = "CANCELLED"]
                          [] OTHER -> [row[o] EXCEPT !.status = l.status[o], !.filled = l.filled[o]]]
      /\ signal' = [s \in Signals |-> IF s \in l.rearm THEN "PENDING" ELSE signal[s]]
      /\ pos'    = [p \in Positions |-> Written(l, p)]
      /\ trades' = [p \in Positions |-> trades[p] + l.final[p]]
      /\ booked' = [p \in Positions |-> booked[p] + l.book[p]]
      /\ rec'    = [rec EXCEPT ![r] = IdlePass]
      /\ UNCHANGED <<venue, coins, prog>>
  BY DEF RecCommit, l
<1>3. row' \in [Orders -> RowType]
  <2>1. ASSUME NEW o \in Orders
        PROVE  row'[o] \in RowType
    <3>1. row[o] \in RowType /\ l.add[o] \in RowType /\ l.filled[o] \in Nat
             /\ l.status[o] \in {"keep", "PARTIAL", "FILLED", "CANCELLED"}
      BY <1>1 DEF TypeOK, PassType
    <3>2. [row[o] EXCEPT !.status = "CANCELLED"] \in RowType
      BY <3>1 DEF RowType
    <3>3. ASSUME l.status[o] \in {"PARTIAL", "FILLED"}
          PROVE  [row[o] EXCEPT !.status = l.status[o], !.filled = l.filled[o]] \in RowType
      BY <3>1, <3>3 DEF RowType
    <3> QED
      BY <1>2, <3>1, <3>2, <3>3
  <2> QED
    BY <1>2, <2>1
<1>4. signal' \in [Signals -> {"PENDING", "TRIGGERED", "SKIPPED"}]
  BY <1>2 DEF TypeOK
<1>5. pos' \in [Positions -> PositionType]
  BY <1>1, <1>2, WrittenType
<1>6. trades' \in [Positions -> Nat] /\ booked' \in [Positions -> Nat]
  <2>1. l.final \in [Positions -> Nat] /\ l.book \in [Positions -> Nat]
    BY <1>1 DEF PassType
  <2>2. \A p \in Positions : trades[p] + l.final[p] \in Nat /\ booked[p] + l.book[p] \in Nat
    BY <2>1 DEF TypeOK
  <2> QED
    BY <1>2, <2>2
<1>7. rec' \in [Passes -> PassType]
  BY <1>2, IdlePassType DEF TypeOK
<1> QED
  BY <1>2, <1>3, <1>4, <1>5, <1>6, <1>7 DEF TypeOK

LEMMA PassKeepsType ==
    ASSUME TypeOK, NEW r \in Passes, RecStep(r)
    PROVE  TypeOK'
<1>1. CASE RecRollback(r)
  BY <1>1, IdlePassType DEF RecRollback, TypeOK, aside, tables
<1> QED
  BY <1>1, RecOrdersKeepType, RecStartKeepsType, RecCommitKeepsType DEF RecStep

LEMMA NextTypeOK ==
    ASSUME TypeOK, [Next]_vars
    PROVE  TypeOK'
<1>1. CASE UNCHANGED vars
  BY <1>1 DEF vars, tables, TypeOK
<1> QED
  BY <1>1, VenueKeepsType, ProgramKeepsType, PassKeepsType DEF Next

\* Every column and every local variable keeps its type, whatever the venue
\* and the workers do.
THEOREM TypeCorrect == Spec => []TypeOK
<1>1. Init => TypeOK
  BY InitTypeOK
<1>2. TypeOK /\ [Next]_vars => TypeOK'
  BY NextTypeOK
<1> QED
  BY <1>1, <1>2, PTL DEF Spec

-----------------------------------------------------------------------------
(* The tables keep the promise of PositionLedger. *)

\* What the passes have claimed and not committed: a position one of them has
\* made is free in the table and made by no other, and one it means to close
\* is a row of the table or made by itself.
ClaimsAreKnown ==
    \A r \in Passes, p \in Positions :
       /\ rec[r].made[p] # NoSignal =>
             /\ pos[p].status = "none"
             /\ \A q \in Passes : rec[q].made[p] # NoSignal => q = r
       /\ rec[r].final[p] > 0 => pos[p].status # "none" \/ rec[r].made[p] # NoSignal

\* The inductive invariant.
LedgerInv == TypeOK /\ OneFinalTrade /\ ClaimsAreKnown

\* A step of the tables: it opens rows that were free, closes rows that were
\* OPEN or are opened by it, and books the final trade of those it closes.
TableStep(opened, closed) ==
    /\ opened \subseteq Positions /\ closed \subseteq Positions
    /\ \A p \in opened : pos[p].status = "none"
    /\ \A p \in closed : pos[p].status = "OPEN" \/ p \in opened
    /\ \A p \in Positions :
          /\ pos'[p].status = IF p \in closed THEN "CLOSED"
                              ELSE IF p \in opened THEN "OPEN" ELSE pos[p].status
          /\ trades'[p] = IF p \in closed THEN trades[p] + 1 ELSE trades[p]

LEMMA TableStepKeepsTrades ==
    ASSUME TypeOK, OneFinalTrade, NEW opened, NEW closed, TableStep(opened, closed)
    PROVE  OneFinalTrade'
  BY DEF TypeOK, OneFinalTrade, TableStep, PositionType

\* The other programs do not touch a pass: what it has claimed stays known.
LEMMA OthersKeepClaims ==
    ASSUME ClaimsAreKnown, NEW opened, NEW closed, TableStep(opened, closed), UNCHANGED rec,
           \A r \in Passes : opened \cap Made(r) = {}
    PROVE  ClaimsAreKnown'
<1>1. SUFFICES ASSUME NEW r \in Passes, NEW p \in Positions
               PROVE  /\ rec[r].made[p] # NoSignal =>
                            /\ pos'[p].status = "none"
                            /\ \A q \in Passes : rec[q].made[p] # NoSignal => q = r
                      /\ rec[r].final[p] > 0 =>
                            pos'[p].status # "none" \/ rec[r].made[p] # NoSignal
  BY DEF ClaimsAreKnown
<1>2. /\ pos'[p].status = IF p \in closed THEN "CLOSED"
                          ELSE IF p \in opened THEN "OPEN" ELSE pos[p].status
      /\ p \in closed => pos[p].status = "OPEN" \/ p \in opened
  BY DEF TableStep
<1>3. CASE rec[r].made[p] # NoSignal
  <2>1. p \notin opened
    BY <1>3 DEF Made
  <2> QED
    BY <1>2, <1>3, <2>1 DEF ClaimsAreKnown
<1>4. CASE rec[r].made[p] = NoSignal
  BY <1>2, <1>4 DEF ClaimsAreKnown
<1> QED
  BY <1>3, <1>4

\* A step that leaves every status and every count alone.
LEMMA QuietStepKeepsLedger ==
    ASSUME LedgerInv, UNCHANGED <<rec, trades>>,
           \A p \in Positions : pos'[p].status = pos[p].status
    PROVE  TableStep({}, {}) /\ OneFinalTrade' /\ ClaimsAreKnown'
<1>1. TableStep({}, {})
  BY DEF TableStep
<1> QED
  BY <1>1, TableStepKeepsTrades, OthersKeepClaims DEF LedgerInv

\* What a step of a program other than reconciliation does to the tables.
LEMMA ClosesOne ==
    ASSUME LedgerInv, NEW p \in OpenPositions, UNCHANGED rec,
           pos' = [pos EXCEPT ![p] = [@ EXCEPT !.status = "CLOSED"]],
           trades' = [trades EXCEPT ![p] = @ + 1]
    PROVE  TableStep({}, {p}) /\ OneFinalTrade' /\ ClaimsAreKnown'
<1>1. p \in Positions /\ pos[p].status = "OPEN"
  BY DEF OpenPositions
<1>2. pos[p] \in PositionType
  BY <1>1 DEF LedgerInv, TypeOK
<1>3. [pos[p] EXCEPT !.status = "CLOSED"].status = "CLOSED"
  BY <1>2 DEF PositionType
<1>4. TableStep({}, {p})
  BY <1>1, <1>3 DEF TableStep, LedgerInv, TypeOK
<1> QED
  BY <1>4, TableStepKeepsTrades, OthersKeepClaims DEF LedgerInv

LEMMA ProgramKeepsLedger ==
    ASSUME LedgerInv, ProgramStep
    PROVE  /\ \E opened, closed \in SUBSET Positions : TableStep(opened, closed)
           /\ OneFinalTrade' /\ ClaimsAreKnown'
<1> DEFINE Goal == /\ \E opened, closed \in SUBSET Positions : TableStep(opened, closed)
                   /\ OneFinalTrade' /\ ClaimsAreKnown'
<1>1. ASSUME UNCHANGED <<rec, trades>>, \A p \in Positions : pos'[p].status = pos[p].status
      PROVE  Goal
  BY <1>1, QuietStepKeepsLedger
<1>2. ASSUME NEW p \in OpenPositions, UNCHANGED rec,
             pos' = [pos EXCEPT ![p] = [@ EXCEPT !.status = "CLOSED"]],
             trades' = [trades EXCEPT ![p] = @ + 1]
      PROVE  Goal
  <2>1. TableStep({}, {p}) /\ OneFinalTrade' /\ ClaimsAreKnown'
    BY <1>2, ClosesOne
  <2> QED
    BY <2>1 DEF OpenPositions
<1> HIDE DEF Goal
<1>3. CASE \/ ChatStart \/ EntryStart \/ AddStart \/ RulesStart \/ StopsStart
           \/ StopsCheck \/ ManualStart \/ AmendStart
  <2>1. UNCHANGED <<tables, rec>>
    BY <1>3 DEF ChatStart, EntryStart, AddStart, RulesStart, StopsStart, StopsCheck,
                ManualStart, AmendStart, Begin, outside
  <2> QED
    BY <1>1, <2>1 DEF tables, Goal
<1>4. ASSUME NEW x \in Programs,
             CancelStop(x) \/ Submit(x) \/ SubmitRejected(x) \/ ProgramCrash(x)
      PROVE  Goal
  BY <1>1, <1>4 DEF CancelStop, Submit, SubmitRejected, ProgramCrash, outside, tables
<1>5. CASE \/ EntrySelfHeal \/ AmendRejected \/ RecordEntry \/ RecordOrphan
           \/ RecordRules \/ RecordStops
           \/ RecordExit("manual", "market") \/ RecordExit("amend", "stop")
           \/ \E o \in Orders : OrphanExpires(o)
  BY <1>1, <1>5 DEF EntrySelfHeal, AmendRejected, RecordEntry, RecordOrphan, RecordRules,
                    RecordStops, RecordExit, OrphanExpires, outside, tables, Goal
<1>6. CASE ManualPaper
  <2>1. PICK p \in OpenPositions :
           /\ pos' = [pos EXCEPT ![p] = [@ EXCEPT !.status = "CLOSED"]]
           /\ trades' = [trades EXCEPT ![p] = @ + 1]
           /\ UNCHANGED rec
    BY <1>6 DEF ManualPaper, outside
  <2> QED
    BY <1>2, <2>1 DEF Goal
<1>7. CASE RulesClose
  BY <1>1, <1>2, <1>7 DEF RulesClose, outside, Goal
<1>8. CASE RecordAdd
  <2> DEFINE p == prog["add"].p
  <2>1. UNCHANGED <<rec, trades>>
    BY <1>8 DEF RecordAdd, outside
  <2>2. CASE Simulated("add") /\ p \in OpenPositions
    <3>1. p \in Positions /\ pos[p] \in PositionType
      BY <2>2 DEF OpenPositions, LedgerInv, TypeOK
    <3>2. pos' = [pos EXCEPT ![p] = [@ EXCEPT !.qty = pos[p].qty + prog["add"].qty]]
      BY <1>8, <2>2 DEF RecordAdd
    <3>3. [pos[p] EXCEPT !.qty = pos[p].qty + prog["add"].qty].status = pos[p].status
      BY <3>1 DEF PositionType
    <3>4. \A q \in Positions : pos'[q].status = pos[q].status
      BY <3>1, <3>2, <3>3 DEF LedgerInv, TypeOK
    <3> QED
      BY <1>1, <2>1, <3>4 DEF Goal
  <2>3. CASE ~(Simulated("add") /\ p \in OpenPositions)
    BY <1>1, <1>8, <2>1, <2>3 DEF RecordAdd, Goal
  <2> QED
    BY <2>2, <2>3 DEF Goal
<1>9. ASSUME NEW x \in Programs, RecordSimulatedEntry(x)
      PROVE  Goal
  <2> DEFINE p == NextPosition
             new == [status |-> "OPEN", sig |-> prog[x].sig, qty |-> prog[x].qty,
                     paper |-> x = "chat"]
  <2>1. /\ p \in Positions /\ pos[p].status = "none"
        /\ \A r \in Passes : p \notin Made(r)
    BY <1>9, NextPositionIsFree DEF RecordSimulatedEntry
  <2>2. pos' = [pos EXCEPT ![p] = new] /\ UNCHANGED <<trades, rec>>
    BY <1>9 DEF RecordSimulatedEntry, outside
  <2> HIDE DEF p
  <2>3. TableStep({p}, {})
    BY <2>1, <2>2 DEF TableStep, LedgerInv, TypeOK
  <2>4. OneFinalTrade' /\ ClaimsAreKnown'
    BY <2>1, <2>2, <2>3, TableStepKeepsTrades, OthersKeepClaims DEF LedgerInv
  <2> QED
    BY <2>1, <2>3, <2>4 DEF Goal
<1> QED
  BY <1>3, <1>4, <1>5, <1>6, <1>7, <1>8, <1>9 DEF ProgramStep, Goal

\* What a pass claims does not change when it records a fill or protects a
\* position.
LEMMA FilledClaims ==
    ASSUME TypeOK, NEW r \in Passes, NEW o \in Orders
    PROVE  /\ Done(r, o).made = rec[r].made /\ Done(r, o).final = rec[r].final
           /\ Filled(r, o).made = rec[r].made /\ Filled(r, o).final = rec[r].final
<1>1. rec[r] \in PassType
  BY DEF TypeOK
<1> QED
  BY <1>1 DEF Filled, Done, PassType

LEMMA WithQtyClaims ==
    ASSUME NEW l \in PassType, NEW p, NEW n
    PROVE  WithQty(l, p, n).made = l.made /\ WithQty(l, p, n).final = l.final
  BY DEF WithQty, PassType

LEMMA ProtectClaims ==
    ASSUME TypeOK, NEW r \in Passes, NEW o, NEW p, NEW l \in PassType, Protect(r, l, o, p)
    PROVE  \E m : /\ rec' = [rec EXCEPT ![r] = m]
                  /\ m.made = l.made /\ m.final = l.final
<1>1. \A add : /\ [l EXCEPT !.add = add].made = l.made
               /\ [l EXCEPT !.add = add].final = l.final
  BY DEF PassType
<1>2. \/ rec' = [rec EXCEPT ![r] = l]
      \/ \E add : rec' = [rec EXCEPT ![r] = [l EXCEPT !.add = add]]
  <2> DEFINE with(kind) == [l.add EXCEPT ![NextOrder] = SellRow(kind, p)]
  <2>1. \/ rec' = [rec EXCEPT ![r] = l]
        \/ \E kind \in {"stop", "market"} : rec' = [rec EXCEPT ![r] = [l EXCEPT !.add = with(kind)]]
    BY DEF Protect
  <2> QED
    BY <2>1
<1> QED
  BY <1>1, <1>2

\* A step of a pass before its commit: the tables stay, and of the claims of
\* the pass at most one changes.
LEMMA ClaimKeepsLedger ==
    ASSUME LedgerInv, NEW r \in Passes, NEW m, UNCHANGED tables,
           rec' = [rec EXCEPT ![r] = m],
           \/ m.made = rec[r].made /\ m.final = rec[r].final
           \/ /\ FreePositions # {}
              /\ \E sig : m.made = [rec[r].made EXCEPT ![NextPosition] = sig]
              /\ m.final = rec[r].final
           \/ /\ m.made = rec[r].made
              /\ \E p \in OpenSeen(r) : \E n : m.final = [rec[r].final EXCEPT ![p] = n]
    PROVE  ClaimsAreKnown'
<1>0. /\ rec \in [Passes -> PassType]
      /\ rec[r].made \in [Positions -> NullableSignal] /\ rec[r].final \in [Positions -> Nat]
  BY DEF LedgerInv, TypeOK, PassType
<1>a. /\ rec'[r].made = m.made /\ rec'[r].final = m.final
      /\ \A q \in Passes \ {r} : rec'[q] = rec[q]
      /\ \A p \in Positions : pos'[p].status = pos[p].status
  BY <1>0 DEF tables
<1>1. CASE m.made = rec[r].made /\ m.final = rec[r].final
  BY <1>1, <1>a DEF ClaimsAreKnown, LedgerInv
<1>2. ASSUME FreePositions # {}, NEW sig, m.final = rec[r].final,
             m.made = [rec[r].made EXCEPT ![NextPosition] = sig]
      PROVE  ClaimsAreKnown'
  <2> DEFINE n == NextPosition
  <2>1. n \in Positions /\ pos[n].status = "none" /\ \A q \in Passes : rec[q].made[n] = NoSignal
    BY <1>2, NextPositionIsFree DEF Made
  <2>2. \A p \in Positions : rec'[r].made[p] = IF p = n THEN sig ELSE rec[r].made[p]
    BY <1>0, <1>2, <1>a
  <2> HIDE DEF n
  <2>3. SUFFICES ASSUME NEW q \in Passes, NEW p \in Positions
                 PROVE  /\ rec'[q].made[p] # NoSignal =>
                              /\ pos'[p].status = "none"
                              /\ \A q2 \in Passes : rec'[q2].made[p] # NoSignal => q2 = q
                        /\ rec'[q].final[p] > 0 =>
                              pos'[p].status # "none" \/ rec'[q].made[p] # NoSignal
    BY DEF ClaimsAreKnown
  <2>4. rec'[q].final = rec[q].final
    BY <1>2, <1>a
  <2>5. CASE p = n
    BY <1>a, <2>1, <2>2, <2>4, <2>5 DEF ClaimsAreKnown, LedgerInv
  <2>6. CASE p # n
    <3>1. \A q2 \in Passes : rec'[q2].made[p] = rec[q2].made[p]
      BY <1>a, <2>2, <2>6
    <3> QED
      BY <1>a, <2>4, <3>1 DEF ClaimsAreKnown, LedgerInv
  <2> QED
    BY <2>5, <2>6
<1>3. ASSUME m.made = rec[r].made, NEW p \in OpenSeen(r), NEW n,
             m.final = [rec[r].final EXCEPT ![p] = n]
      PROVE  ClaimsAreKnown'
  <2>1. p \in Positions /\ (pos[p].status # "none" \/ rec[r].made[p] # NoSignal)
    BY DEF OpenSeen, OpenPositions, Made
  <2>2. \A q \in Passes : rec'[q].made = rec[q].made
    BY <1>3, <1>a
  <2>3. \A q \in Passes, x \in Positions : rec'[q].final[x] = rec[q].final[x] \/ (q = r /\ x = p)
    BY <1>0, <1>3, <1>a
  <2> QED
    BY <1>a, <2>1, <2>2, <2>3 DEF ClaimsAreKnown, LedgerInv
<1> QED
  BY <1>1, <1>2, <1>3

LEMMA RecOrdersKeepClaims ==
    ASSUME LedgerInv, NEW r \in Passes, NEW o \in Orders,
           \/ RecNothing(r, o) \/ RecCancelled(r, o) \/ RecEntryHeld(r, o)
           \/ RecEntryNew(r, o) \/ RecAdd(r, o) \/ RecGone(r, o) \/ RecSell(r, o)
    PROVE  ClaimsAreKnown' /\ UNCHANGED tables
<1> DEFINE d == Done(r, o)
           f == Filled(r, o)
<1>0. /\ d.made = rec[r].made /\ d.final = rec[r].final
      /\ f.made = rec[r].made /\ f.final = rec[r].final
  BY FilledClaims DEF LedgerInv
<1>a. d \in PassType /\ f \in PassType
  BY DoneType, FilledType DEF LedgerInv
<1>t. UNCHANGED tables
  BY DEF RecNothing, RecCancelled, RecEntryHeld, RecEntryNew, RecAdd, RecGone, RecSell, aside
<1>1. CASE RecNothing(r, o)
  BY <1>0, <1>1, <1>t, ClaimKeepsLedger DEF RecNothing
<1>2. CASE RecCancelled(r, o)
  <2> DEFINE m == [d EXCEPT !.status = [@ EXCEPT ![o] = "CANCELLED"],
                     !.rearm = IF /\ row[o].sig # NoSignal
                                  /\ signal[row[o].sig] = "TRIGGERED"
                               THEN @ \cup {row[o].sig} ELSE @]
  <2>1. rec' = [rec EXCEPT ![r] = m]
    BY <1>2 DEF RecCancelled
  <2> HIDE DEF d
  <2>2. m.made = rec[r].made /\ m.final = rec[r].final
    BY <1>0, <1>a DEF PassType
  <2> QED
    BY <1>t, <2>1, <2>2, ClaimKeepsLedger
<1>3. CASE RecEntryHeld(r, o)
  <2>1. PICK p \in OpenSeen(r) : Protect(r, WithQty(f, p, venue[o].filled), o, p)
    BY <1>3 DEF RecEntryHeld
  <2> DEFINE l == WithQty(f, p, venue[o].filled)
  <2>2. p \in Positions /\ venue[o].filled \in Nat
    BY <2>1, OpenSeenType DEF LedgerInv, TypeOK, VenueType
  <2>3. l \in PassType /\ l.made = rec[r].made /\ l.final = rec[r].final
    BY <1>0, <1>a, <2>2, WithQtyType, WithQtyClaims
  <2>4. \E m : rec' = [rec EXCEPT ![r] = m] /\ m.made = l.made /\ m.final = l.final
    BY <2>1, <2>3, ProtectClaims DEF LedgerInv
  <2> QED
    BY <1>t, <2>3, <2>4, ClaimKeepsLedger
<1>4. CASE RecEntryNew(r, o)
  <2> DEFINE p == NextPosition
             l == [f EXCEPT !.made = [@ EXCEPT ![p] = row[o].sig],
                            !.held = @ \cup {p}, !.qty = [@ EXCEPT ![p] = venue[o].filled]]
  <2>1. FreePositions # {} /\ Protect(r, l, o, p)
    BY <1>4 DEF RecEntryNew
  <2>2. p \in Positions /\ venue[o].filled \in Nat /\ row[o].sig \in NullableSignal
    BY <2>1, NextPositionIsFree DEF LedgerInv, TypeOK, VenueType, RowType
  <2> HIDE DEF f, p
  <2>3. /\ [f.made EXCEPT ![p] = row[o].sig] \in [Positions -> NullableSignal]
        /\ [f.qty EXCEPT ![p] = venue[o].filled] \in [Positions -> Nat]
        /\ f.held \cup {p} \in SUBSET Positions
    BY <1>a, <2>2 DEF PassType
  <2>4. l \in PassType
    BY <1>a, <2>3 DEF PassType
  <2>5. l.made = [rec[r].made EXCEPT ![p] = row[o].sig] /\ l.final = rec[r].final
    BY <1>0, <1>a DEF PassType
  <2> HIDE DEF l
  <2>6. PICK m : rec' = [rec EXCEPT ![r] = m] /\ m.made = l.made /\ m.final = l.final
    BY <2>1, <2>4, ProtectClaims DEF LedgerInv
  <2>7. \E sig : m.made = [rec[r].made EXCEPT ![NextPosition] = sig]
    BY <2>5, <2>6 DEF p
  <2> QED
    BY <1>t, <2>1, <2>5, <2>6, <2>7, ClaimKeepsLedger
<1>5. CASE RecAdd(r, o)
  <2> DEFINE p == row[o].p
             n == SeenQty(f, p) + Added(r, o)
             l == WithQty(f, p, n)
  <2>1. p \in Positions /\ Protect(r, l, o, p)
    BY <1>5, OpenSeenType DEF RecAdd
  <2>2. venue[o].filled \in Nat /\ rec[r].prev[o] \in Nat
    BY DEF LedgerInv, TypeOK, VenueType, PassType
  <2>3. n \in Nat
    BY <1>a, <2>1, <2>2, SeenQtyType DEF Added, Excess, LedgerInv
  <2> HIDE DEF f, n, p
  <2>4. l \in PassType /\ l.made = rec[r].made /\ l.final = rec[r].final
    BY <1>0, <1>a, <2>1, <2>3, WithQtyType, WithQtyClaims
  <2>5. \E m : rec' = [rec EXCEPT ![r] = m] /\ m.made = l.made /\ m.final = l.final
    BY <2>1, <2>4, ProtectClaims DEF LedgerInv
  <2> QED
    BY <1>t, <2>4, <2>5, ClaimKeepsLedger
<1>6. CASE RecGone(r, o)
  BY <1>0, <1>6, <1>t, ClaimKeepsLedger DEF RecGone
<1>7. CASE RecSell(r, o)
  <2>1. PICK p \in OpenSeen(r) : rec' = [rec EXCEPT ![r] = Sold(r, o, p)]
    BY <1>7 DEF RecSell
  <2> DEFINE l == [f EXCEPT !.book = [@ EXCEPT ![p] = rec[r].book[p] + Closed(r, o, p)]]
  <2>2. l.made = rec[r].made /\ l.final = rec[r].final
    <3> HIDE DEF f
    <3> QED
      BY <1>0, <1>a DEF PassType
  <2>3. Sold(r, o, p) = IF Closed(r, o, p) = SeenQty(l, p)
                        THEN [l EXCEPT !.final = [@ EXCEPT ![p] = l.final[p] + 1], !.held = @ \cup {p},
                                          !.qty = [@ EXCEPT ![p] = SeenQty(l, p)]]
                        ELSE WithQty(l, p, SeenQty(l, p) - Closed(r, o, p))
    BY DEF Sold
  <2>4. DOMAIN l = DOMAIN f
    OBVIOUS
  <2>5. /\ Sold(r, o, p).made = rec[r].made
        /\ \/ Sold(r, o, p).final = rec[r].final
           \/ Sold(r, o, p).final = [rec[r].final EXCEPT ![p] = l.final[p] + 1]
    <3>1. {"made", "final", "held", "qty", "dirty"} \subseteq DOMAIN l
      <4> HIDE DEF f, l
      <4> QED
        BY <1>a, <2>4 DEF PassType
    <3> HIDE DEF l
    <3> QED
      BY <2>2, <2>3, <3>1 DEF WithQty
  <2> QED
    BY <1>t, <2>1, <2>5, ClaimKeepsLedger
<1> QED
  BY <1>1, <1>2, <1>3, <1>4, <1>5, <1>6, <1>7, <1>t

\* The commit of a pass opens what it made and closes what it sold.  The
\* constraint on trades lets it book only a position that has no trade yet, and
\* one that is neither free nor booked is OPEN.
LEMMA RecCommitKeepsLedger ==
    ASSUME LedgerInv, NEW r \in Passes, RecCommit(r)
    PROVE  /\ \E opened, closed \in SUBSET Positions : TableStep(opened, closed)
           /\ OneFinalTrade' /\ ClaimsAreKnown'
<1> DEFINE l == rec[r]
           closed == {p \in Positions : l.final[p] > 0}
<1>0. /\ rec \in [Passes -> PassType] /\ trades \in [Positions -> Nat]
      /\ l.final \in [Positions -> Nat]
  BY DEF LedgerInv, TypeOK, PassType
<1>1. /\ pos' = [p \in Positions |-> Written(l, p)]
      /\ trades' = [p \in Positions |-> trades[p] + l.final[p]]
      /\ rec' = [rec EXCEPT ![r] = IdlePass]
      /\ \A p \in Positions : l.final[p] > 0 => trades[p] + l.final[p] <= 1
  <2>1. /\ pos' = [p \in Positions |-> Written(l, p)]
        /\ trades' = [p \in Positions |-> trades[p] + l.final[p]]
        /\ rec' = [rec EXCEPT ![r] = IdlePass]
        /\ ~UniqueViolated(r)
    BY DEF RecCommit
  <2> QED
    BY <1>0, <2>1 DEF UniqueViolated
<1>2. \A p \in Positions : p \in Made(r) <=> l.made[p] # NoSignal
  BY DEF Made
<1>3. \A p \in closed : trades[p] = 0 /\ l.final[p] = 1
  BY <1>0, <1>1
<1>4. \A p \in Made(r) : pos[p].status = "none"
  BY DEF LedgerInv, ClaimsAreKnown, Made
<1>5. \A p \in closed : pos[p].status = "OPEN" \/ p \in Made(r)
  <2>1. SUFFICES ASSUME NEW p \in Positions, l.final[p] > 0, l.made[p] = NoSignal
                 PROVE  pos[p].status = "OPEN"
    BY <1>2
  <2>2. pos[p].status # "none"
    BY <2>1 DEF LedgerInv, ClaimsAreKnown
  <2>3. pos[p].status # "CLOSED"
    BY <1>3, <2>1 DEF LedgerInv, OneFinalTrade
  <2> QED
    BY <2>2, <2>3 DEF LedgerInv, TypeOK, PositionType
<1>6. ASSUME NEW p \in Positions
      PROVE  /\ pos'[p].status = IF p \in closed THEN "CLOSED"
                                 ELSE IF p \in Made(r) THEN "OPEN" ELSE pos[p].status
             /\ trades'[p] = IF p \in closed THEN trades[p] + 1 ELSE trades[p]
  <2>1. pos'[p].status = Written(l, p).status
    BY <1>1
  <2>2. Written(l, p).status = IF p \in closed THEN "CLOSED"
                               ELSE IF p \in Made(r) THEN "OPEN" ELSE pos[p].status
    <3> HIDE DEF l
    <3> QED
      BY <1>2 DEF Written, closed
  <2>3. trades'[p] = trades[p] + l.final[p] /\ l.final[p] \in Nat
    BY <1>0, <1>1
  <2>4. l.final[p] = IF p \in closed THEN 1 ELSE 0
    BY <1>3, <2>3
  <2>5. trades[p] \in Nat
    BY <1>0
  <2> QED
    BY <2>1, <2>2, <2>3, <2>4, <2>5
<1>7. TableStep(Made(r), closed)
  BY <1>4, <1>5, <1>6 DEF TableStep, Made
<1>8. OneFinalTrade'
  BY <1>7, TableStepKeepsTrades DEF LedgerInv
<1> HIDE DEF closed, l
<1>9. ClaimsAreKnown'
  <2>1. SUFFICES ASSUME NEW q \in Passes, NEW p \in Positions
                 PROVE  /\ rec'[q].made[p] # NoSignal =>
                              /\ pos'[p].status = "none"
                              /\ \A q2 \in Passes : rec'[q2].made[p] # NoSignal => q2 = q
                        /\ rec'[q].final[p] > 0 =>
                              pos'[p].status # "none" \/ rec'[q].made[p] # NoSignal
    BY DEF ClaimsAreKnown
  <2>2. rec'[r].made[p] = NoSignal /\ rec'[r].final[p] = 0
    BY <1>0, <1>1 DEF IdlePass
  <2>3. \A q2 \in Passes \ {r} : rec'[q2] = rec[q2]
    BY <1>0, <1>1
  <2>4. CASE q = r
    BY <2>2, <2>4
  <2>5. CASE q # r
    <3>1. rec'[q] = rec[q]
      BY <2>3, <2>5
    <3>2. pos[p].status # "none" => pos'[p].status # "none"
      BY <1>6
    <3>3. ASSUME rec[q].made[p] # NoSignal
          PROVE  pos'[p].status = "none"
      <4>1. pos[p].status = "none" /\ p \notin Made(r)
        BY <2>5, <3>3 DEF LedgerInv, ClaimsAreKnown, Made
      <4>2. p \notin closed
        BY <1>5, <4>1
      <4> QED
        BY <1>6, <4>1, <4>2
    <3>4. \A q2 \in Passes : rec'[q2].made[p] # NoSignal /\ rec[q].made[p] # NoSignal => q2 = q
      BY <2>2, <2>3 DEF LedgerInv, ClaimsAreKnown
    <3> QED
      BY <3>1, <3>2, <3>3, <3>4 DEF LedgerInv, ClaimsAreKnown
  <2> QED
    BY <2>4, <2>5
<1>10. Made(r) \in SUBSET Positions /\ closed \in SUBSET Positions
  BY DEF Made, closed
<1> QED
  BY <1>7, <1>8, <1>9, <1>10

\* What is not committed is forgotten, and a pass starts with no claim.
LEMMA RecIdleKeepsClaims ==
    ASSUME LedgerInv, NEW r \in Passes, RecStart(r) \/ RecRollback(r)
    PROVE  ClaimsAreKnown' /\ UNCHANGED tables
<1>1. PICK m : /\ rec' = [rec EXCEPT ![r] = m]
               /\ m.made = IdlePass.made /\ m.final = IdlePass.final
  <2>1. CASE RecStart(r)
    <3> DEFINE m == [IdlePass EXCEPT !.pc = "loop", !.todo = Reconciled,
                                     !.prev = [o \in Orders |-> row[o].filled]]
    <3>1. rec' = [rec EXCEPT ![r] = m]
      BY <2>1 DEF RecStart
    <3>2. m.made = IdlePass.made /\ m.final = IdlePass.final
      BY IdlePassType DEF PassType
    <3> HIDE DEF m
    <3> QED
      BY <3>1, <3>2
  <2>2. CASE RecRollback(r)
    BY <2>2 DEF RecRollback
  <2> QED
    BY <2>1, <2>2
<1>2. \A p \in Positions : rec'[r].made[p] = NoSignal /\ rec'[r].final[p] = 0
  BY <1>1 DEF IdlePass, LedgerInv, TypeOK
<1>3. \A q \in Passes \ {r} : rec'[q] = rec[q]
  BY <1>1 DEF LedgerInv, TypeOK
<1>4. UNCHANGED tables
  BY DEF RecStart, RecRollback, aside
<1>5. \A p \in Positions : pos'[p].status = pos[p].status
  BY <1>4 DEF tables
<1> QED
  BY <1>2, <1>3, <1>4, <1>5 DEF ClaimsAreKnown, LedgerInv

LEMMA NextKeepsLedger ==
    ASSUME LedgerInv, [Next]_vars
    PROVE  /\ \/ \E opened, closed \in SUBSET Positions : TableStep(opened, closed)
              \/ UNCHANGED <<pos, trades>>
           /\ OneFinalTrade' /\ ClaimsAreKnown'
<1>1. ASSUME UNCHANGED <<pos, trades>>
      PROVE  OneFinalTrade'
  BY <1>1 DEF OneFinalTrade, LedgerInv
<1>2. ASSUME UNCHANGED <<pos, trades, rec>>
      PROVE  OneFinalTrade' /\ ClaimsAreKnown'
  BY <1>1, <1>2 DEF ClaimsAreKnown, LedgerInv
<1>3. CASE UNCHANGED vars
  BY <1>2, <1>3 DEF vars, tables
<1>4. CASE VenueStep
  <2>1. UNCHANGED <<pos, trades, rec>>
    BY <1>4 DEF VenueStep, VenueFill, VenueCancel, tables
  <2> QED
    BY <1>2, <2>1
<1>5. CASE ProgramStep
  BY <1>5, ProgramKeepsLedger
<1>6. ASSUME NEW r \in Passes, RecStep(r)
      PROVE  /\ \/ \E opened, closed \in SUBSET Positions : TableStep(opened, closed)
                \/ UNCHANGED <<pos, trades>>
             /\ OneFinalTrade' /\ ClaimsAreKnown'
  <2>1. CASE RecCommit(r)
    BY <2>1, RecCommitKeepsLedger
  <2>2. CASE ~RecCommit(r)
    <3>1. ClaimsAreKnown' /\ UNCHANGED tables
      BY <1>6, <2>2, RecOrdersKeepClaims, RecIdleKeepsClaims DEF RecStep
    <3> QED
      BY <1>1, <3>1 DEF tables
  <2> QED
    BY <2>1, <2>2
<1> QED
  BY <1>3, <1>4, <1>5, <1>6 DEF Next

\* The invariant holds of every behaviour.
THEOREM LedgerInvariant == Spec => []LedgerInv
<1>1. Init => LedgerInv
  <2>1. ASSUME Init
        PROVE  OneFinalTrade /\ ClaimsAreKnown
    BY <2>1 DEF Init, OneFinalTrade, ClaimsAreKnown, NoPos, IdlePass
  <2> QED
    BY <2>1, InitTypeOK DEF LedgerInv
<1>2. LedgerInv /\ [Next]_vars => LedgerInv'
  BY NextTypeOK, NextKeepsLedger DEF LedgerInv
<1> QED
  BY <1>1, <1>2, PTL DEF Spec

\* Whoever closes it, whatever fills, fails or is rolled back, a CLOSED crypto
\* position has exactly one final Trade row and any other none.
THEOREM FinalTradeOnce == Spec => []OneFinalTrade
<1>1. LedgerInv => OneFinalTrade
  BY DEF LedgerInv
<1> QED
  BY <1>1, LedgerInvariant, PTL

LEMMA TableStepIsLedgerStep ==
    ASSUME TypeOK, TypeOK', NEW opened, NEW closed, TableStep(opened, closed)
    PROVE  Ledger!Next
<1>1. Ledger!Commit(opened, closed)
  <2>1. [p \in Positions |-> pos'[p].status]
          = [p \in Positions |-> IF p \in closed THEN "CLOSED"
                                 ELSE IF p \in opened THEN "OPEN"
                                 ELSE [q \in Positions |-> pos[q].status][p]]
    BY DEF TableStep
  <2>2. trades' = [p \in Positions |-> IF p \in closed THEN trades[p] + 1 ELSE trades[p]]
    BY DEF TableStep, TypeOK
  <2> QED
    BY <2>1, <2>2 DEF Ledger!Commit, TableStep
<1> QED
  BY <1>1 DEF Ledger!Next, TableStep

\* Seven programs and reconciliation, crashes and refusals included, keep the
\* promise of PositionLedger: each commit opens free rows and closes open ones,
\* and every other step leaves the two tables alone.
THEOREM ImplementsLedger == Spec => LedgerSpec
<1>1. Init => Ledger!Init
  BY DEF Init, Ledger!Init, NoPos
<1>2. LedgerInv /\ LedgerInv' /\ [Next]_vars => [Ledger!Next]_Ledger!vars
  <2>1. SUFFICES ASSUME LedgerInv, LedgerInv', [Next]_vars
                 PROVE  [Ledger!Next]_Ledger!vars
    OBVIOUS
  <2>2. CASE \E opened, closed \in SUBSET Positions : TableStep(opened, closed)
    BY <2>1, <2>2, TableStepIsLedgerStep DEF LedgerInv
  <2>3. CASE UNCHANGED <<pos, trades>>
    BY <2>3 DEF Ledger!vars
  <2> QED
    BY <2>1, <2>2, <2>3, NextKeepsLedger
<1> QED
  BY <1>1, <1>2, LedgerInvariant, PTL DEF Spec, LedgerSpec, Ledger!Spec

-----------------------------------------------------------------------------
(* A position is reduced and closed only by fills. *)

\* The rows with action SELL, what they say was filled, and what a pass that
\* has not committed yet will make of them.
Sells(o) == row[o].kind \in {"market", "stop"}
SoldRow  == [o \in Orders |-> IF Sells(o) THEN row[o].filled ELSE 0]
PassSold(r) == [o \in Orders |-> IF Sells(o) /\ rec[r].status[o] = "FILLED"
                                 THEN rec[r].filled[o] ELSE 0]

\* A sell fills at once, and nothing is simulated.
SellsFillAtOnce ==
    \A o \in Orders :
       /\ venue[o].state = "none" => venue[o] = NoVenueOrder
       /\ venue[o].state # "sim"
       /\ venue[o].side = "sell" /\ venue[o].state # "filled" => venue[o].filled = 0

\* A row is that of an order which was sent; a sell's never counts more than
\* the venue, and nothing while it is active.
RowsAreSent ==
    \A o \in Orders :
       /\ venue[o].state = "none" => row[o] = NoRow
       /\ row[o].kind = "none" => row[o] = NoRow
       /\ Sells(o) => /\ venue[o].side = "sell"
                      /\ row[o].filled <= venue[o].filled
                      /\ row[o].status \in Active => row[o].filled = 0

\* What a program is about to record has no row yet, and nobody else will
\* write one.
RecordsAreNew ==
    \A x \in Programs :
       /\ \A o \in prog[x].stops : row[o].kind # "none"
       /\ prog[x].pc = "record" =>
             /\ prog[x].ord \in Orders
             /\ venue[prog[x].ord].state # "none"
             /\ venue[prog[x].ord].side = Side(x)
             /\ row[prog[x].ord] = NoRow
             /\ \A r \in Passes : rec[r].add[prog[x].ord] = NoRow
             /\ \A y \in Programs : prog[y].pc = "record" /\ prog[y].ord = prog[x].ord => y = x

\* A pass adds rows for sells of its own; what it has still to do it has not
\* changed, and no sell it has loaded had a fill.
AddedRow(r, o) ==
    rec[r].add[o] # NoRow =>
       /\ row[o] = NoRow
       /\ venue[o].state # "none" /\ venue[o].side = "sell"
       /\ rec[r].add[o].kind \in {"market", "stop"} /\ rec[r].add[o].filled = 0

LoadedRow(r, o) ==
    /\ o \in rec[r].todo =>
          /\ rec[r].status[o] = "keep" /\ row[o].kind # "none"
          /\ Sells(o) => row[o].filled = 0
    /\ rec[r].status[o] # "keep" =>
          /\ row[o].kind # "none"
          /\ Sells(o) => /\ row[o].filled = 0 /\ rec[r].status[o] # "PARTIAL"
                         /\ rec[r].status[o] = "FILLED" => rec[r].filled[o] <= venue[o].filled

PassesAgree == \A r \in Passes, o \in Orders : AddedRow(r, o) /\ LoadedRow(r, o)

\* What the trades say was sold is in the rows of the sells, and what a pass
\* will book is in those it will write.
BookedIsSold ==
    /\ \A p \in Positions : ~pos[p].paper
    /\ SumOver(booked, Positions) <= SumOver(SoldRow, Orders)
    /\ \A r \in Passes : SumOver(rec[r].book, Positions) <= SumOver(PassSold(r), Orders)

FillsInv == /\ TypeOK /\ SellsFillAtOnce /\ RowsAreSent /\ RecordsAreNew
            /\ PassesAgree /\ BookedIsSold

\* CryptoOrders writes its sums out as SumProofs does.
LEMMA SumOverIsSum ==
    ASSUME NEW f, NEW S
    PROVE  SumOver(f, S) = Sum(f, S)
  BY DEF SumOver, Sum

\* An order that was sent stays so, on its side, and its fills stay.
VenueMoves ==
    \A o \in Orders :
       venue[o].state # "none" =>
          /\ venue'[o].state # "none" /\ venue'[o].side = venue[o].side
          /\ venue[o].filled <= venue'[o].filled

LEMMA VenueStays ==
    ASSUME TypeOK, UNCHANGED venue
    PROVE  VenueMoves
  BY DEF VenueMoves, TypeOK, VenueType

\* A submission uses an order the venue does not know.
LEMMA PlacedMoves ==
    ASSUME TypeOK, SellsFillAtOnce, NEW new \in Orders, venue[new].state = "none",
           NEW side \in {"buy", "sell"}, NEW n \in Nat,
           venue' = Placed(venue, new, side, n, "open")
    PROVE  /\ VenueMoves /\ SellsFillAtOnce'
           /\ venue'[new].state = "open" /\ venue'[new].side = side
<1>1. venue' = [venue EXCEPT ![new] = [state |-> "open", side |-> side, amount |-> n, filled |-> 0]]
  BY DEF Placed
<1>2. venue'[new] = [state |-> "open", side |-> side, amount |-> n, filled |-> 0]
  BY <1>1 DEF TypeOK
<1>3. \A o \in Orders \ {new} : venue'[o] = venue[o]
  BY <1>1 DEF TypeOK
<1>4. \A o \in Orders : venue[o].filled \in Nat
  BY DEF TypeOK, VenueType
<1>5. VenueMoves
  BY <1>3, <1>4 DEF VenueMoves
<1>6. SellsFillAtOnce'
  BY <1>2, <1>3 DEF SellsFillAtOnce
<1> QED
  BY <1>2, <1>5, <1>6

\* Ending a working order at the venue keeps what it had filled.
LEMMA CancelledMoves ==
    ASSUME TypeOK, SellsFillAtOnce, NEW o \in Orders, venue[o].state = "open",
           venue' = [venue EXCEPT ![o] = [@ EXCEPT !.state = "cancelled"]]
    PROVE  VenueMoves /\ SellsFillAtOnce'
<1>1. venue[o] \in VenueType
  BY DEF TypeOK
<1>2. venue'[o] = [venue[o] EXCEPT !.state = "cancelled"]
  BY DEF TypeOK
<1>3. /\ venue'[o].state = "cancelled" /\ venue'[o].side = venue[o].side
      /\ venue'[o].filled = venue[o].filled
  BY <1>1, <1>2 DEF VenueType
<1>4. \A u \in Orders \ {o} : venue'[u] = venue[u]
  BY DEF TypeOK
<1>5. \A u \in Orders : venue[u].filled \in Nat
  BY DEF TypeOK, VenueType
<1>6. VenueMoves
  BY <1>3, <1>4, <1>5 DEF VenueMoves
<1>7. SellsFillAtOnce'
  BY <1>3, <1>4 DEF SellsFillAtOnce
<1> QED
  BY <1>6, <1>7

LEMMA VenueStepMoves ==
    ASSUME TypeOK, SellsFillAtOnce, "pieces" \notin Hazards, VenueStep
    PROVE  VenueMoves /\ SellsFillAtOnce'
<1>1. ASSUME NEW o \in Orders, VenueFill(o)
      PROVE  VenueMoves /\ SellsFillAtOnce'
  <2>1. PICK n \in 1..(venue[o].amount - venue[o].filled) :
           LET all  == venue[o].filled + n
               some == IF venue[o].side = "buy" THEN "partial" ELSE "pieces"
           IN  /\ some \notin Hazards => all = venue[o].amount
               /\ venue' = [venue EXCEPT ![o] = [@ EXCEPT !.filled = all,
                      !.state = IF all = venue[o].amount THEN "filled" ELSE "open"]]
    BY <1>1 DEF VenueFill
  <2>2. venue[o] \in VenueType
    BY DEF TypeOK
  <2>3. venue'[o] = [venue[o] EXCEPT !.filled = venue[o].filled + n,
               !.state = IF venue[o].filled + n = venue[o].amount THEN "filled" ELSE "open"]
    BY <2>1 DEF TypeOK
  <2>4. /\ venue'[o].state = IF venue[o].filled + n = venue[o].amount THEN "filled" ELSE "open"
        /\ venue'[o].side = venue[o].side
        /\ venue'[o].filled = venue[o].filled + n
    BY <2>2, <2>3 DEF VenueType
  <2>5. \A u \in Orders \ {o} : venue'[u] = venue[u]
    BY <2>1 DEF TypeOK
  <2>6. venue[o].side = "sell" => venue[o].filled + n = venue[o].amount
    BY <2>1, <2>2 DEF VenueType
  <2>7. \A u \in Orders : venue[u].filled \in Nat
    BY DEF TypeOK, VenueType
  <2>8. venue[o].state = "open"
    BY <1>1 DEF VenueFill
  <2>9. VenueMoves
    BY <2>1, <2>4, <2>5, <2>7 DEF VenueMoves
  <2>10. SellsFillAtOnce'
    BY <2>4, <2>5, <2>6, <2>8 DEF SellsFillAtOnce
  <2> QED
    BY <2>9, <2>10
<1>2. ASSUME NEW o \in Orders, VenueCancel(o)
      PROVE  VenueMoves /\ SellsFillAtOnce'
  BY <1>2, CancelledMoves DEF VenueCancel
<1> QED
  BY <1>1, <1>2 DEF VenueStep

-----------------------------------------------------------------------------
\* What the programs do to a row: nothing, end it, or write one for an order
\* that had none.
RowMoves ==
    \A o \in Orders :
       \/ row'[o] = row[o]
       \/ row[o].kind # "none" /\ row'[o] = [row[o] EXCEPT !.status = "CANCELLED"]
       \/ /\ row[o] = NoRow /\ venue[o].state # "none"
          /\ \A r \in Passes : rec[r].add[o] = NoRow
          /\ row'[o].kind # "none" /\ row'[o].filled = 0
          /\ row'[o].kind \in {"market", "stop"} => venue[o].side = "sell"

LEMMA ProgramsKeepRows ==
    ASSUME FillsInv, TypeOK', VenueMoves, RowMoves, IsFiniteSet(Orders),
           UNCHANGED <<pos, booked, rec>>
    PROVE  RowsAreSent' /\ PassesAgree' /\ BookedIsSold'
<1> USE DEF FillsInv
<1>1. ASSUME NEW o \in Orders
      PROVE  /\ row[o] \in RowType /\ row'[o] \in RowType
             /\ venue[o].filled \in Nat /\ venue'[o].filled \in Nat
  BY DEF TypeOK, VenueType
<1>n. NoRow.kind = "none" /\ NoRow.filled = 0
  BY DEF NoRow
<1>2. ASSUME NEW o \in Orders
      PROVE  /\ row[o].kind # "none" => row'[o].kind = row[o].kind /\ row'[o].filled = row[o].filled
             /\ row[o].kind # "none" => row'[o].status = row[o].status \/ row'[o].status \notin Active
             /\ row'[o] # NoRow /\ row[o].kind = "none" =>
                   /\ venue[o].state # "none" /\ row'[o].filled = 0 /\ row'[o].kind # "none"
                   /\ \A r \in Passes : rec[r].add[o] = NoRow
                   /\ row'[o].kind \in {"market", "stop"} => venue[o].side = "sell"
  <2>1. CASE row'[o] = row[o]
    BY <2>1 DEF RowsAreSent
  <2>2. CASE row[o].kind # "none" /\ row'[o] = [row[o] EXCEPT !.status = "CANCELLED"]
    BY <1>1, <2>2 DEF RowType, Active
  <2>3. CASE /\ row[o] = NoRow /\ venue[o].state # "none"
             /\ \A r \in Passes : rec[r].add[o] = NoRow
             /\ row'[o].kind # "none" /\ row'[o].filled = 0
             /\ row'[o].kind \in {"market", "stop"} => venue[o].side = "sell"
    BY <1>n, <2>3
  <2> QED
    BY <2>1, <2>2, <2>3 DEF RowMoves
<1>3. RowsAreSent'
  <2>1. SUFFICES ASSUME NEW o \in Orders
                 PROVE  /\ venue'[o].state = "none" => row'[o] = NoRow
                        /\ row'[o].kind = "none" => row'[o] = NoRow
                        /\ row'[o].kind \in {"market", "stop"} =>
                              /\ venue'[o].side = "sell"
                              /\ row'[o].filled <= venue'[o].filled
                              /\ row'[o].status \in Active => row'[o].filled = 0
    BY DEF RowsAreSent, Sells
  <2>2. venue[o].state # "none" =>
          /\ venue'[o].state # "none" /\ venue'[o].side = venue[o].side
          /\ venue[o].filled <= venue'[o].filled
    BY DEF VenueMoves
  <2>3. /\ venue[o].state = "none" => row[o] = NoRow
        /\ row[o].kind = "none" => row[o] = NoRow
        /\ row[o].kind \in {"market", "stop"} =>
                              /\ venue[o].side = "sell"
                              /\ row[o].filled <= venue[o].filled
                              /\ row[o].status \in Active => row[o].filled = 0
    BY DEF RowsAreSent, Sells
  <2>4. row[o].filled \in Nat /\ row'[o].filled \in Nat
    BY <1>1 DEF RowType
  <2>5. CASE row[o].kind = "none"
    BY <1>1, <1>2, <1>n, <2>2, <2>3, <2>5
  <2>6. CASE row[o].kind # "none"
    BY <1>1, <1>2, <1>n, <2>2, <2>3, <2>4, <2>6
  <2> QED
    BY <2>5, <2>6
<1>4. PassesAgree'
  <2>1. SUFFICES ASSUME NEW r \in Passes, NEW o \in Orders
                 PROVE  AddedRow(r, o)' /\ LoadedRow(r, o)'
    BY DEF PassesAgree
  <2>2. AddedRow(r, o) /\ LoadedRow(r, o)
    BY DEF PassesAgree
  <2>3. rec[r].filled[o] \in Nat
    BY DEF TypeOK, PassType
  <2>4. AddedRow(r, o)'
    <3>1. SUFFICES ASSUME rec[r].add[o] # NoRow PROVE row'[o] = NoRow /\ venue'[o].state # "none" /\ venue'[o].side = "sell"
      BY <2>2 DEF AddedRow
    <3>2. row[o] = NoRow /\ venue[o].state # "none" /\ venue[o].side = "sell"
      BY <2>2, <3>1 DEF AddedRow
    <3> QED
      BY <1>2, <1>n, <3>1, <3>2 DEF VenueMoves
  <2>5. LoadedRow(r, o)'
    <3>1. CASE row[o].kind = "none"
      BY <2>2, <3>1 DEF LoadedRow
    <3>2. CASE row[o].kind # "none"
      <4>1. /\ row'[o].kind = row[o].kind /\ row'[o].filled = row[o].filled
            /\ venue[o].filled <= venue'[o].filled
        BY <1>2, <3>2 DEF RowsAreSent, VenueMoves, NoRow
      <4> QED
        BY <1>1, <2>2, <2>3, <4>1 DEF LoadedRow, Sells
    <3> QED
      BY <3>1, <3>2
  <2> QED
    BY <2>4, <2>5
<1>5. BookedIsSold'
  <2>1. \A o \in Orders : SoldRow'[o] = SoldRow[o]
    BY <1>2, <1>n DEF SoldRow, Sells, RowsAreSent
  <2>2. SumOver(SoldRow', Orders) = SumOver(SoldRow, Orders)
    BY <2>1, SumAgrees, SumOverIsSum
  <2>3. ASSUME NEW r \in Passes
        PROVE  SumOver(PassSold(r)', Orders) = SumOver(PassSold(r), Orders)
    <3>1. ASSUME NEW o \in Orders
          PROVE  PassSold(r)'[o] = PassSold(r)[o]
      <4>1. LoadedRow(r, o)
        BY DEF PassesAgree
      <4>2. rec[r].status[o] = "FILLED" => row'[o].kind = row[o].kind
        BY <1>2, <4>1 DEF LoadedRow
      <4> QED
        BY <4>2 DEF PassSold, Sells
    <3> QED
      BY <3>1, SumAgrees, SumOverIsSum
  <2> QED
    BY <2>2, <2>3 DEF BookedIsSold
<1> QED
  BY <1>3, <1>4, <1>5

\* What a program records stays new when it starts, ends or goes on, and when
\* another one records.
LEMMA RecordsStayNew ==
    ASSUME FillsInv, VenueMoves,
           \A o \in Orders : row[o].kind # "none" => row'[o].kind # "none",
           \A x \in Programs :
              /\ prog'[x].stops \subseteq Orders
              /\ \A o \in prog'[x].stops : o \in prog[x].stops \/ row[o].kind # "none"
              /\ prog'[x].pc = "record" =>
                    /\ prog[x].pc = "record" /\ prog'[x].ord = prog[x].ord
                    /\ row'[prog[x].ord] = row[prog[x].ord]
                    /\ \A r \in Passes : rec'[r].add[prog[x].ord] = NoRow
    PROVE  RecordsAreNew'
<1> USE DEF FillsInv
<1>1. SUFFICES ASSUME NEW x \in Programs
               PROVE  /\ \A o \in prog'[x].stops : row'[o].kind # "none"
                      /\ prog'[x].pc = "record" =>
                           /\ prog'[x].ord \in Orders
                           /\ venue'[prog'[x].ord].state # "none"
                           /\ venue'[prog'[x].ord].side = Side(x)
                           /\ row'[prog'[x].ord] = NoRow
                           /\ \A r \in Passes : rec'[r].add[prog'[x].ord] = NoRow
                           /\ \A y \in Programs :
                                 prog'[y].pc = "record" /\ prog'[y].ord = prog'[x].ord => y = x
  BY DEF RecordsAreNew, Side
<1>2. \A o \in prog'[x].stops : row'[o].kind # "none"
  BY DEF RecordsAreNew
<1>3. ASSUME prog'[x].pc = "record"
      PROVE  /\ prog'[x].ord \in Orders
             /\ venue'[prog'[x].ord].state # "none"
             /\ venue'[prog'[x].ord].side = Side(x)
             /\ row'[prog'[x].ord] = NoRow
             /\ \A r \in Passes : rec'[r].add[prog'[x].ord] = NoRow
             /\ \A y \in Programs :
                   prog'[y].pc = "record" /\ prog'[y].ord = prog'[x].ord => y = x
  <2>1. /\ prog[x].ord \in Orders
        /\ venue[prog[x].ord].state # "none"
        /\ venue[prog[x].ord].side = Side(x)
        /\ row[prog[x].ord] = NoRow
        /\ \A y \in Programs : prog[y].pc = "record" /\ prog[y].ord = prog[x].ord => y = x
    BY <1>3 DEF RecordsAreNew
  <2>2. /\ venue'[prog[x].ord].state # "none"
        /\ venue'[prog[x].ord].side = Side(x)
    BY <2>1 DEF VenueMoves
  <2> QED
    BY <1>3, <2>1, <2>2
<1> QED
  BY <1>2, <1>3

\* A program that has nothing to record any more.
LEMMA EndsRecord ==
    ASSUME TypeOK, NEW x \in Programs, Ends(x)
    PROVE  /\ prog'[x].stops = {} /\ prog'[x].pc = "idle"
           /\ \A y \in Programs \ {x} : prog'[y] = prog[y]
  BY DEF TypeOK, Ends, IdleProgram

\* The four parts that a step of a program can disturb.
LEMMA ProgramKeepsFills ==
    ASSUME FillsInv, TypeOK', VenueMoves, SellsFillAtOnce', RowMoves, IsFiniteSet(Orders),
           UNCHANGED <<pos, booked, rec>>, RecordsAreNew'
    PROVE  FillsInv'
  BY ProgramsKeepRows DEF FillsInv

LEMMA RowsStay ==
    ASSUME UNCHANGED row
    PROVE  RowMoves
  BY DEF RowMoves

LEMMA StartsKeepFills ==
    ASSUME FillsInv, TypeOK', IsFiniteSet(Orders),
           \/ ChatStart \/ EntryStart \/ AddStart \/ RulesStart \/ StopsStart
           \/ ManualStart \/ AmendStart \/ StopsCheck
    PROVE  FillsInv'
<1> USE DEF FillsInv
<1>1. /\ UNCHANGED <<row, pos, booked, venue, rec>>
      /\ \E x \in Programs : \E local :
            /\ prog' = [prog EXCEPT ![x] = local]
            /\ local.pc # "record" /\ local.stops \subseteq ActiveStops \cup prog[x].stops
  <2>1. ASSUME NEW x, NEW local, Begin(x, local), local.pc # "record",
               local.stops \subseteq ActiveStops
        PROVE  /\ UNCHANGED <<row, pos, booked, venue, rec>>
               /\ \E z \in Programs : \E m :
                     /\ prog' = [prog EXCEPT ![z] = m]
                     /\ m.pc # "record" /\ m.stops \subseteq ActiveStops \cup prog[z].stops
    BY <2>1 DEF Begin, tables, outside
  <2>2. CASE ChatStart
    <3>1. PICK s \in Signals :
             Begin("chat", [IdleProgram EXCEPT !.pc = "call", !.sig = s, !.qty = Lot])
      BY <2>2 DEF ChatStart
    <3> DEFINE l == [IdleProgram EXCEPT !.pc = "call", !.sig = s, !.qty = Lot]
    <3>2. l.pc # "record" /\ l.stops \subseteq ActiveStops
      BY DEF IdleProgram
    <3> HIDE DEF l
    <3>3. Begin("chat", l)
      BY <3>1 DEF l
    <3> QED
      BY <2>1, <3>2, <3>3
  <2>3. CASE EntryStart
    <3>1. PICK s \in Signals :
             Begin("entry", [IdleProgram EXCEPT !.pc = "call", !.sig = s, !.qty = Lot])
      BY <2>3 DEF EntryStart
    <3> DEFINE l == [IdleProgram EXCEPT !.pc = "call", !.sig = s, !.qty = Lot]
    <3>2. l.pc # "record" /\ l.stops \subseteq ActiveStops
      BY DEF IdleProgram
    <3> HIDE DEF l
    <3>3. Begin("entry", l)
      BY <3>1 DEF l
    <3> QED
      BY <2>1, <3>2, <3>3
  <2>4. CASE AddStart
    <3>1. PICK p \in OpenPositions :
             Begin("add", [IdleProgram EXCEPT !.pc = "call", !.p = p, !.qty = Lot])
      BY <2>4 DEF AddStart
    <3> DEFINE l == [IdleProgram EXCEPT !.pc = "call", !.p = p, !.qty = Lot]
    <3>2. l.pc # "record" /\ l.stops \subseteq ActiveStops
      BY DEF IdleProgram
    <3> HIDE DEF l
    <3>3. Begin("add", l)
      BY <3>1 DEF l
    <3> QED
      BY <2>1, <3>2, <3>3
  <2>5. CASE RulesStart
    <3>1. PICK p \in OpenPositions, full \in BOOLEAN :
             Begin("rules", [IdleProgram EXCEPT !.pc = "call", !.p = p, !.full = full,
                       !.qty = IF full THEN pos[p].qty ELSE PartialQty(pos[p].qty)])
      BY <2>5 DEF RulesStart
    <3> DEFINE l == [IdleProgram EXCEPT !.pc = "call", !.p = p, !.full = full,
                       !.qty = IF full THEN pos[p].qty ELSE PartialQty(pos[p].qty)]
    <3>2. l.pc # "record" /\ l.stops \subseteq ActiveStops
      BY DEF IdleProgram
    <3> HIDE DEF l
    <3>3. Begin("rules", l)
      BY <3>1 DEF l
    <3> QED
      BY <2>1, <3>2, <3>3
  <2>6. CASE StopsStart
    <3>1. PICK p \in OpenPositions :
             Begin("stops", [IdleProgram EXCEPT !.pc = "check", !.p = p, !.qty = pos[p].qty])
      BY <2>6 DEF StopsStart
    <3> DEFINE l == [IdleProgram EXCEPT !.pc = "check", !.p = p, !.qty = pos[p].qty]
    <3>2. l.pc # "record" /\ l.stops \subseteq ActiveStops
      BY DEF IdleProgram
    <3> HIDE DEF l
    <3>3. Begin("stops", l)
      BY <3>1 DEF l
    <3> QED
      BY <2>1, <3>2, <3>3
  <2>7. CASE ManualStart \/ AmendStart
    <3>1. PICK p \in OpenPositions, x \in {"manual", "amend"} :
             Begin(x, [IdleProgram EXCEPT !.pc = "call", !.p = p, !.qty = pos[p].qty,
                                          !.cancel = ActiveStops, !.stops = ActiveStops])
      BY <2>7 DEF ManualStart, AmendStart
    <3> DEFINE l == [IdleProgram EXCEPT !.pc = "call", !.p = p, !.qty = pos[p].qty,
                                        !.cancel = ActiveStops, !.stops = ActiveStops]
    <3>2. l.pc # "record" /\ l.stops \subseteq ActiveStops
      BY DEF IdleProgram
    <3> HIDE DEF l
    <3>3. Begin(x, l)
      BY <3>1 DEF l
    <3> QED
      BY <2>1, <3>2, <3>3
  <2>8. CASE StopsCheck
    <3> DEFINE l == IF ActiveSells = {} THEN [prog["stops"] EXCEPT !.pc = "call"] ELSE IdleProgram
    <3>1. "stops" \in Programs /\ prog' = [prog EXCEPT !["stops"] = l]
      BY <2>8 DEF StopsCheck
    <3>2. prog["stops"] \in ProgramType
      BY <3>1 DEF TypeOK
    <3>3. l.pc # "record" /\ l.stops \subseteq ActiveStops \cup prog["stops"].stops
      BY <3>2 DEF IdleProgram, ProgramType
    <3>4. UNCHANGED <<row, pos, booked, venue, rec>>
      BY <2>8 DEF StopsCheck, tables, outside
    <3> HIDE DEF l
    <3> QED
      BY <3>1, <3>3, <3>4
  <2> QED
    BY <2>2, <2>3, <2>4, <2>5, <2>6, <2>7, <2>8
<1>a. PICK x \in Programs : \E local :
         /\ prog' = [prog EXCEPT ![x] = local]
         /\ local.pc # "record" /\ local.stops \subseteq ActiveStops \cup prog[x].stops
  BY <1>1
<1>2. PICK local :
         /\ prog' = [prog EXCEPT ![x] = local]
         /\ local.pc # "record" /\ local.stops \subseteq ActiveStops \cup prog[x].stops
  BY <1>a
<1>3. prog'[x] = local /\ \A y \in Programs \ {x} : prog'[y] = prog[y]
  BY <1>2 DEF TypeOK
<1>4. \A o \in ActiveStops : o \in Orders /\ row[o].kind # "none"
  BY DEF ActiveStops, ActiveSells
<1>5. \A y \in Programs : prog[y].stops \subseteq Orders /\ prog'[y].stops \subseteq Orders
  BY DEF TypeOK, ProgramType
<1>6. VenueMoves /\ RowMoves /\ SellsFillAtOnce'
  BY <1>1, VenueStays, RowsStay DEF SellsFillAtOnce
<1>7. ASSUME NEW y \in Programs, prog[y].pc = "record"
      PROVE  \A r \in Passes : rec'[r].add[prog[y].ord] = NoRow
  BY <1>1, <1>7 DEF RecordsAreNew
<1>8. RecordsAreNew'
  <2>1. \A y \in Programs :
              /\ prog'[y].stops \subseteq Orders
              /\ \A o \in prog'[y].stops : o \in prog[y].stops \/ row[o].kind # "none"
              /\ prog'[y].pc = "record" =>
                    /\ prog[y].pc = "record" /\ prog'[y].ord = prog[y].ord
                    /\ row'[prog[y].ord] = row[prog[y].ord]
                    /\ \A r \in Passes : rec'[r].add[prog[y].ord] = NoRow
    BY <1>1, <1>2, <1>3, <1>4, <1>5, <1>7
  <2> QED
    BY <1>1, <1>6, <2>1, RecordsStayNew
<1> QED
  BY <1>1, <1>6, <1>8, ProgramKeepsFills

\* A step after which no program but x differs, and x has nothing to record.
LEMMA StillNew ==
    ASSUME FillsInv, TypeOK', VenueMoves, UNCHANGED rec, NEW x \in Programs,
           \A o \in Orders : row[o].kind # "none" => row'[o].kind # "none",
           prog'[x].stops \subseteq prog[x].stops, prog'[x].pc # "record",
           \A y \in Programs \ {x} : prog'[y] = prog[y],
           \A y \in Programs \ {x} : prog[y].pc = "record" => row'[prog[y].ord] = row[prog[y].ord]
    PROVE  RecordsAreNew'
<1>1. \A y \in Programs : prog'[y].stops \subseteq Orders
  BY DEF TypeOK, ProgramType
<1>2. ASSUME NEW y \in Programs, prog[y].pc = "record"
      PROVE  \A r \in Passes : rec'[r].add[prog[y].ord] = NoRow
  BY <1>2 DEF RecordsAreNew, FillsInv
<1>3. \A y \in Programs :
              /\ prog'[y].stops \subseteq Orders
              /\ \A o \in prog'[y].stops : o \in prog[y].stops \/ row[o].kind # "none"
              /\ prog'[y].pc = "record" =>
                    /\ prog[y].pc = "record" /\ prog'[y].ord = prog[y].ord
                    /\ row'[prog[y].ord] = row[prog[y].ord]
                    /\ \A r \in Passes : rec'[r].add[prog[y].ord] = NoRow
  BY <1>1, <1>2
<1> QED
  BY <1>3, RecordsStayNew

LEMMA CallsKeepFills ==
    ASSUME FillsInv, TypeOK', IsFiniteSet(Orders), "offline" \notin Hazards, NEW x \in Programs,
           CancelStop(x) \/ SubmitRejected(x) \/ ProgramCrash(x) \/ (x = "amend" /\ AmendRejected)
    PROVE  FillsInv'
<1> USE DEF FillsInv
<1>1. UNCHANGED <<row, pos, booked, rec>>
  BY DEF CancelStop, SubmitRejected, ProgramCrash, AmendRejected, tables, outside
<1>2. VenueMoves /\ SellsFillAtOnce'
  <2>1. CASE UNCHANGED venue
    BY <2>1, VenueStays DEF SellsFillAtOnce
  <2>2. CASE CancelStop(x) /\ venue' # venue
    <3>1. PICK o \in prog[x].cancel :
             /\ venue[o].state = "open"
             /\ venue' = [venue EXCEPT ![o] = [@ EXCEPT !.state = "cancelled"]]
      BY <2>2 DEF CancelStop
    <3>2. o \in Orders
      BY <3>1 DEF TypeOK, ProgramType
    <3> QED
      BY <3>1, <3>2, CancelledMoves
  <2>3. CASE x = "amend" /\ AmendRejected /\ venue' # venue
    <3>1. FreeOrders # {} /\ venue' = Placed(venue, NextOrder, "sell", prog["amend"].qty, "open")
      BY <2>3 DEF AmendRejected
    <3>2. prog["amend"].qty \in Nat
      BY <2>3 DEF TypeOK, ProgramType
    <3> QED
      BY <3>1, <3>2, NextOrderIsFree, PlacedMoves
  <2>4. SubmitRejected(x) \/ ProgramCrash(x) => UNCHANGED venue
    BY DEF SubmitRejected, ProgramCrash
  <2> QED
    BY <2>1, <2>2, <2>3, <2>4
<1>3. /\ prog'[x].stops \subseteq prog[x].stops /\ prog'[x].pc # "record"
      /\ \A y \in Programs \ {x} : prog'[y] = prog[y]
  <2>1. CASE Ends(x)
    BY <2>1, EndsRecord
  <2>2. CASE CancelStop(x) /\ ~Ends(x)
    <3>1. PICK o \in prog[x].cancel :
             prog' = [prog EXCEPT ![x] = [@ EXCEPT !.cancel = prog[x].cancel \ {o}]]
      BY <2>2 DEF CancelStop
    <3>2. prog[x] \in ProgramType /\ prog[x].pc = "call"
      BY <2>2 DEF TypeOK, CancelStop
    <3>3. /\ prog'[x] = [prog[x] EXCEPT !.cancel = prog[x].cancel \ {o}]
          /\ \A y \in Programs \ {x} : prog'[y] = prog[y]
      BY <3>1 DEF TypeOK
    <3> QED
      BY <3>2, <3>3 DEF ProgramType
  <2>3. SubmitRejected(x) \/ ProgramCrash(x) \/ (x = "amend" /\ AmendRejected) => Ends(x)
    BY DEF SubmitRejected, ProgramCrash, AmendRejected
  <2> QED
    BY <2>1, <2>2, <2>3
<1>4. RecordsAreNew'
  BY <1>1, <1>2, <1>3, StillNew
<1> QED
  BY <1>1, <1>2, <1>4, RowsStay, ProgramKeepsFills

LEMMA SubmitKeepsFills ==
    ASSUME FillsInv, TypeOK', IsFiniteSet(Orders), "offline" \notin Hazards, NEW x \in Programs,
           Submit(x)
    PROVE  FillsInv'
<1> USE DEF FillsInv
<1> DEFINE new == NextOrder
<1>1. /\ FreeOrders # {}
      /\ venue' = Placed(venue, new, Side(x), prog[x].qty, "open")
      /\ prog' = [prog EXCEPT ![x] = [@ EXCEPT !.pc = "record", !.ord = new]]
      /\ UNCHANGED <<row, pos, booked, rec>>
  BY DEF Submit, Acked, tables, outside
<1>2. new \in Orders /\ venue[new].state = "none"
  BY <1>1, NextOrderIsFree
<1>3. prog[x].qty \in Nat /\ Side(x) \in {"buy", "sell"}
  BY DEF TypeOK, ProgramType, Side
<1> HIDE DEF new
<1>4. /\ VenueMoves /\ SellsFillAtOnce'
      /\ venue'[new].state = "open" /\ venue'[new].side = Side(x)
  BY <1>1, <1>2, <1>3, PlacedMoves
<1>5. /\ prog'[x].pc = "record" /\ prog'[x].ord = new /\ prog'[x].stops = prog[x].stops
      /\ \A y \in Programs \ {x} : prog'[y] = prog[y]
  BY <1>1 DEF TypeOK, ProgramType
<1>6. row[new] = NoRow /\ \A r \in Passes : rec[r].add[new] = NoRow
  BY <1>2 DEF RowsAreSent, PassesAgree, AddedRow
<1>7. \A y \in Programs : prog[y].pc = "record" => prog[y].ord # new
  BY <1>2 DEF RecordsAreNew
<1>8. RecordsAreNew'
  <2>1. SUFFICES ASSUME NEW y \in Programs
                 PROVE  /\ \A o \in prog'[y].stops : row'[o].kind # "none"
                        /\ prog'[y].pc = "record" =>
                             /\ prog'[y].ord \in Orders
                             /\ venue'[prog'[y].ord].state # "none"
                             /\ venue'[prog'[y].ord].side = Side(y)
                             /\ row'[prog'[y].ord] = NoRow
                             /\ \A r \in Passes : rec'[r].add[prog'[y].ord] = NoRow
                             /\ \A z \in Programs :
                                   prog'[z].pc = "record" /\ prog'[z].ord = prog'[y].ord => z = y
    BY DEF RecordsAreNew, Side
  <2>2. CASE y = x
    BY <1>1, <1>2, <1>4, <1>5, <1>6, <1>7, <2>2 DEF RecordsAreNew
  <2>3. CASE y # x
    <3>1. /\ \A o \in prog[y].stops : row[o].kind # "none"
          /\ prog[y].pc = "record" =>
                             /\ prog[y].ord \in Orders
                             /\ venue[prog[y].ord].state # "none"
                             /\ venue[prog[y].ord].side = Side(y)
                             /\ row[prog[y].ord] = NoRow
                             /\ \A r \in Passes : rec[r].add[prog[y].ord] = NoRow
                             /\ \A z \in Programs :
                                   prog[z].pc = "record" /\ prog[z].ord = prog[y].ord => z = y
      BY DEF RecordsAreNew
    <3>2. prog'[y] = prog[y]
      BY <1>5, <2>3
    <3>3. row' = row /\ rec' = rec
      BY <1>1
    <3>4. prog[y].pc = "record" => /\ venue'[prog[y].ord].state # "none"
                                   /\ venue'[prog[y].ord].side = Side(y)
      BY <1>4, <3>1 DEF VenueMoves
    <3>5. ASSUME prog[y].pc = "record", NEW z \in Programs,
                 prog'[z].pc = "record", prog'[z].ord = prog[y].ord
          PROVE  z = y
      <4>1. z # x
        BY <1>5, <1>7, <3>5
      <4> QED
        BY <1>5, <3>1, <3>5, <4>1
    <3>6. \A o \in prog[y].stops : row'[o].kind # "none"
      BY <1>1, <3>1
    <3> QED
      BY <3>1, <3>2, <3>3, <3>4, <3>5, <3>6
  <2> QED
    BY <2>2, <2>3
<1> QED
  BY <1>1, <1>4, <1>8, RowsStay, ProgramKeepsFills

-----------------------------------------------------------------------------
\* x writes the row of the order it sent, and maybe ends rows of stops.
LEMMA RecordKeepsFills ==
    ASSUME FillsInv, TypeOK', IsFiniteSet(Orders), NEW x \in Programs,
           Ends(x), UNCHANGED <<pos, booked, venue, rec>>,
           \/ UNCHANGED row
           \/ /\ prog[x].pc = "record"
              /\ \E kind \in {"entry", "orphan", "add", "market", "stop"} :
                    /\ Side(x) = "buy" => kind \in {"entry", "orphan", "add"}
                    /\ \/ Recorded(x, kind, "SUBMITTED")
                       \/ row' = [StopsCancelled(x) EXCEPT ![prog[x].ord] = NewRow(x, kind, "SUBMITTED")]
    PROVE  FillsInv'
<1> USE DEF FillsInv
<1>1. VenueMoves /\ SellsFillAtOnce'
  BY VenueStays DEF SellsFillAtOnce
<1>2. /\ prog'[x].stops = {} /\ prog'[x].pc = "idle"
      /\ \A y \in Programs \ {x} : prog'[y] = prog[y]
  BY EndsRecord
<1>3. CASE UNCHANGED row
  <2>1. RecordsAreNew'
    BY <1>1, <1>2, <1>3, StillNew
  <2> QED
    BY <1>1, <1>3, <2>1, RowsStay, ProgramKeepsFills
<1>4. CASE /\ prog[x].pc = "record" /\ row' # row
  <2> DEFINE new == prog[x].ord
  <2>1. PICK kind \in {"entry", "orphan", "add", "market", "stop"} :
           /\ Side(x) = "buy" => kind \in {"entry", "orphan", "add"}
           /\ \/ Recorded(x, kind, "SUBMITTED")
              \/ row' = [StopsCancelled(x) EXCEPT ![prog[x].ord] = NewRow(x, kind, "SUBMITTED")]
    BY <1>4
  <2>2. /\ new \in Orders /\ venue[new].state # "none" /\ venue[new].side = Side(x)
        /\ row[new] = NoRow /\ \A r \in Passes : rec[r].add[new] = NoRow
        /\ \A y \in Programs : prog[y].pc = "record" /\ prog[y].ord = new => y = x
    BY <1>4 DEF RecordsAreNew
  <2>3. row'[new].kind = kind /\ row'[new].filled = 0
    <3>1. row'[new] = NewRow(x, kind, "SUBMITTED")
      BY <2>1, <2>2 DEF Recorded, StopsCancelled, TypeOK
    <3> QED
      BY <3>1 DEF NewRow
  <2>4. ASSUME NEW o \in Orders, o # new
        PROVE  \/ row'[o] = row[o]
               \/ row[o].kind # "none" /\ row'[o] = [row[o] EXCEPT !.status = "CANCELLED"]
    <3>1. CASE Recorded(x, kind, "SUBMITTED")
      BY <2>4, <3>1 DEF Recorded, TypeOK
    <3>2. CASE row' = [StopsCancelled(x) EXCEPT ![prog[x].ord] = NewRow(x, kind, "SUBMITTED")]
      <4>1. row'[o] = StopsCancelled(x)[o]
        BY <2>4, <3>2 DEF StopsCancelled
      <4>2. \A u \in prog[x].stops : row[u].kind # "none"
        BY DEF RecordsAreNew
      <4> QED
        BY <4>1, <4>2 DEF StopsCancelled
    <3> QED
      BY <2>1, <3>1, <3>2
  <2> HIDE DEF new
  <2>5. RowMoves
    <3>1. kind \in {"market", "stop"} => Side(x) = "sell"
      BY <2>1 DEF Side
    <3> QED
      BY <2>2, <2>3, <2>4, <3>1 DEF RowMoves
  <2>6. \A o \in Orders : row[o].kind # "none" => row'[o].kind # "none"
    <3>1. \A o \in Orders : row[o] \in RowType
      BY DEF TypeOK
    <3> QED
      BY <2>3, <2>4, <3>1 DEF RowType
  <2>7. ASSUME NEW y \in Programs \ {x}, prog[y].pc = "record"
        PROVE  row'[prog[y].ord] = row[prog[y].ord]
    <3>1. prog[y].ord # new /\ prog[y].ord \in Orders /\ row[prog[y].ord].kind = "none"
      BY <2>2, <2>7 DEF RecordsAreNew, NoRow
    <3> QED
      BY <2>4, <3>1
  <2>8. RecordsAreNew'
    BY <1>1, <1>2, <2>6, <2>7, StillNew
  <2> QED
    BY <1>1, <2>5, <2>8, ProgramKeepsFills
<1> QED
  BY <1>3, <1>4

\* With a connection nothing is simulated: the programs leave the positions
\* and the trades alone.
LEMMA ProgramStepKeepsFills ==
    ASSUME FillsInv, TypeOK', IsFiniteSet(Orders), "offline" \notin Hazards, ProgramStep
    PROVE  FillsInv'
<1> USE DEF FillsInv
<1>1. \A x \in Programs : prog[x].pc = "record" => ~Simulated(x)
  BY DEF RecordsAreNew, SellsFillAtOnce, Simulated
<1>2. CASE \/ ChatStart \/ EntryStart \/ AddStart \/ RulesStart \/ StopsStart
           \/ ManualStart \/ AmendStart \/ StopsCheck
  BY <1>2, StartsKeepFills
<1>3. ASSUME NEW x \in Programs, CancelStop(x) \/ SubmitRejected(x) \/ ProgramCrash(x)
      PROVE  FillsInv'
  BY <1>3, CallsKeepFills
<1>4. CASE AmendRejected
  <2>1. "amend" \in Programs
    BY <1>4 DEF AmendRejected
  <2> QED
    BY <1>4, <2>1, CallsKeepFills
<1>5. ASSUME NEW x \in Programs, Submit(x)
      PROVE  FillsInv'
  BY <1>5, SubmitKeepsFills
<1>6. ASSUME NEW x \in Programs, RecordSimulatedEntry(x)
      PROVE  FALSE
  BY <1>1, <1>6 DEF RecordSimulatedEntry
<1>7. ~RulesClose
  BY <1>1 DEF RulesClose
<1>8. ~ManualPaper
  BY DEF ManualPaper, OpenPositions, BookedIsSold
<1>9. CASE RecordEntry
  BY <1>9, RecordKeepsFills DEF RecordEntry, outside
<1>10. CASE RecordOrphan
  BY <1>10, RecordKeepsFills DEF RecordOrphan, outside
<1>11. CASE RecordAdd
  <2>1. "add" \in Programs /\ ~Simulated("add")
    BY <1>1, <1>11 DEF RecordAdd
  <2> QED
    BY <1>11, <2>1, RecordKeepsFills DEF RecordAdd, outside
<1>12. CASE RecordRules
  BY <1>12, RecordKeepsFills DEF RecordRules, outside, Side
<1>13. CASE RecordStops
  BY <1>13, RecordKeepsFills DEF RecordStops, outside, Side
<1>14. CASE RecordExit("manual", "market")
  BY <1>14, RecordKeepsFills DEF RecordExit, outside, Side
<1>15. CASE RecordExit("amend", "stop")
  BY <1>15, RecordKeepsFills DEF RecordExit, outside, Side
<1>16. ASSUME UNCHANGED <<pos, booked, venue, prog, rec>>, RowMoves,
              \A o \in Orders : row[o].kind = "none" => row'[o] = row[o]
       PROVE  FillsInv'
  <2>1. VenueMoves /\ SellsFillAtOnce'
    BY <1>16, VenueStays DEF SellsFillAtOnce
  <2>2. \A o \in Orders : row[o] \in RowType /\ (row[o].kind # "none" => row'[o].kind # "none")
    BY <1>16 DEF RowMoves, TypeOK, RowType
  <2>3. RecordsAreNew'
    <3>1. \A x \in Programs : prog[x].stops \subseteq Orders
      BY DEF TypeOK, ProgramType
    <3>2. ASSUME NEW x \in Programs, prog[x].pc = "record"
          PROVE  /\ row'[prog[x].ord] = row[prog[x].ord]
                 /\ \A r \in Passes : rec'[r].add[prog[x].ord] = NoRow
      BY <1>16, <3>2 DEF RecordsAreNew, NoRow
    <3> QED
      BY <1>16, <2>1, <2>2, <3>1, <3>2, RecordsStayNew
  <2> QED
    BY <1>16, <2>1, <2>3, ProgramKeepsFills
<1>17. CASE EntrySelfHeal
  BY <1>17, <1>16, RowsStay DEF EntrySelfHeal, outside
<1>18. ASSUME NEW o \in Orders, OrphanExpires(o)
       PROVE  FillsInv'
  BY <1>18, <1>16 DEF OrphanExpires, RowMoves, outside, TypeOK
<1> QED
  BY <1>2, <1>3, <1>4, <1>5, <1>6, <1>7, <1>8, <1>9, <1>10, <1>11, <1>12, <1>13,
     <1>14, <1>15, <1>17, <1>18 DEF ProgramStep

-----------------------------------------------------------------------------
\* A sell a pass has submitted and will add a row for.
NewSell(m, u) ==
    /\ venue[u].state = "none" /\ venue'[u].state # "none" /\ venue'[u].side = "sell"
    /\ m.add[u].kind \in {"market", "stop"} /\ m.add[u].filled = 0

\* Protecting a position submits a sell or none, and changes nothing else of
\* the session.
LEMMA ProtectFills ==
    ASSUME TypeOK, SellsFillAtOnce, "offline" \notin Hazards, NEW r \in Passes, NEW o \in Orders,
           NEW p \in Positions, NEW l \in PassType, Protect(r, l, o, p), venue[o].state # "none"
    PROVE  /\ VenueMoves /\ SellsFillAtOnce'
           /\ \E m \in PassType :
                 /\ rec' = [rec EXCEPT ![r] = m]
                 /\ m.todo = l.todo /\ m.status = l.status /\ m.filled = l.filled /\ m.book = l.book
                 /\ \A u \in Orders : m.add[u] = l.add[u] \/ NewSell(m, u)
<1> DEFINE delta == Excess(SeenQty(l, p), ProtectedQty(p))
           new   == NextOrder
<1>1. SeenQty(l, p) \in Nat
  BY SeenQtyType
<1>2. ASSUME NEW kind \in {"market", "stop"}, FreeOrders # {},
             rec' = [rec EXCEPT ![r] = [l EXCEPT !.add = [@ EXCEPT ![new] = SellRow(kind, p)]]],
             venue'[new].state # "none", venue'[new].side = "sell"
      PROVE  \E m \in PassType :
                 /\ rec' = [rec EXCEPT ![r] = m]
                 /\ m.todo = l.todo /\ m.status = l.status /\ m.filled = l.filled /\ m.book = l.book
                 /\ \A u \in Orders : m.add[u] = l.add[u] \/ NewSell(m, u)
  <2> DEFINE m == [l EXCEPT !.add = [@ EXCEPT ![new] = SellRow(kind, p)]]
  <2>1. new \in Orders /\ venue[new].state = "none"
    BY <1>2, NextOrderIsFree
  <2>2. m \in PassType
    BY <2>1, AddType, SellRowType
  <2> HIDE DEF new
  <2>3. /\ m.todo = l.todo /\ m.status = l.status /\ m.filled = l.filled /\ m.book = l.book
        /\ m.add = [l.add EXCEPT ![new] = SellRow(kind, p)]
    BY DEF PassType
  <2>4. SellRow(kind, p).kind = kind /\ SellRow(kind, p).filled = 0
    BY DEF SellRow, NoRow
  <2>5. \A u \in Orders : m.add[u] = l.add[u] \/ NewSell(m, u)
    <3>1. l.add \in [Orders -> RowType]
      BY DEF PassType
    <3>2. m.add[new] = SellRow(kind, p) /\ \A u \in Orders \ {new} : m.add[u] = l.add[u]
      BY <2>1, <2>3, <3>1
    <3> HIDE DEF m
    <3> QED
      BY <1>2, <2>1, <2>4, <3>2 DEF NewSell
  <2>6. rec' = [rec EXCEPT ![r] = m]
    BY <1>2
  <2> QED
    BY <2>2, <2>3, <2>5, <2>6
<1>3. ASSUME rec' = [rec EXCEPT ![r] = l]
      PROVE  \E m \in PassType :
                 /\ rec' = [rec EXCEPT ![r] = m]
                 /\ m.todo = l.todo /\ m.status = l.status /\ m.filled = l.filled /\ m.book = l.book
                 /\ \A u \in Orders : m.add[u] = l.add[u] \/ NewSell(m, u)
  BY <1>3
<1>4. CASE rec' = [rec EXCEPT ![r] = l] /\ UNCHANGED venue
  BY <1>3, <1>4, VenueStays DEF SellsFillAtOnce
<1>5. CASE /\ delta \in Nat \ {0} /\ FreeOrders # {}
           /\ venue' = Placed(venue, new, "sell", delta, "open")
           /\ rec' = [rec EXCEPT ![r] = [l EXCEPT !.add = [@ EXCEPT ![new] = SellRow("stop", p)]]]
  <2>1. new \in Orders /\ venue[new].state = "none"
    BY <1>5, NextOrderIsFree
  <2> HIDE DEF delta
  <2>2. /\ VenueMoves /\ SellsFillAtOnce'
        /\ venue'[new].state = "open" /\ venue'[new].side = "sell"
    BY <1>5, <2>1, PlacedMoves
  <2> QED
    BY <1>2, <1>5, <2>2
<1>6. ASSUME FreeOrders # {}, NEW cancelled \in BOOLEAN, NEW state \in {"open", "none"},
             LET v == IF cancelled /\ venue[o].state = "open"
                      THEN [venue EXCEPT ![o] = [@ EXCEPT !.state = "cancelled"]] ELSE venue
             IN  /\ venue' = IF state = "none" THEN v
                             ELSE Placed(v, new, "sell", SeenQty(l, p), state)
                 /\ rec' = [rec EXCEPT ![r] = IF state = "none" THEN l
                              ELSE [l EXCEPT !.add = [@ EXCEPT ![new] = SellRow("market", p)]]]
      PROVE  /\ VenueMoves /\ SellsFillAtOnce'
             /\ \E m \in PassType :
                 /\ rec' = [rec EXCEPT ![r] = m]
                 /\ m.todo = l.todo /\ m.status = l.status /\ m.filled = l.filled /\ m.book = l.book
                 /\ \A u \in Orders : m.add[u] = l.add[u] \/ NewSell(m, u)
  <2> DEFINE v == IF cancelled /\ venue[o].state = "open"
                  THEN [venue EXCEPT ![o] = [@ EXCEPT !.state = "cancelled"]] ELSE venue
             w == [venue[o] EXCEPT !.state = "cancelled"]
  <2>1. new \in Orders /\ venue[new].state = "none" /\ new # o
    BY <1>6, NextOrderIsFree
  <2>2. venue[o] \in VenueType
    BY DEF TypeOK
  <2>3. w.state = "cancelled" /\ w.side = venue[o].side /\ w.filled = venue[o].filled
    BY <2>2 DEF VenueType
  <2> HIDE DEF w
  <2>4. /\ v \in [Orders -> VenueType]
        /\ v[o] = venue[o] \/ (venue[o].state = "open" /\ v[o] = w)
        /\ \A u \in Orders \ {o} : v[u] = venue[u]
    <3>1. w \in VenueType
      BY <2>2 DEF VenueType, w
    <3> QED
      BY <3>1 DEF TypeOK, w
  <2>5. venue' = IF state = "none" THEN v ELSE Placed(v, new, "sell", SeenQty(l, p), state)
    BY <1>6
  <2> HIDE DEF v
  <2>6. /\ state = "open" => venue'[new] = [state |-> "open", side |-> "sell",
                                           amount |-> SeenQty(l, p), filled |-> 0]
        /\ state = "none" => venue'[new] = venue[new]
        /\ venue'[o] = venue[o] \/ (venue[o].state = "open" /\ venue'[o] = w)
        /\ \A u \in Orders \ {o, new} : venue'[u] = venue[u]
    BY <2>1, <2>4, <2>5 DEF Placed
  <2>7. \A u \in Orders : venue[u].filled \in Nat
    BY DEF TypeOK, VenueType
  <2>8. VenueMoves
    BY <2>1, <2>3, <2>6, <2>7 DEF VenueMoves
  <2>9. SellsFillAtOnce'
    <3>1. ASSUME NEW u \in Orders
          PROVE  /\ venue'[u].state = "none" => venue'[u] = NoVenueOrder
                 /\ venue'[u].state # "sim"
                 /\ venue'[u].side = "sell" /\ venue'[u].state # "filled" => venue'[u].filled = 0
      <4>1. CASE u = new
        BY <2>6, <4>1 DEF SellsFillAtOnce
      <4>2. CASE u = o
        BY <2>1, <2>3, <2>6, <4>2 DEF SellsFillAtOnce
      <4>3. CASE u # o /\ u # new
        BY <2>6, <4>3 DEF SellsFillAtOnce
      <4> QED
        BY <4>1, <4>2, <4>3
    <3> QED
      BY <3>1 DEF SellsFillAtOnce
  <2>10. CASE state = "open"
    <3>1. venue'[new].state # "none" /\ venue'[new].side = "sell"
      BY <2>6, <2>10
    <3>2. rec' = [rec EXCEPT ![r] = [l EXCEPT !.add = [@ EXCEPT ![new] = SellRow("market", p)]]]
      BY <1>6, <2>10
    <3> HIDE DEF new
    <3> QED
      BY <1>2, <1>6, <2>8, <2>9, <3>1, <3>2
  <2>11. CASE state = "none"
    BY <1>3, <1>6, <2>8, <2>9, <2>11
  <2> QED
    BY <2>10, <2>11
<1> QED
  BY <1>4, <1>5, <1>6 DEF Protect

\* What a pass does to its session for one order: the order is done with, and
\* a sell is booked only up to its fill.
OrderMoves(r, o, m) ==
    /\ m.todo = rec[r].todo \ {o}
    /\ \A u \in Orders \ {o} : m.status[u] = rec[r].status[u] /\ m.filled[u] = rec[r].filled[u]
    /\ \/ m.status[o] \in {"keep", "CANCELLED"}
       \/ /\ Fills(o) /\ m.filled[o] = venue[o].filled
          /\ m.status[o] = IF venue[o].state = "filled" THEN "FILLED" ELSE "PARTIAL"
    /\ \/ m.book = rec[r].book
       \/ /\ Sells(o) /\ m.status[o] = "FILLED"
          /\ \E p \in Positions, n \in Nat :
                n <= venue[o].filled /\ m.book = [rec[r].book EXCEPT ![p] = rec[r].book[p] + n]

LEMMA OrderKeepsFills ==
    ASSUME FillsInv, TypeOK', IsFiniteSet(Orders), IsFiniteSet(Positions),
           NEW r \in Passes, NEW o \in Orders, Ready(r, o), NEW m \in PassType,
           rec' = [rec EXCEPT ![r] = m], VenueMoves, SellsFillAtOnce', UNCHANGED aside,
           OrderMoves(r, o, m), \A u \in Orders : m.add[u] = rec[r].add[u] \/ NewSell(m, u)
    PROVE  FillsInv'
<1> USE DEF FillsInv
<1>1. UNCHANGED <<row, pos, booked, prog>>
  BY DEF aside, tables
<1>2. rec'[r] = m /\ \A q \in Passes \ {r} : rec'[q] = rec[q]
  BY DEF TypeOK
<1>3. ASSUME NEW u \in Orders
      PROVE  /\ row[u] \in RowType /\ venue[u].filled \in Nat /\ venue'[u].filled \in Nat
             /\ row[u].filled \in Nat
  BY DEF TypeOK, VenueType, RowType
<1>4. RowsAreSent'
  <2>1. SUFFICES ASSUME NEW u \in Orders
                 PROVE  /\ venue'[u].state = "none" => row[u] = NoRow
                        /\ row[u].kind = "none" => row[u] = NoRow
                        /\ Sells(u) => /\ venue'[u].side = "sell"
                                       /\ row[u].filled <= venue'[u].filled
                                       /\ row[u].status \in Active => row[u].filled = 0
    BY <1>1 DEF RowsAreSent, Sells
  <2> QED
    BY <1>3 DEF RowsAreSent, VenueMoves, Sells, NoRow
<1>5. RecordsAreNew'
  <2>1. ASSUME NEW x \in Programs, prog[x].pc = "record"
        PROVE  \A q \in Passes : rec'[q].add[prog[x].ord] = NoRow
    <3>1. /\ prog[x].ord \in Orders /\ venue[prog[x].ord].state # "none"
          /\ \A q \in Passes : rec[q].add[prog[x].ord] = NoRow
      BY <2>1 DEF RecordsAreNew
    <3>2. m.add[prog[x].ord] = NoRow
      BY <3>1 DEF NewSell
    <3> QED
      BY <1>2, <3>1, <3>2
  <2>2. \A x \in Programs : prog[x].stops \subseteq Orders
    BY DEF TypeOK, ProgramType
  <2> QED
    BY <1>1, <2>1, <2>2, RecordsStayNew
<1>6. LoadedRow(r, o) /\ rec[r].status[o] = "keep" /\ row[o].kind # "none"
  BY DEF PassesAgree, LoadedRow, Ready
<1>7. ASSUME NEW q \in Passes, NEW u \in Orders
      PROVE  AddedRow(q, u)' /\ LoadedRow(q, u)'
  <2>1. AddedRow(q, u) /\ LoadedRow(q, u)
    BY DEF PassesAgree
  <2>2. rec[q].filled[u] \in Nat
    BY DEF TypeOK, PassType
  <2>3. venue[u].state # "none" =>
          /\ venue'[u].state # "none" /\ venue'[u].side = venue[u].side
          /\ venue[u].filled <= venue'[u].filled
    BY DEF VenueMoves
  <2>4. row[u].kind # "none" => venue[u].state # "none"
    BY DEF RowsAreSent, NoRow
  <2>5. AddedRow(q, u)'
    <3>1. CASE rec'[q].add[u] = rec[q].add[u]
      BY <1>1, <2>1, <2>3, <3>1 DEF AddedRow
    <3>2. CASE rec'[q].add[u] # rec[q].add[u]
      <4>1. q = r /\ rec'[q] = m /\ NewSell(m, u)
        BY <1>2, <3>2
      <4>2. row[u] = NoRow
        BY <4>1 DEF NewSell, RowsAreSent
      <4> QED
        BY <1>1, <4>1, <4>2 DEF NewSell, AddedRow
    <3> QED
      BY <3>1, <3>2
  <2>6. LoadedRow(q, u)'
    <3>1. SUFFICES /\ u \in rec'[q].todo =>
                          /\ rec'[q].status[u] = "keep" /\ row[u].kind # "none"
                          /\ Sells(u) => row[u].filled = 0
                   /\ rec'[q].status[u] # "keep" =>
                          /\ row[u].kind # "none"
                          /\ Sells(u) => /\ row[u].filled = 0 /\ rec'[q].status[u] # "PARTIAL"
                                         /\ rec'[q].status[u] = "FILLED" =>
                                               rec'[q].filled[u] <= venue'[u].filled
      BY <1>1 DEF LoadedRow, Sells
    <3>2. CASE q # r \/ u # o
      <4>1. /\ u \in rec'[q].todo => u \in rec[q].todo
            /\ rec'[q].status[u] = rec[q].status[u] /\ rec'[q].filled[u] = rec[q].filled[u]
        BY <1>2, <3>2 DEF OrderMoves
      <4> QED
        BY <1>3, <2>1, <2>2, <2>3, <2>4, <4>1 DEF LoadedRow
    <3>3. CASE q = r /\ u = o
      <4>1. rec'[q] = m /\ o \notin m.todo
        BY <1>2, <3>3 DEF OrderMoves
      <4>2. Sells(o) => row[o].filled = 0 /\ venue[o].side = "sell"
        BY <1>6 DEF LoadedRow, RowsAreSent, PassesAgree, Ready
      <4>3. Sells(o) =>
               m.status[o] # "PARTIAL" /\ (m.status[o] = "FILLED" => m.filled[o] = venue[o].filled)
        BY <4>2 DEF OrderMoves, SellsFillAtOnce, Fills
      <4> QED
        BY <1>3, <1>6, <2>3, <2>4, <3>3, <4>1, <4>2, <4>3 DEF PassType
    <3> QED
      BY <3>2, <3>3
  <2> QED
    BY <2>5, <2>6
<1>8. BookedIsSold'
  <2>1. SumOver(SoldRow', Orders) = SumOver(SoldRow, Orders)
    BY <1>1 DEF SoldRow, Sells
  <2>2. ASSUME NEW q \in Passes, q # r
        PROVE  SumOver(rec'[q].book, Positions) <= SumOver(PassSold(q)', Orders)
    <3>1. PassSold(q)' = PassSold(q)
      BY <1>1, <1>2, <2>2 DEF PassSold, Sells
    <3> QED
      BY <1>2, <2>2, <3>1 DEF BookedIsSold
  <2>3. SumOver(m.book, Positions) <= SumOver(PassSold(r)', Orders)
    <3> DEFINE f == PassSold(r)
               g == [u \in Orders |-> IF Sells(u) /\ m.status[u] = "FILLED" THEN m.filled[u] ELSE 0]
    <3>1. PassSold(r)' = g
      BY <1>1, <1>2 DEF PassSold, Sells
    <3>2. \A u \in Orders : f[u] \in Int /\ g[u] \in Int
      BY DEF PassSold, TypeOK, PassType
    <3>3. \A u \in Orders \ {o} : g[u] = f[u]
      BY DEF PassSold, OrderMoves
    <3>4. f[o] = 0
      BY <1>6 DEF PassSold
    <3>5. g[o] \in Nat /\ (Sells(o) /\ m.status[o] = "FILLED" => g[o] = venue[o].filled)
      BY DEF OrderMoves, PassType
    <3> HIDE DEF f, g
    <3>6. Sum(g, Orders) = Sum(f, Orders) - f[o] + g[o]
      BY <3>2, <3>3, SumUpdate
    <3>7. Sum(f, Orders) \in Int
      BY <3>2, SumIsInt
    <3>8. Sum(rec[r].book, Positions) <= Sum(f, Orders)
      BY SumOverIsSum DEF BookedIsSold, f
    <3>9. rec[r].book \in [Positions -> Nat] /\ m.book \in [Positions -> Nat]
      BY DEF TypeOK, PassType
    <3>10. Sum(rec[r].book, Positions) \in Int
      BY <3>9, SumIsInt
    <3>11. CASE m.book = rec[r].book
      BY <3>1, <3>4, <3>5, <3>6, <3>7, <3>8, <3>10, <3>11, SumOverIsSum
    <3>12. CASE m.book # rec[r].book
      <4>1. PICK p \in Positions, n \in Nat :
               n <= venue[o].filled /\ m.book = [rec[r].book EXCEPT ![p] = rec[r].book[p] + n]
        BY <3>12 DEF OrderMoves
      <4>2. m.book[p] = rec[r].book[p] + n /\ \A y \in Positions \ {p} : m.book[y] = rec[r].book[y]
        BY <3>9, <4>1
      <4>3. Sum(m.book, Positions) = Sum(rec[r].book, Positions) - rec[r].book[p] + m.book[p]
        BY <3>9, <4>2, SumUpdate
      <4>4. g[o] = venue[o].filled /\ rec[r].book[p] \in Nat
        BY <3>5, <3>9, <3>12 DEF OrderMoves
      <4>5. Sum(m.book, Positions) = Sum(rec[r].book, Positions) + n
        BY <3>10, <4>2, <4>3, <4>4
      <4>6. Sum(g, Orders) = Sum(f, Orders) + venue[o].filled
        BY <1>3, <3>4, <3>6, <3>7, <4>4
      <4>7. Sum(m.book, Positions) <= Sum(g, Orders)
        BY <1>3, <3>7, <3>8, <3>10, <4>1, <4>5, <4>6
      <4> QED
        BY <3>1, <4>7, SumOverIsSum
    <3> QED
      BY <3>11, <3>12
  <2> QED
    BY <1>1, <1>2, <2>1, <2>2, <2>3 DEF BookedIsSold
<1> QED
  BY <1>4, <1>5, <1>7, <1>8 DEF PassesAgree

LEMMA FilledMoves ==
    ASSUME TypeOK, NEW r \in Passes, NEW o \in Orders
    PROVE  LET f == Filled(r, o)
           IN  /\ f \in PassType
               /\ f.todo = rec[r].todo \ {o} /\ f.book = rec[r].book /\ f.add = rec[r].add
               /\ f.filled[o] = venue[o].filled
               /\ f.status[o] = IF venue[o].state = "filled" THEN "FILLED" ELSE "PARTIAL"
               /\ \A u \in Orders \ {o} : /\ f.status[u] = rec[r].status[u]
                                          /\ f.filled[u] = rec[r].filled[u]
<1>1. rec[r] \in PassType /\ Filled(r, o) \in PassType
  BY FilledType DEF TypeOK
<1>2. Filled(r, o) = [rec[r] EXCEPT !.todo = rec[r].todo \ {o},
                        !.filled = [rec[r].filled EXCEPT ![o] = venue[o].filled],
                        !.status = [rec[r].status EXCEPT ![o] =
                                       IF venue[o].state = "filled" THEN "FILLED" ELSE "PARTIAL"]]
  BY <1>1 DEF Filled, Done, PassType
<1> DEFINE f == Filled(r, o)
           s == IF venue[o].state = "filled" THEN "FILLED" ELSE "PARTIAL"
<1>3. /\ f.todo = rec[r].todo \ {o} /\ f.book = rec[r].book /\ f.add = rec[r].add
      /\ f.filled = [rec[r].filled EXCEPT ![o] = venue[o].filled]
      /\ f.status = [rec[r].status EXCEPT ![o] = s]
  BY <1>1, <1>2 DEF PassType
<1>4. /\ rec[r].filled \in [Orders -> Nat]
      /\ rec[r].status \in [Orders -> {"keep", "PARTIAL", "FILLED", "CANCELLED"}]
  BY <1>1 DEF PassType
<1> HIDE DEF f, s
<1>5. /\ f.filled[o] = venue[o].filled /\ f.status[o] = s
      /\ \A u \in Orders \ {o} : /\ f.status[u] = rec[r].status[u]
                                 /\ f.filled[u] = rec[r].filled[u]
  BY <1>3, <1>4
<1> QED
  BY <1>1, <1>3, <1>5 DEF f, s

\* Every way a pass deals with an order it has loaded.
LEMMA RecOrdersKeepFills ==
    ASSUME FillsInv, TypeOK', IsFiniteSet(Orders), IsFiniteSet(Positions),
           "offline" \notin Hazards, NEW r \in Passes, NEW o \in Orders,
           \/ RecNothing(r, o) \/ RecCancelled(r, o) \/ RecEntryHeld(r, o)
           \/ RecEntryNew(r, o) \/ RecAdd(r, o) \/ RecGone(r, o) \/ RecSell(r, o)
    PROVE  FillsInv'
<1> USE DEF FillsInv
<1> DEFINE f == Filled(r, o)
<1>1. /\ f \in PassType
      /\ f.todo = rec[r].todo \ {o} /\ f.book = rec[r].book /\ f.add = rec[r].add
      /\ f.filled[o] = venue[o].filled
      /\ f.status[o] = IF venue[o].state = "filled" THEN "FILLED" ELSE "PARTIAL"
      /\ \A u \in Orders \ {o} : /\ f.status[u] = rec[r].status[u]
                                 /\ f.filled[u] = rec[r].filled[u]
  BY FilledMoves
<1>2. Ready(r, o) /\ UNCHANGED aside
  BY DEF RecNothing, RecCancelled, RecEntryHeld, RecEntryNew, RecAdd, RecGone, RecSell, Creates
<1>3. rec[r].status[o] = "keep" /\ row[o].kind # "none" /\ venue[o].state # "none"
  BY <1>2 DEF PassesAgree, LoadedRow, Ready, RowsAreSent, NoRow
<1>4. UNCHANGED venue => VenueMoves /\ SellsFillAtOnce'
  BY VenueStays DEF SellsFillAtOnce
<1>5. rec[r] \in PassType /\ Done(r, o) \in PassType
  BY DoneType DEF TypeOK
<1>6. CASE RecNothing(r, o)
  <2> DEFINE m == Done(r, o)
  <2>1. /\ m.todo = rec[r].todo \ {o} /\ m.status = rec[r].status /\ m.filled = rec[r].filled
        /\ m.book = rec[r].book /\ m.add = rec[r].add
    BY <1>5 DEF Done, PassType
  <2>2. OrderMoves(r, o, m)
    BY <1>3, <2>1 DEF OrderMoves
  <2>3. rec' = [rec EXCEPT ![r] = m] /\ UNCHANGED venue
    BY <1>6 DEF RecNothing
  <2>4. \A u \in Orders : m.add[u] = rec[r].add[u]
    BY <2>1
  <2> HIDE DEF m
  <2>5. m \in PassType
    BY <1>5 DEF m
  <2> QED
    BY <1>2, <1>4, <2>2, <2>3, <2>4, <2>5, OrderKeepsFills
<1>7. CASE RecCancelled(r, o)
  <2> DEFINE d == Done(r, o)
             m == [d EXCEPT !.status = [@ EXCEPT ![o] = "CANCELLED"],
                     !.rearm = IF /\ row[o].sig # NoSignal
                                  /\ signal[row[o].sig] = "TRIGGERED"
                               THEN @ \cup {row[o].sig} ELSE @]
  <2>1. /\ d.todo = rec[r].todo \ {o} /\ d.status = rec[r].status /\ d.filled = rec[r].filled
        /\ d.book = rec[r].book /\ d.add = rec[r].add
    BY <1>5 DEF Done, PassType
  <2>2. rec' = [rec EXCEPT ![r] = m] /\ UNCHANGED venue
    BY <1>7 DEF RecCancelled
  <2>3. d \in PassType
    BY <1>5
  <2> HIDE DEF d
  <2>4. /\ m.todo = d.todo /\ m.filled = d.filled /\ m.book = d.book /\ m.add = d.add
        /\ m.status = [d.status EXCEPT ![o] = "CANCELLED"]
    BY <2>3 DEF PassType
  <2>5. m.status[o] = "CANCELLED" /\ \A u \in Orders \ {o} : m.status[u] = rec[r].status[u]
    BY <2>1, <2>3, <2>4 DEF PassType
  <2> HIDE DEF m
  <2>6. OrderMoves(r, o, m)
    BY <2>1, <2>4, <2>5 DEF OrderMoves
  <2>7. m \in PassType
    <3>1. rec'[r] = m
      BY <2>2 DEF TypeOK
    <3> QED
      BY <3>1 DEF TypeOK
  <2>8. \A u \in Orders : m.add[u] = rec[r].add[u]
    BY <2>1, <2>4
  <2> QED
    BY <1>2, <1>4, <2>2, <2>6, <2>7, <2>8, OrderKeepsFills
<1>8. ASSUME NEW p \in Positions, NEW l \in PassType, Protect(r, l, o, p), Fills(o),
             l.todo = f.todo, l.status = f.status, l.filled = f.filled,
             l.book = f.book, l.add = f.add
      PROVE  FillsInv'
  <2>1. VenueMoves /\ SellsFillAtOnce'
    BY <1>3, <1>8, ProtectFills
  <2>2. PICK m \in PassType :
           /\ rec' = [rec EXCEPT ![r] = m]
           /\ m.todo = l.todo /\ m.status = l.status /\ m.filled = l.filled /\ m.book = l.book
           /\ \A u \in Orders : m.add[u] = l.add[u] \/ NewSell(m, u)
    BY <1>3, <1>8, ProtectFills
  <2> HIDE DEF f
  <2>3. OrderMoves(r, o, m)
    BY <1>1, <1>8, <2>2 DEF OrderMoves
  <2>4. \A u \in Orders : m.add[u] = rec[r].add[u] \/ NewSell(m, u)
    BY <1>1, <1>8, <2>2
  <2> QED
    BY <1>2, <2>1, <2>2, <2>3, <2>4, OrderKeepsFills
<1>9. ASSUME NEW p \in Positions, NEW n \in Nat
      PROVE  LET l == WithQty(f, p, n)
             IN  /\ l \in PassType
                 /\ l.todo = f.todo /\ l.status = f.status /\ l.filled = f.filled
                 /\ l.book = f.book /\ l.add = f.add
  <2> HIDE DEF f
  <2>1. WithQty(f, p, n) \in PassType
    BY <1>1, WithQtyType
  <2>2. {"held", "qty", "dirty", "todo", "status", "filled", "add", "book"} \subseteq DOMAIN f
    BY <1>1 DEF PassType
  <2> QED
    BY <2>1, <2>2 DEF WithQty
<1>10. CASE RecEntryHeld(r, o)
  <2>1. PICK p \in OpenSeen(r) : Protect(r, WithQty(f, p, venue[o].filled), o, p)
    BY <1>10 DEF RecEntryHeld
  <2>2. p \in Positions /\ venue[o].filled \in Nat /\ Fills(o)
    BY <1>10, <2>1, OpenSeenType DEF TypeOK, VenueType, RecEntryHeld
  <2> HIDE DEF f
  <2> QED
    BY <1>8, <1>9, <2>1, <2>2
<1>11. CASE RecEntryNew(r, o)
  <2> DEFINE p == NextPosition
             l == [f EXCEPT !.made = [@ EXCEPT ![p] = row[o].sig],
                            !.held = @ \cup {p}, !.qty = [@ EXCEPT ![p] = venue[o].filled]]
  <2>1. FreePositions # {} /\ Protect(r, l, o, p) /\ Fills(o)
    BY <1>11 DEF RecEntryNew, Creates
  <2>2. p \in Positions /\ venue[o].filled \in Nat /\ row[o].sig \in NullableSignal
    BY <2>1, NextPositionIsFree DEF TypeOK, VenueType, RowType
  <2> HIDE DEF f, p
  <2>3. /\ [f.made EXCEPT ![p] = row[o].sig] \in [Positions -> NullableSignal]
        /\ [f.qty EXCEPT ![p] = venue[o].filled] \in [Positions -> Nat]
        /\ f.held \cup {p} \in SUBSET Positions
    BY <1>1, <2>2 DEF PassType
  <2>4. l \in PassType
    BY <1>1, <2>3 DEF PassType
  <2>5. /\ l.todo = f.todo /\ l.status = f.status /\ l.filled = f.filled
        /\ l.book = f.book /\ l.add = f.add
    BY <1>1 DEF PassType
  <2> HIDE DEF l
  <2> QED
    BY <1>8, <2>1, <2>2, <2>4, <2>5
<1>12. CASE RecAdd(r, o)
  <2> DEFINE p == row[o].p
             n == SeenQty(f, p) + Added(r, o)
  <2>1. p \in Positions /\ Protect(r, WithQty(f, p, n), o, p) /\ Fills(o)
    BY <1>12, OpenSeenType DEF RecAdd
  <2>2. venue[o].filled \in Nat /\ rec[r].prev[o] \in Nat
    BY DEF TypeOK, VenueType, PassType
  <2>3. n \in Nat
    BY <1>1, <2>1, <2>2, SeenQtyType DEF Added, Excess
  <2> HIDE DEF f, n, p
  <2> QED
    BY <1>8, <1>9, <2>1, <2>3
<1>13. CASE RecGone(r, o)
  <2>1. rec' = [rec EXCEPT ![r] = f] /\ UNCHANGED venue /\ Fills(o)
    BY <1>13 DEF RecGone
  <2> HIDE DEF f
  <2>2. OrderMoves(r, o, f)
    BY <1>1, <2>1 DEF OrderMoves
  <2> QED
    BY <1>1, <1>2, <1>4, <2>1, <2>2, OrderKeepsFills
<1>14. CASE RecSell(r, o)
  <2>1. PICK p \in OpenSeen(r) : rec' = [rec EXCEPT ![r] = Sold(r, o, p)]
    BY <1>14 DEF RecSell
  <2>2. p \in Positions /\ Sold(r, o, p) \in PassType
    BY <2>1, OpenSeenType, SoldType
  <2> DEFINE n == Closed(r, o, p)
             b == [f.book EXCEPT ![p] = rec[r].book[p] + n]
             l == [f EXCEPT !.book = [@ EXCEPT ![p] = rec[r].book[p] + n]]
             m == Sold(r, o, p)
  <2>3. n \in Nat /\ n <= venue[o].filled
    <3>1. SeenQty(rec[r], p) \in Nat /\ venue[o].filled \in Nat
      BY <1>5, <2>2, SeenQtyType DEF TypeOK, VenueType
    <3> QED
      BY <3>1 DEF Closed, Least
  <2>4. m = IF n = SeenQty(l, p)
            THEN [l EXCEPT !.final = [@ EXCEPT ![p] = l.final[p] + 1], !.held = @ \cup {p},
                              !.qty = [@ EXCEPT ![p] = SeenQty(l, p)]]
            ELSE WithQty(l, p, SeenQty(l, p) - n)
    BY DEF Sold
  <2>5. Sells(o) /\ Fills(o) /\ UNCHANGED venue
    BY <1>14 DEF RecSell, Sells
  <2> HIDE DEF f, n
  <2>6. l.todo = f.todo /\ l.status = f.status /\ l.filled = f.filled /\ l.add = f.add /\ l.book = b
        /\ DOMAIN l = DOMAIN f
    BY <1>1 DEF PassType
  <2>7. {"final", "held", "qty", "dirty", "todo", "status", "filled", "add", "book"} \subseteq DOMAIN l
    BY <1>1, <2>6 DEF PassType
  <2> HIDE DEF l
  <2>8. m.todo = l.todo /\ m.status = l.status /\ m.filled = l.filled /\ m.add = l.add /\ m.book = l.book
    BY <2>4, <2>7 DEF WithQty
  <2> HIDE DEF m
  <2>9. f.status[o] = "FILLED"
    <3>1. venue[o].side = "sell" /\ venue[o].filled \in Nat
      BY <2>5 DEF RowsAreSent, TypeOK, VenueType
    <3> QED
      BY <1>1, <2>5, <3>1 DEF Fills, SellsFillAtOnce
  <2>10. OrderMoves(r, o, m)
    <3>1. m.book = [rec[r].book EXCEPT ![p] = rec[r].book[p] + n]
      BY <1>1, <2>6, <2>8
    <3>2. /\ m.todo = rec[r].todo \ {o}
          /\ \A u \in Orders \ {o} : m.status[u] = rec[r].status[u] /\ m.filled[u] = rec[r].filled[u]
          /\ Fills(o) /\ m.filled[o] = venue[o].filled
          /\ m.status[o] = IF venue[o].state = "filled" THEN "FILLED" ELSE "PARTIAL"
          /\ m.status[o] = "FILLED"
      BY <1>1, <2>5, <2>6, <2>8, <2>9
    <3> QED
      BY <2>2, <2>3, <2>5, <3>1, <3>2 DEF OrderMoves
  <2>11. \A u \in Orders : m.add[u] = rec[r].add[u]
    BY <1>1, <2>6, <2>8
  <2>12. m \in PassType /\ rec' = [rec EXCEPT ![r] = m]
    BY <2>1, <2>2 DEF m
  <2> QED
    BY <1>2, <1>4, <2>5, <2>10, <2>11, <2>12, OrderKeepsFills
<1> QED
  BY <1>6, <1>7, <1>10, <1>11, <1>12, <1>13, <1>14

\* What a pass that starts or is rolled back had planned to book is nothing.
LEMMA RecIdleKeepsFills ==
    ASSUME FillsInv, TypeOK', IsFiniteSet(Orders), IsFiniteSet(Positions),
           NEW r \in Passes, RecStart(r) \/ RecRollback(r)
    PROVE  FillsInv'
<1> USE DEF FillsInv
<1>1. UNCHANGED <<row, pos, booked, prog, venue>>
  BY DEF RecStart, RecRollback, aside, tables
<1>2. PICK m : /\ rec' = [rec EXCEPT ![r] = m]
               /\ m.status = IdlePass.status /\ m.add = IdlePass.add
               /\ m.book = IdlePass.book /\ m.todo \subseteq Reconciled
  <2>1. CASE RecStart(r)
    <3> DEFINE m == [IdlePass EXCEPT !.pc = "loop", !.todo = Reconciled,
                                     !.prev = [o \in Orders |-> row[o].filled]]
    <3>1. rec' = [rec EXCEPT ![r] = m]
      BY <2>1 DEF RecStart
    <3>2. /\ m.status = IdlePass.status /\ m.add = IdlePass.add
          /\ m.book = IdlePass.book /\ m.todo = Reconciled
      BY IdlePassType DEF PassType
    <3> HIDE DEF m
    <3> QED
      BY <3>1, <3>2
  <2>2. CASE RecRollback(r)
    <3>1. IdlePass.todo = {}
      BY DEF IdlePass
    <3> QED
      BY <2>2, <3>1 DEF RecRollback
  <2> QED
    BY <2>1, <2>2
<1>3. rec'[r] = m /\ \A q \in Passes \ {r} : rec'[q] = rec[q]
  BY <1>2 DEF TypeOK
<1>4. /\ \A o \in Orders : m.status[o] = "keep" /\ m.add[o] = NoRow
      /\ m.book = [p \in Positions |-> 0]
  BY <1>2 DEF IdlePass
<1>5. VenueMoves /\ SellsFillAtOnce'
  BY <1>1, VenueStays DEF SellsFillAtOnce
<1>6. RowsAreSent'
  BY <1>1 DEF RowsAreSent, Sells
<1>7. RecordsAreNew'
  <2>1. ASSUME NEW x \in Programs, prog[x].pc = "record"
        PROVE  \A q \in Passes : rec'[q].add[prog[x].ord] = NoRow
    BY <1>3, <1>4, <2>1 DEF RecordsAreNew
  <2>2. \A x \in Programs : prog[x].stops \subseteq Orders
    BY DEF TypeOK, ProgramType
  <2> QED
    BY <1>1, <1>5, <2>1, <2>2, RecordsStayNew
<1>8. ASSUME NEW q \in Passes, NEW o \in Orders
      PROVE  AddedRow(q, o)' /\ LoadedRow(q, o)'
  <2>1. AddedRow(q, o) /\ LoadedRow(q, o)
    BY DEF PassesAgree
  <2>2. CASE q # r
    BY <1>1, <1>3, <2>1, <2>2 DEF AddedRow, LoadedRow, Sells
  <2>3. CASE q = r
    <3>1. o \in Reconciled => row[o].kind # "none" /\ (Sells(o) => row[o].filled = 0)
      BY DEF Reconciled, RowsAreSent, NoRow, Active
    <3> QED
      BY <1>1, <1>2, <1>3, <1>4, <2>3, <3>1 DEF AddedRow, LoadedRow, Sells
  <2> QED
    BY <2>2, <2>3
<1>9. BookedIsSold'
  <2>1. SumOver(SoldRow', Orders) = SumOver(SoldRow, Orders)
    BY <1>1 DEF SoldRow, Sells
  <2>2. ASSUME NEW q \in Passes, q # r
        PROVE  SumOver(rec'[q].book, Positions) <= SumOver(PassSold(q)', Orders)
    <3>1. PassSold(q)' = PassSold(q)
      BY <1>1, <1>3, <2>2 DEF PassSold, Sells
    <3> QED
      BY <1>3, <2>2, <3>1 DEF BookedIsSold
  <2>3. SumOver(m.book, Positions) = 0
    BY <1>4, SumOfZeros, SumOverIsSum
  <2>4. SumOver(PassSold(r)', Orders) = 0
    <3>1. PassSold(r)' = [o \in Orders |-> 0]
      BY <1>3, <1>4 DEF PassSold
    <3> QED
      BY <3>1, SumOfZeros, SumOverIsSum
  <2> QED
    BY <1>1, <1>3, <2>1, <2>2, <2>3, <2>4 DEF BookedIsSold
<1> QED
  BY <1>5, <1>6, <1>7, <1>8, <1>9 DEF PassesAgree

\* A commit moves what the pass booked to the trades and what it read to the
\* rows, one next to the other.
LEMMA RecCommitKeepsFills ==
    ASSUME FillsInv, TypeOK', IsFiniteSet(Orders), IsFiniteSet(Positions),
           \A q, r \in Passes : q = r, NEW r \in Passes, RecCommit(r)
    PROVE  FillsInv'
<1> USE DEF FillsInv
<1> DEFINE l == rec[r]
<1>0. l \in PassType
  BY DEF TypeOK
<1> HIDE DEF l
<1>1. /\ row' = [o \in Orders |->
                   IF l.add[o] # NoRow THEN l.add[o]
                   ELSE CASE l.status[o] = "keep" -> row[o]
                          [] l.status[o] = "CANCELLED" -> [row[o] EXCEPT !.status = "CANCELLED"]
                          [] OTHER -> [row[o] EXCEPT !.status = l.status[o], !.filled = l.filled[o]]]
      /\ pos'    = [p \in Positions |-> Written(l, p)]
      /\ booked' = [p \in Positions |-> booked[p] + l.book[p]]
      /\ rec'    = [rec EXCEPT ![r] = IdlePass]
      /\ UNCHANGED <<venue, prog>>
  BY DEF RecCommit, l
<1>2. /\ rec'[r] = IdlePass
      /\ \A o \in Orders : IdlePass.status[o] = "keep" /\ IdlePass.add[o] = NoRow
      /\ IdlePass.todo = {} /\ IdlePass.book = [p \in Positions |-> 0]
  BY <1>1 DEF TypeOK, IdlePass
<1>3. ASSUME NEW o \in Orders
      PROVE  /\ row[o] \in RowType /\ l.add[o] \in RowType /\ l.filled[o] \in Nat
             /\ l.status[o] \in {"keep", "PARTIAL", "FILLED", "CANCELLED"}
             /\ venue[o].filled \in Nat /\ row[o].filled \in Nat
             /\ AddedRow(r, o) /\ LoadedRow(r, o)
  BY <1>0 DEF TypeOK, PassType, VenueType, RowType, PassesAgree
<1>n. NoRow.kind = "none" /\ NoRow.filled = 0
  BY DEF NoRow
\* The four things that can happen to a row.
<1>4. ASSUME NEW o \in Orders
      PROVE  \/ /\ l.add[o] # NoRow /\ row'[o] = l.add[o] /\ l.status[o] = "keep"
                /\ row[o] = NoRow /\ venue[o].state # "none" /\ venue[o].side = "sell"
                /\ row'[o].kind \in {"market", "stop"} /\ row'[o].filled = 0
             \/ l.status[o] = "keep" /\ row'[o] = row[o]
             \/ /\ l.status[o] = "CANCELLED" /\ row[o].kind # "none"
                /\ row'[o].kind = row[o].kind /\ row'[o].filled = row[o].filled
                /\ row'[o].status = "CANCELLED"
             \/ /\ l.status[o] \in {"PARTIAL", "FILLED"} /\ row[o].kind # "none"
                /\ row'[o].kind = row[o].kind /\ row'[o].filled = l.filled[o]
                /\ row'[o].status = l.status[o]
  <2>1. CASE l.add[o] # NoRow
    <3>1. row'[o] = l.add[o]
      BY <1>1, <2>1
    <3>2. /\ row[o] = NoRow /\ venue[o].state # "none" /\ venue[o].side = "sell"
          /\ l.add[o].kind \in {"market", "stop"} /\ l.add[o].filled = 0
      BY <1>3, <2>1 DEF AddedRow, l
    <3>3. l.status[o] = "keep"
      BY <1>3, <1>n, <3>2 DEF LoadedRow, l
    <3> QED
      BY <2>1, <3>1, <3>2, <3>3
  <2>2. CASE l.add[o] = NoRow /\ l.status[o] = "keep"
    BY <1>1, <2>2
  <2>3. CASE l.add[o] = NoRow /\ l.status[o] = "CANCELLED"
    <3>1. row'[o] = [row[o] EXCEPT !.status = "CANCELLED"]
      BY <1>1, <2>3
    <3>2. row[o].kind # "none"
      BY <1>3, <2>3 DEF LoadedRow, l
    <3> QED
      BY <1>3, <2>3, <3>1, <3>2 DEF RowType
  <2>4. CASE l.add[o] = NoRow /\ l.status[o] \in {"PARTIAL", "FILLED"}
    <3>1. row'[o] = [row[o] EXCEPT !.status = l.status[o], !.filled = l.filled[o]]
      BY <1>1, <2>4
    <3>2. row[o].kind # "none"
      BY <1>3, <2>4 DEF LoadedRow, l
    <3> QED
      BY <1>3, <2>4, <3>1, <3>2 DEF RowType
  <2> QED
    BY <1>3, <2>1, <2>2, <2>3, <2>4
<1>5. VenueMoves /\ SellsFillAtOnce'
  BY <1>1, VenueStays DEF SellsFillAtOnce
<1>6. RowsAreSent'
  <2>1. SUFFICES ASSUME NEW o \in Orders
                 PROVE  /\ venue[o].state = "none" => row'[o] = NoRow
                        /\ row'[o].kind = "none" => row'[o] = NoRow
                        /\ row'[o].kind \in {"market", "stop"} =>
                              /\ venue[o].side = "sell"
                              /\ row'[o].filled <= venue[o].filled
                              /\ row'[o].status \in Active => row'[o].filled = 0
    BY <1>1 DEF RowsAreSent, Sells
  <2>2. /\ venue[o].state = "none" => row[o] = NoRow
        /\ row[o].kind = "none" => row[o] = NoRow
        /\ row[o].kind \in {"market", "stop"} =>
                              /\ venue[o].side = "sell"
                              /\ row[o].filled <= venue[o].filled
                              /\ row[o].status \in Active => row[o].filled = 0
    BY DEF RowsAreSent, Sells
  <2>3. row[o].kind \in {"market", "stop"} /\ l.status[o] # "keep" =>
           /\ l.status[o] # "PARTIAL" /\ l.status[o] = "FILLED" => l.filled[o] <= venue[o].filled
    BY <1>3 DEF LoadedRow, Sells, l
  <2>4. row[o].kind \in {"market", "stop"} => l.status[o] # "PARTIAL"
    BY <1>3 DEF LoadedRow, Sells, l
  <2> QED
    BY <1>3, <1>4, <1>n, <2>2, <2>3, <2>4 DEF Active
<1>7. RecordsAreNew'
  <2>1. ASSUME NEW x \in Programs, prog[x].pc = "record"
        PROVE  /\ row'[prog[x].ord] = row[prog[x].ord]
               /\ \A q \in Passes : rec'[q].add[prog[x].ord] = NoRow
    <3>1. prog[x].ord \in Orders /\ row[prog[x].ord] = NoRow /\ l.add[prog[x].ord] = NoRow
      BY <2>1 DEF RecordsAreNew, l
    <3> QED
      BY <1>2, <1>4, <1>n, <3>1
  <2>2. \A x \in Programs : prog[x].stops \subseteq Orders
    BY DEF TypeOK, ProgramType
  <2>3. \A o \in Orders : row[o].kind # "none" => row'[o].kind # "none"
    BY <1>4
  <2> QED
    BY <1>1, <1>5, <2>1, <2>2, <2>3, RecordsStayNew
<1>8. PassesAgree'
  <2>1. SUFFICES ASSUME NEW q \in Passes, NEW o \in Orders
                 PROVE  AddedRow(q, o)' /\ LoadedRow(q, o)'
    BY DEF PassesAgree
  <2>2. q = r
    OBVIOUS
  <2> QED
    BY <1>2, <2>2 DEF AddedRow, LoadedRow
<1>9. BookedIsSold'
  <2>1. \A p \in Positions : ~pos'[p].paper
    BY <1>1 DEF Written, BookedIsSold
  <2>2. \A q \in Passes : SumOver(rec'[q].book, Positions) <= SumOver(PassSold(q)', Orders)
    <3>1. SUFFICES SumOver(rec'[r].book, Positions) <= SumOver(PassSold(r)', Orders)
      OBVIOUS
    <3>2. SumOver(rec'[r].book, Positions) = 0
      BY <1>2, SumOfZeros, SumOverIsSum
    <3>3. PassSold(r)' = [o \in Orders |-> 0]
      BY <1>2 DEF PassSold
    <3>4. SumOver(PassSold(r)', Orders) = 0
      BY <3>3, SumOfZeros, SumOverIsSum
    <3> QED
      BY <3>2, <3>4
  <2>3. SumOver(booked', Positions) <= SumOver(SoldRow', Orders)
    <3> DEFINE b == l.book
               s == SoldRow
               t == PassSold(r)
               u == SoldRow'
    <3>1. booked \in [Positions -> Nat] /\ b \in [Positions -> Nat]
      BY <1>0 DEF TypeOK, PassType
    <3>2. \A p \in Positions : booked[p] \in Int /\ b[p] \in Int /\ booked'[p] = booked[p] + b[p]
      <4>1. booked' = [p \in Positions |-> booked[p] + b[p]]
        BY <1>1
      <4> HIDE DEF b
      <4> QED
        BY <3>1, <4>1
    <3>3. ASSUME NEW o \in Orders
          PROVE  s[o] \in Int /\ t[o] \in Int /\ u[o] = s[o] + t[o]
      <4>1. /\ s[o] = IF Sells(o) THEN row[o].filled ELSE 0
            /\ t[o] = IF Sells(o) /\ l.status[o] = "FILLED" THEN l.filled[o] ELSE 0
            /\ u[o] = IF row'[o].kind \in {"market", "stop"} THEN row'[o].filled ELSE 0
        BY DEF SoldRow, PassSold, Sells, l
      <4>2. Sells(o) /\ l.status[o] # "keep" => row[o].filled = 0 /\ l.status[o] # "PARTIAL"
        BY <1>3 DEF LoadedRow, l
      <4> HIDE DEF s, t, u
      <4> QED
        BY <1>3, <1>4, <1>n, <4>1, <4>2 DEF Sells
    <3> HIDE DEF b, s, t, u
    <3>4. Sum(booked', Positions) = Sum(booked, Positions) + Sum(b, Positions)
      BY <3>2, SumPlus
    <3>5. Sum(u, Orders) = Sum(s, Orders) + Sum(t, Orders)
      BY <3>3, SumPlus
    <3>6. /\ Sum(booked, Positions) \in Int /\ Sum(b, Positions) \in Int
          /\ Sum(s, Orders) \in Int /\ Sum(t, Orders) \in Int
      BY <3>2, <3>3, SumIsInt
    <3>7. Sum(booked, Positions) <= Sum(s, Orders) /\ Sum(b, Positions) <= Sum(t, Orders)
      BY SumOverIsSum DEF BookedIsSold, b, l, s, t
    <3>8. Sum(booked', Positions) <= Sum(u, Orders)
      BY <3>4, <3>5, <3>6, <3>7
    <3> QED
      BY <3>8, SumOverIsSum DEF u
  <2> QED
    BY <2>1, <2>2, <2>3 DEF BookedIsSold
<1> QED
  BY <1>5, <1>6, <1>7, <1>8, <1>9

LEMMA NextKeepsFills ==
    ASSUME FillsInv, [Next]_vars, IsFiniteSet(Orders), IsFiniteSet(Positions),
           \A q, r \in Passes : q = r, "pieces" \notin Hazards, "offline" \notin Hazards
    PROVE  FillsInv'
<1>1. TypeOK'
  BY NextTypeOK DEF FillsInv
<1>2. ASSUME UNCHANGED <<row, pos, booked, prog, rec>>, VenueMoves, SellsFillAtOnce'
      PROVE  FillsInv'
  <2>1. \A x \in Programs : prog[x].stops \subseteq Orders
    BY DEF TypeOK, ProgramType, FillsInv
  <2>2. RecordsAreNew'
    <3>1. ASSUME NEW x \in Programs, prog[x].pc = "record"
          PROVE  \A r \in Passes : rec'[r].add[prog[x].ord] = NoRow
      BY <1>2, <3>1 DEF RecordsAreNew, FillsInv
    <3> QED
      BY <1>2, <2>1, <3>1, RecordsStayNew
  <2> QED
    BY <1>1, <1>2, <2>2, RowsStay, ProgramKeepsFills
<1>3. CASE UNCHANGED vars
  BY <1>2, <1>3, VenueStays DEF vars, tables, FillsInv, SellsFillAtOnce
<1>4. CASE VenueStep
  <2>1. UNCHANGED <<row, pos, booked, prog, rec>>
    BY <1>4 DEF VenueStep, VenueFill, VenueCancel, tables
  <2> QED
    BY <1>2, <1>4, <2>1, VenueStepMoves DEF FillsInv
<1>5. CASE ProgramStep
  BY <1>1, <1>5, ProgramStepKeepsFills
<1>6. ASSUME NEW r \in Passes, RecStep(r)
      PROVE  FillsInv'
  BY <1>1, <1>6, RecOrdersKeepFills, RecIdleKeepsFills, RecCommitKeepsFills DEF RecStep
<1> QED
  BY <1>3, <1>4, <1>5, <1>6 DEF Next

LEMMA InitFills ==
    ASSUME Init, IsFiniteSet(Orders), IsFiniteSet(Positions)
    PROVE  FillsInv
<1>1. TypeOK
  BY InitTypeOK
<1>2. SellsFillAtOnce /\ RowsAreSent /\ RecordsAreNew /\ PassesAgree
  BY DEF Init, SellsFillAtOnce, NoVenueOrder, RowsAreSent, NoRow, Sells, RecordsAreNew,
         IdleProgram, PassesAgree, AddedRow, LoadedRow, IdlePass
<1>3. BookedIsSold
  <2>1. \A p \in Positions : ~pos[p].paper
    BY DEF Init, NoPos
  <2>2. booked = [p \in Positions |-> 0] /\ SoldRow = [o \in Orders |-> 0]
    BY DEF Init, SoldRow, Sells, NoRow
  <2>3. ASSUME NEW r \in Passes
        PROVE  rec[r].book = [p \in Positions |-> 0] /\ PassSold(r) = [o \in Orders |-> 0]
    BY DEF Init, PassSold, Sells, NoRow, IdlePass
  <2>4. SumOver([p \in Positions |-> 0], Positions) = 0 /\ SumOver([o \in Orders |-> 0], Orders) = 0
    BY SumOfZeros, SumOverIsSum
  <2>5. SumOver(booked, Positions) = 0 /\ SumOver(SoldRow, Orders) = 0
    BY <2>2, <2>4
  <2>6. \A r \in Passes : SumOver(rec[r].book, Positions) = 0 /\ SumOver(PassSold(r), Orders) = 0
    BY <2>3, <2>4
  <2> QED
    BY <2>1, <2>5, <2>6 DEF BookedIsSold
<1> QED
  BY <1>1, <1>2, <1>3 DEF FillsInv

LEMMA FillsInvImplies ==
    ASSUME FillsInv, IsFiniteSet(Orders), IsFiniteSet(Positions)
    PROVE  ReducedOnlyByFills
<1> USE DEF FillsInv
<1> DEFINE sells == {o \in Orders : venue[o].side = "sell"}
           at    == [o \in Orders |-> venue[o].filled]
           atSell == [o \in Orders |-> IF o \in sells THEN at[o] ELSE 0]
<1>1. {p \in Positions : ~pos[p].paper} = Positions
  BY DEF BookedIsSold
<1>2. ASSUME NEW o \in Orders
      PROVE  SoldRow[o] \in Int /\ atSell[o] \in Int /\ SoldRow[o] <= atSell[o]
  <2>1. row[o].filled \in Nat /\ venue[o].filled \in Nat
    BY DEF TypeOK, RowType, VenueType
  <2> QED
    BY <2>1 DEF SoldRow, RowsAreSent
<1>3. \A o \in sells : atSell[o] = at[o]
  OBVIOUS
<1>4. \A o \in Orders \ sells : atSell[o] = 0
  OBVIOUS
<1>5. sells \in SUBSET Orders /\ IsFiniteSet(sells)
  BY FS_Subset
<1> HIDE DEF sells, at, atSell
<1>6. Sum(SoldRow, Orders) <= Sum(atSell, Orders)
  BY <1>2, SumMonotone
<1>7. Sum(atSell, Orders) = Sum(atSell, sells)
  BY <1>2, <1>4, <1>5, SumRestrict
<1>8. Sum(atSell, sells) = Sum(at, sells)
  BY <1>3, <1>5, SumAgrees
<1>9. \A p \in Positions : booked[p] \in Int
  BY DEF TypeOK
<1>10. Sum(booked, Positions) \in Int /\ Sum(SoldRow, Orders) \in Int /\ Sum(atSell, Orders) \in Int
  BY <1>2, <1>9, SumIsInt
<1>11. Sum(booked, Positions) <= Sum(SoldRow, Orders)
  BY SumOverIsSum DEF BookedIsSold
<1>12. Total("sell") = Sum(at, sells)
  BY SumOverIsSum DEF Total, at, sells
<1> QED
  BY <1>1, <1>6, <1>7, <1>8, <1>10, <1>11, <1>12, SumOverIsSum DEF ReducedOnlyByFills

\* With a connection, sells that fill at once and passes that the lock keeps
\* apart, a live position is never reduced by more than the venue has sold,
\* whatever is cancelled, refused or killed in between.
THEOREM FillsReduce ==
    ASSUME \A q, r \in Passes : q = r, Hazards \cap {"pieces", "offline"} = {},
           IsFiniteSet(Orders), IsFiniteSet(Positions)
    PROVE  Spec => []ReducedOnlyByFills
<1>1. Init => FillsInv
  BY InitFills
<1>2. FillsInv /\ [Next]_vars => FillsInv'
  BY NextKeepsFills
<1>3. FillsInv => ReducedOnlyByFills
  BY FillsInvImplies
<1> QED
  BY <1>1, <1>2, <1>3, PTL DEF Spec

-----------------------------------------------------------------------------
(* One signal, bought from the chat and protected by stops that may be moved. *)

IsBuy(o)  == venue[o].state # "none" /\ venue[o].side = "buy"
IsSell(o) == venue[o].state # "none" /\ venue[o].side = "sell"
Live(o)   == venue[o].state \in {"open", "filled"}

\* The entry that may still become, or is, the position.
Standing(o) == IsBuy(o) /\ row[o].status # "CANCELLED"

Bought == \E o \in Orders : IsBuy(o) /\ venue[o].state = "filled"
WasSold == \E o \in Orders : IsSell(o) /\ venue[o].state = "filled"

Entry(o)      == row[o].kind = "entry"
Stop(o)       == row[o].kind = "stop"
Makes(r, p)   == rec[r].made[p] # NoSignal
Adds(r, o)    == rec[r].add[o] # NoRow
Reads(r, o, status) == rec[r].status[o] = status
Taken(p)      == pos[p].status # "none" \/ \E r \in Passes : Makes(r, p)
Records(x, o) == x \in Programs /\ prog[x].pc = "record" /\ prog[x].ord = o

\* Every order is for a lot and fills at once.
OrdersAreLots ==
    \A o \in Orders :
       /\ venue[o].state = "none" => venue[o] = NoVenueOrder /\ row[o] = NoRow
       /\ venue[o].state # "sim"
       /\ venue[o].state # "none" =>
             /\ venue[o].amount = Lot
             /\ venue[o].filled = IF venue[o].state = "filled" THEN Lot ELSE 0

\* One lot is bought, and only then one is sold.
CoinsAreCounted ==
    /\ coins = IF Bought /\ ~WasSold THEN Lot ELSE 0
    /\ \A o \in Orders : IsSell(o) => Bought

RowFollows(o) ==
    \/ row[o] = NoRow
    \/ /\ row[o].status \in {"SUBMITTED", "FILLED", "CANCELLED"}
       /\ row[o].status = "CANCELLED" => venue[o].state = "cancelled"
       /\ row[o].status = "FILLED" => venue[o].state = "filled"
       /\ \/ Entry(o) /\ venue[o].side = "buy" /\ row[o].sig \in Signals
          \/ /\ Stop(o) /\ venue[o].side = "sell" /\ row[o].sig = NoSignal
             /\ row[o].p \in Positions /\ pos[row[o].p].status # "none"

RowsFollow == \A o \in Orders : RowFollows(o)

\* At most one entry stands, and the signal waits for no other meanwhile.
OneEntry ==
    /\ \A o, u \in Orders : Standing(o) /\ Standing(u) => o = u
    /\ \A o \in Orders : Standing(o) =>
          \/ Records("chat", o) /\ row[o] = NoRow
          \/ /\ Entry(o) /\ \A s \in Signals : signal[s] # "PENDING"
             /\ "chat" \in Programs => prog["chat"].pc = "idle"
    /\ "chat" \in Programs /\ prog["chat"].pc # "idle" =>
          /\ prog["chat"].pc \in {"call", "record"}
          /\ prog["chat"].sig \in Signals /\ prog["chat"].qty = Lot
          /\ prog["chat"].cancel = {}
          /\ prog["chat"].pc = "record" =>
                prog["chat"].ord \in Orders /\ IsBuy(prog["chat"].ord) /\ row[prog["chat"].ord] = NoRow

\* At most one sell is live, and it is a stop somebody knows.  An amendment has
\* ended every other one before it submits its own.
AmendHolds ==
    "amend" \in Programs /\ prog["amend"].pc # "idle" =>
       LET a == prog["amend"]
       IN  /\ a.pc \in {"call", "record"} /\ a.qty = Lot /\ a.sig = NoSignal
           /\ a.p \in Positions /\ pos[a.p].status # "none"
           /\ a.cancel \subseteq a.stops /\ ActiveStops \subseteq a.stops
           /\ \A o \in a.stops : Stop(o) /\ (o \notin a.cancel => venue[o].state = "cancelled")
           /\ a.pc = "call" => \A o \in Orders : IsSell(o) /\ Live(o) => o \in a.cancel
           /\ a.pc = "record" =>
                 /\ a.cancel = {} /\ a.ord \in Orders /\ IsSell(a.ord) /\ row[a.ord] = NoRow
                 /\ \A o \in Orders : IsSell(o) /\ Live(o) => o = a.ord

OneStop ==
    /\ \A o, u \in Orders : IsSell(o) /\ IsSell(u) /\ Live(o) /\ Live(u) => o = u
    /\ \A o \in Orders : IsSell(o) /\ Live(o) =>
          Stop(o) \/ Records("amend", o) \/ \E r \in Passes : Adds(r, o)
    /\ \A o, u \in ActiveStops : o = u
    /\ AmendHolds

\* One position is ever made, by the fill of an entry, and closed by that of a
\* stop.
OnePosition ==
    /\ \A p, q \in Positions : Taken(p) /\ Taken(q) => p = q
    /\ \A p \in Positions : ~pos[p].paper
    /\ \A p \in Positions : pos[p].status # "none" =>
          /\ pos[p].qty = Lot
          /\ \E o \in Orders : Entry(o) /\ row[o].status = "FILLED"
          /\ pos[p].status = "CLOSED" => \E o \in Orders : Stop(o) /\ row[o].status = "FILLED"
    /\ \A o \in Orders : Entry(o) /\ row[o].status = "FILLED" =>
          \E p \in Positions : pos[p].status # "none"
    /\ \A o \in Orders : Stop(o) /\ row[o].status = "FILLED" =>
          \A p \in Positions : pos[p].status # "OPEN"

\* What a pass has in hand.
PassReads(r, o) ==
    /\ o \in rec[r].todo => /\ Reads(r, o, "keep") /\ (Entry(o) \/ Stop(o))
                            /\ Entry(o) => row[o].status = "SUBMITTED"
    /\ ~Reads(r, o, "keep") =>
          /\ Entry(o) \/ Stop(o)
          /\ Entry(o) => row[o].status = "SUBMITTED"
          /\ \/ Reads(r, o, "CANCELLED") /\ venue[o].state = "cancelled"
             \/ Reads(r, o, "FILLED") /\ venue[o].state = "filled"
    /\ Reads(r, o, "FILLED") /\ Entry(o) => \E p \in Positions : Makes(r, p)
    /\ Reads(r, o, "FILLED") /\ Stop(o) =>
          \A p \in Positions : pos[p].status = "OPEN" => rec[r].final[p] > 0
    /\ Adds(r, o) =>
          /\ IsSell(o) /\ row[o] = NoRow
          /\ \E p \in Positions : Makes(r, p) /\ rec[r].add[o] = SellRow("stop", p)

PassBooks(r, p) ==
    /\ Makes(r, p) =>
          /\ p \in rec[r].held /\ rec[r].qty[p] = Lot
          /\ \E o \in Orders : Entry(o) /\ Reads(r, o, "FILLED")
          /\ \E o \in Orders : rec[r].add[o] = SellRow("stop", p)
    /\ rec[r].final[p] > 0 =>
          /\ rec[r].final[p] = 1 /\ pos[p].status = "OPEN"
          /\ \E o \in Orders : Stop(o) /\ Reads(r, o, "FILLED")
    /\ pos[p].status = "OPEN" /\ p \in rec[r].held => rec[r].qty[p] = Lot

PassHolds(r) ==
    /\ rec[r].pc = "idle" => rec[r] = IdlePass
    /\ rec[r].dirty = {}
    /\ \A o \in Orders : PassReads(r, o)
    /\ \A o, u \in Orders : Adds(r, o) /\ Adds(r, u) => o = u
    /\ \A p \in Positions : PassBooks(r, p)
    /\ \A s \in rec[r].rearm : \E o \in Orders : Entry(o) /\ Reads(r, o, "CANCELLED")

StopsInv ==
    /\ OrdersAreLots /\ CoinsAreCounted /\ RowsFollow /\ OneEntry /\ OneStop
    /\ OnePosition /\ \A r \in Passes : PassHolds(r)

\* What the theorems of this section suppose: the coin's signal is bought from
\* the chat and its stop is moved by hand, one pass at a time.
AmendedByHand ==
    /\ Programs \subseteq {"chat", "amend"} /\ Hazards \subseteq {"cancel"}
    /\ \A q, r \in Passes : q = r
    /\ \A s, t \in Signals : s = t

\* An order is done at the venue: it fills, or somebody cancels it.
Ended(o, state) ==
    /\ venue[o].state = "open" /\ venue'[o].state = state
    /\ venue'[o].side = venue[o].side /\ venue'[o].amount = venue[o].amount
    /\ venue'[o].filled = IF state = "filled" THEN Lot ELSE 0
    /\ \A u \in Orders \ {o} : venue'[u] = venue[u]
    /\ coins' = IF state = "cancelled" THEN coins
                ELSE IF venue[o].side = "buy" THEN coins + Lot ELSE coins - Lot

LEMMA EndedKeepsStops ==
    ASSUME TypeOK, TypeOK', StopsInv, NEW o \in Orders, NEW state \in {"filled", "cancelled"},
           Ended(o, state), UNCHANGED <<tables, rec>>,
           \/ UNCHANGED prog
           \/ /\ "amend" \in Programs /\ prog["amend"].pc = "call" /\ state = "cancelled"
              /\ o \in prog["amend"].cancel
              /\ prog' = [prog EXCEPT !["amend"] =
                            [@ EXCEPT !.cancel = prog["amend"].cancel \ {o}]]
    PROVE  StopsInv'
<1> USE DEF StopsInv, Ended
<1>0. UNCHANGED <<signal, row, pos, trades, booked, rec>> /\ Lot \in Nat \ {0}
  BY LotAssumption DEF tables
<1>1. OrdersAreLots'
  BY <1>0 DEF OrdersAreLots
<1>2. row[o].status # "CANCELLED" /\ row[o].status # "FILLED"
  BY DEF RowsFollow, RowFollows, NoRow
<1>3. CoinsAreCounted'
  <2>1. \A u \in Orders : u # o => venue'[u] = venue[u]
    OBVIOUS
  <2>2. CASE state = "cancelled"
    BY <2>1, <2>2 DEF CoinsAreCounted, Bought, WasSold, IsBuy, IsSell
  <2>3. CASE state = "filled" /\ venue[o].side = "buy"
    <3>1. \A u \in Orders : IsBuy(u) => venue[u].state # "filled"
      BY <1>2, <2>3 DEF OneEntry, Standing, IsBuy, RowsFollow, RowFollows, NoRow
    <3>2. ~Bought /\ ~WasSold /\ Bought' /\ ~WasSold'
      BY <2>1, <2>3, <3>1 DEF CoinsAreCounted, Bought, WasSold, IsBuy, IsSell
    <3> QED
      BY <1>0, <2>3, <3>2 DEF CoinsAreCounted, TypeOK
  <2>4. CASE state = "filled" /\ venue[o].side = "sell"
    <3>1. ~WasSold
      BY <2>4 DEF OneStop, WasSold, IsSell, Live
    <3>2. Bought /\ Bought' /\ WasSold'
      BY <2>1, <2>4 DEF CoinsAreCounted, Bought, WasSold, IsBuy, IsSell
    <3> QED
      BY <1>0, <2>4, <3>1, <3>2 DEF CoinsAreCounted, TypeOK
  <2>5. venue[o].side \in {"buy", "sell"}
    BY DEF TypeOK, VenueType
  <2> QED
    BY <2>2, <2>3, <2>4, <2>5
<1>4. RowsFollow'
  <2>1. \A u \in Orders : RowFollows(u)
    BY DEF RowsFollow
  <2> QED
    BY <1>0, <1>2, <2>1 DEF RowsFollow, RowFollows, Entry, Stop
<1>5. /\ \A u \in Orders : /\ IsBuy(u)' <=> IsBuy(u)
                           /\ IsSell(u)' <=> IsSell(u)
                           /\ Live(u)' => Live(u)
                           /\ Standing(u)' <=> Standing(u)
                           /\ venue[u].state = "cancelled" => venue'[u].state = "cancelled"
                           /\ venue[u].state = "filled" => venue'[u].state = "filled"
  BY <1>0 DEF IsBuy, IsSell, Live, Standing
<1>6. /\ \A x, u : Records(x, u)' <=> Records(x, u)
      /\ "chat" \in Programs => prog'["chat"] = prog["chat"]
      /\ prog["amend"].pc = "idle" => prog' = prog
  BY DEF Records, TypeOK, ProgramType
<1>7. OneEntry'
  BY <1>0, <1>5, <1>6 DEF OneEntry, Entry
<1>8. OneStop'
  <2>1. AmendHolds'
    <3>1. ASSUME "amend" \in Programs, prog["amend"].pc # "idle"
          PROVE  AmendHolds'
      <4>1. CASE UNCHANGED prog
        BY <1>0, <1>5, <3>1, <4>1 DEF OneStop, AmendHolds, ActiveStops, ActiveSells, Stop, TypeOK, ProgramType
      <4>2. CASE ~UNCHANGED prog
        <5> DEFINE a == prog["amend"]
                   b == prog'["amend"]
        <5>1. a \in ProgramType
          BY <3>1 DEF TypeOK
        <5>2. prog' = [prog EXCEPT !["amend"] = [a EXCEPT !.cancel = a.cancel \ {o}]]
          BY <4>2
        <5>3. b = [a EXCEPT !.cancel = a.cancel \ {o}]
          BY <3>1, <5>2 DEF TypeOK
        <5>4. /\ b.pc = "call" /\ b.qty = a.qty /\ b.sig = a.sig /\ b.p = a.p
              /\ b.cancel = a.cancel \ {o} /\ b.stops = a.stops
          BY <4>2, <5>1, <5>3 DEF ProgramType
        <5> HIDE DEF b
        <5>5. AmendHolds
          BY DEF OneStop
        <5>6. ActiveStops' = ActiveStops /\ \A u \in Orders : Stop(u)' <=> Stop(u)
          BY <1>0 DEF ActiveStops, ActiveSells, Stop
        <5>7. ~Live(o)' /\ venue'[o].state = "cancelled"
          BY <4>2 DEF Live
        <5>8. a.stops \subseteq Orders
          BY <5>1 DEF ProgramType
        <5> QED
          BY <1>0, <1>5, <3>1, <4>2, <5>4, <5>5, <5>6, <5>7, <5>8 DEF AmendHolds, b
      <4> QED
        BY <4>1, <4>2
    <3>2. CASE ~("amend" \in Programs /\ prog["amend"].pc # "idle")
      BY <3>2 DEF AmendHolds
    <3> QED
      BY <3>1, <3>2
  <2> QED
    BY <1>0, <1>5, <1>6, <2>1 DEF OneStop, Stop, Adds, ActiveStops, ActiveSells
<1>9. OnePosition'
  BY <1>0 DEF OnePosition, Taken, Makes, Entry, Stop
<1>10. \A r \in Passes : PassHolds(r)'
  <2>1. SUFFICES ASSUME NEW r \in Passes
                 PROVE  PassHolds(r)'
    OBVIOUS
  <2>2. PassHolds(r)
    OBVIOUS
  <2>3. ASSUME NEW u \in Orders
        PROVE  PassReads(r, u)'
    <3>1. PassReads(r, u)
      BY <2>2 DEF PassHolds
    <3> QED
      BY <1>0, <1>5, <3>1 DEF PassReads, Reads, Entry, Stop, Makes, Adds
  <2>4. ASSUME NEW p \in Positions
        PROVE  PassBooks(r, p)'
    <3>1. PassBooks(r, p)
      BY <2>2 DEF PassHolds
    <3> QED
      BY <1>0, <3>1 DEF PassBooks, Reads, Entry, Stop, Makes
  <2> QED
    BY <1>0, <2>2, <2>3, <2>4 DEF PassHolds, Adds, Reads, Entry
<1> QED
  BY <1>1, <1>3, <1>4, <1>7, <1>8, <1>9, <1>10

\* What does not touch the tables, the venue or a pass keeps most of it.
LEMMA OnlyProgramsMove ==
    ASSUME StopsInv, UNCHANGED <<tables, venue, coins, rec>>
    PROVE  /\ OrdersAreLots' /\ CoinsAreCounted' /\ RowsFollow' /\ OnePosition'
           /\ \A r \in Passes : PassHolds(r)'
<1> USE DEF StopsInv
<1>0. UNCHANGED <<signal, row, pos, trades, booked, venue, coins, rec>>
  BY DEF tables
<1>1. OrdersAreLots' /\ CoinsAreCounted' /\ RowsFollow'
  BY <1>0 DEF OrdersAreLots, CoinsAreCounted, RowsFollow, RowFollows, Bought, WasSold, IsBuy,
              IsSell, Entry, Stop
<1>2. OnePosition'
  BY <1>0 DEF OnePosition, Taken, Makes, Entry, Stop
<1>3. ASSUME NEW r \in Passes
      PROVE  PassHolds(r)'
  <2>1. PassHolds(r)
    OBVIOUS
  <2>2. \A o \in Orders : PassReads(r, o)'
    BY <1>0, <2>1 DEF PassHolds, PassReads, Reads, Entry, Stop, Makes, Adds, IsSell
  <2>3. \A p \in Positions : PassBooks(r, p)'
    BY <1>0, <2>1 DEF PassHolds, PassBooks, Reads, Entry, Stop, Makes
  <2> QED
    BY <1>0, <2>1, <2>2, <2>3 DEF PassHolds, Adds, Reads, Entry
<1> QED
  BY <1>1, <1>2, <1>3

\* A pass makes the position of an entry that is not yet in the table, and there
\* is no other.
LEMMA MadeAlone ==
    ASSUME StopsInv, NEW r \in Passes, NEW q \in Positions, Makes(r, q)
    PROVE  \A p \in Positions : pos[p].status = "none"
<1> USE DEF StopsInv
<1>1. SUFFICES ASSUME NEW p \in Positions, pos[p].status # "none"
               PROVE  FALSE
  OBVIOUS
<1>2. PICK u \in Orders : Entry(u) /\ Reads(r, u, "FILLED")
  BY DEF PassHolds, PassBooks
<1>3. PICK w \in Orders : Entry(w) /\ row[w].status = "FILLED"
  BY <1>1 DEF OnePosition
<1>4. PassReads(r, u)
  BY DEF PassHolds
<1>5. row[u].status = "SUBMITTED"
  BY <1>2, <1>4 DEF PassReads, Reads
<1>6. Standing(u) /\ Standing(w)
  BY <1>2, <1>3, <1>5 DEF Standing, IsBuy, RowsFollow, RowFollows, Entry, Stop, NoRow, OrdersAreLots
<1> QED
  BY <1>3, <1>5, <1>6 DEF OneEntry

LEMMA StartsKeepStops ==
    ASSUME TypeOK, TypeOK', StopsInv, AmendedByHand, ChatStart \/ AmendStart
    PROVE  StopsInv'
<1> USE DEF StopsInv
<1>1. CASE ChatStart
  <2>1. PICK s \in Signals :
           /\ signal[s] = "PENDING"
           /\ Begin("chat", [IdleProgram EXCEPT !.pc = "call", !.sig = s, !.qty = Lot])
    BY <1>1 DEF ChatStart
  <2>2. /\ UNCHANGED <<signal, row, pos, trades, booked, venue, coins, rec>>
        /\ UNCHANGED <<tables, venue, coins, rec>>
        /\ "chat" \in Programs /\ prog["chat"].pc = "idle"
    BY <2>1 DEF Begin, tables, outside
  <2>3. /\ prog'["chat"].pc = "call" /\ prog'["chat"].sig = s /\ prog'["chat"].qty = Lot
        /\ prog'["chat"].cancel = {}
        /\ "amend" \in Programs => prog'["amend"] = prog["amend"]
    BY <2>1 DEF Begin, IdleProgram, TypeOK
  <2>4. \A o \in Orders : ~Standing(o)
    BY <2>1, <2>2 DEF OneEntry, Records
  <2>5. OneEntry'
    BY <2>2, <2>3, <2>4 DEF OneEntry, Standing, IsBuy
  <2>6. AmendHolds'
    BY <2>2, <2>3 DEF OneStop, AmendHolds, ActiveStops, ActiveSells, Stop, IsSell, Live
  <2>7. \A o : Records("amend", o)' <=> Records("amend", o)
    BY <2>3 DEF Records
  <2>8. OneStop'
    BY <2>2, <2>6, <2>7 DEF OneStop, ActiveStops, ActiveSells, Stop, IsSell, Live, Adds
  <2> QED
    BY <2>2, <2>5, <2>8, OnlyProgramsMove
<1>2. CASE AmendStart
  <2>1. PICK p \in OpenPositions :
           Begin("amend", [IdleProgram EXCEPT !.pc = "call", !.p = p, !.qty = pos[p].qty,
                             !.cancel = ActiveStops, !.stops = ActiveStops])
    BY <1>2 DEF AmendStart
  <2>2. /\ UNCHANGED <<signal, row, pos, trades, booked, venue, coins, rec>>
        /\ UNCHANGED <<tables, venue, coins, rec>>
        /\ "amend" \in Programs /\ prog["amend"].pc = "idle"
    BY <2>1 DEF Begin, tables, outside
  <2>3. /\ prog'["amend"].pc = "call" /\ prog'["amend"].sig = NoSignal
        /\ prog'["amend"].p = p /\ prog'["amend"].qty = pos[p].qty
        /\ prog'["amend"].cancel = ActiveStops /\ prog'["amend"].stops = ActiveStops
        /\ "chat" \in Programs => prog'["chat"] = prog["chat"]
    BY <2>1 DEF Begin, IdleProgram, TypeOK
  <2>4. p \in Positions /\ pos[p].status = "OPEN" /\ pos[p].qty = Lot
    BY <2>1 DEF OpenPositions, OnePosition
  <2>5. /\ ActiveStops \subseteq Orders /\ ActiveStops' = ActiveStops
        /\ \A o \in ActiveStops : Stop(o)
        /\ \A o \in Orders : Stop(o)' <=> Stop(o)
    BY <2>2 DEF ActiveStops, ActiveSells, Stop
  <2>6. ASSUME NEW o \in Orders, IsSell(o), Live(o)
        PROVE  o \in ActiveStops
    <3>1. ~Records("amend", o) /\ \A r \in Passes : ~Adds(r, o)
      <4>1. ASSUME NEW r \in Passes, Adds(r, o)
            PROVE  FALSE
        <5>1. PICK q \in Positions : Makes(r, q)
          BY <4>1 DEF PassHolds, PassReads
        <5> QED
          BY <2>4, <5>1, MadeAlone
      <4> QED
        BY <2>2, <4>1 DEF Records
    <3>2. Stop(o)
      BY <2>6, <3>1 DEF OneStop
    <3>3. row[o].status \in {"SUBMITTED", "FILLED", "CANCELLED"} /\ row[o].status # "CANCELLED"
      BY <2>6, <3>2 DEF RowsFollow, RowFollows, Stop, NoRow, Live
    <3>4. row[o].status # "FILLED"
      BY <2>4, <3>2 DEF OnePosition
    <3> QED
      BY <3>2, <3>3, <3>4 DEF ActiveStops, ActiveSells, Active, Stop
  <2>7. AmendHolds'
    BY <2>2, <2>3, <2>4, <2>5, <2>6 DEF AmendHolds, IsSell, Live
  <2>8. \A o : /\ Records("amend", o)' <=> Records("amend", o)
               /\ Records("chat", o)' <=> Records("chat", o)
    BY <2>2, <2>3 DEF Records
  <2>9. OneStop'
    BY <2>2, <2>5, <2>7, <2>8 DEF OneStop, Stop, IsSell, Live, Adds
  <2>10. OneEntry'
    BY <2>2, <2>3, <2>8 DEF OneEntry, Standing, IsBuy, Entry
  <2> QED
    BY <2>2, <2>9, <2>10, OnlyProgramsMove
<1> QED
  BY <1>1, <1>2

\* The venue fills an order, all of it, or cancels one.
LEMMA VenueKeepsStops ==
    ASSUME TypeOK, TypeOK', StopsInv, AmendedByHand, VenueStep
    PROVE  StopsInv'
<1>1. ASSUME NEW o \in Orders, VenueFill(o)
      PROVE  StopsInv'
  <2>1. /\ venue[o].state = "open" /\ venue[o] \in VenueType
        /\ venue[o].amount = Lot /\ venue[o].filled = 0
    BY <1>1 DEF VenueFill, StopsInv, OrdersAreLots, TypeOK
  <2>a. PICK n \in 1..(venue[o].amount - venue[o].filled) :
           LET all  == venue[o].filled + n
               some == IF venue[o].side = "buy" THEN "partial" ELSE "pieces"
           IN  /\ some \notin Hazards => all = venue[o].amount
               /\ venue' = [venue EXCEPT ![o] = [@ EXCEPT !.filled = all,
                      !.state = IF all = venue[o].amount THEN "filled" ELSE "open"]]
               /\ coins' = IF venue[o].side = "buy" THEN coins + n ELSE coins - n
    BY <1>1 DEF VenueFill
  <2>b. "partial" \notin Hazards /\ "pieces" \notin Hazards
    BY DEF AmendedByHand
  <2>c. n \in Int /\ venue[o].filled + n = Lot /\ n = Lot
    BY <2>1, <2>a, <2>b, LotAssumption
  <2>2. /\ venue' = [venue EXCEPT ![o] = [@ EXCEPT !.filled = Lot, !.state = "filled"]]
        /\ coins' = IF venue[o].side = "buy" THEN coins + Lot ELSE coins - Lot
    BY <2>1, <2>a, <2>c
  <2>3. venue'[o] = [venue[o] EXCEPT !.filled = Lot, !.state = "filled"]
    BY <2>2 DEF TypeOK
  <2>4. Ended(o, "filled")
    BY <2>1, <2>2, <2>3 DEF Ended, TypeOK, VenueType
  <2>5. UNCHANGED <<tables, rec>> /\ UNCHANGED prog
    BY <1>1 DEF VenueFill
  <2> QED
    BY <2>4, <2>5, EndedKeepsStops
<1>2. ASSUME NEW o \in Orders, VenueCancel(o)
      PROVE  StopsInv'
  <2>1. /\ venue[o].state = "open" /\ venue[o] \in VenueType /\ venue[o].filled = 0
        /\ venue' = [venue EXCEPT ![o] = [@ EXCEPT !.state = "cancelled"]] /\ coins' = coins
    BY <1>2 DEF VenueCancel, StopsInv, OrdersAreLots, TypeOK
  <2>2. venue'[o] = [venue[o] EXCEPT !.state = "cancelled"]
    BY <2>1 DEF TypeOK
  <2>3. Ended(o, "cancelled")
    BY <2>1, <2>2 DEF Ended, TypeOK, VenueType
  <2>4. UNCHANGED <<tables, rec>> /\ UNCHANGED prog
    BY <1>2 DEF VenueCancel
  <2> QED
    BY <2>3, <2>4, EndedKeepsStops
<1> QED
  BY <1>1, <1>2 DEF VenueStep

\* The amendment cancels a stop, or gives up.
LEMMA CancelKeepsStops ==
    ASSUME TypeOK, TypeOK', StopsInv, AmendedByHand, NEW x \in Programs, CancelStop(x)
    PROVE  StopsInv'
<1>1. PICK o \in prog[x].cancel :
          \/ /\ venue[o].state = "open"
             /\ venue' = [venue EXCEPT ![o] = [@ EXCEPT !.state = "cancelled"]]
             /\ prog' = [prog EXCEPT ![x] = [@ EXCEPT !.cancel = prog[x].cancel \ {o}]]
          \/ /\ Ends(x)
             /\ UNCHANGED venue
  BY DEF CancelStop
<1>2. /\ prog[x].pc = "call" /\ UNCHANGED <<signal, row, pos, trades, booked, coins, rec>>
      /\ UNCHANGED <<tables, rec>>
  BY DEF CancelStop, tables, outside
<1>3. x = "amend"
  BY <1>1, <1>2 DEF AmendedByHand, StopsInv, OneEntry
<1>4. o \in Orders /\ venue[o] \in VenueType
  BY <1>1 DEF TypeOK, ProgramType
<1>5. CASE venue[o].state = "open"
           /\ venue' = [venue EXCEPT ![o] = [@ EXCEPT !.state = "cancelled"]]
           /\ prog' = [prog EXCEPT ![x] = [@ EXCEPT !.cancel = prog[x].cancel \ {o}]]
  <2>1. venue[o].filled = 0
    BY <1>4, <1>5 DEF StopsInv, OrdersAreLots
  <2>2. venue'[o] = [venue[o] EXCEPT !.state = "cancelled"]
    BY <1>4, <1>5 DEF TypeOK
  <2>3. Ended(o, "cancelled")
    BY <1>2, <1>4, <1>5, <2>1, <2>2 DEF Ended, TypeOK, VenueType
  <2> QED
    BY <1>1, <1>2, <1>3, <1>4, <1>5, <2>3, EndedKeepsStops
<1>6. CASE Ends(x) /\ UNCHANGED venue
  <2> USE DEF StopsInv
  <2>1. /\ prog'["amend"].pc = "idle"
        /\ "chat" \in Programs => prog'["chat"] = prog["chat"]
    BY <1>3, <1>6 DEF Ends, IdleProgram, TypeOK
  <2>2. \A u : /\ ~Records("amend", u) /\ ~Records("amend", u)'
               /\ Records("chat", u)' <=> Records("chat", u)
    BY <1>2, <1>3, <2>1 DEF Records
  <2>3. OneEntry'
    BY <1>2, <1>6, <2>1, <2>2 DEF OneEntry, Standing, IsBuy, Entry
  <2>4. OneStop'
    BY <1>2, <1>6, <2>1, <2>2
       DEF OneStop, AmendHolds, Stop, IsSell, Live, Adds, ActiveStops, ActiveSells
  <2> QED
    BY <1>2, <1>6, <2>3, <2>4, OnlyProgramsMove
<1> QED
  BY <1>1, <1>5, <1>6

\* An order reaches the venue.
LEMMA SubmitKeepsStops ==
    ASSUME TypeOK, TypeOK', StopsInv, AmendedByHand, NEW x \in Programs, Submit(x)
    PROVE  StopsInv'
<1> USE DEF StopsInv
<1> DEFINE side == Side(x)
<1>0. FreeOrders # {}
  BY DEF Submit, Acked, AmendedByHand
<1>a. PICK new \in Orders : new = NextOrder
  BY <1>0, NextOrderIsFree
<1>1. /\ prog[x].pc = "call" /\ prog[x].cancel = {} /\ FreeOrders # {}
      /\ venue' = Placed(venue, new, side, prog[x].qty, "open")
      /\ prog' = [prog EXCEPT ![x] = [@ EXCEPT !.pc = "record", !.ord = new]]
      /\ UNCHANGED <<signal, row, pos, trades, booked, coins, rec>>
  BY <1>a DEF Submit, Acked, AmendedByHand, tables, outside
<1>2. new \in Orders /\ venue[new].state = "none" /\ row[new] = NoRow
  BY <1>a, <1>0, NextOrderIsFree DEF OrdersAreLots
<1>3. x \in {"chat", "amend"} /\ prog[x].qty = Lot /\ prog[x] \in ProgramType
  BY <1>1 DEF AmendedByHand, OneEntry, OneStop, AmendHolds, TypeOK
<1>4. /\ venue'[new] = [state |-> "open", side |-> side, amount |-> Lot, filled |-> 0]
      /\ \A u \in Orders \ {new} : venue'[u] = venue[u]
  BY <1>1, <1>2, <1>3 DEF Placed, TypeOK
<1>5. /\ prog'[x].pc = "record" /\ prog'[x].ord = new /\ prog'[x].sig = prog[x].sig
      /\ prog'[x].qty = Lot /\ prog'[x].cancel = {} /\ prog'[x].p = prog[x].p
      /\ prog'[x].stops = prog[x].stops
      /\ \A y \in Programs : y # x => prog'[y] = prog[y]
  <2>1. prog'[x] = [prog[x] EXCEPT !.pc = "record", !.ord = new]
    BY <1>1 DEF TypeOK
  <2> QED
    BY <1>1, <1>3, <2>1 DEF TypeOK, ProgramType
<1>6. side = IF x = "chat" THEN "buy" ELSE "sell"
  BY <1>3 DEF Side
<1>6a. UNCHANGED <<signal, row, pos, trades, booked, coins, rec>>
  BY <1>1
<1> HIDE DEF side
<1>7. /\ \A u \in Orders \ {new} : /\ IsBuy(u)' <=> IsBuy(u)
                                   /\ IsSell(u)' <=> IsSell(u)
                                   /\ Live(u)' <=> Live(u)
      /\ ~IsBuy(new) /\ ~IsSell(new) /\ ~Live(new) /\ Live(new)'
      /\ IsBuy(new)' <=> x = "chat"
      /\ IsSell(new)' <=> x # "chat"
  BY <1>2, <1>4, <1>6 DEF IsBuy, IsSell, Live
<1>8. OrdersAreLots'
  BY <1>2, <1>4, <1>6a DEF OrdersAreLots
<1>9. CoinsAreCounted'
  <2>1. /\ Bought' <=> Bought
        /\ WasSold' <=> WasSold
    BY <1>2, <1>4 DEF Bought, WasSold, IsBuy, IsSell
  <2>2. IsSell(new)' => Bought
    <3>1. ASSUME x = "amend"
          PROVE  Bought
      <4>1. prog["amend"].p \in Positions /\ pos[prog["amend"].p].status # "none"
        BY <1>1, <3>1 DEF OneStop, AmendHolds
      <4>2. PICK o \in Orders : Entry(o) /\ row[o].status = "FILLED"
        BY <4>1 DEF OnePosition
      <4>3. venue[o].state = "filled" /\ venue[o].side = "buy"
        BY <4>2 DEF RowsFollow, RowFollows, Entry, Stop, NoRow
      <4> QED
        BY <4>3 DEF Bought, IsBuy
    <3> QED
      BY <1>3, <1>7, <3>1
  <2> QED
    BY <1>6a, <1>7, <2>1, <2>2 DEF CoinsAreCounted
<1>10. RowsFollow'
  <2>1. ASSUME NEW u \in Orders
        PROVE  RowFollows(u)'
    <3>1. CASE u = new
      BY <1>2, <1>6a, <3>1 DEF RowFollows
    <3>2. CASE u # new
      BY <1>4, <1>6a, <3>2 DEF RowsFollow, RowFollows, Entry, Stop
    <3> QED
      BY <3>1, <3>2
  <2> QED
    BY <2>1 DEF RowsFollow
<1>11. OneEntry'
  <2>1. CASE x = "chat"
    <3>1. \A u \in Orders : ~Standing(u)
      BY <1>1, <2>1 DEF OneEntry, Records
    <3>2. \A u \in Orders \ {new} : ~Standing(u)'
      BY <1>6a, <1>7, <3>1 DEF Standing
    <3>3. Records("chat", new)'
      BY <1>5, <2>1 DEF Records
    <3>4. prog["chat"].sig \in Signals
      BY <1>1, <2>1 DEF OneEntry
    <3> QED
      BY <1>2, <1>5, <1>6a, <1>7, <2>1, <3>2, <3>3, <3>4 DEF OneEntry
  <2>2. CASE x # "chat"
    <3>1. \A u \in Orders : Standing(u)' <=> Standing(u)
      BY <1>6a, <1>7, <2>2 DEF Standing
    <3>2. \A u : Records("chat", u)' <=> Records("chat", u)
      BY <1>5, <2>2 DEF Records
    <3>3. "chat" \in Programs => prog'["chat"] = prog["chat"]
      BY <1>5, <2>2
    <3>4. \A u \in Orders : Entry(u)' <=> Entry(u)
      BY <1>6a DEF Entry
    <3> QED
      BY <1>6a, <1>7, <2>2, <3>1, <3>2, <3>3, <3>4 DEF OneEntry
  <2> QED
    BY <2>1, <2>2
<1>12. OneStop'
  <2>0. /\ ActiveStops' = ActiveStops
        /\ \A u \in Orders : Stop(u)' <=> Stop(u)
        /\ \A r \in Passes, u \in Orders : Adds(r, u)' <=> Adds(r, u)
    BY <1>6a DEF ActiveStops, ActiveSells, Stop, Adds
  <2>1. CASE x = "chat"
    <3>1. "amend" \in Programs => prog'["amend"] = prog["amend"]
      BY <1>5, <2>1
    <3>2. \A u : Records("amend", u)' <=> Records("amend", u)
      BY <3>1 DEF Records
    <3>3. AmendHolds'
      <4>1. ASSUME "amend" \in Programs, prog["amend"].pc # "idle"
            PROVE  AmendHolds'
        <5>1. new \notin prog["amend"].stops /\ prog["amend"].ord = new => prog["amend"].pc # "record"
          BY <1>2, <1>7, <4>1 DEF OneStop, AmendHolds, Stop, NoRow
        <5>2. prog["amend"] \in ProgramType
          BY <4>1 DEF TypeOK
        <5>3. \A u \in prog["amend"].stops :
                 Stop(u) /\ (u \notin prog["amend"].cancel => venue[u].state = "cancelled")
          BY <4>1 DEF OneStop, AmendHolds
        <5>4. \A u \in prog["amend"].stops : u \in Orders /\ venue'[u] = venue[u]
          BY <1>2, <1>4, <5>2, <5>3 DEF Stop, NoRow, ProgramType
        <5> QED
          BY <1>6a, <1>7, <2>0, <2>1, <3>1, <4>1, <5>3, <5>4 DEF OneStop, AmendHolds
      <4> QED
        BY <3>1, <4>1 DEF AmendHolds
    <3> QED
      BY <1>7, <2>0, <2>1, <3>2, <3>3 DEF OneStop
  <2>2. CASE x # "chat"
    <3>1. x = "amend" /\ AmendHolds
      BY <1>3, <2>2 DEF OneStop
    <3>2. \A u \in Orders : ~(IsSell(u) /\ Live(u))
      BY <1>1, <3>1 DEF AmendHolds
    <3>3. \A u \in Orders \ {new} : ~(IsSell(u)' /\ Live(u)')
      BY <1>7, <3>2
    <3>4. Records("amend", new)'
      BY <1>5, <3>1 DEF Records
    <3>5. \A u \in prog["amend"].stops : Stop(u) /\ venue[u].state = "cancelled"
      BY <1>1, <3>1 DEF AmendHolds
    <3>6. \A u \in prog["amend"].stops : u \in Orders /\ venue'[u] = venue[u]
      BY <1>2, <1>3, <1>4, <3>1, <3>5 DEF Stop, NoRow, ProgramType
    <3>7. AmendHolds'
      BY <1>1, <1>2, <1>5, <1>6a, <1>7, <2>0, <3>1, <3>3, <3>5, <3>6 DEF AmendHolds
    <3> QED
      BY <1>7, <2>0, <3>3, <3>4, <3>7 DEF OneStop
  <2> QED
    BY <2>1, <2>2
<1>13. OnePosition'
  BY <1>6a DEF OnePosition, Taken, Makes, Entry, Stop
<1>14. ASSUME NEW r \in Passes
       PROVE  PassHolds(r)'
  <2>1. PassHolds(r)
    OBVIOUS
  <2>2. ASSUME NEW u \in Orders
        PROVE  PassReads(r, u)'
    <3>1. PassReads(r, u)
      BY <2>1 DEF PassHolds
    <3>2. CASE u = new
      <4>1. ~Entry(u) /\ ~Stop(u) /\ ~Adds(r, u)
        BY <1>2, <1>7, <3>1, <3>2 DEF Entry, Stop, NoRow, PassReads
      <4> QED
        BY <1>6a, <3>1, <4>1 DEF PassReads, Reads, Entry, Stop, Adds
    <3>3. CASE u # new
      BY <1>4, <1>6a, <1>7, <3>1, <3>3 DEF PassReads, Reads, Entry, Stop, Makes, Adds
    <3> QED
      BY <3>2, <3>3
  <2>3. \A p \in Positions : PassBooks(r, p)'
    BY <1>6a, <2>1 DEF PassHolds, PassBooks, Reads, Entry, Stop, Makes
  <2> QED
    BY <1>6a, <2>1, <2>2, <2>3 DEF PassHolds, Adds, Reads, Entry
<1> QED
  BY <1>8, <1>9, <1>10, <1>11, <1>12, <1>13, <1>14

\* The chat records its order and triggers the signal.
LEMMA RecordEntryKeepsStops ==
    ASSUME TypeOK, TypeOK', StopsInv, AmendedByHand, RecordEntry
    PROVE  StopsInv'
<1> USE DEF StopsInv
<1> DEFINE a == prog["chat"]
<1>1. /\ "chat" \in Programs /\ a.pc = "record" /\ a \in ProgramType
      /\ a.ord \in Orders /\ a.sig \in Signals /\ IsBuy(a.ord) /\ row[a.ord] = NoRow
  BY DEF RecordEntry, OneEntry, TypeOK
<1>2. PICK u \in Orders : u = a.ord
  BY <1>1
<1>3. /\ row' = [row EXCEPT ![u] = NewRow("chat", "entry", "SUBMITTED")]
      /\ signal' = [signal EXCEPT ![a.sig] = "TRIGGERED"]
      /\ prog' = [prog EXCEPT !["chat"] = IdleProgram]
      /\ UNCHANGED <<pos, trades, booked, venue, coins, rec>>
  BY <1>2 DEF RecordEntry, Recorded, Ends, outside
<1>4. /\ row'[u].kind = "entry" /\ row'[u].status = "SUBMITTED" /\ row'[u].sig \in Signals
      /\ \A o \in Orders \ {u} : row'[o] = row[o]
  BY <1>1, <1>3 DEF NewRow, TypeOK
<1>5. /\ row[u] = NoRow /\ row[u].kind = "none" /\ row[u].status = "none" /\ IsBuy(u)
  BY <1>1, <1>2 DEF NoRow
<1>6. /\ prog'["chat"].pc = "idle"
      /\ "amend" \in Programs => prog'["amend"] = prog["amend"]
  BY <1>1, <1>3 DEF IdleProgram, TypeOK
<1>7. \A s \in Signals : signal'[s] # "PENDING"
  BY <1>1, <1>3 DEF AmendedByHand, TypeOK
<1>8. UNCHANGED <<pos, trades, booked, venue, coins, rec>>
  BY <1>3
<1> HIDE DEF a
<1>9. \A o \in Orders : /\ IsBuy(o)' <=> IsBuy(o)
                        /\ IsSell(o)' <=> IsSell(o)
                        /\ Live(o)' <=> Live(o)
                        /\ Standing(o)' <=> Standing(o)
                        /\ Stop(o)' <=> Stop(o)
                        /\ Entry(o)' <=> Entry(o) \/ o = u
  BY <1>4, <1>5, <1>8 DEF IsBuy, IsSell, Live, Standing, Stop, Entry
<1>10. OrdersAreLots' /\ CoinsAreCounted'
  BY <1>4, <1>5, <1>8 DEF OrdersAreLots, CoinsAreCounted, Bought, WasSold, IsBuy, IsSell
<1>11. RowsFollow'
  BY <1>4, <1>5, <1>8 DEF RowsFollow, RowFollows, Entry, Stop, IsBuy
<1>12. OneEntry'
  <2>1. Standing(u)
    BY <1>5 DEF Standing
  <2>2. \A o \in Orders : Standing(o) => o = u
    BY <2>1 DEF OneEntry
  <2> QED
    BY <1>6, <1>7, <1>9, <2>2 DEF OneEntry
<1>13. OneStop'
  <2>1. ActiveStops' = ActiveStops
    BY <1>4, <1>5 DEF ActiveStops, ActiveSells
  <2>2. \A o : Records("amend", o)' <=> Records("amend", o)
    BY <1>6 DEF Records
  <2>3. AmendHolds'
    <3>1. ASSUME "amend" \in Programs, prog["amend"].pc # "idle"
          PROVE  AmendHolds'
      <4>1. prog["amend"].stops \subseteq Orders
        BY <3>1 DEF TypeOK, ProgramType
      <4>2. prog["amend"].pc = "record" => prog["amend"].ord # u
        BY <1>5, <3>1 DEF OneStop, AmendHolds, IsBuy, IsSell
      <4> QED
        BY <1>4, <1>6, <1>8, <1>9, <2>1, <3>1, <4>1, <4>2 DEF OneStop, AmendHolds
    <3> QED
      BY <1>6, <3>1 DEF AmendHolds
  <2> QED
    BY <1>8, <1>9, <2>1, <2>2, <2>3 DEF OneStop, Adds
<1>14. OnePosition'
  BY <1>4, <1>5, <1>8 DEF OnePosition, Taken, Makes, Entry, Stop
<1>15. ASSUME NEW r \in Passes
       PROVE  PassHolds(r)'
  <2>1. PassHolds(r)
    OBVIOUS
  <2>2. ASSUME NEW o \in Orders
        PROVE  PassReads(r, o)'
    <3>1. PassReads(r, o)
      BY <2>1 DEF PassHolds
    <3>2. CASE o = u
      <4>1. ~Entry(o) /\ ~Stop(o) /\ ~Adds(r, o)
        BY <1>5, <3>1, <3>2 DEF Entry, Stop, PassReads, IsBuy, IsSell
      <4> QED
        BY <1>8, <3>1, <4>1 DEF PassReads, Reads, Adds
    <3>3. CASE o # u
      BY <1>4, <1>8, <1>9, <3>1, <3>3 DEF PassReads, Reads, Makes, Adds
    <3> QED
      BY <3>2, <3>3
  <2>3. \A p \in Positions : PassBooks(r, p)'
    BY <1>8, <1>9, <2>1 DEF PassHolds, PassBooks, Reads, Makes
  <2> QED
    BY <1>8, <1>9, <2>1, <2>2, <2>3 DEF PassHolds, Adds, Reads
<1> QED
  BY <1>10, <1>11, <1>12, <1>13, <1>14, <1>15

\* The amendment records its stop over those it has cancelled.
LEMMA RecordExitKeepsStops ==
    ASSUME TypeOK, TypeOK', StopsInv, AmendedByHand, RecordExit("amend", "stop")
    PROVE  StopsInv'
<1> USE DEF StopsInv
<1> DEFINE a == prog["amend"]
<1>1. /\ "amend" \in Programs /\ a.pc = "record" /\ a \in ProgramType
      /\ a.p \in Positions /\ pos[a.p].status # "none" /\ ActiveStops \subseteq a.stops
      /\ \A o \in a.stops : Stop(o) /\ venue[o].state = "cancelled"
      /\ a.ord \in Orders /\ IsSell(a.ord) /\ row[a.ord] = NoRow /\ a.sig = NoSignal
      /\ \A o \in Orders : IsSell(o) /\ Live(o) => o = a.ord
  BY DEF RecordExit, OneStop, AmendHolds, TypeOK
<1>2. PICK u \in Orders, S \in SUBSET Orders, p \in Positions : u = a.ord /\ S = a.stops /\ p = a.p
  BY <1>1 DEF ProgramType
<1>3. pos[p].status = "OPEN"
  <2>1. \A o \in Orders : Stop(o) => row[o].status # "FILLED"
    <3>1. ASSUME NEW o \in Orders, Stop(o), row[o].status = "FILLED"
          PROVE  FALSE
      <4>1. IsSell(o) /\ Live(o)
        BY <3>1 DEF RowsFollow, RowFollows, Stop, Entry, NoRow, IsSell, Live
      <4> QED
        BY <1>1, <3>1, <4>1 DEF Stop, NoRow
    <3> QED
      BY <3>1
  <2> QED
    BY <1>1, <1>2, <2>1 DEF OnePosition, TypeOK, PositionType
<1>4. /\ row' = [StopsCancelled("amend") EXCEPT ![u] = NewRow("amend", "stop", "SUBMITTED")]
      /\ prog' = [prog EXCEPT !["amend"] = IdleProgram]
      /\ UNCHANGED <<signal, pos, trades, booked, venue, coins, rec>>
  BY <1>2, <1>3 DEF RecordExit, OpenPositions, Ends, outside
<1>5. /\ row'[u].kind = "stop" /\ row'[u].status = "SUBMITTED" /\ row'[u].sig = NoSignal
      /\ row'[u].p = p
  BY <1>1, <1>2, <1>4 DEF NewRow, StopsCancelled
<1>6. \A o \in Orders \ {u} :
         row'[o] = IF o \in S THEN [row[o] EXCEPT !.status = "CANCELLED"] ELSE row[o]
  BY <1>2, <1>4 DEF StopsCancelled
<1>7. \A o \in S : /\ Stop(o) /\ venue[o].state = "cancelled" /\ o # u
                   /\ row'[o].kind = "stop" /\ row'[o].status = "CANCELLED"
                   /\ row'[o].p = row[o].p /\ row'[o].sig = row[o].sig
                   /\ row[o].status # "FILLED"
  <2>1. \A o \in S : Stop(o) /\ venue[o].state = "cancelled" /\ o # u
    BY <1>1, <1>2 DEF Stop, NoRow
  <2>2. \A o \in S : row[o] \in RowType /\ row'[o] = [row[o] EXCEPT !.status = "CANCELLED"]
    BY <1>6, <2>1 DEF TypeOK
  <2>3. \A o \in S : row[o].status # "FILLED"
    BY <2>1 DEF RowsFollow, RowFollows, Stop, NoRow
  <2> QED
    BY <2>1, <2>2, <2>3 DEF RowType, Stop
<1>8. \A o \in Orders \ ({u} \cup S) : row'[o] = row[o]
  BY <1>6
<1>9. /\ prog'["amend"].pc = "idle"
      /\ "chat" \in Programs => prog'["chat"] = prog["chat"]
  BY <1>1, <1>4 DEF IdleProgram, TypeOK
<1>10. /\ row[u] = NoRow /\ row[u].kind = "none" /\ row[u].status = "none" /\ IsSell(u)
       /\ \A o \in Orders : IsSell(o) /\ Live(o) => o = u
       /\ ActiveStops \subseteq S
  BY <1>1, <1>2 DEF NoRow
<1>11. UNCHANGED <<signal, pos, trades, booked, venue, coins, rec>>
  BY <1>4
<1> HIDE DEF a
<1>12. \A o \in Orders : /\ IsBuy(o)' <=> IsBuy(o)
                         /\ IsSell(o)' <=> IsSell(o)
                         /\ Live(o)' <=> Live(o)
                         /\ Stop(o)' <=> Stop(o) \/ o = u
                         /\ Entry(o)' <=> Entry(o)
                         /\ row'[o].status = "FILLED" <=> row[o].status = "FILLED"
                         /\ Entry(o) => row'[o] = row[o]
  BY <1>5, <1>7, <1>8, <1>10, <1>11 DEF IsBuy, IsSell, Live, Stop, Entry
<1>13. OrdersAreLots' /\ CoinsAreCounted'
  <2>1. OrdersAreLots'
    BY <1>7, <1>8, <1>10, <1>11 DEF OrdersAreLots, IsSell
  <2> QED
    BY <1>11, <2>1 DEF CoinsAreCounted, Bought, WasSold, IsBuy, IsSell
<1>14. RowsFollow'
  <2>1. ASSUME NEW o \in Orders
        PROVE  RowFollows(o)'
    <3>1. RowFollows(o)
      BY DEF RowsFollow
    <3>2. CASE o = u
      BY <1>3, <1>5, <1>10, <1>11, <3>2 DEF RowFollows, Entry, Stop, IsSell
    <3>3. CASE o \in S
      BY <1>7, <1>11, <3>1, <3>3 DEF RowFollows, Entry, Stop, NoRow
    <3>4. CASE o \notin S /\ o # u
      BY <1>8, <1>11, <3>1, <3>4 DEF RowFollows, Entry, Stop
    <3> QED
      BY <3>2, <3>3, <3>4
  <2> QED
    BY <2>1 DEF RowsFollow
<1>15. OneEntry'
  <2>1. \A o \in Orders : IsBuy(o) => o # u /\ o \notin S
    BY <1>7, <1>10 DEF IsBuy, IsSell, RowsFollow, RowFollows, Stop, Entry, NoRow
  <2>2. \A o \in Orders : /\ Standing(o)' <=> Standing(o)
                          /\ IsBuy(o) => row'[o] = row[o]
    BY <1>8, <1>12, <2>1 DEF Standing
  <2>3. \A o : Records("chat", o)' <=> Records("chat", o)
    BY <1>9 DEF Records
  <2>4. \A o \in Orders : Standing(o) => row'[o] = row[o]
    BY <2>2 DEF Standing
  <2> QED
    BY <1>9, <1>11, <1>12, <2>2, <2>3, <2>4 DEF OneEntry
<1>16. OneStop'
  <2>1. \A o \in ActiveStops' : o = u
    <3>1. ASSUME NEW o \in Orders, o # u, row'[o].kind = "stop", row'[o].status \in Active
          PROVE  FALSE
      <4>1. o \notin S
        BY <1>7, <3>1 DEF Active
      <4>2. o \in ActiveStops
        BY <1>8, <3>1, <4>1 DEF ActiveStops, ActiveSells
      <4> QED
        BY <1>10, <4>1, <4>2
    <3> QED
      BY <3>1 DEF ActiveStops, ActiveSells
  <2>2. AmendHolds'
    BY <1>9 DEF AmendHolds
  <2> QED
    BY <1>10, <1>12, <2>1, <2>2 DEF OneStop
<1>17. OnePosition'
  BY <1>5, <1>11, <1>12 DEF OnePosition, Taken, Makes
<1>18. ASSUME NEW r \in Passes
       PROVE  PassHolds(r)'
  <2>1. PassHolds(r)
    OBVIOUS
  <2>2. ASSUME NEW o \in Orders
        PROVE  PassReads(r, o)'
    <3>1. PassReads(r, o)
      BY <2>1 DEF PassHolds
    <3>2. ~Adds(r, o)
      BY <1>3, <3>1, MadeAlone DEF PassReads
    <3> QED
      BY <1>10, <1>11, <1>12, <3>1, <3>2 DEF PassReads, Reads, Makes, Adds, Stop, Entry
  <2>3. \A q \in Positions : PassBooks(r, q)'
    <3>1. SUFFICES ASSUME NEW q \in Positions
                   PROVE  PassBooks(r, q)'
      OBVIOUS
    <3>2. PassBooks(r, q) /\ ~Makes(r, q)
      BY <1>3, <2>1, MadeAlone DEF PassHolds
    <3> QED
      BY <1>11, <1>12, <3>2 DEF PassBooks, Reads, Makes
  <2> QED
    BY <1>11, <1>12, <2>1, <2>2, <2>3 DEF PassHolds, Adds, Reads
<1> QED
  BY <1>13, <1>14, <1>15, <1>16, <1>17, <1>18

\* A step of the pass that makes no position and submits nothing.
LEMMA OnlyPassMoves ==
    ASSUME TypeOK, StopsInv, AmendedByHand, NEW r \in Passes, NEW m,
           rec' = [rec EXCEPT ![r] = m], m.add = rec[r].add, m.made = rec[r].made,
           UNCHANGED <<tables, venue, coins, prog>>
    PROVE  /\ OrdersAreLots' /\ CoinsAreCounted' /\ RowsFollow' /\ OneEntry' /\ OneStop'
           /\ OnePosition'
<1> USE DEF StopsInv
<1>1. UNCHANGED <<signal, row, pos, trades, booked, venue, coins, prog>>
  BY DEF tables
<1>2. \A q \in Passes : rec'[q].add = rec[q].add /\ rec'[q].made = rec[q].made
  BY DEF TypeOK
<1>3. OrdersAreLots' /\ CoinsAreCounted' /\ RowsFollow'
  BY <1>1 DEF OrdersAreLots, CoinsAreCounted, RowsFollow, RowFollows, Bought, WasSold, IsBuy,
              IsSell, Entry, Stop
<1>4. OneEntry'
  BY <1>1 DEF OneEntry, Standing, IsBuy, Records, Entry
<1>5. OneStop'
  BY <1>1, <1>2 DEF OneStop, AmendHolds, ActiveStops, ActiveSells, Stop, IsSell, Live, Adds, Records
<1>6. OnePosition'
  BY <1>1, <1>2 DEF OnePosition, Taken, Makes, Entry, Stop
<1> QED
  BY <1>3, <1>4, <1>5, <1>6

\* A pass loads what the tables say is working.
LEMMA RecStartKeepsStops ==
    ASSUME TypeOK, TypeOK', StopsInv, AmendedByHand, NEW r \in Passes, RecStart(r)
    PROVE  StopsInv'
<1> USE DEF StopsInv
<1> DEFINE m == [IdlePass EXCEPT !.pc = "loop", !.todo = Reconciled,
                                 !.prev = [o \in Orders |-> row[o].filled]]
<1>1. /\ rec[r] = IdlePass /\ rec' = [rec EXCEPT ![r] = m]
      /\ UNCHANGED <<signal, row, pos, trades, booked, venue, coins, prog>>
      /\ UNCHANGED <<tables, venue, coins, prog>>
  BY DEF RecStart, aside, tables, PassHolds
<1>2. /\ m.pc = "loop" /\ m.todo = Reconciled /\ m.status = IdlePass.status
      /\ m.add = IdlePass.add /\ m.made = IdlePass.made /\ m.held = IdlePass.held
      /\ m.final = IdlePass.final /\ m.dirty = IdlePass.dirty /\ m.rearm = IdlePass.rearm
  BY DEF IdlePass
<1>3. rec'[r] = m /\ \A q \in Passes : q = r
  BY <1>1 DEF TypeOK, AmendedByHand
<1> HIDE DEF m
<1>4. OrdersAreLots' /\ CoinsAreCounted' /\ RowsFollow' /\ OneEntry' /\ OneStop' /\ OnePosition'
  BY <1>1, <1>2, OnlyPassMoves
<1>5. /\ \A o \in Orders : /\ rec'[r].status[o] = "keep" /\ rec'[r].add[o] = NoRow
                           /\ o \in rec'[r].todo => o \in Reconciled
      /\ \A p \in Positions : rec'[r].made[p] = NoSignal /\ rec'[r].final[p] = 0
      /\ rec'[r].held = {} /\ rec'[r].dirty = {} /\ rec'[r].rearm = {}
      /\ rec'[r].pc = "loop"
  BY <1>2, <1>3 DEF IdlePass
<1>6. \A o \in Reconciled : (Entry(o) /\ row[o].status = "SUBMITTED") \/ Stop(o)
  BY DEF Reconciled, Active, RowsFollow, RowFollows, NoRow
<1>7. \A o \in Orders : PassReads(r, o)'
  BY <1>1, <1>5, <1>6 DEF PassReads, Reads, Entry, Stop, Adds
<1>8. \A p \in Positions : PassBooks(r, p)'
  BY <1>5 DEF PassBooks, Makes
<1>9. PassHolds(r)'
  BY <1>5, <1>7, <1>8 DEF PassHolds, Adds
<1> QED
  BY <1>3, <1>4, <1>9

\* What a pass knows of an order it comes to.
LEMMA ReadyOrder ==
    ASSUME TypeOK, StopsInv, NEW r \in Passes, NEW o \in Orders, Ready(r, o)
    PROVE  /\ Reads(r, o, "keep") /\ rec[r].pc # "idle"
           /\ \/ Entry(o) /\ ~Stop(o) /\ row[o].status = "SUBMITTED" /\ IsBuy(o) /\ Standing(o)
              \/ Stop(o) /\ ~Entry(o) /\ IsSell(o) /\ row[o].sig = NoSignal
           /\ Fills(o) => venue[o].state = "filled" /\ venue[o].filled = Lot
           /\ venue[o].state \in {"open", "filled", "cancelled"}
<1> USE DEF StopsInv
<1>1. PassReads(r, o) /\ o \in rec[r].todo /\ rec[r].pc = "loop" /\ RowFollows(o)
  BY DEF PassHolds, Ready, RowsFollow
<1>2. venue[o].state \in {"open", "filled", "cancelled"} /\ row[o] # NoRow
  BY <1>1 DEF PassReads, Entry, Stop, NoRow, OrdersAreLots, TypeOK, VenueType
<1>3. Fills(o) => venue[o].state = "filled" /\ venue[o].filled = Lot
  BY <1>2 DEF Fills, OrdersAreLots
<1> QED
  BY <1>1, <1>2, <1>3 DEF PassReads, RowFollows, Entry, Stop, IsBuy, IsSell, Standing, Reads

\* What is done to the session for order o: its new status is what the venue
\* said, and no position is claimed.
NotesStatus(r, o, m, status) ==
    /\ rec' = [rec EXCEPT ![r] = m]
    /\ m.pc = "loop" /\ m.todo = rec[r].todo \ {o}
    /\ m.status[o] = status /\ \A u \in Orders \ {o} : m.status[u] = rec[r].status[u]
    /\ m.add = rec[r].add /\ m.made = rec[r].made /\ m.dirty = {}

LEMMA NotedKeepsStops ==
    ASSUME TypeOK, TypeOK', StopsInv, AmendedByHand, NEW r \in Passes, NEW o \in Orders,
           Ready(r, o), NEW m, NEW status \in {"keep", "FILLED", "CANCELLED"},
           NotesStatus(r, o, m, status), UNCHANGED <<tables, venue, coins, prog>>,
           status = "CANCELLED" => venue[o].state = "cancelled",
           status = "FILLED" => Stop(o) /\ venue[o].state = "filled",
           \A s \in m.rearm : s \in rec[r].rearm \/ (Entry(o) /\ status = "CANCELLED"),
           \/ /\ m.final = rec[r].final /\ m.held = rec[r].held /\ m.qty = rec[r].qty
              /\ status = "FILLED" => \A p \in Positions : pos[p].status # "OPEN"
           \/ /\ status = "FILLED"
              /\ \E p \in Positions :
                    /\ pos[p].status = "OPEN" /\ m.final[p] = 1 /\ m.qty[p] = Lot
                    /\ \A q \in Positions \ {p} : /\ m.final[q] = rec[r].final[q]
                                                  /\ m.qty[q] = rec[r].qty[q]
                    /\ m.held = rec[r].held \cup {p}
    PROVE  StopsInv'
<1> USE DEF StopsInv
<1>1. /\ UNCHANGED <<signal, row, pos, trades, booked, venue, coins, prog>>
      /\ rec'[r] = m /\ \A q \in Passes : q = r
      /\ PassHolds(r)
  BY DEF NotesStatus, AmendedByHand, TypeOK, tables
<1>2. OrdersAreLots' /\ CoinsAreCounted' /\ RowsFollow' /\ OneEntry' /\ OneStop' /\ OnePosition'
  BY OnlyPassMoves DEF NotesStatus
<1>3. /\ Reads(r, o, "keep")
      /\ Entry(o) \/ Stop(o)
      /\ Entry(o) => row[o].status = "SUBMITTED" /\ ~Stop(o)
  BY ReadyOrder
<1>4. \A u \in Orders : /\ Entry(u)' <=> Entry(u)
                        /\ Stop(u)' <=> Stop(u)
                        /\ IsSell(u)' <=> IsSell(u)
                        /\ Adds(r, u)' <=> Adds(r, u)
                        /\ u # o => rec'[r].status[u] = rec[r].status[u]
                        /\ Reads(r, u, "FILLED") => Reads(r, u, "FILLED")'
                        /\ Reads(r, u, "CANCELLED") => Reads(r, u, "CANCELLED")'
  BY <1>1, <1>3 DEF Entry, Stop, IsSell, Adds, Reads, NotesStatus
<1>5. \A p \in Positions : Makes(r, p)' <=> Makes(r, p)
  BY <1>1 DEF Makes, NotesStatus
<1>6. \A p \in Positions : pos[p].status = "OPEN" /\ rec[r].final[p] > 0 => rec'[r].final[p] > 0
  BY <1>1
<1>7. status = "FILLED" => \A p \in Positions : pos[p].status = "OPEN" => rec'[r].final[p] > 0
  <2>1. CASE \A p \in Positions : pos[p].status # "OPEN"
    BY <2>1
  <2>2. ASSUME NEW p \in Positions, pos[p].status = "OPEN", m.final[p] = 1
        PROVE  \A q \in Positions : pos[q].status = "OPEN" => m.final[q] > 0
    <3>1. \A q \in Positions : pos[q].status = "OPEN" => q = p
      BY <2>2 DEF OnePosition, Taken
    <3> QED
      BY <2>2, <3>1
  <2> QED
    BY <1>1, <2>1, <2>2
<1>8. ASSUME NEW u \in Orders
      PROVE  PassReads(r, u)'
  <2>1. PassReads(r, u)
    BY <1>1 DEF PassHolds
  <2>2. rec'[r].todo = rec[r].todo \ {o} /\ rec'[r].add = rec[r].add
    BY <1>1 DEF NotesStatus
  <2>3. CASE u = o
    <3>1. rec'[r].status[u] = status
      BY <1>1, <2>3 DEF NotesStatus
    <3> QED
      BY <1>1, <1>3, <1>4, <1>5, <1>7, <2>1, <2>2, <2>3, <3>1 DEF PassReads, Reads
  <2>4. CASE u # o
    BY <1>1, <1>4, <1>5, <1>6, <2>1, <2>2, <2>4 DEF PassReads, Reads
  <2> QED
    BY <2>3, <2>4
<1>9. ASSUME NEW p \in Positions
      PROVE  PassBooks(r, p)'
  <2>1. PassBooks(r, p)
    BY <1>1 DEF PassHolds
  <2>2. rec'[r].add = rec[r].add
    BY <1>1 DEF NotesStatus
  <2>3. CASE m.final = rec[r].final /\ m.held = rec[r].held /\ m.qty = rec[r].qty
    BY <1>1, <1>4, <1>5, <2>1, <2>2, <2>3 DEF PassBooks
  <2>4. ASSUME status = "FILLED", NEW q \in Positions, pos[q].status = "OPEN", m.final[q] = 1,
               m.qty[q] = Lot, m.held = rec[r].held \cup {q},
               \A y \in Positions \ {q} : m.final[y] = rec[r].final[y] /\ m.qty[y] = rec[r].qty[y]
        PROVE  PassBooks(r, p)'
    <3>1. ~Makes(r, p)
      BY <2>4, MadeAlone
    <3>2. Stop(o)' /\ Reads(r, o, "FILLED")'
      BY <1>1, <1>4, <2>4 DEF Reads, NotesStatus
    <3>3. CASE p = q
      BY <1>1, <1>5, <2>4, <3>1, <3>2, <3>3 DEF PassBooks
    <3>4. CASE p # q
      BY <1>1, <1>4, <1>5, <2>1, <2>4, <3>1, <3>4 DEF PassBooks
    <3> QED
      BY <3>3, <3>4
  <2> QED
    BY <2>3, <2>4
<1>10. PassHolds(r)'
  <2>1. rec'[r].pc = "loop" /\ rec'[r].dirty = {}
    BY <1>1 DEF NotesStatus
  <2>2. \A u, w \in Orders : Adds(r, u)' /\ Adds(r, w)' => u = w
    BY <1>1, <1>4 DEF PassHolds
  <2>3. ASSUME NEW s \in rec'[r].rearm
        PROVE  \E u \in Orders : Entry(u)' /\ Reads(r, u, "CANCELLED")'
    <3>1. CASE s \in rec[r].rearm
      BY <1>1, <1>4, <3>1 DEF PassHolds
    <3>2. CASE Entry(o) /\ status = "CANCELLED"
      <4>1. Reads(r, o, "CANCELLED")'
        BY <1>1, <3>2 DEF Reads, NotesStatus
      <4> QED
        BY <1>4, <3>2, <4>1
    <3> QED
      BY <1>1, <3>1, <3>2
  <2> QED
    BY <1>8, <1>9, <2>1, <2>2, <2>3 DEF PassHolds
<1> QED
  BY <1>1, <1>2, <1>10

\* The ways a pass can deal with an order that make no position.
LEMMA OrdersKeepStops ==
    ASSUME TypeOK, TypeOK', StopsInv, AmendedByHand, NEW r \in Passes, NEW o \in Orders,
           RecNothing(r, o) \/ RecCancelled(r, o) \/ RecGone(r, o) \/ RecSell(r, o)
    PROVE  StopsInv'
<1> USE DEF StopsInv
<1>1. Ready(r, o) /\ UNCHANGED <<tables, venue, coins, prog>>
  BY DEF RecNothing, RecCancelled, RecGone, RecSell, aside
<1>2. rec[r] \in PassType /\ Done(r, o) \in PassType /\ rec[r].dirty = {} /\ rec[r].pc = "loop"
  BY <1>1, DoneType DEF TypeOK, PassHolds, Ready
<1>3. rec[r].status \in [Orders -> {"keep", "PARTIAL", "FILLED", "CANCELLED"}]
  BY <1>2 DEF PassType
<1>4. CASE RecNothing(r, o)
  <2> DEFINE m == Done(r, o)
  <2>1. rec' = [rec EXCEPT ![r] = m]
    BY <1>4 DEF RecNothing
  <2>2. /\ m.pc = "loop" /\ m.todo = rec[r].todo \ {o} /\ m.status = rec[r].status
        /\ m.add = rec[r].add /\ m.made = rec[r].made /\ m.dirty = {}
        /\ m.final = rec[r].final /\ m.held = rec[r].held /\ m.qty = rec[r].qty
        /\ m.rearm = rec[r].rearm
    BY <1>2 DEF Done, PassType
  <2>3. m.status[o] = "keep"
    BY <1>1, <2>2, ReadyOrder DEF Reads
  <2> HIDE DEF m
  <2>4. NotesStatus(r, o, m, "keep")
    BY <2>1, <2>2, <2>3 DEF NotesStatus
  <2> QED
    BY <1>1, <2>2, <2>4, NotedKeepsStops
<1>5. CASE RecCancelled(r, o)
  <2> DEFINE armed == IF row[o].sig # NoSignal /\ signal[row[o].sig] = "TRIGGERED"
                      THEN rec[r].rearm \cup {row[o].sig} ELSE rec[r].rearm
             m == [Done(r, o) EXCEPT !.status = [@ EXCEPT ![o] = "CANCELLED"],
                      !.rearm = IF /\ row[o].sig # NoSignal
                                   /\ signal[row[o].sig] = "TRIGGERED"
                                THEN @ \cup {row[o].sig} ELSE @]
  <2>1. rec' = [rec EXCEPT ![r] = m] /\ venue[o].state = "cancelled"
    BY <1>5 DEF RecCancelled
  <2>2. /\ m.pc = "loop" /\ m.todo = rec[r].todo \ {o}
        /\ m.status = [rec[r].status EXCEPT ![o] = "CANCELLED"]
        /\ m.add = rec[r].add /\ m.made = rec[r].made /\ m.dirty = {}
        /\ m.final = rec[r].final /\ m.held = rec[r].held /\ m.qty = rec[r].qty
        /\ m.rearm = armed
    BY <1>2 DEF Done, PassType
  <2>3. \A s \in m.rearm : s \in rec[r].rearm \/ Entry(o)
    BY <1>1, <2>2, ReadyOrder
  <2> HIDE DEF m, armed
  <2>4. NotesStatus(r, o, m, "CANCELLED")
    BY <1>3, <2>1, <2>2 DEF NotesStatus
  <2> QED
    BY <1>1, <2>1, <2>2, <2>3, <2>4, NotedKeepsStops
<1> DEFINE f == Filled(r, o)
<1>6. Fills(o) => /\ f.pc = "loop" /\ f.todo = rec[r].todo \ {o}
                  /\ f.status = [rec[r].status EXCEPT ![o] = "FILLED"]
                  /\ f.add = rec[r].add /\ f.made = rec[r].made /\ f.dirty = {}
                  /\ f.final = rec[r].final /\ f.held = rec[r].held /\ f.qty = rec[r].qty
                  /\ f.rearm = rec[r].rearm /\ f.book = rec[r].book /\ f \in PassType
  <2>1. Fills(o) => venue[o].state = "filled"
    BY <1>1, ReadyOrder
  <2>2. f \in PassType
    BY FilledType
  <2> QED
    BY <1>2, <2>1, <2>2 DEF Filled, Done, PassType
<1>7. CASE RecGone(r, o)
  <2>1. rec' = [rec EXCEPT ![r] = f] /\ Fills(o)
    BY <1>7 DEF RecGone
  <2>2. Stop(o) /\ OpenPositions = {} /\ venue[o].state = "filled"
    BY <1>1, <1>7, ReadyOrder DEF RecGone, Entry, Stop, OpenSeen
  <2> HIDE DEF f
  <2>3. NotesStatus(r, o, f, "FILLED")
    BY <1>3, <1>6, <2>1 DEF NotesStatus
  <2> QED
    BY <1>1, <1>6, <2>1, <2>2, <2>3, NotedKeepsStops DEF OpenPositions
<1>8. CASE RecSell(r, o)
  <2>1. PICK p \in OpenSeen(r) : rec' = [rec EXCEPT ![r] = Sold(r, o, p)]
    BY <1>8 DEF RecSell
  <2>2. /\ Fills(o) /\ Stop(o) /\ IsSell(o) /\ venue[o].state = "filled" /\ venue[o].filled = Lot
        /\ Reads(r, o, "keep")
    BY <1>1, <1>8, ReadyOrder DEF RecSell, Entry, Stop
  <2>3. p \in Positions /\ pos[p].status = "OPEN" /\ pos[p].qty = Lot
    <3>1. row[o].p \in Positions /\ pos[row[o].p].status # "none"
      BY <2>2 DEF RowsFollow, RowFollows, Stop, Entry, NoRow
    <3>2. \A q \in Positions : ~Makes(r, q)
      BY <3>1, MadeAlone
    <3> QED
      BY <2>1, <3>2 DEF OpenSeen, OpenPositions, Made, Makes, OnePosition
  <2>4. SeenQty(rec[r], p) = Lot
    BY <2>3 DEF SeenQty, PassHolds, PassBooks
  <2>5. Closed(r, o, p) = Lot
    BY <2>2, <2>4, LotAssumption DEF Closed, Least
  <2>6. rec[r].final[p] = 0
    <3>1. ASSUME rec[r].final[p] > 0
          PROVE  FALSE
      <4>1. PICK u \in Orders : Stop(u) /\ Reads(r, u, "FILLED")
        BY <2>3, <3>1 DEF PassHolds, PassBooks
      <4>2. PassReads(r, u)
        BY DEF PassHolds
      <4>3. venue[u].state = "filled"
        BY <4>1, <4>2 DEF PassReads, Reads
      <4>4. IsSell(u)
        BY <4>1 DEF RowsFollow, RowFollows, Stop, Entry, NoRow, IsSell, OrdersAreLots
      <4>5. u = o
        BY <2>2, <4>3, <4>4 DEF OneStop, Live
      <4> QED
        BY <2>2, <4>1, <4>5 DEF Reads
    <3>2. rec[r].final[p] \in Nat
      BY <1>2, <2>3 DEF PassType
    <3> QED
      BY <3>1, <3>2
  <2> DEFINE l == [f EXCEPT !.book = [@ EXCEPT ![p] = rec[r].book[p] + Closed(r, o, p)]]
             m == Sold(r, o, p)
  <2>7. /\ l.pc = "loop" /\ l.todo = f.todo /\ l.status = f.status /\ l.add = f.add
        /\ l.made = f.made /\ l.dirty = {} /\ l.final = f.final /\ l.held = f.held
        /\ l.qty = f.qty /\ l.rearm = f.rearm /\ l.prev = f.prev /\ l.filled = f.filled
    <3> HIDE DEF f
    <3> QED
      BY <1>6, <2>2 DEF PassType
  <2>8. SeenQty(l, p) = Lot
    BY <1>6, <2>2, <2>4, <2>7 DEF SeenQty
  <2>9. l \in PassType
    <3>1. Closed(r, o, p) \in Nat /\ rec[r].book[p] \in Nat
      BY <1>2, <2>3, <2>5, LotAssumption DEF PassType
    <3>2. f \in PassType
      BY <1>6, <2>2
    <3> HIDE DEF f
    <3> DEFINE n == rec[r].book[p] + Closed(r, o, p)
               b == [f.book EXCEPT ![p] = n]
    <3>3. f.book \in [Positions -> Nat]
      BY <3>2 DEF PassType
    <3>a. n \in Nat
      BY <3>1
    <3> HIDE DEF n
    <3>4. b \in [Positions -> Nat]
      BY <3>3, <3>a
    <3>5. l = [f EXCEPT !.book = b]
      BY DEF n
    <3> HIDE DEF b, l
    <3> QED
      BY <3>2, <3>4, <3>5 DEF PassType
  <2>10. m = [l EXCEPT !.final = [@ EXCEPT ![p] = l.final[p] + 1], !.held = @ \cup {p},
                       !.qty = [@ EXCEPT ![p] = SeenQty(l, p)]]
    BY <2>5, <2>8 DEF Sold
  <2> HIDE DEF l, m
  <2>11. /\ m.pc = "loop" /\ m.todo = l.todo /\ m.status = l.status /\ m.add = l.add
         /\ m.made = l.made /\ m.dirty = l.dirty /\ m.rearm = l.rearm
         /\ m.final = [l.final EXCEPT ![p] = l.final[p] + 1]
         /\ m.held = l.held \cup {p} /\ m.qty = [l.qty EXCEPT ![p] = SeenQty(l, p)]
    BY <2>7, <2>9, <2>10 DEF PassType
  <2>12. l.final \in [Positions -> Nat] /\ l.qty \in [Positions -> Nat]
    BY <2>9 DEF PassType
  <2> HIDE DEF f
  <2>13. /\ m.final[p] = 1 /\ m.qty[p] = Lot /\ m.held = rec[r].held \cup {p}
         /\ \A q \in Positions \ {p} : m.final[q] = rec[r].final[q] /\ m.qty[q] = rec[r].qty[q]
         /\ m.rearm = rec[r].rearm
    BY <1>6, <2>2, <2>3, <2>6, <2>7, <2>8, <2>11, <2>12
  <2>14. NotesStatus(r, o, m, "FILLED")
    BY <1>3, <1>6, <2>1, <2>2, <2>7, <2>11 DEF NotesStatus, m
  <2> QED
    BY <1>1, <2>2, <2>3, <2>13, <2>14, NotedKeepsStops
<1> QED
  BY <1>4, <1>5, <1>7, <1>8

\* An entry whose fill a pass comes to is the only one, so nothing is held yet.
LEMMA EntryAlone ==
    ASSUME TypeOK, StopsInv, NEW r \in Passes, NEW o \in Orders, Ready(r, o), Entry(o),
           NEW p \in Positions
    PROVE  pos[p].status = "none" /\ ~Makes(r, p)
<1> USE DEF StopsInv
<1>1. row[o].status = "SUBMITTED" /\ Standing(o) /\ Reads(r, o, "keep")
  BY ReadyOrder DEF Entry, Stop
<1>2. ASSUME NEW w \in Orders, Entry(w), w # o, row[w].status # "CANCELLED"
      PROVE  FALSE
  <2>1. Standing(w)
    BY <1>2 DEF Standing, IsBuy, RowsFollow, RowFollows, Entry, Stop, NoRow, OrdersAreLots
  <2> QED
    BY <1>1, <1>2, <2>1 DEF OneEntry
<1>3. pos[p].status = "none"
  BY <1>1, <1>2 DEF OnePosition
<1>4. ~Makes(r, p)
  <2>1. ASSUME Makes(r, p)
        PROVE  FALSE
    <3>1. PICK u \in Orders : Entry(u) /\ Reads(r, u, "FILLED")
      BY <2>1 DEF PassHolds, PassBooks
    <3>2. row[u].status = "SUBMITTED"
      BY <3>1 DEF PassHolds, PassReads, Reads
    <3> QED
      BY <1>1, <1>2, <3>1, <3>2 DEF Reads
  <2> QED
    BY <2>1
<1> QED
  BY <1>3, <1>4

\* While there is no position there is no stop, and nobody amends one.
LEMMA NothingToStop ==
    ASSUME TypeOK, StopsInv, \A p \in Positions : pos[p].status = "none"
    PROVE  /\ \A u \in Orders : ~Stop(u)
           /\ ActiveStops = {}
           /\ "amend" \in Programs => prog["amend"].pc = "idle"
<1> USE DEF StopsInv
<1>1. \A u \in Orders : ~Stop(u)
  BY DEF RowsFollow, RowFollows, Entry, Stop, NoRow
<1>2. ActiveStops = {}
  BY <1>1 DEF ActiveStops, ActiveSells, Stop
<1>3. "amend" \in Programs => prog["amend"].pc = "idle"
  BY DEF OneStop, AmendHolds
<1> QED
  BY <1>1, <1>2, <1>3

\* The fill of an entry makes the position and submits its stop, for a lot.
MakesPosition(r, o, p, new, m) ==
    /\ venue[new].state = "none"
    /\ venue'[new] = [state |-> "open", side |-> "sell", amount |-> Lot, filled |-> 0]
    /\ \A u \in Orders \ {new} : venue'[u] = venue[u]
    /\ rec' = [rec EXCEPT ![r] = m]
    /\ m.pc = "loop" /\ m.todo = rec[r].todo \ {o} /\ m.dirty = {}
    /\ m.status = [rec[r].status EXCEPT ![o] = "FILLED"]
    /\ m.add = [rec[r].add EXCEPT ![new] = SellRow("stop", p)]
    /\ m.made[p] # NoSignal
    /\ \A q \in Positions \ {p} : m.made[q] = rec[r].made[q]
    /\ m.held = rec[r].held \cup {p} /\ m.qty[p] = Lot
    /\ m.final = rec[r].final /\ m.rearm = rec[r].rearm

LEMMA EntryMakes ==
    ASSUME TypeOK, StopsInv, AmendedByHand, NEW r \in Passes, NEW o \in Orders,
           RecEntryNew(r, o)
    PROVE  \E p \in Positions, new \in Orders, m \in PassType : MakesPosition(r, o, p, new, m)
<1> USE DEF StopsInv
<1> DEFINE p == NextPosition
           f == Filled(r, o)
           l == [f EXCEPT !.made = [@ EXCEPT ![p] = row[o].sig],
                          !.held = @ \cup {p}, !.qty = [@ EXCEPT ![p] = venue[o].filled]]
<1>1. Ready(r, o) /\ Fills(o) /\ Entry(o) /\ FreePositions # {} /\ Protect(r, l, o, p)
  BY DEF RecEntryNew, Creates, Entry
<1>2. p \in Positions /\ pos[p].status = "none"
  BY <1>1, NextPositionIsFree
<1>3. venue[o].state = "filled" /\ venue[o].filled = Lot /\ row[o].sig \in Signals
  BY <1>1, ReadyOrder DEF RowsFollow, RowFollows, Entry, Stop, NoRow
<1>4. rec[r] \in PassType /\ rec[r].pc = "loop" /\ rec[r].dirty = {}
  BY <1>1 DEF TypeOK, PassHolds, Ready
<1>5. f \in PassType
  BY FilledType
<1>6. /\ f.pc = "loop" /\ f.todo = rec[r].todo \ {o} /\ f.dirty = {}
      /\ f.status = [rec[r].status EXCEPT ![o] = "FILLED"]
      /\ f.add = rec[r].add /\ f.made = rec[r].made /\ f.held = rec[r].held
      /\ f.qty = rec[r].qty /\ f.final = rec[r].final /\ f.rearm = rec[r].rearm
  BY <1>3, <1>4, <1>5 DEF Filled, Done, PassType
<1> HIDE DEF f, p
<1> DEFINE made == [f.made EXCEPT ![p] = row[o].sig]
           qty  == [f.qty EXCEPT ![p] = venue[o].filled]
<1>7. made \in [Positions -> NullableSignal] /\ qty \in [Positions -> Nat]
  BY <1>3, <1>5, LotAssumption DEF PassType, NullableSignal
<1>8. /\ made[p] # NoSignal /\ qty[p] = Lot
      /\ \A q \in Positions \ {p} : made[q] = f.made[q]
  BY <1>2, <1>3, <1>5, NullAssumption DEF PassType
<1>9. l = [f EXCEPT !.made = made, !.held = f.held \cup {p}, !.qty = qty]
  BY <1>5 DEF PassType
<1> HIDE DEF l, made, qty
<1>10. /\ l \in PassType
       /\ l.pc = f.pc /\ l.todo = f.todo /\ l.dirty = f.dirty /\ l.status = f.status
       /\ l.add = f.add /\ l.made = made /\ l.held = f.held \cup {p} /\ l.qty = qty
       /\ l.final = f.final /\ l.rearm = f.rearm
  BY <1>2, <1>5, <1>7, <1>9 DEF PassType
<1>11. SeenQty(l, p) = Lot
  BY <1>8, <1>10 DEF SeenQty
<1>12. ActiveStops = {}
  BY <1>1, EntryAlone, NothingToStop
<1>13. ProtectedQty(p) = 0
  <2>1. {u \in ActiveStops : row[u].p = p} = {}
    BY <1>12
  <2> QED
    BY <2>1, SumOfNone, SumOverIsSum DEF ProtectedQty
<1>14. Excess(SeenQty(l, p), ProtectedQty(p)) = Lot /\ Lot # 0
  BY <1>11, <1>13, LotAssumption DEF Excess
<1>15. Hazards \cap {"reject", "offline"} = {}
  BY DEF AmendedByHand
<1>16. PICK new \in Orders :
          /\ venue[new].state = "none"
          /\ venue' = Placed(venue, new, "sell", Lot, "open")
          /\ rec' = [rec EXCEPT ![r] = [l EXCEPT !.add = [@ EXCEPT ![new] = SellRow("stop", p)]]]
  <2>1. /\ FreeOrders # {}
        /\ venue' = Placed(venue, NextOrder, "sell", Lot, "open")
        /\ rec' = [rec EXCEPT ![r] =
                     [l EXCEPT !.add = [@ EXCEPT ![NextOrder] = SellRow("stop", p)]]]
    BY <1>1, <1>14, <1>15 DEF Protect, l, made, qty
  <2> QED
    BY <2>1, NextOrderIsFree
<1> DEFINE m == [l EXCEPT !.add = [@ EXCEPT ![new] = SellRow("stop", p)]]
<1>17. m \in PassType
  BY <1>2, <1>10, AddType, SellRowType
<1>18. /\ m.pc = l.pc /\ m.todo = l.todo /\ m.dirty = l.dirty /\ m.status = l.status
       /\ m.add = [l.add EXCEPT ![new] = SellRow("stop", p)] /\ m.made = l.made
       /\ m.held = l.held /\ m.qty = l.qty /\ m.final = l.final /\ m.rearm = l.rearm
  BY <1>10 DEF PassType
<1>19. /\ venue'[new] = [state |-> "open", side |-> "sell", amount |-> Lot, filled |-> 0]
       /\ \A u \in Orders \ {new} : venue'[u] = venue[u]
  BY <1>16 DEF Placed, TypeOK
<1>20. rec' = [rec EXCEPT ![r] = m]
  BY <1>16
<1> HIDE DEF m
<1>21. /\ m.pc = "loop" /\ m.todo = rec[r].todo \ {o} /\ m.dirty = {}
       /\ m.status = [rec[r].status EXCEPT ![o] = "FILLED"]
       /\ m.add = [rec[r].add EXCEPT ![new] = SellRow("stop", p)]
       /\ m.made[p] # NoSignal
       /\ \A q \in Positions \ {p} : m.made[q] = rec[r].made[q]
       /\ m.held = rec[r].held \cup {p} /\ m.qty[p] = Lot
       /\ m.final = rec[r].final /\ m.rearm = rec[r].rearm
  BY <1>6, <1>8, <1>10, <1>18
<1>22. MakesPosition(r, o, p, new, m)
  BY <1>16, <1>19, <1>20, <1>21 DEF MakesPosition
<1> QED
  BY <1>2, <1>17, <1>22

LEMMA EntryKeepsStops ==
    ASSUME TypeOK, TypeOK', StopsInv, AmendedByHand, NEW r \in Passes, NEW o \in Orders,
           RecEntryNew(r, o)
    PROVE  StopsInv'
<1> USE DEF StopsInv
<1>1. /\ UNCHANGED <<signal, row, pos, trades, booked, prog, coins>>
      /\ Ready(r, o) /\ Fills(o) /\ Entry(o)
  BY DEF RecEntryNew, Creates, Entry, aside, tables
<1>a. PICK p \in Positions, new \in Orders, m \in PassType : MakesPosition(r, o, p, new, m)
  BY EntryMakes
<1>2. /\ venue[new].state = "none"
      /\ venue'[new] = [state |-> "open", side |-> "sell", amount |-> Lot, filled |-> 0]
      /\ \A u \in Orders \ {new} : venue'[u] = venue[u]
      /\ rec' = [rec EXCEPT ![r] = m]
      /\ m.pc = "loop" /\ m.todo = rec[r].todo \ {o} /\ m.dirty = {}
      /\ m.status = [rec[r].status EXCEPT ![o] = "FILLED"]
      /\ m.add = [rec[r].add EXCEPT ![new] = SellRow("stop", p)]
      /\ m.made[p] # NoSignal
      /\ \A q \in Positions \ {p} : m.made[q] = rec[r].made[q]
      /\ m.held = rec[r].held \cup {p} /\ m.qty[p] = Lot
      /\ m.final = rec[r].final /\ m.rearm = rec[r].rearm
  BY <1>a DEF MakesPosition
<1>3. /\ \A q \in Positions : pos[q].status = "none" /\ ~Makes(r, q)
      /\ \A u \in Orders : ~Stop(u)
      /\ ActiveStops = {}
      /\ "amend" \in Programs => prog["amend"].pc = "idle"
  BY <1>1, EntryAlone, NothingToStop
<1>4. /\ Reads(r, o, "keep") /\ row[o].status = "SUBMITTED" /\ IsBuy(o)
      /\ venue[o].state = "filled" /\ PassHolds(r) /\ row[new] = NoRow /\ o # new
  BY <1>1, <1>2, ReadyOrder DEF Entry, Stop, OrdersAreLots, NoRow
<1>5. rec'[r] = m /\ \A q \in Passes : q = r
  BY <1>2 DEF AmendedByHand, TypeOK
<1>6. /\ \A u \in Orders : ~Adds(r, u) /\ (~Adds(r, u)' \/ u = new)
      /\ Adds(r, new)' /\ rec'[r].add[new] = SellRow("stop", p)
  <2>1. \A u \in Orders : ~Adds(r, u)
    BY <1>3, <1>4 DEF PassHolds, PassReads
  <2>2. rec[r].add \in [Orders -> RowType] /\ SellRow("stop", p) # NoRow
    BY DEF TypeOK, PassType, SellRow, NoRow
  <2> QED
    BY <1>2, <1>5, <2>1, <2>2 DEF Adds
<1>7. /\ \A u \in Orders \ {o} : rec'[r].status[u] = rec[r].status[u]
      /\ rec'[r].status[o] = "FILLED"
  BY <1>2, <1>5 DEF TypeOK, PassType
<1>8. Makes(r, p)' /\ \A q \in Positions : Makes(r, q)' => q = p
  BY <1>2, <1>3, <1>5 DEF Makes
<1>9. \A u \in Orders : ~(IsSell(u) /\ Live(u))
  BY <1>3, <1>5, <1>6 DEF OneStop, Records
<1>10. /\ \A u \in Orders : /\ IsBuy(u)' <=> IsBuy(u)
                            /\ IsSell(u)' <=> IsSell(u) \/ u = new
                            /\ Live(u)' <=> Live(u) \/ u = new
                            /\ Standing(u)' <=> Standing(u)
                            /\ Entry(u)' <=> Entry(u)
                            /\ ~Stop(u)'
       /\ ~IsSell(new)
  BY <1>1, <1>2, <1>3, <1>4 DEF IsBuy, IsSell, Live, Standing, Entry, Stop
<1>11. OrdersAreLots'
  BY <1>1, <1>2, <1>4 DEF OrdersAreLots
<1>12. CoinsAreCounted'
  <2>1. Bought /\ Bought'
    BY <1>2, <1>4 DEF Bought, IsBuy
  <2>2. WasSold' <=> WasSold
    BY <1>2 DEF WasSold, IsSell
  <2> QED
    BY <1>1, <2>1, <2>2 DEF CoinsAreCounted
<1>13. RowsFollow'
  <2>1. ASSUME NEW u \in Orders
        PROVE  RowFollows(u)'
    <3>1. CASE u = new
      BY <1>1, <1>4, <3>1 DEF RowFollows
    <3>2. CASE u # new
      BY <1>1, <1>2, <3>2 DEF RowsFollow, RowFollows, Entry, Stop
    <3> QED
      BY <3>1, <3>2
  <2> QED
    BY <2>1 DEF RowsFollow
<1>14. OneEntry'
  BY <1>1, <1>10 DEF OneEntry, Records
<1>15. OneStop'
  <2>1. AmendHolds'
    BY <1>1, <1>3 DEF AmendHolds
  <2>2. ActiveStops' = {}
    BY <1>1, <1>3 DEF ActiveStops, ActiveSells
  <2> QED
    BY <1>6, <1>9, <1>10, <2>1, <2>2 DEF OneStop
<1>16. OnePosition'
  <2>1. \A q \in Positions : Taken(q)' => q = p
    BY <1>1, <1>3, <1>5, <1>8 DEF Taken, Makes
  <2>2. \A u \in Orders : Entry(u) => row[u].status # "FILLED"
    BY <1>3 DEF OnePosition
  <2> QED
    BY <1>1, <1>3, <1>10, <2>1, <2>2 DEF OnePosition
<1>17. PassHolds(r)'
  <2>1. ASSUME NEW u \in Orders
        PROVE  PassReads(r, u)'
    <3>1. PassReads(r, u)
      BY <1>4 DEF PassHolds
    <3>2. u \in rec'[r].todo => u \in rec[r].todo /\ u # o
      BY <1>2, <1>5
    <3>3. Adds(r, u)' => /\ IsSell(u)' /\ row'[u] = NoRow
                         /\ \E q \in Positions : Makes(r, q)' /\ rec'[r].add[u] = SellRow("stop", q)
      BY <1>1, <1>4, <1>6, <1>8, <1>10
    <3>4. CASE u = o
      BY <1>1, <1>2, <1>4, <1>7, <1>8, <1>10, <3>2, <3>3, <3>4 DEF PassReads, Reads
    <3>5. CASE u # o
      <4>1. \A x \in {"CANCELLED", "FILLED"} : Reads(r, u, x)' => u # new
        BY <1>3, <1>4, <1>7, <3>1, <3>5 DEF PassReads, Reads, Entry, Stop, NoRow
      <4>2. u # new => venue'[u] = venue[u]
        BY <1>2
      <4>3. ~(Reads(r, u, "keep")') => ~Reads(r, u, "keep") /\ u # new
        BY <1>3, <1>4, <1>7, <3>1, <3>5 DEF PassReads, Reads, Entry, Stop, NoRow
      <4>4. rec'[r].status[u] = rec[r].status[u]
        BY <1>7, <3>5
      <4>5. CASE u = new
        BY <1>1, <3>2, <3>3, <4>3, <4>5, <3>1, <1>3, <1>4 DEF PassReads, Reads, Entry, Stop, NoRow
      <4>6. CASE u # new
        <5>1. \E q \in Positions : Makes(r, q)'
          BY <1>8
        <5> QED
          <6>1. \A x \in {"keep", "CANCELLED", "FILLED"} : Reads(r, u, x)' <=> Reads(r, u, x)
            BY <4>4 DEF Reads
          <6>2. row'[u] = row[u] /\ venue'[u] = venue[u] /\ ~Stop(u)' /\ (Entry(u)' <=> Entry(u))
            BY <1>1, <1>10, <4>2, <4>6
          <6>3. ~Stop(u)
            BY <1>3
          <6> QED
            BY <3>1, <3>2, <3>3, <5>1, <6>1, <6>2, <6>3 DEF PassReads
      <4> QED
        BY <4>5, <4>6
    <3> QED
      BY <3>4, <3>5
  <2>2. ASSUME NEW q \in Positions
        PROVE  PassBooks(r, q)'
    <3>1. ~(rec'[r].final[q] > 0)
      BY <1>2, <1>3, <1>4, <1>5 DEF PassHolds, PassBooks
    <3>2. Reads(r, o, "FILLED")' /\ Entry(o)'
      BY <1>1, <1>7, <1>10 DEF Reads
    <3> QED
      BY <1>1, <1>2, <1>3, <1>5, <1>6, <1>8, <3>1, <3>2 DEF PassBooks
  <2>3. ASSUME NEW s \in rec'[r].rearm
        PROVE  \E u \in Orders : Entry(u)' /\ Reads(r, u, "CANCELLED")'
    <3>1. PICK u \in Orders : Entry(u) /\ Reads(r, u, "CANCELLED")
      BY <1>2, <1>4, <1>5, <2>3 DEF PassHolds
    <3> QED
      BY <1>4, <1>7, <1>10, <3>1 DEF Reads
  <2>4. \A u, w \in Orders : Adds(r, u)' /\ Adds(r, w)' => u = w
    BY <1>6
  <2> QED
    BY <1>2, <1>5, <2>1, <2>2, <2>3, <2>4 DEF PassHolds
<1> QED
  BY <1>5, <1>11, <1>12, <1>13, <1>14, <1>15, <1>16, <1>17

\* The commit writes what the pass has noted, the position it has made and the
\* row of its stop.
LEMMA CommitKeepsStops ==
    ASSUME TypeOK, TypeOK', StopsInv, AmendedByHand, NEW r \in Passes, RecCommit(r)
    PROVE  StopsInv'
<1> USE DEF StopsInv
<1> DEFINE l == rec[r]
<1>1. /\ UNCHANGED <<venue, coins, prog>>
      /\ l.pc = "loop" /\ l \in PassType /\ l.dirty = {} /\ PassHolds(r)
      /\ rec' = [rec EXCEPT ![r] = IdlePass]
  BY DEF RecCommit, TypeOK, PassHolds
<1>2. ASSUME NEW o \in Orders
      PROVE  /\ Adds(r, o) => row'[o] = l.add[o]
             /\ ~Adds(r, o) /\ Reads(r, o, "keep") => row'[o] = row[o]
             /\ ~Adds(r, o) /\ Reads(r, o, "CANCELLED") =>
                   row'[o] = [row[o] EXCEPT !.status = "CANCELLED"]
             /\ ~Adds(r, o) /\ Reads(r, o, "FILLED") =>
                   row'[o] = [row[o] EXCEPT !.status = "FILLED", !.filled = l.filled[o]]
  BY <1>1 DEF RecCommit, Adds, Reads
<1>a. \A o \in Orders : PassReads(r, o) /\ RowFollows(o) /\ row[o] \in RowType
  BY <1>1 DEF PassHolds, RowsFollow, TypeOK
<1>3. ASSUME NEW p \in Positions
      PROVE  /\ pos'[p].status = IF l.final[p] > 0 THEN "CLOSED"
                                 ELSE IF Makes(r, p) THEN "OPEN" ELSE pos[p].status
             /\ pos'[p].qty = IF Makes(r, p) THEN l.qty[p] ELSE pos[p].qty
             /\ pos'[p].paper = pos[p].paper
             /\ PassBooks(r, p)
  BY <1>1 DEF RecCommit, Written, Makes, PassHolds
<1>4. /\ rec'[r] = IdlePass /\ \A q \in Passes : q = r
      /\ \A p \in Positions : ~Makes(r, p)'
      /\ \A o \in Orders : ~Adds(r, o)' /\ Reads(r, o, "keep")'
  <2>1. rec'[r] = IdlePass /\ \A q \in Passes : q = r
    BY <1>1 DEF AmendedByHand, TypeOK
  <2> QED
    BY <2>1 DEF IdlePass, Makes, Adds, Reads
<1>5. \A o \in Orders : Reads(r, o, "keep") \/ Reads(r, o, "CANCELLED") \/ Reads(r, o, "FILLED")
  BY <1>a DEF PassReads
<1> HIDE DEF l
\* The rows one by one.
<1>6. ASSUME NEW o \in Orders, Adds(r, o)
      PROVE  /\ row[o] = NoRow /\ IsSell(o)
             /\ row'[o].kind = "stop" /\ row'[o].status = "SUBMITTED" /\ row'[o].sig = NoSignal
             /\ row'[o].p \in Positions /\ Makes(r, row'[o].p)
  <2>1. row[o] = NoRow /\ IsSell(o)
    BY <1>6, <1>a DEF PassReads
  <2>2. PICK p \in Positions : Makes(r, p) /\ rec[r].add[o] = SellRow("stop", p)
    BY <1>6, <1>a DEF PassReads
  <2>3. row'[o] = SellRow("stop", p)
    BY <1>2, <1>6, <2>2 DEF l
  <2> QED
    BY <2>1, <2>2, <2>3 DEF SellRow, NoRow
<1>7. ASSUME NEW o \in Orders, ~Adds(r, o)
      PROVE  /\ row'[o].kind = row[o].kind /\ row'[o].sig = row[o].sig /\ row'[o].p = row[o].p
             /\ row'[o].status = IF Reads(r, o, "keep") THEN row[o].status ELSE rec[r].status[o]
             /\ row[o] = NoRow => row'[o] = NoRow
  <2>1. row[o] = NoRow => Reads(r, o, "keep")
    <3>1. PassReads(r, o)
      BY <1>a
    <3> QED
      BY <3>1 DEF PassReads, Entry, Stop, NoRow
  <2>t. row[o] \in RowType
    BY <1>a
  <2>2. CASE Reads(r, o, "keep")
    BY <1>2, <1>7, <2>2
  <2>3. CASE Reads(r, o, "CANCELLED")
    <3>1. row'[o] = [row[o] EXCEPT !.status = "CANCELLED"]
      BY <1>2, <1>7, <2>3
    <3> QED
      BY <2>1, <2>3, <2>t, <3>1 DEF RowType, Reads
  <2>4. CASE Reads(r, o, "FILLED")
    <3>1. row'[o] = [row[o] EXCEPT !.status = "FILLED", !.filled = l.filled[o]]
      BY <1>2, <1>7, <2>4
    <3> QED
      BY <2>1, <2>4, <2>t, <3>1 DEF RowType, Reads
  <2> QED
    BY <1>5, <2>2, <2>3, <2>4
<1>8. ASSUME NEW o \in Orders
      PROVE  /\ IsBuy(o)' <=> IsBuy(o)
             /\ IsSell(o)' <=> IsSell(o)
             /\ Live(o)' <=> Live(o)
             /\ Entry(o)' <=> Entry(o)
             /\ Stop(o)' <=> Stop(o) \/ Adds(r, o)
             /\ Adds(r, o) => ~Entry(o) /\ ~Stop(o)
             /\ row'[o].status = "FILLED" <=> row[o].status = "FILLED" \/ Reads(r, o, "FILLED")
             /\ row[o].status = "CANCELLED" => row'[o].status = "CANCELLED"
             /\ Reads(r, o, "CANCELLED") => row'[o].status = "CANCELLED"
             /\ row[o].status = "FILLED" /\ Entry(o) => Reads(r, o, "keep")
  <2>1. CASE Adds(r, o)
    <3>1. Reads(r, o, "keep") /\ row[o].status = "none"
      <4>1. PassReads(r, o) /\ row[o] = NoRow
        BY <1>6, <1>a, <2>1
      <4> QED
        BY <4>1 DEF PassReads, Entry, Stop, NoRow
    <3> QED
      BY <1>1, <1>6, <2>1, <3>1 DEF IsBuy, IsSell, Live, Entry, Stop, NoRow, Reads
  <2>2. CASE ~Adds(r, o)
    <3>1. /\ row[o].status = "FILLED" => venue[o].state = "filled"
          /\ row[o].status = "CANCELLED" => venue[o].state = "cancelled"
          /\ Reads(r, o, "FILLED") => venue[o].state = "filled"
          /\ Reads(r, o, "CANCELLED") => venue[o].state = "cancelled"
      <4>1. PassReads(r, o) /\ RowFollows(o)
        BY <1>a
      <4> QED
        BY <4>1 DEF RowFollows, PassReads, NoRow, Reads
    <3>2. row[o].status = "FILLED" /\ Entry(o) => Reads(r, o, "keep")
      BY <1>a DEF PassReads
    <3> QED
      BY <1>1, <1>5, <1>7, <2>2, <3>1, <3>2 DEF IsBuy, IsSell, Live, Entry, Stop, Reads
  <2> QED
    BY <2>1, <2>2
\* A pass that makes a position finds none, and no stop.
<1>9. ASSUME NEW p \in Positions, Makes(r, p)
      PROVE  /\ \A q \in Positions : pos[q].status = "none" /\ l.final[q] = 0
             /\ \A o \in Orders : ~Stop(o)
             /\ "amend" \in Programs => prog["amend"].pc = "idle"
  <2>1. \A q \in Positions : pos[q].status = "none"
    BY <1>9, MadeAlone
  <2>2. \A q \in Positions : l.final[q] \in Nat /\ ~(l.final[q] > 0)
    BY <1>1, <1>3, <2>1 DEF PassBooks, PassType, l
  <2> QED
    BY <2>1, <2>2, NothingToStop
<1>10. ASSUME NEW p \in Positions
       PROVE  /\ pos'[p].status # "none" <=> pos[p].status # "none" \/ Makes(r, p)
              /\ pos'[p].status = "CLOSED" =>
                    pos[p].status = "CLOSED" \/ \E o \in Orders : Stop(o) /\ Reads(r, o, "FILLED")
              /\ pos'[p].status = "OPEN" <=>
                    Makes(r, p) \/ (pos[p].status = "OPEN" /\ ~(l.final[p] > 0))
  <2>1. CASE Makes(r, p)
    BY <1>3, <1>9, <2>1 DEF l
  <2>2. CASE ~Makes(r, p)
    BY <1>3, <2>2 DEF PassBooks, l
  <2> QED
    BY <2>1, <2>2
<1>11. OrdersAreLots'
  <2>1. \A o \in Orders : row[o] = NoRow /\ venue[o].state = "none" => row'[o] = NoRow
    BY <1>6, <1>7 DEF IsSell
  <2> QED
    BY <1>1, <2>1 DEF OrdersAreLots
<1>12. CoinsAreCounted'
  BY <1>1 DEF CoinsAreCounted, Bought, WasSold, IsBuy, IsSell
<1>13. RowsFollow'
  <2>1. ASSUME NEW o \in Orders
        PROVE  RowFollows(o)'
    <3>1. CASE Adds(r, o)
      <4>1. pos'[row'[o].p].status # "none"
        BY <1>6, <1>10, <3>1
      <4> QED
        BY <1>1, <1>6, <3>1, <4>1 DEF RowFollows, Stop, IsSell
    <3>2. CASE ~Adds(r, o) /\ row[o] = NoRow
      BY <1>7, <3>2 DEF RowFollows
    <3>3. CASE ~Adds(r, o) /\ row[o] # NoRow
      <4>1. /\ row'[o].status \in {"SUBMITTED", "FILLED", "CANCELLED"}
            /\ row'[o].status = "CANCELLED" => venue[o].state = "cancelled"
            /\ row'[o].status = "FILLED" => venue[o].state = "filled"
        <5>1. RowFollows(o) /\ PassReads(r, o)
          BY <1>a
        <5> QED
          BY <1>5, <1>7, <3>3, <5>1 DEF RowFollows, PassReads, Reads
      <4>2. \A p \in Positions : pos[p].status # "none" => pos'[p].status # "none"
        BY <1>10
      <4>3. RowFollows(o)
        BY <1>a
      <4> QED
        BY <1>1, <1>7, <3>3, <4>1, <4>2, <4>3 DEF RowFollows, Entry, Stop
    <3> QED
      BY <3>1, <3>2, <3>3
  <2> QED
    BY <2>1 DEF RowsFollow
<1>14. OneEntry'
  <2>1. \A o \in Orders : Standing(o)' => Standing(o)
    BY <1>8 DEF Standing
  <2>2. \A o \in Orders : IsBuy(o) /\ row[o] = NoRow => row'[o] = NoRow
    BY <1>6, <1>7 DEF IsBuy, IsSell
  <2>3. ASSUME NEW o \in Orders, Standing(o)'
        PROVE  l.rearm = {}
    <3>1. ASSUME NEW s \in l.rearm
          PROVE  FALSE
      <4>1. PICK u \in Orders : Entry(u) /\ Reads(r, u, "CANCELLED")
        BY <1>1, <3>1 DEF PassHolds, l
      <4>2. row[u].status = "SUBMITTED" /\ row'[u].status = "CANCELLED"
        BY <1>8, <1>a, <4>1 DEF PassReads, Reads
      <4>3. Standing(u)
        <5>1. RowFollows(u)
          BY <1>a
        <5> QED
          BY <4>1, <4>2, <5>1 DEF Standing, IsBuy, RowFollows, Entry, Stop, NoRow, OrdersAreLots
      <4>4. u = o
        BY <2>1, <2>3, <4>3 DEF OneEntry
      <4> QED
        BY <2>3, <4>2, <4>4 DEF Standing
    <3> QED
      BY <3>1
  <2>4. l.rearm = {} => \A s \in Signals : signal'[s] = signal[s]
    BY DEF RecCommit, l
  <2>5. \A o : Records("chat", o)' <=> Records("chat", o)
    BY <1>1 DEF Records
  <2> QED
    BY <1>1, <1>8, <2>1, <2>2, <2>3, <2>4, <2>5 DEF OneEntry, Standing
<1>15. OneStop'
  <2>1. ASSUME NEW o \in Orders, o \in ActiveStops'
        PROVE  Adds(r, o) \/ o \in ActiveStops
    <3>1. row'[o].kind = "stop" /\ row'[o].status \in Active
      BY <2>1 DEF ActiveStops, ActiveSells
    <3>2. CASE ~Adds(r, o)
      <4>1. Reads(r, o, "keep")
        BY <1>5, <1>7, <3>1, <3>2 DEF Active, Reads
      <4> QED
        BY <1>7, <3>1, <3>2, <4>1 DEF ActiveStops, ActiveSells
    <3> QED
      BY <3>2
  <2>2. \A o \in Orders : Adds(r, o) => ActiveStops = {}
    <3>1. ASSUME NEW o \in Orders, Adds(r, o)
          PROVE  ActiveStops = {}
      BY <1>6, <1>9, <3>1 DEF ActiveStops, ActiveSells, Stop
    <3> QED
      BY <3>1
  <2>3. \A o \in ActiveStops' : o \in Orders
    BY DEF ActiveStops, ActiveSells
  <2>4. \A o, u \in Orders : Adds(r, o) /\ Adds(r, u) => o = u
    BY <1>1 DEF PassHolds
  <2>5. \A o, u \in ActiveStops' : o = u
    BY <2>1, <2>2, <2>3, <2>4 DEF OneStop
  <2>6. AmendHolds'
    <3>1. ASSUME "amend" \in Programs, prog["amend"].pc # "idle"
          PROVE  AmendHolds'
      <4>1. \A o \in Orders : ~Adds(r, o)
        BY <1>6, <1>9, <3>1
      <4>2. ActiveStops' \subseteq ActiveStops
        BY <2>1, <2>3, <4>1
      <4>3. \A p \in Positions : pos[p].status # "none" => pos'[p].status # "none"
        BY <1>10
      <4>4. \A o \in Orders : row[o] = NoRow => row'[o] = NoRow
        BY <1>7, <4>1
      <4>5. prog["amend"].stops \subseteq Orders
        BY <3>1 DEF TypeOK, ProgramType
      <4> QED
        BY <1>1, <1>8, <3>1, <4>2, <4>3, <4>4, <4>5 DEF OneStop, AmendHolds
    <3> QED
      BY <1>1, <3>1 DEF AmendHolds
  <2>7. \A o : Records("amend", o)' <=> Records("amend", o)
    BY <1>1 DEF Records
  <2>8. \A o \in Orders : IsSell(o) /\ Live(o) => Stop(o) \/ Records("amend", o) \/ Adds(r, o)
    BY <1>4 DEF OneStop
  <2>9. \A o, u \in Orders : IsSell(o) /\ IsSell(u) /\ Live(o) /\ Live(u) => o = u
    BY DEF OneStop
  <2> QED
    BY <1>8, <2>5, <2>6, <2>7, <2>8, <2>9 DEF OneStop
<1>16. OnePosition'
  <2>1. \A p \in Positions : Taken(p)' => Taken(p)
    BY <1>4, <1>10 DEF Taken
  <2>2. ASSUME NEW p \in Positions, pos'[p].status # "none"
        PROVE  /\ pos'[p].qty = Lot
               /\ \E o \in Orders : Entry(o)' /\ row'[o].status = "FILLED"
               /\ pos'[p].status = "CLOSED" =>
                     \E o \in Orders : Stop(o)' /\ row'[o].status = "FILLED"
    <3>1. pos'[p].qty = Lot
      BY <1>3, <1>10, <2>2 DEF OnePosition, PassBooks, l
    <3>2. \E o \in Orders : Entry(o) /\ (row[o].status = "FILLED" \/ Reads(r, o, "FILLED"))
      BY <1>3, <1>10, <2>2 DEF OnePosition, PassBooks
    <3>3. pos'[p].status = "CLOSED" =>
             \E o \in Orders : Stop(o) /\ (row[o].status = "FILLED" \/ Reads(r, o, "FILLED"))
      BY <1>10 DEF OnePosition
    <3> QED
      BY <1>8, <3>1, <3>2, <3>3
  <2>3. ASSUME NEW o \in Orders, Entry(o)', row'[o].status = "FILLED"
        PROVE  \E p \in Positions : pos'[p].status # "none"
    <3>1. Entry(o) /\ (row[o].status = "FILLED" \/ Reads(r, o, "FILLED"))
      BY <1>8, <2>3
    <3>2. \E p \in Positions : pos[p].status # "none" \/ Makes(r, p)
      BY <1>a, <3>1 DEF OnePosition, PassReads
    <3> QED
      BY <1>10, <3>2
  <2>4. ASSUME NEW o \in Orders, Stop(o)', row'[o].status = "FILLED", NEW p \in Positions
        PROVE  pos'[p].status # "OPEN"
    <3>1. Stop(o) /\ (row[o].status = "FILLED" \/ Reads(r, o, "FILLED"))
      <4>1. ~Adds(r, o)
        BY <1>6, <2>4
      <4> QED
        BY <1>8, <2>4, <4>1
    <3>2. ~Makes(r, p)
      BY <1>9, <3>1
    <3>3. pos[p].status = "OPEN" => l.final[p] > 0
      BY <1>a, <3>1 DEF OnePosition, PassReads, l
    <3> QED
      BY <1>10, <3>2, <3>3
  <2>5. \A p \in Positions : ~pos'[p].paper
    BY <1>3 DEF OnePosition
  <2>6. \A p, q \in Positions : Taken(p) /\ Taken(q) => p = q
    BY DEF OnePosition
  <2> QED
    BY <2>1, <2>2, <2>3, <2>4, <2>5, <2>6 DEF OnePosition
<1>17. PassHolds(r)'
  <2>1. \A o \in Orders : PassReads(r, o)'
    BY <1>4 DEF PassReads, Reads, IdlePass
  <2>2. \A p \in Positions : PassBooks(r, p)'
    BY <1>4 DEF PassBooks, IdlePass
  <2> QED
    BY <1>4, <2>1, <2>2 DEF PassHolds, IdlePass
<1> QED
  BY <1>4, <1>11, <1>12, <1>13, <1>14, <1>15, <1>16, <1>17

LEMMA ProgramKeepsStops ==
    ASSUME TypeOK, TypeOK', StopsInv, AmendedByHand, ProgramStep
    PROVE  StopsInv'
<1>1. ~EntryStart /\ ~EntrySelfHeal /\ ~AddStart /\ ~RulesStart /\ ~StopsStart /\ ~StopsCheck
  BY DEF AmendedByHand, EntryStart, EntrySelfHeal, AddStart, RulesStart, StopsStart, StopsCheck,
         Begin
<1>2. /\ ~ManualPaper /\ ~ManualStart /\ ~AmendRejected /\ ~RecordOrphan /\ ~RecordAdd
      /\ ~RecordRules /\ ~RulesClose /\ ~RecordStops /\ ~RecordExit("manual", "market")
  BY DEF AmendedByHand, ManualPaper, ManualStart, Begin, AmendRejected, RecordOrphan, RecordAdd,
         RecordRules, RulesClose, RecordStops, RecordExit
<1>3. \A x \in Programs : ~SubmitRejected(x) /\ ~ProgramCrash(x)
  BY DEF AmendedByHand, SubmitRejected, ProgramCrash
<1>4. \A x \in Programs : ~RecordSimulatedEntry(x)
  BY DEF AmendedByHand, RecordSimulatedEntry, Simulated, StopsInv, OneEntry, OrdersAreLots
<1>5. \A o \in Orders : ~OrphanExpires(o)
  BY DEF OrphanExpires, StopsInv, RowsFollow, RowFollows, Entry, Stop, NoRow
<1> QED
  BY <1>1, <1>2, <1>3, <1>4, <1>5, StartsKeepStops, CancelKeepsStops, SubmitKeepsStops,
     RecordEntryKeepsStops, RecordExitKeepsStops DEF ProgramStep

LEMMA PassKeepsStops ==
    ASSUME LedgerInv, TypeOK', StopsInv, AmendedByHand, NEW r \in Passes, RecStep(r)
    PROVE  StopsInv'
<1> USE DEF LedgerInv
<1>1. ASSUME NEW o \in Orders
      PROVE  ~RecEntryHeld(r, o) /\ ~RecAdd(r, o)
  <2>1. ~RecEntryHeld(r, o)
    <3>1. ASSUME Ready(r, o), Entry(o)
          PROVE  OpenSeen(r) = {}
      BY <3>1, EntryAlone DEF OpenSeen, OpenPositions, Made, Makes
    <3> QED
      BY <3>1 DEF RecEntryHeld, Entry
  <2>2. ~RecAdd(r, o)
    BY DEF RecAdd, StopsInv, RowsFollow, RowFollows, Entry, Stop, NoRow
  <2> QED
    BY <2>1, <2>2
<1>2. ~RecRollback(r)
  <2>1. \A p \in Positions : rec[r].final[p] > 0 => trades[p] + rec[r].final[p] = 1
    <3>1. ASSUME NEW p \in Positions, rec[r].final[p] > 0
          PROVE  rec[r].final[p] = 1 /\ trades[p] = 0
      BY <3>1 DEF StopsInv, PassHolds, PassBooks, OneFinalTrade
    <3> QED
      BY <3>1
  <2>2. ~UniqueViolated(r)
    BY <2>1 DEF UniqueViolated
  <2> QED
    BY <2>2 DEF RecRollback, AmendedByHand
<1> QED
  BY <1>1, <1>2, RecStartKeepsStops, OrdersKeepStops, EntryKeepsStops, CommitKeepsStops DEF RecStep

LEMMA NextKeepsStops ==
    ASSUME LedgerInv, StopsInv, AmendedByHand, [Next]_vars
    PROVE  StopsInv'
<1>1. TypeOK'
  BY NextTypeOK DEF LedgerInv
<1>2. CASE UNCHANGED vars
  <2>1. UNCHANGED <<tables, venue, coins, rec>> /\ prog' = prog
    BY <1>2 DEF vars
  <2>2. UNCHANGED <<signal, row, pos, venue, coins, rec, prog>>
    BY <2>1 DEF tables
  <2>3. OneEntry' /\ OneStop'
    BY <2>2 DEF StopsInv, OneEntry, OneStop, Standing, IsBuy, IsSell, Live, Entry, Stop, Records,
                Adds, AmendHolds, ActiveStops, ActiveSells
  <2> QED
    BY <2>1, <2>3, OnlyProgramsMove DEF StopsInv
<1>3. CASE VenueStep
  BY <1>1, <1>3, VenueKeepsStops DEF LedgerInv
<1>4. CASE ProgramStep
  BY <1>1, <1>4, ProgramKeepsStops DEF LedgerInv
<1>5. ASSUME NEW r \in Passes, RecStep(r)
      PROVE  StopsInv'
  BY <1>1, <1>5, PassKeepsStops
<1> QED
  BY <1>2, <1>3, <1>4, <1>5 DEF Next

LEMMA InitStops ==
    ASSUME Init
    PROVE  StopsInv
<1>1. \A o \in Orders : venue[o] = NoVenueOrder /\ row[o] = NoRow
  BY DEF Init
<1>2. /\ \A p \in Positions : pos[p] = NoPos
      /\ \A r \in Passes : rec[r] = IdlePass
      /\ \A x \in Programs : prog[x] = IdleProgram
      /\ coins = 0
  BY DEF Init
<1>3. OrdersAreLots /\ CoinsAreCounted /\ RowsFollow
  BY <1>1, <1>2 DEF OrdersAreLots, CoinsAreCounted, RowsFollow, RowFollows, Bought, WasSold, IsBuy,
                    IsSell, NoVenueOrder
<1>4. OneEntry /\ OneStop /\ OnePosition
  BY <1>1, <1>2 DEF OneEntry, OneStop, OnePosition, Standing, IsBuy, IsSell, Live, ActiveStops,
       ActiveSells, AmendHolds, Taken, Makes, Entry, Stop, NoVenueOrder, NoRow, NoPos, IdleProgram,
       IdlePass
<1>5. ASSUME NEW r \in Passes
      PROVE  PassHolds(r)
  <2>1. \A o \in Orders : PassReads(r, o)
    BY <1>2 DEF PassReads, Reads, Adds, IdlePass
  <2>2. \A p \in Positions : PassBooks(r, p)
    BY <1>2 DEF PassBooks, Makes, IdlePass
  <2>3. rec[r] = IdlePass
    BY <1>2
  <2>4. rec[r].dirty = {} /\ rec[r].rearm = {} /\ \A o \in Orders : ~Adds(r, o)
    BY <2>3 DEF Adds, IdlePass
  <2> QED
    BY <2>1, <2>2, <2>3, <2>4 DEF PassHolds
<1> QED
  BY <1>3, <1>4, <1>5 DEF StopsInv

\* The sum over one order is its own value.
LEMMA SumOfOne ==
    ASSUME NEW f, NEW y, f[y] \in Int
    PROVE  SumOver(f, {y}) = f[y]
<1>1. IsFiniteSet({y}) /\ {y} \ {y} = {}
  BY FS_Singleton
<1>2. Sum(f, {y}) = f[y] + Sum(f, {y} \ {y})
  BY <1>1, SumWithout
<1> QED
  BY <1>1, <1>2, SumOfNone, SumOverIsSum

\* What follows from the invariant.
LEMMA StopsInvImplies ==
    ASSUME TypeOK, StopsInv
    PROVE  SellsOnlyWhatItBought /\ PositionsMatchVenue /\ NeverOverProtected /\ EverySellTracked
<1> USE DEF StopsInv
<1>0. Lot \in Nat \ {0}
  BY LotAssumption
<1>1. SellsOnlyWhatItBought
  BY <1>0 DEF SellsOnlyWhatItBought, CoinsAreCounted
<1>2. EverySellTracked
  <2>1. ASSUME NEW o \in Orders, Live(o), row[o].kind \in {"none", "orphan"}
        PROVE  \/ \E x \in Programs : prog[x].ord = o
               \/ \E r \in Passes : rec[r].add[o] # NoRow
    <3>1. row[o] = NoRow /\ ~Entry(o) /\ ~Stop(o)
      BY <2>1 DEF RowsFollow, RowFollows, Entry, Stop
    <3>2. CASE venue[o].side = "buy"
      <4>1. Standing(o)
        BY <2>1, <3>1, <3>2 DEF Standing, IsBuy, Live, NoRow
      <4> QED
        BY <3>1, <4>1 DEF OneEntry, Records
    <3>3. CASE venue[o].side = "sell"
      BY <2>1, <3>1, <3>3 DEF OneStop, IsSell, Live, Records, Adds
    <3>4. venue[o].side \in {"buy", "sell"}
      BY DEF TypeOK, VenueType
    <3> QED
      BY <3>2, <3>3, <3>4
  <2> QED
    BY <2>1 DEF EverySellTracked, Live
<1>3. NeverOverProtected
  <2>1. ASSUME NEW p \in OpenPositions
        PROVE  ProtectedQty(p) <= pos[p].qty
    <3> DEFINE f == [o \in Orders |-> venue[o].amount]
               S == {o \in ActiveStops : row[o].p = p}
    <3>1. pos[p].qty = Lot
      BY <2>1 DEF OpenPositions, OnePosition
    <3>2. CASE S = {}
      BY <1>0, <3>1, <3>2, SumOfNone, SumOverIsSum DEF ProtectedQty
    <3>3. ASSUME NEW o \in S
          PROVE  ProtectedQty(p) = Lot
      <4>1. S = {o} /\ o \in Orders /\ Stop(o)
        BY <3>3 DEF OneStop, ActiveStops, ActiveSells, Stop
      <4>2. f[o] = Lot
        BY <4>1 DEF OrdersAreLots, Stop, NoRow
      <4>3. SumOver(f, S) = Lot
        BY <1>0, <4>1, <4>2, SumOfOne
      <4> QED
        BY <4>3 DEF ProtectedQty
    <3> HIDE DEF S
    <3> QED
      BY <1>0, <3>1, <3>2, <3>3
  <2> QED
    BY <2>1 DEF NeverOverProtected
<1>4. PositionsMatchVenue
  <2>1. SUFFICES ASSUME Quiet
                 PROVE  coins = SumOver([p \in Positions |-> pos[p].qty],
                                        {p \in OpenPositions : ~pos[p].paper})
    BY DEF PositionsMatchVenue
  <2> DEFINE f == [p \in Positions |-> pos[p].qty]
             S == {p \in OpenPositions : ~pos[p].paper}
  <2>2. /\ \A o \in Orders : venue[o].state # "open" /\ row[o].status \notin Active
        /\ \A x, o : ~Records(x, o)
        /\ \A r \in Passes, o \in Orders : ~Adds(r, o)
    BY <2>1 DEF Quiet, Records, PassHolds, Adds, IdlePass
  <2>3. Bought <=> \E p \in Positions : pos[p].status # "none"
    <3>1. ASSUME NEW o \in Orders, IsBuy(o), venue[o].state = "filled"
          PROVE  \E p \in Positions : pos[p].status # "none"
      <4>1. row[o].status # "CANCELLED"
        BY <3>1 DEF RowsFollow, RowFollows, NoRow
      <4>2. Entry(o)
        BY <2>2, <3>1, <4>1 DEF OneEntry, Standing
      <4>3. row[o].status = "FILLED"
        BY <2>2, <4>1, <4>2 DEF RowsFollow, RowFollows, Entry, NoRow, Active
      <4> QED
        BY <4>2, <4>3 DEF OnePosition
    <3>2. ASSUME NEW p \in Positions, pos[p].status # "none"
          PROVE  Bought
      <4>1. PICK o \in Orders : Entry(o) /\ row[o].status = "FILLED"
        BY <3>2 DEF OnePosition
      <4> QED
        BY <4>1 DEF Bought, IsBuy, RowsFollow, RowFollows, Entry, Stop, NoRow
    <3> QED
      BY <3>1, <3>2 DEF Bought
  <2>4. WasSold <=> \E o \in Orders : Stop(o) /\ row[o].status = "FILLED"
    <3>1. ASSUME NEW o \in Orders, IsSell(o), venue[o].state = "filled"
          PROVE  Stop(o) /\ row[o].status = "FILLED"
      <4>1. Stop(o)
        BY <2>2, <3>1 DEF OneStop, Live
      <4> QED
        BY <2>2, <3>1, <4>1 DEF RowsFollow, RowFollows, Stop, NoRow, Active
    <3>2. ASSUME NEW o \in Orders, Stop(o), row[o].status = "FILLED"
          PROVE  IsSell(o) /\ venue[o].state = "filled"
      BY <3>2 DEF IsSell, RowsFollow, RowFollows, Entry, Stop, NoRow
    <3> QED
      BY <3>1, <3>2 DEF WasSold
  <2>5. \A p \in Positions : p \in S <=> pos[p].status = "OPEN"
    BY DEF OpenPositions, OnePosition
  <2>6. S \subseteq Positions
    BY DEF OpenPositions
  <2>7. CASE S = {}
    <3>1. ~Bought \/ WasSold
      BY <2>3, <2>4, <2>5, <2>7 DEF OnePosition, TypeOK, PositionType
    <3> QED
      BY <2>7, <3>1, SumOfNone, SumOverIsSum DEF CoinsAreCounted
  <2>8. ASSUME NEW p \in S
        PROVE  coins = SumOver(f, S)
    <3>1. S = {p}
      BY <2>5, <2>6, <2>8 DEF OnePosition, Taken
    <3>2. f[p] = Lot /\ pos[p].status = "OPEN"
      BY <2>5, <2>6, <2>8 DEF OnePosition
    <3>3. SumOver(f, S) = Lot
      BY <1>0, <3>1, <3>2, SumOfOne
    <3>4. Bought /\ ~WasSold
      BY <2>3, <2>4, <2>6, <2>8, <3>2 DEF OnePosition
    <3> QED
      BY <3>3, <3>4 DEF CoinsAreCounted
  <2> HIDE DEF S
  <2> QED
    BY <2>7, <2>8 DEF S
<1> QED
  BY <1>1, <1>2, <1>3, <1>4

\* The commit that makes the position writes the row of its stop with it.
LEMMA CommitProtects ==
    ASSUME TypeOK, StopsInv, StopsInv', NEW r \in Passes, RecCommit(r),
           NEW p \in Made(r) \cup rec[r].dirty
    PROVE  ProtectedQty(p)' >= pos'[p].qty
<1> USE DEF StopsInv
<1>1. p \in Positions /\ Makes(r, p)
  BY DEF PassHolds, Made, Makes
<1>2. PICK o \in Orders : rec[r].add[o] = SellRow("stop", p)
  BY <1>1 DEF PassHolds, PassBooks
<1>3. row'[o] = SellRow("stop", p) /\ row'[o] # NoRow
  <2>1. SellRow("stop", p) # NoRow
    BY DEF SellRow, NoRow
  <2> QED
    BY <1>2, <2>1 DEF RecCommit
<1> DEFINE f == [u \in Orders |-> venue'[u].amount]
           S == {u \in ActiveStops' : row'[u].p = p}
<1>4. S = {o}
  <2>1. o \in ActiveStops' /\ row'[o].p = p
    BY <1>3 DEF ActiveStops, ActiveSells, Active, SellRow, NoRow
  <2>2. ActiveStops' \subseteq Orders
    BY DEF ActiveStops, ActiveSells
  <2> QED
    BY <2>1, <2>2 DEF OneStop
<1>5. f[o] = Lot
  BY <1>3 DEF OrdersAreLots
<1>6. SumOver(f, S) = Lot
  BY <1>4, <1>5, LotAssumption, SumOfOne
<1>7. ProtectedQty(p)' = Lot
  BY <1>6 DEF ProtectedQty
<1>8. pos'[p].qty = Lot
  <2>1. pos'[p].status # "none"
    BY <1>1 DEF RecCommit, Written, Makes
  <2> QED
    BY <1>1, <2>1 DEF OnePosition
<1> QED
  BY <1>7, <1>8, LotAssumption

\* The invariant holds of every behaviour.
THEOREM StopsInvariant ==
    ASSUME AmendedByHand
    PROVE  Spec => [](LedgerInv /\ StopsInv)
<1>1. Init => StopsInv
  BY InitStops
<1>2. LedgerInv /\ StopsInv /\ [Next]_vars => StopsInv'
  BY NextKeepsStops
<1> QED
  BY <1>1, <1>2, LedgerInvariant, PTL DEF Spec

\* One signal bought from the chat, its stop moved by hand and one pass at a
\* time: whatever the venue cancels, and however the steps fall, nothing is
\* sold that was not bought.
THEOREM OnlyBoughtIsSold ==
    ASSUME AmendedByHand
    PROVE  Spec => []SellsOnlyWhatItBought
<1>1. LedgerInv /\ StopsInv => SellsOnlyWhatItBought
  BY StopsInvImplies DEF LedgerInv
<1> QED
  BY <1>1, StopsInvariant, PTL

\* Under the same conditions the tables hold what the venue holds, once
\* everything is done.
THEOREM PositionIsTheCoins ==
    ASSUME AmendedByHand
    PROVE  Spec => []PositionsMatchVenue
<1>1. LedgerInv /\ StopsInv => PositionsMatchVenue
  BY StopsInvImplies DEF LedgerInv
<1> QED
  BY <1>1, StopsInvariant, PTL

\* Under the same conditions the active stops never cover more than the
\* position, however often they are moved.
THEOREM StopsCoverNoMore ==
    ASSUME AmendedByHand
    PROVE  Spec => []NeverOverProtected
<1>1. LedgerInv /\ StopsInv => NeverOverProtected
  BY StopsInvImplies DEF LedgerInv
<1> QED
  BY <1>1, StopsInvariant, PTL

\* Under the same conditions every order at the venue that works or has filled
\* has a row, or somebody is about to write it.
THEOREM OrdersAreTracked ==
    ASSUME AmendedByHand
    PROVE  Spec => []EverySellTracked
<1>1. LedgerInv /\ StopsInv => EverySellTracked
  BY StopsInvImplies DEF LedgerInv
<1> QED
  BY <1>1, StopsInvariant, PTL

\* Under the same conditions a pass that commits a position commits the stops
\* that cover it.
THEOREM CommitsProtection ==
    ASSUME AmendedByHand
    PROVE  Spec => ProtectedByCommit
<1> DEFINE A == \A r \in Passes : RecCommit(r) =>
                   \A p \in Made(r) \cup rec[r].dirty :
                      pos'[p].status = "OPEN" =>
                         \/ ProtectedQty(p)' >= pos'[p].qty
                         \/ \E o \in Orders : row'[o].kind = "market" /\ row'[o].status \in Active
                         \/ \E x \in Programs \cap {"manual", "amend"} :
                               prog[x].p = p /\ prog[x].pc # "idle"
<1>1. LedgerInv /\ StopsInv /\ (LedgerInv /\ StopsInv)' /\ [Next]_vars => [A]_vars
  BY CommitProtects DEF LedgerInv
<1>2. ProtectedByCommit <=> [][A]_vars
  BY DEF ProtectedByCommit
<1> HIDE DEF A
<1> QED
  BY <1>1, <1>2, StopsInvariant, PTL DEF Spec
=============================================================================
