---------------------------- MODULE PlatformProofs ----------------------------
(***************************************************************************)
(* What holds of the parts of the platform beside the orders, whatever     *)
(* their constants: the capital that scheduled entries commit, the data    *)
(* that is shown, and what is settled about a stock.                       *)
(***************************************************************************)
EXTENDS EntryControls, MarketData, Universe, SumProofs, TLAPS

-----------------------------------------------------------------------------
(* Entries.  One run that sizes an order counts what stands before it; what *)
(* it is about to submit is bounded together with what is committed.       *)

EntryRow == [state : {"none", "working", "cancelled", "held"}, units : Nat]
RunLocals == [todo : SUBSET CtlSignals, sizing : SUBSET CtlSignals, units : Nat]

EntryType ==
    /\ entry \in [CtlSignals -> EntryRow]
    /\ run \in [CtlRuns -> RunLocals]
    /\ killList \subseteq CtlSignals

CostOf == [s \in CtlSignals |-> CtlPrice[s] * entry[s].units]
OneShareMore == Max({0} \cup {CtlPrice[s] - CtlMinimum : s \in CtlSignals})
Spendable == CtlCapital + OneShareMore

\* What one run is about to submit fits beside what stands already.
CapitalInv ==
    /\ EntryType
    /\ \A s \in CtlSignals : entry[s].state = "none" => entry[s].units = 0
    /\ Cardinality(CtlRuns) = 1 /\ ~CtlHas("confirm") =>
          /\ Committed <= Spendable
          /\ \A r \in CtlRuns : \A s \in run[r].sizing :
                /\ run[r].sizing = {s} /\ entry[s].state = "none"
                /\ Committed + CtlPrice[s] * run[r].units <= Spendable

LEMMA CommittedIsSum == Committed = Sum(CostOf, CtlSignals)
  BY DEF Committed, Sum, FoldFunctionOnSet, MapThenSumSet, MapThenFoldSet, CostOf

LEMMA CostIsNat ==
    ASSUME EntryType
    PROVE  \A s \in CtlSignals : CtlPrice[s] \in Nat /\ CtlPrice[s] > 0 /\ CostOf[s] \in Nat
<1>1. \A s \in CtlSignals : CtlPrice[s] \in Nat /\ CtlPrice[s] > 0 /\ entry[s].units \in Nat
  BY CtlAssumption DEF EntryType, EntryRow
<1>2. \A m, n \in Nat : m * n \in Nat
  OBVIOUS
<1> QED
  BY <1>1, <1>2 DEF CostOf

LEMMA CommittedIsNat ==
    ASSUME EntryType, IsFiniteSet(CtlSignals)
    PROVE  Committed \in Nat
  BY CostIsNat, CommittedIsSum, SumIsNat

\* One entry changes.
LEMMA CommittedMoves ==
    ASSUME EntryType, IsFiniteSet(CtlSignals), NEW s \in CtlSignals, NEW e \in EntryRow,
           entry' = [entry EXCEPT ![s] = e]
    PROVE  /\ Committed' = Committed - CtlPrice[s] * entry[s].units + CtlPrice[s] * e.units
           /\ Committed' \in Nat
<1> DEFINE new == [t \in CtlSignals |-> CtlPrice[t] * entry'[t].units]
<1>1. EntryType' \/ entry' \in [CtlSignals -> EntryRow]
  BY DEF EntryType
<1>2. \A t \in CtlSignals : CostOf[t] \in Nat
  BY CostIsNat
<1>3. \A t \in CtlSignals : new[t] \in Nat
  <2>1. \A t \in CtlSignals : CtlPrice[t] \in Nat /\ entry'[t].units \in Nat
    BY CostIsNat DEF EntryType, EntryRow
  <2>2. \A m, n \in Nat : m * n \in Nat
    OBVIOUS
  <2> QED
    BY <2>1, <2>2
<1>4. \A t \in CtlSignals \ {s} : new[t] = CostOf[t]
  BY DEF CostOf, EntryType
<1>5. new[s] = CtlPrice[s] * e.units /\ CostOf[s] = CtlPrice[s] * entry[s].units
  BY DEF CostOf, EntryType
<1>6. Committed' = Sum(new, CtlSignals)
  BY DEF Committed, Sum, FoldFunctionOnSet, MapThenSumSet, MapThenFoldSet
<1> HIDE DEF new
<1>7. Sum(new, CtlSignals) = Sum(CostOf, CtlSignals) - CostOf[s] + new[s]
  BY <1>2, <1>3, <1>4, SumUpdate
<1>8. Sum(new, CtlSignals) \in Nat
  BY <1>3, SumIsNat
<1> QED
  BY <1>5, <1>6, <1>7, <1>8, CommittedIsSum

LEMMA CommittedStays ==
    ASSUME UNCHANGED entry
    PROVE  UNCHANGED <<Committed, Spendable>>
<1>1. Committed' = Sum([s \in CtlSignals |-> CtlPrice[s] * entry'[s].units], CtlSignals)
  BY DEF Committed, Sum, FoldFunctionOnSet, MapThenSumSet, MapThenFoldSet
<1>2. Committed' = Committed
  BY <1>1, CommittedIsSum DEF CostOf
<1> QED
  BY <1>2 DEF Spendable, OneShareMore

\* The share that is dearer than the minimum to be free.
LEMMA OneShareMoreIsMost ==
    ASSUME IsFiniteSet(CtlSignals)
    PROVE  /\ OneShareMore \in Nat
           /\ \A s \in CtlSignals : CtlPrice[s] - CtlMinimum <= OneShareMore
<1> DEFINE over == {CtlPrice[s] - CtlMinimum : s \in CtlSignals}
           all == {0} \cup over
           of == [s \in CtlSignals |-> CtlPrice[s] - CtlMinimum]
<1>1. IsFiniteSet(over)
  <2>1. of \in Surjection(CtlSignals, over)
    BY DEF Surjection
  <2> HIDE DEF of, over
  <2> QED
    BY <2>1, FS_Surjection
<1>2. IsFiniteSet(all)
  <2>1. IsFiniteSet({0})
    BY FS_Singleton
  <2> QED
    BY <1>1, <2>1, FS_Union
<1>3. over \subseteq Int
  BY CtlAssumption
<1>4. 0 \in all /\ all \subseteq Int
  BY <1>3
<1> HIDE DEF all
<1>5. \E m \in all : \A x \in all : x <= m
  BY <1>2, <1>4, FiniteMaximum
<1>6. Max(all) \in all /\ \A x \in all : x <= Max(all)
  <2>1. \E m \in all : \A x \in all : m >= x
    BY <1>4, <1>5
  <2>2. Max(all) \in all /\ \A x \in all : Max(all) >= x
    BY <2>1 DEF Max
  <2> QED
    BY <1>4, <2>2
<1>7. OneShareMore = Max(all)
  BY DEF OneShareMore, all
<1>8. \A s \in CtlSignals : CtlPrice[s] - CtlMinimum \in all
  BY DEF all
<1>9. OneShareMore \in Int /\ 0 <= OneShareMore
  BY <1>4, <1>6, <1>7
<1>10. \A s \in CtlSignals : CtlPrice[s] - CtlMinimum <= OneShareMore
  BY <1>6, <1>7, <1>8
<1> QED
  BY <1>9, <1>10

\* Whole shares, one at the least, never cost more than what is free, or than
\* one share does.
LEMMA SizeIsAffordable ==
    ASSUME NEW price \in Nat, price > 0, NEW free \in Nat, NEW size \in Nat \ {0}
    PROVE  LET units == Min({size, Max({1, free \div price})})
           IN  /\ units \in Nat /\ units > 0
               /\ price * units <= free \/ price * units = price
<1> DEFINE n == free \div price
           most == Max({1, n})
           units == Min({size, most})
<1>1. n \in Nat /\ price * n <= free
  BY SMT
<1> HIDE DEF n
<1>2. most \in Nat /\ most > 0 /\ (most = n \/ most = 1)
  <2>1. CASE n >= 1
    <3>1. n \in {1, n} /\ \A y \in {1, n} : n >= y
      BY <1>1, <2>1
    <3>2. most \in {1, n} /\ \A y \in {1, n} : most >= y
      BY <3>1 DEF Max
    <3> QED
      BY <1>1, <2>1, <3>2
  <2>2. CASE ~(n >= 1)
    <3>1. 1 \in {1, n} /\ \A y \in {1, n} : 1 >= y
      BY <1>1, <2>2
    <3>2. most \in {1, n} /\ \A y \in {1, n} : most >= y
      BY <3>1 DEF Max
    <3> QED
      BY <1>1, <2>2, <3>2
  <2> QED
    BY <2>1, <2>2
<1> HIDE DEF most
<1>3. units \in Nat /\ units > 0 /\ units <= most
  <2>1. \E m \in {size, most} : \A y \in {size, most} : m <= y
    <3>1. CASE size <= most
      BY <1>2, <3>1
    <3>2. CASE most <= size
      BY <1>2, <3>2
    <3> QED
      BY <1>2, <3>1, <3>2
  <2>2. units \in {size, most} /\ \A y \in {size, most} : units <= y
    BY <2>1 DEF Min
  <2> QED
    BY <1>2, <2>2
<1> HIDE DEF units
<1>4. price * units <= price * most
  BY <1>2, <1>3
<1>5. CASE most = n
  <2>1. price * units \in Nat /\ price * most \in Nat
    BY <1>2, <1>3
  <2> QED
    BY <1>1, <1>3, <1>4, <1>5, <2>1 DEF units, most, n
<1>6. CASE most = 1
  <2>1. units = 1
    BY <1>3, <1>6
  <2> QED
    BY <2>1 DEF units, most, n
<1> QED
  BY <1>2, <1>5, <1>6

\* An entry that ends, fills or is written off ties up no more than before.
LEMMA EntryEndsKeepsCapital ==
    ASSUME CapitalInv, IsFiniteSet(CtlSignals), NEW s \in CtlSignals, NEW e \in EntryRow,
           entry' = [entry EXCEPT ![s] = e], entry[s].state # "none",
           e.units = entry[s].units \/ e = NoEntry, e.state = "none" => e.units = 0,
           UNCHANGED <<ctlPrograms, run>>, killList' \subseteq CtlSignals
    PROVE  CapitalInv'
<1>1. EntryType'
  BY DEF CapitalInv, EntryType
<1>2. \A t \in CtlSignals : entry'[t].state = "none" => entry'[t].units = 0
  BY DEF CapitalInv, EntryType
<1>3. Committed \in Nat /\ Committed' \in Nat
  BY CommittedMoves, CommittedIsNat DEF CapitalInv
<1>4. Committed' <= Committed
  <2>1. Committed' = Committed - CtlPrice[s] * entry[s].units + CtlPrice[s] * e.units
    BY CommittedMoves DEF CapitalInv
  <2>2. CtlPrice[s] \in Nat /\ entry[s].units \in Nat /\ e.units \in Nat
    BY CostIsNat DEF CapitalInv, EntryType, EntryRow
  <2>3. CtlPrice[s] * e.units <= CtlPrice[s] * entry[s].units
    <3>1. CASE e.units = entry[s].units
      BY <2>2, <3>1
    <3>2. CASE e = NoEntry
      <4>1. \A m, n \in Nat : m * 0 <= m * n
        OBVIOUS
      <4> QED
        BY <2>2, <3>2, <4>1 DEF NoEntry
    <3> QED
      BY <3>1, <3>2
  <2>4. CtlPrice[s] * e.units \in Nat /\ CtlPrice[s] * entry[s].units \in Nat
    BY <2>2
  <2> QED
    BY <1>3, <2>1, <2>3, <2>4
<1>5. Spendable \in Int /\ Spendable' = Spendable
  BY OneShareMoreIsMost, CtlAssumption DEF Spendable, OneShareMore
<1>6. ASSUME Cardinality(CtlRuns) = 1, ~CtlHas("confirm")'
      PROVE  /\ Committed' <= Spendable'
             /\ \A r \in CtlRuns : \A q \in run'[r].sizing :
                   /\ run'[r].sizing = {q} /\ entry'[q].state = "none"
                   /\ Committed' + CtlPrice[q] * run'[r].units <= Spendable'
  <2>1. Committed <= Spendable
    BY <1>6 DEF CapitalInv, CtlHas
  <2>2. ASSUME NEW r \in CtlRuns, NEW q \in run[r].sizing
        PROVE  /\ run[r].sizing = {q} /\ entry'[q].state = "none"
               /\ Committed' + CtlPrice[q] * run[r].units <= Spendable
    <3>1. /\ run[r].sizing = {q} /\ entry[q].state = "none"
          /\ Committed + CtlPrice[q] * run[r].units <= Spendable
      BY <1>6, <2>2 DEF CapitalInv, CtlHas
    <3>2. q \in CtlSignals /\ q # s
      BY <2>2, <3>1 DEF CapitalInv, EntryType, RunLocals
    <3>3. CtlPrice[q] * run[r].units \in Nat
      <4>1. CtlPrice[q] \in Nat /\ run[r].units \in Nat
        BY <3>2, CostIsNat DEF CapitalInv, EntryType, RunLocals
      <4> QED
        BY <4>1
    <3>4. entry'[q] = entry[q]
      BY <3>2 DEF CapitalInv, EntryType
    <3>5. Committed' + CtlPrice[q] * run[r].units <= Spendable
      BY <1>3, <1>4, <1>5, <3>1, <3>3
    <3> QED
      BY <3>1, <3>4, <3>5
  <2>3. Committed' <= Spendable
    BY <1>3, <1>4, <1>5, <2>1
  <2> QED
    BY <1>5, <2>2, <2>3
<1> QED
  BY <1>1, <1>2, <1>6 DEF CapitalInv

\* A run that is left with nothing to submit.
LEMMA RunRestsKeepsCapital ==
    ASSUME CapitalInv, NEW r \in CtlRuns, NEW l \in RunLocals, l.sizing = {},
           run' = [run EXCEPT ![r] = l], UNCHANGED <<ctlPrograms, entry, killList>>
    PROVE  CapitalInv'
<1>1. EntryType'
  BY DEF CapitalInv, EntryType
<1>2. UNCHANGED <<Committed, Spendable>>
  BY CommittedStays
<1>3. \A q \in CtlRuns : run'[q].sizing = {} \/ run'[q] = run[q]
  BY DEF CapitalInv, EntryType
<1>4. CtlHas("confirm")' <=> CtlHas("confirm")
  BY DEF CtlHas
<1> QED
  BY <1>1, <1>2, <1>3, <1>4 DEF CapitalInv

LEMMA SizeEntryKeepsCapital ==
    ASSUME CapitalInv, IsFiniteSet(CtlSignals), IsFiniteSet(CtlRuns),
           NEW r \in CtlRuns, NEW s \in CtlSignals, SizeEntry(r, s)
    PROVE  CapitalInv'
<1> DEFINE units == Min({CtlSize, Max({1, Available \div CtlPrice[s]})})
           l == [todo |-> run[r].todo \ {s}, sizing |-> {s}, units |-> units]
<1>1. /\ entry[s].state = "none" /\ Available >= CtlMinimum /\ run' = [run EXCEPT ![r] = l]
      /\ UNCHANGED <<ctlPrograms, entry, killList>>
  BY DEF SizeEntry
<1>2. CtlPrice[s] \in Nat /\ CtlPrice[s] > 0 /\ CtlMinimum \in Nat /\ CtlCapital \in Nat
      /\ CtlSize \in Nat \ {0}
  BY CostIsNat, CtlAssumption DEF CapitalInv
<1>3. Committed \in Nat
  BY CommittedIsNat DEF CapitalInv
<1>4. Available \in Nat /\ Available = CtlCapital - Committed
  BY <1>1, <1>2, <1>3 DEF Available
<1>5. /\ units \in Nat /\ units > 0
      /\ CtlPrice[s] * units <= Available \/ CtlPrice[s] * units = CtlPrice[s]
  BY <1>2, <1>4, SizeIsAffordable
<1> HIDE DEF units
<1>6. l \in RunLocals
  <2>1. run[r].todo \subseteq CtlSignals
    BY DEF CapitalInv, EntryType, RunLocals
  <2> QED
    BY <1>5, <2>1 DEF RunLocals
<1>7. EntryType'
  BY <1>1, <1>6 DEF CapitalInv, EntryType
<1>8. OneShareMore \in Nat /\ CtlPrice[s] - CtlMinimum <= OneShareMore
  BY OneShareMoreIsMost
<1>9. Committed + CtlPrice[s] * units <= Spendable
  <2>1. CASE CtlPrice[s] * units <= Available
    <3>1. CtlPrice[s] * units \in Nat
      BY <1>2, <1>5
    <3> QED
      BY <1>2, <1>3, <1>4, <1>8, <2>1, <3>1 DEF Spendable
  <2>2. CASE CtlPrice[s] * units = CtlPrice[s]
    <3>1. Committed <= CtlCapital - CtlMinimum
      BY <1>1, <1>2, <1>3, <1>4
    <3> QED
      BY <1>2, <1>3, <1>8, <2>2, <3>1 DEF Spendable
  <2> QED
    BY <1>5, <2>1, <2>2
<1>10. UNCHANGED <<Committed, Spendable>>
  BY <1>1, CommittedStays
<1>11. run'[r] = l /\ \A q \in CtlRuns : q # r => run'[q] = run[q]
  BY <1>1 DEF CapitalInv, EntryType
<1>12. CtlHas("confirm")' <=> CtlHas("confirm")
  BY <1>1 DEF CtlHas
<1>13. ASSUME Cardinality(CtlRuns) = 1, ~CtlHas("confirm")
       PROVE  /\ Committed' <= Spendable'
              /\ \A q \in CtlRuns : \A t \in run'[q].sizing :
                    /\ run'[q].sizing = {t} /\ entry'[t].state = "none"
                    /\ Committed' + CtlPrice[t] * run'[q].units <= Spendable'
  <2>1. ASSUME NEW q \in CtlRuns, NEW t \in run'[q].sizing
        PROVE  /\ run'[q].sizing = {t} /\ entry'[t].state = "none"
               /\ Committed' + CtlPrice[t] * run'[q].units <= Spendable'
    <3>1. CASE q = r
      <4>1. run'[q].sizing = {s} /\ run'[q].units = units
        BY <1>11, <3>1
      <4>2. t = s
        BY <2>1, <4>1
      <4> QED
        BY <1>1, <1>9, <1>10, <4>1, <4>2
    <3>2. CASE q # r
      BY <1>1, <1>10, <1>11, <1>13, <2>1, <3>2 DEF CapitalInv
    <3> QED
      BY <3>1, <3>2
  <2>2. Committed <= Spendable
    BY <1>13 DEF CapitalInv
  <2> QED
    BY <1>10, <2>1, <2>2
<1> QED
  BY <1>1, <1>7, <1>12, <1>13 DEF CapitalInv

\* What was reserved becomes committed.
LEMMA SubmitEntryKeepsCapital ==
    ASSUME CapitalInv, IsFiniteSet(CtlSignals), IsFiniteSet(CtlRuns),
           NEW r \in CtlRuns, NEW s \in CtlSignals, SubmitEntry(r, s)
    PROVE  CapitalInv'
<1> DEFINE e == [state |-> "working", units |-> run[r].units]
           l == [run[r] EXCEPT !.sizing = {}, !.units = 0]
<1>1. /\ s \in run[r].sizing /\ entry' = [entry EXCEPT ![s] = e] /\ run' = [run EXCEPT ![r] = l]
      /\ UNCHANGED <<ctlPrograms, killList>>
  BY DEF SubmitEntry
<1>2. run[r] \in RunLocals
  BY DEF CapitalInv, EntryType
<1>3. e \in EntryRow /\ l \in RunLocals
  BY <1>2 DEF EntryRow, RunLocals
<1>4. EntryType'
  BY <1>1, <1>3 DEF CapitalInv, EntryType
<1>5. \A t \in CtlSignals : entry'[t].state = "none" => entry'[t].units = 0
  BY <1>1 DEF CapitalInv, EntryType
<1>6. UNCHANGED Spendable /\ (CtlHas("confirm")' <=> CtlHas("confirm"))
  BY <1>1 DEF Spendable, OneShareMore, CtlHas
<1>7. ASSUME Cardinality(CtlRuns) = 1, ~CtlHas("confirm")
      PROVE  /\ Committed' <= Spendable
             /\ \A q \in CtlRuns : run'[q].sizing = {}
  <2>1. entry[s].state = "none" /\ Committed + CtlPrice[s] * run[r].units <= Spendable
    BY <1>1, <1>7 DEF CapitalInv
  <2>2. entry[s].units = 0
    BY <2>1 DEF CapitalInv
  <2>3. Committed' = Committed - CtlPrice[s] * entry[s].units + CtlPrice[s] * e.units
    BY <1>1, <1>3, CommittedMoves DEF CapitalInv
  <2>4. CtlPrice[s] \in Nat /\ run[r].units \in Nat /\ Committed \in Nat
    BY <1>2, CostIsNat, CommittedIsNat DEF CapitalInv, RunLocals
  <2>5. CtlPrice[s] * run[r].units \in Nat /\ CtlPrice[s] * 0 = 0
    BY <2>4
  <2>6. Committed' = Committed + CtlPrice[s] * run[r].units
    BY <2>2, <2>3, <2>4, <2>5
  <2>7. \A q \in CtlRuns : q = r
    BY <1>7, FS_Singleton
  <2>8. run'[r].sizing = {}
    BY <1>1, <1>2 DEF CapitalInv, EntryType, RunLocals
  <2> QED
    BY <2>1, <2>6, <2>7, <2>8
<1> QED
  BY <1>4, <1>5, <1>6, <1>7 DEF CapitalInv

\* A person who confirms is outside of the bound.
LEMMA ConfirmKeepsCapital ==
    ASSUME CapitalInv, NEW s \in CtlSignals, ConfirmSignal(s)
    PROVE  CapitalInv'
<1>1. /\ "confirm" \in ctlPrograms
      /\ entry' = [entry EXCEPT ![s] = [state |-> "working", units |-> CtlSize]]
      /\ UNCHANGED <<ctlPrograms, run, killList>>
  BY DEF ConfirmSignal, CtlHas
<1>2. [state |-> "working", units |-> CtlSize] \in EntryRow
  BY CtlAssumption DEF EntryRow
<1>3. EntryType' /\ \A t \in CtlSignals : entry'[t].state = "none" => entry'[t].units = 0
  BY <1>1, <1>2 DEF CapitalInv, EntryType
<1> QED
  BY <1>1, <1>3 DEF CapitalInv, CtlHas

LEMMA EntryStepKeepsCapital ==
    ASSUME CapitalInv, IsFiniteSet(CtlSignals), NEW s \in CtlSignals,
           KillCancels(s) \/ EntryFills(s) \/ EntryExpires(s) \/ EntryWrittenOff(s) \/ PositionCloses(s)
    PROVE  CapitalInv'
<1>1. entry[s] \in EntryRow /\ killList \subseteq CtlSignals
  BY DEF CapitalInv, EntryType
<1>2. NoEntry \in EntryRow /\ NoEntry.units = 0
  BY DEF NoEntry, EntryRow
<1>3. CASE entry' = entry /\ KillCancels(s)
  <2>1. UNCHANGED <<ctlPrograms, run, entry>> /\ killList' \subseteq CtlSignals
    BY <1>1, <1>3 DEF KillCancels
  <2>2. UNCHANGED <<Committed, Spendable>> /\ (CtlHas("confirm")' <=> CtlHas("confirm"))
    BY <2>1, CommittedStays DEF CtlHas
  <2> QED
    BY <2>1, <2>2 DEF CapitalInv, EntryType
<1>4. ASSUME NEW state \in {"cancelled", "held"}, entry' = [entry EXCEPT ![s].state = state],
             entry[s].state # "none", UNCHANGED <<ctlPrograms, run>>, killList' \subseteq CtlSignals
      PROVE  CapitalInv'
  <2> DEFINE e == [entry[s] EXCEPT !.state = state]
  <2>1. e \in EntryRow /\ e.units = entry[s].units /\ e.state # "none"
    BY <1>1 DEF EntryRow
  <2>2. entry' = [entry EXCEPT ![s] = e]
    BY <1>4
  <2> HIDE DEF e
  <2> QED
    BY <1>4, <2>1, <2>2, EntryEndsKeepsCapital
<1>5. CASE KillCancels(s) /\ entry' # entry
  BY <1>1, <1>4, <1>5 DEF KillCancels
<1>6. CASE EntryFills(s)
  BY <1>1, <1>4, <1>6 DEF EntryFills
<1>7. CASE EntryExpires(s)
  BY <1>1, <1>4, <1>7 DEF EntryExpires
<1>8. CASE EntryWrittenOff(s) \/ PositionCloses(s)
  <2>1. /\ entry' = [entry EXCEPT ![s] = NoEntry] /\ entry[s].state # "none"
        /\ UNCHANGED <<ctlPrograms, run, killList>>
    BY <1>8 DEF EntryWrittenOff, PositionCloses
  <2> QED
    BY <1>1, <1>2, <2>1, EntryEndsKeepsCapital
<1> QED
  BY <1>3, <1>5, <1>6, <1>7, <1>8

LEMMA RunStepKeepsCapital ==
    ASSUME CapitalInv, NEW r \in CtlRuns,
           \/ StartRun(r)
           \/ \E s \in CtlSignals : PassOver(r, s) \/ EntryRefused(r, s)
    PROVE  CapitalInv'
<1>1. run[r] \in RunLocals /\ Pending \subseteq CtlSignals
  BY DEF CapitalInv, EntryType, Pending
<1>2. CASE StartRun(r)
  <2> DEFINE l == [run[r] EXCEPT !.todo = Pending]
  <2>1. l \in RunLocals /\ l.sizing = {}
    BY <1>1, <1>2 DEF StartRun, Asleep, RunLocals
  <2>2. run' = [run EXCEPT ![r] = l] /\ UNCHANGED <<ctlPrograms, entry, killList>>
    BY <1>2 DEF StartRun
  <2> HIDE DEF l
  <2> QED
    BY <2>1, <2>2, RunRestsKeepsCapital
<1>3. ASSUME NEW s \in CtlSignals, PassOver(r, s)
      PROVE  CapitalInv'
  <2> DEFINE l == [run[r] EXCEPT !.todo = run[r].todo \ {s}]
  <2>1. l \in RunLocals /\ l.sizing = {}
    BY <1>1, <1>3 DEF PassOver, RunLocals
  <2>2. run' = [run EXCEPT ![r] = l] /\ UNCHANGED <<ctlPrograms, entry, killList>>
    BY <1>3 DEF PassOver
  <2> HIDE DEF l
  <2> QED
    BY <2>1, <2>2, RunRestsKeepsCapital
<1>4. ASSUME NEW s \in CtlSignals, EntryRefused(r, s)
      PROVE  CapitalInv'
  <2> DEFINE l == [run[r] EXCEPT !.sizing = {}, !.units = 0]
  <2>1. l \in RunLocals /\ l.sizing = {}
    BY <1>1 DEF RunLocals
  <2>2. run' = [run EXCEPT ![r] = l] /\ UNCHANGED <<ctlPrograms, entry, killList>>
    BY <1>4 DEF EntryRefused
  <2> HIDE DEF l
  <2> QED
    BY <2>1, <2>2, RunRestsKeepsCapital
<1> QED
  BY <1>2, <1>3, <1>4

LEMMA CtlNextKeepsCapital ==
    ASSUME CapitalInv, IsFiniteSet(CtlSignals), IsFiniteSet(CtlRuns), [CtlNext]_ctlVars
    PROVE  CapitalInv'
<1>1. CASE UNCHANGED ctlVars \/ PauseOrResume \/ KillSwitch \/ KillGivesUp \/ DayTurns
  <2>1. UNCHANGED <<ctlPrograms, run, entry>> /\ killList' \subseteq CtlSignals
    BY <1>1 DEF ctlVars, PauseOrResume, KillSwitch, KillGivesUp, DayTurns, CapitalInv, EntryType, In
  <2>2. UNCHANGED <<Committed, Spendable>> /\ (CtlHas("confirm")' <=> CtlHas("confirm"))
    BY <2>1, CommittedStays DEF CtlHas
  <2> QED
    BY <2>1, <2>2 DEF CapitalInv, EntryType
<1>2. CASE \E r \in CtlRuns : \/ StartRun(r)
                              \/ \E s \in CtlSignals : PassOver(r, s) \/ EntryRefused(r, s)
  BY <1>2, RunStepKeepsCapital
<1>3. CASE \E r \in CtlRuns, s \in CtlSignals : SizeEntry(r, s)
  BY <1>3, SizeEntryKeepsCapital
<1>4. CASE \E r \in CtlRuns, s \in CtlSignals : SubmitEntry(r, s)
  BY <1>4, SubmitEntryKeepsCapital
<1>5. CASE \E s \in CtlSignals : ConfirmSignal(s)
  BY <1>5, ConfirmKeepsCapital
<1>6. CASE \E s \in CtlSignals : \/ KillCancels(s) \/ EntryFills(s) \/ EntryExpires(s)
                                 \/ EntryWrittenOff(s) \/ PositionCloses(s)
  BY <1>6, EntryStepKeepsCapital
<1> QED
  BY <1>1, <1>2, <1>3, <1>4, <1>5, <1>6 DEF CtlNext

\* A scheduled run counts every order that stands before it, so that what an
\* account has committed stays within its capital and one share, whatever
\* fills, expires, is killed or is written off meanwhile.
THEOREM CapitalIsKept ==
    ASSUME IsFiniteSet(CtlSignals), IsFiniteSet(CtlRuns)
    PROVE  CtlSpec => []CapitalNotOverspent
<1>1. CtlInit => CapitalInv
  <2>1. SUFFICES ASSUME CtlInit
                 PROVE  CapitalInv
    OBVIOUS
  <2>2. EntryType /\ \A s \in CtlSignals : entry[s].units = 0
    BY <2>1 DEF CtlInit, EntryType, EntryRow, RunLocals, NoEntry, Asleep
  <2>3. \A s \in CtlSignals : CostOf[s] = 0
    <3>1. \A s \in CtlSignals : CtlPrice[s] \in Nat
      BY CtlAssumption
    <3>2. \A m \in Nat : m * 0 = 0
      OBVIOUS
    <3> QED
      BY <2>2, <3>1, <3>2 DEF CostOf
  <2>4. CostOf = [s \in CtlSignals |-> 0]
    BY <2>3 DEF CostOf
  <2>5. Committed = 0
    BY <2>4, CommittedIsSum, SumOfZeros
  <2>6. Spendable \in Nat
    BY OneShareMoreIsMost, CtlAssumption DEF Spendable
  <2>7. \A r \in CtlRuns : run[r].sizing = {}
    BY <2>1 DEF CtlInit, Asleep
  <2> QED
    BY <2>2, <2>5, <2>6, <2>7 DEF CapitalInv
<1>2. CapitalInv /\ [CtlNext]_ctlVars => CapitalInv'
  BY CtlNextKeepsCapital
<1>3. CapitalInv => CapitalNotOverspent
  BY DEF CapitalInv, CapitalNotOverspent, Spendable, OneShareMore
<1> QED
  BY <1>1, <1>2, <1>3, PTL DEF CtlSpec

-----------------------------------------------------------------------------
(* Market data.  First the bars: a refresh holds one bar, the newest that  *)
(* the source had, and files it under its own day only.                    *)

BarsInv ==
    /\ \A f, g \in fetched : f = g
    /\ bars \in [1..MdDays -> Nat]
    /\ BarIsOfItsDay

LEMMA MdNextKeepsBars ==
    ASSUME BarsInv, [MdNext]_mdVars, source \in Nat, fetched \subseteq Nat
    PROVE  BarsInv'
<1>1. CASE UNCHANGED <<mdSetting, fetched, bars>>
  BY <1>1 DEF BarsInv, BarIsOfItsDay, MdHas
<1>2. CASE FetchBars
  BY <1>2 DEF FetchBars, BarsInv, BarIsOfItsDay, MdHas
<1>3. CASE StoreScreened
  BY <1>3 DEF StoreScreened, BarsInv, BarIsOfItsDay, MdHas
<1>4. ASSUME NEW asx \in BOOLEAN, StoreBars(asx)
      PROVE  BarsInv'
  <2>1. PICK f \in fetched : \A g \in fetched : g = f
    BY <1>4 DEF StoreBars, BarsInv
  <2>2. (CHOOSE g \in fetched : TRUE) = f
    BY <2>1
  <2>3. bars' = [d \in 1..MdDays |->
                   IF \E g \in fetched \cap Acceptable(asx) : DatedAs(g) = d
                   THEN CHOOSE g \in fetched : TRUE ELSE bars[d]]
    BY <1>4 DEF StoreBars
  <2>4. ASSUME NEW d \in 1..MdDays
        PROVE  bars'[d] \in {d, bars[d]}
    <3>1. CASE \E g \in fetched \cap Acceptable(asx) : DatedAs(g) = d
      <4>1. f = d
        BY <2>1, <3>1 DEF DatedAs
      <4> QED
        BY <2>2, <2>3, <3>1, <4>1
    <3>2. CASE ~ \E g \in fetched \cap Acceptable(asx) : DatedAs(g) = d
      BY <2>3, <3>2
    <3> QED
      BY <3>1, <3>2
  <2>5. bars' \in [1..MdDays -> Nat]
    <3>1. \A d \in 1..MdDays : bars'[d] \in Nat
      BY <2>4 DEF BarsInv
    <3> QED
      BY <2>3, <3>1
  <2>6. fetched' = {} /\ mdSetting' = mdSetting
    BY <1>4 DEF StoreBars
  <2> QED
    BY <2>4, <2>5, <2>6 DEF BarsInv, BarIsOfItsDay, MdHas
<1>5. UNCHANGED <<mdSetting, fetched, bars>> \/ FetchBars \/ StoreScreened
         \/ \E asx \in BOOLEAN : StoreBars(asx)
  BY DEF MdNext, mdVars, mdBars, mdRegime, mdCache, NextTradingDay, SourceMoves, Evaluate,
         EvaluatorDies, Record, EvaluationFails, Tell, Tick, RedisFails, AskRate,
         RefreshLivePrice, ShowPrice, ProcessRestarts, AskCalendar
<1> QED
  BY <1>1, <1>2, <1>3, <1>4, <1>5

(* The regime: without a fault one evaluation goes on at a time, and whom  *)
(* it has not to tell any more is shown what it recorded.                  *)

EvaluationType ==
    [at : {"idle", "judged", "telling"}, value : MdRegimes \cup {"none"}, tell : SUBSET MdOrgs]

Telling(r) == evaluation[r].at = "telling"

RegimeInv ==
    /\ evaluation \in [Runs -> EvaluationType] /\ DOMAIN shown = MdOrgs
    /\ \A r \in Runs : /\ evaluation[r].at = "idle" => evaluation[r] = Idle
                       /\ evaluation[r].tell # {} => Telling(r)
    /\ MdHas("regime") /\ ~MdHas("faults") =>
          /\ \A r, q \in Runs : evaluation[r] # Idle /\ evaluation[q] # Idle => r = q
          /\ \A r \in Runs : Telling(r) =>
                /\ record = evaluation[r].value
                /\ \A o \in MdOrgs \ evaluation[r].tell : shown[o] = record
          /\ (\A r \in Runs : evaluation[r] = Idle) => \A o \in MdOrgs : shown[o] = record

LEMMA EvaluationKeepsRegime ==
    ASSUME RegimeInv, NEW r \in Runs,
           \/ \E value \in MdRegimes : Evaluate(r, value) \/ EvaluatorDies(r, value)
           \/ Record(r) \/ EvaluationFails(r)
    PROVE  RegimeInv'
<1>1. evaluation \in [Runs -> EvaluationType] /\ evaluation[r] \in EvaluationType
  BY DEF RegimeInv
<1>2. Idle \in EvaluationType
  BY DEF Idle, EvaluationType
<1>3. CASE \E value \in MdRegimes : Evaluate(r, value) \/ EvaluatorDies(r, value)
  <2>1. PICK value \in MdRegimes : Evaluate(r, value) \/ EvaluatorDies(r, value)
    BY <1>3
  <2> DEFINE e == [at |-> "judged", value |-> value, tell |-> {}]
  <2>2. /\ evaluation' = [evaluation EXCEPT ![r] = e] /\ UNCHANGED <<mdSetting, record, shown>>
        /\ evaluation[r] # Idle \/ MdHas("faults") \/ \A q \in Runs : evaluation[q].at = "idle"
    BY <2>1 DEF Evaluate, EvaluatorDies, Redelivered, Idle
  <2>3. e \in EvaluationType /\ e # Idle /\ e.at = "judged" /\ e.tell = {}
    BY DEF EvaluationType, Idle
  <2> HIDE DEF e
  <2>4. evaluation' \in [Runs -> EvaluationType] /\ evaluation'[r] = e
        /\ \A q \in Runs \ {r} : evaluation'[q] = evaluation[q]
    BY <1>1, <2>2, <2>3
  <2>5. MdHas("faults")' = MdHas("faults") /\ MdHas("regime")' = MdHas("regime")
    BY <2>2 DEF MdHas
  <2>6. MdHas("regime") /\ ~MdHas("faults") => \A q \in Runs \ {r} : evaluation[q] = Idle
    BY <2>2 DEF RegimeInv
  <2> QED
    BY <2>2, <2>3, <2>4, <2>5, <2>6 DEF RegimeInv, Telling, Idle
<1>4. CASE Record(r)
  <2> DEFINE e == [evaluation[r] EXCEPT !.at = "telling", !.tell = MdOrgs]
  <2>1. /\ evaluation' = [evaluation EXCEPT ![r] = e] /\ UNCHANGED <<mdSetting, shown>>
        /\ record' = evaluation[r].value /\ evaluation[r].at = "judged"
    BY <1>4 DEF Record
  <2>2. e \in EvaluationType /\ e # Idle /\ e.at = "telling" /\ e.tell = MdOrgs
        /\ e.value = evaluation[r].value
    BY <1>1 DEF EvaluationType, Idle
  <2> HIDE DEF e
  <2>3. evaluation' \in [Runs -> EvaluationType] /\ evaluation'[r] = e
        /\ \A q \in Runs \ {r} : evaluation'[q] = evaluation[q]
    BY <1>1, <2>1, <2>2
  <2>4. MdHas("faults")' = MdHas("faults") /\ MdHas("regime")' = MdHas("regime")
    BY <2>1 DEF MdHas
  <2>5. MdHas("regime") /\ ~MdHas("faults") => \A q \in Runs \ {r} : evaluation[q] = Idle
    BY <2>1 DEF RegimeInv, Idle
  <2>6. \A q \in Runs : /\ evaluation'[q].at = "idle" => evaluation'[q] = Idle
                        /\ evaluation'[q].tell # {} => evaluation'[q].at = "telling"
    BY <2>2, <2>3 DEF RegimeInv, Telling
  <2>7. ASSUME MdHas("regime"), ~MdHas("faults")
        PROVE  /\ \A p, q \in Runs : evaluation'[p] # Idle /\ evaluation'[q] # Idle => p = q
               /\ \A q \in Runs : evaluation'[q].at = "telling" =>
                     /\ record' = evaluation'[q].value
                     /\ \A o \in MdOrgs \ evaluation'[q].tell : shown'[o] = record'
               /\ evaluation'[r] # Idle
    <3>1. \A q \in Runs \ {r} : evaluation'[q] = Idle /\ evaluation'[q].at = "idle"
      BY <2>3, <2>5, <2>7 DEF Idle
    <3> QED
      BY <2>1, <2>2, <2>3, <3>1
  <2> QED
    BY <2>1, <2>3, <2>4, <2>6, <2>7 DEF RegimeInv, Telling
<1>5. CASE EvaluationFails(r)
  <2>1. evaluation' = [evaluation EXCEPT ![r] = Idle] /\ MdHas("faults") /\ UNCHANGED <<mdSetting, shown>>
    BY <1>5 DEF EvaluationFails
  <2>2. MdHas("faults")'
    BY <2>1 DEF MdHas
  <2>3. evaluation' \in [Runs -> EvaluationType] /\ evaluation'[r] = Idle
        /\ \A q \in Runs \ {r} : evaluation'[q] = evaluation[q]
    BY <1>1, <1>2, <2>1
  <2>4. \A q \in Runs : /\ evaluation'[q].at = "idle" => evaluation'[q] = Idle
                        /\ evaluation'[q].tell # {} => evaluation'[q].at = "telling"
    BY <2>3 DEF RegimeInv, Telling, Idle
  <2> QED
    BY <2>1, <2>2, <2>3, <2>4 DEF RegimeInv, Telling
<1> QED
  BY <1>3, <1>4, <1>5

LEMMA TellKeepsRegime ==
    ASSUME RegimeInv, NEW r \in Runs, NEW o \in MdOrgs, Tell(r, o)
    PROVE  RegimeInv'
<1> DEFINE e == IF evaluation[r].tell = {o} THEN Idle
                ELSE [evaluation[r] EXCEPT !.tell = evaluation[r].tell \ {o}]
<1>1. evaluation \in [Runs -> EvaluationType] /\ evaluation[r] \in EvaluationType
      /\ DOMAIN shown = MdOrgs
  BY DEF RegimeInv
<1>2. Idle \in EvaluationType
  BY DEF Idle, EvaluationType
<1>3. /\ o \in evaluation[r].tell /\ Telling(r) /\ evaluation' = [evaluation EXCEPT ![r] = e]
      /\ shown' = [shown EXCEPT ![o] = evaluation[r].value] /\ UNCHANGED <<mdSetting, record>>
  BY <1>1 DEF Tell, RegimeInv
<1>4. e \in EvaluationType /\ (e.at = "idle" => e = Idle)
  <2>1. evaluation[r].at = "idle" => e = Idle
    BY <1>3 DEF RegimeInv, Idle
  <2> QED
    BY <1>1, <1>2, <2>1 DEF EvaluationType
<1>5. e = Idle \/ (e.at = evaluation[r].at /\ e.value = evaluation[r].value
                     /\ e.tell = evaluation[r].tell \ {o})
  BY <1>1 DEF EvaluationType
<1>6. e = Idle => evaluation[r].tell \subseteq {o}
  BY <1>3 DEF RegimeInv, Idle, EvaluationType
<1> HIDE DEF e
<1>7. evaluation' \in [Runs -> EvaluationType] /\ evaluation'[r] = e
      /\ \A q \in Runs \ {r} : evaluation'[q] = evaluation[q]
  BY <1>1, <1>3, <1>4
<1>8. MdHas("faults")' = MdHas("faults") /\ MdHas("regime")' = MdHas("regime")
  BY <1>3 DEF MdHas
<1>9. ASSUME MdHas("regime"), ~MdHas("faults")
      PROVE  /\ evaluation[r] # Idle /\ \A q \in Runs \ {r} : evaluation[q] = Idle
  BY <1>3, <1>9 DEF RegimeInv, Idle
<1>10. \A q \in Runs : /\ evaluation'[q].at = "idle" => evaluation'[q] = Idle
                       /\ evaluation'[q].tell # {} => evaluation'[q].at = "telling"
  <2>1. e.tell # {} => e.at = "telling"
    BY <1>3, <1>5 DEF Telling, Idle
  <2> QED
    BY <1>4, <1>7, <2>1 DEF RegimeInv, Telling
<1>11. ASSUME MdHas("regime"), ~MdHas("faults")
       PROVE  /\ \A p, q \in Runs : evaluation'[p] # Idle /\ evaluation'[q] # Idle => p = q
              /\ \A q \in Runs : evaluation'[q].at = "telling" =>
                    /\ record' = evaluation'[q].value
                    /\ \A t \in MdOrgs \ evaluation'[q].tell : shown'[t] = record'
              /\ (\A q \in Runs : evaluation'[q] = Idle) => \A t \in MdOrgs : shown'[t] = record'
  <2>1. \A q \in Runs \ {r} : evaluation'[q] = Idle /\ evaluation'[q].at = "idle"
    BY <1>7, <1>9, <1>11 DEF Idle
  <2>2. /\ record = evaluation[r].value
        /\ \A t \in MdOrgs \ evaluation[r].tell : shown[t] = record
    BY <1>3, <1>11 DEF RegimeInv
  <2>3. \A t \in MdOrgs : shown'[t] = IF t = o THEN record ELSE shown[t]
    BY <1>1, <1>3, <2>2
  <2>4. \A t \in MdOrgs \ (evaluation[r].tell \ {o}) : shown'[t] = record'
    BY <1>3, <2>2, <2>3
  <2>5. e = Idle => \A t \in MdOrgs : shown'[t] = record'
    BY <1>6, <2>4
  <2>6. e.at = "telling" => record' = e.value /\ e.tell = evaluation[r].tell \ {o}
    BY <1>3, <1>5, <2>2 DEF Idle
  <2> QED
    BY <1>7, <2>1, <2>4, <2>5, <2>6
<1>12. DOMAIN shown' = MdOrgs
  BY <1>1, <1>3
<1> QED
  BY <1>7, <1>8, <1>10, <1>11, <1>12 DEF RegimeInv, Telling

(* The caches.  In Redis a value's age and the time it has left add up to  *)
(* no more than its lifetime; a process that copies it counts from there.  *)

Cached == [good : BOOLEAN, age : Nat, left : Nat, kept : Nat]

CacheInv ==
    /\ redis \in [up : BOOLEAN, holds : SUBSET Cached]
    /\ memory \in [MdProcesses -> SUBSET Cached]
    /\ ~ (MdHas("rate") /\ MdHas("price"))
    /\ MdHas("rate") =>
          /\ \A v \in redis.holds :
                v.left > 0 /\ v.age + v.left <= MdTtl /\ (v.good \/ MdHas("bridge"))
          /\ \A p \in MdProcesses : \A v \in memory[p] :
                (v.kept < MdTtl => v.age < v.kept + MdTtl) /\ (v.good \/ MdHas("bridge"))
    /\ MdHas("price") /\ ~MdHas("outage") =>
          /\ redis.up /\ \A p \in MdProcesses : memory[p] = {}
          /\ \A v \in redis.holds : v.left > 0 /\ v.age + v.left <= PriceTtl

LEMMA AgedValue ==
    ASSUME NEW v \in Cached
    PROVE  /\ Aged(v) \in Cached /\ Aged(v).good = v.good
           /\ Aged(v).age <= v.age + 1
           /\ v.left > 1 => Aged(v).left = v.left - 1
           /\ Aged(v).kept = IF v.kept < MdTtl THEN v.kept + 1 ELSE v.kept
<1>1. OldAge \in Nat /\ MdTtl \in Nat
  BY MdAssumption DEF OldAge
<1>2. v.age \in Nat /\ v.left \in Nat /\ v.kept \in Nat /\ v.good \in BOOLEAN
  BY DEF Cached
<1> DEFINE age == IF v.age < OldAge THEN v.age + 1 ELSE v.age
           left == IF v.left > 0 THEN v.left - 1 ELSE 0
           kept == IF v.kept < MdTtl THEN v.kept + 1 ELSE v.kept
<1>3. Aged(v) = [v EXCEPT !.age = age, !.left = left, !.kept = kept]
  BY DEF Aged
<1>4. age \in Nat /\ left \in Nat /\ kept \in Nat /\ age <= v.age + 1
      /\ (v.left > 1 => left = v.left - 1)
  BY <1>1, <1>2
<1>5. kept = IF v.kept < MdTtl THEN v.kept + 1 ELSE v.kept
  OBVIOUS
<1> HIDE DEF age, left, kept
<1> QED
  BY <1>2, <1>3, <1>4, <1>5 DEF Cached

LEMMA FreshValue ==
    ASSUME NEW good \in BOOLEAN, NEW ttl \in Nat
    PROVE  /\ Value(good, ttl) \subseteq Cached
           /\ \A v \in Value(good, ttl) : /\ v.good = good /\ v.age = 0
                                          /\ v.left = ttl /\ v.kept = 0
  BY DEF Value, Cached

LEMMA TickKeepsCaches ==
    ASSUME CacheInv, Tick
    PROVE  CacheInv'
<1> DEFINE kept == {w \in redis.holds : w.left > 1}
           holds == {Aged(v) : v \in kept}
<1>0. /\ redis \in [up : BOOLEAN, holds : SUBSET Cached]
      /\ memory \in [MdProcesses -> SUBSET Cached]
      /\ MdTtl \in Nat /\ MdTtl > 0
  BY MdAssumption DEF CacheInv
<1>1. /\ redis' = [redis EXCEPT !.holds = holds]
      /\ memory' = [p \in MdProcesses |-> {Aged(v) : v \in memory[p]}]
      /\ mdSetting' = mdSetting
  BY DEF Tick
<1>2. \A h : MdHas(h)' = MdHas(h)
  BY <1>1 DEF MdHas
<1>3. holds \subseteq Cached
  BY <1>0, AgedValue
<1>4. \A p \in MdProcesses : {Aged(v) : v \in memory[p]} \subseteq Cached
  BY <1>0, AgedValue
<1>5. /\ redis' \in [up : BOOLEAN, holds : SUBSET Cached] /\ redis'.up = redis.up
      /\ redis'.holds = holds
  <2> HIDE DEF holds
  <2> QED
    BY <1>0, <1>1, <1>3
<1>6. memory' \in [MdProcesses -> SUBSET Cached]
  BY <1>1, <1>4
<1>7. ASSUME NEW ttl \in Nat, \A v \in redis.holds : v.left > 0 /\ v.age + v.left <= ttl
      PROVE  \A v \in holds : v.left > 0 /\ v.age + v.left <= ttl
  <2>1. SUFFICES ASSUME NEW w \in kept
                 PROVE  Aged(w).left > 0 /\ Aged(w).age + Aged(w).left <= ttl
    OBVIOUS
  <2>2. w \in Cached /\ w.left > 1 /\ w.age + w.left <= ttl /\ w.age \in Nat /\ w.left \in Nat
    BY <1>0, <1>7 DEF Cached
  <2>3. Aged(w).age \in Nat /\ Aged(w).age <= w.age + 1 /\ Aged(w).left = w.left - 1
    BY <2>2, AgedValue DEF Cached
  <2> QED
    BY <2>2, <2>3
<1>8. ASSUME MdHas("rate")
      PROVE  /\ \A v \in holds :
                  v.left > 0 /\ v.age + v.left <= MdTtl /\ (v.good \/ MdHas("bridge"))
             /\ \A p \in MdProcesses : \A v \in memory'[p] :
                  (v.kept < MdTtl => v.age < v.kept + MdTtl) /\ (v.good \/ MdHas("bridge"))
  <2>1. \A v \in holds : v.left > 0 /\ v.age + v.left <= MdTtl
    BY <1>0, <1>7, <1>8 DEF CacheInv
  <2>2. \A v \in holds : v.good \/ MdHas("bridge")
    <3>1. \A w \in kept : w \in Cached /\ (w.good \/ MdHas("bridge"))
      BY <1>0, <1>8 DEF CacheInv
    <3> QED
      BY <3>1, AgedValue
  <2>3. ASSUME NEW p \in MdProcesses, NEW w \in memory[p]
        PROVE  /\ Aged(w).kept < MdTtl => Aged(w).age < Aged(w).kept + MdTtl
               /\ Aged(w).good \/ MdHas("bridge")
    <3>1. w \in Cached /\ w.age \in Nat /\ w.kept \in Nat
      BY <1>0, <2>3 DEF Cached
    <3>2. (w.kept < MdTtl => w.age < w.kept + MdTtl) /\ (w.good \/ MdHas("bridge"))
      BY <1>8, <2>3 DEF CacheInv
    <3>3. /\ Aged(w).age \in Nat /\ Aged(w).age <= w.age + 1 /\ Aged(w).good = w.good
          /\ Aged(w).kept = IF w.kept < MdTtl THEN w.kept + 1 ELSE w.kept
      BY <3>1, AgedValue DEF Cached
    <3> QED
      BY <1>0, <3>1, <3>2, <3>3
  <2> QED
    BY <1>1, <2>1, <2>2, <2>3
<1>9. ASSUME MdHas("price"), ~MdHas("outage")
      PROVE  /\ redis.up /\ \A p \in MdProcesses : memory'[p] = {}
             /\ \A v \in holds : v.left > 0 /\ v.age + v.left <= PriceTtl
  <2>1. PriceTtl \in Nat
    BY DEF PriceTtl
  <2>2. \A p \in MdProcesses : memory[p] = {}
    BY <1>9 DEF CacheInv
  <2>3. \A p \in MdProcesses : memory'[p] = {}
    BY <1>1, <2>2
  <2> QED
    BY <1>7, <1>9, <2>1, <2>3 DEF CacheInv
<1> HIDE DEF holds
<1> QED
  BY <1>2, <1>5, <1>6, <1>8, <1>9 DEF CacheInv

\* get_fx_rate copies what Redis holds, or keeps a new value in both places.
LEMMA AskRateKeepsCaches ==
    ASSUME CacheInv, NEW p \in MdProcesses, NEW quoted \in BOOLEAN, AskRate(p, quoted)
    PROVE  CacheInv'
<1>0. /\ redis \in [up : BOOLEAN, holds : SUBSET Cached]
      /\ memory \in [MdProcesses -> SUBSET Cached]
      /\ MdTtl \in Nat /\ MdTtl > 0 /\ InRedis \subseteq redis.holds
      /\ MdHas("rate") /\ ~MdHas("price")
  BY MdAssumption DEF CacheInv, InRedis, AskRate
<1>1. \A h : MdHas(h)' = MdHas(h)
  BY DEF AskRate, MdHas
<1>2. \A v \in redis.holds : /\ v \in Cached /\ v.left > 0 /\ v.age + v.left <= MdTtl
                             /\ v.good \/ MdHas("bridge")
  BY <1>0 DEF CacheInv
<1>3. \A q \in MdProcesses : \A v \in memory[q] :
         (v.kept < MdTtl => v.age < v.kept + MdTtl) /\ (v.good \/ MdHas("bridge"))
  BY <1>0 DEF CacheInv
<1>4. CASE CopyFromRedis(p)
  <2> DEFINE copy == {[v EXCEPT !.kept = 0] : v \in InRedis}
  <2>1. memory' = [memory EXCEPT ![p] = copy] /\ redis' = redis
    BY <1>4 DEF CopyFromRedis
  <2>2. ASSUME NEW w \in InRedis
        PROVE  /\ [w EXCEPT !.kept = 0] \in Cached
               /\ [w EXCEPT !.kept = 0].age < [w EXCEPT !.kept = 0].kept + MdTtl
               /\ [w EXCEPT !.kept = 0].good \/ MdHas("bridge")
    <3>1. w \in Cached /\ w.left > 0 /\ w.age + w.left <= MdTtl /\ (w.good \/ MdHas("bridge"))
      BY <1>0, <1>2
    <3>2. w.age < MdTtl
      BY <1>0, <3>1 DEF Cached
    <3> QED
      BY <1>0, <3>1, <3>2 DEF Cached
  <2>3. copy \subseteq Cached /\ \A v \in copy : v.age < v.kept + MdTtl /\ (v.good \/ MdHas("bridge"))
    BY <2>2
  <2> HIDE DEF copy
  <2>4. /\ memory' \in [MdProcesses -> SUBSET Cached]
        /\ \A q \in MdProcesses : memory'[q] = copy \/ memory'[q] = memory[q]
    BY <1>0, <2>1, <2>3
  <2>5. \A q \in MdProcesses : \A v \in memory'[q] :
           (v.kept < MdTtl => v.age < v.kept + MdTtl) /\ (v.good \/ MdHas("bridge"))
    BY <1>3, <2>3, <2>4
  <2> QED
    BY <1>0, <1>1, <1>2, <2>1, <2>4, <2>5 DEF CacheInv
<1>5. CASE /\ quoted \/ MdHas("bridge")
           /\ memory' = [memory EXCEPT ![p] = Value(quoted, MdTtl)]
           /\ redis' = IF redis.up THEN [redis EXCEPT !.holds = Value(quoted, MdTtl)] ELSE redis
  <2> DEFINE new == Value(quoted, MdTtl)
  <2>1. /\ new \subseteq Cached
        /\ \A v \in new : /\ v.left > 0 /\ v.age + v.left <= MdTtl /\ (v.good \/ MdHas("bridge"))
                          /\ v.age < v.kept + MdTtl
    <3>1. new \subseteq Cached /\ \A v \in new : v.good = quoted /\ v.age = 0 /\ v.left = MdTtl /\ v.kept = 0
      BY <1>0, FreshValue
    <3> QED
      BY <1>0, <1>5, <3>1
  <2> HIDE DEF new
  <2>2. memory' = [memory EXCEPT ![p] = new]
        /\ redis' = IF redis.up THEN [redis EXCEPT !.holds = new] ELSE redis
    BY <1>5 DEF new
  <2>3. /\ memory' \in [MdProcesses -> SUBSET Cached]
        /\ \A q \in MdProcesses : memory'[q] = new \/ memory'[q] = memory[q]
    BY <1>0, <2>1, <2>2
  <2>4. /\ redis' \in [up : BOOLEAN, holds : SUBSET Cached]
        /\ redis'.holds = new \/ redis'.holds = redis.holds
    BY <1>0, <2>1, <2>2
  <2>5. \A v \in redis'.holds :
           v.left > 0 /\ v.age + v.left <= MdTtl /\ (v.good \/ MdHas("bridge"))
    BY <1>2, <2>1, <2>4
  <2>6. \A q \in MdProcesses : \A v \in memory'[q] :
           (v.kept < MdTtl => v.age < v.kept + MdTtl) /\ (v.good \/ MdHas("bridge"))
    BY <1>3, <2>1, <2>3
  <2> QED
    BY <1>0, <1>1, <2>3, <2>4, <2>5, <2>6 DEF CacheInv
<1> QED
  BY <1>4, <1>5 DEF AskRate

\* A live price goes to Redis, and to the memory only while Redis is down.
LEMMA PriceKeepsCaches ==
    ASSUME CacheInv, NEW p \in MdProcesses, NEW feeds, MdHas("price"),
           CacheSet(p, Intraday(feeds)), mdSetting' = mdSetting
    PROVE  CacheInv'
<1> DEFINE new == Intraday(feeds)
<1>0. /\ redis \in [up : BOOLEAN, holds : SUBSET Cached]
      /\ memory \in [MdProcesses -> SUBSET Cached] /\ ~MdHas("rate")
  BY DEF CacheInv
<1>1. \A h : MdHas(h)' = MdHas(h)
  BY DEF MdHas
<1>2. new \subseteq Cached /\ \A v \in new : v.left > 0 /\ v.age + v.left <= PriceTtl
  <2>1. PriceTtl = 3 /\ FailTtl = 1
    BY DEF PriceTtl, FailTtl
  <2>2. PriceTtl \in Nat /\ FailTtl \in Nat /\ TRUE \in BOOLEAN /\ FALSE \in BOOLEAN
    BY <2>1
  <2>3. /\ Value(FALSE, FailTtl) \subseteq Cached
        /\ \A v \in Value(FALSE, FailTtl) : v.age = 0 /\ v.left = FailTtl
    BY <2>2, FreshValue
  <2>4. /\ Value(TRUE, PriceTtl) \subseteq Cached
        /\ \A v \in Value(TRUE, PriceTtl) : v.age = 0 /\ v.left = PriceTtl
    BY <2>2, FreshValue
  <2>5. new = Value(FALSE, FailTtl) \/ new = Value(TRUE, PriceTtl)
    BY DEF Intraday
  <2> HIDE DEF new
  <2>6. new \subseteq Cached
    BY <2>3, <2>4, <2>5
  <2>7. \A v \in new : v.age = 0 /\ (v.left = FailTtl \/ v.left = PriceTtl)
    BY <2>3, <2>4, <2>5
  <2> QED
    BY <2>1, <2>6, <2>7
<1> HIDE DEF new
<1>3. IF redis.up THEN redis' = [redis EXCEPT !.holds = new] /\ UNCHANGED memory
                  ELSE memory' = [memory EXCEPT ![p] = new] /\ UNCHANGED redis
  BY DEF CacheSet, new
<1>4. /\ redis' \in [up : BOOLEAN, holds : SUBSET Cached] /\ redis'.up = redis.up
      /\ memory' \in [MdProcesses -> SUBSET Cached]
      /\ redis'.holds = new \/ redis'.holds = redis.holds
      /\ redis.up => memory' = memory
  BY <1>0, <1>2, <1>3
<1> QED
  BY <1>0, <1>1, <1>2, <1>4 DEF CacheInv

LEMMA MdNextKeepsCaches ==
    ASSUME CacheInv, [MdNext]_mdVars
    PROVE  CacheInv'
<1>1. CASE UNCHANGED <<mdSetting, redis, memory>>
  BY <1>1 DEF CacheInv, MdHas
<1>2. CASE Tick
  BY <1>2, TickKeepsCaches
<1>3. CASE RedisFails
  <2>1. MdHas("outage") /\ redis' = [redis EXCEPT !.up = ~redis.up] /\ UNCHANGED <<mdSetting, memory>>
    BY <1>3 DEF RedisFails
  <2>2. redis' \in [up : BOOLEAN, holds : SUBSET Cached] /\ redis'.holds = redis.holds
    BY <2>1 DEF CacheInv
  <2>3. \A h : MdHas(h)' = MdHas(h)
    BY <2>1 DEF MdHas
  <2> QED
    BY <2>1, <2>2, <2>3 DEF CacheInv
<1>4. ASSUME NEW p \in MdProcesses, ProcessRestarts(p)
      PROVE  CacheInv'
  <2>1. memory' = [memory EXCEPT ![p] = {}] /\ UNCHANGED <<mdSetting, redis>>
    BY <1>4 DEF ProcessRestarts
  <2>2. /\ memory' \in [MdProcesses -> SUBSET Cached]
        /\ \A q \in MdProcesses : memory'[q] \subseteq memory[q]
    BY <2>1 DEF CacheInv
  <2>3. \A h : MdHas(h)' = MdHas(h)
    BY <2>1 DEF MdHas
  <2>4. (\A q \in MdProcesses : memory[q] = {}) => \A q \in MdProcesses : memory'[q] = {}
    BY <2>2
  <2> QED
    BY <2>1, <2>2, <2>3, <2>4 DEF CacheInv
<1>5. CASE \E p \in MdProcesses, quoted \in BOOLEAN : AskRate(p, quoted)
  BY <1>5, AskRateKeepsCaches
<1>6. ASSUME NEW p \in MdProcesses, NEW feeds,
             RefreshLivePrice(p, feeds) \/ \E rows \in BOOLEAN : ShowPrice(p, feeds, rows)
      PROVE  CacheInv'
  <2>1. MdHas("price") /\ CacheSet(p, Intraday(feeds)) /\ mdSetting' = mdSetting
    BY <1>6 DEF RefreshLivePrice, ShowPrice
  <2> QED
    BY <2>1, PriceKeepsCaches
<1>7. \/ UNCHANGED <<mdSetting, redis, memory>> \/ Tick \/ RedisFails
      \/ \E p \in MdProcesses : \/ ProcessRestarts(p)
                                \/ \E quoted \in BOOLEAN : AskRate(p, quoted)
                                \/ \E feeds \in SUBSET {"venue", "yahoo"} :
                                      \/ RefreshLivePrice(p, feeds)
                                      \/ \E rows \in BOOLEAN : ShowPrice(p, feeds, rows)
  BY DEF MdNext, mdVars, mdBars, mdRegime, mdCache, NextTradingDay, SourceMoves, FetchBars,
         StoreScreened, StoreBars, Evaluate, EvaluatorDies, Record, EvaluationFails, Tell, AskCalendar
<1> QED
  BY <1>1, <1>2, <1>3, <1>4, <1>5, <1>6, <1>7

LEMMA MdNextKeepsRegime ==
    ASSUME RegimeInv, [MdNext]_mdVars
    PROVE  RegimeInv'
<1>1. CASE UNCHANGED <<mdSetting, record, shown, evaluation>>
  BY <1>1 DEF RegimeInv, MdHas, Telling
<1>2. CASE \E r \in Runs : \/ \E value \in MdRegimes : Evaluate(r, value) \/ EvaluatorDies(r, value)
                           \/ Record(r) \/ EvaluationFails(r)
  BY <1>2, EvaluationKeepsRegime
<1>3. CASE \E r \in Runs, o \in MdOrgs : Tell(r, o)
  BY <1>3, TellKeepsRegime
<1>4. \/ UNCHANGED <<mdSetting, record, shown, evaluation>>
      \/ \E r \in Runs : \/ \E value \in MdRegimes : Evaluate(r, value) \/ EvaluatorDies(r, value)
                         \/ Record(r) \/ EvaluationFails(r) \/ \E o \in MdOrgs : Tell(r, o)
  BY DEF MdNext, mdVars, mdBars, mdRegime, mdCache, NextTradingDay, SourceMoves, FetchBars,
         StoreScreened, StoreBars, Tick, RedisFails, AskRate, RefreshLivePrice, ShowPrice,
         ProcessRestarts, AskCalendar
<1> QED
  BY <1>1, <1>2, <1>3, <1>4

\* Every part of the data keeps what its property needs.
MarketInv ==
    /\ source \in Nat /\ fetched \subseteq Nat
    /\ BarsInv /\ RegimeInv /\ CacheInv

\* For any number of days, organisations and processes, any regimes and any
\* lifetime of a rate: a bar holds the prices of its day, a rate in use is
\* recent, a live price is fresh, and everyone sees the newest regime, through
\* restarts, outages of Redis and workers that die, but for the cases that the
\* four parts leave out.
THEOREM DataStaysCurrent == MdSpec => []DataIsCurrent
<1>1. MdInit => MarketInv
  <2>1. SUFFICES ASSUME MdInit
                 PROVE  MarketInv
    OBVIOUS
  <2>2. source \in Nat /\ fetched \subseteq Nat /\ BarsInv
    BY <2>1 DEF MdInit, BarsInv, BarIsOfItsDay
  <2>3. RegimeInv
    <3>1. evaluation \in [Runs -> EvaluationType] /\ \A r \in Runs : evaluation[r] = Idle
      BY <2>1 DEF MdInit, EvaluationType, Idle
    <3> QED
      BY <2>1, <3>1 DEF MdInit, RegimeInv, Idle, Telling
  <2>4. CacheInv
    <3>1. ~ (MdHas("rate") /\ MdHas("price"))
      BY <2>1, MdAssumption DEF MdInit, MdHas
    <3> QED
      BY <2>1, <3>1 DEF MdInit, CacheInv
  <2> QED
    BY <2>2, <2>3, <2>4 DEF MarketInv
<1>2. MarketInv /\ [MdNext]_mdVars => MarketInv'
  <2>1. SUFFICES ASSUME MarketInv, [MdNext]_mdVars
                 PROVE  MarketInv'
    OBVIOUS
  <2>2. source' \in Nat /\ fetched' \subseteq Nat
    <3>1. CASE UNCHANGED <<source, fetched>>
      BY <2>1, <3>1 DEF MarketInv
    <3>2. CASE \E d \in 1..MdDays : SourceMoves(d)
      <4>1. \A d \in 1..MdDays : d \in Nat
        BY MdAssumption
      <4> QED
        BY <2>1, <3>2, <4>1 DEF MarketInv, SourceMoves
    <3>3. CASE FetchBars \/ \E asx \in BOOLEAN : StoreBars(asx)
      BY <2>1, <3>3 DEF MarketInv, FetchBars, StoreBars
    <3>4. \/ UNCHANGED <<source, fetched>> \/ \E d \in 1..MdDays : SourceMoves(d)
          \/ FetchBars \/ \E asx \in BOOLEAN : StoreBars(asx)
      BY <2>1 DEF MdNext, mdVars, mdBars, mdRegime, mdCache, NextTradingDay, StoreScreened,
         Evaluate, EvaluatorDies, Record, EvaluationFails, Tell, Tick, RedisFails, AskRate,
         RefreshLivePrice, ShowPrice, ProcessRestarts, AskCalendar
    <3> QED
      BY <3>1, <3>2, <3>3, <3>4
  <2> QED
    BY <2>1, <2>2, MdNextKeepsBars, MdNextKeepsRegime, MdNextKeepsCaches DEF MarketInv
<1>3. MarketInv => DataIsCurrent
  <2>1. SUFFICES ASSUME MarketInv
                 PROVE  DataIsCurrent
    OBVIOUS
  <2>2. RateIsRecent
    <3>1. SUFFICES ASSUME MdHas("rate"), NEW p \in MdProcesses, NEW v \in memory[p], v.kept < MdTtl
                   PROVE  v.age < 2 * MdTtl /\ (v.good \/ MdHas("bridge"))
      BY DEF RateIsRecent, InMemory
    <3>2. v \in Cached /\ v.age < v.kept + MdTtl /\ (v.good \/ MdHas("bridge"))
      BY <2>1, <3>1 DEF MarketInv, CacheInv
    <3> QED
      BY <3>1, <3>2, MdAssumption DEF Cached
  <2>3. LivePriceIsFresh
    <3>1. SUFFICES ASSUME MdHas("price"), ~MdHas("outage"),
                          NEW p \in MdProcesses, NEW v \in CacheGet(p)
                   PROVE  v.age < PriceTtl
      BY DEF LivePriceIsFresh
    <3>2. /\ memory[p] = {} /\ redis.holds \subseteq Cached
          /\ \A w \in redis.holds : w.left > 0 /\ w.age + w.left <= PriceTtl
      BY <2>1, <3>1 DEF MarketInv, CacheInv
    <3>3. v \in redis.holds
      BY <3>1, <3>2 DEF CacheGet, InRedis
    <3> QED
      BY <3>2, <3>3 DEF Cached, PriceTtl
  <2> QED
    BY <2>1, <2>2, <2>3 DEF MarketInv, BarsInv, RegimeInv, DataIsCurrent, EveryoneSeesTheRegime
<1> QED
  BY <1>1, <1>2, <1>3, PTL DEF MdSpec

(* The calendar. *)

\* Of the openings after a moment there is a first.
LEMMA FirstOpening ==
    ASSUME NEW days \in SUBSET (0..MdDays), NEW m \in Nat, OpensAfter(days, m) # {}
    PROVE  /\ Min(OpensAfter(days, m)) \in OpensAfter(days, m)
           /\ \A o \in OpensAfter(days, m) : Min(OpensAfter(days, m)) <= o
<1> DEFINE S == OpensAfter(days, m)
           top == DayLength * MdDays + OpenAt
           N == {top - o : o \in S}
<1>1. top \in Nat /\ MdDays \in Nat
  BY MdAssumption DEF DayLength, OpenAt
<1>2. \A o \in S : o \in 0..top
  <2>1. ASSUME NEW d \in days
        PROVE  Moment(d, OpenAt) \in 0..top
    <3>1. d \in Nat /\ d <= MdDays
      BY <1>1
    <3> QED
      BY <1>1, <3>1 DEF Moment, DayLength, OpenAt
  <2> QED
    BY <2>1 DEF OpensAfter
<1>3. N \subseteq 0..top
  <2> HIDE DEF S, top
  <2>1. \A o \in 0..top : top - o \in 0..top
    BY <1>1
  <2> QED
    BY <1>2, <2>1
<1>4. IsFiniteSet(N)
  <2>1. IsFiniteSet(0..top)
    BY <1>1, FS_Interval
  <2> HIDE DEF N, top
  <2> QED
    BY <1>3, <2>1, FS_Subset
<1>5. N # {} /\ N \subseteq Int
  <2> HIDE DEF top
  <2> QED
    BY <1>1, <1>3
<1> HIDE DEF N
<1>6. PICK n \in N : \A x \in N : x <= n
  BY <1>4, <1>5, FiniteMaximum
<1> HIDE DEF S, top
<1>7. PICK o \in S : n = top - o
  BY <1>6 DEF N
<1>8. \A x \in S : o <= x
  <2>1. \A x \in S : top - x <= top - o
    BY <1>6, <1>7 DEF N
  <2> QED
    BY <1>1, <1>2, <1>7, <2>1
<1>9. Min(S) \in S /\ \A x \in S : Min(S) <= x
  BY <1>7, <1>8 DEF Min
<1> QED
  BY <1>9 DEF S

\* A market that is open at a later moment, and is not now, opens in between.
LEMMA OpensInBetween ==
    ASSUME NEW days \in SUBSET (0..MdDays), NEW m \in Nat, NEW n \in Nat, m <= n,
           ~MarketIsOpen(days, m), MarketIsOpen(days, n)
    PROVE  \E o \in OpensAfter(days, m) : o <= n
<1> DEFINE d == n \div DayLength
<1>1. d \in days /\ n % DayLength \in OpenAt..CloseAt
  BY DEF MarketIsOpen
<1>2. d \in Nat /\ n >= 4 * d + 1 /\ n <= 4 * d + 2
  <2>1. n \div 4 \in Nat /\ n % 4 \in 0..3
    BY SMT
  <2>2. n = 4 * (n \div 4) + (n % 4)
    BY SMT
  <2>3. n % 4 \in 1..2
    BY <1>1 DEF DayLength, OpenAt, CloseAt
  <2> QED
    BY <2>1, <2>2, <2>3 DEF DayLength
<1>3. Moment(d, OpenAt) = 4 * d + 1
  <2> HIDE DEF d
  <2> QED
    BY <1>2 DEF Moment, DayLength, OpenAt
<1>4. 4 * d + 1 > m
  <2>1. SUFFICES ASSUME 4 * d + 1 <= m
                 PROVE  FALSE
    BY <1>2
  <2>2. m = 4 * d + 1 \/ m = 4 * d + 2
    BY <1>2, <2>1
  <2> HIDE DEF d
  <2>3. m \div 4 = d /\ m % 4 \in 1..2
    BY <1>2, <2>2
  <2> QED
    BY <1>1, <2>3 DEF MarketIsOpen, DayLength, OpenAt, CloseAt
<1> QED
  BY <1>1, <1>2, <1>3, <1>4 DEF OpensAfter

LEMMA OpeningIsOpen ==
    ASSUME NEW days \in SUBSET (0..MdDays), NEW m \in Nat, NEW o \in OpensAfter(days, m)
    PROVE  o \in Nat /\ o > m /\ MarketIsOpen(days, o)
<1>1. PICK d \in days : o = Moment(d, OpenAt) /\ o > m
  BY DEF OpensAfter
<1>2. d \in Nat
  BY <1>1, MdAssumption
<1>3. o = 4 * d + 1
  BY <1>1, <1>2 DEF Moment, DayLength, OpenAt
<1>4. o \in Nat /\ o \div 4 = d /\ o % 4 = 1
  BY <1>2, <1>3
<1> QED
  BY <1>1, <1>4 DEF MarketIsOpen, DayLength, OpenAt, CloseAt

LEMMA WaitIsRight ==
    ASSUME NEW days \in SUBSET (0..MdDays), NEW m \in Nat
    PROVE  /\ \A n \in m..(m + DayLength * (MdDays + 1)) :
                 MarketIsOpen(days, n) => n >= m + TimeToOpen(days, m)
           /\ TimeToOpen(days, m) # Forever => MarketIsOpen(days, m + TimeToOpen(days, m))
<1> DEFINE wait == TimeToOpen(days, m)
           first == Min(OpensAfter(days, m))
<1>1. CASE MarketIsOpen(days, m)
  <2>1. wait = 0
    BY <1>1 DEF TimeToOpen
  <2> QED
    BY <1>1, <2>1
<1>2. CASE ~MarketIsOpen(days, m) /\ OpensAfter(days, m) = {}
  <2>1. wait = Forever
    BY <1>2 DEF TimeToOpen
  <2>2. \A n \in Nat : n >= m => ~MarketIsOpen(days, n)
    BY <1>2, OpensInBetween
  <2>3. \A n \in m..(m + DayLength * (MdDays + 1)) : n \in Nat /\ n >= m
    BY MdAssumption DEF DayLength
  <2> QED
    BY <2>1, <2>2, <2>3
<1>3. CASE ~MarketIsOpen(days, m) /\ OpensAfter(days, m) # {}
  <2>1. wait = first - m
    BY <1>3 DEF TimeToOpen
  <2>2. first \in OpensAfter(days, m) /\ \A o \in OpensAfter(days, m) : first <= o
    BY <1>3, FirstOpening
  <2>3. first \in Nat /\ MarketIsOpen(days, first)
    BY <2>2, OpeningIsOpen
  <2> HIDE DEF wait, first
  <2>4. m + wait = first
    BY <2>1, <2>3
  <2>5. ASSUME NEW n \in m..(m + DayLength * (MdDays + 1)), MarketIsOpen(days, n)
        PROVE  n >= m + wait
    <3>1. n \in Nat /\ n >= m
      BY MdAssumption DEF DayLength
    <3>2. PICK o \in OpensAfter(days, m) : o <= n
      BY <1>3, <2>5, <3>1, OpensInBetween
    <3>3. o \in Nat /\ first <= o
      BY <2>2, OpeningIsOpen
    <3> QED
      BY <2>3, <2>4, <3>1, <3>2, <3>3
  <2> QED
    BY <2>3, <2>4, <2>5 DEF wait
<1> QED
  BY <1>1, <1>2, <1>3

CalendarInv ==
    hours.asked => \E days \in SUBSET (0..MdDays), m \in Nat :
       hours = [asked |-> TRUE, days |-> days, at |-> m, wait |-> TimeToOpen(days, m)]

\* Whatever the trading days are and whenever somebody asks, the market is
\* closed for as long as minutes_to_open says and open at that moment.
THEOREM WaitIsForTheOpen == MdSpec => []WaitEndsAtTheOpen
<1>1. MdInit => CalendarInv
  BY DEF MdInit, CalendarInv
<1>2. CalendarInv /\ [MdNext]_mdVars => CalendarInv'
  <2>1. SUFFICES ASSUME CalendarInv, [MdNext]_mdVars
                 PROVE  CalendarInv'
    OBVIOUS
  <2>2. CASE UNCHANGED hours
    BY <2>1, <2>2 DEF CalendarInv
  <2>3. ASSUME NEW days \in SUBSET (0..MdDays), NEW d \in 0..MdDays, NEW t \in 0..(DayLength - 1),
               AskCalendar(days, d, t)
        PROVE  CalendarInv'
    <3>1. hours' = [asked |-> TRUE, days |-> days, at |-> Moment(d, t),
                    wait |-> TimeToOpen(days, Moment(d, t))]
      BY <2>3 DEF AskCalendar
    <3>2. Moment(d, t) \in Nat
      BY MdAssumption DEF Moment, DayLength
    <3> QED
      BY <3>1, <3>2 DEF CalendarInv
  <2>4. UNCHANGED hours
          \/ \E days \in SUBSET (0..MdDays), d \in 0..MdDays, t \in 0..(DayLength - 1) :
                AskCalendar(days, d, t)
    BY <2>1 DEF MdNext, mdVars, NextTradingDay, SourceMoves, FetchBars, StoreScreened, StoreBars,
       Evaluate, EvaluatorDies, Record, EvaluationFails, Tell, Tick, RedisFails, AskRate,
       RefreshLivePrice, ShowPrice, ProcessRestarts
  <2> QED
    BY <2>2, <2>3, <2>4
<1>3. CalendarInv => WaitEndsAtTheOpen
  <2>1. SUFFICES ASSUME NEW days \in SUBSET (0..MdDays), NEW m \in Nat,
           hours = [asked |-> TRUE, days |-> days, at |-> m, wait |-> TimeToOpen(days, m)]
                 PROVE  WaitEndsAtTheOpen
    BY DEF CalendarInv, WaitEndsAtTheOpen
  <2>2. hours.days = days /\ hours.at = m /\ hours.wait = TimeToOpen(days, m)
    BY <2>1
  <2> QED
    BY <2>2, WaitIsRight DEF WaitEndsAtTheOpen
<1> QED
  BY <1>1, <1>2, <1>3, PTL DEF MdSpec

-----------------------------------------------------------------------------
(* The universe.  A run of the classifier works on the label it loaded;    *)
(* what nobody overlaps with is still there when it commits.               *)

UvInv ==
    /\ us \in [market : {"none", "ASX", "NYSE", "NASDAQ"}, index : {"none", "NASDAQ100", "SP500"}]
    /\ sector \in {"blank"} \cup AutoLabels
    /\ \A r1, r2 \in recat : r1 = r2
    /\ ~UvHas("overlap") => \A r \in recat : label = "user" => r.loaded = "user"

LEMMA AskSourceSector ==
    ASSUME UvInv, NEW answer \in {"blank", "fine"}, AskSource(answer)
    PROVE  sector' \in {"blank"} \cup AutoLabels
  BY DEF AskSource, UvInv, AutoLabels

LEMMA UvStepIsSettled ==
    ASSUME UvInv, [UvNext]_uvVars
    PROVE  /\ UvInv'
           /\ us.market \in {"NYSE", "NASDAQ"} => us'.market = us.market
           /\ ~UvHas("overlap") =>
                 \A r \in recat : recat' = {} /\ ~r.force /\ label = "user" => label' = "user"
<1>1. CASE UNCHANGED <<uvSetting, us, label, sector, recat>>
  BY <1>1 DEF UvInv, UvHas
<1>2. ASSUME NEW sp500 \in BOOLEAN, NEW nasdaq \in BOOLEAN, RefreshUS(sp500, nasdaq)
      PROVE  /\ us' \in [market : {"none", "ASX", "NYSE", "NASDAQ"}, index : {"none", "NASDAQ100", "SP500"}]
             /\ us.market \in {"NYSE", "NASDAQ"} => us'.market = us.market
             /\ UNCHANGED <<uvSetting, label, sector, recat>>
  BY <1>2 DEF RefreshUS, UvInv
<1>3. ASSUME NEW market \in {"ASX", "NYSE", "NASDAQ"}, AddByHand(market)
      PROVE  /\ us' \in [market : {"none", "ASX", "NYSE", "NASDAQ"}, index : {"none", "NASDAQ100", "SP500"}]
             /\ us.market \in {"NYSE", "NASDAQ"} => us'.market = us.market
             /\ UNCHANGED <<uvSetting, label, sector, recat>>
  BY <1>3 DEF AddByHand, UvInv
<1>4. CASE \/ \E sp500, nasdaq \in BOOLEAN : RefreshUS(sp500, nasdaq)
           \/ \E market \in {"ASX", "NYSE", "NASDAQ"} : AddByHand(market)
  BY <1>2, <1>3, <1>4 DEF UvInv, UvHas
<1>5. CASE \E value \in AutoLabels : FillSector(value)
  BY <1>5 DEF FillSector, UvInv, UvHas
<1>6. ASSUME NEW answer \in {"blank", "fine"}, ScreenLabels(answer)
      PROVE  UvInv' /\ UNCHANGED <<us, recat>> /\ label # "user"
  <2>1. sector' \in {"blank"} \cup AutoLabels
    BY <1>6, AskSourceSector DEF ScreenLabels
  <2>2. label' # "user" /\ label # "user" /\ UNCHANGED <<us, recat>>
    BY <1>6, <2>1 DEF ScreenLabels, AutoLabels
  <2> QED
    BY <2>1, <2>2 DEF UvInv
<1>7. ASSUME NEW choice \in {"none", "user"}, UserLabels(choice)
      PROVE  UvInv' /\ UNCHANGED <<us, recat>> /\ (~UvHas("overlap") => recat = {})
  BY <1>7 DEF UserLabels, UvInv, UvHas
<1>8. ASSUME NEW force \in BOOLEAN, RecatLoad(force)
      PROVE  UvInv' /\ UNCHANGED us /\ recat = {}
  BY <1>8 DEF RecatLoad, UvInv
<1>9. ASSUME NEW answer \in {"blank", "fine"}, RecatCommit(answer)
      PROVE  /\ UvInv' /\ UNCHANGED us
             /\ ~UvHas("overlap") => \A r \in recat : ~r.force /\ label = "user" => label' = "user"
  <2>1. PICK r \in recat :
           /\ IF Assignable(r)
                THEN /\ AskSource(answer)
                     /\ label' = IF Inferred(sector') \subseteq {r.loaded} THEN label ELSE sector'
                ELSE answer = "blank" /\ UNCHANGED <<label, sector, throttled>>
           /\ recat' = {} /\ us' = us
    BY <1>9 DEF RecatCommit
  <2>2. sector' \in {"blank"} \cup AutoLabels
    BY <2>1, AskSourceSector DEF UvInv
  <2>3. UvInv'
    BY <2>1, <2>2 DEF UvInv
  <2>4. ASSUME ~UvHas("overlap"), NEW q \in recat, ~q.force, label = "user"
        PROVE  label' = "user"
    <3>1. q = r /\ r.loaded = "user"
      BY <2>4 DEF UvInv
    <3>2. ~Assignable(r)
      BY <2>4, <3>1 DEF Assignable, AutoLabels
    <3> QED
      BY <2>1, <2>4, <3>2
  <2> QED
    BY <2>1, <2>3, <2>4
<1>10. \/ UNCHANGED <<uvSetting, us, label, sector, recat>>
       \/ \E sp500, nasdaq \in BOOLEAN : RefreshUS(sp500, nasdaq)
       \/ \E market \in {"ASX", "NYSE", "NASDAQ"} : AddByHand(market)
       \/ \E value \in AutoLabels : FillSector(value)
       \/ \E answer \in {"blank", "fine"} : ScreenLabels(answer) \/ RecatCommit(answer)
       \/ \E choice \in {"none", "user"} : UserLabels(choice)
       \/ \E force \in BOOLEAN : RecatLoad(force)
  BY DEF UvNext, uvVars, VenueLists, RefreshCoins, NextDayAsks, FetchStories, OpenStory
<1>11. CASE \E answer \in {"blank", "fine"} : ScreenLabels(answer)
  BY <1>6, <1>11
<1>12. CASE \E choice \in {"none", "user"} : UserLabels(choice)
  BY <1>7, <1>12
<1>13. CASE \E force \in BOOLEAN : RecatLoad(force)
  BY <1>8, <1>13
<1>14. CASE \E answer \in {"blank", "fine"} : RecatCommit(answer)
  BY <1>9, <1>14
<1> QED
  BY <1>1, <1>4, <1>5, <1>10, <1>11, <1>12, <1>13, <1>14

\* A stock that has a market keeps it, and a label its user chose outlives the
\* classifier's runs that nobody overlaps with: whatever lists are fetched, and
\* whatever is added, labelled and re-categorised in between.
THEOREM SettledStays == UvSpec => SettledIsKept
<1>1. UvInit => UvInv
  BY DEF UvInit, UvInv
<1>2. UvInv /\ [UvNext]_uvVars => UvInv'
  BY UvStepIsSettled
<1>3. UvInv /\ [UvNext]_uvVars => [us.market \in {"NYSE", "NASDAQ"} => us'.market = us.market]_uvVars
  BY UvStepIsSettled
<1>4. UvInv /\ [UvNext]_uvVars =>
         [~UvHas("overlap") =>
            \A r \in recat : recat' = {} /\ ~r.force /\ label = "user" => label' = "user"]_uvVars
  BY UvStepIsSettled
<1> QED
  BY <1>1, <1>2, <1>3, <1>4, PTL DEF UvSpec, SettledIsKept, MarketIsKept, UserLabelKept
=============================================================================
