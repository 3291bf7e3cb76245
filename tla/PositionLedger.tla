--------------------------- MODULE PositionLedger ---------------------------
(***************************************************************************)
(* What the positions and trades tables promise together, whichever task   *)
(* writes them: a position is opened once, closed once, and the commit that *)
(* closes it books its one realised trade.                                 *)
(***************************************************************************)
EXTENDS Naturals

CONSTANT Positions

VARIABLES status,   \* of each position row
          booked    \* how many trade rows each position has

vars == <<status, booked>>

Init ==
    /\ status = [p \in Positions |-> "none"]
    /\ booked = [p \in Positions |-> 0]

\* One commit opens some positions and closes some, perhaps one it has opened.
Commit(opened, closed) ==
    /\ \A p \in opened : status[p] = "none"
    /\ \A p \in closed : status[p] = "OPEN" \/ p \in opened
    /\ status' = [p \in Positions |-> IF p \in closed THEN "CLOSED"
                                      ELSE IF p \in opened THEN "OPEN" ELSE status[p]]
    /\ booked' = [p \in Positions |-> IF p \in closed THEN booked[p] + 1
                                                      ELSE booked[p]]

Next == \E opened, closed \in SUBSET Positions : Commit(opened, closed)

Spec == Init /\ [][Next]_vars
=============================================================================
