--------------------------- MODULE MCEquityExits ---------------------------
(***************************************************************************)
(* Instances of EquityExits for TLC.  Every program meets the stop task    *)
(* under every fault; all three sellers meet over an order that expires.   *)
(***************************************************************************)
EXTENDS EquityExits, TLC

Setting(programs, faults) == [programs |-> programs, faults |-> faults]
Refusals == {"offline", "expire", "blind", "foreign", "reject"}

PassingSettings ==
    {Setting({"stops", "amend"}, Refusals),
     Setting({"rules", "stops"}, Refusals),
     Setting({"manual", "stops"}, Refusals),
     Setting({"rules", "manual", "stops"}, {"expire"}),
     Setting({"rules", "web", "command"}, {"partial"})}

StopsAlone == {Setting({"stops"}, {})}
=============================================================================
