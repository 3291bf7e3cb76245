------------------------------ MODULE MCPlatform ------------------------------
(***************************************************************************)
(* One instance of the parts of the platform that go on beside the orders  *)
(* and their ledgers.  They share no state of these models, so a behaviour *)
(* is one of one part, which Init picks; the others rest, in a setting     *)
(* that has no step which fairness asks for.                               *)
(***************************************************************************)
EXTENDS EntryControls, Watchlist, Accounts, Universe, MarketData, TLC

CONSTANTS s1, s2, s3, t1, t2

Prices == s1 :> 1 @@ s2 :> 3 @@ s3 :> 2
TwoStocks == <<t1, t2>>

VARIABLE part   \* the part of this behaviour

platformVars == <<part, ctlVars, wlVars, acVars, uvVars, mdVars>>

Init ==
    /\ part \in {"entries", "watchlist", "accounts", "universe", "market"}
    /\ CtlInit /\ (part # "entries" => ctlPrograms = {"confirm"})
    /\ WlInit /\ (part # "watchlist" => wlSetting = {"faults"})
    /\ AcInit /\ (part = "accounts" <=> acSetting # {})
    /\ UvInit /\ (part = "universe" <=> uvSetting # {})
    /\ MdInit /\ (part = "market" <=> mdSetting # {})

Next ==
    /\ UNCHANGED part
    /\ \/ part = "entries" /\ CtlNext /\ UNCHANGED <<wlVars, acVars, uvVars, mdVars>>
       \/ part = "watchlist" /\ WlNext /\ UNCHANGED <<ctlVars, acVars, uvVars, mdVars>>
       \/ part = "accounts" /\ AcNext /\ UNCHANGED <<ctlVars, wlVars, uvVars, mdVars>>
       \/ part = "universe" /\ UvNext /\ UNCHANGED <<ctlVars, wlVars, acVars, mdVars>>
       \/ part = "market" /\ MdNext /\ UNCHANGED <<ctlVars, wlVars, acVars, uvVars>>

Spec == Init /\ [][Next]_platformVars /\ CtlFairness /\ AcFairness /\ UvFairness
=============================================================================
