-------------------------------- MODULE MCRules --------------------------------
(***************************************************************************)
(* One instance of the rules: their rows in the database, what the screens *)
(* and the exit and risk rules conclude, and the replay of a backtest.  A  *)
(* behaviour is one of one part, which Init picks; the others rest.        *)
(***************************************************************************)
EXTENDS RuleConfigs, Screens, Decisions, Backtest

MCBar(h, l) == [high |-> h, low |-> l]
MCQuarters == {-4, 0, 4, 5}
MCBars == {MCBar(10, 9), MCBar(9, 7), MCBar(7, 6), MCBar(10, 4)}

VARIABLE part   \* the part of this behaviour

rulesVars == <<part, rcVars, scVars, dcVars, btVars>>

Init ==
    /\ part \in {"configs", "screens", "decisions", "backtest"}
    /\ RcInit /\ (part # "configs" => rcSetting = {})
    /\ ScInit /\ DcInit
    /\ BtInit /\ (part = "backtest" <=> btOn # {})

Next ==
    /\ UNCHANGED part
    /\ \/ part = "configs" /\ RcNext /\ UNCHANGED <<scVars, dcVars, btVars>>
       \/ part = "screens" /\ ScNext /\ UNCHANGED <<rcVars, dcVars, btVars>>
       \/ part = "decisions" /\ DcNext /\ UNCHANGED <<rcVars, scVars, btVars>>
       \/ part = "backtest" /\ BtNext /\ UNCHANGED <<rcVars, scVars, dcVars>>

Spec == Init /\ [][Next]_rulesVars
=============================================================================
