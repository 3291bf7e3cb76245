---------------------------- MODULE RuleConfigs ----------------------------
(***************************************************************************)
(* The rows of one rule and everyone who writes them: the template (no     *)
(* organisation) and the copy of one organisation, written by the super    *)
(* admin's rule page, the organisation's rule page, the chat agent, the    *)
(* MCP tools, the sync, the clone at the organisation's creation and the   *)
(* migration that runs at every start; and a signal's own override.  The   *)
(* organisation has rows of other rules, so the engine reads its rows only.*)
(***************************************************************************)
EXTENDS Integers

CONSTANTS RcMin, RcMax,    \* threshold_min and threshold_max of the rule
          RcOld, RcNew,    \* the default a migration replaces, and by which
          RcAsked,         \* thresholds that people ask for
          RcSettings       \* sets of features: Init picks one

ASSUME RcAssumption ==
    /\ RcMin \in Int /\ RcMax \in Int /\ RcAsked \subseteq Int
    /\ {RcOld, RcNew} \subseteq RcMin..RcMax
    /\ RcSettings \subseteq SUBSET {"mandatory", "equity"}

VARIABLES
    rcSetting,  \* whether the rule is mandatory, and for equities only; fixed
    template,   \* the row without an organisation
    copy,       \* the organisation's row
    override    \* what the signal at hand says of the rule, if anything

rcVars == <<rcSetting, template, copy, override>>

\* off: the tier's "enabled" is false.  tier: the tier's threshold, if any.
\* by: updated_by.
RuleRow == [enabled : BOOLEAN, off : BOOLEAN, threshold : Int, tier : SUBSET RcAsked,
            by : {"none", "migration", "superadmin", "sync", "admin", "agent"},
            scope : {"BOTH", "EQUITY"}]

NoCopy == [enabled |-> FALSE, off |-> FALSE, threshold |-> RcOld, tier |-> {},
           by |-> "none", scope |-> "BOTH"]

Is(feature) == feature \in rcSetting
HasCopy == copy.by # "none"

RcTypeOK ==
    /\ rcSetting \in RcSettings
    /\ template \in RuleRow /\ copy \in RuleRow
    /\ override \in SUBSET BOOLEAN

RcInit ==
    /\ rcSetting \in RcSettings
    /\ template = [enabled |-> TRUE, off |-> FALSE, threshold |-> RcOld, tier |-> {},
                   by |-> "migration", scope |-> IF "equity" \in rcSetting THEN "EQUITY" ELSE "BOTH"]
    /\ copy = NoCopy
    /\ override = {}

InBounds(t) == t \in RcMin..RcMax

-----------------------------------------------------------------------------
(* Copies of the template.                                                 *)

\* Every clone made by a page forgets asset_types, which falls to its default.
CloneBy(who) == [template EXCEPT !.by = who, !.scope = "BOTH"]
Cloned == IF HasCopy THEN copy ELSE CloneBy("admin")

CreateOrganisation ==
    /\ ~HasCopy
    /\ copy' = CloneBy("superadmin")
    /\ UNCHANGED <<rcSetting, template, override>>

\* At every start: organisations without rules get them, and a threshold that
\* still is the old default becomes the new one.
Migrated(row) == IF row.threshold = RcOld THEN [row EXCEPT !.threshold = RcNew] ELSE row

Migrate ==
    /\ template' = Migrated(template)
    /\ copy' = IF HasCopy THEN Migrated(copy) ELSE Migrated([template EXCEPT !.by = "migration"])
    /\ UNCHANGED <<rcSetting, override>>

\* Rows that the organisation's people have written are left alone, as far as
\* updated_by tells: the pages do not set it on a row that is there.
Syncs(force) == force \/ copy.by \in {"none", "superadmin", "migration", "admin"}

SyncAll(force) ==
    /\ copy' = IF ~HasCopy THEN [template EXCEPT !.by = "sync"]
               ELSE IF Syncs(force) THEN [template EXCEPT !.by = "sync", !.scope = copy.scope]
               ELSE copy
    /\ UNCHANGED <<rcSetting, template, override>>

-----------------------------------------------------------------------------
(* The super admin writes the template.                                    *)

ToggleGlobal ==
    /\ ~Is("mandatory")
    /\ template' = [template EXCEPT !.enabled = ~template.enabled, !.by = "superadmin"]
    /\ UNCHANGED <<rcSetting, copy, override>>

ToggleTier ==
    /\ ~Is("mandatory")
    /\ template' = [template EXCEPT !.off = ~template.off, !.by = "superadmin"]
    /\ UNCHANGED <<rcSetting, copy, override>>

\* No bounds here.
TierThreshold(t) ==
    /\ template' = [template EXCEPT !.tier = {t}, !.by = "superadmin"]
    /\ UNCHANGED <<rcSetting, copy, override>>

-----------------------------------------------------------------------------
(* The organisation writes its copy.  A web session commits when the       *)
(* handler returns: a clone stays, although the request was refused.       *)

ToggleRule ==
    /\ copy' = IF Is("mandatory") THEN Cloned ELSE [Cloned EXCEPT !.enabled = ~Cloned.enabled]
    /\ UNCHANGED <<rcSetting, template, override>>

UpdateThreshold(t) ==
    /\ copy' = IF InBounds(t) THEN [Cloned EXCEPT !.threshold = t] ELSE Cloned
    /\ UNCHANGED <<rcSetting, template, override>>

\* Mutant: the chat takes any rule.
CmdAnyRule(on) ==
    /\ HasCopy
    /\ copy' = [copy EXCEPT !.enabled = on, !.by = "agent"]
    /\ UNCHANGED <<rcSetting, template, override>>

\* RULE <id> ON|OFF
CmdRule(on) ==
    /\ HasCopy /\ (Is("mandatory") => on)
    /\ copy' = [copy EXCEPT !.enabled = on, !.by = "agent"]
    /\ UNCHANGED <<rcSetting, template, override>>

\* update_rule with a switch.
McpSwitch(on) ==
    /\ HasCopy /\ (Is("mandatory") => on)
    /\ copy' = [copy EXCEPT !.enabled = on]
    /\ UNCHANGED <<rcSetting, template, override>>

\* update_rule with a threshold.  Given both, a threshold out of bounds is
\* reported as an error when the switch is already set: that is McpSwitch.
McpThreshold(t) ==
    /\ HasCopy /\ InBounds(t)
    /\ copy' = [copy EXCEPT !.threshold = t]
    /\ UNCHANGED <<rcSetting, template, override>>

-----------------------------------------------------------------------------
(* A signal's override, and the engine that reads it all.                  *)

\* Refused for a rule that is mandatory or off; kept when it is turned off
\* later.
OverrideRule(on) ==
    /\ HasCopy => ~Is("mandatory") /\ copy.enabled
    /\ override' = {on}
    /\ UNCHANGED <<rcSetting, template, copy>>

\* The next screen makes a signal without overrides.
NextSignal ==
    /\ override' = {}
    /\ UNCHANGED <<rcSetting, template, copy>>

\* apply_signal_overrides and is_enabled: immune when mandatory or off.
Overridden == override # {} /\ copy.enabled /\ ~Is("mandatory")

\* RuleEngine.is_enabled: a rule without a row is off.
RuleOn(asset) ==
    /\ HasCopy /\ copy.scope \in {"BOTH", asset}
    /\ IF Overridden THEN override = {TRUE} ELSE copy.enabled /\ ~copy.off

-----------------------------------------------------------------------------
RcNext ==
    \/ CreateOrganisation \/ Migrate
    \/ ToggleGlobal \/ ToggleTier \/ ToggleRule \/ NextSignal
    \/ \E t \in RcAsked : TierThreshold(t) \/ UpdateThreshold(t) \/ McpThreshold(t)
    \/ \E on \in BOOLEAN : CmdRule(on) \/ McpSwitch(on) \/ OverrideRule(on) \/ SyncAll(on)

RcSpec == RcInit /\ [][RcNext]_rcVars

-----------------------------------------------------------------------------
(* Properties.                                                             *)

\* A mandatory rule (the stop loss) of an organisation that has it is applied,
\* whoever toggles, syncs, migrates or overrides it, and in whatever order.
MandatoryStaysOn == Is("mandatory") /\ HasCopy => RuleOn("EQUITY")

\* A rule switched off after a signal overrode it stays off for that signal.
OffMeansOff == ~copy.enabled => ~RuleOn("EQUITY") /\ ~RuleOn("CRYPTO")

\* No way to write the organisation's threshold leaves its bounds.
ThresholdInBounds == InBounds(copy.threshold)

\* The switches mean what they say: mandatory rules and rules that are off.
SwitchesMeanIt == MandatoryStaysOn /\ OffMeansOff
=============================================================================
