--------------------------- MODULE EntryControls ---------------------------
(***************************************************************************)
(* What holds an organisation's entries back: the kill switch, the pause,  *)
(* the daily loss halt, the number of positions and the capital that is    *)
(* still free, against a scheduled run that walks its list of signals and  *)
(* a person who confirms one.  The order's own life is in EquityOrders: a  *)
(* fill and the row that books it are one step here.                       *)
(***************************************************************************)
EXTENDS Integers, FiniteSets, FiniteSetsExt

CONSTANTS CtlSignals,      \* signals of the organisation, one for each ticker
          CtlPrice,        \* price of one unit, a function of the signal
          CtlSize,         \* units that risk sizing asks for
          CtlCapital,      \* capital of the account
          CtlMinimum,      \* free capital below which no order is placed
          CtlMaxPositions, \* open positions at which a run does not start
          CtlRuns,         \* scheduled runs: one for each exchange
          CtlSettings      \* sets of programs beside the runs: Init picks one

ASSUME CtlAssumption ==
    /\ CtlPrice \in [CtlSignals -> Nat \ {0}]
    /\ CtlSize \in Nat \ {0} /\ CtlCapital \in Nat
    /\ CtlMinimum \in Nat /\ CtlMaxPositions \in Nat
    /\ CtlSettings \subseteq SUBSET {"confirm", "switches", "offline"}

VARIABLES
    ctlPrograms,  \* the programs of this behaviour, fixed
    switch,       \* what the config rows say, and whether the day's loss halts
    signal,       \* status of each signal
    entry,        \* the BUY of each signal and what became of it
    run,          \* each run: the signals still to look at, the one it sizes
    killList      \* entries the kill switch still has to cancel

ctlVars == <<ctlPrograms, switch, signal, entry, run, killList>>

\* working: at the broker.  cancelled: its row still says SUBMITTED.
NoEntry == [state |-> "none", units |-> 0]
Asleep == [todo |-> {}, sizing |-> {}, units |-> 0]

CtlInit ==
    /\ ctlPrograms \in CtlSettings
    /\ switch = [kill |-> FALSE, paused |-> FALSE, halted |-> FALSE]
    /\ signal = [s \in CtlSignals |-> "PENDING"]
    /\ entry = [s \in CtlSignals |-> NoEntry]
    /\ run = [r \in CtlRuns |-> Asleep]
    /\ killList = {}

CtlHas(p) == p \in ctlPrograms
In(state) == {s \in CtlSignals : entry[s].state = state}
Pending == {s \in CtlSignals : signal[s] = "PENDING"}

-----------------------------------------------------------------------------
(* The switches.                                                           *)

\* cmd_pause and cmd_resume.
PauseOrResume ==
    /\ CtlHas("switches")
    /\ switch' = [switch EXCEPT !.paused = ~switch.paused]
    /\ UNCHANGED <<ctlPrograms, signal, entry, run, killList>>

\* cmd_killswitch writes the row, then lists the entries at work.
KillSwitch ==
    /\ CtlHas("switches") /\ killList = {}
    /\ switch' = [switch EXCEPT !.kill = ~switch.kill]
    /\ killList' = IF switch.kill THEN {} ELSE In("working") \cup In("cancelled")
    /\ UNCHANGED <<ctlPrograms, signal, entry, run>>

\* _cancel_working_entry_orders: one by one; none when the gateway is down.
KillCancels(s) ==
    /\ s \in killList
    /\ killList' = killList \ {s}
    /\ entry' = IF entry[s].state = "working"
                  THEN [entry EXCEPT ![s].state = "cancelled"] ELSE entry
    /\ UNCHANGED <<ctlPrograms, switch, signal, run>>

KillGivesUp ==
    /\ CtlHas("offline") /\ killList # {}
    /\ killList' = {}
    /\ UNCHANGED <<ctlPrograms, switch, signal, entry, run>>

\* _todays_pnl_aud crosses the limit, in either direction.
DayTurns ==
    /\ CtlHas("switches")
    /\ switch' = [switch EXCEPT !.halted = ~switch.halted]
    /\ UNCHANGED <<ctlPrograms, signal, entry, run, killList>>

-----------------------------------------------------------------------------
(* check_entry_triggers.  The gates of the organisation are read once,     *)
(* before the loop; the capital is read for every signal.                  *)

\* Mutant: the kill switch is left to the pause.
StartUnlessPaused(r) ==
    /\ run[r] = Asleep
    /\ ~switch.paused /\ ~switch.halted
    /\ Pending # {} /\ Cardinality(In("held")) < CtlMaxPositions
    /\ run' = [run EXCEPT ![r].todo = Pending]
    /\ UNCHANGED <<ctlPrograms, switch, signal, entry, killList>>

\* Portfolio heat and the opening minutes are further reasons not to start.
StartRun(r) ==
    /\ run[r] = Asleep
    /\ ~switch.kill /\ ~switch.paused /\ ~switch.halted
    /\ Pending # {} /\ Cardinality(In("held")) < CtlMaxPositions
    /\ run' = [run EXCEPT ![r].todo = Pending]
    /\ UNCHANGED <<ctlPrograms, switch, signal, entry, killList>>

\* A signal whose ticker is held is SKIPPED; one that does not trigger, or
\* that an order stands for already, is passed over.
PassOver(r, s) ==
    /\ s \in run[r].todo /\ run[r].sizing = {}
    /\ signal' = IF entry[s].state = "held" THEN [signal EXCEPT ![s] = "SKIPPED"] ELSE signal
    /\ run' = [run EXCEPT ![r].todo = run[r].todo \ {s}]
    /\ UNCHANGED <<ctlPrograms, switch, entry, killList>>

\* Mutant: orders that have not filled tie up no capital.
FreeOfPositions ==
    CtlCapital - MapThenSumSet(LAMBDA s : CtlPrice[s] * entry[s].units, In("held"))

\* Capital less what positions cost and outstanding buys would.
Committed == MapThenSumSet(LAMBDA s : CtlPrice[s] * entry[s].units, CtlSignals)
Available == CtlCapital - Committed

\* Sizing, capped by the free capital, but never under one whole share.
SizeEntry(r, s) ==
    /\ s \in run[r].todo /\ run[r].sizing = {}
    /\ entry[s].state = "none" /\ Available >= CtlMinimum
    /\ run' = [run EXCEPT ![r] =
          [todo |-> run[r].todo \ {s}, sizing |-> {s},
           units |-> Min({CtlSize, Max({1, Available \div CtlPrice[s]})})]]
    /\ UNCHANGED <<ctlPrograms, switch, signal, entry, killList>>

SubmitEntry(r, s) ==
    /\ s \in run[r].sizing
    /\ entry' = [entry EXCEPT ![s] = [state |-> "working", units |-> run[r].units]]
    /\ signal' = [signal EXCEPT ![s] = "TRIGGERED"]
    /\ run' = [run EXCEPT ![r].sizing = {}, ![r].units = 0]
    /\ UNCHANGED <<ctlPrograms, switch, killList>>

\* The broker refuses; the loop goes on.
EntryRefused(r, s) ==
    /\ s \in run[r].sizing /\ CtlHas("offline")
    /\ run' = [run EXCEPT ![r].sizing = {}, ![r].units = 0]
    /\ UNCHANGED <<ctlPrograms, switch, signal, entry, killList>>

-----------------------------------------------------------------------------
(* execute_signal_order for a CONFIRM: it reads no switch and no free      *)
(* capital, the whole account is its basis.                                *)

ConfirmSignal(s) ==
    /\ CtlHas("confirm") /\ signal[s] = "PENDING" /\ entry[s].state = "none"
    /\ entry' = [entry EXCEPT ![s] = [state |-> "working", units |-> CtlSize]]
    /\ signal' = [signal EXCEPT ![s] = "TRIGGERED"]
    /\ UNCHANGED <<ctlPrograms, switch, run, killList>>

-----------------------------------------------------------------------------
(* What becomes of an entry.                                               *)

EntryFills(s) ==
    /\ entry[s].state = "working"
    /\ entry' = [entry EXCEPT ![s].state = "held"]
    /\ UNCHANGED <<ctlPrograms, switch, signal, run, killList>>

EntryExpires(s) ==
    /\ entry[s].state = "working"
    /\ entry' = [entry EXCEPT ![s].state = "cancelled"]
    /\ UNCHANGED <<ctlPrograms, switch, signal, run, killList>>

\* sync_order_status: the row ends, its signal is armed again.
EntryWrittenOff(s) ==
    /\ entry[s].state = "cancelled"
    /\ entry' = [entry EXCEPT ![s] = NoEntry]
    /\ signal' = [signal EXCEPT ![s] = "PENDING"]
    /\ UNCHANGED <<ctlPrograms, switch, run, killList>>

PositionCloses(s) ==
    /\ entry[s].state = "held"
    /\ entry' = [entry EXCEPT ![s] = NoEntry]
    /\ UNCHANGED <<ctlPrograms, switch, signal, run, killList>>

-----------------------------------------------------------------------------
CtlNext ==
    \/ PauseOrResume \/ KillSwitch \/ KillGivesUp \/ DayTurns
    \/ \E r \in CtlRuns : StartRun(r)
    \/ \E r \in CtlRuns, s \in CtlSignals :
          PassOver(r, s) \/ SizeEntry(r, s) \/ SubmitEntry(r, s) \/ EntryRefused(r, s)
    \/ \E s \in CtlSignals :
          \/ KillCancels(s) \/ ConfirmSignal(s) \/ EntryFills(s) \/ EntryExpires(s)
          \/ EntryWrittenOff(s) \/ PositionCloses(s)

CtlSpec == CtlInit /\ [][CtlNext]_ctlVars

\* A run that has started goes through its list; the task calls no one who
\* could hold it for ever.
CtlFairness ==
    \A r \in CtlRuns :
        WF_ctlVars(\E s \in CtlSignals : PassOver(r, s) \/ SubmitEntry(r, s))

CtlFairSpec == CtlSpec /\ CtlFairness

-----------------------------------------------------------------------------
(* Properties.                                                             *)

\* Scheduled entries never commit more than the account's capital, except by
\* the one share that check_entry_triggers buys although it costs more than
\* the minimum it asks to be free: every order counts what stands before it.
CapitalNotOverspent ==
    Cardinality(CtlRuns) = 1 /\ ~CtlHas("confirm") =>
        Committed <= CtlCapital + Max({0} \cup {CtlPrice[s] - CtlMinimum : s \in CtlSignals})

\* A kill switch, a pause or a loss halt that stays ends the scheduled runs:
\* the one that was in its loop finishes, and no other follows.
HaltsHold ==
    <>[](switch.kill \/ switch.paused \/ switch.halted) =>
        <>[](\A r \in CtlRuns : run[r] = Asleep)
=============================================================================
