------------------------------ MODULE MCWorkers ------------------------------
(***************************************************************************)
(* What the UI thread leaves to other threads, in one run of TLC: the      *)
(* settings writer, over two lives of the program, and the action executor *)
(* with the process rules.  They share no state here: each behaviour       *)
(* follows one of them (the focus) while the other stays in its initial    *)
(* state, so the run visits the sum of their state spaces.                 *)
(***************************************************************************)
EXTENDS SettingsStore, ActionExecutor

VARIABLE focus

vars == <<focus, setVars, execVars>>

Init ==
    /\ focus \in {"settings", "exec"}
    /\ SettingsInit /\ ExecInit
    /\ focus # "settings" => disk = Absent
    /\ focus # "exec" => lanes = <<>>

InSettings(A) == focus = "settings" /\ A /\ UNCHANGED <<focus, execVars>>
InExec(A) == focus = "exec" /\ A /\ UNCHANGED <<focus, setVars>>

Next == InSettings(SettingsNext) \/ InExec(ExecNext)

\* SettingsFairness and ExecFairness: the actions of the component out of focus
\* are never enabled.
Fairness ==
    /\ WF_vars(InSettings(Writer) \/ InExec(Frame))
    /\ WF_vars(InExec(1 \in Lane /\ Worker(1)))
    /\ WF_vars(InExec(2 \in Lane /\ Worker(2)))

LiveSpec == Init /\ [][Next]_vars /\ Fairness

\* Over time: a coalesced snapshot is written, the attempts of a process rule come to
\* an end, and every action is answered as long as a lane moves.
\* (settings_writer_loop, apply_saved_process_rules, ActionExecutor::start.)
WorkersAnswer == SettingsWritten /\ RuleSettles /\ Answered
=============================================================================
