------------------------- MODULE TaskmgrReplacement -------------------------
(***************************************************************************)
(* The Image File Execution Options entry of taskmgr.exe, as               *)
(* crates/tm-platform/src/win/taskmgr_replacement.rs reads and writes it:  *)
(* short-lived elevated helpers enable it, disable it, clean it up on      *)
(* removal, or suspend it around a launch of the built-in Task Manager.    *)
(* The registry has no transaction: a helper looks, then acts, and others  *)
(* may run in between.                                                     *)
(*                                                                         *)
(* The Debugger value is abstracted to who owns the command it holds.      *)
(* Helpers run elevated, so a key they could read also opens for writing.  *)
(***************************************************************************)
EXTENDS Naturals

CONSTANTS
    Helpers,     \* elevated helper processes
    MaxOps       \* bound: operations started

ASSUME ReplacementAssumption == MaxOps \in Nat

VARIABLES
    reg,         \* the Debugger value
    op, hpc,     \* per helper: its operation and where it is
    seen,        \* per helper: what it read
    native,      \* what the last launch of taskmgr.exe opened
    ops,         \* operations started
    intruded     \* observation, per helper: someone else wrote since it read
regVars == <<reg, op, hpc, seen, native, ops, intruded>>

\* "own" names this executable, "stale" a copy of the program elsewhere.
Values == {"absent", "own", "stale", "foreign", "invalid"}
Owned(v) == v \in {"own", "stale"}
Conflict(v) == v \in {"foreign", "invalid"}

\* is_replacement_enabled.
ReplacementEnabled == Owned(reg)

WritesBy(h, v) ==
    /\ reg' = v
    /\ intruded' = [g \in Helpers |-> IF g = h THEN intruded[g] ELSE TRUE]

\* Every operation reads the value first.
Begin(h, o) ==
    /\ hpc[h] = "idle" /\ ops < MaxOps
    /\ op' = [op EXCEPT ![h] = o]
    /\ seen' = [seen EXCEPT ![h] = reg]
    /\ hpc' = [hpc EXCEPT ![h] = "act"]
    /\ intruded' = [intruded EXCEPT ![h] = FALSE]
    /\ ops' = ops + 1
    /\ UNCHANGED <<reg, native>>

Finish(h, outcome) == hpc' = [hpc EXCEPT ![h] = outcome]

\* Mutation: whatever is registered is replaced.
EnableAnyway(h) ==
    /\ hpc[h] = "act" /\ op[h] = "enable"
    /\ WritesBy(h, "own") /\ Finish(h, "done")
    /\ UNCHANGED <<op, seen, native, ops>>
\* set_direct_for_exe(true): another product's value is left alone; a target
\* that cannot serve the hotkey, or a failing write, is an error.
Enable(h) ==
    /\ hpc[h] = "act" /\ op[h] = "enable"
    /\ \/ ~Conflict(seen[h]) /\ WritesBy(h, "own") /\ Finish(h, "done")
       \/ Finish(h, "failed") /\ UNCHANGED <<reg, intruded>>
    /\ UNCHANGED <<op, seen, native, ops>>

\* set_direct_for_exe(false), and remove_for_deleted_exe, which only deletes a
\* command naming the removed executable.
Disable(h) ==
    /\ hpc[h] = "act" /\ op[h] \in {"disable", "cleanup"}
    /\ \/ /\ IF op[h] = "disable" THEN Owned(seen[h]) ELSE seen[h] = "own"
          /\ WritesBy(h, "absent") /\ Finish(h, "done")
       \/ seen[h] = "absent" /\ Finish(h, "done") /\ UNCHANGED <<reg, intruded>>
       \/ Finish(h, "failed") /\ UNCHANGED <<reg, intruded>>
    /\ UNCHANGED <<op, seen, native, ops>>

\* launch_native_task_manager_direct: an owned value is deleted first.
NativeSuspend(h) ==
    /\ hpc[h] = "act" /\ op[h] = "native"
    /\ \/ Owned(seen[h]) /\ WritesBy(h, "absent") /\ Finish(h, "launch")
       \/ seen[h] = "absent" /\ Finish(h, "launch") /\ UNCHANGED <<reg, intruded>>
       \/ seen[h] # "absent" /\ Finish(h, "failed") /\ UNCHANGED <<reg, intruded>>
    /\ UNCHANGED <<op, seen, native, ops>>

AfterLaunch(h) == IF Owned(seen[h]) THEN "restore" ELSE "done"
NativeLaunch(h) ==
    /\ hpc[h] = "launch"
    /\ \/ native' = IF reg = "absent" THEN "builtin" ELSE "rerouted"
       \/ native' = "failed"
    /\ Finish(h, AfterLaunch(h))
    /\ UNCHANGED <<reg, op, seen, ops, intruded>>

\* launch_then_restore: the exact original command, whatever the launch did;
\* the write may fail.
NativeRestore(h) ==
    /\ hpc[h] = "restore"
    /\ \/ WritesBy(h, seen[h]) /\ Finish(h, "done")
       \/ Finish(h, "failed") /\ UNCHANGED <<reg, intruded>>
    /\ UNCHANGED <<op, seen, native, ops>>

\* The helper is killed, or its machine loses power.
HelperDies(h) ==
    /\ hpc[h] \in {"act", "launch", "restore"}
    /\ Finish(h, "failed")
    /\ UNCHANGED <<reg, op, seen, native, ops, intruded>>

\* The process is gone; another may be started.
HelperExits(h) ==
    /\ hpc[h] \in {"done", "failed"}
    /\ hpc' = [hpc EXCEPT ![h] = "idle"]
    /\ op' = [op EXCEPT ![h] = "none"]
    /\ seen' = [seen EXCEPT ![h] = "absent"]
    /\ intruded' = [intruded EXCEPT ![h] = FALSE]
    /\ UNCHANGED <<reg, native, ops>>

\* Another product registers or withdraws its own debugger.
RivalWrites ==
    /\ ops < MaxOps
    /\ \E v \in {"foreign", "absent"} :
          /\ v # reg /\ (v = "absent" => reg = "foreign")
          /\ reg' = v
    /\ intruded' = [h \in Helpers |-> TRUE]
    /\ ops' = ops + 1
    /\ UNCHANGED <<op, hpc, seen, native>>

RegInit ==
    /\ reg \in Values
    /\ op = [h \in Helpers |-> "none"] /\ hpc = [h \in Helpers |-> "idle"]
    /\ seen = [h \in Helpers |-> "absent"]
    /\ native = "none" /\ ops = 0
    /\ intruded = [h \in Helpers |-> FALSE]

HelperStep(h) ==
    \/ \E o \in {"enable", "disable", "cleanup", "native"} : Begin(h, o)
    \/ Enable(h) \/ Disable(h)
    \/ NativeSuspend(h) \/ NativeLaunch(h) \/ NativeRestore(h)
    \/ HelperDies(h) \/ HelperExits(h)

RegNext == RivalWrites \/ \E h \in Helpers : HelperStep(h)
RegSpec == RegInit /\ [][RegNext]_regVars

-----------------------------------------------------------------------------
\* Type invariant; only a helper that suspended a registration restores one.
RegTypeOK ==
    /\ reg \in Values /\ seen \in [Helpers -> Values]
    /\ op \in [Helpers -> {"none", "enable", "disable", "cleanup", "native"}]
    /\ hpc \in [Helpers -> {"idle", "act", "launch", "restore", "done", "failed"}]
    /\ native \in {"none", "builtin", "rerouted", "failed"}
    /\ \A h \in Helpers : hpc[h] = "restore" => Owned(seen[h])
    /\ ops \in 0..MaxOps /\ intruded \in [Helpers -> BOOLEAN]

\* Another product's registration is never overwritten or deleted by a helper
\* that nobody raced. (set_direct_for_exe, remove_for_deleted_exe,
\* launch_native_task_manager_direct.)
ForeignKept ==
    [][\A h \in Helpers :
          (hpc[h] # "idle" /\ hpc'[h] # hpc[h] /\ reg' # reg /\ ~intruded[h])
              => ~Conflict(reg)]_regVars

\* A launch of the built-in Task Manager that ran to its end left the
\* registration as it found it, also when the launch itself failed.
\* (launch_then_restore.)
NativeRestores ==
    \A h \in Helpers :
        hpc[h] = "done" /\ op[h] = "native" /\ ~intruded[h] => reg = seen[h]

\* The built-in Task Manager is what opens when nobody else writes between the
\* suspension and the launch. (launch_native_task_manager_direct.)
NativeOpens ==
    [][\A h \in Helpers :
          (hpc[h] = "launch" /\ hpc'[h] \in {"restore", "done"} /\ ~intruded[h])
              => native' # "rerouted"]_regVars

\* The Debugger value is only borrowed: a native launch puts back what it took away,
\* no helper writes over another product's value, and the native Task Manager opens.
RegistrationSafe ==
  /\ []RegTypeOK /\ []NativeRestores /\ ForeignKept /\ NativeOpens
=============================================================================
