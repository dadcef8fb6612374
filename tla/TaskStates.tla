------------------------------ MODULE TaskStates ------------------------------
(***************************************************************************)
(* The lifecycle of a task record, haap/tasks.py: STATES, _TRANSITIONS and *)
(* what TaskRecord.transition allows.  "none" stands for a task_id that    *)
(* the registry does not hold.                                             *)
(***************************************************************************)

States == {"submitted", "accepted", "working", "completed", "failed", "rejected"}

Final == {"completed", "failed", "rejected"}

\* Slip: only "completed" follows "working".
StrictTransitions ==
    [s \in States |->
        CASE s = "submitted" -> {"accepted", "rejected", "failed"}
          [] s = "accepted"  -> {"working"} \cup Final
          [] s = "working"   -> {"working", "completed"}
          [] OTHER           -> {}]

Transitions ==
    [s \in States |->
        CASE s = "submitted" -> {"accepted", "rejected", "failed"}
          [] s = "accepted"  -> {"working"} \cup Final
          [] s = "working"   -> {"working"} \cup Final
          [] OTHER           -> {}]

\* Slip: transition() checks that the state exists and not that it may follow.
AnyMove(from, to) == from \in States /\ to \in States

\* TaskRegistry.update finds the task and TaskRecord.transition lets it move.
CanMove(from, to) == from \in States /\ to \in Transitions[from]

=============================================================================
