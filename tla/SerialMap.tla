------------------------------ MODULE SerialMap ------------------------------
(***************************************************************************)
(* What friends.json promises to those who share it, with no files and no  *)
(* locks: one map, which is replaced as a whole.  A session sees the map   *)
(* that was saved when it began, with its own changes; it saves all it     *)
(* sees, or nothing.  When one saves, the others have to begin again, so   *)
(* that every change is made to what was saved last.                       *)
(***************************************************************************)

CONSTANTS
    Keys,         \* what the map is about
    Values,       \* what it may hold
    Sessions,     \* who uses it
    Effects(_),   \* Effects(v): what one change can make of the value v
    Nothing,      \* the map that nobody has saved to
    NoView        \* a session that has not begun, or has to begin again

VARIABLES
    saved,        \* the map
    view          \* view[s]: the map as s sees it, or NoView

serialVars == <<saved, view>>

Init == saved = Nothing /\ view = [s \in Sessions |-> NoView]

Begin(s) ==
    /\ view[s] = NoView
    /\ view' = [view EXCEPT ![s] = saved]
    /\ UNCHANGED saved

Change(s, k, v) ==
    /\ view[s] # NoView
    /\ v \in Effects(view[s][k])
    /\ view' = [view EXCEPT ![s][k] = v]
    /\ UNCHANGED saved

Commit(s) ==
    /\ view[s] # NoView
    /\ saved' = view[s]
    /\ view' = [t \in Sessions |-> IF t = s THEN view[s] ELSE NoView]

Abandon(s) ==
    /\ view' = [view EXCEPT ![s] = NoView]
    /\ UNCHANGED saved

Next ==
    \E s \in Sessions :
        \/ Begin(s) \/ Commit(s) \/ Abandon(s)
        \/ \E k \in Keys, v \in Values : Change(s, k, v)

Spec == Init /\ [][Next]_serialVars

=============================================================================
