---------------------------- MODULE FriendRecords ----------------------------
(***************************************************************************)
(* One friendship record of haap/directory.py and what each operation of   *)
(* `Directory` does to it.  The operators are pure: the modules that hold  *)
(* records (Friendship, DirectoryStore) say where the record is kept and   *)
(* in how many steps it is written back.                                   *)
(*                                                                         *)
(* A permission matrix {action: {"allow", "scopes"}} is abstracted to the  *)
(* set of actions it allows: no operation of the friendship state machine  *)
(* looks inside a scope.  Names, endpoints, keys, notes and timestamps are *)
(* left out: no transition depends on them.                                *)
(***************************************************************************)

CONSTANTS
    Actions,        \* the actions a matrix can allow ("task:submit", ...)
    DefaultGrant    \* DEFAULT_GRANT_TEMPLATE, the conservative matrix

ASSUME DefaultGrantAssumption == DefaultGrant \in SUBSET Actions

Statuses == {"pending_out", "pending_in", "accepted", "blocked"}

FriendRecord == [status : Statuses, permissions : SUBSET Actions]

\* The record register_known creates for a sender it has never seen.
NewPendingIn == [status |-> "pending_in", permissions |-> {}]

\* The record add_pending_out stores, over any earlier one.
PendingOut(grant) == [status |-> "pending_out", permissions |-> grant]

\* The record after `block`, whether it existed or not.
Blocked == [status |-> "blocked", permissions |-> {}]

\* `rec.status = "pending_in"` in the friend_request handler: whatever the
\* status was, and the matrix stays.
Requested(rec) == [rec EXCEPT !.status = "pending_in"]

\* Slip: a status that STATUSES does not list, which from_dict would refuse.
ConfirmedUnlisted(rec) == [rec EXCEPT !.status = "confirmed"]

\* Slip: mark_outbound_accepted grants the conservative matrix.
ConfirmedWithDefault(rec) ==
    [rec EXCEPT !.status = "accepted", !.permissions = DefaultGrant]

\* mark_outbound_accepted: the matrix stays.
Confirmed(rec) == [rec EXCEPT !.status = "accepted"]

\* `grant or DEFAULT_GRANT_TEMPLATE`: an empty matrix is falsy in Python.
EffectiveGrant(grant) == IF grant = {} THEN DefaultGrant ELSE grant

Approved(rec, grant) ==
    [rec EXCEPT !.status = "accepted", !.permissions = EffectiveGrant(grant)]

CanAddPendingOut(rec) == rec.status \notin {"blocked", "accepted"}

CanConfirm(rec) == rec.status \in {"pending_out", "pending_in", "accepted"}

CanDecide(rec) == rec.status = "pending_in"

\* What one mutation of `Directory` can leave of a record that exists, NoRecord
\* for none: register_known and upsert keep it or make it pending again; then
\* block, remove and deny, add_pending_out, mark_outbound_accepted, approve.
Changed(rec, grants, NoRecord) ==
    {rec, Requested(rec), Blocked, NoRecord}
    \cup {PendingOut(grant) : grant \in {g \in grants : CanAddPendingOut(rec)}}
    \cup {Confirmed(r) : r \in {r \in {rec} : CanConfirm(r)}}
    \cup {Approved(rec, grant) : grant \in {g \in grants : CanDecide(rec)}}

\* The record register_known, add_pending_out or block creates.
Created(grants) == {NewPendingIn, Blocked} \cup {PendingOut(grant) : grant \in grants}

=============================================================================
