-------------------------------- MODULE Roles --------------------------------
(***************************************************************************)
(* Permission matrices and the roles that bundle them, haap/permissions.py *)
(* and haap/roles.py.  A matrix maps actions to an entry with the scopes,  *)
(* which are patterns; a role has a matrix and rate limits, and roles.json *)
(* may add roles or replace the built-in ones.                             *)
(*                                                                         *)
(* Rate limits are abstracted to the name of the role that lists them.  An *)
(* entry of roles.json may leave out a key (Absent), and what it gives may *)
(* not be a matrix at all (Malformed).                                     *)
(***************************************************************************)
EXTENDS Integers, Sequences

CONSTANTS
    Matching,    \* the pairs of a pattern and a resource that fnmatch accepts
    Absent,      \* a key that is not there
    Malformed    \* a value that dict() refuses

Files == {"file:read", "file:write", "exec:terminal"}
Tasks == {"task:delegate", "task:submit"}
Reads == {"read:schedule", "read:calendar"}
Catalog == Files \cup Tasks \cup Reads \cup {"chat:converse"}

Patterns == {"*", "booking:*", "service:*", "haap *"}

Entry == [allow : BOOLEAN, scopes : SUBSET Patterns]

Granting(actions, scopes) == [a \in actions |-> [allow |-> TRUE, scopes |-> scopes]]

EmptyMatrix == Granting({}, {})

IsMatrix(m) == DOMAIN m \subseteq Catalog /\ m \in [DOMAIN m -> Entry]

\* A dictionary that is updated with another one.
Updated(old, new) ==
    [k \in DOMAIN old \cup DOMAIN new |-> IF k \in DOMAIN new THEN new[k] ELSE old[k]]

-----------------------------------------------------------------------------
(* permissions.py                                                          *)

\* A request may name no resource, "", which is the default of delegate_task and
\* of haap_delegate_task; it passes any scope.
ScopeAllows(scopes, resource) ==
    \/ resource = ""
    \/ scopes = {} \/ "*" \in scopes
    \/ \E pattern \in scopes : <<pattern, resource>> \in Matching

\* Slip: only has_permission is asked.
HasPermission(matrix, action, resource) ==
    action \in DOMAIN matrix /\ matrix[action].allow

\* check: deny by default.
Check(matrix, action, resource) ==
    /\ action \in DOMAIN matrix
    /\ matrix[action].allow
    /\ ScopeAllows(matrix[action].scopes, resource)

-----------------------------------------------------------------------------
(* roles.py                                                                *)

GuestMatrix == Granting({"chat:converse"}, {})
ClientMatrix == Updated(GuestMatrix, Granting(Tasks, {"booking:*", "service:*"}))
PartnerMatrix == Updated(Updated(GuestMatrix, Granting(Reads, {})), Granting(Tasks, {"*"}))
AdminMatrix == Updated(Updated(PartnerMatrix, Granting(Files \ {"exec:terminal"}, {"*"})),
                       Granting({"exec:terminal"}, {"haap *"}))

\* The ladder of policy.py, from the least to the most trusted.
Rank == [guest |-> 1, client |-> 2, partner |-> 3, family |-> 4, admin |-> 5]
Ladder == DOMAIN Rank

BuiltinRoles ==
    LET matrix == [guest |-> GuestMatrix, client |-> ClientMatrix,
                   partner |-> PartnerMatrix, family |-> PartnerMatrix,
                   admin |-> AdminMatrix]
    IN [role \in Ladder |-> [permissions |-> matrix[role], limits |-> role]]

\* None of them is taken for a key that is not there, or for a broken one.
ASSUME RolesAssumption ==
    \A role \in Ladder : BuiltinRoles[role].permissions \notin {Absent, Malformed}

NoRole == [permissions |-> Absent, limits |-> Absent]

Either(value, base) == IF value = Absent THEN base ELSE value

\* Slip: the role that is extended is changed in place.
MergeInPlace(roles, spec) ==
    LET base == IF spec.extends \in DOMAIN roles THEN roles[spec.extends] ELSE NoRole
        merged == [permissions |-> Either(spec.permissions, base.permissions),
                   limits |-> Either(spec.limits, base.limits)]
    IN Updated(roles, [name \in {spec.name} \cup ({spec.extends} \cap DOMAIN roles) |-> merged])

\* One entry of roles.json: a role it extends must come before it, and a key it
\* has replaces the whole of that key.
Merge(roles, spec) ==
    LET base == IF spec.extends \in DOMAIN roles THEN roles[spec.extends] ELSE NoRole
        merged == [permissions |-> Either(spec.permissions, base.permissions),
                   limits |-> Either(spec.limits, base.limits)]
    IN Updated(roles, [name \in {spec.name} |-> merged])

\* load_roles, of the entries of roles.json in their order; there is none in a
\* file that cannot be read.
LoadRoles(file) ==
    LET Loaded[i \in 0 .. Len(file)] ==
            IF i = 0 THEN BuiltinRoles ELSE Merge(Loaded[i - 1], file[i])
    IN Loaded[Len(file)]

\* What dict(spec.get("permissions") or {}) is.
MatrixOf(spec) == Either(spec.permissions, EmptyMatrix)

=============================================================================
