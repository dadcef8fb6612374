------------------------------ MODULE Approvals ------------------------------
(***************************************************************************)
(* Who is granted what: the policy of haap/policy.py that answers a friend *)
(* request, the cards it sends to the owner, and the owner who decides,    *)
(* from a card or not, and edits policy.json and roles.json.               *)
(*                                                                         *)
(* The server reads policy.json once, when it starts; roles.json is read   *)
(* whenever a role is resolved.  One handler is one step here: Friendship  *)
(* has the steps inside of it, and abstracts what is granted.              *)
(***************************************************************************)
EXTENDS Roles

CONSTANTS
    Peers,           \* the fingerprints that send requests
    Specialities,    \* what a request may declare, or Absent
    Named,           \* the roles that a request or the owner may name
    PolicyFiles,     \* what policy.json may hold
    RolesFiles,      \* what roles.json may hold: sequences of entries
    Grants,          \* the matrices that the owner may give by hand
    Unreadable,      \* a policy.json that is missing or is not JSON
    NotAnObject,     \* a policy.json that is JSON, and no object
    NoPolicy,        \* there is no server
    NoCard,          \* the owner was sent no card
    MaxEdits         \* bound on the edits of the two files

DefaultPolicy == [default |-> "queue", rules |-> <<>>, max |-> "partner"]

\* The entries of roles.json.
Overrides == UNION {{file[i] : i \in DOMAIN file} : file \in RolesFiles}

ASSUME ApprovalsAssumption ==
    /\ MaxEdits \in Nat
    /\ NoPolicy \notin PolicyFiles \cup {DefaultPolicy}
    /\ RolesFiles \subseteq Seq(Overrides)
    /\ \A spec \in Overrides :
        spec.permissions \in {Absent, Malformed} \/ IsMatrix(spec.permissions)
    /\ \A matrix \in Grants : IsMatrix(matrix)

VARIABLES
    policyFile, rolesFile,
    policy,      \* what the server read from policyFile, or NoPolicy
    friend,      \* friend[p]: the record of p in the owner's directory
    card,        \* card[p]: the role that the last card about p suggested
    by,          \* auxiliary: by[p]: how the matrix of p was decided
    edits

files == <<policyFile, rolesFile, edits>>
approvalsVars == <<files, policy, friend, card, by>>

NoRecord == [status |-> "none", permissions |-> EmptyMatrix, limits |-> Absent]

\* cap: max_role, of the policy that decided; plain: roles.json did not replace
\* a built-in role then.
Undecided == [who |-> "nobody", role |-> Absent, cap |-> "guest", plain |-> TRUE]

ApprovalsTypeOK ==
    /\ policyFile \in PolicyFiles /\ rolesFile \in RolesFiles
    /\ policy \in PolicyFiles \cup {DefaultPolicy, NoPolicy}
    /\ \A p \in Peers :
        /\ friend[p].status \in {"none", "pending_in", "accepted", "blocked"}
        /\ IsMatrix(friend[p].permissions)
        /\ by[p].who \in {"nobody", "policy", "card", "owner"}
        /\ by[p].cap \in Ladder
        /\ card[p] = NoCard \/ {card[p].role, card[p].cap} \subseteq Ladder
    /\ edits \in 0 .. MaxEdits

-----------------------------------------------------------------------------
(* The policy.                                                             *)

LoadPolicy(file) ==
    CASE file = Unreadable -> DefaultPolicy
      [] file = NotAnObject -> NoPolicy        \* setdefault raises
      [] OTHER -> file

\* _auto_rule: the rules that match; the first of them counts.
Hits(p, speciality) ==
    LET Matches(rule) ==
            \/ rule.by = "fingerprint" /\ rule.of = p
            \/ rule.by = "speciality" /\ rule.of = speciality
    IN SelectSeq(policy.rules, Matches)

\* The most that the policy grants by itself; max_role may name no built-in role.
Ceiling(max) == IF max \in Ladder THEN max ELSE "partner"

Lower(role, max) == IF Rank[role] <= Rank[max] THEN role ELSE max

\* Slip: a role that is not on the ladder is granted as it is.
CapKnown(role) == IF role \in Ladder THEN Lower(role, Ceiling(policy.max)) ELSE role

\* _cap_role.
Cap(role) == IF role \in Ladder THEN Lower(role, Ceiling(policy.max)) ELSE "client"

\* Slip: what a rule names is not capped.
CapWanted(rule, wanted) ==
    IF rule.role = Absent THEN Cap(Either(wanted, "guest")) ELSE Either(rule.role, "guest")

\* evaluate, for a rule that matches: the rule may leave the role to the request.
RoleOf(rule, wanted) == Cap(Either(rule.role, Either(wanted, "guest")))

-----------------------------------------------------------------------------
(* A friend request.                                                       *)

Plain == \A i \in DOMAIN rolesFile : rolesFile[i].name \notin Ladder

Decided(who, role, cap) == [who |-> who, role |-> role, cap |-> cap, plain |-> Plain]

\* DEFAULT_GRANT_TEMPLATE.
DefaultGrant == Granting(Tasks \cup {"chat:converse"}, {})

\* Directory.approve: an empty matrix is falsy, and so are empty limits.
Approved(rec, matrix, limits) ==
    [status |-> "accepted",
     permissions |-> IF matrix = EmptyMatrix THEN DefaultGrant ELSE matrix,
     limits |-> Either(limits, rec.limits)]

\* There is a server.  Nobody is turned away, not even a blocked agent.
Received == policy # NoPolicy

Pending(p) == [friend[p] EXCEPT !.status = "pending_in"]

\* A closed agent forgets who asked, even if it was a friend.
DenyRequest(p, speciality) ==
    /\ Received
    /\ policy.default = "deny" /\ Hits(p, speciality) = <<>>
    /\ friend' = [friend EXCEPT ![p] = NoRecord]
    /\ by' = [by EXCEPT ![p] = Undecided]
    /\ UNCHANGED <<files, policy, card>>

\* The role is resolved with the roles.json of this moment.
AutoApprove(p, speciality, wanted) ==
    /\ Received
    /\ Hits(p, speciality) # <<>>
    /\ LET role == RoleOf(Hits(p, speciality)[1], wanted)
           spec == LoadRoles(rolesFile)[role]
       IN IF MatrixOf(spec) = Malformed
          THEN /\ friend' = [friend EXCEPT ![p] = Pending(p)]
               /\ UNCHANGED by
          ELSE /\ friend' = [friend EXCEPT ![p] =
                                 Approved(Pending(p), MatrixOf(spec), spec.limits)]
               /\ by' = [by EXCEPT ![p] = Decided("policy", role, Ceiling(policy.max))]
    /\ UNCHANGED <<files, policy, card>>

\* The owner is sent a card with the role to approve; a notifier may fail.
Notify(p, role) ==
    card' \in {card, [card EXCEPT ![p] = [role |-> role, cap |-> Ceiling(policy.max)]]}

Queue(p, speciality, wanted) ==
    /\ Received
    /\ policy.default # "deny" /\ Hits(p, speciality) = <<>>
    /\ friend' = [friend EXCEPT ![p] = Pending(p)]
    /\ Notify(p, IF wanted = Absent THEN "guest" ELSE Cap(wanted))
    /\ UNCHANGED <<files, policy, by>>

-----------------------------------------------------------------------------
(* The owner.                                                              *)

\* haap friends approve --role and haap_friends: no cap.  An unknown role, or
\* one with a malformed matrix, raises.
Approve(p, role, decided) ==
    LET roles == LoadRoles(rolesFile) IN
    /\ friend[p].status = "pending_in"
    /\ role \in DOMAIN roles
    /\ MatrixOf(roles[role]) # Malformed
    /\ friend' = [friend EXCEPT ![p] = Approved(@, MatrixOf(roles[role]), roles[role].limits)]
    /\ by' = [by EXCEPT ![p] = decided]
    /\ UNCHANGED <<files, policy, card>>

ApproveByHand(p, role) == Approve(p, role, Decided("owner", role, "admin"))

\* The owner does what the card says, now or much later.
ApproveCard(p) ==
    /\ card[p] # NoCard
    /\ Approve(p, card[p].role, Decided("card", card[p].role, card[p].cap))

\* --grant, without a role: the limits stay.
ApproveGrant(p, matrix) ==
    /\ friend[p].status = "pending_in"
    /\ friend' = [friend EXCEPT ![p] = Approved(@, matrix, Absent)]
    /\ by' = [by EXCEPT ![p] = Decided("owner", Absent, "admin")]
    /\ UNCHANGED <<files, policy, card>>

\* Both: the limits are those of the role.
ApproveBoth(p, matrix, role) ==
    LET roles == LoadRoles(rolesFile) IN
    /\ friend[p].status = "pending_in"
    /\ matrix # EmptyMatrix
    /\ role \in DOMAIN roles
    /\ friend' = [friend EXCEPT ![p] = Approved(@, matrix, roles[role].limits)]
    /\ by' = [by EXCEPT ![p] = Decided("owner", role, "admin")]
    /\ UNCHANGED <<files, policy, card>>

\* haap friends deny, of a request that is pending, and remove.
Withdraw(p) ==
    /\ friend[p].status # "none"
    /\ friend' = [friend EXCEPT ![p] = NoRecord]
    /\ by' = [by EXCEPT ![p] = Undecided]
    /\ UNCHANGED <<files, policy, card>>

BlockPeer(p) ==
    /\ friend' = [friend EXCEPT ![p].status = "blocked", ![p].permissions = EmptyMatrix]
    /\ by' = [by EXCEPT ![p] = Undecided]
    /\ UNCHANGED <<files, policy, card>>

WritePolicy(file) ==
    /\ edits < MaxEdits
    /\ edits' = edits + 1
    /\ policyFile' = file
    /\ UNCHANGED <<rolesFile, policy, friend, card, by>>

WriteRoles(file) ==
    /\ edits < MaxEdits
    /\ edits' = edits + 1
    /\ rolesFile' = file
    /\ UNCHANGED <<policyFile, policy, friend, card, by>>

\* Only a server that starts reads policy.json.
StartServer ==
    /\ policy' = LoadPolicy(policyFile)
    /\ UNCHANGED <<files, friend, card, by>>

-----------------------------------------------------------------------------
ApprovalsInit ==
    /\ policyFile \in PolicyFiles /\ rolesFile \in RolesFiles
    /\ policy = NoPolicy
    /\ friend = [p \in Peers |-> NoRecord]
    /\ card = [p \in Peers |-> NoCard]
    /\ by = [p \in Peers |-> Undecided]
    /\ edits = 0

Request(p) ==
    \E speciality \in Specialities \cup {Absent}, wanted \in Named \cup {Absent} :
        \/ DenyRequest(p, speciality)
        \/ AutoApprove(p, speciality, wanted)
        \/ Queue(p, speciality, wanted)

OwnerStep(p) ==
    \/ \E role \in Named : ApproveByHand(p, role)
    \/ ApproveCard(p)
    \/ \E matrix \in Grants : ApproveGrant(p, matrix)
    \/ \E matrix \in Grants, role \in Named : ApproveBoth(p, matrix, role)
    \/ Withdraw(p) \/ BlockPeer(p)

Edit ==
    \/ \E file \in PolicyFiles : WritePolicy(file)
    \/ \E file \in RolesFiles : WriteRoles(file)

ApprovalsNext == (\E p \in Peers : Request(p) \/ OwnerStep(p)) \/ Edit \/ StartServer

ApprovalsSpec == ApprovalsInit /\ [][ApprovalsNext]_approvalsVars

-----------------------------------------------------------------------------
(* Properties.                                                             *)

\* The policy decided, or the owner followed its card.
ByPolicy(p) == by[p].who \in {"policy", "card"}

\* What a request may name, and that it names none.
Resources == {pair[2] : pair \in Matching} \cup {""}

BookingOrNone(r) ==
    r = "" \/ \E pattern \in {"booking:*", "service:*"} : <<pattern, r>> \in Matching

\* What the policy grants, or suggests, is a role of the ladder, and at most its
\* max_role or a client, whatever a rule, a request and roles.json name.
CappedAtClient ==
    \A p \in Peers : ByPolicy(p) =>
        /\ by[p].role \in Ladder
        /\ Rank[by[p].role] <= Rank[by[p].cap] \/ by[p].role = "client"

\* An agent that the policy let in does not get at files or at the terminal if
\* max_role is below admin; if it is below partner, it can do nothing but tasks,
\* and of the resources that a task names only bookings and services; and if it
\* is guest, it can only converse, unless an unknown role made it a client.  A
\* task that names no resource passes the scopes of a client.  The agent may
\* have been let in long ago, under other files; the owner has not replaced a
\* built-in role.
MatrixWithinCap ==
    \A p \in Peers, a \in Catalog \ {"chat:converse"}, r \in Resources :
        ByPolicy(p) /\ by[p].plain /\ Check(friend[p].permissions, a, r) =>
            /\ Rank[by[p].cap] < Rank.admin => a \notin Files
            /\ Rank[by[p].cap] < Rank.partner => a \in Tasks /\ BookingOrNone(r)
            /\ by[p].cap = "guest" => by[p].role = "client"

-----------------------------------------------------------------------------
(* What the documents say, and the code does not do.                       *)

\* policy.py, of _cap_role: "Auto-approvals can never exceed max_role".
AutoWithinMax ==
    \A p \in Peers :
        by[p].who = "policy" => Rank[by[p].role] <= Rank[by[p].cap]

=============================================================================
