------------------------------ MODULE Friendship ------------------------------
(***************************************************************************)
(* The friendship state machine of one agent: the `Directory` of           *)
(* haap/directory.py, the handlers of haap/server.py that read and write   *)
(* it, and the owner's commands, all on one Directory instance.            *)
(*                                                                         *)
(* HAAPServer runs every inbound message in a thread of its own            *)
(* (ThreadingHTTPServer).  Each Directory method is atomic under the       *)
(* instance's RLock, but a handler makes several calls and keeps a         *)
(* reference to the record in between: `_on_friend_request` mutates the    *)
(* record outside the lock and stores it back, `_on_task_request` reads    *)
(* the matrix of a record it fetched earlier.  Records are therefore       *)
(* objects with an identity: `friends` maps a peer to the object that      *)
(* stands in the directory, `heap` holds the objects, and an object can be *)
(* removed from the directory while a handler still carries it.            *)
(*                                                                         *)
(* Left to other modules or out: signatures and nonces (AntiReplay), the   *)
(* file behind the directory (DirectoryStore), rate limits and scopes (a   *)
(* request may be refused for them at any time).                           *)
(***************************************************************************)
EXTENDS FriendRecords

CONSTANTS
    Peers,          \* the remote agents
    Threads,        \* the handler threads
    Ids,            \* identities of record objects, per peer; the bound on
                    \* objects: one in the directory, one carried by each
                    \* thread and one being created never exhaust
                    \* Cardinality(Threads) + 2
    NoId,           \* no object
    NoPeer,         \* peer of an idle thread
    NoAction,       \* action of a thread that handles no task
    OwnerGrants,    \* the matrices the owner may type
    RoleGrants      \* the matrices of the roles the policy may resolve to

ASSUME NoIdAssumption == NoId \notin Ids
ASSUME NoPeerAssumption == NoPeer \notin Peers
ASSUME GrantsAssumption ==
    /\ OwnerGrants \subseteq SUBSET Actions
    /\ RoleGrants \subseteq SUBSET Actions

VARIABLES
    friends,    \* friends[p]: the object in Directory._friends, or NoId
    heap,       \* heap[p][i]: the FriendRecord object i of peer p
    thread      \* thread[t]: what handler thread t is doing

\* Auxiliary: never read by a guard, they say what the owner decided.
VARIABLES
    granted,    \* granted[p]: actions granted to p since the last revocation
    may         \* may[t]: actions granted to the peer of the task request
                \* that t handles, at some moment since it looked the peer up

vars == <<friends, heap, thread, granted, may>>

-----------------------------------------------------------------------------
(* Threads.                                                                *)

\* friend_request: "registered" (register_known returned the record),
\* "marked" (status set), "stored" (upserted, policy evaluated next),
\* "denying" and "sweeping" (deny branch), "approved" (auto branch, record
\* to be upserted again).  task_request: "accepted" (require succeeded),
\* "permitted" (the matrix allows the action), "running" (on_task).
RequestStages == {"registered", "marked", "stored", "denying", "sweeping", "approved"}
TaskStages == {"accepted", "permitted", "running"}

Handler ==
    [at : {"idle"} \cup RequestStages \cup TaskStages, peer : Peers \cup {NoPeer},
     rec : Ids \cup {NoId}, action : Actions \cup {NoAction}]

Freed == NewPendingIn

Idle == [at |-> "idle", peer |-> NoPeer, rec |-> NoId, action |-> NoAction]

TypeOK ==
    /\ friends \in [Peers -> Ids \cup {NoId}]
    /\ heap \in [Peers -> [Ids -> FriendRecord]]
    /\ thread \in [Threads -> Handler]
    /\ granted \in [Peers -> SUBSET Actions]
    /\ may \in [Threads -> SUBSET Actions]

\* The handlers of p that will store the record they carry.
Writers(p) ==
    {t \in Threads : /\ thread[t].peer = p
                     /\ thread[t].at \in {"registered", "marked", "approved"}}

Carried(p) == {thread[t].rec : t \in Writers(p)}

Known(p) == friends[p] # NoId

Record(p) == heap[p][friends[p]]

Goto(t, stage) == thread' = [thread EXCEPT ![t].at = stage]

Finish(t) ==
    /\ thread' = [thread EXCEPT ![t] = Idle]
    /\ may' = [may EXCEPT ![t] = {}]

-----------------------------------------------------------------------------
(* Writing the directory.                                                  *)

References(p) ==
    {friends[p]} \cup {thread[t].rec : t \in {u \in Threads : thread[u].peer = p}}

\* An identity that no reference names; `Room(p)` is the bound on objects.
Room(p) == Ids \ References(p) # {}
New(p) == CHOOSE i \in Ids : i \notin References(p)

Put(p, i) == friends' = [friends EXCEPT ![p] = i]

\* The objects of p become `objects`; the ones that no reference names after
\* the step are freed, as Python does.
Objects(p, objects) ==
    LET referenced == {friends'[p]} \cup
                      {thread'[t].rec : t \in {u \in Threads : thread'[u].peer = p}}
    IN  heap' = [heap EXCEPT ![p] =
                    [i \in Ids |-> IF i \in referenced THEN objects[i] ELSE Freed]]

Write(p, i, record) == Objects(p, [heap[p] EXCEPT ![i] = record])

\* Deleting leaves the objects that handlers carry as they are: it takes
\* effect once no handler can store one of them again.
Withdraw(p) ==
    /\ Put(p, NoId)
    /\ Objects(p, heap[p])
    /\ granted' = [granted EXCEPT ![p] = IF Writers(p) = {} THEN {} ELSE @]

\* `grant` stands from now on.  It is the only one if no handler carries an
\* object other than those in `overwritten`.
Grant(p, grant, overwritten) ==
    /\ granted' = [granted EXCEPT ![p] =
                      IF Carried(p) \subseteq overwritten THEN grant ELSE @ \cup grant]
    /\ may' = [t \in Threads |->
                  IF thread[t].peer = p /\ thread[t].at \in TaskStages
                  THEN may[t] \cup grant ELSE may[t]]

-----------------------------------------------------------------------------
(* Messages handled in one Directory call.                                 *)

\* challenge, once the proof of possession is verified: register_known
\* changes nothing of a record that exists.
Introduce(p) ==
    /\ ~Known(p)
    /\ Room(p)
    /\ Put(p, New(p))
    /\ UNCHANGED <<thread, granted, may>>
    /\ Write(p, New(p), NewPendingIn)

\* friend_accept: mark_outbound_accepted.
FriendAccept(p) ==
    /\ Known(p)
    /\ CanConfirm(Record(p))
    /\ UNCHANGED <<friends, thread, granted, may>>
    /\ Write(p, friends[p], Confirmed(Record(p)))

-----------------------------------------------------------------------------
(* friend_request.                                                         *)

Carrying(p, i) == [at |-> "registered", peer |-> p, rec |-> i, action |-> NoAction]

\* register_known finds the record of p, or creates it.
FriendRequest(t, p) ==
    /\ thread[t] = Idle
    /\ UNCHANGED <<granted, may>>
    /\ \/ /\ Known(p)
          /\ thread' = [thread EXCEPT ![t] = Carrying(p, friends[p])]
          /\ UNCHANGED <<friends, heap>>
       \/ /\ ~Known(p)
          /\ Room(p)
          /\ thread' = [thread EXCEPT ![t] = Carrying(p, New(p))]
          /\ Put(p, New(p))
          /\ Write(p, New(p), NewPendingIn)

\* `rec.status = "pending_in"`, outside the lock.
MarkPending(t) ==
    /\ thread[t].at = "registered"
    /\ Goto(t, "marked")
    /\ LET p == thread[t].peer
           i == thread[t].rec
       IN  heap' = [heap EXCEPT ![p][i] = Requested(heap[p][i])]
    /\ UNCHANGED <<friends, granted, may>>

\* `directory.upsert(rec)`: the carried object stands in the directory, also
\* when it had been removed or replaced in the meantime.
Upsert(t, next) ==
    /\ Put(thread[t].peer, thread[t].rec)
    /\ thread' = [thread EXCEPT ![t] = next]
    /\ Objects(thread[t].peer, heap[thread[t].peer])
    /\ UNCHANGED <<granted, may>>

StoreRequest(t) ==
    /\ thread[t].at = "marked"
    /\ Upsert(t, [thread[t] EXCEPT !.at = "stored", !.rec = NoId])

\* Decision "queue": the owner is notified and the record waits.
Queue(t) ==
    /\ thread[t].at = "stored"
    /\ Finish(t)
    /\ UNCHANGED <<friends, heap, granted>>

Pending(p) == Known(p) /\ CanDecide(Record(p))

\* `approve` and `deny` raise when the record is not pending any more, which
\* ends the handler.
NotPending(t) ==
    /\ ~Pending(thread[t].peer)
    /\ Finish(t)
    /\ UNCHANGED <<friends, heap, granted>>

\* Decision "deny", its first condition: is there a pending record?  (If the
\* record disappears between the two calls of `get`, the handler dies here,
\* which has the same effect as finding nothing to sweep.)
PolicyDeny(t) ==
    /\ thread[t].at = "stored"
    /\ Goto(t, IF Pending(thread[t].peer) THEN "denying" ELSE "sweeping")
    /\ UNCHANGED <<friends, heap, granted, may>>

\* `directory.deny(fp)`
PolicyDelete(t) ==
    /\ thread[t].at = "denying"
    /\ \/ /\ Pending(thread[t].peer)
          /\ Goto(t, "sweeping")
          /\ Withdraw(thread[t].peer)
          /\ UNCHANGED may
       \/ NotPending(t)

\* `if directory.get(fp) is not None: directory.remove(fp)`
PolicySweep(t) ==
    /\ thread[t].at = "sweeping"
    /\ Finish(t)
    /\ IF Known(thread[t].peer)
       THEN Withdraw(thread[t].peer)
       ELSE UNCHANGED <<friends, heap, granted>>

\* Decision "auto": approve with the matrix of the role.
AutoApprove(t, grant) ==
    /\ thread[t].at = "stored"
    /\ LET p == thread[t].peer
       IN  \/ /\ Pending(p)
              /\ thread' = [thread EXCEPT ![t].at = "approved", ![t].rec = friends[p]]
              /\ UNCHANGED friends
              /\ Write(p, friends[p], Approved(Record(p), grant))
              /\ Grant(p, EffectiveGrant(grant), {friends[p]})
           \/ NotPending(t)

\* The auto branch stores the approved record once more, for its notes.
StoreApproved(t) ==
    /\ thread[t].at = "approved"
    /\ Upsert(t, Idle)

-----------------------------------------------------------------------------
(* task_request.                                                           *)

\* `directory.require(sender, statuses=("accepted",))`
TaskRequest(t, p, a) ==
    /\ thread[t] = Idle
    /\ Known(p)
    /\ Record(p).status = "accepted"
    /\ thread' = [thread EXCEPT ![t] =
                     [at |-> "accepted", peer |-> p, rec |-> friends[p], action |-> a]]
    /\ may' = [may EXCEPT ![t] = granted[p]]
    /\ UNCHANGED <<friends, heap, granted>>

\* Slip: the matrix is not looked at.
CheckNothing(t) ==
    /\ thread[t].at = "accepted"
    /\ thread' = [thread EXCEPT ![t].at = "permitted", ![t].rec = NoId]
    /\ UNCHANGED <<friends, granted, may>>
    /\ Objects(thread[t].peer, heap[thread[t].peer])

\* `rec.has_permission(action)` and `permissions.check`, on the record
\* fetched earlier and without the lock.
CheckPermission(t) ==
    /\ thread[t].at = "accepted"
    /\ thread[t].action \in heap[thread[t].peer][thread[t].rec].permissions
    /\ thread' = [thread EXCEPT ![t].at = "permitted", ![t].rec = NoId]
    /\ UNCHANGED <<friends, granted, may>>
    /\ Objects(thread[t].peer, heap[thread[t].peer])

\* The rate limiter let it pass; the task is created and on_task called.
RunTask(t) ==
    /\ thread[t].at = "permitted"
    /\ Goto(t, "running")
    /\ UNCHANGED <<friends, heap, granted, may>>

\* Permission denied, rate limited, or on_task returned or raised.
EndTask(t) ==
    /\ thread[t].at \in TaskStages
    /\ Finish(t)
    /\ UNCHANGED <<friends, granted>>
    /\ Objects(thread[t].peer, heap[thread[t].peer])

-----------------------------------------------------------------------------
(* The owner's commands.                                                   *)

AddPendingOut(p, grant) ==
    /\ Known(p) => CanAddPendingOut(Record(p))
    /\ Room(p)
    /\ Put(p, New(p))
    /\ UNCHANGED thread
    /\ Write(p, New(p), PendingOut(grant))
    /\ Grant(p, grant, {})

Approve(p, grant) ==
    /\ Pending(p)
    /\ UNCHANGED <<friends, thread>>
    /\ Write(p, friends[p], Approved(Record(p), grant))
    /\ Grant(p, EffectiveGrant(grant), {friends[p]})

Deny(p) ==
    /\ Pending(p)
    /\ UNCHANGED <<thread, may>>
    /\ Withdraw(p)

\* Slip: a blocked record replaces the one that exists, which handlers carry.
BlockReplacing(p) ==
    /\ Room(p)
    /\ UNCHANGED <<thread, may>>
    /\ Put(p, New(p))
    /\ Write(p, New(p), Blocked)
    /\ granted' = [granted EXCEPT ![p] =
                      IF Carried(p) \subseteq {friends[p]} THEN {} ELSE @]

\* A record that exists is blocked in place, whoever carries it; another one
\* is created for a peer that is unknown.
Block(p) ==
    /\ UNCHANGED <<thread, may>>
    /\ \/ /\ Known(p)
          /\ UNCHANGED friends
          /\ Write(p, friends[p], Blocked)
       \/ /\ ~Known(p)
          /\ Room(p)
          /\ Put(p, New(p))
          /\ Write(p, New(p), Blocked)
    /\ granted' = [granted EXCEPT ![p] =
                      IF Carried(p) \subseteq {friends[p]} THEN {} ELSE @]

Remove(p) ==
    /\ Known(p)
    /\ UNCHANGED <<thread, may>>
    /\ Withdraw(p)

-----------------------------------------------------------------------------
Init ==
    /\ friends = [p \in Peers |-> NoId]
    /\ heap = [p \in Peers |-> [i \in Ids |-> NewPendingIn]]
    /\ thread = [t \in Threads |-> Idle]
    /\ granted = [p \in Peers |-> {}]
    /\ may = [t \in Threads |-> {}]

Message(p) == Introduce(p) \/ FriendAccept(p)

RequestStep(t) ==
    \/ \E p \in Peers : FriendRequest(t, p)
    \/ MarkPending(t) \/ StoreRequest(t)
    \/ Queue(t)
    \/ PolicyDeny(t) \/ PolicyDelete(t) \/ PolicySweep(t)
    \/ \E grant \in RoleGrants : AutoApprove(t, grant)
    \/ StoreApproved(t)

TaskStep(t) ==
    \/ \E p \in Peers, a \in Actions : TaskRequest(t, p, a)
    \/ CheckPermission(t) \/ RunTask(t) \/ EndTask(t)

OwnerStep(p) ==
    \/ \E grant \in OwnerGrants : AddPendingOut(p, grant) \/ Approve(p, grant)
    \/ Deny(p) \/ Block(p) \/ Remove(p)

Next ==
    \/ \E p \in Peers : Message(p) \/ OwnerStep(p)
    \/ \E t \in Threads : RequestStep(t) \/ TaskStep(t)

Spec == Init /\ [][Next]_vars

-----------------------------------------------------------------------------
(* Properties.                                                             *)

\* What the directory gives is granted.
DirectoryWithinGrant ==
    \A p \in Peers : Known(p) => Record(p).permissions \subseteq granted[p]

\* The same for the records that handlers carry and may still store.
CarriedWithinGrant ==
    \A p \in Peers : \A t \in Writers(p) :
        heap[p][thread[t].rec].permissions \subseteq granted[p]

\* A relationship never gives more than what the owner or the owner's policy
\* granted since it was last revoked, in whatever order handlers and commands
\* interleave: not after a friend_accept nobody asked for, not when a
\* friend_request takes a blocked peer out of "blocked", not when a handler
\* stores a record again that had been deleted.  (Directory.approve, block,
\* register_known, mark_outbound_accepted, upsert.)
MatrixWithinGrant == DirectoryWithinGrant /\ CarriedWithinGrant

\* A task runs only if its action was granted to its sender at some moment
\* since the handler looked the sender up, although `_on_task_request` reads
\* the matrix of a record that others change or delete meanwhile.
OnlyGrantedTasksRun ==
    \A t \in Threads :
        thread[t].at \in {"permitted", "running"} => thread[t].action \in may[t]

\* The request of AccessControl that thread t stands for.
RequestOf(t) ==
    IF thread[t].at \in TaskStages
    THEN [state |-> IF thread[t].at = "running" THEN "running" ELSE "open",
          peer |-> thread[t].peer, action |-> thread[t].action, may |-> may[t]]
    ELSE [state |-> "none", peer |-> NoPeer, action |-> NoAction, may |-> {}]

Access == INSTANCE AccessControl WITH
    Requests <- Threads,
    allowed <- granted,
    request <- [t \in Threads |-> RequestOf(t)]

\* Refinement: all the directory and the handlers do, seen from outside, is
\* to grant, to revoke and to run requests as AccessControl allows.
ImplementsAccessControl == Access!Spec

-----------------------------------------------------------------------------
(* What documentation and comments say of the friendship, and the code     *)
(* does not do.                                                            *)

StatusOf(p) == IF Known(p) THEN Record(p).status ELSE "none"

\* friendship-handshake.md: "`block` keeps a tombstone [...] so every future
\* message from that fingerprint is rejected"; only the owner lifts it.
BlockIsFinal ==
    [][\A p \in Peers :
          StatusOf(p) = "blocked" => StatusOf(p)' = "blocked" \/ Remove(p)]_vars

\* cli-and-config.md: "`friends remove FP` deletes any relationship record":
\* whoever comes back starts with an empty matrix, until the owner grants one.
RemovedForGood ==
    [][\A p \in Peers :
          StatusOf(p) = "none" /\ StatusOf(p)' # "none" =>
              \/ Record(p)'.permissions = {}
              \/ \E grant \in OwnerGrants : AddPendingOut(p, grant)]_vars

=============================================================================
