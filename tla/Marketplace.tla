------------------------------ MODULE Marketplace ------------------------------
(***************************************************************************)
(* Open services: a business serves agents that are no friends of it.      *)
(* service_book of haap/client.py with its transport, and the service_     *)
(* handlers of haap/server.py, whose one gate is that the sender is not    *)
(* blocked, keeps within a rate limit, and the business accepts bookings.  *)
(* A booking runs the executor behind on_task, and is recorded as a task.  *)
(*                                                                         *)
(* The transport posts an envelope again after a timeout, as in            *)
(* Delegation.  The two buckets of the rate limit are one number here, the *)
(* lower of the two (RateLimiter has them).  The registry of tasks is in   *)
(* memory, as the default is.  Nothing is persisted but the directory, and *)
(* that by the business's owner.                                           *)
(***************************************************************************)
EXTENDS Integers, TaskStates

CONSTANTS
    Agents,       \* the fingerprints of the clients
    Calls,        \* the calls of service_book
    Caller,       \* Caller[c]: the agent that makes the call
    Retries,      \* HttpTransport.retries
    Capacity,     \* of the marketplace bucket
    MaxRestarts   \* bound on the restarts of the business

ASSUME MarketplaceAssumption ==
    /\ Caller \in [Calls -> Agents]
    /\ {Retries, Capacity, MaxRestarts} \subseteq Nat

VARIABLES
    autoAccept,   \* marketplace_policy["auto_accept"]
    backend,      \* there is an on_task
    status,       \* status[a]: of a in the directory of the business
    tokens,       \* tokens[a]: what a has left
    call,         \* call[c]: what became of the call
    try,          \* try[c]: the attempt that the client waits for
    wire,         \* the copies of envelopes under way, <<c, i>>
    accepted,     \* the calls whose nonce is marked
    handler,      \* handler[c]: how far the handler of c has come
    serves,       \* serves[c]: the attempt that it answers
    record,       \* record[c]: the state of the task of c
    booked,       \* booked[c]: how often the executor has reserved what c asks for
    restarts,
    excused       \* auxiliary: the calls that were let in before their agent was blocked

business == <<autoAccept, backend>>
clients == <<call, try>>
work == <<handler, serves, record, booked>>
vars == <<business, status, tokens, clients, wire, accepted, work, restarts, excused>>

Attempt == 1 .. Retries + 1

\* "checked": not blocked; "running": on_task runs; "ran": it has returned;
\* "replying": only the answer is left.
Running == {"checked", "running", "ran", "accepted", "replying"}

TypeOK ==
    /\ autoAccept \in BOOLEAN /\ backend \in BOOLEAN
    /\ status \in [Agents -> {"none", "pending_in", "blocked"}]
    /\ tokens \in [Agents -> 0 .. Capacity]
    /\ call \in [Calls -> {"idle", "waiting", "booked", "refused", "replay", "lost"}]
    /\ try \in [Calls -> 0 .. Retries + 1]
    /\ wire \subseteq Calls \X Attempt
    /\ accepted \subseteq Calls
    /\ handler \in [Calls -> {"none", "verified"} \cup Running]
    /\ serves \in [Calls -> 0 .. Retries + 1]
    /\ record \in [Calls -> States \cup {"none"}]
    /\ booked \in [Calls -> 0 .. MaxRestarts + 1]
    /\ restarts \in 0 .. MaxRestarts
    /\ excused \subseteq Calls

-----------------------------------------------------------------------------
(* The client.                                                             *)

Post(c) ==
    /\ call[c] = "idle"
    /\ call' = [call EXCEPT ![c] = "waiting"]
    /\ try' = [try EXCEPT ![c] = 1]
    /\ wire' = wire \cup {<<c, 1>>}
    /\ UNCHANGED <<business, status, tokens, accepted, work, restarts, excused>>

\* Slip: one attempt too many.
TimeoutOnceMore(c) ==
    /\ call[c] = "waiting"
    /\ try[c] <= Retries + 1
    /\ try' = [try EXCEPT ![c] = @ + 1]
    /\ wire' = wire \cup {<<c, try[c] + 1>>}
    /\ UNCHANGED <<business, status, tokens, call, accepted, work, restarts, excused>>

\* The attempt timed out or failed.
Timeout(c) ==
    /\ call[c] = "waiting"
    /\ IF try[c] <= Retries
       THEN /\ try' = [try EXCEPT ![c] = @ + 1]
            /\ wire' = wire \cup {<<c, try[c] + 1>>}
            /\ UNCHANGED call
       ELSE /\ call' = [call EXCEPT ![c] = "lost"]
            /\ UNCHANGED <<try, wire>>
    /\ UNCHANGED <<business, status, tokens, accepted, work, restarts, excused>>

\* Attempt i of c is answered; an answer may be lost, or come too late.
Answer(c, i, outcome) ==
    \/ UNCHANGED clients
    \/ /\ call[c] = "waiting" /\ try[c] = i
       /\ call' = [call EXCEPT ![c] = outcome]
       /\ UNCHANGED try

-----------------------------------------------------------------------------
(* The business.                                                           *)

\* Slip: nonces are not marked.
VerifyUnmarked(c, i) ==
    /\ <<c, i>> \in wire
    /\ wire' = wire \ {<<c, i>>}
    /\ handler[c] = "none"
    /\ handler' = [handler EXCEPT ![c] = "verified"]
    /\ serves' = [serves EXCEPT ![c] = i]
    /\ UNCHANGED <<business, status, tokens, clients, accepted, record, booked, restarts, excused>>

\* handle_message: a copy of an envelope that was verified before is a replay.
Verify(c, i) ==
    /\ <<c, i>> \in wire
    /\ wire' = wire \ {<<c, i>>}
    /\ IF c \in accepted
       THEN /\ Answer(c, i, "replay")
            /\ UNCHANGED <<accepted, handler, serves>>
       ELSE /\ accepted' = accepted \cup {c}
            /\ handler' = [handler EXCEPT ![c] = "verified"]
            /\ serves' = [serves EXCEPT ![c] = i]
            /\ UNCHANGED clients
    /\ UNCHANGED <<business, status, tokens, record, booked, restarts, excused>>

\* The end of the handler.
Reply(c, outcome) ==
    /\ handler' = [handler EXCEPT ![c] = "none"]
    /\ Answer(c, serves[c], outcome)
    /\ excused' = excused \ {c}
    /\ UNCHANGED serves

Advance(c, stage) ==
    /\ handler' = [handler EXCEPT ![c] = stage]
    /\ UNCHANGED <<clients, serves, excused>>

\* Slip: nobody is turned away.
CheckNobody(c) ==
    /\ handler[c] = "verified"
    /\ Advance(c, "checked")
    /\ UNCHANGED <<business, status, tokens, wire, accepted, record, booked, restarts>>

\* _check_marketplace_sender: PERMISSION_DENIED.
CheckSender(c) ==
    /\ handler[c] = "verified"
    /\ IF status[Caller[c]] = "blocked"
       THEN Reply(c, "refused")
       ELSE Advance(c, "checked")
    /\ UNCHANGED <<business, status, tokens, wire, accepted, record, booked, restarts>>

\* The rate limit, RATE_LIMITED.
Take(a) ==
    /\ tokens[a] > 0
    /\ tokens' = [tokens EXCEPT ![a] = @ - 1]

\* Over the limit, or auto_accept is off; the token is gone then.
Refuse(c) ==
    /\ handler[c] = "checked"
    /\ \/ tokens[Caller[c]] = 0 /\ UNCHANGED tokens
       \/ ~autoAccept /\ Take(Caller[c])
    /\ Reply(c, "refused")
    /\ UNCHANGED <<business, status, wire, accepted, record, booked, restarts>>

\* tasks.create; a business without on_task records nothing.
Create(c) ==
    /\ handler[c] = "checked"
    /\ autoAccept
    /\ Take(Caller[c])
    /\ IF backend
       THEN /\ Advance(c, "running")
            /\ record' = [record EXCEPT ![c] = "submitted"]
       ELSE /\ Advance(c, "replying")
            /\ UNCHANGED record
    /\ UNCHANGED <<business, status, wire, accepted, booked, restarts>>

\* Slip: a task that failed is confirmed like any other.
ExecuteAnyhow(c) ==
    /\ handler[c] = "running"
    /\ booked' \in {booked, [booked EXCEPT ![c] = @ + 1]}
    /\ Advance(c, "ran")
    /\ UNCHANGED <<business, status, tokens, wire, accepted, record, restarts>>

\* on_task returns: it has reserved.
Execute(c) ==
    /\ handler[c] = "running"
    /\ booked' = [booked EXCEPT ![c] = @ + 1]
    /\ Advance(c, "ran")
    /\ UNCHANGED <<business, status, tokens, wire, accepted, record, restarts>>

\* Slip: an error after on_task is answered like one of it.
RaiseLate(c) ==
    /\ handler[c] \in {"running", "ran"}
    /\ record' = [record EXCEPT ![c] = "failed"]
    /\ Reply(c, "refused")
    /\ UNCHANGED <<business, status, tokens, wire, accepted, booked, restarts>>

\* on_task raises: TASK_ERROR.
Raise(c) ==
    /\ handler[c] = "running"
    /\ CanMove(record[c], "failed")
    /\ record' = [record EXCEPT ![c] = "failed"]
    /\ Reply(c, "refused")
    /\ UNCHANGED <<business, status, tokens, wire, accepted, booked, restarts>>

\* tasks.update, twice.
Update(c, from, state, to) ==
    /\ handler[c] = from
    /\ CanMove(record[c], state)
    /\ record' = [record EXCEPT ![c] = state]
    /\ Advance(c, to)
    /\ UNCHANGED <<business, status, tokens, wire, accepted, booked, restarts>>

Accept(c) == Update(c, "ran", "accepted", "accepted")

Complete(c) == Update(c, "accepted", "completed", "replying")

\* The task_result, whose task_id is not the one of the record.
Confirm(c) ==
    /\ handler[c] = "replying"
    /\ Reply(c, "booked")
    /\ UNCHANGED <<business, status, tokens, wire, accepted, record, booked, restarts>>

\* Every other service message passes the same gate.
Inquire(a) ==
    /\ status[a] # "blocked"
    /\ Take(a)
    /\ UNCHANGED <<business, status, clients, wire, accepted, work, restarts, excused>>

\* service_search.
Search(a) == Inquire(a)

\* service_cancel: it is answered as done, and what was booked stays booked.
Cancel(c) == call[c] = "booked" /\ Inquire(Caller[c])

Refill(a) ==
    /\ tokens[a] < Capacity
    /\ tokens' = [tokens EXCEPT ![a] = @ + 1]
    /\ UNCHANGED <<business, status, clients, wire, accepted, work, restarts, excused>>

-----------------------------------------------------------------------------
(* The directory of the business, and its end.                             *)

\* block on the server's own Directory, as an embedding of the server does it.
\* haap friends block and the haap_friends tool make a Directory of their own,
\* which a running server does not read: a block of theirs is not this action.
Block(a) ==
    /\ status' = [status EXCEPT ![a] = "blocked"]
    /\ excused' = excused \cup {c \in Calls : Caller[c] = a /\ handler[c] \in Running}
    /\ UNCHANGED <<business, tokens, clients, wire, accepted, work, restarts>>

\* remove, on the same Directory.
Remove(a) ==
    /\ status[a] # "none"
    /\ status' = [status EXCEPT ![a] = "none"]
    /\ UNCHANGED <<business, tokens, clients, wire, accepted, work, restarts, excused>>

\* friend_request, which takes an agent out of blocked as well.
Ask(a) ==
    /\ status' = [status EXCEPT ![a] = "pending_in"]
    /\ UNCHANGED <<business, tokens, clients, wire, accepted, work, restarts, excused>>

\* The server ends, and starts again; what the executor did stays done.
Restart ==
    /\ restarts < MaxRestarts
    /\ restarts' = restarts + 1
    /\ accepted' = {}
    /\ tokens' = [a \in Agents |-> Capacity]
    /\ handler' = [c \in Calls |-> "none"]
    /\ record' = [c \in Calls |-> "none"]
    /\ excused' = {}
    /\ UNCHANGED <<business, status, clients, wire, serves, booked>>

-----------------------------------------------------------------------------
Init ==
    /\ autoAccept \in BOOLEAN /\ backend \in BOOLEAN
    /\ status = [a \in Agents |-> "none"]
    /\ tokens = [a \in Agents |-> Capacity]
    /\ call = [c \in Calls |-> "idle"]
    /\ try = [c \in Calls |-> 0]
    /\ wire = {} /\ accepted = {}
    /\ handler = [c \in Calls |-> "none"]
    /\ serves = [c \in Calls |-> 0]
    /\ record = [c \in Calls |-> "none"]
    /\ booked = [c \in Calls |-> 0]
    /\ restarts = 0
    /\ excused = {}

ServiceBook(c) ==
    \/ \E i \in Attempt : Verify(c, i)
    \/ CheckSender(c) \/ Refuse(c) \/ Create(c)
    \/ Execute(c) \/ Raise(c) \/ Accept(c) \/ Complete(c) \/ Confirm(c)

DirectoryStep(a) == Block(a) \/ Remove(a) \/ Ask(a)

Next ==
    \/ \E c \in Calls : Post(c) \/ Timeout(c) \/ ServiceBook(c) \/ Cancel(c)
    \/ \E a \in Agents : Search(a) \/ Refill(a) \/ DirectoryStep(a)
    \/ Restart

Spec == Init /\ [][Next]_vars

-----------------------------------------------------------------------------
(* Properties.                                                             *)

\* A call books at most once in a life of the business, though its envelope is
\* posted again.
BookedOnce == \A c \in Calls : booked[c] <= restarts + 1

\* What a client is told is what the business did: a booking that is confirmed
\* was made and is recorded, one that is refused, other than as a replay, was not
\* made, and no record stays open; but for what a restart forgets.
Informed ==
    \A c \in Calls :
        /\ call[c] = "booked" /\ backend => booked[c] > 0
        /\ restarts = 0 =>
            /\ call[c] = "booked" /\ backend => record[c] = "completed"
            /\ call[c] = "refused" => booked[c] = 0 /\ record[c] \in {"none", "failed"}

\* From the moment an agent is blocked nothing of it is let in, until it is
\* taken out of blocked.
BlockTakesHold ==
    \A c \in Calls :
        handler[c] \in Running /\ status[Caller[c]] = "blocked" => c \in excused

=============================================================================
