------------------------------ MODULE Delegation ------------------------------
(***************************************************************************)
(* One agent delegates tasks to another: HAAPClient.delegate_task and      *)
(* _send (haap/client.py), HttpTransport.send (haap/transport.py), the     *)
(* executing agent's _on_task_request and the delegating agent's           *)
(* _on_task_result (haap/server.py), each on a TaskRegistry (haap/tasks.py)*)
(* of its agent.  The delegating agent is the embedding that               *)
(* openwiki/concepts/task-delegation.md asks for: its client and its       *)
(* server share one registry, a file, or no asynchronous result would      *)
(* reach the client.  The executing agent's registry is a file or, as      *)
(* HAAPServer has it by default, in memory.                                *)
(*                                                                         *)
(* A call is one delegate_task with the one envelope that it signs.  The   *)
(* transport posts that envelope again after a timeout or an error of the  *)
(* network, so several copies of it may be under way, and an answer counts *)
(* only while the client still waits for the attempt it answers.  Every    *)
(* copy that arrives has a thread of its own.                              *)
(*                                                                         *)
(* src/haap takes task_result messages but never sends one: the executing  *)
(* agent's host does.  The handler would take any state from any sender    *)
(* whose key the server knows; the model assumes that a result comes from  *)
(* the host that executes the task, since only the two agents of a task    *)
(* know its random id, and is what that host decided.                      *)
(***************************************************************************)
EXTENDS Integers, TaskStates

CONSTANTS
    Calls,       \* the delegate_task calls
    Tasks,       \* the task ids that the executing agent can give out
    NoCall,      \* call of an unused task id
    NoTask,      \* task of a call that has none
    Retries,     \* HttpTransport.retries
    PollMax,     \* poll_max
    Persistent,  \* the tasks whose result the executor pushes until it is taken
    MaxRestarts  \* bound on the restarts of the executing agent

ASSUME DelegationAssumption ==
    /\ NoCall \notin Calls
    /\ NoTask \notin Tasks
    /\ Retries \in Nat /\ PollMax \in Nat /\ MaxRestarts \in Nat
    /\ Persistent \subseteq Tasks

VARIABLES
    call,      \* call[c]: the progress of the call
    wire,      \* wire[c]: the attempts of c whose copy is under way
    accepted,  \* the calls whose nonce the executing agent has marked
    record,    \* record[k]: state of task k in the executing agent's registry
    handler,   \* handler[k]: the thread that serves task k
    job,       \* job[k]: the executor's work after on_task returned None
    mirror,    \* mirror[k]: state of task k in the delegating agent's registry
    restarts,  \* how often the executing agent restarted
    origin,    \* auxiliary: the call and the server's life that k comes from
    verdict    \* auxiliary: the end that the executor decided for k

client == <<call, wire>>
server == <<accepted, record, handler, origin, restarts>>
vars == <<client, server, job, mirror, verdict>>

Attempts == 1 .. Retries + 1

\* What is left to do of a call that was answered; "raised" also stands for a
\* call whose process died.
CallStages == {"idle", "waiting", "answered", "created", "marked", "polling",
               "settled", "returned", "raised"}

\* "created": on_task is running; "accepting", "settling": the two updates are
\* ahead; "replying": only the answer is.
HandlerStages == {"none", "created", "accepting", "settling", "replying"}

Call == [at : CallStages, try : 0 .. Retries + 1, task : Tasks \cup {NoTask},
         state : States \cup {"none"}, probes : 0 .. PollMax]

\* target: the state that the handler takes the task to.
Handler == [at : HandlerStages, call : Calls \cup {NoCall},
            try : 0 .. Retries + 1, target : {"none", "working", "completed", "failed"}]

NewCall == [at |-> "idle", try |-> 0, task |-> NoTask, state |-> "none", probes |-> 0]

NoHandler == [at |-> "none", call |-> NoCall, try |-> 0, target |-> "none"]

TypeOK ==
    /\ call \in [Calls -> Call]
    /\ wire \in [Calls -> SUBSET Attempts]
    /\ accepted \subseteq Calls
    /\ record \in [Tasks -> States \cup {"none"}]
    /\ handler \in [Tasks -> Handler]
    /\ job \in [Tasks -> {"none", "busy", "pushing", "done", "lost"}]
    /\ mirror \in [Tasks -> States \cup {"none"}]
    /\ restarts \in 0 .. MaxRestarts
    /\ origin \in [Tasks -> [call : Calls \cup {NoCall}, life : 0 .. MaxRestarts]]
    /\ verdict \in [Tasks -> Final \cup {"none"}]

Unserved == {k \in Tasks : origin[k].call = NoCall}

-----------------------------------------------------------------------------
(* The client: delegate_task, _send and HttpTransport.send.                *)

To(c, stage) == call' = [call EXCEPT ![c].at = stage]

\* Attempt i of c is answered: the answer reaches the client, or is lost, or
\* comes when the client has given this attempt up.
Answer(c, i, answered) ==
    \/ UNCHANGED call
    \/ /\ call[c].at = "waiting"
       /\ call[c].try = i
       /\ call' = [call EXCEPT ![c] = answered]

\* The local guard passes and the envelope is signed and posted.
Post(c) ==
    /\ call[c].at = "idle"
    /\ call' = [call EXCEPT ![c].at = "waiting", ![c].try = 1]
    /\ wire' = [wire EXCEPT ![c] = {1}]
    /\ UNCHANGED <<server, job, mirror, verdict>>

\* The local guard refuses: no friendship, no permission, no tokens.
RefuseLocally(c) ==
    /\ call[c].at = "idle"
    /\ To(c, "raised")
    /\ UNCHANGED <<wire, server, job, mirror, verdict>>

\* The attempt timed out or failed, and the same envelope is posted again.
Repost(c) ==
    /\ call[c].at = "waiting"
    /\ call[c].try <= Retries
    /\ call' = [call EXCEPT ![c].try = @ + 1]
    /\ wire' = [wire EXCEPT ![c] = @ \cup {call[c].try + 1}]
    /\ UNCHANGED <<server, job, mirror, verdict>>

\* The last attempt failed: TransportError.
GiveUp(c) ==
    /\ call[c].at = "waiting"
    /\ call[c].try = Retries + 1
    /\ To(c, "raised")
    /\ UNCHANGED <<wire, server, job, mirror, verdict>>

\* tasks.create: the record is new whatever the registry holds for the id.
CreateMirror(c) ==
    /\ call[c].at = "answered"
    /\ mirror' = [mirror EXCEPT ![call[c].task] = "submitted"]
    /\ To(c, "created")
    /\ UNCHANGED <<wire, server, job, verdict>>

\* tasks.update by the client; TaskStateError leaves delegate_task.
UpdateMirror(c, state, stage) ==
    /\ LET k == call[c].task IN
       IF CanMove(mirror[k], state)
       THEN mirror' = [mirror EXCEPT ![k] = state] /\ To(c, stage)
       ELSE UNCHANGED mirror /\ To(c, "raised")
    /\ UNCHANGED <<wire, server, job, verdict>>

MarkMirror(c) ==
    /\ call[c].at = "created"
    /\ call[c].state # "failed"
    /\ UpdateMirror(c, "accepted", "marked")

\* Slip: a task_result means "completed", whatever state it carries.
SettleCompleted(c) ==
    /\ \/ call[c].at = "marked"
       \/ call[c].at = "created" /\ call[c].state = "failed"
    /\ IF call[c].state = "working"
       THEN UpdateMirror(c, "working", "polling")
       ELSE /\ mirror' = [mirror EXCEPT ![call[c].task] = "completed"]
            /\ To(c, "settled")
            /\ UNCHANGED <<wire, server, job, verdict>>

\* The last update: to "working" after a task_accept, to the result otherwise.
SettleMirror(c) ==
    /\ \/ call[c].at = "marked"
       \/ call[c].at = "created" /\ call[c].state = "failed"
    /\ UpdateMirror(c, call[c].state,
                    IF call[c].state = "working" THEN "polling" ELSE "settled")

\* The payload of the task_result is returned.
ReturnResult(c) ==
    /\ call[c].at = "settled"
    /\ To(c, "returned")
    /\ UNCHANGED <<wire, server, job, mirror, verdict>>

\* Slip: the loop has no limit.
PollForever(c) ==
    /\ call[c].at = "polling"
    /\ mirror[call[c].task] \in Final
    /\ call' = [call EXCEPT ![c].at = "returned", ![c].state = mirror[call[c].task]]
    /\ UNCHANGED <<wire, server, job, mirror, verdict>>

\* Slip: one round too many.
PollOnceMore(c) ==
    /\ call[c].at = "polling"
    /\ call[c].probes <= PollMax
    /\ call' = [call EXCEPT ![c].probes = @ + 1]
    /\ UNCHANGED <<wire, server, job, mirror, verdict>>

\* One round of polling: a ping, then a look at the mirror.
Poll(c) ==
    /\ call[c].at = "polling"
    /\ call[c].probes < PollMax
    /\ LET state == mirror[call[c].task] IN
       call' = IF state \in Final
               THEN [call EXCEPT ![c].at = "returned", ![c].state = state]
               ELSE [call EXCEPT ![c].probes = @ + 1]
    /\ UNCHANGED <<wire, server, job, mirror, verdict>>

\* The rounds are used up: "still working; result will be pushed".
StopPolling(c) ==
    /\ call[c].at = "polling"
    /\ call[c].probes = PollMax
    /\ To(c, "returned")
    /\ UNCHANGED <<wire, server, job, mirror, verdict>>

\* Anything else that raises once the call is answered (the ping, the endpoint
\* of a friend who is no friend any more, a write of tasks.json, after its
\* update), or the end of the process at any time.
Fail(c) ==
    /\ call[c].at \in CallStages \ {"idle", "returned", "raised"}
    /\ To(c, "raised")
    /\ UNCHANGED <<wire, server, job, mirror, verdict>>

-----------------------------------------------------------------------------
(* The network and the executing agent.                                    *)

Lose(c, i) ==
    /\ i \in wire[c]
    /\ wire' = [wire EXCEPT ![c] = @ \ {i}]
    /\ UNCHANGED <<call, server, job, mirror, verdict>>

\* An error is the answer: the copy is late or a replay, or the sender is no
\* friend, or has no permission or no tokens.  What the router accepts is
\* marked even if the handler refuses it.
Refuse(c, i) ==
    /\ i \in wire[c]
    /\ wire' = [wire EXCEPT ![c] = @ \ {i}]
    /\ accepted' \in {accepted, accepted \cup {c}}
    /\ Answer(c, i, [call[c] EXCEPT !.at = "raised"])
    /\ UNCHANGED <<record, handler, origin, restarts, job, mirror, verdict>>

ServedBy(c, i) == [at |-> "created", call |-> c, try |-> i, target |-> "none"]

\* Slip: the nonce is looked up but never marked.
AcceptUnmarked(c, i, k) ==
    /\ i \in wire[c]
    /\ c \notin accepted
    /\ k \in Unserved
    /\ wire' = [wire EXCEPT ![c] = @ \ {i}]
    /\ record' = [record EXCEPT ![k] = "submitted"]
    /\ origin' = [origin EXCEPT ![k] = [call |-> c, life |-> restarts]]
    /\ handler' = [handler EXCEPT ![k] = ServedBy(c, i)]
    /\ UNCHANGED <<call, accepted, restarts, job, mirror, verdict>>

\* The router and the handler's guards let the copy through: its nonce is
\* marked and a task with a fresh id is created for it.
Accept(c, i, k) ==
    /\ i \in wire[c]
    /\ c \notin accepted
    /\ k \in Unserved
    /\ wire' = [wire EXCEPT ![c] = @ \ {i}]
    /\ accepted' = accepted \cup {c}
    /\ record' = [record EXCEPT ![k] = "submitted"]
    /\ origin' = [origin EXCEPT ![k] = [call |-> c, life |-> restarts]]
    /\ handler' = [handler EXCEPT ![k] = ServedBy(c, i)]
    /\ UNCHANGED <<call, restarts, job, mirror, verdict>>

\* on_task returns a result, or raises.
Execute(k, end) ==
    /\ handler[k].at = "created"
    /\ verdict' = [verdict EXCEPT ![k] = end]
    /\ handler' = [handler EXCEPT
           ![k].at = IF end = "failed" THEN "settling" ELSE "accepting",
           ![k].target = end]
    /\ UNCHANGED <<client, accepted, record, origin, restarts, job, mirror>>

\* on_task returns None and works on, or there is no on_task.
Defer(k, work) ==
    /\ handler[k].at = "created"
    /\ handler' = [handler EXCEPT ![k].at = "accepting", ![k].target = "working"]
    /\ job' = [job EXCEPT ![k] = work]
    /\ UNCHANGED <<client, accepted, record, origin, restarts, mirror, verdict>>

UpdateRecord(k, state, stage) ==
    /\ CanMove(record[k], state)
    /\ record' = [record EXCEPT ![k] = state]
    /\ handler' = [handler EXCEPT ![k].at = stage]
    /\ UNCHANGED <<client, accepted, origin, restarts, job, mirror, verdict>>

MarkRecord(k) == handler[k].at = "accepting" /\ UpdateRecord(k, "accepted", "settling")

SettleRecord(k) == handler[k].at = "settling" /\ UpdateRecord(k, handler[k].target, "replying")

\* Slip: the answer leaves before the last update of the record.
ReplyEarly(k) ==
    /\ handler[k].at \in {"settling", "replying"}
    /\ handler' = [handler EXCEPT ![k] = NoHandler]
    /\ LET h == handler[k] IN
       Answer(h.call, h.try, [call[h.call] EXCEPT !.at = "answered", !.task = k,
                                                  !.state = h.target])
    /\ UNCHANGED <<wire, accepted, record, origin, restarts, job, mirror, verdict>>

\* task_result with the state of the task, or task_accept.
Reply(k) ==
    /\ handler[k].at = "replying"
    /\ handler' = [handler EXCEPT ![k] = NoHandler]
    /\ LET h == handler[k] IN
       Answer(h.call, h.try, [call[h.call] EXCEPT !.at = "answered", !.task = k,
                                                  !.state = h.target])
    /\ UNCHANGED <<wire, accepted, record, origin, restarts, job, mirror, verdict>>

\* The thread ends without an answer: tasks.json could not be written, which
\* happens after the record in memory has changed.
Drop(k) ==
    /\ handler[k].at # "none"
    /\ handler' = [handler EXCEPT ![k] = NoHandler]
    /\ UNCHANGED <<client, accepted, record, origin, restarts, job, mirror, verdict>>

\* The executing agent's process starts again: the nonces are forgotten and
\* the threads and jobs are gone; the records are read back from tasks.json, or
\* gone as well if the registry is in memory.
Restart ==
    /\ restarts < MaxRestarts
    /\ restarts' = restarts + 1
    /\ accepted' = {}
    /\ handler' = [k \in Tasks |-> NoHandler]
    /\ record' \in {record, [k \in Tasks |-> "none"]}
    /\ job' = [k \in Tasks |-> IF job[k] \in {"busy", "pushing"} THEN "lost" ELSE job[k]]
    /\ UNCHANGED <<client, origin, mirror, verdict>>

-----------------------------------------------------------------------------
(* The host behind on_task, and the delegating agent's server.             *)

Finish(k, end) ==
    /\ job[k] = "busy"
    /\ job' = [job EXCEPT ![k] = "pushing"]
    /\ verdict' = [verdict EXCEPT ![k] = end]
    /\ UNCHANGED <<client, server, mirror>>

\* A task_result message at the delegating agent's server: tasks.update, with
\* the state that the message carries.  What the registry refuses
\* (TASK_NOT_FOUND, TASK_STATE_INVALID) is answered with an error.
OnTaskResult(k, state, reply) ==
    \/ /\ reply = "accepted"
       /\ CanMove(mirror[k], state)
       /\ mirror' = [mirror EXCEPT ![k] = state]
    \/ /\ reply = "error"
       /\ ~CanMove(mirror[k], state)
       /\ UNCHANGED mirror

\* The host reports that it is at work.
Report(k) ==
    /\ job[k] = "busy"
    /\ \E reply \in {"accepted", "error"} : OnTaskResult(k, "working", reply)
    /\ UNCHANGED <<client, server, job, verdict>>

\* The host sends the result and it is taken.  The acknowledgement may be lost,
\* and then it is sent again.
Push(k) ==
    /\ job[k] = "pushing"
    /\ OnTaskResult(k, verdict[k], "accepted")
    /\ job' \in {job, [job EXCEPT ![k] = "done"]}
    /\ UNCHANGED <<client, server, verdict>>

\* The result is refused, after which the host stops, unless it insists.
PushRefused(k) ==
    /\ job[k] = "pushing"
    /\ OnTaskResult(k, verdict[k], "error")
    /\ k \in Persistent => mirror[k] \in Final
    /\ job' = [job EXCEPT ![k] = "done"]
    /\ UNCHANGED <<client, server, verdict>>

-----------------------------------------------------------------------------
Init ==
    /\ call = [c \in Calls |-> NewCall]
    /\ wire = [c \in Calls |-> {}]
    /\ accepted = {}
    /\ record = [k \in Tasks |-> "none"]
    /\ handler = [k \in Tasks |-> NoHandler]
    /\ job = [k \in Tasks |-> "none"]
    /\ mirror = [k \in Tasks |-> "none"]
    /\ restarts = 0
    /\ origin = [k \in Tasks |-> [call |-> NoCall, life |-> 0]]
    /\ verdict = [k \in Tasks |-> "none"]

\* What delegate_task and the transport do of themselves, answered or not.
ClientStep(c) ==
    \/ Post(c) \/ RefuseLocally(c) \/ Repost(c) \/ GiveUp(c)
    \/ CreateMirror(c) \/ MarkMirror(c) \/ SettleMirror(c) \/ ReturnResult(c)
    \/ Poll(c) \/ StopPolling(c)

Arrival(c, i) == Lose(c, i) \/ Refuse(c, i) \/ (\E k \in Tasks : Accept(c, i, k))

HandlerStep(k) ==
    \/ \E end \in {"completed", "failed"} : Execute(k, end)
    \/ \E work \in {"none", "busy"} : Defer(k, work)
    \/ MarkRecord(k) \/ SettleRecord(k) \/ Reply(k) \/ Drop(k)

ExecutorStep(k) ==
    \/ \E end \in Final : Finish(k, end)
    \/ Push(k) \/ PushRefused(k)

Next ==
    \/ \E c \in Calls : ClientStep(c) \/ Fail(c) \/ (\E i \in Attempts : Arrival(c, i))
    \/ \E k \in Tasks : HandlerStep(k) \/ ExecutorStep(k) \/ Report(k)
    \/ Restart

Spec == Init /\ [][Next]_vars

\* The calling thread runs: its loops are bounded and its requests time out.
\* The executor finishes what it began and pushes its results.
Fairness ==
    /\ \A c \in Calls : WF_vars(ClientStep(c) /\ call[c].at # "idle")
    /\ \A k \in Tasks : WF_vars(ExecutorStep(k))

FairSpec == Spec /\ Fairness

-----------------------------------------------------------------------------
(* Properties.                                                             *)

\* A call is executed at most once while the executing agent keeps its nonces,
\* however often the transport repeats the envelope (HttpTransport.send
\* against verify_envelope and _on_task_request).
OnceALife ==
    \A j, k \in Tasks :
        origin[j].call # NoCall /\ origin[j] = origin[k] => j = k

\* A final state in the delegating agent's registry, and a final state that
\* delegate_task returned, is what the executor decided for the task: by the
\* direct answer, by a push, or by both at once.
Truthful ==
    /\ \A k \in Tasks : mirror[k] \in Final => mirror[k] = verdict[k]
    /\ \A c \in Calls :
           call[c].at = "returned" /\ call[c].state \in Final =>
               mirror[call[c].task] = call[c].state

\* The executing agent's registry lost k in a restart.
Forgotten(k) == record[k] = "none" /\ origin[k].life < restarts

\* The delegating agent holds a task only once it was answered, and holds it as
\* the executing agent's own record has it or on the way there: the answer
\* leaves after the record's last update (_on_task_request).  There are two
\* exceptions: a result that was pushed, since the executing agent's record of
\* that task stays "working" for good, and a record that a restart lost.
HeldAsAnswered ==
    \A k \in Tasks :
        mirror[k] # "none" =>
            /\ handler[k] = NoHandler
            /\ \/ Forgotten(k)
               \/ /\ record[k] \in {"working", "completed", "failed"}
                  /\ mirror[k] \in {"submitted", "accepted", record[k]}
               \/ /\ record[k] = "working"
                  /\ mirror[k] \in Final
                  /\ job[k] \in {"pushing", "done", "lost"}

\* What the delegating agent knows of the end of k, and what c returned as final.
Known(k) == IF mirror[k] \in Final THEN mirror[k] ELSE "none"

Returned(c) ==
    IF call[c].at = "returned" /\ call[c].state \in Final THEN call[c].state ELSE "none"

Remote == INSTANCE RemoteResults WITH
    Requests <- Calls, Jobs <- Tasks, Results <- Final,
    NoRequest <- NoCall, NoResult <- "none",
    taken <- accepted,
    of <- [k \in Tasks |-> origin[k].call],
    result <- verdict,
    known <- [k \in Tasks |-> Known(k)],
    returned <- [c \in Calls |-> Returned(c)]

\* The two agents, with retries, races and restarts, keep the promise of
\* RemoteResults.
ImplementsRemoteResults == Remote!Spec

\* delegate_task ends, whatever the friend and the network do: the retries
\* and the polls are bounded and every request times out.
CallsEnd ==
    \A c \in Calls : call[c].at = "waiting" ~> call[c].at \in {"returned", "raised"}

\* If the executor pushes until its result is taken, the record of a call
\* that was answered with task_accept becomes final although the result may
\* come before the record, or between its updates; unless the executing agent
\* restarts or the call breaks off.
ResultsLand ==
    \A c \in Calls, k \in Persistent :
        call[c].at = "answered" /\ call[c].task = k /\ job[k] \in {"busy", "pushing"} ~>
            mirror[k] \in Final \/ job[k] = "lost" \/ call[c].at = "raised"

-----------------------------------------------------------------------------
(* What the documents say, and the code does not do.                       *)

\* openwiki/operations/messaging-server.md, on a restart that forgets the
\* nonces: "safe: replayed envelopes then fail the timestamp window anyway".
NeverAgain ==
    \A j, k \in Tasks :
        origin[j].call # NoCall /\ origin[j].call = origin[k].call => j = k

=============================================================================
