------------------------------- MODULE Listing -------------------------------
(***************************************************************************)
(* How an agent comes to be listed in the public directory, and stays so:  *)
(* the runtime of the plugin (HaapRuntime of haap/tools.py), the client of *)
(* the directory (haap/registry_client.py) and the directory (Registry).   *)
(*                                                                         *)
(* start brings up the agent's server and, if the runtime is configured to *)
(* register, a thread, which registers the agent and then, whether that    *)
(* succeeded or not, starts the heartbeat loop.  The owner may register by *)
(* hand as well, from the command line or with a tool.  A registration     *)
(* that gives up waiting leaves its request under way: the directory may   *)
(* still handle it, at any later time.  Whoever knows the fingerprint of   *)
(* an agent may send a heartbeat for it.                                   *)
(*                                                                         *)
(* One registration, with what its thread does next, is one flow.  Slack   *)
(* bounds the delay of whatever is due: the two requests of a registration *)
(* wait for at most ten seconds each, heartbeats come hours apart.         *)
(***************************************************************************)
EXTENDS Registry

CONSTANTS
    Serving,       \* the agents whose runtime is configured to serve
    Registering,   \* those with auto_register and an endpoint, which has no default
    Flows,         \* bound on the registrations
    Interval,      \* heartbeat_interval_s, in ticks
    Slack,         \* bound on delays, in ticks
    Losses,        \* bound on heartbeats that fail in a row and leave the loop
    MaxStops,      \* bound on the stops of runtimes
    MaxRestarts    \* bound on the restarts of the directory

Flow == 1 .. Flows
Period == Interval + Slack

\* As the defaults do: a heartbeat every 6 hours, an entry for 24.
ASSUME ListingAssumption ==
    /\ Serving \subseteq Agents /\ Registering \subseteq Agents
    /\ Agents # {}
    /\ {Flows, MaxStops, MaxRestarts} \subseteq Nat
    /\ Interval \in Nat \ {0} /\ Slack \in Nat /\ Losses \in Nat
    /\ Slack + Losses * Period + Period <= EntryTTL

VARIABLES
    server,      \* server[a]: self.server of the runtime of a
    heartbeat,   \* heartbeat[a]: the flow that made self.heartbeat, or 0
    at,          \* at[r]: how far the flow has come
    of,          \* of[r]: its agent
    thread,      \* thread[r]: it is the thread of start
    nonce,       \* nonce[r]: the challenge it was given
    timer,       \* timer[r]: since it began, or since its loop last woke up
    miss,        \* miss[r]: the heartbeats of its loop that failed in a row
    wire,        \* the requests that the directory has not handled
    stops, restarts,
    kept,        \* auxiliary: the agents listed under a loop, or before one
    raced        \* auxiliary: the flows whose loop stop could not know of

runtime == <<server, heartbeat, stops>>
progress == <<at, of, thread, nonce, timer, miss, wire>>
vars == <<registry, runtime, progress, restarts, kept, raced>>

Requests == {"submit", "complete"}
Trying == Requests                    \* the client waits for the answer
Done == {"registered", "failed"}      \* the thread of start is to start the loop
Underway == Trying \cup Done

RuntimeTypeOK ==
    /\ server \in [Agents -> {"none", "up", "unbound"}]
    /\ heartbeat \in [Agents -> 0 .. Flows]
    /\ \A a \in Agents : heartbeat[a] # 0 =>
           at[heartbeat[a]] \in {"looping", "dead"} /\ of[heartbeat[a]] = a
    /\ stops \in 0 .. MaxStops

ProgressTypeOK ==
    /\ at \in [Flow -> {"idle", "looping", "dead", "over"} \cup Underway]
    /\ of \in [Flow -> Agents]
    /\ thread \in [Flow -> BOOLEAN]
    /\ nonce \in [Flow -> Nat]
    /\ timer \in [Flow -> 0 .. Period]
    /\ miss \in [Flow -> 0 .. Losses]
    /\ wire \subseteq Flow \X Requests

TypeOK ==
    /\ RegistryTypeOK /\ RuntimeTypeOK /\ ProgressTypeOK
    /\ restarts \in 0 .. MaxRestarts
    /\ kept \subseteq Agents
    /\ raced \subseteq Flow

\* A thread of start that has not come to the loop.
Starting(r) == thread[r] /\ at[r] \in Underway

\* Something keeps the entry of a alive, or soon will.
Attended(a) == \E r \in Flow : of[r] = a /\ (at[r] = "looping" \/ Starting(r))

\* What follows the answer, or its failing to come.
Then(r, outcome) == IF thread[r] THEN outcome ELSE "over"

-----------------------------------------------------------------------------
(* The runtime.                                                            *)

\* register: the first request is sent.
Begin(r, a, byStart) ==
    /\ at[r] = "idle"
    /\ \A q \in Flow : q < r => at[q] # "idle"
    /\ at' = [at EXCEPT ![r] = "submit"]
    /\ of' = [of EXCEPT ![r] = a]
    /\ thread' = [thread EXCEPT ![r] = byStart]
    /\ wire' = wire \cup {<<r, "submit">>}
    /\ UNCHANGED <<nonce, timer, miss>>

\* start: a runtime that has a server does nothing, one that does not serve
\* begins another thread.
Start(a) ==
    /\ server[a] = "none"
    /\ server' = [server EXCEPT ![a] = IF a \in Serving THEN "up" ELSE "none"]
    /\ IF a \in Registering THEN \E r \in Flow : Begin(r, a, TRUE) ELSE UNCHANGED progress
    /\ UNCHANGED <<registry, heartbeat, stops, restarts, kept, raced>>

\* The port is taken: start raises, after it has set self.server.
StartUnbound(a) ==
    /\ server[a] = "none" /\ a \in Serving
    /\ server' = [server EXCEPT ![a] = "unbound"]
    /\ UNCHANGED <<registry, heartbeat, stops, progress, restarts, kept, raced>>

\* haap registry register and haap_registry_register: no loop follows.
Register(a) ==
    /\ \E r \in Flow : Begin(r, a, FALSE)
    /\ UNCHANGED <<registry, runtime, restarts, kept, raced>>

\* Slip: the loop is forgotten, and not stopped.
ForgetLoop(a) ==
    /\ stops < MaxStops
    /\ stops' = stops + 1
    /\ heartbeat' = [heartbeat EXCEPT ![a] = 0]
    /\ server' = [server EXCEPT ![a] = "none"]
    /\ kept' = kept \ {a}
    /\ raced' = raced \cup {r \in Flow : of[r] = a /\ Starting(r)}
    /\ UNCHANGED <<registry, progress, restarts>>

\* Slip: the loop is stopped, and self.heartbeat keeps it.
StopUnset(a) ==
    /\ stops < MaxStops
    /\ stops' = stops + 1
    /\ at' = [r \in Flow |-> IF r = heartbeat[a] THEN "over" ELSE at[r]]
    /\ server' = [server EXCEPT ![a] = "none"]
    /\ kept' = kept \ {a}
    /\ raced' = raced \cup {r \in Flow : of[r] = a /\ Starting(r)}
    /\ UNCHANGED <<registry, heartbeat, of, thread, nonce, timer, miss, wire, restarts>>

\* stop: signals the loop that self.heartbeat refers to, and no other.
Stop(a) ==
    /\ stops < MaxStops
    /\ stops' = stops + 1
    /\ at' = [r \in Flow |-> IF r = heartbeat[a] THEN "over" ELSE at[r]]
    /\ heartbeat' = [heartbeat EXCEPT ![a] = 0]
    /\ server' = [server EXCEPT ![a] = "none"]
    /\ kept' = kept \ {a}
    /\ raced' = raced \cup {r \in Flow : of[r] = a /\ Starting(r)}
    /\ UNCHANGED <<registry, of, thread, nonce, timer, miss, wire, restarts>>

\* Slip: there is a loop only after a registration that succeeded.
LoopIfRegistered(r) ==
    /\ thread[r] /\ at[r] = "registered"
    /\ at' = [at EXCEPT ![r] = "looping"]
    /\ timer' = [timer EXCEPT ![r] = 0]
    /\ heartbeat' = [heartbeat EXCEPT ![of[r]] = r]
    /\ raced' = raced \cup ({heartbeat[of[r]]} \ {0})
    /\ UNCHANGED <<registry, server, stops, of, thread, nonce, miss, wire, restarts, kept>>

\* The end of the thread of start, which does not hold the lock of the runtime:
\* it may come after a stop, and after another thread of start.
StartLoop(r) ==
    /\ thread[r] /\ at[r] \in Done
    /\ at' = [at EXCEPT ![r] = "looping"]
    /\ timer' = [timer EXCEPT ![r] = 0]
    /\ heartbeat' = [heartbeat EXCEPT ![of[r]] = r]
    /\ raced' = raced \cup ({heartbeat[of[r]]} \ {0})
    /\ UNCHANGED <<registry, server, stops, of, thread, nonce, miss, wire, restarts, kept>>

-----------------------------------------------------------------------------
(* The registration, and the directory's side of it.                       *)

\* The answer is lost, comes too late or not at all, or nobody listens.
GiveUp(r) ==
    /\ at[r] \in Trying
    /\ at' = [at EXCEPT ![r] = Then(r, "failed")]
    /\ UNCHANGED <<registry, runtime, of, thread, nonce, timer, miss, wire, restarts, kept, raced>>

\* POST /register.  A client that still waits signs the challenge and sends
\* the second request.
HandleSubmit(r) ==
    /\ <<r, "submit">> \in wire
    /\ Submit(of[r])
    /\ nonce' = [nonce EXCEPT ![r] = issued + 1]
    /\ IF at[r] = "submit"
       THEN /\ at' = [at EXCEPT ![r] = "complete"]
            /\ wire' = (wire \ {<<r, "submit">>}) \cup {<<r, "complete">>}
       ELSE /\ wire' = wire \ {<<r, "submit">>}
            /\ UNCHANGED at
    /\ UNCHANGED <<runtime, of, thread, timer, miss, restarts, kept, raced>>

\* "directory full".
RejectSubmit(r) ==
    /\ <<r, "submit">> \in wire
    /\ ~Room(of[r])
    /\ wire' = wire \ {<<r, "submit">>}
    /\ at' = [at EXCEPT ![r] = IF @ = "submit" THEN Then(r, "failed") ELSE @]
    /\ UNCHANGED <<registry, runtime, of, thread, nonce, timer, miss, restarts, kept, raced>>

\* POST /register/complete.
HandleComplete(r) ==
    /\ <<r, "complete">> \in wire
    /\ Complete(of[r], nonce[r])
    /\ wire' = wire \ {<<r, "complete">>}
    /\ nonce' = [nonce EXCEPT ![r] = 0]
    /\ at' = [at EXCEPT ![r] = IF @ = "complete" THEN Then(r, "registered") ELSE @]
    /\ kept' = IF Attended(of[r]) THEN kept \cup {of[r]} ELSE kept
    /\ UNCHANGED <<runtime, of, thread, timer, miss, restarts, raced>>

\* The same, when the challenge has expired or been replaced.
RejectComplete(r) ==
    /\ <<r, "complete">> \in wire
    /\ Refuse(of[r])
    /\ wire' = wire \ {<<r, "complete">>}
    /\ nonce' = [nonce EXCEPT ![r] = 0]
    /\ at' = [at EXCEPT ![r] = IF @ = "complete" THEN Then(r, "failed") ELSE @]
    /\ UNCHANGED <<runtime, of, thread, timer, miss, restarts, kept, raced>>

-----------------------------------------------------------------------------
(* The loop.                                                               *)

\* _run: a heartbeat after every wait.  Its answer changes nothing: not even
\* "unknown" makes the runtime register again.
Beat(r) ==
    /\ at[r] = "looping" /\ timer[r] >= Interval
    /\ Renew(of[r])
    /\ timer' = [timer EXCEPT ![r] = 0]
    /\ miss' = [miss EXCEPT ![r] = 0]
    /\ UNCHANGED <<runtime, at, of, thread, nonce, wire, restarts, kept, raced>>

\* The heartbeat does not reach the directory: DiscoveryError.
BeatLost(r) ==
    /\ at[r] = "looping" /\ timer[r] >= Interval
    /\ miss[r] < Losses
    /\ timer' = [timer EXCEPT ![r] = 0]
    /\ miss' = [miss EXCEPT ![r] = @ + 1]
    /\ UNCHANGED <<registry, runtime, at, of, thread, nonce, wire, restarts, kept, raced>>

\* The directory's answer, handled or not, is none that _request can read: no
\* HTTP, no JSON, or cut short.  That is no DiscoveryError, and _run catches no
\* other: the thread ends, and self.heartbeat still refers to it.
BeatRaises(r) ==
    /\ at[r] = "looping" /\ timer[r] >= Interval
    /\ Renew(of[r]) \/ UNCHANGED registry
    /\ at' = [at EXCEPT ![r] = "dead"]
    /\ timer' = [timer EXCEPT ![r] = 0]
    /\ kept' = kept \ {of[r]}
    /\ UNCHANGED <<runtime, of, thread, nonce, miss, wire, restarts, raced>>

\* POST /heartbeat from anybody else: the fingerprint is all it takes.
RenewedByOther(a) ==
    /\ Renew(a)
    /\ UNCHANGED <<runtime, progress, restarts, kept, raced>>

RestartRegistry ==
    /\ restarts < MaxRestarts
    /\ restarts' = restarts + 1
    /\ Forget
    /\ kept' = {}
    /\ UNCHANGED <<runtime, progress, raced>>

Busy(r) == at[r] \in Underway \cup {"looping"}

\* How long r may take for what it does now.
Deadline(r) == IF at[r] = "looping" THEN Period ELSE Slack

Tick ==
    /\ \A r \in Flow : Busy(r) => timer[r] < Deadline(r)
    /\ timer' = [r \in Flow |-> IF Busy(r) THEN timer[r] + 1 ELSE 0]
    /\ Grow
    /\ UNCHANGED <<runtime, at, of, thread, nonce, miss, wire, restarts, kept, raced>>

-----------------------------------------------------------------------------
Init ==
    /\ RegistryInit
    /\ server = [a \in Agents |-> "none"]
    /\ heartbeat = [a \in Agents |-> 0]
    /\ at = [r \in Flow |-> "idle"]
    /\ of = [r \in Flow |-> CHOOSE a \in Agents : TRUE]
    /\ thread = [r \in Flow |-> FALSE]
    /\ nonce = [r \in Flow |-> 0]
    /\ timer = [r \in Flow |-> 0]
    /\ miss = [r \in Flow |-> 0]
    /\ wire = {}
    /\ stops = 0 /\ restarts = 0
    /\ kept = {} /\ raced = {}

OwnerStep(a) == Start(a) \/ StartUnbound(a) \/ Register(a) \/ Stop(a)

RegistrationStep(r) ==
    \/ GiveUp(r)
    \/ HandleSubmit(r) \/ RejectSubmit(r)
    \/ HandleComplete(r) \/ RejectComplete(r)

LoopStep(r) == StartLoop(r) \/ Beat(r) \/ BeatLost(r) \/ BeatRaises(r)

Next ==
    \/ \E a \in Agents : OwnerStep(a) \/ RenewedByOther(a)
    \/ \E r \in Flow : RegistrationStep(r) \/ LoopStep(r)
    \/ RestartRegistry \/ Tick

Spec == Init /\ [][Next]_vars

\* A request times out, a thread runs, and time passes.
Fairness ==
    /\ \A r \in Flow : WF_vars(GiveUp(r)) /\ WF_vars(StartLoop(r))
                      /\ WF_vars(Beat(r) \/ BeatLost(r) \/ BeatRaises(r))
    /\ WF_vars(Tick)

FairSpec == Spec /\ Fairness

-----------------------------------------------------------------------------
(* Properties.                                                             *)

\* An agent that is listed while its runtime has a loop, or a thread that will
\* start one, stays listed until the runtime is stopped, the directory is
\* restarted or the thread of a loop dies, though heartbeats do not reach the
\* directory, at most Losses in a row.
StaysListed == kept \subseteq Shown

\* A loop that runs is the one that stop would signal; not so one that started
\* after a stop, or that another one replaced.
NoOrphanUnlessRaced ==
    \A r \in Flow : at[r] = "looping" => r \in raced \/ heartbeat[of[r]] = r

\* The directory has no more entries than MAX_AGENTS, expired ones included,
\* unless several agents were let in while there was room for one.
CapacityUnlessCrowded == crowded \/ Cardinality(Held) <= MaxAgents

\* Of the registrations of one agent, by its runtime and by hand, an entry never
\* goes back to one that was challenged before: a second request that is handled
\* late does not bring back an old endpoint.
NeverOlder == [][\A a \in Agents : listed'[a] >= listed[a] \/ restarts' # restarts]_vars

\* A runtime that has brought up its server, and is configured to register,
\* gets a heartbeat loop, though the registration fails, unless it is stopped.
LoopStarts ==
    \A a \in Registering : server[a] = "up" ~> heartbeat[a] # 0 \/ server[a] = "none"

\* An agent that falls silent for good, its loop stopped or dead, leaves the
\* directory for good, unless somebody else keeps its entry alive for ever.
LeavesWhenSilent ==
    \A a \in Agents :
        <>[](~Attended(a)) =>
            <>[](a \notin Shown) \/ []<><<RenewedByOther(a)>>_vars

-----------------------------------------------------------------------------
(* What the documents say, and the code does not do.                       *)

\* tools.py, of start: "Idempotent": however often it is called, there is one
\* loop.
OneLoop ==
    \A q, r \in Flow :
        at[q] = "looping" /\ at[r] = "looping" /\ of[q] = of[r] => q = r

\* tools.py, status of the runtime: "heartbeat_running" is whether there is a
\* self.heartbeat.
HeartbeatRunning == \A a \in Agents : heartbeat[a] # 0 => at[heartbeat[a]] = "looping"

=============================================================================
