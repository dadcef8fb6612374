# Verification of HAAP

HAAP (`src/haap`) lets agents of different owners become friends and delegate
tasks to each other: signed messages over HTTP, a local directory of friends
with a permission matrix for each, a task registry, rate limits, and a public
directory where agents announce themselves. This directory holds TLA+ models of
its core, the TLC runs that check them on small instances, and the theorems that
TLAPS proves about them for every instance.

## 1. Inventory

| Part | Code | State | Operations | What makes it hard |
|---|---|---|---|---|
| Friendship state machine | `directory.py`, `server.py`, `cli.py` | `Directory._friends`: fingerprint -> record (status, matrix) | introduce, friend_request, friend_accept, approve, deny, block, remove, add, policy decisions | every message has its own thread; handlers keep references to records between locked calls, mutate them without the lock and store them again |
| Directory file | `directory.py` `_load`/`save` | `friends.json`, `friends.json.tmp`, one map per `Directory` object | load once, write the whole map after every mutation | crashes between steps, failed writes, several `Directory` objects on one file |
| Envelope verification | `envelope.py` | `NonceManager._seen` | timestamp window, signature, check-and-mark, prune | copies of one message at once, two clock readings, pruning |
| Router and handshake | `server.py`, `client.py` | `_pending_challenges` | hello, challenge, friend_request; `start_friendship` | lost and repeated messages, challenges that replace each other, nobody delivers the final friend_accept, anybody known may send one unprompted, client and server may have different `Directory` objects |
| Tasks and delegation | `tasks.py`, `server.py`, `client.py`, `transport.py` | `TaskRegistry._tasks` on both sides | create, update, progress; `delegate_task`, retries | results before mirrors, retries refused as replays, executors racing the handler |
| Rate limiter | `rate_limiter.py` | token buckets per (friend, action) | check, configure, reset | refill outside the lock, stale capacities |
| Permissions and roles | `permissions.py`, `roles.py` | `roles.json`, read at each use | check, scope matching, role inheritance | roles that replace or extend built-in ones, entries that are no roles |
| Request policy | `policy.py`, `server.py`, `cli.py` | `policy.json`, read once; the cards sent to the owner | evaluate, cap a role, notify, decide | a decision mixes the two files and the card of different moments; unknown roles |
| Public directory | `registry.py`, `registry_client.py` | agents, challenges, heartbeats | register in two steps, heartbeat, search, expire | expiry against heartbeats, a loop thread that dies, capacity, interleaved registrations |
| Plugin runtime | `tools.py` | server, heartbeat, client | start, stop, register in a thread | stop during registration |
| Marketplace | `server.py`, `client.py` | bookings as tasks | search, book, cancel | strangers may book; retries, refusals and restarts around an executor; blocks in between |
| Audit log | `audit.py` | a file, rotated | append, rotate | writers during a rotation |
| Identity, crypto, manifests, CLI, MCP, plugin | the rest | a key file | | pure or I/O |

How they interact: `HAAPServer.handle_message` verifies an envelope
(`verify_envelope`, `NonceManager`) and calls the handler of its type; the
handlers read and write the `Directory`, the `TaskRegistry` and the
`RateLimiter` in the thread of the request; the owner writes the same directory
file from other processes; `HAAPClient` reads a `Directory` of its own and sends
through a transport that repeats the same envelope after errors.

What makes each part correct:

- *Friendship*: a peer never gets more than what the owner, or the owner's
  policy, granted and has not revoked; a task runs only if it was granted.
- *Directory file*: a load always finds a whole document, and it contains every
  mutation that returned.
- *Envelope verification*: a message is handled at most once.
- *Handshake*: nobody becomes a friend whom nobody asked, and no record grants what
  its own agent neither asked for nor approved; a handshake fails only for a cause.
- *Delegation*: the two task registries never hold different final states; final states are
  final; a task that was requested once runs at most once.
- *Rate limiter*: what passes in an interval is bounded by capacity and refill.
- *Registry and runtime*: who sends heartbeats in time stays listed, who falls
  silent leaves unless somebody else keeps its entry; late requests bring nothing
  old back; a runtime that serves and is configured to register gets a heartbeat
  loop, and one that was stopped has none.
- *Policy and roles*: what the policy lets in is capped, whatever requests, rules
  and files name, and a cap keeps files and commands out of reach. (It does not
  keep tasks without a resource out of a client's reach: see `Roles` below.)
- *Marketplace*: what a client is told is what the business did, at most once.
- *Audit log*: the newest entries survive rotations and crashes, in order.

## 2. Modules

| Module | What it is |
|---|---|
| `FriendRecords` | one friendship record and what each operation of `Directory` does to it, as pure operators |
| `AccessControl` | abstract specification: actions are granted to peers and revoked; a request runs only if its action was granted at some moment while the request was open |
| `Friendship` | the friendship state machine of one agent with its handler threads; implements `AccessControl` |
| `FriendshipProofs` | theorems about `Friendship` |
| `AntiReplay` | `verify_envelope` and `NonceManager`, with a clock and concurrent threads |
| `AntiReplayProofs` | theorems about `AntiReplay` |
| `SerialMap` | abstract specification of the directory file: one map that sessions load, change and save as a whole; when one saves, the others have to load it again |
| `DirectoryStore` | `friends.json` under any number of `Directory` objects, crashes and failed writes; implements `SerialMap` until saves overlap or an outdated object saves |
| `DirectoryStoreProofs` | theorems about the files of an agent: `DirectoryStore` and `AuditLog` |
| `TaskStates` | the states of a task record and what may follow what |
| `RemoteResults` | abstract specification of delegation: a request is executed at most once per life of the executing agent, an execution has one result, and only that result is ever known or returned |
| `Delegation` | one agent delegates to another: calls, retries, handler threads, executors, and the two task registries; implements `RemoteResults` |
| `DelegationProofs` | theorems about `Delegation` |
| `Handshake` | two agents become friends: `start_friendship` against the router, with the network between them and the owners on both sides |
| `HandshakeProofs` | theorems about `Handshake` |
| `RateLimiter` | `RateLimiter.check` on the two buckets that a message of one friend takes from, with locked takes and unlocked refills |
| `RateLimiterProofs` | theorems about `RateLimiter` |
| `Registry` | the public directory: `RegistryStore`, its methods as actions |
| `Listing` | how an agent gets into the directory and stays there: `HaapRuntime`, the registration client, the heartbeat loop, composed with `Registry` |
| `ListingProofs` | theorems about `Listing` and `Registry` |
| `Roles` | permission matrices, scopes, the built-in roles and `roles.json`, as pure operators |
| `Approvals` | friend requests against policy, roles, cards and the owner; uses `Roles` |
| `Marketplace` | open services: bookings of strangers, with transport, gate, executor and record; uses `TaskStates` |
| `MarketplaceProofs` | theorems about what strangers get: `Marketplace`, and `Approvals` with `Roles` |
| `AuditLog` | the audit file with its rotations, under any number of writers |
| `MCFriendship`, `MCAntiReplay`, `MCDirectoryStore`, `MCDelegation`, `MCHandshake`, `MCRateLimiter`, `MCListing`, `MCApprovals`, `MCMarketplace`, `MCAuditLog` | instances for TLC |

Definitions whose comment begins with "Slip:" are not part of a specification:
they are the mistakes that the properties are tested against (`mutants` in
`PROJECT.json`).

### Friendship

`friends[p]` is the identity of the record object that `_friends` holds for `p`,
`heap[p][i]` the object itself. Objects have an identity because handlers keep
references: `_on_friend_request` gets a record from `register_known`
(`FriendRequest`), sets its status outside the lock (`MarkPending`) and upserts
it (`StoreRequest`), whatever happened to the directory in between; then the
policy decides (`Queue`, `PolicyDeny`/`PolicyDelete`/`PolicySweep`, or
`AutoApprove`/`StoreApproved`). `_on_task_request` requires an accepted record
(`TaskRequest`), reads the matrix of that object (`CheckPermission`) and runs
the task (`RunTask`, `EndTask`). Owner commands and one-call messages are one
step each, because every `Directory` method holds the instance's lock. An object
that nothing references any more is freed, so that `Ids` bounds the objects in
use at one time.

A matrix is the set of actions it allows. Two auxiliary variables, which no guard
reads, record what the owner decided: `granted[p]` and `may[t]`. A revocation
(deny, remove, block, and approve, which replaces the matrix) takes effect on
`granted[p]` only if no handler carries another record of `p` that it will store:
if one does, the code really brings the old matrix back (`RemovedForGood` fails), and the
invariant says how far that goes and no further.

### AntiReplay

One step per clock reading: `CheckTimestamp` (first reading), `ReadClock`
(second, before the lock), `Accept`/`Refuse` (prune, look up, mark under the
lock). Time is counted in ticks, `Second` ticks to the second, because
`check_timestamp` truncates and `check_and_mark` does not. `Tick` lets at most
`Patience` ticks pass while a thread is between its two checks. That is an
assumption about the environment: with the values of the code the TTL leaves
59 s for it (`MarginAssumption`). `Restart` forgets everything, as the code does;
`handled` counts since the last restart.

### DirectoryStore

Files are inodes with names, because `open(tmp, "w")` truncates the inode that
has the name and `os.replace` moves whatever has it. `Mutate`, `OpenTmp`,
`WriteTmp`, `Replace` are the steps of one mutation; `SaveFails` and `Stop` may
happen at each of them; `Start` loads. `Records` and `Effects` are parameters,
since the store never looks inside a record. The auxiliary variables `owed` (what
the acknowledged mutations left), `touched`, `outdated`, `overlap` and
`clobbered` say when the promise of the file can be broken. Up to then
`ImplementsSerialMap` says that every step either leaves the map on file alone, or
replaces it by the same map with the changes of one instance. The view that
`SerialMap` gives an instance is the instance's map, or none while it is down or
outdated (`ViewOf`). A crash is the death of a process; the loss of pages that were not synced to disk is not modelled
(the code does not call fsync).

### Delegation

A call `c` is one `delegate_task` with the one envelope that `_send` signs.
`call[c].at` is where its thread is: it posts (`Post`) or is refused by its own
guard (`RefuseLocally`), waits while `HttpTransport.send` posts the same envelope
again (`Repost`) or gives up (`GiveUp`), and then keeps a record of its own of
the task: `CreateMirror`, `MarkMirror` and `SettleMirror` are `tasks.create` and
the two `tasks.update` calls, each atomic under the registry's lock, so a push
may come between them. After a task_result it returns (`ReturnResult`); after a
task_accept it polls its own record (`Poll`, `StopPolling`). An update that
`TaskRecord.transition` refuses raises out of `delegate_task`, as anything else
that can fail does (`Fail`).

On the other side each copy that arrives (`wire[c]`) has a thread: `Refuse` or
`Accept`, then the executor (`Execute`: `on_task` returned a result or raised;
`Defer`: it returned None, or there is none), the updates of the record
(`MarkRecord`, `SettleRecord`) and the answer (`Reply`), which counts only if the
client still waits for that attempt. `Drop` is a write of `tasks.json` that
fails, `Restart` a new process: `NonceManager` is empty, and the records are back if
the executing agent's registry is a file, and gone if it is in memory, which is the
default of `HAAPServer`. `OnTaskResult` is the delegating agent's `_on_task_result`:
it takes whatever state the message carries, if the transition table allows it.

The delegating agent is the embedding that `task-delegation.md` asks for: its client
and its server share one registry, a file, which the agent keeps through its life.
With the defaults, where each has a registry in memory, `_on_task_result` finds no
task and every push is refused; then nothing here but the direct answers applies.

Outside the repository, and modelled by what the code assumes of it: the network
(`Lose`), and the executor behind `on_task`, which may report that it is at work
(`Report`), finishes (`Finish`) and sends its result (`Push`, `PushRefused`). The
handler does not look at who sends a task_result (any sender whose key the server
knows), at the friendship, or at `friend_fingerprint`. That all of them come from the
host that executes the task, and carry what it decided, is an assumption: the
identifier of a task is random and only its two agents know it. `Truthful`,
`HeldAsAnswered` and the refinement rest on it. `Persistent` is the set of tasks whose
result it sends again when it is refused; the code and its documents leave that open. Messages of the executing agent reach the
delegating agent's server only if that server knows its key, which the model takes for
granted. What a host's executor does to the record of its own agent is
not modelled; identifiers of tasks are fresh (`uuid4`). An accepted push whose
acknowledgement is lost is sent again. `accepted` is `NonceManager` without time:
a copy that outlives the timestamp window is a `Refuse`, and that marked nonces
last long enough is `AntiReplay`'s theorem.

`origin` (the call that a task came from, and the life of the server it came in)
and `verdict` (what the executor decided) are auxiliary: no guard of the
repository's code reads them, except that `verdict` is what a push carries.

### Handshake

Where `Friendship` looks at one agent's directory from within, `Handshake` looks
at both agents from the outside. An attempt `a` is one `start_friendship`: `Start`
is `add_pending_out` and the hello, `Proceed` the next request, `Repost` the
transport's second post of the same envelope, `GiveUp` a network error. The wire
holds triples of attempt, step and number of the post, since posts of one envelope
differ only in which answer the client still waits for. The router's handlers are
`Replay` (a nonce that was marked), `Hello`, `Pop` and `Prove` (`_on_challenge`
takes the challenge under the lock and looks at it afterwards), and `Request`.
A friend_request is one step: what happens between the locks is `Friendship`'s.
`Prove` may always find the challenge expired, which is the 120 s of the code
without a clock. `Restart` forgets nonces and challenges and loads the file again.

A record is its status and whether its matrix grants anything (`Record`), and
`friends[x][h]` is what the Directory `h` of `x` holds: the client's, the server's, or
the file, with which the owner's commands begin and end, since they make a Directory
each. The code allows two wirings, and both are modelled (`Wirings`). An agent in
`shared` has one Directory for all of them, as an embedding or a test may
construct it. One that is not has what `HaapRuntime` makes (`tools.py:135-144`,
`171-172`): each holder loads once and writes all it has over the file with every
mutation (`Save`). A new client opens the file (`opened`). Then the server does
not know whom the client has asked, and answers that peer's friend_accept with
`BAD_SIGNATURE` (`Knows`). A server that started earlier does not see what the owner
approved either.

An approval by the owner leaves a notice, and `Notify` delivers it as
friend_accept. Nothing in the repository sends that message (the documents leave
it to the host), so the notice is the host's, while its handler is the code's
(`FriendAccept`). The handler does not ask whether anybody approved: `Volunteer` is a
friend_accept that the peer sends of its own accord, at any time, to a server that
knows it. It makes a record in `pending_in` or `pending_out` accepted, and leaves its
matrix alone. The friend_accept that answers an automatic approval is the answer
of `Request`, and `start_friendship` only returns it. Blocked peers are left out; they
are in `Friendship`, where they show.

`decided` (who was accepted by the owner or the policy of whom, or said so itself) and `disturbed`
(attempts whose callee restarted, or served another attempt of the same caller)
are auxiliary.

### RateLimiter

The buckets of one friend, one for each action and the global one; friends share
nothing but a lock. `check[t]` is the progress of one `RateLimiter.check`: for
the bucket of the action and then for the global one it finds or makes the bucket
(`Find`, under the instance's lock), reads the clock (`Read`) and takes a token
(`Take`, under the process-wide lock, but with the time that was read before). A
bucket keeps the limits of whoever made it; `Begin` chooses the limits anew each
time, because the owner may change them. If a take failed, `wait_seconds`
refills both buckets without any lock, and so its steps are apart: the elapsed
time (`Elapse`), the new level (`Load`), the two assignments (`Store`, `Stamp`).
Under the global interpreter lock these are the outcomes that threads can
produce. Tokens and limits are numbers of fractions of a token, as exact as one
likes; that `float` rounds is not modelled.

`passed[b]` counts the takes with a reading of the clock in `From .. To`, one
span of time that stands for any. `raced` holds the buckets that another thread
changed while `wait_seconds` was between its read and its last write: there the
bound is lost, since the write undoes a take, or lets time be regained twice.
For all others `WithinLimitUnlessRaced` says what a token bucket promises.

### Registry and Listing

`Registry` has one action per method of `RegistryStore`, each under the store's
lock: `Submit` (a new challenge, if there is `Room`), `Complete`, `Refuse` (the
challenge is taken away all the same), `Renew`, and `Forget` for a new process.
An entry carries the nonce of the registration that made it, so that "older" can
be said; expiry is an age. `Shown` is what `get`, `search` and `count` show.

In `Listing` a flow `r` is one registration and what its thread does next. `Start`
brings up the server of an agent in `Serving`, and begins a flow with a thread
(`thread[r]`) for one in `Registering`, that is with `auto_register` and an endpoint,
which has no default; `Register` begins one by hand. Its two requests
are in `wire` until the directory handles them (`HandleSubmit`, `HandleComplete`)
or turns them down; `GiveUp` is the ten-second timeout, or an answer that is lost,
and leaves the request where it is. Whatever came out, the thread of `Start` goes
on to `StartLoop`, and the loop to `Beat`, `BeatLost` or `BeatRaises`. The last is an
answer that `_request` cannot read (no JSON, no HTTP, cut short): `_run` catches only
`DiscoveryError`, so the thread ends (`dead`), and `self.heartbeat` goes on referring to
it. `RenewedByOther` is a heartbeat from anybody else, since POST /heartbeat asks for
nothing but the fingerprint. `Stop` signals the loop
that `self.heartbeat` refers to. A tick is one heartbeat interval: what lasts
seconds is done within the tick (`Slack` 0), but in any order with all else.

`kept` (the agents that were listed while a loop was there or on its way, until they
are stopped, the directory is restarted or a loop's thread dies),
`raced` (the loops that `Stop` could not know of) and `crowded` (several agents
were let in while there was room for one) are auxiliary.

### Roles and Approvals

`Roles` has the matrices and scopes as the code has them, rate limits by the name
of their role. That includes the empty resource: `scope_allows` lets it pass any scope,
and it is what `delegate_task` and the `haap_delegate_task` tool send unless told
otherwise. So a client, whose task scopes are bookings and services, may submit any
task that names no resource, and `MatrixWithinCap` says "bookings, services, or no
resource". `LoadRoles` takes the entries of `roles.json` into the built-in
roles in their order; it is a recursive function, and `Updated` is `dict.update`, so
that proofs can be about both. The files may hold any entries in any number and
order; `ApprovalsAssumption` only says how the model writes a matrix down: as a
function (`IsMatrix`), or as malformed. In `Approvals` a friend request is one step (`DenyRequest`,
`AutoApprove`, `Queue`), because the steps inside it are `Friendship`'s. What
matters here is what is read when: `policy` when the server starts (`Restart`),
`rolesFile` at each decision, the card whenever the owner follows it
(`ApproveCard`). The owner also decides freely (`ApproveByHand`, `ApproveGrant`,
`ApproveBoth`) and edits the files (`WritePolicy`, `WriteRoles`). `by[p]` is
auxiliary: who decided, which role, under which cap, and whether the built-in
roles were the built-in ones then.

### Marketplace

A call `c` is one `service_book`; `Post`, `Timeout` and `Answer` are the transport
of `Delegation`, with an end of its own for a replay. Its handler verifies
(`Verify`), looks at the sender (`CheckSender`), takes a token and looks at the
policy (`Refuse`, `Create`), runs the executor (`Execute`, `Raise`), moves the
record twice (`Accept`, `Complete`) and answers (`Confirm`). Searches and
cancellations pass the same gate, and change nothing but the tokens. The executor
either reserves and returns, or raises and has reserved nothing; it leaves the
record to the handler. `excused` is auxiliary.

`Block` and `Remove` are those of the server's own Directory, as an embedding of the
server calls them. `haap friends block` (`cli.py:127-130`) and the `haap_friends` tool
(`tools.py:375`) make a Directory of their own, which a running server does not read:
`BlockTakesHold` says nothing about them.

### AuditLog

Names hold files, and a writer that has opened a file keeps it: `Check`, `Look`,
`Move`, `OpenLog` and `Write` are the looks at the disk and the calls that change it,
in the order of `event`; `MoveFails` is the `OSError` that ends a rotation, `Fail`
the end of the process or a full disk at any step. A file that `OpenLog` creates is
one that was never written (`Blank`), as long as the bound allows. Two writers stand for the
server's and the client's `AuditLog`, which have a lock each, or for two
processes. `raced` says that a writer renamed after another one had, within the
same rotation, or wrote to a file that was renamed under it. What is certain to be
kept is two full files, however many `KEEP_ROTATED` allows for (`Certain`): a crash
between two renamings leaves a name empty, and the next rotation drops the oldest
file although there is room. With the two rotated files of the code that is no loss.

## 3. Runs

| Run | Shows | Bounds |
|---|---|---|
| `friendship` | type invariant; a directory record, a carried record and a running task stay within the grants; refinement of `AccessControl` | 1 peer, 2 threads, 2 actions, owner grants {} or {chat}, a role that grants both, 4 objects |
| `anti_replay` | type invariant; no message handled twice | 2 messages, 2 threads, skew 2, TTL 6, 2 ticks per second, patience 1, cap 0, clock to 14 |
| `store` | type invariant; damage only by overlap; loss only to outdated instances; refinement of `SerialMap` until then | 2 instances, 2 peers, block and remove |
| `delegation` | type invariant; one execution per life of the server; final states are the executor's; a task is held only once it was answered, and as the executing agent's record has it or on the way there, but for pushed results and forgotten records; refinement of `RemoteResults`; a posted call ends; the result of an accepted call lands if it is pushed until it is taken | 1 call, 2 task ids of which one has a persistent executor, 2 retries, 2 polls, 1 restart |
| `handshake` | type invariant; nobody is a friend whom nobody asked, and no record grants what its agent neither asked for nor approved; no handshake fails without a cause; a request that waits ends with both sides friends, if each has one Directory | 2 agents, both with one Directory or one of them with several, 2 attempts in any direction, 1 retry, 1 fault: a repeated post, a restart, a removal or an unprompted friend_accept |
| `rate_limiter` | type invariant with levels below capacity; what passes in a span of time is bounded | 2 threads, 1 action, a slow and a fast limit in halves of a token, span 1 .. 2, clock to 2, 3 checks |
| `listing` | type invariant, with `self.heartbeat` referring to a loop of its agent, running or dead; who has a live loop stays listed, who is silent leaves unless others renew its entry, a runtime that serves and registers gets its loop, none runs on unknown to `stop`; entries never go back to an older registration; capacity | 2 agents, room for 1, 2 registrations, TTL of 2 intervals, 1 heartbeat lost in a row, 1 stop, 1 restart of the directory |
| `approvals` | type invariant; what the policy grants or suggests is capped; no files below admin; below partner only tasks that name a booking, a service or nothing | 1 agent, 3 roles to name besides the rules', 5 policy files, 4 roles files, 3 edits |
| `marketplace` | type invariant; at most one booking per life; clients are told what the business did, and a refusal after a booking has a cause; a block on the server's Directory holds | 1 agent, 2 calls, 1 retry, capacity 1, 1 restart |
| `audit` | type invariant, with every file under one name; newest entries kept; order; size | 2 writers, 2 rotated files of 2 entries, 10 entries |
| `blocked` | a friend_request takes a peer out of blocked | 1 peer, 1 thread |
| `handshake_auto` | after an automatic approval only one side knows of the friendship | 2 agents, 1 attempt, no faults |

Why the bounds are enough: peers do not interact in `Friendship` (every variable
is indexed by peer and every handler serves one), two threads and the owner are
three actors on one record, and the proofs hold for any number. In `AntiReplay`
TTL and patience meet `MarginAssumption` with equality, so one tick less would
show; the clock runs past the end of every window plus TTL; cap 0 makes every
check prune. `store` needs two peers, since a lost update is one peer's
record undone by a mutation of another's; the store does not look inside records,
so two values each suffice. Inodes, peers and instances are symmetric there. A
single instance is the case in which nothing overlaps and nothing is outdated.

In `handshake` two agents are all there are to a relationship, because challenges
and records are kept per sender; two attempts meet either at one callee, where
they share the challenge, or crosswise. Any post or answer may be lost besides
the bounded faults. `Wirings` has the pair with one Directory each, for which
`QueuedCompletes` is stated, and the mixed pair, in which each wiring meets the other.
With the faults one agent may restart, so that its server reads the file again, or
send a friend_accept that nobody decided on. Symmetry is not used because of the
liveness property. (958 537 states, about three minutes.)

Calls of `Delegation` do not share anything but the set of free identifiers; one
call with three attempts is as many as three copies, two identifiers let two of
them be accepted if nothing stops it, and two polls let a result come between
them. A call may get the identifier with the persistent executor or the other, and the
restart may keep the records or lose them.
Two calls at once were explored as well, and the proofs hold for any number.

In `rate_limiter` three checks on two threads let two takes, or a take and an
unlocked refill, meet at one bucket and a third one count the damage; the span
leaves out tick 0, so a bucket may enter it full, empty or in debt to a late
reading. An action and the global bucket are all there is to one check, and two
actions would meet only in the global bucket, as two checks of one action do.

In `listing` the time to live is what one lost heartbeat needs and no more, as
`ListingAssumption` says with equality, so one tick less would show. Two
registrations are what it takes for one to overtake the other, of one agent or of
two. Both agents are configured to register; one of them does not serve, and may be
started twice. An agent that serves and does not register, which is what a runtime
without an endpoint does, never has a flow; the theorems cover it. `approvals` has one agent
because agents share nothing but the files; the rules match it by fingerprint, by
speciality, or not at all, and the roles files extend built-in roles, replace them,
extend what they replace, or break. Three edits let a file change between a
decision, its card and the next request. `marketplace` has two calls of one agent,
which share its status and its tokens. In `audit` ten entries go through all names
and out of the last one, with a crash and a gap before; writers are symmetric.

`anti_replay` and `store` do not check for deadlock: the
first stops at the bound of the clock, and with two instances the file can become
unreadable, after which no instance starts again, which is what the code does. `Delegation` stops when its
calls are over, `Handshake` when its attempts are, `RateLimiter` at the bounds of the clock and of the checks,
`Listing` when a registration is due that is over its bound, `AuditLog` at the
bound of the entries. `Approvals` and `Marketplace` never stop.

Fairness (`Delegation!Fairness`, for `CallsEnd` and `ResultsLand` only): the
thread of a call that has begun keeps running, which the code justifies because
every wait of it is bounded: a post has a timeout, and the retries and the polls
are counted. The friend, the network and the handler threads are not assumed to
do anything. For `ResultsLand` the executor also finishes what it began and sends
the result; that is an assumption about the host, and the property says what the
registry makes of it: a result that is sent until it is taken ends up in the
record whatever the client's updates are doing at that time. The other properties
are safety properties and need no fairness.

Fairness (`Handshake!Fairness`, for `QueuedCompletes` and `Consolidates` only): owners
decide on what waits for them and hosts deliver friend_accept, which is an
assumption about people and hosts under which the property says what the code makes
of it. Calls may stop and posts need not arrive. The exceptions in `QueuedCompletes`
are needed: one side may have started over, nobody tells it of an automatic
approval, or the peer itself made the record accepted, after which there is nothing
left to approve. So is the condition that each side has one Directory: `Consolidated`
below fails otherwise.

Fairness (`Listing!Fairness`, for `LoopStarts` and `LeavesWhenSilent` only): a
request ends in an answer or a timeout, a thread that may run runs, a loop that
wakes sends, fails or dies of it, and time passes. The directory need not handle
anything, and others need not send heartbeats.

### Findings

The two runs that end in a violation state what a document or a comment says and
show what the code does; `PROJECT.json` quotes both. A friend_request takes a peer
out of `blocked`, and a friendship that the policy approves never reaches the side
that asked for it.

Some modules end with further properties under the heading "What the documents
say, and the code does not do". No run keeps them; each of them fails when it is
added to the cfg of its module (`RefusedProperly` with `Limits <- MCBurst`):

- `Friendship!RemovedForGood`: a record that is removed while a friend_request is
  handled comes back with its old matrix (`server.py:222`).
- `DirectoryStore!DurableUnlessOverlap`: two `Directory` objects on one file undo
  each other's changes (`directory.py:141`), as a server does with what
  `haap friends` saved after it started.
- `Delegation!NeverAgain`: a restart within the timestamp window lets a retried
  task run a second time (`server.py:80`).
- `RateLimiter!RefusedProperly`: a message over the limit of a bucket that never
  refills raises `OverflowError` instead of `RateLimitedError`
  (`rate_limiter.py:128`).
- `Approvals!AutoWithinMax`: a role that is not on the ladder is granted as client
  even if `max_role` is guest (`policy.py:128`), though "Auto-approvals can never
  exceed max_role" (`policy.py:119`).
- `Listing!OneLoop`: `start` is called idempotent (`tools.py:162`), and begins
  another loop each time if the runtime does not serve.
- `Listing!HeartbeatRunning`: the status of a runtime gives `heartbeat_running` for a
  loop whose thread died of an answer it could not read (`registry_client.py:126`).
- `Handshake!Consolidated`: "their friend_accept consolidates our pending_out"
  (`client.py:125`), and is refused if the server has another Directory than the client
  (`server.py:117`).
- `Handshake!OnlyApproval`: "The only code paths that ever move a `pending_in` record to
  `accepted` are `Directory.approve`" (`friendship-handshake.md`); a friend_accept moves
  it as well (`directory.py:260`).

The models also contain, without a run of their own: overlapping saves of two
`Directory` objects truncate the file (`overlap`); a task without a resource passes
every scope, so that a client's scopes do not confine it (`ScopeAllows`); whoever
knows a fingerprint keeps its entry in the directory alive (`RenewedByOther`);
approving with `{}` grants the default matrix (`EffectiveGrant`); the nonce cache
grows beyond its cap while its keys are fresh (`Accept`); `friends block` is not
seen by a server that loaded the file before (`Start` loads once); a result pushed
before the delegating agent has its record is refused (`PushRefused`), and unless
it is sent again the call ends without it; `wait_seconds` writes to a bucket
without the lock, so that more passes than the capacity allows (`raced`); expired
agents are hidden and never pruned, though `registry.py:17` speaks of pruning, and
take up room (`Room`), which is checked at the first request only (`crowded`); of
two registrations of one agent at once both can fail (`Refuse`); a runtime whose
port was taken keeps a server that does not listen, and never starts another
(`StartUnbound`); an empty matrix of a role becomes the default one, and a role
without rate limits leaves the old ones (`Approved`); a `policy.json` that is JSON
and no object keeps the server from starting (`LoadPolicy`), where one that is no
JSON gives the defaults; nothing removes requests that nobody decided on
(`policy.py:49` has seven days); a cancelled booking stays booked (`Cancel`);
overlapping rotations of the audit log can replace a full rotated file by a nearly
empty one (`raced`); a task record of an executing agent that died stays
`submitted`, `accepted` or `working` (`Restart` of `Delegation` forgets the
threads and leaves the records).

Seen while reading, and in no model: `public_keys` iterates over the map without
the lock while handlers change it (`directory.py:173`); `create` overwrites a
record whose identifier the peer chose again (`tasks.py:154`); an executor may move
the record of its task itself while the handler moves it (`server.py:318`); a role
whose matrix is malformed leaves a request pending without a card
(`server.py:247`, in `AutoApprove`).

## 4. Proofs

All theorems are checked by tlapm with SMT, Zenon and PTL.

**Friendship.** `Invariance` proves `IInv`: types; the matrix of every record in
the directory, and of every record that a handler will store again, within
`granted` (`MatrixWithinGrant`; of its two parts neither is inductive
without the other, since `Upsert` turns a carried record into the directory's);
the matrix that a task handler is about to read within `may[t]`; and that an
object the directory does not hold and nobody carries is free. From it:
`TypeCorrect`, `MatrixSafe`, `TasksSafe`, and `Refinement`, which
maps every step to a `Grant`, `Revoke`, `Open`, `Run` or `Close` of
`AccessControl` or to a stutter. `AccessPromise` is about the abstract
specification alone: its steps run only what was allowed. Assumptions: `DefaultGrantAssumption`,
`NoIdAssumption`, `NoPeerAssumption`, `GrantsAssumption`, all about constants.

**AntiReplay.** `AtMostOnce` needs three facts more: a key in the cache was
marked no earlier than its message's window opens (`Marked`); what is under way
passed the window at most `Patience` ago (`InFlight`); what was handled and is
not in the cache is outdated for good (`Spent`). `PrunedIsSpent` and
`InFlightIsNotSpent` are the two lemmas in which `MarginAssumption` is used.

**DirectoryStore.** While no saves overlapped, the one instance that saves is
the only one with a descriptor, on the inode named `.tmp`, which is not
`friends.json` and holds its map once written (`Exclusive`, `Saving`, `Apart`):
`AtomicWrites`. An instance that is not outdated differs from what was saved only
in the records it changed itself (`Fresh`): `NothingLost`. `SoleInstance`
specialises both: with one `Directory` object the file is always whole and
durable. `Serializable` is the refinement of `SerialMap`. What it publishes is
`owed`, the map last saved, which the invariant says the file holds
(`OthersView`); so a step that finishes no save, crashes and failed writes among
them, is a stutter or a change of somebody's view, and a `Replace` by an instance
that is not outdated writes that instance's view (`ReplacePublishes`), which is a
`Commit`. With one object nothing overlaps or is outdated, and the file implements
`SerialMap` without an exception (`SoleRefinement`).

**AuditLog.** `AuditInv` is about every number of names, limit and set of writers.
`BoundedUnlessRaced` needs `Room`: the writers that have looked at the size and are
about to write count already. `NewestKeptUnlessRaced` needs the contents of the
files: each has consecutive entries and `audit.log` the last one (`Consecutive`), a
higher number means older entries (`Ordered`), nothing is missing after the oldest
entry kept (`Unbroken`), and only full files are renamed, to a name that is empty
unless it is the oldest (`Rotated`). So a rotation overwrites the oldest file only, while
`Certain` newer entries are in full files. TLC checked the invariant with `Keep` 1, 2
and 3 first; 3 showed that a crash between two renamings leaves a gap, after which
the next rotation drops the oldest file all the same, so that two full files are
certain and not three. `SoleWriter`: one `AuditLog` on the
file races with nobody, so that both promises hold always. Assumption:
`AuditAssumption`.

**Delegation.** `IInv` has, besides types and `OnceALife`, a part per place where a
task can be. `OriginOK`: a task of the present life of the server belongs to a
call that is in `accepted`, which is why `OnceALife` is inductive. `HandlerOK`:
while a task has a handler thread, no call and no mirror knows the task, and the
record is where the thread has taken it. `JobOK`: a verdict exists from the moment
the executor decides. `CallOK`: whoever was answered has a task whose thread is
done and whose record is what the answer said, and at each stage of
`delegate_task` the mirror is where the client took it, or final because a push
came first. `MirrorOK` is `Truthful` and `HeldAsAnswered`, which hold only because of
the others: an answer or a push puts into the mirror what handler and job carry.
`TypeCorrect`, `ExecutedOnce`, `ResultsTrue` and `HeldTasksAnswered` follow. The last
does not say that the delegating agent knows no more than the executing one's record:
after a push it does, because nothing moves that record on from `working`, and after a
restart that lost the record too. It says that these are the only two cases. In
`Refinement`, `Accept` is `Execute`, `Refuse` is `Dismiss` or a stutter, `Restart`
is `Forget`, `Execute` and `Finish` are `End`, a mirror that becomes final is
`Learn`, and a call that returns a final state is `Return`. `RemotePromise` proves of
`RemoteResults` that what is known is the result and stays known, so that
`NothingRevoked` follows from the refinement: no answer, push or restart changes a
final mirror or what `delegate_task` returned. `OnceBeforeRestart` is the half of the
violated `NeverAgain` that holds: until the executing agent restarts, no call is
executed twice. Assumption: `DelegationAssumption`. `MoveFacts` says of the transition table what the proofs
need, so that they do not unfold it.

**Handshake.** `IInv` has `AttemptOK` (whatever is on the wire or in a handler
belongs to a call that has begun, so that the records it touches are of the right
pair) and `RecordOK`, which says of each record in each Directory what it is founded
on (`Founded`). A record is `pending_in` only if the peer asked, because then the owner
may approve it; `pending_out` only if this side asked; and one of the two is what
friend_accept needs to make it accepted, prompted or not. Rights come only of
`PendingOut` and `Accepted`, which a call and a decision of this side write. What is
saved is a whole row of records, of another moment perhaps, if the agent has several
Directory objects; foundations only grow (`Grows`), so that a row that was founded
once stays founded (`RecordsSaved`). `Steady` is what all steps but `Start` have in
common. The argument does not use who shares a Directory, so it holds for every
`Wirings`. From `Invariance`: `TypeCorrect` and `FriendsByConsent`.
`FailuresCaused` has an invariant of its own, `CInv`, proved beside `IInv`. `PostOK`:
nothing is under way or marked of a step that the call has not reached, posts are
numbered up to the present one, and what was posted once is not under way any
more when it is marked; so a replay that the client still waits for is a later
post. `ValueOK`: as long as nobody disturbed the call, the challenge that it was
given is the one that is pending, then the one that the handler took, so that the
verdict is good or "expired". Assumption: `HandshakeAssumption`.

**RateLimiter.** `Funds(b, s)`: with `b` refilled up to time `s`, what is left
plus what was taken in the span is paid for by what `b` held and regained; a late
reading takes back exactly what had been regained too early, which is why the
order of the readings does not matter (`RefillBalance`). `BucketOK` says that
`Funds` holds at `last_refill`, or at the time that a thread between `Store` and
`Stamp` is about to write there (`Ahead`), and that what an undisturbed
`wait_seconds` has read is still so. `LevelOK` keeps the level it will store
within the capacity, disturbed or not; `CheckOK` has the buckets exist. From
`Invariance`: `TypeCorrect` and `LimitHolds`, for any threads, actions, limits and
any span. `SoleThread`: if messages are handled one at a time, no bucket is ever
disturbed and the bound holds for all of them. Assumption: `RateAssumption`.

**Listing.** `StaysListed` says that whoever was listed under a live loop is in the
directory; it is inductive only with a bound on how old the entry may be
(`KeptOK`). After `m` lost heartbeats in a row the entry was renewed at most
`Grace(m)` = `Slack + m * Period` before the loop last woke up, so it is never
older than that plus the loop's timer; before the loop starts, it is no older than
the timer of the thread that will start it. A thread that dies takes its agent out of
what is promised (`BeatRaisesStep`); a heartbeat from another only makes an entry younger
(`RenewedByOtherStep`). `GraceFacts` is where
`ListingAssumption` (`Slack + Losses * Period + Period <= EntryTTL`) is used: one
more heartbeat comes before the entry expires. `OnlyNewer` needs `NonceOK`: a
pending challenge is newer than the entry it will replace. `WithinCapacity` needs
`Fits`: unless several agents were let in at once, there is room for everybody who
is listed or whose challenge is pending. `DueOK` (timers run only while they may)
and `WireOK` (a second request answers a challenge) are what these rest on. From
`Invariance`: `TypeCorrect`, `Stays`, `NoOrphans`, `WithinCapacity` and `OnlyNewer`.
Assumptions: `RegistryAssumption`, `ListingAssumption`.

**Marketplace.** `HandlerOK` says, for each stage of the handler, where the record
is and whether the executor can have reserved in this life of the business;
`AnswerOK`, that a client which was answered has no handler any more, until a
restart. Without them neither `BookedOnce` nor `Informed` is inductive: a second
reservation would need a call that is let in twice, and a wrong answer a handler
whose record is not where its stage says. From `Invariance`: `TypeCorrect`,
`BookedAtMostOnce`, `ClientsInformed` and `BlockHolds`. Assumption:
`MarketplaceAssumption`.

**Approvals.** `ApprovalsInv` is a statement about each peer (`PeerOK`): its record, its
card and the decision that let it in are of their types, what the policy suggested
or granted is within the cap in force (`Within`), and what it granted while
`roles.json` redefined no built-in role is that role's matrix (`AsBuilt`). `MatrixWithinCap` follows from `AsBuilt`, and is about what
`check` lets through, resources and all, which is more than what the matrices list: it
takes the empty resource from `ScopeAllows`, and the client under a max_role of guest
from `Cap`. A card is
decided on long after it was queued, with other files perhaps, so the cap is the
card's own. What `load_roles` computes is a function of the entries of the file, about
which `LoadRolesFacts` is proved for every file that starts the server: a least
number of entries after which it failed is excluded by well-foundedness
(`LeastNatural`). `LadderAllows` reads the built-in matrices. From these
`ApprovalsTypeCorrect`, `GrantsCapped`, `MatricesCapped`, and `WithinMaxUnlessGuest`,
which is how far the violated `AutoWithinMax` does hold: a `max_role` of guest is
the only exception. Assumptions: `RolesAssumption`, `ApprovalsAssumption`.

Model-checked only: the liveness properties `CallsEnd`, `ResultsLand`,
`QueuedCompletes`, `LoopStarts` and `LeavesWhenSilent`, which are out of the prover's
reach, and the statements that are violated. Every other property that a passing
run checks is a theorem.

## 5. Not modelled, and the plan

Signatures, canonical JSON, parsing, names, endpoints and notes are left out:
nothing above depends on them beyond "a message that does not verify is refused".
Where a component has a module of its own, the others allow its refusals at any
time: rate limits and scopes in `Friendship` and `Delegation`, the matrix in
`Delegation`, the policy's choice in `Friendship` and `Handshake`.

Not modelled: key files, manifests and the command line's parsing (pure, or
written once); the MCP server's dispatch and the Hermes plugin's wiring, which
call operations of the other parts; `grant` and `revoke` of `PermissionMatrix`,
`configure` and `reset` of `RateLimiter`, which nothing calls; the filters of
`search` and `recent`; the memory transport.

Planned: what each module promises as an assumption of the next, `Friendship` on
top of `DirectoryStore` first (a save by an outdated instance brings back a grant),
and the conditions under which two agents that restart in the middle of a handshake
still agree.
