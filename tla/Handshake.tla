------------------------------ MODULE Handshake ------------------------------
(***************************************************************************)
(* How two agents become friends: HAAPClient.start_friendship              *)
(* (haap/client.py) with its three requests against the router's hello,    *)
(* challenge, friend_request and friend_accept handlers (haap/server.py).  *)
(* An attempt is one start_friendship; an agent may be at several of them, *)
(* and both agents may start.  The transport posts an envelope again after *)
(* a timeout; an answer counts only while the client waits for that post.  *)
(*                                                                         *)
(* A record of the directory is its status and whether its matrix grants   *)
(* anything.  A Directory reads friends.json once, when it is made, and    *)
(* every mutation writes all that it holds.  HAAPRuntime (haap/tools.py)   *)
(* makes one for its client and one for its server, and the owner's        *)
(* commands make one each; an embedding may give client, server and owner  *)
(* the same one.  Both wirings are here: the agents of shared have one.    *)
(* A friend_request is one step: what its handler does between the locks   *)
(* of the directory, and blocked peers, are the subject of Friendship.     *)
(***************************************************************************)
EXTENDS Integers

CONSTANTS
    Agents,
    Attempts,    \* the calls of start_friendship, numbered as they begin
    NoAgent,     \* the caller and the callee of a call that is yet to come
    Wirings,     \* the sets of agents that may have one Directory
    Retries,     \* HttpTransport.retries
    MaxFaults    \* bound on restarts, repeated posts, removals and unprompted
                 \* friend_accepts together

ASSUME HandshakeAssumption ==
    /\ NoAgent \notin Agents
    /\ Attempts \subseteq Nat
    /\ Wirings \subseteq SUBSET Agents
    /\ Retries \in Nat /\ MaxFaults \in Nat

VARIABLES
    attempt,    \* attempt[a]: the progress of start_friendship
    wire,       \* the envelopes under way: attempt, step and number of the post
    marked,     \* the attempts and steps whose nonce the callee has marked
    pending,    \* pending[x][y]: the challenge that x expects y to answer
    minted,     \* how many challenges were issued
    proof,      \* proof[a]: the challenge handler that serves a
    friends,    \* friends[x][h][y]: the record of y in the Directory that h
                \* has at x, or in the file friends.json
    shared,     \* the agents whose client, server and owner have one Directory
    notices,    \* the friend_accepts x owes y
    faults,     \* restarts, repeated posts, removals, unprompted friend_accepts
    decided,    \* auxiliary: <<x, y, who>> if x's owner or policy accepted y,
                \* or if x said so to y and nobody at x had
    disturbed   \* auxiliary: attempts during which the callee restarted or
                \* served another attempt of the same caller

server == <<pending, minted, proof, marked>>
vars == <<attempt, wire, server, friends, shared, notices, faults, decided, disturbed>>

Steps == {"hello", "challenge", "friend_request"}

Follows == [hello |-> "challenge", challenge |-> "friend_request"]

Holders == {"client", "server", "file"}

Record == [status : {"none", "pending_out", "pending_in", "accepted"}, rights : BOOLEAN]

\* Challenges are numbered from 1.
NoChallenge == 0

\* why: what a call that raised was told.
Attempt == [at : {"idle", "waiting", "answered", "returned", "raised"},
            from : Agents \cup {NoAgent}, to : Agents \cup {NoAgent},
            step : Steps, try : 0 .. Retries + 1, value : Nat,
            why : {"none", "friends", "network", "replay", "unknown",
                   "expired", "mismatch", "denied"}]

TypeOK ==
    /\ attempt \in [Attempts -> Attempt]
    /\ wire \subseteq Attempts \X Steps \X (1 .. Retries + 1)
    /\ marked \subseteq Attempts \X Steps
    /\ pending \in [Agents -> [Agents -> Nat]]
    /\ minted \in Nat
    /\ proof \in [Attempts -> [try : 0 .. Retries + 1, popped : Nat]]
    /\ friends \in [Agents -> [Holders -> [Agents -> Record]]]
    /\ shared \in Wirings
    /\ notices \subseteq Agents \X Agents
    /\ faults \in 0 .. MaxFaults
    /\ decided \subseteq Agents \X Agents \X {"owner", "policy", "nobody"}
    /\ disturbed \subseteq Attempts

Idle == [at |-> "idle", from |-> NoAgent, to |-> NoAgent, step |-> "hello",
         try |-> 0, value |-> NoChallenge, why |-> "none"]

NoProof == [try |-> 0, popped |-> NoChallenge]

UnderWay(a) == attempt[a].at \in {"waiting", "answered"}

SamePair(a, b) == attempt[a].from = attempt[b].from /\ attempt[a].to = attempt[b].to

-----------------------------------------------------------------------------
(* The Directory.                                                          *)

NoRecord == [status |-> "none", rights |-> FALSE]

\* add_pending_out and approve give the default matrix or that of a role.
PendingOut == [status |-> "pending_out", rights |-> TRUE]
Accepted == [status |-> "accepted", rights |-> TRUE]

\* save: what h holds goes to the file.
Saved(x, h, row) ==
    [g \in Holders |-> IF x \in shared \/ g \in {h, "file"} THEN row ELSE friends[x][g]]

Save(x, h, row) == friends' = [friends EXCEPT ![x] = Saved(x, h, row)]

Change(x, h, y, rec) == Save(x, h, [friends[x][h] EXCEPT ![y] = rec])

-----------------------------------------------------------------------------
(* The client: start_friendship, _raw_send and HttpTransport.send.         *)

Raised(a, why) == [attempt[a] EXCEPT !.at = "raised", !.why = why]

Becomes(a, new) == attempt' = [attempt EXCEPT ![a] = new]

\* add_pending_out, which replaces a record that waits for either side, and
\* the hello.  The client is one that has its Directory, or a new one that
\* opens the file.
Start(a, x, y, opened) ==
    /\ attempt[a].at = "idle"
    /\ \A b \in Attempts : b < a => attempt[b].at # "idle"
    /\ x # y
    /\ IF friends[x][opened][y].status = "accepted"
       THEN Becomes(a, Raised(a, "friends")) /\ UNCHANGED <<wire, friends>>
       ELSE /\ Save(x, "client", [friends[x][opened] EXCEPT ![y] = PendingOut])
            /\ Becomes(a, [attempt[a] EXCEPT
                   !.at = "waiting", !.try = 1, !.from = x, !.to = y])
            /\ wire' = wire \cup {<<a, "hello", 1>>}
    /\ UNCHANGED <<server, shared, notices, faults, decided, disturbed>>

\* The next request, after the answer to the last one.
Proceed(a) ==
    /\ attempt[a].at = "answered"
    /\ LET step == Follows[attempt[a].step] IN
       /\ Becomes(a, [attempt[a] EXCEPT !.at = "waiting", !.try = 1, !.step = step])
       /\ wire' = wire \cup {<<a, step, 1>>}
    /\ UNCHANGED <<server, friends, shared, notices, faults, decided, disturbed>>

Repost(a) ==
    /\ attempt[a].at = "waiting"
    /\ attempt[a].try <= Retries
    /\ faults < MaxFaults
    /\ faults' = faults + 1
    /\ Becomes(a, [attempt[a] EXCEPT !.try = @ + 1])
    /\ wire' = wire \cup {<<a, attempt[a].step, attempt[a].try + 1>>}
    /\ UNCHANGED <<server, friends, shared, notices, decided, disturbed>>

\* No attempt is left, or the answer is a status that is not retried.
GiveUp(a) ==
    /\ attempt[a].at = "waiting"
    /\ Becomes(a, Raised(a, "network"))
    /\ UNCHANGED <<wire, server, friends, shared, notices, faults, decided, disturbed>>

\* The answer to a post: it is lost, or the client still waits for it.
Answer(a, step, i, new) ==
    \/ UNCHANGED attempt
    \/ /\ attempt[a].at = "waiting" /\ attempt[a].step = step /\ attempt[a].try = i
       /\ Becomes(a, new)

-----------------------------------------------------------------------------
(* The server.                                                             *)

\* The callee serves a: other attempts of the pair may be the worse for it.
Disturb(a) ==
    disturbed' = disturbed \cup {b \in Attempts \ {a} : SamePair(a, b) /\ UnderWay(b)}

\* handle_message: a second copy of an envelope.
Replay(a, step, i) ==
    /\ <<a, step, i>> \in wire
    /\ <<a, step>> \in marked
    /\ wire' = wire \ {<<a, step, i>>}
    /\ Answer(a, step, i, Raised(a, "replay"))
    /\ UNCHANGED <<server, friends, shared, notices, faults, decided, disturbed>>

\* handle_message: the envelope is verified and goes to its handler.
Receive(a, step, i) ==
    /\ <<a, step, i>> \in wire
    /\ <<a, step>> \notin marked
    /\ wire' = wire \ {<<a, step, i>>}
    /\ marked' = marked \cup {<<a, step>>}

\* Slip: a challenge that is pending is kept.
HelloKeeping(a, i) ==
    LET x == attempt[a].to
        y == attempt[a].from
    IN
    /\ Receive(a, "hello", i)
    /\ minted' = minted + 1
    /\ pending' = [pending EXCEPT ![x][y] = IF @ = NoChallenge THEN minted' ELSE @]
    /\ Answer(a, "hello", i,
           [attempt[a] EXCEPT !.at = "answered", !.value = minted'])
    /\ Disturb(a)
    /\ UNCHANGED <<proof, friends, shared, notices, faults, decided>>

\* The challenge of this hello replaces one that is pending.
Hello(a, i) ==
    LET x == attempt[a].to
        y == attempt[a].from
    IN
    /\ Receive(a, "hello", i)
    /\ minted' = minted + 1
    /\ pending' = [pending EXCEPT ![x][y] = minted']
    /\ Answer(a, "hello", i,
           [attempt[a] EXCEPT !.at = "answered", !.value = minted'])
    /\ Disturb(a)
    /\ UNCHANGED <<proof, friends, shared, notices, faults, decided>>

\* _on_challenge takes the pending challenge, whatever the message says.
Pop(a, i) ==
    LET x == attempt[a].to
        y == attempt[a].from
    IN
    /\ Receive(a, "challenge", i)
    /\ proof' = [proof EXCEPT ![a] = [try |-> i, popped |-> pending[x][y]]]
    /\ pending' = [pending EXCEPT ![x][y] = NoChallenge]
    /\ Disturb(a)
    /\ UNCHANGED <<attempt, minted, friends, shared, notices, faults, decided>>

\* What the handler may answer; a challenge may have expired by the time the
\* handler looks at it.
Verdicts(a) ==
    IF proof[a].popped = NoChallenge THEN {"unknown"}
    ELSE {"expired", IF proof[a].popped = attempt[a].value THEN "verified" ELSE "mismatch"}

\* Slip: a status outside the life cycle.
KnownOnly(rec) ==
    IF rec.status = "none" THEN [status |-> "known", rights |-> FALSE] ELSE rec

\* register_known: an existing record stays as it is.
Known(rec) ==
    IF rec.status = "none" THEN [status |-> "pending_in", rights |-> FALSE] ELSE rec

\* The rest of _on_challenge.
Prove(a, verdict) ==
    LET x == attempt[a].to
        y == attempt[a].from
        i == proof[a].try
    IN
    /\ i # 0
    /\ proof' = [proof EXCEPT ![a] = NoProof]
    /\ IF verdict = "verified"
       THEN /\ Change(x, "server", y, Known(friends[x]["server"][y]))
            /\ Answer(a, "challenge", i, [attempt[a] EXCEPT !.at = "answered"])
       ELSE /\ Answer(a, "challenge", i, Raised(a, verdict))
            /\ UNCHANGED friends
    /\ UNCHANGED <<wire, pending, minted, marked, shared, notices, faults, decided,
                   disturbed>>

\* friend_request under one of the decisions of the policy.  Nobody looks at
\* the friend_accept that answers an automatic approval.
Request(a, i, decision) ==
    LET x == attempt[a].to
        y == attempt[a].from
    IN
    /\ Receive(a, "friend_request", i)
    /\ Change(x, "server", y,
           CASE decision = "deny" -> NoRecord
             [] decision = "auto" -> Accepted
             [] decision = "queue" ->
                    [Known(friends[x]["server"][y]) EXCEPT !.status = "pending_in"])
    /\ decided' = IF decision = "auto" THEN decided \cup {<<x, y, "policy">>} ELSE decided
    /\ Answer(a, "friend_request", i,
           IF decision = "deny" THEN Raised(a, "denied")
           ELSE [attempt[a] EXCEPT !.at = "returned"])
    /\ UNCHANGED <<pending, minted, proof, shared, notices, faults, disturbed>>

\* A new process: nonces and challenges are forgotten, handlers are gone, and
\* the Directory of the server is read again.
Restart(x) ==
    /\ faults < MaxFaults
    /\ faults' = faults + 1
    /\ marked' = {m \in marked : attempt[m[1]].to # x}
    /\ pending' = [pending EXCEPT ![x] = [y \in Agents |-> NoChallenge]]
    /\ proof' = [a \in Attempts |-> IF attempt[a].to = x THEN NoProof ELSE proof[a]]
    /\ disturbed' = disturbed \cup {a \in Attempts : attempt[a].to = x /\ UnderWay(a)}
    /\ friends' = [friends EXCEPT ![x]["server"] = friends[x]["file"]]
    /\ UNCHANGED <<attempt, wire, minted, shared, notices, decided>>

-----------------------------------------------------------------------------
(* The owners, and friend_accept, which their hosts send.                  *)

\* Slip: a request of this side counts as one of the peer.
CanApprovePending(st) == st \in {"pending_in", "pending_out"}

CanApprove(st) == st = "pending_in"

\* approve; the host owes the other agent a friend_accept.
Approve(x, y) ==
    /\ CanApprove(friends[x]["file"][y].status)
    /\ Change(x, "file", y, Accepted)
    /\ decided' = decided \cup {<<x, y, "owner">>}
    /\ notices' = notices \cup {<<x, y>>}
    /\ UNCHANGED <<attempt, wire, server, shared, faults, disturbed>>

\* deny or remove.
Remove(x, y) ==
    /\ friends[x]["file"][y].status # "none"
    /\ faults < MaxFaults
    /\ faults' = faults + 1
    /\ Change(x, "file", y, NoRecord)
    /\ UNCHANGED <<attempt, wire, server, shared, notices, decided, disturbed>>

\* Slip: consolidates only what the peer asked for.
ConfirmedInbound(rec) ==
    IF rec.status = "pending_in" THEN [rec EXCEPT !.status = "accepted"] ELSE rec

\* mark_outbound_accepted: the matrix stays as it is.
Confirmed(rec) == [rec EXCEPT !.status = "accepted"]

\* The server of y knows the key of x.
Knows(y, x) == friends[y]["server"][x].status # "none"

\* _on_friend_accept at y, from x; the router refuses an unknown sender.
FriendAccept(x, y) ==
    IF Knows(y, x) THEN Change(y, "server", x, Confirmed(friends[y]["server"][x]))
    ELSE UNCHANGED friends

\* The friend_accept that x owes y.
Notify(x, y) ==
    /\ <<x, y>> \in notices
    /\ notices' = notices \ {<<x, y>>}
    /\ FriendAccept(x, y)
    /\ UNCHANGED <<attempt, wire, server, shared, faults, decided, disturbed>>

\* A friend_accept that no decision at x has led to.
Volunteer(x, y) ==
    /\ x # y /\ Knows(y, x)
    /\ faults < MaxFaults
    /\ faults' = faults + 1
    /\ FriendAccept(x, y)
    /\ decided' = decided \cup {<<x, y, "nobody">>}
    /\ UNCHANGED <<attempt, wire, server, shared, notices, disturbed>>

-----------------------------------------------------------------------------
Init ==
    /\ attempt = [a \in Attempts |-> Idle]
    /\ wire = {}
    /\ marked = {}
    /\ pending = [x \in Agents |-> [y \in Agents |-> NoChallenge]]
    /\ minted = 0
    /\ proof = [a \in Attempts |-> NoProof]
    /\ friends = [x \in Agents |-> [h \in Holders |-> [y \in Agents |-> NoRecord]]]
    /\ shared \in Wirings
    /\ notices = {}
    /\ faults = 0
    /\ decided = {}
    /\ disturbed = {}

Client(a) ==
    \/ \E x, y \in Agents, opened \in {"client", "file"} : Start(a, x, y, opened)
    \/ Proceed(a) \/ Repost(a) \/ GiveUp(a)

Serve(a) ==
    \/ \E verdict \in Verdicts(a) : Prove(a, verdict)
    \/ \E i \in 1 .. Retries + 1 :
        \/ Hello(a, i) \/ Pop(a, i)
        \/ \E decision \in {"deny", "auto", "queue"} : Request(a, i, decision)
        \/ \E step \in Steps : Replay(a, step, i)

Owner(x, y) == Approve(x, y) \/ Remove(x, y)

Next ==
    \/ \E a \in Attempts : Client(a) \/ Serve(a)
    \/ \E x, y \in Agents : Owner(x, y) \/ Notify(x, y) \/ Volunteer(x, y)
    \/ \E x \in Agents : Restart(x)

Spec == Init /\ [][Next]_vars

\* Owners decide what waits for them, and hosts deliver.  Nothing is assumed of
\* the network and of the callers: posts need not arrive, and calls may stop.
Fairness == WF_vars(\E x, y \in Agents : Approve(x, y) \/ Notify(x, y))

FairSpec == Spec /\ Fairness

-----------------------------------------------------------------------------
(* Properties.                                                             *)

Began(x, y) ==
    \E a \in Attempts : attempt[a].from = x /\ attempt[a].to = y

Decided(x, y) == \E who \in {"owner", "policy"} : <<x, y, who>> \in decided

\* An agent has a friend only if one of the two asked and the owner or the
\* policy of the other one approved, or if the other one said so unprompted
\* while a request of either was there.  And whatever the two exchange, lose,
\* repeat or restart, and whichever Directory it is: no record grants anything
\* unless its own agent asked or approved, so that a friend_accept alone makes
\* a friend without rights.
Mutual ==
    \A x, y \in Agents, h \in Holders :
        /\ friends[x][h][y].status = "accepted" =>
            \/ Began(y, x) /\ Decided(x, y)
            \/ Began(x, y) /\ Decided(y, x)
            \/ (Began(x, y) \/ Began(y, x)) /\ <<y, x, "nobody">> \in decided
        /\ friends[x][h][y].rights => Began(x, y) \/ Decided(x, y)

\* start_friendship fails only for a reason: the peer has replaced or
\* forgotten the challenge only if it restarted or served another attempt of
\* this agent in the meantime, and it finds a replay only if the transport
\* posted an envelope twice.
FailsForCause ==
    \A a \in Attempts :
        /\ attempt[a].why \in {"unknown", "mismatch"} => a \in disturbed
        /\ attempt[a].why = "replay" => attempt[a].try > 1

\* What the server of x has in y.
Status(x, y) == friends[x]["server"][y].status

Friends(x, y) == Status(x, y) = "accepted" /\ Status(y, x) = "accepted"

\* A request that waits for the owner's approval makes both sides friends,
\* unless one of them removes the other, the other side starts as well, the
\* policy approves first, or the peer says so itself; where each of the two has
\* one Directory.
QueuedCompletes ==
    \A x \in Agents : \A y \in Agents \ {x} :
        {x, y} \subseteq shared /\ Status(x, y) = "pending_in" ~>
            \/ Friends(x, y)
            \/ "none" \in {Status(x, y), Status(y, x)}
            \/ Began(x, y)
            \/ <<x, y, "policy">> \in decided
            \/ <<y, x, "nobody">> \in decided

-----------------------------------------------------------------------------
(* What the documents say, and the code does not do.                       *)

Returned(x, y) ==
    \E a \in Attempts :
        attempt[a].at = "returned" /\ attempt[a].from = x /\ attempt[a].to = y

\* openwiki/workflows/friendship-handshake.md: "the `friend_accept` that
\* consolidates the relationship on both ends".  The one that answers a request
\* which the policy approves is returned to the caller of start_friendship,
\* which does not apply it, and nothing else will.
Consolidates ==
    \A x, y \in Agents :
        {x, y} \subseteq shared /\ Returned(x, y) /\ Status(y, x) = "accepted" ~>
            Friends(x, y) \/ "none" \in {Status(x, y), Status(y, x)}

\* client.py: "their friend_accept consolidates our pending_out".  A server
\* that has another Directory than the client does not know the key of the
\* peer, and refuses the friend_accept.
Consolidated ==
    \A x, y \in Agents :
        <<x, y>> \in notices ~> friends[y]["file"][x].status \in {"accepted", "none"}

\* openwiki/workflows/friendship-handshake.md: "The only code paths that ever
\* move a `pending_in` record to `accepted` are `Directory.approve`".  A
\* friend_accept moves it too.
OnlyApproval ==
    [][\A x, y \in Agents, h \in Holders :
         /\ friends[x][h][y].status = "pending_in"
         /\ friends'[x][h][y].status = "accepted"
         => Decided(x, y)']_vars

=============================================================================
