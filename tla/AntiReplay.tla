------------------------------ MODULE AntiReplay ------------------------------
(***************************************************************************)
(* verify_envelope and NonceManager of haap/envelope.py, as the router of  *)
(* haap/server.py uses them: every inbound copy of a signed message is     *)
(* checked against the timestamp window, then its nonce is checked and     *)
(* marked, and only then is the message handled.  The copies come from     *)
(* HttpTransport, which posts the same envelope again after a timeout, and *)
(* from whatever the network does; they are handled by concurrent threads. *)
(*                                                                         *)
(* The two checks read the clock separately, and between them a thread     *)
(* looks up a key and verifies a signature.  Time is counted in ticks;     *)
(* int(time.time()) truncates it to the second, and timestamps are whole   *)
(* seconds on the sender's clock.  The receiver's clock never goes back.   *)
(* A message stands for its (sender, nonce) pair: nonces are fresh, and    *)
(* copies whose signature does not verify never reach the nonce check.     *)
(***************************************************************************)
EXTENDS Integers, FiniteSets

CONSTANTS
    Messages,   \* the signed envelopes
    Workers,    \* the handler threads
    NoMessage,  \* message of an idle thread
    Stamps,     \* the timestamps senders write, in ticks
    Second,     \* ticks in a second
    Skew,       \* MAX_CLOCK_SKEW
    TTL,        \* NonceManager.TTL
    MaxSeen,    \* NonceManager.MAX_SEEN
    Patience,   \* ticks between a thread's timestamp check and its nonce check
    MaxClock    \* bound on the clock

ASSUME TickAssumption ==
    /\ Second \in Nat \ {0}
    /\ Skew \in Nat /\ TTL \in Nat /\ Patience \in Nat /\ MaxClock \in Nat
    /\ MaxSeen \in Nat
    /\ Stamps \subseteq Int
    /\ NoMessage \notin Messages

\* "2 x MAX_CLOCK_SKEW + margin": the margin pays for the truncation to the
\* second and for the time a thread takes from one check to the other.  With
\* the values of the code, 660 s against 2 x 300 s, that is 59 s.
ASSUME MarginAssumption == TTL >= 2 * Skew + (Second - 1) + Patience

VARIABLES
    now,        \* the receiver's clock
    stamp,      \* stamp[m]: the timestamp of m
    seen,       \* the keys of NonceManager._seen
    markedAt,   \* markedAt[m]: the value _seen holds for m
    worker,     \* worker[w]: the copy thread w is verifying
    handled     \* handled[m]: how often m was handled since the server started

vars == <<now, stamp, seen, markedAt, worker, handled>>

Copy ==
    [at : {"idle", "checked", "marking"}, msg : Messages \cup {NoMessage},
     checked : Nat, read : Nat]

Idle == [at |-> "idle", msg |-> NoMessage, checked |-> 0, read |-> 0]

TypeOK ==
    /\ now \in Nat
    /\ stamp \in [Messages -> Int]
    /\ seen \in SUBSET Messages
    /\ markedAt \in [Messages -> Nat]
    /\ worker \in [Workers -> Copy]
    /\ handled \in [Messages -> Nat]

-----------------------------------------------------------------------------
\* int(time.time()), back in ticks
Truncated(t) == (t \div Second) * Second

\* check_timestamp: abs(now - ts) <= MAX_CLOCK_SKEW
InWindow(m, t) ==
    /\ Truncated(t) - stamp[m] <= Skew
    /\ stamp[m] - Truncated(t) <= Skew

\* A copy of m arrives and passes check_timestamp; one that does not is
\* refused and leaves no trace.
CheckTimestamp(w, m) ==
    /\ worker[w] = Idle
    /\ InWindow(m, now)
    /\ worker' = [worker EXCEPT ![w] =
                     [at |-> "checked", msg |-> m, checked |-> now, read |-> 0]]
    /\ UNCHANGED <<now, stamp, seen, markedAt, handled>>

\* The signature verified; check_and_mark reads the clock before it takes the
\* lock.
ReadClock(w) ==
    /\ worker[w].at = "checked"
    /\ worker' = [worker EXCEPT ![w].at = "marking", ![w].read = now]
    /\ UNCHANGED <<now, stamp, seen, markedAt, handled>>

\* Slip: a key is kept for one skew, not for two and the margin.
KeptForSkew(t) == {m \in seen : markedAt[m] >= t - Skew}

\* _prune: the keys that are left.
Kept(t) == {m \in seen : markedAt[m] >= t - TTL}

Pruned(t) == IF Cardinality(seen) > MaxSeen THEN Kept(t) ELSE seen

\* Slip: the key is marked with the sender's timestamp.
AcceptBySenderClock(w) ==
    LET m == worker[w].msg
        t == worker[w].read
    IN  /\ worker[w].at = "marking"
        /\ m \notin Pruned(t)
        /\ seen' = Pruned(t) \cup {m}
        /\ markedAt' = [n \in Messages |->
                           IF n = m THEN stamp[m] ELSE IF n \in Pruned(t) THEN markedAt[n] ELSE 0]
        /\ handled' = [handled EXCEPT ![m] = @ + 1]
        /\ worker' = [worker EXCEPT ![w] = Idle]
        /\ UNCHANGED <<now, stamp>>

\* check_and_mark under its lock: prune if the cap is exceeded, refuse a key
\* that is still there, mark the key.
Accept(w) ==
    LET m == worker[w].msg
        t == worker[w].read
    IN  /\ worker[w].at = "marking"
        /\ m \notin Pruned(t)
        /\ seen' = Pruned(t) \cup {m}
        /\ markedAt' = [n \in Messages |->
                           IF n = m THEN t ELSE IF n \in Pruned(t) THEN markedAt[n] ELSE 0]
        /\ handled' = [handled EXCEPT ![m] = @ + 1]
        /\ worker' = [worker EXCEPT ![w] = Idle]
        /\ UNCHANGED <<now, stamp>>

Refuse(w) ==
    LET m == worker[w].msg
        t == worker[w].read
    IN  /\ worker[w].at = "marking"
        /\ m \in Pruned(t)
        /\ seen' = Pruned(t)
        /\ markedAt' = [n \in Messages |-> IF n \in Pruned(t) THEN markedAt[n] ELSE 0]
        /\ worker' = [worker EXCEPT ![w] = Idle]
        /\ UNCHANGED <<now, stamp, handled>>

\* Time passes, no faster than threads get from one check to the other.
Tick ==
    /\ now < MaxClock
    /\ \A w \in Workers : worker[w].at # "idle" => now < worker[w].checked + Patience
    /\ now' = now + 1
    /\ UNCHANGED <<stamp, seen, markedAt, worker, handled>>

\* The server process is started again: the nonces are in memory only.
Restart ==
    /\ seen' = {}
    /\ markedAt' = [m \in Messages |-> 0]
    /\ worker' = [w \in Workers |-> Idle]
    /\ handled' = [m \in Messages |-> 0]
    /\ UNCHANGED <<now, stamp>>

Init ==
    /\ now = 0
    /\ stamp \in [Messages -> Stamps]
    /\ seen = {}
    /\ markedAt = [m \in Messages |-> 0]
    /\ worker = [w \in Workers |-> Idle]
    /\ handled = [m \in Messages |-> 0]

Next ==
    \/ \E w \in Workers :
           \/ \E m \in Messages : CheckTimestamp(w, m)
           \/ ReadClock(w) \/ Accept(w) \/ Refuse(w)
    \/ Tick
    \/ Restart

Spec == Init /\ [][Next]_vars

-----------------------------------------------------------------------------
(* Properties.                                                             *)

\* As long as the server runs, a message is handled at most once, however
\* often it is delivered and although keys are pruned: a key is pruned only
\* when no copy can pass, or have passed, the timestamp window any more.
AtMostOnce == \A m \in Messages : handled[m] <= 1

=============================================================================
