----------------------------- MODULE RateLimiter -----------------------------
(***************************************************************************)
(* The rate limiter of one friend, haap/rate_limiter.py: check takes a     *)
(* token from the bucket of the action and one from the friend's global    *)
(* bucket, and computes how long to wait if either was empty.  Every       *)
(* message has a thread of its own.  A take refills and takes under the    *)
(* process-wide lock, after it has read the clock; wait_seconds refills    *)
(* without the lock, and its reads and writes of the bucket are steps.     *)
(*                                                                         *)
(* Tokens are counted in fractions: Token of them are one token, and       *)
(* capacity and refill (per tick of the clock) are given in fractions too. *)
(* configure and reset, which nothing in haap calls, are left out.         *)
(***************************************************************************)
EXTENDS Integers

CONSTANTS
    Threads,    \* the threads that handle messages
    Actions,    \* the actions, each with a bucket
    Global,     \* the key "*"
    Limits,     \* what config_for may return: capacity and refill
    Token,      \* fractions of a token in one token
    From, To,   \* a span of readings of the clock, in which takes are counted
    MaxClock,   \* bound on the clock
    MaxChecks   \* bound on the checks

Buckets == Actions \cup {Global}

ASSUME RateAssumption ==
    /\ Global \notin Actions
    /\ Actions # {} /\ Limits # {}
    /\ Limits \subseteq [capacity : Nat, refill : Nat]
    /\ Token \in Nat \ {0}
    /\ From \in Nat /\ To \in Nat /\ From <= To
    /\ MaxClock \in Nat /\ MaxChecks \in Nat

VARIABLES
    clock,    \* time.monotonic()
    made,     \* the buckets that exist
    limit,    \* limit[b]: capacity and refill that b was made with
    tokens,   \* tokens[b]: may be negative, see Take
    stamp,    \* stamp[b]: last_refill
    check,    \* check[t]: the progress of the check of t
    checks,   \* how many checks were begun
    passed,   \* auxiliary: passed[b]: takes that read the clock in From .. To
    raced     \* auxiliary: the buckets that changed during an unlocked refill

buckets == <<made, limit, tokens, stamp>>
vars == <<clock, buckets, check, checks, passed, raced>>

Over == {"idle", "admitted", "limited", "crashed"}

\* "late" and what follows is wait_seconds.
Unlocked == {"load", "store", "stamp"}
Stages == Over \cup {"find", "read", "take", "late", "elapse"} \cup Unlocked

\* key: the bucket at hand; limits: what config_for returned for both; level:
\* the tokens that the unlocked refill is about to store.
Check == [at : Stages, action : Actions, key : Buckets,
          own : Limits, global : Limits, now : Nat, ok : BOOLEAN,
          elapsed : Int, level : Int]

TypeOK ==
    /\ clock \in Nat
    /\ made \subseteq Buckets
    /\ limit \in [Buckets -> Limits]
    /\ tokens \in [Buckets -> Int]
    /\ \A b \in Buckets : tokens[b] <= limit[b].capacity
    /\ stamp \in [Buckets -> Nat]
    /\ check \in [Threads -> Check]
    /\ checks \in Nat
    /\ passed \in [Buckets -> Nat]
    /\ raced \subseteq Buckets

-----------------------------------------------------------------------------
SomeLimit == CHOOSE l \in Limits : TRUE

\* Only the verdict is left of a check that is over.
Finished(verdict) ==
    [at |-> verdict, action |-> CHOOSE a \in Actions : TRUE, key |-> Global,
     own |-> SomeLimit, global |-> SomeLimit, now |-> 0, ok |-> TRUE,
     elapsed |-> 0, level |-> 0]

AtMost(x, y) == IF x <= y THEN x ELSE y

\* Slip: the refill is not cut off at the capacity.
Uncapped(b, elapsed) == tokens[b] + elapsed * limit[b].refill

\* The tokens of b after a refill; elapsed is negative for a thread that read
\* the clock before another one that was faster to take.
Refilled(b, elapsed) ==
    AtMost(tokens[b] + elapsed * limit[b].refill, limit[b].capacity)

\* t changes b: an unlocked refill of another thread is disturbed.
Disturbs(t, b) ==
    raced' = IF \E u \in Threads \ {t} : check[u].key = b /\ check[u].at \in Unlocked
             THEN raced \cup {b} ELSE raced

-----------------------------------------------------------------------------
(* check                                                                   *)

\* config_for, with the limits that the friend's record has at this time.
Begin(t, a, own, global) ==
    /\ check[t].at \in Over
    /\ checks < MaxChecks
    /\ checks' = checks + 1
    /\ check' = [check EXCEPT ![t] = [Finished("find") EXCEPT
           !.action = a, !.key = a, !.own = own, !.global = global]]
    /\ UNCHANGED <<clock, buckets, passed, raced>>

\* _bucket: a new bucket is full; one that exists keeps its limits.
Find(t) ==
    /\ check[t].at = "find"
    /\ check' = [check EXCEPT ![t].at = "read"]
    /\ LET b == check[t].key
           l == IF b = Global THEN check[t].global ELSE check[t].own
       IN
       IF b \in made
       THEN UNCHANGED buckets
       ELSE /\ made' = made \cup {b}
            /\ limit' = [limit EXCEPT ![b] = l]
            /\ tokens' = [tokens EXCEPT ![b] = l.capacity]
            /\ stamp' = [stamp EXCEPT ![b] = clock]
    /\ UNCHANGED <<clock, checks, passed, raced>>

\* The clock is read before the lock is taken, or without any lock.
Read(t) ==
    /\ check[t].at \in {"read", "late"}
    /\ check' = [check EXCEPT ![t].at = IF @ = "read" THEN "take" ELSE "elapse",
                              ![t].now = clock]
    /\ UNCHANGED <<clock, buckets, checks, passed, raced>>

\* From the bucket of the action to the global one, and then to the verdict.
AfterTake(t, ok) ==
    LET c == check[t] IN
    check' = [check EXCEPT ![t] =
        IF c.key # Global THEN [c EXCEPT !.ok = ok, !.key = Global, !.at = "find"]
        ELSE IF ok THEN Finished("admitted")
        ELSE [c EXCEPT !.ok = ok, !.key = c.action, !.at = "late"]]

\* Slip: a take that succeeds does not move last_refill.
TakeUnstamped(t) ==
    /\ check[t].at = "take"
    /\ LET b == check[t].key
           level == Refilled(b, check[t].now - stamp[b])
           enough == level >= Token
       IN
       /\ tokens' = [tokens EXCEPT ![b] = IF enough THEN level - Token ELSE level]
       /\ stamp' = [stamp EXCEPT ![b] = IF enough THEN @ ELSE check[t].now]
       /\ passed' = IF enough /\ check[t].now \in From .. To
                    THEN [passed EXCEPT ![b] = @ + 1] ELSE passed
       /\ AfterTake(t, check[t].ok /\ enough)
       /\ Disturbs(t, b)
    /\ UNCHANGED <<clock, made, limit, checks>>

\* take: under _GLOBAL_LOCK.
Take(t) ==
    /\ check[t].at = "take"
    /\ LET b == check[t].key
           level == Refilled(b, check[t].now - stamp[b])
           enough == level >= Token
       IN
       /\ tokens' = [tokens EXCEPT ![b] = IF enough THEN level - Token ELSE level]
       /\ stamp' = [stamp EXCEPT ![b] = check[t].now]
       /\ passed' = IF enough /\ check[t].now \in From .. To
                    THEN [passed EXCEPT ![b] = @ + 1] ELSE passed
       /\ AfterTake(t, check[t].ok /\ enough)
       /\ Disturbs(t, b)
    /\ UNCHANGED <<clock, made, limit, checks>>

-----------------------------------------------------------------------------
(* wait_seconds: a refill without the lock, if the bucket refills at all.  *)

Elapse(t) ==
    /\ check[t].at = "elapse"
    /\ LET b == check[t].key IN
       check' = [check EXCEPT
           ![t].at = IF limit[b].refill > 0 THEN "load" ELSE "stamp",
           ![t].elapsed = check[t].now - stamp[b]]
    /\ UNCHANGED <<clock, buckets, checks, passed, raced>>

Load(t) ==
    /\ check[t].at = "load"
    /\ check' = [check EXCEPT ![t].at = "store",
                              ![t].level = Refilled(check[t].key, check[t].elapsed)]
    /\ UNCHANGED <<clock, buckets, checks, passed, raced>>

Store(t) ==
    /\ check[t].at = "store"
    /\ check' = [check EXCEPT ![t].at = "stamp"]
    /\ tokens' = [tokens EXCEPT ![check[t].key] = check[t].level]
    /\ Disturbs(t, check[t].key)
    /\ UNCHANGED <<clock, made, limit, stamp, checks, passed>>

\* The wait is infinite if one of the buckets never refills, and int() of that
\* raises OverflowError.
Refusal(t) ==
    IF 0 \in {limit[check[t].action].refill, limit[Global].refill}
    THEN "crashed" ELSE "limited"

Stamp(t) ==
    /\ check[t].at = "stamp"
    /\ stamp' = [stamp EXCEPT ![check[t].key] = check[t].now]
    /\ check' = [check EXCEPT ![t] =
           IF @.key # Global THEN [@ EXCEPT !.key = Global, !.at = "late"]
           ELSE Finished(Refusal(t))]
    /\ Disturbs(t, check[t].key)
    /\ UNCHANGED <<clock, made, limit, tokens, checks, passed>>

Tick ==
    /\ clock < MaxClock
    /\ clock' = clock + 1
    /\ UNCHANGED <<buckets, check, checks, passed, raced>>

-----------------------------------------------------------------------------
Init ==
    /\ clock = 0
    /\ made = {}
    /\ limit = [b \in Buckets |-> SomeLimit]
    /\ tokens = [b \in Buckets |-> 0]
    /\ stamp = [b \in Buckets |-> 0]
    /\ check = [t \in Threads |-> Finished("idle")]
    /\ checks = 0
    /\ passed = [b \in Buckets |-> 0]
    /\ raced = {}

Step(t) ==
    \/ \E a \in Actions, own, global \in Limits : Begin(t, a, own, global)
    \/ Find(t) \/ Read(t) \/ Take(t)
    \/ Elapse(t) \/ Load(t) \/ Store(t) \/ Stamp(t)

Next == (\E t \in Threads : Step(t)) \/ Tick

Spec == Init /\ [][Next]_vars

-----------------------------------------------------------------------------
(* Properties.                                                             *)

\* No more is taken from b with readings of the clock between From and To
\* than b holds and regains in that span.
WithinLimit(b) ==
    Token * passed[b] <= limit[b].capacity + limit[b].refill * (To - From)

\* The promise of a token bucket for every span of time, however the threads
\* of check interleave, readings of the clock that come late included, unless
\* an unlocked refill of wait_seconds was disturbed.
WithinLimitUnlessRaced == \A b \in Buckets : b \in raced \/ WithinLimit(b)

-----------------------------------------------------------------------------
(* What the documents say, and the code does not do.                       *)

\* openwiki/concepts/rate-limiting-and-audit.md: "when either is empty the
\* message is rejected with RateLimitedError", with a refill of 0 as well.
RefusedProperly == \A t \in Threads : check[t].at # "crashed"

=============================================================================
