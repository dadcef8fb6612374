-------------------------- MODULE RateLimiterProofs --------------------------
(***************************************************************************)
(* Theorems about RateLimiter, for any number of threads, actions and      *)
(* limits, and for every span of time: a bucket lets through no more than  *)
(* its capacity and its refill allow, unless an unlocked refill was        *)
(* disturbed.                                                              *)
(***************************************************************************)
EXTENDS RateLimiter, TLAPS

\* With b refilled up to time s: what is left, and what was taken in the span,
\* is paid for by what b held when the span began and what it regained.
Funds(b, s) ==
    \/ passed[b] = 0 /\ s < From
    \/ tokens[b] + Token * passed[b] + limit[b].refill * From
           <= limit[b].capacity + limit[b].refill * s

\* u has stored the refill of b and not yet its time.
Ahead(u, b) ==
    check[u].key = b /\ check[u].at = "stamp" /\ limit[b].refill > 0

\* The bucket at hand exists, and so does the one to return to.
CheckOK(t) ==
    /\ check[t].key # Global => check[t].key = check[t].action
    /\ check[t].at \notin Over \cup {"find"} => check[t].key \in made
    /\ check[t].at \notin Over /\ check[t].key = Global => check[t].action \in made
    /\ check[t].at \in {"late", "elapse"} \cup Unlocked => Global \in made

BucketOK(b) ==
    /\ b \notin made => passed[b] = 0
    /\ b \notin raced /\ b \in made =>
        /\ (\A u \in Threads : ~Ahead(u, b)) => Funds(b, stamp[b])
        /\ \A u \in Threads : Ahead(u, b) => Funds(b, check[u].now)
        /\ \A u \in Threads : check[u].key = b =>
            /\ check[u].at = "load" => check[u].elapsed = check[u].now - stamp[b]
            /\ check[u].at = "store" =>
                   check[u].level = Refilled(b, check[u].now - stamp[b])
    /\ b \notin raced => WithinLimit(b)

\* A bucket under an unlocked refill does refill, to its capacity at most.
LevelOK(t) ==
    /\ check[t].at \in {"load", "store"} => limit[check[t].key].refill > 0
    /\ check[t].at = "store" => check[t].level <= limit[check[t].key].capacity

IInv ==
    /\ TypeOK
    /\ \A t \in Threads : CheckOK(t) /\ LevelOK(t)
    /\ \A b \in Buckets : BucketOK(b)

-----------------------------------------------------------------------------
(* Arithmetic.                                                             *)

LEMMA MultMonotone ==
    ASSUME NEW r \in Nat, NEW x \in Int, NEW y \in Int, x <= y
    PROVE  r * x <= r * y
<1>1. y - x \in Nat
    OBVIOUS
<1>2. r * (y - x) >= 0
    BY <1>1
<1>3. r * (y - x) = r * y - r * x
    OBVIOUS
<1>q. QED
    BY <1>2, <1>3

\* A refill from time s to time n keeps the balance, also if n is before s.
LEMMA RefillBalance ==
    ASSUME NEW r \in Nat, NEW cap \in Nat, NEW tok \in Int, NEW paid \in Nat,
           NEW f \in Nat, NEW s \in Nat, NEW n \in Nat,
           tok + paid + r * f <= cap + r * s
    PROVE  AtMost(tok + (n - s) * r, cap) + paid + r * f <= cap + r * n
<1>1. (n - s) * r = r * n - r * s
    OBVIOUS
<1>2. r * n \in Int /\ r * s \in Int /\ r * f \in Int
    OBVIOUS
<1>3. AtMost(tok + (n - s) * r, cap) <= tok + (r * n - r * s)
    BY <1>1, <1>2 DEF AtMost
<1>4. AtMost(tok + (n - s) * r, cap) \in Int
    BY <1>1, <1>2 DEF AtMost
<1>5. tok + (r * n - r * s) + paid + r * f <= cap + r * n
    BY <1>2
<1>q. QED
    BY <1>2, <1>3, <1>4, <1>5
-----------------------------------------------------------------------------
(* What a step leaves alone.                                               *)

LEMMA Verdict ==
    ASSUME NEW v \in Stages
    PROVE  Finished(v) \in Check /\ Finished(v).key = Global /\ Finished(v).at = v
           /\ Finished(v).action \in Actions
<1>1. (CHOOSE a \in Actions : TRUE) \in Actions
    BY RateAssumption
<1>2. SomeLimit \in Limits
    BY RateAssumption DEF SomeLimit
<1>q. QED
    BY <1>1, <1>2 DEF Finished, Check, Buckets

\* A bucket that a step of t does not change, and that t does not refill.
LEMMA Untouched ==
    ASSUME IInv, NEW t \in Threads, NEW b \in Buckets,
           b \in made' <=> b \in made, b \in raced => b \in raced',
           limit'[b] = limit[b], tokens'[b] = tokens[b],
           stamp'[b] = stamp[b], passed'[b] = passed[b],
           \A u \in Threads \ {t} : check'[u] = check[u],
           ~Ahead(t, b), ~Ahead(t, b)',
           b \notin raced' /\ check'[t].key = b /\ check'[t].at = "load" =>
               check'[t].elapsed = check'[t].now - stamp[b],
           b \notin raced' /\ check'[t].key = b /\ check'[t].at = "store" =>
               check'[t].level = Refilled(b, check'[t].now - stamp[b])
    PROVE  BucketOK(b)'
<1>1. BucketOK(b)
    BY DEF IInv
<1>2. \A u \in Threads : Ahead(u, b)' <=> Ahead(u, b) /\ u # t
    BY DEF Ahead
<1>3. ASSUME b \notin raced', b \in made
      PROVE  /\ (\A u \in Threads : ~Ahead(u, b)') => Funds(b, stamp[b])
             /\ \A u \in Threads : Ahead(u, b)' => Funds(b, check'[u].now)
    BY <1>1, <1>2, <1>3 DEF BucketOK
<1>q. QED
    BY <1>1, <1>3 DEF BucketOK, Funds, WithinLimit, Refilled

\* A step of t that changes no bucket.
LEMMA Neutral ==
    ASSUME IInv, TypeOK', NEW t \in Threads,
           UNCHANGED <<buckets, passed, raced>>,
           \A u \in Threads \ {t} : check'[u] = check[u],
           CheckOK(t)', LevelOK(t)',
           check[t].at # "stamp",
           check'[t].at = "stamp" => limit[check'[t].key].refill = 0,
           check'[t].at = "load" =>
               check'[t].elapsed = check'[t].now - stamp[check'[t].key],
           check'[t].at = "store" /\ check'[t].key \notin raced =>
               check'[t].level = Refilled(check'[t].key, check'[t].now - stamp[check'[t].key])
    PROVE  IInv'
<1>1. ASSUME NEW b \in Buckets
      PROVE  BucketOK(b)'
    <2>1. ~Ahead(t, b)
        BY DEF Ahead
    <2>2. ~Ahead(t, b)'
        BY DEF Ahead, buckets
    <2>q. QED
        BY <2>1, <2>2, Untouched DEF buckets
<1>2. ASSUME NEW u \in Threads
      PROVE  CheckOK(u)' /\ LevelOK(u)'
    <2>1. CASE u = t
        BY <2>1
    <2>2. CASE u # t
        BY <2>2 DEF IInv, CheckOK, LevelOK, buckets
    <2>q. QED
        BY <2>1, <2>2
<1>q. QED
    BY <1>1, <1>2 DEF IInv

\* The other threads, while t changes a bucket and makes none.
LEMMA OthersOK ==
    ASSUME IInv, NEW t \in Threads, UNCHANGED <<made, limit>>,
           \A u \in Threads \ {t} : check'[u] = check[u]
    PROVE  \A u \in Threads \ {t} : CheckOK(u)' /\ LevelOK(u)'
    BY DEF IInv, CheckOK, LevelOK

-----------------------------------------------------------------------------
(* Steps that change no bucket.                                            *)

LEMMA BeginStep ==
    ASSUME IInv, NEW t \in Threads, NEW a \in Actions, NEW own \in Limits,
           NEW global \in Limits, Begin(t, a, own, global)
    PROVE  IInv'
<1> DEFINE new == [Finished("find") EXCEPT !.action = a, !.key = a, !.own = own,
                                           !.global = global]
<1>1. Finished("find") \in Check
    BY Verdict DEF Stages
<1>2. new \in Check /\ new.at = "find" /\ new.action = a /\ new.key = a
    BY <1>1, Zenon DEF Check, Buckets, Finished
<1>3. check' = [check EXCEPT ![t] = new]
    BY DEF Begin
<1>4. check'[t] = new /\ \A u \in Threads \ {t} : check'[u] = check[u]
    BY <1>3 DEF IInv, TypeOK
<1>5. TypeOK'
    BY <1>2, <1>3 DEF IInv, TypeOK, Begin, buckets
<1>6. CheckOK(t)' /\ LevelOK(t)'
    BY <1>2, <1>4, RateAssumption DEF CheckOK, LevelOK, Over, Unlocked
<1>7. check[t].at # "stamp"
    BY DEF Begin, Over
<1>q. QED
    BY <1>2, <1>4, <1>5, <1>6, <1>7, Neutral DEF Begin

\* Single fields of a check.
LEMMA CheckFields ==
    ASSUME NEW c \in Check
    PROVE  /\ \A x \in Stages : [c EXCEPT !.at = x] \in Check
           /\ \A x \in Stages, n \in Nat : [c EXCEPT !.at = x, !.now = n] \in Check
           /\ \A x \in Stages, n \in Int : [c EXCEPT !.at = x, !.elapsed = n] \in Check
           /\ \A x \in Stages, n \in Int : [c EXCEPT !.at = x, !.level = n] \in Check
           /\ \A x \in Stages, k \in Buckets : [c EXCEPT !.key = k, !.at = x] \in Check
    BY Zenon DEF Check

LEMMA ReadStep ==
    ASSUME IInv, NEW t \in Threads, Read(t)
    PROVE  IInv'
<1> DEFINE stage == IF check[t].at = "read" THEN "take" ELSE "elapse"
           new == [check[t] EXCEPT !.at = stage, !.now = clock]
<1>1. check[t] \in Check /\ clock \in Nat /\ stage \in Stages
    BY DEF IInv, TypeOK, Stages
<1>2. new \in Check
    BY <1>1, CheckFields
<1>3. check' = [check EXCEPT ![t] = new]
    BY <1>1 DEF Read, Check
<1>4. check'[t] = new /\ \A u \in Threads \ {t} : check'[u] = check[u]
    BY <1>3 DEF IInv, TypeOK
<1>5. TypeOK'
    BY <1>2, <1>3 DEF IInv, TypeOK, Read, buckets
<1>6. check'[t].at = stage /\ check'[t].key = check[t].key /\ check'[t].action = check[t].action
    BY <1>1, <1>4 DEF Check
<1>7. CheckOK(t)' /\ LevelOK(t)'
    BY <1>6 DEF IInv, CheckOK, LevelOK, Over, Unlocked, Read, buckets
<1>8. check[t].at # "stamp" /\ stage \notin {"load", "store", "stamp"}
    BY DEF Read
<1>q. QED
    BY <1>4, <1>5, <1>6, <1>7, <1>8, Neutral DEF Read

LEMMA ElapseStep ==
    ASSUME IInv, NEW t \in Threads, Elapse(t)
    PROVE  IInv'
<1> DEFINE b == check[t].key
           stage == IF limit[b].refill > 0 THEN "load" ELSE "stamp"
           new == [check[t] EXCEPT !.at = stage, !.elapsed = check[t].now - stamp[b]]
<1>1. /\ check[t] \in Check /\ b \in Buckets /\ stage \in Stages
      /\ limit[b].refill \in Nat /\ check[t].now - stamp[b] \in Int
    BY RateAssumption DEF IInv, TypeOK, Stages, Check, Unlocked
<1>2. new \in Check
    BY <1>1, CheckFields
<1>3. check' = [check EXCEPT ![t] = new]
    BY <1>1 DEF Elapse, Check
<1>4. check'[t] = new /\ \A u \in Threads \ {t} : check'[u] = check[u]
    BY <1>3 DEF IInv, TypeOK
<1>5. TypeOK'
    BY <1>2, <1>3 DEF IInv, TypeOK, Elapse, buckets
<1>6. /\ check'[t].at = stage /\ check'[t].key = b /\ check'[t].action = check[t].action
      /\ check'[t].now = check[t].now /\ check'[t].elapsed = check[t].now - stamp[b]
    BY <1>1, <1>4 DEF Check
<1>7. CheckOK(t)' /\ LevelOK(t)'
    BY <1>6 DEF IInv, CheckOK, LevelOK, Over, Unlocked, Elapse, buckets
<1>8. check[t].at # "stamp"
    BY DEF Elapse
<1>9. /\ check'[t].at = "stamp" => limit[check'[t].key].refill = 0
      /\ check'[t].at = "load" =>
             check'[t].elapsed = check'[t].now - stamp[check'[t].key]
      /\ check'[t].at # "store"
    BY <1>1, <1>6
<1>10. UNCHANGED <<buckets, passed, raced>>
    BY DEF Elapse
<1>q. QED
    BY <1>4, <1>5, <1>7, <1>8, <1>9, <1>10, Neutral

LEMMA RefilledType ==
    ASSUME TypeOK, NEW b \in Buckets, NEW e \in Int
    PROVE  Refilled(b, e) \in Int /\ Refilled(b, e) <= limit[b].capacity
<1>1. limit[b].capacity \in Nat /\ limit[b].refill \in Nat /\ tokens[b] \in Int
    BY RateAssumption DEF TypeOK
<1>2. tokens[b] + e * limit[b].refill \in Int
    BY <1>1
<1>q. QED
    BY <1>1, <1>2 DEF Refilled, AtMost

LEMMA LoadStep ==
    ASSUME IInv, NEW t \in Threads, Load(t)
    PROVE  IInv'
<1> DEFINE b == check[t].key
           new == [check[t] EXCEPT !.at = "store", !.level = Refilled(b, check[t].elapsed)]
<1>1. check[t] \in Check /\ b \in Buckets /\ check[t].elapsed \in Int /\ "store" \in Stages
    BY DEF IInv, TypeOK, Stages, Check, Unlocked
<1>2. Refilled(b, check[t].elapsed) \in Int /\ Refilled(b, check[t].elapsed) <= limit[b].capacity
    BY <1>1, RefilledType DEF IInv
<1>3. new \in Check
    BY <1>1, <1>2, CheckFields
<1>4. check' = [check EXCEPT ![t] = new]
    BY <1>1 DEF Load, Check
<1>5. check'[t] = new /\ \A u \in Threads \ {t} : check'[u] = check[u]
    BY <1>4 DEF IInv, TypeOK
<1>6. TypeOK'
    BY <1>3, <1>4 DEF IInv, TypeOK, Load, buckets
<1>7. /\ check'[t].at = "store" /\ check'[t].key = b /\ check'[t].action = check[t].action
      /\ check'[t].now = check[t].now /\ check'[t].level = Refilled(b, check[t].elapsed)
    BY <1>1, <1>5 DEF Check
<1>8. CheckOK(t)' /\ LevelOK(t)'
    BY <1>2, <1>7 DEF IInv, CheckOK, LevelOK, Over, Unlocked, Load, buckets
<1>9. b \notin raced => check[t].elapsed = check[t].now - stamp[b]
    BY <1>1 DEF IInv, BucketOK, CheckOK, Load, Over, Unlocked
<1>q. QED
    BY <1>5, <1>6, <1>7, <1>8, <1>9, Neutral DEF Load

LEMMA FindStep ==
    ASSUME IInv, NEW t \in Threads, Find(t)
    PROVE  IInv'
<1> DEFINE b == check[t].key
           l == IF b = Global THEN check[t].global ELSE check[t].own
           new == [check[t] EXCEPT !.at = "read"]
<1>1. /\ check[t] \in Check /\ b \in Buckets /\ l \in Limits /\ "read" \in Stages
      /\ l.capacity \in Nat /\ l.refill \in Nat /\ clock \in Nat
    BY RateAssumption DEF IInv, TypeOK, Stages, Check
<1>2. new \in Check
    BY <1>1, CheckFields
<1>3. check' = [check EXCEPT ![t] = new]
    BY <1>1 DEF Find, Check
<1>4. check'[t] = new /\ \A u \in Threads \ {t} : check'[u] = check[u]
    BY <1>3 DEF IInv, TypeOK
<1>5. /\ check'[t].at = "read" /\ check'[t].key = b /\ check'[t].action = check[t].action
      /\ check[t].at = "find"
    BY <1>1, <1>4 DEF Check, Find
<1>6. CASE b \in made
    <2>1. UNCHANGED <<buckets, passed, raced>>
        BY <1>6 DEF Find
    <2>2. TypeOK'
        BY <1>2, <1>3, <2>1 DEF IInv, TypeOK, Find, buckets
    <2>3. CheckOK(t)' /\ LevelOK(t)'
        BY <1>5, <1>6, <2>1 DEF IInv, CheckOK, LevelOK, Over, Unlocked, buckets
    <2>q. QED
        BY <1>4, <1>5, <2>1, <2>2, <2>3, Neutral
<1>7. CASE b \notin made
    <2>1. /\ made' = made \cup {b}
          /\ limit' = [limit EXCEPT ![b] = l]
          /\ tokens' = [tokens EXCEPT ![b] = l.capacity]
          /\ stamp' = [stamp EXCEPT ![b] = clock]
          /\ UNCHANGED <<clock, checks, passed, raced>>
        BY <1>7 DEF Find
    <2>2. TypeOK'
        <3>1. limit' \in [Buckets -> Limits] /\ stamp' \in [Buckets -> Nat]
              /\ tokens' \in [Buckets -> Int] /\ made' \subseteq Buckets
            BY <1>1, <2>1 DEF IInv, TypeOK
        <3>2. \A d \in Buckets : tokens'[d] <= limit'[d].capacity
            BY <1>1, <2>1 DEF IInv, TypeOK
        <3>q. QED
            BY <1>2, <1>3, <2>1, <3>1, <3>2 DEF IInv, TypeOK
    <2>3. \A u \in Threads : check[u].at \in {"store", "load", "stamp"} => check[u].key # b
        BY <1>7 DEF IInv, CheckOK, Over
    <2>4. ASSUME NEW u \in Threads
          PROVE  CheckOK(u)' /\ LevelOK(u)'
        <3>1. CASE u = t
            BY <1>5, <2>1, <3>1 DEF IInv, CheckOK, LevelOK, Over, Unlocked
        <3>2. CASE u # t
            <4>1. CheckOK(u)'
                BY <1>4, <2>1, <3>2 DEF IInv, CheckOK
            <4>2. ASSUME check[u].at \in {"load", "store"}
                  PROVE  limit'[check[u].key] = limit[check[u].key]
                BY <2>1, <2>3, <4>2 DEF IInv, TypeOK, Check
            <4>3. LevelOK(u)'
                BY <1>4, <3>2, <4>2 DEF IInv, LevelOK
            <4>q. QED
                BY <4>1, <4>3
        <3>q. QED
            BY <3>1, <3>2
    <2>5. ASSUME NEW d \in Buckets, d # b
          PROVE  BucketOK(d)'
        <3>1. /\ d \in made' <=> d \in made
              /\ limit'[d] = limit[d] /\ tokens'[d] = tokens[d] /\ stamp'[d] = stamp[d]
            BY <2>1, <2>5 DEF IInv, TypeOK
        <3>2. ~Ahead(t, d) /\ ~Ahead(t, d)'
            BY <1>5 DEF Ahead
        <3>q. QED
            BY <1>4, <1>5, <2>1, <3>1, <3>2, Untouched
    <2>6. ASSUME NEW d \in Buckets, d = b
          PROVE  BucketOK(d)'
        <3>1. /\ limit'[d] = l /\ tokens'[d] = l.capacity /\ stamp'[d] = clock
              /\ passed'[d] = 0
            BY <1>1, <1>7, <2>1, <2>6 DEF IInv, TypeOK, BucketOK
        <3>2. \A u \in Threads : check'[u].key = d => check'[u].at \notin {"store", "load", "stamp"}
            BY <1>4, <1>5, <2>3, <2>6
        <3>3. \A u \in Threads : ~Ahead(u, d)'
            BY <3>2 DEF Ahead
        <3>4. Funds(d, stamp[d])'
            <4>1. CASE clock < From
                BY <3>1, <4>1 DEF Funds
            <4>2. CASE From <= clock
                <5>1. l.refill * From <= l.refill * clock
                    BY <1>1, <4>2, MultMonotone, RateAssumption
                <5>2. Token * passed'[d] = 0
                    BY <3>1, RateAssumption
                <5>3. l.refill * From \in Int /\ l.refill * clock \in Int
                    BY <1>1, RateAssumption
                <5>q. QED
                    BY <1>1, <3>1, <5>1, <5>2, <5>3 DEF Funds
            <4>q. QED
                BY <1>1, <4>1, <4>2, RateAssumption
        <3>5. WithinLimit(d)'
            <4>1. l.refill * (To - From) >= 0
                BY <1>1, RateAssumption
            <4>2. Token * passed'[d] = 0
                BY <3>1, RateAssumption
            <4>3. limit'[d].capacity \in Nat /\ limit'[d].refill * (To - From) \in Int
                  /\ limit'[d].refill * (To - From) >= 0
                BY <1>1, <3>1, <4>1, RateAssumption
            <4>q. QED
                BY <4>2, <4>3 DEF WithinLimit
        <3>q. QED
            BY <2>1, <2>6, <3>1, <3>2, <3>3, <3>4, <3>5 DEF BucketOK
    <2>q. QED
        BY <2>2, <2>4, <2>5, <2>6 DEF IInv
<1>q. QED
    BY <1>6, <1>7

-----------------------------------------------------------------------------
(* Steps that change the bucket at hand.                                   *)

\* A thread that takes, stores or stamps, and no refill of another is under way.
LEMMA Alone ==
    ASSUME IInv, NEW t \in Threads, NEW b \in Buckets, Disturbs(t, b), b \notin raced'
    PROVE  /\ b \notin raced
           /\ \A u \in Threads \ {t} : ~(check[u].key = b /\ check[u].at \in Unlocked)
    BY DEF Disturbs

LEMMA NeverLess ==
    ASSUME NEW t \in Threads, NEW b \in Buckets, Disturbs(t, b)
    PROVE  /\ \A d : d \in raced => d \in raced'
           /\ raced \subseteq Buckets => raced' \subseteq Buckets
    BY DEF Disturbs

\* What is taken from the bucket is paid for.
LEMMA TakeBalance ==
    ASSUME NEW r \in Nat, NEW cap \in Nat, NEW level \in Int, NEW n \in Nat,
           NEW p \in Nat, n <= To, level >= Token,
           level + Token * p + r * From <= cap + r * n
    PROVE  Token * (p + 1) <= cap + r * (To - From)
<1>1. Token \in Nat /\ From \in Nat /\ To \in Nat
    BY RateAssumption
<1>2. r * n <= r * To
    BY <1>1, MultMonotone
<1>3. r * (To - From) = r * To - r * From
    BY <1>1
<1>4. Token * (p + 1) = Token * p + Token
    BY <1>1
<1>5. Token * p \in Int /\ r * From \in Int /\ r * n \in Int /\ r * To \in Int
    BY <1>1
<1>q. QED
    BY <1>1, <1>2, <1>3, <1>4, <1>5

\* The refill, from what the bucket held at s.
LEMMA RefillFunds ==
    ASSUME TypeOK, NEW b \in Buckets, NEW s \in Nat, NEW n \in Nat, Funds(b, s),
           NEW level, level = Refilled(b, n - s)
    PROVE  \/ passed[b] = 0 /\ n < From
           \/ level + Token * passed[b] + limit[b].refill * From
                  <= limit[b].capacity + limit[b].refill * n
<1>1. /\ limit[b].capacity \in Nat /\ limit[b].refill \in Nat /\ tokens[b] \in Int
      /\ passed[b] \in Nat /\ From \in Nat /\ Token \in Nat
    BY RateAssumption DEF TypeOK
<1>2. Token * passed[b] \in Nat
    BY <1>1
<1>3. CASE passed[b] = 0 /\ From <= n
    <2>1. level \in Int /\ level <= limit[b].capacity
        BY RefilledType
    <2>2. limit[b].refill * From <= limit[b].refill * n
        BY <1>1, <1>3, MultMonotone
    <2>3. Token * passed[b] = 0
        BY <1>1, <1>3
    <2>4. limit[b].refill * From \in Int /\ limit[b].refill * n \in Int
        BY <1>1
    <2>q. QED
        BY <1>1, <2>1, <2>2, <2>3, <2>4
<1>4. CASE passed[b] # 0
    <2>1. tokens[b] + Token * passed[b] + limit[b].refill * From
             <= limit[b].capacity + limit[b].refill * s
        BY <1>4 DEF Funds
    <2>q. QED
        BY <1>1, <1>2, <2>1, RefillBalance DEF Refilled
<1>q. QED
    BY <1>1, <1>3, <1>4

LEMMA CheckTaken ==
    ASSUME NEW c \in Check, NEW o \in BOOLEAN, NEW k \in Buckets, NEW x \in Stages
    PROVE  [c EXCEPT !.ok = o, !.key = k, !.at = x] \in Check
    BY Zenon DEF Check

\* Where AfterTake leads.
LEMMA TakeCheck ==
    ASSUME IInv, NEW t \in Threads, NEW ok \in BOOLEAN, check[t].at = "take",
           AfterTake(t, ok), UNCHANGED <<made, limit>>
    PROVE  /\ check' \in [Threads -> Check]
           /\ \A u \in Threads \ {t} : check'[u] = check[u]
           /\ check'[t].at \in {"find", "admitted", "late"}
           /\ CheckOK(t)' /\ LevelOK(t)'
<1> DEFINE c == check[t]
           new == IF c.key # Global THEN [c EXCEPT !.ok = ok, !.key = Global, !.at = "find"]
                  ELSE IF ok THEN Finished("admitted")
                  ELSE [c EXCEPT !.ok = ok, !.key = c.action, !.at = "late"]
<1>1. c \in Check /\ c.action \in Buckets /\ Global \in Buckets /\ c.action # Global
    BY RateAssumption DEF IInv, TypeOK, Check, Buckets
<1>2. "find" \in Stages /\ "admitted" \in Stages /\ "late" \in Stages
    BY DEF Stages, Over
<1>3. check' = [check EXCEPT ![t] = new]
    BY DEF AfterTake
<1>4. check'[t] = new /\ \A u \in Threads \ {t} : check'[u] = check[u]
    BY <1>3 DEF IInv, TypeOK
<1>5. /\ c.key # Global => c.key = c.action /\ c.action \in made
      /\ c.key = Global => c.action \in made /\ Global \in made
    BY DEF IInv, CheckOK, Over
<1>6. CASE c.key # Global
    <2>1. new = [c EXCEPT !.ok = ok, !.key = Global, !.at = "find"]
        BY <1>6
    <2>2. [c EXCEPT !.ok = ok, !.key = Global, !.at = "find"] \in Check
        BY <1>1, <1>2, CheckTaken, Zenon
    <2>3. new.at = "find" /\ new.key = Global /\ new.action = c.action
        BY <1>1, <2>1 DEF Check
    <2>q. QED
        BY <1>3, <1>4, <1>5, <1>6, <2>1, <2>2, <2>3
        DEF IInv, TypeOK, CheckOK, LevelOK, Over, Unlocked
<1>7. CASE c.key = Global /\ ok
    <2>1. new = Finished("admitted")
        BY <1>7
    <2>2. new \in Check /\ new.at = "admitted" /\ new.key = Global
        BY <1>2, <2>1, Verdict
    <2>q. QED
        BY <1>3, <1>4, <2>2 DEF IInv, TypeOK, CheckOK, LevelOK, Over, Unlocked
<1>8. CASE c.key = Global /\ ~ok
    <2>1. new = [c EXCEPT !.ok = ok, !.key = c.action, !.at = "late"]
        BY <1>8
    <2>2. [c EXCEPT !.ok = ok, !.key = c.action, !.at = "late"] \in Check
        BY <1>1, <1>2, CheckTaken, Zenon
    <2>3. new.at = "late" /\ new.key = c.action /\ new.action = c.action
        BY <1>1, <2>1 DEF Check
    <2>q. QED
        BY <1>1, <1>3, <1>4, <1>5, <1>8, <2>1, <2>2, <2>3
        DEF IInv, TypeOK, CheckOK, LevelOK, Over, Unlocked
<1>q. QED
    BY <1>6, <1>7, <1>8

LEMMA TakeStep ==
    ASSUME IInv, NEW t \in Threads, Take(t)
    PROVE  IInv'
<1> DEFINE b == check[t].key
           n == check[t].now
           level == Refilled(b, n - stamp[b])
           enough == level >= Token
<1>1. /\ check[t].at = "take" /\ b \in Buckets /\ n \in Nat /\ check[t].ok \in BOOLEAN
      /\ stamp[b] \in Nat /\ n - stamp[b] \in Int
    BY DEF Take, IInv, TypeOK, Check
<1>2. level \in Int /\ level <= limit[b].capacity
    BY <1>1, RefilledType DEF IInv
<1>3. /\ tokens' = [tokens EXCEPT ![b] = IF enough THEN level - Token ELSE level]
      /\ stamp' = [stamp EXCEPT ![b] = n]
      /\ passed' = IF enough /\ n \in From .. To
                   THEN [passed EXCEPT ![b] = @ + 1] ELSE passed
      /\ AfterTake(t, check[t].ok /\ enough)
      /\ Disturbs(t, b)
      /\ UNCHANGED <<clock, made, limit, checks>>
    BY DEF Take
<1>4. /\ check' \in [Threads -> Check]
      /\ \A u \in Threads \ {t} : check'[u] = check[u]
      /\ check'[t].at \in {"find", "admitted", "late"}
      /\ CheckOK(t)' /\ LevelOK(t)'
    <2>1. (check[t].ok /\ enough) \in BOOLEAN
        BY <1>1
    <2>q. QED
        BY <1>1, <1>3, <2>1, TakeCheck
<1>5. b \in made
    BY <1>1 DEF IInv, CheckOK, Over
<1>6. Token \in Nat /\ Token > 0 /\ limit[b].capacity \in Nat /\ limit[b].refill \in Nat
      /\ passed[b] \in Nat
    BY <1>1, RateAssumption DEF IInv, TypeOK
<1>7. TypeOK'
    <2>1. tokens' \in [Buckets -> Int] /\ stamp' \in [Buckets -> Nat]
        BY <1>1, <1>2, <1>3, <1>6 DEF IInv, TypeOK
    <2>2. \A d \in Buckets : tokens'[d] <= limit'[d].capacity
        BY <1>1, <1>2, <1>3, <1>6 DEF IInv, TypeOK
    <2>3. passed' \in [Buckets -> Nat]
        BY <1>1, <1>3 DEF IInv, TypeOK
    <2>4. raced' \subseteq Buckets
        BY <1>1, <1>3, NeverLess DEF IInv, TypeOK
    <2>q. QED
        BY <1>3, <1>4, <2>1, <2>2, <2>3, <2>4 DEF IInv, TypeOK
<1>8. \A u \in Threads : CheckOK(u)' /\ LevelOK(u)'
    BY <1>3, <1>4, OthersOK
<1>9. ASSUME NEW d \in Buckets, d # b
      PROVE  BucketOK(d)'
    <2>1. /\ tokens'[d] = tokens[d] /\ stamp'[d] = stamp[d] /\ passed'[d] = passed[d]
          /\ d \in raced => d \in raced'
        BY <1>1, <1>3, <1>9, NeverLess DEF IInv, TypeOK
    <2>2. ~Ahead(t, d) /\ ~Ahead(t, d)'
        BY <1>1, <1>4 DEF Ahead
    <2>q. QED
        BY <1>3, <1>4, <2>1, <2>2, Untouched
<1>10. ASSUME NEW d \in Buckets, d = b
       PROVE  BucketOK(d)'
    <2>1. /\ tokens'[d] = (IF enough THEN level - Token ELSE level)
          /\ stamp'[d] = n
          /\ passed'[d] = (IF enough /\ n \in From .. To THEN passed[d] + 1 ELSE passed[d])
          /\ limit'[d] = limit[d] /\ d \in made'
        BY <1>1, <1>3, <1>5, <1>10 DEF IInv, TypeOK
    <2>2. CASE d \in raced'
        BY <2>1, <2>2 DEF BucketOK
    <2>3. CASE d \notin raced'
        <3>1. /\ d \notin raced
              /\ \A u \in Threads : ~(check[u].key = d /\ check[u].at \in Unlocked)
            BY <1>1, <1>3, <1>10, <2>3, Alone DEF Unlocked
        <3>2. \A u \in Threads : ~(check'[u].key = d /\ check'[u].at \in Unlocked)
            BY <1>4, <3>1 DEF Unlocked
        <3>3. \A u \in Threads : ~Ahead(u, d) /\ ~Ahead(u, d)'
            BY <3>1, <3>2 DEF Ahead, Unlocked
        <3>4. Funds(d, stamp[d])
            BY <1>5, <1>10, <3>1, <3>3 DEF IInv, BucketOK
        <3>5. \/ passed[d] = 0 /\ n < From
              \/ level + Token * passed[d] + limit[d].refill * From
                     <= limit[d].capacity + limit[d].refill * n
            BY <1>1, <1>10, <3>4, RefillFunds DEF IInv
        <3>6. Token * (passed[d] + 1) = Token * passed[d] + Token
              /\ Token * passed[d] \in Int
            BY <1>6, <1>10
        <3>7. limit[d].refill * From \in Int /\ limit[d].refill * n \in Int
              /\ From \in Nat /\ To \in Nat
            BY <1>1, <1>6, <1>10, RateAssumption
        <3>8. Funds(d, stamp[d])'
            <4>1. CASE passed[d] = 0 /\ n < From
                BY <1>1, <2>1, <3>7, <4>1 DEF Funds
            <4>2. CASE level + Token * passed[d] + limit[d].refill * From
                           <= limit[d].capacity + limit[d].refill * n
                <5>1. tokens'[d] + Token * passed'[d] <= level + Token * passed[d]
                    BY <1>2, <1>6, <1>10, <2>1, <3>6
                <5>2. tokens'[d] \in Int /\ Token * passed'[d] \in Int
                    BY <1>2, <1>6, <1>10, <2>1, <3>6
                <5>q. QED
                    BY <1>2, <1>6, <1>10, <2>1, <3>6, <3>7, <4>2, <5>1, <5>2 DEF Funds
            <4>q. QED
                BY <3>5, <4>1, <4>2
        <3>9. WithinLimit(d)'
            <4>1. CASE enough /\ n \in From .. To
                <5>1. level + Token * passed[d] + limit[d].refill * From
                          <= limit[d].capacity + limit[d].refill * n
                    BY <1>1, <3>5, <3>7, <4>1
                <5>2. /\ limit[d].refill \in Nat /\ limit[d].capacity \in Nat
                      /\ passed[d] \in Nat /\ n <= To /\ level >= Token
                    BY <1>1, <1>6, <1>10, <3>7, <4>1
                <5>3. Token * (passed[d] + 1)
                          <= limit[d].capacity + limit[d].refill * (To - From)
                    BY <1>1, <1>2, <5>1, <5>2, TakeBalance
                <5>q. QED
                    BY <2>1, <4>1, <5>3 DEF WithinLimit
            <4>2. CASE ~(enough /\ n \in From .. To)
                BY <2>1, <3>1, <4>2 DEF IInv, BucketOK, WithinLimit
            <4>q. QED
                BY <4>1, <4>2
        <3>q. QED
            BY <2>1, <3>2, <3>3, <3>8, <3>9 DEF BucketOK, Unlocked
    <2>q. QED
        BY <2>2, <2>3
<1>q. QED
    BY <1>7, <1>8, <1>9, <1>10 DEF IInv

LEMMA StoreStep ==
    ASSUME IInv, NEW t \in Threads, Store(t)
    PROVE  IInv'
<1> DEFINE b == check[t].key
           n == check[t].now
           new == [check[t] EXCEPT !.at = "stamp"]
<1>1. /\ check[t].at = "store" /\ check[t] \in Check /\ b \in Buckets /\ n \in Nat
      /\ check[t].level \in Int /\ "stamp" \in Stages
    BY DEF Store, IInv, TypeOK, Check, Stages, Unlocked
<1>2. check[t].level <= limit[b].capacity
    BY <1>1 DEF IInv, LevelOK
<1>3. /\ check' = [check EXCEPT ![t] = new]
      /\ tokens' = [tokens EXCEPT ![b] = check[t].level]
      /\ Disturbs(t, b)
      /\ UNCHANGED <<clock, made, limit, stamp, checks, passed>>
    BY <1>1 DEF Store, Check
<1>4. new \in Check
    BY <1>1, CheckFields
<1>5. check'[t] = new /\ \A u \in Threads \ {t} : check'[u] = check[u]
    BY <1>3 DEF IInv, TypeOK
<1>6. check'[t].at = "stamp" /\ check'[t].key = b /\ check'[t].now = n
      /\ check'[t].action = check[t].action
    BY <1>1, <1>5 DEF Check
<1>7. b \in made
    BY <1>1 DEF IInv, CheckOK, Over
<1>8. TypeOK'
    <2>1. tokens' \in [Buckets -> Int]
        BY <1>1, <1>3 DEF IInv, TypeOK
    <2>2. \A d \in Buckets : tokens'[d] <= limit'[d].capacity
        BY <1>1, <1>2, <1>3 DEF IInv, TypeOK
    <2>3. raced' \subseteq Buckets
        BY <1>1, <1>3, NeverLess DEF IInv, TypeOK
    <2>q. QED
        BY <1>3, <1>4, <2>1, <2>2, <2>3 DEF IInv, TypeOK
<1>9. \A u \in Threads : CheckOK(u)' /\ LevelOK(u)'
    <2>1. CheckOK(t)' /\ LevelOK(t)'
        BY <1>1, <1>3, <1>6 DEF IInv, CheckOK, LevelOK, Over, Unlocked
    <2>q. QED
        BY <1>3, <1>5, <2>1, OthersOK
<1>10. ASSUME NEW d \in Buckets, d # b
       PROVE  BucketOK(d)'
    <2>1. tokens'[d] = tokens[d] /\ (d \in raced => d \in raced')
        BY <1>1, <1>3, <1>10, NeverLess DEF IInv, TypeOK
    <2>2. ~Ahead(t, d) /\ ~Ahead(t, d)'
        BY <1>6, <1>10 DEF Ahead
    <2>q. QED
        BY <1>3, <1>5, <1>6, <2>1, <2>2, Untouched
<1>11. ASSUME NEW d \in Buckets, d = b
       PROVE  BucketOK(d)'
    <2>1. /\ tokens'[d] = check[t].level /\ stamp'[d] = stamp[d] /\ passed'[d] = passed[d]
          /\ limit'[d] = limit[d] /\ d \in made' /\ d \in made
          /\ stamp[d] \in Nat /\ passed[d] \in Nat
        BY <1>1, <1>3, <1>7, <1>11 DEF IInv, TypeOK
    <2>2. CASE d \in raced'
        BY <2>1, <2>2 DEF BucketOK
    <2>3. CASE d \notin raced'
        <3>1. /\ d \notin raced
              /\ \A u \in Threads \ {t} : ~(check[u].key = d /\ check[u].at \in Unlocked)
            BY <1>3, <1>11, <2>3, Alone
        <3>2. \A u \in Threads : ~Ahead(u, d)
            BY <1>1, <3>1 DEF Ahead, Unlocked
        <3>3. Funds(d, stamp[d]) /\ check[t].level = Refilled(d, n - stamp[d])
            BY <1>1, <1>7, <1>11, <3>1, <3>2 DEF IInv, BucketOK
        <3>4. \/ passed[d] = 0 /\ n < From
              \/ check[t].level + Token * passed[d] + limit[d].refill * From
                     <= limit[d].capacity + limit[d].refill * n
            BY <1>1, <2>1, <3>3, RefillFunds DEF IInv
        <3>5. ASSUME NEW u \in Threads, check'[u].key = d, check'[u].at \in Unlocked
              PROVE  u = t
            BY <1>5, <3>1, <3>5
        <3>6. \A u \in Threads : Ahead(u, d)' => Funds(d, check[u].now)'
            <4>1. ASSUME NEW u \in Threads, Ahead(u, d)'
                  PROVE  u = t
                BY <3>5, <4>1 DEF Ahead, Unlocked
            <4>2. Funds(d, check[t].now)'
                BY <1>6, <2>1, <3>4 DEF Funds
            <4>q. QED
                BY <4>1, <4>2
        <3>7. (\A u \in Threads : ~Ahead(u, d)') => Funds(d, stamp[d])'
            <4>1. limit[d].refill > 0
                BY <1>1, <1>11 DEF IInv, LevelOK
            <4>q. QED
                BY <1>6, <1>11, <2>1, <4>1 DEF Ahead
        <3>8. WithinLimit(d)'
            BY <2>1, <3>1 DEF IInv, BucketOK, WithinLimit
        <3>9. \A u \in Threads : check'[u].key = d => check'[u].at \notin {"load", "store"}
            BY <1>6, <3>5 DEF Unlocked
        <3>q. QED
            BY <2>1, <3>6, <3>7, <3>8, <3>9 DEF BucketOK
    <2>q. QED
        BY <2>2, <2>3
<1>q. QED
    BY <1>8, <1>9, <1>10, <1>11 DEF IInv

LEMMA StampStep ==
    ASSUME IInv, NEW t \in Threads, Stamp(t)
    PROVE  IInv'
<1> DEFINE b == check[t].key
           n == check[t].now
           new == IF b # Global THEN [check[t] EXCEPT !.key = Global, !.at = "late"]
                  ELSE Finished(Refusal(t))
<1>1. /\ check[t].at = "stamp" /\ check[t] \in Check /\ b \in Buckets /\ n \in Nat
      /\ Global \in Buckets /\ "late" \in Stages
    BY DEF Stamp, IInv, TypeOK, Check, Stages, Buckets
<1>2. /\ check' = [check EXCEPT ![t] = new]
      /\ stamp' = [stamp EXCEPT ![b] = n]
      /\ Disturbs(t, b)
      /\ UNCHANGED <<clock, made, limit, tokens, checks, passed>>
    BY DEF Stamp
<1>3. check'[t] = new /\ \A u \in Threads \ {t} : check'[u] = check[u]
    BY <1>2 DEF IInv, TypeOK
<1>4. b \in made /\ Global \in made /\ (b # Global => b = check[t].action)
    BY <1>1 DEF IInv, CheckOK, Over, Unlocked
<1>5. new \in Check /\ new.key = Global
      /\ (b # Global => new.at = "late" /\ new.action = check[t].action)
      /\ (b = Global => new.at \in {"crashed", "limited"})
    <2>1. CASE b # Global
        <3>1. [check[t] EXCEPT !.key = Global, !.at = "late"] \in Check
            BY <1>1, CheckFields
        <3>2. new = [check[t] EXCEPT !.key = Global, !.at = "late"]
            BY <2>1
        <3>3. new.key = Global /\ new.at = "late" /\ new.action = check[t].action
            BY <1>1, <3>2 DEF Check
        <3>q. QED
            BY <2>1, <3>1, <3>2, <3>3
    <2>2. CASE b = Global
        <3>1. Refusal(t) \in {"crashed", "limited"}
            BY DEF Refusal
        <3>2. Refusal(t) \in Stages
            BY <3>1 DEF Stages, Over
        <3>q. QED
            BY <2>2, <3>1, <3>2, Verdict
    <2>q. QED
        BY <2>1, <2>2
<1>6. check'[t].at \in {"late", "crashed", "limited"}
    BY <1>3, <1>5
<1>7. TypeOK'
    <2>1. stamp' \in [Buckets -> Nat]
        BY <1>1, <1>2 DEF IInv, TypeOK
    <2>2. raced' \subseteq Buckets
        BY <1>1, <1>2, NeverLess DEF IInv, TypeOK
    <2>q. QED
        BY <1>2, <1>5, <2>1, <2>2 DEF IInv, TypeOK
<1>8. \A u \in Threads : CheckOK(u)' /\ LevelOK(u)'
    <2>1. CheckOK(t)' /\ LevelOK(t)'
        <3>1. check'[t].key = Global /\ made' = made
            BY <1>2, <1>3, <1>5
        <3>2. check'[t].at = "late" => check'[t].action \in made
            BY <1>3, <1>4, <1>5
        <3>q. QED
            BY <1>4, <1>6, <3>1, <3>2 DEF CheckOK, LevelOK, Over, Unlocked
    <2>q. QED
        BY <1>2, <1>3, <2>1, OthersOK
<1>9. ASSUME NEW d \in Buckets, d # b
      PROVE  BucketOK(d)'
    <2>1. stamp'[d] = stamp[d] /\ (d \in raced => d \in raced')
        BY <1>1, <1>2, <1>9, NeverLess DEF IInv, TypeOK
    <2>2. ~Ahead(t, d) /\ ~Ahead(t, d)'
        BY <1>6, <1>9 DEF Ahead
    <2>q. QED
        BY <1>2, <1>3, <1>6, <2>1, <2>2, Untouched
<1>10. ASSUME NEW d \in Buckets, d = b
       PROVE  BucketOK(d)'
    <2>1. /\ stamp'[d] = n /\ d \in made /\ stamp[d] \in Nat /\ passed[d] \in Nat
          /\ limit[d].refill \in Nat /\ limit[d].capacity \in Nat
          /\ tokens[d] \in Int /\ tokens[d] <= limit[d].capacity
        BY <1>1, <1>2, <1>4, <1>10, RateAssumption DEF IInv, TypeOK
    <2>2. CASE d \in raced'
        BY <1>2, <2>1, <2>2 DEF BucketOK
    <2>3. CASE d \notin raced'
        <3>1. /\ d \notin raced
              /\ \A u \in Threads \ {t} : ~(check[u].key = d /\ check[u].at \in Unlocked)
            BY <1>2, <1>10, <2>3, Alone
        <3>2. \A u \in Threads : ~(check'[u].key = d /\ check'[u].at \in Unlocked)
            BY <1>3, <1>6, <3>1 DEF Unlocked
        <3>3. Funds(d, n)
            <4>1. CASE limit[d].refill > 0
                <5>1. Ahead(t, d)
                    BY <1>1, <1>10, <4>1 DEF Ahead
                <5>q. QED
                    BY <2>1, <3>1, <5>1 DEF IInv, BucketOK
            <4>2. CASE limit[d].refill = 0
                <5>1. \A u \in Threads : ~Ahead(u, d)
                    BY <4>2 DEF Ahead
                <5>2. Funds(d, stamp[d])
                    BY <2>1, <3>1, <5>1 DEF IInv, BucketOK
                <5>3. \A s \in Nat : limit[d].refill * s = 0
                    BY <4>2
                <5>4. Token * passed[d] \in Int /\ (passed[d] = 0 => Token * passed[d] = 0)
                    BY <2>1, RateAssumption
                <5>5. /\ limit[d].refill * From = 0 /\ limit[d].refill * n = 0
                      /\ limit[d].refill * stamp[d] = 0
                    BY <1>1, <2>1, <5>3, RateAssumption
                <5>6. CASE passed[d] = 0
                    BY <2>1, <5>4, <5>5, <5>6 DEF Funds
                <5>7. CASE passed[d] # 0
                    BY <2>1, <5>2, <5>4, <5>5, <5>7 DEF Funds
                <5>q. QED
                    BY <5>6, <5>7
            <4>q. QED
                BY <2>1, <4>1, <4>2
        <3>4. Funds(d, stamp[d])'
            BY <1>2, <2>1, <3>3 DEF Funds
        <3>5. WithinLimit(d)'
            BY <1>2, <3>1 DEF IInv, BucketOK, WithinLimit
        <3>q. QED
            BY <1>2, <2>1, <3>2, <3>4, <3>5 DEF BucketOK, Ahead, Unlocked
    <2>q. QED
        BY <2>2, <2>3
<1>q. QED
    BY <1>7, <1>8, <1>9, <1>10 DEF IInv

-----------------------------------------------------------------------------
(* The theorems.                                                           *)

LEMMA Start ==
    Init => IInv
<1> SUFFICES ASSUME Init PROVE IInv
    OBVIOUS
<1>1. Finished("idle") \in Check /\ Finished("idle").key = Global
      /\ Finished("idle").at = "idle"
    BY Verdict DEF Stages, Over
<1>2. SomeLimit \in Limits
    BY RateAssumption DEF SomeLimit
<1>3. \A b \in Buckets : limit[b] \in Limits /\ limit[b].capacity \in Nat
                         /\ limit[b].refill \in Nat /\ passed[b] = 0 /\ tokens[b] = 0
    BY <1>2, RateAssumption DEF Init
<1>4. TypeOK
    <2>1. /\ clock = 0 /\ checks = 0 /\ made = {} /\ raced = {}
          /\ limit \in [Buckets -> Limits] /\ tokens \in [Buckets -> Int]
          /\ stamp \in [Buckets -> Nat] /\ passed \in [Buckets -> Nat]
        BY <1>2 DEF Init
    <2>2. check \in [Threads -> Check]
        BY <1>1 DEF Init
    <2>3. \A b \in Buckets : tokens[b] <= limit[b].capacity
        BY <1>3
    <2>q. QED
        BY <2>1, <2>2, <2>3 DEF TypeOK
<1>5. \A t \in Threads : CheckOK(t) /\ LevelOK(t)
    BY <1>1 DEF Init, CheckOK, LevelOK, Over, Unlocked
<1>6. ASSUME NEW b \in Buckets
      PROVE  BucketOK(b)
    <2>1. Token * passed[b] = 0
        BY <1>3, RateAssumption
    <2>2. limit[b].refill * (To - From) >= 0 /\ limit[b].refill * (To - From) \in Int
        <3>1. To - From \in Nat
            BY RateAssumption
        <3>q. QED
            BY <1>3, <3>1
    <2>3. WithinLimit(b)
        BY <1>3, <2>1, <2>2 DEF WithinLimit
    <2>q. QED
        BY <1>3, <2>3 DEF Init, BucketOK
<1>q. QED
    BY <1>4, <1>5, <1>6 DEF IInv

\* The inductive invariant of the rate limiter.
THEOREM Invariance == Spec => []IInv
<1>1. ASSUME IInv, [Next]_vars
      PROVE  IInv'
    <2>1. ASSUME NEW t \in Threads, Step(t)
          PROVE  IInv'
        BY <1>1, <2>1, BeginStep, FindStep, ReadStep, TakeStep, ElapseStep, LoadStep,
           StoreStep, StampStep DEF Step
    <2>2. CASE Tick \/ UNCHANGED vars
        <3>1. UNCHANGED <<buckets, check, checks, passed, raced>> /\ clock' \in Nat
            BY <1>1, <2>2 DEF Tick, vars, IInv, TypeOK
        <3>2. TypeOK'
            BY <1>1, <3>1 DEF IInv, TypeOK, buckets
        <3>3. \A t \in Threads : CheckOK(t)' /\ LevelOK(t)'
            BY <1>1, <3>1 DEF IInv, CheckOK, LevelOK, buckets
        <3>4. ASSUME NEW b \in Buckets
              PROVE  BucketOK(b)'
            <4>1. BucketOK(b)
                BY <1>1 DEF IInv
            <4>q. QED
                BY <3>1, <4>1
                DEF BucketOK, Funds, Ahead, Refilled, WithinLimit, buckets
        <3>q. QED
            BY <3>2, <3>3, <3>4 DEF IInv
    <2>q. QED
        BY <1>1, <2>1, <2>2 DEF Next
<1>q. QED
    BY <1>1, Start, PTL DEF Spec

\* The limiter's state keeps its shape, and no bucket ever holds more than its
\* capacity, not even after a disturbed refill.
THEOREM TypeCorrect == Spec => []TypeOK
<1>1. IInv => TypeOK
    BY DEF IInv
<1>q. QED
    BY <1>1, Invariance, PTL

\* In any span of time a bucket lets through no more than its capacity and its
\* refill allow (RateLimiter.check), for any threads, actions and limits, and
\* with readings of the clock that are late; unless wait_seconds was disturbed.
THEOREM LimitHolds == Spec => []WithinLimitUnlessRaced
<1>1. IInv => WithinLimitUnlessRaced
    BY DEF IInv, BucketOK, WithinLimitUnlessRaced
<1>q. QED
    BY <1>1, Invariance, PTL

\* A server that handles one message at a time is never disturbed, so that the
\* bound holds for every bucket.
THEOREM SoleThread ==
    ASSUME \A t, u \in Threads : t = u
    PROVE  Spec => [](\A b \in Buckets : WithinLimit(b))
<1> DEFINE Quiet == raced = {}
<1> DEFINE AllWithin == \A b \in Buckets : WithinLimit(b)
<1>1. Init => Quiet
    BY DEF Init
<1>2. Quiet /\ [Next]_vars => Quiet'
    <2> SUFFICES ASSUME Quiet, [Next]_vars
                 PROVE  Quiet'
        OBVIOUS
    <2>1. ASSUME NEW t \in Threads, Step(t)
          PROVE  Quiet'
        <3>1. \A u \in Threads \ {t} : FALSE
            OBVIOUS
        <3>q. QED
            BY <2>1, <3>1
            DEF Step, Begin, Find, Read, Take, Elapse, Load, Store, Stamp, Disturbs
    <2>2. CASE Tick \/ UNCHANGED vars
        BY <2>2 DEF Tick, vars
    <2>q. QED
        BY <2>1, <2>2 DEF Next
<1>3. Quiet /\ WithinLimitUnlessRaced => AllWithin
    BY DEF WithinLimitUnlessRaced
<1> HIDE DEF Quiet, AllWithin
<1>4. Spec => []AllWithin
    BY <1>1, <1>2, <1>3, LimitHolds, PTL DEF Spec
<1>q. QED
    BY <1>4 DEF AllWithin

=============================================================================
