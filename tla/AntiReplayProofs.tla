--------------------------- MODULE AntiReplayProofs ---------------------------
(***************************************************************************)
(* Theorems about AntiReplay, for every set of messages and of handler     *)
(* threads and for every window, TTL, cap and clock resolution that        *)
(* satisfy the assumptions of the module: above all that the TTL exceeds   *)
(* twice the skew by the truncation of the clock and the time a thread may *)
(* take between its two checks (MarginAssumption).                         *)
(*                                                                         *)
(* AtMostOnce is not inductive.  A message that was handled and is not in  *)
(* the cache any more could pass again, unless its window is closed        *)
(* (Spent); a copy that is on its way to the cache passed the window at    *)
(* most Patience ticks ago (InFlight); and a key in the cache carries a    *)
(* time no earlier than the window of its message (Marked), so that the    *)
(* prune removes it only after the window closed.                          *)
(***************************************************************************)
EXTENDS AntiReplay, TLAPS

\* A key was marked no earlier than its message's window opened.
Marked == \A m \in seen : markedAt[m] >= stamp[m] - Skew

\* A copy under way passed the window, not longer ago than Patience.
InFlight ==
    \A w \in Workers : worker[w].at # "idle" =>
        /\ worker[w].msg \in Messages
        /\ InWindow(worker[w].msg, worker[w].checked)
        /\ worker[w].checked <= now
        /\ now <= worker[w].checked + Patience
        /\ worker[w].at = "marking" =>
               worker[w].checked <= worker[w].read /\ worker[w].read <= now

\* A message that was handled and whose key is gone is outdated for good.
Spent ==
    \A m \in Messages :
        handled[m] >= 1 /\ m \notin seen => now > stamp[m] - Skew + TTL

IInv == TypeOK /\ Marked /\ InFlight /\ Spent /\ AtMostOnce

-----------------------------------------------------------------------------
(* The clock.                                                              *)

\* int(time.time()) loses less than a second.
LEMMA TruncatedBounds ==
    ASSUME NEW t \in Nat
    PROVE  /\ Truncated(t) \in Int
           /\ Truncated(t) <= t
           /\ t < Truncated(t) + Second
PROOF
<1>1. Second \in Nat /\ Second > 0
  BY TickAssumption
<1>2. /\ t \div Second \in Int /\ t % Second \in Int
      /\ t = Second * (t \div Second) + (t % Second)
      /\ 0 <= t % Second /\ t % Second < Second
  BY <1>1
<1> DEFINE q == t \div Second
<1>3. Second * q = q * Second /\ q * Second \in Int
  BY <1>1, <1>2
<1> QED
  BY <1>1, <1>2, <1>3 DEF Truncated

\* What passes the window is not far from its timestamp.
LEMMA WindowBounds ==
    ASSUME NEW t \in Nat, NEW m \in Messages, stamp[m] \in Int, InWindow(m, t)
    PROVE  /\ stamp[m] - Skew <= t
           /\ t < stamp[m] + Skew + Second
PROOF
<1>1. Second \in Nat /\ Skew \in Nat
  BY TickAssumption
<1> DEFINE r == Truncated(t)
<1>2. r \in Int /\ r <= t /\ t < r + Second
  BY TruncatedBounds
<1>3. r - stamp[m] <= Skew /\ stamp[m] - r <= Skew
  BY DEF InWindow
<1> HIDE DEF r
<1> QED
  BY <1>1, <1>2, <1>3

\* A message whose key the prune may drop can pass no more ...
LEMMA PrunedIsSpent ==
    ASSUME TypeOK, Marked, InFlight,
           NEW w \in Workers, worker[w].at = "marking",
           NEW m \in seen, m \notin Pruned(worker[w].read)
    PROVE  now > stamp[m] - Skew + TTL
PROOF
<1> DEFINE t == worker[w].read
<1>1. /\ t \in Nat /\ now \in Nat /\ t <= now
      /\ m \in Messages /\ stamp[m] \in Int /\ markedAt[m] \in Nat
  BY DEF TypeOK, InFlight, Copy
<1>2. ~(markedAt[m] >= t - TTL)
  BY DEF Pruned, Kept
<1>3. markedAt[m] >= stamp[m] - Skew
  BY DEF Marked
<1>4. TTL \in Nat /\ Skew \in Nat
  BY TickAssumption
<1> HIDE DEF t
<1> QED
  BY <1>1, <1>2, <1>3, <1>4

\* ... because what is under way has a window that is open, or was open less
\* than the margin ago.
LEMMA InFlightIsNotSpent ==
    ASSUME TypeOK, InFlight, NEW w \in Workers, worker[w].at # "idle"
    PROVE  ~(now > stamp[worker[w].msg] - Skew + TTL)
PROOF
<1> DEFINE m == worker[w].msg
           t == worker[w].checked
<1>1. /\ m \in Messages /\ stamp[m] \in Int
      /\ t \in Nat /\ now \in Nat /\ now <= t + Patience
      /\ InWindow(m, t)
  BY DEF TypeOK, InFlight, Copy
<1>2. t < stamp[m] + Skew + Second
  BY <1>1, WindowBounds
<1>3. /\ TTL \in Nat /\ Skew \in Nat /\ Second \in Nat /\ Patience \in Nat
      /\ TTL >= 2 * Skew + (Second - 1) + Patience
  BY TickAssumption, MarginAssumption
<1> HIDE DEF m, t
<1>4. ~(now > stamp[m] - Skew + TTL)
  BY <1>1, <1>2, <1>3
<1> QED
  BY <1>4 DEF m

-----------------------------------------------------------------------------
(* The actions.                                                            *)

LEMMA InitInv == Init => IInv
PROOF
<1> SUFFICES ASSUME Init PROVE IInv
  OBVIOUS
<1>1. TypeOK
  BY TickAssumption DEF Init, TypeOK, Copy, Idle
<1>2. Marked /\ InFlight /\ Spent /\ AtMostOnce
  BY DEF Init, Marked, InFlight, Spent, AtMostOnce, Idle
<1> QED
  BY <1>1, <1>2 DEF IInv

LEMMA CheckTimestampInv ==
    ASSUME IInv, NEW w \in Workers, NEW m \in Messages, CheckTimestamp(w, m)
    PROVE  IInv'
PROOF
<1>1. TypeOK'
  BY DEF IInv, TypeOK, CheckTimestamp, Copy
<1>2. Marked' /\ Spent' /\ AtMostOnce'
  BY DEF IInv, Marked, Spent, AtMostOnce, CheckTimestamp
<1>3. InFlight'
  <2> SUFFICES ASSUME NEW u \in Workers, worker'[u].at # "idle"
               PROVE  /\ worker'[u].msg \in Messages
                      /\ InWindow(worker[u].msg, worker[u].checked)'
                      /\ worker'[u].checked <= now'
                      /\ now' <= worker'[u].checked + Patience
                      /\ worker'[u].at = "marking" =>
                             /\ worker'[u].checked <= worker'[u].read
                             /\ worker'[u].read <= now'
    BY DEF InFlight
  <2>1. CASE u = w
    <3>1. worker'[u] = [at |-> "checked", msg |-> m, checked |-> now, read |-> 0]
      BY <2>1 DEF CheckTimestamp, IInv, TypeOK
    <3>2. now \in Nat /\ Patience \in Nat /\ now' = now
      BY TickAssumption DEF IInv, TypeOK, CheckTimestamp
    <3> QED
      BY <3>1, <3>2 DEF CheckTimestamp, InWindow
  <2>2. CASE u # w
    BY <2>2 DEF CheckTimestamp, IInv, TypeOK, InFlight, InWindow
  <2> QED
    BY <2>1, <2>2
<1> QED
  BY <1>1, <1>2, <1>3 DEF IInv

LEMMA ReadClockInv ==
    ASSUME IInv, NEW w \in Workers, ReadClock(w)
    PROVE  IInv'
PROOF
<1>1. TypeOK'
  BY DEF IInv, TypeOK, ReadClock, Copy
<1>2. Marked' /\ Spent' /\ AtMostOnce'
  BY DEF IInv, Marked, Spent, AtMostOnce, ReadClock
<1>3. InFlight'
  BY DEF ReadClock, IInv, TypeOK, Copy, InFlight, InWindow
<1> QED
  BY <1>1, <1>2, <1>3 DEF IInv

LEMMA TickInv ==
    ASSUME IInv, Tick
    PROVE  IInv'
PROOF
<1>1. TypeOK'
  BY DEF IInv, TypeOK, Tick
<1>2. Marked' /\ AtMostOnce'
  BY DEF IInv, Marked, AtMostOnce, Tick
<1>3. Spent'
  BY TickAssumption DEF IInv, TypeOK, Spent, Tick
<1>4. InFlight'
  BY TickAssumption DEF IInv, TypeOK, Copy, InFlight, InWindow, Tick
<1> QED
  BY <1>1, <1>2, <1>3, <1>4 DEF IInv

LEMMA RestartInv ==
    ASSUME IInv, Restart
    PROVE  IInv'
PROOF
<1>1. TypeOK'
  BY TickAssumption DEF IInv, TypeOK, Restart, Copy, Idle
<1>2. Marked' /\ InFlight' /\ Spent' /\ AtMostOnce'
  BY DEF Restart, Marked, InFlight, Spent, AtMostOnce, Idle
<1> QED
  BY <1>1, <1>2 DEF IInv

\* Accept and Refuse leave the other threads alone.
LEMMA OthersInFlight ==
    ASSUME IInv, NEW w \in Workers, worker' = [worker EXCEPT ![w] = Idle],
           UNCHANGED <<now, stamp>>
    PROVE  InFlight'
PROOF
  BY DEF IInv, TypeOK, InFlight, InWindow, Idle

LEMMA AcceptInv ==
    ASSUME IInv, NEW w \in Workers, Accept(w)
    PROVE  IInv'
PROOF
<1> DEFINE m == worker[w].msg
           t == worker[w].read
<1> USE DEF IInv
<1>1. /\ worker[w].at = "marking"
      /\ m \in Messages /\ t \in Nat /\ t <= now /\ worker[w].checked <= t
      /\ m \notin Pruned(t) /\ Pruned(t) \subseteq seen
  BY DEF Accept, TypeOK, Copy, InFlight, Pruned, Kept
<1>2. ~(now > stamp[m] - Skew + TTL)
  BY <1>1, InFlightIsNotSpent
<1>3. handled[m] = 0
  <2>1. handled[m] \in Nat
    BY <1>1 DEF TypeOK
  <2>2. CASE m \in seen
    BY <1>1, <1>2, <2>2, PrunedIsSpent
  <2>3. CASE m \notin seen
    BY <1>1, <1>2, <2>1, <2>3 DEF Spent
  <2> QED
    BY <2>2, <2>3
<1>4. TypeOK'
  BY <1>1 DEF Accept, TypeOK, Copy, Idle
<1>5. handled' = [handled EXCEPT ![m] = 1]
  BY <1>1, <1>3 DEF Accept, TypeOK
<1>6. AtMostOnce'
  BY <1>1, <1>5 DEF AtMostOnce, TypeOK
<1>7. Marked'
  <2>1. stamp[m] - Skew <= worker[w].checked
    BY <1>1, WindowBounds DEF InFlight, TypeOK, Copy
  <2>2. /\ stamp[m] \in Int /\ Skew \in Nat /\ worker[w].checked \in Nat
        /\ stamp' = stamp
    BY <1>1, TickAssumption DEF TypeOK, Copy, Accept
  <2> SUFFICES ASSUME NEW n \in seen' PROVE markedAt'[n] >= stamp'[n] - Skew
    BY DEF Marked
  <2>3. CASE n = m
    <3>1. markedAt'[n] = t
      BY <1>1, <2>3 DEF Accept
    <3> QED
      BY <1>1, <2>1, <2>2, <2>3, <3>1
  <2>4. CASE n # m
    <3>1. n \in Pruned(t) /\ n \in Messages /\ n \in seen
      BY <1>1, <2>4 DEF Accept, TypeOK
    <3>2. markedAt'[n] = markedAt[n]
      BY <2>4, <3>1 DEF Accept
    <3> QED
      BY <2>2, <3>1, <3>2 DEF Marked
  <2> QED
    BY <2>3, <2>4
<1>8. Spent'
  <2> SUFFICES ASSUME NEW n \in Messages, handled'[n] >= 1, n \notin seen'
               PROVE  now > stamp[n] - Skew + TTL
    BY DEF Spent, Accept
  <2>1. n # m /\ n \notin Pruned(t) /\ handled[n] >= 1
    BY <1>1, <1>5 DEF Accept, TypeOK
  <2>2. CASE n \in seen
    BY <1>1, <2>1, <2>2, PrunedIsSpent
  <2>3. CASE n \notin seen
    BY <2>1, <2>3 DEF Spent
  <2> QED
    BY <2>2, <2>3
<1>9. InFlight'
  BY OthersInFlight DEF Accept
<1> QED
  BY <1>4, <1>6, <1>7, <1>8, <1>9

LEMMA RefuseInv ==
    ASSUME IInv, NEW w \in Workers, Refuse(w)
    PROVE  IInv'
PROOF
<1> DEFINE t == worker[w].read
<1> USE DEF IInv
<1>1. Pruned(t) \subseteq seen /\ worker[w].at = "marking"
  BY DEF Pruned, Kept, Refuse
<1>2. TypeOK'
  BY <1>1 DEF Refuse, TypeOK, Copy, Idle
<1>3. AtMostOnce'
  BY DEF AtMostOnce, Refuse
<1>4. Marked'
  BY <1>1 DEF Marked, Refuse, TypeOK
<1>5. Spent'
  <2> SUFFICES ASSUME NEW n \in Messages, handled[n] >= 1, n \notin Pruned(t)
               PROVE  now > stamp[n] - Skew + TTL
    BY DEF Spent, Refuse
  <2>1. CASE n \in seen
    BY <1>1, <2>1, PrunedIsSpent
  <2>2. CASE n \notin seen
    BY <2>2 DEF Spent
  <2> QED
    BY <2>1, <2>2
<1>6. InFlight'
  BY OthersInFlight DEF Refuse
<1> QED
  BY <1>2, <1>3, <1>4, <1>5, <1>6

-----------------------------------------------------------------------------
LEMMA StutterInv == IInv /\ UNCHANGED vars => IInv'
PROOF
  BY DEF IInv, vars, TypeOK, Marked, InFlight, InWindow, Spent, AtMostOnce

\* The inductive invariant holds in every reachable state.
THEOREM Invariance == Spec => []IInv
PROOF
<1>1. Init => IInv
  BY InitInv
<1>2. IInv /\ [Next]_vars => IInv'
  <2> SUFFICES ASSUME IInv, [Next]_vars PROVE IInv'
    OBVIOUS
  <2>1. CASE UNCHANGED vars
    BY <2>1, StutterInv
  <2>2. ASSUME NEW w \in Workers, NEW m \in Messages, CheckTimestamp(w, m)
        PROVE  IInv'
    BY <2>2, CheckTimestampInv
  <2>3. ASSUME NEW w \in Workers, ReadClock(w) PROVE IInv'
    BY <2>3, ReadClockInv
  <2>4. ASSUME NEW w \in Workers, Accept(w) PROVE IInv'
    BY <2>4, AcceptInv
  <2>5. ASSUME NEW w \in Workers, Refuse(w) PROVE IInv'
    BY <2>5, RefuseInv
  <2>6. CASE Tick
    BY <2>6, TickInv
  <2>7. CASE Restart
    BY <2>7, RestartInv
  <2> QED
    BY <2>1, <2>2, <2>3, <2>4, <2>5, <2>6, <2>7 DEF Next
<1> QED
  BY <1>1, <1>2, PTL DEF Spec

\* The state of the verifier keeps its shape (NonceManager, verify_envelope).
THEOREM TypeCorrect == Spec => []TypeOK
PROOF
<1>1. IInv => TypeOK
  BY DEF IInv
<1> QED
  BY <1>1, Invariance, PTL

\* While the server runs, no message is handled twice, however many copies
\* arrive on however many threads and whatever the prune removes
\* (verify_envelope, NonceManager.check_and_mark).
THEOREM HandledAtMostOnce == Spec => []AtMostOnce
PROOF
<1>1. IInv => AtMostOnce
  BY DEF IInv
<1> QED
  BY <1>1, Invariance, PTL

=============================================================================
