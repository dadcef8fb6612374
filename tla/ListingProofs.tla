---------------------------- MODULE ListingProofs ----------------------------
(***************************************************************************)
(* Theorems about Listing and Registry, for any number of agents and       *)
(* registrations, any intervals, delays and losses that the time to live   *)
(* allows for: who has a loop stays listed, no entry goes back to an older *)
(* registration, and the directory keeps within its capacity.              *)
(***************************************************************************)
EXTENDS Listing, FiniteSetTheorems, TLAPS

\* The age of an entry whose loop has missed m heartbeats when it last woke up.
Grace(m) == Slack + m * Period

\* What keeps the entry of a alive: the loop of r, or its thread.
Keeps(r, a) ==
    /\ of[r] = a
    /\ \/ at[r] = "looping" /\ age[a] <= Grace(miss[r]) + timer[r]
       \/ Starting(r) /\ age[a] <= timer[r]

KeptOK(a) == listed[a] # 0 /\ \E r \in Flow : Keeps(r, a)

\* Nonces were issued, and a pending challenge is newer than the entry.
NonceOK(a) ==
    /\ listed[a] <= issued /\ challenge[a] <= issued
    /\ challenge[a] # 0 => listed[a] <= challenge[a]

\* A second request answers a challenge.
WireOK(r) == <<r, "complete">> \in wire => nonce[r] # 0

\* Whatever is due is done within Slack.
DueOK(r) ==
    /\ at[r] = "idle" => timer[r] = 0
    /\ at[r] \in Underway => timer[r] <= Slack

\* There is room for everybody who is let in.
Fits == ~crowded => Cardinality(Held \cup Coming) <= MaxAgents

IInv ==
    /\ TypeOK
    /\ \A r \in Flow : WireOK(r)
    /\ \A r \in Flow : DueOK(r)
    /\ \A a \in Agents : NonceOK(a)
    /\ \A a \in kept : KeptOK(a)
    /\ NoOrphanUnlessRaced
    /\ Fits

LEMMA PeriodFacts == Period \in Nat /\ Interval <= Period /\ Slack <= Period
BY ListingAssumption DEF ListingAssumption, Period

\* An entry lives as long as heartbeats fail Losses times in a row and one more
\* comes as late as it may.
LEMMA GraceFacts ==
    ASSUME NEW m \in 0 .. Losses
    PROVE  /\ Grace(m) \in Nat
           /\ Slack <= Grace(m)
           /\ Grace(m) + Period <= EntryTTL
           /\ Grace(m) + Period = Grace(m + 1)
<1>1. m * Period \in Nat /\ Losses * Period \in Nat
    BY PeriodFacts, ListingAssumption DEF ListingAssumption
<1>2. m * Period <= Losses * Period
    BY PeriodFacts, ListingAssumption DEF ListingAssumption
<1>3. (m + 1) * Period = m * Period + Period
    BY PeriodFacts
<1>q. QED
    BY <1>1, <1>2, <1>3, PeriodFacts, ListingAssumption, RegistryAssumption
    DEF ListingAssumption, RegistryAssumption, Grace

LEMMA FewerFit ==
    ASSUME IInv, Held' \cup Coming' \subseteq Held \cup Coming, crowded' = crowded
    PROVE  Fits'
<1>1. IsFiniteSet(Held \cup Coming)
    BY FS_Subset, RegistryAssumption DEF RegistryAssumption, Held, Coming
<1>2. Cardinality(Held' \cup Coming') <= Cardinality(Held \cup Coming)
    BY <1>1, FS_Subset
<1>3. /\ Cardinality(Held \cup Coming) \in Nat
      /\ Cardinality(Held' \cup Coming') \in Nat
    BY <1>1, FS_Subset, FS_CardinalityType
<1>q. QED
    BY <1>2, <1>3, RegistryAssumption DEF IInv, Fits, RegistryAssumption

\* self.heartbeat refers to a loop of its agent, whose thread runs or has died.
LEMMA Loops ==
    ASSUME RuntimeTypeOK, ListingAssumption
    PROVE  \A a \in Agents : heartbeat[a] # 0 =>
               /\ heartbeat[a] \in Flow
               /\ at[heartbeat[a]] \in {"looping", "dead"} /\ of[heartbeat[a]] = a
BY DEF RuntimeTypeOK, ListingAssumption, Flow

\* What is kept has not expired.
LEMMA KeptAlive ==
    ASSUME TypeOK, NEW b \in Agents, NEW q \in Flow, Keeps(q, b)
    PROVE  age[b] <= EntryTTL
<1>1. /\ age[b] \in Nat /\ timer[q] \in Nat /\ timer[q] <= Period
      /\ miss[q] \in 0 .. Losses
    BY PeriodFacts DEF TypeOK, RegistryTypeOK, ProgressTypeOK
<1>2. Grace(miss[q]) \in Nat /\ Grace(miss[q]) + Period <= EntryTTL
    BY <1>1, GraceFacts
<1>3. age[b] <= Grace(miss[q]) + timer[q]
    BY <1>1, <1>2 DEF Keeps
<1>q. QED
    BY <1>1, <1>2, <1>3, PeriodFacts, RegistryAssumption DEF RegistryAssumption

LEMMA Initially == Init => IInv
<1> SUFFICES ASSUME Init PROVE IInv
    OBVIOUS
<1> USE RegistryAssumption, ListingAssumption, PeriodFacts
    DEF RegistryAssumption, ListingAssumption, Init, RegistryInit
<1>1. TypeOK
    <2>1. (CHOOSE a \in Agents : TRUE) \in Agents
        BY Zenon
    <2>2. RegistryTypeOK
        <3>1. 0 \in 0 .. EntryTTL + 1
            OBVIOUS
        <3>q. QED
            BY <3>1 DEF RegistryTypeOK
    <2>3. RuntimeTypeOK
        BY DEF RuntimeTypeOK
    <2>4. ProgressTypeOK
        BY <2>1 DEF ProgressTypeOK
    <2>q. QED
        BY <2>2, <2>3, <2>4 DEF TypeOK
<1>2. /\ \A r \in Flow : WireOK(r)
      /\ \A r \in Flow : DueOK(r)
      /\ \A a \in Agents : NonceOK(a)
      /\ \A a \in kept : KeptOK(a)
      /\ NoOrphanUnlessRaced
    BY DEF WireOK, DueOK, NonceOK, Underway, Trying, Done, Requests, NoOrphanUnlessRaced
<1>3. Held \cup Coming = {}
    BY DEF Held, Coming
<1>4. Fits
    <2>1. Cardinality(Held \cup Coming) = 0
        BY <1>3, FS_EmptySet
    <2>q. QED
        BY <2>1 DEF Fits
<1>q. QED
    BY <1>1, <1>2, <1>4 DEF IInv

-----------------------------------------------------------------------------
(* The runtime.                                                              *)

\* A start that begins a thread, and one that only brings up the server.
LEMMA StartBeginsStep ==
    ASSUME IInv, NEW a \in Agents, Start(a), a \in Registering
    PROVE  IInv'
<1> USE RegistryAssumption, ListingAssumption, PeriodFacts
    DEF RegistryAssumption, ListingAssumption, Start, Begin, registry
<1>1. TypeOK'
    <2>1. RegistryTypeOK'
        BY DEF IInv, TypeOK, RegistryTypeOK, ProgressTypeOK
    <2>0. PICK r \in Flow : Begin(r, a, TRUE)
        OBVIOUS
    <2>2. ProgressTypeOK'
        <3>1. /\ at' = [at EXCEPT ![r] = "submit"]
              /\ of' = [of EXCEPT ![r] = a]
              /\ thread' = [thread EXCEPT ![r] = TRUE]
              /\ wire' = wire \cup {<<r, "submit">>}
              /\ UNCHANGED <<nonce, timer, miss>>
            BY <2>0
        <3>q. QED
            BY <3>1 DEF IInv, TypeOK, ProgressTypeOK, Underway, Trying, Done, Requests
    <2>3. RuntimeTypeOK'
        BY Loops, <2>2 DEF IInv, TypeOK, RuntimeTypeOK, ProgressTypeOK, Then, Underway,
            Trying, Done
    <2>q. QED
        BY <2>1, <2>2, <2>3 DEF IInv, TypeOK
<1>2. \A q \in Flow : WireOK(q)'
    BY DEF IInv, TypeOK, RegistryTypeOK, ProgressTypeOK, WireOK
<1>3. \A b \in Agents : NonceOK(b)'
    BY DEF IInv, TypeOK, RegistryTypeOK, ProgressTypeOK, WireOK, NonceOK
<1>4. \A b \in kept' : KeptOK(b)'
    <2>1. ASSUME NEW b \in Agents, NEW q \in Flow, Keeps(q, b) PROVE Keeps(q, b)'
        BY <2>1 DEF IInv, TypeOK, RegistryTypeOK, ProgressTypeOK, Keeps, Starting,
            Then, Underway, Trying, Done, Requests
    <2>q. QED
        BY <2>1 DEF IInv, TypeOK, RegistryTypeOK, ProgressTypeOK, KeptOK
<1>5. NoOrphanUnlessRaced'
    BY DEF IInv, TypeOK, RuntimeTypeOK, ProgressTypeOK, NoOrphanUnlessRaced, Then,
        Underway, Trying, Done, Requests
<1>6. Fits'
    BY FewerFit DEF Held, Coming, IInv, TypeOK, RegistryTypeOK
<1>7. \A q \in Flow : DueOK(q)'
    BY DEF IInv, TypeOK, ProgressTypeOK, DueOK, Then, Underway, Trying, Done, Requests
<1>q. QED
    BY <1>1, <1>2, <1>3, <1>4, <1>5, <1>6, <1>7 DEF IInv

LEMMA StartServesStep ==
    ASSUME IInv, NEW a \in Agents, Start(a), a \notin Registering
    PROVE  IInv'
<1> USE RegistryAssumption, ListingAssumption, PeriodFacts
    DEF RegistryAssumption, ListingAssumption, Start, registry, progress
<1>1. TypeOK'
    <2>1. RegistryTypeOK'
        BY DEF IInv, TypeOK, RegistryTypeOK, ProgressTypeOK
    <2>2. ProgressTypeOK'
        BY DEF IInv, TypeOK, RegistryTypeOK, ProgressTypeOK, Then, Underway, Trying,
            Done, Requests
    <2>3. RuntimeTypeOK'
        BY Loops, <2>2 DEF IInv, TypeOK, RuntimeTypeOK, ProgressTypeOK, Then, Underway,
            Trying, Done
    <2>q. QED
        BY <2>1, <2>2, <2>3 DEF IInv, TypeOK
<1>2. \A q \in Flow : WireOK(q)'
    BY DEF IInv, TypeOK, RegistryTypeOK, ProgressTypeOK, WireOK
<1>3. \A b \in Agents : NonceOK(b)'
    BY DEF IInv, TypeOK, RegistryTypeOK, ProgressTypeOK, WireOK, NonceOK
<1>4. \A b \in kept' : KeptOK(b)'
    <2>1. ASSUME NEW b \in Agents, NEW q \in Flow, Keeps(q, b) PROVE Keeps(q, b)'
        BY <2>1 DEF IInv, TypeOK, RegistryTypeOK, ProgressTypeOK, Keeps, Starting,
            Then, Underway, Trying, Done, Requests
    <2>q. QED
        BY <2>1 DEF IInv, TypeOK, RegistryTypeOK, ProgressTypeOK, KeptOK
<1>5. NoOrphanUnlessRaced'
    BY DEF IInv, TypeOK, RuntimeTypeOK, ProgressTypeOK, NoOrphanUnlessRaced, Then,
        Underway, Trying, Done, Requests
<1>6. Fits'
    BY FewerFit DEF Held, Coming, IInv, TypeOK, RegistryTypeOK
<1>7. \A q \in Flow : DueOK(q)'
    BY DEF IInv, TypeOK, ProgressTypeOK, DueOK, Then, Underway, Trying, Done, Requests
<1>q. QED
    BY <1>1, <1>2, <1>3, <1>4, <1>5, <1>6, <1>7 DEF IInv

LEMMA StartUnboundStep ==
    ASSUME IInv, NEW a \in Agents, StartUnbound(a)
    PROVE  IInv'
<1> USE RegistryAssumption, ListingAssumption, PeriodFacts
    DEF RegistryAssumption, ListingAssumption, StartUnbound, registry, progress
<1>1. TypeOK'
    <2>1. RegistryTypeOK'
        BY DEF IInv, TypeOK, RegistryTypeOK, ProgressTypeOK
    <2>2. ProgressTypeOK'
        BY DEF IInv, TypeOK, RegistryTypeOK, ProgressTypeOK, Then, Underway, Trying,
            Done, Requests
    <2>3. RuntimeTypeOK'
        BY Loops, <2>2 DEF IInv, TypeOK, RuntimeTypeOK, ProgressTypeOK, Then, Underway,
            Trying, Done
    <2>q. QED
        BY <2>1, <2>2, <2>3 DEF IInv, TypeOK
<1>2. \A q \in Flow : WireOK(q)'
    BY DEF IInv, TypeOK, RegistryTypeOK, ProgressTypeOK, WireOK
<1>3. \A b \in Agents : NonceOK(b)'
    BY DEF IInv, TypeOK, RegistryTypeOK, ProgressTypeOK, WireOK, NonceOK
<1>4. \A b \in kept' : KeptOK(b)'
    <2>1. ASSUME NEW b \in Agents, NEW q \in Flow, Keeps(q, b) PROVE Keeps(q, b)'
        BY <2>1 DEF IInv, TypeOK, RegistryTypeOK, ProgressTypeOK, Keeps, Starting,
            Then, Underway, Trying, Done, Requests
    <2>q. QED
        BY <2>1 DEF IInv, TypeOK, RegistryTypeOK, ProgressTypeOK, KeptOK
<1>5. NoOrphanUnlessRaced'
    BY DEF IInv, TypeOK, RuntimeTypeOK, ProgressTypeOK, NoOrphanUnlessRaced, Then,
        Underway, Trying, Done, Requests
<1>6. Fits'
    BY FewerFit DEF Held, Coming, IInv, TypeOK, RegistryTypeOK
<1>7. \A q \in Flow : DueOK(q)'
    BY DEF IInv, TypeOK, ProgressTypeOK, DueOK, Then, Underway, Trying, Done, Requests
<1>q. QED
    BY <1>1, <1>2, <1>3, <1>4, <1>5, <1>6, <1>7 DEF IInv

LEMMA RegisterStep ==
    ASSUME IInv, NEW a \in Agents, Register(a)
    PROVE  IInv'
<1> USE RegistryAssumption, ListingAssumption, PeriodFacts
    DEF RegistryAssumption, ListingAssumption, Register, Begin, registry, runtime
<1>1. TypeOK'
    <2>1. RegistryTypeOK'
        BY DEF IInv, TypeOK, RegistryTypeOK, ProgressTypeOK
    <2>2. ProgressTypeOK'
        BY DEF IInv, TypeOK, RegistryTypeOK, ProgressTypeOK, Then, Underway, Trying,
            Done, Requests
    <2>3. RuntimeTypeOK'
        BY Loops, <2>2 DEF IInv, TypeOK, RuntimeTypeOK, ProgressTypeOK, Then, Underway,
            Trying, Done
    <2>q. QED
        BY <2>1, <2>2, <2>3 DEF IInv, TypeOK
<1>2. \A q \in Flow : WireOK(q)'
    BY DEF IInv, TypeOK, RegistryTypeOK, ProgressTypeOK, WireOK
<1>3. \A b \in Agents : NonceOK(b)'
    BY DEF IInv, TypeOK, RegistryTypeOK, ProgressTypeOK, WireOK, NonceOK
<1>4. \A b \in kept' : KeptOK(b)'
    <2>1. ASSUME NEW b \in Agents, NEW q \in Flow, Keeps(q, b) PROVE Keeps(q, b)'
        BY <2>1 DEF IInv, TypeOK, RegistryTypeOK, ProgressTypeOK, Keeps, Starting,
            Then, Underway, Trying, Done, Requests
    <2>q. QED
        BY <2>1 DEF IInv, TypeOK, RegistryTypeOK, ProgressTypeOK, KeptOK
<1>5. NoOrphanUnlessRaced'
    BY DEF IInv, TypeOK, RuntimeTypeOK, ProgressTypeOK, NoOrphanUnlessRaced, Then,
        Underway, Trying, Done, Requests
<1>6. Fits'
    BY FewerFit DEF Held, Coming, IInv, TypeOK, RegistryTypeOK
<1>7. \A q \in Flow : DueOK(q)'
    BY DEF IInv, TypeOK, ProgressTypeOK, DueOK, Then, Underway, Trying, Done, Requests
<1>q. QED
    BY <1>1, <1>2, <1>3, <1>4, <1>5, <1>6, <1>7 DEF IInv

LEMMA StopStep ==
    ASSUME IInv, NEW a \in Agents, Stop(a)
    PROVE  IInv'
<1> USE RegistryAssumption, ListingAssumption, PeriodFacts
    DEF RegistryAssumption, ListingAssumption, Stop, registry
<1>1. TypeOK'
    <2>1. RegistryTypeOK'
        BY DEF IInv, TypeOK, RegistryTypeOK, ProgressTypeOK
    <2>2. ProgressTypeOK'
        BY DEF IInv, TypeOK, RegistryTypeOK, ProgressTypeOK, Then, Underway, Trying,
            Done, Requests
    <2>3. RuntimeTypeOK'
        BY Loops, <2>2 DEF IInv, TypeOK, RuntimeTypeOK, ProgressTypeOK, Then, Underway,
            Trying, Done
    <2>q. QED
        BY <2>1, <2>2, <2>3 DEF IInv, TypeOK
<1>2. \A q \in Flow : WireOK(q)'
    BY DEF IInv, TypeOK, RegistryTypeOK, ProgressTypeOK, WireOK
<1>3. \A b \in Agents : NonceOK(b)'
    BY DEF IInv, TypeOK, RegistryTypeOK, ProgressTypeOK, WireOK, NonceOK
<1>4. \A b \in kept' : KeptOK(b)'
    <2>1. ASSUME NEW b \in Agents \ {a}, NEW q \in Flow, Keeps(q, b) PROVE Keeps(q, b)'
        <3>1. of[q] = b
            BY <2>1 DEF Keeps
        <3>2. q # heartbeat[a]
            BY <2>1, <3>1, Loops DEF IInv, TypeOK, Flow
        <3>3. at'[q] = at[q]
            BY <3>2 DEF IInv, TypeOK, ProgressTypeOK
        <3>q. QED
            BY <2>1, <3>3 DEF Keeps, Starting
    <2>2. ASSUME NEW b \in kept' PROVE KeptOK(b)'
        BY <2>1, <2>2 DEF IInv, TypeOK, KeptOK
    <2>q. QED
        BY <2>2
<1>5. NoOrphanUnlessRaced'
    BY DEF IInv, TypeOK, RuntimeTypeOK, ProgressTypeOK, NoOrphanUnlessRaced, Then,
        Underway, Trying, Done, Requests
<1>6. Fits'
    BY FewerFit DEF Held, Coming, IInv, TypeOK, RegistryTypeOK
<1>7. \A q \in Flow : DueOK(q)'
    BY DEF IInv, TypeOK, ProgressTypeOK, DueOK, Then, Underway, Trying, Done, Requests
<1>q. QED
    BY <1>1, <1>2, <1>3, <1>4, <1>5, <1>6, <1>7 DEF IInv

LEMMA StartLoopStep ==
    ASSUME IInv, NEW r \in Flow, StartLoop(r)
    PROVE  IInv'
<1> USE RegistryAssumption, ListingAssumption, PeriodFacts
    DEF RegistryAssumption, ListingAssumption, StartLoop, registry
<1>1. TypeOK'
    <2>1. RegistryTypeOK'
        BY DEF IInv, TypeOK, RegistryTypeOK, ProgressTypeOK
    <2>2. ProgressTypeOK'
        BY DEF IInv, TypeOK, RegistryTypeOK, ProgressTypeOK, Then, Underway, Trying,
            Done, Requests
    <2>3. of[r] \in Agents /\ at' = [at EXCEPT ![r] = "looping"]
        BY DEF IInv, TypeOK, ProgressTypeOK
    <2>4. r \in 0 .. Flows /\ r # 0
        BY DEF Flow
    <2>5. \A a \in Agents : heartbeat'[a] # 0 =>
              at'[heartbeat'[a]] \in {"looping", "dead"} /\ of'[heartbeat'[a]] = a
        BY <2>3, <2>4, Loops DEF IInv, TypeOK, RuntimeTypeOK, ProgressTypeOK
    <2>6. RuntimeTypeOK'
        BY <2>3, <2>4, <2>5 DEF IInv, TypeOK, RuntimeTypeOK
    <2>7. raced' \subseteq Flow
        BY <2>3, Loops DEF IInv, TypeOK, RuntimeTypeOK
    <2>q. QED
        BY <2>1, <2>2, <2>6, <2>7 DEF IInv, TypeOK
<1>2. \A q \in Flow : WireOK(q)'
    BY DEF IInv, TypeOK, RegistryTypeOK, ProgressTypeOK, WireOK
<1>3. \A b \in Agents : NonceOK(b)'
    BY DEF IInv, TypeOK, RegistryTypeOK, ProgressTypeOK, WireOK, NonceOK
<1>4. \A b \in kept' : KeptOK(b)'
    <2>1. ASSUME NEW b \in Agents, Keeps(r, b) PROVE Keeps(r, b)'
        <3>1. of[r] = b /\ age[b] <= timer[r]
            BY <2>1 DEF Keeps, Done
        <3>2. timer[r] <= Slack
            BY DEF IInv, DueOK, Underway
        <3>4. at'[r] = "looping" /\ timer'[r] = 0 /\ UNCHANGED <<of, age, miss>>
            BY DEF IInv, TypeOK, ProgressTypeOK
        <3>5. Slack <= Grace(miss[r])
            BY GraceFacts DEF IInv, TypeOK, ProgressTypeOK
        <3>q. QED
            BY <3>1, <3>2, <3>4, <3>5, GraceFacts DEF IInv, TypeOK, RegistryTypeOK,
                ProgressTypeOK, Keeps
    <2>2. ASSUME NEW b \in Agents, NEW q \in Flow \ {r}, Keeps(q, b) PROVE Keeps(q, b)'
        BY <2>2 DEF IInv, TypeOK, ProgressTypeOK, Keeps, Starting
    <2>q. QED
        BY <2>1, <2>2 DEF IInv, TypeOK, KeptOK
<1>5. NoOrphanUnlessRaced'
    <2> SUFFICES ASSUME NEW q \in Flow, at'[q] = "looping"
                 PROVE  q \in raced' \/ heartbeat'[of[q]] = q
        BY DEF NoOrphanUnlessRaced
    <2>1. of[r] \in Agents /\ of[q] \in Agents
        BY DEF IInv, TypeOK, ProgressTypeOK
    <2>2. CASE q = r
        BY <2>1, <2>2 DEF IInv, TypeOK, RuntimeTypeOK
    <2>3. CASE q # r
        <3>1. at[q] = "looping"
            BY <2>3 DEF IInv, TypeOK, ProgressTypeOK
        <3>2. q \in raced \/ heartbeat[of[q]] = q
            BY <3>1 DEF IInv, NoOrphanUnlessRaced
        <3>3. q # 0
            BY DEF Flow
        <3>q. QED
            BY <2>1, <3>2, <3>3 DEF IInv, TypeOK, RuntimeTypeOK
    <2>q. QED
        BY <2>2, <2>3
<1>6. Fits'
    BY FewerFit DEF Held, Coming, IInv, TypeOK, RegistryTypeOK
<1>7. \A q \in Flow : DueOK(q)'
    BY DEF IInv, TypeOK, ProgressTypeOK, DueOK, Then, Underway, Trying, Done, Requests
<1>q. QED
    BY <1>1, <1>2, <1>3, <1>4, <1>5, <1>6, <1>7 DEF IInv

-----------------------------------------------------------------------------
(* The registration.                                                         *)

LEMMA GiveUpStep ==
    ASSUME IInv, NEW r \in Flow, GiveUp(r)
    PROVE  IInv'
<1> USE RegistryAssumption, ListingAssumption, PeriodFacts
    DEF RegistryAssumption, ListingAssumption, GiveUp, registry, runtime
<1>1. TypeOK'
    <2>1. RegistryTypeOK'
        BY DEF IInv, TypeOK, RegistryTypeOK, ProgressTypeOK
    <2>2. ProgressTypeOK'
        BY DEF IInv, TypeOK, RegistryTypeOK, ProgressTypeOK, Then, Underway, Trying,
            Done, Requests
    <2>3. \A a \in Agents : heartbeat[a] # 0 => heartbeat[a] # r
        BY Loops DEF IInv, TypeOK, Trying, Requests
    <2>4. RuntimeTypeOK'
        BY <2>3, Loops DEF IInv, TypeOK, RuntimeTypeOK, ProgressTypeOK
    <2>q. QED
        BY <2>1, <2>2, <2>4 DEF IInv, TypeOK
<1>2. \A q \in Flow : WireOK(q)'
    BY DEF IInv, TypeOK, RegistryTypeOK, ProgressTypeOK, WireOK
<1>3. \A b \in Agents : NonceOK(b)'
    BY DEF IInv, TypeOK, RegistryTypeOK, ProgressTypeOK, WireOK, NonceOK
<1>4. \A b \in kept' : KeptOK(b)'
    <2>1. ASSUME NEW b \in Agents, NEW q \in Flow, Keeps(q, b) PROVE Keeps(q, b)'
        BY <2>1 DEF IInv, TypeOK, RegistryTypeOK, ProgressTypeOK, Keeps, Starting,
            Then, Underway, Trying, Done, Requests
    <2>q. QED
        BY <2>1 DEF IInv, TypeOK, RegistryTypeOK, ProgressTypeOK, KeptOK
<1>5. NoOrphanUnlessRaced'
    BY DEF IInv, TypeOK, RuntimeTypeOK, ProgressTypeOK, NoOrphanUnlessRaced, Then,
        Underway, Trying, Done, Requests
<1>6. Fits'
    BY FewerFit DEF Held, Coming, IInv, TypeOK, RegistryTypeOK
<1>7. \A q \in Flow : DueOK(q)'
    BY DEF IInv, TypeOK, ProgressTypeOK, DueOK, Then, Underway, Trying, Done, Requests
<1>q. QED
    BY <1>1, <1>2, <1>3, <1>4, <1>5, <1>6, <1>7 DEF IInv

LEMMA HandleSubmitStep ==
    ASSUME IInv, NEW r \in Flow, HandleSubmit(r)
    PROVE  IInv'
<1> USE RegistryAssumption, ListingAssumption, PeriodFacts
    DEF RegistryAssumption, ListingAssumption, HandleSubmit, Submit, runtime
<1>1. TypeOK'
    <2>1. RegistryTypeOK'
        BY DEF IInv, TypeOK, RegistryTypeOK, ProgressTypeOK
    <2>2. ProgressTypeOK'
        BY DEF IInv, TypeOK, RegistryTypeOK, ProgressTypeOK, Then, Underway, Trying,
            Done, Requests
    <2>3. RuntimeTypeOK'
        BY Loops, <2>2 DEF IInv, TypeOK, RuntimeTypeOK, ProgressTypeOK, Then, Underway,
            Trying, Done
    <2>q. QED
        BY <2>1, <2>2, <2>3 DEF IInv, TypeOK
<1>2. \A q \in Flow : WireOK(q)'
    BY DEF IInv, TypeOK, RegistryTypeOK, ProgressTypeOK, WireOK
<1>3. \A b \in Agents : NonceOK(b)'
    BY DEF IInv, TypeOK, RegistryTypeOK, ProgressTypeOK, WireOK, NonceOK
<1>4. \A b \in kept' : KeptOK(b)'
    <2>1. ASSUME NEW b \in Agents, NEW q \in Flow, Keeps(q, b) PROVE Keeps(q, b)'
        BY <2>1 DEF IInv, TypeOK, RegistryTypeOK, ProgressTypeOK, Keeps, Starting,
            Then, Underway, Trying, Done, Requests
    <2>q. QED
        BY <2>1 DEF IInv, TypeOK, RegistryTypeOK, ProgressTypeOK, KeptOK
<1>5. NoOrphanUnlessRaced'
    BY DEF IInv, TypeOK, RuntimeTypeOK, ProgressTypeOK, NoOrphanUnlessRaced, Then,
        Underway, Trying, Done, Requests
<1>6. Fits'
    <2> DEFINE a == of[r]
    <2>1. a \in Agents /\ issued + 1 # 0
        BY DEF IInv, TypeOK, ProgressTypeOK, RegistryTypeOK
    <2>2. Held' = Held /\ Coming' = Coming \cup ({a} \ Held)
        BY <2>1 DEF Held, Coming, IInv, TypeOK, RegistryTypeOK
    <2>3. CASE a \in Held \/ a \in Coming
        <3>1. Held' \cup Coming' = Held \cup Coming
            BY <2>2, <2>3
        <3>q. QED
            BY <3>1 DEF IInv, Fits
    <2>4. CASE a \notin Held /\ a \notin Coming /\ Coming = {}
        <3>1. Held' \cup Coming' = Held \cup {a}
            BY <2>2, <2>4
        <3>2. IsFiniteSet(Held) /\ Cardinality(Held) \in Nat
            BY FS_Subset, FS_CardinalityType DEF Held
        <3>3. Cardinality(Held) < MaxAgents
            BY <2>4 DEF Room
        <3>4. Cardinality(Held \cup {a}) = Cardinality(Held) + 1
            BY <2>4, <3>2, FS_AddElement
        <3>5. Cardinality(Held \cup {a}) <= MaxAgents
            BY <3>2, <3>3, <3>4
        <3>6. Cardinality(Held' \cup Coming') <= MaxAgents
            BY Zenon, <3>1, <3>5
        <3>q. QED
            BY <3>6 DEF Fits
    <2>5. CASE a \notin Held /\ a \notin Coming /\ Coming # {}
        <3>1. Held' \cup Coming' = Held \cup Coming \cup {a}
            BY <2>2, <2>5
        <3>2. Coming \ {a} # {}
            BY <2>5
        <3>3. /\ Cardinality(Held \cup Coming \cup {a}) \in Nat
              /\ Cardinality(Held \cup Coming \cup {a}) > MaxAgents => crowded'
            BY <2>1, <3>2, FS_Subset, FS_CardinalityType DEF Held, Coming
        <3>4. ~crowded' => Cardinality(Held \cup Coming \cup {a}) <= MaxAgents
            BY <3>3
        <3>5. ~crowded' => Cardinality(Held' \cup Coming') <= MaxAgents
            BY Zenon, <3>1, <3>4
        <3>q. QED
            BY <3>5 DEF Fits
    <2>q. QED
        BY <2>3, <2>4, <2>5
<1>7. \A q \in Flow : DueOK(q)'
    BY DEF IInv, TypeOK, ProgressTypeOK, DueOK, Then, Underway, Trying, Done, Requests
<1>q. QED
    BY <1>1, <1>2, <1>3, <1>4, <1>5, <1>6, <1>7 DEF IInv

LEMMA RejectSubmitStep ==
    ASSUME IInv, NEW r \in Flow, RejectSubmit(r)
    PROVE  IInv'
<1> USE RegistryAssumption, ListingAssumption, PeriodFacts
    DEF RegistryAssumption, ListingAssumption, RejectSubmit, registry, runtime
<1>1. TypeOK'
    <2>1. RegistryTypeOK'
        BY DEF IInv, TypeOK, RegistryTypeOK, ProgressTypeOK
    <2>2. ProgressTypeOK'
        BY DEF IInv, TypeOK, RegistryTypeOK, ProgressTypeOK, Then, Underway, Trying,
            Done, Requests
    <2>3. RuntimeTypeOK'
        BY Loops, <2>2 DEF IInv, TypeOK, RuntimeTypeOK, ProgressTypeOK, Then, Underway,
            Trying, Done
    <2>q. QED
        BY <2>1, <2>2, <2>3 DEF IInv, TypeOK
<1>2. \A q \in Flow : WireOK(q)'
    BY DEF IInv, TypeOK, RegistryTypeOK, ProgressTypeOK, WireOK
<1>3. \A b \in Agents : NonceOK(b)'
    BY DEF IInv, TypeOK, RegistryTypeOK, ProgressTypeOK, WireOK, NonceOK
<1>4. \A b \in kept' : KeptOK(b)'
    <2>1. ASSUME NEW b \in Agents, NEW q \in Flow, Keeps(q, b) PROVE Keeps(q, b)'
        BY <2>1 DEF IInv, TypeOK, RegistryTypeOK, ProgressTypeOK, Keeps, Starting,
            Then, Underway, Trying, Done, Requests
    <2>q. QED
        BY <2>1 DEF IInv, TypeOK, RegistryTypeOK, ProgressTypeOK, KeptOK
<1>5. NoOrphanUnlessRaced'
    BY DEF IInv, TypeOK, RuntimeTypeOK, ProgressTypeOK, NoOrphanUnlessRaced, Then,
        Underway, Trying, Done, Requests
<1>6. Fits'
    BY FewerFit DEF Held, Coming, IInv, TypeOK, RegistryTypeOK
<1>7. \A q \in Flow : DueOK(q)'
    BY DEF IInv, TypeOK, ProgressTypeOK, DueOK, Then, Underway, Trying, Done, Requests
<1>q. QED
    BY <1>1, <1>2, <1>3, <1>4, <1>5, <1>6, <1>7 DEF IInv

LEMMA HandleCompleteStep ==
    ASSUME IInv, NEW r \in Flow, HandleComplete(r)
    PROVE  IInv'
<1> USE RegistryAssumption, ListingAssumption, PeriodFacts
    DEF RegistryAssumption, ListingAssumption, HandleComplete, Complete, Listed, runtime
<1>1. TypeOK'
    <2>1. RegistryTypeOK'
        BY DEF IInv, TypeOK, RegistryTypeOK, ProgressTypeOK
    <2>2. ProgressTypeOK'
        BY DEF IInv, TypeOK, RegistryTypeOK, ProgressTypeOK, Then, Underway, Trying,
            Done, Requests
    <2>3. RuntimeTypeOK'
        BY Loops, <2>2 DEF IInv, TypeOK, RuntimeTypeOK, ProgressTypeOK, Then, Underway,
            Trying, Done
    <2>4. kept' \subseteq Agents
        BY DEF IInv, TypeOK, ProgressTypeOK
    <2>q. QED
        BY <2>1, <2>2, <2>3, <2>4 DEF IInv, TypeOK
<1>2. \A q \in Flow : WireOK(q)'
    BY DEF IInv, TypeOK, RegistryTypeOK, ProgressTypeOK, WireOK
<1>3. \A b \in Agents : NonceOK(b)'
    BY DEF IInv, TypeOK, RegistryTypeOK, ProgressTypeOK, WireOK, NonceOK
<1>4. \A b \in kept' : KeptOK(b)'
    <2> DEFINE Attends(q) == at[q] = "looping" \/ Starting(q)
    <2>1. of[r] \in Agents /\ nonce[r] # 0
        BY DEF IInv, TypeOK, ProgressTypeOK, WireOK
    <2>2. ASSUME NEW q \in Flow, Attends(q)
          PROVE  /\ at[q] = "looping" => at'[q] = "looping"
                 /\ Starting(q) => Starting(q)'
        BY DEF IInv, TypeOK, ProgressTypeOK, Starting, Then, Underway, Trying, Done,
            Requests
    <2>3. ASSUME NEW b \in Agents, b # of[r], KeptOK(b) PROVE KeptOK(b)'
        <3>1. listed'[b] = listed[b] /\ age'[b] = age[b]
            BY <2>3 DEF IInv, TypeOK, RegistryTypeOK
        <3>q. QED
            BY <2>2, <2>3, <3>1 DEF KeptOK, Keeps
    <2>4. listed'[of[r]] # 0 /\ age'[of[r]] = 0
        BY <2>1 DEF IInv, TypeOK, RegistryTypeOK
    <2>5. ASSUME NEW q \in Flow, of[q] = of[r], Attends(q) PROVE Keeps(q, of[r])'
        <3>1. timer[q] \in Nat /\ Grace(miss[q]) \in Nat
            BY GraceFacts DEF IInv, TypeOK, ProgressTypeOK
        <3>2. at'[q] = "looping" \/ Starting(q)'
            BY <2>2, <2>5
        <3>3. 0 <= Grace(miss[q]) + timer[q] /\ 0 <= timer[q]
            BY <3>1
        <3>q. QED
            BY <2>4, <2>5, <3>2, <3>3 DEF Keeps
    <2>6. of[r] \in kept' => \E q \in Flow : of[q] = of[r] /\ Attends(q)
        BY DEF IInv, KeptOK, Keeps, Attended
    <2>7. of[r] \in kept' => KeptOK(of[r])'
        BY <2>4, <2>5, <2>6 DEF KeptOK
    <2>8. \A b \in kept' : b # of[r] => b \in kept /\ b \in Agents
        BY DEF IInv, TypeOK
    <2>q. QED
        BY <2>3, <2>7, <2>8 DEF IInv
<1>5. NoOrphanUnlessRaced'
    BY DEF IInv, TypeOK, RuntimeTypeOK, ProgressTypeOK, NoOrphanUnlessRaced, Then,
        Underway, Trying, Done, Requests
<1>6. Fits'
    BY FewerFit DEF Held, Coming, IInv, TypeOK, RegistryTypeOK
<1>7. \A q \in Flow : DueOK(q)'
    BY DEF IInv, TypeOK, ProgressTypeOK, DueOK, Then, Underway, Trying, Done, Requests
<1>q. QED
    BY <1>1, <1>2, <1>3, <1>4, <1>5, <1>6, <1>7 DEF IInv

LEMMA RejectCompleteStep ==
    ASSUME IInv, NEW r \in Flow, RejectComplete(r)
    PROVE  IInv'
<1> USE RegistryAssumption, ListingAssumption, PeriodFacts
    DEF RegistryAssumption, ListingAssumption, RejectComplete, Refuse, runtime
<1>1. TypeOK'
    <2>1. RegistryTypeOK'
        BY DEF IInv, TypeOK, RegistryTypeOK, ProgressTypeOK
    <2>2. ProgressTypeOK'
        BY DEF IInv, TypeOK, RegistryTypeOK, ProgressTypeOK, Then, Underway, Trying,
            Done, Requests
    <2>3. RuntimeTypeOK'
        BY Loops, <2>2 DEF IInv, TypeOK, RuntimeTypeOK, ProgressTypeOK, Then, Underway,
            Trying, Done
    <2>q. QED
        BY <2>1, <2>2, <2>3 DEF IInv, TypeOK
<1>2. \A q \in Flow : WireOK(q)'
    BY DEF IInv, TypeOK, RegistryTypeOK, ProgressTypeOK, WireOK
<1>3. \A b \in Agents : NonceOK(b)'
    BY DEF IInv, TypeOK, RegistryTypeOK, ProgressTypeOK, WireOK, NonceOK
<1>4. \A b \in kept' : KeptOK(b)'
    <2>1. ASSUME NEW b \in Agents, NEW q \in Flow, Keeps(q, b) PROVE Keeps(q, b)'
        BY <2>1 DEF IInv, TypeOK, RegistryTypeOK, ProgressTypeOK, Keeps, Starting,
            Then, Underway, Trying, Done, Requests
    <2>q. QED
        BY <2>1 DEF IInv, TypeOK, RegistryTypeOK, ProgressTypeOK, KeptOK
<1>5. NoOrphanUnlessRaced'
    BY DEF IInv, TypeOK, RuntimeTypeOK, ProgressTypeOK, NoOrphanUnlessRaced, Then,
        Underway, Trying, Done, Requests
<1>6. Fits'
    BY FewerFit DEF Held, Coming, IInv, TypeOK, RegistryTypeOK
<1>7. \A q \in Flow : DueOK(q)'
    BY DEF IInv, TypeOK, ProgressTypeOK, DueOK, Then, Underway, Trying, Done, Requests
<1>q. QED
    BY <1>1, <1>2, <1>3, <1>4, <1>5, <1>6, <1>7 DEF IInv

-----------------------------------------------------------------------------
(* The loop, the directory and time.                                         *)

LEMMA BeatStep ==
    ASSUME IInv, NEW r \in Flow, Beat(r)
    PROVE  IInv'
<1> USE RegistryAssumption, ListingAssumption, PeriodFacts
    DEF RegistryAssumption, ListingAssumption, Beat, Renew, Alive, runtime
<1>1. TypeOK'
    <2>1. RegistryTypeOK'
        BY DEF IInv, TypeOK, RegistryTypeOK, ProgressTypeOK
    <2>2. ProgressTypeOK'
        BY DEF IInv, TypeOK, RegistryTypeOK, ProgressTypeOK, Then, Underway, Trying,
            Done, Requests
    <2>3. RuntimeTypeOK'
        BY Loops, <2>2 DEF IInv, TypeOK, RuntimeTypeOK, ProgressTypeOK, Then, Underway,
            Trying, Done
    <2>q. QED
        BY <2>1, <2>2, <2>3 DEF IInv, TypeOK
<1>2. \A q \in Flow : WireOK(q)'
    BY DEF IInv, TypeOK, RegistryTypeOK, ProgressTypeOK, WireOK
<1>3. \A b \in Agents : NonceOK(b)'
    BY DEF IInv, TypeOK, RegistryTypeOK, ProgressTypeOK, WireOK, NonceOK
<1>4. \A b \in kept' : KeptOK(b)'
    <2>1. ASSUME NEW b \in Agents, NEW q \in Flow, Keeps(q, b), listed[b] # 0
          PROVE  Keeps(q, b)'
        <3>1. CASE b = of[r]
            <4>1. age'[b] = 0
                BY <2>1, <3>1, KeptAlive DEF IInv, TypeOK, RegistryTypeOK
            <4>2. timer'[q] \in Nat /\ Grace(miss'[q]) \in Nat
                BY <1>1, GraceFacts DEF TypeOK, ProgressTypeOK
            <4>3. 0 <= Grace(miss'[q]) + timer'[q] /\ 0 <= timer'[q]
                BY <4>2
            <4>q. QED
                BY <2>1, <4>1, <4>3 DEF Keeps, Starting
        <3>2. CASE b # of[r]
            <4>1. /\ age'[b] = age[b]
                  /\ timer'[q] = timer[q] /\ miss'[q] = miss[q]
                BY <2>1, <3>2 DEF IInv, TypeOK, RegistryTypeOK, ProgressTypeOK, Keeps
            <4>q. QED
                BY <2>1, <4>1 DEF Keeps, Starting
        <3>q. QED
            BY <3>1, <3>2
    <2>q. QED
        BY <2>1 DEF IInv, TypeOK, KeptOK
<1>5. NoOrphanUnlessRaced'
    BY DEF IInv, TypeOK, RuntimeTypeOK, ProgressTypeOK, NoOrphanUnlessRaced, Then,
        Underway, Trying, Done, Requests
<1>6. Fits'
    BY FewerFit DEF Held, Coming, IInv, TypeOK, RegistryTypeOK
<1>7. \A q \in Flow : DueOK(q)'
    BY DEF IInv, TypeOK, ProgressTypeOK, DueOK, Then, Underway, Trying, Done, Requests
<1>q. QED
    BY <1>1, <1>2, <1>3, <1>4, <1>5, <1>6, <1>7 DEF IInv

LEMMA BeatLostStep ==
    ASSUME IInv, NEW r \in Flow, BeatLost(r)
    PROVE  IInv'
<1> USE RegistryAssumption, ListingAssumption, PeriodFacts
    DEF RegistryAssumption, ListingAssumption, BeatLost, registry, runtime
<1>1. TypeOK'
    <2>1. RegistryTypeOK'
        BY DEF IInv, TypeOK, RegistryTypeOK, ProgressTypeOK
    <2>2. ProgressTypeOK'
        BY DEF IInv, TypeOK, RegistryTypeOK, ProgressTypeOK, Then, Underway, Trying,
            Done, Requests
    <2>3. RuntimeTypeOK'
        BY Loops, <2>2 DEF IInv, TypeOK, RuntimeTypeOK, ProgressTypeOK, Then, Underway,
            Trying, Done
    <2>q. QED
        BY <2>1, <2>2, <2>3 DEF IInv, TypeOK
<1>2. \A q \in Flow : WireOK(q)'
    BY DEF IInv, TypeOK, RegistryTypeOK, ProgressTypeOK, WireOK
<1>3. \A b \in Agents : NonceOK(b)'
    BY DEF IInv, TypeOK, RegistryTypeOK, ProgressTypeOK, WireOK, NonceOK
<1>4. \A b \in kept' : KeptOK(b)'
    <2>1. ASSUME NEW b \in Agents, NEW q \in Flow, Keeps(q, b) PROVE Keeps(q, b)'
        <3>1. CASE q = r
            <4>1. /\ age[b] <= Grace(miss[r]) + timer[r] /\ of[r] = b
                  /\ age[b] \in Nat /\ timer[r] \in Nat /\ timer[r] <= Period
                  /\ miss[r] \in 0 .. Losses
                BY <2>1, <3>1 DEF IInv, TypeOK, RegistryTypeOK, ProgressTypeOK,
                    Keeps, Starting, Underway, Trying, Done, Requests
            <4>2. /\ Grace(miss[r]) \in Nat
                  /\ Grace(miss[r]) + Period = Grace(miss[r] + 1)
                BY <4>1, GraceFacts
            <4>3. miss'[r] = miss[r] + 1 /\ timer'[r] = 0
                BY DEF IInv, TypeOK, ProgressTypeOK
            <4>4. age[b] <= Grace(miss'[r]) + timer'[r]
                BY <4>1, <4>2, <4>3
            <4>q. QED
                BY <3>1, <4>1, <4>4 DEF Keeps
        <3>2. CASE q # r
            BY <2>1, <3>2 DEF IInv, TypeOK, ProgressTypeOK, Keeps, Starting
        <3>q. QED
            BY <3>1, <3>2
    <2>q. QED
        BY <2>1 DEF IInv, TypeOK, RegistryTypeOK, ProgressTypeOK, KeptOK
<1>5. NoOrphanUnlessRaced'
    BY DEF IInv, TypeOK, RuntimeTypeOK, ProgressTypeOK, NoOrphanUnlessRaced, Then,
        Underway, Trying, Done, Requests
<1>6. Fits'
    BY FewerFit DEF Held, Coming, IInv, TypeOK, RegistryTypeOK
<1>7. \A q \in Flow : DueOK(q)'
    BY DEF IInv, TypeOK, ProgressTypeOK, DueOK, Then, Underway, Trying, Done, Requests
<1>q. QED
    BY <1>1, <1>2, <1>3, <1>4, <1>5, <1>6, <1>7 DEF IInv

LEMMA BeatRaisesStep ==
    ASSUME IInv, NEW r \in Flow, BeatRaises(r)
    PROVE  IInv'
<1> USE RegistryAssumption, ListingAssumption, PeriodFacts
    DEF RegistryAssumption, ListingAssumption, BeatRaises, Renew, Alive, registry, runtime
<1>1. TypeOK'
    <2>1. RegistryTypeOK'
        BY DEF IInv, TypeOK, RegistryTypeOK, ProgressTypeOK
    <2>2. ProgressTypeOK'
        BY DEF IInv, TypeOK, RegistryTypeOK, ProgressTypeOK, Then, Underway, Trying,
            Done, Requests
    <2>3. RuntimeTypeOK'
        BY Loops, <2>2 DEF IInv, TypeOK, RuntimeTypeOK, ProgressTypeOK, Then, Underway,
            Trying, Done
    <2>q. QED
        BY <2>1, <2>2, <2>3 DEF IInv, TypeOK
<1>2. \A q \in Flow : WireOK(q)'
    BY DEF IInv, TypeOK, RegistryTypeOK, ProgressTypeOK, WireOK
<1>3. \A b \in Agents : NonceOK(b)'
    BY DEF IInv, TypeOK, RegistryTypeOK, ProgressTypeOK, WireOK, NonceOK
<1>4. \A b \in kept' : KeptOK(b)'
    <2> SUFFICES ASSUME NEW b \in kept \ {of[r]} PROVE KeptOK(b)'
        BY DEF IInv, TypeOK
    <2>1. b \in Agents /\ listed'[b] = listed[b] /\ age'[b] = age[b]
        BY DEF IInv, TypeOK, RegistryTypeOK
    <2>2. ASSUME NEW q \in Flow, Keeps(q, b) PROVE Keeps(q, b)'
        <3>1. q # r
            BY <2>2 DEF Keeps
        <3>q. QED
            BY <2>1, <2>2, <3>1 DEF IInv, TypeOK, ProgressTypeOK, Keeps, Starting
    <2>q. QED
        BY <2>1, <2>2 DEF IInv, KeptOK
<1>5. NoOrphanUnlessRaced'
    BY DEF IInv, TypeOK, RuntimeTypeOK, ProgressTypeOK, NoOrphanUnlessRaced, Then,
        Underway, Trying, Done, Requests
<1>6. Fits'
    BY FewerFit DEF Held, Coming, IInv, TypeOK, RegistryTypeOK
<1>7. \A q \in Flow : DueOK(q)'
    BY DEF IInv, TypeOK, ProgressTypeOK, DueOK, Then, Underway, Trying, Done, Requests
<1>q. QED
    BY <1>1, <1>2, <1>3, <1>4, <1>5, <1>6, <1>7 DEF IInv

LEMMA RenewedByOtherStep ==
    ASSUME IInv, NEW c \in Agents, RenewedByOther(c)
    PROVE  IInv'
<1> USE RegistryAssumption, ListingAssumption, PeriodFacts
    DEF RegistryAssumption, ListingAssumption, RenewedByOther, Renew, Alive, runtime, progress
<1>1. TypeOK'
    <2>1. RegistryTypeOK'
        BY DEF IInv, TypeOK, RegistryTypeOK, ProgressTypeOK
    <2>2. ProgressTypeOK'
        BY DEF IInv, TypeOK, RegistryTypeOK, ProgressTypeOK, Then, Underway, Trying,
            Done, Requests
    <2>3. RuntimeTypeOK'
        BY Loops, <2>2 DEF IInv, TypeOK, RuntimeTypeOK, ProgressTypeOK, Then, Underway,
            Trying, Done
    <2>q. QED
        BY <2>1, <2>2, <2>3 DEF IInv, TypeOK
<1>2. \A q \in Flow : WireOK(q)'
    BY DEF IInv, TypeOK, RegistryTypeOK, ProgressTypeOK, WireOK
<1>3. \A b \in Agents : NonceOK(b)'
    BY DEF IInv, TypeOK, RegistryTypeOK, ProgressTypeOK, WireOK, NonceOK
<1>4. \A b \in kept' : KeptOK(b)'
    <2>1. ASSUME NEW b \in Agents PROVE age'[b] \in {0, age[b]} /\ listed'[b] = listed[b]
        BY DEF IInv, TypeOK, RegistryTypeOK
    <2>2. ASSUME NEW b \in Agents, NEW q \in Flow, Keeps(q, b) PROVE Keeps(q, b)'
        <3>1. timer[q] \in Nat /\ Grace(miss[q]) \in Nat
            BY GraceFacts DEF IInv, TypeOK, ProgressTypeOK
        <3>2. 0 <= Grace(miss[q]) + timer[q] /\ 0 <= timer[q]
            BY <3>1
        <3>q. QED
            BY <2>1, <2>2, <3>2 DEF Keeps, Starting
    <2>q. QED
        BY <2>1, <2>2 DEF IInv, TypeOK, KeptOK
<1>5. NoOrphanUnlessRaced'
    BY DEF IInv, TypeOK, RuntimeTypeOK, ProgressTypeOK, NoOrphanUnlessRaced, Then,
        Underway, Trying, Done, Requests
<1>6. Fits'
    BY FewerFit DEF Held, Coming, IInv, TypeOK, RegistryTypeOK
<1>7. \A q \in Flow : DueOK(q)'
    BY DEF IInv, TypeOK, ProgressTypeOK, DueOK, Then, Underway, Trying, Done, Requests
<1>q. QED
    BY <1>1, <1>2, <1>3, <1>4, <1>5, <1>6, <1>7 DEF IInv

LEMMA RestartStep ==
    ASSUME IInv, RestartRegistry
    PROVE  IInv'
<1> USE RegistryAssumption, ListingAssumption, PeriodFacts
    DEF RegistryAssumption, ListingAssumption, RestartRegistry, Forget, runtime, progress
<1>1. TypeOK'
    <2>1. RegistryTypeOK'
        <3>1. 0 \in 0 .. EntryTTL + 1
            OBVIOUS
        <3>q. QED
            BY <3>1 DEF IInv, TypeOK, RegistryTypeOK
    <2>2. ProgressTypeOK'
        BY DEF IInv, TypeOK, RegistryTypeOK, ProgressTypeOK, Then, Underway, Trying,
            Done, Requests
    <2>3. RuntimeTypeOK'
        BY Loops, <2>2 DEF IInv, TypeOK, RuntimeTypeOK, ProgressTypeOK, Then, Underway,
            Trying, Done
    <2>q. QED
        BY <2>1, <2>2, <2>3 DEF IInv, TypeOK
<1>2. \A q \in Flow : WireOK(q)'
    BY DEF IInv, TypeOK, RegistryTypeOK, ProgressTypeOK, WireOK
<1>3. \A b \in Agents : NonceOK(b)'
    BY DEF IInv, TypeOK, RegistryTypeOK, ProgressTypeOK, WireOK, NonceOK
<1>4. \A b \in kept' : KeptOK(b)'
    OBVIOUS
<1>5. NoOrphanUnlessRaced'
    BY DEF IInv, TypeOK, RuntimeTypeOK, ProgressTypeOK, NoOrphanUnlessRaced, Then,
        Underway, Trying, Done, Requests
<1>6. Fits'
    <2>1. Held' \cup Coming' = {}
        BY DEF Held, Coming
    <2>2. Cardinality(Held' \cup Coming') = 0
        BY <2>1, FS_EmptySet
    <2>q. QED
        BY <2>2 DEF Fits
<1>7. \A q \in Flow : DueOK(q)'
    BY DEF IInv, TypeOK, ProgressTypeOK, DueOK, Then, Underway, Trying, Done, Requests
<1>q. QED
    BY <1>1, <1>2, <1>3, <1>4, <1>5, <1>6, <1>7 DEF IInv

LEMMA TickStep ==
    ASSUME IInv, Tick
    PROVE  IInv'
<1> USE RegistryAssumption, ListingAssumption, PeriodFacts
    DEF RegistryAssumption, ListingAssumption, Tick, Grow, Older, Busy, Deadline, runtime
<1>1. TypeOK'
    <2>1. RegistryTypeOK'
        BY DEF IInv, TypeOK, RegistryTypeOK, ProgressTypeOK
    <2>2. ProgressTypeOK'
        BY DEF IInv, TypeOK, RegistryTypeOK, ProgressTypeOK, Then, Underway, Trying,
            Done, Requests
    <2>3. RuntimeTypeOK'
        BY Loops, <2>2 DEF IInv, TypeOK, RuntimeTypeOK, ProgressTypeOK, Then, Underway,
            Trying, Done
    <2>q. QED
        BY <2>1, <2>2, <2>3 DEF IInv, TypeOK
<1>2. \A q \in Flow : WireOK(q)'
    BY DEF IInv, TypeOK, RegistryTypeOK, ProgressTypeOK, WireOK
<1>3. \A b \in Agents : NonceOK(b)'
    BY DEF IInv, TypeOK, RegistryTypeOK, ProgressTypeOK, WireOK, NonceOK
<1>4. \A b \in kept' : KeptOK(b)'
    <2>1. ASSUME NEW b \in Agents, NEW q \in Flow, Keeps(q, b) PROVE Keeps(q, b)'
        <3>1. age[b] \in Nat /\ age'[b] \in Nat /\ age'[b] <= age[b] + 1
            BY DEF IInv, TypeOK, RegistryTypeOK
        <3>2. timer[q] \in Nat /\ timer'[q] = timer[q] + 1 /\ miss[q] \in 0 .. Losses
            BY <2>1 DEF IInv, TypeOK, ProgressTypeOK, Keeps, Starting
        <3>3. Grace(miss[q]) \in Nat
            BY <3>2, GraceFacts
        <3>4. /\ age[b] <= timer[q] => age'[b] <= timer'[q]
              /\ age[b] <= Grace(miss[q]) + timer[q] =>
                    age'[b] <= Grace(miss[q]) + timer'[q]
            BY <3>1, <3>2, <3>3
        <3>q. QED
            BY <2>1, <3>4 DEF Keeps, Starting
    <2>q. QED
        BY <2>1 DEF IInv, TypeOK, RegistryTypeOK, ProgressTypeOK, KeptOK
<1>5. NoOrphanUnlessRaced'
    BY DEF IInv, TypeOK, RuntimeTypeOK, ProgressTypeOK, NoOrphanUnlessRaced, Then,
        Underway, Trying, Done, Requests
<1>6. Fits'
    BY FewerFit DEF Held, Coming, IInv, TypeOK, RegistryTypeOK
<1>7. \A q \in Flow : DueOK(q)'
    BY DEF IInv, TypeOK, ProgressTypeOK, DueOK, Then, Underway, Trying, Done, Requests
<1>q. QED
    BY <1>1, <1>2, <1>3, <1>4, <1>5, <1>6, <1>7 DEF IInv

-----------------------------------------------------------------------------
(* The theorems.                                                           *)

LEMMA NextStep == IInv /\ [Next]_vars => IInv'
<1> SUFFICES ASSUME IInv, [Next]_vars PROVE IInv'
    OBVIOUS
<1>1. ASSUME NEW a \in Agents, OwnerStep(a) PROVE IInv'
    BY <1>1, StartBeginsStep, StartServesStep, StartUnboundStep, RegisterStep, StopStep
    DEF OwnerStep
<1>7. ASSUME NEW a \in Agents, RenewedByOther(a) PROVE IInv'
    BY <1>7, RenewedByOtherStep
<1>2. ASSUME NEW r \in Flow, RegistrationStep(r) PROVE IInv'
    BY <1>2, GiveUpStep, HandleSubmitStep, RejectSubmitStep, HandleCompleteStep,
       RejectCompleteStep DEF RegistrationStep
<1>3. ASSUME NEW r \in Flow, LoopStep(r) PROVE IInv'
    BY <1>3, StartLoopStep, BeatStep, BeatLostStep, BeatRaisesStep DEF LoopStep
<1>4. CASE RestartRegistry
    BY <1>4, RestartStep
<1>5. CASE Tick
    BY <1>5, TickStep
<1>6. CASE UNCHANGED vars
    BY <1>6 DEF vars, registry, runtime, progress, IInv, TypeOK, RegistryTypeOK,
        RuntimeTypeOK, ProgressTypeOK, WireOK, DueOK, NonceOK, KeptOK, Keeps, Starting,
        NoOrphanUnlessRaced, Fits, Held, Coming
<1>q. QED
    BY <1>1, <1>2, <1>3, <1>4, <1>5, <1>6, <1>7 DEF Next

\* IInv is inductive, and so holds in every reachable state: the age of an entry
\* is bounded by what its loop waited, and nonces only grow.
THEOREM Invariance == Spec => []IInv
BY Initially, NextStep, PTL DEF Spec

\* TypeOK holds; self.heartbeat refers to a loop of its own agent, which stop has
\* not signalled, whether its thread still runs or not.
THEOREM TypeCorrect == Spec => []TypeOK
BY Invariance, PTL DEF IInv

\* An agent stays listed while the thread of its loop lives, though heartbeats do
\* not reach the directory (HeartbeatLoop of registry_client.py against the expiry
\* of registry.py).
THEOREM Stays == Spec => []StaysListed
<1>1. IInv => StaysListed
    <2> SUFFICES ASSUME IInv, NEW a \in kept PROVE a \in Shown
        BY DEF StaysListed
    <2>1. a \in Agents /\ KeptOK(a)
        BY DEF IInv, TypeOK
    <2>2. age[a] <= EntryTTL
        BY <2>1, KeptAlive DEF IInv, KeptOK
    <2>q. QED
        BY <2>1, <2>2 DEF KeptOK, Shown, Alive
<1>q. QED
    BY <1>1, Invariance, PTL

\* No loop runs on that stop does not know of, but those that raced with it.
THEOREM NoOrphans == Spec => []NoOrphanUnlessRaced
BY Invariance, PTL DEF IInv

\* The directory keeps within MAX_AGENTS, unless several were let in at once.
THEOREM WithinCapacity == Spec => []CapacityUnlessCrowded
<1>1. IInv => CapacityUnlessCrowded
    <2> SUFFICES ASSUME IInv, ~crowded PROVE Cardinality(Held) <= MaxAgents
        BY DEF CapacityUnlessCrowded
    <2>1. IsFiniteSet(Held \cup Coming) /\ Held \in SUBSET (Held \cup Coming)
        BY FS_Subset, RegistryAssumption DEF RegistryAssumption, Held, Coming
    <2>2. Cardinality(Held) <= Cardinality(Held \cup Coming)
        BY <2>1, FS_Subset
    <2>3. Cardinality(Held \cup Coming) <= MaxAgents
        BY DEF IInv, Fits
    <2>4. Cardinality(Held) \in Nat /\ Cardinality(Held \cup Coming) \in Nat
        BY <2>1, FS_Subset, FS_CardinalityType
    <2>q. QED
        BY <2>2, <2>3, <2>4, RegistryAssumption DEF RegistryAssumption
<1>q. QED
    BY <1>1, Invariance, PTL

\* An entry never goes back to an older registration, but when the directory is
\* restarted (complete_registration of registry.py).
THEOREM OnlyNewer == Spec => NeverOlder
<1> DEFINE Newer == \A a \in Agents : listed'[a] >= listed[a] \/ restarts' # restarts
<1>1. ASSUME IInv, [Next]_vars PROVE [Newer]_vars
    <2>0. \A a \in Agents : listed[a] \in Nat
        BY <1>1 DEF IInv, TypeOK, RegistryTypeOK
    <2>1. ASSUME NEW r \in Flow, HandleComplete(r) PROVE Newer
        <3>1. of[r] \in Agents /\ nonce[r] # 0 /\ challenge[of[r]] = nonce[r]
            BY <1>1, <2>1 DEF IInv, TypeOK, ProgressTypeOK, WireOK, HandleComplete, Complete
        <3>2. listed[of[r]] <= nonce[r]
            BY <1>1, <3>1 DEF IInv, NonceOK
        <3>3. listed' = [listed EXCEPT ![of[r]] = nonce[r]]
            BY <2>1 DEF HandleComplete, Complete, Listed
        <3>4. nonce[r] \in Nat
            BY <1>1 DEF IInv, TypeOK, ProgressTypeOK
        <3>q. QED
            BY <1>1, <2>0, <3>1, <3>2, <3>3, <3>4 DEF IInv, TypeOK, RegistryTypeOK
    <2>2. CASE UNCHANGED listed
        BY <2>0, <2>2
    <2>3. CASE RestartRegistry
        BY <1>1, <2>3 DEF RestartRegistry, IInv, TypeOK
    <2>4. ASSUME NEW a \in Agents, OwnerStep(a) PROVE UNCHANGED listed
        BY <2>4 DEF OwnerStep, Start, StartUnbound, Register, Stop, registry
    <2>5. ASSUME NEW r \in Flow, RegistrationStep(r) PROVE HandleComplete(r) \/ UNCHANGED listed
        BY <2>5 DEF RegistrationStep, GiveUp, HandleSubmit, Submit, RejectSubmit,
            RejectComplete, Refuse, registry
    <2>6. ASSUME NEW r \in Flow, LoopStep(r) PROVE UNCHANGED listed
        BY <2>6 DEF LoopStep, StartLoop, Beat, Renew, BeatLost, BeatRaises, registry
    <2>8. ASSUME NEW a \in Agents, RenewedByOther(a) PROVE UNCHANGED listed
        BY <2>8 DEF RenewedByOther, Renew
    <2>7. CASE Tick
        BY <2>2, <2>7 DEF Tick, Grow
    <2>q. QED
        BY <1>1, <2>1, <2>2, <2>3, <2>4, <2>5, <2>6, <2>7, <2>8 DEF Next
<1>q. QED
    BY <1>1, Invariance, PTL DEF NeverOlder, Spec

=============================================================================
