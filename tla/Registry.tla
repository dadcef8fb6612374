------------------------------ MODULE Registry ------------------------------
(***************************************************************************)
(* The public directory of agents, haap/registry.py: RegistryStore and the *)
(* handler that calls it.  A registration takes two requests.  The first   *)
(* is answered with a challenge, a nonce; the second lists the agent if it *)
(* answers the pending challenge.  An entry lives until no heartbeat has   *)
(* come for EntryTTL; then it is hidden, and it is never removed.          *)
(*                                                                         *)
(* Nonces are counted in the order in which they were issued, and an entry *)
(* carries the nonce of the registration whose manifest it shows.  Time is *)
(* kept as ages, which stop growing when only their being past the bound   *)
(* matters.  Each method runs under the lock of the store and is one step. *)
(* Signatures and the form of a manifest are taken as valid.               *)
(***************************************************************************)
EXTENDS Integers, FiniteSets

CONSTANTS
    Agents,      \* the fingerprints
    MaxAgents,   \* MAX_AGENTS
    EntryTTL     \* ENTRY_TTL_S, in ticks

ASSUME RegistryAssumption ==
    /\ IsFiniteSet(Agents)
    /\ MaxAgents \in Nat
    /\ EntryTTL \in Nat

VARIABLES
    listed,      \* listed[a]: the nonce of the entry of a in _agents, or 0
    age,         \* age[a]: the time since last_seen of that entry
    challenge,   \* challenge[a]: the nonce of the pending challenge, or 0
    issued,      \* the last nonce
    crowded      \* auxiliary: more agents were let in at once than there was room for

registry == <<listed, age, challenge, issued, crowded>>

RegistryTypeOK ==
    /\ listed \in [Agents -> Nat]
    /\ age \in [Agents -> 0 .. EntryTTL + 1]
    /\ challenge \in [Agents -> Nat]
    /\ issued \in Nat
    /\ crowded \in BOOLEAN

RegistryInit ==
    /\ listed = [a \in Agents |-> 0]
    /\ age = [a \in Agents |-> 0]
    /\ challenge = [a \in Agents |-> 0]
    /\ issued = 0
    /\ crowded = FALSE

-----------------------------------------------------------------------------
Held == {a \in Agents : listed[a] # 0}

\* Slip: an entry expires with the last tick of its time, and not after it.
ShortLived(a) == listed[a] # 0 /\ age[a] < EntryTTL

\* Slip: an entry once listed is shown for ever.
Immortal(a) == listed[a] # 0

Alive(a) == listed[a] # 0 /\ age[a] <= EntryTTL

\* Slip: one more agent is let in.
RoomForOneMore(a) == Cardinality(Held) <= MaxAgents \/ a \in Held

\* What search, get and count show: they skip what has expired, and remove
\* nothing.
Shown == {a \in Agents : Alive(a)}

\* Expired entries take up room too, and an agent that has one may come back.
Room(a) == Cardinality(Held) < MaxAgents \/ a \in Held

\* The agents that are not listed, and would be if they answered in time.
Coming == {a \in Agents \ Held : challenge[a] # 0}

\* submit_registration: a new challenge replaces a pending one.
Submit(a) ==
    /\ Room(a)
    /\ issued' = issued + 1
    /\ challenge' = [challenge EXCEPT ![a] = issued + 1]
    /\ crowded' = (\/ crowded
                   \/ /\ Coming \ {a} # {}
                      /\ Cardinality(Held \cup Coming \cup {a}) > MaxAgents)
    /\ UNCHANGED <<listed, age>>

Listed(a, nonce) ==
    /\ listed' = [listed EXCEPT ![a] = nonce]
    /\ age' = [age EXCEPT ![a] = 0]

\* Slip: any challenge that was given can be answered, not only the pending one.
CompleteAny(a, nonce) ==
    /\ Listed(a, nonce)
    /\ UNCHANGED <<challenge, issued, crowded>>

\* complete_registration, of a request that answers the challenge in time.
Complete(a, nonce) ==
    /\ challenge[a] = nonce
    /\ Listed(a, nonce)
    /\ challenge' = [challenge EXCEPT ![a] = 0]
    /\ UNCHANGED <<issued, crowded>>

\* Any other such request: no challenge is pending, it has expired, or the
\* proof is for another one.  The pending challenge is lost all the same.
Refuse(a) ==
    /\ challenge' = [challenge EXCEPT ![a] = 0]
    /\ UNCHANGED <<listed, age, issued, crowded>>

\* heartbeat: an entry that has expired is not renewed.  The fingerprint is all
\* that the request holds, and it is not signed.
Renew(a) ==
    /\ age' = [age EXCEPT ![a] = IF Alive(a) THEN 0 ELSE @]
    /\ UNCHANGED <<listed, challenge, issued, crowded>>

\* The state is in memory: a registry that is started again knows nobody.
Forget ==
    /\ listed' = [a \in Agents |-> 0]
    /\ age' = [a \in Agents |-> 0]
    /\ challenge' = [a \in Agents |-> 0]
    /\ crowded' = FALSE
    /\ UNCHANGED issued

Older(a) == IF listed[a] # 0 /\ age[a] <= EntryTTL THEN age[a] + 1 ELSE age[a]

\* Time passes.
Grow ==
    /\ age' = [a \in Agents |-> Older(a)]
    /\ UNCHANGED <<listed, challenge, issued, crowded>>

=============================================================================
