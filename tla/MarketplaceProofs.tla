-------------------------- MODULE MarketplaceProofs --------------------------
(***************************************************************************)
(* Theorems about whom the server serves that is no friend yet, and who    *)
(* becomes one.                                                            *)
(*                                                                         *)
(* Marketplace, for any number of agents, calls, retries and restarts: a   *)
(* call is booked at most once in a life of the business, a client is told *)
(* what the business did, and a block takes hold.                          *)
(*                                                                         *)
(* Approvals, for every set of peers, of policies and of roles.json files: *)
(* what the policy grants.  The invariant is about one peer at a time, and *)
(* most of it is about data: what load_roles makes of any sequence of      *)
(* entries, and what the built-in roles allow.                             *)
(***************************************************************************)
EXTENDS Marketplace, Approvals, FiniteSetTheorems, WellFoundedInduction, TLAPS

\* The stages before and after on_task has reserved.
Before == {"verified", "checked", "running"}
After == {"ran", "accepted", "replying"}

\* What a call that was never let in, or that has a handler, has left behind.
HandlerOK(c) ==
    /\ c \notin accepted =>
        handler[c] = "none" /\ record[c] = "none" /\ booked[c] <= restarts
    /\ handler[c] \in Before => booked[c] <= restarts
    /\ handler[c] \in After /\ backend => booked[c] > 0
    /\ handler[c] \in {"verified", "checked"} => record[c] = "none"
    /\ handler[c] \in {"running", "ran"} => record[c] = "submitted"
    /\ handler[c] = "accepted" => record[c] = "accepted"
    /\ handler[c] = "replying" /\ backend => record[c] = "completed"

\* A client that was answered has no handler any more, until a restart.
AnswerOK(c) ==
    restarts = 0 /\ call[c] \in {"booked", "refused"} =>
        c \in accepted /\ handler[c] = "none"

IInv ==
    /\ TypeOK
    /\ \A c \in Calls : HandlerOK(c)
    /\ \A c \in Calls : AnswerOK(c)
    /\ BookedOnce
    /\ Informed
    /\ BlockTakesHold

LEMMA Initially == Init => IInv
BY MarketplaceAssumption DEF MarketplaceAssumption, Init, IInv, TypeOK, HandlerOK, AnswerOK,
    BookedOnce, Informed, BlockTakesHold, Before, After, Running, Attempt

-----------------------------------------------------------------------------
(* The client.                                                             *)

LEMMA PostStep ==
    ASSUME IInv, NEW c \in Calls, Post(c)
    PROVE  IInv'
<1> USE MarketplaceAssumption
    DEF MarketplaceAssumption, IInv, Post, work, business
<1>1. TypeOK'
    BY DEF TypeOK, Attempt
<1>2. \A d \in Calls : HandlerOK(d)'
    BY DEF HandlerOK, TypeOK, Before, After
<1>3. \A d \in Calls : AnswerOK(d)'
    BY DEF AnswerOK, TypeOK, HandlerOK
<1>4. BookedOnce' /\ Informed' /\ BlockTakesHold'
    BY DEF BookedOnce, Informed, BlockTakesHold, TypeOK, Running,
        HandlerOK, AnswerOK, Before, After
<1>q. QED
    BY <1>1, <1>2, <1>3, <1>4

LEMMA TimeoutStep ==
    ASSUME IInv, NEW c \in Calls, Timeout(c)
    PROVE  IInv'
<1> USE MarketplaceAssumption
    DEF MarketplaceAssumption, IInv, Timeout, work, business
<1>1. TypeOK'
    BY DEF TypeOK, Attempt
<1>2. \A d \in Calls : HandlerOK(d)'
    BY DEF HandlerOK, TypeOK, Before, After
<1>3. \A d \in Calls : AnswerOK(d)'
    BY DEF AnswerOK, TypeOK, HandlerOK
<1>4. BookedOnce' /\ Informed' /\ BlockTakesHold'
    BY DEF BookedOnce, Informed, BlockTakesHold, TypeOK, Running,
        HandlerOK, AnswerOK, Before, After
<1>q. QED
    BY <1>1, <1>2, <1>3, <1>4

-----------------------------------------------------------------------------
(* The handler.                                                            *)

LEMMA VerifyStep ==
    ASSUME IInv, NEW c \in Calls, NEW i \in Attempt, Verify(c, i)
    PROVE  IInv'
<1> USE MarketplaceAssumption
    DEF MarketplaceAssumption, IInv, Verify, Answer, clients, business
<1>1. TypeOK'
    BY DEF TypeOK, Attempt
<1>2. \A d \in Calls : HandlerOK(d)'
    BY DEF HandlerOK, TypeOK, Before, After
<1>3. \A d \in Calls : AnswerOK(d)'
    BY DEF AnswerOK, TypeOK, HandlerOK
<1>4. BookedOnce' /\ Informed' /\ BlockTakesHold'
    BY DEF BookedOnce, Informed, BlockTakesHold, TypeOK, Running,
        HandlerOK, AnswerOK, Before, After
<1>q. QED
    BY <1>1, <1>2, <1>3, <1>4

LEMMA CheckSenderStep ==
    ASSUME IInv, NEW c \in Calls, CheckSender(c)
    PROVE  IInv'
<1> USE MarketplaceAssumption
    DEF MarketplaceAssumption, IInv, CheckSender, Reply, Advance, Answer, clients, business
<1>1. TypeOK'
    BY DEF TypeOK, Attempt, Running, States, Final
<1>2. \A d \in Calls : HandlerOK(d)'
    BY DEF HandlerOK, TypeOK, Before, After
<1>3. \A d \in Calls : AnswerOK(d)'
    BY DEF AnswerOK, TypeOK, HandlerOK
<1>4. BookedOnce' /\ Informed' /\ BlockTakesHold'
    BY DEF BookedOnce, Informed, BlockTakesHold, TypeOK, Running,
        HandlerOK, AnswerOK, Before, After
<1>q. QED
    BY <1>1, <1>2, <1>3, <1>4

LEMMA RefuseStep ==
    ASSUME IInv, NEW c \in Calls, Refuse(c)
    PROVE  IInv'
<1> USE MarketplaceAssumption
    DEF MarketplaceAssumption, IInv, Refuse, Take, Reply, Answer, clients, business
<1>1. TypeOK'
    BY DEF TypeOK, Attempt, Running, States, Final
<1>2. \A d \in Calls : HandlerOK(d)'
    BY DEF HandlerOK, TypeOK, Before, After
<1>3. \A d \in Calls : AnswerOK(d)'
    BY DEF AnswerOK, TypeOK, HandlerOK
<1>4. BookedOnce' /\ Informed' /\ BlockTakesHold'
    BY DEF BookedOnce, Informed, BlockTakesHold, TypeOK, Running,
        HandlerOK, AnswerOK, Before, After
<1>q. QED
    BY <1>1, <1>2, <1>3, <1>4

LEMMA CreateStep ==
    ASSUME IInv, NEW c \in Calls, Create(c)
    PROVE  IInv'
<1> USE MarketplaceAssumption
    DEF MarketplaceAssumption, IInv, Create, Take, Advance, clients, business
<1>1. TypeOK'
    BY DEF TypeOK, Attempt, Running, States, Final
<1>2. \A d \in Calls : HandlerOK(d)'
    BY DEF HandlerOK, TypeOK, Before, After
<1>3. \A d \in Calls : AnswerOK(d)'
    BY DEF AnswerOK, TypeOK, HandlerOK
<1>4. BookedOnce' /\ Informed' /\ BlockTakesHold'
    BY DEF BookedOnce, Informed, BlockTakesHold, TypeOK, Running,
        HandlerOK, AnswerOK, Before, After
<1>q. QED
    BY <1>1, <1>2, <1>3, <1>4

LEMMA ExecuteStep ==
    ASSUME IInv, NEW c \in Calls, Execute(c)
    PROVE  IInv'
<1> USE MarketplaceAssumption
    DEF MarketplaceAssumption, IInv, Execute, Advance, clients, business
<1>1. TypeOK'
    BY DEF TypeOK, Attempt, Running, States, Final, HandlerOK, Before
<1>2. \A d \in Calls : HandlerOK(d)'
    BY DEF HandlerOK, TypeOK, Before, After
<1>3. \A d \in Calls : AnswerOK(d)'
    BY DEF AnswerOK, TypeOK, HandlerOK
<1>4. BookedOnce' /\ Informed' /\ BlockTakesHold'
    BY DEF BookedOnce, Informed, BlockTakesHold, TypeOK, Running,
        HandlerOK, AnswerOK, Before, After
<1>q. QED
    BY <1>1, <1>2, <1>3, <1>4

LEMMA RaiseStep ==
    ASSUME IInv, NEW c \in Calls, Raise(c)
    PROVE  IInv'
<1> USE MarketplaceAssumption
    DEF MarketplaceAssumption, IInv, Raise, Reply, Answer, clients, business
<1>1. TypeOK'
    BY DEF TypeOK, Attempt, Running, States, Final
<1>2. \A d \in Calls : HandlerOK(d)'
    BY DEF HandlerOK, TypeOK, Before, After
<1>3. \A d \in Calls : AnswerOK(d)'
    BY DEF AnswerOK, TypeOK, HandlerOK
<1>4. BookedOnce' /\ Informed' /\ BlockTakesHold'
    BY DEF BookedOnce, Informed, BlockTakesHold, TypeOK, Running,
        HandlerOK, AnswerOK, Before, After
<1>q. QED
    BY <1>1, <1>2, <1>3, <1>4

LEMMA AcceptStep ==
    ASSUME IInv, NEW c \in Calls, Accept(c)
    PROVE  IInv'
<1> USE MarketplaceAssumption
    DEF MarketplaceAssumption, IInv, Accept, Update, Advance, clients, business
<1>1. TypeOK'
    BY DEF TypeOK, Attempt, Running, States, Final
<1>2. \A d \in Calls : HandlerOK(d)'
    BY DEF HandlerOK, TypeOK, Before, After
<1>3. \A d \in Calls : AnswerOK(d)'
    BY DEF AnswerOK, TypeOK, HandlerOK
<1>4. BookedOnce' /\ Informed' /\ BlockTakesHold'
    BY DEF BookedOnce, Informed, BlockTakesHold, TypeOK, Running,
        HandlerOK, AnswerOK, Before, After
<1>q. QED
    BY <1>1, <1>2, <1>3, <1>4

LEMMA CompleteStep ==
    ASSUME IInv, NEW c \in Calls, Complete(c)
    PROVE  IInv'
<1> USE MarketplaceAssumption
    DEF MarketplaceAssumption, IInv, Complete, Update, Advance, clients, business
<1>1. TypeOK'
    BY DEF TypeOK, Attempt, Running, States, Final
<1>2. \A d \in Calls : HandlerOK(d)'
    BY DEF HandlerOK, TypeOK, Before, After
<1>3. \A d \in Calls : AnswerOK(d)'
    BY DEF AnswerOK, TypeOK, HandlerOK
<1>4. BookedOnce' /\ Informed' /\ BlockTakesHold'
    BY DEF BookedOnce, Informed, BlockTakesHold, TypeOK, Running,
        HandlerOK, AnswerOK, Before, After
<1>q. QED
    BY <1>1, <1>2, <1>3, <1>4

LEMMA ConfirmStep ==
    ASSUME IInv, NEW c \in Calls, Confirm(c)
    PROVE  IInv'
<1> USE MarketplaceAssumption
    DEF MarketplaceAssumption, IInv, Confirm, Reply, Answer, clients, business
<1>1. TypeOK'
    BY DEF TypeOK, Attempt, Running, States, Final
<1>2. \A d \in Calls : HandlerOK(d)'
    BY DEF HandlerOK, TypeOK, Before, After
<1>3. \A d \in Calls : AnswerOK(d)'
    BY DEF AnswerOK, TypeOK, HandlerOK
<1>4. BookedOnce' /\ Informed' /\ BlockTakesHold'
    BY DEF BookedOnce, Informed, BlockTakesHold, TypeOK, Running,
        HandlerOK, AnswerOK, Before, After
<1>q. QED
    BY <1>1, <1>2, <1>3, <1>4

-----------------------------------------------------------------------------
(* The rest of the business.                                               *)

LEMMA InquireStep ==
    ASSUME IInv, NEW a \in Agents, Inquire(a)
    PROVE  IInv'
<1> USE MarketplaceAssumption
    DEF MarketplaceAssumption, IInv, Inquire, Take, clients, work, business
<1>1. TypeOK'
    BY DEF TypeOK, Attempt
<1>2. \A d \in Calls : HandlerOK(d)'
    BY DEF HandlerOK, TypeOK, Before, After
<1>3. \A d \in Calls : AnswerOK(d)'
    BY DEF AnswerOK, TypeOK, HandlerOK
<1>4. BookedOnce' /\ Informed' /\ BlockTakesHold'
    BY DEF BookedOnce, Informed, BlockTakesHold, TypeOK, Running,
        HandlerOK, AnswerOK, Before, After
<1>q. QED
    BY <1>1, <1>2, <1>3, <1>4

LEMMA RefillStep ==
    ASSUME IInv, NEW a \in Agents, Refill(a)
    PROVE  IInv'
<1> USE MarketplaceAssumption
    DEF MarketplaceAssumption, IInv, Refill, clients, work, business
<1>1. TypeOK'
    BY DEF TypeOK, Attempt
<1>2. \A d \in Calls : HandlerOK(d)'
    BY DEF HandlerOK, TypeOK, Before, After
<1>3. \A d \in Calls : AnswerOK(d)'
    BY DEF AnswerOK, TypeOK, HandlerOK
<1>4. BookedOnce' /\ Informed' /\ BlockTakesHold'
    BY DEF BookedOnce, Informed, BlockTakesHold, TypeOK, Running,
        HandlerOK, AnswerOK, Before, After
<1>q. QED
    BY <1>1, <1>2, <1>3, <1>4

LEMMA BlockStep ==
    ASSUME IInv, NEW a \in Agents, Block(a)
    PROVE  IInv'
<1> USE MarketplaceAssumption
    DEF MarketplaceAssumption, IInv, Block, clients, work, business
<1>1. TypeOK'
    BY DEF TypeOK, Attempt
<1>2. \A d \in Calls : HandlerOK(d)'
    BY DEF HandlerOK, TypeOK, Before, After
<1>3. \A d \in Calls : AnswerOK(d)'
    BY DEF AnswerOK, TypeOK, HandlerOK
<1>4. BookedOnce' /\ Informed' /\ BlockTakesHold'
    BY DEF BookedOnce, Informed, BlockTakesHold, TypeOK, Running,
        HandlerOK, AnswerOK, Before, After
<1>q. QED
    BY <1>1, <1>2, <1>3, <1>4

LEMMA RemoveStep ==
    ASSUME IInv, NEW a \in Agents, Remove(a)
    PROVE  IInv'
<1> USE MarketplaceAssumption
    DEF MarketplaceAssumption, IInv, Remove, clients, work, business
<1>1. TypeOK'
    BY DEF TypeOK, Attempt
<1>2. \A d \in Calls : HandlerOK(d)'
    BY DEF HandlerOK, TypeOK, Before, After
<1>3. \A d \in Calls : AnswerOK(d)'
    BY DEF AnswerOK, TypeOK, HandlerOK
<1>4. BookedOnce' /\ Informed' /\ BlockTakesHold'
    BY DEF BookedOnce, Informed, BlockTakesHold, TypeOK, Running,
        HandlerOK, AnswerOK, Before, After
<1>q. QED
    BY <1>1, <1>2, <1>3, <1>4

LEMMA AskStep ==
    ASSUME IInv, NEW a \in Agents, Ask(a)
    PROVE  IInv'
<1> USE MarketplaceAssumption
    DEF MarketplaceAssumption, IInv, Ask, clients, work, business
<1>1. TypeOK'
    BY DEF TypeOK, Attempt
<1>2. \A d \in Calls : HandlerOK(d)'
    BY DEF HandlerOK, TypeOK, Before, After
<1>3. \A d \in Calls : AnswerOK(d)'
    BY DEF AnswerOK, TypeOK, HandlerOK
<1>4. BookedOnce' /\ Informed' /\ BlockTakesHold'
    BY DEF BookedOnce, Informed, BlockTakesHold, TypeOK, Running,
        HandlerOK, AnswerOK, Before, After
<1>q. QED
    BY <1>1, <1>2, <1>3, <1>4

LEMMA RestartStep ==
    ASSUME IInv, Restart
    PROVE  IInv'
<1> USE MarketplaceAssumption
    DEF MarketplaceAssumption, IInv, Restart, clients, business
<1>1. TypeOK'
    BY DEF TypeOK, Attempt
<1>2. \A d \in Calls : HandlerOK(d)'
    BY DEF HandlerOK, BookedOnce, TypeOK, Before, After
<1>3. \A d \in Calls : AnswerOK(d)'
    BY DEF AnswerOK, TypeOK, HandlerOK
<1>4. BookedOnce' /\ Informed' /\ BlockTakesHold'
    BY DEF BookedOnce, Informed, BlockTakesHold, TypeOK, Running,
        HandlerOK, AnswerOK, Before, After
<1>q. QED
    BY <1>1, <1>2, <1>3, <1>4

-----------------------------------------------------------------------------
(* The theorems.                                                           *)

\* IInv is inductive, and so holds in every reachable state: the progress of
\* each handler tells whether the executor has reserved and what is recorded.
THEOREM Invariance == Spec => []IInv
<1>1. IInv /\ [Next]_vars => IInv'
    <2> SUFFICES ASSUME IInv, [Next]_vars PROVE IInv'
        OBVIOUS
    <2>1. ASSUME NEW c \in Calls, Post(c) PROVE IInv'
        BY <2>1, PostStep
    <2>2. ASSUME NEW c \in Calls, Timeout(c) PROVE IInv'
        BY <2>2, TimeoutStep
    <2>3. ASSUME NEW c \in Calls, ServiceBook(c) PROVE IInv'
        BY <2>3, VerifyStep, CheckSenderStep, RefuseStep, CreateStep, ExecuteStep,
           RaiseStep, AcceptStep, CompleteStep, ConfirmStep DEF ServiceBook
    <2>4. ASSUME NEW c \in Calls, Cancel(c) PROVE IInv'
        BY <2>4, InquireStep, MarketplaceAssumption DEF Cancel, MarketplaceAssumption
    <2>5. ASSUME NEW a \in Agents, Search(a) \/ Refill(a) PROVE IInv'
        BY <2>5, InquireStep, RefillStep DEF Search
    <2>6. ASSUME NEW a \in Agents, DirectoryStep(a) PROVE IInv'
        BY <2>6, BlockStep, RemoveStep, AskStep DEF DirectoryStep
    <2>7. CASE Restart
        BY <2>7, RestartStep
    <2>8. CASE UNCHANGED vars
        BY <2>8 DEF vars, business, clients, work, IInv, TypeOK, HandlerOK, AnswerOK,
            BookedOnce, Informed, BlockTakesHold
    <2>q. QED
        BY <2>1, <2>2, <2>3, <2>4, <2>5, <2>6, <2>7, <2>8 DEF Next
<1>q. QED
    BY Initially, <1>1, PTL DEF Spec

\* TypeOK holds: the counters stay within their bounds.
THEOREM TypeCorrect == Spec => []TypeOK
BY Invariance, PTL DEF IInv

\* A call books at most once in a life of the business (service_book of
\* client.py against _on_service_book of server.py).
THEOREM BookedAtMostOnce == Spec => []BookedOnce
BY Invariance, PTL DEF IInv

\* What a client is told is what the business did and recorded.
THEOREM ClientsInformed == Spec => []Informed
BY Invariance, PTL DEF IInv

\* Nothing of a blocked agent is let in (_check_marketplace_sender).
THEOREM BlockHolds == Spec => []BlockTakesHold
BY Invariance, PTL DEF IInv

-----------------------------------------------------------------------------
(* Roles: the built-in ones.                                               *)

LEMMA GrantingIsMatrix ==
    ASSUME NEW A \in SUBSET Catalog, NEW S \in SUBSET Patterns
    PROVE  IsMatrix(Granting(A, S)) /\ DOMAIN Granting(A, S) = A
BY DEF IsMatrix, Granting, Entry

LEMMA UpdatedIsMatrix ==
    ASSUME NEW f, NEW g, IsMatrix(f), IsMatrix(g)
    PROVE  IsMatrix(Updated(f, g)) /\ DOMAIN Updated(f, g) = DOMAIN f \cup DOMAIN g
BY DEF IsMatrix, Updated

LEMMA ScopesArePatterns ==
    /\ {} \subseteq Patterns /\ {"booking:*", "service:*"} \subseteq Patterns
    /\ {"*"} \subseteq Patterns /\ {"haap *"} \subseteq Patterns
BY DEF Patterns

LEMMA ActionsInCatalog ==
    /\ {} \subseteq Catalog /\ {"chat:converse"} \subseteq Catalog
    /\ Tasks \subseteq Catalog /\ Reads \subseteq Catalog
    /\ Files \ {"exec:terminal"} \subseteq Catalog /\ {"exec:terminal"} \subseteq Catalog
    /\ Tasks \cup {"chat:converse"} \subseteq Catalog
BY DEF Catalog, Files

LEMMA GrantsAreMatrices ==
    /\ IsMatrix(EmptyMatrix) /\ IsMatrix(GuestMatrix) /\ IsMatrix(ClientMatrix)
    /\ IsMatrix(PartnerMatrix) /\ IsMatrix(AdminMatrix) /\ IsMatrix(DefaultGrant)
<1>1. IsMatrix(EmptyMatrix) /\ IsMatrix(GuestMatrix) /\ IsMatrix(DefaultGrant)
  BY GrantingIsMatrix, ScopesArePatterns, ActionsInCatalog
     DEF EmptyMatrix, GuestMatrix, DefaultGrant
<1>2. IsMatrix(Granting(Tasks, {"booking:*", "service:*"})) /\ IsMatrix(Granting(Reads, {}))
      /\ IsMatrix(Granting(Tasks, {"*"}))
  BY GrantingIsMatrix, ScopesArePatterns, ActionsInCatalog
<1>3. IsMatrix(ClientMatrix) /\ IsMatrix(PartnerMatrix)
  BY <1>1, <1>2, UpdatedIsMatrix DEF ClientMatrix, PartnerMatrix
<1>4. IsMatrix(Granting(Files \ {"exec:terminal"}, {"*"}))
      /\ IsMatrix(Granting({"exec:terminal"}, {"haap *"}))
  BY GrantingIsMatrix, ScopesArePatterns, ActionsInCatalog
<1>5. IsMatrix(AdminMatrix)
  BY <1>3, <1>4, UpdatedIsMatrix DEF AdminMatrix
<1> QED
  BY <1>1, <1>3, <1>5

LEMMA LadderIs == Ladder = {"guest", "client", "partner", "family", "admin"}
BY DEF Ladder, Rank

LEMMA RankIs ==
    /\ Rank["guest"] = 1 /\ Rank["client"] = 2 /\ Rank["partner"] = 3
    /\ Rank["family"] = 4 /\ Rank["admin"] = 5
    /\ \A role \in Ladder : Rank[role] \in 1 .. 5
BY DEF Rank, Ladder

LEMMA BuiltinIs ==
    /\ DOMAIN BuiltinRoles = Ladder
    /\ BuiltinRoles["guest"].permissions = GuestMatrix
    /\ BuiltinRoles["client"].permissions = ClientMatrix
    /\ BuiltinRoles["partner"].permissions = PartnerMatrix
    /\ BuiltinRoles["family"].permissions = PartnerMatrix
    /\ BuiltinRoles["admin"].permissions = AdminMatrix
BY LadderIs DEF BuiltinRoles

LEMMA BuiltinMatrix ==
    ASSUME NEW role \in Ladder PROVE IsMatrix(BuiltinRoles[role].permissions)
BY LadderIs, BuiltinIs, GrantsAreMatrices

-----------------------------------------------------------------------------
(* Roles: what load_roles makes of a file, by taking the first entry after *)
(* which it would not hold.                                                *)

LEMMA LeastNatural ==
    ASSUME NEW S, S \subseteq Nat, S # {}
    PROVE  \E m \in S : \A n \in S : m <= n
<1> DEFINE R == OpToRel(<, Nat)
<1>1. IsWellFoundedOn(R, Nat)
  BY NatLessThanWellFounded
<1>2. \A m, n \in Nat : m < n => <<m, n>> \in R
  BY DEF OpToRel
<1> HIDE DEF R
<1>3. PICK m \in S : \A n \in S : <<n, m>> \notin R
  BY <1>1, WFMin
<1>4. ASSUME NEW n \in S PROVE m <= n
  <2>1. n \in Nat /\ m \in Nat
    OBVIOUS
  <2>2. n < m => <<n, m>> \in R
    BY <1>2, <2>1
  <2> QED
    BY <1>3, <2>1, <2>2
<1> QED
  BY <1>4

WellFormed(spec) ==
    spec.permissions \in {Absent, Malformed} \/ IsMatrix(spec.permissions)

LEMMA MergeFacts ==
    ASSUME NEW roles, NEW spec
    PROVE  LET new == Merge(roles, spec) IN
           /\ DOMAIN new = DOMAIN roles \cup {spec.name}
           /\ \A role \in DOMAIN roles : role # spec.name => new[role] = roles[role]
           /\ (\A role \in DOMAIN roles : WellFormed(roles[role])) /\ WellFormed(spec) =>
                \A role \in DOMAIN new : WellFormed(new[role])
<1> DEFINE base == IF spec.extends \in DOMAIN roles THEN roles[spec.extends] ELSE NoRole
           merged == [permissions |-> Either(spec.permissions, base.permissions),
                      limits |-> Either(spec.limits, base.limits)]
           new == Merge(roles, spec)
<1>1. new = [k \in DOMAIN roles \cup {spec.name} |-> IF k = spec.name THEN merged ELSE roles[k]]
  BY DEF Merge, Updated
<1>2. ASSUME \A role \in DOMAIN roles : WellFormed(roles[role]), WellFormed(spec)
      PROVE  WellFormed(merged)
  <2>1. WellFormed(base)
    BY <1>2 DEF WellFormed, NoRole
  <2>2. merged.permissions = Either(spec.permissions, base.permissions)
    OBVIOUS
  <2> HIDE DEF base, merged
  <2> QED
    BY <1>2, <2>1, <2>2 DEF WellFormed, Either
<1> HIDE DEF merged, base
<1> QED
  BY <1>1, <1>2

Prefix(file, f, n) ==
    f = [i \in 0 .. n |-> IF i = 0 THEN BuiltinRoles ELSE Merge(f[i - 1], file[i])]

LEMMA PrefixExtends ==
    ASSUME NEW file, NEW f, NEW n \in Nat, n # 0, Prefix(file, f, n - 1)
    PROVE  \E g : Prefix(file, g, n)
<1> DEFINE g == [i \in 0 .. n |-> IF i = n THEN Merge(f[n - 1], file[n]) ELSE f[i]]
<1>1. \A i \in 0 .. n - 1 : f[i] = IF i = 0 THEN BuiltinRoles ELSE Merge(f[i - 1], file[i])
  BY DEF Prefix
<1>2. ASSUME NEW i \in 0 .. n
      PROVE  g[i] = IF i = 0 THEN BuiltinRoles ELSE Merge(g[i - 1], file[i])
  <2>1. CASE i = 0
    BY <1>1, <2>1
  <2>2. CASE i # 0 /\ i # n
    <3>1. i \in 0 .. n - 1 /\ i - 1 \in 0 .. n /\ i - 1 # n
      BY <2>2
    <3>2. g[i] = f[i] /\ g[i - 1] = f[i - 1]
      BY <2>2, <3>1
    <3> QED
      BY <1>1, <2>2, <3>1, <3>2
  <2>3. CASE i = n
    <3>1. g[n] = Merge(f[n - 1], file[n]) /\ g[n - 1] = f[n - 1]
      OBVIOUS
    <3> QED
      BY <2>3, <3>1
  <2> QED
    BY <2>1, <2>2, <2>3
<1>3. g = [i \in 0 .. n |-> g[i]]
  OBVIOUS
<1> HIDE DEF g
<1>4. Prefix(file, g, n)
  BY <1>2, <1>3 DEF Prefix
<1> QED
  BY <1>4

LEMMA PrefixExists == ASSUME NEW file, NEW n \in Nat PROVE \E f : Prefix(file, f, n)
<1> DEFINE P(k) == \E f : Prefix(file, f, k)
           S == {k \in Nat : ~ P(k)}
<1>1. P(0)
  <2>1. Prefix(file, [i \in 0 .. 0 |-> BuiltinRoles], 0)
    BY DEF Prefix
  <2> QED
    BY <2>1
<1>2. ASSUME NEW k \in Nat, k # 0, P(k - 1) PROVE P(k)
  BY <1>2, PrefixExtends
<1> HIDE DEF P
<1>3. S = {}
  <2> SUFFICES ASSUME S # {} PROVE FALSE
    OBVIOUS
  <2>1. PICK m \in S : \A k \in S : m <= k
    BY LeastNatural
  <2>2. m \in Nat /\ ~ P(m)
    OBVIOUS
  <2>3. m # 0
    BY <1>1, <2>2
  <2>4. m - 1 \in Nat /\ m - 1 \notin S
    BY <2>1, <2>2, <2>3
  <2>5. P(m - 1)
    BY <2>4
  <2> QED
    BY <1>2, <2>2, <2>3, <2>5
<1>4. P(n)
  BY <1>3
<1> QED
  BY <1>4 DEF P

\* load_roles takes the entries one by one.
LEMMA LoadRolesIs ==
    ASSUME NEW file, Len(file) \in Nat
    PROVE  \E f : Prefix(file, f, Len(file)) /\ LoadRoles(file) = f[Len(file)]
<1> DEFINE n == Len(file)
           f == CHOOSE g : Prefix(file, g, n)
<1>1. Prefix(file, f, n)
  BY PrefixExists
<1>2. LoadRoles(file) = f[n]
  BY DEF LoadRoles, Prefix
<1> QED
  BY <1>1, <1>2

\* A role of the ladder is always there, and it is the built-in one unless
\* roles.json names it.
LEMMA LoadRolesFacts ==
    ASSUME NEW file \in RolesFiles
    PROVE  LET roles == LoadRoles(file) IN
           /\ Ladder \subseteq DOMAIN roles
           /\ \A role \in DOMAIN roles : WellFormed(roles[role])
           /\ (\A i \in DOMAIN file : file[i].name \notin Ladder) =>
                \A role \in Ladder : roles[role] = BuiltinRoles[role]
<1> DEFINE n == Len(file)
           Good(roles) ==
                /\ Ladder \subseteq DOMAIN roles
                /\ \A role \in DOMAIN roles : WellFormed(roles[role])
                /\ (\A i \in DOMAIN file : file[i].name \notin Ladder) =>
                    \A role \in Ladder : roles[role] = BuiltinRoles[role]
<1>1. n \in Nat /\ DOMAIN file = 1 .. n
  BY ApprovalsAssumption
<1>2. PICK f : Prefix(file, f, n) /\ LoadRoles(file) = f[n]
  BY <1>1, LoadRolesIs
<1>3. \A i \in 0 .. n : f[i] = IF i = 0 THEN BuiltinRoles ELSE Merge(f[i - 1], file[i])
  BY <1>2 DEF Prefix
<1>4. Good(BuiltinRoles)
  BY BuiltinIs, BuiltinMatrix DEF WellFormed
<1>5. ASSUME NEW i \in 1 .. n, NEW roles, Good(roles) PROVE Good(Merge(roles, file[i]))
  <2>1. WellFormed(file[i])
    <3>1. file[i] \in Overrides
      BY <1>1 DEF Overrides
    <3> QED
      BY <3>1, ApprovalsAssumption DEF WellFormed
  <2>2. DOMAIN Merge(roles, file[i]) = DOMAIN roles \cup {file[i].name}
    BY MergeFacts
  <2>3. \A role \in DOMAIN roles : role # file[i].name => Merge(roles, file[i])[role] = roles[role]
    BY MergeFacts
  <2>4. \A role \in DOMAIN Merge(roles, file[i]) : WellFormed(Merge(roles, file[i])[role])
    BY <1>5, <2>1, MergeFacts
  <2>5. ASSUME \A j \in DOMAIN file : file[j].name \notin Ladder, NEW role \in Ladder
        PROVE  Merge(roles, file[i])[role] = BuiltinRoles[role]
    BY <1>1, <1>5, <2>3, <2>5
  <2> QED
    BY <1>5, <2>2, <2>4, <2>5
<1> HIDE DEF Good
<1> DEFINE S == {i \in 0 .. n : ~ Good(f[i])}
<1>6. S = {}
  <2> SUFFICES ASSUME S # {} PROVE FALSE
    OBVIOUS
  <2>1. S \subseteq Nat
    OBVIOUS
  <2>2. PICK m \in S : \A i \in S : m <= i
    BY <2>1, LeastNatural
  <2>3. m \in 0 .. n /\ ~ Good(f[m])
    OBVIOUS
  <2>4. m # 0
    BY <1>3, <1>4, <2>3
  <2>5. m \in 1 .. n /\ m - 1 \in 0 .. n /\ m - 1 \notin S
    BY <1>1, <2>2, <2>3, <2>4
  <2>6. Good(f[m - 1])
    BY <2>5
  <2>7. f[m] = Merge(f[m - 1], file[m])
    BY <1>3, <2>3, <2>4
  <2>8. Good(Merge(f[m - 1], file[m]))
    BY <1>5, <2>5, <2>6
  <2> QED
    BY <2>3, <2>7, <2>8
<1>7. Good(LoadRoles(file))
  BY <1>1, <1>2, <1>6
<1> QED
  BY <1>7 DEF Good


-----------------------------------------------------------------------------
(* Approvals: the invariant.                                               *)

\* At most the cap, or a client.
Within(role, cap) ==
    role \in Ladder /\ cap \in Ladder /\ (Rank[role] <= Rank[cap] \/ role = "client")

FriendTyped(rec) ==
    /\ rec = [status |-> rec.status, permissions |-> rec.permissions, limits |-> rec.limits]
    /\ rec.status \in {"none", "pending_in", "accepted", "blocked"}
    /\ IsMatrix(rec.permissions)

CardTyped(c) == c = NoCard \/ Within(c.role, c.cap)

ByTyped(b) ==
    /\ b.who \in {"nobody", "policy", "card", "owner"} /\ b.cap \in Ladder
    /\ b.who \in {"policy", "card"} => Within(b.role, b.cap)

\* What the policy granted is what the built-in role has.
AsBuilt(rec, b) ==
    b.who \in {"policy", "card"} /\ b.plain => rec.permissions = BuiltinRoles[b.role].permissions

PeerOK(p) ==
    FriendTyped(friend[p]) /\ CardTyped(card[p]) /\ ByTyped(by[p]) /\ AsBuilt(friend[p], by[p])

FilesTyped ==
    /\ policyFile \in PolicyFiles /\ rolesFile \in RolesFiles
    /\ policy \in PolicyFiles \cup {DefaultPolicy, NoPolicy}
    /\ edits \in 0 .. MaxEdits

ApprovalsInv ==
    /\ FilesTyped
    /\ friend = [p \in Peers |-> friend[p]]
    /\ card = [p \in Peers |-> card[p]]
    /\ by = [p \in Peers |-> by[p]]
    /\ \A p \in Peers : PeerOK(p)

LEMMA CapWithin ==
    ASSUME NEW role
    PROVE  Within(Cap(role), Ceiling(policy.max)) /\ Within("guest", Ceiling(policy.max))
<1>1. Ceiling(policy.max) \in Ladder
  BY LadderIs DEF Ceiling
<1>2. {"guest", "client"} \subseteq Ladder
  BY LadderIs
<1>3. Rank["guest"] <= Rank[Ceiling(policy.max)]
  BY <1>1, RankIs
<1>4. ASSUME role \in Ladder PROVE Within(Lower(role, Ceiling(policy.max)), Ceiling(policy.max))
  <2>1. Rank[role] \in 1 .. 5 /\ Rank[Ceiling(policy.max)] \in 1 .. 5
    BY <1>1, <1>4, RankIs
  <2> QED
    BY <1>1, <1>4, <2>1 DEF Within, Lower
<1> QED
  BY <1>1, <1>2, <1>3, <1>4 DEF Cap, Within

\* A record that was decided on: somebody's matrix is what was resolved.
LEMMA ApprovedIs ==
    ASSUME NEW rec, NEW matrix, NEW limits, IsMatrix(matrix)
    PROVE  LET new == Approved(rec, matrix, limits) IN
           /\ new = [status |-> new.status, permissions |-> new.permissions, limits |-> new.limits]
           /\ new.status = "accepted" /\ IsMatrix(new.permissions)
           /\ matrix # EmptyMatrix => new.permissions = matrix
BY GrantsAreMatrices DEF Approved

LEMMA ResolvedIs ==
    ASSUME rolesFile \in RolesFiles, NEW role \in DOMAIN LoadRoles(rolesFile),
           MatrixOf(LoadRoles(rolesFile)[role]) # Malformed
    PROVE  IsMatrix(MatrixOf(LoadRoles(rolesFile)[role]))
<1>1. WellFormed(LoadRoles(rolesFile)[role])
  BY LoadRolesFacts
<1> QED
  BY <1>1, GrantsAreMatrices DEF WellFormed, MatrixOf, Either

\* No built-in role has an empty matrix.
LEMMA BuiltinNotEmpty ==
    ASSUME NEW role \in Ladder PROVE BuiltinRoles[role].permissions # EmptyMatrix
<1>1. DOMAIN EmptyMatrix = {}
  BY DEF EmptyMatrix, Granting
<1>2. "chat:converse" \in DOMAIN GuestMatrix
  BY DEF GuestMatrix, Granting
<1>3. "chat:converse" \in DOMAIN ClientMatrix /\ "chat:converse" \in DOMAIN PartnerMatrix
  BY <1>2 DEF ClientMatrix, PartnerMatrix, Updated
<1>4. "chat:converse" \in DOMAIN AdminMatrix
  BY <1>3 DEF AdminMatrix, Updated
<1> QED
  BY <1>1, <1>2, <1>3, <1>4, LadderIs, BuiltinIs

\* While roles.json names no role of the ladder.
LEMMA ResolvedPlain ==
    ASSUME rolesFile \in RolesFiles, Plain, NEW role \in Ladder, NEW rec, NEW limits,
           MatrixOf(LoadRoles(rolesFile)[role]) # Malformed
    PROVE  Approved(rec, MatrixOf(LoadRoles(rolesFile)[role]), limits).permissions
               = BuiltinRoles[role].permissions
<1> DEFINE m == BuiltinRoles[role].permissions
<1>1. LoadRoles(rolesFile)[role] = BuiltinRoles[role] /\ role \in DOMAIN LoadRoles(rolesFile)
  BY LoadRolesFacts DEF Plain
<1>2. MatrixOf(LoadRoles(rolesFile)[role]) = m
  BY <1>1, RolesAssumption DEF MatrixOf, Either
<1> QED
  BY <1>2, BuiltinNotEmpty DEF Approved


-----------------------------------------------------------------------------
(* Approvals: a step about one peer.                                       *)

\* A handler sets the record, the card and the decision of one peer.
PeerStep(p, rec, c, b) ==
    /\ friend' = [friend EXCEPT ![p] = rec]
    /\ card' = [card EXCEPT ![p] = c]
    /\ by' = [by EXCEPT ![p] = b]
    /\ UNCHANGED <<files, policy>>

LEMMA PeerStepInv ==
    ASSUME ApprovalsInv, NEW p \in Peers, NEW rec, NEW c, NEW b, PeerStep(p, rec, c, b),
           FriendTyped(rec), CardTyped(c), ByTyped(b), AsBuilt(rec, b)
    PROVE  ApprovalsInv'
<1>1. /\ FilesTyped
      /\ friend = [q \in Peers |-> friend[q]]
      /\ card = [q \in Peers |-> card[q]]
      /\ by = [q \in Peers |-> by[q]]
      /\ \A q \in Peers : PeerOK(q)
  BY DEF ApprovalsInv
<1>2. FilesTyped'
  BY <1>1 DEF FilesTyped, PeerStep, files
<1>3. /\ friend' = [q \in Peers |-> IF q = p THEN rec ELSE friend[q]]
      /\ card' = [q \in Peers |-> IF q = p THEN c ELSE card[q]]
      /\ by' = [q \in Peers |-> IF q = p THEN b ELSE by[q]]
  BY <1>1 DEF PeerStep
<1>4. /\ friend' = [q \in Peers |-> friend'[q]]
      /\ card' = [q \in Peers |-> card'[q]]
      /\ by' = [q \in Peers |-> by'[q]]
  BY <1>3
<1>5. ASSUME NEW q \in Peers PROVE PeerOK(q)'
  <2>1. CASE q = p
    <3>1. friend'[q] = rec /\ card'[q] = c /\ by'[q] = b
      BY <1>3, <2>1
    <3> QED
      BY <3>1 DEF PeerOK, FriendTyped, CardTyped, ByTyped, AsBuilt
  <2>2. CASE q # p
    <3>1. friend'[q] = friend[q] /\ card'[q] = card[q] /\ by'[q] = by[q]
      BY <1>3, <2>2
    <3> QED
      BY <1>1, <3>1 DEF PeerOK, FriendTyped, CardTyped, ByTyped, AsBuilt
  <2> QED
    BY <2>1, <2>2
<1> QED
  BY <1>2, <1>4, <1>5 DEF ApprovalsInv


LEMMA PeerSame ==
    ASSUME ApprovalsInv, NEW p \in Peers
    PROVE  /\ friend = [friend EXCEPT ![p] = friend[p]]
           /\ card = [card EXCEPT ![p] = card[p]]
           /\ by = [by EXCEPT ![p] = by[p]]
           /\ PeerOK(p)
BY DEF ApprovalsInv

LEMMA UndecidedTyped ==
    /\ FriendTyped(NoRecord) /\ ByTyped(Undecided)
    /\ \A rec : AsBuilt(rec, Undecided)
BY GrantsAreMatrices, LadderIs DEF FriendTyped, NoRecord, ByTyped, Undecided, AsBuilt

LEMMA OwnerTyped ==
    ASSUME NEW role
    PROVE  /\ ByTyped(Decided("owner", role, "admin"))
           /\ \A rec : AsBuilt(rec, Decided("owner", role, "admin"))
BY LadderIs DEF ByTyped, Decided, AsBuilt

LEMMA PolicyTyped ==
    ASSUME NEW role, NEW cap, Within(role, cap), NEW who \in {"policy", "card"}
    PROVE  /\ ByTyped(Decided(who, role, cap))
           /\ Decided(who, role, cap).role = role
           /\ Decided(who, role, cap).plain = Plain
BY DEF ByTyped, Decided, Within

LEMMA PendingTyped ==
    ASSUME NEW p \in Peers, FriendTyped(friend[p])
    PROVE  FriendTyped(Pending(p)) /\ Pending(p).permissions = friend[p].permissions
<1>1. Pending(p) = [status |-> "pending_in", permissions |-> friend[p].permissions,
                    limits |-> friend[p].limits]
  BY DEF Pending, FriendTyped
<1> QED
  BY <1>1 DEF FriendTyped

LEMMA ApprovedTyped ==
    ASSUME NEW rec, NEW matrix, NEW limits, IsMatrix(matrix)
    PROVE  FriendTyped(Approved(rec, matrix, limits))
BY ApprovedIs DEF FriendTyped

\* A role of the ladder that the policy or a card names is resolved.
LEMMA ResolvedTyped ==
    ASSUME rolesFile \in RolesFiles, NEW role, NEW cap, Within(role, cap),
           NEW who \in {"policy", "card"}, NEW rec, NEW limits,
           MatrixOf(LoadRoles(rolesFile)[role]) # Malformed
    PROVE  LET new == Approved(rec, MatrixOf(LoadRoles(rolesFile)[role]), limits) IN
           FriendTyped(new) /\ AsBuilt(new, Decided(who, role, cap))
<1>1. role \in Ladder /\ role \in DOMAIN LoadRoles(rolesFile)
  BY LoadRolesFacts DEF Within
<1>2. FriendTyped(Approved(rec, MatrixOf(LoadRoles(rolesFile)[role]), limits))
  BY <1>1, ResolvedIs, ApprovedTyped
<1>3. Plain => Approved(rec, MatrixOf(LoadRoles(rolesFile)[role]), limits).permissions
                   = BuiltinRoles[role].permissions
  BY <1>1, ResolvedPlain
<1> QED
  BY <1>2, <1>3, PolicyTyped DEF AsBuilt

-----------------------------------------------------------------------------
(* Approvals: the actions.                                                 *)

LEMMA DenyRequestInv ==
    ASSUME ApprovalsInv, NEW p \in Peers, NEW speciality, DenyRequest(p, speciality)
    PROVE  ApprovalsInv'
<1>1. PeerStep(p, NoRecord, card[p], Undecided)
  BY PeerSame DEF DenyRequest, PeerStep
<1>2. CardTyped(card[p])
  BY PeerSame DEF PeerOK
<1> QED
  BY <1>1, <1>2, UndecidedTyped, PeerStepInv

LEMMA WithdrawInv ==
    ASSUME ApprovalsInv, NEW p \in Peers, Withdraw(p) PROVE ApprovalsInv'
<1>1. PeerStep(p, NoRecord, card[p], Undecided)
  BY PeerSame DEF Withdraw, PeerStep
<1>2. CardTyped(card[p])
  BY PeerSame DEF PeerOK
<1> QED
  BY <1>1, <1>2, UndecidedTyped, PeerStepInv

LEMMA AutoApproveInv ==
    ASSUME ApprovalsInv, NEW p \in Peers, NEW speciality, NEW wanted,
           AutoApprove(p, speciality, wanted)
    PROVE  ApprovalsInv'
<1> DEFINE role == RoleOf(Hits(p, speciality)[1], wanted)
           spec == LoadRoles(rolesFile)[role]
           cap == Ceiling(policy.max)
<1>1. PeerOK(p) /\ rolesFile \in RolesFiles
  BY PeerSame DEF ApprovalsInv, FilesTyped
<1>2. Within(role, cap)
  BY CapWithin DEF RoleOf
<1> HIDE DEF role, cap
<1>3. CASE MatrixOf(spec) = Malformed
  <2>1. PeerStep(p, Pending(p), card[p], by[p])
    BY <1>3, PeerSame DEF AutoApprove, PeerStep, role
  <2>2. FriendTyped(Pending(p)) /\ AsBuilt(Pending(p), by[p])
    BY <1>1, PendingTyped DEF PeerOK, AsBuilt
  <2> QED
    BY <1>1, <2>1, <2>2, PeerStepInv DEF PeerOK
<1>4. CASE MatrixOf(spec) # Malformed
  <2> DEFINE new == Approved(Pending(p), MatrixOf(spec), spec.limits)
             b == Decided("policy", role, cap)
  <2>1. PeerStep(p, new, card[p], b)
    BY <1>4, PeerSame DEF AutoApprove, PeerStep, role, cap
  <2>2. FriendTyped(new) /\ AsBuilt(new, b)
    BY <1>1, <1>2, <1>4, ResolvedTyped
  <2>3. ByTyped(b)
    BY <1>2, PolicyTyped
  <2> QED
    BY <1>1, <2>1, <2>2, <2>3, PeerStepInv DEF PeerOK
<1> QED
  BY <1>3, <1>4

LEMMA QueueInv ==
    ASSUME ApprovalsInv, NEW p \in Peers, NEW speciality, NEW wanted,
           Queue(p, speciality, wanted)
    PROVE  ApprovalsInv'
<1> DEFINE role == IF wanted = Absent THEN "guest" ELSE Cap(wanted)
           c == [role |-> role, cap |-> Ceiling(policy.max)]
<1>1. PeerOK(p)
  BY PeerSame
<1>2. Within(role, Ceiling(policy.max))
  BY CapWithin
<1>3. CardTyped(c)
  BY <1>2 DEF CardTyped
<1>4. FriendTyped(Pending(p)) /\ AsBuilt(Pending(p), by[p])
  BY <1>1, PendingTyped DEF PeerOK, AsBuilt
<1>5. PeerStep(p, Pending(p), card[p], by[p]) \/ PeerStep(p, Pending(p), c, by[p])
  BY PeerSame DEF Queue, Notify, PeerStep
<1> HIDE DEF c
<1> QED
  BY <1>1, <1>3, <1>4, <1>5, PeerStepInv DEF PeerOK

LEMMA ApproveByHandInv ==
    ASSUME ApprovalsInv, NEW p \in Peers, NEW role, ApproveByHand(p, role)
    PROVE  ApprovalsInv'
<1> DEFINE spec == LoadRoles(rolesFile)[role]
           new == Approved(friend[p], MatrixOf(spec), spec.limits)
           b == Decided("owner", role, "admin")
<1>1. PeerOK(p) /\ rolesFile \in RolesFiles
  BY PeerSame DEF ApprovalsInv, FilesTyped
<1>2. role \in DOMAIN LoadRoles(rolesFile) /\ MatrixOf(spec) # Malformed
  BY DEF ApproveByHand, Approve
<1>3. FriendTyped(new)
  BY <1>1, <1>2, ResolvedIs, ApprovedTyped
<1>4. PeerStep(p, new, card[p], b)
  BY PeerSame DEF ApproveByHand, Approve, PeerStep
<1> HIDE DEF new, b
<1>5. ByTyped(b) /\ AsBuilt(new, b)
  BY OwnerTyped DEF b
<1> QED
  BY <1>1, <1>3, <1>4, <1>5, PeerStepInv DEF PeerOK

LEMMA ApproveCardInv ==
    ASSUME ApprovalsInv, NEW p \in Peers, ApproveCard(p) PROVE ApprovalsInv'
<1> DEFINE role == card[p].role
           spec == LoadRoles(rolesFile)[role]
           new == Approved(friend[p], MatrixOf(spec), spec.limits)
           b == Decided("card", role, card[p].cap)
<1>1. PeerOK(p) /\ rolesFile \in RolesFiles
  BY PeerSame DEF ApprovalsInv, FilesTyped
<1>2. Within(role, card[p].cap) /\ MatrixOf(spec) # Malformed
  BY <1>1 DEF ApproveCard, Approve, PeerOK, CardTyped
<1>3. FriendTyped(new) /\ AsBuilt(new, b)
  BY <1>1, <1>2, ResolvedTyped
<1>4. ByTyped(b)
  BY <1>2, PolicyTyped
<1>5. PeerStep(p, new, card[p], b)
  BY PeerSame DEF ApproveCard, Approve, PeerStep
<1> HIDE DEF new, b
<1> QED
  BY <1>1, <1>3, <1>4, <1>5, PeerStepInv DEF PeerOK

LEMMA ApproveGrantInv ==
    ASSUME ApprovalsInv, NEW p \in Peers, NEW matrix \in Grants, ApproveGrant(p, matrix)
    PROVE  ApprovalsInv'
<1> DEFINE new == Approved(friend[p], matrix, Absent)
           b == Decided("owner", Absent, "admin")
<1>1. FriendTyped(new)
  BY ApprovedTyped, ApprovalsAssumption
<1>2. PeerStep(p, new, card[p], b)
  BY PeerSame DEF ApproveGrant, PeerStep
<1> HIDE DEF new, b
<1>3. ByTyped(b) /\ AsBuilt(new, b)
  BY OwnerTyped DEF b
<1>4. CardTyped(card[p])
  BY PeerSame DEF PeerOK
<1> QED
  BY <1>1, <1>2, <1>3, <1>4, PeerStepInv

LEMMA ApproveBothInv ==
    ASSUME ApprovalsInv, NEW p \in Peers, NEW matrix \in Grants, NEW role,
           ApproveBoth(p, matrix, role)
    PROVE  ApprovalsInv'
<1> DEFINE new == Approved(friend[p], matrix, LoadRoles(rolesFile)[role].limits)
           b == Decided("owner", role, "admin")
<1>1. FriendTyped(new)
  BY ApprovedTyped, ApprovalsAssumption
<1>2. PeerStep(p, new, card[p], b)
  BY PeerSame DEF ApproveBoth, PeerStep
<1> HIDE DEF new, b
<1>3. ByTyped(b) /\ AsBuilt(new, b)
  BY OwnerTyped DEF b
<1>4. CardTyped(card[p])
  BY PeerSame DEF PeerOK
<1> QED
  BY <1>1, <1>2, <1>3, <1>4, PeerStepInv

LEMMA FieldSet ==
    ASSUME NEW S, NEW P, NEW L, NEW rec \in [status : S, permissions : P, limits : L], NEW v
    PROVE  /\ [rec EXCEPT !.status = v]
                  = [status |-> v, permissions |-> rec.permissions, limits |-> rec.limits]
           /\ [rec EXCEPT !.permissions = v]
                  = [status |-> rec.status, permissions |-> v, limits |-> rec.limits]
<1>1. [rec EXCEPT !.status = v]
          = [status |-> v, permissions |-> rec.permissions, limits |-> rec.limits]
  BY SMT
<1>2. [rec EXCEPT !.permissions = v]
          = [status |-> rec.status, permissions |-> v, limits |-> rec.limits]
  BY SMT
<1> QED
  BY <1>1, <1>2

LEMMA BlockedIs ==
    ASSUME NEW rec, FriendTyped(rec)
    PROVE  [rec EXCEPT !.status = "blocked", !.permissions = EmptyMatrix] =
               [status |-> "blocked", permissions |-> EmptyMatrix, limits |-> rec.limits]
<1> DEFINE mid == [status |-> "blocked", permissions |-> rec.permissions, limits |-> rec.limits]
<1>1. rec \in [status : {rec.status}, permissions : {rec.permissions}, limits : {rec.limits}]
  BY DEF FriendTyped
<1>2. [rec EXCEPT !.status = "blocked"] = mid
  BY <1>1, FieldSet
<1>3. mid \in [status : {"blocked"}, permissions : {rec.permissions}, limits : {rec.limits}]
  OBVIOUS
<1>4. [mid EXCEPT !.permissions = EmptyMatrix]
          = [status |-> mid.status, permissions |-> EmptyMatrix, limits |-> mid.limits]
  <2> HIDE DEF mid
  <2> QED
    BY <1>3, FieldSet
<1>5. mid.status = "blocked" /\ mid.limits = rec.limits
  OBVIOUS
<1> HIDE DEF mid
<1>6. [rec EXCEPT !.status = "blocked", !.permissions = EmptyMatrix]
          = [[rec EXCEPT !.status = "blocked"] EXCEPT !.permissions = EmptyMatrix]
  OBVIOUS
<1> QED
  BY <1>2, <1>4, <1>5, <1>6

LEMMA BlockPeerInv ==
    ASSUME ApprovalsInv, NEW p \in Peers, BlockPeer(p) PROVE ApprovalsInv'
<1> DEFINE new == [friend[p] EXCEPT !.status = "blocked", !.permissions = EmptyMatrix]
<1>1. PeerOK(p)
  BY PeerSame
<1>2. new = [status |-> "blocked", permissions |-> EmptyMatrix, limits |-> friend[p].limits]
  BY <1>1, BlockedIs DEF PeerOK
<1>3. FriendTyped(new)
  BY <1>2, GrantsAreMatrices DEF FriendTyped
<1>4. friend' = [friend EXCEPT ![p] = new]
  BY DEF BlockPeer, ApprovalsInv
<1>5. PeerStep(p, new, card[p], Undecided)
  BY <1>4, PeerSame DEF BlockPeer, PeerStep
<1> HIDE DEF new
<1> QED
  BY <1>1, <1>3, <1>5, UndecidedTyped, PeerStepInv DEF PeerOK

\* The two files and the server that starts: no peer is touched.
LEMMA FilesInv ==
    ASSUME ApprovalsInv, UNCHANGED <<friend, card, by>>, FilesTyped'
    PROVE  ApprovalsInv'
<1>1. \A p \in Peers : PeerOK(p)'
  BY DEF ApprovalsInv, PeerOK
<1> QED
  BY <1>1 DEF ApprovalsInv

LEMMA EditInv == ASSUME ApprovalsInv, Edit PROVE ApprovalsInv'
<1>1. FilesTyped'
  BY ApprovalsAssumption DEF ApprovalsInv, FilesTyped, Edit, WritePolicy, WriteRoles
<1> QED
  BY <1>1, FilesInv DEF Edit, WritePolicy, WriteRoles

LEMMA StartServerInv == ASSUME ApprovalsInv, StartServer PROVE ApprovalsInv'
<1>1. FilesTyped'
  BY DEF ApprovalsInv, FilesTyped, StartServer, LoadPolicy, files
<1> QED
  BY <1>1, FilesInv DEF StartServer

LEMMA ApprovalsInvInit == ApprovalsInit => ApprovalsInv
<1> SUFFICES ASSUME ApprovalsInit PROVE ApprovalsInv
  OBVIOUS
<1>1. FilesTyped
  BY ApprovalsAssumption DEF ApprovalsInit, FilesTyped
<1>2. ASSUME NEW p \in Peers PROVE PeerOK(p)
  BY UndecidedTyped DEF ApprovalsInit, PeerOK, CardTyped
<1> QED
  BY <1>1, <1>2 DEF ApprovalsInv, ApprovalsInit

LEMMA ApprovalsInvNext == ApprovalsInv /\ [ApprovalsNext]_approvalsVars => ApprovalsInv'
<1> SUFFICES ASSUME ApprovalsInv, [ApprovalsNext]_approvalsVars PROVE ApprovalsInv'
  OBVIOUS
<1>1. CASE UNCHANGED approvalsVars
  <2>1. FilesTyped'
    BY <1>1 DEF ApprovalsInv, FilesTyped, approvalsVars, files
  <2> QED
    BY <1>1, <2>1, FilesInv DEF approvalsVars
<1>2. ASSUME NEW p \in Peers, Request(p) PROVE ApprovalsInv'
  BY <1>2, DenyRequestInv, AutoApproveInv, QueueInv DEF Request
<1>3. ASSUME NEW p \in Peers, OwnerStep(p) PROVE ApprovalsInv'
  BY <1>3, ApproveByHandInv, ApproveCardInv, ApproveGrantInv, ApproveBothInv,
     WithdrawInv, BlockPeerInv DEF OwnerStep
<1> QED
  BY <1>1, <1>2, <1>3, EditInv, StartServerInv DEF ApprovalsNext

LEMMA ApprovalsInvariance == ApprovalsSpec => []ApprovalsInv
BY ApprovalsInvInit, ApprovalsInvNext, PTL DEF ApprovalsSpec

\* Whatever a request, a rule and the two files name, the directory has matrices,
\* and a card names a built-in role.
THEOREM ApprovalsTypeCorrect == ApprovalsSpec => []ApprovalsTypeOK
<1>1. ASSUME NEW p \in Peers, PeerOK(p)
      PROVE  card[p] = NoCard \/ {card[p].role, card[p].cap} \subseteq Ladder
  BY <1>1 DEF PeerOK, CardTyped, Within
<1>2. ApprovalsInv => ApprovalsTypeOK
  BY <1>1 DEF ApprovalsInv, FilesTyped, PeerOK, FriendTyped, ByTyped, ApprovalsTypeOK
<1> QED
  BY <1>2, ApprovalsInvariance, PTL

\* The policy grants, and suggests to the owner, at most its max_role or a client
\* (RequestPolicy._cap_role).
THEOREM GrantsCapped == ApprovalsSpec => []CappedAtClient
<1>1. ApprovalsInv => CappedAtClient
  BY DEF ApprovalsInv, PeerOK, ByTyped, ByPolicy, Within, CappedAtClient
<1> QED
  BY <1>1, ApprovalsInvariance, PTL

\* "Auto-approvals can never exceed max_role" (policy.py), but for a max_role of
\* guest: there a role that is not on the ladder is granted as client.
THEOREM WithinMaxUnlessGuest ==
    ApprovalsSpec =>
        [](\A p \in Peers : by[p].who = "policy" /\ by[p].cap # "guest" =>
               Rank[by[p].role] <= Rank[by[p].cap])
<1> DEFINE WithinMax ==
      \A p \in Peers : by[p].who = "policy" /\ by[p].cap # "guest" =>
          Rank[by[p].role] <= Rank[by[p].cap]
<1>1. ASSUME ApprovalsInv, NEW p \in Peers, by[p].who = "policy", by[p].cap # "guest"
      PROVE  Rank[by[p].role] <= Rank[by[p].cap]
  <2>1. by[p].cap \in Ladder \ {"guest"} /\ Within(by[p].role, by[p].cap)
    BY <1>1 DEF ApprovalsInv, PeerOK, ByTyped
  <2>2. Rank["client"] <= Rank[by[p].cap]
    BY <2>1, RankIs, LadderIs
  <2> QED
    BY <2>1, <2>2 DEF Within
<1>2. ApprovalsInv => WithinMax
  BY <1>1
<1> QED
  BY <1>2, ApprovalsInvariance, PTL


\* What the roles below admin, and below partner, let an agent do besides chat.
LEMMA LadderAllows ==
    ASSUME NEW role \in Ladder, NEW a \in Catalog \ {"chat:converse"}, NEW r \in Resources,
           Check(BuiltinRoles[role].permissions, a, r)
    PROVE  /\ role # "admin" => a \notin Files
           /\ role \in {"guest", "client"} => a \in Tasks /\ BookingOrNone(r)
           /\ role # "guest"
<1> DEFINE m == BuiltinRoles[role].permissions
<1>1. a \in DOMAIN m /\ ScopeAllows(m[a].scopes, r)
  BY DEF Check
<1>3. a \notin DOMAIN GuestMatrix
  BY DEF GuestMatrix, Granting
<1>4. CASE role = "guest"
  BY <1>1, <1>3, <1>4, BuiltinIs
<1>5. CASE role = "client"
  <2>1. m = Updated(GuestMatrix, Granting(Tasks, {"booking:*", "service:*"}))
    BY <1>5, BuiltinIs DEF ClientMatrix
  <2>2. a \in Tasks /\ m[a].scopes = {"booking:*", "service:*"}
    BY <1>1, <1>3, <2>1 DEF Updated, Granting
  <2>3. BookingOrNone(r)
    BY <1>1, <2>2 DEF ScopeAllows, BookingOrNone
  <2>4. a \notin Files
    BY <2>2 DEF Tasks, Files
  <2> QED
    BY <1>5, <2>2, <2>3, <2>4
<1>6. CASE role \in {"partner", "family"}
  <2>1. m = PartnerMatrix
    BY <1>6, BuiltinIs
  <2>2. DOMAIN PartnerMatrix = {"chat:converse"} \cup Reads \cup Tasks
    BY DEF PartnerMatrix, GuestMatrix, Updated, Granting
  <2>3. a \notin Files
    BY <1>1, <2>1, <2>2 DEF Files, Reads, Tasks
  <2> QED
    BY <1>6, <2>3
<1> QED
  BY <1>4, <1>5, <1>6, LadderIs

\* An agent that the policy let in can do tasks only, for bookings, services or
\* no resource at all, if max_role is below partner, can only converse if it is
\* guest and no unknown role made the agent a client, and gets at no files and
\* no terminal if it is below admin; whatever files there have been, and unless
\* the owner has replaced a built-in role (PermissionMatrix.check, load_roles,
\* RequestPolicy.evaluate).
THEOREM MatricesCapped == ApprovalsSpec => []MatrixWithinCap
<1>1. ASSUME ApprovalsInv, NEW p \in Peers, NEW a \in Catalog \ {"chat:converse"},
             NEW r \in Resources, ByPolicy(p), by[p].plain, Check(friend[p].permissions, a, r)
      PROVE  /\ Rank[by[p].cap] < Rank["admin"] => a \notin Files
             /\ Rank[by[p].cap] < Rank["partner"] => a \in Tasks /\ BookingOrNone(r)
             /\ by[p].cap = "guest" => by[p].role = "client"
  <2>1. Within(by[p].role, by[p].cap)
        /\ friend[p].permissions = BuiltinRoles[by[p].role].permissions
    BY <1>1 DEF ApprovalsInv, PeerOK, ByTyped, AsBuilt, ByPolicy
  <2> DEFINE role == by[p].role
             cap == by[p].cap
  <2>2. role \in Ladder /\ cap \in Ladder /\ (Rank[role] <= Rank[cap] \/ role = "client")
    BY <2>1 DEF Within
  <2>3. Check(BuiltinRoles[role].permissions, a, r)
    BY <1>1, <2>1
  <2> HIDE DEF role, cap
  <2>4. /\ role # "admin" => a \notin Files
        /\ role \in {"guest", "client"} => a \in Tasks /\ BookingOrNone(r)
        /\ role # "guest"
    BY <1>1, <2>2, <2>3, LadderAllows
  <2>5. Rank[cap] < Rank["admin"] => role # "admin"
    BY <2>2, RankIs, LadderIs
  <2>6. Rank[cap] < Rank["partner"] => role \in {"guest", "client"}
    BY <2>2, RankIs, LadderIs
  <2>7. cap = "guest" => role = "client"
    BY <2>2, <2>4, RankIs, LadderIs
  <2> QED
    BY <2>4, <2>5, <2>6, <2>7 DEF cap, role
<1>2. ApprovalsInv => MatrixWithinCap
  BY <1>1 DEF MatrixWithinCap
<1> QED
  BY <1>2, ApprovalsInvariance, PTL

=============================================================================
