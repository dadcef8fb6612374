--------------------------- MODULE FriendshipProofs ---------------------------
(***************************************************************************)
(* Proofs about Friendship, for any sets of peers, threads, identities,    *)
(* actions and matrices.                                                   *)
(***************************************************************************)
EXTENDS Friendship, TLAPS

\* What a thread's fields are at each stage.
WellFormed ==
    \A t \in Threads :
        /\ thread[t].at # "idle" => thread[t].peer \in Peers
        /\ thread[t].at \in {"registered", "marked", "approved", "accepted"} =>
               thread[t].rec \in Ids
        /\ thread[t].at \in TaskStages => thread[t].action \in Actions

\* The record a task request looked up gives no more than `may`.
LookedUpWithinMay ==
    \A t \in Threads :
        thread[t].at = "accepted" =>
            heap[thread[t].peer][thread[t].rec].permissions \subseteq may[t]

\* The inductive invariant.  DirectoryWithinGrant alone is not inductive: a
\* handler stores a record it carries, which may have left the directory.
IInv ==
    /\ TypeOK
    /\ WellFormed
    /\ DirectoryWithinGrant
    /\ CarriedWithinGrant
    /\ LookedUpWithinMay
    /\ OnlyGrantedTasksRun

USE NoIdAssumption, NoPeerAssumption

-----------------------------------------------------------------------------
LEMMA RecordTypes ==
    ASSUME NEW record \in FriendRecord, NEW grant \in SUBSET Actions
    PROVE  /\ NewPendingIn \in FriendRecord
           /\ Blocked \in FriendRecord
           /\ PendingOut(grant) \in FriendRecord
           /\ Requested(record) \in FriendRecord
           /\ Confirmed(record) \in FriendRecord
           /\ EffectiveGrant(grant) \in SUBSET Actions
           /\ Approved(record, grant) \in FriendRecord
BY DefaultGrantAssumption
   DEF FriendRecord, Statuses, NewPendingIn, Blocked, PendingOut, Requested,
       Confirmed, EffectiveGrant, Approved

LEMMA RecordPermissions ==
    ASSUME NEW record \in FriendRecord, NEW grant \in SUBSET Actions
    PROVE  /\ NewPendingIn.permissions = {}
           /\ Blocked.permissions = {}
           /\ PendingOut(grant).permissions = grant
           /\ Requested(record).permissions = record.permissions
           /\ Confirmed(record).permissions = record.permissions
           /\ Approved(record, grant).permissions = EffectiveGrant(grant)
BY DEF FriendRecord, NewPendingIn, Blocked, PendingOut, Requested,
       Confirmed, EffectiveGrant, Approved

LEMMA ObjectsEffect ==
    ASSUME TypeOK, NEW p \in Peers, NEW objects \in [Ids -> FriendRecord],
           Objects(p, objects)
    PROVE  /\ heap' \in [Peers -> [Ids -> FriendRecord]]
           /\ \A q \in Peers : q # p => heap'[q] = heap[q]
           /\ \A i \in Ids : heap'[p][i].permissions \subseteq objects[i].permissions
<1> DEFINE kept == {friends'[p]} \cup
                   {thread'[t].rec : t \in {u \in Threads : thread'[u].peer = p}}
<1> DEFINE after == [i \in Ids |-> IF i \in kept THEN objects[i] ELSE Freed]
<1>1. Freed \in FriendRecord /\ Freed.permissions = {}
  BY DEF Freed, NewPendingIn, FriendRecord, Statuses
<1>2. after \in [Ids -> FriendRecord]
  BY <1>1
<1>3. heap' = [heap EXCEPT ![p] = after]
  BY DEF Objects
<1>4. \A i \in Ids : after[i].permissions \subseteq objects[i].permissions
  BY <1>1
<1> HIDE DEF after, kept
<1> QED
  BY <1>2, <1>3, <1>4 DEF TypeOK

LEMMA WriteEffect ==
    ASSUME TypeOK, NEW p \in Peers, NEW i \in Ids, NEW record \in FriendRecord,
           Write(p, i, record)
    PROVE  /\ heap' \in [Peers -> [Ids -> FriendRecord]]
           /\ \A q \in Peers : q # p => heap'[q] = heap[q]
           /\ \A j \in Ids : j # i => heap'[p][j].permissions \subseteq heap[p][j].permissions
           /\ heap'[p][i].permissions \subseteq record.permissions
<1> DEFINE objects == [heap[p] EXCEPT ![i] = record]
<1>1. /\ objects \in [Ids -> FriendRecord]
      /\ \A j \in Ids : j # i => objects[j] = heap[p][j]
      /\ objects[i] = record
  BY DEF TypeOK
<1>2. Objects(p, objects)
  BY DEF Write
<1> HIDE DEF objects
<1> QED
  BY <1>1, <1>2, ObjectsEffect

LEMMA NewIsUnreferenced ==
    ASSUME NEW p \in Peers, Room(p)
    PROVE  /\ New(p) \in Ids
           /\ New(p) # friends[p]
           /\ \A t \in Threads : thread[t].peer = p => thread[t].rec # New(p)
<1>1. \E i \in Ids : i \notin References(p)
  BY DEF Room
<1>2. New(p) \in Ids /\ New(p) \notin References(p)
  BY <1>1 DEF New
<1> QED
  BY <1>2 DEF References

-----------------------------------------------------------------------------
(* One lemma per action: it preserves IInv.                                *)

LEMMA IntroduceStep ==
    ASSUME IInv, NEW p \in Peers, Introduce(p)
    PROVE  IInv'
<1> DEFINE i == New(p)
<1>1. /\ ~Known(p)
      /\ friends' = [friends EXCEPT ![p] = i]
      /\ thread' = thread /\ granted' = granted /\ may' = may
      /\ Write(p, i, NewPendingIn)
  BY DEF Introduce, Put
<1>2. /\ i \in Ids /\ i # friends[p]
      /\ \A t \in Threads : thread[t].peer = p => thread[t].rec # i
  BY NewIsUnreferenced DEF Introduce
<1>3. NewPendingIn \in FriendRecord /\ NewPendingIn.permissions = {}
  BY DEF NewPendingIn, FriendRecord, Statuses
<1> HIDE DEF i
<1>4. /\ heap' \in [Peers -> [Ids -> FriendRecord]]
      /\ \A q \in Peers : q # p => heap'[q] = heap[q]
      /\ \A j \in Ids : j # i => heap'[p][j].permissions \subseteq heap[p][j].permissions
      /\ heap'[p][i].permissions \subseteq {}
  BY <1>1, <1>2, <1>3, WriteEffect DEF IInv
<1>5. TypeOK'
  BY <1>1, <1>2, <1>4 DEF IInv, TypeOK
<1>6. WellFormed'
  BY <1>1 DEF IInv, WellFormed
<1>7. DirectoryWithinGrant'
  BY <1>1, <1>2, <1>4 DEF IInv, TypeOK, DirectoryWithinGrant, Known, Record
<1>8. CarriedWithinGrant'
  BY <1>1, <1>2, <1>4 DEF IInv, TypeOK, WellFormed, CarriedWithinGrant, Writers
<1>9. LookedUpWithinMay'
  BY <1>1, <1>2, <1>4 DEF IInv, TypeOK, WellFormed, LookedUpWithinMay
<1>10. OnlyGrantedTasksRun'
  BY <1>1 DEF IInv, OnlyGrantedTasksRun
<1> QED
  BY <1>5, <1>6, <1>7, <1>8, <1>9, <1>10 DEF IInv

LEMMA FriendAcceptStep ==
    ASSUME IInv, NEW p \in Peers, FriendAccept(p)
    PROVE  IInv'
<1> DEFINE i == friends[p]
           record == Confirmed(Record(p))
<1>1. /\ UNCHANGED <<friends, thread, granted, may>>
      /\ Write(p, i, record)
  BY DEF FriendAccept
<1>2. i \in Ids /\ Record(p) = heap[p][i] /\ heap[p][i] \in FriendRecord
  BY DEF FriendAccept, Known, Record, IInv, TypeOK
<1>3. record \in FriendRecord /\ record.permissions = heap[p][i].permissions
  BY <1>2, RecordTypes, RecordPermissions
<1> HIDE DEF i, record
<1>4. /\ heap' \in [Peers -> [Ids -> FriendRecord]]
      /\ \A q \in Peers, j \in Ids :
            heap'[q][j].permissions \subseteq heap[q][j].permissions
  BY <1>1, <1>2, <1>3, WriteEffect DEF IInv
<1>5. TypeOK'
  BY <1>1, <1>4 DEF IInv, TypeOK
<1>6. WellFormed'
  BY <1>1 DEF IInv, WellFormed
<1>7. DirectoryWithinGrant'
  BY <1>1, <1>4 DEF IInv, TypeOK, DirectoryWithinGrant, Known, Record
<1>8. CarriedWithinGrant'
  BY <1>1, <1>4 DEF IInv, TypeOK, WellFormed, CarriedWithinGrant, Writers
<1>9. LookedUpWithinMay'
  BY <1>1, <1>4 DEF IInv, TypeOK, WellFormed, LookedUpWithinMay
<1>10. OnlyGrantedTasksRun'
  BY <1>1 DEF IInv, OnlyGrantedTasksRun
<1> QED
  BY <1>5, <1>6, <1>7, <1>8, <1>9, <1>10 DEF IInv

LEMMA FriendRequestStep ==
    ASSUME IInv, NEW t \in Threads, NEW p \in Peers, FriendRequest(t, p)
    PROVE  IInv'
<1>1. granted' = granted /\ may' = may /\ thread[t] = Idle
  BY DEF FriendRequest
<1>2. CASE Known(p) /\ UNCHANGED <<friends, heap>>
           /\ thread' = [thread EXCEPT ![t] = Carrying(p, friends[p])]
  <2>1. friends[p] \in Ids
    BY <1>2 DEF Known, IInv, TypeOK
  <2>2. thread' = [thread EXCEPT ![t] =
                      [at |-> "registered", peer |-> p, rec |-> friends[p],
                       action |-> NoAction]]
    BY <1>2 DEF Carrying
  <2>3. TypeOK'
    BY <1>1, <1>2, <2>1, <2>2 DEF IInv, TypeOK, Handler, RequestStages
  <2>4. WellFormed'
    BY <2>1, <2>2 DEF IInv, TypeOK, WellFormed, TaskStages
  <2>5. DirectoryWithinGrant'
    BY <1>1, <1>2 DEF IInv, DirectoryWithinGrant, Known, Record
  <2>6. CarriedWithinGrant'
    BY <1>1, <1>2, <2>2
       DEF IInv, TypeOK, DirectoryWithinGrant, CarriedWithinGrant, Writers, Known, Record
  <2>7. LookedUpWithinMay'
    BY <1>1, <1>2, <2>2 DEF IInv, TypeOK, LookedUpWithinMay
  <2>8. OnlyGrantedTasksRun'
    BY <1>1, <2>2 DEF IInv, TypeOK, OnlyGrantedTasksRun
  <2> QED
    BY <2>3, <2>4, <2>5, <2>6, <2>7, <2>8 DEF IInv
<1>3. CASE /\ ~Known(p) /\ Room(p)
           /\ thread' = [thread EXCEPT ![t] = Carrying(p, New(p))]
           /\ Put(p, New(p))
           /\ Write(p, New(p), NewPendingIn)
  <2> DEFINE i == New(p)
  <2>1. /\ friends' = [friends EXCEPT ![p] = i]
        /\ thread' = [thread EXCEPT ![t] =
                        [at |-> "registered", peer |-> p, rec |-> i, action |-> NoAction]]
        /\ Write(p, i, NewPendingIn)
    BY <1>3 DEF Put, Carrying
  <2>2. /\ i \in Ids /\ i # friends[p]
        /\ \A u \in Threads : thread[u].peer = p => thread[u].rec # i
    BY <1>3, NewIsUnreferenced
  <2>3. NewPendingIn \in FriendRecord /\ NewPendingIn.permissions = {}
    BY DEF NewPendingIn, FriendRecord, Statuses
  <2> HIDE DEF i
  <2>4. /\ heap' \in [Peers -> [Ids -> FriendRecord]]
        /\ \A q \in Peers : q # p => heap'[q] = heap[q]
        /\ \A j \in Ids : j # i =>
              heap'[p][j].permissions \subseteq heap[p][j].permissions
        /\ heap'[p][i].permissions \subseteq {}
    BY <2>1, <2>2, <2>3, WriteEffect DEF IInv
  <2>5. TypeOK'
    BY <1>1, <2>1, <2>2, <2>4 DEF IInv, TypeOK, Handler, RequestStages
  <2>6. WellFormed'
    BY <2>1, <2>2 DEF IInv, TypeOK, WellFormed, TaskStages
  <2>7. DirectoryWithinGrant'
    BY <1>1, <2>1, <2>2, <2>4 DEF IInv, TypeOK, DirectoryWithinGrant, Known, Record
  <2>8. CarriedWithinGrant'
    BY <1>1, <2>1, <2>2, <2>4
       DEF IInv, TypeOK, WellFormed, CarriedWithinGrant, Writers
  <2>9. LookedUpWithinMay'
    BY <1>1, <2>1, <2>2, <2>4 DEF IInv, TypeOK, WellFormed, LookedUpWithinMay
  <2>10. OnlyGrantedTasksRun'
    BY <1>1, <2>1 DEF IInv, TypeOK, OnlyGrantedTasksRun
  <2> QED
    BY <2>5, <2>6, <2>7, <2>8, <2>9, <2>10 DEF IInv
<1> QED
  BY <1>2, <1>3 DEF FriendRequest

LEMMA MarkPendingStep ==
    ASSUME IInv, NEW t \in Threads, MarkPending(t)
    PROVE  IInv'
<1> DEFINE p == thread[t].peer
           i == thread[t].rec
           record == Requested(heap[p][i])
<1>1. /\ friends' = friends /\ granted' = granted /\ may' = may
      /\ thread[t].at = "registered"
      /\ thread' = [thread EXCEPT ![t].at = "marked"]
      /\ heap' = [heap EXCEPT ![p][i] = record]
  BY DEF MarkPending, Goto
<1>2. p \in Peers /\ i \in Ids /\ heap[p][i] \in FriendRecord
  BY <1>1 DEF IInv, WellFormed, TypeOK
<1>3. record \in FriendRecord /\ record.permissions = heap[p][i].permissions
  BY <1>2, RecordTypes, RecordPermissions
<1> HIDE DEF record
<1>4. /\ heap' \in [Peers -> [Ids -> FriendRecord]]
      /\ \A q \in Peers, j \in Ids :
            heap'[q][j].permissions = heap[q][j].permissions
  BY <1>1, <1>2, <1>3 DEF IInv, TypeOK
<1> HIDE DEF p, i
<1>5. TypeOK'
  <2>1. [thread[t] EXCEPT !.at = "marked"] \in Handler
    BY DEF IInv, TypeOK, Handler, RequestStages
  <2>2. thread' \in [Threads -> Handler]
    BY <1>1, <2>1 DEF IInv, TypeOK
  <2> QED
    BY <1>1, <1>4, <2>2 DEF IInv, TypeOK
<1>6. WellFormed'
  BY <1>1 DEF IInv, WellFormed, TypeOK, Handler, TaskStages
<1>7. DirectoryWithinGrant'
  BY <1>1, <1>4 DEF IInv, TypeOK, DirectoryWithinGrant, Known, Record
<1>8. CarriedWithinGrant'
  BY <1>1, <1>4 DEF IInv, TypeOK, Handler, WellFormed, CarriedWithinGrant, Writers
<1>9. LookedUpWithinMay'
  BY <1>1, <1>4 DEF IInv, TypeOK, Handler, WellFormed, LookedUpWithinMay
<1>10. OnlyGrantedTasksRun'
  BY <1>1 DEF IInv, TypeOK, Handler, OnlyGrantedTasksRun
<1> QED
  BY <1>5, <1>6, <1>7, <1>8, <1>9, <1>10 DEF IInv

LEMMA UpsertStep ==
    ASSUME IInv, NEW t \in Threads, NEW next, Upsert(t, next),
           thread[t].at \in {"marked", "approved"},
           \/ next = [thread[t] EXCEPT !.at = "stored", !.rec = NoId]
           \/ next = Idle
    PROVE  IInv'
<1> DEFINE p == thread[t].peer
           i == thread[t].rec
<1>1. /\ friends' = [friends EXCEPT ![p] = i]
      /\ thread' = [thread EXCEPT ![t] = next]
      /\ granted' = granted /\ may' = may
      /\ Objects(p, heap[p])
  BY DEF Upsert, Put
<1>2. p \in Peers /\ i \in Ids /\ heap[p] \in [Ids -> FriendRecord]
  BY DEF IInv, WellFormed, TypeOK
<1>3. next \in Handler /\ next.at \in {"stored", "idle"}
      /\ (next.at # "idle" => next.peer \in Peers)
  <2>1. CASE next = Idle
    BY <2>1 DEF Handler, Idle
  <2>2. CASE next = [thread[t] EXCEPT !.at = "stored", !.rec = NoId]
    <3>1. thread[t] \in Handler
      BY DEF IInv, TypeOK
    <3>2. /\ next \in Handler
          /\ next.at = "stored" /\ next.peer = thread[t].peer
      BY <2>2, <3>1 DEF Handler, RequestStages
    <3> QED
      BY <1>2, <3>2
  <2> QED
    BY <2>1, <2>2
<1>4. /\ heap' \in [Peers -> [Ids -> FriendRecord]]
      /\ \A q \in Peers, j \in Ids :
            heap'[q][j].permissions \subseteq heap[q][j].permissions
  BY <1>1, <1>2, ObjectsEffect DEF IInv
<1>a. heap[p][i].permissions \subseteq granted[p]
  BY <1>2 DEF IInv, CarriedWithinGrant, Writers
<1> HIDE DEF p, i
<1>5. TypeOK'
  BY <1>1, <1>2, <1>3, <1>4 DEF IInv, TypeOK
<1>6. WellFormed'
  BY <1>1, <1>3 DEF IInv, WellFormed, TypeOK, TaskStages
<1>7. DirectoryWithinGrant'
  BY <1>1, <1>2, <1>4, <1>a DEF IInv, TypeOK, DirectoryWithinGrant, Known, Record
<1>8. CarriedWithinGrant'
  BY <1>1, <1>3, <1>4 DEF IInv, TypeOK, WellFormed, CarriedWithinGrant, Writers
<1>9. LookedUpWithinMay'
  BY <1>1, <1>3, <1>4 DEF IInv, TypeOK, WellFormed, LookedUpWithinMay
<1>10. OnlyGrantedTasksRun'
  BY <1>1, <1>3 DEF IInv, TypeOK, OnlyGrantedTasksRun
<1> QED
  BY <1>5, <1>6, <1>7, <1>8, <1>9, <1>10 DEF IInv

LEMMA StoreStep ==
    ASSUME IInv, NEW t \in Threads, StoreRequest(t) \/ StoreApproved(t)
    PROVE  IInv'
BY UpsertStep DEF StoreRequest, StoreApproved

\* Steps that add no permission, put no object in the directory and only
\* take threads to stages at which they carry no record.
LEMMA ReleaseStep ==
    ASSUME IInv, TypeOK',
           \A q \in Peers, j \in Ids :
               heap'[q][j].permissions \subseteq heap[q][j].permissions,
           \A q \in Peers : friends'[q] \in {friends[q], NoId},
           \A t \in Threads :
               \/ thread'[t] = thread[t] /\ may'[t] = may[t]
               \/ /\ thread'[t].at \in {"idle", "denying", "sweeping"}
                  /\ thread'[t].at # "idle" => thread'[t].peer \in Peers,
           \A q \in Peers :
               \/ granted'[q] = granted[q]
               \/ Writers(q) = {} /\ friends'[q] = NoId
    PROVE  IInv'
<1>1. WellFormed'
  BY DEF IInv, WellFormed, TaskStages
<1>2. DirectoryWithinGrant'
  BY DEF IInv, TypeOK, DirectoryWithinGrant, Known, Record
<1>3. CarriedWithinGrant'
  <2> SUFFICES ASSUME NEW q \in Peers, NEW t \in Writers(q)'
               PROVE  heap'[q][thread'[t].rec].permissions \subseteq granted'[q]
    BY DEF CarriedWithinGrant
  <2>1. t \in Writers(q) /\ thread'[t] = thread[t] /\ thread[t].rec \in Ids
    BY DEF Writers, IInv, WellFormed
  <2>2. granted'[q] = granted[q]
    BY <2>1
  <2> QED
    BY <2>1, <2>2 DEF IInv, CarriedWithinGrant
<1>4. LookedUpWithinMay'
  BY DEF IInv, WellFormed, LookedUpWithinMay
<1>5. OnlyGrantedTasksRun'
  BY DEF IInv, OnlyGrantedTasksRun
<1> QED
  BY <1>1, <1>2, <1>3, <1>4, <1>5 DEF IInv

LEMMA IdleType == Idle \in Handler /\ Idle.at = "idle"
BY DEF Idle, Handler

\* A handler ends and nothing else changes but freed objects.
LEMMA FinishStep ==
    ASSUME IInv, NEW t \in Threads, Finish(t), UNCHANGED <<friends, granted>>,
           heap' \in [Peers -> [Ids -> FriendRecord]],
           \A q \in Peers, j \in Ids :
               heap'[q][j].permissions \subseteq heap[q][j].permissions
    PROVE  IInv'
<1>1. TypeOK'
  BY IdleType DEF IInv, TypeOK, Finish
<1>2. \A u \in Threads :
          \/ thread'[u] = thread[u] /\ may'[u] = may[u]
          \/ thread'[u].at = "idle"
  BY IdleType DEF IInv, TypeOK, Finish
<1> QED
  BY <1>1, <1>2, ReleaseStep

LEMMA QueueStep ==
    ASSUME IInv, NEW t \in Threads, Queue(t) \/ NotPending(t)
    PROVE  IInv'
BY FinishStep DEF Queue, NotPending, IInv, TypeOK

LEMMA EndTaskStep ==
    ASSUME IInv, NEW t \in Threads, EndTask(t)
    PROVE  IInv'
<1> DEFINE p == thread[t].peer
<1>1. p \in Peers /\ heap[p] \in [Ids -> FriendRecord]
  BY DEF EndTask, IInv, WellFormed, TypeOK, TaskStages
<1>2. /\ Finish(t) /\ UNCHANGED <<friends, granted>>
      /\ Objects(p, heap[p])
  BY DEF EndTask
<1> HIDE DEF p
<1>3. /\ heap' \in [Peers -> [Ids -> FriendRecord]]
      /\ \A q \in Peers, j \in Ids :
             heap'[q][j].permissions \subseteq heap[q][j].permissions
  BY <1>1, <1>2, ObjectsEffect DEF IInv
<1> QED
  BY <1>2, <1>3, FinishStep

LEMMA WithdrawEffect ==
    ASSUME TypeOK, NEW p \in Peers, Withdraw(p)
    PROVE  /\ friends' \in [Peers -> Ids \cup {NoId}]
           /\ \A q \in Peers : friends'[q] \in {friends[q], NoId}
           /\ heap' \in [Peers -> [Ids -> FriendRecord]]
           /\ \A q \in Peers, j \in Ids :
                  heap'[q][j].permissions \subseteq heap[q][j].permissions
           /\ granted' \in [Peers -> SUBSET Actions]
           /\ \A q \in Peers :
                  \/ granted'[q] = granted[q]
                  \/ Writers(q) = {} /\ friends'[q] = NoId
<1>1. heap[p] \in [Ids -> FriendRecord]
  BY DEF TypeOK
<1>2. /\ heap' \in [Peers -> [Ids -> FriendRecord]]
      /\ \A q \in Peers, j \in Ids :
             heap'[q][j].permissions \subseteq heap[q][j].permissions
  BY <1>1, ObjectsEffect DEF Withdraw
<1>3. /\ friends' = [friends EXCEPT ![p] = NoId]
      /\ granted' = [granted EXCEPT ![p] = IF Writers(p) = {} THEN {} ELSE granted[p]]
  BY DEF Withdraw, Put
<1> QED
  BY <1>2, <1>3 DEF TypeOK

LEMMA PolicyDenyStep ==
    ASSUME IInv, NEW t \in Threads, PolicyDeny(t)
    PROVE  IInv'
<1> DEFINE stage == IF Pending(thread[t].peer) THEN "denying" ELSE "sweeping"
<1>1. thread' = [thread EXCEPT ![t].at = stage] /\ stage \in {"denying", "sweeping"}
  BY DEF PolicyDeny, Goto
<1> HIDE DEF stage
<1>2. UNCHANGED <<friends, heap, granted, may>> /\ thread[t].peer \in Peers
  BY DEF PolicyDeny, IInv, WellFormed
<1>3. [thread[t] EXCEPT !.at = stage] \in Handler
  <2>1. thread[t] \in Handler
    BY DEF IInv, TypeOK
  <2>2. CASE stage = "denying"
    BY <2>1, <2>2 DEF Handler, RequestStages
  <2>3. CASE stage = "sweeping"
    BY <2>1, <2>3 DEF Handler, RequestStages
  <2> QED
    BY <1>1, <2>2, <2>3
<1>4. TypeOK'
  BY <1>1, <1>2, <1>3 DEF IInv, TypeOK
<1>5. \A u \in Threads :
          \/ thread'[u] = thread[u] /\ may'[u] = may[u]
          \/ thread'[u].at \in {"denying", "sweeping"} /\ thread'[u].peer \in Peers
  BY <1>1, <1>2 DEF IInv, TypeOK, Handler
<1> QED
  BY <1>2, <1>4, <1>5, ReleaseStep

LEMMA PolicyDeleteStep ==
    ASSUME IInv, NEW t \in Threads, PolicyDelete(t)
    PROVE  IInv'
<1>1. CASE NotPending(t)
  BY <1>1, QueueStep
<1>2. CASE Goto(t, "sweeping") /\ Withdraw(thread[t].peer) /\ UNCHANGED may
  <2> DEFINE p == thread[t].peer
  <2>1. p \in Peers
    BY DEF PolicyDelete, IInv, WellFormed
  <2>2. [thread[t] EXCEPT !.at = "sweeping"] \in Handler
    BY DEF IInv, TypeOK, Handler, RequestStages
  <2>3. TypeOK'
    BY <1>2, <2>1, <2>2, WithdrawEffect DEF IInv, TypeOK, Goto
  <2>4. \A u \in Threads :
            \/ thread'[u] = thread[u] /\ may'[u] = may[u]
            \/ thread'[u].at = "sweeping" /\ thread'[u].peer \in Peers
    BY <1>2, <2>1 DEF IInv, TypeOK, Handler, Goto
  <2> QED
    BY <1>2, <2>1, <2>3, <2>4, WithdrawEffect, ReleaseStep DEF IInv
<1> QED
  BY <1>1, <1>2 DEF PolicyDelete

LEMMA PolicySweepStep ==
    ASSUME IInv, NEW t \in Threads, PolicySweep(t)
    PROVE  IInv'
<1> DEFINE p == thread[t].peer
<1>1. p \in Peers /\ Finish(t)
  BY DEF PolicySweep, IInv, WellFormed
<1>2. CASE UNCHANGED <<friends, heap, granted>>
  BY <1>1, <1>2, FinishStep DEF IInv, TypeOK
<1>3. CASE Withdraw(p)
  <2>1. TypeOK'
    BY <1>1, <1>3, WithdrawEffect, IdleType DEF IInv, TypeOK, Finish
  <2>2. \A u \in Threads :
            \/ thread'[u] = thread[u] /\ may'[u] = may[u]
            \/ thread'[u].at = "idle"
    BY <1>1, IdleType DEF IInv, TypeOK, Finish
  <2> QED
    BY <1>1, <1>3, <2>1, <2>2, WithdrawEffect, ReleaseStep DEF IInv
<1> QED
  BY <1>2, <1>3 DEF PolicySweep

LEMMA WithdrawStep ==
    ASSUME IInv, NEW p \in Peers, Deny(p) \/ Remove(p)
    PROVE  IInv'
<1>1. UNCHANGED <<thread, may>> /\ Withdraw(p)
  BY DEF Deny, Remove
<1>2. TypeOK'
  BY <1>1, WithdrawEffect DEF IInv, TypeOK
<1> QED
  BY <1>1, <1>2, WithdrawEffect, ReleaseStep DEF IInv

\* The record of p in the directory is approved in place, by the owner or by
\* the policy; in the second case the handler carries it afterwards.
LEMMA ApproveInPlace ==
    ASSUME IInv, NEW p \in Peers, NEW grant \in SUBSET Actions, Known(p),
           UNCHANGED friends,
           Write(p, friends[p], Approved(Record(p), grant)),
           Grant(p, EffectiveGrant(grant), {friends[p]}),
           thread' \in [Threads -> Handler],
           \A t \in Threads :
               \/ thread'[t] = thread[t]
               \/ /\ thread[t].at = "stored" /\ thread'[t].at = "approved"
                  /\ thread'[t].peer = p /\ thread'[t].rec = friends[p]
    PROVE  IInv'
<1> DEFINE i == friends[p]
           record == Approved(Record(p), grant)
           matrix == EffectiveGrant(grant)
<1>1. i \in Ids /\ Record(p) \in FriendRecord
  BY DEF Known, Record, IInv, TypeOK
<1>2. record \in FriendRecord /\ record.permissions = matrix /\ matrix \in SUBSET Actions
  BY <1>1, RecordTypes, RecordPermissions
<1>3. Write(p, i, record)
  OBVIOUS
<1>4. /\ granted' = [granted EXCEPT ![p] =
                        IF Carried(p) \subseteq {i} THEN matrix ELSE granted[p] \cup matrix]
      /\ may' = [t \in Threads |->
                    IF thread[t].peer = p /\ thread[t].at \in TaskStages
                    THEN may[t] \cup matrix ELSE may[t]]
  BY DEF Grant
<1> HIDE DEF i, record, matrix
<1>5. /\ heap' \in [Peers -> [Ids -> FriendRecord]]
      /\ \A q \in Peers : q # p => heap'[q] = heap[q]
      /\ \A j \in Ids : j # i => heap'[p][j].permissions \subseteq heap[p][j].permissions
      /\ heap'[p][i].permissions \subseteq matrix
  BY <1>1, <1>2, <1>3, WriteEffect DEF IInv
<1>6. TypeOK'
  <2>1. granted' \in [Peers -> SUBSET Actions] /\ may' \in [Threads -> SUBSET Actions]
    BY <1>2, <1>4 DEF IInv, TypeOK
  <2> QED
    BY <1>5, <2>1 DEF IInv, TypeOK
<1>7. WellFormed'
  BY <1>1 DEF i, IInv, WellFormed, TaskStages
<1>8. DirectoryWithinGrant'
  <2>1. matrix \subseteq granted'[p] /\ \A q \in Peers : q # p => granted'[q] = granted[q]
    BY <1>4 DEF IInv, TypeOK
  <2> QED
    BY <1>5, <2>1 DEF i, IInv, TypeOK, DirectoryWithinGrant, Known, Record
<1>9. CarriedWithinGrant'
  <2> SUFFICES ASSUME NEW q \in Peers, NEW t \in Writers(q)'
               PROVE  heap'[q][thread'[t].rec].permissions \subseteq granted'[q]
    BY DEF CarriedWithinGrant
  <2>1. CASE q # p
    BY <1>4, <1>5, <2>1 DEF IInv, TypeOK, CarriedWithinGrant, Writers
  <2>2. CASE q = p
    <3>1. granted'[p] = IF Carried(p) \subseteq {i} THEN matrix ELSE granted[p] \cup matrix
      BY <1>4 DEF IInv, TypeOK
    <3>2. CASE thread'[t].rec = i
      BY <1>5, <2>2, <3>1, <3>2
    <3>3. CASE thread'[t].rec # i
      <4>1. t \in Writers(p) /\ thread'[t] = thread[t] /\ thread[t].rec \in Ids
        BY <2>2, <3>3 DEF i, Writers, IInv, WellFormed
      <4>2. thread[t].rec \in Carried(p)
        BY <4>1 DEF Carried
      <4>3. granted'[p] = granted[p] \cup matrix
        BY <3>1, <3>3, <4>1, <4>2
      <4>4. heap[p][thread[t].rec].permissions \subseteq granted[p]
        BY <4>1 DEF IInv, CarriedWithinGrant
      <4> QED
        BY <1>5, <2>2, <3>3, <4>1, <4>3, <4>4
    <3> QED
      BY <3>2, <3>3
  <2> QED
    BY <2>1, <2>2
<1>10. \A t \in Threads :
          /\ may[t] \subseteq may'[t]
          /\ thread[t].at \in TaskStages /\ thread[t].peer = p => matrix \subseteq may'[t]
  BY <1>4
<1>11. LookedUpWithinMay'
  <2> SUFFICES ASSUME NEW t \in Threads, thread'[t].at = "accepted"
               PROVE  heap'[thread'[t].peer][thread'[t].rec].permissions \subseteq may'[t]
    BY DEF LookedUpWithinMay
  <2>1. /\ thread'[t] = thread[t] /\ thread[t].peer \in Peers /\ thread[t].rec \in Ids
        /\ heap[thread[t].peer][thread[t].rec].permissions \subseteq may[t]
        /\ thread[t].at \in TaskStages
    BY DEF IInv, WellFormed, LookedUpWithinMay, TaskStages
  <2> QED
    BY <1>5, <1>10, <2>1
<1>12. OnlyGrantedTasksRun'
  BY <1>10 DEF IInv, OnlyGrantedTasksRun
<1> QED
  BY <1>6, <1>7, <1>8, <1>9, <1>11, <1>12 DEF IInv

LEMMA ApproveStep ==
    ASSUME IInv, NEW p \in Peers, NEW grant \in OwnerGrants, Approve(p, grant)
    PROVE  IInv'
BY ApproveInPlace, GrantsAssumption DEF Approve, Pending, IInv, TypeOK

LEMMA AutoApproveStep ==
    ASSUME IInv, NEW t \in Threads, NEW grant \in RoleGrants, AutoApprove(t, grant)
    PROVE  IInv'
<1> DEFINE p == thread[t].peer
<1>1. p \in Peers /\ grant \in SUBSET Actions /\ thread[t].at = "stored"
  BY GrantsAssumption DEF AutoApprove, IInv, WellFormed
<1>2. CASE NotPending(t)
  BY <1>2, QueueStep
<1>3. CASE /\ Pending(p)
           /\ thread' = [thread EXCEPT ![t].at = "approved", ![t].rec = friends[p]]
           /\ UNCHANGED friends
           /\ Write(p, friends[p], Approved(Record(p), grant))
           /\ Grant(p, EffectiveGrant(grant), {friends[p]})
  <2>1. thread[t] \in Handler /\ friends[p] \in Ids
    BY <1>1, <1>3 DEF Pending, Known, IInv, TypeOK
  <2>2. [thread[t] EXCEPT !.at = "approved", !.rec = friends[p]] \in Handler
    BY <2>1 DEF Handler, RequestStages
  <2>3. thread' = [thread EXCEPT ![t] =
                      [thread[t] EXCEPT !.at = "approved", !.rec = friends[p]]]
    BY <1>3 DEF IInv, TypeOK
  <2>4. thread' \in [Threads -> Handler]
    BY <2>2, <2>3 DEF IInv, TypeOK
  <2>5. /\ thread'[t].at = "approved" /\ thread'[t].peer = p
        /\ thread'[t].rec = friends[p]
    BY <2>1, <2>3 DEF IInv, TypeOK, Handler
  <2>6. \A u \in Threads : u # t => thread'[u] = thread[u]
    BY <2>3 DEF IInv, TypeOK
  <2> QED
    BY <1>1, <1>3, <2>4, <2>5, <2>6, ApproveInPlace DEF Pending
<1> QED
  BY <1>2, <1>3 DEF AutoApprove

LEMMA AddPendingOutStep ==
    ASSUME IInv, NEW p \in Peers, NEW grant \in OwnerGrants, AddPendingOut(p, grant)
    PROVE  IInv'
<1> DEFINE i == New(p)
           record == PendingOut(grant)
<1>1. /\ friends' = [friends EXCEPT ![p] = i]
      /\ thread' = thread
      /\ Write(p, i, record)
  BY DEF AddPendingOut, Put
<1>2. grant \in SUBSET Actions /\ record \in FriendRecord /\ record.permissions = grant
  BY GrantsAssumption DEF PendingOut, FriendRecord, Statuses
<1>3. /\ i \in Ids
      /\ \A t \in Threads : thread[t].peer = p => thread[t].rec # i
  BY NewIsUnreferenced DEF AddPendingOut
<1>4. /\ granted' = [granted EXCEPT ![p] =
                        IF Carried(p) \subseteq {} THEN grant ELSE granted[p] \cup grant]
      /\ may' = [t \in Threads |->
                    IF thread[t].peer = p /\ thread[t].at \in TaskStages
                    THEN may[t] \cup grant ELSE may[t]]
  BY DEF AddPendingOut, Grant
<1> HIDE DEF i, record
<1>5. /\ heap' \in [Peers -> [Ids -> FriendRecord]]
      /\ \A q \in Peers : q # p => heap'[q] = heap[q]
      /\ \A j \in Ids : j # i => heap'[p][j].permissions \subseteq heap[p][j].permissions
      /\ heap'[p][i].permissions \subseteq grant
  BY <1>1, <1>2, <1>3, WriteEffect DEF IInv
<1>6. TypeOK'
  <2>1. granted' \in [Peers -> SUBSET Actions] /\ may' \in [Threads -> SUBSET Actions]
    BY <1>2, <1>4 DEF IInv, TypeOK
  <2> QED
    BY <1>1, <1>3, <1>5, <2>1 DEF IInv, TypeOK
<1>7. WellFormed'
  BY <1>1 DEF IInv, WellFormed
<1>8. DirectoryWithinGrant'
  <2>1. grant \subseteq granted'[p] /\ \A q \in Peers : q # p => granted'[q] = granted[q]
    BY <1>4 DEF IInv, TypeOK
  <2> QED
    BY <1>1, <1>3, <1>5, <2>1 DEF IInv, TypeOK, DirectoryWithinGrant, Known, Record
<1>9. CarriedWithinGrant'
  <2> SUFFICES ASSUME NEW q \in Peers, NEW t \in Writers(q)
               PROVE  heap'[q][thread[t].rec].permissions \subseteq granted'[q]
    BY <1>1 DEF CarriedWithinGrant, Writers
  <2>1. heap[q][thread[t].rec].permissions \subseteq granted[q] /\ thread[t].rec \in Ids
    BY DEF IInv, CarriedWithinGrant, Writers, WellFormed
  <2>2. CASE q # p
    BY <1>4, <1>5, <2>1, <2>2 DEF IInv, TypeOK
  <2>3. CASE q = p
    <3>1. thread[t].rec \in Carried(p) /\ thread[t].rec # i
      BY <1>3, <2>3 DEF Carried, Writers
    <3>2. granted'[p] = granted[p] \cup grant
      BY <1>4, <3>1 DEF IInv, TypeOK
    <3> QED
      BY <1>5, <2>1, <2>3, <3>1, <3>2
  <2> QED
    BY <2>2, <2>3
<1>10. \A t \in Threads : may[t] \subseteq may'[t]
  BY <1>4
<1>11. LookedUpWithinMay'
  BY <1>1, <1>3, <1>5, <1>10 DEF IInv, WellFormed, LookedUpWithinMay
<1>12. OnlyGrantedTasksRun'
  BY <1>1, <1>10 DEF IInv, OnlyGrantedTasksRun
<1> QED
  BY <1>6, <1>7, <1>8, <1>9, <1>11, <1>12 DEF IInv

LEMMA BlockStep ==
    ASSUME IInv, NEW p \in Peers, Block(p)
    PROVE  IInv'
<1>1. /\ thread' = thread /\ may' = may
      /\ granted' = [granted EXCEPT ![p] =
                        IF Carried(p) \subseteq {friends[p]} THEN {} ELSE granted[p]]
  BY DEF Block
<1>2. Blocked \in FriendRecord /\ Blocked.permissions = {}
  BY DEF Blocked, FriendRecord, Statuses
<1>3. \E i \in Ids :
          /\ friends' = [friends EXCEPT ![p] = i]
          /\ Known(p) => i = friends[p]
          /\ ~Known(p) => \A t \in Threads : thread[t].peer = p => thread[t].rec # i
          /\ Write(p, i, Blocked)
  <2>1. CASE Known(p)
    BY <2>1 DEF Block, Known, IInv, TypeOK
  <2>2. CASE ~Known(p)
    BY <2>2, NewIsUnreferenced DEF Block, Put
  <2> QED
    BY <2>1, <2>2
<1>4. PICK i \in Ids :
          /\ friends' = [friends EXCEPT ![p] = i]
          /\ Known(p) => i = friends[p]
          /\ ~Known(p) => \A t \in Threads : thread[t].peer = p => thread[t].rec # i
          /\ Write(p, i, Blocked)
  BY <1>3
<1>5. /\ heap' \in [Peers -> [Ids -> FriendRecord]]
      /\ \A q \in Peers : q # p => heap'[q] = heap[q]
      /\ \A j \in Ids : j # i => heap'[p][j].permissions \subseteq heap[p][j].permissions
      /\ heap'[p][i].permissions \subseteq {}
  BY <1>2, <1>4, WriteEffect DEF IInv
<1>6. \A q \in Peers, j \in Ids : heap'[q][j].permissions \subseteq heap[q][j].permissions
  BY <1>5
<1>7. TypeOK'
  BY <1>1, <1>4, <1>5 DEF IInv, TypeOK
<1>8. WellFormed'
  BY <1>1 DEF IInv, WellFormed
<1>9. DirectoryWithinGrant'
  BY <1>1, <1>4, <1>5 DEF IInv, TypeOK, DirectoryWithinGrant, Known, Record
<1>10. CarriedWithinGrant'
  <2> SUFFICES ASSUME NEW q \in Peers, NEW t \in Writers(q)
               PROVE  heap'[q][thread[t].rec].permissions \subseteq granted'[q]
    BY <1>1 DEF CarriedWithinGrant, Writers
  <2>1. heap[q][thread[t].rec].permissions \subseteq granted[q] /\ thread[t].rec \in Ids
    BY DEF IInv, CarriedWithinGrant, Writers, WellFormed
  <2>2. CASE granted'[q] = granted[q]
    BY <1>6, <2>1, <2>2
  <2>3. CASE q = p /\ Carried(p) \subseteq {friends[p]}
    <3>1. thread[t].rec = friends[p]
      BY <2>3 DEF Carried
    <3>2. Known(p)
      BY <2>1, <3>1 DEF Known
    <3> QED
      BY <1>4, <1>5, <2>3, <3>1, <3>2
  <2> QED
    BY <1>1, <2>2, <2>3 DEF IInv, TypeOK
<1>11. LookedUpWithinMay'
  BY <1>1, <1>6 DEF IInv, WellFormed, LookedUpWithinMay
<1>12. OnlyGrantedTasksRun'
  BY <1>1 DEF IInv, OnlyGrantedTasksRun
<1> QED
  BY <1>7, <1>8, <1>9, <1>10, <1>11, <1>12 DEF IInv

LEMMA TaskRequestStep ==
    ASSUME IInv, NEW t \in Threads, NEW p \in Peers, NEW a \in Actions,
           TaskRequest(t, p, a)
    PROVE  IInv'
<1> DEFINE new == [at |-> "accepted", peer |-> p, rec |-> friends[p], action |-> a]
<1>1. /\ UNCHANGED <<friends, heap, granted>>
      /\ thread' = [thread EXCEPT ![t] = new]
      /\ may' = [may EXCEPT ![t] = granted[p]]
      /\ Known(p)
  BY DEF TaskRequest
<1>2. friends[p] \in Ids /\ new \in Handler
  BY <1>1 DEF Known, IInv, TypeOK, Handler, TaskStages
<1>3. TypeOK'
  BY <1>1, <1>2 DEF IInv, TypeOK
<1>4. WellFormed'
  BY <1>1, <1>2 DEF IInv, TypeOK, WellFormed
<1>5. DirectoryWithinGrant'
  BY <1>1 DEF IInv, DirectoryWithinGrant, Known, Record
<1>6. CarriedWithinGrant'
  BY <1>1 DEF IInv, TypeOK, CarriedWithinGrant, Writers
<1>7. LookedUpWithinMay'
  BY <1>1 DEF IInv, TypeOK, LookedUpWithinMay, DirectoryWithinGrant, Record
<1>8. OnlyGrantedTasksRun'
  BY <1>1 DEF IInv, TypeOK, OnlyGrantedTasksRun
<1> QED
  BY <1>3, <1>4, <1>5, <1>6, <1>7, <1>8 DEF IInv

\* CheckPermission and RunTask: the handler moves to a stage at which it has
\* passed the check.
LEMMA AdvanceTask ==
    ASSUME IInv, NEW t \in Threads, NEW next \in Handler,
           UNCHANGED <<friends, granted, may>>,
           thread' = [thread EXCEPT ![t] = next],
           next.at \in {"permitted", "running"},
           next.peer \in Peers, next.action \in Actions, next.action \in may[t],
           heap' \in [Peers -> [Ids -> FriendRecord]],
           \A q \in Peers, j \in Ids :
               heap'[q][j].permissions \subseteq heap[q][j].permissions
    PROVE  IInv'
<1>1. TypeOK'
  BY DEF IInv, TypeOK
<1>2. WellFormed'
  BY DEF IInv, TypeOK, WellFormed
<1>3. DirectoryWithinGrant'
  BY DEF IInv, TypeOK, DirectoryWithinGrant, Known, Record
<1>4. CarriedWithinGrant'
  BY DEF IInv, TypeOK, WellFormed, CarriedWithinGrant, Writers
<1>5. LookedUpWithinMay'
  BY DEF IInv, TypeOK, WellFormed, LookedUpWithinMay
<1>6. OnlyGrantedTasksRun'
  BY DEF IInv, TypeOK, OnlyGrantedTasksRun
<1> QED
  BY <1>1, <1>2, <1>3, <1>4, <1>5, <1>6 DEF IInv

LEMMA CheckPermissionStep ==
    ASSUME IInv, NEW t \in Threads, CheckPermission(t)
    PROVE  IInv'
<1> DEFINE p == thread[t].peer
           next == [thread[t] EXCEPT !.at = "permitted", !.rec = NoId]
<1>1. thread[t] \in Handler /\ p \in Peers /\ thread[t].action \in Actions
  BY DEF CheckPermission, IInv, TypeOK, WellFormed, TaskStages
<1>2. /\ next \in Handler /\ next.at = "permitted"
      /\ next.peer = p /\ next.action = thread[t].action
  BY <1>1 DEF Handler, TaskStages
<1>3. thread[t].action \in may[t]
  BY DEF CheckPermission, IInv, LookedUpWithinMay
<1>4. /\ heap' \in [Peers -> [Ids -> FriendRecord]]
      /\ \A q \in Peers, j \in Ids :
             heap'[q][j].permissions \subseteq heap[q][j].permissions
  BY <1>1, ObjectsEffect DEF CheckPermission, IInv, TypeOK
<1>5. thread' = [thread EXCEPT ![t] = next]
  BY DEF CheckPermission, IInv, TypeOK
<1> QED
  BY <1>1, <1>2, <1>3, <1>4, <1>5, AdvanceTask DEF CheckPermission

LEMMA RunTaskStep ==
    ASSUME IInv, NEW t \in Threads, RunTask(t)
    PROVE  IInv'
<1> DEFINE next == [thread[t] EXCEPT !.at = "running"]
<1>1. /\ thread[t] \in Handler /\ thread[t].peer \in Peers
      /\ thread[t].action \in Actions /\ thread[t].action \in may[t]
  BY DEF RunTask, IInv, TypeOK, WellFormed, TaskStages, OnlyGrantedTasksRun
<1>2. /\ next \in Handler /\ next.at = "running"
      /\ next.peer = thread[t].peer /\ next.action = thread[t].action
  BY <1>1 DEF Handler, TaskStages
<1>3. thread' = [thread EXCEPT ![t] = next] /\ UNCHANGED <<friends, heap, granted, may>>
  BY DEF RunTask, Goto, IInv, TypeOK
<1> QED
  BY <1>1, <1>2, <1>3, AdvanceTask DEF IInv, TypeOK

-----------------------------------------------------------------------------
(* The theorems.                                                           *)

LEMMA InitIInv == Init => IInv
<1> SUFFICES ASSUME Init PROVE IInv
  OBVIOUS
<1>1. TypeOK
  BY IdleType DEF Init, TypeOK, NewPendingIn, FriendRecord, Statuses
<1>2. \A t \in Threads : thread[t] = Idle
  BY DEF Init
<1>3. WellFormed /\ LookedUpWithinMay /\ OnlyGrantedTasksRun /\ CarriedWithinGrant
  BY <1>2 DEF WellFormed, LookedUpWithinMay, OnlyGrantedTasksRun, CarriedWithinGrant,
              Writers, Idle, TaskStages
<1>4. DirectoryWithinGrant
  BY DEF Init, DirectoryWithinGrant, Known
<1> QED
  BY <1>1, <1>3, <1>4 DEF IInv

LEMMA NextIInv == IInv /\ [Next]_vars => IInv'
<1> SUFFICES ASSUME IInv, [Next]_vars PROVE IInv'
  OBVIOUS
<1>1. ASSUME NEW p \in Peers, Message(p) PROVE IInv'
  BY <1>1, IntroduceStep, FriendAcceptStep DEF Message
<1>2. ASSUME NEW p \in Peers, OwnerStep(p) PROVE IInv'
  BY <1>2, AddPendingOutStep, ApproveStep, WithdrawStep, BlockStep DEF OwnerStep
<1>3. ASSUME NEW t \in Threads, RequestStep(t) PROVE IInv'
  BY <1>3, FriendRequestStep, MarkPendingStep, StoreStep, QueueStep, PolicyDenyStep,
     PolicyDeleteStep, PolicySweepStep, AutoApproveStep
     DEF RequestStep
<1>4. ASSUME NEW t \in Threads, TaskStep(t) PROVE IInv'
  BY <1>4, TaskRequestStep, CheckPermissionStep, RunTaskStep, EndTaskStep DEF TaskStep
<1>5. CASE UNCHANGED vars
  BY <1>5 DEF vars, IInv, TypeOK, WellFormed, DirectoryWithinGrant, CarriedWithinGrant,
              LookedUpWithinMay, OnlyGrantedTasksRun, Known, Record, Writers
<1> QED
  BY <1>1, <1>2, <1>3, <1>4, <1>5 DEF Next

\* The inductive invariant holds in every reachable state.
THEOREM Invariance == Spec => []IInv
BY InitIInv, NextIInv, PTL DEF Spec

\* Type correctness.
THEOREM TypeCorrect == Spec => []TypeOK
<1>1. IInv => TypeOK
  BY DEF IInv
<1> QED
  BY <1>1, Invariance, PTL

\* No record in the directory, and none that a handler may still store, gives more
\* than was granted to its peer and not revoked, whatever handlers and commands
\* interleave.
THEOREM MatrixSafe == Spec => []MatrixWithinGrant
<1>1. IInv => MatrixWithinGrant
  BY DEF IInv, MatrixWithinGrant
<1> QED
  BY <1>1, Invariance, PTL

\* on_task is never called for an action that was not granted to the sender
\* at some moment since the handler looked it up.
THEOREM TasksSafe == Spec => []OnlyGrantedTasksRun
<1>1. IInv => OnlyGrantedTasksRun
  BY DEF IInv
<1> QED
  BY <1>1, Invariance, PTL

-----------------------------------------------------------------------------
(* Friendship implements AccessControl.                                    *)

\* Steps that neither grant, revoke nor touch a task request.
LEMMA StutterStep ==
    ASSUME granted' = granted, \A t \in Threads : RequestOf(t)' = RequestOf(t)
    PROVE  UNCHANGED Access!accessVars
BY DEF Access!accessVars

LEMMA RevokeStep ==
    ASSUME TypeOK, NEW p \in Peers, granted' = [granted EXCEPT ![p] = {}],
           \A t \in Threads : RequestOf(t)' = RequestOf(t)
    PROVE  Access!Revoke(p)
BY DEF Access!Revoke

LEMMA WithdrawRefines ==
    ASSUME TypeOK, NEW p \in Peers, Withdraw(p),
           \A t \in Threads : RequestOf(t)' = RequestOf(t)
    PROVE  [Access!Next]_Access!accessVars
<1>1. granted' = [granted EXCEPT ![p] = IF Writers(p) = {} THEN {} ELSE granted[p]]
  BY DEF Withdraw
<1>2. granted' = [granted EXCEPT ![p] = {}] \/ granted' = granted
  BY <1>1 DEF TypeOK
<1> QED
  BY <1>2, RevokeStep, StutterStep DEF Access!Next

LEMMA GrantRefines ==
    ASSUME TypeOK, WellFormed, NEW p \in Peers, NEW grant \in SUBSET Actions,
           NEW overwritten, Grant(p, grant, overwritten),
           \A t \in Threads :
               \/ thread'[t] = thread[t]
               \/ thread[t].at \notin TaskStages /\ thread'[t].at \notin TaskStages
    PROVE  [Access!Next]_Access!accessVars
<1>1. \E kept \in {{}, granted[p]} : granted' = [granted EXCEPT ![p] = kept \cup grant]
  <2>1. CASE Carried(p) \subseteq overwritten
    BY <2>1 DEF Grant
  <2>2. CASE ~(Carried(p) \subseteq overwritten)
    BY <2>2 DEF Grant
  <2> QED
    BY <2>1, <2>2
<1>2. \A t \in Threads :
          RequestOf(t)' = IF RequestOf(t).state # "none" /\ RequestOf(t).peer = p
                          THEN [RequestOf(t) EXCEPT !.may = RequestOf(t).may \cup grant]
                          ELSE RequestOf(t)
  <2> SUFFICES ASSUME NEW t \in Threads
               PROVE  RequestOf(t)' = IF RequestOf(t).state # "none" /\ RequestOf(t).peer = p
                                      THEN [RequestOf(t) EXCEPT !.may = RequestOf(t).may \cup grant]
                                      ELSE RequestOf(t)
    OBVIOUS
  <2>1. may'[t] = IF thread[t].peer = p /\ thread[t].at \in TaskStages
                  THEN may[t] \cup grant ELSE may[t]
    BY DEF Grant
  <2>2. CASE thread[t].at \notin TaskStages
    BY <2>1, <2>2 DEF RequestOf
  <2>3. CASE thread[t].at \in TaskStages /\ thread[t].peer # p
    BY <2>1, <2>3 DEF RequestOf
  <2>4. CASE thread[t].at \in TaskStages /\ thread[t].peer = p
    BY <2>1, <2>4 DEF RequestOf
  <2> QED
    BY <2>2, <2>3, <2>4
<1>3. Access!Grant(p, grant)
  BY <1>1, <1>2 DEF Access!Grant, Access!Allowing
<1> QED
  BY <1>3 DEF Access!Next

LEMMA RefinesInit == Init => Access!Init
BY DEF Init, Access!Init, RequestOf, Idle, TaskStages, Access!NoRequest

\* A thread that handles no task, before and after.
LEMMA OffTask ==
    ASSUME NEW t \in Threads, thread[t].at \notin TaskStages,
           thread'[t].at \notin TaskStages
    PROVE  RequestOf(t)' = RequestOf(t)
BY DEF RequestOf

LEMMA SameTask ==
    ASSUME NEW t \in Threads, thread'[t] = thread[t], may'[t] = may[t]
    PROVE  RequestOf(t)' = RequestOf(t)
BY DEF RequestOf

LEMMA MessageRefines ==
    ASSUME NEW p \in Peers, Message(p)
    PROVE  [Access!Next]_Access!accessVars
BY SameTask, StutterStep DEF Message, Introduce, FriendAccept

LEMMA OwnerRefines ==
    ASSUME IInv, NEW p \in Peers, OwnerStep(p)
    PROVE  [Access!Next]_Access!accessVars
<1>1. ASSUME NEW grant \in OwnerGrants, AddPendingOut(p, grant) \/ Approve(p, grant)
      PROVE  [Access!Next]_Access!accessVars
  <2>1. grant \in SUBSET Actions /\ EffectiveGrant(grant) \in SUBSET Actions
    BY GrantsAssumption, DefaultGrantAssumption DEF EffectiveGrant
  <2>2. CASE AddPendingOut(p, grant)
    BY <2>1, <2>2, GrantRefines DEF AddPendingOut, IInv
  <2>3. CASE Approve(p, grant)
    BY <2>1, <2>3, GrantRefines DEF Approve, IInv
  <2> QED
    BY <1>1, <2>2, <2>3
<1>2. CASE Deny(p) \/ Remove(p)
  BY <1>2, SameTask, WithdrawRefines DEF Deny, Remove, IInv
<1>3. CASE Block(p)
  <2>1. \A t \in Threads : RequestOf(t)' = RequestOf(t)
    BY <1>3, SameTask DEF Block
  <2>2. granted' = [granted EXCEPT ![p] = {}] \/ granted' = granted
    BY <1>3 DEF Block, IInv, TypeOK
  <2> QED
    BY <2>1, <2>2, RevokeStep, StutterStep DEF Access!Next, IInv
<1> QED
  BY <1>1, <1>2, <1>3 DEF OwnerStep

\* Only t moves, between stages at which it handles no task.
LEMMA RequestThread ==
    ASSUME IInv, NEW t \in Threads, NEW next, thread[t].at \notin TaskStages,
           thread' = [thread EXCEPT ![t] = next], next.at \notin TaskStages,
           \A u \in Threads : u # t => may'[u] = may[u]
    PROVE  \A u \in Threads : RequestOf(u)' = RequestOf(u)
<1> SUFFICES ASSUME NEW u \in Threads PROVE RequestOf(u)' = RequestOf(u)
  OBVIOUS
<1>1. CASE u = t
  BY <1>1, OffTask DEF IInv, TypeOK
<1>2. CASE u # t
  BY <1>2, SameTask DEF IInv, TypeOK
<1> QED
  BY <1>1, <1>2

LEMMA RequestRefines ==
    ASSUME IInv, NEW t \in Threads, RequestStep(t)
    PROVE  [Access!Next]_Access!accessVars
<1> USE DEF TaskStages
<1>1. thread[t] \in Handler /\ Idle.at = "idle" /\ thread \in [Threads -> Handler]
  BY IdleType DEF IInv, TypeOK
<1>2. CASE \E p \in Peers : FriendRequest(t, p)
  <2>1. PICK p \in Peers : FriendRequest(t, p)
    BY <1>2
  <2>2. /\ \/ thread' = [thread EXCEPT ![t] = Carrying(p, friends[p])]
           \/ thread' = [thread EXCEPT ![t] = Carrying(p, New(p))]
        /\ thread[t] = Idle /\ UNCHANGED <<granted, may>>
    BY <2>1 DEF FriendRequest
  <2>3. \A i : Carrying(p, i).at = "registered"
    BY DEF Carrying
  <2>4. \A u \in Threads : RequestOf(u)' = RequestOf(u)
    BY <1>1, <2>2, <2>3, RequestThread
  <2> QED
    BY <2>2, <2>4, StutterStep
<1>3. CASE MarkPending(t)
  <2>1. thread' = [thread EXCEPT ![t] = [thread[t] EXCEPT !.at = "marked"]]
        /\ [thread[t] EXCEPT !.at = "marked"].at = "marked"
    BY <1>1, <1>3 DEF MarkPending, Goto, Handler
  <2>2. \A u \in Threads : RequestOf(u)' = RequestOf(u)
    BY <1>3, <2>1, RequestThread DEF MarkPending
  <2> QED
    BY <1>3, <2>2, StutterStep DEF MarkPending
<1>4. CASE StoreRequest(t) \/ StoreApproved(t)
  <2> DEFINE stored == [thread[t] EXCEPT !.at = "stored", !.rec = NoId]
  <2>1. stored.at = "stored"
    BY <1>1 DEF Handler
  <2>2. /\ thread' = [thread EXCEPT ![t] = stored] \/ thread' = [thread EXCEPT ![t] = Idle]
        /\ thread[t].at \notin TaskStages /\ UNCHANGED <<granted, may>>
    BY <1>4 DEF StoreRequest, StoreApproved, Upsert
  <2> HIDE DEF stored
  <2>3. \A u \in Threads : RequestOf(u)' = RequestOf(u)
    BY <1>1, <2>1, <2>2, RequestThread
  <2> QED
    BY <2>2, <2>3, StutterStep
<1>5. ASSUME thread[t].at \in {"stored", "denying", "sweeping"}, Finish(t)
      PROVE  \A u \in Threads : RequestOf(u)' = RequestOf(u)
  BY <1>1, <1>5, RequestThread DEF Finish, IInv, TypeOK
<1>6. ASSUME thread[t].at \in {"stored", "denying"}, NotPending(t) \/ Queue(t)
      PROVE  [Access!Next]_Access!accessVars
  BY <1>5, <1>6, StutterStep DEF NotPending, Queue
<1>7. CASE Queue(t)
  BY <1>6, <1>7 DEF Queue
<1>8. ASSUME NEW stage \in {"denying", "sweeping"}, Goto(t, stage), UNCHANGED may,
             thread[t].at \in {"stored", "denying"}
      PROVE  \A u \in Threads : RequestOf(u)' = RequestOf(u)
  <2>1. thread' = [thread EXCEPT ![t] = [thread[t] EXCEPT !.at = stage]]
        /\ [thread[t] EXCEPT !.at = stage].at = stage
    BY <1>1, <1>8 DEF Goto, Handler
  <2> QED
    BY <1>8, <2>1, RequestThread
<1>9. CASE PolicyDeny(t)
  <2>1. \E stage \in {"denying", "sweeping"} : Goto(t, stage)
    BY <1>9 DEF PolicyDeny
  <2> QED
    BY <1>8, <1>9, <2>1, StutterStep DEF PolicyDeny
<1>10. CASE PolicyDelete(t)
  <2>1. thread[t].peer \in Peers
    BY <1>10 DEF PolicyDelete, IInv, WellFormed
  <2> QED
    BY <1>6, <1>8, <1>10, <2>1, WithdrawRefines DEF PolicyDelete, IInv
<1>11. CASE PolicySweep(t)
  <2>1. thread[t].peer \in Peers
    BY <1>11 DEF PolicySweep, IInv, WellFormed
  <2> QED
    BY <1>5, <1>11, <2>1, WithdrawRefines, StutterStep DEF PolicySweep, IInv
<1>12. ASSUME NEW grant \in RoleGrants, AutoApprove(t, grant)
       PROVE  [Access!Next]_Access!accessVars
  <2> DEFINE p == thread[t].peer
  <2>1. p \in Peers /\ thread[t].at = "stored"
    BY <1>12 DEF AutoApprove, IInv, WellFormed
  <2>2. CASE NotPending(t)
    BY <1>6, <2>1, <2>2
  <2>3. CASE /\ thread' = [thread EXCEPT ![t].at = "approved", ![t].rec = friends[p]]
             /\ Grant(p, EffectiveGrant(grant), {friends[p]})
    <3>1. EffectiveGrant(grant) \in SUBSET Actions
      BY GrantsAssumption, DefaultGrantAssumption DEF EffectiveGrant
    <3>2. \A u \in Threads :
              \/ thread'[u] = thread[u]
              \/ thread[u].at \notin TaskStages /\ thread'[u].at \notin TaskStages
      BY <1>1, <2>1, <2>3 DEF Handler
    <3> QED
      BY <2>1, <2>3, <3>1, <3>2, GrantRefines DEF IInv
  <2> QED
    BY <1>12, <2>2, <2>3 DEF AutoApprove
<1> QED
  BY <1>2, <1>3, <1>4, <1>7, <1>9, <1>10, <1>11, <1>12 DEF RequestStep

LEMMA TaskRefines ==
    ASSUME IInv, NEW t \in Threads, TaskStep(t)
    PROVE  [Access!Next]_Access!accessVars
<1> USE DEF TaskStages
<1>1. thread[t] \in Handler /\ thread \in [Threads -> Handler]
      /\ may \in [Threads -> SUBSET Actions]
  BY DEF IInv, TypeOK
<1>2. ASSUME NEW p \in Peers, NEW a \in Actions, TaskRequest(t, p, a)
      PROVE  Access!Open(t, p, a)
  <2>1. /\ thread[t].at = "idle"
        /\ thread' = [thread EXCEPT ![t] =
                        [at |-> "accepted", peer |-> p, rec |-> friends[p], action |-> a]]
        /\ may' = [may EXCEPT ![t] = granted[p]]
        /\ granted' = granted
    BY <1>2 DEF TaskRequest, Idle
  <2>2. RequestOf(t) = Access!NoRequest
    BY <2>1 DEF RequestOf, Access!NoRequest
  <2>3. RequestOf(t)' = [state |-> "open", peer |-> p, action |-> a, may |-> granted[p]]
    BY <1>1, <2>1 DEF RequestOf
  <2>4. \A u \in Threads : u # t => RequestOf(u)' = RequestOf(u)
    BY <1>1, <2>1, SameTask
  <2> QED
    BY <2>1, <2>2, <2>3, <2>4 DEF Access!Open
<1>3. CASE CheckPermission(t)
  <2>1. /\ thread[t].at = "accepted"
        /\ thread' = [thread EXCEPT ![t].at = "permitted", ![t].rec = NoId]
        /\ UNCHANGED <<granted, may>>
    BY <1>3 DEF CheckPermission
  <2>2. RequestOf(t)' = RequestOf(t)
    BY <1>1, <2>1 DEF RequestOf, Handler
  <2>3. \A u \in Threads : u # t => RequestOf(u)' = RequestOf(u)
    BY <1>1, <2>1, SameTask
  <2> QED
    BY <2>1, <2>2, <2>3, StutterStep
<1>4. CASE RunTask(t)
  <2>1. /\ thread[t].at = "permitted" /\ thread[t].action \in may[t]
        /\ thread' = [thread EXCEPT ![t].at = "running"]
        /\ UNCHANGED <<granted, may>>
    BY <1>4 DEF RunTask, Goto, IInv, OnlyGrantedTasksRun
  <2>2. /\ RequestOf(t).state = "open" /\ RequestOf(t).action \in RequestOf(t).may
        /\ RequestOf(t)' = [RequestOf(t) EXCEPT !.state = "running"]
    BY <1>1, <2>1 DEF RequestOf, Handler
  <2>3. \A u \in Threads : u # t => RequestOf(u)' = RequestOf(u)
    BY <1>1, <2>1, SameTask
  <2>4. Access!Run(t)
    BY <2>1, <2>2, <2>3 DEF Access!Run
  <2> QED
    BY <2>4 DEF Access!Next
<1>5. CASE EndTask(t)
  <2>1. /\ thread' = [thread EXCEPT ![t] = Idle]
        /\ may' = [may EXCEPT ![t] = {}]
        /\ granted' = granted
    BY <1>5 DEF EndTask, Finish
  <2>2. RequestOf(t)' = Access!NoRequest
    BY <1>1, <2>1 DEF RequestOf, Idle, Access!NoRequest
  <2>3. \A u \in Threads : u # t => RequestOf(u)' = RequestOf(u)
    BY <1>1, <2>1, SameTask
  <2>4. Access!Close(t)
    BY <2>1, <2>2, <2>3 DEF Access!Close
  <2> QED
    BY <2>4 DEF Access!Next
<1> QED
  BY <1>2, <1>3, <1>4, <1>5 DEF TaskStep, Access!Next

\* The directory, its handlers and the owner's commands implement
\* AccessControl: they grant, they revoke, and no request runs for an action
\* its sender did not hold at some moment of the request.
THEOREM Refinement == Spec => ImplementsAccessControl
<1>1. IInv /\ [Next]_vars => [Access!Next]_Access!accessVars
  <2> SUFFICES ASSUME IInv, [Next]_vars
               PROVE  [Access!Next]_Access!accessVars
    OBVIOUS
  <2>1. CASE UNCHANGED vars
    BY <2>1, SameTask, StutterStep DEF vars
  <2>2. CASE Next
    BY <2>2, MessageRefines, OwnerRefines, RequestRefines, TaskRefines DEF Next
  <2> QED
    BY <2>1, <2>2
<1> QED
  BY <1>1, RefinesInit, Invariance, PTL DEF Spec, ImplementsAccessControl, Access!Spec

-----------------------------------------------------------------------------
(* What AccessControl promises.                                            *)

LEMMA RequestValues ==
  /\ \A t \in Threads : [u \in Threads |-> RequestOf(u)][t] = RequestOf(t)
  /\ \A t \in Threads : [u \in Threads |-> RequestOf(u)]'[t] = RequestOf(t)'
OBVIOUS

LEMMA RequestFields ==
  ASSUME NEW t \in Threads, NEW grant
  PROVE  LET r == RequestOf(t) IN
         /\ [r EXCEPT !.may = @ \cup grant].state = r.state
         /\ [r EXCEPT !.may = @ \cup grant].action = r.action
         /\ [r EXCEPT !.may = @ \cup grant].may = r.may \cup grant
         /\ [r EXCEPT !.state = "running"].action = r.action
         /\ [r EXCEPT !.state = "running"].may = r.may
BY DEF RequestOf

LEMMA AccessStep ==
  ASSUME Access!OnlyAllowedRuns, [Access!Next]_Access!accessVars
  PROVE  Access!OnlyAllowedRuns'
<1> DEFINE Safe(r) == r.state = "running" => r.action \in r.may
<1>1. \A t \in Threads : Safe(RequestOf(t))
  BY RequestValues DEF Access!OnlyAllowedRuns
<1> SUFFICES ASSUME NEW t \in Threads PROVE Safe(RequestOf(t)')
  BY RequestValues DEF Access!OnlyAllowedRuns
<1>2. ASSUME [u \in Threads |-> RequestOf(u)]' = [u \in Threads |-> RequestOf(u)]
      PROVE  Safe(RequestOf(t)')
  <2>1. RequestOf(t)' = RequestOf(t)
    BY <1>2, RequestValues
  <2> QED
    BY <1>1, <2>1
<1>3. CASE UNCHANGED Access!accessVars \/ \E p \in Peers : Access!Revoke(p)
  BY <1>2, <1>3 DEF Access!accessVars, Access!Revoke
<1>4. ASSUME NEW p \in Peers, NEW grant \in SUBSET Actions, Access!Grant(p, grant)
      PROVE  Safe(RequestOf(t)')
  <2>1. \/ RequestOf(t)' = RequestOf(t)
        \/ RequestOf(t)' = [RequestOf(t) EXCEPT !.may = @ \cup grant]
    BY <1>4, RequestValues DEF Access!Grant, Access!Allowing
  <2>2. ASSUME RequestOf(t)' = [RequestOf(t) EXCEPT !.may = @ \cup grant]
        PROVE  /\ RequestOf(t)'.state = RequestOf(t).state
               /\ RequestOf(t)'.action = RequestOf(t).action
               /\ RequestOf(t)'.may = RequestOf(t).may \cup grant
    BY <2>2, RequestFields
  <2> QED
    BY <1>1, <2>1, <2>2
<1>5. ASSUME NEW u \in Threads, NEW p \in Peers, NEW a \in Actions, Access!Open(u, p, a)
      PROVE  Safe(RequestOf(t)')
  <2>1. \/ RequestOf(t)' = RequestOf(t)
        \/ RequestOf(t)' = [state |-> "open", peer |-> p, action |-> a, may |-> granted[p]]
    BY <1>5, RequestValues DEF Access!Open
  <2> QED
    BY <1>1, <2>1
<1>6. ASSUME NEW u \in Threads, Access!Run(u)
      PROVE  Safe(RequestOf(t)')
  <2>1. /\ RequestOf(u).action \in RequestOf(u).may
        /\ \/ RequestOf(t)' = RequestOf(t)
           \/ t = u /\ RequestOf(t)' = [RequestOf(t) EXCEPT !.state = "running"]
    BY <1>6, RequestValues DEF Access!Run
  <2> QED
    BY <1>1, <2>1, RequestFields
<1>7. ASSUME NEW u \in Threads, Access!Close(u)
      PROVE  Safe(RequestOf(t)')
  <2>1. \/ RequestOf(t)' = RequestOf(t)
        \/ RequestOf(t)' = [state |-> "none", peer |-> NoPeer, action |-> NoAction, may |-> {}]
    BY <1>7, RequestValues DEF Access!Close, Access!NoRequest
  <2> QED
    BY <1>1, <2>1
<1> QED
  BY <1>3, <1>4, <1>5, <1>6, <1>7 DEF Access!Next

\* Whatever the steps of AccessControl are, nothing runs that was not allowed at
\* some moment of its request.
THEOREM AccessPromise == Access!Spec => []Access!OnlyAllowedRuns
<1>1. Access!Init => Access!OnlyAllowedRuns
  BY DEF Access!Init, Access!OnlyAllowedRuns, Access!NoRequest
<1> QED
  BY <1>1, AccessStep, PTL DEF Access!Spec

=============================================================================
