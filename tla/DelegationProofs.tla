-------------------------- MODULE DelegationProofs --------------------------
(***************************************************************************)
(* Theorems about Delegation, for any number of calls, task ids, retries,  *)
(* polls and restarts: type correctness, at most one execution of a call   *)
(* in a life of the executing agent, agreement of what the delegating      *)
(* agent holds with what the executor decided, and the refinement of       *)
(* RemoteResults.                                                          *)
(***************************************************************************)
EXTENDS Delegation, TLAPS

\* A call after its answer and before its end.
Answered == {"answered", "created", "marked", "polling", "settled"}

\* A task of the present life belongs to a call whose nonce is marked.
OriginOK(k) ==
    /\ origin[k].call = NoCall => record[k] = "none"
    /\ record[k] = "none" => origin[k].call = NoCall \/ Forgotten(k)
    /\ origin[k].life <= restarts
    /\ origin[k].call # NoCall /\ origin[k].life = restarts => origin[k].call \in accepted

\* While its thread runs, nobody else knows the task, and its record is where
\* the thread has taken it.
HandlerOK(k) ==
    LET h == handler[k] IN
    \/ h = NoHandler
    \/ /\ h.at # "none"
       /\ h.call \in Calls /\ origin[k].call = h.call
       /\ mirror[k] = "none"
       /\ \A c \in Calls : call[c].at \in Answered \cup {"returned"} => call[c].task # k
       /\ h.at = "created" => record[k] = "submitted" /\ verdict[k] = "none" /\ job[k] = "none"
       /\ h.at # "created" =>
             /\ h.target \in {"working", "completed", "failed"}
             /\ h.target # "working" => verdict[k] = h.target /\ job[k] = "none"
       /\ h.at = "accepting" => record[k] = "submitted" /\ h.target # "failed"
       /\ h.at = "settling" =>
             record[k] = IF h.target = "failed" THEN "submitted" ELSE "accepted"
       /\ h.at = "replying" => record[k] = h.target

JobOK(k) ==
    /\ origin[k].call = NoCall => job[k] = "none" /\ verdict[k] = "none" /\ mirror[k] = "none"
                                  /\ handler[k] = NoHandler
    /\ job[k] = "busy" => verdict[k] = "none"
    /\ job[k] = "pushing" => verdict[k] \in Final
    /\ job[k] # "none" => record[k] \notin {"completed", "failed"}

\* What a call holds after its answer, and where its mirror is.
CallOK(c) ==
    LET k == call[c].task
        s == call[c].state
    IN
    /\ call[c].at \in Answered \cup {"returned"} =>
          /\ k \in Tasks /\ origin[k].call = c
    /\ call[c].at \in Answered =>
          /\ s \in {"working", "completed", "failed"}
          /\ record[k] = s \/ Forgotten(k)
          /\ handler[k] = NoHandler
          /\ s # "working" => verdict[k] = s /\ job[k] = "none"
    /\ call[c].at = "answered" => mirror[k] = "none"
    /\ call[c].at = "created" => mirror[k] = "submitted" \/ (s = "working" /\ mirror[k] \in Final)
    /\ call[c].at = "marked" =>
          \/ mirror[k] = "accepted" /\ s # "failed"
          \/ mirror[k] \in {"working"} \cup Final /\ s = "working"
    /\ call[c].at = "polling" => s = "working" /\ mirror[k] \in {"working"} \cup Final
    /\ call[c].at = "settled" => s \in Final /\ mirror[k] = s
    /\ call[c].at = "returned" =>
          s \in {"working"} \cup Final /\ (s \in Final => mirror[k] = s)

MirrorOK(k) ==
    /\ mirror[k] \in Final => mirror[k] = verdict[k]
    /\ mirror[k] # "none" =>
          /\ handler[k] = NoHandler
          /\ \/ Forgotten(k)
             \/ /\ record[k] \in {"working", "completed", "failed"}
                /\ mirror[k] \in {"submitted", "accepted", record[k]}
             \/ /\ record[k] = "working"
                /\ mirror[k] \in Final
                /\ job[k] \in {"pushing", "done", "lost"}

IInv ==
    /\ TypeOK
    /\ OnceALife
    /\ \A k \in Tasks : OriginOK(k) /\ HandlerOK(k) /\ JobOK(k) /\ MirrorOK(k)
    /\ \A c \in Calls : CallOK(c)

-----------------------------------------------------------------------------
(* Facts about the lifecycle.                                              *)

LEMMA MoveFacts ==
    ASSUME NEW from, NEW to, CanMove(from, to)
    PROVE  /\ from \in {"submitted", "accepted", "working"}
           /\ to \in States \ {"submitted"}
           /\ to = "accepted" => from = "submitted"
           /\ to = "working" => from \in {"accepted", "working"}
<1>1. CASE from = "submitted"
    BY <1>1 DEF CanMove, Transitions, States, Final
<1>2. CASE from = "accepted"
    BY <1>2 DEF CanMove, Transitions, States, Final
<1>3. CASE from = "working"
    BY <1>3 DEF CanMove, Transitions, States, Final
<1>4. CASE from \in Final
    BY <1>4 DEF CanMove, Transitions, States, Final
<1>q. QED
    BY <1>1, <1>2, <1>3, <1>4 DEF CanMove, States, Final

-----------------------------------------------------------------------------
(* The calling thread.                                                     *)

\* Types of an updated call.
LEMMA CallTypes ==
    ASSUME NEW r \in Call, NEW stage \in CallStages
    PROVE  /\ [r EXCEPT !.at = stage] \in Call
           /\ \A i \in 0 .. Retries + 1 : [r EXCEPT !.at = stage, !.try = i] \in Call
           /\ \A k \in Tasks, s \in States :
                  [r EXCEPT !.at = stage, !.task = k, !.state = s] \in Call
           /\ \A s \in States : [r EXCEPT !.at = stage, !.state = s] \in Call
<1>1. [r EXCEPT !.at = stage] \in Call
    BY DEF Call
<1>2. ASSUME NEW i \in 0 .. Retries + 1
      PROVE  [r EXCEPT !.at = stage, !.try = i] \in Call
    BY Zenon DEF Call
<1>3. ASSUME NEW k \in Tasks, NEW s \in States
      PROVE  [r EXCEPT !.at = stage, !.task = k, !.state = s] \in Call
    BY Zenon DEF Call
<1>4. ASSUME NEW s \in States
      PROVE  [r EXCEPT !.at = stage, !.state = s] \in Call
    BY Zenon DEF Call
<1>q. QED
    BY <1>1, <1>2, <1>3, <1>4

\* A step that changes one call only, and gives it no task.
LEMMA CallAlone ==
    ASSUME IInv, NEW c \in Calls, NEW r \in Call,
           call' = [call EXCEPT ![c] = r],
           wire' \in [Calls -> SUBSET Attempts],
           UNCHANGED <<server, job, mirror, verdict>>,
           r.at \in Answered \cup {"returned"} =>
               call[c].at \in Answered /\ r.task = call[c].task,
           CallOK(c)'
    PROVE  IInv'
<1>1. TypeOK'
    BY DEF IInv, TypeOK, server
<1>2. OnceALife'
    BY DEF IInv, OnceALife, server
<1>3. ASSUME NEW k \in Tasks
      PROVE  OriginOK(k)' /\ JobOK(k)' /\ MirrorOK(k)'
    BY DEF IInv, server, OriginOK, JobOK, MirrorOK, Forgotten
<1>4. ASSUME NEW k \in Tasks
      PROVE  HandlerOK(k)'
    BY DEF IInv, TypeOK, server, HandlerOK
<1>5. ASSUME NEW d \in Calls
      PROVE  CallOK(d)'
    BY DEF IInv, TypeOK, server, CallOK, Forgotten
<1>q. QED
    BY <1>1, <1>2, <1>3, <1>4, <1>5 DEF IInv

LEMMA PostStep ==
    ASSUME IInv, NEW c \in Calls, Post(c)
    PROVE  IInv'
<1> DEFINE r == [call[c] EXCEPT !.at = "waiting", !.try = 1]
<1>1. call[c] \in Call /\ "waiting" \in CallStages /\ 1 \in 0 .. Retries + 1
    BY DelegationAssumption DEF IInv, TypeOK, CallStages
<1>2. r \in Call
    BY <1>1, CallTypes
<1>3. /\ call' = [call EXCEPT ![c] = r]
      /\ UNCHANGED <<server, job, mirror, verdict>>
    BY DEF Post
<1>4. r.at = "waiting" /\ r = call'[c]
    BY <1>1, <1>3 DEF Call, IInv, TypeOK
<1>5. wire' \in [Calls -> SUBSET Attempts]
    BY DelegationAssumption DEF IInv, TypeOK, Post, Attempts
<1>6. CallOK(c)'
    BY <1>4 DEF CallOK, Forgotten, Answered
<1>q. QED
    BY <1>2, <1>3, <1>4, <1>5, <1>6, CallAlone DEF Answered

\* The calls that go nowhere, or to their end.
LEMMA EndStep ==
    ASSUME IInv, NEW c \in Calls, To(c, "raised"),
           UNCHANGED <<wire, server, job, mirror, verdict>>
    PROVE  IInv'
<1> DEFINE r == [call[c] EXCEPT !.at = "raised"]
<1>1. call[c] \in Call /\ "raised" \in CallStages
    BY DEF IInv, TypeOK, CallStages
<1>2. r \in Call
    BY <1>1, CallTypes
<1>3. call' = [call EXCEPT ![c] = r]
    BY DEF To
<1>4. r.at = "raised" /\ r = call'[c]
    BY <1>1, <1>3 DEF Call, IInv, TypeOK
<1>5. wire' \in [Calls -> SUBSET Attempts]
    BY DEF IInv, TypeOK
<1>6. CallOK(c)'
    BY <1>4 DEF CallOK, Forgotten, Answered
<1>q. QED
    BY <1>2, <1>3, <1>4, <1>5, <1>6, CallAlone DEF Answered

LEMMA RepostStep ==
    ASSUME IInv, NEW c \in Calls, Repost(c)
    PROVE  IInv'
<1> DEFINE r == [call[c] EXCEPT !.try = call[c].try + 1]
<1>1. call[c] \in Call /\ call[c].try + 1 \in 0 .. Retries + 1 /\ call[c].try + 1 \in Attempts
    BY DelegationAssumption DEF IInv, TypeOK, Repost, Call, Attempts
<1>2. r \in Call
    BY <1>1 DEF Call
<1>3. /\ call' = [call EXCEPT ![c] = r]
      /\ UNCHANGED <<server, job, mirror, verdict>>
    BY DEF Repost
<1>4. r.at = "waiting" /\ r = call'[c]
    BY <1>1, <1>3 DEF Call, IInv, TypeOK, Repost
<1>5. wire' \in [Calls -> SUBSET Attempts]
    BY <1>1 DEF IInv, TypeOK, Repost
<1>6. CallOK(c)'
    BY <1>4 DEF CallOK, Forgotten, Answered
<1>q. QED
    BY <1>2, <1>3, <1>4, <1>5, <1>6, CallAlone DEF Answered

\* The call returns: the payload of a task_result, or "working".
LEMMA ReturnStep ==
    ASSUME IInv, NEW c \in Calls, ReturnResult(c) \/ StopPolling(c)
    PROVE  IInv'
<1> DEFINE r == [call[c] EXCEPT !.at = "returned"]
<1>1. call[c] \in Call /\ "returned" \in CallStages
    BY DEF IInv, TypeOK, CallStages
<1>2. r \in Call
    BY <1>1, CallTypes
<1>3. /\ call' = [call EXCEPT ![c] = r]
      /\ UNCHANGED <<wire, server, job, mirror, verdict>>
      /\ call[c].at \in {"settled", "polling"}
    BY DEF ReturnResult, StopPolling, To
<1>4. r.at = "returned" /\ r.task = call[c].task /\ r.state = call[c].state /\ r = call'[c]
    BY <1>1, <1>3 DEF Call, IInv, TypeOK
<1>5. wire' \in [Calls -> SUBSET Attempts]
    BY <1>3 DEF IInv, TypeOK
<1>6. CallOK(c)'
    BY <1>3, <1>4 DEF IInv, CallOK, Forgotten, Answered, server, Final
<1>q. QED
    BY <1>2, <1>3, <1>4, <1>5, <1>6, CallAlone DEF Answered

LEMMA PollStep ==
    ASSUME IInv, NEW c \in Calls, Poll(c)
    PROVE  IInv'
<1> DEFINE k == call[c].task
<1>1. call[c] \in Call /\ call[c].at = "polling" /\ wire' \in [Calls -> SUBSET Attempts]
    BY DEF IInv, TypeOK, Poll
<1>2. UNCHANGED <<server, job, mirror, verdict>>
    BY DEF Poll
<1>3. CASE mirror[k] \in Final
    <2> DEFINE r == [call[c] EXCEPT !.at = "returned", !.state = mirror[k]]
    <2>1. "returned" \in CallStages /\ mirror[k] \in States
        BY <1>3 DEF CallStages, States, Final
    <2>2. r \in Call
        BY <1>1, <2>1, CallTypes
    <2>3. call' = [call EXCEPT ![c] = r]
        BY <1>3 DEF Poll
    <2>4. r.at = "returned" /\ r.task = k
        BY <1>1 DEF Call
    <2>5. call'[c].at = "returned" /\ call'[c].task = k /\ call'[c].state = mirror[k]
        BY <1>1, <2>3 DEF Call, IInv, TypeOK
    <2>6. CallOK(c)'
        BY <1>1, <1>2, <1>3, <2>5 DEF IInv, CallOK, Forgotten, Answered, server, Final
    <2>q. QED
        BY <1>1, <1>2, <2>2, <2>3, <2>4, <2>6, CallAlone DEF Answered
<1>4. CASE mirror[k] \notin Final
    <2> DEFINE r == [call[c] EXCEPT !.probes = call[c].probes + 1]
    <2>1. call[c].probes + 1 \in 0 .. PollMax
        BY <1>1, DelegationAssumption DEF Call, Poll
    <2>2. r \in Call
        BY <1>1, <2>1 DEF Call
    <2>3. call' = [call EXCEPT ![c] = r]
        BY <1>4 DEF Poll
    <2>4. r.at = "polling" /\ r.task = k
        BY <1>1 DEF Call
    <2>5. call'[c].at = "polling" /\ call'[c].task = k /\ call'[c].state = call[c].state
        BY <1>1, <2>3 DEF Call, IInv, TypeOK
    <2>6. CallOK(c)'
        BY <1>1, <1>2, <2>5 DEF IInv, CallOK, Forgotten, Answered, server
    <2>q. QED
        BY <1>1, <1>2, <2>2, <2>3, <2>4, <2>6, CallAlone DEF Answered
<1>q. QED
    BY <1>3, <1>4

\* A step that moves a call and the mirror of its task.
LEMMA MirrorMoves ==
    ASSUME IInv, NEW c \in Calls, NEW stage \in CallStages, NEW s \in States,
           call[c].at \in Answered, stage \in Answered, To(c, stage),
           mirror' = [mirror EXCEPT ![call[c].task] = s],
           UNCHANGED <<wire, server, job, verdict>>,
           s \in Final => s = verdict[call[c].task],
           \/ s \in {"submitted", "accepted"}
           \/ s = record[call[c].task]
           \/ Forgotten(call[c].task),
           CallOK(c)'
    PROVE  IInv'
<1> DEFINE k == call[c].task
<1>1. call[c] \in Call /\ k \in Tasks /\ origin[k].call = c /\ handler[k] = NoHandler
          /\ (record[k] \in {"working", "completed", "failed"} \/ Forgotten(k))
    BY DEF IInv, TypeOK, CallOK
<1>2. [call[c] EXCEPT !.at = stage] \in Call
    BY <1>1, CallTypes
<1>3. /\ call' \in [Calls -> Call]
      /\ call'[c].task = k
      /\ \A d \in Calls : d # c => call'[d] = call[d]
      /\ mirror' \in [Tasks -> States \cup {"none"}]
      /\ mirror'[k] = s
      /\ \A j \in Tasks : j # k => mirror'[j] = mirror[j]
    BY <1>1, <1>2 DEF IInv, TypeOK, To, Call
<1>4. TypeOK'
    BY <1>3 DEF IInv, TypeOK, server
<1>5. OnceALife'
    BY DEF IInv, OnceALife, server
<1>6. ASSUME NEW j \in Tasks
      PROVE  OriginOK(j)' /\ JobOK(j)' /\ MirrorOK(j)'
    BY <1>1, <1>3, DelegationAssumption DEF IInv, server, OriginOK, JobOK, MirrorOK, Forgotten
<1>7. ASSUME NEW j \in Tasks
      PROVE  HandlerOK(j)'
    <2>1. CASE handler[j] = NoHandler
        BY <2>1 DEF HandlerOK, server, NoHandler
    <2>2. CASE handler[j] # NoHandler
        BY <2>2, <1>1, <1>3 DEF IInv, HandlerOK, server
    <2>q. QED
        BY <2>1, <2>2
<1>8. ASSUME NEW d \in Calls, d # c
      PROVE  CallOK(d)'
    <2>1. call[d].at \in Answered \cup {"returned"} => call[d].task \in Tasks /\ call[d].task # k
        BY <1>1, <1>8 DEF IInv, CallOK, Forgotten
    <2>q. QED
        BY <2>1, <1>3, <1>8 DEF IInv, CallOK, Forgotten, server, Answered
<1>q. QED
    BY <1>4, <1>5, <1>6, <1>7, <1>8 DEF IInv

LEMMA CreateMirrorStep ==
    ASSUME IInv, NEW c \in Calls, CreateMirror(c)
    PROVE  IInv'
<1>1. call[c] \in Call /\ call[c].at = "answered" /\ call[c].task \in Tasks
    BY DEF IInv, TypeOK, CallOK, Forgotten, CreateMirror, Answered
<1>2. /\ To(c, "created")
      /\ mirror' = [mirror EXCEPT ![call[c].task] = "submitted"]
      /\ UNCHANGED <<wire, server, job, verdict>>
    BY DEF CreateMirror
<1>3. call'[c].at = "created" /\ call'[c].task = call[c].task /\ call'[c].state = call[c].state
    BY <1>1, <1>2 DEF To, Call, IInv, TypeOK
<1>4. mirror'[call[c].task] = "submitted"
    BY <1>1, <1>2 DEF IInv, TypeOK
<1>5. CallOK(c)'
    BY <1>1, <1>2, <1>3, <1>4 DEF IInv, CallOK, Forgotten, Answered, server
<1>q. QED
    BY <1>1, <1>2, <1>5, MirrorMoves DEF Answered, CallStages, States, Final

\* The two updates of the mirror, when the registry allows them.
LEMMA MarkMirrorStep ==
    ASSUME IInv, NEW c \in Calls, MarkMirror(c)
    PROVE  IInv'
<1> DEFINE k == call[c].task
<1>1. /\ call[c] \in Call /\ call[c].at = "created" /\ k \in Tasks /\ call[c].state # "failed"
      /\ UNCHANGED <<wire, server, job, verdict>>
    BY DEF IInv, TypeOK, CallOK, Forgotten, MarkMirror, UpdateMirror, Answered
<1>2. CASE CanMove(mirror[k], "accepted")
    <2>1. To(c, "marked") /\ mirror' = [mirror EXCEPT ![k] = "accepted"]
        BY <1>2 DEF MarkMirror, UpdateMirror
    <2>2. call'[c].at = "marked" /\ call'[c].task = k /\ call'[c].state = call[c].state
        BY <1>1, <2>1 DEF To, Call, IInv, TypeOK
    <2>3. mirror'[k] = "accepted"
        BY <1>1, <2>1 DEF IInv, TypeOK
    <2>4. CallOK(c)'
        BY <1>1, <2>2, <2>3 DEF IInv, CallOK, Forgotten, Answered, server
    <2>q. QED
        BY <1>1, <2>1, <2>4, MirrorMoves DEF Answered, CallStages, States, Final
<1>3. CASE ~CanMove(mirror[k], "accepted")
    BY <1>1, <1>3, EndStep DEF MarkMirror, UpdateMirror
<1>q. QED
    BY <1>2, <1>3

LEMMA SettleMirrorStep ==
    ASSUME IInv, NEW c \in Calls, SettleMirror(c)
    PROVE  IInv'
<1> DEFINE k == call[c].task
           s == call[c].state
           stage == IF s = "working" THEN "polling" ELSE "settled"
<1>1. /\ call[c] \in Call /\ call[c].at \in {"marked", "created"} /\ k \in Tasks
      /\ s \in {"working", "completed", "failed"}
      /\ UNCHANGED <<wire, server, job, verdict>>
    BY DEF IInv, TypeOK, CallOK, Forgotten, SettleMirror, UpdateMirror, Answered
<1>2. CASE CanMove(mirror[k], s)
    <2>1. To(c, stage) /\ mirror' = [mirror EXCEPT ![k] = s]
        BY <1>2 DEF SettleMirror, UpdateMirror
    <2>2. call'[c].at = stage /\ call'[c].task = k /\ call'[c].state = s
        BY <1>1, <2>1 DEF To, Call, IInv, TypeOK
    <2>3. mirror'[k] = s
        BY <1>1, <2>1 DEF IInv, TypeOK
    <2>4. CallOK(c)'
        BY <1>1, <2>2, <2>3 DEF IInv, CallOK, Forgotten, Answered, server, Final
    <2>5. s \in Final => s = verdict[k]
        BY <1>1 DEF IInv, CallOK, Forgotten, Answered, Final
    <2>6. record[k] = s \/ Forgotten(k)
        BY <1>1 DEF IInv, CallOK, Forgotten, Answered
    <2>q. QED
        BY <1>1, <2>1, <2>4, <2>5, <2>6, MirrorMoves DEF Answered, CallStages, States, Final
<1>3. CASE ~CanMove(mirror[k], s)
    BY <1>1, <1>3, EndStep DEF SettleMirror, UpdateMirror
<1>q. QED
    BY <1>2, <1>3

-----------------------------------------------------------------------------
(* The network and the executing agent.                                    *)

LEMMA LoseStep ==
    ASSUME IInv, NEW c \in Calls, NEW i \in Attempts, Lose(c, i)
    PROVE  IInv'
<1>1. TypeOK'
    BY DEF IInv, TypeOK, Lose, server
<1>2. UNCHANGED <<call, server, job, mirror, verdict>>
    BY DEF Lose
<1>q. QED
    BY <1>1, <1>2 DEF IInv, server, OnceALife, OriginOK, HandlerOK, JobOK, MirrorOK, Forgotten, CallOK, Forgotten

\* A refusal marks the nonce or not, and ends the call or not.
LEMMA RefuseStep ==
    ASSUME IInv, NEW c \in Calls, NEW i \in Attempts, Refuse(c, i)
    PROVE  IInv'
<1>1. /\ accepted \subseteq accepted' /\ accepted' \subseteq Calls
      /\ UNCHANGED <<record, handler, origin, restarts, job, mirror, verdict>>
    BY DEF Refuse, IInv, TypeOK
<1>2. /\ call' \in [Calls -> Call]
      /\ \A d \in Calls : call'[d] = call[d] \/ call'[d].at = "raised"
    <2>1. CASE UNCHANGED call
        BY <2>1 DEF IInv, TypeOK
    <2>2. CASE call' = [call EXCEPT ![c] = [call[c] EXCEPT !.at = "raised"]]
        <3>1. call[c] \in Call /\ "raised" \in CallStages
            BY DEF IInv, TypeOK, CallStages
        <3>2. [call[c] EXCEPT !.at = "raised"] \in Call
            BY <3>1, CallTypes
        <3>q. QED
            BY <2>2, <3>1, <3>2 DEF IInv, TypeOK, Call
    <2>q. QED
        BY <2>1, <2>2 DEF Refuse, Answer
<1>3. TypeOK'
    BY <1>1, <1>2 DEF IInv, TypeOK, Refuse
<1>4. OnceALife'
    BY <1>1 DEF IInv, OnceALife
<1>5. ASSUME NEW k \in Tasks
      PROVE  OriginOK(k)' /\ JobOK(k)' /\ MirrorOK(k)'
    BY <1>1 DEF IInv, OriginOK, JobOK, MirrorOK, Forgotten
<1>6. ASSUME NEW k \in Tasks
      PROVE  HandlerOK(k)'
    BY <1>1, <1>2 DEF IInv, HandlerOK, Answered
<1>7. ASSUME NEW d \in Calls
      PROVE  CallOK(d)'
    BY <1>1, <1>2 DEF IInv, CallOK, Forgotten, Answered
<1>q. QED
    BY <1>3, <1>4, <1>5, <1>6, <1>7 DEF IInv

\* The task is fresh: nobody knows it, and no task of this life serves c.
LEMMA AcceptStep ==
    ASSUME IInv, NEW c \in Calls, NEW i \in Attempts, NEW k \in Tasks, Accept(c, i, k)
    PROVE  IInv'
<1>1. /\ origin[k].call = NoCall
      /\ c \notin accepted /\ accepted' = accepted \cup {c}
      /\ UNCHANGED <<call, restarts, job, mirror, verdict>>
      /\ job[k] = "none" /\ verdict[k] = "none" /\ mirror[k] = "none" /\ record[k] = "none"
    BY DEF Accept, Unserved, IInv, JobOK, OriginOK
<1>2. /\ record'[k] = "submitted"
      /\ origin'[k] = [call |-> c, life |-> restarts]
      /\ handler'[k] = [at |-> "created", call |-> c, try |-> i, target |-> "none"]
      /\ \A j \in Tasks : j # k =>
            record'[j] = record[j] /\ origin'[j] = origin[j] /\ handler'[j] = handler[j]
    BY DEF Accept, ServedBy, IInv, TypeOK
<1>3. TypeOK'
    <2>1. ServedBy(c, i) \in Handler
        BY DelegationAssumption DEF ServedBy, Handler, HandlerStages, Attempts
    <2>2. [call |-> c, life |-> restarts] \in [call : Calls \cup {NoCall}, life : 0 .. MaxRestarts]
        BY DEF IInv, TypeOK
    <2>q. QED
        BY <1>1, <2>1, <2>2 DEF Accept, IInv, TypeOK, States
<1>4. OnceALife'
    BY <1>1, <1>2 DEF IInv, OnceALife, OriginOK
<1>5. ASSUME NEW j \in Tasks
      PROVE  OriginOK(j)' /\ JobOK(j)' /\ MirrorOK(j)'
    BY <1>1, <1>2, DelegationAssumption DEF IInv, TypeOK, OriginOK, JobOK, MirrorOK, Forgotten, Final
<1>6. ASSUME NEW j \in Tasks
      PROVE  HandlerOK(j)'
    BY <1>1, <1>2, DelegationAssumption DEF IInv, HandlerOK, CallOK, Forgotten, Answered
<1>7. ASSUME NEW d \in Calls
      PROVE  CallOK(d)'
    BY <1>1, <1>2, DelegationAssumption DEF IInv, CallOK, Forgotten, Answered
<1>q. QED
    BY <1>3, <1>4, <1>5, <1>6, <1>7 DEF IInv

\* A step of the thread that serves k, before it answers.
LEMMA HandlerMoves ==
    ASSUME IInv, NEW k \in Tasks, NEW h \in Handler, NEW s \in States,
           handler[k].at # "none",
           handler' = [handler EXCEPT ![k] = h],
           record' = [record EXCEPT ![k] = s],
           job' \in [Tasks -> {"none", "busy", "pushing", "done", "lost"}],
           verdict' \in [Tasks -> Final \cup {"none"}],
           \A j \in Tasks : j # k => job'[j] = job[j] /\ verdict'[j] = verdict[j],
           UNCHANGED <<client, accepted, origin, restarts, mirror>>,
           HandlerOK(k)', JobOK(k)'
    PROVE  IInv'
<1>1. /\ handler'[k] = h /\ record'[k] = s
      /\ \A j \in Tasks : j # k => handler'[j] = handler[j] /\ record'[j] = record[j]
      /\ UNCHANGED <<call, wire>>
    BY DEF IInv, TypeOK, client
<1>2. /\ origin[k].call # NoCall
      /\ mirror[k] = "none"
      /\ \A c \in Calls : call[c].at \in Answered \cup {"returned"} => call[c].task # k
    BY DelegationAssumption DEF IInv, HandlerOK, NoHandler
<1>3. TypeOK'
    BY <1>1 DEF IInv, TypeOK
<1>4. OnceALife'
    BY DEF IInv, OnceALife
<1>5. ASSUME NEW j \in Tasks
      PROVE  OriginOK(j)' /\ MirrorOK(j)'
    BY <1>1, <1>2 DEF IInv, OriginOK, MirrorOK, Forgotten, States, Final
<1>6. ASSUME NEW j \in Tasks, j # k
      PROVE  HandlerOK(j)' /\ JobOK(j)'
    BY <1>1, <1>6 DEF IInv, HandlerOK, JobOK
<1>7. ASSUME NEW d \in Calls
      PROVE  CallOK(d)'
    <2>1. call[d].at \in Answered \cup {"returned"} => call[d].task \in Tasks /\ call[d].task # k
        BY <1>2 DEF IInv, CallOK, Forgotten
    <2>q. QED
        BY <2>1, <1>1 DEF IInv, CallOK, Forgotten, Answered
<1>q. QED
    BY <1>3, <1>4, <1>5, <1>6, <1>7 DEF IInv

\* Types of an updated handler.
LEMMA HandlerTypes ==
    ASSUME NEW h \in Handler, NEW stage \in HandlerStages
    PROVE  /\ [h EXCEPT !.at = stage] \in Handler
           /\ \A t \in {"none", "working", "completed", "failed"} :
                  [h EXCEPT !.at = stage, !.target = t] \in Handler
<1>1. [h EXCEPT !.at = stage] \in Handler
    BY DEF Handler
<1>2. ASSUME NEW t \in {"none", "working", "completed", "failed"}
      PROVE  [h EXCEPT !.at = stage, !.target = t] \in Handler
    BY Zenon DEF Handler
<1>q. QED
    BY <1>1, <1>2

LEMMA ExecuteStep ==
    ASSUME IInv, NEW k \in Tasks, NEW end \in {"completed", "failed"}, Execute(k, end)
    PROVE  IInv'
<1> DEFINE stage == IF end = "failed" THEN "settling" ELSE "accepting"
           h == [handler[k] EXCEPT !.at = stage, !.target = end]
<1>1. /\ handler[k] \in Handler /\ handler[k].at = "created" /\ stage \in HandlerStages
      /\ record \in [Tasks -> States \cup {"none"}]
      /\ UNCHANGED <<client, accepted, record, origin, restarts, job, mirror>>
    BY DEF IInv, TypeOK, Execute, HandlerStages
<1>2. h \in Handler
    BY <1>1, HandlerTypes
<1>3. handler' = [handler EXCEPT ![k] = h] /\ verdict' = [verdict EXCEPT ![k] = end]
    BY DEF Execute
<1>4. /\ handler'[k].at = stage /\ handler'[k].target = end /\ handler'[k].call = handler[k].call
      /\ verdict'[k] = end
    BY <1>1, <1>3 DEF IInv, TypeOK, Handler
<1>5. /\ record[k] = "submitted" /\ job[k] = "none" /\ mirror[k] = "none"
      /\ handler[k].call \in Calls /\ origin[k].call = handler[k].call
      /\ \A c \in Calls : call[c].at \in Answered \cup {"returned"} => call[c].task # k
    BY <1>1 DEF IInv, HandlerOK, NoHandler
<1>6. HandlerOK(k)' /\ JobOK(k)'
    BY <1>1, <1>4, <1>5, DelegationAssumption DEF HandlerOK, JobOK, client, Final
<1>7. /\ job' \in [Tasks -> {"none", "busy", "pushing", "done", "lost"}]
      /\ verdict' \in [Tasks -> Final \cup {"none"}]
      /\ \A j \in Tasks : j # k => job'[j] = job[j] /\ verdict'[j] = verdict[j]
      /\ record' = [record EXCEPT ![k] = "submitted"]
    BY <1>1, <1>3, <1>5 DEF IInv, TypeOK, Final
<1>q. QED
    BY <1>1, <1>2, <1>3, <1>6, <1>7, HandlerMoves DEF States

LEMMA DeferStep ==
    ASSUME IInv, NEW k \in Tasks, NEW work \in {"none", "busy"}, Defer(k, work)
    PROVE  IInv'
<1> DEFINE h == [handler[k] EXCEPT !.at = "accepting", !.target = "working"]
<1>1. /\ handler[k] \in Handler /\ handler[k].at = "created" /\ "accepting" \in HandlerStages
      /\ record \in [Tasks -> States \cup {"none"}]
      /\ UNCHANGED <<client, accepted, record, origin, restarts, mirror, verdict>>
    BY DEF IInv, TypeOK, Defer, HandlerStages
<1>2. h \in Handler
    BY <1>1, HandlerTypes
<1>3. handler' = [handler EXCEPT ![k] = h] /\ job' = [job EXCEPT ![k] = work]
    BY DEF Defer
<1>4. /\ handler'[k].at = "accepting" /\ handler'[k].target = "working"
      /\ handler'[k].call = handler[k].call
      /\ job'[k] = work
    BY <1>1, <1>3 DEF IInv, TypeOK, Handler
<1>5. /\ record[k] = "submitted" /\ verdict[k] = "none" /\ mirror[k] = "none"
      /\ handler[k].call \in Calls /\ origin[k].call = handler[k].call
      /\ \A c \in Calls : call[c].at \in Answered \cup {"returned"} => call[c].task # k
    BY <1>1 DEF IInv, HandlerOK, NoHandler
<1>6. HandlerOK(k)' /\ JobOK(k)'
    BY <1>1, <1>4, <1>5, DelegationAssumption DEF HandlerOK, JobOK, client
<1>7. /\ job' \in [Tasks -> {"none", "busy", "pushing", "done", "lost"}]
      /\ verdict' \in [Tasks -> Final \cup {"none"}]
      /\ \A j \in Tasks : j # k => job'[j] = job[j] /\ verdict'[j] = verdict[j]
      /\ record' = [record EXCEPT ![k] = "submitted"]
    BY <1>1, <1>3, <1>5 DEF IInv, TypeOK
<1>q. QED
    BY <1>1, <1>2, <1>3, <1>6, <1>7, HandlerMoves DEF States

\* The two updates of the record.
LEMMA UpdateRecordStep ==
    ASSUME IInv, NEW k \in Tasks, MarkRecord(k) \/ SettleRecord(k)
    PROVE  IInv'
<1> DEFINE stage == IF handler[k].at = "accepting" THEN "settling" ELSE "replying"
           s == IF handler[k].at = "accepting" THEN "accepted" ELSE handler[k].target
           h == [handler[k] EXCEPT !.at = stage]
<1>1. /\ handler[k] \in Handler /\ handler[k].at \in {"accepting", "settling"}
      /\ stage \in HandlerStages
      /\ UNCHANGED <<client, accepted, origin, restarts, job, mirror, verdict>>
      /\ UpdateRecord(k, s, stage)
    BY DEF IInv, TypeOK, MarkRecord, SettleRecord, UpdateRecord, HandlerStages
<1>2. h \in Handler
    BY <1>1, HandlerTypes
<1>3. /\ handler' = [handler EXCEPT ![k] = h]
      /\ record' = [record EXCEPT ![k] = s]
      /\ CanMove(record[k], s)
    BY <1>1 DEF UpdateRecord
<1>4. s \in States /\ (s = "accepted" => record[k] = "submitted")
    BY <1>3, MoveFacts
<1>5. /\ handler'[k].at = stage /\ handler'[k].target = handler[k].target
      /\ handler'[k].call = handler[k].call
      /\ record'[k] = s
    BY <1>1, <1>3 DEF IInv, TypeOK, Handler
<1>6. /\ handler[k] # NoHandler
      /\ HandlerOK(k) /\ JobOK(k)
    BY <1>1 DEF IInv, NoHandler
<1>7. HandlerOK(k)'
    <2>1. CASE handler[k].at = "accepting"
        <3>1. handler[k].target \in {"working", "completed"}
            BY <2>1, <1>6 DEF HandlerOK
        <3>q. QED
            BY <2>1, <3>1, <1>1, <1>5, <1>6 DEF HandlerOK, client
    <2>2. CASE handler[k].at = "settling"
        BY <2>2, <1>1, <1>5, <1>6 DEF HandlerOK, client
    <2>q. QED
        BY <1>1, <2>1, <2>2
<1>8. JobOK(k)'
    <2>1. job[k] # "none" => s \notin {"completed", "failed"}
        BY <1>1, <1>6 DEF HandlerOK
    <2>q. QED
        BY <2>1, <1>1, <1>5, <1>6, DelegationAssumption DEF JobOK, HandlerOK
<1>9. /\ job' \in [Tasks -> {"none", "busy", "pushing", "done", "lost"}]
      /\ verdict' \in [Tasks -> Final \cup {"none"}]
      /\ \A j \in Tasks : j # k => job'[j] = job[j] /\ verdict'[j] = verdict[j]
    BY <1>1 DEF IInv, TypeOK
<1>q. QED
    BY <1>1, <1>2, <1>3, <1>4, <1>7, <1>8, <1>9, HandlerMoves

\* The thread ends, with or without an answer, and leaves the record as it is.
LEMMA DropStep ==
    ASSUME IInv, NEW k \in Tasks, handler[k].at # "none",
           handler' = [handler EXCEPT ![k] = NoHandler],
           UNCHANGED <<client, accepted, record, origin, restarts, job, mirror, verdict>>
    PROVE  IInv'
<1>1. /\ NoHandler \in Handler
      /\ handler'[k] = NoHandler
    BY DelegationAssumption DEF NoHandler, Handler, HandlerStages, IInv, TypeOK
<1>2. handler[k] # NoHandler /\ origin[k].call # NoCall
    BY DelegationAssumption DEF NoHandler, IInv, HandlerOK
<1>3. record[k] \in States /\ record' = [record EXCEPT ![k] = record[k]]
    BY <1>2 DEF IInv, TypeOK, HandlerOK, Handler, HandlerStages, States
<1>4. HandlerOK(k)' /\ JobOK(k)'
    BY <1>1, <1>2 DEF HandlerOK, JobOK, IInv
<1>5. /\ job' \in [Tasks -> {"none", "busy", "pushing", "done", "lost"}]
      /\ verdict' \in [Tasks -> Final \cup {"none"}]
      /\ \A j \in Tasks : j # k => job'[j] = job[j] /\ verdict'[j] = verdict[j]
    BY DEF IInv, TypeOK
<1>q. QED
    BY <1>1, <1>3, <1>4, <1>5, HandlerMoves

\* An answer that arrives gives its call the task; nobody else has it.
LEMMA ReplyStep ==
    ASSUME IInv, NEW k \in Tasks, Reply(k)
    PROVE  IInv'
<1> DEFINE c == handler[k].call
           s == handler[k].target
           r == [call[c] EXCEPT !.at = "answered", !.task = k, !.state = s]
<1>1. /\ handler[k].at = "replying" /\ handler' = [handler EXCEPT ![k] = NoHandler]
      /\ UNCHANGED <<wire, accepted, record, origin, restarts, job, mirror, verdict>>
      /\ Answer(c, handler[k].try, r)
    BY DEF Reply
<1>2. CASE UNCHANGED call
    BY <1>1, <1>2, DropStep DEF client
<1>3. CASE /\ call[c].at = "waiting"
           /\ call' = [call EXCEPT ![c] = r]
    <2>1. /\ c \in Calls /\ origin[k].call = c /\ mirror[k] = "none"
          /\ s \in {"working", "completed", "failed"} /\ record[k] = s
          /\ s # "working" => verdict[k] = s /\ job[k] = "none"
          /\ \A d \in Calls : call[d].at \in Answered \cup {"returned"} => call[d].task # k
        BY <1>1 DEF IInv, HandlerOK, NoHandler
    <2>2. call[c] \in Call /\ "answered" \in CallStages /\ s \in States
        BY <2>1 DEF IInv, TypeOK, CallStages, States
    <2>3. r \in Call
        BY <2>2, CallTypes
    <2>4. /\ call'[c].at = "answered" /\ call'[c].task = k /\ call'[c].state = s
          /\ \A d \in Calls : d # c => call'[d] = call[d]
        BY <1>3, <2>1, <2>2 DEF IInv, TypeOK, Call
    <2>5. /\ handler'[k] = NoHandler
          /\ \A j \in Tasks : j # k => handler'[j] = handler[j]
        BY <1>1 DEF IInv, TypeOK
    <2>6. TypeOK'
        <3>1. NoHandler \in Handler
            BY DelegationAssumption DEF NoHandler, Handler, HandlerStages
        <3>q. QED
            BY <3>1, <1>1, <1>3, <2>3 DEF IInv, TypeOK
    <2>7. OnceALife'
        BY <1>1 DEF IInv, OnceALife
    <2>8. ASSUME NEW j \in Tasks
          PROVE  OriginOK(j)' /\ JobOK(j)' /\ MirrorOK(j)'
        BY <1>1, <2>5 DEF IInv, OriginOK, JobOK, MirrorOK, Forgotten
    <2>9. ASSUME NEW j \in Tasks
          PROVE  HandlerOK(j)'
        BY <1>1, <2>4, <2>5 DEF IInv, HandlerOK
    <2>10. ASSUME NEW d \in Calls, d = c
           PROVE  CallOK(d)'
        BY <1>1, <2>1, <2>4, <2>5, <2>10 DEF CallOK, Forgotten, Answered
    <2>11. ASSUME NEW d \in Calls, d # c
           PROVE  CallOK(d)'
        BY <1>1, <2>4, <2>5, <2>11 DEF IInv, CallOK, Forgotten
    <2>q. QED
        BY <2>6, <2>7, <2>8, <2>9, <2>10, <2>11 DEF IInv
<1>q. QED
    BY <1>1, <1>2, <1>3 DEF Answer

\* A new life: no task belongs to it yet, and no thread runs.
LEMMA RestartStep ==
    ASSUME IInv, Restart
    PROVE  IInv'
<1>1. /\ restarts \in Nat /\ restarts' = restarts + 1 /\ restarts' \in 0 .. MaxRestarts
      /\ accepted' = {}
      /\ \A k \in Tasks : handler'[k] = NoHandler
      /\ \A k \in Tasks : job'[k] = job[k] \/ (job[k] # "none" /\ job'[k] = "lost")
      /\ \/ UNCHANGED record
         \/ \A k \in Tasks : record'[k] = "none"
      /\ UNCHANGED <<call, wire, origin, mirror, verdict>>
    BY DelegationAssumption DEF Restart, client, IInv, TypeOK
<1>2. TypeOK'
    <2>1. NoHandler \in Handler
        BY DelegationAssumption DEF NoHandler, Handler, HandlerStages
    <2>2. job' \in [Tasks -> {"none", "busy", "pushing", "done", "lost"}]
        BY DEF Restart, IInv, TypeOK
    <2>3. handler' \in [Tasks -> Handler]
        BY <2>1 DEF Restart
    <2>4. record' \in [Tasks -> States \cup {"none"}]
        BY DEF Restart, IInv, TypeOK
    <2>q. QED
        BY <1>1, <2>2, <2>3, <2>4 DEF IInv, TypeOK
<1>3. OnceALife'
    BY <1>1 DEF IInv, OnceALife
<1>4. ASSUME NEW k \in Tasks
      PROVE  OriginOK(k)'
    <2>1. origin[k].life \in Nat
        BY DelegationAssumption DEF IInv, TypeOK
    <2>q. QED
        BY <1>1, <2>1 DEF IInv, OriginOK, Forgotten
<1>5. ASSUME NEW k \in Tasks
      PROVE  /\ record'[k] = record[k] \/ Forgotten(k)'
             /\ Forgotten(k) => Forgotten(k)'
    <2>1. origin[k].life \in Nat /\ origin[k].life < restarts + 1
        BY <1>1, DelegationAssumption DEF IInv, TypeOK, OriginOK
    <2>q. QED
        BY <1>1, <2>1 DEF Forgotten
<1>6. ASSUME NEW k \in Tasks
      PROVE  HandlerOK(k)' /\ JobOK(k)'
    BY <1>1 DEF IInv, HandlerOK, JobOK
<1>7. ASSUME NEW k \in Tasks
      PROVE  MirrorOK(k)'
    BY <1>1, <1>5 DEF IInv, MirrorOK
<1>8. ASSUME NEW c \in Calls
      PROVE  CallOK(c)'
    BY <1>1, <1>5 DEF IInv, CallOK
<1>q. QED
    BY <1>2, <1>3, <1>4, <1>6, <1>7, <1>8 DEF IInv

-----------------------------------------------------------------------------
(* The executor.                                                           *)

LEMMA FinishStep ==
    ASSUME IInv, NEW k \in Tasks, NEW end \in Final, Finish(k, end)
    PROVE  IInv'
<1>1. /\ job[k] = "busy" /\ verdict[k] = "none"
      /\ job'[k] = "pushing" /\ verdict'[k] = end
      /\ \A j \in Tasks : j # k => job'[j] = job[j] /\ verdict'[j] = verdict[j]
      /\ UNCHANGED <<call, wire, accepted, record, handler, origin, restarts, mirror>>
    BY DEF Finish, IInv, TypeOK, JobOK, client, server
<1>2. TypeOK'
    BY DEF Finish, IInv, TypeOK, client, server
<1>3. OnceALife'
    BY <1>1 DEF IInv, OnceALife
<1>4. ASSUME NEW j \in Tasks
      PROVE  OriginOK(j)' /\ HandlerOK(j)' /\ JobOK(j)' /\ MirrorOK(j)'
    BY <1>1 DEF IInv, OriginOK, HandlerOK, JobOK, MirrorOK, Forgotten, Final
<1>5. ASSUME NEW c \in Calls
      PROVE  CallOK(c)'
    BY <1>1 DEF IInv, CallOK, Forgotten
<1>q. QED
    BY <1>2, <1>3, <1>4, <1>5 DEF IInv

\* A push finds its mirror only after the answer, and moves it only if the
\* task was deferred.
LEMMA PushStep ==
    ASSUME IInv, NEW k \in Tasks, Push(k)
    PROVE  IInv'
<1>1. /\ job[k] = "pushing" /\ verdict[k] \in Final
      /\ mirror[k] \in {"submitted", "accepted", "working"}
      /\ mirror'[k] = verdict[k] /\ job'[k] \in {"pushing", "done"}
      /\ \A j \in Tasks : j # k => job'[j] = job[j] /\ mirror'[j] = mirror[j]
      /\ UNCHANGED <<call, wire, accepted, record, handler, origin, restarts, verdict>>
    BY MoveFacts DEF Push, OnTaskResult, IInv, TypeOK, JobOK, client, server
<1>2. TypeOK'
    BY <1>1 DEF Push, OnTaskResult, IInv, TypeOK, States, Final
<1>3. OnceALife'
    BY <1>1 DEF IInv, OnceALife
<1>4. /\ handler[k] = NoHandler /\ origin[k].call # NoCall
      /\ record[k] = "working" \/ Forgotten(k)
    BY <1>1 DEF IInv, MirrorOK, JobOK, Final
<1>5. ASSUME NEW j \in Tasks
      PROVE  OriginOK(j)' /\ HandlerOK(j)' /\ JobOK(j)' /\ MirrorOK(j)'
    BY <1>1, <1>4 DEF IInv, OriginOK, HandlerOK, JobOK, MirrorOK, Forgotten, Final
<1>6. ASSUME NEW c \in Calls
      PROVE  CallOK(c)'
    <2>1. CASE call[c].at \in Answered \cup {"returned"} /\ call[c].task = k
        BY <2>1, <1>1 DEF IInv, CallOK, Forgotten, Answered, Final
    <2>2. CASE ~(call[c].at \in Answered \cup {"returned"} /\ call[c].task = k)
        BY <2>2, <1>1 DEF IInv, CallOK, Forgotten, Answered
    <2>q. QED
        BY <2>1, <2>2
<1>q. QED
    BY <1>2, <1>3, <1>5, <1>6 DEF IInv

LEMMA ReportStep ==
    ASSUME IInv, NEW k \in Tasks, Report(k)
    PROVE  IInv'
<1>1. /\ job[k] = "busy"
      /\ UNCHANGED <<call, wire, accepted, record, handler, origin, restarts, job, verdict>>
    BY DEF Report, client, server
<1>2. CASE UNCHANGED mirror
    BY <1>1, <1>2 DEF IInv, TypeOK, OnceALife, OriginOK, HandlerOK, JobOK, MirrorOK, CallOK, Forgotten
<1>3. CASE /\ CanMove(mirror[k], "working")
           /\ mirror' = [mirror EXCEPT ![k] = "working"]
    <2>1. /\ mirror[k] \in {"accepted", "working"}
          /\ mirror'[k] = "working"
          /\ \A j \in Tasks : j # k => mirror'[j] = mirror[j]
        BY <1>3, MoveFacts DEF IInv, TypeOK, CanMove, Transitions, Final, States
    <2>2. TypeOK'
        BY <1>1, <1>3 DEF IInv, TypeOK, States
    <2>3. OnceALife'
        BY <1>1 DEF IInv, OnceALife
    <2>4. handler[k] = NoHandler /\ (record[k] = "working" \/ Forgotten(k))
        BY <1>1, <2>1 DEF IInv, MirrorOK, JobOK, Final
    <2>5. ASSUME NEW j \in Tasks
          PROVE  OriginOK(j)' /\ HandlerOK(j)' /\ JobOK(j)' /\ MirrorOK(j)'
        BY <1>1, <2>1, <2>4 DEF IInv, OriginOK, HandlerOK, JobOK, MirrorOK, Forgotten, Final
    <2>6. ASSUME NEW c \in Calls
          PROVE  CallOK(c)'
        <3>1. CASE call[c].at \in Answered \cup {"returned"} /\ call[c].task = k
            BY <3>1, <1>1, <2>1 DEF IInv, CallOK, Forgotten, Answered, Final
        <3>2. CASE ~(call[c].at \in Answered \cup {"returned"} /\ call[c].task = k)
            BY <3>2, <1>1, <2>1 DEF IInv, CallOK, Forgotten, Answered
        <3>q. QED
            BY <3>1, <3>2
    <2>q. QED
        BY <2>2, <2>3, <2>5, <2>6 DEF IInv
<1>q. QED
    BY <1>2, <1>3 DEF Report, OnTaskResult

LEMMA PushRefusedStep ==
    ASSUME IInv, NEW k \in Tasks, PushRefused(k)
    PROVE  IInv'
<1>1. /\ job[k] = "pushing" /\ job'[k] = "done"
      /\ \A j \in Tasks : j # k => job'[j] = job[j]
      /\ UNCHANGED <<call, wire, accepted, record, handler, origin, restarts, mirror, verdict>>
    BY DEF PushRefused, OnTaskResult, IInv, TypeOK, client, server
<1>2. TypeOK'
    BY <1>1 DEF PushRefused, IInv, TypeOK
<1>3. OnceALife'
    BY <1>1 DEF IInv, OnceALife
<1>4. ASSUME NEW j \in Tasks
      PROVE  OriginOK(j)' /\ HandlerOK(j)' /\ JobOK(j)' /\ MirrorOK(j)'
    BY <1>1 DEF IInv, OriginOK, HandlerOK, JobOK, MirrorOK, Forgotten
<1>5. ASSUME NEW c \in Calls
      PROVE  CallOK(c)'
    BY <1>1 DEF IInv, CallOK, Forgotten
<1>q. QED
    BY <1>2, <1>3, <1>4, <1>5 DEF IInv

-----------------------------------------------------------------------------
(* The theorems.                                                           *)

\* IInv holds in every reachable state of Delegation.
THEOREM Invariance == Spec => []IInv
<1>1. Init => IInv
    <2> SUFFICES ASSUME Init PROVE IInv
        OBVIOUS
    <2>1. NewCall \in Call /\ NoHandler \in Handler
        BY DelegationAssumption DEF NewCall, Call, CallStages, NoHandler, Handler, HandlerStages
    <2>2. TypeOK
        BY <2>1, DelegationAssumption DEF Init, TypeOK
    <2>3. OnceALife
        BY DEF Init, OnceALife
    <2>4. ASSUME NEW k \in Tasks
          PROVE  OriginOK(k) /\ HandlerOK(k) /\ JobOK(k) /\ MirrorOK(k)
        BY DEF Init, OriginOK, HandlerOK, JobOK, MirrorOK, Forgotten, Final
    <2>5. ASSUME NEW c \in Calls
          PROVE  CallOK(c)
        BY DEF Init, CallOK, Forgotten, NewCall, Answered
    <2>q. QED
        BY <2>2, <2>3, <2>4, <2>5 DEF IInv
<1>2. IInv /\ [Next]_vars => IInv'
    <2> SUFFICES ASSUME IInv, [Next]_vars PROVE IInv'
        OBVIOUS
    <2>1. ASSUME NEW c \in Calls, ClientStep(c)
          PROVE  IInv'
        <3>1. CASE Post(c)
            BY <3>1, PostStep
        <3>2. CASE RefuseLocally(c) \/ GiveUp(c)
            BY <3>2, EndStep DEF RefuseLocally, GiveUp
        <3>3. CASE Repost(c)
            BY <3>3, RepostStep
        <3>4. CASE CreateMirror(c)
            BY <3>4, CreateMirrorStep
        <3>5. CASE MarkMirror(c)
            BY <3>5, MarkMirrorStep
        <3>6. CASE SettleMirror(c)
            BY <3>6, SettleMirrorStep
        <3>7. CASE ReturnResult(c) \/ StopPolling(c)
            BY <3>7, ReturnStep
        <3>8. CASE Poll(c)
            BY <3>8, PollStep
        <3>q. QED
            BY <2>1, <3>1, <3>2, <3>3, <3>4, <3>5, <3>6, <3>7, <3>8 DEF ClientStep
    <2>2. ASSUME NEW c \in Calls, Fail(c)
          PROVE  IInv'
        BY <2>2, EndStep DEF Fail
    <2>3. ASSUME NEW c \in Calls, NEW i \in Attempts, Arrival(c, i)
          PROVE  IInv'
        BY <2>3, LoseStep, RefuseStep, AcceptStep DEF Arrival
    <2>4. ASSUME NEW k \in Tasks, HandlerStep(k)
          PROVE  IInv'
        <3>1. CASE \E end \in {"completed", "failed"} : Execute(k, end)
            BY <3>1, ExecuteStep
        <3>2. CASE \E work \in {"none", "busy"} : Defer(k, work)
            BY <3>2, DeferStep
        <3>3. CASE MarkRecord(k) \/ SettleRecord(k)
            BY <3>3, UpdateRecordStep
        <3>4. CASE Reply(k)
            BY <3>4, ReplyStep
        <3>5. CASE Drop(k)
            BY <3>5, DropStep DEF Drop
        <3>q. QED
            BY <2>4, <3>1, <3>2, <3>3, <3>4, <3>5 DEF HandlerStep
    <2>5. ASSUME NEW k \in Tasks, ExecutorStep(k)
          PROVE  IInv'
        BY <2>5, FinishStep, PushStep, PushRefusedStep DEF ExecutorStep
    <2>6. CASE Restart \/ \E k \in Tasks : Report(k)
        BY <2>6, RestartStep, ReportStep
    <2>7. CASE UNCHANGED vars
        BY <2>7 DEF vars, client, server, IInv, TypeOK, OnceALife, OriginOK, HandlerOK,
                    JobOK, MirrorOK, CallOK, Forgotten
    <2>q. QED
        BY <2>1, <2>2, <2>3, <2>4, <2>5, <2>6, <2>7 DEF Next
<1>q. QED
    BY <1>1, <1>2, PTL DEF Spec

\* Every variable keeps its type.
THEOREM TypeCorrect == Spec => []TypeOK
<1>1. IInv => TypeOK
    BY DEF IInv
<1>q. QED
    BY <1>1, Invariance, PTL

\* A call is executed at most once in a life of the executing agent, however
\* often the transport repeats its envelope.
THEOREM ExecutedOnce == Spec => []OnceALife
<1>1. IInv => OnceALife
    BY DEF IInv
<1>q. QED
    BY <1>1, Invariance, PTL

\* What the delegating agent holds or returns as final is what the executor
\* decided.
THEOREM ResultsTrue == Spec => []Truthful
<1>1. IInv => Truthful
    BY DEF IInv, Truthful, MirrorOK, CallOK, Forgotten
<1>q. QED
    BY <1>1, Invariance, PTL

\* What the delegating agent holds of a task was answered, and is what the
\* executing agent's record says or is on the way there; but for pushed results
\* and records that a restart lost.
THEOREM HeldTasksAnswered == Spec => []HeldAsAnswered
<1>1. IInv => HeldAsAnswered
    BY DEF IInv, HeldAsAnswered, MirrorOK
<1>q. QED
    BY <1>1, Invariance, PTL

-----------------------------------------------------------------------------
(* The refinement of RemoteResults.                                        *)

\* A step that changes nothing of what RemoteResults sees.
LEMMA Same ==
    ASSUME UNCHANGED <<accepted, verdict>>,
           \A k \in Tasks : origin'[k].call = origin[k].call /\ Known(k)' = Known(k),
           \A c \in Calls : Returned(c)' = Returned(c)
    PROVE  UNCHANGED Remote!resultVars
    BY DEF Remote!resultVars

LEMMA ReturnRefines ==
    ASSUME IInv, NEW c \in Calls, NEW k \in Tasks,
           call[c].at \in Answered, call[c].task = k,
           call'[c].at = "returned", call'[c].state = mirror[k], mirror[k] \in Final,
           \A d \in Calls : d # c => call'[d] = call[d],
           UNCHANGED <<accepted, origin, verdict, mirror>>
    PROVE  Remote!Return(c, k)
<1>1. origin[k].call = c
    BY DEF IInv, CallOK, Forgotten
<1>2. Known(k) = mirror[k] /\ \A j \in Tasks : Known(j)' = Known(j)
    BY DEF Known
<1>3. mirror[k] # "none"
    BY DEF Final
<1>4. Returned(c) = "none" /\ Returned(c)' = mirror[k]
    BY DEF Returned, Answered
<1>5. \A d \in Calls : d # c => Returned(d)' = Returned(d)
    BY DEF Returned
<1>6. [d \in Calls |-> Returned(d)]' = [[d \in Calls |-> Returned(d)] EXCEPT ![c] = Known(k)]
    BY <1>2, <1>4, <1>5
<1>q. QED
    BY <1>1, <1>2, <1>3, <1>4, <1>6 DEF Remote!Return

LEMMA LearnRefines ==
    ASSUME IInv, NEW k \in Tasks, verdict[k] \in Final, mirror'[k] = verdict[k],
           \A j \in Tasks : j # k => mirror'[j] = mirror[j],
           \A c \in Calls : Returned(c)' = Returned(c),
           UNCHANGED <<accepted, origin, verdict>>
    PROVE  Remote!Learn(k)
<1>1. Known(k)' = verdict[k] /\ \A j \in Tasks : j # k => Known(j)' = Known(j)
    BY DEF Known
<1>2. verdict[k] # "none"
    BY DEF Final
<1>3. [j \in Tasks |-> Known(j)]' = [[j \in Tasks |-> Known(j)] EXCEPT ![k] = verdict[k]]
    BY <1>1
<1>4. UNCHANGED [c \in Calls |-> Returned(c)]
    OBVIOUS
<1>q. QED
    BY <1>2, <1>3, <1>4 DEF Remote!Learn

\* A call that is only stepped on returns nothing by it.
LEMMA NotReturned ==
    ASSUME IInv, NEW c \in Calls, NEW stage, To(c, stage),
           call[c].at # "returned", stage # "returned"
    PROVE  \A d \in Calls : Returned(d)' = Returned(d)
    BY DEF IInv, TypeOK, To, Call, Returned

LEMMA UpdateRefines ==
    ASSUME IInv, NEW c \in Calls, NEW s \in {"accepted", "working", "completed", "failed"},
           NEW stage \in Answered,
           call[c].at \in {"created", "marked"}, UpdateMirror(c, s, stage),
           s \in Final => s = call[c].state
    PROVE  [Remote!Next]_Remote!resultVars
<1> DEFINE k == call[c].task
<1>1. /\ k \in Tasks /\ UNCHANGED <<wire, server, job, verdict>>
      /\ s \in Final => verdict[k] = s
    BY DEF IInv, CallOK, Forgotten, UpdateMirror, Answered, Final
<1>2. UNCHANGED <<accepted, origin, verdict>>
    BY <1>1 DEF server
<1>3. CASE CanMove(mirror[k], s)
    <2>1. To(c, stage) /\ mirror' = [mirror EXCEPT ![k] = s]
        BY <1>3 DEF UpdateMirror
    <2>2. /\ mirror'[k] = s /\ \A j \in Tasks : j # k => mirror'[j] = mirror[j]
        BY <1>1, <2>1 DEF IInv, TypeOK
    <2>3. \A d \in Calls : Returned(d)' = Returned(d)
        BY <2>1, NotReturned DEF Answered
    <2>4. CASE s \in Final
        <3>1. Remote!Learn(k)
            BY <1>1, <1>2, <2>2, <2>3, <2>4, LearnRefines
        <3>q. QED
            BY <1>1, <3>1 DEF Remote!Next
    <2>5. CASE s \notin Final
        <3>1. mirror[k] \notin Final
            BY <1>3, MoveFacts DEF Final
        <3>2. \A j \in Tasks : Known(j)' = Known(j)
            BY <2>2, <2>5, <3>1 DEF Known
        <3>q. QED
            BY <1>2, <2>3, <3>2, Same
    <2>q. QED
        BY <2>4, <2>5
<1>4. CASE ~CanMove(mirror[k], s)
    <2>1. To(c, "raised") /\ UNCHANGED mirror
        BY <1>4 DEF UpdateMirror
    <2>2. \A d \in Calls : Returned(d)' = Returned(d)
        BY <2>1, NotReturned
    <2>q. QED
        BY <1>2, <2>1, <2>2, Same DEF Known
<1>q. QED
    BY <1>3, <1>4

LEMMA ClientRefines ==
    ASSUME IInv, NEW c \in Calls, ClientStep(c) \/ Fail(c)
    PROVE  [Remote!Next]_Remote!resultVars
<1>1. CASE Post(c) \/ Repost(c)
    <2>1. call'[c].at = "waiting" /\ call[c].at # "returned"
        <3>1. CASE Post(c)
            BY <3>1 DEF IInv, TypeOK, Post, Call
        <3>2. CASE Repost(c)
            BY <3>2 DEF IInv, TypeOK, Repost, Call
        <3>q. QED
            BY <1>1, <3>1, <3>2
    <2>2. \A d \in Calls : d # c => call'[d] = call[d]
        <3>1. CASE Post(c)
            BY <3>1 DEF IInv, TypeOK, Post
        <3>2. CASE Repost(c)
            BY <3>2 DEF IInv, TypeOK, Repost
        <3>q. QED
            BY <1>1, <3>1, <3>2
    <2>3. \A d \in Calls : Returned(d)' = Returned(d)
        BY <2>1, <2>2 DEF Returned
    <2>4. UNCHANGED <<accepted, origin, verdict, mirror>>
        BY <1>1 DEF Post, Repost, server
    <2>q. QED
        BY <2>3, <2>4, Same DEF Known
<1>2. CASE RefuseLocally(c) \/ GiveUp(c) \/ Fail(c)
    <2>1. /\ To(c, "raised") /\ call[c].at # "returned"
          /\ UNCHANGED <<accepted, origin, verdict, mirror>>
        BY <1>2 DEF RefuseLocally, GiveUp, Fail, server
    <2>q. QED
        BY <2>1, NotReturned, Same DEF Known
<1>3. CASE CreateMirror(c)
    <2>1. /\ To(c, "created") /\ call[c].at # "returned"
          /\ UNCHANGED <<accepted, origin, verdict>>
        BY <1>3 DEF CreateMirror, server
    <2>2. mirror[call[c].task] = "none" /\ mirror' = [mirror EXCEPT ![call[c].task] = "submitted"]
        BY <1>3 DEF CreateMirror, IInv, CallOK, Forgotten
    <2>3. \A k \in Tasks : Known(k)' = Known(k)
        BY <2>2 DEF IInv, TypeOK, Known, Final
    <2>q. QED
        BY <2>1, <2>3, NotReturned, Same
<1>4. CASE MarkMirror(c)
    BY <1>4, UpdateRefines DEF MarkMirror, Answered, Final
<1>5. CASE SettleMirror(c)
    <2> DEFINE stage == IF call[c].state = "working" THEN "polling" ELSE "settled"
    <2>1. /\ call[c].at \in {"created", "marked"}
          /\ call[c].state \in {"working", "completed", "failed"}
          /\ UpdateMirror(c, call[c].state, stage)
        BY <1>5 DEF SettleMirror, IInv, CallOK, Forgotten, Answered
    <2>2. stage \in Answered
        BY DEF Answered
    <2>q. QED
        BY <2>1, <2>2, UpdateRefines
<1>6. CASE ReturnResult(c)
    <2>1. /\ call[c].at = "settled" /\ To(c, "returned")
          /\ UNCHANGED <<accepted, origin, verdict, mirror>>
        BY <1>6 DEF ReturnResult, server
    <2>2. /\ call[c].task \in Tasks /\ call[c].state \in Final
          /\ mirror[call[c].task] = call[c].state
        BY <2>1 DEF IInv, CallOK, Forgotten, Answered
    <2>3. /\ call'[c].at = "returned" /\ call'[c].state = call[c].state
          /\ \A d \in Calls : d # c => call'[d] = call[d]
        BY <2>1 DEF IInv, TypeOK, To, Call
    <2>4. Remote!Return(c, call[c].task)
        BY <2>1, <2>2, <2>3, ReturnRefines DEF Answered
    <2>q. QED
        BY <2>2, <2>4 DEF Remote!Next
<1>7. CASE Poll(c)
    <2>1. /\ call[c].at = "polling" /\ call[c].task \in Tasks
          /\ UNCHANGED <<accepted, origin, verdict, mirror>>
        BY <1>7 DEF Poll, server, IInv, CallOK, Forgotten, Answered
    <2>2. CASE mirror[call[c].task] \in Final
        <3>1. /\ call'[c].at = "returned" /\ call'[c].state = mirror[call[c].task]
              /\ \A d \in Calls : d # c => call'[d] = call[d]
            BY <1>7, <2>2 DEF Poll, IInv, TypeOK, Call
        <3>2. Remote!Return(c, call[c].task)
            BY <2>1, <2>2, <3>1, ReturnRefines DEF Answered
        <3>q. QED
            BY <2>1, <3>2 DEF Remote!Next
    <2>3. CASE mirror[call[c].task] \notin Final
        <3>1. \A d \in Calls : Returned(d)' = Returned(d)
            BY <1>7, <2>1, <2>3 DEF Poll, IInv, TypeOK, Call, Returned
        <3>q. QED
            BY <2>1, <3>1, Same DEF Known
    <2>q. QED
        BY <2>2, <2>3
<1>8. CASE StopPolling(c)
    <2>1. /\ call[c].at = "polling" /\ call[c].state = "working" /\ To(c, "returned")
          /\ UNCHANGED <<accepted, origin, verdict, mirror>>
        BY <1>8 DEF StopPolling, server, IInv, CallOK, Forgotten
    <2>2. \A d \in Calls : Returned(d)' = Returned(d)
        BY <2>1 DEF IInv, TypeOK, To, Call, Returned, Final
    <2>q. QED
        BY <2>1, <2>2, Same DEF Known
<1>q. QED
    BY <1>1, <1>2, <1>3, <1>4, <1>5, <1>6, <1>7, <1>8 DEF ClientStep

LEMMA ArrivalRefines ==
    ASSUME IInv, NEW c \in Calls, NEW i \in Attempts, Arrival(c, i)
    PROVE  [Remote!Next]_Remote!resultVars
<1>1. CASE Lose(c, i)
    BY <1>1, Same DEF Lose, server, Known, Returned
<1>2. CASE Refuse(c, i)
    <2>1. /\ accepted' \in {accepted, accepted \cup {c}}
          /\ UNCHANGED <<origin, verdict, mirror>>
        BY <1>2 DEF Refuse
    <2>2. \A d \in Calls : Returned(d)' = Returned(d)
        BY <1>2 DEF Refuse, Answer, IInv, TypeOK, Call, Returned
    <2>3. \A k \in Tasks : Known(k)' = Known(k)
        BY <2>1 DEF Known
    <2>4. CASE accepted' = accepted
        BY <2>1, <2>2, <2>3, <2>4, Same
    <2>5. CASE accepted' = accepted \cup {c}
        <3>1. Remote!Dismiss(c)
            BY <2>1, <2>2, <2>3, <2>5 DEF Remote!Dismiss
        <3>q. QED
            BY <3>1 DEF Remote!Next
    <2>q. QED
        BY <2>1, <2>4, <2>5
<1>3. ASSUME NEW k \in Tasks, Accept(c, i, k)
      PROVE  [Remote!Next]_Remote!resultVars
    <2>1. /\ c \notin accepted /\ accepted' = accepted \cup {c}
          /\ origin[k].call = NoCall
          /\ UNCHANGED <<call, verdict, mirror>>
        BY <1>3 DEF Accept, Unserved
    <2>2. [j \in Tasks |-> origin[j].call]' = [[j \in Tasks |-> origin[j].call] EXCEPT ![k] = c]
        BY <1>3 DEF Accept, IInv, TypeOK
    <2>3. Remote!Execute(c, k)
        BY <2>1, <2>2 DEF Remote!Execute, Known, Returned
    <2>q. QED
        BY <2>3 DEF Remote!Next
<1>q. QED
    BY <1>1, <1>2, <1>3 DEF Arrival

LEMMA EndRefines ==
    ASSUME NEW k \in Tasks, NEW end \in Final, verdict[k] = "none", origin[k].call # NoCall,
           verdict' = [verdict EXCEPT ![k] = end],
           UNCHANGED <<call, accepted, origin, mirror>>
    PROVE  [Remote!Next]_Remote!resultVars
<1>1. Remote!End(k, end)
    BY DEF Remote!End, Known, Returned
<1>q. QED
    BY <1>1 DEF Remote!Next

LEMMA HandlerRefines ==
    ASSUME IInv, NEW k \in Tasks, HandlerStep(k)
    PROVE  [Remote!Next]_Remote!resultVars
<1>1. ASSUME NEW end \in {"completed", "failed"}, Execute(k, end)
      PROVE  [Remote!Next]_Remote!resultVars
    <2>1. /\ verdict' = [verdict EXCEPT ![k] = end]
          /\ UNCHANGED <<call, accepted, origin, mirror>>
        BY <1>1 DEF Execute, client
    <2>2. verdict[k] = "none" /\ origin[k].call # NoCall
        BY <1>1, DelegationAssumption DEF Execute, IInv, HandlerOK, NoHandler
    <2>q. QED
        BY <2>1, <2>2, EndRefines DEF Final
<1>2. CASE Reply(k)
    <2>1. UNCHANGED <<accepted, origin, verdict, mirror>>
        BY <1>2 DEF Reply
    <2> DEFINE c == handler[k].call
               r == [call[c] EXCEPT !.at = "answered", !.task = k, !.state = handler[k].target]
    <2>2. CASE UNCHANGED call
        BY <2>1, <2>2, Same DEF Known, Returned
    <2>3. CASE call[c].at = "waiting" /\ call' = [call EXCEPT ![c] = r]
        <3>1. c \in Calls
            BY <1>2 DEF Reply, IInv, HandlerOK, NoHandler
        <3>2. call[c] \in Call /\ call'[c] = r
            BY <2>3, <3>1 DEF IInv, TypeOK
        <3>3. r.at = "answered"
            BY <3>2 DEF Call
        <3>4. \A d \in Calls : Returned(d)' = Returned(d)
            BY <2>3, <3>2, <3>3 DEF IInv, TypeOK, Returned
        <3>q. QED
            BY <2>1, <3>4, Same DEF Known
    <2>q. QED
        BY <1>2, <2>2, <2>3 DEF Reply, Answer
<1>3. CASE \/ \E work \in {"none", "busy"} : Defer(k, work)
           \/ MarkRecord(k) \/ SettleRecord(k) \/ Drop(k)
    <2>1. UNCHANGED <<call, accepted, origin, verdict, mirror>>
        BY <1>3 DEF Defer, MarkRecord, SettleRecord, UpdateRecord, Drop, client
    <2>q. QED
        BY <2>1, Same DEF Known, Returned
<1>q. QED
    BY <1>1, <1>2, <1>3 DEF HandlerStep

LEMMA ExecutorRefines ==
    ASSUME IInv, NEW k \in Tasks, ExecutorStep(k)
    PROVE  [Remote!Next]_Remote!resultVars
<1>1. ASSUME NEW end \in Final, Finish(k, end)
      PROVE  [Remote!Next]_Remote!resultVars
    <2>1. /\ verdict' = [verdict EXCEPT ![k] = end]
          /\ UNCHANGED <<call, accepted, origin, mirror>>
        BY <1>1 DEF Finish, client, server
    <2>2. verdict[k] = "none" /\ origin[k].call # NoCall
        BY <1>1 DEF Finish, IInv, JobOK
    <2>q. QED
        BY <2>1, <2>2, EndRefines
<1>2. CASE Push(k)
    <2>1. /\ verdict[k] \in Final
          /\ mirror' = [mirror EXCEPT ![k] = verdict[k]]
          /\ UNCHANGED <<call, accepted, origin, verdict>>
        BY <1>2 DEF Push, OnTaskResult, IInv, JobOK, client, server
    <2>2. /\ mirror'[k] = verdict[k] /\ \A j \in Tasks : j # k => mirror'[j] = mirror[j]
        BY <2>1 DEF IInv, TypeOK
    <2>3. Remote!Learn(k)
        BY <2>1, <2>2, LearnRefines DEF Returned
    <2>q. QED
        BY <2>3 DEF Remote!Next
<1>3. CASE PushRefused(k)
    BY <1>3, Same DEF PushRefused, OnTaskResult, client, server, Known, Returned
<1>q. QED
    BY <1>1, <1>2, <1>3 DEF ExecutorStep

LEMMA ReportRefines ==
    ASSUME IInv, NEW k \in Tasks, Report(k)
    PROVE  [Remote!Next]_Remote!resultVars
<1>1. UNCHANGED <<call, accepted, origin, verdict>>
    BY DEF Report, client, server
<1>2. \A j \in Tasks : Known(j)' = Known(j)
    <2>1. CASE UNCHANGED mirror
        BY <2>1 DEF Known
    <2>2. CASE /\ CanMove(mirror[k], "working")
               /\ mirror' = [mirror EXCEPT ![k] = "working"]
        BY <2>2, MoveFacts DEF Known, IInv, TypeOK, Final
    <2>q. QED
        BY <2>1, <2>2 DEF Report, OnTaskResult
<1>q. QED
    BY <1>1, <1>2, Same DEF Returned

LEMMA RestartRefines ==
    ASSUME Restart
    PROVE  [Remote!Next]_Remote!resultVars
<1>1. accepted' = {} /\ UNCHANGED <<call, origin, verdict, mirror>>
    BY DEF Restart, client
<1>2. Remote!Forget
    BY <1>1 DEF Remote!Forget, Known, Returned
<1>q. QED
    BY <1>2 DEF Remote!Next

\* Delegation keeps the promise of RemoteResults: one result for each execution,
\* nothing known or returned as final but that result, and never taken back.
THEOREM Refinement == Spec => ImplementsRemoteResults
<1>1. Init => Remote!Init
    BY DEF Init, Remote!Init, Known, Returned, NewCall, Final
<1>2. IInv /\ [Next]_vars => [Remote!Next]_Remote!resultVars
    <2> SUFFICES ASSUME IInv, [Next]_vars
                 PROVE  [Remote!Next]_Remote!resultVars
        OBVIOUS
    <2>1. CASE UNCHANGED vars
        BY <2>1, Same DEF vars, client, server, Known, Returned
    <2>2. CASE Next
        BY <2>2, ClientRefines, ArrivalRefines, HandlerRefines, ExecutorRefines, ReportRefines,
                RestartRefines
        DEF Next
    <2>q. QED
        BY <2>1, <2>2
<1>q. QED
    BY <1>1, <1>2, Invariance, PTL DEF Spec, ImplementsRemoteResults, Remote!Spec

-----------------------------------------------------------------------------
(* What RemoteResults promises, and with it Delegation.                    *)

RemoteInv == verdict = [k \in Tasks |-> verdict[k]] /\ Remote!KnownIsResult

\* The values of the functions that RemoteResults sees.
LEMMA RemoteValues ==
    /\ \A k \in Tasks : [j \in Tasks |-> Known(j)][k] = Known(k)
    /\ \A k \in Tasks : [j \in Tasks |-> Known(j)]'[k] = Known(k)'
    /\ \A c \in Calls : [d \in Calls |-> Returned(d)][c] = Returned(c)
    /\ \A c \in Calls : [d \in Calls |-> Returned(d)]'[c] = Returned(c)'
    OBVIOUS

LEMMA RemoteStep ==
    ASSUME RemoteInv, [Remote!Next]_Remote!resultVars
    PROVE  RemoteInv' /\ Remote!Stays
<1>1. \A k \in Tasks : Known(k) # "none" => Known(k) = verdict[k]
    BY DEF RemoteInv, Remote!KnownIsResult
<1> SUFFICES /\ verdict' = [k \in Tasks |-> verdict'[k]]
             /\ \A k \in Tasks : Known(k)' # "none" => Known(k)' = verdict'[k]
             /\ Remote!Stays
    BY DEF RemoteInv, Remote!KnownIsResult
<1>2. CASE \/ UNCHANGED Remote!resultVars
           \/ Remote!Forget
           \/ \E c \in Calls : Remote!Dismiss(c) \/ \E k \in Tasks : Remote!Execute(c, k)
    <2>1. /\ UNCHANGED verdict
          /\ [k \in Tasks |-> Known(k)]' = [k \in Tasks |-> Known(k)]
          /\ [c \in Calls |-> Returned(c)]' = [c \in Calls |-> Returned(c)]
        BY <1>2
        DEF Remote!resultVars, Remote!Forget, Remote!Dismiss, Remote!Execute
    <2>2. /\ \A k \in Tasks : Known(k)' = Known(k)
          /\ \A c \in Calls : Returned(c)' = Returned(c)
        BY <2>1, RemoteValues
    <2>q. QED
        BY <1>1, <2>1, <2>2, RemoteValues DEF RemoteInv, Remote!Stays
<1>3. ASSUME NEW k \in Tasks, NEW how \in Final, Remote!End(k, how)
      PROVE  /\ verdict' = [j \in Tasks |-> verdict'[j]]
             /\ \A j \in Tasks : Known(j)' # "none" => Known(j)' = verdict'[j]
             /\ Remote!Stays
    <2>1. /\ verdict[k] = "none" /\ verdict' = [verdict EXCEPT ![k] = how]
          /\ [j \in Tasks |-> Known(j)]' = [j \in Tasks |-> Known(j)]
          /\ [c \in Calls |-> Returned(c)]' = [c \in Calls |-> Returned(c)]
        BY <1>3 DEF Remote!End
    <2>2. /\ \A j \in Tasks : Known(j)' = Known(j)
          /\ \A c \in Calls : Returned(c)' = Returned(c)
        BY <2>1, RemoteValues
    <2>q. QED
        BY <1>1, <2>1, <2>2, RemoteValues DEF RemoteInv, Remote!Stays
<1>4. ASSUME NEW k \in Tasks, Remote!Learn(k)
      PROVE  /\ verdict' = [j \in Tasks |-> verdict'[j]]
             /\ \A j \in Tasks : Known(j)' # "none" => Known(j)' = verdict'[j]
             /\ Remote!Stays
    <2>1. /\ UNCHANGED verdict
          /\ [j \in Tasks |-> Known(j)]' = [[j \in Tasks |-> Known(j)] EXCEPT ![k] = verdict[k]]
          /\ [c \in Calls |-> Returned(c)]' = [c \in Calls |-> Returned(c)]
        BY <1>4 DEF Remote!Learn
    <2>2. /\ \A j \in Tasks : Known(j)' = IF j = k THEN verdict[k] ELSE Known(j)
          /\ \A c \in Calls : Returned(c)' = Returned(c)
        BY <2>1, RemoteValues
    <2>q. QED
        BY <1>1, <2>1, <2>2, RemoteValues DEF RemoteInv, Remote!Stays
<1>5. ASSUME NEW c \in Calls, NEW k \in Tasks, Remote!Return(c, k)
      PROVE  /\ verdict' = [j \in Tasks |-> verdict'[j]]
             /\ \A j \in Tasks : Known(j)' # "none" => Known(j)' = verdict'[j]
             /\ Remote!Stays
    <2>1. /\ UNCHANGED verdict
          /\ [j \in Tasks |-> Known(j)]' = [j \in Tasks |-> Known(j)]
          /\ [d \in Calls |-> Returned(d)][c] = "none"
          /\ [d \in Calls |-> Returned(d)]' =
                [[d \in Calls |-> Returned(d)] EXCEPT ![c] = [j \in Tasks |-> Known(j)][k]]
        BY <1>5 DEF Remote!Return
    <2>2. /\ \A j \in Tasks : Known(j)' = Known(j)
          /\ Returned(c) = "none" /\ \A d \in Calls : d # c => Returned(d)' = Returned(d)
        BY <2>1, RemoteValues
    <2>q. QED
        BY <1>1, <2>1, <2>2, RemoteValues DEF RemoteInv, Remote!Stays
<1>q. QED
    BY <1>2, <1>3, <1>4, <1>5 DEF Remote!Next

\* RemoteResults keeps its promise: what is known of an execution is its result,
\* and nothing that was decided, known or returned is taken back.
THEOREM RemotePromise == Remote!Spec => []Remote!KnownIsResult /\ Remote!Irrevocable
<1>1. Remote!Init => RemoteInv
    BY DEF Remote!Init, RemoteInv, Remote!KnownIsResult
<1>2. RemoteInv /\ [Remote!Next]_Remote!resultVars => RemoteInv' /\ [Remote!Stays]_Remote!resultVars
    BY RemoteStep
<1>3. RemoteInv => Remote!KnownIsResult
    BY DEF RemoteInv
<1>q. QED
    BY <1>1, <1>2, <1>3, PTL DEF Remote!Spec, Remote!Irrevocable

\* A final state in the delegating agent's registry, or returned by
\* delegate_task, stays, whatever answers, pushes and restarts come after it
\* (TaskRegistry.update, HAAPClient.delegate_task, _on_task_result).
FinalForGood ==
    [][/\ \A k \in Tasks : mirror[k] \in Final => mirror'[k] = mirror[k]
       /\ \A c \in Calls : Returned(c) # "none" => Returned(c)' = Returned(c)]_vars

\* It follows from the refinement.
THEOREM NothingRevoked == Spec => FinalForGood
<1> DEFINE Kept ==
        /\ \A k \in Tasks : mirror[k] \in Final => mirror'[k] = mirror[k]
        /\ \A c \in Calls : Returned(c) # "none" => Returned(c)' = Returned(c)
<1>1. ASSUME [Remote!Stays]_Remote!resultVars PROVE Kept
    <2>1. /\ \A k \in Tasks : Known(k) # "none" => Known(k)' = Known(k)
          /\ \A c \in Calls : Returned(c) # "none" => Returned(c)' = Returned(c)
        <3>1. CASE Remote!Stays
            BY <3>1, RemoteValues DEF Remote!Stays
        <3>2. CASE UNCHANGED Remote!resultVars
            <4>1. /\ [k \in Tasks |-> Known(k)]' = [k \in Tasks |-> Known(k)]
                  /\ [c \in Calls |-> Returned(c)]' = [c \in Calls |-> Returned(c)]
                BY <3>2 DEF Remote!resultVars
            <4>q. QED
                BY <4>1, RemoteValues
        <3>q. QED
            BY <1>1, <3>1, <3>2
    <2>q. QED
        BY <2>1 DEF Known, Final
<1>2. [Remote!Stays]_Remote!resultVars => [Kept]_vars
    BY <1>1
<1>q. QED
    BY <1>2, Refinement, RemotePromise, PTL
    DEF FinalForGood, ImplementsRemoteResults, Remote!Irrevocable

\* Until the executing agent restarts, no call is executed twice at all
\* (verify_envelope against HttpTransport.send).
THEOREM OnceBeforeRestart == Spec => [](restarts = 0 => NeverAgain)
<1>1. IInv => (restarts = 0 => NeverAgain)
    <2> SUFFICES ASSUME IInv, restarts = 0, NEW j \in Tasks, NEW k \in Tasks,
                        origin[j].call # NoCall, origin[j].call = origin[k].call
                 PROVE  j = k
        BY DEF NeverAgain
    <2>1. /\ origin[j] \in [call : Calls \cup {NoCall}, life : 0 .. MaxRestarts]
          /\ origin[k] \in [call : Calls \cup {NoCall}, life : 0 .. MaxRestarts]
          /\ origin[j].life <= 0 /\ origin[k].life <= 0
        BY DEF IInv, TypeOK, OriginOK
    <2>2. origin[j].life = 0 /\ origin[k].life = 0
        BY <2>1, DelegationAssumption
    <2>3. origin[j] = origin[k]
        BY <2>1, <2>2
    <2>q. QED
        BY <2>3 DEF IInv, OnceALife
<1>q. QED
    BY <1>1, Invariance, PTL

=============================================================================
