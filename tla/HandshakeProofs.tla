--------------------------- MODULE HandshakeProofs ---------------------------
(***************************************************************************)
(* Theorems about Handshake, for any number of agents, handshakes, retries *)
(* and faults, and for either wiring of the directories: agents are        *)
(* friends only if one of the two asked and the other one approved, or     *)
(* said so unprompted, rights come only of a request or of an approval of  *)
(* one's own, and a handshake fails only for a cause.                      *)
(***************************************************************************)
EXTENDS Handshake, TLAPS

Named(a) == attempt[a].from \in Agents /\ attempt[a].to \in Agents

\* Envelopes and handlers belong to calls that have begun.
AttemptOK(a) ==
    /\ attempt[a].at = "idle" => attempt[a].from = NoAgent
    /\ attempt[a].at = "answered" => attempt[a].step # "friend_request"
    /\ UnderWay(a) => Named(a)
    /\ proof[a].try # 0 => Named(a)
    /\ \A step \in Steps, i \in 1 .. Retries + 1 : <<a, step, i>> \in wire => Named(a)

\* What a record of y at x says was asked for and decided, and what is
\* announced was decided.
Consent(x, y) ==
    \/ Began(y, x) /\ Decided(x, y)
    \/ Began(x, y) /\ Decided(y, x)
    \/ (Began(x, y) \/ Began(y, x)) /\ <<y, x, "nobody">> \in decided

Founded(x, y, rec) ==
    /\ rec.status = "pending_in" => Began(y, x)
    /\ rec.status = "pending_out" => Began(x, y)
    /\ rec.status = "accepted" => Consent(x, y)
    /\ rec.rights => Began(x, y) \/ Decided(x, y)

RecordOK(x, y) ==
    /\ <<x, y>> \in notices => Began(y, x) /\ Decided(x, y)
    /\ \A h \in Holders : Founded(x, y, friends[x][h][y])

IInv ==
    /\ TypeOK
    /\ \A a \in Attempts : AttemptOK(a)
    /\ \A x, y \in Agents : RecordOK(x, y)

-----------------------------------------------------------------------------
(* Progress of the attempts.                                               *)

\* No call begins, and what is over stays over.
Steady ==
    /\ attempt' \in [Attempts -> Attempt]
    /\ \A b \in Attempts :
        /\ attempt'[b].from = attempt[b].from /\ attempt'[b].to = attempt[b].to
        /\ attempt'[b].at = "idle" => attempt[b].at = "idle"
        /\ attempt'[b].at \in {"waiting", "answered"} => UnderWay(b)
        /\ attempt'[b].at = "answered" => attempt'[b].step # "friend_request"

LEMMA BecomesType ==
    ASSUME attempt \in [Attempts -> Attempt], NEW a \in Attempts,
           NEW new \in Attempt, Becomes(a, new)
    PROVE  /\ attempt' \in [Attempts -> Attempt]
           /\ attempt'[a] = new
           /\ \A b \in Attempts \ {a} : attempt'[b] = attempt[b]
BY DEF Becomes

\* The records that the actions make of r.
LEMMA Moved ==
    ASSUME NEW r \in Attempt, NEW at \in {"waiting", "answered", "returned"}
    PROVE  LET s == [r EXCEPT !.at = at] IN
           /\ s \in Attempt /\ s.at = at
           /\ s.from = r.from /\ s.to = r.to /\ s.step = r.step
BY Zenon DEF Attempt

LEMMA Failed ==
    ASSUME NEW r \in Attempt,
           NEW why \in {"friends", "network", "replay", "unknown",
                        "expired", "mismatch", "denied"}
    PROVE  LET s == [r EXCEPT !.at = "raised", !.why = why] IN
           /\ s \in Attempt /\ s.at = "raised"
           /\ s.from = r.from /\ s.to = r.to /\ s.step = r.step
BY Zenon DEF Attempt

LEMMA Challenged ==
    ASSUME NEW r \in Attempt, NEW v \in Nat
    PROVE  LET s == [r EXCEPT !.at = "answered", !.value = v] IN
           /\ s \in Attempt /\ s.at = "answered"
           /\ s.from = r.from /\ s.to = r.to /\ s.step = r.step
BY Zenon DEF Attempt

LEMMA Posted ==
    ASSUME NEW r \in Attempt, NEW step \in Steps, 1 \in 0 .. Retries + 1
    PROVE  LET s == [r EXCEPT !.at = "waiting", !.try = 1, !.step = step] IN
           /\ s \in Attempt /\ s.at = "waiting"
           /\ s.from = r.from /\ s.to = r.to
BY Zenon DEF Attempt

LEMMA Reposted ==
    ASSUME NEW r \in Attempt, r.try + 1 \in 0 .. Retries + 1
    PROVE  LET s == [r EXCEPT !.try = @ + 1] IN
           /\ s \in Attempt /\ s.at = r.at
           /\ s.from = r.from /\ s.to = r.to /\ s.step = r.step
BY Zenon DEF Attempt

First(r, x, y) == [r EXCEPT !.at = "waiting", !.try = 1, !.from = x, !.to = y]

LEMMA Begun ==
    ASSUME NEW r \in Attempt, NEW x \in Agents, NEW y \in Agents,
           1 \in 0 .. Retries + 1
    PROVE  /\ First(r, x, y) \in Attempt /\ First(r, x, y).at = "waiting"
           /\ First(r, x, y).from = x /\ First(r, x, y).to = y
BY Zenon DEF Attempt, First

LEMMA SteadyBecomes ==
    ASSUME IInv, NEW a \in Attempts, UnderWay(a), NEW new \in Attempt,
           new.from = attempt[a].from, new.to = attempt[a].to, new.at # "idle",
           new.at = "answered" => new.step # "friend_request",
           Becomes(a, new)
    PROVE  Steady
<1>1. /\ attempt' \in [Attempts -> Attempt]
      /\ attempt'[a] = new
      /\ \A b \in Attempts \ {a} : attempt'[b] = attempt[b]
    BY BecomesType DEF IInv, TypeOK
<1>2. \A b \in Attempts : attempt[b].at = "answered" => attempt[b].step # "friend_request"
    BY DEF IInv, AttemptOK
<1>q. QED
    BY <1>1, <1>2 DEF Steady, UnderWay

LEMMA SteadyUnchanged ==
    ASSUME IInv, UNCHANGED attempt
    PROVE  Steady
BY DEF IInv, TypeOK, AttemptOK, Steady, UnderWay

\* An answer to a call that is over changes nothing.
LEMMA SteadyAnswer ==
    ASSUME IInv, NEW a \in Attempts, NEW step, NEW i, NEW new \in Attempt,
           new.from = attempt[a].from, new.to = attempt[a].to, new.at # "idle",
           new.step = attempt[a].step,
           new.at = "answered" => step # "friend_request",
           Answer(a, step, i, new)
    PROVE  Steady
<1>1. CASE UNCHANGED attempt
    BY <1>1, SteadyUnchanged
<1>2. CASE attempt[a].at = "waiting" /\ attempt[a].step = step /\ Becomes(a, new)
    BY <1>2, SteadyBecomes DEF UnderWay
<1>q. QED
    BY <1>1, <1>2 DEF Answer

LEMMA AttemptsKept ==
    ASSUME IInv, Steady,
           \A b \in Attempts : proof'[b].try # 0 => Named(b),
           \A b \in Attempts, step \in Steps, i \in 1 .. Retries + 1 :
               <<b, step, i>> \in wire' => Named(b)
    PROVE  \A b \in Attempts : AttemptOK(b)'
BY DEF IInv, AttemptOK, Steady, Named, UnderWay

LEMMA ProofKept ==
    ASSUME IInv, UNCHANGED proof
    PROVE  \A b \in Attempts : proof'[b].try # 0 => Named(b)
BY DEF IInv, AttemptOK

LEMMA WireKept ==
    ASSUME IInv, wire' \subseteq wire
    PROVE  \A b \in Attempts, step \in Steps, i \in 1 .. Retries + 1 :
               <<b, step, i>> \in wire' => Named(b)
BY DEF IInv, AttemptOK

(***************************************************************************)
(* What is saved: founded in what has been asked and decided by then.      *)
(***************************************************************************)
BeganNow(x, y) == \E a \in Attempts : attempt'[a].from = x /\ attempt'[a].to = y

DecidedNow(x, y) == \E who \in {"owner", "policy"} : <<x, y, who>> \in decided'

ConsentNow(x, y) ==
    \/ BeganNow(y, x) /\ DecidedNow(x, y)
    \/ BeganNow(x, y) /\ DecidedNow(y, x)
    \/ (BeganNow(x, y) \/ BeganNow(y, x)) /\ <<y, x, "nobody">> \in decided'

FoundedNow(x, y, rec) ==
    /\ rec.status = "pending_in" => BeganNow(y, x)
    /\ rec.status = "pending_out" => BeganNow(x, y)
    /\ rec.status = "accepted" => ConsentNow(x, y)
    /\ rec.rights => BeganNow(x, y) \/ DecidedNow(x, y)

\* What was asked and decided stays so.
Grows ==
    /\ \A x, y \in Agents : Began(x, y) => BeganNow(x, y)
    /\ decided \subseteq decided'

LEMMA GrowsDecided ==
    ASSUME Grows, NEW x \in Agents, NEW y \in Agents
    PROVE  Decided(x, y) => DecidedNow(x, y)
BY DEF Grows, Decided, DecidedNow

LEMMA StaysFounded ==
    ASSUME Grows, NEW x \in Agents, NEW y \in Agents, NEW rec, Founded(x, y, rec)
    PROVE  FoundedNow(x, y, rec)
<1>1. /\ Began(x, y) => BeganNow(x, y)
      /\ Began(y, x) => BeganNow(y, x)
      /\ Decided(x, y) => DecidedNow(x, y)
      /\ Decided(y, x) => DecidedNow(y, x)
      /\ <<y, x, "nobody">> \in decided => <<y, x, "nobody">> \in decided'
    BY GrowsDecided DEF Grows
<1>q. QED
    BY <1>1 DEF Founded, FoundedNow, Consent, ConsentNow

LEMMA OwnRecord ==
    ASSUME IInv, NEW x \in Agents, NEW h \in Holders, NEW y \in Agents
    PROVE  friends[x][h][y] \in Record /\ Founded(x, y, friends[x][h][y])
<1>1. friends \in [Agents -> [Holders -> [Agents -> Record]]]
    BY DEF IInv, TypeOK
<1>2. RecordOK(x, y)
    BY DEF IInv
<1>q. QED
    BY <1>1, <1>2 DEF RecordOK

\* The records of an agent are saved: those of the others stay.
LEMMA RecordsSaved ==
    ASSUME IInv, Grows, NEW x \in Agents, NEW h \in Holders,
           NEW row \in [Agents -> Record],
           \A y \in Agents : FoundedNow(x, y, row[y]),
           Save(x, h, row)
    PROVE  /\ friends' \in [Agents -> [Holders -> [Agents -> Record]]]
           /\ \A u, v \in Agents, g \in Holders : FoundedNow(u, v, friends'[u][g][v])
<1>1. friends \in [Agents -> [Holders -> [Agents -> Record]]]
    BY DEF IInv, TypeOK
<1>2. /\ Saved(x, h, row) \in [Holders -> [Agents -> Record]]
      /\ \A g \in Holders : Saved(x, h, row)[g] = row \/ Saved(x, h, row)[g] = friends[x][g]
    BY <1>1 DEF Saved
<1>3. /\ friends' \in [Agents -> [Holders -> [Agents -> Record]]]
      /\ friends'[x] = Saved(x, h, row)
      /\ \A u \in Agents \ {x} : friends'[u] = friends[u]
    BY <1>1, <1>2 DEF Save
<1>4. ASSUME NEW u \in Agents, NEW v \in Agents, NEW g \in Holders
      PROVE  FoundedNow(u, v, friends'[u][g][v])
    <2>1. FoundedNow(u, v, friends[u][g][v])
        BY OwnRecord, StaysFounded
    <2>2. friends'[u][g][v] = friends[u][g][v] \/ (u = x /\ friends'[u][g][v] = row[v])
        BY <1>2, <1>3
    <2>q. QED
        BY <2>1, <2>2
<1>q. QED
    BY <1>3, <1>4

LEMMA RecordChanged ==
    ASSUME IInv, Grows, NEW x \in Agents, NEW h \in Holders, NEW y \in Agents,
           NEW rec \in Record, FoundedNow(x, y, rec), Change(x, h, y, rec)
    PROVE  /\ friends' \in [Agents -> [Holders -> [Agents -> Record]]]
           /\ \A u, v \in Agents, g \in Holders : FoundedNow(u, v, friends'[u][g][v])
<1> DEFINE row == [friends[x][h] EXCEPT ![y] = rec]
<1>1. friends[x][h] \in [Agents -> Record]
    BY DEF IInv, TypeOK
<1>2. row \in [Agents -> Record]
    BY <1>1
<1>3. ASSUME NEW v \in Agents PROVE FoundedNow(x, v, row[v])
    <2>1. FoundedNow(x, v, friends[x][h][v])
        BY OwnRecord, StaysFounded
    <2>2. row[v] = IF v = y THEN rec ELSE friends[x][h][v]
        BY <1>1
    <2>q. QED
        BY <2>1, <2>2
<1>4. Save(x, h, row)
    BY DEF Change
<1> HIDE DEF row
<1>q. QED
    BY <1>2, <1>3, <1>4, RecordsSaved

\* Announcements are of what was decided.
NoticesOK ==
    \A u, v \in Agents : <<u, v>> \in notices' =>
        <<u, v>> \in notices \/ (BeganNow(v, u) /\ DecidedNow(u, v))

LEMMA RecordsFounded ==
    ASSUME IInv, Grows, NoticesOK,
           \A u, v \in Agents, g \in Holders : FoundedNow(u, v, friends'[u][g][v])
    PROVE  \A u, v \in Agents : RecordOK(u, v)'
<1> TAKE u, v \in Agents
<1>1. <<u, v>> \in notices' => BeganNow(v, u) /\ DecidedNow(u, v)
    BY GrowsDecided DEF IInv, RecordOK, NoticesOK, Grows
<1>2. \A g \in Holders : FoundedNow(u, v, friends'[u][g][v])
    OBVIOUS
<1>q. QED
    BY <1>1, <1>2 DEF RecordOK, Founded, FoundedNow, Consent, ConsentNow,
        Began, BeganNow, Decided, DecidedNow

LEMMA SteadyGrows ==
    ASSUME Steady, decided \subseteq decided'
    PROVE  Grows
BY DEF Steady, Grows, Began, BeganNow

LEMMA RecordsKept ==
    ASSUME IInv, Steady, UNCHANGED <<friends, notices, decided>>
    PROVE  \A x, y \in Agents : RecordOK(x, y)'
<1>1. Grows
    BY SteadyGrows
<1>2. \A u, v \in Agents, g \in Holders : FoundedNow(u, v, friends'[u][g][v])
    BY <1>1, OwnRecord, StaysFounded
<1>q. QED
    BY <1>1, <1>2, RecordsFounded DEF NoticesOK

-----------------------------------------------------------------------------
(* The client.                                                             *)

LEMMA StartStep ==
    ASSUME IInv, NEW a \in Attempts, NEW x \in Agents, NEW y \in Agents,
           NEW opened \in {"client", "file"}, Start(a, x, y, opened)
    PROVE  IInv'
<1>1. TypeOK /\ attempt[a] \in Attempt /\ attempt[a].at = "idle"
    BY DEF IInv, TypeOK, Start
<1>2. CASE friends[x][opened][y].status = "accepted"
    <2> DEFINE new == Raised(a, "friends")
    <2>1. new \in Attempt /\ new.at = "raised"
          /\ new.from = attempt[a].from /\ new.to = attempt[a].to
        BY <1>1, Failed DEF Raised
    <2>2. Becomes(a, new) /\ UNCHANGED <<wire, server, friends, shared, notices, faults, decided, disturbed>>
        BY <1>2 DEF Start
    <2> HIDE DEF new
    <2>3. /\ attempt' \in [Attempts -> Attempt]
          /\ attempt'[a] = new
          /\ \A b \in Attempts \ {a} : attempt'[b] = attempt[b]
        BY <1>1, <2>1, <2>2, BecomesType DEF TypeOK
    <2>4. TypeOK'
        BY <1>1, <2>2, <2>3 DEF TypeOK, server
    <2>5. ASSUME NEW b \in Attempts PROVE AttemptOK(b)'
        BY <2>1, <2>2, <2>3 DEF IInv, AttemptOK, Named, UnderWay, server
    <2>6. Steady
        BY <2>1, <2>3 DEF Steady, IInv, AttemptOK, UnderWay
    <2>7. \A u, v \in Agents : RecordOK(u, v)'
        BY <2>2, <2>6, RecordsKept
    <2>q. QED
        BY <2>4, <2>5, <2>7 DEF IInv
<1>3. CASE friends[x][opened][y].status # "accepted"
    <2> DEFINE new == First(attempt[a], x, y)
               row == [friends[x][opened] EXCEPT ![y] = PendingOut]
    <2>1. 1 \in 0 .. Retries + 1 /\ 1 \in 1 .. Retries + 1
        BY HandshakeAssumption
    <2>2. new \in Attempt /\ new.at = "waiting" /\ new.from = x /\ new.to = y
        BY <1>1, <2>1, Begun
    <2>3. /\ Becomes(a, new)
          /\ Save(x, "client", row)
          /\ wire' = wire \cup {<<a, "hello", 1>>}
          /\ UNCHANGED <<server, shared, notices, faults, decided, disturbed>>
        BY <1>3 DEF Start, First
    <2> HIDE DEF new
    <2>4. /\ attempt' \in [Attempts -> Attempt]
          /\ attempt'[a] = new
          /\ \A b \in Attempts \ {a} : attempt'[b] = attempt[b]
        BY <1>1, <2>2, <2>3, BecomesType DEF TypeOK
    <2>5. <<a, "hello", 1>> \in Attempts \X Steps \X (1 .. Retries + 1)
        BY <2>1 DEF Steps
    <2>6. Grows
        <3>1. attempt[a].from = NoAgent
            BY <1>1 DEF IInv, AttemptOK
        <3>2. \A u, v \in Agents : Began(u, v) => BeganNow(u, v)
            BY <2>4, <3>1, HandshakeAssumption DEF Began, BeganNow
        <3>q. QED
            BY <2>3, <3>2 DEF Grows
    <2>7. row \in [Agents -> Record] /\ \A v \in Agents : FoundedNow(x, v, row[v])
        <3>1. opened \in Holders
            BY DEF Holders
        <3>2. friends[x][opened] \in [Agents -> Record]
            BY <1>1, <3>1 DEF TypeOK
        <3>3. PendingOut \in Record /\ FoundedNow(x, y, PendingOut)
            BY <2>2, <2>4 DEF PendingOut, Record, FoundedNow, BeganNow
        <3>4. ASSUME NEW v \in Agents PROVE FoundedNow(x, v, row[v])
            <4>1. FoundedNow(x, v, friends[x][opened][v])
                BY <2>6, <3>1, OwnRecord, StaysFounded
            <4>2. row[v] = IF v = y THEN PendingOut ELSE friends[x][opened][v]
                BY <3>2
            <4>q. QED
                BY <3>3, <4>1, <4>2
        <3>q. QED
            BY <3>2, <3>3, <3>4
    <2> HIDE DEF row
    <2>8. /\ friends' \in [Agents -> [Holders -> [Agents -> Record]]]
          /\ \A u, v \in Agents, g \in Holders : FoundedNow(u, v, friends'[u][g][v])
        BY <2>3, <2>6, <2>7, RecordsSaved DEF Holders
    <2>9. TypeOK'
        BY <1>1, <2>3, <2>4, <2>5, <2>8 DEF TypeOK, server
    <2>10. ASSUME NEW b \in Attempts PROVE AttemptOK(b)'
        BY <2>2, <2>3, <2>4 DEF IInv, AttemptOK, Named, UnderWay, server
    <2>11. NoticesOK
        BY <2>3 DEF NoticesOK
    <2>12. \A u, v \in Agents : RecordOK(u, v)'
        BY <2>6, <2>8, <2>11, RecordsFounded
    <2>q. QED
        BY <2>9, <2>10, <2>12 DEF IInv
<1>q. QED
    BY <1>2, <1>3

LEMMA ProceedStep ==
    ASSUME IInv, NEW a \in Attempts, Proceed(a)
    PROVE  IInv'
<1> DEFINE step == Follows[attempt[a].step]
           new == [attempt[a] EXCEPT !.at = "waiting", !.try = 1, !.step = step]
<1>1. /\ TypeOK /\ attempt[a] \in Attempt /\ UnderWay(a)
      /\ attempt[a].step \in {"hello", "challenge"}
    BY DEF IInv, TypeOK, AttemptOK, Attempt, Steps, UnderWay, Proceed
<1>2. step \in Steps
    BY <1>1 DEF Follows, Steps
<1>3. 1 \in 0 .. Retries + 1 /\ 1 \in 1 .. Retries + 1
    BY HandshakeAssumption
<1>4. /\ Becomes(a, new)
      /\ wire' = wire \cup {<<a, step, 1>>}
      /\ UNCHANGED <<server, friends, shared, notices, faults, decided, disturbed>>
    BY DEF Proceed
<1> HIDE DEF step
<1>5. new \in Attempt /\ new.at = "waiting"
      /\ new.from = attempt[a].from /\ new.to = attempt[a].to
    BY <1>1, <1>2, <1>3, Posted
<1> HIDE DEF new
<1>6. Steady
    BY <1>1, <1>4, <1>5, SteadyBecomes
<1>7. TypeOK'
    BY <1>1, <1>2, <1>3, <1>4, <1>6 DEF TypeOK, server, Steady
<1>8. \A b \in Attempts : proof'[b].try # 0 => Named(b)
    BY <1>4, ProofKept DEF server
<1>9. \A b \in Attempts, s \in Steps, i \in 1 .. Retries + 1 :
          <<b, s, i>> \in wire' => Named(b)
    BY <1>1, <1>4 DEF IInv, AttemptOK
<1>10. \A b \in Attempts : AttemptOK(b)'
    BY <1>6, <1>8, <1>9, AttemptsKept
<1>11. \A x, y \in Agents : RecordOK(x, y)'
    BY <1>4, <1>6, RecordsKept
<1>q. QED
    BY <1>7, <1>10, <1>11 DEF IInv

LEMMA RepostStep ==
    ASSUME IInv, NEW a \in Attempts, Repost(a)
    PROVE  IInv'
<1> DEFINE new == [attempt[a] EXCEPT !.try = @ + 1]
<1>1. /\ TypeOK /\ attempt[a] \in Attempt /\ UnderWay(a)
      /\ attempt[a].step \in Steps /\ attempt[a].at = "waiting"
      /\ attempt[a].try \in 0 .. Retries + 1
    BY DEF IInv, TypeOK, Attempt, UnderWay, Repost
<1>2. attempt[a].try + 1 \in 0 .. Retries + 1 /\ attempt[a].try + 1 \in 1 .. Retries + 1
    BY <1>1, HandshakeAssumption DEF Repost
<1>3. /\ Becomes(a, new)
      /\ wire' = wire \cup {<<a, attempt[a].step, attempt[a].try + 1>>}
      /\ faults < MaxFaults /\ faults' = faults + 1
      /\ UNCHANGED <<server, friends, shared, notices, decided, disturbed>>
    BY DEF Repost
<1>4. new \in Attempt /\ new.at = "waiting"
      /\ new.from = attempt[a].from /\ new.to = attempt[a].to
    BY <1>1, <1>2, Reposted
<1> HIDE DEF new
<1>5. Steady
    BY <1>1, <1>3, <1>4, SteadyBecomes
<1>6. faults' \in 0 .. MaxFaults
    BY <1>1, <1>3, HandshakeAssumption DEF TypeOK
<1>7. TypeOK'
    BY <1>1, <1>2, <1>3, <1>5, <1>6 DEF TypeOK, server, Steady
<1>8. \A b \in Attempts : proof'[b].try # 0 => Named(b)
    BY <1>3, ProofKept DEF server
<1>9. \A b \in Attempts, s \in Steps, i \in 1 .. Retries + 1 :
          <<b, s, i>> \in wire' => Named(b)
    BY <1>1, <1>3 DEF IInv, AttemptOK
<1>10. \A b \in Attempts : AttemptOK(b)'
    BY <1>5, <1>8, <1>9, AttemptsKept
<1>11. \A x, y \in Agents : RecordOK(x, y)'
    BY <1>3, <1>5, RecordsKept
<1>q. QED
    BY <1>7, <1>10, <1>11 DEF IInv

LEMMA GiveUpStep ==
    ASSUME IInv, NEW a \in Attempts, GiveUp(a)
    PROVE  IInv'
<1> DEFINE new == Raised(a, "network")
<1>1. TypeOK /\ attempt[a] \in Attempt /\ UnderWay(a)
    BY DEF IInv, TypeOK, UnderWay, GiveUp
<1>2. new \in Attempt /\ new.at = "raised"
      /\ new.from = attempt[a].from /\ new.to = attempt[a].to
    BY <1>1, Failed DEF Raised
<1>3. /\ Becomes(a, new)
      /\ UNCHANGED <<wire, server, friends, shared, notices, faults, decided, disturbed>>
    BY DEF GiveUp
<1> HIDE DEF new
<1>4. Steady
    BY <1>1, <1>2, <1>3, SteadyBecomes
<1>5. TypeOK'
    BY <1>1, <1>3, <1>4 DEF TypeOK, server, Steady
<1>6. \A b \in Attempts : AttemptOK(b)'
    BY <1>3, <1>4, ProofKept, WireKept, AttemptsKept DEF server
<1>7. \A x, y \in Agents : RecordOK(x, y)'
    BY <1>3, <1>4, RecordsKept
<1>q. QED
    BY <1>5, <1>6, <1>7 DEF IInv

-----------------------------------------------------------------------------
(* The server.                                                             *)

\* An envelope on the wire comes from one agent to another.
LEMMA WireNamed ==
    ASSUME IInv, NEW a, NEW step, NEW i, <<a, step, i>> \in wire
    PROVE  /\ a \in Attempts /\ step \in Steps /\ i \in 1 .. Retries + 1
           /\ attempt[a] \in Attempt /\ Named(a)
<1>1. wire \subseteq Attempts \X Steps \X (1 .. Retries + 1)
    BY DEF IInv, TypeOK
<1>2. a \in Attempts /\ step \in Steps /\ i \in 1 .. Retries + 1
    BY <1>1
<1>q. QED
    BY <1>2 DEF IInv, TypeOK, AttemptOK

LEMMA ReplayStep ==
    ASSUME IInv, NEW a \in Attempts, NEW step, NEW i, Replay(a, step, i)
    PROVE  IInv'
<1> DEFINE new == Raised(a, "replay")
<1>1. /\ wire' \subseteq wire /\ Answer(a, step, i, new)
      /\ UNCHANGED <<server, friends, shared, notices, faults, decided, disturbed>>
    BY DEF Replay
<1>2. TypeOK /\ attempt[a] \in Attempt
    BY DEF IInv, TypeOK
<1>3. new \in Attempt /\ new.at = "raised" /\ new.step = attempt[a].step
      /\ new.from = attempt[a].from /\ new.to = attempt[a].to
    BY <1>2, Failed DEF Raised
<1> HIDE DEF new
<1>4. Steady
    BY <1>1, <1>3, SteadyAnswer
<1>5. TypeOK'
    BY <1>1, <1>2, <1>4 DEF TypeOK, server, Steady
<1>6. \A b \in Attempts : AttemptOK(b)'
    BY <1>1, <1>4, ProofKept, WireKept, AttemptsKept DEF server
<1>7. \A x, y \in Agents : RecordOK(x, y)'
    BY <1>1, <1>4, RecordsKept
<1>q. QED
    BY <1>5, <1>6, <1>7 DEF IInv

LEMMA HelloStep ==
    ASSUME IInv, NEW a \in Attempts, NEW i, Hello(a, i)
    PROVE  IInv'
<1> DEFINE new == [attempt[a] EXCEPT !.at = "answered", !.value = minted']
           x == attempt[a].to
           y == attempt[a].from
<1>1. <<a, "hello", i>> \in wire
    BY DEF Hello, Receive
<1>2. TypeOK /\ attempt[a] \in Attempt /\ x \in Agents /\ y \in Agents
    BY <1>1, WireNamed DEF IInv, Named
<1>3. minted' \in Nat
    BY <1>2 DEF TypeOK, Hello
<1>4. /\ wire' \subseteq wire
      /\ marked' = marked \cup {<<a, "hello">>}
      /\ pending' = [pending EXCEPT ![x][y] = minted']
      /\ disturbed' \subseteq disturbed \cup Attempts
      /\ Answer(a, "hello", i, new)
      /\ UNCHANGED <<proof, friends, shared, notices, faults, decided>>
    BY DEF Hello, Receive, Disturb
<1>5. new \in Attempt /\ new.at = "answered" /\ new.step = attempt[a].step
      /\ new.from = attempt[a].from /\ new.to = attempt[a].to
    BY <1>2, <1>3, Challenged
<1>6. pending' \in [Agents -> [Agents -> Nat]]
    BY <1>2, <1>3, <1>4 DEF TypeOK
<1> HIDE DEF new, x, y
<1>7. Steady
    BY <1>4, <1>5, SteadyAnswer
<1>8. TypeOK'
    BY <1>2, <1>3, <1>4, <1>6, <1>7 DEF TypeOK, Steady, Steps
<1>9. \A b \in Attempts : AttemptOK(b)'
    BY <1>4, <1>7, ProofKept, WireKept, AttemptsKept
<1>10. \A u, v \in Agents : RecordOK(u, v)'
    BY <1>4, <1>7, RecordsKept
<1>q. QED
    BY <1>8, <1>9, <1>10 DEF IInv

LEMMA PopStep ==
    ASSUME IInv, NEW a \in Attempts, NEW i, Pop(a, i)
    PROVE  IInv'
<1> DEFINE x == attempt[a].to
           y == attempt[a].from
<1>1. <<a, "challenge", i>> \in wire
    BY DEF Pop, Receive
<1>2. TypeOK /\ Named(a) /\ x \in Agents /\ y \in Agents /\ i \in 1 .. Retries + 1
    BY <1>1, WireNamed DEF IInv, Named
<1>3. /\ wire' \subseteq wire
      /\ marked' = marked \cup {<<a, "challenge">>}
      /\ proof' = [proof EXCEPT ![a] = [try |-> i, popped |-> pending[x][y]]]
      /\ pending' = [pending EXCEPT ![x][y] = NoChallenge]
      /\ disturbed' \subseteq disturbed \cup Attempts
      /\ UNCHANGED <<attempt, minted, friends, shared, notices, faults, decided>>
    BY DEF Pop, Receive, Disturb
<1>4. pending[x][y] \in Nat
    BY <1>2 DEF TypeOK
<1>5. pending' \in [Agents -> [Agents -> Nat]]
    BY <1>2, <1>3 DEF TypeOK, NoChallenge
<1> HIDE DEF x, y
<1>6. i \in 0 .. Retries + 1
    BY <1>2, HandshakeAssumption
<1>7. proof' \in [Attempts -> [try : 0 .. Retries + 1, popped : Nat]]
    BY <1>2, <1>3, <1>4, <1>6 DEF TypeOK
<1>8. TypeOK'
    BY <1>2, <1>3, <1>5, <1>7 DEF TypeOK, Steps
<1>9. Steady
    BY <1>3, SteadyUnchanged
<1>10. \A b \in Attempts : proof'[b].try # 0 => Named(b)
    BY <1>2, <1>3 DEF IInv, AttemptOK, TypeOK
<1>11. \A b \in Attempts : AttemptOK(b)'
    BY <1>3, <1>9, <1>10, WireKept, AttemptsKept
<1>12. \A u, v \in Agents : RecordOK(u, v)'
    BY <1>3, <1>9, RecordsKept
<1>q. QED
    BY <1>8, <1>11, <1>12 DEF IInv

LEMMA ProveStep ==
    ASSUME IInv, NEW a \in Attempts, NEW verdict \in Verdicts(a), Prove(a, verdict)
    PROVE  IInv'
<1> DEFINE x == attempt[a].to
           y == attempt[a].from
           i == proof[a].try
           good == [attempt[a] EXCEPT !.at = "answered"]
           bad == Raised(a, verdict)
<1>1. TypeOK /\ attempt[a] \in Attempt /\ x \in Agents /\ y \in Agents
    BY DEF IInv, TypeOK, AttemptOK, Named, Prove
<1>2. /\ proof' = [proof EXCEPT ![a] = NoProof]
      /\ UNCHANGED <<wire, pending, minted, marked, shared, notices, faults, decided,
                     disturbed>>
    BY DEF Prove
<1>3. Began(y, x)
    BY DEF Began
<1>4. proof' \in [Attempts -> [try : 0 .. Retries + 1, popped : Nat]]
    <2>1. NoProof \in [try : 0 .. Retries + 1, popped : Nat]
        BY HandshakeAssumption DEF NoProof, NoChallenge
    <2>q. QED
        BY <1>1, <1>2, <2>1 DEF TypeOK
<1>5. \A b \in Attempts : proof'[b].try # 0 => Named(b)
    BY <1>1, <1>2 DEF IInv, TypeOK, AttemptOK, NoProof
<1>6. Steady
    <2>1. CASE verdict = "verified"
        <3>1. Answer(a, "challenge", i, good)
            BY <2>1 DEF Prove
        <3>2. good \in Attempt /\ good.at = "answered" /\ good.step = attempt[a].step
              /\ good.from = attempt[a].from /\ good.to = attempt[a].to
            BY <1>1, Moved
        <3> HIDE DEF good, i, x, y
        <3>q. QED
            BY <3>1, <3>2, SteadyAnswer
    <2>2. CASE verdict # "verified"
        <3>1. Answer(a, "challenge", i, bad)
            BY <2>2 DEF Prove
        <3>2. verdict \in {"friends", "network", "replay", "unknown",
                            "expired", "mismatch", "denied"}
            BY <2>2 DEF Verdicts
        <3>3. bad \in Attempt /\ bad.at = "raised" /\ bad.step = attempt[a].step
              /\ bad.from = attempt[a].from /\ bad.to = attempt[a].to
            BY <1>1, <3>2, Failed DEF Raised
        <3> HIDE DEF bad, i, x, y
        <3>q. QED
            BY <3>1, <3>3, SteadyAnswer
    <2>q. QED
        BY <2>1, <2>2
<1>7. Grows
    BY <1>2, <1>6, SteadyGrows
<1>8. BeganNow(y, x)
    BY <1>1, <1>3, <1>7 DEF Grows
<1>9. \/ UNCHANGED friends
      \/ Change(x, "server", y, Known(friends[x]["server"][y]))
    BY DEF Prove
<1> HIDE DEF x, y, i, good, bad
<1>10. /\ friends' \in [Agents -> [Holders -> [Agents -> Record]]]
       /\ \A u, v \in Agents, g \in Holders : FoundedNow(u, v, friends'[u][g][v])
    <2>1. CASE UNCHANGED friends
        BY <1>1, <1>7, <2>1, OwnRecord, StaysFounded DEF TypeOK
    <2>2. CASE Change(x, "server", y, Known(friends[x]["server"][y]))
        <3> DEFINE old == friends[x]["server"][y]
        <3>1. old \in Record /\ FoundedNow(x, y, old)
            BY <1>1, <1>7, OwnRecord, StaysFounded DEF Holders
        <3> HIDE DEF old
        <3>2. Known(old) \in Record /\ FoundedNow(x, y, Known(old))
            BY <1>8, <3>1 DEF Known, Record, FoundedNow
        <3>q. QED
            BY <1>1, <1>7, <2>2, <3>2, RecordChanged DEF Holders, old
    <2>q. QED
        BY <1>9, <2>1, <2>2
<1>11. TypeOK'
    BY <1>1, <1>2, <1>4, <1>6, <1>10 DEF TypeOK, Steady
<1>12. \A b \in Attempts : AttemptOK(b)'
    BY <1>2, <1>5, <1>6, WireKept, AttemptsKept
<1>13. \A u, v \in Agents : RecordOK(u, v)'
    BY <1>2, <1>7, <1>10, RecordsFounded DEF NoticesOK
<1>q. QED
    BY <1>11, <1>12, <1>13 DEF IInv

LEMMA RequestStep ==
    ASSUME IInv, NEW a \in Attempts, NEW i,
           NEW decision \in {"deny", "auto", "queue"}, Request(a, i, decision)
    PROVE  IInv'
<1> DEFINE x == attempt[a].to
           y == attempt[a].from
           new == IF decision = "deny" THEN Raised(a, "denied")
                  ELSE [attempt[a] EXCEPT !.at = "returned"]
<1>1. <<a, "friend_request", i>> \in wire
    BY DEF Request, Receive
<1>2. TypeOK /\ attempt[a] \in Attempt /\ x \in Agents /\ y \in Agents
    BY <1>1, WireNamed DEF IInv, Named
<1>3. Began(y, x)
    BY DEF Began
<1>4. /\ wire' \subseteq wire
      /\ marked' = marked \cup {<<a, "friend_request">>}
      /\ decided' = IF decision = "auto" THEN decided \cup {<<x, y, "policy">>} ELSE decided
      /\ Answer(a, "friend_request", i, new)
      /\ UNCHANGED <<pending, minted, proof, shared, notices, faults, disturbed>>
    BY DEF Request, Receive
<1>5. Change(x, "server", y,
          IF decision = "deny" THEN NoRecord
          ELSE IF decision = "auto" THEN Accepted
          ELSE [Known(friends[x]["server"][y]) EXCEPT !.status = "pending_in"])
    BY DEF Request
<1>6. new \in Attempt /\ new.at \in {"raised", "returned"} /\ new.step = attempt[a].step
      /\ new.from = attempt[a].from /\ new.to = attempt[a].to
    <2>1. CASE decision = "deny"
        BY <1>2, <2>1, Failed DEF Raised
    <2>2. CASE decision # "deny"
        BY <1>2, <2>2, Moved
    <2>q. QED
        BY <2>1, <2>2
<1> HIDE DEF x, y, new
<1>7. Steady
    BY <1>4, <1>6, SteadyAnswer
<1>8. Grows
    BY <1>4, <1>7, SteadyGrows
<1>9. BeganNow(y, x) /\ (decision = "auto" => DecidedNow(x, y))
    BY <1>2, <1>3, <1>4, <1>8 DEF Grows, DecidedNow
<1>10. /\ friends' \in [Agents -> [Holders -> [Agents -> Record]]]
       /\ \A u, v \in Agents, g \in Holders : FoundedNow(u, v, friends'[u][g][v])
    <2> DEFINE old == friends[x]["server"][y]
               queued == [Known(old) EXCEPT !.status = "pending_in"]
               rec == IF decision = "deny" THEN NoRecord
                      ELSE IF decision = "auto" THEN Accepted ELSE queued
    <2>1. old \in Record /\ FoundedNow(x, y, old)
        BY <1>2, <1>8, OwnRecord, StaysFounded DEF Holders
    <2> HIDE DEF old
    <2>2. NoRecord \in Record /\ FoundedNow(x, y, NoRecord)
        BY DEF NoRecord, Record, FoundedNow
    <2>3. decision = "auto" => Accepted \in Record /\ FoundedNow(x, y, Accepted)
        BY <1>9 DEF Accepted, Record, FoundedNow, ConsentNow
    <2>4. queued \in Record /\ FoundedNow(x, y, queued)
        BY <1>9, <2>1 DEF Known, Record, FoundedNow
    <2> HIDE DEF queued
    <2>5. rec \in Record /\ FoundedNow(x, y, rec)
        BY <2>2, <2>3, <2>4
    <2>6. Change(x, "server", y, rec)
        BY <1>5 DEF queued, old
    <2> HIDE DEF rec
    <2>q. QED
        BY <1>2, <1>8, <2>5, <2>6, RecordChanged DEF Holders
<1>11. TypeOK'
    BY <1>2, <1>4, <1>7, <1>10 DEF TypeOK, Steady, Steps
<1>12. \A b \in Attempts : AttemptOK(b)'
    BY <1>4, <1>7, ProofKept, WireKept, AttemptsKept
<1>13. \A u, v \in Agents : RecordOK(u, v)'
    BY <1>4, <1>8, <1>10, RecordsFounded DEF NoticesOK
<1>q. QED
    BY <1>11, <1>12, <1>13 DEF IInv

LEMMA RestartStep ==
    ASSUME IInv, NEW x \in Agents, Restart(x)
    PROVE  IInv'
<1>1. TypeOK
    BY DEF IInv
<1>2. /\ faults < MaxFaults /\ faults' = faults + 1
      /\ marked' \subseteq marked
      /\ pending' = [pending EXCEPT ![x] = [y \in Agents |-> NoChallenge]]
      /\ proof' = [a \in Attempts |-> IF attempt[a].to = x THEN NoProof ELSE proof[a]]
      /\ disturbed' \subseteq disturbed \cup Attempts
      /\ friends' = [friends EXCEPT ![x]["server"] = friends[x]["file"]]
      /\ UNCHANGED <<attempt, wire, minted, shared, notices, decided>>
    BY DEF Restart
<1>3. faults' \in 0 .. MaxFaults
    BY <1>1, <1>2, HandshakeAssumption DEF TypeOK
<1>4. NoProof \in [try : 0 .. Retries + 1, popped : Nat]
    BY HandshakeAssumption DEF NoProof, NoChallenge
<1>5. Steady /\ Grows
    BY <1>2, SteadyUnchanged, SteadyGrows
<1>6. /\ friends' \in [Agents -> [Holders -> [Agents -> Record]]]
      /\ \A u, v \in Agents, g \in Holders : FoundedNow(u, v, friends'[u][g][v])
    <2>1. friends \in [Agents -> [Holders -> [Agents -> Record]]]
        BY <1>1 DEF TypeOK
    <2>2. /\ friends' \in [Agents -> [Holders -> [Agents -> Record]]]
          /\ \A u \in Agents, g \in Holders :
                 friends'[u][g] = friends[u][g] \/ friends'[u][g] = friends[u]["file"]
        BY <1>2, <2>1 DEF Holders
    <2>3. ASSUME NEW u \in Agents, NEW v \in Agents, NEW g \in Holders
          PROVE  FoundedNow(u, v, friends'[u][g][v])
        <3>1. /\ FoundedNow(u, v, friends[u][g][v])
              /\ FoundedNow(u, v, friends[u]["file"][v])
            BY <1>5, OwnRecord, StaysFounded DEF Holders
        <3>q. QED
            BY <2>2, <3>1
    <2>q. QED
        BY <2>2, <2>3
<1>7. TypeOK'
    BY <1>1, <1>2, <1>3, <1>4, <1>6 DEF TypeOK, NoChallenge
<1>8. \A b \in Attempts : proof'[b].try # 0 => Named(b)
    BY <1>2 DEF IInv, AttemptOK, NoProof
<1>9. \A b \in Attempts : AttemptOK(b)'
    BY <1>2, <1>5, <1>8, WireKept, AttemptsKept
<1>10. \A u, v \in Agents : RecordOK(u, v)'
    BY <1>2, <1>5, <1>6, RecordsFounded DEF NoticesOK
<1>q. QED
    BY <1>7, <1>9, <1>10 DEF IInv

-----------------------------------------------------------------------------
(* The owners and their hosts.                                             *)

\* What an owner or a host does to the records.
Hosted ==
    /\ friends' \in [Agents -> [Holders -> [Agents -> Record]]]
    /\ \A u, v \in Agents, g \in Holders : FoundedNow(u, v, friends'[u][g][v])
    /\ UNCHANGED <<attempt, wire, server, shared, disturbed>>
    /\ faults' \in 0 .. MaxFaults
    /\ notices' \subseteq Agents \X Agents
    /\ decided' \subseteq Agents \X Agents \X {"owner", "policy", "nobody"}
    /\ Grows
    /\ NoticesOK

LEMMA HostedStep ==
    ASSUME IInv, Hosted
    PROVE  IInv'
<1>1. TypeOK'
    BY DEF IInv, TypeOK, server, Hosted
<1>2. Steady
    BY SteadyUnchanged DEF Hosted
<1>3. \A b \in Attempts : AttemptOK(b)'
    BY <1>2, ProofKept, WireKept, AttemptsKept DEF server, Hosted
<1>4. \A u, v \in Agents : RecordOK(u, v)'
    BY RecordsFounded DEF Hosted
<1>q. QED
    BY <1>1, <1>3, <1>4 DEF IInv

\* Whatever keeps the calls keeps what was asked.
LEMMA CallsKept ==
    ASSUME IInv, UNCHANGED attempt, decided \subseteq decided'
    PROVE  Grows
BY SteadyUnchanged, SteadyGrows

LEMMA ApproveStep ==
    ASSUME IInv, NEW x \in Agents, NEW y \in Agents, Approve(x, y)
    PROVE  IInv'
<1>1. /\ friends[x]["file"][y].status = "pending_in"
      /\ Change(x, "file", y, Accepted)
      /\ decided' = decided \cup {<<x, y, "owner">>}
      /\ notices' = notices \cup {<<x, y>>}
      /\ UNCHANGED <<attempt, wire, server, shared, faults, disturbed>>
    BY DEF Approve, CanApprove
<1>2. Grows
    BY <1>1, CallsKept
<1>3. BeganNow(y, x)
    <2>1. Founded(x, y, friends[x]["file"][y])
        BY OwnRecord DEF Holders
    <2>q. QED
        BY <1>1, <1>2, <2>1 DEF Founded, Grows
<1>4. DecidedNow(x, y)
    BY <1>1 DEF DecidedNow
<1>5. /\ faults' \in 0 .. MaxFaults
      /\ notices' \subseteq Agents \X Agents
      /\ decided' \subseteq Agents \X Agents \X {"owner", "policy", "nobody"}
    BY <1>1 DEF IInv, TypeOK
<1>6. Accepted \in Record /\ FoundedNow(x, y, Accepted)
    BY <1>3, <1>4 DEF Accepted, Record, FoundedNow, ConsentNow
<1>7. /\ friends' \in [Agents -> [Holders -> [Agents -> Record]]]
      /\ \A u, v \in Agents, g \in Holders : FoundedNow(u, v, friends'[u][g][v])
    BY <1>1, <1>2, <1>6, RecordChanged DEF Holders
<1>8. NoticesOK
    BY <1>1, <1>3, <1>4 DEF NoticesOK
<1>q. QED
    BY <1>1, <1>2, <1>5, <1>7, <1>8, HostedStep DEF Hosted

LEMMA RemoveStep ==
    ASSUME IInv, NEW x \in Agents, NEW y \in Agents, Remove(x, y)
    PROVE  IInv'
<1>1. /\ Change(x, "file", y, NoRecord)
      /\ faults < MaxFaults /\ faults' = faults + 1
      /\ UNCHANGED <<attempt, wire, server, shared, notices, decided, disturbed>>
    BY DEF Remove
<1>2. Grows
    BY <1>1, CallsKept
<1>3. /\ faults' \in 0 .. MaxFaults
      /\ notices' \subseteq Agents \X Agents
      /\ decided' \subseteq Agents \X Agents \X {"owner", "policy", "nobody"}
    BY <1>1, HandshakeAssumption DEF IInv, TypeOK
<1>4. NoRecord \in Record /\ FoundedNow(x, y, NoRecord)
    BY DEF NoRecord, Record, FoundedNow
<1>5. /\ friends' \in [Agents -> [Holders -> [Agents -> Record]]]
      /\ \A u, v \in Agents, g \in Holders : FoundedNow(u, v, friends'[u][g][v])
    BY <1>1, <1>2, <1>4, RecordChanged DEF Holders
<1>6. NoticesOK
    BY <1>1 DEF NoticesOK
<1>q. QED
    BY <1>1, <1>2, <1>3, <1>5, <1>6, HostedStep DEF Hosted

\* A friend_accept gives no rights; it needs a decision of the sender, or is one
\* that nobody at the sender has taken.
LEMMA FriendAcceptRecords ==
    ASSUME IInv, Grows, NEW x \in Agents, NEW y \in Agents, FriendAccept(x, y),
           (DecidedNow(x, y) /\ BeganNow(y, x)) \/ <<x, y, "nobody">> \in decided'
    PROVE  /\ friends' \in [Agents -> [Holders -> [Agents -> Record]]]
           /\ \A u, v \in Agents, g \in Holders : FoundedNow(u, v, friends'[u][g][v])
<1>1. CASE ~Knows(y, x)
    BY <1>1, OwnRecord, StaysFounded DEF FriendAccept, IInv, TypeOK
<1>2. CASE Knows(y, x)
    <2> DEFINE old == friends[y]["server"][x]
    <2>1. old \in Record /\ FoundedNow(y, x, old)
        BY OwnRecord, StaysFounded DEF Holders
    <2>2. old.status # "none" /\ Change(y, "server", x, Confirmed(old))
        BY <1>2 DEF FriendAccept, Knows
    <2> HIDE DEF old
    <2>3. Confirmed(old) \in Record /\ FoundedNow(y, x, Confirmed(old))
        <3>1. /\ Confirmed(old) \in Record /\ Confirmed(old).status = "accepted"
              /\ Confirmed(old).rights = old.rights
            BY <2>1 DEF Confirmed, Record
        <3>2. ConsentNow(y, x)
            BY <2>1, <2>2 DEF FoundedNow, ConsentNow, Record
        <3>q. QED
            BY <2>1, <3>1, <3>2 DEF FoundedNow
    <2>q. QED
        BY <2>2, <2>3, RecordChanged DEF Holders
<1>q. QED
    BY <1>1, <1>2

LEMMA NotifyStep ==
    ASSUME IInv, NEW x \in Agents, NEW y \in Agents, Notify(x, y)
    PROVE  IInv'
<1>1. /\ <<x, y>> \in notices
      /\ notices' \subseteq notices
      /\ FriendAccept(x, y)
      /\ UNCHANGED <<attempt, wire, server, shared, faults, decided, disturbed>>
    BY DEF Notify
<1>2. Grows
    BY <1>1, CallsKept
<1>3. /\ faults' \in 0 .. MaxFaults
      /\ notices' \subseteq Agents \X Agents
      /\ decided' \subseteq Agents \X Agents \X {"owner", "policy", "nobody"}
    BY <1>1 DEF IInv, TypeOK
<1>4. BeganNow(y, x) /\ DecidedNow(x, y)
    BY <1>1, <1>2, GrowsDecided DEF IInv, RecordOK, Grows
<1>5. /\ friends' \in [Agents -> [Holders -> [Agents -> Record]]]
      /\ \A u, v \in Agents, g \in Holders : FoundedNow(u, v, friends'[u][g][v])
    BY <1>1, <1>2, <1>4, FriendAcceptRecords
<1>6. NoticesOK
    BY <1>1 DEF NoticesOK
<1>q. QED
    BY <1>1, <1>2, <1>3, <1>5, <1>6, HostedStep DEF Hosted

LEMMA VolunteerStep ==
    ASSUME IInv, NEW x \in Agents, NEW y \in Agents, Volunteer(x, y)
    PROVE  IInv'
<1>1. /\ faults < MaxFaults /\ faults' = faults + 1
      /\ FriendAccept(x, y)
      /\ decided' = decided \cup {<<x, y, "nobody">>}
      /\ UNCHANGED <<attempt, wire, server, shared, notices, disturbed>>
    BY DEF Volunteer
<1>2. Grows
    BY <1>1, CallsKept
<1>3. /\ faults' \in 0 .. MaxFaults
      /\ notices' \subseteq Agents \X Agents
      /\ decided' \subseteq Agents \X Agents \X {"owner", "policy", "nobody"}
    BY <1>1, HandshakeAssumption DEF IInv, TypeOK
<1>4. /\ friends' \in [Agents -> [Holders -> [Agents -> Record]]]
      /\ \A u, v \in Agents, g \in Holders : FoundedNow(u, v, friends'[u][g][v])
    BY <1>1, <1>2, FriendAcceptRecords
<1>5. NoticesOK
    BY <1>1 DEF NoticesOK
<1>q. QED
    BY <1>1, <1>2, <1>3, <1>4, <1>5, HostedStep DEF Hosted

-----------------------------------------------------------------------------
(* The theorems.                                                           *)

LEMMA Initial == Init => IInv
<1> SUFFICES ASSUME Init PROVE IInv
    OBVIOUS
<1>1. Idle \in Attempt /\ Idle.at = "idle" /\ Idle.from = NoAgent
    BY HandshakeAssumption DEF Idle, Attempt, Steps, NoChallenge
<1>2. NoProof \in [try : 0 .. Retries + 1, popped : Nat] /\ NoProof.try = 0
    BY HandshakeAssumption DEF NoProof, NoChallenge
<1>3. TypeOK
    <2>1. NoRecord \in Record
        BY DEF NoRecord, Record
    <2>q. QED
        BY <1>1, <1>2, <2>1, HandshakeAssumption DEF Init, TypeOK, NoChallenge
<1>4. \A a \in Attempts : AttemptOK(a)
    BY <1>1, <1>2 DEF Init, AttemptOK, UnderWay
<1>5. \A x, y \in Agents : RecordOK(x, y)
    BY DEF Init, RecordOK, Founded, NoRecord
<1>q. QED
    BY <1>3, <1>4, <1>5 DEF IInv

LEMMA Inductive == IInv /\ [Next]_vars => IInv'
<1> SUFFICES ASSUME IInv, [Next]_vars PROVE IInv'
    OBVIOUS
<1>1. ASSUME NEW a \in Attempts, Client(a) PROVE IInv'
    BY <1>1, StartStep, ProceedStep, RepostStep, GiveUpStep DEF Client
<1>2. ASSUME NEW a \in Attempts, Serve(a) PROVE IInv'
    <2>1. ASSUME NEW verdict \in Verdicts(a), Prove(a, verdict) PROVE IInv'
        BY <2>1, ProveStep
    <2>2. ASSUME NEW i \in 1 .. Retries + 1, Hello(a, i) PROVE IInv'
        BY <2>2, HelloStep
    <2>3. ASSUME NEW i \in 1 .. Retries + 1, Pop(a, i) PROVE IInv'
        BY <2>3, PopStep
    <2>4. ASSUME NEW i \in 1 .. Retries + 1,
                 NEW decision \in {"deny", "auto", "queue"}, Request(a, i, decision)
          PROVE  IInv'
        BY <2>4, RequestStep
    <2>5. ASSUME NEW i \in 1 .. Retries + 1, NEW step \in Steps, Replay(a, step, i)
          PROVE  IInv'
        BY <2>5, ReplayStep
    <2>q. QED
        BY <1>2, <2>1, <2>2, <2>3, <2>4, <2>5 DEF Serve
<1>3. ASSUME NEW x \in Agents, NEW y \in Agents, Owner(x, y) \/ Notify(x, y) \/ Volunteer(x, y)
      PROVE  IInv'
    BY <1>3, ApproveStep, RemoveStep, NotifyStep, VolunteerStep DEF Owner
<1>4. ASSUME NEW x \in Agents, Restart(x) PROVE IInv'
    BY <1>4, RestartStep
<1>5. CASE UNCHANGED vars
    <2>1. UNCHANGED <<attempt, wire, server, friends, shared, notices, faults, decided, disturbed>>
        BY <1>5 DEF vars
    <2>2. TypeOK'
        BY <2>1 DEF IInv, TypeOK, server
    <2>3. Steady
        BY <2>1, SteadyUnchanged
    <2>4. \A a \in Attempts : AttemptOK(a)'
        BY <2>1, <2>3, ProofKept, WireKept, AttemptsKept DEF server
    <2>5. \A x, y \in Agents : RecordOK(x, y)'
        BY <2>1, <2>3, RecordsKept
    <2>q. QED
        BY <2>2, <2>4, <2>5 DEF IInv
<1>q. QED
    BY <1>1, <1>2, <1>3, <1>4, <1>5 DEF Next

\* The inductive invariant: envelopes and handlers belong to calls that have
\* begun, and what any Directory or file has, and the notices, to requests, to
\* decisions or to friend_accepts that nobody had decided.
THEOREM Invariance == Spec => []IInv
BY Initial, Inductive, PTL DEF Spec

\* Attempts, challenges and records keep their shape.
THEOREM TypeCorrect == Spec => []TypeOK
<1>1. IInv => TypeOK
    BY DEF IInv
<1>q. QED
    BY Invariance, <1>1, PTL

\* Agents become friends only if one of them asked and the other one's owner or
\* policy approved, or the other one said so unprompted, and no record grants
\* anything that its own agent did not ask for or approve, whatever is lost,
\* repeated, restarted or removed, and in either wiring.
THEOREM FriendsByConsent == Spec => []Mutual
<1>1. IInv => Mutual
    BY DEF IInv, RecordOK, Founded, Consent, Mutual
<1>q. QED
    BY Invariance, <1>1, PTL

-----------------------------------------------------------------------------
(* A handshake fails for a cause.                                          *)

\* The order of the requests.
UpTo(s, t) == s = t \/ s = "hello" \/ t = "friend_request"

\* A call that is not over was refused nothing, and a handler answers a post.
ProgressOK(a) ==
    /\ attempt[a].at = "idle" => attempt[a].step = "hello"
    /\ attempt[a].at # "raised" => attempt[a].why = "none"
    /\ UnderWay(a) => attempt[a].try > 0
    /\ proof[a].try # 0 => attempt[a].at # "idle" /\ attempt[a].step # "hello"

\* Nothing is under way or marked that was not sent, and what was posted once is
\* not under way when it is marked.
PostOK(a) ==
    /\ \A s \in Steps :
        /\ <<a, s>> \in marked =>
            attempt[a].at # "idle" /\ UpTo(s, attempt[a].step)
        /\ \A i \in 1 .. Retries + 1 : <<a, s, i>> \in wire =>
            /\ attempt[a].at # "idle" /\ UpTo(s, attempt[a].step)
            /\ s = attempt[a].step => i <= attempt[a].try
    /\ <<a, attempt[a].step>> \in marked /\ <<a, attempt[a].step, 1>> \in wire =>
        attempt[a].try > 1

\* The challenge that a was given is the one that is pending.
Expects(a) ==
    \/ attempt[a].step = "hello" /\ attempt[a].at = "answered"
    \/ /\ attempt[a].step = "challenge" /\ attempt[a].at = "waiting"
       /\ <<a, "challenge">> \notin marked

ValueOK(a) ==
    UnderWay(a) /\ a \notin disturbed =>
        /\ attempt[a].at = "answered" \/ attempt[a].step # "hello" =>
            <<a, "hello">> \in marked
        /\ Expects(a) =>
            /\ attempt[a].value # NoChallenge
            /\ pending[attempt[a].to][attempt[a].from] = attempt[a].value
        /\ attempt[a].step = "challenge" /\ attempt[a].at = "waiting" /\ proof[a].try # 0 =>
            /\ attempt[a].value # NoChallenge
            /\ proof[a].popped = attempt[a].value

Caused(a) ==
    /\ attempt[a].why \in {"unknown", "mismatch"} => a \in disturbed
    /\ attempt[a].why = "replay" => attempt[a].try > 1

CauseOK(a) == ProgressOK(a) /\ PostOK(a) /\ ValueOK(a) /\ Caused(a)

CInv == \A a \in Attempts : CauseOK(a)

\* The records that the actions make of r, once more.
LEMMA MovedMore ==
    ASSUME NEW r \in Attempt, NEW at \in {"waiting", "answered", "returned"}
    PROVE  LET s == [r EXCEPT !.at = at] IN
           s.value = r.value /\ s.try = r.try /\ s.why = r.why
BY Zenon DEF Attempt

LEMMA FailedMore ==
    ASSUME NEW r \in Attempt, NEW why
    PROVE  LET s == [r EXCEPT !.at = "raised", !.why = why] IN
           s.why = why /\ s.value = r.value /\ s.try = r.try
BY Zenon DEF Attempt

LEMMA RaisedFacts ==
    ASSUME NEW a, attempt[a] \in Attempt,
           NEW why \in {"friends", "network", "replay", "unknown",
                        "expired", "mismatch", "denied"}
    PROVE  /\ Raised(a, why) \in Attempt /\ Raised(a, why).at = "raised"
           /\ Raised(a, why).step = attempt[a].step /\ Raised(a, why).why = why
           /\ Raised(a, why).try = attempt[a].try
<1> DEFINE r == attempt[a]
<1>1. r \in Attempt
    OBVIOUS
<1> HIDE DEF r
<1>2. LET s == [r EXCEPT !.at = "raised", !.why = why] IN
      s \in Attempt /\ s.at = "raised" /\ s.step = r.step
    BY <1>1, Failed, Zenon
<1>3. LET s == [r EXCEPT !.at = "raised", !.why = why] IN s.why = why /\ s.try = r.try
    BY <1>1, FailedMore, Zenon
<1>4. Raised(a, why) = [r EXCEPT !.at = "raised", !.why = why]
    BY DEF Raised, r
<1> HIDE DEF Raised
<1>q. QED
    BY <1>2, <1>3, <1>4, Zenon DEF r

LEMMA ChallengedMore ==
    ASSUME NEW r \in Attempt, NEW v \in Nat
    PROVE  LET s == [r EXCEPT !.at = "answered", !.value = v] IN
           s.value = v /\ s.try = r.try /\ s.why = r.why
BY Zenon DEF Attempt

LEMMA PostedMore ==
    ASSUME NEW r \in Attempt, NEW step \in Steps
    PROVE  LET s == [r EXCEPT !.at = "waiting", !.try = 1, !.step = step] IN
           s.step = step /\ s.try = 1 /\ s.value = r.value /\ s.why = r.why
BY Zenon DEF Attempt

LEMMA RepostedMore ==
    ASSUME NEW r \in Attempt
    PROVE  LET s == [r EXCEPT !.try = @ + 1] IN
           s.try = r.try + 1 /\ s.value = r.value /\ s.why = r.why
BY Zenon DEF Attempt

LEMMA BegunMore ==
    ASSUME NEW r \in Attempt, NEW x \in Agents, NEW y \in Agents
    PROVE  First(r, x, y).step = r.step /\ First(r, x, y).why = r.why
           /\ First(r, x, y).try = 1
BY Zenon DEF Attempt, First

\* A step that concerns other calls.
LEMMA Unconcerned ==
    ASSUME NEW b, CauseOK(b),
           attempt'[b] = attempt[b], proof'[b] = proof[b],
           \A s \in Steps : <<b, s>> \in marked' <=> <<b, s>> \in marked,
           \A s \in Steps, i \in 1 .. Retries + 1 :
               <<b, s, i>> \in wire' => <<b, s, i>> \in wire,
           attempt[b].step \in Steps, 1 \in 1 .. Retries + 1,
           disturbed \subseteq disturbed',
           UnderWay(b) /\ b \notin disturbed' =>
               pending'[attempt[b].to][attempt[b].from] =
               pending[attempt[b].to][attempt[b].from]
    PROVE  CauseOK(b)'
<1>1. ProgressOK(b)'
    BY DEF CauseOK, ProgressOK, UnderWay
<1>0. Caused(b)'
    BY DEF CauseOK, Caused
<1>2. PostOK(b)'
    BY DEF CauseOK, PostOK
<1>3. ValueOK(b)'
    BY DEF CauseOK, ValueOK, UnderWay, Expects, Steps
<1>q. QED
    BY <1>0, <1>1, <1>2, <1>3 DEF CauseOK

\* What holds of all attempts, whatever the action.
LEMMA Always ==
    ASSUME IInv
    PROVE  /\ 1 \in 1 .. Retries + 1
           /\ \A b \in Attempts :
                /\ attempt[b] \in Attempt
                /\ attempt[b].step \in Steps /\ attempt[b].try \in 0 .. Retries + 1
<1>1. 1 \in 1 .. Retries + 1
    BY HandshakeAssumption
<1>2. \A b \in Attempts : attempt[b] \in Attempt
    BY DEF IInv, TypeOK
<1>3. ASSUME NEW r \in Attempt PROVE r.step \in Steps /\ r.try \in 0 .. Retries + 1
    BY Zenon DEF Attempt
<1>q. QED
    BY <1>1, <1>2, <1>3

LEMMA StartCause ==
    ASSUME IInv, CInv, NEW a \in Attempts, NEW x \in Agents, NEW y \in Agents,
           NEW opened \in {"client", "file"}, Start(a, x, y, opened)
    PROVE  CInv'
<1>1. /\ attempt[a] \in Attempt /\ attempt[a].at = "idle"
      /\ attempt[a].step = "hello" /\ attempt[a].why = "none"
      /\ proof[a].try = 0
      /\ \A s \in Steps : /\ <<a, s>> \notin marked
                          /\ \A i \in 1 .. Retries + 1 : <<a, s, i>> \notin wire
    BY DEF IInv, TypeOK, CInv, CauseOK, ProgressOK, PostOK, Start
<1>2. UNCHANGED <<proof, marked, pending, disturbed>>
    BY DEF Start, server
<1>3. PICK new \in Attempt :
          /\ Becomes(a, new) /\ new.step = "hello"
          /\ \/ new.at = "raised" /\ new.why = "friends" /\ wire' = wire
             \/ /\ new.at = "waiting" /\ new.why = "none" /\ new.try = 1
                /\ wire' = wire \cup {<<a, "hello", 1>>}
    <2>1. CASE friends[x][opened][y].status = "accepted"
        <3>1. Becomes(a, Raised(a, "friends")) /\ wire' = wire
            BY <2>1 DEF Start
        <3>2. /\ Raised(a, "friends") \in Attempt /\ Raised(a, "friends").at = "raised"
              /\ Raised(a, "friends").step = "hello" /\ Raised(a, "friends").why = "friends"
            BY <1>1, RaisedFacts
        <3>q. QED
            BY <3>1, <3>2
    <2>2. CASE friends[x][opened][y].status # "accepted"
        <3>1. Becomes(a, First(attempt[a], x, y)) /\ wire' = wire \cup {<<a, "hello", 1>>}
            BY <2>2 DEF Start, First
        <3>2. 1 \in 0 .. Retries + 1
            BY HandshakeAssumption
        <3>3. LET new == First(attempt[a], x, y) IN
              new \in Attempt /\ new.at = "waiting" /\ new.why = "none" /\ new.step = "hello"
              /\ new.try = 1
            BY <1>1, <3>2, Begun, BegunMore
        <3>q. QED
            BY <3>1, <3>3
    <2>q. QED
        BY <2>1, <2>2
<1>4. attempt'[a] = new /\ \A b \in Attempts \ {a} : attempt'[b] = attempt[b]
    BY <1>3, BecomesType DEF IInv, TypeOK
<1>5. ASSUME NEW b \in Attempts \ {a} PROVE CauseOK(b)'
    BY <1>2, <1>3, <1>4, Unconcerned, Always DEF CInv
<1>6. CauseOK(a)'
    <2>0. ProgressOK(a)'
        BY <1>1, <1>2, <1>3, <1>4 DEF ProgressOK, UnderWay
    <2>1. Caused(a)'
        BY <1>3, <1>4 DEF Caused
    <2>2. PostOK(a)'
        BY <1>1, <1>2, <1>3, <1>4, Always DEF PostOK, UpTo, Steps
    <2>3. ValueOK(a)'
        BY <1>3, <1>4 DEF ValueOK, UnderWay, Expects
    <2>q. QED
        BY <2>0, <2>1, <2>2, <2>3 DEF CauseOK
<1>q. QED
    BY <1>5, <1>6 DEF CInv

LEMMA ProceedCause ==
    ASSUME IInv, CInv, NEW a \in Attempts, Proceed(a)
    PROVE  CInv'
<1> DEFINE step == Follows[attempt[a].step]
           new == [attempt[a] EXCEPT !.at = "waiting", !.try = 1, !.step = step]
<1>1. /\ attempt[a] \in Attempt /\ attempt[a].at = "answered"
      /\ attempt[a].step \in {"hello", "challenge"}
    BY Always DEF IInv, AttemptOK, Steps, Proceed
<1>2. /\ step \in Steps
      /\ attempt[a].step = "hello" => step = "challenge"
      /\ attempt[a].step = "challenge" => step = "friend_request"
    BY <1>1 DEF Follows, Steps
<1>3. /\ Becomes(a, new)
      /\ wire' = wire \cup {<<a, step, 1>>}
      /\ UNCHANGED <<proof, marked, pending, disturbed>>
    BY DEF Proceed, server
<1> HIDE DEF step
<1>4. 1 \in 0 .. Retries + 1
    BY HandshakeAssumption
<1>5. /\ new \in Attempt /\ new.at = "waiting" /\ new.step = step /\ new.try = 1
      /\ new.from = attempt[a].from /\ new.to = attempt[a].to
      /\ new.value = attempt[a].value /\ new.why = attempt[a].why
    <2>1. /\ new \in Attempt /\ new.at = "waiting"
          /\ new.from = attempt[a].from /\ new.to = attempt[a].to
        BY <1>1, <1>2, <1>4, Posted, Zenon
    <2>2. /\ new.step = step /\ new.try = 1
          /\ new.value = attempt[a].value /\ new.why = attempt[a].why
        BY <1>1, <1>2, PostedMore
    <2>q. QED
        BY <2>1, <2>2
<1> HIDE DEF new
<1>6. attempt'[a] = new /\ \A b \in Attempts \ {a} : attempt'[b] = attempt[b]
    BY <1>3, <1>5, BecomesType DEF IInv, TypeOK
<1>7. ASSUME NEW b \in Attempts \ {a} PROVE CauseOK(b)'
    BY <1>3, <1>6, Unconcerned, Always DEF CInv
<1>8. CauseOK(a)
    BY DEF CInv
<1>9. CauseOK(a)'
    <2>0. attempt[a].why = "none" /\ ProgressOK(a)'
        BY <1>1, <1>2, <1>3, <1>5, <1>6, <1>8 DEF CauseOK, ProgressOK, UnderWay
    <2>1. Caused(a)'
        BY <1>5, <1>6, <2>0 DEF Caused
    <2>2. <<a, step>> \notin marked
        BY <1>1, <1>2, <1>8 DEF CauseOK, PostOK, UpTo
    <2>3. PostOK(a)'
        BY <1>1, <1>2, <1>3, <1>5, <1>6, <1>8, <2>2 DEF CauseOK, PostOK, UpTo
    <2>4. ValueOK(a)'
        BY <1>1, <1>2, <1>3, <1>5, <1>6, <1>8
        DEF CauseOK, ProgressOK, ValueOK, UnderWay, Expects
    <2>q. QED
        BY <2>0, <2>1, <2>3, <2>4 DEF CauseOK
<1>q. QED
    BY <1>7, <1>9 DEF CInv

LEMMA RepostCause ==
    ASSUME IInv, CInv, NEW a \in Attempts, Repost(a)
    PROVE  CInv'
<1> DEFINE new == [attempt[a] EXCEPT !.try = @ + 1]
<1>1. /\ attempt[a] \in Attempt /\ attempt[a].at = "waiting"
      /\ attempt[a].try \in 0 .. Retries + 1
    BY Always DEF Repost
<1>2. attempt[a].try + 1 \in 0 .. Retries + 1
    BY <1>1, HandshakeAssumption DEF Repost
<1>3. /\ Becomes(a, new)
      /\ wire' = wire \cup {<<a, attempt[a].step, attempt[a].try + 1>>}
      /\ UNCHANGED <<proof, marked, pending, disturbed>>
    BY DEF Repost, server
<1>4. /\ new \in Attempt /\ new.at = "waiting" /\ new.step = attempt[a].step
      /\ new.from = attempt[a].from /\ new.to = attempt[a].to
      /\ new.value = attempt[a].value /\ new.why = attempt[a].why
      /\ new.try = attempt[a].try + 1
    BY <1>1, <1>2, Reposted, RepostedMore
<1> HIDE DEF new
<1>5. attempt'[a] = new /\ \A b \in Attempts \ {a} : attempt'[b] = attempt[b]
    BY <1>3, <1>4, BecomesType DEF IInv, TypeOK
<1>6. ASSUME NEW b \in Attempts \ {a} PROVE CauseOK(b)'
    BY <1>3, <1>5, Unconcerned, Always DEF CInv
<1>7. CauseOK(a) /\ attempt[a].try > 0
    BY <1>1 DEF CInv, CauseOK, ProgressOK, UnderWay
<1>8. CauseOK(a)'
    <2>0. attempt[a].why = "none" /\ ProgressOK(a)'
        BY <1>1, <1>3, <1>4, <1>5, <1>7 DEF CauseOK, ProgressOK, UnderWay
    <2>1. Caused(a)'
        BY <1>4, <1>5, <2>0 DEF Caused
    <2>2. PostOK(a)'
        BY <1>1, <1>3, <1>4, <1>5, <1>7, Always DEF CauseOK, PostOK, UpTo
    <2>3. ValueOK(a)'
        BY <1>1, <1>3, <1>4, <1>5, <1>7 DEF CauseOK, ValueOK, UnderWay, Expects
    <2>q. QED
        BY <2>0, <2>1, <2>2, <2>3 DEF CauseOK
<1>q. QED
    BY <1>6, <1>8 DEF CInv

LEMMA GiveUpCause ==
    ASSUME IInv, CInv, NEW a \in Attempts, GiveUp(a)
    PROVE  CInv'
<1> DEFINE new == Raised(a, "network")
<1>1. attempt[a] \in Attempt /\ attempt[a].at = "waiting"
    BY DEF IInv, TypeOK, GiveUp
<1>2. Becomes(a, new) /\ UNCHANGED <<wire, proof, marked, pending, disturbed>>
    BY DEF GiveUp, server
<1>3. /\ new \in Attempt /\ new.at = "raised" /\ new.step = attempt[a].step
      /\ new.why = "network" /\ new.try = attempt[a].try
    BY <1>1, RaisedFacts
<1> HIDE DEF new
<1>4. attempt'[a] = new /\ \A b \in Attempts \ {a} : attempt'[b] = attempt[b]
    BY <1>2, <1>3, BecomesType DEF IInv, TypeOK
<1>5. ASSUME NEW b \in Attempts \ {a} PROVE CauseOK(b)'
    BY <1>2, <1>4, Unconcerned, Always DEF CInv
<1>6. CauseOK(a)'
    <2>1. ProgressOK(a)'
        BY <1>1, <1>2, <1>3, <1>4 DEF CInv, CauseOK, ProgressOK, UnderWay
    <2>2. PostOK(a)'
        BY <1>1, <1>2, <1>3, <1>4 DEF CInv, CauseOK, PostOK
    <2>3. ValueOK(a)' /\ Caused(a)'
        BY <1>3, <1>4 DEF ValueOK, Caused, UnderWay
    <2>q. QED
        BY <2>1, <2>2, <2>3 DEF CauseOK
<1>q. QED
    BY <1>5, <1>6 DEF CInv

LEMMA AnswerCases ==
    ASSUME IInv, NEW a \in Attempts, NEW step, NEW i, NEW new \in Attempt,
           Answer(a, step, i, new)
    PROVE  /\ \A b \in Attempts \ {a} : attempt'[b] = attempt[b]
           /\ \/ attempt'[a] = attempt[a]
              \/ /\ attempt'[a] = new
                 /\ attempt[a].at = "waiting" /\ attempt[a].step = step
                 /\ attempt[a].try = i
<1>1. CASE UNCHANGED attempt
    BY <1>1
<1>2. CASE /\ attempt[a].at = "waiting" /\ attempt[a].step = step /\ attempt[a].try = i
           /\ Becomes(a, new)
    BY <1>2, BecomesType DEF IInv, TypeOK
<1>q. QED
    BY <1>1, <1>2 DEF Answer

LEMMA ReplayCause ==
    ASSUME IInv, CInv, NEW a \in Attempts, NEW step, NEW i, Replay(a, step, i)
    PROVE  CInv'
<1> DEFINE new == Raised(a, "replay")
<1>1. /\ <<a, step, i>> \in wire /\ <<a, step>> \in marked
      /\ wire' \subseteq wire /\ Answer(a, step, i, new)
      /\ UNCHANGED <<proof, marked, pending, disturbed>>
    BY DEF Replay, server
<1>2. attempt[a] \in Attempt /\ step \in Steps /\ i \in 1 .. Retries + 1
    BY <1>1, WireNamed
<1>3. /\ new \in Attempt /\ new.at = "raised" /\ new.step = attempt[a].step
      /\ new.why = "replay" /\ new.try = attempt[a].try
    BY <1>2, RaisedFacts
<1> HIDE DEF new
<1>4. /\ \A b \in Attempts \ {a} : attempt'[b] = attempt[b]
      /\ \/ attempt'[a] = attempt[a]
         \/ attempt'[a] = new /\ attempt[a].step = step /\ attempt[a].try = i
    BY <1>1, <1>3, AnswerCases
<1>5. ASSUME NEW b \in Attempts, attempt'[b] = attempt[b] PROVE CauseOK(b)'
    BY <1>1, <1>5, Unconcerned, Always DEF CInv
<1>6. CASE attempt'[a] = new /\ attempt[a].step = step /\ attempt[a].try = i
    <2>1. CauseOK(a)
        BY DEF CInv
    <2>2. i > 1
        <3>1. i = 1 => attempt[a].try > 1
            BY <1>1, <1>6, <2>1 DEF CauseOK, PostOK
        <3>q. QED
            BY <1>2, <1>6, <3>1
    <2>3. ProgressOK(a)'
        BY <1>1, <1>3, <1>6, <2>1 DEF CauseOK, ProgressOK, UnderWay
    <2>4. PostOK(a)'
        BY <1>1, <1>3, <1>6, <2>1 DEF CauseOK, PostOK
    <2>5. ValueOK(a)' /\ Caused(a)'
        BY <1>3, <1>6, <2>2 DEF ValueOK, Caused, UnderWay
    <2>q. QED
        BY <1>4, <1>5, <2>3, <2>4, <2>5 DEF CauseOK, CInv
<1>q. QED
    BY <1>4, <1>5, <1>6 DEF CInv

\* A message of a is handled: others are disturbed, or do not share its challenge.
LEMMA OthersApart ==
    ASSUME IInv, CInv, NEW a \in Attempts, NEW s \in Steps, NEW i, NEW challenge,
           Receive(a, s, i), Named(a),
           \A b \in Attempts \ {a} : attempt'[b] = attempt[b] /\ proof'[b] = proof[b],
           \/ UNCHANGED <<pending, disturbed>>
           \/ /\ pending' = [pending EXCEPT ![attempt[a].to][attempt[a].from] = challenge]
              /\ Disturb(a)
    PROVE  \A b \in Attempts \ {a} : CauseOK(b)'
<1> SUFFICES ASSUME NEW b \in Attempts \ {a} PROVE CauseOK(b)'
    OBVIOUS
<1>1. disturbed \subseteq disturbed'
    BY DEF Disturb
<1>2. UnderWay(b) /\ b \notin disturbed' =>
          pending'[attempt[b].to][attempt[b].from] = pending[attempt[b].to][attempt[b].from]
    <2>1. CASE UNCHANGED <<pending, disturbed>>
        BY <2>1
    <2>2. CASE /\ pending' = [pending EXCEPT ![attempt[a].to][attempt[a].from] = challenge]
               /\ Disturb(a)
        <3> SUFFICES ASSUME UnderWay(b), b \notin disturbed'
                     PROVE  pending'[attempt[b].to][attempt[b].from] =
                            pending[attempt[b].to][attempt[b].from]
            OBVIOUS
        <3>1. ~SamePair(a, b)
            BY <2>2 DEF Disturb
        <3>2. Named(b)
            BY DEF IInv, AttemptOK
        <3>3. attempt[b].to # attempt[a].to \/ attempt[b].from # attempt[a].from
            BY <3>1 DEF SamePair
        <3>q. QED
            BY <2>2, <3>2, <3>3 DEF IInv, TypeOK, Named
    <2>q. QED
        BY <2>1, <2>2
<1>3. /\ \A t \in Steps : <<b, t>> \in marked' <=> <<b, t>> \in marked
      /\ \A t \in Steps, j \in 1 .. Retries + 1 :
             <<b, t, j>> \in wire' => <<b, t, j>> \in wire
    BY DEF Receive
<1>q. QED
    BY <1>1, <1>2, <1>3, Unconcerned, Always DEF CInv

LEMMA HelloCause ==
    ASSUME IInv, CInv, NEW a \in Attempts, NEW i, Hello(a, i)
    PROVE  CInv'
<1> DEFINE new == [attempt[a] EXCEPT !.at = "answered", !.value = minted']
<1>1. <<a, "hello", i>> \in wire
    BY DEF Hello, Receive
<1>2. /\ attempt[a] \in Attempt /\ Named(a) /\ i \in 1 .. Retries + 1
      /\ attempt[a].try \in 0 .. Retries + 1
    BY <1>1, WireNamed, Always
<1>3. minted' \in Nat /\ minted' # NoChallenge
    BY DEF IInv, TypeOK, Hello, NoChallenge
<1>4. /\ Receive(a, "hello", i) /\ Disturb(a) /\ Answer(a, "hello", i, new)
      /\ pending' = [pending EXCEPT ![attempt[a].to][attempt[a].from] = minted']
      /\ UNCHANGED proof
    BY DEF Hello
<1>5. /\ new \in Attempt /\ new.at = "answered" /\ new.step = attempt[a].step
      /\ new.from = attempt[a].from /\ new.to = attempt[a].to
    BY <1>2, <1>3, Challenged, Zenon
<1>6. new.value = minted' /\ new.try = attempt[a].try /\ new.why = attempt[a].why
    BY <1>2, <1>3, ChallengedMore, Zenon
<1> HIDE DEF new
<1>7. /\ \A b \in Attempts \ {a} : attempt'[b] = attempt[b]
      /\ \/ attempt'[a] = attempt[a]
         \/ /\ attempt'[a] = new
            /\ attempt[a].at = "waiting" /\ attempt[a].step = "hello"
    BY <1>4, <1>5, AnswerCases
<1>8. \A b \in Attempts \ {a} : CauseOK(b)'
    BY <1>2, <1>4, <1>7, OthersApart DEF Steps
<1>9. CauseOK(a)
    BY DEF CInv
<1>10. /\ <<a, "hello">> \notin marked /\ marked' = marked \cup {<<a, "hello">>}
       /\ wire' = wire \ {<<a, "hello", i>>}
    BY <1>4 DEF Receive
<1>11. disturbed \subseteq disturbed' /\ pending'[attempt[a].to][attempt[a].from] = minted'
    BY <1>2, <1>4 DEF Disturb, IInv, TypeOK, Named
<1>12. attempt[a].at # "idle" /\ (attempt[a].step = "hello" => i <= attempt[a].try)
    BY <1>1, <1>2, <1>9 DEF CauseOK, PostOK, Steps
<1>13. PostOK(a)'
    <2>1. /\ attempt'[a].at # "idle" /\ attempt'[a].step = attempt[a].step
          /\ attempt'[a].try = attempt[a].try
        BY <1>5, <1>6, <1>7, <1>12
    <2>q. QED
        BY <1>2, <1>9, <1>10, <1>12, <2>1 DEF CauseOK, PostOK, UpTo
<1>14. ProgressOK(a)'
    BY <1>4, <1>5, <1>6, <1>7, <1>9 DEF CauseOK, ProgressOK, UnderWay
<1>15. Caused(a)'
    <2>1. attempt'[a].why = attempt[a].why /\ attempt'[a].try = attempt[a].try
        BY <1>6, <1>7
    <2>q. QED
        BY <1>9, <1>11, <2>1 DEF CauseOK, Caused
<1>16. ValueOK(a)'
    <2>1. CASE attempt'[a] = attempt[a]
        BY <1>9, <1>10, <1>11, <2>1 DEF CauseOK, ValueOK, UnderWay, Expects
    <2>2. CASE attempt'[a] = new /\ attempt[a].at = "waiting" /\ attempt[a].step = "hello"
        BY <1>3, <1>5, <1>6, <1>10, <1>11, <2>2 DEF ValueOK, UnderWay, Expects
    <2>q. QED
        BY <1>7, <2>1, <2>2
<1>q. QED
    BY <1>8, <1>13, <1>14, <1>15, <1>16 DEF CInv, CauseOK

LEMMA PopCause ==
    ASSUME IInv, CInv, NEW a \in Attempts, NEW i, Pop(a, i)
    PROVE  CInv'
<1>1. <<a, "challenge", i>> \in wire
    BY DEF Pop, Receive
<1>2. /\ Named(a) /\ i \in 1 .. Retries + 1
      /\ attempt[a].try \in 0 .. Retries + 1
    BY <1>1, WireNamed, Always
<1>3. /\ Receive(a, "challenge", i) /\ Disturb(a) /\ UNCHANGED attempt
      /\ pending' = [pending EXCEPT ![attempt[a].to][attempt[a].from] = NoChallenge]
      /\ proof' = [proof EXCEPT ![a] =
             [try |-> i, popped |-> pending[attempt[a].to][attempt[a].from]]]
    BY DEF Pop
<1>4. /\ proof'[a].popped = pending[attempt[a].to][attempt[a].from]
      /\ \A b \in Attempts \ {a} : proof'[b] = proof[b]
    BY <1>3 DEF IInv, TypeOK
<1>5. \A b \in Attempts \ {a} : CauseOK(b)'
    BY <1>2, <1>3, <1>4, OthersApart DEF Steps
<1>6. CauseOK(a)
    BY DEF CInv
<1>7. /\ <<a, "challenge">> \notin marked /\ marked' = marked \cup {<<a, "challenge">>}
      /\ wire' = wire \ {<<a, "challenge", i>>}
    BY <1>3 DEF Receive
<1>8. disturbed \subseteq disturbed'
    BY <1>3 DEF Disturb
<1>9. /\ attempt[a].at # "idle" /\ attempt[a].step \in {"challenge", "friend_request"}
      /\ attempt[a].step = "challenge" => i <= attempt[a].try
    BY <1>1, <1>2, <1>6 DEF CauseOK, PostOK, UpTo, Steps
<1>10. PostOK(a)'
    BY <1>2, <1>3, <1>6, <1>7, <1>9 DEF CauseOK, PostOK, UpTo
<1>11. ProgressOK(a)'
    BY <1>3, <1>6, <1>9 DEF CauseOK, ProgressOK, UnderWay
<1>12. Caused(a)'
    BY <1>3, <1>6, <1>8 DEF CauseOK, Caused
<1>13. ValueOK(a)'
    BY <1>3, <1>4, <1>6, <1>7, <1>8, <1>9 DEF CauseOK, ValueOK, UnderWay, Expects
<1>q. QED
    BY <1>5, <1>10, <1>11, <1>12, <1>13 DEF CInv, CauseOK

\* The verdict is bad only if the challenge was replaced or forgotten.
LEMMA ProveCause ==
    ASSUME IInv, CInv, NEW a \in Attempts, NEW verdict \in Verdicts(a), Prove(a, verdict)
    PROVE  CInv'
<1> DEFINE good == [attempt[a] EXCEPT !.at = "answered"]
           bad == Raised(a, verdict)
           new == IF verdict = "verified" THEN good ELSE bad
<1>1. /\ attempt[a] \in Attempt /\ proof[a].try # 0
      /\ proof' = [proof EXCEPT ![a] = NoProof]
      /\ UNCHANGED <<wire, pending, marked, disturbed>>
    BY DEF IInv, TypeOK, Prove
<1>2. verdict # "verified" =>
          verdict \in {"friends", "network", "replay", "unknown",
                       "expired", "mismatch", "denied"}
    BY DEF Verdicts
<1>3. /\ new \in Attempt /\ new.step = attempt[a].step /\ new.try = attempt[a].try
      /\ \/ new.at = "answered" /\ new.why = attempt[a].why
         \/ new.at = "raised" /\ new.why = verdict
    <2>1. CASE verdict = "verified"
        <3>1. good \in Attempt /\ good.at = "answered" /\ good.step = attempt[a].step
            BY <1>1, Moved, Zenon
        <3>2. good.why = attempt[a].why /\ good.try = attempt[a].try
            BY <1>1, MovedMore, Zenon
        <3> HIDE DEF good
        <3>q. QED
            BY <2>1, <3>1, <3>2
    <2>2. CASE verdict # "verified"
        <3>1. /\ bad \in Attempt /\ bad.at = "raised" /\ bad.step = attempt[a].step
              /\ bad.why = verdict /\ bad.try = attempt[a].try
            BY <1>1, <1>2, <2>2, RaisedFacts
        <3> HIDE DEF bad
        <3>q. QED
            BY <2>2, <3>1
    <2>q. QED
        BY <2>1, <2>2
<1>4. Answer(a, "challenge", proof[a].try, new)
    BY DEF Prove
<1> HIDE DEF new
<1>5. /\ \A b \in Attempts \ {a} : attempt'[b] = attempt[b]
      /\ \/ attempt'[a] = attempt[a]
         \/ /\ attempt'[a] = new
            /\ attempt[a].at = "waiting" /\ attempt[a].step = "challenge"
    BY <1>3, <1>4, AnswerCases
<1>6. proof'[a].try = 0 /\ \A b \in Attempts \ {a} : proof'[b] = proof[b]
    BY <1>1 DEF IInv, TypeOK, NoProof
<1>7. ASSUME NEW b \in Attempts \ {a} PROVE CauseOK(b)'
    BY <1>1, <1>5, <1>6, Unconcerned, Always DEF CInv
<1>8. CauseOK(a)
    BY DEF CInv
<1>9. ProgressOK(a)'
    BY <1>3, <1>5, <1>6, <1>8 DEF CauseOK, ProgressOK, UnderWay
<1>10. PostOK(a)'
    <2>1. attempt'[a].step = attempt[a].step /\ attempt'[a].try = attempt[a].try
        BY <1>3, <1>5
    <2>2. attempt[a].at # "idle" => attempt'[a].at # "idle"
        BY <1>3, <1>5
    <2>q. QED
        BY <1>1, <1>8, <2>1, <2>2 DEF CauseOK, PostOK
<1>11. ValueOK(a)'
    BY <1>1, <1>3, <1>5, <1>6, <1>8 DEF CauseOK, ValueOK, UnderWay, Expects
<1>12. Caused(a)'
    <2>1. CASE attempt'[a] = attempt[a]
        BY <1>1, <1>8, <2>1 DEF CauseOK, Caused
    <2>2. CASE attempt'[a] = new /\ attempt[a].at = "waiting" /\ attempt[a].step = "challenge"
        <3>1. a \notin disturbed => verdict \in {"verified", "expired"}
            BY <1>1, <1>8, <2>2 DEF CauseOK, ValueOK, UnderWay, Verdicts
        <3>2. attempt[a].why = "none"
            BY <1>8, <2>2 DEF CauseOK, ProgressOK
        <3>3. verdict # "replay"
            BY DEF Verdicts
        <3>q. QED
            BY <1>1, <1>3, <2>2, <3>1, <3>2, <3>3 DEF Caused
    <2>q. QED
        BY <1>5, <2>1, <2>2
<1>q. QED
    BY <1>7, <1>9, <1>10, <1>11, <1>12 DEF CInv, CauseOK

LEMMA RequestCause ==
    ASSUME IInv, CInv, NEW a \in Attempts, NEW i,
           NEW decision \in {"deny", "auto", "queue"}, Request(a, i, decision)
    PROVE  CInv'
<1> DEFINE new == IF decision = "deny" THEN Raised(a, "denied")
                  ELSE [attempt[a] EXCEPT !.at = "returned"]
<1>1. <<a, "friend_request", i>> \in wire
    BY DEF Request, Receive
<1>2. /\ attempt[a] \in Attempt /\ Named(a) /\ i \in 1 .. Retries + 1
      /\ attempt[a].try \in 0 .. Retries + 1
    BY <1>1, WireNamed, Always
<1>3. /\ Receive(a, "friend_request", i) /\ Answer(a, "friend_request", i, new)
      /\ UNCHANGED <<pending, proof, disturbed>>
    BY DEF Request
<1>4. /\ new \in Attempt /\ new.step = attempt[a].step /\ new.try = attempt[a].try
      /\ \/ new.at = "returned" /\ new.why = attempt[a].why
         \/ new.at = "raised" /\ new.why = "denied"
    <2>1. CASE decision = "deny"
        BY <1>2, <2>1, RaisedFacts
    <2>2. CASE decision # "deny"
        <3> DEFINE served == [attempt[a] EXCEPT !.at = "returned"]
        <3>1. served \in Attempt /\ served.at = "returned" /\ served.step = attempt[a].step
            BY <1>2, Moved, Zenon
        <3>2. served.why = attempt[a].why /\ served.try = attempt[a].try
            BY <1>2, MovedMore, Zenon
        <3> HIDE DEF served
        <3>3. new = served
            BY <2>2 DEF served
        <3>q. QED
            BY <3>1, <3>2, <3>3
    <2>q. QED
        BY <2>1, <2>2
<1> HIDE DEF new
<1>5. /\ \A b \in Attempts \ {a} : attempt'[b] = attempt[b]
      /\ \/ attempt'[a] = attempt[a]
         \/ attempt'[a] = new /\ attempt[a].at = "waiting"
    BY <1>3, <1>4, AnswerCases
<1>6. \A b \in Attempts \ {a} : CauseOK(b)'
    BY <1>2, <1>3, <1>5, OthersApart DEF Steps
<1>7. CauseOK(a)
    BY DEF CInv
<1>8. /\ marked' = marked \cup {<<a, "friend_request">>}
      /\ wire' = wire \ {<<a, "friend_request", i>>}
    BY <1>3 DEF Receive
<1>9. /\ attempt[a].at # "idle" /\ attempt[a].step = "friend_request"
      /\ i <= attempt[a].try
    BY <1>1, <1>2, <1>7 DEF CauseOK, PostOK, UpTo, Steps
<1>10. /\ attempt'[a].at # "idle" /\ attempt'[a].step = attempt[a].step
       /\ attempt'[a].try = attempt[a].try
    BY <1>4, <1>5, <1>9
<1>11. PostOK(a)'
    BY <1>2, <1>7, <1>8, <1>9, <1>10 DEF CauseOK, PostOK, UpTo
<1>12. ProgressOK(a)'
    BY <1>3, <1>4, <1>5, <1>7 DEF CauseOK, ProgressOK, UnderWay
<1>13. Caused(a)'
    <2>1. attempt[a].at = "waiting" => attempt[a].why = "none"
        BY <1>7 DEF CauseOK, ProgressOK
    <2>q. QED
        BY <1>3, <1>4, <1>5, <1>7, <2>1 DEF CauseOK, Caused
<1>14. ValueOK(a)'
    BY <1>3, <1>4, <1>5, <1>7, <1>8, <1>9 DEF CauseOK, ValueOK, UnderWay, Expects
<1>q. QED
    BY <1>6, <1>11, <1>12, <1>13, <1>14 DEF CInv, CauseOK

\* Whoever was under way is disturbed from now on.
LEMMA RestartCause ==
    ASSUME IInv, CInv, NEW x \in Agents, Restart(x)
    PROVE  CInv'
<1> SUFFICES ASSUME NEW b \in Attempts PROVE CauseOK(b)'
    BY DEF CInv
<1>1. /\ UNCHANGED <<attempt, wire>>
      /\ marked' = {m \in marked : attempt[m[1]].to # x}
      /\ pending' = [pending EXCEPT ![x] = [y \in Agents |-> NoChallenge]]
      /\ proof' = [a \in Attempts |-> IF attempt[a].to = x THEN NoProof ELSE proof[a]]
      /\ disturbed' = disturbed \cup {a \in Attempts : attempt[a].to = x /\ UnderWay(a)}
    BY DEF Restart
<1>2. CauseOK(b)
    BY DEF CInv
<1>3. CASE attempt[b].to = x
    <2>1. ProgressOK(b)'
        BY <1>1, <1>2, <1>3 DEF CauseOK, ProgressOK, UnderWay, NoProof
    <2>2. PostOK(b)'
        BY <1>1, <1>2 DEF CauseOK, PostOK
    <2>3. ValueOK(b)'
        BY <1>1, <1>3 DEF ValueOK, UnderWay
    <2>4. Caused(b)'
        BY <1>1, <1>2 DEF CauseOK, Caused
    <2>q. QED
        BY <2>1, <2>2, <2>3, <2>4 DEF CauseOK
<1>4. CASE attempt[b].to # x
    <2>1. proof'[b] = proof[b] /\ disturbed \subseteq disturbed'
        BY <1>1, <1>4
    <2>2. \A s \in Steps : <<b, s>> \in marked' <=> <<b, s>> \in marked
        BY <1>1, <1>4
    <2>3. UnderWay(b) => pending'[attempt[b].to] = pending[attempt[b].to]
        BY <1>1, <1>4 DEF IInv, TypeOK, AttemptOK, Named
    <2>q. QED
        BY <1>1, <1>2, <2>1, <2>2, <2>3, Unconcerned, Always
<1>q. QED
    BY <1>3, <1>4

LEMMA UnchangedCause ==
    ASSUME CInv, UNCHANGED <<attempt, wire, server, disturbed>>
    PROVE  CInv'
<1> SUFFICES ASSUME NEW b \in Attempts PROVE CauseOK(b)'
    BY DEF CInv
<1>1. CauseOK(b)
    BY DEF CInv
<1>2. ProgressOK(b)' /\ Caused(b)'
    BY <1>1 DEF CauseOK, ProgressOK, Caused, UnderWay, server
<1>3. PostOK(b)'
    BY <1>1 DEF CauseOK, PostOK, server
<1>4. ValueOK(b)'
    BY <1>1 DEF CauseOK, ValueOK, UnderWay, Expects, server
<1>q. QED
    BY <1>2, <1>3, <1>4 DEF CauseOK

LEMMA InitialCause == Init => CInv
<1> SUFFICES ASSUME Init, NEW a \in Attempts PROVE CauseOK(a)
    BY DEF CInv
<1>1. /\ attempt[a].at = "idle" /\ attempt[a].step = "hello" /\ attempt[a].why = "none"
      /\ proof[a].try = 0 /\ wire = {} /\ marked = {}
    BY DEF Init, Idle, NoProof
<1>q. QED
    BY <1>1 DEF CauseOK, ProgressOK, PostOK, ValueOK, Caused, UnderWay

LEMMA InductiveCause == IInv /\ CInv /\ [Next]_vars => CInv'
<1> SUFFICES ASSUME IInv, CInv, [Next]_vars PROVE CInv'
    OBVIOUS
<1>1. ASSUME NEW a \in Attempts, Client(a) PROVE CInv'
    BY <1>1, StartCause, ProceedCause, RepostCause, GiveUpCause DEF Client
<1>2. ASSUME NEW a \in Attempts, Serve(a) PROVE CInv'
    <2>1. ASSUME NEW verdict \in Verdicts(a), Prove(a, verdict) PROVE CInv'
        BY <2>1, ProveCause
    <2>2. ASSUME NEW i \in 1 .. Retries + 1, Hello(a, i) PROVE CInv'
        BY <2>2, HelloCause
    <2>3. ASSUME NEW i \in 1 .. Retries + 1, Pop(a, i) PROVE CInv'
        BY <2>3, PopCause
    <2>4. ASSUME NEW i \in 1 .. Retries + 1,
                 NEW decision \in {"deny", "auto", "queue"}, Request(a, i, decision)
          PROVE  CInv'
        BY <2>4, RequestCause
    <2>5. ASSUME NEW i \in 1 .. Retries + 1, NEW step \in Steps, Replay(a, step, i)
          PROVE  CInv'
        BY <2>5, ReplayCause
    <2>q. QED
        BY <1>2, <2>1, <2>2, <2>3, <2>4, <2>5 DEF Serve
<1>3. ASSUME NEW x \in Agents, NEW y \in Agents, Owner(x, y) \/ Notify(x, y) \/ Volunteer(x, y)
      PROVE  CInv'
    BY <1>3, UnchangedCause DEF Owner, Approve, Remove, Notify, Volunteer
<1>4. ASSUME NEW x \in Agents, Restart(x) PROVE CInv'
    BY <1>4, RestartCause
<1>5. CASE UNCHANGED vars
    BY <1>5, UnchangedCause DEF vars
<1>q. QED
    BY <1>1, <1>2, <1>3, <1>4, <1>5 DEF Next

\* start_friendship fails only for a reason: a challenge is lost only to a restart
\* or to another call of the same pair, and a replay is found only of what was
\* posted twice.
THEOREM FailuresCaused == Spec => []FailsForCause
<1>1. CInv => FailsForCause
    BY DEF CInv, CauseOK, Caused, FailsForCause
<1>2. Spec => [](IInv /\ CInv)
    BY Initial, Inductive, InitialCause, InductiveCause, PTL DEF Spec
<1>q. QED
    BY <1>1, <1>2, PTL

=============================================================================
