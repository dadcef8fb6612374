---------------------------- MODULE AccessControl ----------------------------
(***************************************************************************)
(* What the friendship machinery promises its owner, with none of the      *)
(* machinery: a peer is allowed the actions that somebody in charge (the   *)
(* owner or the owner's policy) granted it, a revocation takes them all    *)
(* away, and a request runs only if its action was allowed at some moment  *)
(* since the request was taken up.                                         *)
(***************************************************************************)

CONSTANTS
    Peers,      \* the remote agents
    Requests,   \* the slots in which a request can be under way
    Actions,    \* the actions a request can ask for
    NoPeer,     \* peer of an empty slot
    NoAction    \* action of an empty slot

VARIABLES
    allowed,    \* allowed[p]: the actions granted to p and not revoked
    request     \* request[r]: the request in slot r

accessVars == <<allowed, request>>

NoRequest == [state |-> "none", peer |-> NoPeer, action |-> NoAction, may |-> {}]

Request ==
    [state : {"none", "open", "running"}, peer : Peers \cup {NoPeer},
     action : Actions \cup {NoAction}, may : SUBSET Actions]

AccessTypeOK ==
    /\ allowed \in [Peers -> SUBSET Actions]
    /\ request \in [Requests -> Request]

Init ==
    /\ allowed = [p \in Peers |-> {}]
    /\ request = [r \in Requests |-> NoRequest]

Allowing(p, grant) ==
    [r \in Requests |->
        IF request[r].state # "none" /\ request[r].peer = p
        THEN [request[r] EXCEPT !.may = @ \cup grant]
        ELSE request[r]]

\* A grant replaces what was allowed, or adds to it.
Grant(p, grant) ==
    /\ \E kept \in {{}, allowed[p]} :
           allowed' = [allowed EXCEPT ![p] = kept \cup grant]
    /\ request' = Allowing(p, grant)

Revoke(p) ==
    /\ allowed' = [allowed EXCEPT ![p] = {}]
    /\ UNCHANGED request

Open(r, p, a) ==
    /\ request[r] = NoRequest
    /\ request' = [request EXCEPT ![r] =
                      [state |-> "open", peer |-> p, action |-> a, may |-> allowed[p]]]
    /\ UNCHANGED allowed

Run(r) ==
    /\ request[r].state = "open"
    /\ request[r].action \in request[r].may
    /\ request' = [request EXCEPT ![r].state = "running"]
    /\ UNCHANGED allowed

Close(r) ==
    /\ request' = [request EXCEPT ![r] = NoRequest]
    /\ UNCHANGED allowed

Next ==
    \/ \E p \in Peers, grant \in SUBSET Actions : Grant(p, grant)
    \/ \E p \in Peers : Revoke(p)
    \/ \E r \in Requests, p \in Peers, a \in Actions : Open(r, p, a)
    \/ \E r \in Requests : Run(r) \/ Close(r)

Spec == Init /\ [][Next]_accessVars

\* Nothing runs that was not allowed at some moment of the request's life.
OnlyAllowedRuns ==
    \A r \in Requests :
        request[r].state = "running" => request[r].action \in request[r].may

=============================================================================
