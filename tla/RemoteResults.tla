---------------------------- MODULE RemoteResults ----------------------------
(***************************************************************************)
(* What delegation promises the agent that delegates, with no messages, no *)
(* registries and no threads: a request is executed at most once for as    *)
(* long as the executing agent remembers it; every execution has one       *)
(* result; what the delegating agent knows, and what a call returns as     *)
(* final, is that result, and it is never taken back.                      *)
(***************************************************************************)

CONSTANTS
    Requests,   \* the requests that may be delegated
    Jobs,       \* the executions
    Results,    \* the ways an execution may end
    NoRequest,  \* request of an execution that has not begun
    NoResult    \* not ended, not known, not returned

VARIABLES
    taken,      \* the requests that the executing agent remembers
    of,         \* of[j]: the request that execution j serves
    result,     \* result[j]: how j ended
    known,      \* known[j]: what the delegating agent knows of result[j]
    returned    \* returned[r]: the final result that the call returned

resultVars == <<taken, of, result, known, returned>>

Init ==
    /\ taken = {}
    /\ of = [j \in Jobs |-> NoRequest]
    /\ result = [j \in Jobs |-> NoResult]
    /\ known = [j \in Jobs |-> NoResult]
    /\ returned = [r \in Requests |-> NoResult]

Execute(r, j) ==
    /\ r \notin taken
    /\ of[j] = NoRequest
    /\ taken' = taken \cup {r}
    /\ of' = [of EXCEPT ![j] = r]
    /\ UNCHANGED <<result, known, returned>>

Dismiss(r) ==
    /\ taken' = taken \cup {r}
    /\ UNCHANGED <<of, result, known, returned>>

Forget ==
    /\ taken' = {}
    /\ UNCHANGED <<of, result, known, returned>>

End(j, how) ==
    /\ of[j] # NoRequest
    /\ result[j] = NoResult
    /\ result' = [result EXCEPT ![j] = how]
    /\ UNCHANGED <<taken, of, known, returned>>

Learn(j) ==
    /\ result[j] # NoResult
    /\ known' = [known EXCEPT ![j] = result[j]]
    /\ UNCHANGED <<taken, of, result, returned>>

Return(r, j) ==
    /\ of[j] = r
    /\ known[j] # NoResult
    /\ returned[r] = NoResult
    /\ returned' = [returned EXCEPT ![r] = known[j]]
    /\ UNCHANGED <<taken, of, result, known>>

Next ==
    \/ \E r \in Requests : Dismiss(r) \/ (\E j \in Jobs : Execute(r, j) \/ Return(r, j))
    \/ \E j \in Jobs : Learn(j) \/ (\E how \in Results : End(j, how))
    \/ Forget

Spec == Init /\ [][Next]_resultVars

\* What is known of an execution is its result.
KnownIsResult ==
    \A j \in Jobs : known[j] # NoResult => known[j] = result[j]

\* What may never change.
Stays ==
    /\ \A j \in Jobs :
        /\ result[j] # NoResult => result'[j] = result[j]
        /\ known[j] # NoResult => known'[j] = known[j]
    /\ \A r \in Requests : returned[r] # NoResult => returned'[r] = returned[r]

\* A result, what is known of it and what was returned stay as they are.
Irrevocable == [][Stays]_resultVars

=============================================================================
