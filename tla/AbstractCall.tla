---------------------------- MODULE AbstractCall ----------------------------
(***************************************************************************)
(* What the connection promises its callers (spec 4.2-4.4), without the    *)
(* steps it takes to keep it.  Each caller thread makes calls one at a     *)
(* time; a call begins, completes with exactly one outcome class (success, *)
(* an API error, or an error), and returns.  The connection holds one      *)
(* session token.  While some call is in flight the server may issue a     *)
(* new key, the token may be cleared, and an empty token may adopt the     *)
(* newest key the server issued; a token is never replaced by another     *)
(* without being cleared first, and never goes back to an older key.       *)
(*                                                                         *)
(* Paginator and Sdk take a call as this atomic outcome; Connection        *)
(* implements this specification under the mapping in Connection.tla.     *)
(***************************************************************************)
EXTENDS Naturals

CONSTANTS Threads, MaxKeys, MaxCalls

NoToken == 0
Outcomes == {"ok", "apierr", "err"}

VARIABLES
    token,      \* the session token, NoToken when empty
    issued,     \* the newest key the server issued, 0 before the first
    call,       \* per thread: "idle", "busy" or "done"
    result,     \* per thread: the outcome of its completed call, or "none"
    calls       \* per thread: calls begun

vars == <<token, issued, call, result, calls>>

Init ==
    /\ token = NoToken
    /\ issued = 0
    /\ call = [t \in Threads |-> "idle"]
    /\ result = [t \in Threads |-> "none"]
    /\ calls = [t \in Threads |-> 0]

Begin(t) ==
    /\ call[t] = "idle"
    /\ calls[t] < MaxCalls
    /\ call' = [call EXCEPT ![t] = "busy"]
    /\ calls' = [calls EXCEPT ![t] = @ + 1]
    /\ UNCHANGED <<token, issued, result>>

Complete(t, o) ==
    /\ call[t] = "busy"
    /\ call' = [call EXCEPT ![t] = "done"]
    /\ result' = [result EXCEPT ![t] = o]
    /\ UNCHANGED <<token, issued, calls>>

Return(t) ==
    /\ call[t] = "done"
    /\ call' = [call EXCEPT ![t] = "idle"]
    /\ result' = [result EXCEPT ![t] = "none"]
    /\ UNCHANGED <<token, issued, calls>>

\* A login on behalf of t's call: the server issues a key.  Logins happen
\* only while the token is empty.
Issue(t) ==
    /\ call[t] = "busy"
    /\ token = NoToken
    /\ issued < MaxKeys
    /\ issued' = issued + 1
    /\ UNCHANGED <<token, call, result, calls>>

\* The empty token takes the newest key.
Adopt(t) ==
    /\ call[t] = "busy"
    /\ token = NoToken
    /\ issued # 0
    /\ token' = issued
    /\ UNCHANGED <<issued, call, result, calls>>

\* The token is cleared (Logout, or a refused login).
Clear(t) ==
    /\ call[t] = "busy"
    /\ token' = NoToken
    /\ UNCHANGED <<issued, call, result, calls>>

Next ==
    \E t \in Threads :
        \/ Begin(t) \/ Return(t) \/ Issue(t) \/ Adopt(t) \/ Clear(t)
        \/ \E o \in Outcomes : Complete(t, o)

Spec == Init /\ [][Next]_vars
=============================================================================
