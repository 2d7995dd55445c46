----------------------------- MODULE Connection -----------------------------
(***************************************************************************)
(* The request-execution core of the Datera Go SDK: ApiConnection in       *)
(* src/unnamed/part_000 (connection.go).  Several caller threads share one *)
(* connection.  Each thread runs calls of doWithAuth (Get, Put, Post,      *)
(* Delete, the first page of GetList); a call may run Login, the 401       *)
(* re-authentication and replay of do, and the 503/refused retry loop.     *)
(* The session token apikey is guarded by the RWMutex c.m, modelled by     *)
(* its writer `owner`: a shared-mode read (RLock) is one atomic step       *)
(* enabled when no writer holds the lock.                                  *)
(*                                                                         *)
(* do and retry are nested: a call has a "data" frame and, while Login     *)
(* runs, a "login" frame above it.  Each frame records the retry flag of   *)
(* the do currently running in it, whether it is inside retry's loop, the  *)
(* loop's start time t1 and backoff, and the result of the last do.        *)
(*                                                                         *)
(* The server is the environment: it issues session keys on a successful   *)
(* login, answers 401 to a request whose token it does not hold, and may   *)
(* expire a session at any time.                                           *)
(***************************************************************************)
EXTENDS Integers

CONSTANTS
    Threads,        \* caller goroutines sharing the connection
    NoThread,       \* the lock has no writer
    MaxKeys,        \* session keys the server issues in a behaviour
    MaxCalls,       \* calls each thread makes
    RetryTimeout,   \* RetryTimeout (seconds), scaled down
    AttemptTime,    \* whole seconds one HTTP attempt may take
    DataReplies,    \* replies to a request carrying a valid session
    LoginReplies    \* replies to PUT /login

\* Replies of the transport and the server: a transport error, 200 OK, or an
\* error status.  s503bare is a 503 whose JSON body has no "http" field.
Replies == {"ok", "s400", "s401", "s500", "s503", "s503bare",
            "refused", "fatal"}
TransportFailures == {"refused", "fatal"}

ASSUME ConstAssumption ==
    /\ NoThread \notin Threads
    /\ MaxKeys \in Nat \ {0}
    /\ MaxCalls \in Nat
    /\ RetryTimeout \in Nat \ {0}
    /\ AttemptTime \subseteq Nat /\ AttemptTime # {}
    /\ DataReplies \subseteq Replies /\ DataReplies # {}
    /\ LoginReplies \subseteq Replies /\ "ok" \in LoginReplies

NoKey == 0                       \* apikey == ""
Keys == 1..MaxKeys
Levels == {"data", "login"}

(***************************************************************************)
(* Results of do, retry and Login: the pair (apiresp, err) they return.    *)
(* api is the Http field of the *ApiErrorResponse (NoApi when nil); err    *)
(* is the error, "none" when nil.                                          *)
(***************************************************************************)
NoApi == -1
ApiValues == {NoApi, 0, 400, 401, 500, 503}
Errors == {"none", "ConnectionError", "transport", "ErrRetryTimeout"}
Result == [api : ApiValues, err : Errors]
OK == [api |-> NoApi, err |-> "none"]

\* badStatus: the error translateErrors pairs with a status code; a code
\* absent from the map yields nil.
badStatus == [c \in {400, 401, 503} |->
                 IF c = 400 THEN "InvalidRequest"
                 ELSE IF c = 401 THEN "PermissionDenied" ELSE "Retry503"]
BadStatusOf(c) == IF c \in DOMAIN badStatus THEN badStatus[c] ELSE "none"

StatusOf == [s400 |-> 400, s401 |-> 401, s500 |-> 500, s503 |-> 503,
             s503bare |-> 503]
\* The "http" field of the error body; 0 when the body omits it.
BodyHttp == [s400 |-> 400, s401 |-> 401, s500 |-> 500, s503 |-> 503,
             s503bare |-> 0]

\* Mutant: the default is dropped.
FillHttpDropped(h, status) == h
\* eresp.Http defaults to the status code when the body lacked it.
FillHttp(h, status) == IF h = 0 THEN status ELSE h

\* translateErrors: (eresp, err) for one reply.  A transport error whose
\* text says "connection refused" becomes badStatus[ConnectionError].
Translated(r) ==
    CASE r = "refused" -> [api |-> NoApi, err |-> "ConnectionError"]
      [] r = "fatal"   -> [api |-> NoApi, err |-> "transport"]
      [] r = "ok"      -> [api |-> NoApi, err |-> "none"]
      [] OTHER -> [api |-> FillHttp(BodyHttp[r], StatusOf[r]),
                   err |-> BadStatusOf(StatusOf[r])]

\* err.Error() of the errors do can return, and whether the text contains
\* "connect: connection refused" (the test of retry's loop).
ErrText == [ConnectionError |-> "ConnectionError",
            transport |-> "Put: i/o timeout",
            ErrRetryTimeout |-> "timeout reached before request completed"]
RefusedTexts == {"dial tcp: connect: connection refused"}
MentionsRefused(e) == e # "none" /\ ErrText[e] \in RefusedTexts

\* The error classes on which a do with retry = true enters retry's loop.
RetryClass == {"Retry503", "ConnectionError"}

\* Mutant: Login's own do is allowed to re-authenticate.
AllowLoginAlways(L) == TRUE
\* do's allowLogin: true for doWithAuth's calls, false for Login's.
AllowLogin(L) == L = "data"

\* Mutant: 5xx API errors are all retried, not only 503.
RetryStops5xx(r) ==
    \/ r = OK
    \/ r.api # NoApi /\ r.api < 500
    \/ r.api = NoApi /\ ~MentionsRefused(r.err)
\* retry's loop returns r: success, an API error other than 503, or an
\* error whose text lacks "connect: connection refused".
RetryStops(r) ==
    \/ r = OK
    \/ r.api # NoApi /\ r.api # 503
    \/ r.api = NoApi /\ ~MentionsRefused(r.err)

VARIABLES
    apikey,      \* c.apikey
    owner,       \* the goroutine holding c.m in write mode
    sessions,    \* server: keys it still accepts
    nextKey,     \* server: next key it issues
    pc,          \* per thread: the step it executes next
    inLogin,     \* per thread: Login is running (the login frame is active)
    loginFrom,   \* per thread: "auth" (doWithAuth) or "reauth" (do's 401)
    hdr,         \* per thread: ro.Headers["Auth-Token"] of the data call
    lkey,        \* per thread: login.Key decoded by Login's do
    frame,       \* per thread and level: state of do and retry
    clock,       \* per thread: seconds since the call started
    calls,       \* per thread: calls started
    lastReply,   \* per thread: last reply to a data request of the call
    reauths      \* per thread: Logout+Login cycles of the call

vars == <<apikey, owner, sessions, nextKey, pc, inLogin, loginFrom, hdr,
          lkey, frame, clock, calls, lastReply, reauths>>

Labels == {"idle", "auth_check", "hdr", "lock", "send", "retry_check",
           "retry_eval", "reauth_check", "logout", "login_end", "rehdr",
           "done"}
Frame == [retry : BOOLEAN, inRetry : BOOLEAN, t1 : Nat, backoff : Nat,
          res : Result]
InitFrame == [retry |-> FALSE, inRetry |-> FALSE, t1 |-> 0, backoff |-> 1,
              res |-> OK]

Lvl(t) == IF inLogin[t] THEN "login" ELSE "data"

\* Mutant: Login does not take the mutex.
CanLockUnguarded(t) == TRUE
\* c.m.Lock() in Login can proceed: no writer holds c.m.
CanLock(t) == owner = NoThread

\* Mutant: the loop retries at once, without sleeping or raising backoff.
SleepSkipped(t, L) == UNCHANGED <<clock, frame>>
\* Mutant: backoff is lowered instead of raised.
SleepBackoffDown(t, L) ==
    /\ LET b == frame[t][L].backoff
       IN  clock' = [clock EXCEPT ![t] = @ + b * b]
    /\ frame' = [frame EXCEPT ![t][L].backoff = @ - 1]
\* time.Sleep(time.Second * time.Duration(backoff*backoff)); backoff += 1.
SleepBackoff(t, L) ==
    /\ LET b == frame[t][L].backoff
       IN  clock' = [clock EXCEPT ![t] = @ + b * b]
    /\ frame' = [frame EXCEPT ![t][L].backoff = @ + 1]

\* Where do returns to: retry's loop, doWithAuth, or Login.
BaseReturnPc(L) == IF L = "data" THEN "done" ELSE "login_end"
DoReturnPc(t, L) ==
    IF frame[t][L].inRetry THEN "retry_eval" ELSE BaseReturnPc(L)

\* The server's possible replies to the request thread t sends now.
ServerReplies(t) ==
    IF Lvl(t) = "login"
    THEN {r \in LoginReplies : r = "ok" => nextKey <= MaxKeys}
    ELSE IF hdr[t] \in sessions THEN DataReplies
    ELSE {"s401"} \cup (DataReplies \cap TransportFailures)

Init ==
    /\ apikey = NoKey
    /\ owner = NoThread
    /\ sessions = {}
    /\ nextKey = 1
    /\ pc = [t \in Threads |-> "idle"]
    /\ inLogin = [t \in Threads |-> FALSE]
    /\ loginFrom = [t \in Threads |-> "auth"]
    /\ hdr = [t \in Threads |-> NoKey]
    /\ lkey = [t \in Threads |-> NoKey]
    /\ frame = [t \in Threads |-> [L \in Levels |-> InitFrame]]
    /\ clock = [t \in Threads |-> 0]
    /\ calls = [t \in Threads |-> 0]
    /\ lastReply = [t \in Threads |-> "none"]
    /\ reauths = [t \in Threads |-> 0]
-----------------------------------------------------------------------------
(***************************************************************************)
(* Operations.  Each action is one atomic step of one goroutine t.         *)
(***************************************************************************)

\* Get/Put/Post/Delete/GetList enter doWithAuth.
Start(t) ==
    /\ pc[t] = "idle"
    /\ calls[t] < MaxCalls
    /\ pc' = [pc EXCEPT ![t] = "auth_check"]
    /\ calls' = [calls EXCEPT ![t] = @ + 1]
    /\ UNCHANGED <<apikey, owner, sessions, nextKey, inLogin, loginFrom, hdr,
                   lkey, frame, clock, lastReply, reauths>>

\* doWithAuth: `if !c.hasLoggedIn() { c.Login(ctxt) }` (hasLoggedIn under
\* RLock).
AuthCheck(t) ==
    /\ pc[t] = "auth_check"
    /\ owner = NoThread
    /\ IF apikey # NoKey
       THEN /\ pc' = [pc EXCEPT ![t] = "hdr"]
            /\ UNCHANGED <<inLogin, loginFrom>>
       ELSE /\ pc' = [pc EXCEPT ![t] = "lock"]
            /\ inLogin' = [inLogin EXCEPT ![t] = TRUE]
            /\ loginFrom' = [loginFrom EXCEPT ![t] = "auth"]
    /\ UNCHANGED <<apikey, owner, sessions, nextKey, hdr, lkey, frame, clock,
                   calls, lastReply, reauths>>

\* doWithAuth: read c.apikey under RLock into the Auth-Token header, then
\* c.do(..., canRetry, !isSensitive, allowLogin).
SetHeaders(t) ==
    /\ pc[t] = "hdr"
    /\ owner = NoThread
    /\ hdr' = [hdr EXCEPT ![t] = apikey]
    /\ frame' = [frame EXCEPT ![t]["data"].retry = TRUE,
                              ![t]["data"].inRetry = FALSE]
    /\ pc' = [pc EXCEPT ![t] = "send"]
    /\ UNCHANGED <<apikey, owner, sessions, nextKey, inLogin, loginFrom, lkey,
                   clock, calls, lastReply, reauths>>

\* do returns r to its caller: retry's loop or the frame's base.
DoReturn(t, L, r) ==
    /\ frame' = [frame EXCEPT ![t][L].res = r]
    /\ pc' = [pc EXCEPT ![t] = DoReturnPc(t, L)]

\* retry returns r to the do that called it, which returns it in turn.
RetryReturn(t, L, r) ==
    /\ frame' = [frame EXCEPT ![t][L].inRetry = FALSE, ![t][L].res = r,
                              ![t][L].t1 = 0, ![t][L].backoff = 1]
    /\ pc' = [pc EXCEPT ![t] = BaseReturnPc(L)]

\* Login has returned r to its caller: doWithAuth ("auth") or do's 401
\* branch ("reauth"); a failed Login is returned as the caller's result.
\* fr is the frame function once Login's locals are gone.
LoginResume(t, r, fr) ==
    /\ inLogin' = [inLogin EXCEPT ![t] = FALSE]
    /\ pc' = [pc EXCEPT ![t] =
                IF r = OK
                THEN IF loginFrom[t] = "auth" THEN "hdr" ELSE "rehdr"
                ELSE IF loginFrom[t] = "auth" THEN "done"
                     ELSE DoReturnPc(t, "data")]
    /\ frame' = IF r = OK THEN fr ELSE [fr EXCEPT ![t]["data"].res = r]

\* Login: c.m.Lock(); a set apikey short-circuits (deferred Unlock);
\* otherwise c.do(PUT login, canRetry, isSensitive, !allowLogin) while
\* holding the lock.
LoginLock(t) ==
    /\ pc[t] = "lock"
    /\ CanLock(t)
    /\ IF apikey # NoKey
       THEN /\ LoginResume(t, OK, frame)
            /\ UNCHANGED <<owner, lkey>>
       ELSE /\ owner' = t
            /\ lkey' = [lkey EXCEPT ![t] = NoKey]
            /\ frame' = [frame EXCEPT ![t]["login"].retry = TRUE,
                                      ![t]["login"].inRetry = FALSE]
            /\ pc' = [pc EXCEPT ![t] = "send"]
            /\ UNCHANGED inLogin
    /\ UNCHANGED <<apikey, sessions, nextKey, loginFrom, hdr, clock, calls,
                   lastReply, reauths>>

\* Login after its do: clear apikey on a 401, else store login.Key; the
\* deferred Unlock.  Login's locals (login, the login frame) die here.
LoginEnd(t) ==
    /\ pc[t] = "login_end"
    /\ LET r == frame[t]["login"].res
       IN  /\ apikey' = IF r.api = 401 THEN NoKey ELSE lkey[t]
           /\ owner' = NoThread
           /\ lkey' = [lkey EXCEPT ![t] = NoKey]
           /\ LoginResume(t, r, [frame EXCEPT ![t]["login"] = InitFrame])
    /\ UNCHANGED <<sessions, nextKey, loginFrom, hdr, clock, calls,
                   lastReply, reauths>>

\* retry's loop is entered: t1 = now, backoff = 1.
StartRetry(t, L, now) ==
    /\ frame' = [frame EXCEPT ![t][L].inRetry = TRUE, ![t][L].t1 = now,
                              ![t][L].backoff = 1]
    /\ pc' = [pc EXCEPT ![t] = "retry_check"]

\* do after translateErrors, in the order of its branches: 401 (re-auth
\* when allowed, else return eresp), retry on 503/ConnectionError when
\* retry is set, return eresp, return err, success.
AfterReply(t, L, tr, now) ==
    LET denied == tr.err = "PermissionDenied"
        retried == frame[t][L].retry /\ tr.err \in RetryClass
    IN  \/ /\ denied /\ AllowLogin(L)
           /\ pc' = [pc EXCEPT ![t] = "reauth_check"]
           /\ UNCHANGED frame
        \/ /\ denied /\ ~AllowLogin(L)
           /\ DoReturn(t, L, [api |-> tr.api, err |-> "none"])
        \/ /\ ~denied /\ retried
           /\ StartRetry(t, L, now)
        \/ /\ ~denied /\ ~retried /\ tr.api # NoApi
           /\ DoReturn(t, L, [api |-> tr.api, err |-> "none"])
        \/ /\ ~denied /\ ~retried /\ tr.api = NoApi
           /\ DoReturn(t, L, [api |-> NoApi, err |-> tr.err])

\* do: one HTTP request (greq.DoRegularRequest) and its classification.
\* The server issues a key for a successful login.
Send(t) ==
    /\ pc[t] = "send"
    /\ \E r \in ServerReplies(t), d \in AttemptTime :
         LET L == Lvl(t)
             now == clock[t] + d
         IN  /\ clock' = [clock EXCEPT ![t] = now]
             /\ IF L = "login" /\ r = "ok"
                THEN /\ lkey' = [lkey EXCEPT ![t] = nextKey]
                     /\ sessions' = sessions \cup {nextKey}
                     /\ nextKey' = nextKey + 1
                ELSE UNCHANGED <<lkey, sessions, nextKey>>
             /\ lastReply' = IF L = "data"
                             THEN [lastReply EXCEPT ![t] = r]
                             ELSE lastReply
             /\ AfterReply(t, L, Translated(r), now)
    /\ UNCHANGED <<apikey, owner, inLogin, loginFrom, hdr, calls, reauths>>

\* retry's loop condition `time.Now().Unix()-t1 < RetryTimeout`; the next
\* attempt is c.do(..., !canRetry, ...).  On timeout it returns the loop's
\* outer apiresp, which the loop body never assigns, with ErrRetryTimeout.
RetryCheck(t) ==
    /\ pc[t] = "retry_check"
    /\ LET L == Lvl(t)
       IN  IF clock[t] - frame[t][L].t1 < RetryTimeout
           THEN /\ frame' = [frame EXCEPT ![t][L].retry = FALSE]
                /\ pc' = [pc EXCEPT ![t] = "send"]
           ELSE RetryReturn(t, L, [api |-> NoApi, err |-> "ErrRetryTimeout"])
    /\ UNCHANGED <<apikey, owner, sessions, nextKey, inLogin, loginFrom, hdr,
                   lkey, clock, calls, lastReply, reauths>>

\* retry's loop body after do: return when RetryStops, otherwise sleep
\* backoff*backoff seconds and backoff += 1.
RetryEval(t) ==
    /\ pc[t] = "retry_eval"
    /\ LET L == Lvl(t)
           r == frame[t][L].res
       IN  IF RetryStops(r)
           THEN /\ RetryReturn(t, L, r)
                /\ UNCHANGED clock
           ELSE /\ SleepBackoff(t, L)
                /\ pc' = [pc EXCEPT ![t] = "retry_check"]
    /\ UNCHANGED <<apikey, owner, sessions, nextKey, inLogin, loginFrom, hdr,
                   lkey, calls, lastReply, reauths>>

\* do's 401 branch: `if allowLogin && c.hasLoggedIn()` (RLock), else
\* return the 401 API error.
ReauthCheck(t) ==
    /\ pc[t] = "reauth_check"
    /\ owner = NoThread
    /\ IF apikey # NoKey
       THEN /\ pc' = [pc EXCEPT ![t] = "logout"]
            /\ UNCHANGED frame
       ELSE DoReturn(t, Lvl(t), [api |-> 401, err |-> "none"])
    /\ UNCHANGED <<apikey, owner, sessions, nextKey, inLogin, loginFrom, hdr,
                   lkey, clock, calls, lastReply, reauths>>

\* c.Logout() (Lock; apikey = ""; Unlock), then c.Login(ctxt).
Logout(t) ==
    /\ pc[t] = "logout"
    /\ owner = NoThread
    /\ apikey' = NoKey
    /\ pc' = [pc EXCEPT ![t] = "lock"]
    /\ inLogin' = [inLogin EXCEPT ![t] = TRUE]
    /\ loginFrom' = [loginFrom EXCEPT ![t] = "reauth"]
    /\ reauths' = [reauths EXCEPT ![t] = @ + 1]
    /\ UNCHANGED <<owner, sessions, nextKey, hdr, lkey, frame, clock, calls,
                   lastReply>>

\* After a successful re-login: Auth-Token = c.apikey under RLock, then the
\* replay c.do(..., !canRetry, sensitive, allowLogin).
ReHeader(t) ==
    /\ pc[t] = "rehdr"
    /\ owner = NoThread
    /\ hdr' = [hdr EXCEPT ![t] = apikey]
    /\ frame' = [frame EXCEPT ![t]["data"].retry = FALSE]
    /\ pc' = [pc EXCEPT ![t] = "send"]
    /\ UNCHANGED <<apikey, owner, sessions, nextKey, inLogin, loginFrom, lkey,
                   clock, calls, lastReply, reauths>>

\* The verb returns (rs, apiresp, err) to its caller; the call's locals
\* (ro.Headers, the frames) die.
Finish(t) ==
    /\ pc[t] = "done"
    /\ pc' = [pc EXCEPT ![t] = "idle"]
    /\ hdr' = [hdr EXCEPT ![t] = NoKey]
    /\ frame' = [frame EXCEPT ![t] = [L \in Levels |-> InitFrame]]
    /\ clock' = [clock EXCEPT ![t] = 0]
    /\ lastReply' = [lastReply EXCEPT ![t] = "none"]
    /\ reauths' = [reauths EXCEPT ![t] = 0]
    /\ loginFrom' = [loginFrom EXCEPT ![t] = "auth"]
    /\ UNCHANGED <<apikey, owner, sessions, nextKey, inLogin, lkey, calls>>

\* Environment: the server expires a session.
Expire ==
    /\ \E k \in sessions : sessions' = sessions \ {k}
    /\ UNCHANGED <<apikey, owner, nextKey, pc, inLogin, loginFrom, hdr, lkey,
                   frame, clock, calls, lastReply, reauths>>

Progress(t) ==
    \/ AuthCheck(t) \/ SetHeaders(t) \/ LoginLock(t) \/ LoginEnd(t)
    \/ Send(t) \/ RetryCheck(t) \/ RetryEval(t) \/ ReauthCheck(t)
    \/ Logout(t) \/ ReHeader(t) \/ Finish(t)

Terminated == \A t \in Threads : pc[t] = "idle" /\ calls[t] = MaxCalls

Next ==
    \/ \E t \in Threads : Start(t) \/ Progress(t)
    \/ Expire
    \/ Terminated /\ UNCHANGED vars

Spec == Init /\ [][Next]_vars

\* Goroutines are scheduled fairly, and a goroutine blocked on c.m is
\* eventually granted it (sync.RWMutex admits waiting readers on Unlock and
\* Mutex's starvation mode hands the lock to a long waiter): strong
\* fairness, since the lock is only intermittently free.
FairSpec == Spec /\ \A t \in Threads : SF_vars(Progress(t))
-----------------------------------------------------------------------------
(***************************************************************************)
(* Properties.                                                             *)
(***************************************************************************)

TypeOK ==
    /\ apikey \in 0..MaxKeys
    /\ owner \in Threads \cup {NoThread}
    /\ sessions \subseteq Keys
    /\ nextKey \in 1..(MaxKeys + 1)
    /\ pc \in [Threads -> Labels]
    /\ inLogin \in [Threads -> BOOLEAN]
    /\ loginFrom \in [Threads -> {"auth", "reauth"}]
    /\ hdr \in [Threads -> 0..MaxKeys]
    /\ lkey \in [Threads -> 0..MaxKeys]
    /\ frame \in [Threads -> [Levels -> Frame]]
    /\ clock \in [Threads -> Nat]
    /\ calls \in [Threads -> 0..MaxCalls]
    /\ lastReply \in [Threads -> Replies \cup {"none"}]
    /\ reauths \in [Threads -> Nat]

\* The steps that take c.m, in shared or exclusive mode.
LockSteps == {"auth_check", "hdr", "lock", "reauth_check", "logout", "rehdr"}

\* No goroutine waits for c.m while it holds c.m itself: Go's RWMutex is
\* not reentrant, so a 401 answered to Login's own request must not reach
\* hasLoggedIn/Logout/Login (the allowLogin flag of do, connection.go
\* lines 380-384 and 562).
NoSelfDeadlock == \A t \in Threads : pc[t] \in LockSteps => owner # t

\* The connection never holds a superseded session key: a set apikey is the
\* key of the latest successful login.  Logins are serialised by c.m, so a
\* slow Login cannot store its key over the one of a later Login.
KeyFresh == apikey # NoKey => apikey = nextKey - 1

\* A data request is sent again within a call only after a 503, a refused
\* connection (retry's loop) or a 401 (re-authentication and replay): a 400,
\* a 500, a transport error or a success ends the call.
RetryOnlyTransient ==
    \A t \in Threads :
        pc[t] = "send" /\ ~inLogin[t] =>
            lastReply[t] \in {"none", "s401", "s503", "s503bare", "refused"}

\* A call whose last reply was a 503, with or without an "http" field in its
\* body, returns to its caller only once retry's budget is spent or after a
\* re-authentication replay, which do does not retry.
BusyRepliesRetried ==
    \A t \in Threads :
        pc[t] = "done" /\ lastReply[t] \in {"s503", "s503bare"} =>
            \/ frame[t]["data"].res.err = "ErrRetryTimeout"
            \/ reauths[t] > 0

\* Every call that starts returns to its caller (retry's loop is bounded by
\* RetryTimeout, Login's by the lock being released).
CallsComplete ==
    \A t \in Threads : pc[t] = "auth_check" ~> pc[t] = "done"
-----------------------------------------------------------------------------
(***************************************************************************)
(* The inductive invariant behind KeyFresh and NoSelfDeadlock (proved in   *)
(* ConnectionProofs).  Login's steps are the only ones that run with the   *)
(* login frame; the writer of c.m is exactly the goroutine inside Login    *)
(* past Lock(); while it holds c.m apikey is empty, and the key its do     *)
(* decoded is the server's latest.                                         *)
(***************************************************************************)
LoginLabels == {"lock", "send", "retry_check", "retry_eval", "login_end"}

LoginFrameInv ==
    \A t \in Threads :
        /\ inLogin[t] => pc[t] \in LoginLabels
        /\ pc[t] \in {"lock", "login_end"} => inLogin[t]

WriterInv ==
    \A t \in Threads : owner = t <=> inLogin[t] /\ pc[t] # "lock"

HeldKeyInv ==
    /\ owner # NoThread => apikey = NoKey
    /\ \A t \in Threads : lkey[t] # NoKey => owner = t /\ lkey[t] = nextKey - 1

IInv == TypeOK /\ LoginFrameInv /\ WriterInv /\ HeldKeyInv /\ KeyFresh

\* Login holds a decoded key only after its do returned success, until
\* LoginEnd stores it (RefinementProofs: a failed Login leaves apikey empty).
LoginKeyInv ==
    \A t \in Threads :
        lkey[t] # NoKey =>
            /\ frame[t]["login"].res = OK
            /\ pc[t] \in {"retry_eval", "login_end"}
-----------------------------------------------------------------------------
(***************************************************************************)
(* The inductive invariant behind RetryOnlyTransient and                   *)
(* BusyRepliesRetried (proved in ConnectionProofs).  It follows the last   *)
(* data reply through a call: none before the first request (also while    *)
(* doWithAuth's Login runs), a 401 from do's 401 branch until the replay,  *)
(* a retryable reply while the data do is about to send again, and a 503   *)
(* inside retry's loop until the loop either sends again or times out.     *)
(* A data do sends without retry and outside retry's loop only as the      *)
(* replay after a re-authentication.                                       *)
(***************************************************************************)
TransientReplies == {"none", "s401", "s503", "s503bare", "refused"}
BusyReplies == {"s503", "s503bare"}

ReplyState(p, inL, from, lr, n, F) ==
    /\ p \in {"idle", "auth_check"} => lr = "none"
    /\ inL /\ from = "auth" => lr = "none"
    /\ \/ inL /\ from = "reauth"
       \/ ~inL /\ p \in {"reauth_check", "logout", "rehdr"}
       => lr = "s401"
    /\ \/ from = "reauth"
       \/ ~inL /\ p = "rehdr"
       => n > 0
    /\ ~inL /\ p \in {"hdr", "send", "retry_check"} => lr \in TransientReplies
    /\ ~inL /\ p = "retry_eval" => lr \in TransientReplies \/ RetryStops(F.res)
    /\ ~inL /\ p \in {"retry_check", "retry_eval"} => F.inRetry
    /\ ~inL /\ p = "send" /\ ~F.retry /\ ~F.inRetry => n > 0
    /\ ~inL /\ p = "retry_eval" /\ n = 0 /\ lr \in BusyReplies
       => F.res.api = 503
    /\ p = "done" /\ lr \in BusyReplies
       => F.res.err = "ErrRetryTimeout" \/ n > 0

\* The call state of goroutine t: its step, whether Login runs, who called
\* Login, the last data reply, the re-authentications and the data frame.
ReplyAt(t) ==
    ReplyState(pc[t], inLogin[t], loginFrom[t], lastReply[t], reauths[t],
               frame[t]["data"])

ReplyInv == \A t \in Threads : ReplyAt(t)

-----------------------------------------------------------------------------
(***************************************************************************)
(* Refinement: the connection implements AbstractCall.  A thread's call    *)
(* is busy from Start until do's result reaches doWithAuth (pc "done"),    *)
(* whose outcome class is that of the data frame's (apiresp, err); the     *)
(* session token is apikey and the newest issued key is nextKey - 1.       *)
(***************************************************************************)
OutcomeOf(r) ==
    IF r.api # NoApi THEN "apierr" ELSE IF r.err # "none" THEN "err" ELSE "ok"

CallState(t) ==
    IF pc[t] = "idle" THEN "idle" ELSE IF pc[t] = "done" THEN "done" ELSE "busy"

Abs == INSTANCE AbstractCall WITH
           token <- apikey,
           issued <- nextKey - 1,
           call <- [t \in Threads |-> CallState(t)],
           result <- [t \in Threads |->
                        IF pc[t] = "done" THEN OutcomeOf(frame[t]["data"].res)
                        ELSE "none"],
           calls <- calls

\* Every step of the connection is a step of AbstractCall or leaves its
\* state alone: calls complete once with one outcome, logins happen only
\* with an empty token, and apikey only ever adopts the newest key.
AbsSpec == Abs!Spec
-----------------------------------------------------------------------------
(***************************************************************************)
(* What spec.md says of the code, checked in runs that expect a violation. *)
(***************************************************************************)

\* spec 4.4: when the retry budget runs out, retry returns the last API
\* error it saw together with ErrRetryTimeout.
TimeoutReportsLastApiError ==
    \A t \in Threads :
        /\ pc[t] = "done"
        /\ frame[t]["data"].res.err = "ErrRetryTimeout"
        /\ lastReply[t] \in DOMAIN StatusOf
        => frame[t]["data"].res.api # NoApi

\* spec 5 and 8: concurrent logins never issue two network logins; the
\* second observes the token set by the first.  So a login request is only
\* sent while the server holds no session the client could still use.
NoRedundantLogin ==
    \A t \in Threads : pc[t] = "send" /\ inLogin[t] => sessions = {}
=============================================================================
