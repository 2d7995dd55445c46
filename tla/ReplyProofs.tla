---------------------------- MODULE ReplyProofs ----------------------------
(***************************************************************************)
(* Proofs about the replies that end or continue a call of doWithAuth      *)
(* (connection.go do, retry and the 401 re-authentication), for every      *)
(* number of goroutines and calls and every retry budget.                  *)
(***************************************************************************)
EXTENDS ConnectionProofs

\* translateErrors: which replies do re-authenticates on, retries, and
\* reports as a 503.
LEMMA TranslatedClass ==
    ASSUME NEW r \in Replies
    PROVE  /\ Translated(r).err = "PermissionDenied" => r = "s401"
           /\ Translated(r).err \in RetryClass =>
                  r \in {"s503", "s503bare", "refused"}
           /\ Translated(r).api = 503 => r \in BusyReplies
           /\ r \in BusyReplies =>
                  Translated(r).api = 503 /\ Translated(r).err \in RetryClass
<1>1. CASE r \in {"ok", "refused", "fatal"}
  BY <1>1 DEF Translated, NoApi, RetryClass, BusyReplies
<1>2. CASE r \in {"s400", "s401", "s500", "s503", "s503bare"}
  <2>1. Translated(r) = [api |-> FillHttp(BodyHttp[r], StatusOf[r]),
                         err |-> BadStatusOf(StatusOf[r])]
    BY <1>2 DEF Translated
  <2>2. QED
    BY <1>2, <2>1 DEF FillHttp, BodyHttp, StatusOf, BadStatusOf, badStatus,
       RetryClass, BusyReplies
<1>3. QED
  BY <1>1, <1>2 DEF Replies

\* No error do returns has the text retry's loop looks for ("connect:
\* connection refused"): translateErrors turns a refused connection into
\* ConnectionError, whose text lacks it.
LEMMA NoRefusedText == \A e \in Errors : ~MentionsRefused(e)
<1> SUFFICES ASSUME NEW e \in Errors, e # "none"
             PROVE  ErrText[e] \notin RefusedTexts
  BY DEF MentionsRefused
<1>1. CASE e = "ConnectionError"
  BY <1>1 DEF ErrText, RefusedTexts
<1>2. CASE e = "transport"
  BY <1>2 DEF ErrText, RefusedTexts
<1>3. CASE e = "ErrRetryTimeout"
  BY <1>3 DEF ErrText, RefusedTexts
<1>4. QED
  BY <1>1, <1>2, <1>3 DEF Errors

\* So retry's loop goes on only after a 503.
LEMMA StopsUnless503 ==
    ASSUME NEW r \in Result, ~RetryStops(r)
    PROVE  r.api = 503
<1>1. r.api # NoApi
  <2>1. SUFFICES ASSUME r.api = NoApi PROVE FALSE
    OBVIOUS
  <2>2. ~MentionsRefused(r.err)
    BY NoRefusedText DEF Result
  <2>3. QED
    BY <2>1, <2>2 DEF RetryStops
<1>2. QED
  BY <1>1 DEF RetryStops

\* Replacing the data frame of goroutine t.
LEMMA DataUpdate ==
    ASSUME NEW F \in [Threads -> [Levels -> Frame]], NEW t \in Threads, NEW g
    PROVE  [F EXCEPT ![t]["data"] = g][t]["data"] = g
BY DEF Levels

\* retry's sleep (backoff += 1) leaves the data frame's inRetry alone.
LEMMA BackoffData ==
    ASSUME NEW G \in [Threads -> [Levels -> Frame]], NEW t \in Threads,
           NEW H, H = [G EXCEPT ![t]["data"].backoff = @ + 1]
    PROVE  H[t]["data"].inRetry = G[t]["data"].inRetry
BY DEF Levels, Frame

\* Entering a retry attempt (retry = FALSE) leaves inRetry alone.
LEMMA RetryOffData ==
    ASSUME NEW G \in [Threads -> [Levels -> Frame]], NEW t \in Threads,
           NEW H, H = [G EXCEPT ![t]["data"].retry = FALSE]
    PROVE  H[t]["data"].inRetry = G[t]["data"].inRetry
BY DEF Levels, Frame

\* A step of goroutine t that keeps its invariant and leaves the other
\* goroutines' call state alone keeps ReplyInv.
LEMMA ReplyOthers ==
    ASSUME NEW t \in Threads, ReplyInv, ReplyAt(t)',
           \A u \in Threads \ {t} :
               /\ pc'[u] = pc[u] /\ inLogin'[u] = inLogin[u]
               /\ loginFrom'[u] = loginFrom[u]
               /\ lastReply'[u] = lastReply[u] /\ reauths'[u] = reauths[u]
               /\ frame'[u] = frame[u]
    PROVE  ReplyInv'
BY DEF ReplyInv, ReplyAt, ReplyState

\* The goroutine's own state at a step that changes only these variables
\* of it.
Others(t) ==
    \A u \in Threads \ {t} :
        /\ pc'[u] = pc[u] /\ inLogin'[u] = inLogin[u]
        /\ loginFrom'[u] = loginFrom[u]
        /\ lastReply'[u] = lastReply[u] /\ reauths'[u] = reauths[u]
        /\ frame'[u] = frame[u]

\* Every step keeps ReplyInv.
LEMMA ReplyStep == IInv /\ ReplyInv /\ [Next]_vars => ReplyInv'
<1> SUFFICES ASSUME IInv, ReplyInv, [Next]_vars PROVE ReplyInv'
  OBVIOUS
<1>0. /\ pc \in [Threads -> Labels] /\ inLogin \in [Threads -> BOOLEAN]
      /\ loginFrom \in [Threads -> {"auth", "reauth"}]
      /\ lastReply \in [Threads -> Replies \cup {"none"}]
      /\ reauths \in [Threads -> Nat] /\ frame \in [Threads -> [Levels -> Frame]]
      /\ clock \in [Threads -> Nat] /\ hdr \in [Threads -> 0..MaxKeys]
      /\ LoginFrameInv
  BY DEF IInv, TypeOK
<1>b. frame \in [Threads -> [Levels -> Frame]]
  BY <1>0
<1>a. ASSUME NEW t \in Threads, ReplyAt(t)', Others(t) PROVE ReplyInv'
  BY <1>a, ReplyOthers DEF Others
<1>1. ASSUME NEW t \in Threads, Start(t) PROVE ReplyInv'
  <2>b. /\ ReplyAt(t) /\ (inLogin[t] => pc[t] \in LoginLabels)
        /\ (pc[t] \in {"lock", "login_end"} => inLogin[t])
        /\ inLogin[t] \in BOOLEAN /\ loginFrom[t] \in {"auth", "reauth"}
        /\ reauths[t] \in Nat /\ frame[t]["data"] \in Frame
    BY <1>0 DEF ReplyInv, LoginFrameInv, Levels
  <2>1. /\ pc[t] = "idle" /\ pc'[t] = "auth_check" /\ ~inLogin[t]
        /\ UNCHANGED <<inLogin, loginFrom, lastReply, reauths, frame>>
    BY <1>0, <1>1, <2>b DEF Start, LoginLabels
  <2>2. ReplyAt(t)'
    BY <2>1, <2>b DEF ReplyAt, ReplyState
  <2>3. Others(t)
    BY <1>0, <1>1 DEF Start, Others
  <2>4. QED
    BY <1>a, <2>2, <2>3
<1>2. ASSUME NEW t \in Threads, AuthCheck(t) PROVE ReplyInv'
  <2>b. /\ ReplyAt(t) /\ (inLogin[t] => pc[t] \in LoginLabels)
        /\ (pc[t] \in {"lock", "login_end"} => inLogin[t])
        /\ inLogin[t] \in BOOLEAN /\ loginFrom[t] \in {"auth", "reauth"}
        /\ reauths[t] \in Nat /\ frame[t]["data"] \in Frame
    BY <1>0 DEF ReplyInv, LoginFrameInv, Levels
  <2>1. /\ pc[t] = "auth_check" /\ ~inLogin[t]
        /\ UNCHANGED <<lastReply, reauths, frame>>
    BY <1>0, <1>2, <2>b DEF AuthCheck, LoginLabels
  <2>2. \/ /\ pc'[t] = "hdr" /\ inLogin'[t] = inLogin[t]
           /\ loginFrom'[t] = loginFrom[t]
        \/ /\ pc'[t] = "lock" /\ inLogin'[t] /\ loginFrom'[t] = "auth"
    BY <1>0, <1>2 DEF AuthCheck
  <2>3. ReplyAt(t)'
    BY <2>1, <2>2, <2>b DEF ReplyAt, ReplyState, TransientReplies
  <2>4. Others(t)
    BY <1>0, <1>2 DEF AuthCheck, Others
  <2>5. QED
    BY <1>a, <2>3, <2>4
<1>3. ASSUME NEW t \in Threads, SetHeaders(t) PROVE ReplyInv'
  <2>b. /\ ReplyAt(t) /\ (inLogin[t] => pc[t] \in LoginLabels)
        /\ (pc[t] \in {"lock", "login_end"} => inLogin[t])
        /\ inLogin[t] \in BOOLEAN /\ loginFrom[t] \in {"auth", "reauth"}
        /\ reauths[t] \in Nat /\ frame[t]["data"] \in Frame
    BY <1>0 DEF ReplyInv, LoginFrameInv, Levels
  <2>1. /\ pc[t] = "hdr" /\ pc'[t] = "send" /\ ~inLogin[t]
        /\ UNCHANGED <<inLogin, loginFrom, lastReply, reauths>>
    BY <1>0, <1>3, <2>b DEF SetHeaders, LoginLabels
  <2>2. frame'[t]["data"].retry = TRUE
    BY <1>0, <1>3 DEF SetHeaders, Levels
  <2>3. ReplyAt(t)'
    BY <2>1, <2>2, <2>b DEF ReplyAt, ReplyState
  <2>4. Others(t)
    BY <1>0, <1>3 DEF SetHeaders, Others
  <2>5. QED
    BY <1>a, <2>3, <2>4
<1>4. ASSUME NEW t \in Threads, LoginLock(t) PROVE ReplyInv'
  <2>b. /\ ReplyAt(t) /\ (inLogin[t] => pc[t] \in LoginLabels)
        /\ (pc[t] \in {"lock", "login_end"} => inLogin[t])
        /\ inLogin[t] \in BOOLEAN /\ loginFrom[t] \in {"auth", "reauth"}
        /\ reauths[t] \in Nat /\ frame[t]["data"] \in Frame
    BY <1>0 DEF ReplyInv, LoginFrameInv, Levels
  <2>1. /\ pc[t] = "lock" /\ inLogin[t]
        /\ UNCHANGED <<loginFrom, lastReply, reauths>>
        /\ frame'[t]["data"] = frame[t]["data"]
    BY <1>0, <1>4, <2>b DEF LoginLock, LoginResume, Levels
  <2>2. \/ /\ ~inLogin'[t]
           /\ pc'[t] = IF loginFrom[t] = "auth" THEN "hdr" ELSE "rehdr"
        \/ inLogin'[t] /\ pc'[t] = "send"
    BY <1>0, <1>4, <2>b DEF LoginLock, LoginResume
  <2>3. ReplyAt(t)'
    BY <2>1, <2>2, <2>b, SMT DEF ReplyAt, ReplyState, TransientReplies
  <2>4. Others(t)
    BY <1>0, <1>4 DEF LoginLock, LoginResume, Others
  <2>5. QED
    BY <1>a, <2>3, <2>4
<1>5. ASSUME NEW t \in Threads, LoginEnd(t) PROVE ReplyInv'
  <2>b. /\ ReplyAt(t) /\ (inLogin[t] => pc[t] \in LoginLabels)
        /\ (pc[t] \in {"lock", "login_end"} => inLogin[t])
        /\ inLogin[t] \in BOOLEAN /\ loginFrom[t] \in {"auth", "reauth"}
        /\ reauths[t] \in Nat /\ frame[t]["data"] \in Frame
    BY <1>0 DEF ReplyInv, LoginFrameInv, Levels
  <2> DEFINE r == frame[t]["login"].res
  <2>1. /\ pc[t] = "login_end" /\ inLogin[t] /\ inLogin'[t] = FALSE
        /\ loginFrom'[t] = loginFrom[t] /\ lastReply'[t] = lastReply[t]
        /\ reauths'[t] = reauths[t]
    BY <1>0, <1>5, <2>b DEF LoginEnd, LoginResume
  <2>2. ASSUME r = OK PROVE ReplyAt(t)'
    <3>1. /\ pc'[t] = IF loginFrom[t] = "auth" THEN "hdr" ELSE "rehdr"
          /\ frame'[t]["data"] = frame[t]["data"]
      BY <1>0, <1>5, <2>2 DEF LoginEnd, LoginResume, Levels
    <3>2. ReplyState(IF loginFrom[t] = "auth" THEN "hdr" ELSE "rehdr", FALSE,
                     loginFrom[t], lastReply[t], reauths[t], frame[t]["data"])
      BY <2>1, <2>b DEF ReplyAt, ReplyState, TransientReplies
    <3>3. QED
      BY <2>1, <3>1, <3>2 DEF ReplyAt, ReplyState
  <2>3. ASSUME r # OK PROVE ReplyAt(t)'
    <3>1. /\ pc'[t] = IF loginFrom[t] = "auth" THEN "done"
                      ELSE IF frame[t]["data"].inRetry THEN "retry_eval" ELSE "done"
          /\ frame'[t]["data"] = [frame[t]["data"] EXCEPT !.res = r]
      BY <1>0, <1>5, <2>3 DEF LoginEnd, LoginResume, DoReturnPc,
         BaseReturnPc, Levels
    <3>2. frame[t]["data"] \in Frame
      BY <1>0 DEF Levels
    <3>3. QED
      BY <2>1, <3>1, <3>2, <2>b DEF ReplyAt, ReplyState, TransientReplies, BusyReplies,
          Frame
  <2>4. Others(t)
    BY <1>0, <1>5 DEF LoginEnd, LoginResume, Others
  <2>5. QED
    BY <1>a, <2>2, <2>3, <2>4
<1>6. ASSUME NEW t \in Threads, Send(t) PROVE ReplyInv'
  <2>b. /\ ReplyAt(t) /\ (inLogin[t] => pc[t] \in LoginLabels)
        /\ (pc[t] \in {"lock", "login_end"} => inLogin[t])
        /\ inLogin[t] \in BOOLEAN /\ loginFrom[t] \in {"auth", "reauth"}
        /\ reauths[t] \in Nat /\ frame[t]["data"] \in Frame
    BY <1>0 DEF ReplyInv, LoginFrameInv, Levels
  <2>0. PICK r \in ServerReplies(t), d \in AttemptTime :
          LET L == Lvl(t)
              now == clock[t] + d
          IN  /\ clock' = [clock EXCEPT ![t] = now]
              /\ IF L = "login" /\ r = "ok"
                 THEN /\ lkey' = [lkey EXCEPT ![t] = nextKey]
                      /\ sessions' = sessions \cup {nextKey}
                      /\ nextKey' = nextKey + 1
                 ELSE UNCHANGED <<lkey, sessions, nextKey>>
              /\ lastReply' = IF L = "data"
                              THEN [lastReply EXCEPT ![t] = r]
                              ELSE lastReply
              /\ AfterReply(t, L, Translated(r), now)
    BY Zenon, <1>6 DEF Send
  <2> DEFINE L == Lvl(t)
             tr == Translated(r)
             now == clock[t] + d
             F == frame[t]["data"]
  <2>1. /\ pc[t] = "send"
        /\ UNCHANGED <<inLogin, loginFrom, reauths>>
        /\ AfterReply(t, L, tr, now)
    BY <1>6, <2>0 DEF Send, L, tr, F
  <2>2. r \in Replies
    BY ConstAssumption DEF ServerReplies, Replies
  <2>3. ASSUME inLogin[t] PROVE ReplyAt(t)'
    <3>1. /\ L = "login"
          /\ lastReply' = lastReply
          /\ frame'[t]["data"] = F
          /\ pc'[t] \in {"reauth_check", "retry_eval", "login_end",
                         "retry_check"}
      <4>1. L = "login"
        BY <2>3 DEF Lvl, L
      <4>2. lastReply' = lastReply
        BY Zenon, <2>0, <4>1 DEF L
      <4>3. \/ frame' = frame
            \/ \E x : frame' = [frame EXCEPT ![t]["login"].res = x]
            \/ frame' = [frame EXCEPT ![t]["login"].inRetry = TRUE,
                                     ![t]["login"].t1 = now,
                                     ![t]["login"].backoff = 1]
        BY <2>1, <4>1 DEF AfterReply, DoReturn, StartRetry
      <4>4. frame'[t]["data"] = F
        BY <1>b, <4>3 DEF Levels, F
      <4>5. pc'[t] \in {"reauth_check", "retry_eval", "login_end",
                        "retry_check"}
        BY <1>0, <2>1, <4>1 DEF AfterReply, DoReturn, DoReturnPc,
           BaseReturnPc, StartRetry
      <4>6. QED
        BY <4>1, <4>2, <4>4, <4>5
    <3>2. QED
      BY <2>1, <2>3, <3>1, <2>b DEF ReplyAt, ReplyState, L, tr, F
  <2>4. ASSUME ~inLogin[t] PROVE ReplyAt(t)'
    <3>1. L = "data" /\ lastReply'[t] = r /\ AllowLogin(L)
      BY <1>0, <2>0, <2>4 DEF Lvl, AllowLogin, L, tr, F
    <3>2. lastReply[t] \in TransientReplies
      BY <2>1, <2>4, <2>b DEF ReplyAt, ReplyState, L, tr, F
    <3>3. F \in Frame /\ tr.api \in ApiValues
          /\ (tr.api = NoApi => tr.err \in {"none", "ConnectionError",
                                            "transport"})
      BY <1>0, <2>2, TranslatedType DEF Levels, L, tr, F
    <3>4. CASE tr.err = "PermissionDenied"
      <4>a. AfterReply(t, "data", tr, now)
        BY <2>1, <3>1
      <4>b. pc' = [pc EXCEPT ![t] = "reauth_check"]
        BY <4>a, <3>4 DEF AfterReply, AllowLogin
      <4>1. pc'[t] = "reauth_check" /\ r = "s401"
        BY <1>0, <2>2, <3>4, <4>b, TranslatedClass DEF tr
      <4>2. QED
        BY Zenon, <2>1, <2>4, <3>1, <4>1, <2>b DEF ReplyAt, ReplyState, L, tr, F
    <3>5. CASE tr.err # "PermissionDenied" /\ F.retry /\ tr.err \in RetryClass
      <4>a. AfterReply(t, "data", tr, now)
        BY <2>1, <3>1
      <4>b. StartRetry(t, "data", now)
        BY <4>a, <3>5 DEF AfterReply, F
      <4>0. /\ pc'[t] = "retry_check"
            /\ frame' = [frame EXCEPT ![t]["data"].inRetry = TRUE,
                                      ![t]["data"].t1 = now,
                                      ![t]["data"].backoff = 1]
        BY <1>0, <4>b DEF StartRetry
      <4>c. frame'[t]["data"].inRetry
        BY <1>b, <4>0 DEF Levels, Frame
      <4>d. r \in {"s503", "s503bare", "refused"}
        BY <2>2, <3>5, TranslatedClass DEF tr
      <4>1. /\ pc'[t] = "retry_check" /\ frame'[t]["data"].inRetry
            /\ r \in {"s503", "s503bare", "refused"}
        BY <4>0, <4>c, <4>d
      <4>2. QED
        BY <2>1, <2>4, <3>1, <4>1, <2>b DEF ReplyAt, ReplyState, TransientReplies, L, tr, F
    <3>6. CASE tr.err # "PermissionDenied" /\ ~(F.retry /\ tr.err \in RetryClass)
      <4> DEFINE x == IF tr.api # NoApi THEN [api |-> tr.api, err |-> "none"]
                      ELSE [api |-> NoApi, err |-> tr.err]
      <4>a. AfterReply(t, "data", tr, now)
        BY <2>1, <3>1
      <4>b. DoReturn(t, "data", x)
        <5>1. CASE tr.api # NoApi
          <6>1. DoReturn(t, "data", [api |-> tr.api, err |-> "none"])
            BY <4>a, <3>6, <5>1 DEF AfterReply, F
          <6>2. QED
            BY <5>1, <6>1 DEF x
        <5>2. CASE tr.api = NoApi
          <6>1. DoReturn(t, "data", [api |-> NoApi, err |-> tr.err])
            BY <4>a, <3>6, <5>2 DEF AfterReply, F
          <6>2. QED
            BY <5>2, <6>1 DEF x
        <5>3. QED
          BY <5>1, <5>2
      <4>0. /\ pc'[t] = IF F.inRetry THEN "retry_eval" ELSE "done"
            /\ frame' = [frame EXCEPT ![t]["data"] = [F EXCEPT !.res = x]]
        BY <1>0, <4>b DEF DoReturn, DoReturnPc, BaseReturnPc, F
      <4>1. /\ pc'[t] = IF F.inRetry THEN "retry_eval" ELSE "done"
            /\ frame'[t]["data"] = [F EXCEPT !.res = x]
        BY Zenon, <1>0, <4>0, DataUpdate
      <4>2. x.api = 503 => r \in BusyReplies
        BY <2>2, TranslatedClass DEF L, tr, F, x
      <4>3. r \in BusyReplies => x.api = 503 /\ ~F.retry
        BY <2>2, <3>6, TranslatedClass DEF NoApi, L, tr, F, x
      <4>4. x.api # 503 => RetryStops(x)
        <5>1. CASE tr.api # NoApi
          BY <5>1 DEF RetryStops, L, tr, F, x
        <5>2. CASE tr.api = NoApi
          <6>1. tr.err \in Errors
            BY <3>3, <5>2 DEF Errors, L, tr, F, x
          <6>2. ~MentionsRefused(tr.err)
            BY <6>1, NoRefusedText DEF L, tr, F, x
          <6>3. QED
            BY <5>2, <6>2 DEF RetryStops, L, tr, F, x
        <5>3. QED
          BY <5>1, <5>2
      <4>5. ~F.retry /\ ~F.inRetry => reauths[t] > 0
        BY <2>1, <2>4, <2>b DEF ReplyAt, ReplyState, L, tr, F, x
      <4>6. QED
        BY <2>1, <2>4, <3>1, <3>3, <4>1, <4>2, <4>3, <4>4, <4>5, <2>b
        DEF ReplyAt, ReplyState, TransientReplies, BusyReplies, Frame, L, tr,
            F, x
    <3>7. QED
      BY <3>4, <3>5, <3>6
  <2>5. ReplyAt(t)'
    BY <2>3, <2>4
  <2>6. Others(t)
    BY Zenon, <1>0, <1>6, <2>0 DEF Send, AfterReply, DoReturn, StartRetry, Others
  <2>7. QED
    BY <1>a, <2>5, <2>6
<1>7. ASSUME NEW t \in Threads, RetryCheck(t) PROVE ReplyInv'
  <2>b. /\ ReplyAt(t) /\ (inLogin[t] => pc[t] \in LoginLabels)
        /\ (pc[t] \in {"lock", "login_end"} => inLogin[t])
        /\ inLogin[t] \in BOOLEAN /\ loginFrom[t] \in {"auth", "reauth"}
        /\ reauths[t] \in Nat /\ frame[t]["data"] \in Frame
    BY <1>0 DEF ReplyInv, LoginFrameInv, Levels
  <2> DEFINE F == frame[t]["data"]
  <2>1. /\ pc[t] = "retry_check"
        /\ UNCHANGED <<inLogin, loginFrom, lastReply, reauths>>
    BY <1>7 DEF RetryCheck, F
  <2>2. ASSUME inLogin[t] PROVE ReplyAt(t)'
    <3>1. frame'[t]["data"] = F /\ pc'[t] \in {"send", "login_end"}
      BY <1>0, <1>7, <2>2 DEF RetryCheck, RetryReturn, BaseReturnPc, Lvl,
          Levels, F
    <3>2. QED
      BY <2>1, <2>2, <3>1, <2>b DEF ReplyAt, ReplyState, F
  <2>3. ASSUME ~inLogin[t] PROVE ReplyAt(t)'
    <3>0. Lvl(t) = "data" /\ F \in Frame /\ F.inRetry
      BY <2>1, <2>3, <2>b DEF Lvl, ReplyAt, ReplyState, F
    <3>1. CASE clock[t] - F.t1 < RetryTimeout
      <4>1. /\ pc' = [pc EXCEPT ![t] = "send"]
            /\ frame' = [frame EXCEPT ![t]["data"].retry = FALSE]
        BY <1>7, <3>0, <3>1 DEF RetryCheck, F
      <4>2. pc'[t] = "send" /\ frame'[t]["data"].inRetry = F.inRetry
        <5>1. pc'[t] = "send"
          BY <1>0, <4>1
        <5>2. frame'[t]["data"].inRetry = F.inRetry
          BY <1>b, <4>1, RetryOffData DEF F
        <5>3. QED
          BY <5>1, <5>2
      <4>3. QED
        BY <2>1, <2>3, <3>0, <4>2, <2>b DEF ReplyAt, ReplyState, F
    <3>2. CASE ~(clock[t] - F.t1 < RetryTimeout)
      <4> DEFINE v == [api |-> NoApi, err |-> "ErrRetryTimeout"]
      <4>1. /\ pc' = [pc EXCEPT ![t] = "done"]
            /\ frame' = [frame EXCEPT ![t]["data"].inRetry = FALSE,
                                      ![t]["data"].res = v, ![t]["data"].t1 = 0,
                                      ![t]["data"].backoff = 1]
        BY Zenon, <1>7, <3>0, <3>2 DEF RetryCheck, RetryReturn, BaseReturnPc, F, v
      <4>2. pc'[t] = "done" /\ frame'[t]["data"].res = v
        <5>1. pc'[t] = "done"
          BY <1>0, <4>1
        <5>2. frame'[t]["data"].res = v
          BY <1>b, <4>1 DEF Levels, Frame
        <5>3. QED
          BY <5>1, <5>2
      <4>3. frame'[t]["data"].res.err = "ErrRetryTimeout"
        BY <4>2 DEF v
      <4>4. QED
        BY <2>1, <2>3, <4>2, <4>3, <2>b DEF ReplyAt, ReplyState
    <3>3. QED
      BY <3>1, <3>2
  <2>4. Others(t)
    BY <1>0, <1>7 DEF RetryCheck, RetryReturn, Others, F
  <2>5. QED
    BY <1>a, <2>2, <2>3, <2>4 DEF F
<1>8. ASSUME NEW t \in Threads, RetryEval(t) PROVE ReplyInv'
  <2>b. /\ ReplyAt(t) /\ (inLogin[t] => pc[t] \in LoginLabels)
        /\ (pc[t] \in {"lock", "login_end"} => inLogin[t])
        /\ inLogin[t] \in BOOLEAN /\ loginFrom[t] \in {"auth", "reauth"}
        /\ reauths[t] \in Nat /\ frame[t]["data"] \in Frame
    BY <1>0 DEF ReplyInv, LoginFrameInv, Levels
  <2> DEFINE F == frame[t]["data"]
  <2>1. /\ pc[t] = "retry_eval"
        /\ UNCHANGED <<inLogin, loginFrom, lastReply, reauths>>
    BY <1>8 DEF RetryEval, F
  <2>2. ASSUME inLogin[t] PROVE ReplyAt(t)'
    <3>1. frame'[t]["data"] = F /\ pc'[t] \in {"retry_check", "login_end"}
      BY <1>0, <1>8, <2>2 DEF RetryEval, RetryReturn, SleepBackoff,
         BaseReturnPc, Lvl, Levels, F
    <3>2. QED
      BY <2>1, <2>2, <3>1, <2>b DEF ReplyAt, ReplyState, F
  <2>3. ASSUME ~inLogin[t] /\ RetryStops(F.res) PROVE ReplyAt(t)'
    <3>0. Lvl(t) = "data" /\ F \in Frame
      BY <2>3, <2>b DEF Lvl, F
    <3>a. /\ pc' = [pc EXCEPT ![t] = "done"]
          /\ frame' = [frame EXCEPT ![t]["data"].inRetry = FALSE,
                                    ![t]["data"].res = F.res, ![t]["data"].t1 = 0,
                                    ![t]["data"].backoff = 1]
      BY Zenon, <1>8, <2>3, <3>0 DEF RetryEval, RetryReturn, BaseReturnPc, F
    <3>1. pc'[t] = "done" /\ frame'[t]["data"].res = F.res
      <4>1. pc'[t] = "done"
        BY <1>0, <3>a
      <4>2. frame'[t]["data"].res = F.res
        BY <1>b, <3>a DEF Levels, Frame
      <4>3. QED
        BY <4>1, <4>2
    <3>2. F.res.api # 503
      BY <2>3 DEF RetryStops, OK, NoApi, F
    <3>3. QED
      BY <2>1, <2>3, <3>1, <3>2, <2>b DEF ReplyAt, ReplyState, F
  <2>4. ASSUME ~inLogin[t] /\ ~RetryStops(F.res) PROVE ReplyAt(t)'
    <3>0. Lvl(t) = "data" /\ F \in Frame
      BY <2>4, <2>b DEF Lvl, F
    <3>a. /\ pc' = [pc EXCEPT ![t] = "retry_check"]
          /\ frame' = [frame EXCEPT ![t]["data"].backoff = @ + 1]
      BY <1>8, <2>4, <3>0 DEF RetryEval, SleepBackoff, F
    <3>1. pc'[t] = "retry_check" /\ frame'[t]["data"].inRetry = F.inRetry
      <4>1. pc'[t] = "retry_check"
        BY <1>0, <3>a
      <4>2. frame'[t]["data"].inRetry = F.inRetry
        BY <1>b, <3>a, BackoffData DEF F
      <4>3. QED
        BY <4>1, <4>2
    <3>2. QED
      BY <2>1, <2>4, <3>1, <2>b DEF ReplyAt, ReplyState, F
  <2>5. Others(t)
    BY <1>0, <1>8 DEF RetryEval, RetryReturn, SleepBackoff, Others, F
  <2>6. QED
    BY <1>a, <2>2, <2>3, <2>4, <2>5 DEF F
<1>9. ASSUME NEW t \in Threads, ReauthCheck(t) PROVE ReplyInv'
  <2>b. /\ ReplyAt(t) /\ (inLogin[t] => pc[t] \in LoginLabels)
        /\ (pc[t] \in {"lock", "login_end"} => inLogin[t])
        /\ inLogin[t] \in BOOLEAN /\ loginFrom[t] \in {"auth", "reauth"}
        /\ reauths[t] \in Nat /\ frame[t]["data"] \in Frame
    BY <1>0 DEF ReplyInv, LoginFrameInv, Levels
  <2> DEFINE F == frame[t]["data"]
  <2>1. /\ pc[t] = "reauth_check" /\ ~inLogin[t] /\ lastReply[t] = "s401"
        /\ UNCHANGED <<inLogin, loginFrom, lastReply, reauths>>
    BY <1>0, <1>9, <2>b DEF ReauthCheck, ReplyAt, ReplyState, LoginLabels, F
  <2>3. F \in Frame /\ Lvl(t) = "data"
    BY <1>0, <2>1 DEF Levels, Lvl, F
  <2>6. /\ inLogin'[t] = FALSE /\ lastReply'[t] = "s401"
        /\ loginFrom'[t] = loginFrom[t] /\ reauths'[t] = reauths[t]
        /\ (loginFrom[t] = "reauth" => reauths[t] > 0)
    BY <2>1, <2>b DEF ReplyAt, ReplyState
  <2>7. ReplyAt(t)' = ReplyState(pc'[t], FALSE, loginFrom[t], "s401",
                                 reauths[t], frame'[t]["data"])
    BY <2>6 DEF ReplyAt, ReplyState
  <2>2. ASSUME apikey # NoKey PROVE ReplyAt(t)'
    <3>1. pc'[t] = "logout"
      BY <1>0, <1>9, <2>2 DEF ReauthCheck
    <3>2. ReplyState("logout", FALSE, loginFrom[t], "s401", reauths[t],
                     frame'[t]["data"])
      BY <2>6 DEF ReplyState
    <3>3. QED
      BY Zenon, <3>1, <3>2, <2>7
  <2>4. ASSUME apikey = NoKey PROVE ReplyAt(t)'
    <3> DEFINE v == [api |-> 401, err |-> "none"]
    <3>a. DoReturn(t, Lvl(t), v)
      BY <1>9, <2>4 DEF ReauthCheck, v
    <3>0. DoReturn(t, "data", v)
      BY <3>a, <2>3
    <3>1. /\ pc' = [pc EXCEPT ![t] = IF F.inRetry THEN "retry_eval" ELSE "done"]
          /\ frame' = [frame EXCEPT ![t]["data"].res = v]
      BY <3>0 DEF DoReturn, DoReturnPc, BaseReturnPc, F
    <3> DEFINE G == frame'[t]["data"]
    <3>3. G.inRetry = F.inRetry /\ G.res = v
      BY <1>b, <3>1 DEF Levels, Frame, F, G
    <3>4. RetryStops(v) /\ v.api # 503 /\ "s401" \in TransientReplies
          /\ "s401" \notin BusyReplies
      BY DEF RetryStops, NoApi, TransientReplies, BusyReplies, v
    <3>5. CASE F.inRetry
      <4>1. pc'[t] = "retry_eval"
        BY <1>0, <3>1, <3>5
      <4>2. ReplyState("retry_eval", FALSE, loginFrom[t], "s401", reauths[t], G)
        BY <2>6, <3>3, <3>4, <3>5 DEF ReplyState
      <4>3. QED
        BY Zenon, <4>1, <4>2, <2>7 DEF G
    <3>6. CASE ~F.inRetry
      <4>1. pc'[t] = "done"
        BY <1>0, <3>1, <3>6
      <4>2. ReplyState("done", FALSE, loginFrom[t], "s401", reauths[t], G)
        BY <2>6, <3>4 DEF ReplyState
      <4>3. QED
        BY Zenon, <4>1, <4>2, <2>7 DEF G
    <3>7. QED
      BY <3>5, <3>6
  <2>5. Others(t)
    BY <1>0, <1>9 DEF ReauthCheck, DoReturn, Others, F
  <2>8. QED
    BY <1>a, <2>2, <2>4, <2>5
<1>10. ASSUME NEW t \in Threads, Logout(t) PROVE ReplyInv'
  <2>b. /\ ReplyAt(t) /\ (inLogin[t] => pc[t] \in LoginLabels)
        /\ (pc[t] \in {"lock", "login_end"} => inLogin[t])
        /\ inLogin[t] \in BOOLEAN /\ loginFrom[t] \in {"auth", "reauth"}
        /\ reauths[t] \in Nat /\ frame[t]["data"] \in Frame
    BY <1>0 DEF ReplyInv, LoginFrameInv, Levels
  <2>1. /\ pc[t] = "logout" /\ ~inLogin[t] /\ lastReply[t] = "s401"
        /\ pc'[t] = "lock" /\ inLogin'[t] /\ loginFrom'[t] = "reauth"
        /\ reauths'[t] = reauths[t] + 1 /\ reauths[t] \in Nat
        /\ UNCHANGED lastReply
    BY <1>0, <1>10, <2>b DEF Logout, ReplyAt, ReplyState, LoginLabels
  <2>2. ReplyAt(t)'
    BY <2>1 DEF ReplyAt, ReplyState
  <2>3. Others(t)
    BY <1>0, <1>10 DEF Logout, Others
  <2>4. QED
    BY <1>a, <2>2, <2>3
<1>11. ASSUME NEW t \in Threads, ReHeader(t) PROVE ReplyInv'
  <2>b. /\ ReplyAt(t) /\ (inLogin[t] => pc[t] \in LoginLabels)
        /\ (pc[t] \in {"lock", "login_end"} => inLogin[t])
        /\ inLogin[t] \in BOOLEAN /\ loginFrom[t] \in {"auth", "reauth"}
        /\ reauths[t] \in Nat /\ frame[t]["data"] \in Frame
    BY <1>0 DEF ReplyInv, LoginFrameInv, Levels
  <2>1. /\ pc[t] = "rehdr" /\ ~inLogin[t] /\ pc'[t] = "send"
        /\ UNCHANGED <<inLogin, loginFrom, lastReply, reauths>>
    BY <1>0, <1>11, <2>b DEF ReHeader, LoginLabels
  <2>2. lastReply[t] = "s401" /\ reauths[t] > 0
    BY <2>1, <2>b DEF ReplyAt, ReplyState
  <2>3. ReplyAt(t)'
    BY <2>1, <2>2, <2>b DEF ReplyAt, ReplyState, TransientReplies
  <2>4. Others(t)
    BY <1>0, <1>11 DEF ReHeader, Others
  <2>5. QED
    BY <1>a, <2>3, <2>4
<1>12. ASSUME NEW t \in Threads, Finish(t) PROVE ReplyInv'
  <2>b. /\ ReplyAt(t) /\ (inLogin[t] => pc[t] \in LoginLabels)
        /\ (pc[t] \in {"lock", "login_end"} => inLogin[t])
        /\ inLogin[t] \in BOOLEAN /\ loginFrom[t] \in {"auth", "reauth"}
        /\ reauths[t] \in Nat /\ frame[t]["data"] \in Frame
    BY <1>0 DEF ReplyInv, LoginFrameInv, Levels
  <2>1. /\ pc[t] = "done" /\ ~inLogin[t] /\ pc'[t] = "idle"
        /\ lastReply'[t] = "none" /\ loginFrom'[t] = "auth"
        /\ UNCHANGED inLogin
    BY <1>0, <1>12, <2>b DEF Finish, LoginLabels
  <2>2. ReplyAt(t)'
    BY <2>1 DEF ReplyAt, ReplyState
  <2>3. Others(t)
    BY <1>0, <1>12 DEF Finish, Others
  <2>4. QED
    BY <1>a, <2>2, <2>3
<1>13. CASE Expire
  BY <1>13 DEF Expire, ReplyInv, ReplyAt, ReplyState
<1>14. CASE UNCHANGED vars
  BY <1>14 DEF vars, ReplyInv, ReplyAt, ReplyState
<1>15. QED
  BY <1>1, <1>2, <1>3, <1>4, <1>5, <1>6, <1>7, <1>8, <1>9, <1>10, <1>11,
     <1>12, <1>13, <1>14 DEF Next, Progress
-----------------------------------------------------------------------------
(***************************************************************************)
(* ReplyInv holds in every reachable state.  It is inductive only relative *)
(* to IInv, which confines a goroutine inside Login to Login's labels and  *)
(* to the login frame; SessionInvariant supplies that.                     *)
(***************************************************************************)

\* Every goroutine's call is in a state its data replies can explain: the
\* reply do last decoded (lastReply) agrees with the step doWithAuth, do
\* and retry's loop are at, and with the result in the data frame.
THEOREM ReplyInvariant == Spec => []ReplyInv
<1>1. Init => ReplyInv
  BY Zenon DEF Init, ReplyInv, ReplyAt, ReplyState, InitFrame
<1>2. QED
  BY <1>1, ReplyStep, SessionInvariant, PTL DEF Spec

\* do sends a data request again only after a 503, a refused connection
\* (retry's loop, connection.go lines 268-289) or a 401 (doWithAuth's
\* re-authentication): no other reply reaches the send step again.
THEOREM RetryOnlyTransientHolds == Spec => []RetryOnlyTransient
<1>1. ReplyInv => RetryOnlyTransient
  BY DEF ReplyInv, ReplyAt, ReplyState, RetryOnlyTransient, TransientReplies
<1>2. QED
  BY <1>1, ReplyInvariant, PTL

\* A call whose last reply was a 503 returns to its caller only with
\* ErrRetryTimeout, once retry's budget is spent, or after a
\* re-authentication, whose replayed request do does not retry.
THEOREM BusyRepliesRetriedHolds == Spec => []BusyRepliesRetried
<1>1. ReplyInv => BusyRepliesRetried
  BY DEF ReplyInv, ReplyAt, ReplyState, BusyRepliesRetried, BusyReplies
<1>2. QED
  BY <1>1, ReplyInvariant, PTL
=============================================================================
