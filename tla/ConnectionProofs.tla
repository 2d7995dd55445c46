-------------------------- MODULE ConnectionProofs --------------------------
(***************************************************************************)
(* Proofs about Connection, for every number of goroutines, keys, calls    *)
(* and every retry budget.                                                 *)
(***************************************************************************)
EXTENDS Connection, TLAPS

\* translateErrors yields an Http value of ApiValues, and an error do may
\* return when no API error comes with it.
LEMMA TranslatedType ==
    ASSUME NEW r \in Replies
    PROVE  /\ Translated(r).api \in ApiValues
           /\ Translated(r).err \in {"none", "ConnectionError", "transport",
                                     "InvalidRequest", "PermissionDenied",
                                     "Retry503"}
           /\ Translated(r).api = NoApi =>
                  Translated(r).err \in {"none", "ConnectionError", "transport"}
<1> DEFINE tr == Translated(r)
<1>1. CASE r \in {"ok", "refused", "fatal"}
  BY <1>1 DEF Translated, ApiValues, NoApi
<1>2. CASE r \in {"s400", "s401", "s500", "s503", "s503bare"}
  <2>1. /\ StatusOf[r] \in {400, 401, 500, 503}
        /\ BodyHttp[r] \in {0, StatusOf[r]}
    BY <1>2 DEF StatusOf, BodyHttp
  <2>2. tr = [api |-> FillHttp(BodyHttp[r], StatusOf[r]),
              err |-> BadStatusOf(StatusOf[r])]
    BY <1>2 DEF Translated
  <2>3. FillHttp(BodyHttp[r], StatusOf[r]) \in {400, 401, 500, 503}
    BY <2>1 DEF FillHttp
  <2>4. BadStatusOf(StatusOf[r]) \in {"none", "InvalidRequest",
                                      "PermissionDenied", "Retry503"}
    BY <2>1 DEF BadStatusOf, badStatus
  <2>5. QED
    BY <2>2, <2>3, <2>4 DEF ApiValues, NoApi
<1>3. QED
  BY <1>1, <1>2 DEF Replies
\* The values do, retry and Login can return are results.
LEMMA ResultValues ==
    /\ OK \in Result
    /\ [api |-> NoApi, err |-> "ErrRetryTimeout"] \in Result
    /\ [api |-> 401, err |-> "none"] \in Result
BY DEF OK, Result, ApiValues, Errors, NoApi

\* The frame do and retry start from is a frame.
LEMMA InitFrameType == InitFrame \in Frame
BY ResultValues DEF Frame, InitFrame

FrameType == [Threads -> [Levels -> Frame]]

\* The frame of a goroutine at a level is a frame.
LEMMA FrameAt ==
    ASSUME NEW F \in FrameType, NEW t \in Threads, NEW L \in Levels
    PROVE  F[t][L] \in Frame
BY DEF FrameType

\* Replacing the frame of one goroutine at one level by a frame keeps the
\* frame function typed.
LEMMA FrameSet ==
    ASSUME NEW F \in FrameType, NEW t \in Threads, NEW L \in Levels,
           NEW g \in Frame
    PROVE  [F EXCEPT ![t][L] = g] \in FrameType
BY DEF FrameType

\* Login's and the call's locals die: their frames are reset.
LEMMA FrameReset ==
    ASSUME NEW F \in FrameType, NEW t \in Threads, NEW L \in Levels
    PROVE  /\ [F EXCEPT ![t][L] = InitFrame] \in FrameType
           /\ [F EXCEPT ![t] = [M \in Levels |-> InitFrame]] \in FrameType
<1>1. [F EXCEPT ![t][L] = InitFrame] \in FrameType
  BY InitFrameType, FrameSet
<1>2. [M \in Levels |-> InitFrame] \in [Levels -> Frame]
  BY InitFrameType
<1>3. QED
  BY <1>1, <1>2 DEF FrameType

\* The frame update made when do is entered with retry set and outside retry's loop keeps frame typed.
LEMMA FrameArm ==
    ASSUME NEW F \in FrameType, NEW t \in Threads, NEW L \in Levels
    PROVE  [F EXCEPT ![t][L].retry = TRUE, ![t][L].inRetry = FALSE] \in FrameType
<1> DEFINE g == [F[t][L] EXCEPT !.retry = TRUE, !.inRetry = FALSE]
<1>1. F[t][L] \in Frame
  BY FrameAt
<1>2. g \in Frame
  BY Zenon, <1>1 DEF Frame
<1>3. [F EXCEPT ![t][L].retry = TRUE, ![t][L].inRetry = FALSE] = [F EXCEPT ![t][L] = g]
  BY Zenon
<1>4. QED
  BY <1>2, <1>3, FrameSet

\* The frame update made when the next attempt of retry's loop and the replay run with retry unset keeps frame typed.
LEMMA FrameNoRetry ==
    ASSUME NEW F \in FrameType, NEW t \in Threads, NEW L \in Levels
    PROVE  [F EXCEPT ![t][L].retry = FALSE] \in FrameType
<1> DEFINE g == [F[t][L] EXCEPT !.retry = FALSE]
<1>1. F[t][L] \in Frame
  BY FrameAt
<1>2. g \in Frame
  BY Zenon, <1>1 DEF Frame
<1>3. [F EXCEPT ![t][L].retry = FALSE] = [F EXCEPT ![t][L] = g]
  OBVIOUS
<1>4. QED
  BY Zenon, <1>2, <1>3, FrameSet

\* The frame update made when do returns a result keeps frame typed.
LEMMA FrameRes ==
    ASSUME NEW F \in FrameType, NEW t \in Threads, NEW L \in Levels, NEW x \in Result
    PROVE  [F EXCEPT ![t][L].res = x] \in FrameType
<1> DEFINE g == [F[t][L] EXCEPT !.res = x]
<1>1. F[t][L] \in Frame
  BY FrameAt
<1>2. g \in Frame
  BY <1>1 DEF Frame
<1>3. [F EXCEPT ![t][L].res = x] = [F EXCEPT ![t][L] = g]
  OBVIOUS
<1>4. QED
  BY <1>2, <1>3, FrameSet

\* The frame update made when retry returns a result keeps frame typed.
LEMMA FrameRetryReturn ==
    ASSUME NEW F \in FrameType, NEW t \in Threads, NEW L \in Levels, NEW x \in Result
    PROVE  [F EXCEPT ![t][L].inRetry = FALSE, ![t][L].res = x,
                           ![t][L].t1 = 0, ![t][L].backoff = 1] \in FrameType
<1> DEFINE g == [F[t][L] EXCEPT !.inRetry = FALSE, !.res = x, !.t1 = 0,
                           !.backoff = 1]
<1>1. F[t][L] \in Frame
  BY FrameAt
<1>2. g \in Frame
  BY Zenon, <1>1 DEF Frame
<1>3. [F EXCEPT ![t][L].inRetry = FALSE, ![t][L].res = x,
                           ![t][L].t1 = 0, ![t][L].backoff = 1] = [F EXCEPT ![t][L] = g]
  BY Zenon
<1>4. QED
  BY <1>2, <1>3, FrameSet

\* The frame update made when retry's loop is entered keeps frame typed.
LEMMA FrameStartRetry ==
    ASSUME NEW F \in FrameType, NEW t \in Threads, NEW L \in Levels, NEW n \in Nat
    PROVE  [F EXCEPT ![t][L].inRetry = TRUE, ![t][L].t1 = n,
                           ![t][L].backoff = 1] \in FrameType
<1> DEFINE g == [F[t][L] EXCEPT !.inRetry = TRUE, !.t1 = n, !.backoff = 1]
<1>1. F[t][L] \in Frame
  BY FrameAt
<1>2. g \in Frame
  BY Zenon, <1>1 DEF Frame
<1>3. [F EXCEPT ![t][L].inRetry = TRUE, ![t][L].t1 = n,
                           ![t][L].backoff = 1] = [F EXCEPT ![t][L] = g]
  BY Zenon
<1>4. QED
  BY <1>2, <1>3, FrameSet

\* The frame update made when retry's loop raises its backoff keeps frame typed.
LEMMA FrameBackoff ==
    ASSUME NEW F \in FrameType, NEW t \in Threads, NEW L \in Levels
    PROVE  [F EXCEPT ![t][L].backoff = @ + 1] \in FrameType
<1> DEFINE g == [F[t][L] EXCEPT !.backoff = @ + 1]
<1>1. F[t][L] \in Frame
  BY FrameAt
<1>2. g \in Frame
  BY <1>1 DEF Frame
<1>3. [F EXCEPT ![t][L].backoff = @ + 1] = [F EXCEPT ![t][L] = g]
  OBVIOUS
<1>4. QED
  BY <1>2, <1>3, FrameSet

-----------------------------------------------------------------------------
(***************************************************************************)
(* Type correctness.                                                       *)
(***************************************************************************)

\* A goroutine runs at Login's level or at its call's level.
LEMMA LvlType == ASSUME NEW t \in Threads, inLogin \in [Threads -> BOOLEAN]
                 PROVE  Lvl(t) \in Levels
BY DEF Lvl, Levels

\* Every step keeps the type invariant.
LEMMA TypeOKStep == TypeOK /\ [Next]_vars => TypeOK'
<1> SUFFICES ASSUME TypeOK, [Next]_vars PROVE TypeOK'
  OBVIOUS
<1> USE ConstAssumption
<1>0. frame \in FrameType
  BY DEF TypeOK, FrameType
<1>1. ASSUME NEW t \in Threads, Start(t) PROVE TypeOK'
  BY <1>1 DEF Start, TypeOK, Labels
<1>2. ASSUME NEW t \in Threads, AuthCheck(t) PROVE TypeOK'
  BY Zenon, <1>2 DEF AuthCheck, TypeOK, Labels
<1>3. ASSUME NEW t \in Threads, SetHeaders(t) PROVE TypeOK'
  <2>1. frame' = [frame EXCEPT ![t]["data"].retry = TRUE,
                               ![t]["data"].inRetry = FALSE]
    BY <1>3 DEF SetHeaders
  <2>2. frame' \in FrameType
    BY Zenon, <1>0, <2>1, FrameArm DEF Levels
  <2>3. QED
    BY <1>3, <2>2 DEF SetHeaders, TypeOK, FrameType, Labels
<1>4. ASSUME NEW t \in Threads, LoginLock(t) PROVE TypeOK'
  <2>1. CASE apikey # NoKey
    <3>1. frame' = frame /\ pc' \in [Threads -> Labels]
      BY Zenon, <1>4, <2>1 DEF LoginLock, LoginResume, TypeOK, Labels
    <3>2. QED
      BY Zenon, <1>4, <2>1, <3>1 DEF LoginLock, LoginResume, TypeOK
  <2>2. CASE apikey = NoKey
    <3>1. frame' = [frame EXCEPT ![t]["login"].retry = TRUE,
                                 ![t]["login"].inRetry = FALSE]
      BY Zenon, <1>4, <2>2 DEF LoginLock
    <3>2. frame' \in FrameType
      BY Zenon, <1>0, <3>1, FrameArm DEF Levels
    <3>3. /\ owner' = t /\ lkey' = [lkey EXCEPT ![t] = NoKey]
          /\ pc' = [pc EXCEPT ![t] = "send"]
          /\ UNCHANGED <<apikey, sessions, nextKey, inLogin, loginFrom, hdr,
                         clock, calls, lastReply, reauths>>
      BY <1>4, <2>2 DEF LoginLock
    <3>4. QED
      BY <3>2, <3>3 DEF TypeOK, FrameType, Labels, NoKey
  <2>3. QED
    BY <2>1, <2>2
<1>5. ASSUME NEW t \in Threads, LoginEnd(t) PROVE TypeOK'
  <2> DEFINE r == frame[t]["login"].res
             fr == [frame EXCEPT ![t]["login"] = InitFrame]
  <2>1. frame[t]["login"] \in Frame
    BY <1>0, FrameAt DEF Levels
  <2>2. r \in Result
    BY <2>1 DEF Frame
  <2>3. fr \in FrameType
    BY Zenon, <1>0, FrameReset DEF Levels
  <2>4. frame' = IF r = OK THEN fr ELSE [fr EXCEPT ![t]["data"].res = r]
    BY <1>5 DEF LoginEnd, LoginResume
  <2>5. frame' \in FrameType
    BY Zenon, <2>2, <2>3, <2>4, FrameRes DEF Levels
  <2>6. pc' \in [Threads -> Labels]
    BY <1>5 DEF LoginEnd, LoginResume, DoReturnPc, BaseReturnPc, TypeOK,
       Labels
  <2>7. apikey' \in 0..MaxKeys
    BY <1>5 DEF LoginEnd, TypeOK, NoKey
  <2>8. QED
    BY <1>5, <2>5, <2>6, <2>7 DEF LoginEnd, LoginResume, TypeOK, FrameType,
       NoKey
<1>6. ASSUME NEW t \in Threads, Send(t) PROVE TypeOK'
  <2>0. PICK r \in ServerReplies(t), d \in AttemptTime :
        LET L == Lvl(t)
            now == clock[t] + d
        IN  /\ clock' = [clock EXCEPT ![t] = now]
            /\ IF L = "login" /\ r = "ok"
               THEN /\ lkey' = [lkey EXCEPT ![t] = nextKey]
                    /\ sessions' = sessions \cup {nextKey}
                    /\ nextKey' = nextKey + 1
               ELSE UNCHANGED <<lkey, sessions, nextKey>>
            /\ lastReply' = IF L = "data"
                            THEN [lastReply EXCEPT ![t] = r]
                            ELSE lastReply
            /\ AfterReply(t, L, Translated(r), now)
    BY Zenon, <1>6 DEF Send
  <2> DEFINE L == Lvl(t)
             tr == Translated(r)
             now == clock[t] + d
  <2>1. r \in Replies /\ (L = "login" /\ r = "ok" => nextKey <= MaxKeys)
    BY DEF ServerReplies, TypeOK, Replies, TransportFailures
  <2>2. L \in Levels /\ now \in Nat
    BY LvlType DEF TypeOK
  <2>3. /\ tr.api \in ApiValues
        /\ tr.api = NoApi => tr.err \in {"none", "ConnectionError", "transport"}
    BY <2>1, TranslatedType
  <2>4. /\ [api |-> tr.api, err |-> "none"] \in Result
        /\ tr.api = NoApi => [api |-> NoApi, err |-> tr.err] \in Result
    BY <2>3 DEF Result, Errors
  <2>5. /\ clock' \in [Threads -> Nat]
        /\ lkey' \in [Threads -> 0..MaxKeys]
        /\ sessions' \subseteq Keys
        /\ nextKey' \in 1..(MaxKeys + 1)
        /\ lastReply' \in [Threads -> Replies \cup {"none"}]
    <3>1. clock' \in [Threads -> Nat] /\ lastReply' \in [Threads -> Replies \cup {"none"}]
      BY <2>0, <2>1, <2>2 DEF TypeOK
    <3>2. CASE L = "login" /\ r = "ok"
      <4>1. /\ lkey' = [lkey EXCEPT ![t] = nextKey]
            /\ sessions' = sessions \cup {nextKey}
            /\ nextKey' = nextKey + 1
        BY <2>0, <3>2
      <4>2. QED
        BY <2>1, <3>1, <3>2, <4>1 DEF TypeOK, Keys
    <3>3. CASE ~(L = "login" /\ r = "ok")
      <4>1. UNCHANGED <<lkey, sessions, nextKey>>
        BY <2>0, <3>3
      <4>2. QED
        BY <3>1, <4>1 DEF TypeOK
    <3>4. QED
      BY <3>2, <3>3
  <2>6. DoReturnPc(t, L) \in Labels
    BY DEF DoReturnPc, BaseReturnPc, Labels
  <2>9. AfterReply(t, L, tr, now)
    BY <2>0
  <2>7. pc' \in [Threads -> Labels] /\ frame' \in FrameType
    <3>0. \/ pc' = [pc EXCEPT ![t] = "reauth_check"] /\ frame' = frame
          \/ DoReturn(t, L, [api |-> tr.api, err |-> "none"])
          \/ StartRetry(t, L, now)
          \/ tr.api = NoApi /\ DoReturn(t, L, [api |-> NoApi, err |-> tr.err])
      BY <2>9 DEF AfterReply
    <3>1. CASE pc' = [pc EXCEPT ![t] = "reauth_check"] /\ frame' = frame
      BY <1>0, <3>1 DEF TypeOK, Labels
    <3>2. CASE DoReturn(t, L, [api |-> tr.api, err |-> "none"])
      BY Zenon, <1>0, <3>2, <2>2, <2>4, <2>6, FrameRes DEF DoReturn, TypeOK
    <3>3. CASE StartRetry(t, L, now)
      BY Zenon, <1>0, <3>3, <2>2, FrameStartRetry DEF StartRetry, TypeOK, Labels
    <3>4. CASE tr.api = NoApi /\ DoReturn(t, L, [api |-> NoApi, err |-> tr.err])
      BY Zenon, <1>0, <3>4, <2>2, <2>4, <2>6, FrameRes DEF DoReturn, TypeOK
    <3>5. QED
      BY <3>0, <3>1, <3>2, <3>3, <3>4
  <2>8. QED
    BY <1>6, <2>5, <2>7 DEF Send, TypeOK, FrameType
<1>7. ASSUME NEW t \in Threads, RetryCheck(t) PROVE TypeOK'
  <2> DEFINE L == Lvl(t)
  <2>1. L \in Levels
    BY LvlType DEF TypeOK
  <2>2. CASE clock[t] - frame[t][L].t1 < RetryTimeout
    <3>1. frame' = [frame EXCEPT ![t][L].retry = FALSE]
          /\ pc' = [pc EXCEPT ![t] = "send"]
      BY <1>7, <2>2 DEF RetryCheck
    <3>2. QED
      BY Zenon, <1>0, <1>7, <2>1, <3>1, FrameNoRetry DEF RetryCheck, TypeOK,
         FrameType, Labels
  <2>3. CASE ~(clock[t] - frame[t][L].t1 < RetryTimeout)
    <3>1. RetryReturn(t, L, [api |-> NoApi, err |-> "ErrRetryTimeout"])
      BY <1>7, <2>3 DEF RetryCheck
    <3>2. frame' \in FrameType /\ pc' \in [Threads -> Labels]
      BY Zenon, <1>0, <2>1, <3>1, ResultValues, FrameRetryReturn DEF RetryReturn,
         BaseReturnPc, TypeOK, Labels
    <3>3. QED
      BY <1>7, <3>2 DEF RetryCheck, TypeOK, FrameType
  <2>4. QED
    BY <2>2, <2>3
<1>8. ASSUME NEW t \in Threads, RetryEval(t) PROVE TypeOK'
  <2> DEFINE L == Lvl(t)
             r == frame[t][L].res
  <2>1. L \in Levels
    BY LvlType DEF TypeOK
  <2>2. frame[t][L] \in Frame
    BY <1>0, <2>1, FrameAt
  <2>3. r \in Result /\ frame[t][L].backoff \in Nat
    BY <2>2 DEF Frame
  <2>4. CASE RetryStops(r)
    <3>1. RetryReturn(t, L, r) /\ UNCHANGED clock
      BY <1>8, <2>4 DEF RetryEval
    <3>2. frame' \in FrameType /\ pc' \in [Threads -> Labels]
      BY Zenon, <1>0, <2>1, <2>3, <3>1, FrameRetryReturn DEF RetryReturn,
         BaseReturnPc, TypeOK, Labels
    <3>3. QED
      BY <1>8, <3>1, <3>2 DEF RetryEval, TypeOK, FrameType
  <2>5. CASE ~RetryStops(r)
    <3>1. /\ clock' = [clock EXCEPT ![t] = @ + frame[t][L].backoff
                                               * frame[t][L].backoff]
          /\ frame' = [frame EXCEPT ![t][L].backoff = @ + 1]
          /\ pc' = [pc EXCEPT ![t] = "retry_check"]
      BY <1>8, <2>5 DEF RetryEval, SleepBackoff
    <3>2. frame' \in FrameType
      BY Zenon, <1>0, <2>1, <3>1, FrameBackoff
    <3>3. clock' \in [Threads -> Nat]
      <4>1. frame[t][L].backoff * frame[t][L].backoff \in Nat
        BY <2>3
      <4>2. clock[t] \in Nat
        BY DEF TypeOK
      <4>3. QED
        BY <3>1, <4>1, <4>2 DEF TypeOK
    <3>4. QED
      BY <1>8, <3>1, <3>2, <3>3 DEF RetryEval, TypeOK, FrameType, Labels
  <2>6. QED
    BY <2>4, <2>5
<1>9. ASSUME NEW t \in Threads, ReauthCheck(t) PROVE TypeOK'
  <2>1. Lvl(t) \in Levels
    BY LvlType DEF TypeOK
  <2>2. DoReturnPc(t, Lvl(t)) \in Labels
    BY DEF DoReturnPc, BaseReturnPc, Labels
  <2>3. CASE apikey # NoKey
    BY Zenon, <1>9, <2>3 DEF ReauthCheck, TypeOK, Labels
  <2>4. CASE apikey = NoKey
    <3>1. DoReturn(t, Lvl(t), [api |-> 401, err |-> "none"])
      BY <1>9, <2>4 DEF ReauthCheck
    <3> DEFINE L == Lvl(t)
               x == [api |-> 401, err |-> "none"]
    <3>2. /\ frame' = [frame EXCEPT ![t][L].res = x]
          /\ pc' = [pc EXCEPT ![t] = DoReturnPc(t, L)]
      BY <3>1 DEF DoReturn
    <3>3. x \in Result /\ L \in Levels
      BY <2>1, ResultValues
    <3>4. [frame EXCEPT ![t][L].res = x] \in FrameType
      BY <1>0, <3>3, FrameRes
    <3>5. frame' \in FrameType
      BY <3>2, <3>4
    <3>6. pc' \in [Threads -> Labels]
      BY <2>2, <3>2 DEF TypeOK
    <3>7. QED
      BY <1>9, <2>4, <3>5, <3>6 DEF ReauthCheck, TypeOK, FrameType
  <2>5. QED
    BY <2>3, <2>4
<1>10. ASSUME NEW t \in Threads, Logout(t) PROVE TypeOK'
  BY <1>10 DEF Logout, TypeOK, Labels, NoKey
<1>11. ASSUME NEW t \in Threads, ReHeader(t) PROVE TypeOK'
  <2>1. frame' = [frame EXCEPT ![t]["data"].retry = FALSE]
    BY <1>11 DEF ReHeader
  <2>2. frame' \in FrameType
    BY Zenon, <1>0, <2>1, FrameNoRetry DEF Levels
  <2>3. QED
    BY <1>11, <2>2 DEF ReHeader, TypeOK, FrameType, Labels
<1>12. ASSUME NEW t \in Threads, Finish(t) PROVE TypeOK'
  <2>1. frame' = [frame EXCEPT ![t] = [L \in Levels |-> InitFrame]]
    BY <1>12 DEF Finish
  <2>2. frame' \in FrameType
    BY Zenon, <1>0, <2>1, FrameReset DEF Levels
  <2>3. QED
    BY <1>12, <2>2 DEF Finish, TypeOK, FrameType, Labels, NoKey, Replies
<1>13. CASE Expire
  BY <1>13 DEF Expire, TypeOK
<1>14. CASE UNCHANGED vars
  BY <1>14 DEF vars, TypeOK
<1>15. QED
  BY <1>1, <1>2, <1>3, <1>4, <1>5, <1>6, <1>7, <1>8, <1>9, <1>10, <1>11,
     <1>12, <1>13, <1>14 DEF Next, Progress

\* Type correctness: every reachable state satisfies TypeOK.
THEOREM TypeCorrect == Spec => []TypeOK
<1>1. Init => TypeOK
  BY ConstAssumption, ResultValues, InitFrameType DEF Init, TypeOK,
     Labels, Levels, NoKey, Replies
<1>2. QED
  BY <1>1, TypeOKStep, PTL DEF Spec
-----------------------------------------------------------------------------
(***************************************************************************)
(* The session invariant.  IInv (Connection) adds to TypeOK that only      *)
(* Login's steps run at the login level, that the writer of c.m is the     *)
(* goroutine inside Login past Lock(), that apikey is empty while it holds *)
(* c.m and that the key its do decoded is the server's latest.  KeyFresh   *)
(* alone is not inductive: a login reply advances nextKey, and only        *)
(* HeldKeyInv says that apikey is empty then.                              *)
(***************************************************************************)

SessionInv == LoginFrameInv /\ WriterInv /\ HeldKeyInv /\ KeyFresh

\* The steps of the goroutine that holds c.m are Login's, past Lock().
LEMMA OwnerInLogin ==
    ASSUME TypeOK, LoginFrameInv, WriterInv, NEW t \in Threads, owner = t
    PROVE  inLogin[t] /\ pc[t] \in LoginLabels \ {"lock"}
BY DEF WriterInv, LoginFrameInv

\* Every step keeps the session invariant.
LEMMA SessionStep == IInv /\ [Next]_vars => SessionInv'
<1> SUFFICES ASSUME TypeOK, SessionInv, [Next]_vars PROVE SessionInv'
  BY DEF IInv, SessionInv
<1> USE ConstAssumption DEF SessionInv
<1>1. ASSUME NEW t \in Threads, Start(t) PROVE SessionInv'
  BY <1>1 DEF Start, LoginFrameInv, WriterInv, HeldKeyInv, KeyFresh,
     LoginLabels, TypeOK
<1>2. ASSUME NEW t \in Threads, AuthCheck(t) PROVE SessionInv'
  <2>1. ~inLogin[t] /\ owner # t
    BY <1>2 DEF AuthCheck, LoginFrameInv, LoginLabels, TypeOK
  <2>2. CASE apikey # NoKey
    BY <1>2, <2>1, <2>2 DEF AuthCheck, LoginFrameInv, WriterInv, HeldKeyInv,
       KeyFresh, LoginLabels, TypeOK
  <2>3. CASE apikey = NoKey
    BY <1>2, <2>1, <2>3 DEF AuthCheck, LoginFrameInv, WriterInv, HeldKeyInv,
       KeyFresh, LoginLabels, TypeOK
  <2>4. QED
    BY <2>2, <2>3
<1>3. ASSUME NEW t \in Threads, SetHeaders(t) PROVE SessionInv'
  BY <1>3 DEF SetHeaders, LoginFrameInv, WriterInv, HeldKeyInv, KeyFresh,
     LoginLabels, TypeOK
<1>4. ASSUME NEW t \in Threads, LoginLock(t) PROVE SessionInv'
  <2>1. inLogin[t] /\ owner = NoThread
    BY <1>4 DEF LoginLock, CanLock, LoginFrameInv
  <2>2. \A u \in Threads : ~(inLogin[u] /\ pc[u] # "lock")
    BY <2>1 DEF WriterInv, TypeOK
  <2>3. CASE apikey # NoKey
    <3>1. /\ inLogin' = [inLogin EXCEPT ![t] = FALSE]
          /\ pc'[t] \in {"hdr", "rehdr"}
          /\ pc' = [pc EXCEPT ![t] = pc'[t]]
          /\ UNCHANGED <<owner, lkey, apikey, nextKey>>
      BY <1>4, <2>3 DEF LoginLock, LoginResume, ResultValues, TypeOK
    <3>2. QED
      BY <2>1, <2>2, <3>1 DEF LoginFrameInv, WriterInv, HeldKeyInv, KeyFresh,
         LoginLabels, TypeOK
  <2>4. CASE apikey = NoKey
    <3>1. /\ owner' = t
          /\ lkey' = [lkey EXCEPT ![t] = NoKey]
          /\ pc' = [pc EXCEPT ![t] = "send"]
          /\ UNCHANGED <<inLogin, apikey, nextKey>>
      BY <1>4, <2>4 DEF LoginLock
    <3>2. \A u \in Threads : lkey[u] = NoKey
      BY <2>1 DEF HeldKeyInv, TypeOK
    <3>3. QED
      BY <2>1, <2>2, <2>4, <3>1, <3>2 DEF LoginFrameInv, WriterInv,
         HeldKeyInv, KeyFresh, LoginLabels, TypeOK
  <2>5. QED
    BY <2>3, <2>4
<1>5. ASSUME NEW t \in Threads, LoginEnd(t) PROVE SessionInv'
  BY <1>5 DEF LoginEnd, LoginResume, DoReturnPc, BaseReturnPc, LoginFrameInv,
     WriterInv, HeldKeyInv, KeyFresh, LoginLabels, TypeOK
<1>6. ASSUME NEW t \in Threads, Send(t) PROVE SessionInv'
  <2>0. PICK r \in ServerReplies(t), d \in AttemptTime :
          LET L == Lvl(t)
              now == clock[t] + d
          IN  /\ clock' = [clock EXCEPT ![t] = now]
              /\ IF L = "login" /\ r = "ok"
                 THEN /\ lkey' = [lkey EXCEPT ![t] = nextKey]
                      /\ sessions' = sessions \cup {nextKey}
                      /\ nextKey' = nextKey + 1
                 ELSE UNCHANGED <<lkey, sessions, nextKey>>
              /\ lastReply' = IF L = "data"
                              THEN [lastReply EXCEPT ![t] = r]
                              ELSE lastReply
              /\ AfterReply(t, L, Translated(r), now)
    BY Zenon, <1>6 DEF Send
  <2> DEFINE L == Lvl(t)
             tr == Translated(r)
             now == clock[t] + d
             Next1 == IF inLogin[t]
                      THEN {"retry_eval", "login_end", "retry_check"}
                      ELSE {"reauth_check", "retry_eval", "done",
                            "retry_check"}
  <2>1. UNCHANGED <<owner, inLogin, apikey>> /\ pc[t] = "send"
    BY <1>6 DEF Send
  <2>2. DoReturnPc(t, L) \in Next1
    BY DEF DoReturnPc, BaseReturnPc, Lvl
  <2>3. pc' = [pc EXCEPT ![t] = pc'[t]] /\ pc'[t] \in Next1
    <3>1. AfterReply(t, L, tr, now)
      BY <2>0
    <3>2. \/ /\ tr.err = "PermissionDenied" /\ AllowLogin(L)
             /\ pc' = [pc EXCEPT ![t] = "reauth_check"]
          \/ pc' = [pc EXCEPT ![t] = DoReturnPc(t, L)]
          \/ pc' = [pc EXCEPT ![t] = "retry_check"]
      BY <3>1 DEF AfterReply, DoReturn, StartRetry
    <3>3. QED
      BY <2>2, <3>2 DEF AllowLogin, Lvl, TypeOK
  <2>4. LoginFrameInv' /\ WriterInv'
    BY <2>1, <2>3 DEF LoginFrameInv, WriterInv, LoginLabels, TypeOK
  <2>5. CASE L = "login" /\ r = "ok"
    <3>1. /\ lkey' = [lkey EXCEPT ![t] = nextKey]
          /\ nextKey' = nextKey + 1
      BY <2>0, <2>5
    <3>2. inLogin[t] /\ owner = t
      BY <2>1, <2>5 DEF Lvl, WriterInv
    <3>3. apikey = NoKey /\ \A u \in Threads \ {t} : lkey[u] = NoKey
      BY <3>2, ConstAssumption DEF HeldKeyInv, TypeOK
    <3>4. QED
      BY <2>1, <2>4, <3>1, <3>2, <3>3 DEF HeldKeyInv, KeyFresh, TypeOK
  <2>6. CASE ~(L = "login" /\ r = "ok")
    <3>1. UNCHANGED <<lkey, nextKey>>
      BY <2>0, <2>6
    <3>2. QED
      BY <2>1, <2>4, <3>1 DEF HeldKeyInv, KeyFresh
  <2>7. QED
    BY <2>5, <2>6
<1>7. ASSUME NEW t \in Threads, RetryCheck(t) PROVE SessionInv'
  <2> DEFINE L == Lvl(t)
  <2>1. UNCHANGED <<owner, inLogin, apikey, lkey, nextKey>>
        /\ pc[t] = "retry_check"
    BY <1>7 DEF RetryCheck
  <2>2. CASE clock[t] - frame[t][L].t1 < RetryTimeout
    <3>1. pc' = [pc EXCEPT ![t] = "send"]
      BY <1>7, <2>2 DEF RetryCheck
    <3>2. QED
      BY <2>1, <3>1 DEF LoginFrameInv, WriterInv, HeldKeyInv, KeyFresh,
         LoginLabels, TypeOK
  <2>3. CASE ~(clock[t] - frame[t][L].t1 < RetryTimeout)
    <3>1. pc' = [pc EXCEPT ![t] = BaseReturnPc(L)]
      BY <1>7, <2>3 DEF RetryCheck, RetryReturn
    <3>2. QED
      BY <2>1, <3>1 DEF BaseReturnPc, Lvl, LoginFrameInv, WriterInv,
         HeldKeyInv, KeyFresh, LoginLabels, TypeOK
  <2>4. QED
    BY <2>2, <2>3
<1>8. ASSUME NEW t \in Threads, RetryEval(t) PROVE SessionInv'
  BY <1>8 DEF RetryEval, RetryReturn, SleepBackoff, BaseReturnPc, Lvl,
     LoginFrameInv, WriterInv, HeldKeyInv, KeyFresh, LoginLabels, TypeOK
<1>9. ASSUME NEW t \in Threads, ReauthCheck(t) PROVE SessionInv'
  BY <1>9 DEF ReauthCheck, DoReturn, DoReturnPc, BaseReturnPc, Lvl,
     LoginFrameInv, WriterInv, HeldKeyInv, KeyFresh, LoginLabels, TypeOK
<1>10. ASSUME NEW t \in Threads, Logout(t) PROVE SessionInv'
  BY <1>10 DEF Logout, LoginFrameInv, WriterInv, HeldKeyInv, KeyFresh,
     LoginLabels, TypeOK
<1>11. ASSUME NEW t \in Threads, ReHeader(t) PROVE SessionInv'
  BY <1>11 DEF ReHeader, LoginFrameInv, WriterInv, HeldKeyInv, KeyFresh,
     LoginLabels, TypeOK
<1>12. ASSUME NEW t \in Threads, Finish(t) PROVE SessionInv'
  BY <1>12 DEF Finish, LoginFrameInv, WriterInv, HeldKeyInv, KeyFresh,
     LoginLabels, TypeOK
<1>13. CASE Expire
  BY <1>13 DEF Expire, LoginFrameInv, WriterInv, HeldKeyInv, KeyFresh
<1>14. CASE UNCHANGED vars
  BY <1>14 DEF vars, LoginFrameInv, WriterInv, HeldKeyInv, KeyFresh
<1>15. QED
  BY <1>1, <1>2, <1>3, <1>4, <1>5, <1>6, <1>7, <1>8, <1>9, <1>10, <1>11,
     <1>12, <1>13, <1>14 DEF Next, Progress

\* IInv holds in every reachable state.
THEOREM SessionInvariant == Spec => []IInv
<1>1. Init => IInv
  BY ConstAssumption, ResultValues, InitFrameType DEF Init, IInv, TypeOK,
     LoginFrameInv, WriterInv, HeldKeyInv, KeyFresh, Labels, Levels, NoKey,
     Replies
<1>2. IInv /\ [Next]_vars => IInv'
  BY TypeOKStep, SessionStep DEF IInv, SessionInv
<1>3. QED
  BY <1>1, <1>2, PTL DEF Spec

\* The connection's session token is always the key of the latest login the
\* server granted: Login's Lock serialises the decode of login.Key and its
\* store into c.apikey (connection.go lines 539-570), so no slow Login
\* overwrites a fresher key.
THEOREM KeyFreshness == Spec => []KeyFresh
BY SessionInvariant, PTL DEF IInv

\* No goroutine waits for c.m while holding it: the goroutine that holds
\* the write lock runs only Login's steps past Lock(), and none of them
\* takes c.m, because Login's own do runs with allowLogin false (lines
\* 380-384 and 562).
THEOREM SelfDeadlockFree == Spec => []NoSelfDeadlock
<1>1. IInv => NoSelfDeadlock
  BY OwnerInLogin DEF IInv, NoSelfDeadlock, LockSteps, LoginLabels
<1>2. QED
  BY <1>1, SessionInvariant, PTL
=============================================================================
