-------------------------- MODULE RefinementProofs --------------------------
(***************************************************************************)
(* The connection implements AbstractCall under the mapping Abs of         *)
(* Connection, for every number of goroutines, keys and calls and every    *)
(* retry budget.  The argument needs, besides the session invariant IInv,  *)
(* LoginKeyInv: a Login whose do failed holds no decoded key, so LoginEnd  *)
(* never stores a key in the step in which the call completes.             *)
(***************************************************************************)
EXTENDS ConnectionProofs

\* A step of goroutine t that leaves the other goroutines' keys, frames and
\* labels alone keeps LoginKeyInv if it keeps it for t.
LEMMA KeyFrame ==
    ASSUME TypeOK, LoginKeyInv, NEW t \in Threads,
           lkey' \in [Threads -> 0..MaxKeys],
           \A u \in Threads \ {t} : /\ lkey'[u] = lkey[u]
                                    /\ frame'[u] = frame[u]
                                    /\ pc'[u] = pc[u],
           lkey'[t] # NoKey => /\ frame'[t]["login"].res = OK
                               /\ pc'[t] \in {"retry_eval", "login_end"}
    PROVE  LoginKeyInv'
BY Zenon DEF LoginKeyInv, TypeOK

\* Outside retry's loop evaluation and LoginEnd, a goroutine holds no key.
LEMMA NoKeyElsewhere ==
    ASSUME LoginKeyInv, NEW t \in Threads,
           pc[t] \notin {"retry_eval", "login_end"}
    PROVE  lkey[t] = NoKey
BY DEF LoginKeyInv

\* translateErrors of a successful reply is success, and do returns it.
LEMMA TranslatedOk == Translated("ok") = OK
BY DEF Translated, OK

\* Every step keeps LoginKeyInv.
LEMMA LoginKeyStep == IInv /\ LoginKeyInv /\ [Next]_vars => LoginKeyInv'
<1> SUFFICES ASSUME IInv, LoginKeyInv, [Next]_vars PROVE LoginKeyInv'
  OBVIOUS
<1> USE ConstAssumption
<1>0. TypeOK /\ TypeOK'
  BY TypeOKStep DEF IInv
\* The steps of t that neither touch lkey nor run where a key is held.
<1>1. ASSUME NEW t \in Threads,
             \/ Start(t) \/ AuthCheck(t) \/ SetHeaders(t) \/ RetryCheck(t)
             \/ ReauthCheck(t) \/ Logout(t) \/ ReHeader(t) \/ Finish(t)
      PROVE  LoginKeyInv'
  <2>1. pc[t] \notin {"retry_eval", "login_end"} /\ lkey' = lkey
    <3>1. CASE Start(t) \/ AuthCheck(t) \/ SetHeaders(t) \/ RetryCheck(t)
      BY <3>1 DEF Start, AuthCheck, SetHeaders, RetryCheck
    <3>2. CASE ReauthCheck(t) \/ Logout(t) \/ ReHeader(t) \/ Finish(t)
      BY <3>2 DEF ReauthCheck, Logout, ReHeader, Finish
    <3>3. QED
      BY <1>1, <3>1, <3>2
  <2>2. lkey'[t] = NoKey
    BY <2>1, NoKeyElsewhere
  <2>3. \A u \in Threads \ {t} : frame'[u] = frame[u] /\ pc'[u] = pc[u]
    BY <1>1, <1>0 DEF Start, AuthCheck, SetHeaders, RetryCheck, ReauthCheck,
       Logout, ReHeader, Finish, RetryReturn, DoReturn, TypeOK
  <2>4. QED
    BY Zenon, <1>0, <2>1, <2>2, <2>3, KeyFrame DEF TypeOK
<1>2. ASSUME NEW t \in Threads, LoginLock(t) PROVE LoginKeyInv'
  <2>1. lkey[t] = NoKey
    BY <1>2, NoKeyElsewhere DEF LoginLock
  <2>2. lkey' = lkey
    <3>1. CASE apikey # NoKey
      BY <1>2, <3>1 DEF LoginLock
    <3>2. CASE apikey = NoKey
      <4>1. lkey' = [lkey EXCEPT ![t] = NoKey]
        BY <1>2, <3>2 DEF LoginLock
      <4>2. QED
        BY <4>1, <2>1, <1>0 DEF TypeOK
    <3>3. QED
      BY <3>1, <3>2
  <2>3. \A u \in Threads \ {t} : frame'[u] = frame[u] /\ pc'[u] = pc[u]
    <3>1. CASE apikey # NoKey
      <4>1. frame' = frame /\ \E l \in Labels : pc' = [pc EXCEPT ![t] = l]
        BY <1>2, <3>1, ResultValues DEF LoginLock, LoginResume, Labels
      <4>2. QED
        BY <4>1, <1>0 DEF TypeOK
    <3>2. CASE apikey = NoKey
      BY <1>2, <3>2, <1>0 DEF LoginLock, TypeOK
    <3>3. QED
      BY <3>1, <3>2
  <2>4. QED
    BY Zenon, <1>0, <2>1, <2>2, <2>3, KeyFrame DEF TypeOK
<1>3. ASSUME NEW t \in Threads, LoginEnd(t) PROVE LoginKeyInv'
  <2>1. lkey' = [lkey EXCEPT ![t] = NoKey]
    BY <1>3 DEF LoginEnd
  <2>2. \A u \in Threads \ {t} : frame'[u] = frame[u] /\ pc'[u] = pc[u]
    BY <1>3, <1>0 DEF LoginEnd, LoginResume, TypeOK
  <2>3. QED
    BY Zenon, <1>0, <2>1, <2>2, KeyFrame DEF TypeOK
<1>4. ASSUME NEW t \in Threads, RetryEval(t) PROVE LoginKeyInv'
  <2>1. lkey' = lkey
    BY <1>4 DEF RetryEval
  <2>2. \A u \in Threads \ {t} : frame'[u] = frame[u] /\ pc'[u] = pc[u]
    BY <1>4, <1>0 DEF RetryEval, RetryReturn, SleepBackoff, TypeOK
  <2>3. CASE lkey[t] = NoKey
    BY Zenon, <1>0, <2>1, <2>2, <2>3, KeyFrame DEF TypeOK
  <2>4. CASE lkey[t] # NoKey
    <3>1. inLogin[t] /\ frame[t]["login"].res = OK
      BY <2>4 DEF IInv, HeldKeyInv, WriterInv, LoginKeyInv
    <3>2. RetryStops(OK)
      BY DEF RetryStops
    <3>3. RetryReturn(t, "login", OK)
      BY <1>4, <3>1, <3>2 DEF RetryEval, Lvl
    <3>4. frame'[t]["login"].res = OK /\ pc'[t] = "login_end"
      BY <3>3, <1>0 DEF RetryReturn, BaseReturnPc, TypeOK, Levels
    <3>5. QED
      BY Zenon, <1>0, <2>1, <2>2, <3>4, KeyFrame DEF TypeOK
  <2>5. QED
    BY <2>3, <2>4
<1>5. ASSUME NEW t \in Threads, Send(t) PROVE LoginKeyInv'
  <2>1. lkey[t] = NoKey
    BY <1>5, NoKeyElsewhere DEF Send
  <2>2. PICK r \in ServerReplies(t), d \in AttemptTime :
          LET L == Lvl(t)
              now == clock[t] + d
          IN  /\ IF L = "login" /\ r = "ok"
                 THEN lkey' = [lkey EXCEPT ![t] = nextKey]
                 ELSE lkey' = lkey
              /\ AfterReply(t, L, Translated(r), now)
    BY <1>5 DEF Send
  <2>3. \A u \in Threads \ {t} : frame'[u] = frame[u] /\ pc'[u] = pc[u]
    BY <2>2, <1>0 DEF AfterReply, DoReturn, StartRetry, TypeOK
  <2>4. CASE Lvl(t) = "login" /\ r = "ok"
    <3>1. AfterReply(t, "login", OK, clock[t] + d)
      BY <2>2, <2>4, TranslatedOk
    <3>2. DoReturn(t, "login", OK)
      BY <3>1 DEF AfterReply, OK, RetryClass, NoApi
    <3>3. frame'[t]["login"].res = OK
          /\ pc'[t] \in {"retry_eval", "login_end"}
      BY <3>2, <1>0 DEF DoReturn, DoReturnPc, BaseReturnPc, TypeOK, Levels
    <3>4. QED
      BY Zenon, <1>0, <2>2, <2>3, <2>4, <3>3, KeyFrame DEF TypeOK
  <2>5. CASE ~(Lvl(t) = "login" /\ r = "ok")
    BY Zenon, <1>0, <2>1, <2>2, <2>3, <2>5, KeyFrame DEF TypeOK
  <2>6. QED
    BY <2>4, <2>5
<1>6. CASE Expire \/ UNCHANGED vars
  BY <1>6 DEF Expire, vars, LoginKeyInv
<1>7. QED
  BY <1>1, <1>2, <1>3, <1>4, <1>5, <1>6 DEF Next, Progress, Terminated

\* IInv and LoginKeyInv hold in every reachable state.
THEOREM RefinementInvariant == Spec => [](IInv /\ LoginKeyInv)
<1>1. Init => LoginKeyInv
  BY DEF Init, LoginKeyInv
<1>2. QED
  BY <1>1, LoginKeyStep, SessionInvariant, PTL DEF Spec
-----------------------------------------------------------------------------
(***************************************************************************)
(* The mapping.  AbsCall and AbsResult are the images of call and result   *)
(* under Abs.                                                              *)
(***************************************************************************)
AbsCall == [u \in Threads |-> CallState(u)]
AbsResult == [u \in Threads |->
                IF pc[u] = "done" THEN OutcomeOf(frame[u]["data"].res)
                ELSE "none"]

\* A step that moves t from one label of a running call to another label l,
\* and leaves the other goroutines' labels and frames alone, keeps the
\* images of call and result, unless l is "done": then t's call completes
\* with the outcome of its data frame's result.
LEMMA MapStep ==
    ASSUME TypeOK, NEW t \in Threads, NEW l,
           pc[t] \notin {"idle", "done"}, l # "idle",
           pc' = [pc EXCEPT ![t] = l],
           \A u \in Threads \ {t} : frame'[u] = frame[u]
    PROVE  /\ AbsCall[t] = "busy"
           /\ l # "done" => AbsCall' = AbsCall /\ AbsResult' = AbsResult
           /\ l = "done" =>
                /\ AbsCall' = [AbsCall EXCEPT ![t] = "done"]
                /\ AbsResult' = [AbsResult EXCEPT
                                   ![t] = OutcomeOf(frame'[t]["data"].res)]
BY Zenon DEF AbsCall, AbsResult, CallState, TypeOK

\* The outcome class of a result is an outcome of AbstractCall.
LEMMA OutcomeType ==
    ASSUME NEW r PROVE OutcomeOf(r) \in Abs!Outcomes
BY DEF OutcomeOf, Abs!Outcomes

\* Such a step that also keeps apikey, nextKey and calls is a Complete of
\* AbstractCall, or a stutter.
LEMMA BusyRefines ==
    ASSUME TypeOK, NEW t \in Threads, NEW l,
           pc[t] \notin {"idle", "done"}, l # "idle",
           pc' = [pc EXCEPT ![t] = l],
           \A u \in Threads \ {t} : frame'[u] = frame[u],
           apikey' = apikey, nextKey' = nextKey, calls' = calls
    PROVE  [Abs!Next]_Abs!vars
<1>1. CASE l = "done"
  <2>1. PICK o \in Abs!Outcomes : o = OutcomeOf(frame'[t]["data"].res)
    BY OutcomeType
  <2>2. /\ AbsCall[t] = "busy"
        /\ AbsCall' = [AbsCall EXCEPT ![t] = "done"]
        /\ AbsResult' = [AbsResult EXCEPT ![t] = o]
    BY Zenon, <1>1, <2>1, MapStep
  <2>3. Abs!Complete(t, o)
    BY <2>2 DEF Abs!Complete, AbsCall, AbsResult
  <2>4. Abs!Next
    BY <2>1, <2>3 DEF Abs!Next
  <2>5. QED
    BY <2>4
<1>2. CASE l # "done"
  <2>1. AbsCall' = AbsCall /\ AbsResult' = AbsResult
    BY Zenon, <1>2, MapStep
  <2>2. QED
    BY <2>1 DEF Abs!vars, AbsCall, AbsResult
<1>3. QED
  BY <1>1, <1>2

\* The goroutine inside Login holds c.m, and apikey is empty meanwhile.
LEMMA LoginHoldsLock ==
    ASSUME IInv, NEW t \in Threads, inLogin[t], pc[t] # "lock"
    PROVE  owner = t /\ apikey = NoKey
BY ConstAssumption DEF IInv, WriterInv, HeldKeyInv, TypeOK

\* Every step of the connection is a step of AbstractCall or a stutter of
\* its image.
LEMMA RefinementStep ==
    IInv /\ LoginKeyInv /\ [Next]_vars => [Abs!Next]_Abs!vars
<1> SUFFICES ASSUME IInv, LoginKeyInv, [Next]_vars PROVE [Abs!Next]_Abs!vars
  OBVIOUS
<1> USE ConstAssumption
<1>0. TypeOK
  BY DEF IInv
<1>1. ASSUME NEW t \in Threads, Start(t) PROVE [Abs!Next]_Abs!vars
  <2>1. /\ AbsCall[t] = "idle"
        /\ AbsCall' = [AbsCall EXCEPT ![t] = "busy"]
        /\ AbsResult' = AbsResult
    BY Zenon, <1>0, <1>1 DEF Start, AbsCall, AbsResult, CallState, TypeOK
  <2>2. Abs!Begin(t)
    BY <1>1, <2>1 DEF Start, Abs!Begin, AbsCall, AbsResult
  <2>3. QED
    BY <2>2 DEF Abs!Next
<1>2. ASSUME NEW t \in Threads,
             AuthCheck(t) \/ SetHeaders(t) \/ ReHeader(t)
      PROVE  [Abs!Next]_Abs!vars
  <2>1. PICK l \in {"hdr", "lock", "send"} :
          /\ pc[t] \in {"auth_check", "hdr", "rehdr"}
          /\ pc' = [pc EXCEPT ![t] = l]
          /\ \A u \in Threads \ {t} : frame'[u] = frame[u]
          /\ UNCHANGED <<apikey, nextKey, calls>>
    BY <1>0, <1>2 DEF AuthCheck, SetHeaders, ReHeader, TypeOK
  <2>2. QED
    BY Zenon, <1>0, <2>1, BusyRefines
<1>3. ASSUME NEW t \in Threads, LoginLock(t) PROVE [Abs!Next]_Abs!vars
  <2>1. PICK l \in {"hdr", "rehdr", "send"} :
          /\ pc' = [pc EXCEPT ![t] = l]
          /\ \A u \in Threads \ {t} : frame'[u] = frame[u]
    <3>1. CASE apikey # NoKey
      BY <1>0, <1>3, <3>1, ResultValues DEF LoginLock, LoginResume, TypeOK
    <3>2. CASE apikey = NoKey
      BY <1>0, <1>3, <3>2 DEF LoginLock, TypeOK
    <3>3. QED
      BY <3>1, <3>2
  <2>2. QED
    BY Zenon, <1>0, <1>3, <2>1, BusyRefines DEF LoginLock
<1>4. ASSUME NEW t \in Threads, RetryCheck(t) \/ RetryEval(t) \/ ReauthCheck(t)
      PROVE  [Abs!Next]_Abs!vars
  <2>1. pc[t] \in {"retry_check", "retry_eval", "reauth_check"}
        /\ UNCHANGED <<apikey, nextKey, calls>>
    BY <1>4 DEF RetryCheck, RetryEval, ReauthCheck
  <2>2. PICK l \in Labels \ {"idle"} :
          /\ pc' = [pc EXCEPT ![t] = l]
          /\ \A u \in Threads \ {t} : frame'[u] = frame[u]
    <3>1. CASE RetryCheck(t)
      BY <1>0, <3>1 DEF RetryCheck, RetryReturn, BaseReturnPc, Labels, TypeOK
    <3>2. CASE RetryEval(t)
      BY <1>0, <3>2 DEF RetryEval, RetryReturn, SleepBackoff, BaseReturnPc,
         Labels, TypeOK
    <3>3. CASE ReauthCheck(t)
      BY <1>0, <3>3 DEF ReauthCheck, DoReturn, DoReturnPc, BaseReturnPc,
         Labels, TypeOK
    <3>4. QED
      BY <1>4, <3>1, <3>2, <3>3
  <2>3. QED
    BY Zenon, <1>0, <2>1, <2>2, BusyRefines
<1>5. ASSUME NEW t \in Threads, Send(t) PROVE [Abs!Next]_Abs!vars
  <2>1. PICK r \in ServerReplies(t), d \in AttemptTime :
          LET L == Lvl(t)
              now == clock[t] + d
          IN  /\ IF L = "login" /\ r = "ok"
                 THEN nextKey' = nextKey + 1
                 ELSE nextKey' = nextKey
              /\ AfterReply(t, L, Translated(r), now)
    BY <1>5 DEF Send
  <2>2. /\ pc[t] = "send" /\ UNCHANGED <<apikey, calls>>
    BY <1>5 DEF Send
  <2>3. PICK l \in Labels \ {"idle"} :
          /\ pc' = [pc EXCEPT ![t] = l]
          /\ \A u \in Threads \ {t} : frame'[u] = frame[u]
          /\ Lvl(t) = "login" => l # "done"
    BY <1>0, <2>1 DEF AfterReply, DoReturn, DoReturnPc, BaseReturnPc,
       StartRetry, AllowLogin, Labels, TypeOK
  <2>4. CASE Lvl(t) = "login" /\ r = "ok"
    <3>1. inLogin[t] /\ owner = t /\ apikey = NoKey
      BY <2>2, <2>4, LoginHoldsLock DEF Lvl
    <3>2. nextKey <= MaxKeys /\ nextKey' = nextKey + 1
      BY <2>1, <2>4 DEF ServerReplies
    <3>3. AbsCall[t] = "busy" /\ AbsCall' = AbsCall /\ AbsResult' = AbsResult
      BY Zenon, <1>0, <2>2, <2>3, <2>4, MapStep
    <3>4. Abs!Issue(t)
      BY <2>2, <3>1, <3>2, <3>3, <1>0 DEF Abs!Issue, Abs!NoToken, NoKey, TypeOK, AbsCall, AbsResult
    <3>5. QED
      BY <3>4 DEF Abs!Next
  <2>5. CASE ~(Lvl(t) = "login" /\ r = "ok")
    BY Zenon, <1>0, <2>1, <2>2, <2>3, <2>5, BusyRefines
  <2>6. QED
    BY <2>4, <2>5
<1>6. ASSUME NEW t \in Threads, LoginEnd(t) PROVE [Abs!Next]_Abs!vars
  <2> DEFINE r == frame[t]["login"].res
  <2>1. inLogin[t] /\ owner = t /\ apikey = NoKey
    BY <1>6, LoginHoldsLock DEF LoginEnd, IInv, LoginFrameInv
  <2>2. /\ apikey' = IF r.api = 401 THEN NoKey ELSE lkey[t]
        /\ UNCHANGED <<nextKey, calls>>
    BY <1>6 DEF LoginEnd
  <2>3. PICK l \in Labels \ {"idle"} :
          /\ pc' = [pc EXCEPT ![t] = l]
          /\ \A u \in Threads \ {t} : frame'[u] = frame[u]
          /\ r = OK => l \in {"hdr", "rehdr"}
    BY Zenon, <1>0, <1>6 DEF LoginEnd, LoginResume, DoReturnPc, BaseReturnPc,
       Labels, TypeOK
  <2>4. CASE r = OK /\ lkey[t] # NoKey
    <3>1. apikey' = lkey[t] /\ lkey[t] = nextKey - 1 /\ lkey[t] # 0
      BY <2>1, <2>2, <2>4 DEF OK, NoApi, IInv, HeldKeyInv, NoKey
    <3>2. AbsCall[t] = "busy" /\ AbsCall' = AbsCall /\ AbsResult' = AbsResult
      BY Zenon, <1>0, <1>6, <2>3, <2>4, MapStep DEF LoginEnd
    <3>3. Abs!Adopt(t)
      BY <2>1, <2>2, <3>1, <3>2 DEF Abs!Adopt, Abs!NoToken, NoKey, AbsCall, AbsResult
    <3>4. QED
      BY <3>3 DEF Abs!Next
  <2>5. CASE r # OK \/ lkey[t] = NoKey
    <3>1. lkey[t] = NoKey
      BY <2>5 DEF LoginKeyInv
    <3>2. apikey' = apikey
      BY <2>1, <2>2, <3>1
    <3>3. QED
      BY ZenonT(30), <1>0, <1>6, <2>2, <2>3, <3>2, BusyRefines DEF LoginEnd
  <2>6. QED
    BY <2>4, <2>5
<1>7. ASSUME NEW t \in Threads, Logout(t) PROVE [Abs!Next]_Abs!vars
  <2>0. /\ pc[t] \notin {"idle", "done"}
        /\ pc' = [pc EXCEPT ![t] = "lock"]
        /\ \A u \in Threads \ {t} : frame'[u] = frame[u]
    BY <1>7 DEF Logout
  <2>1. AbsCall[t] = "busy" /\ AbsCall' = AbsCall /\ AbsResult' = AbsResult
    BY <1>0, <2>0 DEF AbsCall, AbsResult, CallState, IInv, TypeOK
  <2>2. Abs!Clear(t)
    BY <1>7, <2>1 DEF Logout, Abs!Clear, Abs!NoToken, NoKey, AbsCall, AbsResult
  <2>3. QED
    BY <2>2 DEF Abs!Next
<1>8. ASSUME NEW t \in Threads, Finish(t) PROVE [Abs!Next]_Abs!vars
  <2>1. /\ AbsCall[t] = "done"
        /\ AbsCall' = [AbsCall EXCEPT ![t] = "idle"]
        /\ AbsResult' = [AbsResult EXCEPT ![t] = "none"]
    BY Zenon, <1>0, <1>8 DEF Finish, AbsCall, AbsResult, CallState, TypeOK
  <2>2. Abs!Return(t)
    BY <1>8, <2>1 DEF Finish, Abs!Return, AbsCall, AbsResult
  <2>3. QED
    BY <2>2 DEF Abs!Next
<1>9. CASE Expire \/ UNCHANGED vars
  <2>1. UNCHANGED <<apikey, nextKey, pc, frame, calls>>
    BY <1>9 DEF Expire, vars
  <2>2. AbsCall' = AbsCall /\ AbsResult' = AbsResult
    BY <2>1 DEF AbsCall, AbsResult, CallState
  <2>3. QED
    BY <2>1, <2>2 DEF Abs!vars, AbsCall, AbsResult
<1>10. QED
  BY <1>1, <1>2, <1>3, <1>4, <1>5, <1>6, <1>7, <1>8, <1>9
     DEF Next, Progress, Terminated

(***************************************************************************)
(* The connection implements AbstractCall (AbsSpec, checked by TLC in the  *)
(* refinement run): doWithAuth's calls begin, complete once with one       *)
(* outcome class and return; Login's server round trip issues a key only   *)
(* while apikey is empty, LoginEnd adopts only the newest key, and Logout  *)
(* clears it, whatever the number of goroutines, keys, calls and retries.  *)
(***************************************************************************)
THEOREM Refinement == Spec => AbsSpec
<1>1. Init => Abs!Init
  BY DEF Init, Abs!Init, Abs!NoToken, NoKey, CallState
<1>2. QED
  BY <1>1, RefinementStep, RefinementInvariant, PTL
     DEF Spec, AbsSpec, Abs!Spec
=============================================================================
