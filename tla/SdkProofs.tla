----------------------------- MODULE SdkProofs -----------------------------
(***************************************************************************)
(* Proofs about the SDK facade, for every set of goroutines, drivers and   *)
(* outcomes and every number of operations.                                *)
(***************************************************************************)
EXTENDS Sdk, TLAPS

\* The results GetDateraVersion and HealthCheck return are results.
LEMMA ResultType ==
    ASSUME NEW o \in CallOutcomes
    PROVE  /\ VersionResult(o) \in Results
           /\ HealthResult(o) \in Results
BY SdkAssumption DEF VersionResult, HealthResult, Results

\* A result r of a call with outcome o reports that outcome.
ReportsOutcome(r, o) ==
    /\ r.op # "none"
    /\ (r.err = "none") <=> (o = "ok")
    /\ (r.version # NoVersion) <=> (r.op = "version" /\ r.err = "none")

\* Each result is the one its call's outcome calls for.
LEMMA ResultMatches ==
    ASSUME NEW o \in CallOutcomes, NEW r \in {VersionResult(o), HealthResult(o)}
    PROVE  ReportsOutcome(r, o)
<1>1. CASE r = VersionResult(o)
  <2>1. CASE o = "ok"
    BY <1>1, <2>1 DEF VersionResult, ReportsOutcome, NoVersion
  <2>2. CASE o = "apierr"
    BY <1>1, <2>2 DEF VersionResult, ReportsOutcome, NoVersion
  <2>3. CASE o = "err"
    BY <1>1, <2>3 DEF VersionResult, ReportsOutcome, NoVersion
  <2>4. QED
    BY <2>1, <2>2, <2>3, SdkAssumption
<1>2. CASE r = HealthResult(o)
  <2>1. CASE o = "ok"
    BY <1>2, <2>1 DEF HealthResult, ReportsOutcome, NoVersion
  <2>2. CASE o = "apierr"
    BY <1>2, <2>2 DEF HealthResult, ReportsOutcome, NoVersion
  <2>3. CASE o = "err"
    BY <1>2, <2>3 DEF HealthResult, ReportsOutcome, NoVersion
  <2>4. QED
    BY <2>1, <2>2, <2>3, SdkAssumption
<1>3. QED
  BY <1>1, <1>2

\* The SDK's variables keep their types.
THEOREM TypeCorrect == Spec => []TypeOK
<1>1. Init => TypeOK
  <2> SUFFICES ASSUME Init PROVE TypeOK
    OBVIOUS
  <2>1. driver \in [Words -> Names]
    BY DEF Init, Names
  <2>2. pending \in [Goroutines -> [val : Names, left : Words \cup {"none"}]]
    BY DEF Init, NoPending, Names
  <2>3. res \in [Goroutines -> Results]
    BY DEF Init, NoResult, Results
  <2>4. ops \in [Goroutines -> 0..MaxOps]
    BY SdkAssumption DEF Init
  <2>5. QED
    BY <2>1, <2>2, <2>3, <2>4 DEF Init, TypeOK, Names
<1>2. TypeOK /\ [Next]_vars => TypeOK'
  <2> SUFFICES ASSUME TypeOK, [Next]_vars PROVE TypeOK'
    OBVIOUS
  <2>1. CASE NewSDK
    BY <2>1 DEF NewSDK, NewSDKWithHTTPClient, TypeOK
  <2>2. ASSUME NEW g \in Goroutines, NEW d \in Drivers, NEW w \in Words,
               SetDriverFirst(g, d, w)
        PROVE  TypeOK'
    <3>1. (CHOOSE x \in Words : x # w) \in Words
      BY DEF Words
    <3>2. driver' \in [Words -> Names]
      BY <2>2 DEF SetDriverFirst, TypeOK, Names
    <3>3. pending' \in [Goroutines -> [val : Names, left : Words \cup {"none"}]]
      BY <2>2, <3>1 DEF SetDriverFirst, TypeOK, Names
    <3>4. ops' \in [Goroutines -> 0..MaxOps]
      BY <2>2, SdkAssumption DEF SetDriverFirst, CanStart, TypeOK
    <3>5. written' \subseteq Names
      BY <2>2 DEF SetDriverFirst, TypeOK, Names
    <3>6. pc' \in [Goroutines -> {"idle", "set"}]
      BY <2>2 DEF SetDriverFirst, TypeOK
    <3>7. QED
      BY <2>2, <3>2, <3>3, <3>4, <3>5, <3>6 DEF SetDriverFirst, TypeOK
  <2>3. ASSUME NEW g \in Goroutines, SetDriverSecond(g) PROVE TypeOK'
    <3>1. pending[g].val \in Names
      BY DEF TypeOK
    <3>2. driver' \in [Words -> Names]
      BY Zenon, <2>3, <3>1 DEF SetDriverSecond, TypeOK
    <3>3. QED
      BY <2>3, <3>2 DEF SetDriverSecond, TypeOK, NoPending, Names, Words
  <2>4. ASSUME NEW g \in Goroutines, NEW o \in CallOutcomes,
               GetDateraVersion(g, o) \/ HealthCheck(g, o)
        PROVE  TypeOK'
    <3>1. PICK r \in {VersionResult(o), HealthResult(o)} : Call(g, o, r)
      BY <2>4 DEF GetDateraVersion, HealthCheck
    <3>2. r \in Results
      BY ResultType
    <3>3. res' \in [Goroutines -> Results]
      BY <3>1, <3>2 DEF Call, TypeOK
    <3>4. ops' \in [Goroutines -> 0..MaxOps]
      BY <3>1, SdkAssumption DEF Call, CanStart, TypeOK
    <3>5. outcome' \in [Goroutines -> CallOutcomes \cup {"none"}]
      BY <3>1 DEF Call, TypeOK
    <3>6. sent' \subseteq [Words -> Names]
      BY <3>1 DEF Call, TypeOK
    <3>7. QED
      BY <3>1, <3>3, <3>4, <3>5, <3>6 DEF Call, TypeOK
  <2>5. CASE Stopped \/ UNCHANGED vars
    BY <2>5 DEF Stopped, vars, TypeOK
  <2>6. QED
    BY <2>1, <2>2, <2>3, <2>4, <2>5 DEF Next
<1>3. QED
  BY <1>1, <1>2, PTL DEF Spec
(***************************************************************************)
(* GetDateraVersion and HealthCheck report an error exactly when their     *)
(* call failed, and a version only on success, in every state.  Each call  *)
(* writes the result and the outcome in the same step, and nothing else    *)
(* writes either, so the invariant is inductive together with TypeOK.      *)
(***************************************************************************)
THEOREM FailuresReportedHolds == Spec => []FailuresReported
<1> DEFINE IInv == TypeOK /\ FailuresReported
<1>1. Init => FailuresReported
  <2> SUFFICES ASSUME Init, NEW g \in Goroutines PROVE res[g].op = "none"
    BY DEF FailuresReported
  <2>1. res[g] = NoResult
    BY DEF Init
  <2>2. QED
    BY <2>1 DEF NoResult
<1>2. IInv /\ [Next]_vars => FailuresReported'
  <2> SUFFICES ASSUME IInv, [Next]_vars PROVE FailuresReported'
    OBVIOUS
  <2>1. ASSUME NEW g \in Goroutines, NEW o \in CallOutcomes,
               GetDateraVersion(g, o) \/ HealthCheck(g, o)
        PROVE  FailuresReported'
    <3>1. PICK r \in {VersionResult(o), HealthResult(o)} : Call(g, o, r)
      BY <2>1 DEF GetDateraVersion, HealthCheck
    <3>2. res' = [res EXCEPT ![g] = r] /\ outcome' = [outcome EXCEPT ![g] = o]
      BY <3>1 DEF Call
    <3>3. ReportsOutcome(r, o)
      BY ResultMatches
    <3>4. QED
      BY <3>2, <3>3 DEF FailuresReported, ReportsOutcome, TypeOK
  <2>2. CASE UNCHANGED <<res, outcome>>
    BY <2>2 DEF FailuresReported
  <2>3. QED
    BY <2>1, <2>2 DEF Next, NewSDK, NewSDKWithHTTPClient, SetDriverFirst,
                     SetDriverSecond, Stopped, vars
<1>3. QED
  BY <1>1, <1>2, TypeCorrect, PTL DEF Spec
=============================================================================
