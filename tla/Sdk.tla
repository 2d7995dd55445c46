-------------------------------- MODULE Sdk --------------------------------
(***************************************************************************)
(* The SDK facade of src/pkg/dsdk/sdk.go: construction of the SDK object,  *)
(* SetDriver, and the two calls the facade makes itself, GetDateraVersion  *)
(* and HealthCheck, run by goroutines that share the SDK.                  *)
(*                                                                         *)
(* A call through the connection is one atomic step whose outcome is a     *)
(* decoded reply, an API error or an error (AbstractCall, which            *)
(* Connection implements).  The one part of the call kept is the read of   *)
(* the package variable DateraDriver into the Datera-Driver header         *)
(* (part_000, 319), because SetDriver writes that variable without         *)
(* synchronisation.  A Go string is two machine words, a data pointer and  *)
(* a length; by the Go memory model a racy write of it behaves as two      *)
(* word writes in an unspecified order, so a concurrent reader can see     *)
(* one word of the new string and one of the old.                         *)
(***************************************************************************)
EXTENDS Naturals, FiniteSets

CONSTANTS
    Goroutines,         \* goroutines using the SDK
    Drivers,            \* driver names the application passes to SetDriver
    DefaultDriver,      \* fmt.Sprintf("Golang-SDK-%s", VERSION)
    ConfigSources,      \* the *udc.UDC NewSDK gets: "given" or "nil"
    GetConfigOutcomes,  \* udc.GetConfig(): "ok" or "err"
    HostParses,         \* whether url.Parse accepts the configured MgmtIp
    CallOutcomes,       \* outcomes of a call: "ok", "apierr", "err"
    MaxOps              \* operations each goroutine starts

ASSUME SdkAssumption ==
    /\ Goroutines # {} /\ IsFiniteSet(Goroutines)
    /\ DefaultDriver \notin Drivers
    /\ ConfigSources \subseteq {"given", "nil"} /\ ConfigSources # {}
    /\ GetConfigOutcomes \subseteq {"ok", "err"} /\ GetConfigOutcomes # {}
    /\ HostParses \subseteq BOOLEAN /\ HostParses # {}
    /\ CallOutcomes \subseteq {"ok", "apierr", "err"} /\ CallOutcomes # {}
    /\ MaxOps \in Nat

VARIABLES
    phase,      \* "new", "ready" (NewSDK returned an SDK), "failed"
                \* (it returned an error) or "exited" (the process exited)
    driver,     \* DateraDriver's two words: [ptr, len], each the string
                \* whose word it is
    pc,         \* per goroutine: "idle", or "set" between SetDriver's words
    pending,    \* per goroutine: the string SetDriver is storing, and the
                \* word it has yet to store
    res,        \* per goroutine: what its last operation returned
    ops,        \* per goroutine: operations started
    written,    \* history: every string stored in DateraDriver
    sent,       \* history: every Datera-Driver header sent
    outcome     \* per goroutine: the outcome of its last call (ghost)

vars == <<phase, driver, pc, pending, res, ops, written, sent, outcome>>

Names == Drivers \cup {DefaultDriver}
Words == {"ptr", "len"}
NoPending == [val |-> DefaultDriver, left |-> "none"]
\* The results: GetDateraVersion's (version, error), HealthCheck's error.
\* Go's empty version string "".
NoVersion == "noversion"
NoResult == [op |-> "none", version |-> NoVersion, err |-> "none"]
Results == [op : {"none", "version", "health"}, version : {NoVersion, "swversion"},
            err : {"none", "ApiError", "err"}]

(***************************************************************************)
(* NewSDKWithHTTPClient (50-80): a nil config is loaded with              *)
(* udc.GetConfig, whose error is logged and returned.  Otherwise the       *)
(* connection is built; NewApiConnectionWithHTTPClient (part_000, 442-446) *)
(* calls Log().Fatalf, which exits the process, when makeBaseUrl's         *)
(* url.Parse rejects the host.  The endpoint objects are plain values.     *)
(***************************************************************************)
NewSDKWithHTTPClient(src, got, parses) ==
    /\ phase = "new"
    /\ \/ /\ src = "nil" /\ got = "err"
          /\ phase' = "failed"
       \/ /\ src = "given" \/ got = "ok"
          /\ phase' = IF parses THEN "ready" ELSE "exited"
    /\ UNCHANGED <<driver, pc, pending, res, ops, written, sent, outcome>>

\* NewSDK (46-48) is NewSDKWithHTTPClient with a nil *http.Client.
NewSDK == \E src \in ConfigSources, got \in GetConfigOutcomes,
             parses \in HostParses :
             NewSDKWithHTTPClient(src, got, parses)

\* A goroutine may start an operation on the SDK.
CanStart(g) ==
    /\ phase = "ready"
    /\ pc[g] = "idle"
    /\ ops[g] < MaxOps

(***************************************************************************)
(* SetDriver (82-84): DateraDriver = d, stored as two word writes in       *)
(* either order.  The first store is one step, the second another.         *)
(***************************************************************************)
SetDriverFirst(g, d, w) ==
    /\ CanStart(g)
    /\ driver' = [driver EXCEPT ![w] = d]
    /\ pc' = [pc EXCEPT ![g] = "set"]
    /\ pending' = [pending EXCEPT ![g] = [val |-> d,
                                          left |-> CHOOSE x \in Words : x # w]]
    /\ ops' = [ops EXCEPT ![g] = @ + 1]
    /\ written' = written \cup {d}
    /\ UNCHANGED <<phase, res, sent, outcome>>

SetDriverSecond(g) ==
    /\ pc[g] = "set"
    /\ driver' = [driver EXCEPT ![pending[g].left] = pending[g].val]
    /\ pc' = [pc EXCEPT ![g] = "idle"]
    /\ pending' = [pending EXCEPT ![g] = NoPending]
    /\ UNCHANGED <<phase, res, ops, written, sent, outcome>>

\* A call through the connection: do copies DateraDriver's two words into
\* the Datera-Driver header (part_000, 319).
Call(g, o, r) ==
    /\ CanStart(g)
    /\ sent' = sent \cup {driver}
    /\ outcome' = [outcome EXCEPT ![g] = o]
    /\ res' = [res EXCEPT ![g] = r]
    /\ ops' = [ops EXCEPT ![g] = @ + 1]
    /\ UNCHANGED <<phase, driver, pc, pending, written>>

\* Mutant: the apierr test is dropped, so an API error reads as success.
VersionResultNoApiCheck(o) ==
    IF o = "err" THEN [op |-> "version", version |-> NoVersion, err |-> "err"]
    ELSE [op |-> "version", version |-> "swversion", err |-> "none"]

(***************************************************************************)
(* GetDateraVersion (96-107): System.Get with a quiet context; an error    *)
(* returns ("", err), an API error ("", "ApiError: ..."), otherwise the    *)
(* system's SwVersion.                                                     *)
(***************************************************************************)
VersionResult(o) ==
    IF o = "err" THEN [op |-> "version", version |-> NoVersion, err |-> "err"]
    ELSE IF o = "apierr"
         THEN [op |-> "version", version |-> NoVersion, err |-> "ApiError"]
    ELSE [op |-> "version", version |-> "swversion", err |-> "none"]

GetDateraVersion(g, o) == Call(g, o, VersionResult(o))

(***************************************************************************)
(* HealthCheck (110-125): StorageNodes.List with a quiet context; an      *)
(* error or an API error is returned, otherwise the nodes are logged and   *)
(* nil returned.                                                           *)
(***************************************************************************)
HealthResult(o) ==
    [op |-> "health", version |-> NoVersion,
     err |-> IF o = "err" THEN "err" ELSE IF o = "apierr" THEN "ApiError"
             ELSE "none"]

HealthCheck(g, o) == Call(g, o, HealthResult(o))

\* DateraDriver's initialiser (part_000, 38) and a program before NewSDK.
Init ==
    /\ phase = "new"
    /\ driver = [w \in Words |-> DefaultDriver]
    /\ pc = [g \in Goroutines |-> "idle"]
    /\ pending = [g \in Goroutines |-> NoPending]
    /\ res = [g \in Goroutines |-> NoResult]
    /\ ops = [g \in Goroutines |-> 0]
    /\ written = {DefaultDriver}
    /\ sent = {}
    /\ outcome = [g \in Goroutines |-> "none"]

\* NewSDK failed or exited the process, or every goroutine is done.
Stopped ==
    /\ \/ phase \in {"failed", "exited"}
       \/ phase = "ready" /\ \A g \in Goroutines : pc[g] = "idle" /\ ops[g] = MaxOps
    /\ UNCHANGED vars

Next ==
    \/ NewSDK
    \/ \E g \in Goroutines :
         \/ \E d \in Drivers, w \in Words : SetDriverFirst(g, d, w)
         \/ SetDriverSecond(g)
         \/ \E o \in CallOutcomes : GetDateraVersion(g, o) \/ HealthCheck(g, o)
    \/ Stopped

Spec == Init /\ [][Next]_vars

-----------------------------------------------------------------------------
TypeOK ==
    /\ phase \in {"new", "ready", "failed", "exited"}
    /\ driver \in [Words -> Names]
    /\ pc \in [Goroutines -> {"idle", "set"}]
    /\ pending \in [Goroutines -> [val : Names, left : Words \cup {"none"}]]
    /\ res \in [Goroutines -> Results]
    /\ ops \in [Goroutines -> 0..MaxOps]
    /\ written \subseteq Names
    /\ sent \subseteq [Words -> Names]
    /\ outcome \in [Goroutines -> CallOutcomes \cup {"none"}]

(***************************************************************************)
(* GetDateraVersion and HealthCheck report success exactly when their      *)
(* call succeeded, and a version only with a nil error: an API error or an *)
(* error of System.Get or StorageNodes.List is never read as a healthy     *)
(* cluster or as its version (96-125).                                     *)
(***************************************************************************)
FailuresReported ==
    \A g \in Goroutines :
        res[g].op # "none" =>
            /\ (res[g].err = "none") <=> (outcome[g] = "ok")
            /\ (res[g].version # NoVersion) <=> (res[g].op = "version" /\ res[g].err = "none")

(***************************************************************************)
(* Every Datera-Driver header a request carries is a whole string the      *)
(* program stored in DateraDriver: SetDriver (83) against do's read (319). *)
(***************************************************************************)
NoTornDriverHeader ==
    \A h \in sent : h.ptr = h.len /\ h.ptr \in written
=============================================================================
