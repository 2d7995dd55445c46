# Formal model of the go-sdk API connection

This directory holds TLA+ models of the Datera Go SDK's connection layer
(`src/unnamed/part_000`, the SDK's `connection.go`) and of its facade
(`src/pkg/dsdk/sdk.go`). It has:

- one module per component: the connection's call pipeline and session,
  `GetList`'s pagination, the list-parameter conversions and the SDK facade;
- an abstract specification of a call (`AbstractCall`) and the refinement
  mapping under which the connection implements it;
- the TLC configurations that model-check them on small instances;
- TLAPS proofs, for every instance, of the connection's type and session
  invariants, of what a call does after each reply (retries only on
  transient replies, a 503 ends only in `ErrRetryTimeout` or after a
  re-authentication), of the refinement, of the facade's error reporting,
  of the bound on `GetList`'s page requests, of its never requesting the
  same page twice, and of what a `GetList` from fresh options returns over
  an unchanged collection.

## The system

One `ApiConnection` is shared by every goroutine that uses an SDK object. It
holds the session token `apikey` under a `sync.RWMutex` `c.m`. A call goes
through these steps:

| Step | Code | What it does |
|------|------|--------------|
| verb | `Get`/`Put`/`Post`/`Delete`/`GetList` (460-524) | calls `doWithAuth` |
| `doWithAuth` (420-436) | `hasLoggedIn` (RLock) | if no token, `Login` |
| | RLock | copies `apikey` into the `Auth-Token` header |
| | | calls `do(..., retry=true, allowLogin=true)` |
| `do` (292-418) | `greq.DoRegularRequest` | sends the request |
| | `translateErrors` (234-259) | classifies the reply: transport error, refused connection (`ConnectionError`), API error with `Http` defaulted to the status code, or success |
| | 401 branch | if `allowLogin && hasLoggedIn`: `Logout`, `Login`, re-read the token under RLock, replay with retry off |
| | | otherwise: return the 401 |
| | 503 or `ConnectionError` with retry set | calls `retry` |
| | otherwise | returns the API error, the error, or the decoded body |
| `retry` (268-290) | loop while `now - t1 < RetryTimeout` | calls `do` with retry off |
| | | returns on success, on a non-503 API error, or on an error that does not mention "connection refused" |
| | | otherwise sleeps `backoff²` seconds and increments `backoff` |
| `Login` (538-571) | takes `c.m` exclusively for the whole call | returns at once if `apikey` is set |
| | | otherwise runs its own `do(PUT login, retry=true, allowLogin=false)` |
| | | stores `login.Key`, or clears `apikey` on a 401 |
| `Logout` (573-577) | Lock | clears `apikey` |

`Login`'s own `do` runs with `allowLogin` false. If it were true, a 401
answered to the login would reach `hasLoggedIn` or `Logout` on a mutex the
goroutine already holds, and Go's `RWMutex` is not reentrant.

On top of the call pipeline:

- **`GetList`** (466-506) makes one call, and when the reply has metadata and
  the caller set no `limit`/`offset` it loops: it advances `offset` by the
  page length, stops when `offset` reaches `total_count`, writes `offset`
  into the caller's `ro.Params` and fetches the next page.
- **`ListParams.ToMap` / `ListParamsFromMap`** (125-165) convert between the
  parameter struct and the query map, with `strconv.FormatInt(n, 10)` and
  `strconv.ParseInt(s, 0, 0)`.
- **The SDK facade** (`sdk.go`) builds the connection (`NewSDK`), sets the
  package variable `DateraDriver` that `do` copies into every request
  header (`SetDriver`), and makes two calls of its own (`GetDateraVersion`,
  `HealthCheck`).

## Modules

| Module | Contents |
|--------|----------|
| `Connection.tla` | The call pipeline and session: constants, state, one action per atomic step, `Spec`/`FairSpec`, the properties, the inductive invariants `IInv` and `ReplyInv`, `LoginKeyInv`, the refinement mapping `Abs`, and the properties the violation runs refute. |
| `AbstractCall.tla` | What a call promises: begin, complete with one outcome class, return; a session token that only takes the newest issued key and is cleared before it changes. |
| `Paginator.tla` | `GetList` and its loop, with a server whose collection other clients change. Each page request is one `AbstractCall` outcome. |
| `ListParams.tla` | `ToMap` and `ListParamsFromMap` over strings as character sequences, with `FormatInt` and base-0 `ParseInt`. |
| `Sdk.tla` | `NewSDK`, `SetDriver` as two racy word writes, `GetDateraVersion`, `HealthCheck`. |
| `MCConnection.tla`, `MCPaginator.tla`, `MCListParams.tla`, `MCSdk.tla` | Model values, input sets and symmetry for TLC. |
| `ConnectionProofs.tla` | TLAPS: the connection's type and session invariants. |
| `RefinementProofs.tla` | TLAPS: the connection implements `AbstractCall`. |
| `SdkProofs.tla` | TLAPS: the facade's types and error reporting. |
| `ReplyProofs.tla` | TLAPS: `ReplyInv`, and from it `RetryOnlyTransient` and `BusyRepliesRetried`. |
| `PaginatorProofs.tla` | TLAPS: the paginator's types, `FetchesBounded`, `ListResult` and `LoopAdvances`. |

### State (`Connection`)

Variables that model the connection and the server:

| Variable | Models |
|----------|--------|
| `apikey` | `c.apikey`; `NoKey` is `""`, keys are `1..MaxKeys` |
| `owner` | the writer holding `c.m`, or `NoThread` |
| `sessions`, `nextKey` | the server's live sessions and the next key it issues |

Per-goroutine variables:

| Variable | Models |
|----------|--------|
| `pc` | the goroutine's position in the call |
| `inLogin`, `loginFrom` | whether the goroutine is inside `Login`, and whether it came from `doWithAuth` or the 401 branch |
| `hdr` | the `Auth-Token` header the goroutine sends |
| `lkey` | the `login.Key` decoded by `Login`'s `do` |
| `frame[t][L]` | the locals of the `do`/`retry` running at level `L`: `"data"` for the call's own request, `"login"` for `Login`'s request. Fields: `retry`, `inRetry`, `t1`, `backoff`, `res` (the `(apiresp, err)` pair returned). |
| `clock` | the goroutine's clock in seconds |
| `calls` | the calls started, capped by `MaxCalls` |

Ghost variables: `lastReply` (the last data reply) and `reauths` (the number
of `Logout`+`Login` cycles in the call).

### Data abstraction

- A reply is one of these kinds:
  - `ok`
  - `s400`, `s401`, `s500`, `s503`
  - `s503bare` (a 503 whose body omits `http`)
  - `refused`
  - `fatal` (any other transport error)
- Errors are their names.
- `ErrText` gives the text `err.Error()` has where the code compares it
  (line 282).
- URLs, payloads, headers other than the token, and logging are left out.

### Actions

Each action is one atomic step of one goroutine. A step that takes `c.m` in
shared mode (`hasLoggedIn`, the header copy) is one step, guarded by
`owner = NoThread`, because a reader waits for the writer.

| Action | Code |
|--------|------|
| `Start` | the verb calls `doWithAuth` |
| `AuthCheck` | `hasLoggedIn`, and `Login` if needed |
| `SetHeaders` | the header copy and the call of `do` |
| `LoginLock` | `Lock` and the `apikey != ""` short-circuit |
| `Send` | the request and `translateErrors`; then `AfterReply`, `do`'s branches in their order |
| `RetryCheck` | the loop condition, or the timeout return |
| `RetryEval` | the loop body after `do` |
| `ReauthCheck` | `allowLogin && hasLoggedIn` |
| `Logout` | `Logout` |
| `LoginEnd` | the store or clear of `apikey` and the deferred `Unlock` |
| `ReHeader` | the token re-read and the replay |
| `Finish` | the verb returns |
| `Expire` | the server drops a session |

The server answers a request whose token is not a live session with a 401
or a transport failure. It answers a login with one of `LoginReplies`, and
issues a new key on success.

### `Paginator`

State: the server's collection `srv` (a sequence of item identities) and
the metadata kind its endpoint sends (`none`, `count` with `total_count`, or
`nocount`); the caller's options object `opts` and the one `GetList` holds,
`ro` (nil, or `Params` abstracted to `offset`, `limit` and whether other
keys are present); `rs`, `data`, `offset` (the code's locals); `res`, what
`GetList` returned; `fetches`, the calls of the current `GetList`.

| Action | Code |
|--------|------|
| `GetList(o)` | the first `doWithAuth` with outcome `o`, the metadata test (471), `ListParamsFromMap` on `ro.Params` (a nil `ro` panics), the window test (473) and the loop entry |
| `Iterate(o)` | one loop iteration: the `total_count` assertion (480), `offset += len(rs.Data)`, the break, the write into `ro.Params`, the next call and either the failure return (497-499) or `append` |
| `Insert`, `Delete` | another client changes the collection |

### `ListParams`

A caller either builds a `ListParams` and converts it to a map and back, or
builds a map itself and has it read. `FormatInt` is the recursive function
`DecimalOf`; `ParseInt0` chooses the base as Go does (`0x` hex, any other
leading `0` octal, else decimal) and rejects a digit not of the base.

### `Sdk`

`NewSDKWithHTTPClient` ends in `ready`, `failed` (the config load's error)
or `exited` (`Fatalf` in the connection constructor). `SetDriver` is two
steps, each storing one word of the string (pointer, length) in either
order, which is what a racy Go string store may do. `Call` is one call
through the connection: it records the header `do` copied from
`DateraDriver`, and the outcome. `VersionResult` and `HealthResult` are the
facade's classification of `(result, apierr, err)`. Go's empty version
string is the constant `NoVersion`, a plain string value.

## Runs

Run them with `tlc -workers 2 -config X.cfg MC<Module>`.

| cfg | module | expect | checks |
|-----|--------|--------|--------|
| `ConnPipeline` | `MCConnection` | pass | `TypeOK`, `RetryOnlyTransient`, `BusyRepliesRetried` |
| `ConnSession` | `MCConnection` | pass | `NoSelfDeadlock`, `KeyFresh`, `AbsSpec` (the connection implements `AbstractCall`) |
| `ConnLiveness` | `MCConnection` | pass | `CallsComplete` under `FairSpec` |
| `ConnTimeoutLastError` | `MCConnection` | violation | `TimeoutReportsLastApiError` |
| `ConnRedundantLogin` | `MCConnection` | violation | `NoRedundantLogin` |
| `ListPipeline` | `MCPaginator` | pass | `TypeOK`, `ListResult`, `FetchesBounded`, `LoopAdvances` |
| `ListNilOptions` | `MCPaginator` | violation | `NoPanic` |
| `ListConcurrentChange` | `MCPaginator` | violation | `NoDuplicateItems` |
| `ListParamsRoundTrip` | `MCListParams` | pass | `ParamsRoundTrip` |
| `ListParamsBase0` | `MCListParams` | violation | `DecimalMapsRead` |
| `SdkCalls` | `MCSdk` | pass | `FailuresReported` |
| `SdkDriverRace` | `MCSdk` | violation | `NoTornDriverHeader` |

### Bounds

`ConnPipeline`:
- one goroutine, every reply kind, two calls, three keys;
- attempts take 0 or 1 second and `RetryTimeout` is 5, so the loop both
  retries and times out, and backoff reaches its third step.

`ConnSession`:
- two goroutines and two calls each;
- login replies are `ok` or 401, and sessions expire;
- so both concurrent logins and the stale-401 logout happen;
- thread symmetry is sound there: the threads are interchangeable and the
  properties quantify over all of them (`AbsSpec` maps every thread alike).

`ConnLiveness` is smaller (one call each, two keys) to keep the temporal
check under a minute. It uses no symmetry.

`ListPipeline`: up to 5 items, 4 at the start, pages of 2, two `GetList`
calls, two changes by other clients, every outcome and metadata kind, and
options that are nil, have no `Params`, only other keys, an offset or a
limit. A collection of 4 or 5 takes 2 or 3 pages, so the loop runs more
than once, breaks exactly at `total_count`, and meets inserts and deletes
between pages.

`ListParamsRoundTrip`: numbers from -3 to 12 (negative, zero, one and two
digits) and every map string of up to three characters over `0`, `1`, `8`,
`-` and `x` (so octal, hex, signs and malformed strings all occur).

`SdkCalls`: two goroutines, each making two operations (a driver set or a
call) with every outcome, after every construction path; symmetric in the
goroutines.

### Fairness

`FairSpec` assumes strong fairness of each goroutine's steps:
- Go schedules runnable goroutines fairly.
- `c.m` is only intermittently free, so weak fairness would not do.
- A goroutine blocked on it is eventually served: `RWMutex.Unlock` admits
  waiting readers, and `Mutex`'s starvation mode hands the lock to a waiter
  blocked for over 1 ms.

The server and `Expire` get no fairness. `GetList`'s termination is stated
as the safety bound `FetchesBounded` rather than under fairness: the number
of requests one call makes is what a runaway loop would break.

### What the passing runs show

- **`RetryOnlyTransient`**: a data request is sent again only after a 503, a
  refused connection or a 401. It would break if `retry` looped on other
  5xx. It says when a resend may happen, not that one must: the refused
  connection that retry's loop never retries (below) satisfies it.
- **`BusyRepliesRetried`**: a call whose last reply was a 503 ends in
  `ErrRetryTimeout` or after a re-login replay, including the body without
  `http`, which needs the default at line 253.
- **`NoSelfDeadlock`**: no goroutine waits for `c.m` while holding it, which
  depends on `allowLogin` being false in `Login`.
- **`KeyFresh`**: `apikey` is always the newest key the server issued, which
  depends on `Login` holding the lock. A cleared key satisfies it, so the
  stale 401 that logs out a fresh key (`redundant_login`) does not break
  it.
- **`CallsComplete`**: every call returns; retry's loop and `Login` terminate
  under fair scheduling. Re-authentication ends only because the model's
  server issues at most `MaxKeys` keys and answers 401 only to an invalid
  session. The code itself does not bound it (line 393, below).

- **`AbsSpec`**: every step of the connection is a step of `AbstractCall`:
  a call completes once, logins happen only with an empty token, the token
  adopts only the newest key and is cleared before it changes.
- **`ListResult`**: a successful paged `GetList` over an unchanged
  collection returns the window asked for, or the whole collection in
  order, in `ceil(n / PageSize)` requests.
- **`FetchesBounded`**: one `GetList` makes at most `MaxItems + 1` requests
  even while the collection changes; the loop's own condition never
  changes (the inner `tcnt` shadows the outer one), so only the break ends
  it.
- **`LoopAdvances`** (action property): every request the loop makes is
  at a larger offset than the one before, even while items are deleted.
  The break at 482 guarantees it, because a page can be empty only at or
  past the `total_count` read with it. Breaking only on `offset > tcnt`
  makes the loop ask for the empty page at `total_count` forever.
- **`ParamsRoundTrip`**: whatever `ToMap` writes, `ListParamsFromMap`
  reads back unchanged, negative numbers included.
- **`FailuresReported`**: `GetDateraVersion` and `HealthCheck` return an
  error exactly when the call failed, and a version only on success.

Each property has a mutant in `PROJECT.json`: a plausible bug in the mapped
code under which TLC finds it violated.

### Findings: what the violation runs show

1. **`retry` loses the last API error** (line 274). `apiresp, err :=` shadows
   the outer `apiresp`, so a timed-out loop returns `nil, ErrRetryTimeout`.
2. **A stale 401 discards a fresh token** (line 384). Goroutine A sends with
   an expired key. B re-logs in. A's 401 then finds `hasLoggedIn` true,
   calls `Logout` on B's fresh key, and sends a second network login.
3. **`GetList` panics on a nil `ro`** (line 472) when the reply has
   metadata; `doWithAuth` accepts a nil `ro`.
4. **A concurrent insert duplicates an item** (line 496): offset paging has
   no snapshot.
5. **`ListParamsFromMap` reads `"010"` as 8 and panics on `"08"`** (line
   147): base-0 `ParseInt`.
6. **`SetDriver` races with `do`** (`sdk.go` line 83, `part_000` line
   319): a request can carry a header mixing the pointer of one string and
   the length of another.

### Other divergences the model reproduces, without a run of their own

These are one-step consequences of the code that the models keep (the
traces reach them in the passing runs); no property is checked for them.

- A refused connection is not retried (line 282): `do` turns the refusal
  into `badStatus[ConnectionError]`, whose text `"ConnectionError"` does not
  contain the `"connect: connection refused"` that `retry` tests for.
- Re-authentication is not bounded to one cycle (line 393): the replay
  keeps `allowLogin`, so a 401 on the replay logs out and in again.
- A request can go out with an emptied token (line 433): `doWithAuth`
  reads `c.apikey` after the lock of `hasLoggedIn`/`Login` is released,
  and another caller's `Logout` may clear it in between. The 401 it gets
  is not replayed: `hasLoggedIn` is false, so `do` returns
  PermissionDenied to the caller (`ReauthCheck`'s empty-key branch, which
  the `session` run reaches).
- Reusing an options object returns one page (line 493): the loop's offset
  stays in the caller's `ro.Params`. The model has this path
  (`ReuseOptions`). The passing run keeps it off, because `ListResult` is
  stated for fresh options, and the theorem carries the same hypothesis.
  With `ReuseOptions = TRUE` in `ListPipeline.cfg`, TLC reports `ListResult`
  violated: the second call returns one page, from the stale offset.
- A failed page returns the partial list (line 498), where spec 4.5 says it
  is discarded.
- A bad host exits the process (`sdk.go` line 59): the connection
  constructor calls `Fatalf`, so `NewSDK` never returns the error.

## Proofs (`ConnectionProofs`)

`tlapm ConnectionProofs.tla` checks every proof. The constants are assumed
only as `ConstAssumption` states:
- `NoThread` is not a thread;
- the bounds are naturals and `MaxKeys`, `RetryTimeout` are positive;
- the reply sets are non-empty subsets of `Replies`, and a login can succeed.

| Theorem | Statement |
|---------|-----------|
| `TypeCorrect` | `Spec => []TypeOK` |
| `SessionInvariant` | `Spec => []IInv` |
| `KeyFreshness` | `Spec => []KeyFresh` |
| `SelfDeadlockFree` | `Spec => []NoSelfDeadlock` |

`TypeCorrect` rests on:
- `TypeOKStep`, one step per action;
- lemmas for each nested `frame` update (`FrameArm`, `FrameRes`,
  `FrameRetryReturn`, …);
- `TranslatedType`.

`KeyFresh` is not inductive: a successful login advances `nextKey`, and only
the knowledge that `apikey` is empty while `Login` holds the lock keeps it
true. `IInv` adds:
- **`LoginFrameInv`**: only `Login`'s steps run at the login level;
- **`WriterInv`**: the writer of `c.m` is exactly the goroutine inside
  `Login` past `Lock`;
- **`HeldKeyInv`**: while `c.m` is held, `apikey` is empty, and a decoded key
  is the server's latest.

`SessionStep` proves `IInv` preserved by every action. `NoSelfDeadlock`
follows from `WriterInv` and `LoginFrameInv`: the writer's position is one
of `Login`'s labels past `lock`, and none of them takes `c.m`.

## Proofs (`RefinementProofs`)

| Theorem | Statement |
|---------|-----------|
| `RefinementInvariant` | `Spec => [](IInv /\ LoginKeyInv)` |
| `Refinement` | `Spec => AbsSpec` |

Each connection step is shown to be an `AbstractCall` step under `Abs`
(`RefinementStep`): `Start` is `Begin`; a step that moves a goroutine to
`done` is `Complete` with its data frame's outcome; `Finish` is `Return`; a
successful login reply is `Issue`; `LoginEnd` storing a key is `Adopt`;
`Logout` is `Clear`; every other step leaves the image alone (`MapStep`,
`BusyRefines`). `Issue` and `Adopt` need the empty token, which
`HeldKeyInv` gives. `LoginEnd` may complete the call (a failed `Login`) in
the same step in which it stores `lkey`; `LoginKeyInv` says that a decoded
key exists only after `Login`'s `do` succeeded, so a failed `Login` stores
nothing and the step is a single `Complete`.

## Proofs (`SdkProofs`)

| Theorem | Statement |
|---------|-----------|
| `TypeCorrect` | `Spec => []TypeOK` |
| `FailuresReportedHolds` | `Spec => []FailuresReported` |

`FailuresReported` is inductive together with `TypeOK`: each call writes
its result and its outcome in one step. `ResultMatches` shows, by cases
on the call and its outcome, that each result reports its outcome
(`ReportsOutcome`).

## Proofs (`ReplyProofs`)

| Theorem | Statement |
|---------|-----------|
| `ReplyInvariant` | `Spec => []ReplyInv` |
| `RetryOnlyTransientHolds` | `Spec => []RetryOnlyTransient` |
| `BusyRepliesRetriedHolds` | `Spec => []BusyRepliesRetried` |

`RetryOnlyTransient` and `BusyRepliesRetried` speak only of the steps
`send` and `done`, and neither is inductive: whether `do` may send again
depends on where the reply was taken (do's own check, retry's loop, the
401 branch) and on the result retry's loop left in the data frame.
`ReplyInv` (in `Connection`, checked by TLC on the `pipeline` and
`session` configurations before it was proved) follows `lastReply`
through a call. Per goroutine (`ReplyState`):
- before `do` runs and inside an `auth` Login, no reply was taken;
- inside a `reauth` Login, and at `reauth_check`, `logout`, `rehdr`, the
  last reply was a 401, and the re-authentication count is positive;
- at `hdr`, `send`, `retry_check` the last reply is transient (none, 401,
  503, refused); at `retry_eval` it is, or the frame's result stops the
  loop;
- in retry's loop the frame's `inRetry` is set, and a 503 seen with no
  re-authentication is in the frame's result as API code 503;
- at `done` a last 503 means `ErrRetryTimeout` or a re-authentication.

`ReplyStep` proves it preserved, one step per action, relative to the
session invariant `IInv` (`SessionInvariant`), which keeps a goroutine in
`Login` on Login's labels and the login frame. `TranslatedClass` gives what
`translateErrors` makes of each reply: only a 401 is `PermissionDenied`,
only 503 and a refused connection are retried, and only a 503 has API
code 503. `StopsUnless503` says a result retry's loop does not stop on is a
503; `DataUpdate`, `BackoffData` and `RetryOffData` say what a nested
`frame` update leaves in the
data frame.

## Proofs (`PaginatorProofs`)

| Theorem | Statement |
|---------|-----------|
| `Invariant` | `Spec => []IInv` |
| `TypeCorrect` | `Spec => []TypeOK` |
| `FetchesBoundedHolds` | `Spec => []FetchesBounded` |
| `ResultInvariant` | `~ReuseOptions => (Spec => []ResultInv)` |
| `ListResultHolds` | `~ReuseOptions => (Spec => []ListResult)` |
| `LoopAdvancesHolds` | `Spec => LoopAdvances` |

`FetchesBounded` (at most `MaxItems + 1` page requests per `GetList`) is
not inductive: the loop's own condition never changes, and what bounds it
is that each page after the first is non-empty or the loop breaks. `IInv`
adds that the server holds fewer items than identities issued, and
`LoopInv` inside the loop:
- the result list holds `offset` items plus the current page's;
- `fetches <= offset + 1`;
- the current page is non-empty, or `offset` plus its length reaches
  `total`, so the next iteration either breaks or advances `offset`.

`GetListStep`, `IterateStep`, `InsertStep` and `DeleteStep` prove each
action keeps it; another client's insert or delete changes only the
server's list, which `LoopInv` does not mention.

`LoopAdvancesHolds` follows from `IInv` (lemma `AdvanceStep`). The only
step that adds a request inside the loop moves to
`offset + len(rs.Data) < total_count`, and `LoopInv` makes that page
non-empty.

`ListResult` holds only for options built afresh for each call.
`ReuseOptions` is a constant of the model, not an assumption about the
code: the code lets a caller reuse an options object, and then the result
is wrong (line 493, above). So the theorems take `~ReuseOptions` as a
hypothesis, the configuration of `list_pipeline`. `ListResult` is not
inductive, because the result of the last call must survive the idle
steps, and the loop needs its own invariant. `ResultInv` is `ListResult`
together with `ListLoopInv`. `ListLoopInv` holds inside the loop while no
other client has changed the collection, and says:
- the options are non-nil and ask for no window;
- `ro.Params` has no limit;
- `offset < len(srv)` and `offset = (fetches - 1) * PageSize`;
- `rs.Data` is the page from `offset` to `PageEnd(offset)`, which is
  `min(offset + PageSize, len(srv))`;
- `data` is the collection up to `PageEnd(offset)`;
- `total_count` is `len(srv)`.

The step lemmas are:
- **`ResultGetList`**: the first page is the window, the empty
  collection, or the loop's start at offset 0.
- **`ResultIterate`**: short of `total_count` the page was full, so the
  offset grows by `PageSize` and the next page joins on. The join uses
  `ConcatAdjacentSubSeq` from `SequenceTheorems`. At `total_count`,
  `data` is the whole collection, and `DivCeil` turns
  `len = (fetches - 1) * PageSize + k`, with `1 <= k <= PageSize`, into
  `fetches = ceil(len / PageSize)`.
- **`ResultChange`**: an insert or delete sets `changed`, which both
  conjuncts exclude.

Other lemmas: `PageAtOffset` gives the server's page at an offset, and
`OffsetParams` is the offset update of 485-494. TLC checked `ResultInv`
on `list_pipeline`'s constants before the proof.

### Left to TLC

- **Liveness** (`CallsComplete`): TLAPS does not handle fairness and
  `ENABLED` here.
- **The properties the violation runs refute**: they are false.
- **`ListParams`** (`ParamsRoundTrip`, `DecimalMapsRead`): a recursive
  decimal conversion over character sequences; what a recursive definition
  computes for every input is induction over data, out of the provers'
  reach, and `ListParams` is checked by TLC over bounded inputs.

## Not modelled

- **`ListRangeParams`**: the same conversions as `ListParams` with more
  string fields, which are copied verbatim.
- **`WithContext`, `NewContext`** (`sdk.go` 86-94): they build context
  values (a random uuid) with no shared state.
- **Logging and payload redaction in `do`, URL text, TLS set-up and
  `ApiVersions`**: they hold no state any property is about.
- **The response decode failure** (412-416): it returns an error like a
  transport failure and is covered by `fatal`.
- **What the caller does with a partial list**: `Paginator` records what
  `GetList` returns, not its callers.
