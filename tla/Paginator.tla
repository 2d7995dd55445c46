----------------------------- MODULE Paginator -----------------------------
(***************************************************************************)
(* ApiConnection.GetList (src/unnamed/part_000, 466-506): one caller       *)
(* lists a collection whose first page may be followed by more pages.      *)
(* Each page is one doWithAuth call, taken as one atomic step whose        *)
(* outcome is a decoded page, an API error or an error (the outcomes of    *)
(* the call that AbstractCall specifies and Connection implements).        *)
(*                                                                         *)
(* The caller owns an options object ro (a *greq.RequestOptions) and may  *)
(* pass the same object to a later GetList.  Its Params map is abstracted  *)
(* to the keys GetList reads and writes: "offset", "limit", and whether    *)
(* the map holds other endpoint-specific keys.  A value 0 stands for the   *)
(* key being absent, which ListParamsFromMap reads as 0 too.               *)
(*                                                                         *)
(* The server is the environment: it holds the collection as a sequence    *)
(* of item identities, answers a page request consistently with its        *)
(* state at that moment, and other clients may insert or delete items      *)
(* between two pages.                                                      *)
(***************************************************************************)
EXTENDS Integers, Sequences

CONSTANTS
    MaxItems,       \* item identities the server ever holds
    InitItems,      \* largest collection the server starts with
    PageSize,       \* items the server returns when no limit is given
    MaxLists,       \* GetList calls the caller makes
    MaxChanges,     \* inserts and deletes by other clients in a behaviour
    Outcomes,       \* outcomes of one doWithAuth: "ok", "apierr", "err"
    MetaKinds,      \* metadata an endpoint sends: "none", "count", "nocount"
    CallerOptions,  \* the options objects the caller may build
    ReuseOptions,   \* whether the caller passes the same ro again
    NilRo,          \* GetList(ctxt, url, nil)
    NoParams        \* ro.Params == nil

ParamMaps == [offset : 0..MaxItems, limit : 0..MaxItems, extra : BOOLEAN]
Options == {NilRo} \cup [params : {NoParams} \cup ParamMaps]

ASSUME PaginatorAssumption ==
    /\ MaxItems \in Nat /\ InitItems \in 0..MaxItems
    /\ PageSize \in Nat \ {0}
    /\ MaxLists \in Nat /\ MaxChanges \in Nat
    /\ Outcomes \subseteq {"ok", "apierr", "err"} /\ "ok" \in Outcomes
    /\ MetaKinds \subseteq {"none", "count", "nocount"} /\ MetaKinds # {}
    /\ CallerOptions \subseteq Options /\ CallerOptions # {}
    /\ ReuseOptions \in BOOLEAN
    /\ NilRo \notin [params : {NoParams} \cup ParamMaps]
    /\ NoParams \notin ParamMaps

VARIABLES
    srv,        \* the server's collection, a sequence of item identities
    meta,       \* the metadata the listed endpoint puts in every page
    nextItem,   \* the identity of the next item another client inserts
    changes,    \* inserts and deletes so far
    opts,       \* the options object the caller built
    ro,         \* the options object GetList is given, as it is now
    rs,         \* *ApiListOuter: Data, and Metadata's shape and total_count
    data,       \* GetList's local `data`, the items accumulated
    offset,     \* GetList's local `offset`
    pc,         \* "idle" between calls, "loop" in the for loop, "panic"
    res,        \* the last value GetList returned
    fetches,    \* doWithAuth calls made by the current GetList
    lists,      \* GetList calls made
    changed     \* the collection changed since the current GetList began

vars == <<srv, meta, nextItem, changes, opts, ro, rs, data, offset, pc, res,
          fetches, lists, changed>>

Items == 1..MaxItems
EmptyOuter == [data |-> <<>>, meta |-> "none", total |-> 0]

\* ListParamsFromMap(ro.Params), the two fields GetList reads.
ListParamsFromMap(p) ==
    IF p = NoParams THEN [offset |-> 0, limit |-> 0]
    ELSE [offset |-> p.offset, limit |-> p.limit]

\* Mutant: only an explicit limit counts as a window.
WindowLimitOnly(p) == ListParamsFromMap(p).limit # 0

\* The caller asked for one page window: lp.Limit != 0 || lp.Offset != 0.
Window(p) ==
    LET lp == ListParamsFromMap(p) IN lp.limit # 0 \/ lp.offset # 0

\* The query parameters a request carries.  doWithAuth sends a nil ro as
\* an empty RequestOptions.
ParamsOf(r) == IF r = NilRo THEN NoParams ELSE r.params

\* The server's page at the request's offset and limit.
PageOf(p) ==
    LET lp == ListParamsFromMap(p)
        size == IF lp.limit # 0 THEN lp.limit ELSE PageSize
        last == IF lp.offset + size < Len(srv) THEN lp.offset + size
                ELSE Len(srv)
    IN  SubSeq(srv, lp.offset + 1, last)

(***************************************************************************)
(* doWithAuth decoding a successful page into rs (resp.JSON(rs), 411):   *)
(* Data is replaced by the page, Metadata gets the endpoint's keys, and    *)
(* total_count is the size of the collection when the page was read.       *)
(* A failed call decodes nothing.                                          *)
(***************************************************************************)
Decode(r, p) ==
    [data  |-> PageOf(p),
     meta  |-> IF meta = "none" THEN r.meta ELSE meta,
     total |-> IF meta = "count" THEN Len(srv) ELSE r.total]

\* GetList returns (rs with Data d, apiresp, err) for a call outcome o.
Return(d, o, from, paged) ==
    /\ pc' = "idle"
    /\ res' = [data |-> d, outcome |-> o, from |-> from, paged |-> paged]

(***************************************************************************)
(* GetList up to the loop: the first doWithAuth (467-468), the metadata    *)
(* test (471), the explicit window (472-475) and the loop entry (476-479), *)
(* whose condition compares the first page's length with the outer tcnt,   *)
(* which stays 0.  ro.Params of a nil ro is a nil-pointer panic.           *)
(***************************************************************************)
GetList(o) ==
    /\ pc = "idle"
    /\ lists < MaxLists
    /\ \E r \in IF ReuseOptions THEN {ro, opts} ELSE {opts} :
         LET r1 == IF o = "ok" THEN Decode(EmptyOuter, ParamsOf(r))
                   ELSE EmptyOuter
             paged == o # "apierr" /\ r1.meta # "none"
         IN  /\ ro' = r
             /\ rs' = r1
             /\ \/ /\ ~paged
                   /\ Return(r1.data, o, "first", paged)
                   /\ UNCHANGED <<data, offset>>
                \/ /\ paged /\ r = NilRo
                   /\ pc' = "panic"
                   /\ UNCHANGED <<data, offset, res>>
                \/ /\ paged /\ r # NilRo /\ Window(r.params)
                   /\ Return(r1.data, o, "first", paged)
                   /\ UNCHANGED <<data, offset>>
                \/ /\ paged /\ r # NilRo /\ ~Window(r.params)
                   /\ Len(r1.data) = 0
                   /\ Return(r1.data, o, "first", paged)
                   /\ UNCHANGED <<data, offset>>
                \/ /\ paged /\ r # NilRo /\ ~Window(r.params)
                   /\ Len(r1.data) # 0
                   /\ pc' = "loop"
                   /\ data' = r1.data
                   /\ offset' = 0
                   /\ UNCHANGED res
    /\ lists' = lists + 1
    /\ fetches' = 1
    /\ changed' = FALSE
    /\ UNCHANGED <<srv, meta, nextItem, changes, opts>>

\* Mutant: the offset is not written back into ro.Params.
WithOffsetStale(p, off) == p

\* ro.Params after the offset update of 485-494.
WithOffset(p, off) ==
    IF p = NoParams THEN [offset |-> off, limit |-> 0, extra |-> FALSE]
    ELSE [p EXCEPT !.offset = off]

\* data = append(data, rs.Data...) (501).
Accumulate(d, page) == d \o page

\* Mutant: the offset advanced by the accumulated data, not the last page.
AdvanceByAccumulated(off, page) == off + Len(data)

\* offset += len(rs.Data) (481).
Advance(off, page) == off + Len(page)

\* Mutant: the break test off by one.
OffsetPassed(off, tcnt) == off > tcnt

\* The break test of 482.
OffsetReached(off, tcnt) == off >= tcnt

(***************************************************************************)
(* One iteration of the loop (480-501): total_count is asserted to be a    *)
(* number (a panic when Metadata lacks it), offset advances by the last    *)
(* page's length, and the loop breaks when it reaches total_count (503).   *)
(* Otherwise the offset is written into ro.Params and the next page is     *)
(* fetched into rs; a failed page restores rs.Data to the accumulated      *)
(* data and returns its apiresp and err (497-499).                         *)
(***************************************************************************)
Iterate(o) ==
    LET off == Advance(offset, rs.data)
        p1 == WithOffset(ro.params, off)
        r1 == IF o = "ok" THEN Decode([rs EXCEPT !.data = <<>>], p1)
              ELSE [rs EXCEPT !.data = <<>>]
    IN  /\ pc = "loop"
        /\ \/ /\ rs.meta # "count"
              /\ pc' = "panic"
              /\ UNCHANGED <<ro, rs, data, offset, res, fetches>>
           \/ /\ rs.meta = "count" /\ OffsetReached(off, rs.total)
              /\ offset' = off
              /\ Return(data, "ok", "loop", TRUE)
              /\ UNCHANGED <<ro, rs, data, fetches>>
           \/ /\ rs.meta = "count" /\ ~OffsetReached(off, rs.total)
              /\ offset' = off
              /\ ro' = [ro EXCEPT !.params = p1]
              /\ fetches' = fetches + 1
              /\ \/ /\ o # "ok"
                    /\ rs' = [r1 EXCEPT !.data = data]
                    /\ Return(data, o, "page", TRUE)
                    /\ UNCHANGED data
                 \/ /\ o = "ok"
                    /\ rs' = r1
                    /\ data' = Accumulate(data, r1.data)
                    /\ UNCHANGED <<pc, res>>
        /\ UNCHANGED <<srv, meta, nextItem, changes, opts, lists, changed>>

(***************************************************************************)
(* Other clients change the collection between two requests.               *)
(***************************************************************************)
Insert(i) ==
    /\ changes < MaxChanges /\ nextItem <= MaxItems
    /\ srv' = SubSeq(srv, 1, i) \o <<nextItem>> \o SubSeq(srv, i + 1, Len(srv))
    /\ nextItem' = nextItem + 1
    /\ changes' = changes + 1
    /\ changed' = TRUE
    /\ UNCHANGED <<meta, opts, ro, rs, data, offset, pc, res, fetches, lists>>

Delete(i) ==
    /\ changes < MaxChanges
    /\ srv' = SubSeq(srv, 1, i - 1) \o SubSeq(srv, i + 1, Len(srv))
    /\ changes' = changes + 1
    /\ changed' = TRUE
    /\ UNCHANGED <<meta, nextItem, opts, ro, rs, data, offset, pc, res, fetches,
                   lists>>

Init ==
    /\ \E n \in 0..InitItems :
         /\ srv = [i \in 1..n |-> i]
         /\ nextItem = n + 1
    /\ meta \in MetaKinds
    /\ changes = 0
    /\ opts \in CallerOptions
    /\ ro = opts
    /\ rs = EmptyOuter
    /\ data = <<>>
    /\ offset = 0
    /\ pc = "idle"
    /\ res = [data |-> <<>>, outcome |-> "ok", from |-> "none", paged |-> FALSE]
    /\ fetches = 0
    /\ lists = 0
    /\ changed = FALSE

\* The caller has made its calls, or GetList panicked.
Stopped ==
    /\ pc = "panic" \/ (pc = "idle" /\ lists = MaxLists)
    /\ UNCHANGED vars

Next ==
    \/ \E o \in Outcomes : GetList(o) \/ Iterate(o)
    \/ \E i \in 0..Len(srv) : Insert(i)
    \/ \E i \in 1..Len(srv) : Delete(i)
    \/ Stopped

Spec == Init /\ [][Next]_vars

-----------------------------------------------------------------------------
(***************************************************************************)
(* Properties.                                                             *)
(***************************************************************************)
Pcs == {"idle", "loop", "panic"}
\* s is a sequence of at most n items.
ItemSeq(s, n) == s \in Seq(Items) /\ Len(s) <= n

TypeOK ==
    /\ ItemSeq(srv, MaxItems) /\ meta \in MetaKinds /\ nextItem \in 1..MaxItems + 1
    /\ changes \in 0..MaxChanges
    /\ opts \in Options /\ ro \in Options
    /\ rs \in [data : Seq(Items), meta : MetaKinds \cup {"none"},
               total : 0..MaxItems]
    /\ ItemSeq(rs.data, MaxItems)
    /\ ItemSeq(data, MaxItems)
    /\ offset \in 0..MaxItems
    /\ pc \in Pcs
    /\ res \in [data : Seq(Items), outcome : Outcomes,
                from : {"none", "first", "loop", "page"}, paged : BOOLEAN]
    /\ ItemSeq(res.data, MaxItems)
    /\ fetches \in Nat
    /\ lists \in 0..MaxLists
    /\ changed \in BOOLEAN

\* The result GetList owes the caller for the options it built: the page
\* it asked for when it set a limit or an offset, otherwise the whole
\* collection, fetched in ceil(n / PageSize) pages.
Expected ==
    IF Window(ParamsOf(opts)) THEN PageOf(ParamsOf(opts)) ELSE srv
ExpectedFetches ==
    IF Window(ParamsOf(opts)) \/ Len(srv) = 0 THEN 1
    ELSE (Len(srv) + PageSize - 1) \div PageSize

(***************************************************************************)
(* A successful GetList whose first page carried metadata, over a          *)
(* collection no other client changed meanwhile, returns exactly the page  *)
(* window the caller asked for, or else every item in the server's order,  *)
(* with one doWithAuth per page (spec 4.5; the loop at 479-502 and the     *)
(* window test at 473).                                                    *)
(***************************************************************************)
ListResult ==
    (pc = "idle" /\ lists > 0 /\ ~changed /\ res.outcome = "ok" /\ res.paged)
        => /\ res.data = Expected
           /\ fetches = ExpectedFetches

(***************************************************************************)
(* The loop over a collection no other client changed, from options the    *)
(* caller built afresh: the offset counts the full pages already taken,    *)
(* rs.Data is the page at the offset, `data` is every item up to the end   *)
(* of that page in the server's order, and total_count is the collection's *)
(* size.  ListResult needs it: it is what the break at 482 returns.        *)
(***************************************************************************)
PageEnd(off) == IF off + PageSize < Len(srv) THEN off + PageSize ELSE Len(srv)
ListLoopInv ==
    pc = "loop" /\ ~changed =>
        /\ opts # NilRo /\ ~Window(opts.params)
        /\ ListParamsFromMap(ro.params).limit = 0
        /\ offset < Len(srv)
        /\ offset = (fetches - 1) * PageSize
        /\ rs.data = SubSeq(srv, offset + 1, PageEnd(offset))
        /\ data = SubSeq(srv, 1, PageEnd(offset))
        /\ rs.meta = "count" => rs.total = Len(srv)
ResultInv == ListLoopInv /\ ListResult

(***************************************************************************)
(* GetList's loop ends within one doWithAuth per item and one more, even   *)
(* while other clients change the collection.  The loop's own condition    *)
(* never changes (it compares the first page's length with the outer       *)
(* tcnt, 479), so only the break at 482 or a failed page ends it.          *)
(***************************************************************************)
MaxFetches == MaxItems + 1
FetchesBounded == fetches <= MaxFetches

(***************************************************************************)
(* GetList's loop never asks for the same page twice: every doWithAuth it  *)
(* makes (495) is at an offset past the previous one, even while other     *)
(* clients delete items.  It rests on the break at 482: a page is empty    *)
(* only at or past the total_count read with it.                           *)
(***************************************************************************)
LoopAdvances ==
    [][pc = "loop" /\ fetches' > fetches => offset' > offset]_vars

(***************************************************************************)
(* GetList never panics: not on ro.Params of a nil ro (472), not on the    *)
(* total_count type assertion (480).                                       *)
(***************************************************************************)
NoPanic == pc # "panic"

(***************************************************************************)
(* A successful GetList returns no item twice, even while other clients    *)
(* change the collection between its pages (offset paging at 481-496).     *)
(***************************************************************************)
NoDuplicateItems ==
    (pc = "idle" /\ res.outcome = "ok") =>
        \A i, j \in DOMAIN res.data : i # j => res.data[i] # res.data[j]
=============================================================================
