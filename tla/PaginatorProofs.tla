--------------------------- MODULE PaginatorProofs ---------------------------
(***************************************************************************)
(* Proofs about GetList (Paginator), for every collection size, page size  *)
(* and number of calls and changes.                                        *)
(***************************************************************************)
EXTENDS Paginator, SequenceTheorems, TLAPS

(***************************************************************************)
(* What GetList's loop keeps between two iterations (480-501): ro is a     *)
(* non-nil options object, `data` holds the pages before the current one   *)
(* (offset items) and the current one (rs.Data), and there has been one    *)
(* doWithAuth per item before offset and one more.  The current page is    *)
(* non-empty unless offset has reached total_count, which is the length  *)
(* of the collection when the page was read.                               *)
(***************************************************************************)
LoopInv ==
    pc = "loop" =>
        /\ ro \in [params : {NoParams} \cup ParamMaps]
        /\ Len(data) = offset + Len(rs.data)
        /\ fetches <= offset + 1
        /\ Len(rs.data) >= 1 \/ offset + Len(rs.data) >= rs.total

\* The server never holds more items than identities it has handed out, and
\* a decoded page's metadata is the endpoint's.
IInv ==
    /\ TypeOK
    /\ FetchesBounded
    /\ Len(srv) < nextItem
    /\ rs.meta \in {"none", meta}
    /\ LoopInv

-----------------------------------------------------------------------------
\* The facts about the constants the steps use.
LEMMA ConstFacts ==
    /\ MaxItems \in Nat /\ InitItems \in 0..MaxItems
    /\ PageSize \in Nat \ {0} /\ MaxLists \in Nat /\ MaxChanges \in Nat
    /\ "ok" \in Outcomes /\ Outcomes \subseteq {"ok", "apierr", "err"}
    /\ CallerOptions \subseteq Options
    /\ NoParams \notin ParamMaps
BY PaginatorAssumption

\* The query parameters of a non-nil options object.
LEMMA ParamsType ==
    ASSUME NEW r \in Options
    PROVE  ParamsOf(r) \in {NoParams} \cup ParamMaps
BY PaginatorAssumption DEF ParamsOf, Options

\* The offset and limit ListParamsFromMap reads are in 0..MaxItems.
LEMMA ListParamsType ==
    ASSUME NEW p \in {NoParams} \cup ParamMaps
    PROVE  /\ ListParamsFromMap(p).offset \in 0..MaxItems
           /\ ListParamsFromMap(p).limit \in 0..MaxItems
BY PaginatorAssumption DEF ListParamsFromMap, ParamMaps

(***************************************************************************)
(* The server's page at a request's offset is a run of the collection: it  *)
(* ends within the collection, and it is empty only when the offset is at  *)
(* or past the collection's end (every page size is positive).            *)
(***************************************************************************)
LEMMA PageProps ==
    ASSUME NEW p \in {NoParams} \cup ParamMaps,
           srv \in Seq(Items), Len(srv) <= MaxItems
    PROVE  /\ PageOf(p) \in Seq(Items)
           /\ ListParamsFromMap(p).offset + Len(PageOf(p)) <= MaxItems
           /\ Len(PageOf(p)) <= Len(srv)
           /\ \/ Len(PageOf(p)) >= 1
              \/ ListParamsFromMap(p).offset + Len(PageOf(p)) >= Len(srv)
<1> DEFINE lp == ListParamsFromMap(p)
           size == IF lp.limit # 0 THEN lp.limit ELSE PageSize
           last == IF lp.offset + size < Len(srv) THEN lp.offset + size
                   ELSE Len(srv)
           q == SubSeq(srv, lp.offset + 1, last)
<1>1. lp.offset \in 0..MaxItems /\ lp.limit \in 0..MaxItems
  BY ListParamsType
<1>2. Len(srv) \in Nat
  BY LenProperties
<1>3. size \in Nat \ {0}
  BY <1>1, PaginatorAssumption
<1>4. last \in 0..Len(srv)
  BY <1>1, <1>2, <1>3
<1>5. \A i \in lp.offset + 1 .. last : srv[i] \in Items
  <2>1. lp.offset + 1 .. last \subseteq 1..Len(srv)
    BY <1>1, <1>2, <1>4
  <2>2. QED
    BY <2>1, ElementOfSeq
<1>6. /\ q \in Seq(Items)
      /\ Len(q) = IF lp.offset + 1 <= last THEN last - lp.offset ELSE 0
  BY <1>1, <1>4, <1>5, SubSeqProperties
<1>7. PageOf(p) = q
  BY DEF PageOf
<1>8. /\ lp.offset + Len(q) <= MaxItems
      /\ Len(q) <= Len(srv)
      /\ Len(q) >= 1 \/ lp.offset + Len(q) >= Len(srv)
  <2>1. CASE lp.offset + 1 <= last
    <3>1. Len(q) = last - lp.offset
      BY <1>6, <2>1
    <3>2. lp.offset + Len(q) <= MaxItems
      BY <1>1, <1>2, <1>4, <3>1, <2>1, PaginatorAssumption
    <3>3. Len(q) <= Len(srv) /\ Len(q) >= 1
      BY <1>1, <1>2, <1>4, <3>1, <2>1
    <3>4. QED
      BY Zenon, <3>2, <3>3
  <2>2. CASE ~(lp.offset + 1 <= last)
    <3>1. lp.offset >= Len(srv)
      BY <1>1, <1>2, <1>3, <2>2 DEF last
    <3>2. QED
      BY <1>1, <1>2, <1>6, <2>2, <3>1, PaginatorAssumption
  <2>3. QED
    BY Zenon, <2>1, <2>2
<1>9. QED
  BY <1>6, <1>7, <1>8

\* Every initial state satisfies the inductive invariant.
LEMMA InitInv == Init => IInv
<1> SUFFICES ASSUME Init PROVE IInv
  OBVIOUS
<1>1. PICK n \in 0..InitItems : srv = [i \in 1..n |-> i] /\ nextItem = n + 1
  BY DEF Init
<1>2. srv \in Seq(Items) /\ Len(srv) = n
  BY <1>1, ConstFacts DEF Items
<1>3. opts \in Options /\ ro \in Options
  BY ConstFacts DEF Init
<1>0. /\ meta \in MetaKinds /\ changes = 0 /\ rs = EmptyOuter /\ data = <<>>
      /\ offset = 0 /\ pc = "idle" /\ fetches = 0 /\ lists = 0
      /\ changed = FALSE
      /\ res = [data |-> <<>>, outcome |-> "ok", from |-> "none",
                paged |-> FALSE]
  BY DEF Init
<1>4. TypeOK
  <2>1. ItemSeq(srv, MaxItems) /\ meta \in MetaKinds
        /\ nextItem \in 1..MaxItems + 1 /\ changes \in 0..MaxChanges
    BY <1>0, <1>1, <1>2, ConstFacts DEF ItemSeq
  <2>2. /\ rs \in [data : Seq(Items), meta : MetaKinds \cup {"none"},
                   total : 0..MaxItems]
        /\ ItemSeq(rs.data, MaxItems) /\ ItemSeq(data, MaxItems)
    BY <1>0, ConstFacts DEF EmptyOuter, ItemSeq
  <2>3. /\ res \in [data : Seq(Items), outcome : Outcomes,
                    from : {"none", "first", "loop", "page"}, paged : BOOLEAN]
        /\ ItemSeq(res.data, MaxItems)
    BY <1>0, ConstFacts DEF ItemSeq
  <2>4. offset \in 0..MaxItems /\ fetches \in Nat /\ lists \in 0..MaxLists
    BY <1>0, ConstFacts
  <2>5. pc \in Pcs /\ changed \in BOOLEAN
    BY <1>0, Zenon DEF Pcs
  <2>6. QED
    BY <1>3, <2>1, <2>2, <2>3, <2>4, <2>5 DEF TypeOK
<1>5. QED
  BY <1>0, <1>1, <1>2, <1>4, ConstFacts
  DEF IInv, FetchesBounded, MaxFetches, LoopInv, EmptyOuter

(***************************************************************************)
(* GetList's first request (467-479) keeps the invariant: the page it      *)
(* decodes is a run of the collection, and a loop it enters starts with    *)
(* that non-empty page at offset 0 after one request.                      *)
(***************************************************************************)
LEMMA GetListStep ==
    ASSUME IInv, NEW o \in Outcomes, GetList(o)
    PROVE  IInv'
<1> DEFINE R1(r) == IF o = "ok" THEN Decode(EmptyOuter, ParamsOf(r))
                    ELSE EmptyOuter
<1>0. TypeOK
  BY DEF IInv
<1>1. /\ lists' = lists + 1 /\ lists < MaxLists
      /\ fetches' = 1 /\ changed' = FALSE
      /\ UNCHANGED <<srv, meta, nextItem, changes, opts>>
  BY DEF GetList
<1>a. PICK r \in Options :
        LET r1 == R1(r)
            paged == o # "apierr" /\ r1.meta # "none"
        IN  /\ ro' = r
            /\ rs' = r1
            /\ \/ /\ ~paged
                  /\ Return(r1.data, o, "first", paged)
                  /\ UNCHANGED <<data, offset>>
               \/ /\ paged /\ r = NilRo
                  /\ pc' = "panic"
                  /\ UNCHANGED <<data, offset, res>>
               \/ /\ paged /\ r # NilRo /\ Window(r.params)
                  /\ Return(r1.data, o, "first", paged)
                  /\ UNCHANGED <<data, offset>>
               \/ /\ paged /\ r # NilRo /\ ~Window(r.params)
                  /\ Len(r1.data) = 0
                  /\ Return(r1.data, o, "first", paged)
                  /\ UNCHANGED <<data, offset>>
               \/ /\ paged /\ r # NilRo /\ ~Window(r.params)
                  /\ Len(r1.data) # 0
                  /\ pc' = "loop"
                  /\ data' = r1.data
                  /\ offset' = 0
                  /\ UNCHANGED res
  BY <1>0 DEF GetList, TypeOK
<1>b. ro' = r /\ rs' = R1(r)
  BY <1>a
<1>c. \/ /\ pc' = "idle" /\ UNCHANGED <<data, offset>>
         /\ res' = [data |-> rs'.data, outcome |-> o, from |-> "first",
                    paged |-> (o # "apierr" /\ rs'.meta # "none")]
      \/ /\ pc' = "panic" /\ UNCHANGED <<data, offset, res>>
      \/ /\ pc' = "loop" /\ r # NilRo /\ data' = rs'.data /\ offset' = 0
         /\ Len(rs'.data) # 0 /\ UNCHANGED res
  BY <1>a, <1>b DEF Return
<1>2. ParamsOf(r) \in {NoParams} \cup ParamMaps
  BY ParamsType
<1>3. /\ rs' \in [data : Seq(Items), meta : MetaKinds \cup {"none"},
                  total : 0..MaxItems]
      /\ ItemSeq(rs'.data, MaxItems)
      /\ rs'.meta \in {"none", meta}
  <2>1. CASE o = "ok"
    <3>1. /\ PageOf(ParamsOf(r)) \in Seq(Items)
          /\ Len(PageOf(ParamsOf(r))) <= Len(srv)
      BY <1>0, <1>2, PageProps DEF TypeOK, ItemSeq
    <3>2. rs' = [data |-> PageOf(ParamsOf(r)),
                 meta |-> IF meta = "none" THEN "none" ELSE meta,
                 total |-> IF meta = "count" THEN Len(srv) ELSE 0]
      BY <1>b, <2>1 DEF R1, Decode, EmptyOuter
    <3>3. Len(srv) \in 0..MaxItems
      BY <1>0, LenProperties DEF TypeOK, ItemSeq
    <3>4. /\ (IF meta = "none" THEN "none" ELSE meta) \in MetaKinds \cup {"none"}
          /\ (IF meta = "none" THEN "none" ELSE meta) \in {"none", meta}
      BY <1>0, Zenon DEF TypeOK
    <3>5. (IF meta = "count" THEN Len(srv) ELSE 0) \in 0..MaxItems
      BY <3>3, ConstFacts
    <3>6. QED
      BY <3>1, <3>2, <3>3, <3>4, <3>5, ConstFacts DEF ItemSeq
  <2>2. CASE o # "ok"
    BY <1>b, <2>2, ConstFacts DEF R1, EmptyOuter, ItemSeq
  <2>3. QED
    BY <2>1, <2>2
<1>4. TypeOK'
  <2>1. /\ res' \in [data : Seq(Items), outcome : Outcomes,
                     from : {"none", "first", "loop", "page"}, paged : BOOLEAN]
        /\ ItemSeq(res'.data, MaxItems)
    <3>1. CASE res' = res
      BY <3>1, <1>0 DEF TypeOK
    <3>2. CASE res' = [data |-> rs'.data, outcome |-> o, from |-> "first",
                       paged |-> (o # "apierr" /\ rs'.meta # "none")]
      <4>1. (o # "apierr" /\ rs'.meta # "none") \in BOOLEAN
        OBVIOUS
      <4>2. QED
        BY <3>2, <4>1, <1>3 DEF ItemSeq
    <3>3. QED
      BY <1>c, <3>1, <3>2
  <2>2. /\ ItemSeq(data', MaxItems) /\ offset' \in 0..MaxItems
    BY <1>0, <1>c, <1>3, ConstFacts DEF TypeOK
  <2>3. pc' \in Pcs
    BY <1>c DEF Pcs
  <2>4. lists' \in 0..MaxLists /\ fetches' \in Nat
    BY <1>0, <1>1, ConstFacts DEF TypeOK
  <2>5. QED
    BY Zenon, <1>0, <1>1, <1>b, <1>3, <2>1, <2>2, <2>3, <2>4 DEF TypeOK
<1>5. LoopInv'
  <2> SUFFICES ASSUME pc' = "loop"
               PROVE  /\ ro' \in [params : {NoParams} \cup ParamMaps]
                      /\ Len(data') = offset' + Len(rs'.data)
                      /\ fetches' <= offset' + 1
                      /\ Len(rs'.data) >= 1 \/ offset' + Len(rs'.data) >= rs'.total
    BY DEF LoopInv
  <2>1. r # NilRo /\ data' = rs'.data /\ offset' = 0 /\ Len(rs'.data) # 0
    BY <1>c
  <2>2. ro' \in [params : {NoParams} \cup ParamMaps]
    BY <1>b, <2>1 DEF Options
  <2>3. Len(rs'.data) \in Nat
    BY <1>3, LenProperties DEF ItemSeq
  <2>4. QED
    BY <1>1, <2>1, <2>2, <2>3
<1>6. QED
  BY <1>1, <1>3, <1>4, <1>5, ConstFacts
  DEF IInv, FetchesBounded, MaxFetches

(***************************************************************************)
(* One iteration of GetList's loop (480-501) keeps the invariant.  The     *)
(* offset it moves to is the length of the data accumulated so far, so it  *)
(* stays within the collection; a request is made only when that offset is *)
(* below total_count, and then the current page was non-empty, so the      *)
(* offset grew by at least one since the last request.                     *)
(***************************************************************************)
LEMMA IterateStep ==
    ASSUME IInv, NEW o \in Outcomes, Iterate(o)
    PROVE  IInv'
<1> DEFINE off == Advance(offset, rs.data)
           p1 == WithOffset(ro.params, off)
           r0 == [rs EXCEPT !.data = <<>>]
           r1 == IF o = "ok" THEN Decode(r0, p1) ELSE r0
<1>0. /\ TypeOK /\ FetchesBounded /\ Len(srv) < nextItem
      /\ rs.meta \in {"none", meta}
      /\ pc = "loop"
      /\ ro \in [params : {NoParams} \cup ParamMaps]
      /\ Len(data) = offset + Len(rs.data)
      /\ fetches <= offset + 1
      /\ Len(rs.data) >= 1 \/ offset + Len(rs.data) >= rs.total
  BY DEF IInv, LoopInv, Iterate
<1>1. /\ off = Len(data) /\ off \in 0..MaxItems
      /\ Len(rs.data) \in Nat /\ offset \in 0..MaxItems
      /\ rs.total \in 0..MaxItems
  BY <1>0, LenProperties DEF Advance, TypeOK, ItemSeq
<1>2. p1 \in ParamMaps /\ ListParamsFromMap(p1).offset = off
  <2>1. p1 \in ParamMaps /\ p1.offset = off
    <3>1. CASE ro.params = NoParams
      BY <1>1, <3>1, ConstFacts DEF p1, WithOffset, ParamMaps
    <3>2. CASE ro.params \in ParamMaps
      BY Zenon, <1>1, <3>2, ConstFacts DEF p1, WithOffset, ParamMaps
    <3>3. QED
      BY <1>0, <3>1, <3>2
  <2>2. p1 # NoParams
    BY <2>1, PaginatorAssumption
  <2>3. QED
    BY <2>1, <2>2 DEF ListParamsFromMap
<1>3. /\ UNCHANGED <<srv, meta, nextItem, changes, opts, lists, changed>>
  BY DEF Iterate
<1>4. Len(srv) \in 0..MaxItems /\ srv \in Seq(Items)
  BY <1>0, LenProperties DEF TypeOK, ItemSeq
<1>5. CASE rs.meta # "count"
  <2>1. pc' = "panic" /\ UNCHANGED <<ro, rs, data, offset, res, fetches>>
    BY Zenon, <1>5 DEF Iterate
  <2>2. TypeOK'
    BY <1>0, <1>3, <2>1 DEF TypeOK, Pcs
  <2>3. QED
    BY <1>0, <1>3, <2>1, <2>2 DEF IInv, LoopInv, FetchesBounded
<1>6. CASE rs.meta = "count" /\ OffsetReached(off, rs.total)
  <2>1. /\ pc' = "idle" /\ offset' = off
        /\ res' = [data |-> data, outcome |-> "ok", from |-> "loop",
                   paged |-> TRUE]
        /\ UNCHANGED <<ro, rs, data, fetches>>
    BY <1>6 DEF Iterate, Return, OffsetReached
  <2>2. res' \in [data : Seq(Items), outcome : Outcomes,
                  from : {"none", "first", "loop", "page"}, paged : BOOLEAN]
        /\ ItemSeq(res'.data, MaxItems)
    BY <1>0, <2>1, ConstFacts DEF TypeOK, ItemSeq
  <2>3. TypeOK'
    BY <1>0, <1>1, <1>3, <2>1, <2>2 DEF TypeOK, Pcs
  <2>4. FetchesBounded'
    BY <1>0, <1>1, <2>1 DEF FetchesBounded, MaxFetches
  <2>5. QED
    BY <1>0, <1>3, <2>1, <2>3, <2>4 DEF IInv, LoopInv
<1>7. CASE rs.meta = "count" /\ ~OffsetReached(off, rs.total)
  <2>1. /\ offset' = off
        /\ ro' = [ro EXCEPT !.params = p1]
        /\ fetches' = fetches + 1
        /\ \/ /\ o # "ok"
              /\ rs' = [r1 EXCEPT !.data = data]
              /\ Return(data, o, "page", TRUE)
              /\ UNCHANGED data
           \/ /\ o = "ok"
              /\ rs' = r1
              /\ data' = Accumulate(data, r1.data)
              /\ UNCHANGED <<pc, res>>
    BY <1>7, Zenon DEF Iterate, OffsetReached
  <2>2. off < rs.total /\ Len(rs.data) >= 1
    BY <1>0, <1>1, <1>7 DEF OffsetReached, Advance
  <2>3. /\ fetches' <= offset' + 1 /\ off < MaxItems
        /\ FetchesBounded' /\ fetches' \in Nat /\ offset' \in 0..MaxItems
    <3>1. fetches \in Nat /\ fetches <= offset + 1
      BY <1>0 DEF TypeOK
    <3>2. offset' = off /\ fetches' = fetches + 1
      BY <2>1
    <3>3. off < MaxItems
      BY <1>1, <2>2, ConstFacts
    <3>4. fetches' <= offset' + 1 /\ fetches' \in Nat
      BY <1>1, <2>2, <3>1, <3>2 DEF off, Advance
    <3>5. FetchesBounded'
      BY <1>1, <3>2, <3>3, <3>4, ConstFacts DEF FetchesBounded, MaxFetches
    <3>6. QED
      BY <1>1, <3>2, <3>3, <3>4, <3>5
  <2>4. ro' \in Options /\ ro' \in [params : {NoParams} \cup ParamMaps]
    BY <1>0, <1>2, <2>1 DEF Options
  <2>5. CASE o # "ok"
    <3>1. /\ rs' = [rs EXCEPT !.data = data] /\ pc' = "idle"
          /\ res' = [data |-> data, outcome |-> o, from |-> "page",
                     paged |-> TRUE]
          /\ UNCHANGED data
      BY <2>1, <2>5 DEF Return
    <3>2. /\ rs' \in [data : Seq(Items), meta : MetaKinds \cup {"none"},
                     total : 0..MaxItems]
          /\ ItemSeq(rs'.data, MaxItems)
      BY Zenon, <1>0, <3>1 DEF TypeOK, ItemSeq
    <3>3. /\ res' \in [data : Seq(Items), outcome : Outcomes,
                      from : {"none", "first", "loop", "page"}, paged : BOOLEAN]
          /\ ItemSeq(res'.data, MaxItems)
      BY <1>0, <3>1 DEF TypeOK, ItemSeq
    <3>4. TypeOK'
      BY <1>0, <1>3, <2>3, <2>4, <3>1, <3>2, <3>3 DEF TypeOK, Pcs
    <3>5. QED
      BY <1>0, <1>3, <2>3, <3>1, <3>4 DEF IInv, LoopInv
  <2>6. CASE o = "ok"
    <3>1. meta = "count"
      BY <1>0, <1>7
    <3>2. /\ rs' = [data |-> PageOf(p1), meta |-> "count", total |-> Len(srv)]
          /\ data' = data \o PageOf(p1)
          /\ UNCHANGED <<pc, res>>
      BY Zenon, <2>1, <2>6, <3>1 DEF Decode, Accumulate
    <3>3. /\ PageOf(p1) \in Seq(Items)
          /\ off + Len(PageOf(p1)) <= MaxItems
          /\ Len(PageOf(p1)) >= 1 \/ off + Len(PageOf(p1)) >= Len(srv)
      BY <1>2, <1>4, PageProps
    <3>4. /\ data' \in Seq(Items)
          /\ Len(data') = off + Len(PageOf(p1))
      <4>1. data \in Seq(Items)
        BY <1>0 DEF TypeOK, ItemSeq
      <4>2. /\ data \o PageOf(p1) \in Seq(Items)
            /\ Len(data \o PageOf(p1)) = Len(data) + Len(PageOf(p1))
        BY <4>1, <3>3, ConcatProperties
      <4>3. QED
        BY <1>1, <3>2, <4>2
    <3>5. TypeOK'
      <4>1. Len(PageOf(p1)) \in Nat /\ Len(srv) \in 0..MaxItems
        BY <1>4, <3>3, LenProperties
      <4>2. /\ rs' \in [data : Seq(Items), meta : MetaKinds \cup {"none"},
                       total : 0..MaxItems]
            /\ ItemSeq(rs'.data, MaxItems)
        <5>1. "count" \in MetaKinds
          BY <1>0, <3>1 DEF TypeOK
        <5>2. Len(PageOf(p1)) <= MaxItems
          BY <1>1, <3>3, <4>1, ConstFacts
        <5>3. QED
          BY <3>2, <3>3, <4>1, <5>1, <5>2 DEF ItemSeq
      <4>3. ItemSeq(data', MaxItems)
        BY <1>1, <3>3, <3>4, <4>1 DEF ItemSeq
      <4>4. QED
        BY <1>0, <1>3, <2>3, <2>4, <3>2, <4>2, <4>3 DEF TypeOK
    <3>6. LoopInv'
      BY <2>1, <2>3, <2>4, <3>2, <3>3, <3>4 DEF LoopInv
    <3>7. QED
      BY <1>0, <1>3, <2>3, <3>1, <3>2, <3>5, <3>6 DEF IInv
  <2>7. QED
    BY <2>5, <2>6
<1>8. QED
  BY <1>5, <1>6, <1>7

\* A run of a sequence of items, and its length.
LEMMA RunProps ==
    ASSUME NEW s \in Seq(Items), NEW m \in 1..Len(s) + 1, NEW n \in m - 1..Len(s)
    PROVE  /\ SubSeq(s, m, n) \in Seq(Items)
           /\ Len(SubSeq(s, m, n)) = n - m + 1
<1>1. \A j \in m..n : s[j] \in Items
  BY LenProperties
<1>2. QED
  BY <1>1, SubSeqProperties

(***************************************************************************)
(* Another client inserting an item: the collection grows by one fresh     *)
(* identity, so it stays shorter than the next identity.  GetList's state  *)
(* is untouched, so the loop invariant carries over.                       *)
(***************************************************************************)
LEMMA InsertStep ==
    ASSUME IInv, NEW i \in 0..Len(srv), Insert(i)
    PROVE  IInv'
<1>0. TypeOK /\ Len(srv) < nextItem
  BY DEF IInv
<1>1. /\ srv \in Seq(Items) /\ Len(srv) \in 0..MaxItems
      /\ nextItem \in 1..MaxItems /\ changes < MaxChanges
  BY <1>0, LenProperties DEF TypeOK, ItemSeq, Insert, Items
<1>2. /\ SubSeq(srv, 1, i) \in Seq(Items) /\ Len(SubSeq(srv, 1, i)) = i
      /\ SubSeq(srv, i + 1, Len(srv)) \in Seq(Items)
      /\ Len(SubSeq(srv, i + 1, Len(srv))) = Len(srv) - i
  BY <1>1, RunProps
<1>3. <<nextItem>> \in Seq(Items) /\ Len(<<nextItem>>) = 1
  BY <1>1 DEF Items
<1>4. /\ srv' \in Seq(Items) /\ Len(srv') = Len(srv) + 1
  <2>1. /\ SubSeq(srv, 1, i) \o <<nextItem>> \in Seq(Items)
        /\ Len(SubSeq(srv, 1, i) \o <<nextItem>>) = i + 1
    BY <1>2, <1>3, ConcatProperties
  <2>2. srv' = (SubSeq(srv, 1, i) \o <<nextItem>>) \o SubSeq(srv, i + 1, Len(srv))
    BY DEF Insert
  <2>3. /\ (SubSeq(srv, 1, i) \o <<nextItem>>) \o SubSeq(srv, i + 1, Len(srv))
           \in Seq(Items)
        /\ Len((SubSeq(srv, 1, i) \o <<nextItem>>) \o SubSeq(srv, i + 1, Len(srv)))
           = Len(SubSeq(srv, 1, i) \o <<nextItem>>) + Len(SubSeq(srv, i + 1, Len(srv)))
    BY <1>2, <2>1, ConcatProperties
  <2>4. srv' \in Seq(Items)
    BY <2>2, <2>3, Zenon
  <2>5. Len(srv') = Len(SubSeq(srv, 1, i) \o <<nextItem>>)
                    + Len(SubSeq(srv, i + 1, Len(srv)))
    BY <2>2, <2>3, Zenon
  <2>8. \A a, b : a = i + 1 /\ b = Len(srv) - i => a + b = Len(srv) + 1
    BY <1>1
  <2>7. Len(srv') = Len(srv) + 1
    BY <1>2, <2>1, <2>5, <2>8, Zenon
  <2>6. QED
    BY <2>4, <2>7
<1>5. /\ nextItem' = nextItem + 1 /\ changes' = changes + 1 /\ changed' = TRUE
      /\ UNCHANGED <<meta, opts, ro, rs, data, offset, pc, res, fetches, lists>>
  BY DEF Insert
<1>6. TypeOK'
  <2>1. ItemSeq(srv', MaxItems) /\ nextItem' \in 1..MaxItems + 1
        /\ changes' \in 0..MaxChanges
    BY <1>0, <1>1, <1>4, <1>5, ConstFacts DEF ItemSeq, TypeOK
  <2>2. changed' \in BOOLEAN
    BY <1>5
  <2>3. QED
    BY <1>0, <1>5, <2>1, <2>2 DEF TypeOK
<1>7. QED
  BY <1>0, <1>1, <1>4, <1>5, <1>6 DEF IInv, FetchesBounded, LoopInv

\* Another client deleting an item: the collection shrinks by one.
LEMMA DeleteStep ==
    ASSUME IInv, NEW i \in 1..Len(srv), Delete(i)
    PROVE  IInv'
<1>0. TypeOK /\ Len(srv) < nextItem
  BY DEF IInv
<1>1. /\ srv \in Seq(Items) /\ Len(srv) \in 0..MaxItems
      /\ changes < MaxChanges
  BY <1>0, LenProperties DEF TypeOK, ItemSeq, Delete
<1>2. /\ SubSeq(srv, 1, i - 1) \in Seq(Items)
      /\ Len(SubSeq(srv, 1, i - 1)) = i - 1
      /\ SubSeq(srv, i + 1, Len(srv)) \in Seq(Items)
      /\ Len(SubSeq(srv, i + 1, Len(srv))) = Len(srv) - i
  BY <1>1, RunProps
<1>3. /\ srv' \in Seq(Items) /\ Len(srv') = Len(srv) - 1
  <2>1. srv' = SubSeq(srv, 1, i - 1) \o SubSeq(srv, i + 1, Len(srv))
    BY DEF Delete
  <2>2. /\ SubSeq(srv, 1, i - 1) \o SubSeq(srv, i + 1, Len(srv)) \in Seq(Items)
        /\ Len(SubSeq(srv, 1, i - 1) \o SubSeq(srv, i + 1, Len(srv)))
           = Len(SubSeq(srv, 1, i - 1)) + Len(SubSeq(srv, i + 1, Len(srv)))
    BY <1>2, ConcatProperties
  <2>3. srv' \in Seq(Items)
    BY <2>1, <2>2, Zenon
  <2>6. Len(srv') = Len(SubSeq(srv, 1, i - 1)) + Len(SubSeq(srv, i + 1, Len(srv)))
    BY <2>1, <2>2, Zenon
  <2>7. \A a, b : a = i - 1 /\ b = Len(srv) - i => a + b = Len(srv) - 1
    BY <1>1
  <2>4. Len(srv') = Len(srv) - 1
    BY <1>2, <2>6, <2>7, Zenon
  <2>5. QED
    BY <2>3, <2>4
<1>4. /\ changes' = changes + 1 /\ changed' = TRUE
      /\ UNCHANGED <<meta, nextItem, opts, ro, rs, data, offset, pc, res,
                     fetches, lists>>
  BY DEF Delete
<1>5. TypeOK'
  <2>1. ItemSeq(srv', MaxItems) /\ changes' \in 0..MaxChanges
    BY <1>0, <1>1, <1>3, <1>4, ConstFacts DEF ItemSeq, TypeOK
  <2>2. changed' \in BOOLEAN
    BY <1>4
  <2>3. QED
    BY <1>0, <1>4, <2>1, <2>2 DEF TypeOK
<1>6. (Len(srv) < nextItem)'
  BY <1>0, <1>1, <1>3, <1>4 DEF TypeOK
<1>7. QED
  BY <1>4, <1>5, <1>6 DEF IInv, FetchesBounded, LoopInv

(***************************************************************************)
(* IInv is an invariant of GetList with concurrent changes.                *)
(***************************************************************************)
THEOREM Invariant == Spec => []IInv
<1>1. Init => IInv
  BY InitInv
<1>2. IInv /\ [Next]_vars => IInv'
  <2> SUFFICES ASSUME IInv, [Next]_vars PROVE IInv'
    OBVIOUS
  <2>1. ASSUME NEW o \in Outcomes, GetList(o) PROVE IInv'
    BY <2>1, GetListStep
  <2>2. ASSUME NEW o \in Outcomes, Iterate(o) PROVE IInv'
    BY <2>2, IterateStep
  <2>3. ASSUME NEW i \in 0..Len(srv), Insert(i) PROVE IInv'
    BY <2>3, InsertStep
  <2>4. ASSUME NEW i \in 1..Len(srv), Delete(i) PROVE IInv'
    BY <2>4, DeleteStep
  <2>5. CASE Stopped \/ UNCHANGED vars
    BY <2>5 DEF Stopped, vars, IInv, TypeOK, FetchesBounded, LoopInv, ItemSeq
  <2>6. QED
    BY <2>1, <2>2, <2>3, <2>4, <2>5 DEF Next
<1>3. QED
  BY <1>1, <1>2, PTL DEF Spec

\* GetList's state keeps its types (TypeOK of the list_pipeline run).
THEOREM TypeCorrect == Spec => []TypeOK
BY Invariant, PTL DEF IInv

(***************************************************************************)
(* One GetList makes at most MaxItems + 1 requests, whatever other clients *)
(* do between its pages (FetchesBounded of the list_pipeline run): the     *)
(* loop whose own condition never changes (479) still ends.                *)
(***************************************************************************)
THEOREM FetchesBoundedHolds == Spec => []FetchesBounded
BY Invariant, PTL DEF IInv

-----------------------------------------------------------------------------
(***************************************************************************)
(* ListResult: what a successful paged GetList returns.  It is stated for  *)
(* options the caller builds afresh for the call (ReuseOptions = FALSE);  *)
(* reused options still carry the offset the last loop left in them (493)  *)
(* and the list_pipeline run is configured that way.  The proof carries    *)
(* the loop invariant ListLoopInv together with ListResult itself, which   *)
(* must survive the idle steps between two calls.                          *)
(***************************************************************************)

\* Without a limit, the server's page at an offset is the run of at most
\* PageSize items from there, cut at the collection's end.
LEMMA PageAtOffset ==
    ASSUME NEW p, ListParamsFromMap(p).limit = 0
    PROVE  PageOf(p) = SubSeq(srv, ListParamsFromMap(p).offset + 1,
                                   PageEnd(ListParamsFromMap(p).offset))
BY DEF PageOf, PageEnd

\* Page counting: (f - 1) full pages and a last page of 1..P items need
\* ceil(n / P) = f requests, the count ExpectedFetches writes with \div.
LEMMA DivCeil ==
    ASSUME NEW f \in Nat \ {0}, NEW P \in Nat \ {0}, NEW k \in 1..P
    PROVE  ((f - 1) * P + k + P - 1) \div P = f
<1>1. (f - 1) * P + k + P - 1 = f * P + (k - 1)
  OBVIOUS
<1>2. k - 1 \in 0..P - 1
  OBVIOUS
<1>3. (f * P + (k - 1)) \div P = f
  BY <1>2
<1>4. QED
  BY <1>1, <1>3

\* Before the first call there is no result to speak of.
LEMMA ResultInit == Init => ResultInv
BY DEF Init, ResultInv, ListLoopInv, ListResult

(***************************************************************************)
(* Another client inserting or deleting an item marks the collection       *)
(* changed, and both conjuncts are stated only for an unchanged one.       *)
(***************************************************************************)
LEMMA ResultChange ==
    ASSUME changed' = TRUE
    PROVE  ResultInv'
BY DEF ResultInv, ListLoopInv, ListResult

(***************************************************************************)
(* GetList's first request (467-479) from fresh options over the current   *)
(* collection: a window returns the page asked for after one request; an   *)
(* empty first page without a window means an empty collection; a loop it  *)
(* enters starts at offset 0 with the first PageSize items.                *)
(***************************************************************************)
LEMMA ResultGetList ==
    ASSUME ~ReuseOptions, IInv, NEW o \in Outcomes, GetList(o)
    PROVE  ResultInv'
<1> DEFINE P0 == ParamsOf(opts)
           r1 == IF o = "ok" THEN Decode(EmptyOuter, P0) ELSE EmptyOuter
           paged == o # "apierr" /\ r1.meta # "none"
<1>0. /\ TypeOK /\ srv \in Seq(Items) /\ Len(srv) \in 0..MaxItems
      /\ opts \in Options /\ P0 \in {NoParams} \cup ParamMaps
  BY ParamsType, LenProperties DEF IInv, TypeOK, ItemSeq
<1>1. /\ fetches' = 1 /\ changed' = FALSE /\ lists' = lists + 1
      /\ UNCHANGED <<srv, meta, opts>>
  BY Zenon DEF GetList
<1>2. /\ ro' = opts
      /\ rs' = r1
      /\ \/ /\ ~paged
            /\ Return(r1.data, o, "first", paged)
         \/ /\ paged /\ opts = NilRo
            /\ pc' = "panic"
         \/ /\ paged /\ opts # NilRo /\ Window(opts.params)
            /\ Return(r1.data, o, "first", paged)
         \/ /\ paged /\ opts # NilRo /\ ~Window(opts.params)
            /\ Len(r1.data) = 0
            /\ Return(r1.data, o, "first", paged)
         \/ /\ paged /\ opts # NilRo /\ ~Window(opts.params)
            /\ Len(r1.data) # 0
            /\ pc' = "loop"
            /\ data' = r1.data
            /\ offset' = 0
  BY ZenonT(30) DEF GetList
<1>3. ASSUME o = "ok" PROVE /\ r1.data = PageOf(P0)
                            /\ (r1.meta = "count" => r1.total = Len(srv))
  BY <1>3 DEF Decode, EmptyOuter
<1>4. ASSUME paged PROVE o = "ok"
  BY <1>4, ConstFacts DEF EmptyOuter
<1>5. ASSUME opts # NilRo, ~Window(opts.params)
      PROVE  /\ ListParamsFromMap(P0).offset = 0
             /\ ListParamsFromMap(P0).limit = 0
             /\ PageOf(P0) = SubSeq(srv, 1, PageEnd(0))
  <2>1. ListParamsFromMap(P0).offset = 0 /\ ListParamsFromMap(P0).limit = 0
    BY <1>5 DEF Window, ParamsOf
  <2>2. QED
    BY <2>1, PageAtOffset
<1>6. PageEnd(0) \in 0..Len(srv) /\ (PageEnd(0) = 0 => Len(srv) = 0)
  BY <1>0, ConstFacts DEF PageEnd
<1>7. ASSUME paged, opts # NilRo, ~Window(opts.params)
      PROVE  /\ r1.data = SubSeq(srv, 1, PageEnd(0))
             /\ Len(r1.data) = PageEnd(0)
  BY <1>0, <1>3, <1>4, <1>5, <1>6, <1>7, RunProps
\* A call that returns: the result is the first page, after one request.
<1>8. ASSUME pc' = "idle", res' = [data |-> r1.data, outcome |-> o,
                                   from |-> "first", paged |-> paged],
             paged => /\ opts # NilRo
                      /\ Window(opts.params) \/ Len(r1.data) = 0
      PROVE  ResultInv'
  <2>1. ListLoopInv'
    BY <1>8 DEF ListLoopInv
  <2>2. ASSUME res'.outcome = "ok", res'.paged
        PROVE  res'.data = Expected' /\ fetches' = ExpectedFetches'
    <3>1. paged /\ o = "ok"
      BY Zenon, <1>8, <2>2
    <3>2. CASE Window(opts.params)
      <4>1. Window(ParamsOf(opts)') /\ opts # NilRo
        BY <1>1, <1>8, <3>1, <3>2 DEF ParamsOf
      <4>2. res'.data = PageOf(P0)
        BY <1>3, <1>8, <3>1
      <4>3. PageOf(P0) = PageOf(ParamsOf(opts))'
        BY <1>1 DEF PageOf, ParamsOf
      <4>4. QED
        BY <1>1, <4>1, <4>2, <4>3 DEF Expected, ExpectedFetches
    <3>3. CASE ~Window(opts.params)
      <4>1. opts # NilRo /\ Len(r1.data) = 0
        BY Zenon, <1>8, <3>1, <3>3
      <4>2. Len(srv) = 0 /\ r1.data = SubSeq(srv, 1, PageEnd(0))
        BY <1>6, <1>7, <3>1, <3>3, <4>1
      <4>3. srv = << >> /\ r1.data = << >>
        BY <1>0, <4>1, <4>2, EmptySeq
      <4>4. ~Window(ParamsOf(opts)') /\ srv' = << >>
        BY <1>1, <3>3, <4>1, <4>3 DEF ParamsOf
      <4>5. QED
        BY <1>1, <1>8, <4>3, <4>4 DEF Expected, ExpectedFetches
    <3>4. QED
      BY <3>2, <3>3
  <2>3. QED
    BY <2>1, <2>2 DEF ResultInv, ListResult
\* A call that enters the loop with the first PageSize items.
<1>9. ASSUME paged, opts # NilRo, ~Window(opts.params), Len(r1.data) # 0,
             pc' = "loop", data' = r1.data, offset' = 0
      PROVE  ResultInv'
  <2>1. o = "ok" /\ r1.data = SubSeq(srv, 1, PageEnd(0))
        /\ Len(r1.data) = PageEnd(0)
    BY <1>4, <1>7, <1>9
  <2>2. 0 < Len(srv)
    BY <1>6, <1>9, <2>1
  <2>3. ListParamsFromMap(ro'.params).limit = 0
    BY <1>2, <1>5, <1>9 DEF ParamsOf
  <2>4. rs'.meta = "count" => rs'.total = Len(srv)
    BY <1>2, <1>3, <2>1
  <2>5. offset' = (fetches' - 1) * PageSize
    BY <1>1, <1>9, ConstFacts
  <2>6. /\ (SubSeq(srv, offset + 1, PageEnd(offset)))' = SubSeq(srv, 1, PageEnd(0))
        /\ (SubSeq(srv, 1, PageEnd(offset)))' = SubSeq(srv, 1, PageEnd(0))
    BY <1>1, <1>9 DEF PageEnd
  <2>7. /\ opts' # NilRo /\ ~Window(opts'.params)
        /\ offset' < Len(srv') /\ rs'.data = r1.data /\ data' = r1.data
    <3>1. opts' # NilRo /\ ~Window(opts'.params)
      BY Zenon, <1>1, <1>9
    <3>2. offset' < Len(srv')
      BY <1>1, <1>9, <2>2
    <3>3. rs'.data = r1.data /\ data' = r1.data
      BY Zenon, <1>2, <1>9
    <3>4. QED
      BY <3>1, <3>2, <3>3
  <2>8. ListLoopInv'
    BY Zenon, <2>1, <2>3, <2>4, <2>5, <2>6, <2>7, <1>1 DEF ListLoopInv
  <2>9. QED
    BY <1>9, <2>8 DEF ResultInv, ListResult
<1>10. QED
  <2>1. CASE ~paged
    BY Zenon, <1>2, <1>8, <2>1 DEF Return
  <2>2. CASE paged /\ opts = NilRo
    BY <1>2, <2>2 DEF ResultInv, ListLoopInv, ListResult
  <2>3. CASE paged /\ opts # NilRo /\ Window(opts.params)
    BY Zenon, <1>2, <1>8, <2>3 DEF Return
  <2>4. CASE paged /\ opts # NilRo /\ ~Window(opts.params) /\ Len(r1.data) = 0
    BY Zenon, <1>2, <1>8, <2>4 DEF Return
  <2>5. CASE paged /\ opts # NilRo /\ ~Window(opts.params) /\ Len(r1.data) # 0
    BY ZenonT(30), <1>2, <1>9, <2>5
  <2>6. QED
    BY <2>1, <2>2, <2>3, <2>4, <2>5

\* The offset update of 485-494 keeps a zero limit and sets the offset.
LEMMA OffsetParams ==
    ASSUME NEW q \in {NoParams} \cup ParamMaps, NEW n \in 0..MaxItems,
           ListParamsFromMap(q).limit = 0
    PROVE  /\ WithOffset(q, n) \in ParamMaps
           /\ ListParamsFromMap(WithOffset(q, n)).offset = n
           /\ ListParamsFromMap(WithOffset(q, n)).limit = 0
<1>1. CASE q = NoParams
  <2>1. WithOffset(q, n) = [offset |-> n, limit |-> 0, extra |-> FALSE]
    BY <1>1 DEF WithOffset
  <2>2. [offset |-> n, limit |-> 0, extra |-> FALSE] \in ParamMaps
    BY ConstFacts DEF ParamMaps
  <2>3. WithOffset(q, n) \in ParamMaps /\ WithOffset(q, n) # NoParams
    BY Zenon, <2>1, <2>2, ConstFacts
  <2>4. QED
    BY <2>1, <2>3 DEF ListParamsFromMap
<1>2. CASE q \in ParamMaps
  <2>1. q # NoParams /\ q.limit = 0
    BY <1>2, ConstFacts DEF ListParamsFromMap
  <2>2. WithOffset(q, n) = [q EXCEPT !.offset = n]
    BY <2>1 DEF WithOffset
  <2>3. [q EXCEPT !.offset = n] \in ParamMaps
        /\ [q EXCEPT !.offset = n].offset = n
        /\ [q EXCEPT !.offset = n].limit = 0
    BY <1>2, <2>1 DEF ParamMaps
  <2>4. QED
    BY <2>2, <2>3, ConstFacts DEF ListParamsFromMap
<1>3. QED
  BY <1>1, <1>2

(***************************************************************************)
(* One iteration of GetList's loop (480-501) over an unchanged collection. *)
(* The offset it moves to is the end of the current page.  Short of        *)
(* total_count that page was full, so the offset grows by PageSize with    *)
(* each request and the next page follows on from `data`; at total_count  *)
(* `data` is the whole collection, fetched in ceil(n / PageSize) requests. *)
(***************************************************************************)
LEMMA ResultIterate ==
    ASSUME IInv, ResultInv, NEW o \in Outcomes, Iterate(o)
    PROVE  ResultInv'
<1> DEFINE nxt == Advance(offset, rs.data)
           p1 == WithOffset(ro.params, nxt)
<1>0. /\ pc = "loop"
      /\ UNCHANGED <<srv, meta, opts, lists, changed>>
  BY DEF Iterate
<1>1. CASE changed
  BY <1>0, <1>1, ResultChange
<1>2. CASE ~changed
  <2>0. /\ opts # NilRo /\ ~Window(opts.params)
        /\ ListParamsFromMap(ro.params).limit = 0
        /\ offset < Len(srv)
        /\ offset = (fetches - 1) * PageSize
        /\ rs.data = SubSeq(srv, offset + 1, PageEnd(offset))
        /\ data = SubSeq(srv, 1, PageEnd(offset))
        /\ rs.meta = "count" => rs.total = Len(srv)
    BY <1>0, <1>2 DEF ResultInv, ListLoopInv
  <2>1. /\ srv \in Seq(Items) /\ Len(srv) \in 0..MaxItems
        /\ offset \in 0..MaxItems /\ fetches \in Nat
        /\ rs.meta \in {"none", meta}
        /\ ro \in [params : {NoParams} \cup ParamMaps]
    BY <1>0, LenProperties DEF IInv, TypeOK, ItemSeq, LoopInv
  <2>2. /\ PageEnd(offset) \in offset + 1..Len(srv)
        /\ PageEnd(offset) - offset <= PageSize
        /\ PageEnd(offset) < Len(srv) => PageEnd(offset) = offset + PageSize
    BY <2>0, <2>1, ConstFacts DEF PageEnd
  <2>3. nxt = PageEnd(offset)
    <3>1. Len(rs.data) = PageEnd(offset) - offset
      BY <2>0, <2>1, <2>2, RunProps
    <3>2. QED
      BY <2>1, <2>2, <3>1 DEF nxt, Advance
  <2>4. fetches \in Nat \ {0}
    BY <2>0, <2>1, ConstFacts
  <2>5. CASE rs.meta # "count"
    <3>1. pc' = "panic"
      BY Zenon, <2>5 DEF Iterate
    <3>2. QED
      BY <3>1 DEF ResultInv, ListLoopInv, ListResult
  <2>6. CASE rs.meta = "count" /\ OffsetReached(nxt, rs.total)
    <3>1. /\ pc' = "idle" /\ fetches' = fetches
          /\ res' = [data |-> data, outcome |-> "ok", from |-> "loop",
                     paged |-> TRUE]
      BY <2>6 DEF Iterate, Return
    <3>2. nxt = Len(srv)
      BY <2>0, <2>2, <2>3, <2>6 DEF OffsetReached
    <3>3. data = srv
      BY <2>0, <2>1, <2>3, <3>2, SubSeqFull
    <3>4. (Len(srv) + PageSize - 1) \div PageSize = fetches
      <4>1. Len(srv) - offset \in 1..PageSize
        BY <2>1, <2>2, <2>3, <3>2, ConstFacts
      <4>2. Len(srv) = (fetches - 1) * PageSize + (Len(srv) - offset)
        BY <2>0, <2>1
      <4>3. ((fetches - 1) * PageSize + (Len(srv) - offset) + PageSize - 1)
              \div PageSize = fetches
        BY Zenon, <2>4, <4>1, ConstFacts, DivCeil
      <4>4. QED
        BY <4>2, <4>3
    <3>5. ~Window(ParamsOf(opts)) /\ Len(srv) # 0
      BY <2>0, <2>1 DEF ParamsOf
    <3>6. res'.data = Expected' /\ fetches' = ExpectedFetches'
      BY <1>0, <3>1, <3>3, <3>4, <3>5 DEF Expected, ExpectedFetches
    <3>7. QED
      BY <3>1, <3>6 DEF ResultInv, ListLoopInv, ListResult
  <2>7. CASE rs.meta = "count" /\ ~OffsetReached(nxt, rs.total)
    <3>1. nxt = offset + PageSize /\ nxt < Len(srv)
      BY <2>0, <2>2, <2>3, <2>7 DEF OffsetReached
    <3>0. nxt \in 0..MaxItems /\ nxt \in 0..Len(srv)
      BY <2>1, <3>1, ConstFacts
    <3>2. /\ offset' = nxt
          /\ ro' = [ro EXCEPT !.params = p1]
          /\ fetches' = fetches + 1
      BY Zenon, <2>7 DEF Iterate
    <3>3. CASE o # "ok"
      <4>1. pc' = "idle" /\ res'.outcome = o
        BY <2>7, <3>3 DEF Iterate, Return
      <4>2. QED
        BY <3>3, <4>1 DEF ResultInv, ListLoopInv, ListResult
    <3>4. CASE o = "ok"
      <4>1. meta = "count"
        BY <2>1, <2>7
      <4>2. /\ rs' = [data |-> PageOf(p1), meta |-> "count", total |-> Len(srv)]
            /\ data' = data \o PageOf(p1)
            /\ pc' = "loop"
        BY Zenon, <2>7, <3>4, <4>1 DEF Iterate, Decode, Accumulate
      <4>3. /\ ListParamsFromMap(p1).offset = nxt
            /\ ListParamsFromMap(p1).limit = 0
            /\ ro'.params = p1
        <5>1. ListParamsFromMap(WithOffset(ro.params, nxt)).offset = nxt
              /\ ListParamsFromMap(WithOffset(ro.params, nxt)).limit = 0
          BY <2>0, <2>1, <3>0, OffsetParams
        <5>2. ro'.params = p1
          BY <2>1, <3>2
        <5>3. QED
          BY <5>1, <5>2 DEF p1
      <4>4. PageOf(p1) = SubSeq(srv, nxt + 1, PageEnd(nxt))
        BY <4>3, PageAtOffset
      <4>5. PageEnd(nxt) \in nxt..Len(srv)
        BY <2>1, <3>0, ConstFacts DEF PageEnd
      <4>6. data' = SubSeq(srv, 1, PageEnd(nxt))
        <5>1. data = SubSeq(srv, 1, nxt)
          BY Zenon, <2>0, <2>3
        <5>2. SubSeq(srv, 1, nxt) \o SubSeq(srv, nxt + 1, PageEnd(nxt))
                = SubSeq(srv, 1, PageEnd(nxt))
          <6>1. 1 \in 1..Len(srv) + 1 /\ nxt \in 1 - 1..Len(srv)
            BY <2>1, <3>0
          <6>2. QED
            BY Zenon, <2>1, <4>5, <6>1, ConcatAdjacentSubSeq
        <5>3. QED
          BY Zenon, <4>2, <4>4, <5>1, <5>2
      <4>7. offset' = (fetches' - 1) * PageSize
        BY <2>0, <2>1, <3>1, <3>2, ConstFacts
      <4>8. /\ (SubSeq(srv, offset + 1, PageEnd(offset)))'
                 = SubSeq(srv, nxt + 1, PageEnd(nxt))
            /\ (SubSeq(srv, 1, PageEnd(offset)))' = SubSeq(srv, 1, PageEnd(nxt))
        BY <1>0, <3>2 DEF PageEnd
      <4>9. ListLoopInv'
        BY Zenon, <1>0, <1>2, <2>0, <3>1, <3>2, <4>2, <4>3, <4>4, <4>6, <4>7, <4>8
        DEF ListLoopInv
      <4>10. QED
        BY <4>2, <4>9 DEF ResultInv, ListResult
    <3>5. QED
      BY <3>3, <3>4
  <2>8. QED
    BY <2>5, <2>6, <2>7
<1>3. QED
  BY <1>1, <1>2

(***************************************************************************)
(* With options built afresh for each call, ResultInv is an invariant of   *)
(* GetList with concurrent changes, relative to IInv.                      *)
(***************************************************************************)
THEOREM ResultInvariant == ~ReuseOptions => (Spec => []ResultInv)
<1> SUFFICES ASSUME ~ReuseOptions PROVE Spec => []ResultInv
  OBVIOUS
<1>1. Init => ResultInv
  BY ResultInit
<1>2. IInv /\ ResultInv /\ [Next]_vars => ResultInv'
  <2> SUFFICES ASSUME IInv, ResultInv, [Next]_vars PROVE ResultInv'
    OBVIOUS
  <2>1. ASSUME NEW o \in Outcomes, GetList(o) PROVE ResultInv'
    BY <2>1, ResultGetList
  <2>2. ASSUME NEW o \in Outcomes, Iterate(o) PROVE ResultInv'
    BY <2>2, ResultIterate
  <2>3. ASSUME NEW i \in 0..Len(srv), Insert(i) PROVE ResultInv'
    BY <2>3, ResultChange DEF Insert
  <2>4. ASSUME NEW i \in 1..Len(srv), Delete(i) PROVE ResultInv'
    BY <2>4, ResultChange DEF Delete
  <2>5. CASE Stopped \/ UNCHANGED vars
    <3>1. UNCHANGED vars
      BY <2>5 DEF Stopped
    <3>2. QED
      BY <3>1 DEF vars, ResultInv, ListLoopInv, ListResult, PageEnd,
                  Expected, ExpectedFetches, PageOf
  <2>6. QED
    BY <2>1, <2>2, <2>3, <2>4, <2>5 DEF Next
<1>3. QED
  BY <1>1, <1>2, Invariant, PTL DEF Spec

(***************************************************************************)
(* A successful paged GetList over a collection no other client changed    *)
(* returns the caller's page window, or else every item in the server's    *)
(* order, with one doWithAuth per page (ListResult of the list_pipeline    *)
(* run, whose options are fresh for each call), for every collection size, *)
(* page size and number of calls.                                          *)
(***************************************************************************)
THEOREM ListResultHolds == ~ReuseOptions => (Spec => []ListResult)
<1> SUFFICES ASSUME ~ReuseOptions PROVE Spec => []ListResult
  OBVIOUS
<1>1. QED
  BY ResultInvariant, PTL DEF ResultInv

(***************************************************************************)
(* The loop's step that makes a request moves the offset forward: it moves *)
(* to offset + len(rs.Data), short of total_count, and LoopInv says the    *)
(* page is non-empty there because total_count was read with that page.   *)
(***************************************************************************)
LEMMA AdvanceStep ==
    ASSUME IInv, [Next]_vars, pc = "loop", fetches' > fetches
    PROVE  offset' > offset
<1>0. /\ fetches \in Nat /\ offset \in 0..MaxItems
      /\ Len(rs.data) >= 1 \/ offset + Len(rs.data) >= rs.total
      /\ Len(rs.data) \in Nat /\ rs.total \in 0..MaxItems
  BY LenProperties DEF IInv, TypeOK, ItemSeq, LoopInv
<1>1. ASSUME NEW o \in Outcomes, Iterate(o) PROVE offset' > offset
  <2> DEFINE nxt == Advance(offset, rs.data)
  <2>1. CASE rs.meta # "count"
    <3>1. fetches' = fetches
      BY <1>1, <2>1 DEF Iterate
    <3>2. QED
      BY <1>0, <3>1
  <2>2. CASE rs.meta = "count" /\ OffsetReached(nxt, rs.total)
    <3>1. fetches' = fetches
      BY <1>1, <2>2 DEF Iterate
    <3>2. QED
      BY <1>0, <3>1
  <2>3. CASE rs.meta = "count" /\ ~OffsetReached(nxt, rs.total)
    <3>1. offset' = nxt
      BY Zenon, <1>1, <2>3 DEF Iterate
    <3>2. offset + Len(rs.data) < rs.total
      BY <1>0, <2>3 DEF nxt, OffsetReached, Advance
    <3>3. QED
      BY <1>0, <3>1, <3>2 DEF Advance
  <2>4. QED
    BY <2>1, <2>2, <2>3
<1>2. CASE UNCHANGED fetches
  BY <1>0, <1>2
<1>3. QED
  BY <1>1, <1>2 DEF Next, GetList, Insert, Delete, Stopped, vars

(***************************************************************************)
(* GetList's loop never requests the same page twice, whatever other       *)
(* clients do between its pages (LoopAdvances of the list_pipeline run).   *)
(***************************************************************************)
THEOREM LoopAdvancesHolds == Spec => LoopAdvances
<1>1. IInv /\ [Next]_vars
        => [pc = "loop" /\ fetches' > fetches => offset' > offset]_vars
  BY AdvanceStep
<1>2. QED
  BY <1>1, Invariant, PTL DEF LoopAdvances, Spec

=============================================================================
