----------------------------- MODULE ListParams -----------------------------
(***************************************************************************)
(* ListParams.ToMap and ListParamsFromMap (src/unnamed/part_000, 125-165): *)
(* the conversion between a list request's parameters and the query map   *)
(* GetList reads and rewrites.  Numbers are written by                     *)
(* strconv.FormatInt(n, 10) and read back by strconv.ParseInt(s, 0, 0),    *)
(* whose base 0 takes a leading "0" for octal and "0x" for hexadecimal;   *)
(* a parse error panics.                                                   *)
(*                                                                         *)
(* Strings are sequences of characters.  A query map is a record over the  *)
(* keys ToMap writes, with the empty string for an absent key, which is    *)
(* also what a Go map lookup returns for it.  A caller either builds the   *)
(* parameters and converts them to a map and back, or builds the map       *)
(* itself and has it read.                                                 *)
(***************************************************************************)
EXTENDS Integers, Sequences

CONSTANTS
    ParamInputs,    \* ListParams values a caller builds
    MapInputs       \* query maps a caller builds

DigitChars == <<"0", "1", "2", "3", "4", "5", "6", "7", "8", "9">>
ParamsEmpty == [filter |-> <<>>, limit |-> 0, sort |-> <<>>, offset |-> 0]
MapEmpty == [filter |-> <<>>, limit |-> <<>>, sort |-> <<>>, offset |-> <<>>]

ASSUME ListParamsAssumption ==
    /\ \A p \in ParamInputs : DOMAIN p = DOMAIN ParamsEmpty
    /\ \A m \in MapInputs : DOMAIN m = DOMAIN MapEmpty

VARIABLES
    origin,     \* what the caller built: "params" or "map"
    phase,      \* "params": the caller's ListParams; "map": a query map;
                \* "parsed": ListParamsFromMap returned; "panic"
    lp,         \* the ListParams the caller built
    m,          \* the query map
    lp2         \* ListParamsFromMap's result

vars == <<origin, phase, lp, m, lp2>>

(***************************************************************************)
(* strconv.FormatInt(n, 10): the decimal digits of |n|, with "-" before a  *)
(* negative number.                                                        *)
(***************************************************************************)
DecimalOf[n \in Nat] ==
    IF n < 10 THEN << DigitChars[n + 1] >>
    ELSE DecimalOf[n \div 10] \o << DigitChars[(n % 10) + 1] >>
FormatInt(n) == IF n < 0 THEN <<"-">> \o DecimalOf[-n] ELSE DecimalOf[n]

\* The value of a digit character, 16 for anything that is no digit of the
\* bases modelled (hex letters do not occur in the inputs).
DigitVal(c) == IF \E d \in 0..9 : DigitChars[d + 1] = c
               THEN CHOOSE d \in 0..9 : DigitChars[d + 1] = c ELSE 16

\* The digits of s in base b, most significant first; -1 if one is invalid.
ValueIn(s, b) ==
    LET v[i \in 0..Len(s)] ==
            IF i = 0 THEN 0
            ELSE IF v[i - 1] < 0 \/ DigitVal(s[i]) >= b THEN -1
            ELSE v[i - 1] * b + DigitVal(s[i])
    IN  v[Len(s)]

(***************************************************************************)
(* strconv.ParseUint(s, 0, 64)'s base choice: "0x" followed by at least    *)
(* one character is base 16, any other leading "0" base 8 (the "0" is      *)
(* dropped, so "0" alone is 0), otherwise base 10.  An empty string is a   *)
(* syntax error.  The result is [ok, val].                                 *)
(***************************************************************************)
ParseUint0(s) ==
    LET r == IF Len(s) = 0 THEN -1
             ELSE IF s[1] = "0" /\ Len(s) >= 3 /\ s[2] = "x"
                  THEN ValueIn(SubSeq(s, 3, Len(s)), 16)
             ELSE IF s[1] = "0" THEN ValueIn(Tail(s), 8)
             ELSE ValueIn(s, 10)
    IN  [ok |-> r >= 0, val |-> r]

\* strconv.ParseInt(s, 0, 0): an optional sign, then ParseUint.
ParseInt0(s) ==
    IF Len(s) > 0 /\ s[1] \in {"+", "-"}
    THEN LET u == ParseUint0(Tail(s))
         IN  [ok |-> u.ok, val |-> IF s[1] = "-" THEN -u.val ELSE u.val]
    ELSE ParseUint0(s)

\* Mutant: only positive numbers are written.
Positive(n) == n > 0

\* `if s.X != 0` in ToMap.
NonZero(n) == n # 0

(***************************************************************************)
(* ListParams.ToMap (125-140): each non-empty string and non-zero number.  *)
(***************************************************************************)
ToMap(p) ==
    [filter |-> p.filter,
     limit  |-> IF NonZero(p.limit) THEN FormatInt(p.limit) ELSE <<>>,
     sort   |-> p.sort,
     offset |-> IF NonZero(p.offset) THEN FormatInt(p.offset) ELSE <<>>]

\* ListParamsFromMap's reading of one numeric key: 0 when empty, else
\* ParseInt(s, 0, 0), whose error panics.
ReadNumber(s) == IF s = <<>> THEN [ok |-> TRUE, val |-> 0] ELSE ParseInt0(s)

(***************************************************************************)
(* ListParamsFromMap (142-165).                                            *)
(***************************************************************************)
FromMapOk(q) == ReadNumber(q.offset).ok /\ ReadNumber(q.limit).ok
FromMap(q) ==
    [filter |-> q.filter, limit |-> ReadNumber(q.limit).val,
     sort |-> q.sort, offset |-> ReadNumber(q.offset).val]

Init ==
    /\ \/ /\ origin = "params" /\ lp \in ParamInputs /\ m = MapEmpty
       \/ /\ origin = "map" /\ lp = ParamsEmpty /\ m \in MapInputs
    /\ phase = origin
    /\ lp2 = ParamsEmpty

\* The caller's parameters are converted to a query map.
ConvertToMap ==
    /\ phase = "params"
    /\ m' = ToMap(lp)
    /\ phase' = "map"
    /\ UNCHANGED <<origin, lp, lp2>>

\* GetList reads the query map.
ReadMap ==
    /\ phase = "map"
    /\ \/ /\ FromMapOk(m)
          /\ lp2' = FromMap(m)
          /\ phase' = "parsed"
       \/ /\ ~FromMapOk(m)
          /\ phase' = "panic"
          /\ UNCHANGED lp2
    /\ UNCHANGED <<origin, lp, m>>

Done == phase \in {"parsed", "panic"} /\ UNCHANGED vars

Next == ConvertToMap \/ ReadMap \/ Done

Spec == Init /\ [][Next]_vars

-----------------------------------------------------------------------------
(***************************************************************************)
(* Spec 8: ListParams -> query map -> ListParams is lossless.  Every       *)
(* parameter ToMap writes, ListParamsFromMap reads back as it was, and     *)
(* reading never panics on what ToMap wrote.                               *)
(***************************************************************************)
ParamsRoundTrip ==
    origin = "params" =>
        /\ phase # "panic"
        /\ phase = "parsed" => lp2 = lp

(***************************************************************************)
(* Spec 8: the query map -> ListParams direction is lossless too.  A       *)
(* decimal number in the map (what a server reads) is read as that        *)
(* number, and reading never panics on one.                                *)
(***************************************************************************)
DecimalValue(s) ==
    IF s = <<>> THEN 0
    ELSE IF s[1] = "-" THEN -ValueIn(Tail(s), 10) ELSE ValueIn(s, 10)
IsDecimal(s) ==
    s = <<>> \/ (s[1] = "-" /\ Len(s) > 1 /\ ValueIn(Tail(s), 10) >= 0)
             \/ ValueIn(s, 10) >= 0
DecimalMapsRead ==
    (origin = "map" /\ phase \in {"parsed", "panic"}
       /\ IsDecimal(m.offset) /\ IsDecimal(m.limit)) =>
        /\ phase = "parsed"
        /\ lp2.offset = DecimalValue(m.offset)
        /\ lp2.limit = DecimalValue(m.limit)
=============================================================================
