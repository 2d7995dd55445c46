---------------------------- MODULE MCPaginator ----------------------------
(***************************************************************************)
(* Instances of Paginator for TLC.                                         *)
(***************************************************************************)
EXTENDS Paginator, TLC

\* Params maps a caller builds: none, one with only endpoint-specific keys,
\* an explicit offset, an explicit limit.
MCParams == {NoParams,
             [offset |-> 0, limit |-> 0, extra |-> TRUE],
             [offset |-> 1, limit |-> 0, extra |-> FALSE],
             [offset |-> 0, limit |-> 1, extra |-> TRUE]}
\* Every options object above, and a nil one.
MCOptions == {NilRo} \cup [params : MCParams]
\* Options objects without an explicit window.
MCPlainOptions == {[params |-> NoParams],
                   [params |-> [offset |-> 0, limit |-> 0, extra |-> TRUE]]}
\* GetList(ctxt, url, nil) and a non-nil object without a window.
MCNilOptions == {NilRo, [params |-> NoParams]}
=============================================================================
