---------------------------- MODULE MCConnection ----------------------------
(***************************************************************************)
(* Instances of Connection for TLC.                                        *)
(***************************************************************************)
EXTENDS Connection, TLC

\* Caller goroutines are interchangeable.
ThreadSymmetry == Permutations(Threads)

\* The server answers a valid request with every outcome do distinguishes.
MCDataReplies == {"ok", "s400", "s500", "s503", "s503bare", "refused",
                  "fatal"}
\* The login either succeeds, is refused, is busy, or is a bad-credentials
\* 401.
MCLoginReplies == {"ok", "s401", "s503", "refused"}
\* A smaller choice for the liveness run.
MCLiveDataReplies == {"ok", "s503", "refused"}
MCLiveLoginReplies == {"ok", "s503"}
\* Logins for the two-caller run: success or a bad-credentials 401.
MCSessionLoginReplies == {"ok", "s401"}
=============================================================================
