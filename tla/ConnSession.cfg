\* Two callers sharing the connection: Login, Logout and the re-auth path
\* interleaved under c.m, and every step mapped to a step of AbstractCall.
CONSTANTS
    Threads = {t1, t2}
    NoThread = NoThread
    MaxKeys = 3
    MaxCalls = 2
    RetryTimeout = 2
    AttemptTime = {0}
    DataReplies <- MCLiveDataReplies
    LoginReplies <- MCSessionLoginReplies
SYMMETRY ThreadSymmetry
SPECIFICATION Spec
INVARIANT NoSelfDeadlock
INVARIANT KeyFresh
PROPERTY AbsSpec
