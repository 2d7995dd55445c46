CONSTANTS
    Threads = {t1, t2}
    NoThread = NoThread
    MaxKeys = 3
    MaxCalls = 1
    RetryTimeout = 2
    AttemptTime = {0}
    DataReplies <- MCLiveDataReplies
    LoginReplies <- MCSessionLoginReplies
SPECIFICATION Spec
INVARIANT NoRedundantLogin
