\* One caller, every reply the server and the transport can give: the
\* classification of do, retry's loop and the 401 re-authentication.
CONSTANTS
    Threads = {t1}
    NoThread = NoThread
    MaxKeys = 3
    MaxCalls = 2
    RetryTimeout = 5
    AttemptTime = {0, 1}
    DataReplies <- MCDataReplies
    LoginReplies <- MCLoginReplies
SPECIFICATION Spec
INVARIANT TypeOK
INVARIANT RetryOnlyTransient
INVARIANT BusyRepliesRetried
