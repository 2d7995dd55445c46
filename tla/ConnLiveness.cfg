\* Two callers under fair scheduling: every call returns.
CONSTANTS
    Threads = {t1, t2}
    NoThread = NoThread
    MaxKeys = 2
    MaxCalls = 1
    RetryTimeout = 2
    AttemptTime = {0}
    DataReplies <- MCLiveDataReplies
    LoginReplies <- MCLiveLoginReplies
SPECIFICATION FairSpec
PROPERTY CallsComplete
