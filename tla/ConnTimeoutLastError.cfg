CONSTANTS
    Threads = {t1}
    NoThread = NoThread
    MaxKeys = 3
    MaxCalls = 1
    RetryTimeout = 5
    AttemptTime = {0}
    DataReplies <- MCDataReplies
    LoginReplies <- MCLoginReplies
SPECIFICATION Spec
INVARIANT TimeoutReportsLastApiError
