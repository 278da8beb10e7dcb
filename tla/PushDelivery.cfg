\* One message for two devices, two workers and three attempts: time for a worker to
\* lose its lease, for another to be stopped and for a third to try again.
CONSTANTS
    m1 = m1
    t1 = t1
    t2 = t2
    w1 = w1
    w2 = w2
    Messages = {m1}
    Devices = {t1, t2}
    Workers = {w1, w2}
    NoWorker = NoWorker
    MaxAttempts = 3
    MaxQuiet = 1
    MaxReturns = 1
SPECIFICATION FairSpec
INVARIANTS TypeOK RepeatNeedsReturn
PROPERTIES MessagesEnd
CHECK_DEADLOCK FALSE
