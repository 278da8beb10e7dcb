\* One request of the staff beside one tick of the worker, two jobs of one order,
\* two attempts of a creation, one stop of the process.  The order may be closed,
\* after which nothing moves: no deadlock check.
CONSTANTS
    staff = staff
    worker = worker
    MaxJobs = 2
    MaxAttempts = 2
    MaxStops = 1
    Staff = {staff}
    Workers = {worker}
    Faults = {}
SPECIFICATION FairSpec
INVARIANTS TypeOK  
PROPERTIES CreationsEnd
CHECK_DEADLOCK FALSE
