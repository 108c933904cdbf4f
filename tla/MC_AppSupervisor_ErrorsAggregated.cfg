\* Looks for an App.Run error that leaves out a job's error.
CONSTANTS
    Failures = {"startup", "setup", "listen", "serve", "watch", "stream"}
SPECIFICATION Spec
INVARIANT ErrorsAggregated
\* The process exits once App.Run has returned: no step is left there.
CHECK_DEADLOCK FALSE
