\* Startup and shutdown with every failure possible.  The process stops
\* once App.Run returns, so deadlock is not checked: ShutdownCompletes says
\* that no run stops before that.
CONSTANTS
    Failures = {"startup", "setup", "listen", "serve", "watch", "stream"}
SPECIFICATION FairSpec
INVARIANT FailureReported
PROPERTY ShutdownCompletes
CHECK_DEADLOCK FALSE
