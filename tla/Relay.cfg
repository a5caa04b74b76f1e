\* The write buffer of the program, RELAY_MAX_BUFFER_SIZE of one byte: every chunk is over
\* the limit until it is flushed.  One chunk to say for each of the two local sockets.
SPECIFICATION FairSpec
CONSTANTS
    Limit = 0
    Data = 1
INVARIANTS
    TypeOK
    StoppedForAReason
    LiveTimerMeansStopped
    PeerHasBeenTold
PROPERTIES
    FlowResumes
    BothEndsClose
CHECK_DEADLOCK FALSE
