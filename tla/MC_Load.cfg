SPECIFICATION FairSpec
CONSTANTS
    w1 = w1
    w2 = w2
    Worker = {w1, w2}
    Commands <- MCCommands
    Bootstrap <- MCBootstrap
    Interactive = TRUE
    MaxTyped = 2
    MaxProduced = 2
INVARIANTS
    WorkerCountExact
    HandedOverInOrder
    StoppedMeansIdle
PROPERTIES
    StopAllTerminates
    LoadReachesSession
    ExitsWhenOver
    UnattendedSignalEndsLoad
