SPECIFICATION FairSpec
CONSTANTS
    w1 = w1
    w2 = w2
    Worker = {w1, w2}
    Commands <- MCSignalCommands
    Bootstrap <- MCSignalBootstrap
    Interactive = TRUE
    MaxTyped = 1
    MaxProduced = 2
PROPERTY SignalEndsLoad
