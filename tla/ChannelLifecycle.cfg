SPECIFICATION FairSpec
CONSTANTS
    MaxChannel = 2
    MaxOpens = 2
INVARIANTS AnsweredOnce PeersAgree QuietAfterFree
PROPERTIES CloseCompletes OpensAnswered
CHECK_DEADLOCK FALSE
