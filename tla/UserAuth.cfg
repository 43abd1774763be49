SPECIFICATION FairSpec
CONSTANTS
    Methods = {"none", "password", "publickey", "hostbased", "keyboard-interactive", "agent"}
    MaxTries = 3
    MaxEager = 4
    MaxPrompts = 2
    AgentKeys = 2
    MAX_PENDING_AUTHS = 2
INVARIANTS Authentic AnsweredInOrder QueuesInStep
PROPERTY Settles
CHECK_DEADLOCK FALSE
