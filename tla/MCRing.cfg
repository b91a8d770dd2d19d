SPECIFICATION Spec
CONSTANTS
    Mail = {1, 2}
    DefaultQueueSize = 2
    MqOverload = 1
    MaxLength = 6
INVARIANT AlarmsFollowBacklog
PROPERTY IsFifo
