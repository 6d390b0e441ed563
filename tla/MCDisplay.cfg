SPECIFICATION Spec
CONSTANTS
    Clients = {"chain", "badge"}
    TopicOf <- MCTopicOf
    MaxFaults = 2
INVARIANTS PageAndServerAgree NewestIsKept
PROPERTIES StreamsResume
CHECK_DEADLOCK FALSE
