SPECIFICATION FairSpec
CONSTANTS
    audit = audit
    notifications = notifications
    auditor1 = auditor1
    auditor2 = auditor2
    notifier = notifier
    None = None
    MaxDeliveryAttempts = 3
    Messages = {m1}
    Publishers = {p1}
    Consumers = {audit, notifications}
    Workers <- MCWorkers
    ConsumerOf <- MCConsumerOf
    MaxFaults = 3
INVARIANTS
    TypeOK
    Accounted
    InboxTruthful
    BuriedAfterAttempts
PROPERTIES
    InboxRespected
    EventuallyPublished
    EventuallySettled
CHECK_DEADLOCK FALSE
