SPECIFICATION Spec
CONSTANTS
    audit = audit
    notifications = notifications
    auditor1 = auditor1
    auditor2 = auditor2
    notifier = notifier
    None = None
    MaxDeliveryAttempts = 3
    Messages = {m1}
    Publishers = {p1, p2}
    Consumers = {audit}
    Workers <- MCTwoWorkers
    ConsumerOf <- MCTwoConsumerOf
    MaxFaults = 0
PROPERTIES
    InboxRespected
CHECK_DEADLOCK FALSE
