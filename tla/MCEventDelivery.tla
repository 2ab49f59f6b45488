---------------------------- MODULE MCEventDelivery ----------------------------
(* Instances of EventDelivery for TLC: workers named after what they serve. *)
EXTENDS EventDelivery

CONSTANTS audit, notifications, auditor1, auditor2, notifier

\* One process of each kind, as docker-compose.yml and k8s deploy them.
MCWorkers    == {auditor1, notifier}
MCConsumerOf == [w \in MCWorkers |-> IF w = notifier THEN notifications ELSE audit]

\* Two copies of FieldOps.Api: two workers on the audit queue.
MCTwoWorkers    == {auditor1, auditor2}
MCTwoConsumerOf == [w \in MCTwoWorkers |-> audit]
=============================================================================
