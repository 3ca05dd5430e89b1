-------------------------- MODULE MCNotifications --------------------------
(* Both notificators, in the order in which main builds the list.           *)
EXTENDS Notifications

QueueAndWebhook == <<"queue", "webhook">>
============================================================================
