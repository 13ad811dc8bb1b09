------------------------ MODULE MCNotificationQueue ------------------------
(* NotificationQueue by itself.  *)
EXTENDS NotificationQueue

=============================================================================
