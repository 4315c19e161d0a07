------------------------ MODULE MCNotificationRetry ------------------------
(* Two invocations at once, one delivery that failed.  *)
EXTENDS NotificationRetry
=============================================================================
