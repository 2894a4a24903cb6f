-------------------------- MODULE MCNotifications --------------------------
(* The TLC instance of Notifications: MCNotifications.cfg.                 *)
EXTENDS Notifications
=============================================================================
