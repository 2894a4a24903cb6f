------------------------------ MODULE MCScreens ------------------------------
(* Screens with its constants, for TLC.  The instance tours the pages of   *)
(* employees; ScreensProofs has what holds of all of them.                 *)
EXTENDS Screens
=============================================================================
