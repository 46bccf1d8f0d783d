---------------------------- MODULE MCAlertMail ----------------------------
(* Two overlapping dashboards and two overlapping collectors. *)
EXTENDS AlertMail
=============================================================================
