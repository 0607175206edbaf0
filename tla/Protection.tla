----------------------------- MODULE Protection -----------------------------
(***************************************************************************)
(* What the Android processing queue may assume of the trait Protection of *)
(* mobile_backend/processing_queue.rs, whose implementation is the Android *)
(* service of ProcessingService.kt: the foreground protection is acquired  *)
(* before start() returns Ok, and may end by itself at any time; the CPU   *)
(* is held awake only while the protection is on.                          *)
(***************************************************************************)

VARIABLES
  protection,   \* "off", "starting" while start() waits, or "on"
  cpu           \* whether the wake lock is held

vars == <<protection, cpu>>

Init == protection = "off" /\ cpu = FALSE

(* start() asks for the service and waits, unless it is there already. *)
Start ==
  /\ protection # "starting"
  /\ protection' = IF protection = "on" THEN "on" ELSE "starting"
  /\ UNCHANGED cpu

(* The service is in the foreground. *)
Acknowledge ==
  /\ protection = "starting"
  /\ protection' = "on"
  /\ UNCHANGED cpu

(* The start fails, or the service ends: a timeout, an error, the system. *)
Fail ==
  /\ protection # "off"
  /\ protection' = "off" /\ cpu' = FALSE

(* active(on) holds the CPU awake or lets it go. *)
SetActive(on) ==
  /\ protection = "on"
  /\ cpu' = on
  /\ UNCHANGED protection

Stop == protection' = "off" /\ cpu' = FALSE

Next ==
  \/ Start
  \/ Acknowledge
  \/ Fail
  \/ \E on \in BOOLEAN : SetActive(on)
  \/ Stop

Spec == Init /\ [][Next]_vars
=============================================================================
