---------------------------- MODULE MCD4Control ----------------------------
(* The five tries of the code, and detections enough for one to come       *)
(* before the interrupt is on or while another is served.                  *)
EXTENDS D4Control

MCMaxTries == 5
MCMaxDetections == 4
=============================================================================
