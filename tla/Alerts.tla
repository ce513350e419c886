-------------------------------- MODULE Alerts --------------------------------
(***************************************************************************)
(* From the silence of an agent, or the word of its camera, to the chat:   *)
(* the monitoring of the center, which writes the events, and the notifier *)
(* that tells them. The table of events lies between them; each runs on    *)
(* its own.                                                                *)
(***************************************************************************)
EXTENDS Monitoring, TelegramNotifier

AlertsSpec == MonitorSpec /\ ChatSpec

(* An alert, from the silence or the camera to the chat: the memory of the *)
(* monitor, the events written and what the chat was told agree.           *)
AlertInv == MonitorInv /\ ChatInv
===============================================================================
