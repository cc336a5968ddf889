------------------------------- MODULE MCMQTT -------------------------------
(***************************************************************************)
(* Two brokers and one tag.                                                *)
(***************************************************************************)
EXTENDS MQTT
=============================================================================
