---------------------------- MODULE MCUmqttLink ----------------------------
(* The surroundings of the small instance of UmqttLink: silence and a stop, or *)
(* outages of the broker.                                                     *)
EXTENDS UmqttLink

BothSurroundings ==
  {[breaks |-> 2, faults |-> {"silent", "stop"}],
   [breaks |-> 2, faults |-> {"outage"}]}
=============================================================================
