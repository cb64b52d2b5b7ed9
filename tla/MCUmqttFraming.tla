--------------------------- MODULE MCUmqttFraming ---------------------------
(* Packets for the small instance of UmqttFraming: without body, just fitting, *)
(* too long by one octet, of one buffer, and of more.                          *)
EXTENDS UmqttFraming

MixedMessages ==
  {[type |-> 1, body |-> <<>>],
   [type |-> 0, body |-> <<1, 3>>],
   [type |-> 2, body |-> <<3, 0, 1>>],
   [type |-> 1, body |-> <<3, 3, 3, 1, 2>>],
   [type |-> 3, body |-> <<0, 3, 1, 2, 3, 1>>]}
=============================================================================
