-------------------------- MODULE MCGatewayDevices --------------------------
(* Names for the node, the stray identities and the switch of the small        *)
(* instances of GatewayDevices.                                              *)
EXTENDS GatewayDevices

CONSTANTS A1, Junk, Noise, sw0
=============================================================================
