------------------------- MODULE MCProtocolPower -------------------------
(* A small instance of ProtocolPower for TLC.                              *)
EXTENDS ProtocolPower, TLC

\* two POSTs of a kind in flight: a double click before the first answer
MCMaxPosts == 2
=============================================================================
