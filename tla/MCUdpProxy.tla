------------------------------ MODULE MCUdpProxy ------------------------------
(* UdpProxy for TLC.  Source addresses are interchangeable. *)
EXTENDS UdpProxy, TLC

Symmetry == Permutations(Peers)
===============================================================================
