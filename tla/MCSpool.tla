------------------------------- MODULE MCSpool -------------------------------
(***************************************************************************)
(* Names for the processes of the small instances of SpoolDelivery.        *)
(***************************************************************************)
EXTENDS SpoolDelivery

CONSTANTS p1, p2, w1, w2
=============================================================================
