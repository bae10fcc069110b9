---------------------- MODULE MCCommunicationDelivery ----------------------
(* Small instances of CommunicationDelivery for TLC.                       *)
EXTENDS CommunicationDelivery, TLC

MCSymmetry == Permutations(Workers)
=============================================================================
