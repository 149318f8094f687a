------------------------------- MODULE MCReply --------------------------------
(***************************************************************************)
(* Instances of WhatsAppReply for TLC.                                     *)
(***************************************************************************)
EXTENDS WhatsAppReply, TLC

WorkerSymmetry == Permutations(Workers)
=============================================================================
