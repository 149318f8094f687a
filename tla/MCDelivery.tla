------------------------------ MODULE MCDelivery ------------------------------
(***************************************************************************)
(* Instances of DeliveryWorker for TLC.  Alice calls more than once: her   *)
(* second event is the one that may reuse her contact and her ticket.      *)
(* Bob's contact is the one nobody may touch on her behalf.                *)
(***************************************************************************)
EXTENDS DeliveryRefinement, TLC

CONSTANTS Alice, Bob

MCPhones  == {Alice, Bob}
OneOne    == <<Alice>>
TwoOfOne  == <<Alice, Alice>>
WithUnknown == <<Alice, NoPhone, Alice>>
OwnBlocks == [e \in Events |-> e]

NoContacts    == <<>>
BobsContact   == <<[phone |-> Bob, log |-> <<>>, indexed |-> TRUE]>>
LoggedContact == <<[phone |-> Alice, log |-> <<99>>, indexed |-> TRUE]>>

WorkerSymmetry == Permutations(Workers)
=============================================================================
