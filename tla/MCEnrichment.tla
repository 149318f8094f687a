----------------------------- MODULE MCEnrichment -----------------------------
(***************************************************************************)
(* Instances of Enrichment for TLC.  No symmetry: both runs check liveness *)
(* and the events are ordered.                                             *)
(***************************************************************************)
EXTENDS Enrichment, TLC

(* A recording, a text and a text without words. *)
ThreeEvents    == {1, 2, 3}
FirstIsVoice   == {1}
LastHasNoWords == {3}
=============================================================================
