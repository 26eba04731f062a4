---------------------------- MODULE MCConformance ----------------------------
(* Two deviations, so that one may make up for another.                     *)
EXTENDS Conformance
=============================================================================
