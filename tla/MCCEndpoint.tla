---------------------------- MODULE MCCEndpoint ----------------------------
(* Small instances of CEndpoint.                                           *)
EXTENDS CEndpoint, TLC

CONSTANTS h1, h2, k1, k2

=============================================================================
