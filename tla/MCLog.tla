-------------------------------- MODULE MCLog --------------------------------
(* The log for TLC, with the proofs' assumptions on the constants evaluated. *)
EXTENDS Log
==============================================================================
