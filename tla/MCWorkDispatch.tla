---------------------------- MODULE MCWorkDispatch ----------------------------
(* Two threads share 9 nonces: slices of 4, of which 3 may be used, and      *)
(* scans of up to 3 nonces, so that a slice takes one scan or several, can   *)
(* be interrupted in the middle and is used up.                              *)
EXTENDS WorkDispatch
=============================================================================
