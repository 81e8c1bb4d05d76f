---------------------------- MODULE MCCircuitInfo ----------------------------
(***************************************************************************)
(* CircuitInfo for TLC: an 8-bit usize and a field whose largest FFT      *)
(* domain is 2^4, so both an empty domain (counter 0 or 1) and a domain    *)
(* beyond the field (counter 17) are among the inputs.                    *)
(***************************************************************************)
EXTENDS CircuitInfo

MCCounts == {0, 1, 2, 3, 16, 17}
=============================================================================
