------------------------------ MODULE MCNfcMcu ------------------------------
(***************************************************************************)
(* TLC instance of NfcMcu.                                                 *)
(***************************************************************************)
EXTENDS NfcMcu
=============================================================================
