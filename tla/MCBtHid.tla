------------------------------ MODULE MCBtHid ------------------------------
(* Model checking of BtHid; the instances are in the MCBtHid*.cfg files.   *)
EXTENDS BtHid

CONSTANT p1    \* a console

=============================================================================
