---------------------------- MODULE MCJoyconLink ----------------------------
(***************************************************************************)
(* TLC instance of JoyconLink.                                        *)
(***************************************************************************)
EXTENDS JoyconLink, TLC

CONSTANTS w1
=============================================================================
