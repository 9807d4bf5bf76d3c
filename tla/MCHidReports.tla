---------------------------- MODULE MCHidReports ----------------------------
(* Model checking of HidReports; MCHidReports*.cfg are its instances.      *)
EXTENDS HidReports

CONSTANTS
  f1,        \* a whole image
  short,     \* an image just long enough for one of the two copies of the UID
  c1, c2     \* callers

Sizes == [f \in Figure |-> IF f = short THEN 8 ELSE Image]

=============================================================================
