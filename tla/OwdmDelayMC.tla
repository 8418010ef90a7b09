---------------------------- MODULE OwdmDelayMC ----------------------------
(***************************************************************************)
(* OwdmDelay on a machine whose bytes have one bit: a field of 6 bytes has *)
(* 64 values, an int 16.  The seconds are those around 0, the sign bit of  *)
(* an int and its end; one value of the nanoseconds is not a time.         *)
(***************************************************************************)
EXTENDS OwdmDelay

SmallSecond == {0, 1, 3, 7, 8, 15, 16}
SmallNano   == {0, 1, NSEC - 1, NSEC}
SmallLimit  == {0, 2, NSEC + 1, -1}
=============================================================================
