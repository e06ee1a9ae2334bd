------------------------------- MODULE MCRtc -------------------------------
(* Rtc for TLC: rtc_write values on both sides of every check of           *)
(* set_frequency: negative, 0, not powers of two, and every power of two  *)
(* from 2 to 2^11.                                                         *)
EXTENDS Rtc

MCFrequencies == {-2, 0, 3, 1000} \cup {2^k : k \in 1..11}
=============================================================================
