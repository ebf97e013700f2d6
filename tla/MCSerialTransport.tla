--------------------------- MODULE MCSerialTransport ---------------------------
(* Two sender threads: enough for one call to displace the registration of  *)
(* another, for a late outcome to meet the next call, and for auto-sync to  *)
(* interfere with either.                                                   *)
EXTENDS SerialTransport

CONSTANTS s1, s2

MCSenders == {s1, s2}
================================================================================
