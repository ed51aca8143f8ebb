--------------------------- MODULE MCTestnetIP ----------------------------
(***************************************************************************)
(* Four validators from 192.168.0.254: the third address crosses the end  *)
(* of the last byte, which is where calculateIP and the help text part.   *)
(***************************************************************************)
EXTENDS TestnetIP

MCStartingIP == <<192, 168, 0, 254>>
MCNumValidators == 4

=============================================================================
