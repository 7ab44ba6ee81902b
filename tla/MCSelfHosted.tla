---------------------------- MODULE MCSelfHosted ----------------------------
(***************************************************************************)
(* An instance of SelfHosted for TLC: two servers with the same token, or  *)
(* the same authorization, two connections, two requests of the owner.     *)
(***************************************************************************)
EXTENDS SelfHosted, TLC

CONSTANTS token, pairing, none, c1, c2, s1, s2, i1, i2, r1, r2
=============================================================================
