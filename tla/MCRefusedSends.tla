---------------------------- MODULE MCRefusedSends ----------------------------
(* RefusedSends on the small instances of MCAutomaticSending.                 *)
EXTENDS MCAutomaticSending, RefusedSends
=============================================================================
