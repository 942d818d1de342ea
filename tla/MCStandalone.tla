---------------------------- MODULE MCStandalone ----------------------------
(* Small instances of Standalone.                                          *)
EXTENDS Standalone, TLC
=============================================================================
