---------------------------- MODULE MCSmartUpdate ----------------------------
(* Small instances of SmartUpdate.                                          *)
EXTENDS SmartUpdate
=============================================================================
