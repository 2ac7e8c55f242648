---------------------------- MODULE MCProbeCache ----------------------------
(***************************************************************************)
(* ProbeCache with few callers, for TLC.                                   *)
(***************************************************************************)
EXTENDS ProbeCache
=============================================================================
