------------------------------ MODULE MCSink ------------------------------
(* Small instances of Sink for TLC. *)
EXTENDS Sink

CONSTANTS plain, forced    \* a call without -f and one with it
=============================================================================
