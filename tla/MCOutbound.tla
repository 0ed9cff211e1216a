------------------------------ MODULE MCOutbound ------------------------------
(* Small instances of OutboundDispatcher for TLC.                           *)
EXTENDS OutboundDispatcher

CONSTANTS d1, d2
Drains == {d1, d2}
=============================================================================
