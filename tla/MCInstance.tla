------------------------------ MODULE MCInstance ------------------------------
(* A small instance of Instance for TLC: from a data directory whose        *)
(* endpoint is free or stale, two services and an offline command race for  *)
(* it.  One of the services may be too busy to accept in time, starts may   *)
(* fail and meet what a killed one left, and shutdowns of every kind end.   *)
EXTENDS Instance
=============================================================================
