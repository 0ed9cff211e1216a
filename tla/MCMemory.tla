------------------------------- MODULE MCMemory -------------------------------
(* Small instances of Memory for TLC.                                       *)
EXTENDS Memory, TLC

(* Ada, who administers the group, and Ben both speak in it.                *)
Conversations == [t \in Task |-> "group"]
Askers == [t \in Task |-> IF t = 2 THEN "ben" ELSE "ada"]

(* Contents are only compared.                                               *)
Contents == Permutations(Value)
=============================================================================
