---------------------------- MODULE MC_EventRelay ----------------------------
(* Small instances of EventRelay for TLC. *)
EXTENDS EventRelay

CONSTANTS c1, c2

\* Two bodies.
MC_KeyOf == [c \in Contents |-> c]

\* One body, uploaded for two datasets.
MC_SharedKey == [c \in Contents |-> "body"]
===============================================================================
