-------------------------- MODULE MCDrawdownGate ---------------------------
(* Small instances of DrawdownGate for TLC. *)
EXTENDS DrawdownGate
=============================================================================
