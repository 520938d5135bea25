------------------------------ MODULE MCBackups ------------------------------
(***************************************************************************)
(* Small instances of Backups: Loop, Main and the requests are model       *)
(* values, and every constant is a number or a set of those.               *)
(***************************************************************************)
EXTENDS Backups

=============================================================================
