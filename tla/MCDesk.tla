-------------------------------- MODULE MCDesk --------------------------------
(* Small instances of Desk. *)
EXTENDS Desk

EditedTogether == {{"status", "terms"}, {"recurring", "date"}}

=============================================================================
