------------------------------- MODULE MCBrowser -------------------------------
(* Small instances of Browser. *)
EXTENDS Browser, TLC

=============================================================================
