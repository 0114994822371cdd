-------------------------- MODULE MCDocumentDispatch --------------------------
(* DocumentDispatch on a small instance. *)
EXTENDS DocumentDispatch
=============================================================================
