------------------------ MODULE MCConnectionSession ------------------------
(***************************************************************************)
(* ConnectionSession for TLC: every command the editor may send.           *)
(***************************************************************************)
EXTENDS ConnectionSession

=============================================================================
