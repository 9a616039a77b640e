---------------------------- MODULE MCPathScope ----------------------------
(***************************************************************************)
(* PathScope with two letters: the scope is /a/b, and /a/bb, /a/ba, /b/b   *)
(* are other users' or nobody's.                                           *)
(***************************************************************************)
EXTENDS PathScope

MCRoot == <<"a">>
MCUser == <<"b">>
=============================================================================
