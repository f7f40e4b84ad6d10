------------------------------- MODULE MCLdIo -------------------------------
(* An instance of LdIo for TLC.                                             *)
EXTENDS LdIo

CONSTANTS a, b

(* One file that ends within a buffer, one that needs two reads, one empty. *)
Inputs == {<<>>, <<a>>, <<a, b, b>>}
=============================================================================
