----------------------------- MODULE MCPresence -----------------------------
(***************************************************************************)
(* A small instance of Presence. A page has 6 bytes for its entries and    *)
(* its cursor, a summary 3 for whom it names. The first participant fits   *)
(* everywhere; the second fits alone or after the first, and not with its  *)
(* cursor; the third fits nowhere. The first and the third may be attended *)
(* to, one of them is named: a summary of both names the first and fits,   *)
(* one of the third does not.                                              *)
(***************************************************************************)
EXTENDS Presence

MCEntryBytes  == <<2, 4, 9>>
MCCursorBytes == <<1, 3, 1>>
=============================================================================
