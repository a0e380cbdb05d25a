------------------------------ MODULE MCSender ------------------------------
(***************************************************************************)
(* Small instances of Sender: a queue of one or two messages, so that it   *)
(* overflows, and enough messages to overflow it with one being written.   *)
(***************************************************************************)
EXTENDS Sender

CONSTANTS s1, s2, c1, c2

MCSenders    == {s1, s2}
MCOneSender  == {s1}
MCClosers    == {c1, c2}
MCOneCloser  == {c1}
=============================================================================
