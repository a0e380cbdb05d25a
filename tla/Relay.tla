-------------------------------- MODULE Relay --------------------------------
(***************************************************************************)
(* A service that writes on what it read: internal/wire/wire.go, used the  *)
(* way its own tests use it.                                               *)
(***************************************************************************)
EXTENDS Envelope

CONSTANTS Frames    \* what arrives

VARIABLES held, written

vars == <<held, written>>

Idle == Refusal("nothing")

Init == held = Idle /\ written = Idle

\* A refused message is not held, and who sent it is told.
Receive(frame) ==
    /\ held' = Decode(frame)
    /\ written' = Idle

Forward ==
    /\ held.ok
    /\ written' = Encode(held.message)
    /\ UNCHANGED held

Next == (\E frame \in Frames : Receive(frame)) \/ Forward

Spec == Init /\ [][Next]_vars

\* "With the escaping off, encoding only ever compacts, so anything that
\* decoded can be encoded."
DecodedCanBeEncoded == written # Idle => written.ok
=============================================================================
