------------------------------- MODULE Outbox -------------------------------
(***************************************************************************)
(* What one client's outbound side promises the rest of the service:       *)
(* messages reach the client in the order they were accepted, each at most *)
(* once and with none left out between two that arrive, and nothing        *)
(* reaches a client that was disconnected. The k-th message accepted is    *)
(* called k.                                                               *)
(***************************************************************************)
EXTENDS Naturals, Sequences

VARIABLES accepted, delivered, connected

outboxVars == <<accepted, delivered, connected>>

Init == accepted = 0 /\ delivered = <<>> /\ connected = TRUE

Accept == accepted' = accepted + 1 /\ UNCHANGED <<delivered, connected>>

Deliver ==
    /\ connected
    /\ Len(delivered) < accepted
    /\ delivered' = Append(delivered, Len(delivered) + 1)
    /\ UNCHANGED <<accepted, connected>>

Disconnect == connected' = FALSE /\ UNCHANGED <<accepted, delivered>>

Next == Accept \/ Deliver \/ Disconnect

Spec == Init /\ [][Next]_outboxVars
=============================================================================
