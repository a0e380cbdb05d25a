------------------------------- MODULE MCRoom -------------------------------
(***************************************************************************)
(* A small instance of Room: two units, one conference, two people, and    *)
(* three copies of one source that differ in their layers and publisher.   *)
(***************************************************************************)
EXTENDS Room, TLC

CONSTANTS s1, u1, u2

MCPerson(id, home) == [id |-> id, identity |-> "somebody", conference |-> home]
MCParticipants == {MCPerson("speaker", "here"), MCPerson("listener", "here"),
                   MCPerson("listener", "elsewhere")}
MCSource(by, layers) ==
    [id |-> 1, publisher |-> by, kind |-> "video", layers |-> layers]
MCSources  == {MCSource("speaker", 1), MCSource("speaker", 2), MCSource("listener", 1)}
MCProfiles == {[codecs |-> "any", layers |-> 2]}
MCStreams  == {s1}
MCUnits    == {u1, u2}
MCSymmetry == Permutations(MCUnits)
=============================================================================
