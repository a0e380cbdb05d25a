------------------------------- MODULE Envelope -------------------------------
(***************************************************************************)
(* The signalling envelope: internal/wire/wire.go, and a service that      *)
(* reads a message and writes it on, as it would to forward one.           *)
(*                                                                         *)
(* A frame is what arrived, by what Decode decides on: its length, whether *)
(* it begins an object and ends with it, and its members. A text is how    *)
(* many bytes of it encoding/json copies, how many line separators it      *)
(* holds and how many bytes that are not UTF-8; a payload is its bytes and *)
(* the white space among them, which is all that writing it on changes.    *)
(***************************************************************************)
EXTENDS Integers, Sequences

CONSTANTS MaxMessageBytes, MaxTypeBytes

ASSUME EnvelopeAssumption == MaxMessageBytes \in Nat /\ MaxTypeBytes \in Nat

Text    == [copied : Nat, separators : Nat, invalid : Nat]
Payload == [tight : Nat, spaces : Nat]
NoData  == [tight |-> 0, spaces |-> 0]
Message == [type : Text, data : Payload]

\* On the wire a text may always be spelled longer than this, never shorter.
ShortestBytes(text) == text.copied + 3 * text.separators + text.invalid

\* Reading a text, what is not UTF-8 becomes the replacement character.
Read(text) == [text EXCEPT !.copied = @ + 3 * text.invalid, !.invalid = 0]

\* Go's length of it.
HeldBytes(text) == text.copied + 3 * text.separators + text.invalid

\* Writing a text, encoding/json escapes the separators, and what is not
\* UTF-8, also where it is asked not to escape for HTML.
WrittenBytes(text) == text.copied + 6 * text.separators + 6 * text.invalid

DataBytes(data) == data.tight + data.spaces

\* {"type":""} and ,"data":
TypeFrame == 11
DataFrame == 8
Around(data) == TypeFrame + (IF data = NoData THEN 0 ELSE DataFrame)

-----------------------------------------------------------------------------
(* Decode. *)

Member(frame, name) == {i \in DOMAIN frame.members : frame.members[i].name = name}

\* structure refuses a member the envelope does not have, and one twice.
OddMember(frame) ==
    \/ \E i \in DOMAIN frame.members : frame.members[i].name \notin {"type", "data"}
    \/ \E i, j \in DOMAIN frame.members :
        i # j /\ frame.members[i].name = frame.members[j].name

TypeGiven(frame) ==
    {frame.members[i].value : i \in Member(frame, "type")}

DataGiven(frame) ==
    IF Member(frame, "data") = {} THEN NoData
    ELSE frame.members[CHOOSE i \in Member(frame, "data") : TRUE].value

\* A type that is missing, empty or too long.
OddType(text) == HeldBytes(text) \notin 1..MaxTypeBytes

Refusal(why)  == [ok |-> FALSE, why |-> why]
Decoded(type, data) == [ok |-> TRUE, message |-> [type |-> Read(type), data |-> data]]

Decode(frame) ==
    IF frame.bytes > MaxMessageBytes THEN Refusal("too large")
    ELSE IF ~frame.object THEN Refusal("not JSON")
    ELSE IF OddMember(frame) THEN Refusal("envelope")
    ELSE IF ~frame.ends THEN Refusal("not JSON")
    ELSE IF \A type \in TypeGiven(frame) : type \notin Text \/ OddType(Read(type))
         THEN Refusal("envelope")
    ELSE Decoded(CHOOSE type \in TypeGiven(frame) : TRUE, DataGiven(frame))

-----------------------------------------------------------------------------
(* Encode. *)

EncodedBytes(m) == Around(m.data) + WrittenBytes(m.type) + m.data.tight

\* What Encode writes, with the text spelled as encoding/json spells it.
Frame(m) ==
    [bytes |-> EncodedBytes(m), object |-> TRUE, ends |-> TRUE,
     members |-> <<[name |-> "type", value |-> m.type]>>
        \o (IF m.data = NoData THEN <<>>
            ELSE <<[name |-> "data", value |-> [m.data EXCEPT !.spaces = 0]]>>)]

Fitting(m) == EncodedBytes(m) <= MaxMessageBytes

Encode(m) ==
    IF OddType(m.type) THEN Refusal("envelope")
    ELSE IF ~Fitting(m) THEN Refusal("too large")
    ELSE [ok |-> TRUE, frame |-> Frame(m)]
=============================================================================
