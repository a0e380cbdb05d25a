------------------------------- MODULE MCRelay -------------------------------
(***************************************************************************)
(* Frames around the largest there may be: types of each sort of byte and  *)
(* payloads that leave up to a few bytes, or one byte too few.             *)
(***************************************************************************)
EXTENDS Relay

Types == [copied : {0, 1, MaxTypeBytes}, separators : {0, 1, 21}, invalid : {0, 1, 21}]

\* What is left for a payload, spaces included, in a frame that is the
\* largest but for left bytes.
Fill(type, left) ==
    MaxMessageBytes - TypeFrame - DataFrame - ShortestBytes(type) - left

Members(type, data) ==
    <<[name |-> "type", value |-> type], [name |-> "data", value |-> data]>>

MCFrames ==
    { [bytes |-> MaxMessageBytes - left, object |-> TRUE, ends |-> TRUE,
       members |-> Members(type, [tight |-> Fill(type, left) - spaces,
                                  spaces |-> spaces])] :
      type \in Types, left \in -1..3, spaces \in {0, 5} }
=============================================================================
