--------------------------- MODULE PresenceProofs ---------------------------
(***************************************************************************)
(* What Decode and Encode owe each other, for every message, every frame   *)
(* and every limit; what a page of a roll is, for every roll and every     *)
(* size of its entries; and what follows for a room that changes, its      *)
(* summaries and a client's walk.                                          *)
(*                                                                         *)
(* Page is a function that chooses the largest of a set of lengths, so     *)
(* that a page is known by what it satisfies (LongestPage); no induction   *)
(* is needed but for LeastOf.                                              *)
(***************************************************************************)
EXTENDS Presence, TLAPS, FiniteSetTheorems, WellFoundedInduction

\* A message that comes back has lost the white space of its payload.
Compact(m) == [type |-> m.type, data |-> [m.data EXCEPT !.spaces = 0]]

\* A text a JSON encoder has nothing to spell longer in.
Plain(text) == text.separators = 0 /\ text.invalid = 0

\* A frame is as long as what it carries, spelled as shortly as it can be.
Carries(frame) ==
    \A i \in Member(frame, "type") :
        LET type == frame.members[i].value IN
        type \in Text =>
            frame.bytes >= Around(DataGiven(frame)) + ShortestBytes(type)
                             + DataBytes(DataGiven(frame))

\* Reading leaves a text that is UTF-8 as it is.
LEMMA ReadsAsIs ==
    ASSUME NEW text \in Text, text.invalid = 0
    PROVE  Read(text) = text
<1>1. text.copied \in Nat /\ text.copied + 3 * text.invalid = text.copied
  BY SMT DEF Text
<1>2. Read(text) = [[text EXCEPT !.copied = text.copied] EXCEPT !.invalid = text.invalid]
  BY <1>1 DEF Read
<1> QED
  BY <1>2 DEF Text

\* A sequence of one and a sequence of one.
LEMMA TwoMembers ==
    ASSUME NEW x, NEW y
    PROVE  LET both == <<x>> \o <<y>> IN
           DOMAIN both = {1, 2} /\ both[1] = x /\ both[2] = y
OBVIOUS

\* What is around a payload is around it without its white space, too.
LEMMA CompactData ==
    ASSUME NEW data \in Payload, data.tight > 0 \/ data = NoData
    PROVE  LET compact == [data EXCEPT !.spaces = 0] IN
           /\ compact \in Payload
           /\ compact.tight = data.tight
           /\ compact = NoData <=> data = NoData
BY DEF Payload, NoData

(***************************************************************************)
(* What Encode writes, Decode reads back: the limits of the two agree, for *)
(* every type that is UTF-8, whatever Encode has to escape in it.          *)
(***************************************************************************)
THEOREM EncodedReadsBack ==
    \A m \in Message :
        /\ m.type.invalid = 0
        /\ m.data.tight > 0 \/ m.data = NoData
        /\ Encode(m).ok
        => Decode(Encode(m).frame) = [ok |-> TRUE, message |-> Compact(m)]
<1> SUFFICES ASSUME NEW m \in Message, m.type.invalid = 0,
                    m.data.tight > 0 \/ m.data = NoData, Encode(m).ok
             PROVE  Decode(Encode(m).frame) = [ok |-> TRUE, message |-> Compact(m)]
  OBVIOUS
<1> DEFINE f == Frame(m)
           data == [m.data EXCEPT !.spaces = 0]
<1>1. ~OddType(m.type) /\ Fitting(m) /\ Encode(m).frame = f
  BY DEF Encode, Refusal
<1>2. m.type \in Text /\ m.data \in Payload
  BY DEF Message
<1>3. data \in Payload /\ (data = NoData <=> m.data = NoData)
  BY <1>2, CompactData
<1>4. Read(m.type) = m.type
  BY <1>2, ReadsAsIs
<1>5. f.bytes = EncodedBytes(m) /\ f.object = TRUE /\ f.ends = TRUE
  BY DEF Frame
<1>6. ~(f.bytes > MaxMessageBytes)
  <2>1. EncodedBytes(m) \in Nat
    BY <1>2, SMT DEF EncodedBytes, Around, WrittenBytes, Text, Payload, TypeFrame, DataFrame
  <2> QED
    BY <1>1, <1>5, <2>1, EnvelopeAssumption, SMT DEF Fitting
<1>7. /\ ~OddMember(f) /\ TypeGiven(f) = {m.type}
      /\ DataGiven(f) = data
  <2>1. CASE m.data = NoData
    <3>1. f.members = <<[name |-> "type", value |-> m.type]>>
      BY <2>1, SMT DEF Frame
    <3>2. DOMAIN f.members = {1} /\ f.members[1].name = "type" /\ f.members[1].value = m.type
      BY <3>1
    <3>3. Member(f, "type") = {1} /\ Member(f, "data") = {}
      BY <3>2 DEF Member
    <3>4. DataGiven(f) = data
      BY <1>3, <2>1, <3>3 DEF DataGiven
    <3> QED
      BY <3>2, <3>3, <3>4 DEF OddMember, TypeGiven
  <2>2. CASE m.data # NoData
    <3>1. f.members = <<[name |-> "type", value |-> m.type]>>
                      \o <<[name |-> "data", value |-> data]>>
      BY <2>2 DEF Frame
    <3>2. /\ DOMAIN f.members = {1, 2}
          /\ f.members[1].name = "type" /\ f.members[1].value = m.type
          /\ f.members[2].name = "data" /\ f.members[2].value = data
      <4>1. /\ DOMAIN f.members = {1, 2}
            /\ f.members[1] = [name |-> "type", value |-> m.type]
            /\ f.members[2] = [name |-> "data", value |-> data]
        BY <3>1, TwoMembers
      <4> HIDE DEF f, data
      <4> QED
        BY <4>1
    <3>3. Member(f, "type") = {1} /\ Member(f, "data") = {2}
      BY <3>2 DEF Member
    <3>4. DataGiven(f) = data
      BY <3>2, <3>3 DEF DataGiven
    <3> QED
      BY <3>2, <3>3, <3>4 DEF OddMember, TypeGiven
  <2> QED
    BY <2>1, <2>2
<1>8. Decode(f) = Decoded(m.type, data)
  BY <1>1, <1>2, <1>4, <1>5, <1>6, <1>7 DEF Decode
<1> QED
  BY <1>1, <1>4, <1>8 DEF Decoded, Compact

(***************************************************************************)
(* Where encoding only compacts, what decoded can be encoded: for every    *)
(* frame whose type is UTF-8 and holds no line separator, which is what    *)
(* the comment on Encode says of all of them.                              *)
(***************************************************************************)
THEOREM PlainTypesForward ==
    \A frame :
        /\ frame.bytes \in Nat
        /\ Carries(frame)
        /\ DataGiven(frame) \in Payload
        /\ \A type \in TypeGiven(frame) : type \in Text => Plain(type)
        /\ Decode(frame).ok
        => Encode(Decode(frame).message).ok
<1> SUFFICES ASSUME NEW frame, frame.bytes \in Nat, Carries(frame),
                    DataGiven(frame) \in Payload,
                    \A type \in TypeGiven(frame) : type \in Text => Plain(type),
                    Decode(frame).ok
             PROVE  Encode(Decode(frame).message).ok
  OBVIOUS
<1> DEFINE type == CHOOSE t \in TypeGiven(frame) : TRUE
           data == DataGiven(frame)
<1>1. /\ ~(frame.bytes > MaxMessageBytes) /\ ~OddMember(frame)
      /\ \E t \in TypeGiven(frame) : t \in Text /\ ~OddType(Read(t))
      /\ Decode(frame) = Decoded(type, data)
  BY DEF Decode, Refusal
<1>2. /\ type \in TypeGiven(frame)
      /\ \A t \in TypeGiven(frame) : t = type
  BY <1>1 DEF TypeGiven, Member, OddMember
<1>3. type \in Text /\ ~OddType(Read(type)) /\ Plain(type)
  BY <1>1, <1>2
<1>4. Decode(frame).message = [type |-> type, data |-> data]
  <2>1. Read(type) = type
    BY <1>3, ReadsAsIs DEF Plain
  <2> HIDE DEF type, data
  <2> QED
    BY <1>1, <2>1 DEF Decoded
<1>5. frame.bytes >= Around(data) + ShortestBytes(type) + DataBytes(data)
  BY <1>2, <1>3 DEF Carries, TypeGiven
<1>6. Fitting([type |-> type, data |-> data])
  <2> DEFINE m == [type |-> type, data |-> data]
  <2>1. EncodedBytes(m) = Around(data) + WrittenBytes(type) + data.tight
    BY DEF EncodedBytes
  <2>2. Around(data) \in Nat
    BY DEF Around, TypeFrame, DataFrame
  <2>3. WrittenBytes(type) = ShortestBytes(type) /\ ShortestBytes(type) \in Nat
    BY <1>3, SMT DEF WrittenBytes, ShortestBytes, Plain, Text
  <2>4. data.tight \in Nat /\ DataBytes(data) >= data.tight /\ DataBytes(data) \in Nat
    BY SMT DEF DataBytes, Payload
  <2>5. frame.bytes <= MaxMessageBytes
    BY <1>1, EnvelopeAssumption, SMT
  <2> HIDE DEF data, type
  <2>6. Around(data) + WrittenBytes(type) + data.tight <= MaxMessageBytes
    BY <1>5, <2>2, <2>3, <2>4, <2>5, EnvelopeAssumption, SMT
  <2> QED
    BY <2>1, <2>6 DEF Fitting
<1>7. ~OddType(type)
  BY <1>3, ReadsAsIs DEF Plain
<1> QED
  BY <1>4, <1>6, <1>7 DEF Encode

-----------------------------------------------------------------------------
(* Numbers. *)

\* A set of numbers that is not empty has a least one.
LEMMA LeastOf ==
    ASSUME NEW S, S \subseteq Nat, S # {}
    PROVE  \E x \in S : \A y \in S : x <= y
<1> DEFINE R == OpToRel(<, Nat)
<1>1. IsWellFoundedOn(R, Nat)
  BY NatLessThanWellFounded
<1>r. \A x, y \in Nat : x < y => <<x, y>> \in R
  BY DEF OpToRel
<1> HIDE DEF R
<1>2. PICK x \in S : \A y \in S : ~(<<y, x>> \in R)
  BY <1>1, WFMin
<1>3. ASSUME NEW y \in S PROVE x <= y
  <2>1. x \in Nat /\ y \in Nat /\ ~(y < x)
    BY <1>r, <1>2
  <2> QED
    BY <2>1
<1> QED
  BY <1>3

\* A finite one has a greatest, and that is its Max.
LEMMA GreatestOf ==
    ASSUME NEW S, S \subseteq Nat, IsFiniteSet(S), S # {}
    PROVE  Max(S) \in S /\ \A y \in S : y <= Max(S)
<1> DEFINE Above(x) == {y \in S : y > x}
           Counts == {Cardinality(Above(x)) : x \in S}
<1>1. \A x \in S : IsFiniteSet(Above(x)) /\ Cardinality(Above(x)) \in Nat
  BY FS_Subset, FS_CardinalityType
<1>2. PICK x \in S : \A y \in S : Cardinality(Above(x)) <= Cardinality(Above(y))
  <2>1. Counts \subseteq Nat /\ Counts # {}
    BY <1>1
  <2>2. PICK k \in Counts : \A l \in Counts : k <= l
    <3> HIDE DEF Counts
    <3> QED
      BY <2>1, LeastOf
  <2> HIDE DEF Above
  <2> QED
    BY <2>2
<1>3. ASSUME NEW y \in S, y > x PROVE FALSE
  <2>0. \A z \in S : z \in Nat
    OBVIOUS
  <2>1. Above(y) \cup {y} \in SUBSET Above(x) /\ y \notin Above(y)
    <3>1. x \in Nat /\ y \in Nat /\ ~(y > y)
      BY <1>2, <2>0
    <3>2. \A z \in S : z > y => z > x
      BY <1>3, <2>0, <3>1
    <3> QED
      BY <1>3, <3>1, <3>2
  <2>2. Cardinality(Above(y) \cup {y}) = Cardinality(Above(y)) + 1
    BY <1>1, <2>1, FS_AddElement
  <2>3. Cardinality(Above(y) \cup {y}) <= Cardinality(Above(x))
    BY <1>1, <2>1, FS_Subset
  <2> QED
    BY <1>1, <1>2, <2>2, <2>3
<1> HIDE DEF Above
<1>4. \A y \in S : x >= y
  BY <1>3
<1>5. Max(S) \in S /\ \A y \in S : Max(S) >= y
  BY <1>4 DEF Max
<1> QED
  BY <1>5

-----------------------------------------------------------------------------
(* Pages. *)

\* The first n of a set are no more than that, come before the rest, and are
\* somebody if there is anybody.
LEMMA FrontIsFirst ==
    ASSUME NEW ids \in SUBSET People, NEW n \in Nat
    PROVE  /\ Front(ids, n) \subseteq ids /\ IsFiniteSet(Front(ids, n))
           /\ \A p \in Front(ids, n), q \in ids : q <= p => q \in Front(ids, n)
           /\ n # 0 /\ ids # {} => Front(ids, n) # {}
<1>1. ids \subseteq Nat /\ IsFiniteSet(ids)
  BY RollAssumption, FS_Subset
<1>2. Front(ids, n) \subseteq ids /\ IsFiniteSet(Front(ids, n))
  BY <1>1, FS_Subset DEF Front
<1>3. ASSUME NEW p \in Front(ids, n), NEW q \in ids, q <= p
      PROVE  q \in Front(ids, n)
  <2> DEFINE P == {x \in ids : x < p}
             Q == {x \in ids : x < q}
  <2>1. p \in ids /\ Cardinality(P) < n
    BY DEF Front
  <2>n. p \in Nat /\ \A x \in ids : x \in Nat
    BY <1>1, <2>1
  <2>2. Q \in SUBSET P /\ P \in SUBSET ids
    BY <1>3, <2>n
  <2> HIDE DEF P, Q
  <2>3. IsFiniteSet(P) /\ Cardinality(Q) <= Cardinality(P)
        /\ Cardinality(P) \in Nat /\ Cardinality(Q) \in Nat
    BY <1>1, <2>2, FS_Subset, FS_CardinalityType
  <2>4. Cardinality(Q) < n
    BY <2>1, <2>3
  <2> QED
    BY <2>4 DEF Front, Q
<1>4. ASSUME n # 0, ids # {} PROVE Front(ids, n) # {}
  <2>1. PICK p \in ids : \A q \in ids : p <= q
    BY <1>1, <1>4, LeastOf
  <2>2. {x \in ids : x < p} = {}
    <3>1. ASSUME NEW x \in ids, x < p PROVE FALSE
      BY <1>1, <2>1, <3>1
    <3> QED
      BY <3>1
  <2>3. Cardinality({x \in ids : x < p}) = 0
    BY <2>2, FS_EmptySet
  <2> QED
    BY <1>4, <2>3 DEF Front
<1> QED
  BY <1>2, <1>3, <1>4

\* A page is a front of what is behind the cursor, everybody there is or up
\* to the one it names; a refused one is of one entry that does not fit.
LEMMA LongestPage ==
    ASSUME NEW roll \in SUBSET People, NEW after \in People \cup {0},
           NEW size \in 1..MaxPage
    PROVE  LET page == Page[<<roll, after, size>>]
               rest == Behind(roll, after)
           IN  /\ page.entries \subseteq rest
               /\ \A p \in page.entries, q \in rest : q <= p => q \in page.entries
               /\ page.next = CursorAt(page.entries, rest)
               /\ \/ page.next = 0 /\ page.entries = rest
                  \/ /\ page.next \in People /\ page.next \in page.entries
                     /\ \A p \in page.entries : p <= page.next
               /\ page.refused => /\ Cardinality(page.entries) = 1
                                  /\ ~Fits(page.entries, rest)
<1> DEFINE rest == Behind(roll, after)
           longest == Cardinality(Front(rest, size))
           fitting == {n \in 1..longest : n = 1 \/ Fits(Front(rest, n), rest)}
           entries == IF fitting = {} THEN {} ELSE Front(rest, Max(fitting))
           page == Page[<<roll, after, size>>]
<1>1. page = [refused |-> Cardinality(entries) = 1 /\ ~Fits(entries, rest),
              entries |-> entries, next |-> CursorAt(entries, rest)]
  <2>1. <<roll, after, size>> \in Requests
    BY DEF Requests
  <2> QED
    BY <2>1 DEF Page
<1>2. rest \in SUBSET People
  BY DEF Behind
<1>3. size \in Nat \ {0}
  BY RollAssumption
<1> HIDE DEF rest
<1>4. longest \in Nat /\ (rest # {} => longest # 0)
  <2>1. IsFiniteSet(Front(rest, size)) /\ (rest # {} => Front(rest, size) # {})
    BY <1>2, <1>3, FrontIsFirst
  <2> QED
    BY <2>1, FS_CardinalityType, FS_EmptySet
<1> HIDE DEF longest
<1>5. fitting \in SUBSET (1..longest) /\ (rest # {} => fitting # {})
  BY <1>4
<1> HIDE DEF fitting
<1>6. fitting # {} => Max(fitting) \in Nat \ {0}
  <2> SUFFICES ASSUME fitting # {} PROVE Max(fitting) \in Nat \ {0}
    OBVIOUS
  <2>1. IsFiniteSet(1..longest)
    BY <1>4, FS_Interval
  <2>2. fitting \subseteq 1..longest
    BY <1>5
  <2>3. IsFiniteSet(fitting)
    BY <2>1, <2>2, FS_Subset
  <2>4. 1..longest \subseteq Nat \ {0}
    BY <1>4
  <2>5. fitting \subseteq Nat
    BY <2>2, <2>4
  <2>6. Max(fitting) \in fitting
    BY <2>3, <2>5, GreatestOf
  <2> QED
    BY <2>2, <2>4, <2>6
<1>7. /\ entries \subseteq rest /\ IsFiniteSet(entries)
      /\ \A p \in entries, q \in rest : q <= p => q \in entries
      /\ rest # {} => entries # {}
  <2>1. CASE fitting = {}
    BY <1>5, <2>1, FS_EmptySet
  <2>2. CASE fitting # {}
    BY <1>2, <1>6, <2>2, FrontIsFirst
  <2> QED
    BY <2>1, <2>2
<1> HIDE DEF entries
<1>8. \/ CursorAt(entries, rest) = 0 /\ entries = rest
      \/ /\ CursorAt(entries, rest) \in People /\ CursorAt(entries, rest) \in entries
         /\ \A p \in entries : p <= CursorAt(entries, rest)
  <2>1. CASE entries = rest
    BY <2>1 DEF CursorAt
  <2>2. CASE entries # rest
    <3>1. entries # {} /\ entries \subseteq Nat
      BY <1>2, <1>7, <2>2, RollAssumption
    <3>2. Max(entries) \in entries /\ \A p \in entries : p <= Max(entries)
      BY <1>7, <3>1, GreatestOf
    <3> QED
      BY <1>2, <1>7, <2>2, <3>2 DEF CursorAt
  <2> QED
    BY <2>1, <2>2
<1>9. /\ page.entries = entries /\ page.next = CursorAt(entries, rest)
      /\ page.refused = (Cardinality(entries) = 1 /\ ~Fits(entries, rest))
  BY <1>1
<1> HIDE DEF page
<1> QED
  BY <1>7, <1>8, <1>9 DEF page, rest

-----------------------------------------------------------------------------
(* The emitter, and the caller that notes, waits and takes. *)

EmitterOK ==
    /\ pending \in BOOLEAN /\ sent \in BOOLEAN
    /\ since \in 0..Window /\ revision \in Nat
    /\ unnoted \in BOOLEAN /\ untold \in BOOLEAN
    /\ lag \in Nat /\ counting \in 0..Stretch /\ taken \in Nat

\* Where no summary was refused since the last the client received, a change
\* waits no longer than the window runs, and the first of all not at all.
LagIsCovered ==
    revision = 0 =>
        /\ lag <= since
        /\ lag = 0 \/ (pending /\ sent)

\* Between the summaries of a stretch a window went by; the one that runs is
\* not over when the stretch is.
StretchIsCovered ==
    taken > 0 =>
        /\ sent
        /\ (taken - 1) * Window <= counting
        /\ counting < Stretch => (taken - 1) * Window + since <= counting

EmitterInv ==
    EmitterOK /\ NothingIsDropped /\ LagIsCovered /\ StretchIsCovered

\* One more window is one more window.
LEMMA OneMoreWindow ==
    ASSUME NEW n \in Nat, n > 0
    PROVE  /\ n * Window = (n - 1) * Window + Window
           /\ (n - 1) * Window \in Nat /\ n * Window \in Nat
<1>1. Window \in Nat
  BY WindowAssumption
<1> QED
  BY <1>1

\* What any step leaves of the emitter's part (Note, Take, Wait).
LEMMA EmitterStep ==
    ASSUME EmitterInv, [Next]_vars PROVE EmitterInv'
<1> USE DEF EmitterInv, EmitterOK, NothingIsDropped, LagIsCovered
<1>w. Window \in Nat /\ Window > 0 /\ RevisionCap \in Nat /\ RevisionCap > 0
      /\ Stretch \in Nat
  BY WindowAssumption, PresenceAssumption
<1>1. ASSUME UNCHANGED <<emitterVars, unnoted, untold, lag, stretchVars>>
      PROVE  EmitterInv'
  BY <1>1 DEF emitterVars, stretchVars, StretchIsCovered
<1>2. ASSUME unnoted' = TRUE, untold' = TRUE,
             UNCHANGED <<emitterVars, lag, stretchVars>>
      PROVE  EmitterInv'
  BY <1>2 DEF emitterVars, stretchVars, StretchIsCovered
<1>3. ASSUME NoteChange PROVE EmitterInv'
  <2>1. /\ unnoted' = FALSE /\ pending' = TRUE
        /\ UNCHANGED <<sent, since, revision, untold, lag, counting, taken>>
    BY <1>3 DEF NoteChange, Note, stretchVars
  <2>2. StretchIsCovered'
    BY <2>1 DEF StretchIsCovered
  <2> QED
    BY <2>1, <2>2
<1>4. ASSUME TakeSummary PROVE EmitterInv'
  <2>1. /\ pending' = FALSE /\ sent' = TRUE /\ since' = 0
        /\ pending /\ (sent => since >= Window)
        /\ UNCHANGED <<unnoted, counting>>
        /\ taken' = IF counting < Stretch THEN taken + 1 ELSE taken
    BY <1>4 DEF TakeSummary, Take, Due
  <2>2. \/ untold' = FALSE /\ revision' = 0 /\ lag' = 0
        \/ untold' = untold /\ revision' \in Nat /\ revision' > 0 /\ lag' = lag
    <3>1. NextRevision \in Nat /\ NextRevision > 0
      BY <1>w DEF NextRevision
    <3> QED
      BY <1>4, <3>1 DEF TakeSummary
  <2>3. EmitterOK'
    <3>1. since' \in 0..Window /\ lag' \in Nat /\ counting' \in 0..Stretch
      BY <1>w, <2>1, <2>2
    <3>2. taken' \in Nat /\ revision' \in Nat
      BY <2>1, <2>2
    <3>3. /\ pending' \in BOOLEAN /\ sent' \in BOOLEAN
          /\ unnoted' \in BOOLEAN /\ untold' \in BOOLEAN
      BY <2>1, <2>2
    <3> QED
      BY <3>1, <3>2, <3>3
  <2>4. NothingIsDropped' /\ LagIsCovered'
    BY <2>1, <2>2
  <2>5. StretchIsCovered'
    <3>1. CASE ~(counting < Stretch)
      BY <2>1, <3>1 DEF StretchIsCovered
    <3>2. CASE counting < Stretch /\ taken = 0
      <4>1. taken' = 1 /\ since' = 0 /\ counting' = counting /\ counting \in Nat
        BY <2>1, <3>2
      <4>2. (1 - 1) * Window = 0
        BY <1>w
      <4> QED
        BY <2>1, <4>1, <4>2 DEF StretchIsCovered
    <3>3. CASE counting < Stretch /\ taken # 0
      <4> DEFINE before == (taken - 1) * Window
                 now == taken * Window
      <4>1. taken > 0 /\ taken' = taken + 1 /\ taken' - 1 = taken
        BY <2>1, <3>3
      <4>2. now = before + Window /\ before \in Nat /\ now \in Nat
        BY <4>1, OneMoreWindow
      <4>3. before + since <= counting /\ since >= Window
        BY <2>1, <3>3, <4>1 DEF StretchIsCovered
      <4> HIDE DEF before, now
      <4>4. now <= counting /\ now + 0 <= counting
        BY <1>w, <4>2, <4>3
      <4> QED
        BY <2>1, <4>1, <4>4 DEF StretchIsCovered, now
    <3> QED
      BY <3>1, <3>2, <3>3
  <2> QED
    BY <2>3, <2>4, <2>5
<1>5. ASSUME Tick PROVE EmitterInv'
  <2>1. /\ UNCHANGED <<pending, sent, revision, unnoted, untold, taken>>
        /\ ~(pending /\ Wait = 0)
        /\ since' = IF since < Window THEN since + 1 ELSE since
        /\ lag' = IF (pending \/ revision > 0) /\ lag <= Window THEN lag + 1 ELSE lag
        /\ counting' = IF counting < Stretch THEN counting + 1 ELSE counting
    BY <1>5 DEF Tick, TimePasses, roomVars
  <2>2. EmitterOK' /\ NothingIsDropped'
    BY <1>w, <2>1
  <2>3. LagIsCovered'
    <3>1. CASE revision = 0 /\ pending
      <4>1. sent /\ since < Window
        BY <1>w, <2>1, <3>1 DEF Wait
      <4> QED
        BY <1>w, <2>1, <3>1, <4>1
    <3>2. CASE revision = 0 /\ ~pending
      BY <1>w, <2>1, <3>2
    <3>3. CASE revision # 0
      BY <2>1, <3>3
    <3> QED
      BY <3>1, <3>2, <3>3
  <2>4. StretchIsCovered'
    <3> SUFFICES ASSUME taken > 0
                 PROVE  /\ sent
                        /\ (taken - 1) * Window <= counting'
                        /\ counting' < Stretch =>
                                (taken - 1) * Window + since' <= counting'
      BY <2>1 DEF StretchIsCovered
    <3> DEFINE before == (taken - 1) * Window
    <3>1. before \in Nat
      BY OneMoreWindow
    <3>2. /\ sent /\ before <= counting
          /\ counting < Stretch => before + since <= counting
      BY DEF StretchIsCovered
    <3> HIDE DEF before
    <3>3. before <= counting' /\ (counting' < Stretch => before + since' <= counting')
      BY <1>w, <2>1, <3>1, <3>2
    <3> QED
      BY <3>2, <3>3 DEF before
  <2> QED
    BY <2>2, <2>3, <2>4
<1>6. ASSUME Count PROVE EmitterInv'
  <2>1. /\ UNCHANGED <<pending, sent, since, revision, unnoted, untold, lag>>
        /\ counting' = 0 /\ taken' = 0
    BY <1>6 DEF Count, emitterVars, roomVars
  <2> QED
    BY <1>w, <2>1 DEF StretchIsCovered
<1> QED
  BY <1>1, <1>2, <1>3, <1>4, <1>5, <1>6
  DEF Next, vars, roomVars, Join, Leave, Attend, Unattend, StartWalk, NoPage, NextPage

-----------------------------------------------------------------------------
(* The walk. *)

\* The client was given everybody up to its cursor who stayed, and nobody
\* behind it.
WalkOK ==
    /\ present \subseteq People /\ cursor \in People \cup {0}
    /\ listed \subseteq People /\ stayed \subseteq present
    /\ again \in BOOLEAN

WalkIsCovered ==
    walk = "walking" => /\ \A q \in stayed : q <= cursor => q \in listed
                        /\ \A p \in listed : p <= cursor

WalkInv == WalkOK /\ WalkIsCovered /\ WalkMissesNobody

\* A page that is not refused takes the walk on over everybody there is.
LEMMA PageStep ==
    ASSUME WalkInv, NEW size \in PageSizes, NextPage(size)
    PROVE  WalkInv'
<1> USE DEF WalkInv, WalkOK, WalkMissesNobody
<1> DEFINE page == Page[<<present, cursor, size>>]
           rest == Behind(present, cursor)
<1>1. /\ walk = "walking" /\ UNCHANGED <<present, stayed>>
      /\ \/ /\ walk' = "refused"
            /\ UNCHANGED <<cursor, listed, again>>
         \/ /\ walk' = IF page.next = 0 THEN "ended" ELSE "walking"
            /\ cursor' = page.next
            /\ listed' = listed \cup page.entries
            /\ again' = (again \/ page.entries \cap listed # {})
  BY DEF NextPage, roomVars
<1>2. size \in 1..MaxPage
  BY PresenceAssumption
<1>3. /\ page.entries \subseteq rest
      /\ \A p \in page.entries, q \in rest : q <= p => q \in page.entries
      /\ \/ page.next = 0 /\ page.entries = rest
         \/ /\ page.next \in People /\ page.next \in page.entries
            /\ \A p \in page.entries : p <= page.next
  BY <1>2, LongestPage
<1>4. /\ \A q \in present : q \in rest <=> q > cursor
      /\ rest \subseteq present
      /\ \A q \in present : q \in Nat /\ q # 0
      /\ cursor \in Nat /\ \A p \in listed : p \in Nat
  BY RollAssumption DEF Behind
<1>5. /\ \A q \in stayed : q <= cursor => q \in listed
      /\ \A p \in listed : p <= cursor
  BY <1>1 DEF WalkIsCovered
<1> HIDE DEF page, rest
<1>6. CASE walk' = "refused" /\ UNCHANGED <<cursor, listed, again>>
  BY <1>1, <1>6 DEF WalkIsCovered
<1>7. CASE /\ walk' = IF page.next = 0 THEN "ended" ELSE "walking"
           /\ cursor' = page.next
           /\ listed' = listed \cup page.entries
           /\ again' = (again \/ page.entries \cap listed # {})
  <2>1. page.entries \cap listed = {}
    <3>1. \A p \in page.entries : p > cursor /\ p \in Nat
      BY <1>3, <1>4
    <3>2. \A p \in page.entries : p \notin listed
      BY <1>4, <1>5, <3>1
    <3> QED
      BY <3>2
  <2>2. again' = again /\ ~again
    BY <1>7, <2>1
  <2>3. WalkOK'
    BY <1>1, <1>3, <1>4, <1>7, <2>2
  <2>4. CASE page.next = 0 /\ page.entries = rest
    <3>1. walk' = "ended"
      BY <1>7, <2>4
    <3>2. ASSUME NEW q \in stayed PROVE q \in listed'
      <4>1. q \in present /\ q \in Nat
        BY <1>4
      <4>2. q <= cursor \/ q > cursor
        BY <1>4, <4>1
      <4> QED
        BY <1>4, <1>5, <1>7, <2>4, <4>1, <4>2
    <3> QED
      BY <1>1, <2>2, <2>3, <3>1, <3>2 DEF WalkIsCovered
  <2>5. CASE /\ page.next \in People /\ page.next \in page.entries
             /\ \A p \in page.entries : p <= page.next
    <3>0. page.next \in Nat /\ page.next # 0 /\ page.next > cursor
      BY <1>3, <1>4, <2>5
    <3>1. walk' = "walking"
      BY <1>7, <3>0
    <3>2. ASSUME NEW q \in stayed, q <= page.next PROVE q \in listed'
      <4>1. q \in present /\ q \in Nat
        BY <1>4
      <4>2. q <= cursor \/ q > cursor
        BY <1>4, <4>1
      <4> QED
        BY <1>3, <1>4, <1>5, <1>7, <2>5, <3>2, <4>1, <4>2
    <3>3. ASSUME NEW p \in listed' PROVE p <= page.next
      <4>1. CASE p \in listed
        BY <1>4, <1>5, <3>0, <4>1
      <4>2. CASE p \in page.entries
        BY <2>5, <4>2
      <4> QED
        BY <1>7, <4>1, <4>2
    <3> QED
      BY <1>1, <1>7, <2>2, <2>3, <3>1, <3>2, <3>3 DEF WalkIsCovered
  <2> QED
    BY <1>3, <2>4, <2>5
<1> QED
  BY <1>1, <1>6, <1>7

\* What any step leaves of the walk.
LEMMA WalkStep ==
    ASSUME WalkInv, [Next]_vars PROVE WalkInv'
<1> USE DEF WalkInv, WalkOK, WalkIsCovered, WalkMissesNobody
<1>1. ASSUME UNCHANGED <<present, walkVars>> PROVE WalkInv'
  BY <1>1 DEF walkVars
<1>2. ASSUME NEW p \in People, Join(p) PROVE WalkInv'
  BY <1>2 DEF Join, walkVars
<1>3. ASSUME NEW p \in People, Leave(p) PROVE WalkInv'
  BY <1>3 DEF Leave
<1>4. ASSUME StartWalk PROVE WalkInv'
  <2>1. /\ walk' = "walking" /\ cursor' = 0 /\ listed' = {} /\ again' = FALSE
        /\ stayed' = present /\ present' = present
    BY <1>4 DEF StartWalk, roomVars
  <2>2. \A q \in present : ~(q <= 0)
    BY RollAssumption
  <2> QED
    BY <2>1, <2>2
<1>5. ASSUME NoPage PROVE WalkInv'
  BY <1>5 DEF NoPage, roomVars
<1>6. ASSUME NEW size \in PageSizes, NextPage(size) PROVE WalkInv'
  BY <1>6, PageStep
<1> QED
  BY <1>1, <1>2, <1>3, <1>4, <1>5, <1>6
  DEF Next, vars, roomVars, Attend, Unattend, NoteChange, TakeSummary, Tick, Count

-----------------------------------------------------------------------------
(* What follows for the room. *)

PresenceInv == EmitterInv /\ WalkInv

\* Both parts hold throughout, whoever comes and goes.
THEOREM PresenceInvariant == Spec => []PresenceInv
<1>1. Init => PresenceInv
  <2> SUFFICES ASSUME Init PROVE PresenceInv
    OBVIOUS
  <2>1. EmitterInv
    <3>1. /\ pending = FALSE /\ sent = FALSE /\ since = 0 /\ revision = 0
          /\ unnoted = FALSE /\ untold = FALSE
          /\ lag = 0 /\ counting = 0 /\ taken = 0
      BY DEF Init, EmitterInit
    <3>2. 0 \in 0..Window /\ 0 \in 0..Stretch
      BY WindowAssumption, PresenceAssumption
    <3>3. EmitterOK
      BY <3>1, <3>2 DEF EmitterOK
    <3>4. NothingIsDropped
      BY <3>1 DEF NothingIsDropped
    <3>5. LagIsCovered
      BY <3>1 DEF LagIsCovered
    <3>6. StretchIsCovered
      BY <3>1 DEF StretchIsCovered
    <3> QED
      BY <3>3, <3>4, <3>5, <3>6 DEF EmitterInv
  <2>2. WalkInv
    BY DEF Init, WalkInv, WalkOK, WalkIsCovered, WalkMissesNobody
  <2> QED
    BY <2>1, <2>2 DEF PresenceInv
<1>2. PresenceInv /\ [Next]_vars => PresenceInv'
  BY EmitterStep, WalkStep DEF PresenceInv
<1> QED
  BY <1>1, <1>2, PTL DEF Spec

\* No change is lost without a trace (Note, Take).
THEOREM ChangesShow == Spec => []NothingIsDropped
BY PresenceInvariant, PTL DEF PresenceInv, EmitterInv

\* With a caller that takes when Wait is over, a noted change is in a summary
\* the client received within the window, unless a summary was refused since
\* the last one it has; and Wait is over exactly when Take yields one (Wait,
\* Take).
THEOREM ChangesAreTimely == Spec => []LagIsBounded
<1>1. PresenceInv => LagIsBounded
  <2> SUFFICES ASSUME PresenceInv PROVE LagIsBounded
    OBVIOUS
  <2>1. /\ Window \in Nat /\ since \in 0..Window /\ lag \in Nat
        /\ sent \in BOOLEAN
    BY WindowAssumption DEF PresenceInv, EmitterInv, EmitterOK
  <2>2. revision = 0 => lag <= Window
    BY <2>1 DEF PresenceInv, EmitterInv, LagIsCovered
  <2>3. ASSUME pending PROVE Wait = 0 <=> Due
    <3>1. CASE sent
      <4>1. Wait = Window - since
        BY <3>1 DEF Wait
      <4>2. Due <=> since >= Window
        BY <2>3, <3>1 DEF Due
      <4> QED
        BY <2>1, <4>1, <4>2
    <3>2. CASE ~sent
      BY <2>3, <3>2 DEF Wait, Due
    <3> QED
      BY <3>1, <3>2
  <2> QED
    BY <2>2, <2>3 DEF LagIsBounded
<1> QED
  BY <1>1, PresenceInvariant, PTL

\* Elapsed time bounds the summaries, however often the room changes (Take).
THEOREM TimeBoundsSummaries == Spec => []SummariesAreBoundedByTime
<1>1. PresenceInv => SummariesAreBoundedByTime
  <2> SUFFICES ASSUME PresenceInv PROVE SummariesAreBoundedByTime
    OBVIOUS
  <2> DEFINE whole == counting \div Window
  <2>1. /\ Window \in Nat /\ Window > 0 /\ taken \in Nat /\ counting \in Nat
        /\ taken > 0 => (taken - 1) * Window <= counting
    BY WindowAssumption, PresenceAssumption
    DEF PresenceInv, EmitterInv, EmitterOK, StretchIsCovered
  <2>2. whole \in Nat /\ counting < (whole + 1) * Window
    BY <2>1
  <2> HIDE DEF whole
  <2>3. ASSUME taken > 1 + whole PROVE FALSE
    <3> DEFINE n == taken - 1
    <3>1. n \in Nat /\ n >= whole + 1 /\ n * Window <= counting
      BY <2>1, <2>2, <2>3
    <3> HIDE DEF n
    <3>2. n * Window >= (whole + 1) * Window
      BY <2>1, <2>2, <3>1
    <3>3. n * Window \in Nat /\ (whole + 1) * Window \in Nat
      BY <2>1, <2>2, <3>1
    <3> QED
      BY <2>1, <2>2, <3>1, <3>2, <3>3
  <2> QED
    BY <2>1, <2>2, <2>3 DEF SummariesAreBoundedByTime, whole
<1> QED
  BY <1>1, PresenceInvariant, PTL

\* A walk that was given every page was given everybody who stayed, once,
\* whatever the sizes of the entries and the limits of a message (Page).
THEOREM WalkIsComplete == Spec => []WalkMissesNobody
BY PresenceInvariant, PTL DEF PresenceInv, WalkInv

\* What WalkEnds owes to the pages: each ends the walk or takes its cursor on,
\* however the roll moved since the last (Page, cursorAt). There are no more
\* pages to a walk than participants, and one.
THEOREM PagesMoveOn ==
    Spec => [][\A size \in PageSizes :
                 NextPage(size) => walk' # "walking" \/ cursor' > cursor]_vars
<1>1. PresenceInv /\ [Next]_vars =>
        [\A size \in PageSizes :
            NextPage(size) => walk' # "walking" \/ cursor' > cursor]_vars
  <2> SUFFICES ASSUME PresenceInv, NEW size \in PageSizes, NextPage(size),
                      walk' = "walking"
               PROVE  cursor' > cursor
    OBVIOUS
  <2> DEFINE page == Page[<<present, cursor, size>>]
  <2>1. cursor' = page.next /\ page.next # 0
    BY DEF NextPage
  <2>2. present \in SUBSET People /\ cursor \in People \cup {0} /\ size \in 1..MaxPage
    BY PresenceAssumption DEF PresenceInv, WalkInv, WalkOK
  <2>3. page.next \in Behind(present, cursor)
    <3>1. page.next \in page.entries /\ page.entries \subseteq Behind(present, cursor)
      BY <2>1, <2>2, LongestPage
    <3> QED
      BY <3>1
  <2> HIDE DEF page
  <2> QED
    BY <2>1, <2>3 DEF Behind
<1> QED
  BY <1>1, PresenceInvariant, PTL DEF Spec

\* A walk stops short only at the entry it asks for next, which no page could
\* carry, or which others follow and which does not fit with its cursor; and
\* everybody before it was listed (Page).
THEOREM WalkStopsWhereItMust == Spec => StopsOnlyAtWhatDoesNotFit
<1>1. PresenceInv /\ [Next]_vars =>
        [walk = "walking" /\ walk' = "refused" =>
            \E p \in Behind(present, cursor) :
                /\ \A q \in Behind(present, cursor) : p <= q
                /\ \/ ~Sendable({p}, 0)
                   \/ ~Sendable({p}, p) /\ Behind(present, cursor) # {p}
                /\ {q \in stayed : q < p} \subseteq listed]_vars
  <2> SUFFICES ASSUME PresenceInv, Next, walk = "walking", walk' = "refused"
               PROVE  \E p \in Behind(present, cursor) :
                        /\ \A q \in Behind(present, cursor) : p <= q
                        /\ \/ ~Sendable({p}, 0)
                           \/ ~Sendable({p}, p) /\ Behind(present, cursor) # {p}
                        /\ {q \in stayed : q < p} \subseteq listed
    OBVIOUS
  <2>1. PICK size \in PageSizes : NextPage(size)
    BY DEF Next, Join, Leave, Attend, Unattend, NoteChange, TakeSummary, Tick,
           Count, StartWalk, NoPage, roomVars, walkVars
  <2> DEFINE page == Page[<<present, cursor, size>>]
             rest == Behind(present, cursor)
  <2>2. page.refused
    BY <2>1 DEF NextPage
  <2>3. /\ page.entries \subseteq rest
        /\ \A p \in page.entries, q \in rest : q <= p => q \in page.entries
        /\ Cardinality(page.entries) = 1 /\ ~Fits(page.entries, rest)
    <3>1. present \in SUBSET People /\ cursor \in People \cup {0} /\ size \in 1..MaxPage
      BY PresenceAssumption DEF PresenceInv, WalkInv, WalkOK
    <3> QED
      BY <2>2, <3>1, LongestPage
  <2>4. /\ rest \subseteq People /\ IsFiniteSet(rest)
        /\ \A q \in stayed : q \in rest <=> q > cursor
        /\ \A q \in stayed : q \in Nat
        /\ \A q \in stayed : q <= cursor => q \in listed
        /\ cursor \in Nat
    <3>1. /\ present \subseteq People /\ stayed \subseteq present
          /\ cursor \in People \cup {0}
          /\ \A q \in stayed : q <= cursor => q \in listed
      BY DEF PresenceInv, WalkInv, WalkOK, WalkIsCovered
    <3>2. cursor \in Nat /\ \A q \in stayed : q \in Nat
      BY <3>1, RollAssumption
    <3>3. rest \subseteq People /\ \A q \in stayed : q \in rest <=> q > cursor
      BY <3>1 DEF Behind
    <3>4. IsFiniteSet(rest)
      BY <3>3, RollAssumption, FS_Subset
    <3> QED
      BY <3>1, <3>2, <3>3, <3>4
  <2> HIDE DEF page, rest
  <2>5. PICK p : page.entries = {p}
    BY <2>3, <2>4, FS_Subset, FS_Singleton
  <2>6. p \in rest /\ p \in People /\ p \in Nat
    BY <2>3, <2>4, <2>5, RollAssumption
  <2>7. ~Sendable({p}, 0) \/ (~Sendable({p}, p) /\ rest # {p})
    <3>1. ~Sendable({p}, CursorAt({p}, rest))
      BY <2>3, <2>5 DEF Fits
    <3>2. CASE {p} = rest
      BY <3>1, <3>2 DEF CursorAt
    <3>3. CASE {p} # rest
      <4>1. Max({p}) = p
        BY <2>6 DEF Max
      <4> QED
        BY <3>1, <3>3, <4>1 DEF CursorAt
    <3> QED
      BY <3>2, <3>3
  <2>8. ASSUME NEW q \in stayed, q < p PROVE q \in listed
    <3>1. CASE q <= cursor
      BY <2>4, <3>1
    <3>2. CASE q > cursor
      <4>1. q \in rest /\ q <= p /\ q # p
        BY <2>4, <2>6, <2>8, <3>2
      <4> QED
        BY <2>3, <2>5, <4>1
    <3> QED
      BY <2>4, <3>1, <3>2
  <2>9. ASSUME NEW q \in rest PROVE p <= q
    <3>1. q \in Nat
      BY <2>4, RollAssumption
    <3>2. q <= p => q = p
      BY <2>3, <2>5
    <3> QED
      BY <2>6, <3>1, <3>2
  <2> QED
    BY <2>6, <2>7, <2>8, <2>9 DEF rest
<1> QED
  BY <1>1, PresenceInvariant, PTL DEF Spec, StopsOnlyAtWhatDoesNotFit

(***************************************************************************)
(* What Page and the decision on presence say of the refused entry, that   *)
(* no paging could carry it, does not hold: of two entries that fit in one *)
(* message, the first is refused to a client that asks for one at a time   *)
(* as soon as its cursor does not fit beside it.                           *)
(***************************************************************************)
THEOREM RefusedThoughAPageCarriesIt ==
    ASSUME NEW p \in People, NEW q \in People, p < q, MaxPage >= 2,
           ~Sendable({p}, p), Sendable({p, q}, 0)
    PROVE  /\ Page[<<{p, q}, 0, 1>>].refused
           /\ LET both == Page[<<{p, q}, 0, 2>>] IN
              ~both.refused /\ both.entries = {p, q}
<1>1. p \in Nat \ {0} /\ q \in Nat \ {0} /\ p # q /\ MaxPage \in Nat
  BY RollAssumption
<1>2. Behind({p, q}, 0) = {p, q}
  BY <1>1 DEF Behind
<1>3. /\ Cardinality({}) = 0 /\ Cardinality({p}) = 1
      /\ Cardinality({p, q}) = 2
  <2>1. IsFiniteSet({p}) /\ Cardinality({p}) = 1
    BY FS_Singleton
  <2>2. q \notin {p} /\ {p, q} = {p} \cup {q}
    BY <1>1
  <2>3. Cardinality({p} \cup {q}) = Cardinality({p}) + 1
    BY <2>1, <2>2, FS_AddElement
  <2> QED
    BY <2>1, <2>2, <2>3, FS_EmptySet
<1>4. {x \in {p, q} : x < p} = {} /\ {x \in {p, q} : x < q} = {p}
  BY <1>1
<1>5. Front({p, q}, 1) = {p} /\ Front({p, q}, 2) = {p, q}
  BY <1>1, <1>3, <1>4 DEF Front
<1>6. /\ <<{p, q}, 0, 1>> \in Requests /\ <<{p, q}, 0, 2>> \in Requests
  BY <1>1 DEF Requests
<1>7. Page[<<{p, q}, 0, 1>>].refused
  <2> DEFINE lengths == {n \in 1..1 : n = 1 \/ Fits(Front({p, q}, n), {p, q})}
             page == IF lengths = {} THEN {} ELSE Front({p, q}, Max(lengths))
  <2>1. Page[<<{p, q}, 0, 1>>].refused
          = (Cardinality(page) = 1 /\ ~Fits(page, {p, q}))
    BY <1>2, <1>3, <1>5, <1>6 DEF Page
  <2>2. lengths = {1}
    OBVIOUS
  <2>3. Max(lengths) = 1
    BY <2>2 DEF Max
  <2>4. page = {p}
    BY <1>5, <2>2, <2>3
  <2>5. Max({p}) = p /\ {p} # {p, q}
    BY <1>1 DEF Max
  <2> HIDE DEF page
  <2>6. ~Fits(page, {p, q})
    BY <2>4, <2>5 DEF Fits, CursorAt
  <2> QED
    BY <1>3, <2>1, <2>4, <2>6
<1>8. LET both == Page[<<{p, q}, 0, 2>>] IN ~both.refused /\ both.entries = {p, q}
  <2> DEFINE lengths == {n \in 1..2 : n = 1 \/ Fits(Front({p, q}, n), {p, q})}
             page == IF lengths = {} THEN {} ELSE Front({p, q}, Max(lengths))
  <2>1. /\ Page[<<{p, q}, 0, 2>>].refused
             = (Cardinality(page) = 1 /\ ~Fits(page, {p, q}))
        /\ Page[<<{p, q}, 0, 2>>].entries = page
    BY <1>2, <1>3, <1>5, <1>6 DEF Page
  <2>2. Fits(Front({p, q}, 2), {p, q})
    BY <1>5 DEF Fits, CursorAt
  <2>3. 2 \in lengths /\ lengths \subseteq 1..2
    BY <2>2
  <2> HIDE DEF lengths
  <2>4. lengths # {} /\ Max(lengths) = 2
    <3>1. lengths \subseteq 1..2 /\ lengths \subseteq Nat /\ lengths # {}
      BY <2>3
    <3>2. IsFiniteSet(lengths)
      <4>1. 1 \in Int /\ 2 \in Int
        OBVIOUS
      <4>2. IsFiniteSet(1..2)
        BY <4>1, FS_Interval
      <4> QED
        BY <3>1, <4>2, FS_Subset
    <3>3. Max(lengths) \in lengths /\ \A n \in lengths : n <= Max(lengths)
      BY <3>1, <3>2, GreatestOf
    <3>4. Max(lengths) \in 1..2 /\ 2 <= Max(lengths)
      BY <2>3, <3>1, <3>3
    <3> QED
      BY <3>1, <3>4
  <2>5. page = {p, q}
    BY <1>5, <2>4
  <2> HIDE DEF page
  <2>6. Cardinality(page) # 1
    BY <1>3, <2>5
  <2>7. ~Page[<<{p, q}, 0, 2>>].refused
    BY <2>1, <2>6
  <2> QED
    BY <2>1, <2>5, <2>7
<1> QED
  BY <1>7, <1>8
=============================================================================
