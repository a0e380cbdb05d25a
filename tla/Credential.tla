------------------------------ MODULE Credential ------------------------------
(***************************************************************************)
(* Room credentials: internal/roomcred/roomcred.go.                        *)
(*                                                                         *)
(* Issue and Verify keep nothing between calls, so they are operators. An  *)
(* instant is a number of ticks, some of which make a second: a credential *)
(* is asked for to the tick and carries whole seconds. A text is a value   *)
(* with a length, and the bytes of a token are what they decode to: what   *)
(* signed them and the payload. The numbers are the code's own.            *)
(***************************************************************************)
EXTENDS Integers

CONSTANTS
    Texts,          \* conferences, subjects and roles; NoText is the empty one
    NoText,
    TextBytes,      \* how long each is
    SigningKeys,    \* the keys a token may be signed with
    KeyBytes,       \* how long each is
    TicksPerSecond, \* how finely a clock tells instants apart
    MaxLifetime     \* the longest window Issue mints, in ticks

Version       == 1
MinKeyBytes   == 32
MaxTokenBytes == 1024
MaxFieldBytes == 128
MacBytes      == 32 \* sha256.Size

ASSUME CredentialAssumption ==
    /\ TextBytes \in [Texts -> Nat]
    /\ NoText \in Texts /\ TextBytes[NoText] = 0
    /\ KeyBytes \in [SigningKeys -> Nat]
    /\ TicksPerSecond \in Nat \ {0}
    /\ MaxLifetime \in Nat

NoTime   == -1 \* the zero time.Time
Instants == Nat \cup {NoTime}

\* NewIssuer and NewVerifier refuse a key shorter than the minimum.
HeldKeys == {k \in SigningKeys : KeyBytes[k] >= MinKeyBytes}

Claims == [conference : Texts, subject : Texts, role : Texts,
           notBefore : Instants, expires : Instants]

Lifetime(c) == c.expires - c.notBefore

-----------------------------------------------------------------------------
(* Issue. *)

Fields(c) == {c.conference, c.subject, c.role}

\* Mutant: the texts are as long as they like.
MintableAtAnyLength(c) ==
    /\ c.conference # NoText /\ c.role # NoText
    /\ c.notBefore # NoTime /\ c.expires # NoTime
    /\ c.expires > c.notBefore
    /\ Lifetime(c) <= MaxLifetime

Mintable(c) ==
    /\ c.conference # NoText /\ c.role # NoText
    /\ \A text \in Fields(c) : TextBytes[text] <= MaxFieldBytes
    /\ c.notBefore # NoTime /\ c.expires # NoTime
    /\ c.expires > c.notBefore
    /\ Lifetime(c) <= MaxLifetime

\* time.Time.Unix, and time.Unix back.
Unix(t)   == t \div TicksPerSecond
AtUnix(s) == s * TicksPerSecond

Encode(c) ==
    [version |-> Version, conference |-> c.conference, subject |-> c.subject,
     role |-> c.role, notBefore |-> Unix(c.notBefore),
     expires |-> Unix(c.expires), fits |-> TRUE]

PayloadBytes(c) ==
    1 + (2 + TextBytes[c.conference]) + (2 + TextBytes[c.subject])
      + (2 + TextBytes[c.role]) + 16

\* base64url without padding spends a character on every six bits.
TokenBytes(c) == (8 * (PayloadBytes(c) + MacBytes) + 5) \div 6

\* What Issue answers with for claims that are Mintable.
Mint(key, c) ==
    [bytes |-> TokenBytes(c), framed |-> TRUE, key |-> key, payload |-> Encode(c)]

-----------------------------------------------------------------------------
(* Verify. *)

Unreadable(payload) ==
    \/ ~payload.fits
    \/ \E text \in Fields(payload) : TextBytes[text] > MaxFieldBytes

\* Mutant: whichever conference the credential names is the one entered.
VerifyAnyConference(key, token, conference, now) ==
    IF conference = NoText THEN "no conference"
    ELSE IF token.bytes > MaxTokenBytes \/ ~token.framed THEN "malformed"
    ELSE IF token.key # key THEN "signature"
    ELSE IF token.payload.version # Version THEN "unknown version"
    ELSE IF Unreadable(token.payload) THEN "malformed"
    ELSE IF now < AtUnix(token.payload.notBefore) THEN "not yet valid"
    ELSE IF now > AtUnix(token.payload.expires) THEN "expired"
    ELSE "valid"

\* The first refusal, in the order the checks run. A token that is not
\* framed is not base64url, or too short to hold a signature.
Verify(key, token, conference, now) ==
    IF conference = NoText THEN "no conference"
    ELSE IF token.bytes > MaxTokenBytes \/ ~token.framed THEN "malformed"
    ELSE IF token.key # key THEN "signature"
    ELSE IF token.payload.version # Version THEN "unknown version"
    ELSE IF Unreadable(token.payload) THEN "malformed"
    ELSE IF token.payload.conference # conference THEN "wrong conference"
    ELSE IF now < AtUnix(token.payload.notBefore) THEN "not yet valid"
    ELSE IF now > AtUnix(token.payload.expires) THEN "expired"
    ELSE "valid"

-----------------------------------------------------------------------------
(* What a credential is worth. *)

\* What was asked for, as it is kept: from the beginning of the second its
\* window opens in to the beginning of the second it closes in.
WindowKept(c, now) == AtUnix(Unix(c.notBefore)) <= now /\ now <= AtUnix(Unix(c.expires))

\* Whatever is minted is read again, in its conference, throughout its window
\* and at no other moment: nothing Issue accepts is too long for Verify.
OpensItsDoor(key, c, now) ==
    Mintable(c) =>
        (Verify(key, Mint(key, c), c.conference, now) = "valid" <=> WindowKept(c, now))
=============================================================================
