----------------------------- MODULE MCAdmission -----------------------------
(***************************************************************************)
(* Small instances of Admission. The rooms are what a caller may have seen *)
(* of the pool: the unit the conference is on with room, full with another *)
(* unit to spare, full at its ceiling, full with nothing to spare, a room  *)
(* that is not open, no units at all, a unit nobody can reach, and a       *)
(* record that names another conference. Two ticks make a second, and what *)
(* was issued opens and closes on a second and between two.                *)
(***************************************************************************)
EXTENDS Admission

CONSTANTS a1, a2, s1, s2, none, here, elsewhere, listener, speaker, long,
          ours, theirs

MCCalls  == {a1, a2}
MCSweeps == {s1, s2}

Row(u, load) == [id |-> u, load |-> load, state |-> "admitting"]

Room(open, rows, on, ceiling) ==
    [usable |-> TRUE, open |-> open, rows |-> rows, carrying |-> on, ceiling |-> ceiling]

MCRooms ==
    { Room(TRUE, <<Row(1, 0), Row(2, 0)>>, {1}, 2),
      Room(TRUE, <<Row(1, 1), Row(2, 0)>>, {1}, 2),
      Room(TRUE, <<Row(1, 1), Row(2, 0)>>, {1}, 1),
      Room(TRUE, <<Row(1, 1), Row(2, 1)>>, {1}, 2),
      Room(FALSE, <<Row(1, 0)>>, {1}, 2),
      Room(TRUE, <<>>, {}, 1),
      Room(TRUE, <<Row(3, 0)>>, {}, 1),
      [Room(TRUE, <<Row(1, 0)>>, {1}, 1) EXCEPT !.usable = FALSE] }

MCTexts     == {none, here, elsewhere, listener, speaker, long}
MCTextBytes == [t \in MCTexts |-> IF t = none THEN 0
                                  ELSE IF t = long THEN MaxFieldBytes + 1
                                  ELSE MaxFieldBytes]
MCKeyBytes  == [k \in {ours, theirs} |-> MinKeyBytes]

Claim(room, role, from, to) ==
    [conference |-> room, subject |-> none, role |-> role,
     notBefore |-> from, expires |-> to]

Asked == {Claim(here, listener, 0, 3), Claim(here, speaker, 1, 3),
          Claim(here, speaker, 2, 3), Claim(here, speaker, 0, 1),
          Claim(elsewhere, speaker, 0, 3), Claim(long, speaker, 0, 3),
          Claim(here, none, 0, 3), Claim(here, listener, 2, 2),
          Claim(here, listener, 0, NoTime), Claim(here, listener, 0, 5),
          [Claim(here, listener, 1, 2) EXCEPT !.subject = listener],
          [Claim(here, listener, 1, 2) EXCEPT !.subject = long]}

MCIssued == {c \in Asked : Mintable(c)}

Listening == Mint(ours, Claim(here, listener, 0, 3))
Speaking  == Mint(ours, Claim(here, speaker, 2, 3))
\* Begins between two seconds, and opens the door from the first of them.
Early     == Mint(ours, Claim(here, speaker, 1, 3))

Ask(token, publishing) ==
    [readable |-> TRUE, conference |-> here, token |-> token,
     publishing |-> publishing, offersGood |-> TRUE]

MCRequests ==
    {Ask(Listening, p) : p \in BOOLEAN}
    \cup {Ask(Speaking, TRUE), Ask(Early, FALSE)}
    \cup {Ask(t, FALSE) : t \in {Mint(ours, Claim(elsewhere, speaker, 0, 3)),
                                 Mint(theirs, Claim(here, speaker, 0, 3)),
                                 [Listening EXCEPT !.payload.version = 2],
                                 [Listening EXCEPT !.bytes = MaxTokenBytes + 1, !.key = theirs],
                                 [Listening EXCEPT !.framed = FALSE]}}
    \cup {[Ask(Listening, FALSE) EXCEPT !.readable = FALSE],
          [Ask(Listening, FALSE) EXCEPT !.conference = elsewhere],
          [Ask(Speaking, TRUE) EXCEPT !.offersGood = FALSE]}
=============================================================================
