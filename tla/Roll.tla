-------------------------------- MODULE Roll --------------------------------
(***************************************************************************)
(* The pages of internal/presence: what a Roll answers a request for the   *)
(* full list with. Participants are their identifiers, and those are       *)
(* numbers in the order the roll keeps them in; zero is the empty cursor.  *)
(***************************************************************************)
EXTENDS FiniteSets, FiniteSetsExt, Envelope

CONSTANTS
    People,
    EntryBytes,     \* per participant, what its entry encodes to
    CursorBytes,    \* per participant, what its identifier adds as a cursor
    PageFrame,      \* what a page with no entry encodes to
    MaxPage

ASSUME RollAssumption ==
    /\ People \subseteq Nat \ {0} /\ IsFiniteSet(People)
    /\ EntryBytes \in [People -> Nat] /\ CursorBytes \in [People -> Nat]
    /\ PageFrame \in Nat /\ MaxPage \in Nat \ {0}

\* The first so many of them.
Front(ids, n) == {p \in ids : Cardinality({q \in ids : q < p}) < n}

\* Mutant: the one the cursor names is behind it too.
BehindOrAt(roll, after) == {p \in roll : p >= after}

\* sort.Search: the entries behind the cursor, whether or not the one it names
\* is still there.
Behind(roll, after) == {p \in roll : p > after}

\* Mutant: no cursor where the rest would have fitted by its number.
CursorAtTheSize(entries, rest) ==
    IF entries = {} \/ Cardinality(rest) <= MaxPage THEN 0 ELSE Max(entries)

\* cursorAt: none on the last page.
CursorAt(entries, rest) == IF entries = rest THEN 0 ELSE Max(entries)

EntriesBytes(entries) ==
    Cardinality(UNION {{p} \X (1..EntryBytes[p]) : p \in entries})

TypePage == [copied |-> 13, separators |-> 0, invalid |-> 0]

\* A page as one envelope.
PageMessage(entries, next) ==
    [type |-> TypePage,
     data |-> [tight |-> PageFrame + EntriesBytes(entries)
                         + (IF next = 0 THEN 0 ELSE CursorBytes[next]),
               spaces |-> 0]]

\* What Encode answers for it; the type is well below its limit.
Sendable(entries, next) == Fitting(PageMessage(entries, next))

Fits(entries, rest) == Sendable(entries, CursorAt(entries, rest))

\* What a request names: a roll, the cursor it goes on from and a size.
Requests == (SUBSET People) \X (People \cup {0}) \X (1..MaxPage)

\* Mutant: the page is not shortened for its bytes.
UnshortenedPage ==
    [asked \in Requests |->
        LET rest == Behind(asked[1], asked[2])
            page == Front(rest, asked[3]) IN
        [refused |-> page # {} /\ ~Fits(page, rest),
         entries |-> page, next |-> CursorAt(page, rest)]]

\* The longest front of what is behind the cursor that can be sent, of at
\* most size entries. One entry that cannot be sent alone is refused.
Page ==
    [asked \in Requests |->
        LET rest == Behind(asked[1], asked[2])
            longest == Cardinality(Front(rest, asked[3]))
            sent == {n \in 1..longest : n = 1 \/ Fits(Front(rest, n), rest)}
            page == IF sent = {} THEN {} ELSE Front(rest, Max(sent)) IN
        [refused |-> Cardinality(page) = 1 /\ ~Fits(page, rest),
         entries |-> page, next |-> CursorAt(page, rest)]]
=============================================================================
