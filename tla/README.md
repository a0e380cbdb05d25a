# A verification project for hoersaal's control plane

This directory holds TLA+ models of hoersaal's control plane, the TLC
configurations that check them on small instances, and proofs that the TLA+
proof system checks for every value of the constants. Every definition is
translated from the source under `internal/`; `PROJECT.json` names the lines
each one stands for.

1. [What hoersaal is](#what-hoersaal-is)
2. [Inventory](#inventory)
3. [The modules and the code](#the-modules-and-the-code)
4. [The runs](#the-runs)
5. [Fairness, and where a system may stop](#fairness-and-where-a-system-may-stop)
6. [What is proved](#what-is-proved)
7. [Where the code and its words disagree](#where-the-code-and-its-words-disagree)
8. [What is not modelled](#what-is-not-modelled)
9. [Plan](#plan)

## What hoersaal is

hoersaal places the participants of large audio rooms onto forwarding units and
keeps account of them. At this commit it is a set of libraries: `cmd/hoersaal`
reads a configuration, prints a report and exits, and nothing yet runs the pool,
the admission desk, the presence fan-out or a session. There is no server, no
control loop (`docs/design/scaling-loop.md` is a design) and nothing is stored.

So no caller exists to be modelled. Each model leaves the caller as free as the
exported methods and their comments leave it: methods are called in any order,
from as many goroutines as the type says it is safe for, and where a comment
asks something of the caller (that it sweeps, that it takes a summary when one
is due) the model says so where it is assumed.

## Inventory

| part | source | state it keeps | operations | hard because | correct when |
|---|---|---|---|---|---|
| pool of units | `pool/pool.go` | a row per unit: state, cause, reachable, healthy, reported and committed load, time of the last answer, port; the order of entry | `Request`, `Listed`, `Started`, `Register`, `Drain`, `Retire`, `Reachable`, `Healthy`, `Report`, `Commit`, `Collect`, `Sweep`, `View` | three inputs arrive in any order; `Collect` lets its lock go while it asks each unit; ages at the bound | only a registered, reachable, healthy unit admits; gone is final; no commitment is counted twice; a silent unit leaves |
| outbound queue | `wire/send.go` | a bounded channel, `stop` and `done`, `sync.Once`, the reason, a connection | `Send`, `Close`, `Done`, `Err`; the goroutines `run`, `drain`, `write` | every pair of channel operations races; a write can outlive its timeout | one write at a time, in order, no gap; a deliberate close sends what was promised; the first reason stays; a stop stops |
| placer | `placement/placement.go` | none: a policy over two records | `PlaceConference`, `PlaceParticipant`, `NewPool`, `NewConference` | ties, loads at the ceiling, a conference at its ceiling, two refusals that mean different things | the best unit whatever the order; a second unit last; the refusal tells whether growing helps |
| admission desk | `admission/admission.go` | the outstanding admissions with their deadlines | `Admit`, `Arrived`, `Sweep` | concurrent calls; the clock is read outside the lock; a unit may do what it was asked and its answer be lost | an admission ends once; a refusal leaves nothing; only a permitted role publishes |
| conference aggregate | `domain/domain.go` | admitted participants, published sources, subscriptions | `Admit`, `Publish`, `Subscribe`, `Reception`, the counts | callers hold copies of sources that may differ from what the conference holds | what is received was subscribed to and exists |
| media port and fake units | `mediaport/mediaport.go`, `mediafake/mediafake.go` | per unit: alive, conferences, members, sources, receptions, links, losses not yet told, fault streams | the port's operations, `Die`, `Restart`, `Fail` of the double, the reader's side of a stream and its `Stop` | units die and restart between any two calls; a slow reader; a loss is told once | belief is right or corrected next; nothing outlives its conference; a broken stream says so |
| presence | `presence/presence.go` | the emitter: pending, sent, the moment of the last summary; a roll is rebuilt for each page | `Note`, `Due`, `Take`, `Wait`, `Page` | the list moves while a client pages through it; a page shortened until it fits | no change untold, summaries bounded by time; a walk gives everybody who stayed, once, and ends |
| configuration | `config/config.go` | none: one file, judged | `Load` | keys judged together; two packages judge the same list | what loads can be opened |
| provisioning | `provision/provision.go`, `provisionfake/provisionfake.go` | the machines held, the moment each appears | `Open`, `Ask`, `Exists`, `Remove` | a machine given back and handed out again under one name; give-backs repeated | what is paid for can be counted; a machine handed out is usable |
| room credentials | `roomcred/roomcred.go` | a key and a clock | `Issue`, `Verify` | a window kept in whole seconds; limits on both ends that have to agree | what is minted opens its room in its window, and nothing else does |
| signalling envelope | `wire/wire.go` | none | `Decode`, `Encode` | texts that change their length between the two | what is encoded reads back; what decodes can be encoded |
| self-check, command | `selfcheck/selfcheck.go`, `cmd/hoersaal` | none | `Run`, `Ready` | nothing | a step not run does not count as passed |
| clock, secrets, randomness | `clock`, `secret`, `random` | a test clock's waiters | `Now`, `After`, `Advance`, `Reveal` | nothing | - |
| repository gates | `arch`, `boundary`, `coverage`, `doclint`, `guard`, `invariant`, `prhygiene`, `srcheader`, `textbytes`, their commands | none | read the repository and report | nothing of the service | - |

How they meet:

- the caller hands `pool.View` and a conference record to the **placer**, and
  `Commit`s the answer to the **pool** afterwards, by when the view is old, since
  nothing is locked over the three;
- the **desk** verifies a **credential**, asks the **placer**, then tells one
  unit over the **port**, and makes the admission outstanding;
- the **pool** asks every registered unit its capacity over the **port**;
- the **conference** says what a participant receives, and the **port**'s
  `SetReception` is handed exactly that;
- **config** says which **driver** is opened; what a driver hands out enters the
  **pool**, and goes back when its unit is gone;
- a **presence** page is as long as one **envelope** allows; what is sent to a
  client goes through its **outbound queue**.

The hazards, each at the line where it bites, are in `PROJECT.json` with the
properties that cover it.

## The modules and the code

Names follow the source: an action is called after the method it is, and a
method whose lock is let go in between is as many actions as it has critical
sections. A call the code refuses without a change is no action: its refusals
are the guards.

| module | models | notes |
|---|---|---|
| `UnitLifecycle` | what the pool promises of a unit, said without rows, locks or clock | abstract specification |
| `Pool` | `pool.go`, one action per method; `CollectBegin`, `CollectAnswer` / `CollectUnanswered`, `CollectRecord` for the steps of `Collect` | implements `UnitLifecycle` |
| `PoolHistory` | `Pool` with what happened outside the lock remembered | every step of `Pool`, nothing else |
| `PoolProofs` | the theorems about `Pool` | |
| `PoolHistoryProofs` | the theorems about `PoolHistory` | uses those about `Pool` |
| `Outbox` | what one client's outbound side promises | abstract specification |
| `Sender` | `send.go`: each channel operation, critical section and connection call is a step of `Send`, `Close`, `run`, `drain`, `write` or `finish` | implements `Outbox` |
| `SenderProofs` | the theorems about `Sender` | |
| `Placer` | who is eligible, who is preferred, the lowest row, and the two placements, as operators | shared by `Placing` and `Admission` |
| `Placing` | joins that read `View`, ask the placer and `Commit` its answer while the pool moves on | composes `Pool` and `Placer` |
| `PlacingProofs` | the theorems about `Placer` and `Placing` | uses those about `Pool` |
| `Credential` | `Issue` and `Verify` over texts with a length, keys and instants | shared by `Admission` and its proofs |
| `Admission` | `Admit` in four steps, `Arrived`, `Sweep` in two, and the units around them | uses `Placer` and `Credential` |
| `AdmissionProofs` | the theorems about `Credential` and `Admission` | |
| `Conference` | `Admit`, `Publish`, `Subscribe` | |
| `Fabric` | every operation of a fake unit, its death, restart and fault streams | |
| `Room` | `Conference` and `Fabric` with the caller that carries receptions from one to the other | composes the two |
| `RoomProofs` | the theorems about `Conference`, `Fabric` and `Room` | |
| `Envelope` | `Decode` and `Encode` over texts by the bytes they take when held and when written | shared by `Relay` and `Roll` |
| `Relay` | a service that writes on what it read | |
| `Roll` | a roll's pages: entries after the cursor, shortened until `Encode` accepts them | uses `Envelope`; a page as a function of what is asked |
| `Emitter` | when a summary may be taken | |
| `Presence` | a room that changes and attends to some, an `Emitter` with the summary it leads to, a client walking a `Roll` | composes the two |
| `PresenceProofs` | the theorems about `Envelope`, `Roll`, `Emitter` and `Presence` | |
| `Configuration` | the keys that say how the pool may grow, read and judged together | |
| `Provision` | `None`, `Listed`, and the doubles `Slow` and `Failing` | extends `Configuration` |
| `Fleet` | a driver and `Pool` with the caller between them | composes `Configuration`, `Provision`, `Pool` |
| `FleetProofs` | the theorems about `Configuration`, `Provision` and `Fleet` | uses those about `Pool` |

What each abstracts:

- **Pool.** Times are kept as ages, capped at `AgeCap`, above every bound swept
  with. A signed proof covers a key, a unit and a whole second of Unix time, so
  that one made at any moment of a second verifies for every other moment of it;
  where in a second now lies is a choice (`Phases`). How far ago the stated moment is
  is computed with the saturation and the negation of `time.Duration`, narrowed to
  `MaxDuration`. A caller's free-text cause is one
  value; the pool's own causes are apart from it.
- **PoolHistory.** `moments` remembers what was committed at every moment up to now. The
  number a caller hands `Report` is as old as one of them, since the caller got it
  outside the lock; `ReportsAtOnce` makes it new, in the two runs whose counterexamples
  are not about that.
- **Sender.** The messages are never looked at, so the k-th message accepted is
  the number k and the queue is two counters. A `Write` may succeed, fail or
  never come back; one given up on may still succeed while the connection is
  open. The timeout races the answer because `select` chooses either.
- **Placing.** Of the pool's methods those are left that change a view of
  registered units: `Commit`, `Report`, `Drain`, `Retire`. A placement costs one.
- **Credential.** A text is a value with a length in bytes, an instant a number
  of ticks, `TicksPerSecond` of them in a second, and a signature is who signed
  what. A token is its length, its frame, its key and its payload; a payload that
  cannot be parsed is one that does not fit.
- **Admission.** A request is what `Admit` decides on: readable, its token,
  publishing, offers in order. A room record is what its caller saw of the pool. A
  grant's age counts up to `Window`. That nobody signs without the key is the
  assumption `Unforgeable` on the messages that arrive.
- **Envelope.** A text is how many of its bytes `encoding/json` copies, how many line
  separators it holds (three bytes held, six written) and how many bytes that are not
  UTF-8 (one held, three after `Decode`, six written). A payload is its bytes
  and the white space that writing it on drops. That a value is well-formed JSON is
  given with the frame.
- **Fabric.** One lock covers all units, so an operation is one step. The knobs
  that make a fake unit refuse are the freedom not to act. `believed` is what
  the one control plane was last told, and is what `ErrLost` corrects.
- **Presence.** Entries and cursors have sizes instead of text. Time is whole
  ticks since the last summary, up to the window. Whom the room attends to is kept
  apart from who is in it, as the caller of `NewRoll` keeps it. How many summaries could
  not be built since the last the client received is remembered up to `RevisionCap`, and
  how long a noted change has been waiting for one it received up to a tick past the window.
- **Fleet.** A machine and its unit have one name, as a `provision.Handle` and a
  `placement.UnitID` share one. A machine is given back whatever the pool says of its
  unit, and again at any time, also after its name was handed out once more
  (`GiveBackAgain`). Collecting and sweeping are `Pool`'s own matter and left to its
  runs.

Operators preceded by a comment *Mutant:* are plausible mistakes in the
definition that follows them. `PROJECT.json` pairs each property of the passing
runs with one: put in place of the definition, TLC finds the property violated.

## The runs

| run | instance | distinct states |
|---|---|---|
| `pool` | two units, one `Collect`, one load, one bound | 428,833 |
| `pool_history` | one unit, two overlapping `Collect`s, reports of any age, two keys, two ticks to a second, proofs from four ticks ahead to three ago around a `time.Duration` of two | 1,082,977 |
| `pool_early_sweep`, `pool_gap` | one unit, one `Collect` | counterexample |
| `sender` | two senders, two closers, a queue of two, four messages | 81,262 |
| `sender_late_send` | one sender, one closer | counterexample |
| `placing` | two joins, three units, ceilings of 1 and 2, commitments and reports that cross the eligible load | 63,771 |
| `admission` | two calls, two sweeps, two units, eight room records, twelve claims, two ticks to a second | 348,652 |
| `room` | one conference, two people, three differing copies of one source, two units, one stream | 1,260,538 |
| `presence` | three participants, one too large to send and one too large with its cursor, two who may be attended to and one who is named, window of two ticks | 331,278 |
| `fleet` | two machines, every file with the four keys near an edge | 195,868 |
| `relay` | types of every sort of byte, frames from one byte too long to three too short | counterexample |

What they show, and why the bounds are enough:

- **`pool`** checks the types, `AdmittingIsVerified`, `CauseTold`,
  `GoneIsFinal`, that the rows implement `UnitLifecycle`, and that a silent unit
  leaves. No property relates more than two units, and units meet only in the
  order a `Collect` asks them and in one `Sweep` that retires several; two are
  enough for both. One age above the bound is enough since no bound tells
  larger ages apart. The safety properties are also proved for every value.
- **`pool_history`** needs one unit, because what it compares is that unit's row
  with what was committed to it, and two `Collect`s, because one cannot record
  out of order. `MaxCommitted` and `MaxGiven` let commitments fall before, inside and
  after a gap, and reports of numbers from before, between and after them. Offsets reach
  past both ends of `time.Duration`, so that the saturation and the negation that
  overflows happen, and proofs of another moment of the same second and of the next.
- **`sender`**: with a queue of two and four messages it fills, overflows,
  empties and has one write on its way; two senders and two closers are every
  pair that can meet in `sync.Once`.
- **`placing`** checks that joins placing on one view at once take a unit over the
  eligible load, and a conference over its ceiling, by no more than there are
  joins in flight (`OvershootIsBounded`, `CeilingOvershootIsBounded`), and in every
  pool they reach that the answer does not depend on the order of the rows
  (`OrderDoesNotMatter`), that a second unit is the last resort, and that the two
  refusals send a caller the right way. Three units are a best, a second best and
  one that is not eligible; two joins are a race, and they are a symmetry set, the
  run having no liveness property. `MaxCommitted` is above what two joins commit before
  a report, so the bound refuses nothing.
- **`admission`**: two calls race for one unit, two sweeps for one admission. The
  eight rooms make every verdict happen. With two ticks to a second, windows open and close
  on a second and between two, and a unit is asked on a credential that opens only later in
  that second; texts are at the longest, one longer, and empty, and
  one window is longer than may be asked for.
- **`room`**: the copies of the source differ in layers and in publisher, which is
  all that subscriptions and units look at. Units are interchangeable, so they are a
  symmetry set; the run has no liveness property.
- **`presence`**: the first participant fits everywhere; the second fits alone, and on a
  last page after the first, and not with its cursor; the third fits nowhere. A summary
  names one of two: naming the first it fits, as it does when both are attended to, and
  naming the third it does not, so that summaries are sent, cut short and refused. Somebody
  attended to may leave, and then there is no roll. The window and the stretch are long
  enough for two summaries and short enough for one.
- **`fleet`**: two machines can be listed, listed twice or listed with a blank. Each may be
  given back before its unit is gone or before it was entered, handed out again under the
  same name, and given back once more by whoever had it first.
- **`relay`**: the frames lie around the size at which the answer changes, and the types
  are made of each sort of byte alone and mixed.

## Fairness, and where a system may stop

Nothing is assumed of a caller but what a comment asks of it.

- `pool`: time passes, and the caller sweeps with every bound it uses whenever
  that would retire something. The comment on `Collect` asks for it. No unit is
  assumed to answer.
- `sender`: a goroutine inside `finish` and the goroutine running `run` go on
  when they can, and a running timeout expires. That is the Go scheduler and the
  clock. Nobody has to call `Send` or `Close`; a `Write` need never return.
- `admission`: a call that was made goes on and a unit answers somehow (the port
  turns silence into `ErrUnavailable`), time passes, the desk is swept.
- `presence`: a client that has begun to walk asks for its next page, and is
  answered, with a page or that there is none (one condition, since it is one request).
  That a walk ends is checked while participants join, leave and are attended to; there
  are finitely many, so that a walk whose list goes on growing behind its cursor for ever is
  not spoken of. The emitter has no liveness
  property and needs no fairness: `LagIsBounded` is about a caller that schedules
  against `Wait`, so time is not let past a moment at which `Wait` is over: what is shown is
  that `Take` yields then, and that the change is in a summary in time or one was refused.

`CHECK_DEADLOCK FALSE` is in the configurations of two modules. A stopped `Sender`
has ended; and in `fleet`, once the configuration is refused or every unit is
gone and given back, no call changes anything.

## What is proved

Every safety and action property of the passing runs is also a theorem, for every value
of the constants its module's assumptions allow. Each comes from an inductive
invariant, which the sections below give with the reason its parts are needed.
The assumptions are named where the constants are declared, TLC evaluates each on a
run, and but for `Unforgeable`
nothing else is assumed.

| run's property | theorem |
|---|---|
| `Pool!TypeOK`, `AdmittingIsVerified`, `CauseTold`, `GoneIsFinal`, `LifeSpec` | `TypeCorrect`, `OnlyVerifiedUnitsAdmit`, `EveryDepartureIsExplained`, `GoneForGood`, `PoolImplementsLife` |
| `NeverCountedTwice`, `LostOnlyToAnEarlierAnswer`, `AdmittedOnARecentProof` | `NoPlacementCountsTwice`, `CommitmentsAreLostToEarlierAnswersOnly`, `RegistrationIsRecent` |
| `Sender!TypeOK`, `OneWriteAtATime`, `PromiseKept`, `OutboxSpec` | `TypeCorrect`, `WritesOneAtATime`, `PromisesAreKept`, `SenderImplementsOutbox` |
| `OvershootIsBounded`, `CeilingOvershootIsBounded`, `OrderDoesNotMatter`, `SecondUnitIsTheLastResort`, `GrowingHelpsUnlessAtTheCeiling` | `OvershootHasABound`, `CeilingOvershootHasABound`, `InstancesAgree`, `AnotherUnitComesLast`, `RefusalsSayWhatHelps` |
| `EndsOnce`, `RefusalLeavesNothing`, `UnitsHoldWhatWasAllowed`, `CredentialsOpenTheirDoor`, `AskedOnACredential` | `GrantsEndOnce`, `RefusalsLeaveNothing`, `UnitsHoldTheAllowed`, `CredentialsOpen`, `AskedOnly` |
| `Room!TypeOK`, `BeliefIsRightOrToBeTold`, `NothingOutlivesItsConference`, `SentIsSubscribed`, `SubscribedIsServable`, `MissedMeansBroken` | `TypeCorrect`, `LossesAreToldOnce`, `ClosedIsEmpty`, `SendsWhatWasAskedFor`, `ReceptionsAreServable`, `NoSilentGap` |
| `NothingIsDropped`, `LagIsBounded`, `SummariesAreBoundedByTime`, `WalkMissesNobody`, `StopsOnlyAtWhatDoesNotFit` | `ChangesShow`, `ChangesAreTimely`, `TimeBoundsSummaries`, `WalkIsComplete`, `WalkStopsWhereItMust` |
| `LoadedOpensUnlessListedTwice`, `CountIsWhatExists`, `OnlyAReusedNameIsMistaken` | `JudgesAgreeUnlessListedTwice`, `PaidForIsHeld`, `HandOutsAreToldApart` |

Only model-checked: the four liveness properties, `SilentUnitsLeave`, `StopEnds`,
`AdmissionsEnd` and `WalkEnds`, because fairness and `ENABLED` are beyond the prover. Of
`WalkEnds` the half that is safety is proved: every page ends the walk or takes its cursor
on (`PagesMoveOn`), however the roll moved since the last, so that a walk has no
more pages than there are participants, and one.

### The pool

For every set of units, `Collect`s, loads, bounds, keys and proof offsets, from
`PoolAssumption` (loads are natural numbers, bounds are positive and below `AgeCap`, the
pool's own causes are not a caller's, the operator's key is a key, `MaxProofAge` is below
the largest duration, a second has ticks). `AdmittingIsVerified` is not inductive. `Register` looks at the
reachability verdict only, so that an admitting unit is healthy has to come from the fact
that one heard unhealthy is already gone (`UnhealthyIsGone`), which in turn
needs that an identifier with no row is blank (`AbsentIsBlank`), or `Enter` could
make a row of one. That a unit a `Collect` asks holds a port needs that
ports are given with admission and never taken (`AnsweringIsRegistered`):

    PoolInv == TypeOK /\ AdmittingIsVerified /\ UnhealthyIsGone /\ CauseTold
               /\ AnsweringIsRegistered /\ AbsentIsBlank /\ CollectsAskRegistered

`TypeStep` and `PoolInvStep` go through the actions one by one. `GoneForGood` and
`PoolImplementsLife` use the type invariant and one step per action: each move of a row is
the abstract move it is named for, a `Sweep` is `End` of all it retires at once, and
what touches loads, ages or a `Collect` is a stutter.

`PoolHistoryProofs` first shows that the history only remembers
(`HistoryImplementsPool`), so that `PoolInv` holds in it, and adds

    HistoryInv == HistoryTypeOK /\ EnteredOnce /\ MomentsAreOld /\ CarriedIsOld
                  /\ RowIsCovered

`MomentsAreOld` is that no moment remembered is later than now; `RowIsCovered`, that a
row's two numbers stand for no more than was committed:
`mark[u] + committed[u] <= given[u]`, which gives `NeverCountedTwice`. Recording an answer
keeps it only if the answer was made no later than now (`CarriedIsOld`), and that speaks of
one unit only if at most one is the next a `Collect` records (`EnteredOnce`).
`NumbersStep` says that a step commits, takes an answer, or leaves the numbers alone, and
`LostStep` reads `LostOnlyToAnEarlierAnswer` off that. `FarAheadIsNear` follows the
saturation and negation of `ProofAge` and says exactly which moments `Register` takes for
near: those within `MaxProofAge` of now, and every one the whole of `time.Duration` ahead
or more (see below). `WithinTheSecond` is that two moments of one second are less than one
apart. `RegistrationIsRecent` puts the two together and has no hypotheses of its own.

### The outbound queue

For every set of senders and closers, every capacity, from `SenderAssumption`
(no goroutine is in two sets, the capacity is positive):

    SenderInv == TypeOK /\ WritesTheLast /\ OnceIsOnce /\ EndsForCause

`WritesTheLast` ties three variables together at each place of the writer: only the last
message taken may be inside a `Write`, and what was delivered is what was taken but for
that one. It gives `OneWriteAtATime`, and makes `Deliver` of `Outbox` the message that is
next; a write given up on may still be on its way, but then the writer is where it takes
nothing any more. `EndsForCause` is how `PromiseKept` comes about: the writer leaves for a fault of its own, or on `stop` with a reason, or with what was
promised delivered. `OnceIsOnce` is that of all goroutines in `finish` one at most is inside
the `sync.Once`, so that `stop` is closed once. `SenderImplementsOutbox` has one step per
action: `SendAccept` is `Accept`, a `Write` that succeeds is `Deliver`, closing the
connection is `Disconnect`, and everything else is a stutter.

### Placing

For every finite set of units and of joins, all loads, ceilings and orders of rows, from
`PlacingAssumption` and `PlacerAssumption`. `Lowest` follows the loop of the code and is
a recursive function. What it computes for every sequence of rows is `LowestIsBest`: the row
that nothing else that fits is preferred to. In place of an induction the proof takes the
smallest round at which the claim would fail (`LeastNatural`), and `RoundKeepsTheBest`
refutes it. From there `AnswersReadTheSet` says that the placer's answers are a function of
the *set* of rows; `ViewLists` and `ShuffleLists` that `View` and each of its
shuffles list one set. The three properties of the answers follow in every pool.

    PlacingInv == TypeOK /\ PlacingTypeOK /\ LoadCovered /\ CeilingCovered

`OvershootIsBounded` is not inductive, since a join that has chosen and not yet committed
is in no load. `LoadCovered` counts it: what is committed to a unit and what is about to
be are together below the eligible load and the joins, or all there is was
committed since the last report, which may itself put a unit over the ceiling.
`CeilingCovered` counts the joins about to take the conference to a unit it is not on.

### The admission desk

For every key, length of text, number of ticks to a second and clock, from
`CredentialAssumption` (lengths are natural numbers, a second has ticks, the empty text is
empty):

- `MintedOpensItsDoor`: what `Issue` accepts, `Verify` accepts at every instant of
  its window as kept and at no other, in its conference. The lemma `MintedFits`
  shows the three limits agree: three fields of 128 bytes make a token of 586
  characters at most, under the 1024 that are read.
- `AcceptedWasAskedFor`: where a minted credential is accepted the conference is its
  own, its beginning less than a second ahead and its end not past.

Both rest on `KeptSecond`: an instant is no earlier than the second it is kept
as and less than a second after it.

For every set of calls, Sweeps, units, rooms and requests, from `AdmissionAssumption`:

    DeskInv == TypeOK /\ AnsweredAtTheEnd /\ GrantsAccounted /\ AskingIsAllowed
               /\ HeldWasAdmitted /\ UnitsHoldWhatWasAllowed

`EndsOnce` speaks of granted calls; that `Grant` makes one outstanding that was never
counted needs that the accounts of every other call are zero (`GrantsAccounted`), and that a
call that has not ended has no answer (`AnsweredAtTheEnd`). `RefusalLeavesNothing` needs
that whoever a unit holds was past the asking (`HeldWasAdmitted`): an error ends only calls
that are asking, which hold nobody. `UnitsHoldWhatWasAllowed` needs that the role was
judged before the unit was asked (`AskingIsAllowed`). `CredentialsOpen` comes from
`MintedOpensItsDoor`. `AskedOnly` comes from `AcceptedWasAskedFor` and `Unforgeable`, the
one assumption about cryptography: a frame signed with the operator's key and of this
version is one that was issued.

### The room

For every set of units, conferences, people, sources and streams, from `RoomAssumption`,
`ConferenceAssumption` and `FabricAssumption` (values have the fields and ranges their
constructors leave them, a buffer holds something):

    RoomInv == HallInv /\ UnitsInv /\ StreamInv

The three parts are of the conference, the units and the streams, and most steps touch one
of them. `SentIsSubscribed` and `SubscribedIsServable` relate two of them, and need what
neither says: that a subscription is of a source the conference holds, by somebody else
than its publisher and to a layer it has (`ArrangementStands`; a subscription is made from a
copy, and `Subscribe` looks at the one held), and that a unit holds only what the conference
published (`HeldIsPublished`), so that one identifier on a unit and in the conference is one
source. `HallStep` says that the conference forgets nothing and replaces a subscription by
one to the same source. `MissedMeansBroken` needs that an open stream is one its unit
delivers to (`OpenIsHeard`), or a dying unit could leave one open.

### Presence and the envelope

For every message, frame and limit, from `EnvelopeAssumption`:

- `EncodedReadsBack`: what `Encode` writes of a message whose type is UTF-8, `Decode` reads
  back, short of the white space of its payload.
- `PlainTypesForward`: what decoded can be encoded, for every frame whose type
  is UTF-8 without line separators. The run `relay` shows that it is false of the others.

For every window, finite set of participants, sizes of entries and cursors and page sizes,
from `RollAssumption`, `WindowAssumption` and `PresenceAssumption`:

    PresenceInv == EmitterInv /\ WalkInv

`LagIsBounded` and `SummariesAreBoundedByTime` are about clocks that run separately.
`LagIsCovered` relates, where no summary was refused since the last the client received,
the age of a waiting change to that of the last summary, and
`StretchIsCovered` that age to the stretch: between its summaries whole windows went by,
and the one that runs is not over when the stretch is. `LongestPage` says what a page is
for every request, however it was shortened: the first of what is behind the cursor, all
of it or up to the one the next cursor names, and refused only if it is of one entry that
does not fit. From it comes `WalkIsCovered`: a walk has been given everybody up to its cursor who stayed, and
nobody behind it. `WalkStopsWhereItMust` reads off it which entry a
walk stops at, and `RefusedThoughAPageCarriesIt` gives the pages that differ from what the
code says of that entry (see below).

### The fleet

For every set of machines and files, from `FleetAssumption` (a machine and its unit have
one name, a file lists machines or blanks):

    FleetInv == FleetTypeOK /\ NothingYet /\ Numbered /\ Accounted
                /\ LoadedOpensUnlessListedTwice /\ CountIsWhatExists /\ OnlyAReusedNameIsMistaken

A machine handed out that was never given back is new because the listed driver hands out one it does not hold, and
what the caller has or has entered is held or was given back (`Accounted`); of the double,
because it numbers its machines upwards (`Numbered`); the other drivers hand out none
(`NothingYet`). `FleetImplementsPool` shows that the fleet's steps are the pool's or
leave it alone, so that the theorems about the pool hold of a fleet.

## Where the code and its words disagree

Four runs show a line of the repository that the code does not keep.

1. `pool_early_sweep`: the comment at `pool.go:655` says that `Sweep` retires a
   unit that "has registered and never answered at all for that long". A unit
   that never answered is retired by the next `Sweep`, however long it has been there.
2. `pool_gap`: the comment at `pool.go:293` says the effective load carries every
   commitment since the report. A commitment made between a unit's answer and
   the recording of it is in neither number. The same happens to one made between a
   caller's asking a unit and its `Report`, which takes the lock only then and clears
   what was committed (`pool.go:576`). `LostOnlyToAnEarlierAnswer` shows that these are
   the only two places, and `NeverCountedTwice` that the error has one direction.
3. `sender_late_send`: `send.go:176` says a message that was accepted has been
   promised. A `Send` that passed its check before a `Close` is accepted after
   the queue was drained, and never written. `PromiseKept` is what holds.
4. `relay`: the comment at `wire.go:208` says that anything that decoded can be encoded.
   Only the escaping for HTML is off: a line separator in a type is written as six bytes
   where it was read as three, and a byte that is not UTF-8 is held as three. A message at
   the size limit with such a type decodes and does not encode.

Noticed while modelling and without a run of their own:

- `pool.go:212` says a machine that comes back registers as a new unit. `Listed` hands a
  machine out again under the one name it has (`provision.go:189`), and the pool never enters
  that name again. `OnlyAReusedNameIsMistaken` shows that a machine given back to `Listed`
  is the only case.
- `roomcred.Issue` keeps a window in whole seconds. A credential is refused from the
  beginning of the second it expires in, and accepted from the beginning of the second
  it begins in; one for 5.2 to 5.8 seconds is minted and good at the instant 5.0 only.
- A credential's conference has at most 128 bytes. Nothing keeps a conference's
  identifier as short, and one with a longer one can have no credential at all.
- While the room attends to somebody who left, `NewRoll` refuses, and there is neither a
  summary nor a page. The change that was `Take`n is not pending any more, and without
  another no summary of it is ever due; the next one's revision shows the gap
  (`NothingIsDropped`, and the exception of `LagIsBounded`).
- `pool.go:513` negates a saturated duration. A moment stated further ahead than
  `time.Duration` reaches (about 292 years) has an age that stays negative, which is not
  above `MaxProofAge`, and is accepted, although `pool.go:131` says `MaxProofAge` bounds it on
  either side of now. The run reaches it, `AdmittedOnARecentProof` spells it out as its one
  exception, and `FarAheadIsNear` proves that it is accepted and that nothing else is.
- A proof is over whole seconds (`pool.go:358`), so that one that was seen can be presented
  again with every other moment of its second, and a moment refused for being a fraction of
  a second too old be stated anew. `AdmittedOnARecentProof` bounds what that gives.
- `presence.go:366` and `docs/decisions/presence.md:120` say that the only entry a page is
  refused for is one too large to be carried under any paging. `Page` refuses the single
  entry it is left with if that does not fit *with its cursor*, although it fits as the last
  there is, and may fit before others on a longer page that needs none. The run reaches
  such an entry, `StopsOnlyAtWhatDoesNotFit` has it as its second case, and
  `RefusedThoughAPageCarriesIt` proves that of two such entries the first is refused where
  one is asked for and both are carried where two are.
- Of two overlapping `Collect`s the one that records last wins, also when its answer is
  the older one.
- When a client is closed deliberately while a write is failing, the first
  reason is the close and the backlog is dropped (`DrainFailed`); `PromiseKept` leaves
  it out by asking that no write failed.
- `run`'s second `select` may take a message although `stop` is closed, and write it
  to a connection that is already closed. The write fails and the reason stays.
- `mediafake` takes down only the restarted unit's own ends of its links, so that one
  `LinkConference` after a restart spans again; `mediaport.go:354` says a link
  ends on both sides.
- `config.Load` accepts a machine listed twice and `provision.NewListed` refuses
  it, although `config.go:172` says nothing downstream checks a value again.
  `LoadedOpensUnlessListedTwice` shows it is the only such case.
- A caller that repeats a `Remove` after the machine was handed out again takes
  it from whoever has it now: a handle says nothing of which time it was handed out. That
  is the other exception of `OnlyAReusedNameIsMistaken`.

## What is not modelled

- **Of the codecs**: the bytes of a credential or an envelope and that a JSON value is
  well formed. A parser is bytes in, value out, and the property and fuzz tests are the
  right tool for it; what its limits promise each other is in `Credential` and `Envelope`.
- **Of the room's caller**: an answer of a unit that is lost after it acted (`believed` changes
  with the call), and units told of sources the conference does not hold, so that two
  never hold different sources under one identifier.
- **Of the modelled parts**: bitrates, participant counts and report times in a
  placement record, which are refused or stored and never decided on; a
  fake unit's `Pause`, which delays an operation before it looks at anything; the
  limits `NewRoll` and `NewEntry` put on names and attendance; five configuration keys
  that are judged each alone.
- **Self-check, command, clock, secrets, randomness**: no state and no
  decision that two steps could disagree about. Four of the self-check's five steps
  answer with constants, so a deployment is never ready, and the command prints that and exits.
  Time is an action of each model that needs it; the test clock is a double for tests.
- **Repository gates, conformance harness, fuzz targets**: development tooling.
- **`internal/mediaunit`**: a package comment; there is no adapter to a real unit yet.

## Plan

Written, in this order, by importance to the service: the pool and its proofs; the
outbound queue; the placer over the pool; admission with its credentials and its proofs; the
room; presence; the fleet; the envelope; and the proofs of each.

In the proofs, next: the safety half of the other liveness properties, as `PagesMoveOn` is
of `WalkEnds` (that every step of a stopped `Sender` brings it nearer to its end), so that
TLC is left with fairness alone; and the deadlines of the admission desk (a grant is not
swept before its window, nor kept past a sweep after it).

In the models, a session of one client, presence summaries and pages through `Sender`,
once a caller that holds one exists to be modelled.
