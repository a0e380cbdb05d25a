-------------------------------- MODULE Fleet --------------------------------
(***************************************************************************)
(* A driver and the pool of Pool, with the caller both packages describe   *)
(* between them: it opens the driver the configuration names, asks for     *)
(* machines, enters each into the pool, tells the pool when a machine is   *)
(* there, and gives machines back. The packages do not fix when it does    *)
(* any of this, so it may at any time: it may give a machine back whose    *)
(* unit still admits, and once more what it has given back before, because *)
(* it tries again or because another part of it does, and the machine may  *)
(* have been handed out again by then.                                     *)
(***************************************************************************)
EXTENDS Pool, Provision

CONSTANT Files  \* the configuration files a deployment starts from

\* What a file lists is a list: any other JSON value is not read.
ASSUME FleetAssumption ==
    /\ UnitIds = Machines
    /\ \A file \in Files : Read(file).machines \in Seq(Machines \cup {Blank})

VARIABLES
    settings,   \* what Load answered, Absent before it did
    handed,     \* the handles the caller has to enter into the pool
    kept,       \* the machines handed out to it that it has not given back since
    paid,       \* its count of them by the answers: handed out less taken back
    returned    \* history: the machines that were ever given back

fleetVars == <<settings, handed, kept, paid, returned>>
allVars == <<vars, driverVars, fleetVars>>

FleetInit ==
    /\ Init /\ DriverInit
    /\ settings = Absent /\ handed = {} /\ kept = {} /\ paid = 0 /\ returned = {}

Start(file) ==
    /\ Accepts(file)
    /\ settings' = Read(file)
    /\ Open(Read(file))
    /\ UNCHANGED <<vars, handed, kept, paid, returned>>

StartWithDouble ==
    /\ \E which \in {"slow", "failing"} : OpenDouble(which)
    /\ UNCHANGED <<vars, fleetVars>>

AskFor(m) ==
    /\ Ask(m)
    /\ handed' = handed \cup {m}
    /\ kept' = kept \cup {m}
    /\ paid' = paid + 1
    /\ UNCHANGED <<vars, settings, returned>>

\* The machine is asked for, or is there already. A refused caller keeps the
\* handle and has no row.
EnterHanded(m) ==
    /\ m \in handed
    /\ Request(m) \/ (driver = DriverListed /\ Listed(m))
    /\ handed' = handed \ {m}
    /\ UNCHANGED <<driverVars, settings, kept, paid, returned>>

Appeared(m) ==
    /\ Exists(m)
    /\ Started(m)
    /\ UNCHANGED <<driverVars, fleetVars>>

\* Whatever the pool says of the unit, and before the handle is entered, too.
GiveBack(m) ==
    /\ m \in kept
    /\ Remove(m)
    /\ kept' = kept \ {m}
    /\ paid' = paid - 1
    /\ returned' = returned \cup {m}
    /\ UNCHANGED <<vars, settings, handed>>

\* Another time, for a hand-out that was given back before.
GiveBackAgain(m) ==
    /\ m \in returned
    /\ Remove(m)
    /\ paid' = paid - 1
    /\ UNCHANGED <<vars, settings, handed, kept, returned>>

UnitLives(u) ==
    /\ \/ \E issued \in ProofOffsets, proof \in Proofs, phase \in Phases :
            Register(u, issued, proof, phase)
       \/ \E why \in AskedCauses : Drain(u, why) \/ Retire(u, why)
       \/ \E ok \in BOOLEAN : Reachable(u, ok) \/ Healthy(u, ok)
    /\ UNCHANGED <<driverVars, fleetVars>>

FleetNext ==
    \/ \E file \in Files : Start(file)
    \/ StartWithDouble
    \/ \E m \in Machines :
        \/ AskFor(m) \/ EnterHanded(m) \/ Appeared(m) \/ UnitLives(m)
        \/ GiveBack(m) \/ GiveBackAgain(m)
    \/ DriverTick /\ UNCHANGED <<vars, fleetVars>>

FleetSpec == FleetInit /\ [][FleetNext]_allVars

-----------------------------------------------------------------------------
\* Two packages judge what the operator wrote, and agree but in one thing:
\* what config.Load accepts provision.Open builds, unless a machine is listed
\* twice.
LoadedOpensUnlessListedTwice ==
    driver = "refused" =>
        \E i, j \in DOMAIN listed : i # j /\ listed[i] = listed[j]

\* The caller can count what it pays for: what it was handed less what was
\* taken back is what Exists reports, whatever it gives back twice.
CountIsWhatExists == paid = Cardinality(inUse)

\* What is in use was handed out and not given back since, and what was handed
\* out and not given back is in use and new to the pool when it is entered;
\* but for a listed machine that was given back before, whose name is handed
\* out again: the pool may have a row for it already, and another give-back of
\* the first hand-out takes it from under the second. The double's names are
\* never handed out again, and nothing of the kind happens to them.
OnlyAReusedNameIsMistaken ==
    /\ inUse \subseteq kept
    /\ \A m \in kept \ inUse : driver = DriverListed /\ m \in returned
    /\ \A m \in handed : Held(m) => driver = DriverListed /\ m \in returned
=============================================================================
