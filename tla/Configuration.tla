--------------------------- MODULE Configuration ---------------------------
(***************************************************************************)
(* One configuration file, judged: internal/config/config.go. Of the nine  *)
(* keys the four that say how the pool may grow are modelled; the others   *)
(* are judged each on its own, and a file is plain or it is not in them.   *)
(***************************************************************************)
EXTENDS Integers, Sequences

CONSTANTS
    Machines,   \* names an operator may list
    Blank,      \* a listed name with nothing in it
    Absent      \* a key the file does not have

DriverNone   == "none"
DriverListed == "listed"
Drivers == {DriverNone, DriverListed}

\* Every value has been read: a port that is not a number is not plain.
Defaults == [minimum |-> 1, maximum |-> 1, driver |-> DriverNone, machines |-> <<>>]

Chosen(value, default) == IF value = Absent THEN default ELSE value

Read(file) ==
    [minimum  |-> Chosen(file.minimum, Defaults.minimum),
     maximum  |-> Chosen(file.maximum, Defaults.maximum),
     driver   |-> Chosen(file.driver, Defaults.driver),
     machines |-> Chosen(file.machines, Defaults.machines)]

\* Mutant: a listed driver with nothing listed is let through.
ValidWithoutMachines(s) ==
    /\ s.minimum >= 1
    /\ s.maximum >= s.minimum
    /\ s.driver \in Drivers
    /\ \A i \in DOMAIN s.machines : s.machines[i] # Blank
    /\ s.driver = DriverNone => s.machines = <<>>

Valid(s) ==
    /\ s.minimum >= 1
    /\ s.maximum >= s.minimum
    /\ s.driver \in Drivers
    /\ \A i \in DOMAIN s.machines : s.machines[i] # Blank
    /\ s.driver = DriverNone <=> s.machines = <<>>

\* Every other value is one its key can hold, the readers' refusals among them.
Plain(file) == file.plain

\* Load answers with settings or refuses the whole file.
Accepts(file) ==
    /\ file.object      \* one JSON object and nothing after it
    /\ ~file.unknown    \* no member that is not a key
    /\ Plain(file)
    /\ Valid(Read(file))
=============================================================================
