----------------------------- MODULE RelayStore -----------------------------
(***************************************************************************)
(* The relay's registrations on disk (relay-go/main.go): saveLocked writes *)
(* a temporary file, copies the present state file over its backup and     *)
(* renames the temporary file into place; newRelay loads what it finds.    *)
(* One action per file operation of saveLocked, so that the process may    *)
(* die, or the operation fail, between any two.  Saves run under relay.mu, *)
(* hence one at a time.  A record is abstracted to the host it is for.     *)
(*                                                                         *)
(* A crash is the death of the process: what was written stays written.    *)
(***************************************************************************)
EXTENDS Naturals, FiniteSets

CONSTANTS Hosts,       \* the computers that may register
          MaxFaults    \* bound: how often a file operation fails or a file is damaged

ASSUME FaultAssumption == MaxFaults \in Nat

VARIABLES primary, backup, tmp,  \* state.json, state.json.bak, state.json.tmp
          running,               \* whether the process is up
          memory,                \* the keys of state.Hosts
          save,                  \* where saveLocked is
          saving,                \* the host whose registration it saves
          acked,                 \* history: hosts whose registration was answered 200
                                 \* and not found lost when the relay started
          ackedBefore,           \* history: acked, without what the last save added
          faults,                \* how many faults have happened
          damaged                \* history: whether one was damage to the state file

files == <<primary, backup, tmp>>
vars  == <<primary, backup, tmp, running, memory, save, saving, acked,
           ackedBefore, faults, damaged>>

\* A file is missing, or broken (torn or damaged: not the JSON of a state), or
\* whole, with the registrations it holds.
Missing  == [is |-> "missing", hosts |-> {}]
Broken   == [is |-> "broken", hosts |-> {}]
Whole(S) == [is |-> "whole", hosts |-> S]
File     == {Missing, Broken} \cup { Whole(S) : S \in SUBSET Hosts }

SavePoints == {"idle", "truncated", "written", "copying", "copied", "removed"}

Fault == /\ faults < MaxFaults
         /\ faults' = faults + 1

\* newRelay: a broken state file with a broken backup stops the start; when
\* neither file is whole the relay starts with no registration at all.
Startable == primary # Broken \/ backup # Broken
Loaded    == IF primary.is = "whole" THEN primary.hosts ELSE backup.hosts
-----------------------------------------------------------------------------
Init == /\ primary = Missing /\ backup = Missing /\ tmp = Missing
        /\ running = FALSE
        /\ memory = {}
        /\ save = "idle"
        /\ saving \in Hosts
        /\ acked = {} /\ ackedBefore = {}
        /\ faults = 0 /\ damaged = FALSE

Start ==
    /\ ~running
    /\ Startable
    /\ running' = TRUE
    /\ memory' = Loaded
    /\ acked' = acked \cap Loaded
    /\ ackedBefore' = ackedBefore \cap Loaded
    /\ UNCHANGED <<files, save, saving, faults, damaged>>

\* register changes the map before it saves, and keeps the change when saving
\* fails; OpenFile truncates the temporary file.
Register(h) ==
    /\ running /\ save = "idle"
    /\ memory' = memory \cup {h}
    /\ saving' = h
    /\ \/ /\ tmp' = Broken
          /\ save' = "truncated"
          /\ UNCHANGED faults
       \/ /\ Fault
          /\ UNCHANGED <<tmp, save>>
    /\ UNCHANGED <<primary, backup, running, acked, ackedBefore, damaged>>

\* An error return of saveLocked before the state file is touched removes the
\* temporary file and answers 500.
GiveUp == /\ Fault
          /\ tmp' = Missing
          /\ save' = "idle"

\* Wrong: only the new registration is written.
WriteNewOnly ==
    /\ save = "truncated"
    /\ tmp' = Whole({saving})
    /\ save' = "written"
    /\ UNCHANGED <<primary, backup, running, memory, saving, acked, ackedBefore,
                   faults, damaged>>

\* Wrong: the errors of Write, Sync and Close are not looked at.
WriteUnchecked ==
    /\ save = "truncated"
    /\ \/ tmp' = Whole(memory) /\ UNCHANGED faults
       \/ tmp' = Broken /\ Fault
    /\ save' = "written"
    /\ UNCHANGED <<primary, backup, running, memory, saving, acked, ackedBefore,
                   damaged>>

WriteTmp ==
    /\ save = "truncated"
    /\ \/ /\ tmp' = Whole(memory)
          /\ save' = "written"
          /\ UNCHANGED faults
       \/ GiveUp
    /\ UNCHANGED <<primary, backup, running, memory, saving, acked, ackedBefore,
                   damaged>>

\* Wrong: there is no backup.
SkipBackup ==
    /\ save = "written"
    /\ save' = "copied"
    /\ UNCHANGED <<files, running, memory, saving, acked, ackedBefore, faults,
                   damaged>>

\* os.ReadFile takes whatever bytes are there; when it fails, for want of the
\* file or otherwise, the backup is left alone.
ReadPrimary ==
    /\ save = "written"
    /\ \/ /\ primary # Missing
          /\ backup' = Broken
          /\ save' = "copying"
          /\ UNCHANGED faults
       \/ /\ primary = Missing
          /\ save' = "copied"
          /\ UNCHANGED <<backup, faults>>
       \/ /\ primary # Missing
          /\ Fault
          /\ save' = "copied"
          /\ UNCHANGED backup
    /\ UNCHANGED <<primary, tmp, running, memory, saving, acked, ackedBefore,
                   damaged>>

\* The rest of os.WriteFile on the backup, which ReadPrimary left truncated.
WriteBackup ==
    /\ save = "copying"
    /\ \/ /\ backup' = primary
          /\ save' = "copied"
          /\ UNCHANGED <<tmp, faults>>
       \/ GiveUp /\ UNCHANGED backup
    /\ UNCHANGED <<primary, running, memory, saving, acked, ackedBefore, damaged>>

\* The rename succeeds, and register answers 200.
Replace == /\ primary' = tmp
           /\ tmp' = Missing
           /\ save' = "idle"
           /\ ackedBefore' = acked
           /\ acked' = acked \cup {saving}

\* The fallback written for Windows.
RemovePrimary == /\ Fault
                 /\ primary' = Missing
                 /\ save' = "removed"
                 /\ UNCHANGED <<tmp, acked, ackedBefore>>

Rename ==
    /\ save = "copied"
    /\ \/ Replace /\ UNCHANGED faults
       \/ RemovePrimary
       \/ GiveUp /\ UNCHANGED <<primary, acked, ackedBefore>>  \* nor can it be removed
    /\ UNCHANGED <<backup, running, memory, saving, damaged>>

RenameAgain ==
    /\ save = "removed"
    /\ \/ Replace /\ UNCHANGED faults
       \/ /\ Fault
          /\ save' = "idle"
          /\ UNCHANGED <<primary, tmp, acked, ackedBefore>>
    /\ UNCHANGED <<backup, running, memory, saving, damaged>>

Crash ==
    /\ running
    /\ running' = FALSE
    /\ save' = "idle"
    /\ memory' = {}
    /\ UNCHANGED <<files, saving, acked, ackedBefore, faults, damaged>>

\* Something outside the relay damages the state file between two saves, as
\* TestStateRecoveryFromBackup does.
Damage ==
    /\ save = "idle"
    /\ primary.is = "whole"
    /\ Fault
    /\ primary' = Broken
    /\ damaged' = TRUE
    /\ UNCHANGED <<backup, tmp, running, memory, save, saving, acked, ackedBefore>>
-----------------------------------------------------------------------------
Save == WriteTmp \/ ReadPrimary \/ WriteBackup \/ Rename \/ RenameAgain

Next == \/ Start \/ Crash \/ Damage \/ Save
        \/ \E h \in Hosts : Register(h)

Spec == Init /\ [][Next]_vars
-----------------------------------------------------------------------------
\* The relay itself never tears the state file, only its backup and the
\* temporary file.
TypeOK == /\ {primary, backup, tmp} \subseteq File
          /\ ~damaged => primary # Broken
          /\ running \in BOOLEAN
          /\ memory \in SUBSET Hosts
          /\ save \in SavePoints
          /\ saving \in Hosts
          /\ acked \in SUBSET Hosts /\ ackedBefore \in SUBSET acked
          /\ faults \in 0..MaxFaults /\ damaged \in BOOLEAN

\* As long as nobody damages the state file the next process starts, and it
\* knows every registration answered 200, whichever file operation this one
\* died in and whichever one failed.  Two failures are too many: a backup that
\* was not made and a rename that failed leave an older backup alone.
AcknowledgedSurvive ==
    ~damaged => Startable /\ (faults <= 1 => acked \subseteq Loaded)

\* When the state file was damaged at rest, a start from the backup has lost no
\* registration but that of the last save.
DamageCostsOneSave == [][Start /\ faults <= 1 => ackedBefore \subseteq memory']_vars

\* A relay that is down can be started: for a damaged state file there is the
\* backup (docs/ARCHITECTURE_RU.md:9, the registration "is saved atomically
\* with a backup copy"; main_test.go:199, "backup state was not recovered").
AlwaysStartable == ~running => Startable
=============================================================================
