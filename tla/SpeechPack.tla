----------------------------- MODULE SpeechPack -----------------------------
(***************************************************************************)
(* The directories of the speech models and of the speech program, and the *)
(* processes that replace and remove them (install_backend, download_model *)
(* and remove_speech_pack in src/vibeslopik_host/speech.py).               *)
(*                                                                         *)
(* Both are replaced the same way: the new one is put together in a        *)
(* directory of its own (.new), the old one is moved aside (.previous) and  *)
(* the new one moved in.  A step may fail, and the process may end between  *)
(* any two.  Nothing keeps two processes from doing this at the same time.  *)
(*                                                                         *)
(* Abstracted: a directory is whole, broken (some of its files are there,   *)
(* model.bin perhaps among them) or none.  The download itself is external; *)
(* the archive, the checksum file and the download cache are its business.  *)
(***************************************************************************)
EXTENDS Naturals

CONSTANTS Procs,    \* the processes of the command line
          Profiles, \* the speech models
          Pack,     \* the speech program
          MaxFaults \* bound: steps that fail and processes that end at work

\* The constants are as they should be; HostDesk assumes it of its own.
Assumptions == Pack \notin Profiles /\ MaxFaults \in Nat

Items == Profiles \cup {Pack}
Places == {"target", "fresh", "previous"}
Contents == {"none", "broken", "whole"}
Steps == {"idle", "fetching", "verified", "cleared", "aside", "installed", "done", "failed"}

VARIABLES dirs,    \* what is at each place of each item
          job,     \* how far each process is, with which item
          had,     \* history: the items that were installed and not removed since
          shared,  \* history: two processes replaced the same item at the same time
          faults   \* history: steps that failed, processes that ended at work

vars == <<dirs, job, had, shared, faults>>

NoJob == [at |-> "idle", item |-> Pack]
Nothing == [place \in Places |-> "none"]
Installed == [Nothing EXCEPT !["target"] = "whole"]
-----------------------------------------------------------------------------
\* There is no Speech Pack yet, or it is installed with one of the models.
Init == /\ \/ had = {}
           \/ \E profile \in Profiles : had = {Pack, profile}
        /\ dirs = [i \in Items |-> IF i \in had THEN Installed ELSE Nothing]
        /\ job = [p \in Procs |-> NoJob]
        /\ shared = FALSE
        /\ faults = 0

Working(p) == job[p].at \notin {"idle", "done", "failed"}
At(p, step) == job[p].at = step
Goto(p, step) == job' = [job EXCEPT ![p].at = step]
Fault == faults < MaxFaults /\ faults' = faults + 1

\* Moves what is at one place of item i to another.
Move(i, from, to) == dirs' = [dirs EXCEPT ![i][to] = dirs[i][from], ![i][from] = "none"]

\* model_directory and worker_path look for one file; a broken directory may have it.
Ready(i) == IF dirs[i]["target"] = "broken" THEN BOOLEAN ELSE {dirs[i]["target"] = "whole"}
-----------------------------------------------------------------------------
(* download_model and install_backend, step by step *)

\* For a model the rest of an earlier attempt is removed and an empty directory made.
Start(p, i) == /\ ~Working(p)
               /\ job' = [job EXCEPT ![p] = [at |-> "fetching", item |-> i]]
               /\ dirs' = IF i = Pack THEN dirs ELSE [dirs EXCEPT ![i]["fresh"] = "broken"]
               /\ shared' = (shared \/ \E q \in Procs \ {p} : Working(q) /\ job[q].item = i)
               /\ UNCHANGED <<had, faults>>

\* What .new holds when it is complete.  Two at a time may have removed each other's
\* files.
Fill(p) == /\ \E content \in IF shared THEN {"broken", "whole"} ELSE {"whole"} :
                dirs' = [dirs EXCEPT ![job[p].item]["fresh"] = content]
           /\ Goto(p, "verified")
           /\ UNCHANGED <<had, shared, faults>>

\* The model is downloaded, and agrees with the checksums made of it.
Fetch(p) == At(p, "fetching") /\ job[p].item # Pack /\ Fill(p)

\* The program is downloaded, agrees with the published checksum, is unpacked and
\* passes its own test.
FetchPack(p) == At(p, "fetching") /\ job[p].item = Pack /\ Fill(p)

\* An old .previous is in the way and removed.
Clear(p) == /\ At(p, "verified")
            /\ dirs' = [dirs EXCEPT ![job[p].item]["previous"] = "none"]
            /\ Goto(p, "cleared")
            /\ UNCHANGED <<had, shared, faults>>

Exists(i, place) == dirs[i][place] # "none"

\* Wrong: the model in use is removed, not moved.
AsideRemoved(p) == LET i == job[p].item IN
    /\ At(p, "cleared")
    /\ dirs' = [dirs EXCEPT ![i]["target"] = "none"]
    /\ Goto(p, "aside")
    /\ UNCHANGED <<had, shared, faults>>

Aside(p) == LET i == job[p].item IN
    /\ At(p, "cleared")
    /\ IF Exists(i, "target") THEN ~Exists(i, "previous") /\ Move(i, "target", "previous")
                              ELSE UNCHANGED dirs
    /\ Goto(p, "aside")
    /\ UNCHANGED <<had, shared, faults>>

CanInstall(i) == Exists(i, "fresh") /\ ~Exists(i, "target")

Install(p) == LET i == job[p].item IN
    /\ At(p, "aside")
    /\ CanInstall(i)
    /\ Move(i, "fresh", "target")
    /\ had' = IF dirs[i]["fresh"] = "whole" THEN had \cup {i} ELSE had
    /\ Goto(p, "installed")
    /\ UNCHANGED <<shared, faults>>

\* Whether or not it was installed, a model's .new is removed, the program's is not.
Leftover(i) == IF i = Pack THEN dirs[i]["fresh"] ELSE "none"

\* A model is verified once more.
Verified(i) == i = Pack \/ dirs[i]["target"] = "whole"

Finish(p) == LET i == job[p].item IN
    /\ At(p, "installed")
    /\ dirs' = [dirs EXCEPT ![i]["previous"] = "none", ![i]["fresh"] = Leftover(i)]
    /\ Goto(p, IF Verified(i) THEN "done" ELSE "failed")
    /\ UNCHANGED <<had, shared, faults>>
-----------------------------------------------------------------------------
(* What goes wrong. *)

\* A step that cannot be done because of another process fails without a fault.
Blocked(p) == LET i == job[p].item IN
    \/ At(p, "cleared") /\ Exists(i, "target") /\ Exists(i, "previous")
    \/ At(p, "aside") /\ ~CanInstall(i)

RollsBack(p) == /\ At(p, "aside") /\ job[p].item # Pack
                /\ Exists(job[p].item, "previous") /\ ~Exists(job[p].item, "target")

\* A step fails: the model that was moved aside moves back; the program does not.
Fail(p) == LET i == job[p].item IN
    /\ At(p, "fetching") \/ At(p, "verified") \/ At(p, "cleared") \/ At(p, "aside")
    /\ IF Blocked(p) THEN UNCHANGED faults ELSE Fault
    /\ dirs' = [dirs EXCEPT
         ![i]["target"] = IF RollsBack(p) THEN dirs[i]["previous"] ELSE @,
         ![i]["previous"] = IF RollsBack(p) THEN "none" ELSE @,
         ![i]["fresh"] = Leftover(i)]
    /\ Goto(p, "failed")
    /\ UNCHANGED <<had, shared>>

\* The process is gone; the directories stay as they are.
Stop(p) == /\ IF Working(p) THEN Fault ELSE UNCHANGED faults
           /\ job' = [job EXCEPT ![p] = NoJob]
           /\ UNCHANGED <<dirs, had, shared>>

\* The caller goes on.
Return(p) == /\ At(p, "done") \/ At(p, "failed")
             /\ job' = [job EXCEPT ![p] = NoJob]
             /\ UNCHANGED <<dirs, had, shared, faults>>

\* remove_speech_pack: every model and the program, as far as files can be removed.
\* What was moved aside and never moved back stays.
Remove(p) ==
    /\ ~Working(p)
    /\ had' = {}
    /\ \E kept \in SUBSET { i \in Items : Exists(i, "target") } :
         /\ IF kept = {} THEN UNCHANGED faults ELSE Fault
         /\ dirs' = [i \in Items |-> [dirs[i] EXCEPT !["target"] = IF i \in kept THEN "broken" ELSE "none"]]
    /\ UNCHANGED <<job, shared>>
-----------------------------------------------------------------------------
Next == \E p \in Procs :
          \/ \E i \in Items : Start(p, i)
          \/ Fetch(p) \/ FetchPack(p) \/ Clear(p) \/ Aside(p) \/ Install(p) \/ Finish(p)
          \/ Fail(p) \/ Stop(p) \/ Return(p) \/ Remove(p)

Spec == Init /\ [][Next]_vars
-----------------------------------------------------------------------------
TypeOK == /\ dirs \in [Items -> [Places -> Contents]]
          /\ job \in [Procs -> [at : Steps, item : Items]]
          /\ had \in SUBSET Items
          /\ shared \in BOOLEAN
          /\ faults \in 0..MaxFaults

\* A model that was installed is never lost by one failure or interruption of its
\* replacement: a whole copy is in its place, or beside it under the name it was
\* moved to, or ready to be moved in.  Two replacements at a time may lose it.
ModelSurvives ==
    shared \/ faults > 1 \/ \A i \in had : \E place \in Places : dirs[i][place] = "whole"

\* The documented promise: "interruption leaves the working model intact".
WorkingModelIntact ==
    (\A p \in Procs : ~Working(p)) /\ ~shared => \A i \in had \ {Pack} : dirs[i]["target"] = "whole"
=============================================================================
