------------------------------ MODULE HostDesk ------------------------------
(***************************************************************************)
(* The processes of one Host installation, over its configuration          *)
(* (HostConfig) and its Speech Pack (SpeechPack): menus, which set up,      *)
(* install speech, start and stop the Host in the background, and the Host  *)
(* processes, which a menu or the autostart of the system launches          *)
(* (src/vibeslopik_host/cli.py and autostart.py).                           *)
(*                                                                         *)
(* Every process first loads the configuration.  A Host then starts Codex,  *)
(* binds the local port and serves; only a serving Host answers /healthz,   *)
(* and it is taken to do so within the 3 seconds a menu waits.              *)
(***************************************************************************)
EXTENDS Naturals, FiniteSets

CONSTANTS Menus,       \* processes of the command line
          Hosts,       \* Host processes; each is launched at most once
          Profiles,    \* the speech models
          First,       \* the profile of a new configuration
          Pack,        \* the speech program
          MaxSetups, MaxTokens, MaxFaults, \* bounds, see HostConfig and SpeechPack
          Plans        \* bound: how often each kind of step may happen, one plan a behaviour

Kinds == {"open", "setup", "save", "speech", "start", "stop", "auto", "kill", "damage"}

\* A process is a menu or a Host, and never both.
ASSUME ProcsAssumption == Menus \cap Hosts = {}
ASSUME ProfilesAssumption == First \in Profiles
ASSUME PlansAssumption == Plans \subseteq [Kinds -> Nat]

Procs == Menus \cup Hosts
Speech == [enabled : BOOLEAN, profile : Profiles]
NoSpeech == [enabled |-> FALSE, profile |-> First]

VARIABLES config, secrets, preserved, at, store, setups, tokens,
          outdated, twins, cut, overwritten, abandoned,   \* of HostConfig
          dirs, job, had, shared, faults,                 \* of SpeechPack
          task,      \* what each menu is doing
          status,    \* speech_status as the speech menu has it
          life,      \* each Host process
          child,     \* the Host process a menu has launched
          told,      \* what start_background said last
          auto, service, \* autostart is installed; the Host process it launched last
          left,      \* how many steps of each kind may still happen
          contested, \* history: menus during whose start another Host was starting, too
          crossed    \* history: the Speech Pack was removed under another menu

configVars == <<config, secrets, preserved, at, store, setups, tokens,
                outdated, twins, cut, overwritten, abandoned>>
speechVars == <<dirs, job, had, shared, faults>>
menuVars == <<task, status, child, told>>
hostVars == <<life, auto, service>>
history  == <<contested, crossed>>
vars == <<configVars, speechVars, menuVars, hostVars, left, history>>

C == INSTANCE HostConfig
S == INSTANCE SpeechPack WITH Procs <- Menus

ASSUME ConfigAssumption == C!Assumptions
ASSUME SpeechAssumption == S!Assumptions

Tasks == {"none", "speech", "pack", "model", "saving", "removing",
          "checked", "starting", "asked", "stopping"}
Lives == {"none", "loading", "codex", "serving", "stopping", "closing", "left", "failed"}
Answers == {"nothing", "started", "exited", "timeout", "stopped"}
NoStatus == [pack |-> FALSE, model |-> FALSE]
-----------------------------------------------------------------------------
\* A behaviour without a setup starts with a Host that is set up, one without a choice
\* in the speech menu without a Speech Pack.
Init == /\ C!Init
        /\ S!Init
        /\ had = {} \/ config.speech.profile \in had
        /\ config.speech.enabled => had # {}
        /\ task = [p \in Menus |-> "none"]
        /\ status = [p \in Menus |-> NoStatus]
        /\ life = [h \in Hosts |-> "none"]
        /\ child = [p \in Menus |-> "nobody"]
        /\ told = [p \in Menus |-> "nothing"]
        /\ auto = FALSE
        /\ service = "nobody"
        /\ left \in Plans
        /\ left["setup"] = 0 => config.relay # 0 /\ config.legacy = 0
        /\ left["speech"] = 0 => had = {} /\ config.speech = NoSpeech
        /\ contested = {}
        /\ crossed = FALSE

Spend(kind) == left[kind] > 0 /\ left' = [left EXCEPT ![kind] = @ - 1]
Goto(p, next) == task' = [task EXCEPT ![p] = next]
Becomes(h, next) == life' = [life EXCEPT ![h] = next]

Free(p) == at[p] = "ready" /\ task[p] = "none"
Serves(h) == life[h] \in {"serving", "stopping"}
Served == \E h \in Hosts : Serves(h)
Bound == \E h \in Hosts : Serves(h) \/ life[h] = "closing"
Starts(h) == life[h] \in {"loading", "codex"}
-----------------------------------------------------------------------------
(* main and menu: the configuration *)

\* A process of the command line is started.
Open(p) == /\ Spend("open")
           /\ C!ReadConfig(p)
           /\ UNCHANGED <<speechVars, menuVars, hostVars, history>>

\* A process loads or saves.
Continues(p) ==
    \/ /\ C!Preserve(p) \/ C!ReadSecrets(p, FALSE) \/ C!Refuse(p)
          \/ C!WriteConfig(p) \/ C!WriteSecrets(p)
       /\ UNCHANGED left
    \/ C!ReadSecrets(p, TRUE) /\ Spend("save")

\* Only the speech menu outlives a file that cannot be written.
GoOn(p) == /\ Continues(p)
           /\ Goto(p, IF at'[p] = "off" \/ (task[p] = "saving" /\ at'[p] = "ready")
                      THEN "none" ELSE task[p])
           /\ UNCHANGED <<speechVars, status, child, told, hostVars, history>>

CannotSave(p) == /\ task[p] \in {"saving", "removing"}
                 /\ Spend("kill")
                 /\ C!FailWrite(p)
                 /\ Goto(p, "none")
                 /\ UNCHANGED <<speechVars, status, child, told, hostVars, history>>

ConfigMenu(p) == /\ Free(p)
                 /\ \/ Spend("setup") /\ (C!SetUp(p) \/ C!GiveUpSetUp(p))
                    \/ Spend("save") /\ C!Save(p, store[p].speech)
                 /\ UNCHANGED <<speechVars, menuVars, hostVars, history>>

Forget(p) == /\ Goto(p, "none")
             /\ status' = [status EXCEPT ![p] = NoStatus]
             /\ child' = [child EXCEPT ![p] = "nobody"]
             /\ contested' = contested \ {p}

Leave(p) == /\ Free(p)
            /\ C!End(p)
            /\ Forget(p)
            /\ UNCHANGED <<speechVars, told, hostVars, left, crossed>>

Kill(p) == /\ ~Free(p)
           /\ Spend("kill")
           /\ C!End(p) /\ S!Stop(p)
           /\ Forget(p)
           /\ UNCHANGED <<told, hostVars, crossed>>

Damage == /\ Spend("damage")
          /\ C!Damage
          /\ UNCHANGED <<speechVars, menuVars, hostVars, history>>
-----------------------------------------------------------------------------
(* speech_menu *)

Profile(p) == store[p].speech.profile

\* The speech menu looks at the directories before it asks what to do.
Look(p) == /\ Free(p) /\ left["speech"] > 0
           /\ \E pack \in S!Ready(Pack), model \in S!Ready(Profile(p)) :
                status' = [status EXCEPT ![p] = [pack |-> pack, model |-> model]]
           /\ Goto(p, "speech")
           /\ UNCHANGED <<configVars, speechVars, child, told, hostVars, left, history>>

Back(p) == /\ task[p] = "speech"
           /\ Goto(p, "none")
           /\ UNCHANGED <<configVars, speechVars, status, child, told, hostVars, left, history>>

Choice(p) == task[p] = "speech" /\ Spend("speech")

\* 1: the program, unless it is there, then the model of the profile, then enabled.
Install(p) ==
    /\ \/ Choice(p) /\ ~status[p].pack /\ S!Start(p, Pack) /\ Goto(p, "pack")
       \/ Choice(p) /\ status[p].pack /\ S!Start(p, Profile(p)) /\ Goto(p, "model")
       \/ /\ task[p] = "pack" /\ S!At(p, "done") /\ UNCHANGED left
          /\ S!Start(p, Profile(p)) /\ Goto(p, "model")
    /\ UNCHANGED <<configVars, status, child, told, hostVars, history>>

Download(p) ==
    /\ \/ S!Fetch(p) \/ S!FetchPack(p) \/ S!Clear(p) \/ S!Aside(p) \/ S!Install(p) \/ S!Finish(p) \/ S!Fail(p)
    /\ UNCHANGED <<configVars, menuVars, hostVars, left, history>>

Saves(p, speech, next) == /\ C!Save(p, speech)
                          /\ Goto(p, next)
                          /\ UNCHANGED <<status, child, told, hostVars, history>>

Enabled(p, enabled) == [store[p].speech EXCEPT !.enabled = enabled]

Downloaded(p) == /\ task[p] = "model" /\ S!At(p, "done")
                 /\ S!Return(p)
                 /\ Saves(p, Enabled(p, TRUE), "saving")
                 /\ UNCHANGED left

NotDownloaded(p) == /\ S!At(p, "failed")
                    /\ S!Return(p)
                    /\ Goto(p, "none")
                    /\ UNCHANGED <<configVars, status, child, told, hostVars, left, history>>

\* 2: it is enabled only when it was there as the menu was shown.
Toggle(p) == /\ Choice(p)
             /\ store[p].speech.enabled \/ (status[p].pack /\ status[p].model)
             /\ Saves(p, Enabled(p, ~store[p].speech.enabled), "saving")
             /\ UNCHANGED speechVars

\* Wrong: the model changes and speech stays enabled.
ChooseEnabled(p) == \E profile \in Profiles :
    /\ Choice(p)
    /\ Saves(p, [store[p].speech EXCEPT !.profile = profile], "saving")
    /\ UNCHANGED speechVars

\* 3: another model is chosen, and speech disabled.
Choose(p) == \E profile \in Profiles :
    /\ Choice(p)
    /\ Saves(p, [enabled |-> FALSE, profile |-> profile], "saving")
    /\ UNCHANGED speechVars

\* 6: disabled first, and removed when that is saved.
Remove(p) == /\ Choice(p)
             /\ Saves(p, Enabled(p, FALSE), "removing")
             /\ UNCHANGED speechVars

Crosses(p) == \/ p \in outdated
              \/ \E q \in Menus \ {p} : task[q] \in {"speech", "pack", "model"} \/ store[q].speech.enabled

Removed(p) == /\ task[p] = "removing" /\ at[p] = "ready"
              /\ S!Remove(p)
              /\ Goto(p, "none")
              /\ crossed' = (crossed \/ Crosses(p))
              /\ UNCHANGED <<configVars, status, child, told, hostVars, left, contested>>
-----------------------------------------------------------------------------
(* start_background and stop_background *)

Starters == { p \in Menus : task[p] \in {"checked", "starting", "asked"} }

Launch(h) == /\ life[h] = "none"
             /\ Becomes(h, "loading")

\* Wrong: a Host that serves is no reason not to start one.
AnyTime == TRUE

\* host_status says that the Host is stopped.
NotRunning == ~Served

Start(p) ==
    /\ Free(p) /\ store[p].valid
    /\ NotRunning
    /\ Spend("start")
    /\ Goto(p, "checked")
    /\ told' = [told EXCEPT ![p] = "nothing"]
    /\ contested' = IF \E h \in Hosts : Starts(h) THEN contested \cup {p} ELSE contested \ {p}
    /\ UNCHANGED <<configVars, speechVars, status, child, hostVars, crossed>>

Spawn(p, h) ==
    /\ task[p] = "checked"
    /\ Launch(h)
    /\ Goto(p, "starting")
    /\ child' = [child EXCEPT ![p] = h]
    /\ contested' = contested \cup (Starters \ {p})
    /\ UNCHANGED <<configVars, speechVars, status, told, auto, service, left, crossed>>

Says(p, answer) == told' = [told EXCEPT ![p] = answer] /\ Goto(p, "none")

\* The loop of start_background: first /healthz, then the child, at most 60 times.
Ask(p) ==
    /\ task[p] = "starting"
    /\ IF Served THEN Says(p, "started") ELSE Goto(p, "asked") /\ UNCHANGED told
    /\ UNCHANGED <<configVars, speechVars, status, child, hostVars, left, history>>

Check(p) ==
    /\ task[p] = "asked"
    /\ \/ life[child[p]] \in {"left", "failed"} /\ Says(p, "exited")
       \/ life[child[p]] \notin {"left", "failed"} /\ Goto(p, "starting") /\ UNCHANGED told
       \/ life[child[p]] \notin {"left", "failed"} /\ Says(p, "timeout")
    /\ UNCHANGED <<configVars, speechVars, status, child, hostVars, left, history>>

\* The Host that serves shuts down if the token is its own.
Stop(p, h) ==
    /\ Free(p)
    /\ life[h] = "serving" /\ store[p].token = store[h].token
    /\ Spend("stop")
    /\ Becomes(h, "stopping")
    /\ Goto(p, "stopping")
    /\ UNCHANGED <<configVars, speechVars, status, child, told, auto, service, history>>

\* It has stopped when /healthz is not answered any more; 40 times are asked.
Stopped(p) ==
    /\ task[p] = "stopping"
    /\ Says(p, IF Served THEN "timeout" ELSE "stopped")
    /\ UNCHANGED <<configVars, speechVars, status, child, hostVars, left, history>>
-----------------------------------------------------------------------------
(* run *)

HostLoads(h) ==
    /\ life[h] = "loading"
    /\ (C!ReadConfig(h) /\ UNCHANGED left) \/ Continues(h)
    /\ Becomes(h, IF at'[h] = "off" THEN "failed" ELSE "loading")
    /\ UNCHANGED <<speechVars, menuVars, auto, service, history>>

\* Codex is started before the port is bound.  A Host that is not set up asks, and
\* in the background nobody answers.
StartCodex(h) ==
    /\ life[h] = "loading" /\ at[h] = "ready" /\ C!Configured(h)
    /\ Becomes(h, "codex")
    /\ UNCHANGED <<configVars, speechVars, menuVars, auto, service, left, history>>

Bind(h) ==
    /\ life[h] = "codex" /\ ~Bound
    /\ Becomes(h, "serving")
    /\ UNCHANGED <<configVars, speechVars, menuVars, auto, service, left, history>>

Ends(h, how) == /\ Becomes(h, how)
                /\ C!End(h)
                /\ UNCHANGED <<speechVars, menuVars, auto, service, history>>

HostFails(h) ==
    /\ \/ life[h] = "loading" /\ at[h] = "ready" /\ ~C!Configured(h)
       \/ life[h] = "codex" /\ Bound
    /\ Ends(h, "failed")
    /\ UNCHANGED left

\* Codex does not start, or the Host is killed.
HostDies(h) == /\ life[h] \notin {"none", "left", "failed"}
               /\ Spend("kill")
               /\ Ends(h, "failed")

\* serve_forever has returned, and nothing is answered any more; the port is free
\* only when the relay agent and Codex have stopped.
Close(h) == /\ life[h] = "stopping"
            /\ Becomes(h, "closing")
            /\ UNCHANGED <<configVars, speechVars, menuVars, auto, service, left, history>>

Closed(h) == /\ life[h] = "closing"
             /\ Ends(h, "left")
             /\ UNCHANGED left
-----------------------------------------------------------------------------
(* autostart *)

ServiceRuns == service # "nobody" /\ life[service] \notin {"left", "failed"}

\* The system launches a Host at once, unless its last one still runs.
Autostart(p) ==
    /\ Free(p)
    /\ Spend("auto")
    /\ auto' = TRUE
    /\ IF ServiceRuns THEN UNCHANGED <<life, service, contested>>
                      ELSE \E h \in Hosts : /\ Launch(h)
                                            /\ service' = h
                                            /\ contested' = contested \cup Starters
    /\ UNCHANGED <<configVars, speechVars, menuVars, crossed>>

\* It launches another one when that one failed.
Restart(h) ==
    /\ auto /\ service # "nobody" /\ life[service] = "failed"
    /\ Launch(h)
    /\ service' = h
    /\ contested' = contested \cup Starters
    /\ UNCHANGED <<configVars, speechVars, menuVars, auto, left, crossed>>

\* It is told not to, and stops its Host: one that serves closes in order.
NoAutostart(p) ==
    /\ Free(p) /\ auto
    /\ Spend("auto")
    /\ auto' = FALSE
    /\ IF ServiceRuns /\ ~Starts(service)
         THEN /\ Becomes(service, IF life[service] = "serving" THEN "stopping" ELSE life[service])
              /\ UNCHANGED configVars
         ELSE IF ServiceRuns /\ at[service] # "off"
                THEN Becomes(service, "failed") /\ C!End(service)
                ELSE /\ life' = IF ServiceRuns THEN [life EXCEPT ![service] = "failed"] ELSE life
                     /\ UNCHANGED configVars
    /\ UNCHANGED <<speechVars, menuVars, service, history>>
-----------------------------------------------------------------------------
MenuNext(p) ==
    \/ Open(p) \/ GoOn(p) \/ CannotSave(p) \/ ConfigMenu(p) \/ Leave(p) \/ Kill(p)
    \/ Look(p) \/ Back(p) \/ Install(p) \/ Download(p) \/ Downloaded(p) \/ NotDownloaded(p)
    \/ Toggle(p) \/ Choose(p) \/ Remove(p) \/ Removed(p)
    \/ Start(p) \/ Ask(p) \/ Check(p) \/ Stopped(p) \/ Autostart(p) \/ NoAutostart(p)
    \/ \E h \in Hosts : Spawn(p, h) \/ Stop(p, h)

HostNext(h) ==
    \/ HostLoads(h) \/ StartCodex(h) \/ Bind(h) \/ HostFails(h) \/ HostDies(h)
    \/ Close(h) \/ Closed(h) \/ Restart(h)

Next == \/ \E p \in Menus : MenuNext(p)
        \/ \E h \in Hosts : HostNext(h)
        \/ Damage

Spec == Init /\ [][Next]_vars
-----------------------------------------------------------------------------
TypeOK == /\ C!TypeOK
          /\ S!TypeOK
          /\ task \in [Menus -> Tasks]
          /\ status \in [Menus -> [pack : BOOLEAN, model : BOOLEAN]]
          /\ life \in [Hosts -> Lives]
          /\ child \in [Menus -> Hosts \cup {"nobody"}]
          /\ told \in [Menus -> Answers]
          /\ auto \in BOOLEAN
          /\ service \in Hosts \cup {"nobody"}
          /\ left \in [Kinds -> Nat]
          /\ contested \subseteq Menus
          /\ crossed \in BOOLEAN

\* See HostConfig: a client token that is stored is never replaced.
TokenIsStable == [][C!TokenKept]_vars

\* See HostConfig: the relay settings of the two files are of one setup.
RelaySecretMatches == C!RelaySecretMatches

\* See SpeechPack: an installed model is never lost by one failure or interruption.
ModelSurvives == S!ModelSurvives

\* See SpeechPack: what docs/SPEECH.md promises of an interruption.
WorkingModelIntact == S!WorkingModelIntact

\* What start_background says is so: "started" of its own child, and "exited" only
\* when no Host serves, although the port may still be bound by a Host that closes.
\* It may be wrong when another Host was being launched meanwhile.
StartTellsTheTruth ==
    [][\A p \in Menus : told'[p] # told[p] /\ p \notin contested =>
         /\ told'[p] = "started" => Serves(child[p])
         /\ told'[p] = "exited" => ~Served]_vars

\* Speech that config.toml says is enabled has its program and its model in place,
\* or beside it after an interruption: they are removed only after disabling is
\* saved, enabled only after they are installed, and another model disables it.  What
\* a removal has left of a model may be enabled: only model.bin is looked for.  And it
\* does not hold when a copy older than the files was saved, speech was removed under
\* another menu, or two processes replaced the same model.
EnabledMeansReady ==
    config.is = "whole" /\ config.speech.enabled /\ (\A p \in Menus : job[p] = S!NoJob)
      => \/ \A i \in {Pack, config.speech.profile} :
              dirs[i]["target"] # "none" \/ dirs[i]["previous"] = "whole"
         \/ overwritten \/ crossed \/ shared \/ faults > 1
=============================================================================
