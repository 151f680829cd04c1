----------------------------- MODULE HostConfig -----------------------------
(***************************************************************************)
(* The two configuration files of the Host, config.toml and secret.env,    *)
(* and the processes that load, change and save them (ConfigStore and its  *)
(* helpers in src/vibeslopik_host/config.py, setup and choose_language in  *)
(* src/vibeslopik_host/cli.py).                                            *)
(*                                                                         *)
(* A process reads both files once, when it starts.  From then on it works *)
(* on its own copy, and every save writes the whole of that copy: first    *)
(* config.toml, then secret.env, each replaced in one step (mkstemp, write, *)
(* fsync, os.replace).  There is no lock between processes, and a process  *)
(* may end between any two steps.                                          *)
(*                                                                         *)
(* Abstracted: the relay settings, URL and Host id in one file and secret  *)
(* in the other, are the number of the setup that made them, 0 for none; a *)
(* configuration with relay settings stands for one that is set up.  The   *)
(* client token is a number, too.                                          *)
(***************************************************************************)
EXTENDS Naturals, FiniteSets

CONSTANTS Procs,     \* processes of the command line, menus and Hosts
          Speech,    \* the speech settings config.toml may hold
          NoSpeech,  \* the default ones
          MaxSetups, \* bound: the setups that are made
          MaxTokens  \* bound: the tokens that are created

\* The constants are as they should be; HostDesk assumes it of its own.
Assumptions == NoSpeech \in Speech /\ {MaxSetups, MaxTokens} \subseteq Nat \ {0}

Setups == 0..MaxSetups
Tokens == 0..MaxTokens

VARIABLES config,     \* config.toml; legacy is a host secret of an older version in it
          secrets,    \* secret.env
          preserved,  \* a damaged configuration is kept under another name
          at,         \* the program point of each process
          store,      \* what each process has in memory
          setups, tokens, \* how many setups and tokens there have been
          outdated,   \* history: the processes whose copy is older than some file
          twins,      \* history: two first loads that overlapped both made a token
          cut,        \* history: a save ended between its two files
          overwritten,\* history: an outdated process saved
          abandoned   \* history: a setup was given up halfway

files   == <<config, secrets, preserved>>
counts  == <<setups, tokens>>
history == <<twins, cut, overwritten, abandoned>>
vars    == <<files, at, store, counts, outdated, history>>

Points == {"off", "damaged", "read", "config", "secrets", "ready"}
States == {"missing", "damaged", "invalid", "whole"}
Default == [is |-> "missing", relay |-> 0, legacy |-> 0, speech |-> NoSpeech]
Nobody == [relay |-> 0, legacy |-> 0, speech |-> NoSpeech, secret |-> 0, token |-> 0,
           recovered |-> FALSE, valid |-> TRUE, loaded |-> FALSE]

\* Wrong: what is read is not merged with the defaults, a section may be missing.
Unmerged == [relay |-> 0, legacy |-> 0, secret |-> 0, token |-> 0, recovered |-> FALSE, valid |-> TRUE, loaded |-> FALSE]

\* DEFAULT_CONFIG, and no secrets.
Defaults == Nobody
-----------------------------------------------------------------------------
\* A new installation, one that is set up, or one an older version has set up.
Init == /\ \/ config = Default /\ secrets = [token |-> 0, secret |-> 0] /\ setups = 0
           \/ /\ \E speech \in Speech : config = [Default EXCEPT !.is = "whole", !.relay = 1, !.speech = speech]
              /\ secrets = [token |-> 1, secret |-> 1] /\ setups = 1
           \/ /\ config = [Default EXCEPT !.is = "whole", !.relay = 1, !.legacy = 1]
              /\ secrets \in {[token |-> 0, secret |-> 0], [token |-> 1, secret |-> 0]} /\ setups = 1
        /\ tokens = secrets.token
        /\ preserved = FALSE
        /\ at = [p \in Procs |-> "off"]
        /\ store = [p \in Procs |-> Nobody]
        /\ outdated = {}
        /\ twins = FALSE /\ cut = FALSE /\ overwritten = FALSE /\ abandoned = FALSE

Goto(p, point) == at' = [at EXCEPT ![p] = point]
Alive(p) == at[p] # "off"

\* Process p ends; what it had in memory is gone.
Quit(p) == /\ Goto(p, "off")
           /\ store' = [store EXCEPT ![p] = Nobody]
           /\ outdated' = outdated \ {p}
           /\ cut' = (cut \/ at[p] = "secrets")
-----------------------------------------------------------------------------
(* load *)

\* What is in the file goes over the defaults.
Merged(file) ==
    IF file.is = "whole"
      THEN [Defaults EXCEPT !.relay = file.relay, !.legacy = file.legacy, !.speech = file.speech]
      ELSE [Defaults EXCEPT !.valid = file.is # "invalid"]

\* validate_config has nothing to say of the copy of p.
IsValid(p) == store[p].valid

\* config.toml is read: there may be none, one that is no TOML, or one with values
\* validate_config refuses.
ReadConfig(p) ==
    /\ at[p] = "off"
    /\ Goto(p, IF config.is = "damaged" THEN "damaged" ELSE "read")
    /\ store' = [store EXCEPT ![p] = Merged(config)]
    /\ UNCHANGED <<files, counts, outdated, history>>

\* A damaged one is moved away and the defaults are taken.  Another process may
\* have moved it before: then the load fails.
Preserve(p) ==
    /\ at[p] = "damaged"
    /\ IF config.is = "missing"
         THEN /\ Quit(p)
              /\ UNCHANGED <<config, preserved>>
         ELSE /\ config' = Default
              /\ preserved' = TRUE
              /\ Goto(p, "read")
              /\ store' = [store EXCEPT ![p].recovered = TRUE]
              /\ UNCHANGED <<outdated, cut>>
    /\ UNCHANGED <<secrets, counts, twins, overwritten, abandoned>>

\* Wrong: safe defaults come with a new token.
NeedsToken(p) == secrets.token = 0 \/ store[p].recovered

LacksToken(p) == secrets.token = 0

\* Another process has made the first token and not written it yet.
TokenOnItsWay(p) == \E q \in Procs \ {p} : at[q] \in {"config", "secrets"} /\ store[q].token # secrets.token

\* secret.env is read.  The secret of an older version moves over to it unless
\* it has one, and a token is made when there is none.  The copy is saved if that
\* changed it, there is no configuration, or Codex is found for the first time.
ReadSecrets(p, found) ==
    LET new    == LacksToken(p)
        legacy == store[p].legacy # 0 /\ secrets.secret = 0
        saves  == new \/ legacy \/ found \/ config.is = "missing" \/ store[p].recovered
    IN  /\ at[p] = "read" /\ IsValid(p)
        /\ new => tokens < MaxTokens
        /\ store' = [store EXCEPT ![p].legacy = 0,
                                  ![p].secret = IF legacy THEN store[p].legacy ELSE secrets.secret,
                                  ![p].token = IF new THEN tokens + 1 ELSE secrets.token,
                                  ![p].loaded = ~saves]
        /\ tokens' = IF new THEN tokens + 1 ELSE tokens
        /\ twins' = (twins \/ (new /\ TokenOnItsWay(p)))
        /\ Goto(p, IF saves THEN "config" ELSE "ready")
        /\ UNCHANGED <<files, setups, outdated, cut, overwritten, abandoned>>

\* A configuration that is not valid ends the load with ValueError.
Refuse(p) == /\ at[p] = "read" /\ ~IsValid(p)
             /\ Quit(p)
             /\ UNCHANGED <<files, counts, twins, overwritten, abandoned>>
-----------------------------------------------------------------------------
(* save *)

Toml(copy) == [is |-> "whole", relay |-> copy.relay, legacy |-> 0, speech |-> copy.speech]
Env(copy) == [token |-> copy.token, secret |-> copy.secret]

\* A file is replaced in one step, and the copies of all others are outdated.
Writes(p) == /\ overwritten' = (overwritten \/ p \in outdated)
             /\ outdated' = { q \in Procs \ {p} : Alive(q) }

\* A configuration that is not valid is not written: ValueError ends the process.
WriteConfig(p) ==
    /\ at[p] = "config"
    /\ IF IsValid(p)
         THEN /\ config' = Toml(store[p])
              /\ Goto(p, "secrets")
              /\ Writes(p)
              /\ UNCHANGED <<store, cut>>
         ELSE /\ Quit(p)
              /\ UNCHANGED <<config, overwritten>>
    /\ UNCHANGED <<secrets, preserved, counts, twins, abandoned>>

\* The second file is written, and with it the first save, if there was one to do.
Loaded(p) == /\ Goto(p, "ready")
             /\ store' = [store EXCEPT ![p].loaded = TRUE]

\* Wrong: only the token is written.
WriteTokenOnly(p) ==
    /\ at[p] = "secrets"
    /\ secrets' = [secrets EXCEPT !.token = store[p].token]
    /\ Loaded(p)
    /\ Writes(p)
    /\ UNCHANGED <<config, preserved, counts, twins, cut, abandoned>>

WriteSecrets(p) ==
    /\ at[p] = "secrets"
    /\ secrets' = Env(store[p])
    /\ Loaded(p)
    /\ Writes(p)
    /\ UNCHANGED <<config, preserved, counts, twins, cut, abandoned>>

\* A file cannot be written and the caller goes on; during load it would end.
FailWrite(p) ==
    /\ at[p] \in {"config", "secrets"} /\ store[p].loaded
    /\ Goto(p, "ready")
    /\ cut' = (cut \/ at[p] = "secrets")
    /\ UNCHANGED <<files, store, counts, outdated, twins, overwritten, abandoned>>
-----------------------------------------------------------------------------
(* The menu, setup, and the end of a process. *)

\* What p has says that the Host is set up.
Configured(p) == store[p].relay # 0

\* setup is answered to the end: a new relay with its own secret.
SetUp(p) ==
    /\ at[p] = "ready"
    /\ setups < MaxSetups
    /\ setups' = setups + 1
    /\ store' = [store EXCEPT ![p].relay = setups + 1, ![p].secret = setups + 1, ![p].valid = TRUE]
    /\ Goto(p, "config")
    /\ UNCHANGED <<files, tokens, outdated, history>>

\* setup ends at an answer that is not valid.  What was answered before stays in
\* memory: the URL, perhaps one validate_config refuses, and perhaps the secret.
\* The menu goes on, unless this was the first setup.
GiveUpSetUp(p) ==
    /\ at[p] = "ready" /\ Configured(p)
    /\ setups < MaxSetups
    /\ setups' = setups + 1
    /\ \E secret \in {setups + 1, store[p].secret}, valid \in BOOLEAN :
         store' = [store EXCEPT ![p].relay = setups + 1, ![p].secret = secret, ![p].valid = valid]
    /\ abandoned' = TRUE
    /\ UNCHANGED <<files, at, tokens, outdated, twins, cut, overwritten>>

\* The language or the speech settings are chosen and saved.
Save(p, speech) ==
    /\ at[p] = "ready"
    /\ store' = [store EXCEPT ![p].speech = speech]
    /\ Goto(p, "config")
    /\ UNCHANGED <<files, counts, outdated, history>>

\* A process leaves or is killed, at any point.
End(p) == /\ Alive(p)
          /\ Quit(p)
          /\ UNCHANGED <<files, counts, twins, overwritten, abandoned>>

\* config.toml is damaged at rest, or edited by hand to something not valid.
Damage == /\ config.is = "whole"
          /\ \E state \in {"damaged", "invalid"} : config' = [Default EXCEPT !.is = state]
          /\ UNCHANGED <<secrets, preserved, at, store, counts, outdated, history>>
-----------------------------------------------------------------------------
Next == \/ \E p \in Procs : \/ ReadConfig(p) \/ Preserve(p) \/ Refuse(p)
                            \/ \E found \in BOOLEAN : ReadSecrets(p, found)
                            \/ WriteConfig(p) \/ WriteSecrets(p) \/ FailWrite(p)
                            \/ SetUp(p) \/ GiveUpSetUp(p) \/ \E speech \in Speech : Save(p, speech)
                            \/ End(p)
        \/ Damage

Spec == Init /\ [][Next]_vars
-----------------------------------------------------------------------------
TypeOK == /\ config \in [is : States, relay : Setups, legacy : Setups, speech : Speech]
          /\ secrets \in [token : Tokens, secret : Setups]
          /\ preserved \in BOOLEAN
          /\ at \in [Procs -> Points]
          /\ store \in [Procs -> [relay : Setups, legacy : Setups, speech : Speech,
                                  secret : Setups, token : Tokens, recovered : BOOLEAN,
                                  valid : BOOLEAN, loaded : BOOLEAN]]
          /\ setups \in Setups /\ tokens \in Tokens
          /\ outdated \in SUBSET Procs
          /\ {twins, cut, overwritten, abandoned} \subseteq BOOLEAN

\* A phone that was given the client token keeps its access: once secret.env has
\* a token, no load, migration, recovery or save by any process changes it, unless
\* the first two processes ever started loaded at the same time.
TokenKept == secrets.token # 0 /\ ~twins => secrets'.token = secrets.token

TokenIsStable == [][TokenKept]_vars

\* The relay URL and Host id in config.toml and the secret in secret.env come from
\* the same setup: an older version's secret is not lost when it is moved, a
\* recovery from damage does not mix setups, and no save is half seen.  It does not
\* hold once a process has ended between the two files of a save, has saved a copy
\* older than the files, or has saved what a setup that was given up left behind.
RelaySecretMatches ==
    \/ config.is # "whole" \/ config.relay = 0
    \/ config.relay \in {config.legacy, secrets.secret}
    \/ \E p \in Procs : at[p] = "secrets"
    \/ cut \/ overwritten \/ abandoned
=============================================================================
