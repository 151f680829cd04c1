--------------------------- MODULE HostDeskProofs ---------------------------
(***************************************************************************)
(* Proofs about HostDesk, for any menus, Hosts, models and bounds: first   *)
(* of the configuration (C, which is HostConfig) and of the Speech Pack    *)
(* (S, which is SpeechPack), as each of them is whatever its processes do, *)
(* then of the menus and Hosts that use both.                              *)
(***************************************************************************)
EXTENDS HostDesk, TLAPS

USE DEF C!Points, C!States, C!files, C!counts, C!history

Copies == [relay : C!Setups, legacy : C!Setups, speech : Speech, secret : C!Setups,
           token : C!Tokens, recovered : BOOLEAN, valid : BOOLEAN, loaded : BOOLEAN]

Configs == [is : C!States, relay : C!Setups, legacy : C!Setups, speech : Speech]

\* The points at which a process has a token in memory.
Having == {"config", "secrets", "ready"}

\* Once a token is stored every process that has one has that one.  Before, one
\* process at most has made one, and it is still saving it.
TokenInv ==
    /\ \A p \in Procs : /\ at[p] \in Having => store[p].token # 0
                        /\ at[p] = "ready" => store[p].loaded
                        /\ store[p].loaded => secrets.token # 0
    /\ secrets.token # 0 /\ ~twins
         => \A p \in Procs : at[p] \in Having => store[p].token = secrets.token
    /\ secrets.token = 0 /\ ~twins
         => \A p, q \in Procs : at[p] \in Having /\ at[q] \in Having => p = q

-----------------------------------------------------------------------------
(* Types *)

FilesTyped == /\ config \in Configs
              /\ secrets \in [token : C!Tokens, secret : C!Setups]
              /\ setups \in C!Setups /\ tokens \in C!Tokens
AtTyped    == at \in [Procs -> C!Points]
StoreTyped == store \in [Procs -> Copies]
FlagsTyped == /\ preserved \in BOOLEAN /\ twins \in BOOLEAN /\ cut \in BOOLEAN
              /\ overwritten \in BOOLEAN /\ abandoned \in BOOLEAN
OutdatedTyped == outdated \in SUBSET Procs
ConfigTyped == FilesTyped /\ AtTyped /\ StoreTyped /\ FlagsTyped /\ OutdatedTyped

\* The type invariant in parts, each of which is for one of the provers.
LEMMA ConfigTypedIsTypeOK == C!TypeOK <=> ConfigTyped
<1>1. {twins, cut, overwritten, abandoned} \subseteq BOOLEAN
      <=> twins \in BOOLEAN /\ cut \in BOOLEAN /\ overwritten \in BOOLEAN /\ abandoned \in BOOLEAN
  OBVIOUS
<1> QED BY <1>1, Zenon DEF C!TypeOK, ConfigTyped, FilesTyped, AtTyped, StoreTyped, FlagsTyped,
                           OutdatedTyped, Configs, Copies

\* What the bounds allow.
LEMMA Counts == /\ NoSpeech \in Speech
                /\ 0 \in C!Setups /\ 1 \in C!Setups /\ 0 \in C!Tokens /\ 1 \in C!Tokens
                /\ \A n \in C!Setups : n < MaxSetups => n + 1 \in C!Setups
                /\ \A n \in C!Tokens : n < MaxTokens => n + 1 \in C!Tokens
<1>1. MaxSetups \in Nat \ {0} /\ MaxTokens \in Nat \ {0} /\ NoSpeech \in Speech
  BY ConfigAssumption DEF C!Assumptions
<1> QED BY <1>1 DEF C!Setups, C!Tokens

\* What a process has in memory before it has read a file, and when it has read one.
LEMMA CopiesTyped == /\ C!Nobody \in Copies
                     /\ config \in Configs => C!Merged(config) \in Copies
<1>1. C!Nobody \in Copies
  BY Counts DEF C!Nobody, Copies
<1>2. ASSUME config \in Configs PROVE C!Merged(config) \in Copies
  BY <1>1, <1>2 DEF C!Merged, C!Defaults, Copies, Configs
<1> QED BY <1>1, <1>2

\* What load and setup change of a copy.
LEMMA LoadChanges == ASSUME NEW copy \in Copies, NEW i \in C!Setups, NEW j \in C!Setups,
                            NEW n \in C!Tokens, NEW b \in BOOLEAN
                     PROVE  [copy EXCEPT !.legacy = i, !.secret = j, !.token = n, !.loaded = b] \in Copies
  BY DEF Copies

LEMMA SetUpChanges == ASSUME NEW copy \in Copies, NEW i \in C!Setups, NEW j \in C!Setups, NEW b \in BOOLEAN
                      PROVE  [copy EXCEPT !.relay = i, !.secret = j, !.valid = b] \in Copies
  BY DEF Copies

\* A new installation, one that is set up and one of an older version are typed.
LEMMA ConfigInitTyped == ASSUME C!Init PROVE ConfigTyped
<1>1. FilesTyped
  <2>2. C!Default \in Configs BY Counts DEF C!Default, Configs
  <2>3. config \in Configs BY <2>2, Counts DEF C!Init, C!Default, Configs
  <2>4. setups \in C!Setups /\ secrets \in [token : C!Tokens, secret : C!Setups]
    <3>1. setups \in {0, 1} BY DEF C!Init
    <3>2. secrets \in {[token |-> 0, secret |-> 0], [token |-> 1, secret |-> 1],
                       [token |-> 1, secret |-> 0]}
      BY DEF C!Init
    <3> QED BY <3>1, <3>2, Counts
  <2>5. tokens \in C!Tokens BY <2>4 DEF C!Init
  <2> QED BY <2>3, <2>4, <2>5 DEF FilesTyped
<1>2. AtTyped BY DEF C!Init, AtTyped
<1>3. StoreTyped BY CopiesTyped DEF C!Init, StoreTyped
<1>4. FlagsTyped BY Zenon DEF C!Init, FlagsTyped
<1>5. OutdatedTyped BY DEF C!Init, OutdatedTyped
<1> QED BY <1>1, <1>2, <1>3, <1>4, <1>5 DEF ConfigTyped

\* Every step of a process keeps the types.
LEMMA ConfigStepTyped == ASSUME ConfigTyped, NEW p \in Procs, NEW found \in BOOLEAN,
                          NEW speech \in Speech,
                          \/ C!ReadConfig(p) \/ C!Preserve(p) \/ C!Refuse(p) \/ C!ReadSecrets(p, found)
                          \/ C!WriteConfig(p) \/ C!WriteSecrets(p) \/ C!FailWrite(p)
                          \/ C!SetUp(p) \/ C!GiveUpSetUp(p) \/ C!Save(p, speech) \/ C!End(p)
                   PROVE  ConfigTyped'
<1> USE DEF ConfigTyped
<1>1. CASE C!ReadConfig(p)
  <2>1. FilesTyped' BY <1>1, Counts DEF FilesTyped, StoreTyped, Configs, Copies, C!ReadConfig, C!Goto, C!Merged, C!Defaults, C!Alive
  <2>2. AtTyped' BY <1>1 DEF AtTyped, C!ReadConfig, C!Goto, C!Merged, C!Defaults
  <2>3. StoreTyped' BY <1>1, CopiesTyped DEF C!ReadConfig, StoreTyped, FilesTyped
  <2>4. FlagsTyped' BY <1>1, Zenon DEF FlagsTyped, C!ReadConfig, C!Goto, C!Merged, C!Defaults
  <2>5. OutdatedTyped' BY <1>1 DEF OutdatedTyped, C!ReadConfig, C!Goto, C!Merged, C!Defaults, C!Alive
  <2> QED BY <2>1, <2>2, <2>3, <2>4, <2>5
<1>2. CASE C!Preserve(p)
  <2>1. FilesTyped' BY <1>2, Counts DEF FilesTyped, StoreTyped, Configs, Copies, C!Preserve, C!Goto, C!Quit, C!Default, C!Alive
  <2>2. AtTyped' BY <1>2 DEF AtTyped, C!Preserve, C!Goto, C!Quit, C!Default
  <2>3. StoreTyped'
    <3>1. CASE config.is = "missing" BY <1>2, <3>1, CopiesTyped DEF C!Preserve, C!Quit, StoreTyped
    <3>2. CASE config.is # "missing"
      <4>1. store' = [store EXCEPT ![p].recovered = TRUE] BY <1>2, <3>2 DEF C!Preserve
      <4>2. [store[p] EXCEPT !.recovered = TRUE] \in Copies BY DEF StoreTyped, Copies
      <4> QED BY <4>1, <4>2, Zenon DEF StoreTyped
    <3> QED BY <3>1, <3>2
  <2>4. FlagsTyped' BY <1>2, Zenon DEF FlagsTyped, C!Preserve, C!Goto, C!Quit, C!Default
  <2>5. OutdatedTyped' BY <1>2 DEF OutdatedTyped, C!Preserve, C!Goto, C!Quit, C!Default, C!Alive
  <2> QED BY <2>1, <2>2, <2>3, <2>4, <2>5
<1>3. CASE C!Refuse(p)
  <2>1. FilesTyped' BY <1>3, Counts DEF FilesTyped, StoreTyped, Configs, Copies, C!Refuse, C!Goto, C!Quit, C!Alive
  <2>2. AtTyped' BY <1>3 DEF AtTyped, C!Refuse, C!Goto, C!Quit
  <2>3. StoreTyped' BY <1>3, CopiesTyped DEF C!Refuse, C!Quit, StoreTyped, FilesTyped
  <2>4. FlagsTyped' BY <1>3, Zenon DEF FlagsTyped, C!Refuse, C!Goto, C!Quit
  <2>5. OutdatedTyped' BY <1>3 DEF OutdatedTyped, C!Refuse, C!Goto, C!Quit, C!Alive
  <2> QED BY <2>1, <2>2, <2>3, <2>4, <2>5
<1>4. CASE C!ReadSecrets(p, found)
  <2>1. FilesTyped' BY <1>4, Counts DEF FilesTyped, StoreTyped, Configs, Copies, C!ReadSecrets, C!Goto, C!LacksToken, C!Alive
  <2>2. AtTyped' BY <1>4 DEF AtTyped, C!ReadSecrets, C!Goto, C!LacksToken
  <2>3. StoreTyped'
    <3>1. (IF C!LacksToken(p) THEN tokens + 1 ELSE secrets.token) \in C!Tokens
      BY <1>4, Counts DEF C!ReadSecrets, C!LacksToken, FilesTyped
    <3>2. store[p] \in Copies /\ secrets.secret \in C!Setups
      BY DEF StoreTyped, FilesTyped
    <3>3. store[p].legacy \in C!Setups /\ 0 \in C!Setups BY <3>2, Counts DEF Copies
    <3>4. PICK i \in C!Setups, n \in C!Tokens, b \in BOOLEAN :
             store' = [store EXCEPT ![p].legacy = 0, ![p].secret = i, ![p].token = n, ![p].loaded = b]
      BY <1>4, <3>1, <3>2, <3>3, Zenon DEF C!ReadSecrets
    <3>5. [store[p] EXCEPT !.legacy = 0, !.secret = i, !.token = n, !.loaded = b] \in Copies
      BY <3>2, <3>3, LoadChanges
    <3> QED BY <3>4, <3>5, Zenon DEF StoreTyped
  <2>4. FlagsTyped' BY <1>4, Zenon DEF FlagsTyped, C!ReadSecrets, C!Goto, C!LacksToken
  <2>5. OutdatedTyped' BY <1>4 DEF OutdatedTyped, C!ReadSecrets, C!Goto, C!LacksToken, C!Alive
  <2> QED BY <2>1, <2>2, <2>3, <2>4, <2>5
<1>5. CASE C!WriteConfig(p)
  <2>1. FilesTyped' BY <1>5, Counts DEF FilesTyped, StoreTyped, Configs, Copies, C!WriteConfig, C!Goto, C!Quit, C!Writes, C!Toml, C!Alive
  <2>2. AtTyped' BY <1>5 DEF AtTyped, C!WriteConfig, C!Goto, C!Quit, C!Writes, C!Toml
  <2>3. StoreTyped' BY <1>5, CopiesTyped DEF C!WriteConfig, C!Quit, StoreTyped, FilesTyped
  <2>4. FlagsTyped' BY <1>5, Zenon DEF FlagsTyped, C!WriteConfig, C!Goto, C!Quit, C!Writes, C!Toml
  <2>5. OutdatedTyped' BY <1>5 DEF OutdatedTyped, C!WriteConfig, C!Goto, C!Quit, C!Writes, C!Toml, C!Alive
  <2> QED BY <2>1, <2>2, <2>3, <2>4, <2>5
<1>6. CASE C!WriteSecrets(p)
  <2>1. FilesTyped' BY <1>6, Counts DEF FilesTyped, StoreTyped, Configs, Copies, C!WriteSecrets, C!Goto, C!Loaded, C!Writes, C!Env, C!Alive
  <2>2. AtTyped' BY <1>6 DEF AtTyped, C!WriteSecrets, C!Goto, C!Loaded, C!Writes, C!Env
  <2>3. StoreTyped' BY <1>6 DEF C!WriteSecrets, C!Goto, C!Loaded, C!Writes, C!Env, StoreTyped, Copies
  <2>4. FlagsTyped' BY <1>6, Zenon DEF FlagsTyped, C!WriteSecrets, C!Goto, C!Loaded, C!Writes, C!Env
  <2>5. OutdatedTyped' BY <1>6 DEF OutdatedTyped, C!WriteSecrets, C!Goto, C!Loaded, C!Writes, C!Env, C!Alive
  <2> QED BY <2>1, <2>2, <2>3, <2>4, <2>5
<1>7. CASE C!FailWrite(p)
  <2>1. FilesTyped' BY <1>7, Counts DEF FilesTyped, StoreTyped, Configs, Copies, C!FailWrite, C!Goto, C!Alive
  <2>2. AtTyped' BY <1>7 DEF AtTyped, C!FailWrite, C!Goto
  <2>3. StoreTyped' BY <1>7 DEF C!FailWrite, C!Goto, StoreTyped, Copies
  <2>4. FlagsTyped' BY <1>7, Zenon DEF FlagsTyped, C!FailWrite, C!Goto
  <2>5. OutdatedTyped' BY <1>7 DEF OutdatedTyped, C!FailWrite, C!Goto, C!Alive
  <2> QED BY <2>1, <2>2, <2>3, <2>4, <2>5
<1>8. CASE C!SetUp(p)
  <2>1. FilesTyped' BY <1>8, Counts DEF FilesTyped, StoreTyped, Configs, Copies, C!SetUp, C!Goto, C!Alive
  <2>2. AtTyped' BY <1>8 DEF AtTyped, C!SetUp, C!Goto
  <2>3. StoreTyped'
    <3>1. setups + 1 \in C!Setups
      BY <1>8, Counts DEF C!SetUp, FilesTyped
    <3>2. store[p] \in Copies
      BY DEF StoreTyped
    <3>3. PICK j \in C!Setups, b \in BOOLEAN :
             store' = [store EXCEPT ![p].relay = setups + 1, ![p].secret = j, ![p].valid = b]
      BY <1>8, <3>1, <3>2, Zenon DEF C!SetUp, Copies
    <3>4. [store[p] EXCEPT !.relay = setups + 1, !.secret = j, !.valid = b] \in Copies
      BY <3>1, <3>2, SetUpChanges, Zenon
    <3> QED BY <3>3, <3>4, Zenon DEF StoreTyped
  <2>4. FlagsTyped' BY <1>8, Zenon DEF FlagsTyped, C!SetUp, C!Goto
  <2>5. OutdatedTyped' BY <1>8 DEF OutdatedTyped, C!SetUp, C!Goto, C!Alive
  <2> QED BY <2>1, <2>2, <2>3, <2>4, <2>5
<1>9. CASE C!GiveUpSetUp(p)
  <2>1. FilesTyped' BY <1>9, Counts DEF FilesTyped, StoreTyped, Configs, Copies, C!GiveUpSetUp, C!Goto, C!Alive
  <2>2. AtTyped' BY <1>9 DEF AtTyped, C!GiveUpSetUp, C!Goto
  <2>3. StoreTyped'
    <3>1. setups + 1 \in C!Setups
      BY <1>9, Counts DEF C!GiveUpSetUp, FilesTyped
    <3>2. store[p] \in Copies
      BY DEF StoreTyped
    <3>3. PICK j \in C!Setups, b \in BOOLEAN :
             store' = [store EXCEPT ![p].relay = setups + 1, ![p].secret = j, ![p].valid = b]
      BY <1>9, <3>1, <3>2, Zenon DEF C!GiveUpSetUp, Copies
    <3>4. [store[p] EXCEPT !.relay = setups + 1, !.secret = j, !.valid = b] \in Copies
      BY <3>1, <3>2, SetUpChanges, Zenon
    <3> QED BY <3>3, <3>4, Zenon DEF StoreTyped
  <2>4. FlagsTyped' BY <1>9, Zenon DEF FlagsTyped, C!GiveUpSetUp, C!Goto
  <2>5. OutdatedTyped' BY <1>9 DEF OutdatedTyped, C!GiveUpSetUp, C!Goto, C!Alive
  <2> QED BY <2>1, <2>2, <2>3, <2>4, <2>5
<1>10. CASE C!Save(p, speech)
  <2>1. FilesTyped' BY <1>10, Counts DEF FilesTyped, StoreTyped, Configs, Copies, C!Save, C!Goto, C!Alive
  <2>2. AtTyped' BY <1>10 DEF AtTyped, C!Save, C!Goto
  <2>3. StoreTyped' BY <1>10 DEF C!Save, C!Goto, StoreTyped, Copies
  <2>4. FlagsTyped' BY <1>10, Zenon DEF FlagsTyped, C!Save, C!Goto
  <2>5. OutdatedTyped' BY <1>10 DEF OutdatedTyped, C!Save, C!Goto, C!Alive
  <2> QED BY <2>1, <2>2, <2>3, <2>4, <2>5
<1>11. CASE C!End(p)
  <2>1. FilesTyped' BY <1>11, Counts DEF FilesTyped, StoreTyped, Configs, Copies, C!End, C!Goto, C!Quit, C!Alive
  <2>2. AtTyped' BY <1>11 DEF AtTyped, C!End, C!Goto, C!Quit
  <2>3. StoreTyped' BY <1>11, CopiesTyped DEF C!End, C!Quit, StoreTyped, FilesTyped
  <2>4. FlagsTyped' BY <1>11, Zenon DEF FlagsTyped, C!End, C!Goto, C!Quit
  <2>5. OutdatedTyped' BY <1>11 DEF OutdatedTyped, C!End, C!Goto, C!Quit, C!Alive
  <2> QED BY <2>1, <2>2, <2>3, <2>4, <2>5
<1> QED BY <1>1, <1>2, <1>3, <1>4, <1>5, <1>6, <1>7, <1>8, <1>9, <1>10, <1>11

\* Damage to the file, too.
LEMMA ConfigDamageTyped == ASSUME ConfigTyped, C!Damage PROVE ConfigTyped'
<1>1. FilesTyped'
  <2>1. C!Default \in Configs BY Counts DEF C!Default, Configs
  <2> QED BY <2>1 DEF ConfigTyped, FilesTyped, C!Damage, Configs
<1>2. AtTyped' /\ StoreTyped' /\ OutdatedTyped'
  BY DEF ConfigTyped, AtTyped, StoreTyped, OutdatedTyped, C!Damage
<1>3. FlagsTyped' BY Zenon DEF ConfigTyped, FlagsTyped, C!Damage
<1> QED BY <1>1, <1>2, <1>3 DEF ConfigTyped
-----------------------------------------------------------------------------
(* The client token *)

LEMMA InitHasNoCopies == ASSUME C!Init PROVE TokenInv
  BY DEF C!Init, C!Nobody, TokenInv, Having

\* Every step of a process keeps TokenInv, and the token that is stored.
LEMMA StepKeepsToken == ASSUME ConfigTyped, TokenInv, NEW p \in Procs, NEW found \in BOOLEAN,
                               NEW speech \in Speech,
                               \/ C!ReadConfig(p) \/ C!Preserve(p) \/ C!Refuse(p) \/ C!ReadSecrets(p, found)
                               \/ C!WriteConfig(p) \/ C!WriteSecrets(p) \/ C!FailWrite(p)
                               \/ C!SetUp(p) \/ C!GiveUpSetUp(p) \/ C!Save(p, speech) \/ C!End(p)
                        PROVE  TokenInv' /\ C!TokenKept
<1> USE DEF TokenInv, C!TokenKept, Having, C!Goto
<1>0. store \in [Procs -> Copies] /\ at \in [Procs -> C!Points]
  BY DEF ConfigTyped, StoreTyped, AtTyped
<1>1. CASE C!ReadConfig(p) BY <1>0, <1>1 DEF C!ReadConfig, C!Merged, C!Defaults, C!Nobody, Copies
<1>2. CASE C!Preserve(p) BY <1>0, <1>2 DEF C!Preserve, C!Quit, C!Nobody, Copies
<1>3. CASE C!Refuse(p) BY <1>0, <1>3 DEF C!Refuse, C!Quit, C!Nobody, Copies
<1>4. CASE C!ReadSecrets(p, found)
  <2> DEFINE token == IF C!LacksToken(p) THEN tokens + 1 ELSE secrets.token
  <2>1. tokens \in Nat /\ secrets.token \in Nat
    BY DEF ConfigTyped, FilesTyped, C!Tokens
  <2>2. token # 0
    BY <2>1 DEF C!LacksToken
  <2>3. PICK i \in C!Setups, b \in BOOLEAN :
           /\ store' = [store EXCEPT ![p].legacy = 0, ![p].secret = i, ![p].token = token, ![p].loaded = b]
           /\ at' = [at EXCEPT ![p] = IF b THEN "ready" ELSE "config"]
           /\ C!LacksToken(p) => ~b
    <3>1. store[p].legacy \in C!Setups /\ secrets.secret \in C!Setups
      BY <1>0 DEF ConfigTyped, FilesTyped, Copies
    <3> QED BY <1>4, <3>1, Zenon DEF C!ReadSecrets
  <2> HIDE DEF token
  <2>4. store'[p].token = token /\ store'[p].loaded = b
    BY <1>0, <2>3 DEF Copies
  <2>5. at'[p] = (IF b THEN "ready" ELSE "config")
    BY <1>0, <2>3
  <2>6. \A q \in Procs \ {p} : store'[q] = store[q] /\ at'[q] = at[q]
    BY <1>0, <2>3
  <2>7. /\ secrets' = secrets
        /\ twins' = (twins \/ (C!LacksToken(p) /\ C!TokenOnItsWay(p)))
    BY <1>4, Zenon DEF C!ReadSecrets
  <2>8. CASE C!LacksToken(p)
    <3>1. secrets.token = 0 /\ ~b /\ at'[p] = "config"
      BY <2>3, <2>5, <2>8 DEF C!LacksToken
    <3>2. ASSUME ~twins' PROVE ~C!TokenOnItsWay(p) /\ ~twins
      BY <2>7, <2>8, <3>2, Zenon
    <3>3. ASSUME ~twins', NEW q \in Procs \ {p} PROVE at'[q] \notin Having
      BY <2>6, <3>1, <3>2, <3>3 DEF C!TokenOnItsWay
    <3> QED BY <2>2, <2>4, <2>6, <2>7, <3>1, <3>3
  <2>9. CASE ~C!LacksToken(p)
    <3>1. token = secrets.token /\ secrets.token # 0
      BY <2>9 DEF token, C!LacksToken
    <3>2. twins' = twins
      BY <2>7, <2>9, Zenon DEF ConfigTyped, FlagsTyped
    <3> QED BY <2>4, <2>5, <2>6, <2>7, <3>1, <3>2
  <2> QED BY <2>8, <2>9
<1>5. CASE C!WriteConfig(p) BY <1>0, <1>5 DEF C!WriteConfig, C!Quit, C!Nobody, C!Writes, Copies
<1>6. CASE C!WriteSecrets(p) BY <1>0, <1>6 DEF C!WriteSecrets, C!Loaded, C!Writes, C!Env, Copies
<1>7. CASE C!FailWrite(p) BY <1>0, <1>7 DEF C!FailWrite, Copies
<1>8. CASE C!SetUp(p) BY <1>0, <1>8 DEF C!SetUp, Copies
<1>9. CASE C!GiveUpSetUp(p)
  <2>1. PICK i \in C!Setups, b \in BOOLEAN :
           store' = [store EXCEPT ![p].relay = setups + 1, ![p].secret = i, ![p].valid = b]
    <3>1. setups + 1 \in C!Setups /\ store[p].secret \in C!Setups
      BY <1>0, <1>9, Counts DEF C!GiveUpSetUp, ConfigTyped, FilesTyped, Copies
    <3> QED BY <1>9, <3>1, Zenon DEF C!GiveUpSetUp
  <2>2. \A q \in Procs : store'[q].token = store[q].token /\ store'[q].loaded = store[q].loaded
    BY <1>0, <2>1 DEF Copies
  <2>3. at' = at /\ secrets' = secrets /\ twins' = twins
    BY <1>9, Zenon DEF C!GiveUpSetUp
  <2> QED BY <2>2, <2>3
<1>10. CASE C!Save(p, speech) BY <1>0, <1>10 DEF C!Save, Copies
<1>11. CASE C!End(p) BY <1>0, <1>11 DEF C!End, C!Quit, C!Nobody, C!Alive, Copies
<1> QED BY <1>1, <1>2, <1>3, <1>4, <1>5, <1>6, <1>7, <1>8, <1>9, <1>10, <1>11

\* Damage to config.toml leaves the token alone, and so does a step of nobody.
LEMMA DamageKeepsToken == ASSUME TokenInv, C!Damage \/ UNCHANGED C!vars PROVE TokenInv' /\ C!TokenKept
<1>1. CASE C!Damage BY <1>1 DEF C!Damage, TokenInv, C!TokenKept, Having
<1>2. CASE UNCHANGED C!vars BY <1>2 DEF C!vars, TokenInv, C!TokenKept, Having
<1> QED BY <1>1, <1>2
-----------------------------------------------------------------------------
(* The relay settings *)

\* Some other process is between the two files of its save.
Midway(p) == \E q \in Procs \ {p} : at[q] = "secrets"

\* A secret of an older version is in the configuration only as long as nobody has
\* saved.  A process whose copy is not outdated has what the files say, and when it
\* has written the first file that file is of its copy.
CopyInv ==
    /\ config.legacy # 0 => secrets.secret = 0 /\ \A p \in Procs : at[p] # "secrets"
    /\ \A p \in Procs : at[p] = "damaged" => store[p].relay = 0 /\ store[p].legacy = 0
    /\ \A p \in Procs \ outdated :
         /\ at[p] = "read" /\ store[p].legacy # 0 => secrets.secret = 0
         /\ at[p] = "secrets" /\ config.is = "whole" => config.relay = store[p].relay

\* A save was cut between its files, an old copy saved or a setup given up.
Mixed == cut \/ overwritten \/ abandoned

\* Otherwise, while nobody else is midway, a copy is of one setup, and so are the files.
RelayInv ==
    ~Mixed =>
      /\ \A p \in Procs \ outdated : ~Midway(p) =>
           /\ at[p] = "read" => store[p].relay \in {0, store[p].legacy, secrets.secret}
           /\ at[p] \in Having => store[p].relay \in {0, store[p].secret}
      /\ config.is = "whole" /\ (\A p \in Procs : at[p] # "secrets")
           => config.relay \in {0, config.legacy, secrets.secret}

LEMMA InitIsOfOneSetup == ASSUME C!Init PROVE CopyInv /\ RelayInv
<1>1. at = [p \in Procs |-> "off"]
  BY DEF C!Init
<1> DEFINE Fresh == config = C!Default /\ secrets = [token |-> 0, secret |-> 0]
           SetUp == /\ \E speech \in Speech : config = [C!Default EXCEPT !.is = "whole", !.relay = 1, !.speech = speech]
                    /\ secrets = [token |-> 1, secret |-> 1]
           Older == /\ config = [C!Default EXCEPT !.is = "whole", !.relay = 1, !.legacy = 1]
                    /\ secrets \in {[token |-> 0, secret |-> 0], [token |-> 1, secret |-> 0]}
<1>2. Fresh \/ SetUp \/ Older
  BY Zenon DEF C!Init
<1>3. config.relay \in {0, config.legacy, secrets.secret} /\ (config.legacy # 0 => secrets.secret = 0)
  <2>1. CASE Fresh BY <2>1 DEF C!Default
  <2>2. CASE SetUp BY <2>2 DEF C!Default
  <2>3. CASE Older BY <2>3 DEF C!Default
  <2> QED BY <1>2, <2>1, <2>2, <2>3
<1> QED BY <1>1, <1>3 DEF CopyInv, RelayInv, Having

\* What becomes of the history in a step of a process.
LEMMA MixedStep == ASSUME ConfigTyped, NEW p \in Procs, NEW found \in BOOLEAN, NEW speech \in Speech,
                          ~Mixed',
                          \/ C!ReadConfig(p) \/ C!Preserve(p) \/ C!Refuse(p) \/ C!ReadSecrets(p, found)
                          \/ C!WriteConfig(p) \/ C!WriteSecrets(p) \/ C!FailWrite(p)
                          \/ C!SetUp(p) \/ C!GiveUpSetUp(p) \/ C!Save(p, speech) \/ C!End(p)
                   PROVE  /\ ~Mixed
                          /\ ~C!GiveUpSetUp(p)
                          /\ (C!WriteConfig(p) /\ C!IsValid(p)) \/ C!WriteSecrets(p) => p \notin outdated
                          /\ C!FailWrite(p) \/ C!End(p) => at[p] # "secrets"
<1>1. ~cut' /\ ~overwritten' /\ ~abandoned'
  BY Zenon DEF Mixed
<1>2. ~Mixed
  <2>1. CASE C!ReadConfig(p) \/ C!SetUp(p) \/ C!Save(p, speech) \/ C!ReadSecrets(p, found)
    BY <1>1, <2>1, Zenon DEF Mixed, C!ReadConfig, C!SetUp, C!Save, C!ReadSecrets
  <2>2. CASE C!Preserve(p) \/ C!Refuse(p) \/ C!End(p) \/ C!FailWrite(p) \/ C!GiveUpSetUp(p)
    BY <1>1, <2>2, Zenon DEF Mixed, C!Preserve, C!Refuse, C!End, C!FailWrite, C!GiveUpSetUp, C!Quit
  <2>3. CASE C!WriteConfig(p) \/ C!WriteSecrets(p)
    BY <1>1, <2>3, Zenon DEF Mixed, C!WriteConfig, C!WriteSecrets, C!Writes, C!Quit
  <2> QED BY <2>1, <2>2, <2>3
<1>3. ~C!GiveUpSetUp(p)
  BY <1>1, Zenon DEF C!GiveUpSetUp
<1>4. (C!WriteConfig(p) /\ C!IsValid(p)) \/ C!WriteSecrets(p) => p \notin outdated
  BY <1>1, Zenon DEF C!WriteConfig, C!WriteSecrets, C!Writes
<1>5. C!FailWrite(p) \/ C!End(p) => at[p] # "secrets"
  BY <1>1, Zenon DEF C!FailWrite, C!End, C!Quit
<1> QED BY <1>2, <1>3, <1>4, <1>5

\* Every step of a process keeps both.
LEMMA StepKeepsRelay == ASSUME ConfigTyped, CopyInv, RelayInv, NEW p \in Procs, NEW found \in BOOLEAN,
                               NEW speech \in Speech,
                               \/ C!ReadConfig(p) \/ C!Preserve(p) \/ C!Refuse(p) \/ C!ReadSecrets(p, found)
                               \/ C!WriteConfig(p) \/ C!WriteSecrets(p) \/ C!FailWrite(p)
                               \/ C!SetUp(p) \/ C!GiveUpSetUp(p) \/ C!Save(p, speech) \/ C!End(p)
                        PROVE  CopyInv' /\ RelayInv'
<1> USE DEF C!Goto
<1>0. /\ store \in [Procs -> Copies] /\ at \in [Procs -> C!Points] /\ outdated \in SUBSET Procs
      /\ config \in Configs
  BY DEF ConfigTyped, StoreTyped, AtTyped, OutdatedTyped, FilesTyped
<1>1. CASE C!ReadConfig(p)
  <2>1. CopyInv' BY <1>0, <1>1 DEF CopyInv, C!ReadConfig, C!Merged, C!Defaults, C!Nobody, Copies, Configs
  <2>2. RelayInv'
    BY <1>0, <1>1, MixedStep DEF CopyInv, RelayInv, Midway, Having, C!ReadConfig, C!Merged, C!Defaults, C!Nobody, Copies, Configs
  <2> QED BY <2>1, <2>2
<1>2. CASE C!Preserve(p)
  <2>1. CopyInv' BY <1>0, <1>2 DEF CopyInv, C!Preserve, C!Quit, C!Default, C!Nobody, Copies, Configs
  <2>2. ASSUME ~Mixed' PROVE ~Mixed
    BY <1>2, <2>2, MixedStep
  <2>3. \/ at' = [at EXCEPT ![p] = "off"] /\ outdated' = outdated \ {p} /\ config' = config
        \/ at' = [at EXCEPT ![p] = "read"] /\ outdated' = outdated /\ config' = C!Default
    BY <1>2, Zenon DEF C!Preserve, C!Quit
  <2>4. /\ secrets' = secrets /\ at[p] = "damaged"
        /\ at'[p] = "read" => store'[p].relay = 0
        /\ \A q \in Procs \ {p} : store'[q] = store[q] /\ at'[q] = at[q]
    BY <1>0, <1>2 DEF CopyInv, C!Preserve, C!Quit, Copies
  <2>5. RelayInv' BY <1>0, <2>2, <2>3, <2>4 DEF RelayInv, Midway, Having, C!Default
  <2> QED BY <2>1, <2>5
<1>3. CASE C!Refuse(p)
  <2>1. CopyInv' BY <1>0, <1>3 DEF CopyInv, C!Refuse, C!Quit, C!Nobody, Copies
  <2>2. RelayInv' BY <1>0, <1>3, MixedStep DEF RelayInv, Midway, Having, C!Refuse, C!Quit, C!Nobody, Copies
  <2> QED BY <2>1, <2>2
<1>4. CASE C!ReadSecrets(p, found)
  <2> DEFINE legacy == store[p].legacy # 0 /\ secrets.secret = 0
             secret == IF legacy THEN store[p].legacy ELSE secrets.secret
  <2>1. PICK n \in C!Tokens, b \in BOOLEAN :
           /\ store' = [store EXCEPT ![p].legacy = 0, ![p].secret = secret, ![p].token = n, ![p].loaded = b]
           /\ at' = [at EXCEPT ![p] = IF b THEN "ready" ELSE "config"]
    <3>1. (IF C!LacksToken(p) THEN tokens + 1 ELSE secrets.token) \in C!Tokens
      BY <1>4, Counts DEF C!ReadSecrets, C!LacksToken, ConfigTyped, FilesTyped
    <3> QED BY <1>4, <3>1, Zenon DEF C!ReadSecrets
  <2>2. UNCHANGED <<config, secrets, outdated>> /\ at[p] = "read"
    BY <1>4 DEF C!ReadSecrets
  <2>3. /\ store'[p].relay = store[p].relay /\ store'[p].secret = secret /\ store'[p].legacy = 0
        /\ at'[p] \in {"config", "ready"}
        /\ \A q \in Procs \ {p} : store'[q] = store[q] /\ at'[q] = at[q]
    BY <1>0, <2>1 DEF Copies
  <2>4. CopyInv' BY <2>2, <2>3 DEF CopyInv
  <2>5. ASSUME ~Mixed' PROVE ~Mixed
    BY <1>4, <2>5, MixedStep
  <2>6. RelayInv' BY <2>2, <2>3, <2>5 DEF CopyInv, RelayInv, Midway, Having
  <2> QED BY <2>4, <2>6
<1>5. CASE C!WriteConfig(p)
  <2>1. CopyInv' BY <1>0, <1>5 DEF CopyInv, C!WriteConfig, C!Quit, C!Nobody, C!Writes, C!Alive, C!Toml, Copies
  <2>2. RelayInv'
    BY <1>0, <1>5, MixedStep DEF RelayInv, Midway, Having, C!WriteConfig, C!Quit, C!Nobody, C!Writes, C!Alive, C!Toml, Copies
  <2> QED BY <2>1, <2>2
<1>6. CASE C!WriteSecrets(p)
  <2>1. CopyInv' BY <1>0, <1>6 DEF CopyInv, C!WriteSecrets, C!Loaded, C!Writes, C!Alive, C!Env, Copies
  <2>2. ASSUME ~Mixed' PROVE ~Mixed /\ p \notin outdated
    BY <1>6, <2>2, MixedStep
  <2>3. /\ config' = config /\ secrets'.secret = store[p].secret
        /\ at[p] = "secrets" /\ at'[p] = "ready"
        /\ store'[p].relay = store[p].relay /\ store'[p].secret = store[p].secret
        /\ \A q \in Procs \ {p} : store'[q] = store[q] /\ at'[q] = at[q]
        /\ outdated' = {q \in Procs \ {p} : at[q] # "off"}
    BY <1>0, <1>6 DEF C!WriteSecrets, C!Loaded, C!Writes, C!Alive, C!Env, Copies
  <2>4. ASSUME ~Mixed', \A q \in Procs : at'[q] # "secrets", config.is = "whole"
        PROVE  config.relay \in {0, secrets'.secret}
    BY <2>2, <2>3, <2>4 DEF CopyInv, RelayInv, Midway, Having
  <2>5. ASSUME ~Mixed', NEW q \in Procs \ outdated', ~Midway(q)'
        PROVE  /\ at'[q] = "read" => store'[q].relay \in {0, store'[q].legacy, secrets'.secret}
               /\ at'[q] \in Having => store'[q].relay \in {0, store'[q].secret}
    BY <2>2, <2>3, <2>5 DEF RelayInv, Midway, Having
  <2>6. RelayInv' BY <2>3, <2>4, <2>5 DEF RelayInv
  <2> QED BY <2>1, <2>6
<1>7. CASE C!FailWrite(p)
  <2>1. CopyInv' BY <1>0, <1>7 DEF CopyInv, C!FailWrite
  <2>2. RelayInv' BY <1>0, <1>7, MixedStep DEF RelayInv, Midway, Having, C!FailWrite
  <2> QED BY <2>1, <2>2
<1>8. CASE C!SetUp(p)
  <2>1. CopyInv' BY <1>0, <1>8 DEF CopyInv, C!SetUp, Copies
  <2>2. ASSUME ~Mixed' PROVE ~Mixed
    BY <1>8, <2>2, MixedStep
  <2>3. /\ UNCHANGED <<config, secrets, outdated>>
        /\ at[p] = "ready" /\ at'[p] = "config" /\ store'[p].relay = store'[p].secret
        /\ \A q \in Procs \ {p} : store'[q] = store[q] /\ at'[q] = at[q]
    BY <1>0, <1>8 DEF C!SetUp, Copies
  <2>4. RelayInv' BY <2>2, <2>3 DEF RelayInv, Midway, Having
  <2> QED BY <2>1, <2>4
<1>9. CASE C!GiveUpSetUp(p)
  <2>1. PICK i \in C!Setups, b \in BOOLEAN :
           store' = [store EXCEPT ![p].relay = setups + 1, ![p].secret = i, ![p].valid = b]
    <3>1. setups + 1 \in C!Setups /\ store[p].secret \in C!Setups
      BY <1>0, <1>9, Counts DEF C!GiveUpSetUp, ConfigTyped, FilesTyped, Copies
    <3> QED BY <1>9, <3>1, Zenon DEF C!GiveUpSetUp
  <2>2. \A q \in Procs \ {p} : store'[q] = store[q]
    BY <1>0, <2>1
  <2>3. UNCHANGED <<at, config, secrets, outdated>> /\ at[p] = "ready"
    BY <1>9 DEF C!GiveUpSetUp
  <2>4. CopyInv' BY <2>2, <2>3 DEF CopyInv
  <2>5. RelayInv' BY <1>9, MixedStep DEF RelayInv
  <2> QED BY <2>4, <2>5
<1>10. CASE C!Save(p, speech)
  <2>1. CopyInv' BY <1>0, <1>10 DEF CopyInv, C!Save, Copies
  <2>2. ASSUME ~Mixed' PROVE ~Mixed
    BY <1>10, <2>2, MixedStep
  <2>3. /\ UNCHANGED <<config, secrets, outdated>>
        /\ at[p] = "ready" /\ at'[p] = "config"
        /\ store'[p].relay = store[p].relay /\ store'[p].secret = store[p].secret
        /\ \A q \in Procs \ {p} : store'[q] = store[q] /\ at'[q] = at[q]
    BY <1>0, <1>10 DEF C!Save, Copies
  <2>4. RelayInv' BY <2>2, <2>3 DEF RelayInv, Midway, Having
  <2> QED BY <2>1, <2>4
<1>11. CASE C!End(p)
  <2>1. CopyInv' BY <1>0, <1>11 DEF CopyInv, C!End, C!Quit, C!Nobody, Copies
  <2>2. RelayInv' BY <1>0, <1>11, MixedStep DEF RelayInv, Midway, Having, C!End, C!Quit, C!Nobody, C!Alive, Copies
  <2> QED BY <2>1, <2>2
<1> QED BY <1>1, <1>2, <1>3, <1>4, <1>5, <1>6, <1>7, <1>8, <1>9, <1>10, <1>11

\* Damage to config.toml takes its relay settings with it.
LEMMA DamageKeepsRelay == ASSUME CopyInv, RelayInv, C!Damage \/ UNCHANGED C!vars PROVE CopyInv' /\ RelayInv'
<1>1. ASSUME ~Mixed' PROVE ~Mixed
  BY <1>1, Zenon DEF C!Damage, C!vars, Mixed
<1>2. CASE C!Damage
  <2>1. /\ UNCHANGED <<secrets, at, store, outdated>>
        /\ config'.is # "whole" /\ config'.legacy = 0
    BY <1>2 DEF C!Damage, C!Default
  <2> QED BY <1>1, <2>1 DEF CopyInv, RelayInv, Midway
<1>3. CASE UNCHANGED C!vars
  BY <1>1, <1>3 DEF C!vars, CopyInv, RelayInv, Midway
<1> QED BY <1>2, <1>3
\* One step of the whole, from the invariant.
LEMMA ConfigKeepsAll == ASSUME ConfigTyped, TokenInv, CopyInv, RelayInv, [C!Next]_(C!vars)
                      PROVE  ConfigTyped' /\ TokenInv' /\ CopyInv' /\ RelayInv' /\ C!TokenKept
<1>1. ASSUME NEW p \in Procs, NEW found \in BOOLEAN, NEW speech \in Speech,
             \/ C!ReadConfig(p) \/ C!Preserve(p) \/ C!Refuse(p) \/ C!ReadSecrets(p, found)
             \/ C!WriteConfig(p) \/ C!WriteSecrets(p) \/ C!FailWrite(p)
             \/ C!SetUp(p) \/ C!GiveUpSetUp(p) \/ C!Save(p, speech) \/ C!End(p)
      PROVE  ConfigTyped' /\ TokenInv' /\ CopyInv' /\ RelayInv' /\ C!TokenKept
  BY <1>1, ConfigStepTyped, StepKeepsToken, StepKeepsRelay, Zenon
<1>2. CASE C!Damage
  BY <1>2, ConfigDamageTyped, DamageKeepsToken, DamageKeepsRelay
<1>3. CASE UNCHANGED C!vars
  <2>1. ConfigTyped'
    BY <1>3, Zenon DEF C!vars, ConfigTyped, FilesTyped, AtTyped, StoreTyped, FlagsTyped, OutdatedTyped
  <2> QED BY <1>3, <2>1, DamageKeepsToken, DamageKeepsRelay
<1>4. TRUE \in BOOLEAN /\ NoSpeech \in Speech
  BY Counts
<1>5. CASE \E p \in Procs : \/ C!ReadConfig(p) \/ C!Preserve(p) \/ C!Refuse(p)
                            \/ \E found \in BOOLEAN : C!ReadSecrets(p, found)
                            \/ C!WriteConfig(p) \/ C!WriteSecrets(p) \/ C!FailWrite(p)
                            \/ C!SetUp(p) \/ C!GiveUpSetUp(p) \/ \E speech \in Speech : C!Save(p, speech)
                            \/ C!End(p)
  BY <1>1, <1>4, <1>5, Zenon
<1> QED BY <1>2, <1>3, <1>5, Zenon DEF C!Next

\* The inductive invariant of the two configuration files.
ConfigInv == ConfigTyped /\ TokenInv /\ CopyInv /\ RelayInv

\* It is what ConfigStore.load and save (src/vibeslopik_host/config.py) keep for any
\* processes that run, save, fail to write and end at any point, whatever they are.
THEOREM ConfigInductive == C!Spec => []ConfigInv
<1>1. C!Init => ConfigInv
  BY ConfigInitTyped, InitHasNoCopies, InitIsOfOneSetup DEF ConfigInv
<1>2. ConfigInv /\ [C!Next]_(C!vars) => ConfigInv'
  BY ConfigKeepsAll DEF ConfigInv
<1> QED BY <1>1, <1>2, PTL DEF C!Spec

\* The settings of the two files agree, or one of the accidents has happened.
LEMMA RelayMatches == ConfigTyped /\ RelayInv => C!RelaySecretMatches
  BY Zenon DEF RelayInv, Mixed, C!RelaySecretMatches
-----------------------------------------------------------------------------
(* The Speech Pack *)

\* A process is at one of these steps of the replacement of item i.
Busy(i, steps) == \E p \in Menus : job[p].item = i /\ job[p].at \in steps

\* One process at a time replaces an item; what it is about to move is there, and
\* there is room for it.
JobInv ==
    ~shared =>
      /\ \A p, q \in Menus : S!Working(p) /\ S!Working(q) /\ job[p].item = job[q].item => p = q
      /\ \A p \in Menus :
           /\ job[p].at \in {"verified", "cleared", "aside"} => dirs[job[p].item]["fresh"] = "whole"
           /\ job[p].at = "cleared" => dirs[job[p].item]["previous"] = "none"
           /\ job[p].at = "aside" => dirs[job[p].item]["target"] = "none"

\* Where a whole copy of an installed item is: before anything has gone wrong it is in
\* its place or, for a moment, beside it; then it may be in one of three places.
CopiesOf(i) ==
    /\ faults = 0 => /\ dirs[i]["target"] \in {"none", "whole"}
                     /\ dirs[i]["target"] = "whole" => i \in had
                     /\ i \in had => IF Busy(i, {"aside"}) THEN dirs[i]["previous"] = "whole"
                                                           ELSE dirs[i]["target"] = "whole"
    /\ i \in had => /\ \/ "whole" \in {dirs[i]["target"], dirs[i]["previous"]}
                       \/ Busy(i, {"cleared", "aside"})
                    /\ Busy(i, {"installed"}) => dirs[i]["target"] = "whole"

CopiesInv == ~shared /\ faults <= 1 => \A i \in S!Items : CopiesOf(i)

DirsTyped  == dirs \in [S!Items -> [S!Places -> S!Contents]]
JobTyped   == job \in [Menus -> [at : S!Steps, item : S!Items]]
TraceTyped == had \in SUBSET S!Items /\ shared \in BOOLEAN /\ faults \in 0..MaxFaults
SpeechTyped == DirsTyped /\ JobTyped /\ TraceTyped

\* The program is no model, and what a new process has is a job.
LEMMA SpeechConstants == /\ Pack \notin Profiles /\ MaxFaults \in Nat
                         /\ Pack \in S!Items /\ S!NoJob \in [at : S!Steps, item : S!Items]
  BY SpeechAssumption DEF S!Assumptions, S!Items, S!NoJob, S!Steps

LEMMA SpeechTypedIsTypeOK == S!TypeOK <=> SpeechTyped
  BY Zenon DEF S!TypeOK, SpeechTyped, DirsTyped, JobTyped, TraceTyped

LEMMA SpeechInitTyped == ASSUME S!Init PROVE SpeechTyped
<1>1. had \in SUBSET S!Items
  BY DEF S!Init, S!Items
<1>2. DirsTyped
  BY DEF S!Init, DirsTyped, S!Installed, S!Nothing, S!Places, S!Contents
<1>3. JobTyped
  BY SpeechConstants DEF S!Init, JobTyped
<1>4. TraceTyped
  <2>1. shared \in BOOLEAN BY Zenon DEF S!Init
  <2>2. faults \in 0..MaxFaults BY SpeechConstants DEF S!Init
  <2> QED BY <1>1, <2>1, <2>2 DEF TraceTyped
<1> QED BY <1>2, <1>3, <1>4 DEF SpeechTyped

LEMMA SpeechStepTyped == ASSUME SpeechTyped, NEW p \in Menus, NEW i \in S!Items,
                               \/ S!Start(p, i) \/ S!Fetch(p) \/ S!FetchPack(p) \/ S!Clear(p) \/ S!Aside(p)
                               \/ S!Install(p) \/ S!Finish(p) \/ S!Fail(p) \/ S!Stop(p) \/ S!Return(p) \/ S!Remove(p)
                         PROVE  SpeechTyped'
<1> USE SpeechConstants
<1>0. job[p].item \in S!Items
  BY DEF SpeechTyped, JobTyped
<1>1. DirsTyped'
  <2> USE DEF SpeechTyped, DirsTyped, S!Places, S!Contents
  <2>1. CASE S!Start(p, i) BY <1>0, <2>1 DEF S!Start
  <2>2. CASE S!Fetch(p) BY <1>0, <2>2 DEF S!Fetch, S!Fill
  <2>3. CASE S!FetchPack(p) BY <1>0, <2>3 DEF S!FetchPack, S!Fill
  <2>4. CASE S!Clear(p) BY <1>0, <2>4 DEF S!Clear
  <2>5. CASE S!Aside(p) BY <1>0, <2>5 DEF S!Aside, S!Move
  <2>6. CASE S!Install(p) BY <1>0, <2>6 DEF S!Install, S!Move
  <2>7. CASE S!Finish(p) BY <1>0, <2>7 DEF S!Finish, S!Leftover
  <2>8. CASE S!Fail(p)
    <3> DEFINE j == job[p].item
               target == IF S!RollsBack(p) THEN dirs[j]["previous"] ELSE dirs[j]["target"]
               previous == IF S!RollsBack(p) THEN "none" ELSE dirs[j]["previous"]
    <3>1. dirs' = [dirs EXCEPT ![j] = [dirs[j] EXCEPT !["target"] = target, !["previous"] = previous,
                                                      !["fresh"] = S!Leftover(j)]]
      BY <1>0, <2>8 DEF S!Fail
    <3>2. {target, previous, S!Leftover(j)} \subseteq S!Contents
      BY <1>0 DEF S!Leftover
    <3> HIDE DEF target, previous
    <3> QED BY <1>0, <3>1, <3>2
  <2>9. CASE S!Stop(p) BY <1>0, <2>9 DEF S!Stop
  <2>10. CASE S!Return(p) BY <1>0, <2>10 DEF S!Return
  <2>11. CASE S!Remove(p) BY <1>0, <2>11 DEF S!Remove
  <2> QED BY <2>1, <2>2, <2>3, <2>4, <2>5, <2>6, <2>7, <2>8, <2>9, <2>10, <2>11
<1>2. JobTyped'
  BY DEF SpeechTyped, JobTyped, S!Start, S!Fetch, S!FetchPack, S!Fill, S!Clear, S!Aside, S!Install, S!Finish,
         S!Fail, S!Stop, S!Return, S!Remove, S!Goto, S!Steps
<1>3. had' \in SUBSET S!Items
  BY <1>0 DEF SpeechTyped, TraceTyped, S!Start, S!Fetch, S!FetchPack, S!Fill, S!Clear, S!Aside, S!Install,
         S!Finish, S!Fail, S!Stop, S!Return, S!Remove
<1>4. shared' \in BOOLEAN
  BY Zenon DEF SpeechTyped, TraceTyped, S!Start, S!Fetch, S!FetchPack, S!Fill, S!Clear, S!Aside, S!Install,
         S!Finish, S!Fail, S!Stop, S!Return, S!Remove
<1>5. faults' \in 0..MaxFaults
  <2>1. faults' = faults \/ S!Fault
    BY Zenon DEF S!Start, S!Fetch, S!FetchPack, S!Fill, S!Clear, S!Aside, S!Install, S!Finish, S!Fail, S!Stop,
                 S!Return, S!Remove
  <2> QED BY <2>1 DEF SpeechTyped, TraceTyped, S!Fault
<1> QED BY <1>1, <1>2, <1>3, <1>4, <1>5 DEF SpeechTyped, TraceTyped

\* Who works on what, in a step that leaves no item with two.
LEMMA AloneStep == ASSUME NEW p \in Menus, NEW i \in S!Items, ~shared',
                          \/ S!Start(p, i) \/ S!Fetch(p) \/ S!FetchPack(p) \/ S!Clear(p) \/ S!Aside(p)
                          \/ S!Install(p) \/ S!Finish(p) \/ S!Fail(p) \/ S!Stop(p) \/ S!Return(p) \/ S!Remove(p)
                   PROVE  /\ ~shared
                          /\ S!Start(p, i) => \A q \in Menus \ {p} : ~(S!Working(q) /\ job[q].item = i)
<1>1. ~shared
  BY Zenon DEF S!Start, S!Fetch, S!FetchPack, S!Fill, S!Clear, S!Aside, S!Install, S!Finish, S!Fail, S!Stop,
               S!Return, S!Remove
<1>2. S!Start(p, i) => \A q \in Menus \ {p} : ~(S!Working(q) /\ job[q].item = i)
  BY Zenon DEF S!Start
<1> QED BY <1>1, <1>2

LEMMA InitIsIdle == ASSUME S!Init PROVE JobInv /\ CopiesInv
<1>1. /\ job = [p \in Menus |-> S!NoJob] /\ had \subseteq S!Items
      /\ \A i \in S!Items : dirs[i]["target"] = IF i \in had THEN "whole" ELSE "none"
  BY DEF S!Init, S!Installed, S!Nothing, S!Places, S!Items
<1> QED BY <1>1 DEF JobInv, CopiesInv, CopiesOf, Busy, S!Working, S!NoJob

LEMMA StepKeepsJobs == ASSUME SpeechTyped, JobInv, NEW p \in Menus, NEW i \in S!Items,
                              \/ S!Start(p, i) \/ S!Fetch(p) \/ S!FetchPack(p) \/ S!Clear(p) \/ S!Aside(p)
                              \/ S!Install(p) \/ S!Finish(p) \/ S!Fail(p) \/ S!Stop(p) \/ S!Return(p) \/ S!Remove(p)
                       PROVE  JobInv'
<1> SUFFICES ASSUME ~shared' PROVE JobInv'
  BY DEF JobInv
<1> USE SpeechConstants DEF JobInv, S!Working, S!At, S!Goto, DirsTyped, JobTyped, S!Places, S!Contents, S!Steps
<1>0. /\ ~shared /\ DirsTyped /\ JobTyped
      /\ S!Start(p, i) => \A q \in Menus \ {p} : ~(S!Working(q) /\ job[q].item = i)
  BY AloneStep DEF SpeechTyped
<1>1. CASE S!Start(p, i)
  <2>1. /\ job'[p].at = "fetching" /\ job'[p].item = i
        /\ \A q \in Menus \ {p} : job'[q] = job[q]
        /\ \A j \in S!Items \ {i} : dirs'[j] = dirs[j]
    BY <1>0, <1>1 DEF S!Start
  <2>2. \A q \in Menus \ {p} : S!Working(q) => job[q].item \in S!Items \ {i}
    BY <1>0, <1>1
  <2>3. ASSUME NEW q \in Menus \ {p}
        PROVE  /\ job[q].at \in {"verified", "cleared", "aside"} => dirs'[job[q].item] = dirs[job[q].item]
               /\ job'[q] = job[q]
    BY <2>1, <2>2, <2>3
  <2> QED BY <1>0, <2>1, <2>2, <2>3
<1>2. CASE S!Fetch(p) \/ S!FetchPack(p)
  <2>1. /\ job[p].at = "fetching" /\ job'[p].at = "verified" /\ job'[p].item = job[p].item
        /\ \A q \in Menus \ {p} : job'[q] = job[q]
    BY <1>0, <1>2 DEF S!Fetch, S!FetchPack, S!Fill
  <2>2. dirs' = [dirs EXCEPT ![job[p].item]["fresh"] = "whole"]
    BY <1>0, <1>2, Zenon DEF S!Fetch, S!FetchPack, S!Fill
  <2>3. job[p].item \in S!Items
    BY <1>0
  <2>4. /\ dirs'[job[p].item]["fresh"] = "whole"
        /\ \A j \in S!Items \ {job[p].item} : dirs'[j] = dirs[j]
    BY <1>0, <2>2, <2>3
  <2>5. \A q \in Menus : /\ job'[q].item = job[q].item /\ (S!Working(q))' = S!Working(q)
                         /\ q # p /\ S!Working(q) => job[q].item \in S!Items \ {job[p].item}
    BY <1>0, <2>1
  <2> QED BY <1>0, <2>1, <2>4, <2>5
<1>3. CASE S!Clear(p) BY <1>0, <1>3 DEF S!Clear
<1>4. CASE S!Aside(p) BY <1>0, <1>4 DEF S!Aside, S!Move, S!Exists
<1>5. CASE S!Install(p) BY <1>0, <1>5 DEF S!Install, S!Move
<1>6. CASE S!Finish(p) BY <1>0, <1>6 DEF S!Finish
<1>7. CASE S!Fail(p)
  <2>1. /\ S!Working(p) /\ job'[p].at = "failed" /\ job'[p].item = job[p].item
        /\ \A q \in Menus \ {p} : job'[q] = job[q]
        /\ \A j \in S!Items \ {job[p].item} : dirs'[j] = dirs[j]
    BY <1>0, <1>7 DEF S!Fail
  <2> QED BY <1>0, <2>1
<1>8. CASE S!Stop(p) BY <1>0, <1>8 DEF S!Stop, S!NoJob
<1>9. CASE S!Return(p) BY <1>0, <1>9 DEF S!Return, S!NoJob
<1>10. CASE S!Remove(p)
  <2>1. /\ job' = job
        /\ \A j \in S!Items : /\ dirs'[j]["fresh"] = dirs[j]["fresh"] /\ dirs'[j]["previous"] = dirs[j]["previous"]
                              /\ dirs[j]["target"] = "none" => dirs'[j]["target"] = "none"
    BY <1>0, <1>10 DEF S!Remove, S!Exists
  <2> QED BY <1>0, <2>1
<1> QED BY <1>1, <1>2, <1>3, <1>4, <1>5, <1>6, <1>7, <1>8, <1>9, <1>10

\* Under JobInv no step is blocked by another process: a step that fails, and a
\* process that ends at work, is one of the faults that are counted.
LEMMA FailsCost == ASSUME SpeechTyped, JobInv, ~shared, NEW p \in Menus,
                          S!Fail(p) \/ (S!Stop(p) /\ S!Working(p))
                   PROVE  faults' = faults + 1
<1>1. CASE S!Fail(p)
  <2>1. ~S!Blocked(p)
    BY DEF JobInv, S!Blocked, S!At, S!CanInstall, S!Exists
  <2> QED BY <1>1, <2>1 DEF S!Fail, S!Fault
<1>2. CASE S!Stop(p) /\ S!Working(p)
  BY <1>2 DEF S!Stop, S!Fault
<1> QED BY <1>1, <1>2

LEMMA StepKeepsCopies == ASSUME SpeechTyped, JobInv, CopiesInv, NEW p \in Menus, NEW i \in S!Items,
                                \/ S!Start(p, i) \/ S!Fetch(p) \/ S!FetchPack(p) \/ S!Clear(p) \/ S!Aside(p)
                                \/ S!Install(p) \/ S!Finish(p) \/ S!Fail(p) \/ S!Stop(p) \/ S!Return(p) \/ S!Remove(p)
                         PROVE  CopiesInv'
<1> SUFFICES ASSUME ~shared', faults' <= 1 PROVE CopiesInv'
  BY DEF CopiesInv
<1>a. S!Fail(p) \/ (S!Stop(p) /\ S!Working(p)) => faults = 0 /\ faults' = 1
  <2>1. S!Fail(p) \/ (S!Stop(p) /\ S!Working(p)) => faults' = faults + 1
    BY AloneStep, FailsCost
  <2>2. faults \in Nat
    BY SpeechConstants DEF SpeechTyped, TraceTyped
  <2> QED BY <2>1, <2>2
<1> USE SpeechConstants DEF JobInv, CopiesInv, CopiesOf, Busy, S!Working, S!At, S!Goto, DirsTyped, JobTyped, S!Places,
                            S!Contents, S!Steps
<1>0. /\ ~shared /\ DirsTyped /\ JobTyped /\ faults \in Nat /\ had \in SUBSET S!Items
      /\ S!Start(p, i) => \A q \in Menus \ {p} : ~(S!Working(q) /\ job[q].item = i)
  BY AloneStep DEF SpeechTyped, TraceTyped
<1>1. CASE S!Start(p, i)
  <2>1. /\ job'[p].at = "fetching" /\ job'[p].item = i /\ UNCHANGED <<had, faults>>
        /\ \A q \in Menus \ {p} : job'[q] = job[q]
        /\ \A j \in S!Items : /\ dirs'[j]["target"] = dirs[j]["target"]
                              /\ dirs'[j]["previous"] = dirs[j]["previous"]
    BY <1>0, <1>1 DEF S!Start
  <2>2. ~S!Working(p)
    BY <1>1 DEF S!Start
  <2> QED BY <1>0, <2>1, <2>2
<1>2. CASE S!Fetch(p) \/ S!FetchPack(p)
  <2>1. /\ job[p].at = "fetching" /\ job' = [job EXCEPT ![p].at = "verified"] /\ UNCHANGED <<had, faults>>
        /\ dirs' = [dirs EXCEPT ![job[p].item]["fresh"] = "whole"]
    BY <1>0, <1>2, Zenon DEF S!Fetch, S!FetchPack, S!Fill
  <2>2. /\ job'[p].at = "verified" /\ \A q \in Menus \ {p} : job'[q] = job[q]
        /\ \A j \in S!Items : /\ dirs'[j]["target"] = dirs[j]["target"]
                              /\ dirs'[j]["previous"] = dirs[j]["previous"]
    BY <1>0, <2>1
  <2>3. ASSUME NEW j \in S!Items PROVE CopiesOf(j)'
    BY <1>0, <2>1, <2>2
  <2> QED BY <2>3
<1>3. CASE S!Clear(p)
  <2>1. /\ job[p].at = "verified" /\ job[p].item \in S!Items
        /\ job' = [job EXCEPT ![p].at = "cleared"] /\ UNCHANGED <<had, faults>>
        /\ dirs' = [dirs EXCEPT ![job[p].item]["previous"] = "none"]
    BY <1>0, <1>3 DEF S!Clear
  <2>2. /\ job'[p].at = "cleared" /\ job'[p].item = job[p].item /\ \A q \in Menus \ {p} : job'[q] = job[q]
        /\ \A j \in S!Items : dirs'[j]["target"] = dirs[j]["target"]
        /\ \A j \in S!Items \ {job[p].item} : dirs'[j] = dirs[j]
    BY <1>0, <2>1
  <2>3. ASSUME NEW j \in S!Items \ {job[p].item} PROVE CopiesOf(j)'
    BY <1>0, <2>1, <2>2, <2>3
  <2>4. \A q \in Menus \ {p} : S!Working(q) => job[q].item # job[p].item
    BY <1>0, <2>1
  <2>5. ASSUME NEW j \in S!Items, j = job[p].item PROVE CopiesOf(j)'
    BY <1>0, <2>1, <2>2, <2>4, <2>5
  <2> QED BY <2>3, <2>5
<1>4. CASE S!Aside(p) BY <1>0, <1>4 DEF S!Aside, S!Move, S!Exists
<1>5. CASE S!Install(p) BY <1>0, <1>5 DEF S!Install, S!Move
<1>6. CASE S!Finish(p) BY <1>0, <1>6 DEF S!Finish
<1>7. CASE S!Fail(p)
  <2> DEFINE k == job[p].item
  <2>1. /\ k \in S!Items /\ faults = 0 /\ faults' = 1 /\ had' = had
        /\ job' = [job EXCEPT ![p].at = "failed"] /\ job[p].at \in {"fetching", "verified", "cleared", "aside"}
    <3>1. faults = 0 /\ faults' = 1
      BY <1>a, <1>7
    <3> QED BY <1>0, <1>7, <3>1 DEF S!Fail
  <2>2. /\ job'[p].at = "failed" /\ job'[p].item = job[p].item /\ \A q \in Menus \ {p} : job'[q] = job[q]
        /\ \A j \in S!Items \ {k} : dirs'[j] = dirs[j]
        /\ dirs'[k]["target"] = IF S!RollsBack(p) THEN dirs[k]["previous"] ELSE dirs[k]["target"]
        /\ dirs'[k]["previous"] = IF S!RollsBack(p) THEN "none" ELSE dirs[k]["previous"]
    BY <1>0, <1>7, <2>1 DEF S!Fail
  <2>3. ASSUME NEW j \in S!Items \ {k} PROVE CopiesOf(j)'
    BY <1>0, <2>1, <2>2, <2>3
  <2>4. \A q \in Menus \ {p} : S!Working(q) => job[q].item # k
    BY <1>0, <2>1
  <2>5. k \in had => "whole" \in {dirs'[k]["target"], dirs'[k]["previous"]}
    BY <1>0, <2>1, <2>2, <2>4 DEF S!RollsBack, S!Exists
  <2>6. ASSUME NEW j \in S!Items, j = k PROVE CopiesOf(j)'
    BY <1>0, <2>1, <2>2, <2>4, <2>5, <2>6
  <2> QED BY <2>3, <2>6
<1>8. CASE S!Stop(p)
  <2>1. job'[p].at = "idle" /\ (\A q \in Menus \ {p} : job'[q] = job[q]) /\ UNCHANGED <<dirs, had>>
    BY <1>0, <1>8 DEF S!Stop, S!NoJob
  <2>2. IF S!Working(p) THEN faults = 0 /\ faults' = 1 ELSE faults' = faults
    BY <1>0, <1>a, <1>8 DEF S!Stop
  <2>3. ASSUME NEW j \in S!Items PROVE CopiesOf(j)'
    BY <1>0, <2>1, <2>2
  <2> QED BY <2>3
<1>9. CASE S!Return(p) BY <1>0, <1>9 DEF S!Return, S!NoJob
<1>10. CASE S!Remove(p)
  <2>1. had' = {}
    BY <1>10 DEF S!Remove
  <2>2. ASSUME faults' = 0 PROVE \A j \in S!Items : dirs'[j]["target"] = "none"
    BY <1>0, <1>10, <2>2 DEF S!Remove, S!Fault
  <2> QED BY <2>1, <2>2
<1> QED BY <1>1, <1>2, <1>3, <1>4, <1>5, <1>6, <1>7, <1>8, <1>9, <1>10

\* A whole copy of what is installed is at one of the three places.
LEMMA CopiesSurvive == SpeechTyped /\ JobInv /\ CopiesInv => S!ModelSurvives
  BY DEF SpeechTyped, DirsTyped, JobTyped, TraceTyped, JobInv, CopiesInv, CopiesOf, Busy, S!ModelSurvives, S!Places

\* The inductive invariant of the directories.
SpeechInv == SpeechTyped /\ JobInv /\ CopiesInv

LEMMA SpeechKeepsAll == ASSUME SpeechInv, [S!Next]_(S!vars) PROVE SpeechInv'
<1>1. CASE S!Next
  <2>1. PICK p \in Menus, i \in S!Items :
           \/ S!Start(p, i) \/ S!Fetch(p) \/ S!FetchPack(p) \/ S!Clear(p) \/ S!Aside(p)
           \/ S!Install(p) \/ S!Finish(p) \/ S!Fail(p) \/ S!Stop(p) \/ S!Return(p) \/ S!Remove(p)
    BY <1>1, SpeechConstants, Zenon DEF S!Next
  <2> QED BY <2>1, SpeechStepTyped, StepKeepsJobs, StepKeepsCopies DEF SpeechInv
<1>2. CASE UNCHANGED S!vars
  <2>1. SpeechTyped'
    BY <1>2, Zenon DEF S!vars, SpeechInv, SpeechTyped, DirsTyped, JobTyped, TraceTyped
  <2>2. JobInv' /\ CopiesInv'
    BY <1>2 DEF S!vars, SpeechInv, JobInv, CopiesInv, CopiesOf, Busy, S!Working
  <2> QED BY <2>1, <2>2 DEF SpeechInv
<1> QED BY <1>1, <1>2

\* It is what download_model, install_backend and remove_speech_pack
\* (src/vibeslopik_host/speech.py) keep for any processes that replace models and the
\* program, fail and end at any step.
THEOREM SpeechInductive == S!Spec => []SpeechInv
<1>1. S!Init => SpeechInv
  BY SpeechInitTyped, InitIsIdle DEF SpeechInv
<1> QED BY <1>1, SpeechKeepsAll, PTL DEF S!Spec
-----------------------------------------------------------------------------
(* Every step is one of HostConfig, or leaves the configuration alone, and likewise of
   SpeechPack. *)

\* What autostart launched last is a Host.
ServiceTyped == service \in Hosts \cup {"nobody"}

LEMMA Untouched == UNCHANGED configVars <=> UNCHANGED C!vars
  BY DEF configVars, C!vars, C!files, C!counts, C!history

LEMMA ConfigStep == ASSUME NEW p \in Procs, NEW found \in BOOLEAN, NEW speech \in Speech,
                           \/ C!ReadConfig(p) \/ C!Preserve(p) \/ C!Refuse(p) \/ C!ReadSecrets(p, found)
                           \/ C!WriteConfig(p) \/ C!WriteSecrets(p) \/ C!FailWrite(p)
                           \/ C!SetUp(p) \/ C!GiveUpSetUp(p) \/ C!Save(p, speech) \/ C!End(p)
                    PROVE  C!Next
  BY Zenon DEF C!Next

\* There is a Boolean and there are settings.
LEMMA Some == TRUE \in BOOLEAN /\ FALSE \in BOOLEAN /\ NoSpeech \in Speech
  BY ConfigAssumption DEF C!Assumptions

\* Where a process goes on is a step of its own load or save.
LEMMA ContinuesStep == ASSUME NEW p \in Procs, Continues(p) PROVE C!Next
  BY Some, ConfigStep, Zenon DEF Continues

\* The settings that the speech menu saves are settings.
LEMMA SpeechSettings == ASSUME ConfigTyped, NEW p \in Procs, NEW b \in BOOLEAN, NEW profile \in Profiles
                        PROVE  /\ store[p].speech \in Speech
                               /\ Enabled(p, b) \in Speech
                               /\ [store[p].speech EXCEPT !.profile = profile] \in Speech
                               /\ [enabled |-> b, profile |-> profile] \in Speech
<1>1. store[p].speech \in Speech
  BY DEF ConfigTyped, StoreTyped, Copies
<1> QED BY <1>1 DEF Enabled, Speech

LEMMA MenuStep == ASSUME ConfigTyped, ServiceTyped, NEW p \in Menus, MenuNext(p)
                  PROVE  C!Next \/ UNCHANGED configVars
<1> p \in Procs BY DEF Procs
<1>1. CASE Open(p) BY <1>1, Some, ConfigStep, Zenon DEF Open
<1>2. CASE GoOn(p) BY <1>2, ContinuesStep, Zenon DEF GoOn
<1>3. CASE CannotSave(p) BY <1>3, Some, ConfigStep, Zenon DEF CannotSave
<1>4. CASE ConfigMenu(p)
  <2>1. store[p].speech \in Speech
    BY SpeechSettings, Some DEF Speech
  <2> QED BY <1>4, <2>1, Some, ConfigStep, Zenon DEF ConfigMenu
<1>5. CASE Leave(p) \/ Kill(p) BY <1>5, Some, ConfigStep, Zenon DEF Leave, Kill
<1>6. CASE Downloaded(p)
  <2>1. Enabled(p, TRUE) \in Speech
    BY SpeechSettings, ProfilesAssumption
  <2> QED BY <1>6, <2>1, Some, ConfigStep, Zenon DEF Downloaded, Saves
<1>7. CASE Toggle(p)
  <2>1. store[p].speech.enabled \in BOOLEAN
    BY SpeechSettings, Some, ProfilesAssumption DEF Speech
  <2>2. (~store[p].speech.enabled) \in BOOLEAN
    BY <2>1
  <2>3. Enabled(p, ~store[p].speech.enabled) \in Speech
    BY <2>2, SpeechSettings, ProfilesAssumption, Zenon
  <2> QED BY <1>7, <2>3, Some, ConfigStep, Zenon DEF Toggle, Saves
<1>8. CASE Choose(p)
  <2>1. PICK profile \in Profiles : C!Save(p, [enabled |-> FALSE, profile |-> profile])
    BY <1>8, Zenon DEF Choose, Saves
  <2>2. [enabled |-> FALSE, profile |-> profile] \in Speech
    BY SpeechSettings, Some
  <2> QED BY <2>1, <2>2, Some, ConfigStep, Zenon
<1>9. CASE Remove(p)
  <2>1. Enabled(p, FALSE) \in Speech
    BY SpeechSettings, ProfilesAssumption
  <2> QED BY <1>9, <2>1, Some, ConfigStep, Zenon DEF Remove, Saves
<1>10. CASE \/ Look(p) \/ Back(p) \/ Install(p) \/ Download(p) \/ NotDownloaded(p) \/ Removed(p)
            \/ Start(p) \/ Ask(p) \/ Check(p) \/ Stopped(p) \/ Autostart(p)
  BY <1>10, Zenon DEF Look, Back, Install, Download, NotDownloaded, Removed, Start, Ask, Check,
                      Stopped, Autostart
<1>11. CASE \E h \in Hosts : Spawn(p, h) \/ Stop(p, h)
  BY <1>11, Zenon DEF Spawn, Stop
<1>12. CASE NoAutostart(p)
  <2>1. CASE UNCHANGED configVars
    BY <2>1
  <2>2. CASE ~UNCHANGED configVars
    <3>1. C!End(service) /\ ServiceRuns
      BY <1>12, <2>2, Zenon DEF NoAutostart
    <3>2. service \in Procs
      BY <3>1 DEF ServiceTyped, ServiceRuns, Procs
    <3> QED BY <3>1, <3>2, Some, ConfigStep, Zenon
  <2> QED BY <2>1, <2>2
<1> QED BY <1>1, <1>2, <1>3, <1>4, <1>5, <1>6, <1>7, <1>8, <1>9, <1>10, <1>11, <1>12, Zenon DEF MenuNext

LEMMA HostStep == ASSUME NEW h \in Hosts, HostNext(h) PROVE C!Next \/ UNCHANGED configVars
<1> h \in Procs BY DEF Procs
<1>1. CASE HostLoads(h) BY <1>1, ContinuesStep, Some, ConfigStep, Zenon DEF HostLoads
<1>2. CASE StartCodex(h) \/ Bind(h) \/ Close(h) \/ Restart(h)
  BY <1>2, Zenon DEF StartCodex, Bind, Close, Restart
<1>3. CASE HostFails(h) \/ HostDies(h) \/ Closed(h)
  BY <1>3, Some, ConfigStep, Zenon DEF HostFails, HostDies, Closed, Ends
<1> QED BY <1>1, <1>2, <1>3, Zenon DEF HostNext

\* One step of the whole is one of HostConfig.
LEMMA StepIsConfigStep == ASSUME ConfigTyped, ServiceTyped, [Next]_vars PROVE [C!Next]_(C!vars)
<1> SUFFICES C!Next \/ UNCHANGED configVars
  BY Untouched, Zenon
<1>1. CASE \E p \in Menus : MenuNext(p) BY <1>1, MenuStep
<1>2. CASE \E h \in Hosts : HostNext(h) BY <1>2, HostStep
<1>3. CASE Damage BY <1>3, Zenon DEF Damage, C!Next
<1>4. CASE UNCHANGED vars BY <1>4 DEF vars
<1> QED BY <1>1, <1>2, <1>3, <1>4, Zenon DEF Next

LEMMA SpeechStep == ASSUME NEW p \in Menus, NEW i \in S!Items,
                           \/ S!Start(p, i) \/ S!Fetch(p) \/ S!FetchPack(p) \/ S!Clear(p) \/ S!Aside(p)
                           \/ S!Install(p) \/ S!Finish(p) \/ S!Fail(p) \/ S!Stop(p) \/ S!Return(p) \/ S!Remove(p)
                    PROVE  S!Next
  BY Zenon DEF S!Next

\* Both items that a menu installs are items.
LEMMA MenuItems == ASSUME ConfigTyped, NEW p \in Menus PROVE Pack \in S!Items /\ Profile(p) \in S!Items
<1>1. store[p].speech \in Speech
  BY DEF ConfigTyped, StoreTyped, Copies, Procs
<1> QED BY <1>1, SpeechConstants DEF Speech, Profile, S!Items

\* Only a menu that downloads, installs or removes the Speech Pack, or is killed,
\* touches it.
LEMMA StepIsSpeechStep == ASSUME ConfigTyped, [Next]_vars PROVE [S!Next]_(S!vars)
<1> SUFFICES S!Next \/ UNCHANGED speechVars
  BY DEF speechVars, S!vars
<1>1. CASE \E p \in Menus : MenuNext(p)
  <2> PICK p \in Menus : MenuNext(p) BY <1>1
  <2>1. CASE Install(p) BY <2>1, MenuItems, SpeechStep, Zenon DEF Install
  <2>2. CASE \/ Download(p) \/ Downloaded(p) \/ NotDownloaded(p) \/ Removed(p) \/ Kill(p)
    BY <2>2, MenuItems, SpeechStep, Zenon DEF Download, Downloaded, NotDownloaded, Removed, Kill
  <2>3. CASE \/ Open(p) \/ GoOn(p) \/ CannotSave(p) \/ ConfigMenu(p) \/ Leave(p) \/ Look(p) \/ Back(p)
             \/ Toggle(p) \/ Choose(p) \/ Remove(p) \/ Start(p) \/ Ask(p) \/ Check(p) \/ Stopped(p)
             \/ Autostart(p) \/ NoAutostart(p) \/ \E h \in Hosts : Spawn(p, h) \/ Stop(p, h)
    BY <2>3, Zenon DEF Open, GoOn, CannotSave, ConfigMenu, Leave, Look, Back, Toggle, Choose, Remove, Start,
                       Ask, Check, Stopped, Autostart, NoAutostart, Spawn, Stop
  <2> QED BY <2>1, <2>2, <2>3, Zenon DEF MenuNext
<1>2. CASE \E h \in Hosts : HostNext(h)
  BY <1>2, Zenon DEF HostNext, HostLoads, StartCodex, Bind, HostFails, HostDies, Close, Closed, Restart, Ends
<1>3. CASE Damage BY <1>3, Zenon DEF Damage
<1>4. CASE UNCHANGED vars BY <1>4 DEF vars
<1> QED BY <1>1, <1>2, <1>3, <1>4, Zenon DEF Next
-----------------------------------------------------------------------------
(* Types of what menus and Hosts do *)

TaskTyped == task \in [Menus -> Tasks]
StatusTyped == status \in [Menus -> [pack : BOOLEAN, model : BOOLEAN]]
LifeTyped == life \in [Hosts -> Lives]
ChildTyped == child \in [Menus -> Hosts \cup {"nobody"}]
ToldTyped == told \in [Menus -> Answers]
LeftTyped == left \in [Kinds -> Nat]
FlagTyped == auto \in BOOLEAN /\ crossed \in BOOLEAN
ContestedTyped == contested \subseteq Menus
DeskTyped == /\ TaskTyped /\ StatusTyped /\ LifeTyped /\ ChildTyped /\ ToldTyped
             /\ FlagTyped /\ ServiceTyped /\ LeftTyped /\ ContestedTyped

LEMMA DeskInitTyped == ASSUME Init PROVE DeskTyped
<1>1. TaskTyped /\ LifeTyped /\ ChildTyped /\ ToldTyped /\ ServiceTyped /\ ContestedTyped
  BY DEF Init, TaskTyped, LifeTyped, ChildTyped, ToldTyped, ServiceTyped, ContestedTyped, Tasks, Lives, Answers
<1>2. StatusTyped
  BY DEF Init, StatusTyped, NoStatus
<1>3. FlagTyped
  BY Zenon DEF Init, FlagTyped
<1>4. LeftTyped
  BY PlansAssumption DEF Init, LeftTyped
<1> QED BY <1>1, <1>2, <1>3, <1>4 DEF DeskTyped

\* What each step of a menu does to its task.
LEMMA MenuTask == ASSUME TaskTyped, NEW p \in Menus, MenuNext(p)
                  PROVE  \E t \in Tasks : task' = [task EXCEPT ![p] = t]
<1> USE DEF Goto
<1>0. task[p] \in Tasks /\ task = [task EXCEPT ![p] = task[p]]
  BY DEF TaskTyped
<1>1. CASE \/ Open(p) \/ ConfigMenu(p) \/ Download(p) \/ Autostart(p) \/ NoAutostart(p)
  <2>1. task' = task
    BY <1>1, Zenon DEF Open, ConfigMenu, Download, Autostart, NoAutostart, menuVars
  <2> QED BY <1>0, <2>1
<1>2. CASE GoOn(p)
  BY <1>0, <1>2 DEF GoOn, Tasks
<1>3. CASE CannotSave(p) \/ Leave(p) \/ Kill(p) \/ Back(p) \/ NotDownloaded(p) \/ Removed(p) \/ Stopped(p)
  BY <1>3 DEF CannotSave, Leave, Kill, Back, NotDownloaded, Removed, Stopped, Forget, Says, Tasks
<1>4. CASE Look(p) \/ Install(p) \/ Downloaded(p) \/ Toggle(p) \/ Choose(p) \/ Remove(p)
  BY <1>4 DEF Look, Install, Downloaded, Toggle, Choose, Remove, Saves, Tasks
<1>5. CASE Start(p) \/ Ask(p) \/ Check(p)
  BY <1>5 DEF Start, Ask, Check, Says, Tasks
<1>6. CASE \E h \in Hosts : Spawn(p, h) \/ Stop(p, h)
  BY <1>6 DEF Spawn, Stop, Tasks
<1> QED BY <1>1, <1>2, <1>3, <1>4, <1>5, <1>6, Zenon DEF MenuNext

\* What each step of a menu leaves alone of the rest.
LEMMA MenuRest == ASSUME DeskTyped, NEW p \in Menus, MenuNext(p)
                  PROVE  StatusTyped' /\ ChildTyped' /\ ToldTyped' /\ FlagTyped' /\ LeftTyped' /\ ContestedTyped'
<1> USE DEF DeskTyped
<1>1. StatusTyped'
  <2>1. CASE Look(p)
    <3>1. PICK pack \in S!Ready(Pack), model \in S!Ready(Profile(p)) :
             status' = [status EXCEPT ![p] = [pack |-> pack, model |-> model]]
      BY <2>1 DEF Look
    <3>2. \A i : S!Ready(i) \subseteq BOOLEAN
      BY DEF S!Ready
    <3>3. [pack |-> pack, model |-> model] \in [pack : BOOLEAN, model : BOOLEAN]
      BY <3>2, Zenon
    <3> QED BY <3>1, <3>3, Zenon DEF StatusTyped
  <2>2. CASE Leave(p) \/ Kill(p)
    <3>1. status' = [status EXCEPT ![p] = NoStatus]
      BY <2>2, Zenon DEF Leave, Kill, Forget
    <3> QED BY <3>1 DEF StatusTyped, NoStatus
  <2>3. CASE ~(Look(p) \/ Leave(p) \/ Kill(p))
    <3>1. status' = status
      BY <2>3, Zenon DEF MenuNext, Open, GoOn, CannotSave, ConfigMenu, Back, Install, Download, Downloaded,
         NotDownloaded, Toggle, Choose, Remove, Removed, Start, Ask, Check, Stopped, Autostart, NoAutostart,
         Spawn, Stop, Saves, menuVars
    <3> QED BY <3>1 DEF StatusTyped
  <2> QED BY <2>1, <2>2, <2>3
<1>2. ChildTyped'
  <2>1. CASE Leave(p) \/ Kill(p)
    BY <2>1 DEF Leave, Kill, Forget, ChildTyped
  <2>2. CASE \E h \in Hosts : Spawn(p, h)
    BY <2>2 DEF Spawn, ChildTyped
  <2>3. CASE ~(Leave(p) \/ Kill(p) \/ \E h \in Hosts : Spawn(p, h))
    <3>1. child' = child
      BY <2>3, Zenon DEF MenuNext, Open, GoOn, CannotSave, ConfigMenu, Look, Back, Install, Download,
         Downloaded, NotDownloaded, Toggle, Choose, Remove, Removed, Start, Ask, Check, Stopped, Autostart,
         NoAutostart, Stop, Saves, menuVars
    <3> QED BY <3>1 DEF ChildTyped
  <2> QED BY <2>1, <2>2, <2>3
<1>3. ToldTyped'
  <2>1. CASE Start(p) \/ Ask(p) \/ Check(p) \/ Stopped(p)
    BY <2>1 DEF Start, Ask, Check, Stopped, Says, ToldTyped, Answers
  <2>2. CASE ~(Start(p) \/ Ask(p) \/ Check(p) \/ Stopped(p))
    <3>1. told' = told
      BY <2>2, Zenon DEF MenuNext, Open, GoOn, CannotSave, ConfigMenu, Leave, Kill, Look, Back, Install,
         Download, Downloaded, NotDownloaded, Toggle, Choose, Remove, Removed, Autostart, NoAutostart, Spawn,
         Stop, Saves, menuVars
    <3> QED BY <3>1 DEF ToldTyped
  <2> QED BY <2>1, <2>2
<1>4. FlagTyped'
  <2>1. auto' \in {auto, TRUE, FALSE} /\ (crossed' = crossed \/ crossed' = (crossed \/ Crosses(p)))
    BY Zenon DEF MenuNext, Open, GoOn, CannotSave, ConfigMenu, Leave, Kill, Look, Back, Install, Download,
       Downloaded, NotDownloaded, Toggle, Choose, Remove, Removed, Start, Ask, Check, Stopped, Autostart,
       NoAutostart, Spawn, Stop, Saves, hostVars, history
  <2> QED BY <2>1, Zenon DEF FlagTyped
<1>5. LeftTyped'
  <2>1. left' = left \/ \E kind \in Kinds : Spend(kind)
    BY Zenon DEF MenuNext, Open, GoOn, CannotSave, ConfigMenu, Leave, Kill, Look, Back, Install, Download,
       Downloaded, NotDownloaded, Toggle, Choose, Remove, Removed, Start, Ask, Check, Stopped, Autostart,
       NoAutostart, Spawn, Stop, Saves, Continues, Choice, Kinds
  <2> QED BY <2>1 DEF LeftTyped, Spend
<1>6. ContestedTyped'
  <2>1. contested' \in {contested, contested \ {p}, contested \cup {p}, contested \cup Starters,
                        contested \cup (Starters \ {p})}
    BY Zenon DEF MenuNext, Open, GoOn, CannotSave, ConfigMenu, Leave, Kill, Look, Back, Install, Download,
       Downloaded, NotDownloaded, Toggle, Choose, Remove, Removed, Start, Ask, Check, Stopped, Autostart,
       NoAutostart, Spawn, Stop, Saves, Forget, history
  <2> QED BY <2>1 DEF ContestedTyped, Starters
<1> QED BY <1>1, <1>2, <1>3, <1>4, <1>5, <1>6

LEMMA MenuLife == ASSUME DeskTyped, NEW p \in Menus, MenuNext(p) PROVE LifeTyped' /\ ServiceTyped'
<1> USE DEF DeskTyped
<1>1. CASE Autostart(p)
  <2>1. UNCHANGED <<life, service>> \/ \E h \in Hosts : Launch(h) /\ service' = h
    BY <1>1, Zenon DEF Autostart
  <2> QED BY <2>1 DEF Launch, Becomes, LifeTyped, ServiceTyped, Lives
<1>2. CASE NoAutostart(p)
  <2>1. service' = service
    BY <1>2, Zenon DEF NoAutostart
  <2>2. life' = life \/ (ServiceRuns /\ \E l \in Lives : life' = [life EXCEPT ![service] = l])
    <3>1. CASE ServiceRuns /\ ~Starts(service)
      BY <1>2, <3>1 DEF NoAutostart, Becomes, ServiceRuns, LifeTyped, ServiceTyped, Lives
    <3>2. CASE ServiceRuns /\ Starts(service)
      BY <1>2, <3>2 DEF NoAutostart, Becomes, Lives
    <3>3. CASE ~ServiceRuns
      BY <1>2, <3>3 DEF NoAutostart
    <3> QED BY <3>1, <3>2, <3>3
  <2> QED BY <2>1, <2>2 DEF ServiceRuns, Becomes, LifeTyped, ServiceTyped, Lives
<1>3. CASE \E h \in Hosts : Spawn(p, h) \/ Stop(p, h)
  BY <1>3 DEF Spawn, Stop, Launch, Becomes, LifeTyped, ServiceTyped, Lives
<1>4. CASE ~(Autostart(p) \/ NoAutostart(p) \/ \E h \in Hosts : Spawn(p, h) \/ Stop(p, h))
  <2>1. life' = life /\ service' = service
    BY <1>4, Zenon DEF MenuNext, Open, GoOn, CannotSave, ConfigMenu, Leave, Kill, Look, Back, Install, Download,
       Downloaded, NotDownloaded, Toggle, Choose, Remove, Removed, Start, Ask, Check, Stopped, Saves, hostVars
  <2> QED BY <2>1 DEF LifeTyped, ServiceTyped
<1> QED BY <1>1, <1>2, <1>3, <1>4

LEMMA HostTyped == ASSUME DeskTyped, NEW h \in Hosts, HostNext(h) PROVE DeskTyped'
<1> USE DEF DeskTyped
<1>1. UNCHANGED menuVars /\ crossed' = crossed /\ auto' = auto
  BY Zenon DEF HostNext, HostLoads, StartCodex, Bind, HostFails, HostDies, Close, Closed, Restart, Ends, history
<1>2. TaskTyped' /\ StatusTyped' /\ ChildTyped' /\ ToldTyped'
  BY <1>1 DEF menuVars, TaskTyped, StatusTyped, ChildTyped, ToldTyped
<1>3. FlagTyped'
  BY <1>1, Zenon DEF FlagTyped
<1>4. LifeTyped'
  <2>1. \E l \in Lives : Becomes(h, l)
    BY DEF HostNext, HostLoads, StartCodex, Bind, HostFails, HostDies, Close, Closed, Restart, Launch, Ends, Lives, Becomes
  <2> QED BY <2>1 DEF Becomes, LifeTyped
<1>5. ServiceTyped' /\ ContestedTyped'
  <2>1. service' \in {service, h} /\ contested' \in {contested, contested \cup Starters}
    BY Zenon DEF HostNext, HostLoads, StartCodex, Bind, HostFails, HostDies, Close, Closed, Restart, Ends, history
  <2> QED BY <2>1 DEF ServiceTyped, ContestedTyped, Starters
<1>6. LeftTyped'
  <2>1. left' = left \/ \E kind \in Kinds : Spend(kind)
    BY Zenon DEF HostNext, HostLoads, StartCodex, Bind, HostFails, HostDies, Close, Closed, Restart, Continues, Kinds
  <2> QED BY <2>1 DEF LeftTyped, Spend
<1> QED BY <1>2, <1>3, <1>4, <1>5, <1>6

LEMMA DeskStepTyped == ASSUME DeskTyped, [Next]_vars PROVE DeskTyped'
<1>1. ASSUME NEW p \in Menus, MenuNext(p) PROVE DeskTyped'
  <2>1. TaskTyped'
    BY <1>1, MenuTask DEF DeskTyped, TaskTyped
  <2> QED BY <1>1, <2>1, MenuRest, MenuLife DEF DeskTyped
<1>2. CASE Damage
  <2>1. UNCHANGED <<menuVars, hostVars, history>>
    BY <1>2 DEF Damage
  <2>2. FlagTyped'
    BY <2>1, Zenon DEF DeskTyped, FlagTyped, hostVars, history
  <2>3. LeftTyped'
    BY <1>2 DEF Damage, Spend, DeskTyped, LeftTyped, Kinds
  <2> QED BY <2>1, <2>2, <2>3 DEF DeskTyped, TaskTyped, StatusTyped, LifeTyped, ChildTyped, ToldTyped,
          ServiceTyped, ContestedTyped, menuVars, hostVars, history
<1>3. CASE UNCHANGED vars
  <2>1. FlagTyped'
    BY <1>3, Zenon DEF DeskTyped, FlagTyped, vars, hostVars, history
  <2> QED BY <1>3, <2>1 DEF DeskTyped, TaskTyped, StatusTyped, LifeTyped, ChildTyped, ToldTyped,
          ServiceTyped, ContestedTyped, LeftTyped, vars, menuVars, hostVars, history
<1> QED BY <1>1, <1>2, <1>3, HostTyped, Zenon DEF Next
-----------------------------------------------------------------------------
(* What the menus know of the Speech Pack *)

\* The items that are installed; after a fault, what is left of one may look as if.
Present == { i \in S!Items : \/ i \in had
                             \/ /\ faults # 0
                                /\ \/ dirs[i]["target"] # "none" \/ dirs[i]["previous"] = "whole"
                                   \/ Busy(i, {"cleared", "aside"}) }

\* Nothing but a removal takes an item away.
LEMMA PresentStays == ASSUME SpeechInv, ~shared', faults' <= 1, NEW p \in Menus, NEW i \in S!Items,
                             job[p].at = "installed" => job[p].item \in had,
                             \/ S!Start(p, i) \/ S!Fetch(p) \/ S!FetchPack(p) \/ S!Clear(p) \/ S!Aside(p)
                             \/ S!Install(p) \/ S!Finish(p) \/ S!Fail(p) \/ S!Stop(p) \/ S!Return(p)
                      PROVE  had \subseteq had' /\ Present \subseteq Present'
<1>1. ~shared /\ faults \in Nat /\ faults' \in Nat /\ had \subseteq S!Items /\ job[p].item \in S!Items
  <2>1. SpeechTyped'
    BY SpeechStepTyped DEF SpeechInv
  <2> QED BY <2>1, AloneStep, SpeechConstants DEF SpeechInv, SpeechTyped, TraceTyped, JobTyped
<1>2. had \subseteq had'
  BY DEF S!Start, S!Fetch, S!FetchPack, S!Fill, S!Clear, S!Aside, S!Install, S!Finish, S!Fail, S!Stop, S!Return
<1>3. faults' = faults \/ faults' = faults + 1
  BY Zenon DEF S!Start, S!Fetch, S!FetchPack, S!Fill, S!Clear, S!Aside, S!Install, S!Finish, S!Fail, S!Stop,
               S!Return, S!Fault
<1>4. SUFFICES ASSUME NEW j \in S!Items, j \notin had, faults # 0,
                      \/ dirs[j]["target"] # "none" \/ dirs[j]["previous"] = "whole"
                      \/ Busy(j, {"cleared", "aside"})
               PROVE  \/ dirs'[j]["target"] # "none" \/ dirs'[j]["previous"] = "whole"
                      \/ Busy(j, {"cleared", "aside"})'
  <2>1. faults # 0 => faults' # 0
    BY <1>1, <1>3
  <2> QED BY <1>1, <1>2, <2>1 DEF Present
<1>5. faults' = faults /\ faults = 1
  BY <1>1, <1>3, <1>4
<1>6. ~S!Fail(p) /\ ~(S!Stop(p) /\ S!Working(p))
  BY <1>1, <1>5, FailsCost DEF SpeechInv
<1>7. DirsTyped /\ JobTyped
  BY DEF SpeechInv, SpeechTyped
<1> USE DEF Busy, S!At, S!Goto, DirsTyped, JobTyped, S!Places, S!Contents, S!Steps
<1>8. CASE S!Start(p, i)
  <2>1. /\ ~S!Working(p) /\ dirs'[j]["target"] = dirs[j]["target"] /\ dirs'[j]["previous"] = dirs[j]["previous"]
        /\ \A q \in Menus \ {p} : job'[q] = job[q]
    BY <1>7, <1>8 DEF S!Start
  <2> QED BY <1>4, <2>1 DEF S!Working
<1>9. CASE S!Fetch(p) \/ S!FetchPack(p)
  <2>1. /\ ~(job[p].at \in {"cleared", "aside"}) /\ \A q \in Menus \ {p} : job'[q] = job[q]
        /\ dirs'[j]["target"] = dirs[j]["target"] /\ dirs'[j]["previous"] = dirs[j]["previous"]
    <3>1. PICK content : dirs' = [dirs EXCEPT ![job[p].item]["fresh"] = content]
      BY <1>9, Zenon DEF S!Fetch, S!FetchPack, S!Fill
    <3>2. job[p].at = "fetching" /\ job' = [job EXCEPT ![p].at = "verified"]
      BY <1>9 DEF S!Fetch, S!FetchPack, S!Fill
    <3> QED BY <1>7, <3>1, <3>2
  <2> QED BY <1>4, <2>1
<1>10. CASE S!Clear(p)
  <2>1. /\ job'[p].at = "cleared" /\ job'[p].item = job[p].item /\ \A q \in Menus \ {p} : job'[q] = job[q]
        /\ dirs'[j]["target"] = dirs[j]["target"] /\ job[p].at = "verified"
        /\ j # job[p].item => dirs'[j] = dirs[j]
    BY <1>7, <1>10 DEF S!Clear
  <2> QED BY <1>4, <2>1
<1>11. CASE S!Aside(p)
  <2>1. /\ job'[p].at = "aside" /\ job'[p].item = job[p].item /\ \A q \in Menus \ {p} : job'[q] = job[q]
        /\ j # job[p].item => dirs'[j] = dirs[j]
    BY <1>1, <1>7, <1>11 DEF S!Aside, S!Move
  <2> QED BY <1>4, <2>1
<1>12. CASE S!Install(p)
  <2>1. /\ \A q \in Menus \ {p} : job'[q] = job[q]
        /\ j = job[p].item => dirs'[j]["target"] # "none"
        /\ j # job[p].item => dirs'[j] = dirs[j]
    BY <1>1, <1>7, <1>12 DEF S!Install, S!CanInstall, S!Exists, S!Move
  <2> QED BY <1>4, <2>1
<1>13. CASE S!Finish(p)
  <2>1. /\ job[p].at = "installed" /\ \A q \in Menus \ {p} : job'[q] = job[q]
        /\ j # job[p].item => dirs'[j] = dirs[j]
    BY <1>7, <1>13 DEF S!Finish
  <2> QED BY <1>4, <2>1
<1>14. CASE S!Stop(p)
  <2>1. ~S!Working(p) /\ dirs' = dirs /\ \A q \in Menus \ {p} : job'[q] = job[q]
    BY <1>6, <1>7, <1>14 DEF S!Stop
  <2> QED BY <1>4, <2>1 DEF S!Working
<1>15. CASE S!Return(p)
  <2>1. ~(job[p].at \in {"cleared", "aside"}) /\ dirs' = dirs /\ \A q \in Menus \ {p} : job'[q] = job[q]
    BY <1>7, <1>15 DEF S!Return
  <2> QED BY <1>4, <2>1
<1> QED BY <1>6, <1>8, <1>9, <1>10, <1>11, <1>12, <1>13, <1>14, <1>15

\* How a menu's task, its place in the configuration and its download go together.
TaskOf(p) ==
    /\ task[p] \in {"pack", "model"} <=> job[p].at # "idle"
    /\ task[p] \in {"speech", "pack", "model"} => at[p] = "ready"
    /\ task[p] \in {"saving", "removing"} => at[p] \in Having
    /\ task[p] = "pack" => job[p].item = Pack
    /\ task[p] = "model" => job[p].item = Profile(p)
    /\ task[p] = "removing" => ~store[p].speech.enabled

TaskInv == /\ \A p \in Procs : at[p] = "off" => store[p].speech = NoSpeech
           /\ \A p \in Menus : TaskOf(p)

Spoilt == overwritten \/ crossed \/ shared \/ faults > 1

Has(speech) == speech.enabled => Pack \in Present /\ speech.profile \in Present

\* The file, and the copies that are not outdated, have speech enabled only with its
\* program and model.
FileHas == config.is = "whole" => Has(config.speech)
CopiesHave == \A p \in Procs \ outdated : Has(store[p].speech)

\* What a menu has seen or installed is there.
Seen(p) ==
    /\ task[p] \in {"speech", "pack", "model"} =>
         /\ status[p].pack => Pack \in Present
         /\ status[p].model => Profile(p) \in Present
    /\ task[p] = "model" => Pack \in Present
    /\ job[p].at \in {"installed", "done"} => job[p].item \in had

\* A menu about to remove it has disabled speech for all: no Host loads it as enabled.
Disabled(p) ==
    task[p] = "removing" /\ p \notin outdated /\ at[p] \in {"secrets", "ready"}
      => /\ config.is = "whole" => ~config.speech.enabled
         /\ \A h \in Hosts \ outdated : ~store[h].speech.enabled

EnabledInv == ~Spoilt => FileHas /\ CopiesHave /\ \A p \in Menus : Seen(p) /\ Disabled(p)

\* What a step of process p on the configuration does to the copies and to speech.
Elsewhere(p) == \A q \in Procs \ {p} : store'[q] = store[q] /\ at'[q] = at[q]

ReadsSpeech(p) == /\ at[p] = "off" /\ at'[p] \in {"read", "damaged"}
                  /\ UNCHANGED <<config, outdated>>
                  /\ store'[p].speech = IF config.is = "whole" THEN config.speech ELSE NoSpeech

EndsSpeech(p) == /\ at'[p] = "off" /\ store'[p].speech = NoSpeech
                 /\ config' = config /\ outdated' = outdated \ {p}

WritesSpeech(p) == /\ store'[p].speech = store[p].speech
                   /\ p \in outdated => overwritten'
                   /\ outdated' = { q \in Procs \ {p} : at[q] # "off" }
                   /\ \/ /\ at[p] = "config" /\ at'[p] = "secrets"
                         /\ config'.is = "whole" /\ config'.speech = store[p].speech
                      \/ at[p] = "secrets" /\ at'[p] = "ready" /\ config' = config

KeepsSpeech(p) == /\ at'[p] # "off" /\ store'[p].speech = store[p].speech
                  /\ outdated' = outdated
                  /\ config' = config \/ config'.is # "whole"

SavesSpeech(p, speech) == /\ at[p] = "ready" /\ at'[p] = "config" /\ store'[p].speech = speech
                          /\ UNCHANGED <<config, outdated>>

\* A load, up to the first save, and the end of a process.
LEMMA EndStep == ASSUME ConfigTyped, NEW p \in Procs, C!End(p) \/ C!Refuse(p)
                 PROVE  Elsewhere(p) /\ EndsSpeech(p)
  BY DEF ConfigTyped, StoreTyped, AtTyped, C!End, C!Refuse, C!Quit, C!Goto, C!Nobody, Copies, Elsewhere, EndsSpeech

LEMMA ReadStep == ASSUME ConfigTyped, NEW p \in Procs, C!ReadConfig(p)
                  PROVE  Elsewhere(p) /\ ReadsSpeech(p)
  BY DEF ConfigTyped, StoreTyped, AtTyped, C!ReadConfig, C!Goto, C!Merged, C!Defaults, C!Nobody, Copies,
         FilesTyped, Configs, Elsewhere, ReadsSpeech

LEMMA LoadStep == ASSUME ConfigTyped, NEW p \in Procs, NEW found \in BOOLEAN,
                         C!Preserve(p) \/ C!ReadSecrets(p, found)
                  PROVE  /\ Elsewhere(p) /\ at[p] \in {"damaged", "read"}
                         /\ EndsSpeech(p) \/ KeepsSpeech(p)
<1>1. CASE C!Preserve(p)
  <2>1. CASE config.is = "missing"
    <3>1. C!Quit(p) /\ config' = config /\ at[p] = "damaged"
      BY <1>1, <2>1 DEF C!Preserve
    <3> QED BY <3>1 DEF ConfigTyped, StoreTyped, AtTyped, C!Quit, C!Goto, C!Nobody, Copies, Elsewhere, EndsSpeech
  <2>2. CASE config.is # "missing"
    <3>1. /\ config' = C!Default /\ outdated' = outdated /\ at[p] = "damaged"
          /\ at' = [at EXCEPT ![p] = "read"] /\ store' = [store EXCEPT ![p].recovered = TRUE]
      BY <1>1, <2>2 DEF C!Preserve, C!Goto
    <3> QED BY <3>1 DEF ConfigTyped, StoreTyped, AtTyped, C!Default, Copies, Elsewhere, KeepsSpeech
  <2> QED BY <2>1, <2>2
<1>2. CASE C!ReadSecrets(p, found)
  <2> DEFINE secret == IF store[p].legacy # 0 /\ secrets.secret = 0 THEN store[p].legacy ELSE secrets.secret
             token == IF C!LacksToken(p) THEN tokens + 1 ELSE secrets.token
  <2>1. PICK b \in BOOLEAN :
           /\ store' = [store EXCEPT ![p].legacy = 0, ![p].secret = secret, ![p].token = token, ![p].loaded = b]
           /\ at' = [at EXCEPT ![p] = IF b THEN "ready" ELSE "config"]
    BY <1>2, Zenon DEF C!ReadSecrets, C!Goto
  <2> HIDE DEF secret, token
  <2>2. UNCHANGED <<config, outdated>> /\ at[p] = "read"
    BY <1>2 DEF C!ReadSecrets
  <2>3. store'[p].speech = store[p].speech /\ at'[p] \in {"config", "ready"} /\ Elsewhere(p)
    BY <2>1 DEF ConfigTyped, StoreTyped, AtTyped, Copies, Elsewhere
  <2> QED BY <2>2, <2>3 DEF KeepsSpeech
<1> QED BY <1>1, <1>2

LEMMA WriteStep == ASSUME ConfigTyped, NEW p \in Procs, C!WriteConfig(p) \/ C!WriteSecrets(p)
                   PROVE  /\ Elsewhere(p) /\ at[p] \in {"config", "secrets"}
                          /\ EndsSpeech(p) \/ WritesSpeech(p)
<1> USE DEF ConfigTyped, StoreTyped, AtTyped, C!Goto, Copies, Elsewhere
<1>1. CASE C!WriteConfig(p) /\ C!IsValid(p)
  <2>1. p \in outdated => overwritten'
    BY <1>1, Zenon DEF C!WriteConfig, C!Writes
  <2> QED BY <1>1, <2>1 DEF C!WriteConfig, C!Writes, C!Alive, C!Toml, WritesSpeech
<1>2. CASE C!WriteConfig(p) /\ ~C!IsValid(p)
  BY <1>2 DEF C!WriteConfig, C!Quit, C!Nobody, EndsSpeech
<1>3. CASE C!WriteSecrets(p)
  <2>1. p \in outdated => overwritten'
    BY <1>3, Zenon DEF C!WriteSecrets, C!Writes
  <2> QED BY <1>3, <2>1 DEF C!WriteSecrets, C!Loaded, C!Writes, C!Alive, WritesSpeech
<1> QED BY <1>1, <1>2, <1>3

LEMMA SetUpStep == ASSUME ConfigTyped, NEW p \in Procs, C!FailWrite(p) \/ C!SetUp(p) \/ C!GiveUpSetUp(p)
                   PROVE  Elsewhere(p) /\ at[p] # "off" /\ KeepsSpeech(p)
<1> USE DEF ConfigTyped, StoreTyped, AtTyped, C!Goto, Copies, Elsewhere, KeepsSpeech
<1>1. CASE C!FailWrite(p) BY <1>1 DEF C!FailWrite
<1>2. CASE C!SetUp(p) BY <1>2 DEF C!SetUp
<1>3. CASE C!GiveUpSetUp(p)
  <2>1. PICK i \in {setups + 1, store[p].secret}, b \in BOOLEAN :
           store' = [store EXCEPT ![p].relay = setups + 1, ![p].secret = i, ![p].valid = b]
    BY <1>3, Zenon DEF C!GiveUpSetUp
  <2>2. UNCHANGED <<config, outdated, at>> /\ at[p] = "ready"
    BY <1>3 DEF C!GiveUpSetUp
  <2> QED BY <2>1, <2>2
<1> QED BY <1>1, <1>2, <1>3

LEMMA SaveStep == ASSUME ConfigTyped, NEW p \in Procs, NEW speech, C!Save(p, speech)
                  PROVE  Elsewhere(p) /\ SavesSpeech(p, speech)
  BY DEF ConfigTyped, StoreTyped, AtTyped, C!Save, C!Goto, Copies, Elsewhere, SavesSpeech
-----------------------------------------------------------------------------
(* Tasks *)

\* What a step of menu p leaves alone of the other menus.
Steady(p) == \A q \in Menus \ {p} : task'[q] = task[q] /\ job'[q] = job[q] /\ status'[q] = status[q]

LEMMA MenuSteady == ASSUME DeskTyped, SpeechTyped, NEW p \in Menus, MenuNext(p) PROVE Steady(p)
<1>1. \A q \in Menus \ {p} : task'[q] = task[q]
  BY MenuTask DEF DeskTyped, TaskTyped
<1>2. \A q \in Menus \ {p} : status'[q] = status[q]
  <2>1. status' = status \/ \E s : status' = [status EXCEPT ![p] = s]
    BY Zenon DEF MenuNext, Open, GoOn, CannotSave, ConfigMenu, Leave, Kill, Look, Back, Install, Download,
       Downloaded, NotDownloaded, Toggle, Choose, Remove, Removed, Start, Ask, Check, Stopped, Autostart,
       NoAutostart, Spawn, Stop, Saves, Forget, menuVars
  <2> QED BY <2>1 DEF DeskTyped, StatusTyped
<1>3. \A q \in Menus \ {p} : job'[q] = job[q]
  <2>1. job' = job \/ \E j : job' = [job EXCEPT ![p] = j]
    <3>1. CASE Install(p) \/ Kill(p) \/ Downloaded(p) \/ NotDownloaded(p) \/ Removed(p)
      BY <3>1, Zenon DEF Install, Kill, Downloaded, NotDownloaded, Removed, S!Start, S!Stop, S!Return, S!Remove
    <3>2. CASE Download(p)
      <4>1. \E step : job' = [job EXCEPT ![p].at = step]
        BY <3>2, Zenon DEF Download, S!Fetch, S!FetchPack, S!Fill, S!Clear, S!Aside, S!Install, S!Finish, S!Fail, S!Goto
      <4> QED BY <4>1
    <3>3. CASE ~(Install(p) \/ Kill(p) \/ Downloaded(p) \/ NotDownloaded(p) \/ Removed(p) \/ Download(p))
      BY <3>3, Zenon DEF MenuNext, Open, GoOn, CannotSave, ConfigMenu, Leave, Look, Back, Toggle, Choose, Remove,
         Start, Ask, Check, Stopped, Autostart, NoAutostart, Spawn, Stop, speechVars
    <3> QED BY <3>1, <3>2, <3>3
  <2> QED BY <2>1 DEF SpeechTyped, JobTyped
<1> QED BY <1>1, <1>2, <1>3 DEF Steady

\* The copy of a process that is not running is empty, whatever a process does.
LEMMA OffStays == ASSUME \A q \in Procs : at[q] = "off" => store[q].speech = NoSpeech,
                         NEW p \in Procs, NEW speech, Elsewhere(p),
                         \/ ReadsSpeech(p) \/ EndsSpeech(p) \/ WritesSpeech(p) \/ KeepsSpeech(p)
                         \/ SavesSpeech(p, speech)
                  PROVE  \A q \in Procs : at'[q] = "off" => store'[q].speech = NoSpeech
<1>1. at'[p] = "off" => store'[p].speech = NoSpeech
  BY DEF ReadsSpeech, EndsSpeech, WritesSpeech, KeepsSpeech, SavesSpeech
<1> QED BY <1>1 DEF Elsewhere

\* Where a process goes on with a load or a save.
LEMMA ContinueStep == ASSUME ConfigTyped, NEW p \in Procs, Continues(p)
                      PROVE  /\ Elsewhere(p) /\ at[p] \in {"damaged", "read", "config", "secrets"}
                             /\ \/ EndsSpeech(p)
                                \/ KeepsSpeech(p) /\ at[p] \in {"damaged", "read"}
                                \/ WritesSpeech(p)
<1>1. CASE C!Preserve(p) \/ C!ReadSecrets(p, FALSE) \/ C!ReadSecrets(p, TRUE)
  BY <1>1, LoadStep
<1>2. CASE C!Refuse(p)
  <2>1. at[p] = "read"
    BY <1>2 DEF C!Refuse
  <2> QED BY <1>2, <2>1, EndStep
<1>3. CASE C!WriteConfig(p) \/ C!WriteSecrets(p)
  BY <1>3, WriteStep
<1> QED BY <1>1, <1>2, <1>3, Zenon DEF Continues

\* What a step of a menu does to the configuration.
LEMMA MenuCopy == ASSUME ConfigTyped, DeskTyped, NEW p \in Menus, MenuNext(p)
                  PROVE  \/ UNCHANGED configVars
                         \/ /\ Elsewhere(p)
                            /\ \/ Open(p) /\ ReadsSpeech(p)
                               \/ GoOn(p) /\ Continues(p)
                               \/ (Leave(p) \/ Kill(p)) /\ EndsSpeech(p)
                               \/ (CannotSave(p) \/ ConfigMenu(p)) /\ KeepsSpeech(p)
                               \/ ConfigMenu(p) /\ SavesSpeech(p, store[p].speech)
                               \/ Downloaded(p) /\ SavesSpeech(p, Enabled(p, TRUE))
                               \/ Toggle(p) /\ SavesSpeech(p, Enabled(p, ~store[p].speech.enabled))
                               \/ \E profile \in Profiles :
                                    Choose(p) /\ SavesSpeech(p, [enabled |-> FALSE, profile |-> profile])
                               \/ Remove(p) /\ SavesSpeech(p, Enabled(p, FALSE))
                         \/ NoAutostart(p) /\ service \in Hosts /\ Elsewhere(service) /\ EndsSpeech(service)
<1> p \in Procs BY DEF Procs
<1>1. CASE Open(p) BY <1>1, ReadStep, Zenon DEF Open
<1>2. CASE GoOn(p)
  <2>1. Continues(p)
    BY <1>2, Zenon DEF GoOn
  <2> QED BY <1>2, <2>1, ContinueStep
<1>3. CASE CannotSave(p) BY <1>3, SetUpStep, Zenon DEF CannotSave
<1>4. CASE ConfigMenu(p) BY <1>4, SetUpStep, SaveStep, Zenon DEF ConfigMenu
<1>5. CASE Leave(p) \/ Kill(p) BY <1>5, EndStep, Zenon DEF Leave, Kill
<1>6. CASE Downloaded(p) BY <1>6, SaveStep, Zenon DEF Downloaded, Saves
<1>7. CASE Toggle(p) BY <1>7, SaveStep, Zenon DEF Toggle, Saves
<1>8. CASE Choose(p)
  <2>1. PICK profile \in Profiles : C!Save(p, [enabled |-> FALSE, profile |-> profile])
    BY <1>8, Zenon DEF Choose, Saves
  <2> QED BY <1>8, <2>1, SaveStep, Zenon
<1>9. CASE Remove(p) BY <1>9, SaveStep, Zenon DEF Remove, Saves
<1>10. CASE \/ Look(p) \/ Back(p) \/ Install(p) \/ Download(p) \/ NotDownloaded(p) \/ Removed(p)
            \/ Start(p) \/ Ask(p) \/ Check(p) \/ Stopped(p) \/ Autostart(p)
  BY <1>10, Zenon DEF Look, Back, Install, Download, NotDownloaded, Removed, Start, Ask, Check,
                      Stopped, Autostart
<1>11. CASE \E h \in Hosts : Spawn(p, h) \/ Stop(p, h)
  BY <1>11, Zenon DEF Spawn, Stop
<1>12. CASE NoAutostart(p)
  <2>1. UNCHANGED configVars \/ (C!End(service) /\ ServiceRuns)
    BY <1>12, Zenon DEF NoAutostart
  <2>2. ServiceRuns => service \in Hosts /\ service \in Procs
    BY DEF DeskTyped, ServiceTyped, ServiceRuns, Procs
  <2> QED BY <1>12, <2>1, <2>2, EndStep
<1> QED BY <1>1, <1>2, <1>3, <1>4, <1>5, <1>6, <1>7, <1>8, <1>9, <1>10, <1>11, <1>12, Zenon DEF MenuNext

LEMMA HostCopy == ASSUME ConfigTyped, NEW h \in Hosts, HostNext(h)
                  PROVE  /\ UNCHANGED <<speechVars, menuVars, crossed>>
                         /\ \/ UNCHANGED configVars
                            \/ Elsewhere(h) /\ (ReadsSpeech(h) \/ EndsSpeech(h) \/ WritesSpeech(h) \/ KeepsSpeech(h))
<1> h \in Procs BY DEF Procs
<1>1. UNCHANGED <<speechVars, menuVars, crossed>>
  BY Zenon DEF HostNext, HostLoads, StartCodex, Bind, HostFails, HostDies, Close, Closed, Restart, Ends, history
<1>2. CASE HostLoads(h)
  <2>1. C!ReadConfig(h) \/ Continues(h)
    BY <1>2, Zenon DEF HostLoads
  <2> QED BY <1>1, <2>1, ReadStep, ContinueStep
<1>3. CASE StartCodex(h) \/ Bind(h) \/ Close(h) \/ Restart(h)
  BY <1>1, <1>3, Zenon DEF StartCodex, Bind, Close, Restart
<1>4. CASE HostFails(h) \/ HostDies(h) \/ Closed(h)
  <2>1. C!End(h)
    BY <1>4, Zenon DEF HostFails, HostDies, Closed, Ends
  <2> QED BY <1>1, <2>1, EndStep
<1> QED BY <1>2, <1>3, <1>4, Zenon DEF HostNext

\* What a step of a menu does to its own task and download.
LEMMA TaskStep == ASSUME ConfigTyped, DeskTyped, SpeechTyped, NEW p \in Menus, TaskOf(p), MenuNext(p)
                  PROVE  TaskOf(p)'
<1> USE DEF TaskOf, Profile, Having
<1>0. /\ task \in [Menus -> Tasks] /\ at \in [Procs -> C!Points] /\ p \in Procs
      /\ job \in [Menus -> [at : S!Steps, item : S!Items]]
  BY DEF ConfigTyped, AtTyped, DeskTyped, TaskTyped, SpeechTyped, JobTyped, Procs
<1>1. CASE Open(p)
  <2>1. ReadsSpeech(p) /\ UNCHANGED <<task, job>>
    BY <1>1, ReadStep, <1>0 DEF Open, menuVars, speechVars
  <2> QED BY <2>1 DEF ReadsSpeech
<1>2. CASE GoOn(p)
  <2>1. /\ Continues(p) /\ job' = job
        /\ task'[p] = IF at'[p] = "off" \/ (task[p] = "saving" /\ at'[p] = "ready") THEN "none" ELSE task[p]
    BY <1>0, <1>2 DEF GoOn, Goto, speechVars
  <2>2. /\ at[p] \in {"damaged", "read", "config", "secrets"}
        /\ EndsSpeech(p) \/ (KeepsSpeech(p) /\ at[p] \in {"damaged", "read"}) \/ WritesSpeech(p)
    BY <1>0, <2>1, ContinueStep
  <2> QED BY <2>1, <2>2 DEF EndsSpeech, KeepsSpeech, WritesSpeech
<1>3. CASE CannotSave(p)
  BY <1>0, <1>3 DEF CannotSave, Goto, speechVars
<1>4. CASE ConfigMenu(p) \/ Start(p)
  BY <1>0, <1>4 DEF ConfigMenu, Start, Free, Goto, menuVars, speechVars
<1>5. CASE Leave(p) \/ Back(p) \/ Removed(p) \/ Stopped(p)
  BY <1>0, <1>5 DEF Leave, Back, Removed, Stopped, Free, Forget, Goto, Says, speechVars, S!Remove
<1>6. CASE Kill(p) \/ NotDownloaded(p)
  BY <1>0, <1>6 DEF Kill, NotDownloaded, Forget, Goto, S!Stop, S!Return, S!NoJob
<1>7. CASE Look(p)
  BY <1>0, <1>7 DEF Look, Free, Goto, configVars, speechVars
<1>8. CASE Install(p)
  <2>1. /\ at' = at /\ store' = store /\ task[p] \in {"speech", "pack"}
        /\ \/ Goto(p, "pack") /\ S!Start(p, Pack)
           \/ Goto(p, "model") /\ S!Start(p, Profile(p))
    BY <1>8 DEF Install, Choice, configVars
  <2> QED BY <1>0, <2>1 DEF Goto, S!Start
<1>9. CASE Download(p)
  <2>1. UNCHANGED <<at, store, task>>
    BY <1>9 DEF Download, configVars, menuVars
  <2>2. /\ job[p].at # "idle"
        /\ \E step \in S!Steps \ {"idle"} : job' = [job EXCEPT ![p].at = step]
    BY <1>9 DEF Download, S!At, S!Goto, S!Steps, S!Fetch, S!FetchPack, S!Fill, S!Clear, S!Aside, S!Install,
                S!Finish, S!Fail
  <2> QED BY <1>0, <2>1, <2>2
<1>10. CASE Downloaded(p)
  <2>1. SavesSpeech(p, Enabled(p, TRUE)) /\ task'[p] = "saving" /\ job'[p].at = "idle"
    BY <1>0, <1>10, SaveStep DEF Downloaded, Saves, Goto, S!Return, S!NoJob
  <2> QED BY <2>1 DEF SavesSpeech
<1>11. CASE Toggle(p) \/ Choose(p)
  <2>1. task'[p] = "saving" /\ job' = job /\ task[p] = "speech" /\ at'[p] = "config"
    BY <1>0, <1>11 DEF Toggle, Choose, Choice, Saves, Goto, speechVars, C!Save, C!Goto
  <2> QED BY <2>1
<1>12. CASE Remove(p)
  <2>1. task'[p] = "removing" /\ job' = job /\ task[p] = "speech"
    BY <1>0, <1>12 DEF Remove, Choice, Saves, Goto, speechVars
  <2>2. SavesSpeech(p, Enabled(p, FALSE))
    BY <1>0, <1>12, SaveStep DEF Remove, Saves
  <2>3. ~Enabled(p, FALSE).enabled
    <3>1. store[p].speech \in Speech
      BY <1>0 DEF ConfigTyped, StoreTyped, Copies
    <3> QED BY <3>1 DEF Enabled, Speech
  <2> QED BY <2>1, <2>2, <2>3 DEF SavesSpeech
<1>13. CASE Ask(p) \/ Check(p)
  BY <1>0, <1>13 DEF Ask, Check, Says, Goto, configVars, speechVars
<1>14. CASE \E h \in Hosts : Spawn(p, h) \/ Stop(p, h)
  BY <1>0, <1>14 DEF Spawn, Stop, Free, Goto, configVars, speechVars
<1>15. CASE Autostart(p)
  BY <1>0, <1>15 DEF Autostart, configVars, speechVars, menuVars
<1>16. CASE NoAutostart(p)
  <2>1. UNCHANGED <<task, job>> /\ task[p] = "none"
    BY <1>16 DEF NoAutostart, Free, menuVars, speechVars
  <2> QED BY <2>1
<1> QED BY <1>1, <1>2, <1>3, <1>4, <1>5, <1>6, <1>7, <1>8, <1>9, <1>10, <1>11, <1>12, <1>13, <1>14, <1>15,
           <1>16, Zenon DEF MenuNext

\* Others keep theirs.
LEMMA TasksKept == ASSUME ConfigTyped, DeskTyped, SpeechTyped, TaskInv, [Next]_vars PROVE TaskInv'
<1>1. ASSUME NEW p \in Menus, MenuNext(p) PROVE TaskInv'
  <2> p \in Procs BY DEF Procs
  <2>1. \A q \in Procs : at'[q] = "off" => store'[q].speech = NoSpeech
    <3>1. CASE UNCHANGED configVars
      BY <3>1 DEF TaskInv, configVars
    <3>2. CASE service \in Hosts /\ Elsewhere(service) /\ EndsSpeech(service)
      BY <3>2 DEF TaskInv, Elsewhere, EndsSpeech, Procs
    <3>3. CASE /\ Elsewhere(p)
               /\ \/ ReadsSpeech(p) \/ EndsSpeech(p) \/ KeepsSpeech(p) \/ WritesSpeech(p)
                  \/ \E speech : SavesSpeech(p, speech)
      BY <3>3, OffStays DEF TaskInv
    <3> QED BY <1>1, <3>1, <3>2, <3>3, MenuCopy, ContinueStep
  <2>2. ASSUME NEW q \in Menus \ {p} PROVE TaskOf(q)'
    <3>1. task'[q] = task[q] /\ job'[q] = job[q]
      BY <1>1, MenuSteady DEF Steady
    <3>2. at'[q] = at[q] /\ store'[q] = store[q]
      <4>1. CASE UNCHANGED configVars BY <4>1 DEF configVars
      <4>2. CASE Elsewhere(p) BY <4>2 DEF Elsewhere, Procs
      <4>3. CASE NoAutostart(p) /\ service \in Hosts /\ Elsewhere(service) /\ EndsSpeech(service)
        <5>1. CASE q = service
          BY <4>3, <5>1, ProcsAssumption
        <5> QED BY <4>3, <5>1 DEF Elsewhere, Procs
      <4> QED BY <1>1, <4>1, <4>2, <4>3, MenuCopy
    <3> QED BY <3>1, <3>2 DEF TaskInv, TaskOf, Profile
  <2>3. TaskOf(p)'
    BY <1>1, TaskStep DEF TaskInv
  <2> QED BY <2>1, <2>2, <2>3 DEF TaskInv
<1>2. ASSUME NEW h \in Hosts, HostNext(h) PROVE TaskInv'
  <2>1. /\ UNCHANGED <<speechVars, menuVars>>
        /\ \/ UNCHANGED configVars
           \/ Elsewhere(h) /\ (ReadsSpeech(h) \/ EndsSpeech(h) \/ WritesSpeech(h) \/ KeepsSpeech(h))
    BY <1>2, HostCopy
  <2>2. \A q \in Procs : at'[q] = "off" => store'[q].speech = NoSpeech
    <3>1. CASE UNCHANGED configVars BY <3>1 DEF TaskInv, configVars
    <3>2. CASE Elsewhere(h) /\ (ReadsSpeech(h) \/ EndsSpeech(h) \/ WritesSpeech(h) \/ KeepsSpeech(h))
      BY <3>2, OffStays DEF TaskInv, Procs
    <3> QED BY <2>1, <3>1, <3>2
  <2>3. ASSUME NEW q \in Menus PROVE at'[q] = at[q] /\ store'[q] = store[q]
    <3>1. q # h
      BY ProcsAssumption
    <3> QED BY <2>1, <3>1 DEF configVars, Elsewhere, Procs
  <2> QED BY <2>1, <2>2, <2>3 DEF TaskInv, TaskOf, Profile, speechVars, menuVars
<1>3. CASE Damage
  <2>1. UNCHANGED <<at, store, task, job>>
    BY <1>3 DEF Damage, C!Damage, menuVars, speechVars
  <2> QED BY <2>1 DEF TaskInv, TaskOf, Profile
<1>4. CASE UNCHANGED vars
  BY <1>4 DEF vars, configVars, menuVars, speechVars, TaskInv, TaskOf, Profile
<1> QED BY <1>1, <1>2, <1>3, <1>4, Zenon DEF Next
-----------------------------------------------------------------------------
(* Speech that is enabled *)

\* What spoils the promise stays.
LEMMA SpoiltStays == ASSUME ConfigTyped, DeskTyped, SpeechInv, [Next]_vars, ~Spoilt'
                     PROVE  ~Spoilt /\ ~overwritten' /\ ~crossed' /\ ~shared' /\ faults <= 1 /\ faults' <= 1
<1>1. ~overwritten' /\ ~crossed' /\ ~shared' /\ ~(faults' > 1)
  BY Zenon DEF Spoilt
<1>2. ~overwritten
  <2>1. C!Next \/ UNCHANGED C!vars
    BY StepIsConfigStep DEF DeskTyped
  <2> QED BY <1>1, <2>1, Zenon DEF C!Next, C!ReadConfig, C!Preserve, C!Refuse, C!ReadSecrets, C!WriteConfig,
             C!WriteSecrets, C!Writes, C!FailWrite, C!SetUp, C!GiveUpSetUp, C!Save, C!End, C!Quit, C!Damage, C!vars
<1>3. ~crossed
  <2>1. CASE \E p \in Menus : MenuNext(p)
    <3> PICK p \in Menus : MenuNext(p) BY <2>1
    <3>1. crossed' = crossed \/ crossed' = (crossed \/ Crosses(p))
      BY Zenon DEF MenuNext, Open, GoOn, CannotSave, ConfigMenu, Leave, Kill, Look, Back, Install, Download,
         Downloaded, NotDownloaded, Toggle, Choose, Remove, Removed, Start, Ask, Check, Stopped, Autostart,
         NoAutostart, Spawn, Stop, Saves, history
    <3> QED BY <1>1, <3>1, Zenon
  <2>2. CASE \E h \in Hosts : HostNext(h)
    BY <1>1, <2>2, HostCopy, Zenon
  <2>3. CASE Damage \/ UNCHANGED vars
    BY <1>1, <2>3, Zenon DEF Damage, vars, history
  <2> QED BY <2>1, <2>2, <2>3 DEF Next
<1>4. ~shared /\ faults <= faults'
  <2>1. S!Next \/ UNCHANGED S!vars
    BY StepIsSpeechStep
  <2>2. ~shared
    BY <1>1, <2>1, Zenon DEF S!Next, S!Start, S!Fetch, S!FetchPack, S!Fill, S!Clear, S!Aside, S!Install, S!Finish,
       S!Fail, S!Stop, S!Return, S!Remove, S!vars
  <2>3. faults' = faults \/ faults' = faults + 1
    BY <2>1, Zenon DEF S!Next, S!Start, S!Fetch, S!FetchPack, S!Fill, S!Clear, S!Aside, S!Install, S!Finish,
       S!Fail, S!Stop, S!Return, S!Remove, S!vars, S!Fault
  <2>4. faults \in Nat
    BY SpeechConstants DEF SpeechInv, SpeechTyped, TraceTyped
  <2> QED BY <2>2, <2>3, <2>4
<1>5. faults \in Nat /\ faults' \in Nat
  <2>1. SpeechTyped'
    BY StepIsSpeechStep, SpeechKeepsAll DEF SpeechInv
  <2> QED BY <2>1, SpeechConstants DEF SpeechInv, SpeechTyped, TraceTyped
<1>6. faults <= 1 /\ faults' <= 1
  BY <1>1, <1>4, <1>5
<1> QED BY <1>1, <1>2, <1>3, <1>4, <1>5, <1>6 DEF Spoilt

LEMMA InitHasAll == ASSUME Init PROVE TaskInv /\ EnabledInv
<1>1. /\ config.speech.enabled => Pack \in had /\ config.speech.profile \in had
      /\ had \subseteq S!Items
      /\ outdated = {} /\ task = [p \in Menus |-> "none"] /\ job = [p \in Menus |-> S!NoJob]
      /\ \A p \in Procs : at[p] = "off" /\ store[p].speech = NoSpeech
  BY DEF Init, C!Init, S!Init, C!Nobody, S!Items
<1>2. ~NoSpeech.enabled
  BY DEF NoSpeech
<1>3. TaskInv
  BY <1>1 DEF TaskInv, TaskOf, S!NoJob
<1>4. FileHas /\ CopiesHave /\ \A p \in Menus : Seen(p) /\ Disabled(p)
  <2>1. had \subseteq Present
    BY <1>1 DEF Present
  <2>2. FileHas BY <1>1, <2>1 DEF FileHas, Has
  <2>3. CopiesHave BY <1>1, <1>2 DEF CopiesHave, Has
  <2>4. \A p \in Menus : Seen(p) /\ Disabled(p) BY <1>1 DEF Seen, Disabled, S!NoJob
  <2> QED BY <2>2, <2>3, <2>4
<1> QED BY <1>3, <1>4 DEF EnabledInv

\* The file and the copies, in a step on the configuration by one process.
LEMMA FilesHave == ASSUME FileHas, CopiesHave, \A q \in Procs : at[q] = "off" => store[q].speech = NoSpeech,
                          NEW p \in Procs, NEW speech, Elsewhere(p), ~overwritten', Present \subseteq Present',
                          \/ ReadsSpeech(p) \/ EndsSpeech(p) \/ WritesSpeech(p) \/ KeepsSpeech(p)
                          \/ /\ SavesSpeech(p, speech)
                             /\ p \notin outdated /\ speech.enabled
                                  => Pack \in Present' /\ speech.profile \in Present'
                   PROVE  FileHas' /\ CopiesHave'
<1> USE DEF FileHas, CopiesHave, Has, Elsewhere
<1>0. ~NoSpeech.enabled
  BY DEF NoSpeech
<1>1. CASE ReadsSpeech(p) BY <1>0, <1>1 DEF ReadsSpeech
<1>2. CASE EndsSpeech(p) BY <1>0, <1>2 DEF EndsSpeech
<1>3. CASE WritesSpeech(p)
  <2>1. p \notin outdated
    BY <1>3, Zenon DEF WritesSpeech
  <2> QED BY <1>0, <1>3, <2>1 DEF WritesSpeech
<1>4. CASE KeepsSpeech(p) BY <1>4 DEF KeepsSpeech
<1>5. CASE /\ SavesSpeech(p, speech)
           /\ p \notin outdated /\ speech.enabled => Pack \in Present' /\ speech.profile \in Present'
  BY <1>5 DEF SavesSpeech
<1> QED BY <1>1, <1>2, <1>3, <1>4, <1>5

\* A menu about to remove the Speech Pack, in such a step.
LEMMA DisabledStays == ASSUME \A q \in Procs : at[q] = "off" => store[q].speech = NoSpeech,
                              NEW p \in Procs, NEW speech, NEW q \in Menus, Disabled(q), TaskOf(q),
                              Elsewhere(p), ~overwritten',
                              q # p => task'[q] = task[q],
                              \/ ReadsSpeech(p) \/ EndsSpeech(p)
                              \/ WritesSpeech(p) /\ (task'[q] = "removing" => task[q] = "removing")
                              \/ KeepsSpeech(p) /\ (q = p => task'[q] # "removing")
                              \/ SavesSpeech(p, speech) /\ p \in Menus
                       PROVE  Disabled(q)'
<1> USE DEF Disabled, Elsewhere, Procs
<1>0. ~NoSpeech.enabled
  BY DEF NoSpeech
<1>1. CASE ReadsSpeech(p) BY <1>0, <1>1 DEF ReadsSpeech
<1>2. CASE EndsSpeech(p) BY <1>0, <1>2 DEF EndsSpeech
<1>3. CASE WritesSpeech(p) /\ (task'[q] = "removing" => task[q] = "removing")
  <2>1. p \notin outdated
    BY <1>3, Zenon DEF WritesSpeech
  <2> QED BY <1>0, <1>3, <2>1 DEF WritesSpeech, TaskOf
<1>4. CASE KeepsSpeech(p) /\ (q = p => task'[q] # "removing") BY <1>4 DEF KeepsSpeech
<1>5. CASE SavesSpeech(p, speech) /\ p \in Menus BY <1>5, ProcsAssumption DEF SavesSpeech
<1> QED BY <1>1, <1>2, <1>3, <1>4, <1>5

\* What is there at the place of an item is there for the menus.
LEMMA PlaceIsPresent == ASSUME SpeechInv, ~shared, faults <= 1, NEW i \in S!Items, dirs[i]["target"] # "none"
                        PROVE  i \in Present
<1>1. CASE faults = 0
  <2>1. dirs[i]["target"] = "whole" => i \in had
    BY <1>1 DEF SpeechInv, CopiesInv, CopiesOf
  <2>2. dirs[i]["target"] \in {"none", "whole"}
    BY <1>1 DEF SpeechInv, CopiesInv, CopiesOf
  <2> QED BY <2>1, <2>2 DEF Present
<1>2. CASE faults # 0
  BY <1>2 DEF Present
<1> QED BY <1>1, <1>2

\* The other steps of a menu leave it with nothing seen.
LEMMA NothingSeen == ASSUME ConfigTyped, DeskTyped, SpeechTyped, NEW p \in Menus, TaskOf(p), TaskOf(p)', MenuNext(p),
                            ~Look(p), ~Install(p), ~Download(p)
                     PROVE  task'[p] \notin {"speech", "pack", "model"}
<1> p \in Procs BY DEF Procs
<1>0. task \in [Menus -> Tasks]
  BY DEF DeskTyped, TaskTyped
<1>1. CASE Open(p)
  <2>1. at'[p] # "ready"
    BY <1>1, ReadStep DEF Open, ReadsSpeech
  <2> QED BY <2>1 DEF TaskOf
<1>2. CASE GoOn(p)
  <2>1. at[p] # "ready" /\ task'[p] \in {"none", task[p]}
    BY <1>0, <1>2, ContinueStep DEF GoOn, Goto
  <2> QED BY <2>1 DEF TaskOf
<1>3. CASE \/ CannotSave(p) \/ Leave(p) \/ Kill(p) \/ Back(p) \/ NotDownloaded(p) \/ Removed(p) \/ Stopped(p)
           \/ Downloaded(p) \/ Toggle(p) \/ Choose(p) \/ Remove(p)
  BY <1>0, <1>3 DEF CannotSave, Leave, Kill, Back, NotDownloaded, Removed, Stopped, Downloaded, Toggle, Choose,
     Remove, Forget, Says, Saves, Goto
<1>4. CASE ConfigMenu(p) \/ Autostart(p) \/ NoAutostart(p)
  <2>1. task' = task /\ task[p] = "none"
    BY <1>4, Zenon DEF ConfigMenu, Autostart, NoAutostart, Free, menuVars
  <2> QED BY <2>1
<1>5. CASE Start(p) \/ Ask(p) \/ Check(p)
  BY <1>0, <1>5 DEF Start, Ask, Check, Says, Goto
<1>6. CASE \E h \in Hosts : Spawn(p, h) \/ Stop(p, h)
  BY <1>0, <1>6 DEF Spawn, Stop, Goto
<1> QED BY <1>1, <1>2, <1>3, <1>4, <1>5, <1>6, Zenon DEF MenuNext

\* What a menu has seen or installed stays, while nothing is removed.
LEMMA SeenStep == ASSUME ConfigTyped, DeskTyped, SpeechInv, NEW p \in Menus, TaskOf(p), TaskOf(p)', Seen(p),
                         ~shared, faults <= 1, had \subseteq had', Present \subseteq Present', MenuNext(p)
                  PROVE  Seen(p)'
<1>0. /\ task \in [Menus -> Tasks] /\ job \in [Menus -> [at : S!Steps, item : S!Items]]
      /\ status \in [Menus -> [pack : BOOLEAN, model : BOOLEAN]]
      /\ Pack \in S!Items /\ Profile(p) \in S!Items
  BY MenuItems DEF DeskTyped, TaskTyped, StatusTyped, SpeechInv, SpeechTyped, JobTyped
<1>1. CASE Look(p)
  <2>1. PICK pack \in S!Ready(Pack), model \in S!Ready(Profile(p)) :
           status' = [status EXCEPT ![p] = [pack |-> pack, model |-> model]]
    BY <1>1, Zenon DEF Look
  <2>2. (pack => dirs[Pack]["target"] # "none") /\ (model => dirs[Profile(p)]["target"] # "none")
    BY <2>1 DEF S!Ready
  <2>3. (pack => Pack \in Present') /\ (model => Profile(p) \in Present')
    BY <1>0, <2>2, PlaceIsPresent
  <2>4. status'[p] = [pack |-> pack, model |-> model]
    BY <1>0, <2>1, Zenon
  <2>5. /\ status'[p].pack => Pack \in Present'
        /\ status'[p].model => Profile(p) \in Present'
    BY <2>3, <2>4
  <2>6. task'[p] = "speech" /\ store' = store
    BY <1>0, <1>1 DEF Look, Goto, configVars
  <2>7. job'[p].at = "idle"
    BY <2>6 DEF TaskOf
  <2> QED BY <2>5, <2>6, <2>7 DEF Seen, Profile
<1>2. CASE Install(p)
  <2>1. UNCHANGED <<store, status>> /\ task[p] \in {"speech", "pack"}
    BY <1>2 DEF Install, Choice, configVars
  <2>2. \/ task'[p] = "pack" /\ job'[p].at = "fetching"
        \/ /\ task'[p] = "model" /\ job'[p].at = "fetching"
           /\ (task[p] = "speech" /\ status[p].pack) \/ (task[p] = "pack" /\ job[p].at = "done")
    BY <1>0, <1>2 DEF Install, Choice, Goto, S!Start, S!At
  <2>3. task'[p] = "model" => Pack \in Present
    BY <1>0, <2>2 DEF Seen, TaskOf, Present
  <2> QED BY <2>1, <2>2, <2>3 DEF Seen, Profile
<1>3. CASE Download(p)
  <2>1. UNCHANGED <<store, status, task>>
    BY <1>3 DEF Download, configVars, menuVars
  <2>2. job'[p].at \in {"installed", "done"} => job'[p].item \in had'
    <3>1. CASE S!Install(p)
      <4>1. dirs[job[p].item]["fresh"] = "whole"
        BY <3>1 DEF SpeechInv, JobInv, S!Install, S!At
      <4> QED BY <1>0, <3>1, <4>1 DEF S!Install, S!Goto
    <3>2. CASE S!Finish(p)
      <4>1. job[p].item \in had
        BY <3>2 DEF Seen, S!Finish, S!At
      <4> QED BY <1>0, <3>2, <4>1 DEF S!Finish, S!Goto
    <3>3. CASE S!Fetch(p) \/ S!FetchPack(p) \/ S!Clear(p) \/ S!Aside(p) \/ S!Fail(p)
      BY <1>0, <3>3 DEF S!Fetch, S!FetchPack, S!Fill, S!Clear, S!Aside, S!Fail, S!Goto
    <3> QED BY <1>3, <3>1, <3>2, <3>3 DEF Download
  <2> QED BY <2>1, <2>2 DEF Seen, Profile
<1>4. CASE ~Look(p) /\ ~Install(p) /\ ~Download(p)
  <2>1. task'[p] \notin {"speech", "pack", "model"}
    BY <1>4, NothingSeen DEF SpeechInv
  <2>2. job'[p].at = "idle"
    BY <2>1 DEF TaskOf
  <2> QED BY <2>1, <2>2 DEF Seen
<1> QED BY <1>1, <1>2, <1>3, <1>4

\* The Speech Pack is removed: nobody relies on it.
LEMMA RemovedIsDisabled == ASSUME ConfigTyped, DeskTyped, SpeechTyped, TaskInv, NEW p \in Menus,
                                  CopiesHave, \A q \in Menus : Disabled(q), Removed(p), ~crossed'
                           PROVE  FileHas' /\ CopiesHave' /\ \A q \in Menus : Seen(q)' /\ Disabled(q)'
<1>1. ~Crosses(p)
  BY Zenon DEF Removed
<1>2. p \notin outdated /\ task[p] = "removing" /\ at[p] = "ready" /\ UNCHANGED <<config, at, store, outdated, job>>
  BY <1>1 DEF Crosses, Removed, configVars, S!Remove
<1>3. (config.is = "whole" => ~config.speech.enabled) /\ \A h \in Hosts \ outdated : ~store[h].speech.enabled
  BY <1>2 DEF Disabled
<1>4. ~store[p].speech.enabled
  BY <1>2 DEF TaskInv, TaskOf
<1>5. \A q \in Menus \ {p} : ~store[q].speech.enabled /\ task[q] \notin {"speech", "pack", "model"}
  BY <1>1 DEF Crosses
<1>6. task'[p] = "none" /\ \A q \in Menus \ {p} : task'[q] = task[q]
  BY DEF Removed, Goto, DeskTyped, TaskTyped
<1>7. FileHas' /\ CopiesHave'
  BY <1>2, <1>3, <1>4, <1>5 DEF FileHas, CopiesHave, Has, Procs
<1>8. ASSUME NEW q \in Menus PROVE Seen(q)'
  <2>1. task'[q] \notin {"speech", "pack", "model"}
    BY <1>5, <1>6
  <2>2. job'[q].at = "idle"
    BY <1>2, <1>5 DEF TaskInv, TaskOf
  <2> QED BY <2>1, <2>2 DEF Seen
<1>9. ASSUME NEW q \in Menus PROVE Disabled(q)'
  BY <1>2, <1>6 DEF Disabled
<1> QED BY <1>7, <1>8, <1>9

LEMMA MenuKeepsPresent == ASSUME ConfigTyped, DeskTyped, SpeechInv, NEW p \in Menus, Seen(p), MenuNext(p),
                                 ~Removed(p), ~shared', faults' <= 1
                          PROVE  had \subseteq had' /\ Present \subseteq Present'
<1>1. job[p].at = "installed" => job[p].item \in had
  BY DEF Seen
<1>2. CASE Install(p)
  <2>1. S!Start(p, Pack) \/ S!Start(p, Profile(p))
    BY <1>2, Zenon DEF Install
  <2> QED BY <1>1, <2>1, PresentStays, MenuItems
<1>3. CASE Download(p) \/ Downloaded(p) \/ NotDownloaded(p) \/ Kill(p)
  <2>1. \/ S!Fetch(p) \/ S!FetchPack(p) \/ S!Clear(p) \/ S!Aside(p) \/ S!Install(p) \/ S!Finish(p) \/ S!Fail(p)
        \/ S!Stop(p) \/ S!Return(p)
    BY <1>3, Zenon DEF Download, Downloaded, NotDownloaded, Kill
  <2> QED BY <1>1, <2>1, PresentStays, MenuItems
<1>4. CASE ~(Install(p) \/ Download(p) \/ Downloaded(p) \/ NotDownloaded(p) \/ Kill(p))
  <2>1. UNCHANGED speechVars
    BY <1>4, Zenon DEF MenuNext, Open, GoOn, CannotSave, ConfigMenu, Leave, Look, Back, Toggle, Choose, Remove,
       Start, Ask, Check, Stopped, Autostart, NoAutostart, Spawn, Stop
  <2> QED BY <2>1 DEF speechVars, Present, Busy
<1> QED BY <1>2, <1>3, <1>4

\* Speech is enabled by a menu that is not outdated only when all is there.
LEMMA EnablesWhatIsThere == ASSUME ConfigTyped, DeskTyped, SpeechTyped, NEW p \in Menus, TaskOf(p), Seen(p),
                                   Has(store[p].speech), had \subseteq S!Items,
                                   NEW speech,
                                   \/ ConfigMenu(p) /\ speech = store[p].speech
                                   \/ Downloaded(p) /\ speech = Enabled(p, TRUE)
                                   \/ Toggle(p) /\ speech = Enabled(p, ~store[p].speech.enabled)
                                   \/ \E profile \in Profiles :
                                        Choose(p) /\ speech = [enabled |-> FALSE, profile |-> profile]
                                   \/ Remove(p) /\ speech = Enabled(p, FALSE),
                                   speech.enabled
                            PROVE  Pack \in Present /\ speech.profile \in Present
<1>0. store[p].speech \in Speech /\ p \in Procs
  BY DEF ConfigTyped, StoreTyped, Copies, Procs
<1>1. CASE speech = store[p].speech
  BY <1>1 DEF Has
<1>2. CASE Downloaded(p) /\ speech = Enabled(p, TRUE)
  <2>1. task[p] = "model" /\ job[p].at = "done"
    BY <1>2, Zenon DEF Downloaded, S!At
  <2>2. Pack \in Present /\ Profile(p) \in Present
    BY <2>1 DEF Seen, TaskOf, Present
  <2> QED BY <1>0, <1>2, <2>2 DEF Enabled, Profile, Speech
<1>3. CASE Toggle(p) /\ speech = Enabled(p, ~store[p].speech.enabled)
  <2>1. store[p].speech.enabled = FALSE
    <3>1. speech.enabled = ~store[p].speech.enabled
      BY <1>0, <1>3 DEF Enabled, Speech
    <3>2. store[p].speech.enabled \in BOOLEAN
      BY <1>0 DEF Speech
    <3> QED BY <3>1, <3>2, Zenon
  <2>2. status[p].pack /\ status[p].model /\ task[p] = "speech"
    BY <1>3, <2>1, Zenon DEF Toggle, Choice
  <2>3. Pack \in Present /\ Profile(p) \in Present
    BY <2>2 DEF Seen
  <2> QED BY <1>0, <1>3, <2>3 DEF Enabled, Profile, Speech
<1>4. CASE Remove(p) /\ speech = Enabled(p, FALSE)
  BY <1>0, <1>4 DEF Enabled, Speech
<1>5. ASSUME NEW profile \in Profiles, speech = [enabled |-> FALSE, profile |-> profile] PROVE FALSE
  BY <1>5
<1> QED BY <1>1, <1>2, <1>3, <1>4, <1>5

\* The steps of a menu.
LEMMA MenuKeepsEnabled == ASSUME ConfigTyped, DeskTyped, SpeechInv, TaskInv, TaskInv', EnabledInv,
                                 NEW p \in Menus, MenuNext(p), ~Spoilt, ~overwritten', ~crossed', ~shared', ~shared,
                                 faults <= 1, faults' <= 1
                          PROVE  FileHas' /\ CopiesHave' /\ \A q \in Menus : Seen(q)' /\ Disabled(q)'
<1> p \in Procs BY DEF Procs
<1>0. /\ FileHas /\ CopiesHave /\ \A q \in Menus : Seen(q) /\ Disabled(q)
      /\ SpeechTyped /\ had \subseteq S!Items
  BY DEF EnabledInv, SpeechInv, SpeechTyped, TraceTyped
<1>1. CASE Removed(p)
  BY <1>0, <1>1, RemovedIsDisabled
<1>2. CASE ~Removed(p)
  <2>1. had \subseteq had' /\ Present \subseteq Present'
    BY <1>0, <1>2, MenuKeepsPresent
  <2>2. Steady(p)
    BY <1>0, MenuSteady
  <2>3. \A q \in Procs : at[q] = "off" => store[q].speech = NoSpeech
    BY DEF TaskInv
  <2>4. Seen(p)'
    BY <1>0, <2>1, SeenStep DEF TaskInv
  <2>5. CASE UNCHANGED configVars
    <3>1. FileHas' /\ CopiesHave'
      BY <1>0, <2>1, <2>5 DEF configVars, FileHas, CopiesHave, Has
    <3>2. ASSUME NEW q \in Menus \ {p} PROVE Seen(q)'
      BY <1>0, <2>1, <2>2, <2>5, <3>2 DEF Steady, Seen, Profile, configVars
    <3>3. ASSUME NEW q \in Menus PROVE Disabled(q)'
      <4>1. task'[q] = "removing" => task[q] = "removing"
        <5>1. CASE q = p
          <6>1. CASE Remove(p)
            BY <2>5, <6>1, SaveStep DEF Remove, Saves, SavesSpeech, configVars
          <6>2. CASE ~Remove(p)
            <7>1. task \in [Menus -> Tasks]
              BY DEF DeskTyped, TaskTyped
            <7>2. task'[p] = "removing" => task[p] = "removing"
              BY <6>2, <7>1 DEF MenuNext, Open, GoOn, CannotSave, ConfigMenu, Leave, Kill, Look, Back, Install,
                 Download, Downloaded, NotDownloaded, Toggle, Choose, Removed, Start, Ask, Check, Stopped,
                 Autostart, NoAutostart, Spawn, Stop, Saves, Forget, Says, Goto, menuVars
            <7> QED BY <5>1, <7>2
          <6> QED BY <6>1, <6>2
        <5>2. CASE q # p
          BY <2>2, <5>2 DEF Steady
        <5> QED BY <5>1, <5>2
      <4> QED BY <1>0, <2>5, <4>1 DEF configVars, Disabled
    <3> QED BY <2>4, <3>1, <3>2, <3>3
  <2>6. ASSUME NEW speech, Elsewhere(p),
               \/ Open(p) /\ ReadsSpeech(p)
               \/ GoOn(p) /\ Continues(p)
               \/ (Leave(p) \/ Kill(p)) /\ EndsSpeech(p)
               \/ (CannotSave(p) \/ ConfigMenu(p)) /\ KeepsSpeech(p)
               \/ /\ SavesSpeech(p, speech)
                  /\ \/ ConfigMenu(p) /\ speech = store[p].speech
                     \/ Downloaded(p) /\ speech = Enabled(p, TRUE)
                     \/ Toggle(p) /\ speech = Enabled(p, ~store[p].speech.enabled)
                     \/ \E profile \in Profiles : Choose(p) /\ speech = [enabled |-> FALSE, profile |-> profile]
                     \/ Remove(p) /\ speech = Enabled(p, FALSE)
        PROVE  FileHas' /\ CopiesHave' /\ \A q \in Menus : Seen(q)' /\ Disabled(q)'
    <3>1. \/ ReadsSpeech(p) \/ EndsSpeech(p) \/ WritesSpeech(p) \/ KeepsSpeech(p)
          \/ /\ SavesSpeech(p, speech)
             /\ p \notin outdated /\ speech.enabled => Pack \in Present' /\ speech.profile \in Present'
      <4>1. CASE GoOn(p) /\ Continues(p)
        BY <4>1, ContinueStep
      <4>2. ASSUME \/ ConfigMenu(p) /\ speech = store[p].speech
                   \/ Downloaded(p) /\ speech = Enabled(p, TRUE)
                   \/ Toggle(p) /\ speech = Enabled(p, ~store[p].speech.enabled)
                   \/ \E profile \in Profiles : Choose(p) /\ speech = [enabled |-> FALSE, profile |-> profile]
                   \/ Remove(p) /\ speech = Enabled(p, FALSE),
                   p \notin outdated, speech.enabled
            PROVE  Pack \in Present' /\ speech.profile \in Present'
        <5>1. Has(store[p].speech) /\ Seen(p) /\ TaskOf(p)
          BY <1>0, <4>2 DEF CopiesHave, TaskInv
        <5>2. Pack \in Present /\ speech.profile \in Present
          BY <1>0, <4>2, <5>1, EnablesWhatIsThere
        <5> QED BY <2>1, <5>2
      <4> QED BY <2>6, <4>1, <4>2
    <3>2. FileHas' /\ CopiesHave'
      BY <1>0, <2>1, <2>3, <2>6, <3>1, FilesHave
    <3>3. ASSUME NEW q \in Menus \ {p} PROVE Seen(q)'
      BY <1>0, <2>1, <2>2, <2>6, <3>3 DEF Steady, Elsewhere, Seen, Profile, Procs
    <3>4. \/ ReadsSpeech(p) \/ EndsSpeech(p) \/ SavesSpeech(p, speech)
          \/ WritesSpeech(p) /\ (task'[p] = "removing" => task[p] = "removing")
          \/ KeepsSpeech(p) /\ task'[p] # "removing"
      <4>0. task \in [Menus -> Tasks] /\ TaskOf(p)
        BY DEF DeskTyped, TaskTyped, TaskInv
      <4>1. CASE GoOn(p) /\ Continues(p)
        <5>1. task'[p] = "removing" => task[p] = "removing"
          BY <4>0, <4>1 DEF GoOn, Goto
        <5>2. at[p] \in {"damaged", "read"} => task[p] # "removing"
          BY <4>0 DEF TaskOf, Having
        <5> QED BY <4>1, <5>1, <5>2, ContinueStep
      <4>2. CASE (CannotSave(p) \/ ConfigMenu(p)) /\ KeepsSpeech(p)
        <5>1. task'[p] = "none"
          BY <4>0, <4>2 DEF CannotSave, ConfigMenu, Free, Goto, menuVars
        <5> QED BY <4>2, <5>1
      <4> QED BY <2>6, <4>1, <4>2
    <3>6. ASSUME NEW q \in Menus PROVE Disabled(q)'
      <4>1. q # p => task'[q] = task[q]
        BY <2>2 DEF Steady
      <4>2. Disabled(q) /\ TaskOf(q)
        BY <1>0 DEF TaskInv
      <4>3. \/ ReadsSpeech(p) \/ EndsSpeech(p) \/ SavesSpeech(p, speech)
            \/ WritesSpeech(p) /\ (task'[q] = "removing" => task[q] = "removing")
            \/ KeepsSpeech(p) /\ (q = p => task'[q] # "removing")
        BY <3>4, <4>1
      <4> QED BY <2>3, <2>6, <4>1, <4>2, <4>3, DisabledStays
    <3> QED BY <2>4, <3>2, <3>3, <3>6
  <2>7. CASE NoAutostart(p) /\ service \in Hosts /\ Elsewhere(service) /\ EndsSpeech(service)
    <3> DEFINE h == service
    <3>1. h \in Procs /\ h \notin Menus /\ task' = task
      BY <2>7, ProcsAssumption DEF Procs, NoAutostart, menuVars
    <3>2. FileHas' /\ CopiesHave'
      BY <1>0, <2>1, <2>3, <2>7, <3>1, FilesHave
    <3>3. ASSUME NEW q \in Menus \ {p} PROVE Seen(q)'
      <4>1. store'[q] = store[q]
        BY <2>7, <3>1, <3>3 DEF Elsewhere, Procs
      <4> QED BY <1>0, <2>1, <2>2, <4>1 DEF Steady, Seen, Profile
    <3>4. ASSUME NEW q \in Menus PROVE Disabled(q)'
      BY <1>0, <2>3, <2>7, <3>1, DisabledStays DEF TaskInv
    <3> QED BY <2>4, <3>2, <3>3, <3>4
  <2> QED BY <2>5, <2>6, <2>7, MenuCopy
<1> QED BY <1>1, <1>2

\* The steps of a Host, which leaves tasks and the Speech Pack alone.
LEMMA HostKeepsEnabled == ASSUME ConfigTyped, TaskInv, EnabledInv, NEW h \in Hosts, HostNext(h), ~Spoilt, ~overwritten'
                          PROVE  FileHas' /\ CopiesHave' /\ \A q \in Menus : Seen(q)' /\ Disabled(q)'
<1>0. FileHas /\ CopiesHave /\ \A q \in Menus : Seen(q) /\ Disabled(q)
  BY DEF EnabledInv
<1>1. /\ UNCHANGED <<had, job, task, status>> /\ Present' = Present
      /\ \/ UNCHANGED configVars
         \/ Elsewhere(h) /\ (ReadsSpeech(h) \/ EndsSpeech(h) \/ WritesSpeech(h) \/ KeepsSpeech(h))
  BY HostCopy DEF speechVars, menuVars, Present, Busy
<1>2. h \in Procs /\ h \notin Menus
  BY ProcsAssumption DEF Procs
<1>3. FileHas' /\ CopiesHave'
  <2>1. CASE UNCHANGED configVars
    BY <1>0, <1>1, <2>1 DEF configVars, FileHas, CopiesHave, Has
  <2>2. CASE Elsewhere(h) /\ (ReadsSpeech(h) \/ EndsSpeech(h) \/ WritesSpeech(h) \/ KeepsSpeech(h))
    BY <1>0, <1>1, <1>2, <2>2, FilesHave DEF TaskInv
  <2> QED BY <1>1, <2>1, <2>2
<1>4. ASSUME NEW q \in Menus PROVE Seen(q)' /\ Disabled(q)'
  <2>1. store'[q] = store[q] /\ at'[q] = at[q]
    BY <1>1, <1>2 DEF configVars, Elsewhere, Procs
  <2>2. Seen(q)'
    BY <1>0, <1>1, <2>1 DEF Seen, Profile
  <2>3. Disabled(q)'
    <3>1. CASE UNCHANGED configVars
      BY <1>0, <1>1, <3>1 DEF configVars, Disabled
    <3>2. CASE Elsewhere(h) /\ (ReadsSpeech(h) \/ EndsSpeech(h) \/ WritesSpeech(h) \/ KeepsSpeech(h))
      BY <1>0, <1>1, <1>2, <3>2, DisabledStays DEF TaskInv
    <3> QED BY <1>1, <3>1, <3>2
  <2> QED BY <2>2, <2>3
<1> QED BY <1>3, <1>4

LEMMA EnabledKept == ASSUME ConfigTyped, DeskTyped, SpeechInv, TaskInv, EnabledInv, [Next]_vars PROVE EnabledInv'
<1> SUFFICES ASSUME ~Spoilt' PROVE FileHas' /\ CopiesHave' /\ \A q \in Menus : Seen(q)' /\ Disabled(q)'
  BY DEF EnabledInv
<1>1. ~Spoilt /\ ~overwritten' /\ ~crossed' /\ ~shared' /\ faults <= 1 /\ faults' <= 1
  BY SpoiltStays
<1>2. ~shared
  BY <1>1, Zenon DEF Spoilt
<1>3. FileHas /\ CopiesHave /\ \A q \in Menus : Seen(q) /\ Disabled(q)
  BY <1>1 DEF EnabledInv
<1>4. ASSUME NEW p \in Menus, MenuNext(p) PROVE FileHas' /\ CopiesHave' /\ \A q \in Menus : Seen(q)' /\ Disabled(q)'
  <2>1. TaskInv'
    BY TasksKept DEF SpeechInv
  <2> QED BY <1>1, <1>2, <1>4, <2>1, MenuKeepsEnabled
<1>5. ASSUME NEW h \in Hosts, HostNext(h) PROVE FileHas' /\ CopiesHave' /\ \A q \in Menus : Seen(q)' /\ Disabled(q)'
  BY <1>1, <1>5, HostKeepsEnabled
<1>6. CASE Damage
  <2>1. /\ config'.is # "whole" /\ UNCHANGED <<at, store, outdated, task, status, job, had>>
        /\ Present' = Present
    BY <1>6 DEF Damage, C!Damage, C!Default, menuVars, speechVars, Present, Busy
  <2> QED BY <1>3, <2>1 DEF FileHas, CopiesHave, Has, Seen, Disabled, Profile
<1>7. CASE UNCHANGED vars
  <2>1. UNCHANGED <<config, at, store, outdated, task, status, job, had>> /\ Present' = Present
    BY <1>7 DEF vars, configVars, menuVars, speechVars, Present, Busy
  <2> QED BY <1>3, <2>1 DEF FileHas, CopiesHave, Has, Seen, Disabled, Profile
<1> QED BY <1>4, <1>5, <1>6, <1>7, Zenon DEF Next

\* What EnabledInv says of the file is what was promised: with nobody at work, an item
\* that is present is in its place or beside it.
LEMMA PresentIsReady == ASSUME SpeechInv, EnabledInv PROVE EnabledMeansReady
<1> SUFFICES ASSUME config.is = "whole", config.speech.enabled, \A p \in Menus : job[p] = S!NoJob, ~Spoilt
             PROVE  \A i \in {Pack, config.speech.profile} :
                      dirs[i]["target"] # "none" \/ dirs[i]["previous"] = "whole"
  BY Zenon DEF EnabledMeansReady, Spoilt
<1>1. ~shared /\ ~(faults > 1)
  BY Zenon DEF Spoilt
<1>2. faults \in Nat
  BY SpeechConstants DEF SpeechInv, SpeechTyped, TraceTyped
<1>3. \A i, steps : Busy(i, steps) => "idle" \in steps
  BY DEF Busy, S!NoJob
<1>4. ASSUME NEW i \in Present PROVE dirs[i]["target"] # "none" \/ dirs[i]["previous"] = "whole"
  <2>1. i \in S!Items /\ ~Busy(i, {"cleared", "aside"}) /\ ~Busy(i, {"aside"})
    BY <1>3 DEF Present
  <2>2. CopiesOf(i)
    BY <1>1, <1>2, <2>1 DEF SpeechInv, CopiesInv
  <2>3. i \in had => "whole" \in {dirs[i]["target"], dirs[i]["previous"]}
    BY <2>1, <2>2 DEF CopiesOf
  <2> QED BY <2>1, <2>3 DEF Present
<1>5. Pack \in Present /\ config.speech.profile \in Present
  BY DEF EnabledInv, FileHas, Has
<1> QED BY <1>4, <1>5
-----------------------------------------------------------------------------
(* Starting the Host in the background *)

Running(h) == Starts(h) \/ Serves(h)

\* A menu that starts a Host, with no other start meanwhile, starts the only one.
StartInv ==
    \A p \in Menus \ contested :
      /\ task[p] = "checked" => \A h \in Hosts : ~Running(h)
      /\ task[p] \in {"starting", "asked"} => \A h \in Hosts : Running(h) => h = child[p]

\* No other Host comes into being, and no other menu is affected.
LEMMA StartStays == ASSUME StartInv, NEW p \in Menus,
                           contested \ {p} \subseteq contested',
                           \A h \in Hosts : Running(h)' => Running(h),
                           \A q \in Menus \ {p} : task'[q] = task[q] /\ child'[q] = child[q],
                           \/ task'[p] \notin {"checked", "starting", "asked"}
                           \/ p \in contested'
                           \/ task'[p] = task[p] /\ child'[p] = child[p] /\ p \notin contested
                           \/ {task'[p], task[p]} \subseteq {"starting", "asked"} /\ child'[p] = child[p] /\ p \notin contested
                           \/ task'[p] = "checked" /\ \A h \in Hosts : ~Running(h)
                    PROVE  StartInv'
  BY DEF StartInv

\* A Host is launched: those that start one contest each other.
LEMMA LaunchStays == ASSUME StartInv, task \in [Menus -> Tasks], NEW P \in SUBSET Menus,
                            \A q \in P : /\ task[q] = "checked" /\ task'[q] = "starting"
                                         /\ \A h \in Hosts : Running(h)' => Running(h) \/ h = child'[q],
                            \A q \in Menus \ P : task'[q] = task[q] /\ child'[q] = child[q],
                            contested' = contested \cup (Starters \ P)
                     PROVE  StartInv'
  BY DEF StartInv, Starters

LEMMA MenuKeepsStart == ASSUME DeskTyped, StartInv, NEW p \in Menus, MenuNext(p) PROVE StartInv'
<1>0. /\ task \in [Menus -> Tasks] /\ child \in [Menus -> Hosts \cup {"nobody"}] /\ life \in [Hosts -> Lives]
      /\ \A q \in Menus \ {p} : task'[q] = task[q]
  BY MenuTask DEF DeskTyped, TaskTyped, ChildTyped, LifeTyped
<1> USE DEF Running, Starts, Serves, Goto
<1>1. CASE Open(p) \/ ConfigMenu(p) \/ Download(p)
  <2>1. UNCHANGED <<task, child, life, contested>>
    BY <1>1, Zenon DEF Open, ConfigMenu, Download, menuVars, hostVars, history
  <2> QED BY <2>1 DEF StartInv
<1>2. CASE GoOn(p) \/ CannotSave(p)
  <2>1. UNCHANGED <<child, life, contested>> /\ task'[p] \in {task[p], "none"}
    BY <1>0, <1>2 DEF GoOn, CannotSave, hostVars, history
  <2> QED BY <1>0, <2>1, StartStays
<1>3. CASE Leave(p) \/ Kill(p)
  <2>1. /\ life' = life /\ contested' = contested \ {p} /\ task'[p] = "none"
        /\ \A q \in Menus \ {p} : child'[q] = child[q]
    BY <1>0, <1>3 DEF Leave, Kill, Forget, hostVars
  <2> QED BY <1>0, <2>1, StartStays
<1>4. CASE \/ Look(p) \/ Back(p) \/ Install(p) \/ Downloaded(p) \/ NotDownloaded(p)
           \/ Toggle(p) \/ Choose(p) \/ Remove(p) \/ Removed(p) \/ Stopped(p)
  <2>1. UNCHANGED <<child, life, contested>> /\ task'[p] \notin {"checked", "starting", "asked"}
    BY <1>0, <1>4 DEF Look, Back, Install, Downloaded, NotDownloaded, Toggle, Choose, Remove, Removed, Stopped,
                      Saves, Says, hostVars, history
  <2> QED BY <1>0, <2>1, StartStays
<1>5. CASE Start(p)
  <2>1. /\ UNCHANGED <<child, life>> /\ task'[p] = "checked" /\ contested \ {p} \subseteq contested'
        /\ p \in contested' \/ \A h \in Hosts : ~Running(h)
    BY <1>0, <1>5 DEF Start, NotRunning, Served, hostVars
  <2> QED BY <1>0, <2>1, StartStays
<1>6. CASE Ask(p) \/ Check(p)
  <2>1. /\ UNCHANGED <<child, life, contested>> /\ task[p] \in {"starting", "asked"}
        /\ task'[p] \in {"starting", "asked", "none"}
    BY <1>0, <1>6 DEF Ask, Check, Says, hostVars, history
  <2> QED BY <1>0, <2>1, StartStays
<1>7. ASSUME NEW h \in Hosts, Spawn(p, h) PROVE StartInv'
  <2>1. /\ task[p] = "checked" /\ task'[p] = "starting" /\ child' = [child EXCEPT ![p] = h]
        /\ life' = [life EXCEPT ![h] = "loading"] /\ contested' = contested \cup (Starters \ {p})
    BY <1>0, <1>7 DEF Spawn, Launch, Becomes
  <2>2. {p} \in SUBSET Menus /\ contested' = contested \cup (Starters \ {p})
    BY <2>1
  <2>3. \A q \in {p} : /\ task[q] = "checked" /\ task'[q] = "starting"
                       /\ \A k \in Hosts : Running(k)' => Running(k) \/ k = child'[q]
    BY <1>0, <2>1
  <2>4. \A q \in Menus \ {p} : task'[q] = task[q] /\ child'[q] = child[q]
    BY <1>0, <2>1
  <2> HIDE DEF Running
  <2> QED BY <1>0, <2>2, <2>3, <2>4, LaunchStays
<1>8. ASSUME NEW h \in Hosts, Stop(p, h) PROVE StartInv'
  <2>1. /\ UNCHANGED <<child, contested>> /\ task'[p] = "stopping"
        /\ life[h] = "serving" /\ life' = [life EXCEPT ![h] = "stopping"]
    BY <1>0, <1>8 DEF Stop, Becomes, history
  <2> QED BY <1>0, <2>1, StartStays
<1>9. CASE Autostart(p)
  <2>1. CASE ServiceRuns
    <3>1. UNCHANGED <<task, child, life, contested>>
      BY <1>9, <2>1 DEF Autostart, menuVars
    <3> QED BY <3>1 DEF StartInv
  <2>2. CASE ~ServiceRuns
    <3>1. contested' = contested \cup (Starters \ {}) /\ UNCHANGED <<task, child>>
      BY <1>9, <2>2 DEF Autostart, menuVars
    <3>2. {} \in SUBSET Menus /\ \A q \in Menus \ {} : task'[q] = task[q] /\ child'[q] = child[q]
      BY <3>1
    <3> QED BY <1>0, <3>1, <3>2, LaunchStays
  <2> QED BY <2>1, <2>2
<1>10. CASE NoAutostart(p)
  <2>1. UNCHANGED <<task, child, contested>>
    BY <1>10 DEF NoAutostart, menuVars, history
  <2>2. \/ life' = life
        \/ service \in Hosts /\ life' = [life EXCEPT ![service] = "failed"]
        \/ service \in Hosts /\ life[service] = "serving" /\ life' = [life EXCEPT ![service] = "stopping"]
    <3>1. ServiceRuns => service \in Hosts
      BY DEF DeskTyped, ServiceTyped, ServiceRuns
    <3>2. CASE ServiceRuns /\ ~Starts(service)
      BY <1>0, <1>10, <3>1, <3>2 DEF NoAutostart, Becomes
    <3>3. CASE ~ServiceRuns \/ Starts(service)
      BY <1>10, <3>1, <3>3 DEF NoAutostart, Becomes
    <3> QED BY <3>2, <3>3
  <2>3. \A h \in Hosts : Running(h)' => Running(h)
    BY <1>0, <2>2
  <2> QED BY <2>1, <2>3 DEF StartInv
<1> QED BY <1>1, <1>2, <1>3, <1>4, <1>5, <1>6, <1>7, <1>8, <1>9, <1>10, Zenon DEF MenuNext

LEMMA HostKeepsStart == ASSUME DeskTyped, StartInv, NEW h \in Hosts, HostNext(h) PROVE StartInv'
<1>0. /\ task \in [Menus -> Tasks] /\ life \in [Hosts -> Lives] /\ UNCHANGED <<task, child>>
  BY HostCopy, Zenon DEF DeskTyped, TaskTyped, LifeTyped, HostNext, HostLoads, StartCodex, Bind, HostFails, HostDies,
     Close, Closed, Restart, Ends, menuVars
<1>1. CASE Restart(h)
  <2>1. contested' = contested \cup (Starters \ {})
    BY <1>1 DEF Restart
  <2>2. {} \in SUBSET Menus /\ \A q \in Menus \ {} : task'[q] = task[q] /\ child'[q] = child[q]
    BY <1>0
  <2> QED BY <1>0, <2>1, <2>2, LaunchStays
<1>2. CASE ~Restart(h)
  <2>1. contested' = contested
    BY <1>2, Zenon DEF HostNext, HostLoads, StartCodex, Bind, HostFails, HostDies, Close, Closed, Ends, history
  <2>2. \A k \in Hosts : Running(k)' => Running(k)
    BY <1>0, <1>2 DEF HostNext, HostLoads, StartCodex, Bind, HostFails, HostDies, Close, Closed, Ends, Becomes,
       Running, Starts, Serves
  <2> QED BY <1>0, <2>1, <2>2 DEF StartInv
<1> QED BY <1>1, <1>2

LEMMA StartKept == ASSUME DeskTyped, StartInv, [Next]_vars PROVE StartInv'
<1>1. CASE Damage \/ UNCHANGED vars
  <2>1. UNCHANGED <<task, child, life, contested>>
    BY <1>1 DEF Damage, vars, menuVars, hostVars, history
  <2> QED BY <2>1 DEF StartInv, Running, Starts, Serves
<1> QED BY <1>1, MenuKeepsStart, HostKeepsStart, Zenon DEF Next

\* What start_background says is so of a menu that is not contested.
Truth(p) == told'[p] # told[p] /\ p \notin contested =>
              /\ told'[p] = "started" => Serves(child[p])
              /\ told'[p] = "exited" => ~Served

LEMMA SaysTheTruth == ASSUME DeskTyped, StartInv, [Next]_vars, NEW p \in Menus PROVE Truth(p)
<1>0. told \in [Menus -> Answers]
  BY DEF DeskTyped, ToldTyped
<1>1. CASE Ask(p) \/ Check(p)
  <2>1. \A h \in Hosts : p \notin contested /\ Serves(h) => h = child[p]
    BY <1>1 DEF StartInv, Running, Ask, Check
  <2>2. CASE Ask(p)
    BY <1>0, <2>1, <2>2 DEF Truth, Ask, Says, Served
  <2>3. CASE Check(p)
    BY <1>0, <2>1, <2>3 DEF Truth, Check, Says, Served, Serves
  <2> QED BY <1>1, <2>2, <2>3
<1>2. CASE Start(p) \/ Stopped(p)
  BY <1>0, <1>2 DEF Truth, Start, Stopped, Says
<1>3. ASSUME NEW q \in Menus, MenuNext(q), ~(Start(p) \/ Ask(p) \/ Check(p) \/ Stopped(p)) PROVE told'[p] = told[p]
  <2>1. CASE Start(q) \/ Ask(q) \/ Check(q) \/ Stopped(q)
    <3>1. q # p
      BY <1>3, <2>1
    <3> QED BY <1>0, <2>1, <3>1 DEF Start, Ask, Check, Stopped, Says
  <2>2. CASE ~(Start(q) \/ Ask(q) \/ Check(q) \/ Stopped(q))
    <3>1. told' = told
      BY <1>3, <2>2, Zenon DEF MenuNext, Open, GoOn, CannotSave, ConfigMenu, Leave, Kill, Look, Back, Install,
         Download, Downloaded, NotDownloaded, Toggle, Choose, Remove, Removed, Autostart, NoAutostart, Spawn,
         Stop, Saves, menuVars
    <3> QED BY <3>1
  <2> QED BY <2>1, <2>2
<1>4. ASSUME NEW h \in Hosts, HostNext(h) PROVE told' = told
  BY <1>4, Zenon DEF HostNext, HostLoads, StartCodex, Bind, HostFails, HostDies, Close, Closed, Restart, Ends, menuVars
<1>5. CASE Damage \/ UNCHANGED vars
  BY <1>5 DEF Damage, vars, menuVars, Truth
<1> QED BY <1>1, <1>2, <1>3, <1>4, <1>5, Zenon DEF Next, Truth
-----------------------------------------------------------------------------
(* The whole installation *)

IInv == ConfigInv /\ SpeechInv /\ DeskTyped /\ TaskInv /\ EnabledInv /\ StartInv

LEMMA InitHolds == ASSUME Init PROVE IInv
<1>1. C!Init /\ S!Init
  BY DEF Init
<1>2. ConfigInv /\ SpeechInv
  BY <1>1, ConfigInitTyped, InitHasNoCopies, InitIsOfOneSetup, SpeechInitTyped, InitIsIdle DEF ConfigInv, SpeechInv
<1>3. StartInv
  BY DEF Init, StartInv
<1> QED BY <1>2, <1>3, DeskInitTyped, InitHasAll DEF IInv

LEMMA StepKeepsAll == ASSUME IInv, [Next]_vars PROVE IInv'
<1>1. /\ ConfigTyped /\ TokenInv /\ CopyInv /\ RelayInv /\ SpeechInv /\ SpeechTyped
      /\ DeskTyped /\ ServiceTyped /\ TaskInv /\ EnabledInv /\ StartInv
  BY DEF IInv, ConfigInv, SpeechInv, DeskTyped
<1>2. ConfigInv'
  BY <1>1, StepIsConfigStep, ConfigKeepsAll DEF ConfigInv
<1>3. SpeechInv'
  BY <1>1, StepIsSpeechStep, SpeechKeepsAll
<1> QED BY <1>1, <1>2, <1>3, DeskStepTyped, TasksKept, EnabledKept, StartKept DEF IInv

\* The inductive invariant of the whole holds of menus that set up, install speech
\* and start Hosts, and of Hosts that autostart launches and stops, killed at any
\* point (src/vibeslopik_host/cli.py, autostart.py).
THEOREM Inductive == Spec => []IInv
<1> QED BY InitHolds, StepKeepsAll, PTL DEF Spec

\* Every variable keeps its type, in the files, in each process and in each menu.
THEOREM TypeCorrect == Spec => []TypeOK
<1>1. IInv => TypeOK
  BY ConfigTypedIsTypeOK, SpeechTypedIsTypeOK
     DEF IInv, ConfigInv, SpeechInv, TypeOK, DeskTyped, TaskTyped, StatusTyped, LifeTyped, ChildTyped, ToldTyped,
         FlagTyped, ServiceTyped, LeftTyped, ContestedTyped
<1> QED BY <1>1, Inductive, PTL

\* The menus, the speech menu and the Hosts of cli.py use the configuration only as
\* ConfigStore in config.py lets them: every behaviour is one of HostConfig.
THEOREM ConfigIsImplemented == Spec => C!Spec
<1>1. Init => C!Init
  BY DEF Init
<1>2. IInv /\ [Next]_vars => [C!Next]_(C!vars)
  BY StepIsConfigStep DEF IInv, ConfigInv, DeskTyped
<1> QED BY <1>1, <1>2, Inductive, PTL DEF Spec, C!Spec

\* And speech_menu uses the Speech Pack only as SpeechManager in speech.py lets it,
\* one operation after another, each of them ended or killed: every behaviour is one
\* of SpeechPack.
THEOREM SpeechIsImplemented == Spec => S!Spec
<1>1. Init => S!Init
  BY DEF Init
<1>2. IInv /\ [Next]_vars => [S!Next]_(S!vars)
  BY StepIsSpeechStep DEF IInv, ConfigInv
<1> QED BY <1>1, <1>2, Inductive, PTL DEF Spec, S!Spec

\* A phone keeps its access: whatever menus and Hosts do, a client token that is
\* stored is never replaced, unless the first two processes loaded at the same time.
THEOREM TokenNeverReplaced == Spec => TokenIsStable
<1>1. IInv /\ [Next]_vars => [C!TokenKept]_vars
  BY StepIsConfigStep, ConfigKeepsAll DEF IInv, ConfigInv, DeskTyped
<1> QED BY <1>1, Inductive, PTL DEF Spec, TokenIsStable

\* The two files that save writes one after the other are of the same setup, so that a
\* Host never gives one relay the secret of another, unless a process ended between
\* them, saved a copy older than the files, or saved what a setup given up had left.
THEOREM RelaySettingsMatch == Spec => []RelaySecretMatches
<1>1. IInv => RelaySecretMatches
  BY RelayMatches DEF IInv, ConfigInv, RelaySecretMatches
<1> QED BY <1>1, Inductive, PTL

\* A model or program that was installed exists as a whole, in its place or beside it,
\* whatever replacement of it is interrupted at any point or fails once, by one process
\* at a time (download_model and install_backend, src/vibeslopik_host/speech.py).
THEOREM InstalledModelSurvives == Spec => []ModelSurvives
<1>1. IInv => ModelSurvives
  BY CopiesSurvive DEF IInv, SpeechInv, ModelSurvives
<1> QED BY <1>1, Inductive, PTL

\* Speech that config.toml says is enabled has its program and its model: speech_menu
\* enables it after they are installed and disables it before they are removed, and
\* the orders survive a failure and any kill.  It is not so of a copy of the
\* configuration older than the files, of a removal under another menu, or of two
\* processes that replaced the same model.
THEOREM EnabledIsReady == Spec => []EnabledMeansReady
<1>1. IInv => EnabledMeansReady
  BY PresentIsReady DEF IInv
<1> QED BY <1>1, Inductive, PTL

\* What start_background tells the user is so: "started" of its own child, and
\* "exited" only when no Host serves, unless another Host was launched meanwhile.
THEOREM StartIsTruthful == Spec => StartTellsTheTruth
<1>1. IInv /\ [Next]_vars =>
        [\A p \in Menus : told'[p] # told[p] /\ p \notin contested =>
           /\ told'[p] = "started" => Serves(child[p])
           /\ told'[p] = "exited" => ~Served]_vars
  BY SaysTheTruth, Zenon DEF IInv, Truth
<1> QED BY <1>1, Inductive, PTL DEF Spec, StartTellsTheTruth
=============================================================================
