# VibeSlopik in TLA+

VibeSlopik lets an iPhone drive Codex on a desktop computer. An iPhone sends
authorised JSON to a **relay** (`relay-go/main.go`) on a server. The **Host**
(`src/vibeslopik_host`) on the computer polls the relay, performs each request
on its own local HTTP server and posts the answer back; for most requests that
means a call of `codex app-server` over JSON-RPC. This directory holds models of
the program, their model checking with TLC, and proofs checked by TLAPS.

## Inventory

| Component | State | Operations | Talks to | Hard behaviours | What makes it correct |
|---|---|---|---|---|---|
| Relay request handling, `main.go:199-370` | a queue per computer, the table of waiters, one channel per waiting client | register, client request, poll, reply, cancel, close | clients and computers over HTTP, one goroutine each, one mutex | handlers interleave at every unlock; timeouts and disconnects race with polls and replies; shutdown and crash at any point | no request leaks, is handed over twice or overtaken; an answer goes to the client that asked; every client gets an end; memory is bounded |
| Relay registration store, `main.go:58-138` | state file, backup, temporary file | load, save | the file system | death or failure between two file operations; damage while it runs or at rest | what was answered 200 is found at the next start |
| Codex JSON-RPC client, `rpc.py` | table of pending calls, one-element queues, the child process | request, read, stop | Host threads, `codex app-server` | time limits race with replies, process death and stop | each reply to its caller; nobody waits for a dead process; events and approvals are not lost; the reader never blocks |
| Host turn submission, `host.py:366-504` | remembered responses, resumed threads | start_turn | HTTP threads, JSON-RPC | repeated calls, overlap, lost answers, turns that show up late, eviction | a repeated call starts nothing twice; "started" is said only of stored input |
| Host events, turn state, approvals, `host.py:106-170, 313-364, 506-522` | bounded event queue, turn records, settings, approval table | _event, event_list, read_thread, set_override, approval_reply | reader threads, HTTP threads, Codex | events of a turn race with the reply that names it; list and sequence number read apart; an approval removed before it is answered | what a phone is shown of a turn is what Codex told; no event is skipped but in a race; an approval is decided once |
| Host threads, media, cache, `host.py:172-311, 539-570` | media table, thumbnail files | normalise, thumbnail, clean up | Codex, file system | the live answer joins what was stored earlier; concurrent thumbnails, clean-up under use | an answer that was begun is shown; a thumbnail is whole or absent |
| Relay agent, `relay.py` | back-off, registration flag, eight slots | poll, forward, reply | relay, local HTTP | lost poll answers and replies, late replies, retries | a polled request is performed once and answered or reported |
| Configuration, `config.py`, `cli.py:109-196` | `config.toml`, `secret.env`, a copy in each process | load, recover, migrate, save, setup | file system, every process of the command line | crash between the files, copies that are out of date, a setup given up halfway | the two files belong together; the client token never changes |
| Speech, `speech.py` | directories of models and program, loaded model | install, download, verify, remove, transcribe | file system, worker | crash or failure during replacement, two downloads | a working model survives; what is enabled is there |
| Command line, autostart, `cli.py`, `autostart.py` | menus, the background process, the service | start, stop, run, speech menu, autostart | Host, service manager | two starts, autostart during a start, a stop whose port stays bound | what the menu says of the Host is so |
| iOS composer and drafts, `VSChatViewController.m`, `VSDraftStore.m` | text, images, request id, saved draft | edit, dictate, send, retry | Host through the relay | an answer after the screen or the draft changed | no draft is deleted whose input was not delivered |
| iOS transport and media cache, `VSBridgeClient.m`, `VSMediaCache.m` | one exchange; files up to 50 MiB | request, store, evict | relay | time limit of 45 s below the Host's own | bounded cache |
| Installer and manager, `install-relay-vps.sh`, `vibeslopik-relay-manager.sh` | installed files, service state | install, roll back, change port | systemd | failure between two files | all new or all old |

The rest is not protocol: `bridge/dev/fake-codex-app-server.mjs` is a test
double, the remaining scripts build and package. `PROJECT.json` lists each
component with its status, and under `hazards` every place in the code that is
hard to test, with the property that would notice it going wrong.

## Modules

    IdQueues ---- IdQueueLemmas            Exchange  (abstract)
       |    \            \                    ^  refinement
       |     \            \                   |
    HostTurns  Relay ----- RelayProofs -------+
       |         |
       |       MCRelay
    HostTurns ---- HostTurnsProofs, MCHostTurns    (the proofs use IdQueueLemmas)
    RelayStore --- RelayStoreProofs, MCRelayStore
    CodexRPC ----- CodexRPCProofs, MCCodexRPC
    RelayAgent --- RelayAgentProofs, MCRelayAgent   (instantiates Exchange)
    HostEvents --- HostEventsProofs, MCHostEvents
    HostConfig, SpeechPack --- HostDesk --- HostDeskProofs, MCHostDesk
                               (HostDesk instantiates both, and refines them)

**Exchange** says what the relay promises and nothing of how: each request is
handed over at most once and ends exactly once, with a reply to it made after it
was handed over, or without one.

**Relay** models `main.go`. One action is one critical section of `relay.mu`, or
one channel operation. `client[r]` is the program point of the goroutine in
`clientEndpoint`: `idle`, `reading` (authorised, the body is being read without
the lock), `waiting` (in the `select`), `leaving` and `expiring` (a case was
taken, `cancel` not yet called), `done`. `poster[p]` is that of a reply call:
`sending` lies between taking the waiter and the non-blocking send. `chan` is
the channel of capacity one. A request stands for its random id. A computer
replies only to what it was handed, twice if it likes. `handed` is a history
variable.

| Code | Action |
|---|---|
| `register` 199-233 | `Register` |
| `clientEndpoint` 294-343 | `Authorize`, `RefuseBody`, `Busy`, `Enqueue`, `Receive`, `ClientLeaves`, `TimerFires` |
| `cancel` 345-357 | `Cancel` |
| `hostEndpoint` 235-292 | `Poll`, `TakeWaiter`, `ReplyNotFound`, `SendReply` |
| `close`, `main` 359-419 | `Close`, `Exit`, `Restart`; `Crash` is external |

**RelayStore** models `newRelay`, `loadState` and `saveLocked`. A file is
`Missing`, `Broken` or `Whole(S)`. Each file operation is an action:
`Register` (truncates the temporary file), `WriteTmp`, `ReadPrimary` (which
truncates the backup when there is something to copy), `WriteBackup`, `Rename`,
`RenameAgain`; each may fail, and `Crash` may come between any two. A crash is
the death of the process, so that what was written stays written; power loss is
not modelled. `Damage` breaks the state file, with the relay running or at rest;
`TestStateRecoveryFromBackup` does the latter.

**CodexRPC** models `rpc.py`: callers in `request`, the thread in
`_read_stdout`, and `stop`. `pending` and `box` are the table and its
one-element queues, `wire` is the pipe from Codex. Looking an id up (`ReadLine`)
and popping it under the lock (`PopPending`) are two steps, as they are in the
code. Codex is external: it answers any request it received, in any order, asks
for approvals under ids that it chooses and that may be those of calls, and may
stop reading (`Hang`) or die. What is written to a Codex that reads no more stays in
the pipe, or blocks when that is full: `Send` may be taken then and need not be.

**HostTurns** models `start_turn` for one thread, with `_remember_result`,
`_turn_is_visible` and `_confirm_turn_delivery`. A call is at `idle`, `fresh`
(not remembered), `ready` (thread resumed), `confirming` or `done`. `order` is
the key order of the `OrderedDict` and `idempotency` its content. Codex is
external: `Faults` says whether it refuses calls, loses the answer to a
`turn/start` it performed, does not name the turn in it, or fails to be read, and
whether the log of deliveries can be written: that write comes before a response is
remembered, so that an error of it leaves a turn and no memory of it (`Deliver`). A
turn becomes `visible` some time after it was started.

**RelayAgent** models `relay.py`: the thread in `run` and one thread in `_deliver`
for each request. `loop` is the program point of the first (`top` of the `while`,
`pause` of 0.7 s, `backoff`, `ended`), `worker[r]` that of the others (`starting`
means: waiting for a slot), `free` the semaphore. It does not compose with `Relay`
but with what `Relay` was shown to implement: `Exchange` is instantiated, so that a
request is followed from the phone through the queue to the Host and back. Every
poll, reply and registration may fail before or after the relay had it; the relay
may restart with or without the registration; the Host may end at any point, and its
loop alone may (`_log` raising inside the exception handler). These and `performed`,
which counts what the local HTTP server did, are what the properties are about.

**HostEvents** models what the Host knows of the turns of one thread. Codex is
external: it runs turns one after another, each told in events, writes events and
replies into one pipe (`out`), and may report the settings of a thread. A turn gives
its messages by number, each first in a delta and then as a whole (`part`, `whole`), and
pictures among them (0): `normalize_thread` does not tell one from the other. `_event`
holds the lock over two steps: `HandleEvent` (or `HandleStderr`, the other reader
thread) up to the number, `AppendEvent` for the deque; a poll, which takes no lock,
comes in between. `thread[h]` is the program point of an HTTP thread.

| Code | Action |
|---|---|
| `_event` 106-166 | `HandleEvent`, `HandleStderr`, `AppendEvent`; `UpdateTurn`, `StatusAfter`, `TextAfter`, `UpdateSettings`, `Number` are its parts |
| `rpc.py:_read_stdout` 112-126 | `HandleReply` |
| `start_turn` 425-470, 470-492 | `StartTurn`, `Record` |
| `read_thread`, `normalize_thread` | `ReadThread`, `AnswerThread`; `Live`, `Normalized` |
| `set_override` 348-364 | `SetOverride` |
| `event_list` 169, 170 | `ListEvents`, `AnswerEvents` |
| `approval_reply` 516, 520 | `ReplyApproval`, `Respond` |
| `codex app-server` (external) | `Begin`, `Retry`, `Speak`, `Store`, `Picture`, `Complete`, `Fail`, `AcceptTurn`, `TellSettings`, `AnswerRead`, `AskApproval` |

What belongs to the other half of `start_turn`, the memory of responses and the
confirmation, is in `HostTurns`. The status of a turn is not read by it, and
`HostEvents` does not repeat it.

**HostConfig** models `ConfigStore` and what changes it. `at[p]` is the program point
of a process: `damaged` and `read` lie within `load`, `config` and `secrets` before the
first and the second file of a save, `ready` after it. `store[p]` is its copy. A setup
is a number, found in both files; a configuration that holds one is set up.

| Code | Action |
|---|---|
| `load` 148-199 | `ReadConfig`, `Preserve`, `ReadSecrets`, `Refuse` |
| `save` 201-206 | `WriteConfig`, `WriteSecrets`, `FailWrite` |
| `setup`, `choose_language` | `SetUp`, `GiveUpSetUp`, `Save` |
| end of a process, damage to the file (external) | `End`, `Damage` |

**SpeechPack** models `download_model`, `install_backend` and `remove_speech_pack`. Each
model, and the program, has three places (in use, `.new`, `.previous`); `job[p]` says how
far a process is. Each file operation on them is an action: `Start`, `Fetch` or
`FetchPack`, `Clear`, `Aside`, `Install`, `Finish`, and `Fail`, which rolls a model back
(but not the program: `install_backend` has no roll-back); `Stop` is the end of the
process at any point.

**HostDesk** composes the two with the processes: `Menus` and `Hosts`. Its actions are
theirs, together with what the menu or the Host does around them. A Host loads, starts
Codex, binds the port, serves, stops (`serve_forever` has yet to notice), closes (nothing
answers, the port is bound until agent and Codex have ended) and has left.

| Code | Action |
|---|---|
| `main` 545-551, `menu` 485-525 | `Open`, `GoOn`, `CannotSave`, `ConfigMenu`, `Leave` |
| `speech_menu` 393-466 | `Look`, `Back`, `Install`, `Download`, `Downloaded`, `NotDownloaded`, `Toggle`, `Choose`, `Remove`, `Removed` |
| `start_background` 234-274 | `Start`, `Spawn`, `Ask`, `Check` |
| `stop_background` 277-292 | `Stop`, `Stopped` |
| `run` 295-349 | `HostLoads`, `StartCodex`, `Bind`, `HostFails`, `Close`, `Closed` |
| `autostart.py` | `Autostart`, `NoAutostart`; `Restart` is the service manager's `Restart=on-failure` |
| external | `Kill`, `HostDies`, `Damage` |

Assumed here: a Host that serves answers `/healthz` within the three seconds a menu waits;
a port is bound by one process at a time; the service is run as systemd runs it.

Definitions marked "Wrong:" are variants of the definition below them with a
plausible mistake. No specification uses them: putting one in place of the
definition must make TLC find the property violated that `PROJECT.json` names
(under `mutants`), which shows that the property can fail.

## Runs

| Run | Instance | Result |
|---|---|---|
| `relay` | 3 requests to one computer, 2 replies to the first, queue and table limits of 2, crashes and restarts | 146,228 states; types, safety, order, refinement of `Exchange`, and liveness hold |
| `relay_stopped` | the same without crashes | **violated**: `CloseWakesClients` |
| `store` | 3 computers (symmetric), 2 faults | 5,019 states; nothing acknowledged is lost |
| `store_damaged` | 1 fault | **violated**: `AlwaysStartable` |
| `rpc` | 2 calls, 2 approvals, one under the id of a call, a codex that hangs or dies, and stop | 231,956 states; routing, no blocking, the way of approvals, termination hold |
| `turns` | 3 messages in 5 calls, memory of 2, every fault | 1,123,164 states; idempotency with its limits, confirmation hold |
| `agent` | 2 requests, 1 slot, delay limit 3, 3 faults, admin key configured | 38,532 states; no request performed twice, no false result, registration and fetching go on, slots come back |
| `events` | 2 turns, 2 models, 1 approval, 2 HTTP threads, up to 3 messages or pictures of a turn, a deque of 2 | 1,977,611 states; turn states, settings, live answers, polls and approvals hold |
| `desk` | 2 menus, 3 Hosts, 2 models, 3 setups, 2 tokens, 2 faults of the Speech Pack | 961,757 states; token, relay settings, installed models, enabled speech and what a start says hold |
| `desk_interrupted` | the same | **violated**: `WorkingModelIntact` |
| `turns_repeated` | overlapping calls, no faults | **violated**: `AtMostOneTurn` |
| `turns_same_text` | two messages with the same text, no faults | **violated**: `StartedMeansPersisted` |

Bounds. In `relay` the table of waiters fills with requests already handed over,
so that both limits refuse requests; two handlers race to reply to one request;
a request leaves the queue ahead of another. Removing an entry from the middle
of a longer queue is beyond these bounds: the theorem `OrderKept` covers it, as
`LimitsHold` covers any two limits. In `store` two faults let both renames fail, and
show that a second fault is one too many for `AcknowledgedSurvive`, hence its
`faults <= 1`. In `turns` three ids and a memory of two force an eviction and a
call repeated after it, and the five calls leave room for every fault to be followed by a
repetition. In `rpc` one of the two approvals can be taken for the reply to a call and one
cannot. In `agent` the second request waits for the
slot of the first, and three faults let a reply be lost, the relay forget its
registration and the Host restart in one behaviour; without an admin key a forgotten
registration stays forgotten, which the code intends. `MaxFaults` is the one counter
bounded for the sake of the model. In `events` and `desk` a behaviour
chooses at its start one of a few plans, each of which says how often every kind of step
may happen: the interleavings that a question is about are all there, and those of
unrelated steps are not multiplied (`SomePlans` in the two MC modules; in `events` two
starts with changes of the model, two starts with reads, a second message or a picture with
reads, two of them with reads, approvals with a read, polls;
in `desk` setups with damage and a death, a start beside a setup, the speech menu in two
processes and, longer, in one, and starts with autostart). Two turns are enough for an
event to be taken for the wrong one, a deque of two for an event to be pushed out between
two polls, two menus for a copy to be out of date, three Hosts for a start to meet the
autostart and a restart of its Host. Longer behaviours
are not covered by these runs; the theorems hold for any plans.
Deadlock is checked in `relay`, which restarts for ever. `Store.cfg`
turns the check off because a store with a damaged file and a torn backup may
not start again; the other files because a finite number of calls, or a plan, ends.
Symmetry is used only where no property is about liveness: `Store.cfg`,
`StoreDamaged.cfg`, `Events.cfg`, `Desk.cfg` and `DeskInterrupted.cfg`.

What the violated properties show:

1. `relay_stopped`: `Shutdown` makes `ListenAndServe` return at once; `main` calls
   `close`, which puts a 503 in each channel, and returns without waiting, so the
   handlers end before they have written it (`main.go:413-418`; the unit test of
   `close` says "graceful close did not wake client").
2. `store_damaged`: a save copies whatever the state file holds over the backup, in place
   and unread (`main.go:123-124`). When the file was damaged under a running relay, which
   knows its content from memory, the next registration puts the damaged bytes in the place
   of the last good copy; a crash before the rename then leaves nothing that can be read
   (`docs/ARCHITECTURE_RU.md:8-9` promises an atomic save with a backup copy). A save that
   completes repairs both.
3. `turns_repeated`: the memory is written only after the confirmation
   (`host.py:427`, `503`); the phone's limit of 45 seconds makes a repetition before
   that ordinary (`docs/protocol.md:36` promises idempotency).
4. `desk_interrupted`: a model in use is moved aside before the new one is moved in
   (`speech.py:193-195`). A process that ends in between leaves none in place; the old one
   stays under `.previous`, which only the next download looks at, to delete it.
   (`docs/SPEECH.md:17-18` promises that interruption leaves the working model intact.)
   It is not lost, as `ModelSurvives` says.
5. `turns_same_text`: any equal text confirms (`host.py:384`), so that "continue"
   sent twice is confirmed by its first sending (`host.py:374` says the submitted
   input is confirmed).

What the passing properties do not promise is written in their conditions. Each was taken
out in turn, and TLC has then found the property violated: a condition is there because the
code does what it excuses, and the hazards list says so where the property does not cover it.

- `RepeatsStartNothing`: a call answered with an error, or pushed out of the memory, may start
  a second turn when it is repeated. An error does not mean that no turn was started: the
  answer to `turn/start` may have been lost (`host.py:470`), or the log of deliveries could
  not be written, which comes before the response is remembered (`host.py:496-503`, the
  write at 370).
- `ApprovalsArrive`: an approval that carries the number of a pending call is taken for its
  reply. `CallsReturn`: a call blocked in its write has no time limit.
- `TurnsFollowCodex` and the two like it say nothing of two calls of `start_turn` that
  overlapped, for the later record wins (`host.py:492`).
- `SpokenTurnsAreShown`: once another message or a picture of the turn is stored, one that has
  begun is left out of the messages until it is whole (`host.py:246-249`); the same answer
  has its words beside them, in `activeTurn`.
- `ConfirmedSettingsAreCurrent`: not before Codex has reported the settings, and not for a
  turn accepted while another ran (`host.py:154-161`).
- `PollsMissOnlyRaces`: what was handled between lines 169 and 170, or pushed out, is missed.
  `ApprovalsAccounted`: a decision that could not be sent is lost.
- `RelaySecretMatches`: not after a process ended between two files, a save of a copy older
  than the files, or a save after a setup was given up. `TokenIsStable`: not two first loads
  at the same time. `EnabledMeansReady`: not a save of an older copy, a removal under another
  menu, two replacements of one model, or a second fault. `ModelSurvives`: neither of these two.
- `StartTellsTheTruth`: not a start that met another launch; that a start fails because the
  old Host still holds the port is told as it is.

## Fairness

`Relay`: a handler that can go on does (Go runs every runnable goroutine), the
reading of a body ends (`ReadTimeout`), and the five-minute timer fires. `WF` of
`Receive \/ TimerFires` is all that is assumed of the `select`, for Go may pick any
ready case. Nothing is assumed of clients, computers, or of whoever starts and
stops the process.
`CodexRPC`: the Host's threads run, `queue.get` ends after its timeout, and a write to
Codex ends when Codex reads its input or has gone (`WF` of `(~hung \/ ~alive) /\ Send`). Of a
Codex that lives and does not read nothing is assumed. `RelayAgent`: the two kinds of thread run, and every call and
wait of theirs has a time limit in the code (15, 30 and 120 s, 0.7 s, the delay), so
that each step of `run` and `_deliver` is taken some time. Nothing is assumed of the
phone, of the local HTTP server, or of whoever starts the Host: a loop that ended is
excused. The other modules state safety only: `HostEvents` has no wait of its own (its HTTP
threads wait in `CodexRPC`), and the waits of `HostDesk` are counted loops whose end is one
of their answers.

## Proofs

`RelayProofs` proves, for any finite set of requests, any computers, replies and
limits, every safety property and step property of the run `relay`, and the
refinement. Assumed are only the three named assumptions of `Relay`: finitely many
requests, well-typed routes, positive limits.

The properties are not inductive alone. That a reply finds room, for instance,
needs that a channel is only written by whoever took its waiter out of the table,
hence that waiters have empty channels, hence that a request is admitted once. The
invariant `IInv` has a part for each of these ideas: `QueueInv` (queues hold
waiters not handed over, once each, within the limit), `WaiterInv` (waiters have
an admitted handler and an unused channel), `SlotInv` (a poster between take and
send owns the channel), `AnswerInv` (what is in a channel, or was given to a
client, is one accepted reply to it), `TableInv` (the size of the table). One lemma
shows for each part that every action preserves it. `OrderStep` and `RefinementStep`
then treat each action once more. `IdQueueLemmas` proves what appending, taking the
head and removing an id do to a queue's type, uniqueness, elements and order.

`RelayStoreProofs` proves for any computers and any number of faults
that no acknowledged registration is lost (`CrashLosesNothing`) and that damage
costs one save at most (`DamageLosesOneSave`). `SaveInv` says that the
temporary file, once written, holds the memory, `BackupInv` that before any
fault the backup a save has just made equals the state file, and `HoldInv`
where, with at most one fault so far, the acknowledged registrations are.

`CodexRPCProofs` proves every invariant of the run `rpc` for any finite set of calls,
with Codex dying, calls timing out and a stop at any point. Ids are unique because
the counter is one more than the number of calls that have one (`IdInv`, which needs
the calls to be finite so that the type of ids is); an entry of the table has an
empty queue and an owner (`TableInv`); the reader that took an entry out has its
queue to itself (`ReaderInv`); whoever waits is in the table, has something in the
queue, or is about to get it from the reader (`WakeInv`). For `RepliesMatch` (`MatchInv`)
what is on the wire or in the reader's hands must have been said by Codex; for
`ApprovalsArrive` (`AskInv`) an approval that the reader took for a reply is followed until
the call it was taken for has returned without a reply of its own. Nothing is assumed of the
ids Codex chooses.

`RelayAgentProofs` proves the invariants of the run `agent` for any finite set of
requests, any number of slots and any number of faults. `WorkerInv` ties the program
point of a request's thread to what was performed, `SlotInv` says that free and taken
slots never exceed the limit; slots of a Host that was killed are missing until it
starts again, hence the inequality.
`ExchangeIsKept` adds that every behaviour of the agent is one of `Exchange`: the
abstract relay that `Relay` is proved to implement is the one the agent is composed with.

`HostTurnsProofs` proves every invariant of the run `turns` for any calls, requests and
limit. `PhaseInv` says what has happened to a call by each point of `start_turn`, `TurnInv`
that a turn named anywhere, in a call, its answer or the memory, was started for the same
request, `ShownInv` that "started" is said only of what Codex shows. `AloneInv` is what a
repeated call needs: one call of a request is under way at a time, and only while no answer
is remembered, unless a call of it was answered with an error: a failing log leaves a turn
and no memory. Two of the properties are false of the program without a condition, as the
runs `turns_same_text` and `turns_repeated` show, and each is proved from just that condition:
`StartedMeansPersisted` when no two messages have the same text (`TextsDiffer`), for a message
is found again by its text; `RepeatsStartNothing` and `RepeatsAgree` with a phone that does not
repeat a request while it is under way (`Patient`). Types and `AnswersNameOwnTurn` need neither.

`HostEventsProofs` proves every invariant of the run `events` for any HTTP threads, models,
approvals, turns and bounds, so for a pipe of any length, where the run has one of a few
messages. The idea is one: what the Host knows lags behind Codex by what is still in the pipe.
So nearly every part of `IInv` relates a variable of the Host to one of Codex *and* to `out`:

- `OrderInv`: messages are about turns that have begun, in the order of the turns, and the
  start of a turn that began is behind whatever is still told of earlier ones;
- `StatusInv`: a turn under way has the status "inProgress", or its start is in the pipe; one
  that ended has its end as status, or as the last message about it in the pipe. This gives
  `TurnsFollowCodex`, whatever order `_event` and `start_turn` make the record in;
- `CurrentInv`: once its start has been read the last turn is the one shown. When nothing
  overlapped (`AloneInv`), recording can only set it to that turn;
- `PartInv`: the messages of a turn are told of and heard in the order of their numbers, so
  that words are forgotten only for later ones;
- `AnswerInv`, `ReadInv`: the last message of a turn, or a later one, is among the words heard
  or its delta is in the pipe, and a read that found it at Codex was answered behind both
  that and the turn's start. By the time the reply is out of the pipe `normalize_thread`
  therefore finds the live text of the turn shown;
- `SettingsInv`, `ArrivedInv`, `ConfirmedInv`: the last report in the pipe, or what is kept, is
  the model Codex uses; when the last turn is shown, nothing about an older one is in the pipe
  any more, so the report goes to the record of the turn it is about;
- `ApprovalInv`: the five places of an approval exclude each other, one message and one thread
  hold it at most, and an approval asked for is in one of them;
- `LogInv`, `PollInv`: an event numbered is in the deque, about to be, or excused, and the phone
  has all but the excused up to its cursor, and up to `seq` while a poll is between its list
  and its answer.

`HostDeskProofs` proves every invariant of the run `desk`, for any menus, Hosts, models and
plans, with every process killed at any point, in four layers.

- The configuration (`ConfigInductive`, a theorem of `HostConfig`). `TokenIsStable` is not
  inductive: a process must be known to have the stored token in memory before its save is
  known to be harmless, and while none is stored one process at most may have made one. That
  is `TokenInv`, with `twins`, two first loads that overlapped, as the exception; the flag
  `loaded` is needed to know that whoever goes on after a failed write has loaded a token that
  is stored. `RelayInv` says that the two files are of one setup, and so is every copy that is
  not outdated, except while a process is between the two writes of its save, and unless one
  of the exceptions that `RelaySecretMatches` names has happened; `CopyInv` says what that
  process's copy and the first file then have in common.
- The Speech Pack (`SpeechInductive`, of `SpeechPack`): `JobInv` says what each step of a
  replacement leaves in the three places, `CopiesInv` that with one fault and one process at a
  time a whole copy is in one of them. From it follows `ModelSurvives`.
- Every step of a menu, the speech menu, a Host or autostart is a step of `HostConfig` and of
  `SpeechPack`, or leaves their state alone (`ConfigIsImplemented`, `SpeechIsImplemented`); that
  carries both invariants over. The steps need the types: what the speech menu saves must be
  speech settings.
- The whole: `TaskInv` (what a process is doing, and with which copy), `EnabledInv` (what the
  file enables is installed, and what a menu has seen, or is about to save, does not spoil
  that), `StartInv` (what a menu that waits for its Host knows of it).

Assumed is that a process is a menu or a Host and not both (`ProcsAssumption`).

Only model-checked: liveness (`EveryClientFinishes`, `CallsReturn`, `RegistrationComesBack`,
`WaitingRequestsAreFetched`, `FetchedRequestsEnd`), which the prover cannot do, as it cannot
ENABLED. Every invariant and every step property of a passing run is a theorem. What the runs
that expect a violation check is false, and is not proved: `WorkingModelIntact`, for one. The
other way round, `QueuedRequestsAreAwaited` of `Relay` and `PendingIsOwned` of `CodexRPC` are
proved, are used in other proofs, and are not among the properties of the runs. No module
declares a RECURSIVE operator and no proof needs an induction over data, which the installed
provers cannot use either.

## Not modelled

- Byte-level matters: JSON, headers, formats, credentials (a request that fails
  authorisation is one refused), the texts of answers.
- Loss of power. `os.WriteFile` and the renames are not synced by the relay, so what
  survives would depend on the file system.
- `WriteTimeout` of six minutes against a body read for up to six minutes followed by
  a wait of five.
- Thumbnails, attachments and the clean-up (`host.py:253-311, 404-423, 539-570`): files that
  are written once under a random or derived name and removed by age and size. Two threads
  may write one temporary thumbnail at a time (`host.py:291`), which is a hazard on the list.
- The remaining values of the configuration, the questions of the menus, diagnostics and
  logs, which only read. `setup --non-interactive` saves what was loaded.
- Recognition (`SpeechService.transcribe`): one call of a program or a library.
  `maybe_unload` is called by nothing.
- autostart on Windows and macOS, which launch the same command without a restart.
- The iOS application (Objective-C on UIKit), the installation scripts of the relay, the
  test doubles and the build scripts. What the Host must withstand of the phone, repeated,
  overlapping and abandoned calls, is in `HostTurns`, `HostEvents` and `RelayAgent`.

## Plan

1. Proofs: what a run leaves open because of its bounds and can still be stated as a safety
   property, such as that a caller of `CodexRPC` whose answer is on the wire is owed a step of
   the reader (the step that the liveness properties rest on); and `RelayStore` composed with
   `Relay`, so that `Restart` keeps the registrations that `AcknowledgedSurvive` promises.
2. `Composer`: the iOS draft, its request id, dictation, sending and retry, over the
   promise of `HostTurns`; a draft is deleted only after its own input was delivered.
3. The thumbnails and the clean-up beside a reader of the same files.
