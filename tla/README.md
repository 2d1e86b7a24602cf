# OpenPalm in TLA+

A model of the parts of OpenPalm in which order, failure and concurrency decide
whether the system is right: the guardian between the channels and the assistant, the
Discord, Slack and voice channels, the control plane with its lock, its lifecycle and
its configuration files, the scheduler and what its runs do, the memory service and
the plugin that fills and weeds it, the setup wizard from its first page to the files
it leaves, the installation, the pages of the admin console and the server of the
CLI's sign-ins. TLC checks the models on small instances; TLAPS proves some of what
they promise for every size.

Paths and line numbers refer to the files under `src/`; `PROJECT.json` ("map")
names, for every definition, the lines it stands for.

## 1. The system

OpenPalm runs an assistant (OpenCode) in a container and lets people talk to it
through channels.

```
 Discord / Slack gateway          browser, HTTP clients
        |                                |
  channel-discord, channel-slack   channel-voice, channel-api
        |  ConversationQueue             |
        +------------+-------------------+
                     | signed POST /channel/inbound
                 guardian  <-- guardian.env --- control plane (CLI, admin):
                     |                          lock, lifecycle, stack.yml, stack.env
                     | ask / clear, one conversation at a time
                 assistant -- plugin --> memory service
                     ^                          scheduler --> admin, assistant
```

### Inventory

| Part | State it keeps | Operations | What is hard | What makes it correct | Here |
|---|---|---|---|---|---|
| Guardian: forwarding (`core/guardian/src/forward.ts`) | session cache, title cache, one promise chain per conversation | ask, clear, prune | requests interleave at every await; calls fail, time out or take effect late; caches expire and are capped | requests of a conversation are served one at a time, in order, by a session of its own; a clear forgets | modelled |
| Guardian: replay (`replay.ts`) | nonces seen | check, prune | the pruning cutoff against the acceptance window; the cap | nothing is accepted twice unless the cap was flooded | modelled |
| Guardian: rate limits (`rate-limit.ts`) | a bucket per user and channel | allow, prune | two limits and windows in one table, whose keys may meet; the cap | less than twice the limit in a window's length; no refusal without cause | modelled |
| Guardian: secrets (`signature.ts`) | the parsed file, its time stamp and age | load | slow reads overtaken by writes and by younger reads | no message passes on a secret that left the file before it came | modelled |
| Guardian: handler, counters, audit (`server.ts`, `audit.ts`) | counters, audit buffer and file | POST /channel/inbound, flush, shutdown | handlers interleave at two awaits; kills; an audit log that cannot be written | refused messages consume nothing; counters and log agree with the answers | modelled |
| Channels: queue (`channel-*/src/session.ts`) | per conversation a busy flag and waiting tasks | runOrQueue, drain, clear | a clear while a task runs, tasks that throw | one task at a time, in order, nobody forgotten | modelled |
| Channels: Discord (`channel-discord/src/index.ts`) | messages processed, threads followed | onMessage, /ask, /queue, /clear | events delivered twice; /clear travels apart; requests given up that the guardian still serves | asked in order and once; a clear leaves nobody waiting | partly |
| Channels: Slack (`channel-slack/src/index.ts`) | threads followed, profiles, the bot's id | message, mention, /ask, modal, /clear | handlers wait for a profile before they queue; one post comes as two events | a post is answered once, a thread stays followed, nobody known is overtaken | modelled |
| Channels: API, voice (`channel-api`, `channel-voice`) | in the page: the turn, the recorder, the playback | listen, transcribe, ask, speak, cancel | a turn awaits four services while buttons and timers act on globals | one turn at a time; the microphone comes back | partly |
| Channels SDK (`channels-sdk`) | none | sign, forward, validate | a timeout does not stop the guardian | as seen by the channels | partly |
| Control plane: lock (`lib/src/control-plane/lock.ts`) | the lock file | acquire, release | system calls of processes interleave, processes die | operations exclude each other; a crash locks nobody out | modelled |
| Control plane: lifecycle, rollback (`lifecycle.ts`, `rollback.ts`, `config-persistence.ts`) | stack.env, compose files, guardian.env, snapshot | install, update, upgrade, uninstall, rollback, addons | one step of several fails; read-merge-write around a wait; docker commands that overlap | tag and assets fetched by one upgrade, what runs is what is configured, settings are kept | partly |
| Control plane: secrets, registry, setup, specification (`setup.ts`, `secrets.ts`, `spec-to-env.ts` ...) | stack.yml, stack.env, index of secrets | setup, capabilities, keys, tokens, custom secrets | files that belong together are written one after the other without a lock | what is resolved is what is configured; a complete setup is one | partly |
| Control plane: Docker, validation (`docker.ts`) | none | preflight, up, stop | commands that fail half-way | as used by the lifecycle | partly |
| Scheduler (`scheduler/src/scheduler.ts`, `lib/src/control-plane/scheduler.ts`) | jobs, runs, log, watcher | load, fire, trigger, watch, poll, reload; an action of each kind | runs overlap reloads; reloads fail; edits come between load and watch; work goes on after its request timed out | runs of one automation do not overlap; edits are noticed; a run said to have gone well did its work | modelled |
| Memory (`packages/memory`, `core/memory`) | rows, vectors, history | add, infer, update, delete, feedback | requests read, await a model and write two tables | the tables agree, no feedback is lost, one request at a time | partly |
| CLI (`packages/cli`) | in the wizard: state of server and page, forms, cards, calls; the files under OP_HOME | setup wizard, install, upgrade, purge | answers arrive in any order; the page learns of the end by polling a server that ends with the process; downloads and writes fail half-way | what was reviewed is what is installed; done is shown when it is done; edits survive | partly |
| Admin (`packages/admin`) | the token in localStorage, what each page shows, sign-ins, the login subprocess | console, providers, capabilities, lists, voice, routes | answers come late, twice or after the page moved on; tabs share the token; a server spawned lazily by several callers | what is shown is so; nothing is saved that nobody entered; the page goes on | partly |
| Assistant tools, admin tools (`packages/assistant-tools`) | memories injected per execution, the day of the last hygiene | hooks, novelty checks, hygiene | hooks await the memory while others run; requests given up are carried out all the same | a memory hears the outcome of its own execution; what was used or confirmed is not weeded | partly |

`PROJECT.json` lists the hazards of this code, each at its line, with the
properties that would notice it going wrong.

## 2. The modules

| Module | Models | Composed in |
|---|---|---|
| `Clock` | `Date.now()` of the guardian; `HardCap`, the pruning its maps share | every module of the guardian |
| `SessionLock` | `withSessionLock`, the promise chain per conversation | `SessionForwarding` |
| `SessionForwarding` | `askAssistant`, `clearAssistantSessions`, the prune timer, an assistant that loses or delays calls | |
| `SerialSessions` | abstract: what the forwarder promises its callers | `SessionForwarding` (`ImplementsSerial`) |
| `ReplayGuard`, `RateLimiter`, `ChannelSecrets` | `checkNonce`; `allow`; `loadChannelSecrets` and the writer of the file | `GuardianInbound` |
| `GuardianInbound` | the handler with the three above, counters, audit log, SIGTERM, kill, restart | |
| `ConversationQueue` | the class of that name, and the specification the channels implement | `GuardianLine` |
| `GuardianLine` | the tasks of a queue on their way through the guardian, which is `SerialSessions` as a line per conversation, and /clear beside them | both channels |
| `DiscordChannel`, `SlackChannel` | intake, threads, deduplication and profiles in front of `GuardianLine` | |
| `OrchestratorLock` | `acquireLock`, `releaseLock` in several processes | `MCSidecars` |
| `Lifecycle` | the operations on the whole stack, from wait to wait | `MCControlPlane` |
| `StackConfig` | the writes to stack.yml, stack.env and the index of secrets | `MCControlPlane` |
| `MemoryCuration` | the plugin's novelty checks and daily hygiene, and who else uses the memories | `MCSetup` |
| `WizardPages` | the wizard's pages before the review: verification, sign-in, choice of models | `MCSetup` |
| `SetupPayload` | what becomes of the answers: forms, review, payload, validation, `performSetup` | `MCSetup` |
| `Installation` | the files under OP_HOME through install, upgrade, refresh and purge | `MCSetup` |
| `SetupWizard` | installer process, wizard server, browser tabs after the review | `MCSidecars` |
| `Scheduler` | automations, timers, watcher, poll, reload; and what a run does, by the kind of its action | `MCSidecars` |
| `MemoryStore` | the memory server's requests and its two tables | `MCSidecars` |
| `AuthServer` | the subprocess that serves the sign-ins of the CLI | `MCSidecars` |
| `VoiceClient` | the voice channel's page | `MCSidecars` |
| `ToolFeedback` | the memory plugin around tool executions | `MCSidecars` |
| `AdminConsole` | the token, the gate and the loaders of the console; its voice buttons | `MCAdmin` |
| `ProviderPanel` | the page of the providers, its editor and its sign-ins | `MCAdmin` |
| `AdminTabs` | the form of the capabilities; the lists of addons, automations and secrets | `MCAdmin` |
| `Requests` | the numbers of requests under way, by which two that ask the same are two | `ProviderPanel`, `AdminTabs` |
| `MCSessionForwarding`, `MCGuardianTables`, `MCGuardianInbound`, `MCDiscordChannel`, `MCSlackChannel` | instances for TLC | the configurations |
| `MCSidecars`, `MCControlPlane`, `MCSetup`, `MCAdmin` | parts that share no state, checked in one run: `part` says which a behaviour is about | the configurations |
| `SessionForwarding_proofs` | the forwarder and its lock | |
| `Queue_proofs` | the conversation queue and the guardian's line | `MessagePath_proofs`, `Slack_proofs` |
| `MessagePath_proofs`, `Slack_proofs` | replay guard, rate limiter and Discord channel; the Slack channel | |
| `GuardianInbound_proofs` | the handler and its secrets | |
| `ControlPlane_proofs` | the stack, its configuration, the curation of memories | |
| `SetupAndAdmin_proofs` | the wizard's pages, the payload, the installation; the admin console | |
| `Sidecars_proofs` | lock, scheduler, sign-in server, memory, wizard server, voice and plugin, and all of them together | |

### How state and actions correspond to the code

JavaScript runs one stretch of code at a time, from an await to the next. So an
action is such a stretch, with everything it changes; between two actions anything
else may run. A promise that is awaited becomes a guard, a promise that rejects a
disjunct of its own. Where processes share files, an action is a system call
(`OrchestratorLock`), a file (`StackConfig`) or what lies between two waits
(`Lifecycle`). Variables marked "(history)" say what happened; no guard reads them.

*SessionLock, SessionForwarding.* `sessionLocks`, `sessionCache`,
`sessionTitleCache` and `sessionListCacheLastLoaded` are the variables of those
names. A request is a member of `Reqs`; `pc` is the call it awaits, `call` whether
the assistant has carried it out, `target` the session named in it. `AskRun` is
`askAssistant` up to its first await, `CachedAnswered`, `SessionAnswered`,
`SendFailed`, `Listed` and `Created` are its continuations, `Unavailable` is every
rejection no catch block covers; `ClearRun`, `ClearListed` and `DeleteOver` are
`clearAssistantSessions`. `Finish` is the end of the function together with the
`finally` block of the lock. `Serve` is the assistant carrying out a call, `Lose` a
call failing for its caller, before or after it was carried out, `ServeLate` the
assistant carrying out one that nobody waits for. A restart of the guardian is
modelled by its result: initial states hold sessions of an earlier run and empty
caches. A conversation stands for its cache key and for the title of its sessions,
which determine each other (`resolveSessionTarget`).

*ReplayGuard, RateLimiter.* `seen` and `buckets` are the maps. `Accept` is
`checkNonce` returning true, with the pruning it may run; `Charge` is the handler's
`allow(user) && allow(channel)`, which does not touch the channel's bucket when the
user's is full. A user id is any text, so it may be the key of a channel ("ch:" and
its name, `server.ts:171`): such a key has two limits (`LimitsOf`), and is held to the
larger of them within the shorter of its windows. Which of several entries with one
stamp the cap takes is left open.

*ChannelSecrets.* `file` has a content (what the parser makes of it for the
channel), a time stamp and a flag for a write in progress, since `writeFileSync`
truncates and then fills. `Load` is the function up to the read, with the stamp
taken before it; `Read` the file system serving it; `Loaded` its continuation,
which overwrites the cache whatever was loaded meanwhile.

*GuardianInbound.* A request goes from "new" to "checking" (it awaits the secrets)
to "working" (it awaits the assistant) to "done". `Check` is the whole stretch
between the two awaits. `Answer` is `countRequest`, `audit` and the response. A write
to the log may fail (`Audit`), and so may a flush (`FlushFails`), which keeps or loses
what the writer held: both are caught and logged, and the answer is given all the
same. `Kill` is a crash with the restart after it.

*ConversationQueue, GuardianLine.* `states` is the map of the class. `Queue` and
`Start` are the two ends of `runOrQueue`; `End` is the end of a task together with the
`drain` it triggers, in one stretch, as in the code; `clear` is `clear`. `at` follows a
task's request to the guardian, `line` is the guardian's promise chain. `Aborts` is
the forward timeout of the SDK: the channel goes on, the guardian does not notice.
`ClearCommand`, `ClearArrives`, `ServesClear`, `ClearAnswered` are `/clear`.

*DiscordChannel, SlackChannel.* `intake` follows an event to its place in the queue.
In Discord `processed` and `active` are `processedMessages` and `activeThreads`. In
Slack a handler may be suspended at the profile (`MustWait`, `Wait`, `Resumes`), a
post with a mention comes as two events of one member of `Posts`, `LeavesToMention`
and `Takes` are the conditions of `onMessage`, `touchThread` and `Expire` keep
`activeThreads`, `AuthTested` is the answer to `auth.test`.

*OrchestratorLock.* One action per system call: `Create` and `Exists` are
`openSync` with `O_CREAT | O_EXCL`, `Write` is `writeSync`, `Read` is
`readLockInfo` with the test that the owner lives, `Unlink`, `Remove` are
`unlinkSync`, which removes whatever has the name by then. `Crash` kills a process
anywhere; a pid is not used again.

*Lifecycle.* An operation (a member of `Ops`, with a `kind`) is in the wait `pc` names:
for the registry, a download, docker. `Apply` to `RemovesAddon` are its stretches,
`UpgradeThrows` and `DockerFails` the ways a wait can end badly, `Kill` the death of
its process. stack.env is a tag and the settings saved in it, the tag named by who
looked it up, core.compose.yml by who downloaded it; a secret is named by who made it;
a container is what its files said when `docker compose up` read them. That command is
a process beside its operation: `Spawns` starts it with the overlays and services that
are asked for (`Given`, `Wanted`), it reads the files at once (`Order`) and then does one
container after the other (`Works`), also beside another command; `Up` is its end. So of
two that overlap the one that read the older files may come last; the services both
had in hand are `contested`. An uninstall and the stopping of an addon are such
commands too. What `rollback` asks docker for, and the preflight of an `up`, are one wait
("config") with the question for the services, as nothing changes between them.
The lock is taken for exact here; when it is not is the subject of
`OrchestratorLock`.

*StackConfig.* `todo` lists the writes an operation has still to make: `performSetup`,
`SaveCapabilities` and their like are those lists, `EnsureSecrets` to `CustomSecret`
the writes. `keyLines` are the lines of stack.env about the key of a provider, live or
commented out, `Merged` is `mergeEnvContent`, `KeyIn` what dotenv reads. Only some
providers have a variable for their key (`PROVIDER_KEY_MAP`, here `Keyed`): without
one a capability is resolved without a key, the setup drops what was typed, and POST
/admin/capabilities puts it into the variable of OpenAI (`Variable`). `Mishap` is a
write that fails with the file as it was or truncated, or whose process dies. `Note`
is a user who puts a new key under the old one.

*Scheduler.* `content` is the directory, `activeJobs` what is scheduled from it.
`Load` is `loadAutomations`, `Notice` the watcher's callback that arms the reload,
`TimerReloads` the reload, `Poll` the fallback that compares names. `Fires` is a timer
with its guard, `Trigger` the manual run, `Ends` the end of an execution with its
log. `Fault` counts loads that throw and kills. The second half of the module takes one
automation and its runs: `file` is its configuration, `Executes` a run on its way,
`WorkDone`, `Accepted`, `SessionAnswered`, `Answered` the places that carry its action
out, and `ActionTimesOut` the run that no longer waits while they go on.

*MemoryStore.* `chain` is `_memoryQueue` of the server, `req` where each request waits:
for its turn, for the embedder, for the model's facts and decisions. `Begin`,
`Embedded`, `Related`, `Decided`, `Inferred` are the stretches in between; `Insert`,
`Update`, `Delete` are the transactions on rows and vectors; to delete all memories takes
one of them for each (`DeleteNext`).

*AuthServer.* `auth` is the module's state, each field by the attempt that set it;
`Ensure` and `Settle` are the callers, `Spawn` to `TimesOut` an attempt, `Boots` and
`Exits` its process, whose exit handler clears the state it still owns.

*SetupWizard.* `cli` is where `runWizardInstall` is, `setupComplete`, `deployStatus`,
`deployError` the server's state, `tab` where each browser tab is. A poll is two
steps: the server's answer (`DeployStatus`) and what the tab makes of it
(`PollAnswered`, `PollFails`). `MarkAllRunning` and `Linger` are the seconds the process
stays for the page to see.

*WizardPages.* A call under way is a record of who asked, which card it is about and
how often it may still be polled; answers come in any order. `Heeded` is the test of the
verification's sequence number, `VerifyAnswered` to `CalledBack` the continuations,
`Counts` and `Forgets` what a card's state does to the models offered.

*SetupPayload.* `OpensReview`, `Installs` and `Tells` are the page, `Invalid` is
`validateSetupSpec`, `SavesSecrets` to `Completes` the writes of `performSetup`, with keys
only for the providers that have a variable (`Keyed`, `KeyOf`),
`CutsShort` a write that fails or a process that dies. `Slug` is the normalisation that
leaves nothing of a name written in another script. Back from the deployment the
page's Install button stays disabled, as in the code.

*Installation.* A file stands for all files of its kind (embedded, downloaded, of the
catalogue, the user's), and is absent, torn, edited or of a release. `Written` is a
sequence of writes cut off anywhere; `BackedUp` is the copy `--force` makes.

*MemoryCuration.* A session's hook is in the place `Learns` and `MovesTo` name: it looks
whether something is known, and adds it. `Listed`, `Batch`, `Weeded` are the hygiene of
a new session; a request that was given up stays in `late` until it is `ServedLate`.
Memories are weak, usual or pinned, and of one of three ages.

*AdminConsole, ProviderPanel, AdminTabs.* Requests under way are records, and their
answers come in any order. In the console and the lists they are a bag, so that equal
ones count; in the panel and the form they are a set, and bear a number (`Requests`),
which stands for the promise that tells them apart in the code. Of requests of the panel
that ask the same, one that ends lets those after it move up: numbers are not states.
In the console a request holds the token it was sent with; `Refuses` is a 401. In the panel
(`pageState`, `selectedProvider`, `lastResult`, and `ed` for the editor that is shown) a
configuration is fresh or stale, and the answer to an action is the editor's own or that
of one that was left; filters and the token are left out. In the form, `caps` is what is
shown and `posts` the saves under way. The lists of addons, automations and secrets are
one model with `tab` for what they do differently: a click (`ClickRow`), the answer
(`Acted`), and the reload after it (`Loaded`). A refused token (401, 403) shows no error in
the list of addons but closes the gate over it, and counts as a complaint all the same.

*VoiceClient.* `turn` says what each turn awaits, `status` and `processing` what the page
shows, `activeSTT`, `activeTTS`, `aborter` the globals cancel works on. `Mic`, `Cancel`,
`Continuous`, `NewConversation` are the buttons; `Continue` and `Recover` the timers, and
`Excused` that of a turn which found no agent configured. A recognition ends by itself, a
recorder when its microphone is taken away (`CaptureEnds`). `left` says that the page was
made idle over a turn that goes on; a cancel that cuts browser speech counts, too, as the
end of that speech comes later.

*ToolFeedback.* `pendingToolFeedback` maps a session to its array; a hook holds the
array it found before it awaited. `Before`, `Inject`, `After`, `Told` are the stretches of
the two hooks, `Deleted` is session.deleted.

## 3. The runs

`tlc -workers 2 -config <run>.cfg <module>`; each takes between some seconds and
somewhat over three minutes.

| Run | Module | Question | Bounds | Distinct states |
|---|---|---|---|---|
| `forwarding` | `MCSessionForwarding` | Do two asks and a clear stay apart, in order and single, with one failed or late call? | 3 requests, 2 conversations, 3 sessions, one of an earlier run; cache of 1; 2 ticks against times to live of 2 and 1 | 350 000 (symmetric) |
| `forwarding_live` | `MCSessionForwarding` | Does a conversation proceed although the other one hangs? | 3 requests, 2 conversations, 2 sessions, one lost call | 230 000 |
| `tables` | `MCGuardianTables` | Do nonce cache and rate limits hold when their tables are too small? | 3 nonces for 2 places, skew 1; 2 users, a channel and a third user who has its key, for 2 places, limits 1 and 2, windows 2 and 1; 3 ticks | 590 000 (symmetric) |
| `guardian` | `MCGuardianInbound` | Do the checks hold together under rotation of secrets, failures of the log, kills and restarts? | 2 requests of 4 messages, 1 write of the file, 1 failed write or flush, 1 kill, 1 tick | 2 900 000 (symmetric) |
| `discord` | `MCDiscordChannel` | Are messages asked in order and once, does /clear leave nobody waiting, is the queue implemented? | 3 deliveries of 2 messages in a thread, 1 /clear, 1 message forgotten | 57 000 |
| `slack` | `MCSlackChannel` | Is each post answered once, a thread kept, and nobody lost between event and queue? | 4 groups of 2 or 3 events: two mentions of which one comes twice; two users in a thread; two asks and a /clear; a direct message and a modal | 100 000 |
| `lifecycle` | `MCControlPlane` | When do files, lock, secrets and containers disagree? When do stack.yml, keys and what is resolved from them? | 3 operations of 7 kinds, 2 of them at a time, 1 addon, 1 kill; 2 writers, 3 providers of which one has no key, 2 operations, 1 failed write, 1 comment | 1 300 000 (symmetric) |
| `setup` | `MCSetup` | Does the review show what passes, is that installed, and what becomes of files the user edited? Which memories are doubled or lost? | 1 card, 2 roles, 2 calls, 2 polls; 3 providers of which one has no key's variable, 2 keys, 2 edits, 1 kill; 2 releases, 2 commands, 1 edit; 3 memories, 2 hooks, a tool or a restart | 820 000 (symmetric) |
| `background` | `MCSidecars` | Do the parts beside the message path keep their promises, and go on? | see below | 140 000 |
| `admin` | `MCAdmin` | Does the console show what is so, save what was entered, and go on? | see below | 570 000 |
| `unsafe_path` | `MCSidecars` | Has an automation recorded as "ok" done its work? (no) | as `background` | until violated |
| `lifecycle_snapshot` | `Lifecycle` | Does the snapshot hold what the upgrade found? (no) | 2 operations | until violated |

Why the bounds are enough to mean something:

- *Forwarding.* Every hazard needs two requests in one conversation, or one in each
  of two conversations that share the list and the caches; a third request plays
  the clear. The session of an earlier run stands for whatever other requests did
  before. A cache of one entry with two conversations makes the hard cap evict; a
  time to live of 1 for the list and 2 for entries keeps the code's order of the two.
- *Tables.* One more nonce, and one more key, than the table holds is the least
  that makes the cap bite. Two users and a third one who has the key of the channel are
  one key more than places, so that pruning has to choose, and one bucket answers to two
  limits, which differ both ways: the user's window is the longer, the channel's limit
  the larger. The two tables share the clock only, so the instance fills one at a time.
- *Guardian.* Two requests make every pair of handlers interleave at their awaits,
  limits of one make the second request hit them, one write of the file (truncate and
  fill, or remove) rotates a secret, and a kill and a failure of the log may happen
  before, between and after.
- *Discord, Slack.* One task runs, one waits, one comes twice or by command: the
  queue is never deeper in the hazards listed. The groups of Slack share nothing
  but the profile cache, so that a behaviour is about one of them.
- *Lifecycle.* Each disagreement takes a victim and a rival, and often somebody who
  finds what they left: of three operations of any kinds two are in flight at a time,
  and the third begins when one of them has ended. Where a process is killed, another
  one is left to find its lock. The kind "update" is not in the run (it is an install
  that lists its overlays earlier); the proofs have it. In `StackConfig` two
  operations may overlap, follow a failed one or repeat it. 
- *Setup.* One card with two calls has every order of two answers; two roles are what
  choosing a model for one and not for the other takes. Of the forms, one edit makes a
  review stale and a second one follows the installation. Two commands of an
  installation are a first one cut short and the next one after it.
- *Memories.* Two hooks with one thing to learn race each other, and a third copy is the
  least with which the hygiene chooses between duplicates and stale ones; a behaviour has
  a tool used or the assistant restarted, not both.
- *Background.* Lock: a creator, a cleaner and a third that creates in between, two
  of them killed. Scheduler: one automation, two executions, two edits, one failing
  load or kill. Runs: two, with one rewrite of the file or one restart. Memory: two
  requests of any kinds over two memories, one kill. Sign-in server: three callers and
  two attempts, so that an old attempt outlives its process. Wizard: two tabs. Voice:
  two turns. Feedback: three executions that cannot be told apart, the least for which
  an array is written back twice.
- *Admin.* Console: two requests in flight, and two things that happen elsewhere (a
  token rotated, a container changed, another tab). Providers: two of them, two
  requests, one sign-in timer. Voice buttons: three sounds, since a second start
  needs an utterance between two recognitions. Form: one choice, one edit, one write
  from elsewhere. Lists: two rows, two requests.

What the runs show is said at each property; in short:

- `ImplementsSerial`: whatever caches, lists and failed calls do, the forwarder
  implements `SerialSessions`: requests of a conversation complete in order of
  arrival, with one outcome, in a session that belongs to it. `ForwarderSound`,
  `OwnConversation`, `DeliveryExact`, `ClearForgetsUnlessLost` and `NoDuplicateSession`
  are its promises beyond that. The last is only true while no call failed and the
  hard cap took no entry in use: after an eviction, a list that another request
  fetched before this conversation was cleared and created again is trusted for a
  minute, the deleted session is tried, and a second one is created. A
  `GUARDIAN_SESSION_TTL_MS` below that minute does the same. `WatchedCompletes`: a
  conversation is not held up by another one.
- `ReplaySound`, `LimitKept`: the tables fail only in the way a cap must, and only
  when flooded; for a key with two limits, what holds is the larger of them within the
  shorter window. The "2x burst" of `rate-limit.ts:9` is one less: a window begins
  with an admission, and the next one after its end. The bucket table holds one entry
  more than `MAX_BUCKETS`, since it prunes before it inserts, although the comment
  calls it a hard cap.
- `SecretsExact`: a slow read of the secrets never passes for a later write. Excepted
  is a load that took its stamp between two changes of the file within one stamp:
  the code gives no guarantee there but the age limit of the cache. `NoncesExact`,
  `Accounted`: the handler. An answer that the log should have is missing only if a write
  or a flush has failed or the guardian was killed, and none is in it twice.
- `AskedOnceInOrder`, `ClearLeavesOne`, `ImplementsQueue` (Discord); `ServedInTurn`,
  `EventsTaken` (`ThreadsServed`, `OvertakesOnlyStrangers`), `TakenIsServed` (Slack), with
  requests that the channel gave up still in the guardian's line. A message of an
  unknown user is overtaken by the next one of a known user, and the property says
  just that.
- `FetchedTogether`, `RunsWhatIsConfigured`, `EnabledHasSecret`, `SettingsKept`: each
  names the operations after which files, secrets and containers may disagree, and
  that there are no others. `FetchedTogether` says that tag and core.compose.yml come
  from one upgrade, not that they are of one release: the code does not see to that
  (below). `RunsWhatIsConfigured` leaves out the services that two docker commands had
  in hand together, and those that an upgrade removed as orphans because they were
  enabled after it had listed the overlays; the last command alone with a service
  settles it. `ConfigurationHolds` joins what the configuration files owe each other:
  `CapabilitiesAgree`, `CompleteIsConfigured`, `StoredIsIndexed`, `SavedKeyCounts`,
  `TokenStays`, `MarkStays`. `CurationHolds`: a second copy of a memory has an excuse
  (a search without an answer, an add under way, a tool), and what the hygiene has to
  keep is there until somebody else takes it.
- `PagesHold`: the answer to the newest verification decides, the review is reached
  with choices that pass, no card spins without an end. `PayloadHolds`,
  `CompleteIsOneSetup`: what was reviewed is what is installed, the keys of providers
  without a variable excepted, and a setup that says it is complete is one setup, not
  half of each of two. `InstallHolds`: an edited file is overwritten only with a
  backup, but for the cases the property names, and an installation that gets to its
  setup is whole and of one release.
- `ExclusiveUnlessRaced` (lock); `RunsHold` (`OverlapNeedsReload`, `TogetherForCause`,
  `OkMeansDone`); `MemoriesWhole`; `OneServerUnlessUsurped` (sign-in server);
  `OneTurnUnlessLeft` (voice); `FeedbackFits` (plugin); and `SidecarsGoOn`, that each
  goes on: `LastOneGetsIn`, `WatchedEditsTakeEffect`, `RunsEnd`, `RequestEnds`,
  `WizardEndsRight`, `MicComesBack`.
- `SessionHolds`: the console is locked by a logout, by the loss of the token, or
  where a token was changed. `AdminShowsTruth` (`PanelShowsTruth`, `ListHonest`,
  `MicInReach`): what is shown is so, or on its way. `NothingUnasked` (`EditorStays`,
  `SavesOnlyEdits`). `AdminGoesOn` (`LoginEnds`, `PollingKeepsUp`, `RowSettles`).

Every property has a mutant in `PROJECT.json`: a definition of the model replaced by
the form a plausible bug would give it, under which TLC finds the property
violated. The mutated forms stand before the definitions they replace and bear
the name of the definition and of the bug (`TailAfter_NeverDeleted`).

### Disagreements found

Two are runs: the snapshot of an upgrade is taken after the new tag and assets were
written (`lifecycle_snapshot`); an api action whose path does not begin with /admin/
is given up with a warning and recorded as a run that went well, which is what the
shipped health-check.yml does every five minutes (`unsafe_path`).

Others were met while modelling and are visible in the models, or in the code
beside them, without a run of their own:

- *Lock.* A second process takes the lock file for corrupt and removes it while its
  creator has not yet written its pid (`lock.ts:91-93`, `136-141`); histories of
  `OrchestratorLock` (`raced`) except it.
- *Guardian.* A clear whose deletion failed is reported as done, and the next message
  returns to the old session, though `forward.ts:142` calls the deletion a
  "best-effort cleanup" because "cache removal already ensures a fresh mapping". The
  rate limits are charged before the nonce is looked at, while the header of
  `server.ts` lists the replay check first. Nonces do not survive a restart, though
  `docs/technical/environment-and-mounts.md:164` mounts a directory for them. SIGTERM
  flushes the audit log but does not stop the guardian (`audit.ts:46`), so that what
  is logged afterwards is lost with the process. A user whose id is the key of a
  channel is limited as both, and uses up the channel's bucket.
- *Discord.* The README of the channel (58) says /clear "drops queued follow-ups"; the
  queue is cleared (`index.ts:543`) when the guardian has answered (526), and until then
  its first follow-up may be sent and end up in the fresh conversation.
- *Slack.* /clear names the conversation of user and channel, not the thread it is
  given in; nothing deduplicates events that are delivered again; a mention in a
  followed thread is answered twice while the bot does not know its id; a /clear
  is overtaken as in Discord.
- *Lifecycle.* A second upgrade that the lock refuses puts back the old tag while the
  first goes on. `openpalm rollback` takes no lock, and after a channel was enabled
  restores a guardian.env without its secret, though `rollback.ts:34` speaks of
  validating. The snapshot directory is never emptied, so that disabled addons come
  back. The image tag an upgrade sets is the newest on Docker Hub (`lifecycle.ts:216-236`),
  while core.compose.yml is downloaded from `OP_ASSET_VERSION`, or from main
  (`core-assets.ts:87`): after an upgrade that went well the two may be of different
  releases. `docker compose up` is run without a lock (`docker.ts:145`), so that of two
  that overlap the older configuration may be what runs, although both report success.
  `docs/technical/core-principles.md:177` and `285` promise an automatic
  restore after failed health checks; no code does it.
- *Configuration.* `docs/operations/manual-compose-runbook.md:324-338` has an API key
  edited in stack.env and the containers recreated; the memory service is given the
  key that was resolved (OP_CAP_*), which only a saved capability or a reconciliation
  refreshes. The same holds of a key saved through /admin/secrets or /admin/opencode
  ("key saved alone" in `StackConfig`). POST /admin/capabilities puts the key of a
  provider without a variable over the one in OPENAI_API_KEY, and resolves none for
  the provider itself. A setup that failed after its tokens counts as complete by the
  fallback of `setup-status.ts:37`, whereupon the wizard page redirects to an address
  its server does not have; so does `openpalm install --force` on a completed
  installation, which "always runs" the wizard.
- *Setup wizard, pages.* The fallback providers are not offered when OpenCode is there
  and the load of its providers fails (`wizard.js:31`). Ollama of the stack counts as
  verified without models. "(same as chat model)" cannot be chosen. A provider
  deselected during its verification comes back verified; a model outlives its
  provider; an authorization cancelled and begun again keeps the old loop. The
  embedding model is tagged optional, and required. "Back to Review" leaves Install
  disabled.
- *Setup wizard, payload.* Addons and services that are chosen are sent as
  `payload.addons` (`wizard.js:345-347`), which `performSetup` never reads (it asks what is
  enabled, `setup.ts:196`), against `docs/setup-walkthrough.md:5` and `116`; the choice of
  a voice is ignored likewise. A chat model whose provider is no longer verified is
  sent as "/model" (`wizard.js:340`), passes "capabilities.llm is required"
  (`setup-validation.ts:52`) and is resolved to an empty provider. A user id may
  be accepted by the page and refused by the server, and the review shows
  "default_user" where something else is installed. What is edited while a setup is
  posted is installed by Retry without a review; a setup posted from a second page is
  acknowledged and not performed. A key in the environment of the shell beats that
  of auth.json. The card "Custom (OpenAI-compatible)" asks for a key (`wizard-state.js:39`),
  which the setup drops, as its provider has no variable (`setup.ts:96-99`,
  `provider-constants.ts:31-41`): the capability is resolved with an empty key
  (`spec-to-env.ts:70-72`).
- *Setup wizard, end.* `docs/setup-walkthrough.md:122` promises an error card; a
  deployment that fails before its try block (`install.ts:264-273`) ends the process
  with its server, and the page takes three failed polls for success
  (`wizard.js:505-517`). A retry redeploys nothing; a retry after the server ended
  leaves the page on the deploy screen without buttons. On a completed installation,
  or after a setup that failed behind its tokens, the page of `install --force`, which
  "always runs" the wizard (`install.ts:157`), goes to an address its server does not
  have (`wizard.js:536`, `server.ts:291`).
- *Installation.* `install.ts:185` calls a failed download "non-fatal"; embedded files only
  fill gaps, so that `--force` over an older installation leaves the old
  core.compose.yml under the new image tag. A first install that was interrupted counts
  as installed; a torn embedded file is never repaired; what is edited during a
  download, and the catalogue at a refresh, is overwritten without a backup; `--purge`
  keeps stack/ and registry/; a failed write while a release is copied is swallowed.
- *Automations.* A triggered run that fails is answered with 404. GET /automations lists
  the files on disk, "loaded automations" says the scheduler's README (28), whose example
  (`schedule: '@daily'`, a command in one string) would not load.
  `managing-openpalm.md:262-270` asks for a restart that the watcher makes unnecessary.
  `on_failure: audit` is parsed and never acted on. The timeout of a command sends
  SIGTERM only: one that ignores it blocks its automation until a reload. Work that
  timed out may overlap the next run.
- *Scheduler.* Polling compares names only, so that the content of an automation
  edited under it never takes effect; an edit between load and watch is not seen; a
  poll whose load fails leaves no jobs until a name changes; a reload that throws
  in its timer ends the process.
- *Memory.* Requests to the embedder and the model have no timeout; a model's UPDATE
  replaces the metadata and with it the feedback. The copy that hygiene
  keeps of several is chosen without regard to its age, and may be deleted as stale
  with them (`memory-hygiene.ts:49`), against the "conservative safety rules" of
  `skills/memory/SKILL.md:92`. Its keys drop symbols and end after 220 characters, so
  that "C#" and "C" are duplicates; the day of the last hygiene is set before it
  runs and kept in memory only.
- *Admin console.* A late 401 of an older token clears a newer login; an API that is out
  of reach while the token is validated clears it as invalid; a wrong token in one tab
  drops that of the others; polling stops for good after one failed load; after a
  logout the gate stays disabled until the health check answers. The link to sign in is
  dropped with the message it came in after four seconds (`ProviderEditor.svelte:97`),
  with the form to paste the code. A late sign-in takes the user back to its provider.
  Clearing all options of a provider has no effect (`opencode-providers.ts:168-172`).
  "Leave empty to disable" (`CapabilitiesTab.svelte:379`) is not what happens: an empty
  capability is not sent, and what is not sent is kept (`assignments/+server.ts:131`).
  The form is loaded once, its failure to load is not shown, and the next save
  overwrites with defaults; the instructions of the memory's own file override those of
  stack.yml. "Calling while already listening is a no-op" (`voice-state.svelte.ts:42`)
  does not hold while something is read aloud, which shares the status (45).
- *Login server.* A failure before the process is spawned leaves a rejected promise in
  `ready`, and every later request fails with it; an attempt that ends clears the
  state of a later one.
- *Voice.* Cancel cannot abort a transcription, an OpenAI-compatible agent or the
  creation of an OpenCode session; audio that is paused leaves its turn waiting for
  ever; a double click before the microphone is granted leaves a recording that
  cannot be stopped.
- *Plugin.* Three overlapping identical executions lose a feedback; a before hook that
  session.deleted has outrun leaks its array.

### Fairness

Safety properties assume none. The liveness properties assume:

- `forwarding_live`: for the requests of one conversation, that continuations which
  are ready run (the event loop), and that the assistant answers or refuses each
  call in the end. Messages have no timeout by default (`OPENCODE_TIMEOUT_MS` = 0), so
  nothing in the code bounds that wait. Nothing is assumed of the other
  conversation, nor of timers.
- `discord`, `slack`: requests arrive at the guardian or fail, suspended handlers go on
  when what they await is there, and the guardian serves the head of its line, which
  is what `forwarding_live` shows. None on users, on the forward timeout or on expiry.
  `ImplementsQueue` derives the queue's own fairness from this.
- `background`, part by part. Lock: a live process inside `acquireLock` or
  `releaseLock` goes on, its calls being synchronous. Scheduler: the process starts
  again (the container's restart policy), watcher events are delivered, timers fire;
  `Starts` is fair only in behaviours about the scheduler. Runs: the timeout of a run
  rings, and the answer and the end of its session are noticed (`RunsFairness`);
  nothing is assumed of the assistant, nor of the service an api action calls. Memory:
  the request whose turn it is goes on, which supposes that embedder and model answer
  or fail. Wizard: the installer's steps end one way or the other, tabs keep polling.
  Voice: what a turn awaits comes to an end, but not audio that was paused, and the
  error's timer fires. The fair actions of a part that rests are not enabled.
- `admin`: the console's timer ticks, and a call that validates a token, ends a login
  or loads the containers is answered or fails, after which the page goes on
  (`ConsoleFairness`); in a list, the requests of an action are ended by server and
  browser (`CatalogFairness`). None on users, other tabs, and other requests. Here, too, the
  fair actions of a part that rests are not enabled.

## 4. The proofs

`tlapm <module>`; each is checked in ten minutes at most. A theorem holds for every
value of the constants that satisfies the named assumptions; where one needs more, its
statement says so.

**Forwarding** (`SessionForwarding_proofs`).

- *The lock.* `LockInv` says how the promises hang together: the calls of a key that
  are active form a chain from the tail in the map, each awaiting the one before it by
  arrival, and the map has an entry just for keys with a call in progress. Mutual
  exclusion alone is not inductive: a call may run because the one it awaits has
  released, and that this one was the last before it is what the chain adds. Hence
  `MutualExclusion`, `ServedInOrder`, `MapIsExact`, `LockTypeCorrect`; and since every
  action of the forwarder is one of the lock or leaves it alone (`UsesLock`), they
  carry over to it (`ForwarderIsSound`).
- *Conversations.* Whatever names a session, in caches, in calls under way and in late
  ones, names one of its own conversation (`ConversationsApart`).
- *Deliveries.* `DeliveryInv` relates where a request is to what it has sent and what
  its conversation has heard. What arrives more than once is counted: deliveries and
  late sends of a request are no more than its lost sends and the one answered. That
  inequality, not the absence of duplicates, is what survives a step. Hence
  `DeliveryIsExact` and `ClearIsHeeded`.
- *One session each.* `SoleInv` says of every request what it knows of the sessions of
  its conversation. A list may be out of date when it is used; then a newer entry of
  the cache covers it, or its age, or a request that is about to renew it. This needs
  `SESSION_LIST_CACHE_TTL_MS <= SESSION_TTL_MS`, the hypothesis of `OneSessionEach`: the
  defaults have it (a minute and 15 minutes), but the second comes from the
  environment, and nothing in the code compares them.
- *Refinement.* `ForwarderIsSerial`: each step of the forwarder submits to, completes
  or leaves alone the queues of `SerialSessions`. The mapping ranks the requests of a
  conversation by arrival, so the proof first shows that a finite set of distinct
  tickets has exactly one enumeration in order, and what adding the largest and
  removing the least make of it.

**The message path** (`Queue_proofs`, `MessagePath_proofs`, `Slack_proofs`,
`GuardianInbound_proofs`).

- *Replay guard.* Each message still acceptable is remembered with its stamp, or as
  many newer ones as the cap were accepted (`GuardInvariant`). `ReplaySound` alone is
  not inductive: it speaks of what was replayed, not of what could be.
- *Rate limiter.* `RateInv` says how a bucket fits the admissions of its key (`Fits`): it
  counts the last of them, from its start on, and the limit-th one before those was more
  than a window before that start; of a key with two limits, the larger one and the
  shorter window. Of twice the limit in a row, the first is that one
  or an earlier one: hence `LimitIsKept`. The histories are sequences of times for that
  reason; a sum over each stretch of time would have to be shown by induction over the
  stretch.
- *Queue.* What waits in the map is what is queued, in order of arrival, and a session
  is in the map just while its one task runs (`QueueInvariant`).
- *The guardian's line* (`LineInv`). Who is in the line has its place in the queue or was
  given up; the tasks of a conversation enter it in the order they were taken.
- *Discord.* A message is taken once for each time it was forgotten, and once more while
  it is remembered; that count survives a step, "at most once" does not
  (`DiscordInvariant`). Hence `DiscordAsksOnceInOrder` and `DiscordClearLeavesOne`.
- *Slack.* The place at which the handler of an event is suspended tells what it has put
  into the processed set and the queue (`SlackInvariant`); hence the safety of the
  channel's intake.
- Both channels take the steps of the queue's specification (`DiscordUsesQueue`,
  `SlackUsesQueue`), which is `ImplementsQueue` without its fairness.
- *Secrets.* `SecretsInv` covers the secret in the cache, in the reads under way and in
  the hands of the requests that wait: each was in the file at the stamp it goes with,
  and a request sees what was there since it came. Hence `SecretsRotateSafely`.
- *Nonces.* Below its cap, pruning keeps what is fresh; what is remembered are nonces
  of passed messages, so there are no more of them than messages passed. Hence
  `NoncesSpentOnce` without, and `NoncesAreExact` with, a bound on the messages.
- *Accounts.* Only requests that ended were counted or logged, each once; with the
  requests that are done being finitely many at any time, the counters are their
  numbers. Each audited answer is in the file, in the buffer or among those lost, and is
  lost only after a failure or a kill (`AnswersAccounted`).

**The control plane** (`ControlPlane_proofs`, `SetupAndAdmin_proofs`).

- *Lifecycle.* `LockExact` is inductive. `EnabledHaveSecrets` follows with it. For
  `SettingsAreKept`, what an upgrade's rivals brought in must be followed while it
  goes on (`Together`, `SettingsCame`). `FetchedTogetherAlways` rests on the tag and
  the assets being written by the same operation, which the lock gives; what an
  upgrade would put back, and what a rollback would restore, must have been fetched
  together too (`FetchKept`). For `ConfiguredRuns`, either something has failed, been
  killed or removed out of turn, which stays so (`Spoiled`), or each service that is
  not contested is handled (`Handled`): it runs as configured and no docker command
  has it in hand; or one has, alone, and will make it so; or an operation is still to
  start one (`Pending`). A write to the files never comes without the writer being one
  of those pending, which is why a command that read the files before it does no harm
  unless its service becomes contested.
- *Configuration.* `ConfigInv` says of each process what it has still to write and
  with what in hand: what is resolved is what is configured, or somebody has yet to
  resolve it; a token in the hands of a setup that nothing overlapped is the one on
  file; a secret is in the index before it is stored. That a process works at one of
  19 lists of writes is kept by numbering the lists (`Place`). The key dotenv reads is
  the last line that counts, so that `KeyIn` is shown for a file of any length by
  taking a least line that would refute it (`LeastOf`) rather than by induction. Hence
  `ConfigurationHolds`. The proof changed the model: `StoredIsIndexed` held at two
  operations only because of that bound, since with more of them the record of what
  overlapped is forgotten while an entry is still half gone; the history now keeps
  that.
- *Curation.* A copy of a memory is the only one but for the excuses recorded with it
  (`SoleCopy`), and what a hygiene has still to delete is apart from what it spared, once
  for duplicates and once for stale memories. Hence `CurationIsConservative`.
- *Wizard's pages.* `PagesAreSound`; the completeness of the review is not inductive
  without what the forms pass, the number of polls left and which of several
  verifications is the newest.
- *Payload.* `Together` says, of each step of `performSetup`, what the disk already has of
  the payload that was posted; that a payload whose review was not edited since has
  what the review shows (`Faithful`); and that a setup that counts as complete is
  coherent from one step to the next unless it was cut short. The payload is followed
  rather than the form: cards and forms may change while it is set up. Hence
  `PayloadIsHeld` and `CompleteIsOne`.
- *Installation.* Between the copy and the setup, what is edited has a backup or was
  edited since (`Backed`), and nothing the program carries is missing (`Seeded`); hence
  `InstallationHolds`. The proof changed the model: in a refresh of the assets the file
  that was being downloaded when it failed was given a backup it may not have had.

**The admin console** (`SetupAndAdmin_proofs`). `AdminInv` joins an invariant of each page;
every step keeps it, and `ConsoleShowsTruth`, `SessionIsKept` and `AnswersAreAsked` follow.

- *Session.* `ConsoleInv`: one request at a time stands between the gate and the page, and
  one that validates a token finds the page locked (`GateHolds`); while the server has its
  first token the page asks with that one only, and is refused by nobody (`FirstToken`). A
  step that locks an unlocked page is then a logout, the loss of the token, or comes
  after the server's token was changed.
- *Providers.* `PanelInv`: an editor that is submitting has one action under way, at most
  one of its sign-ins is the newest, and its status is that one's (`EditorOK`); a
  configuration that is stale on the page, or in an answer, is followed by a load, or by
  the answer to a change after which there will be one (`LoadsOK`). `PanelShowsTruth` is
  not inductive, as it says nothing of what is still to be answered.
- *Form.* `CapsInv`: what a user did not change since it was loaded is as it was loaded, or
  nothing, or what the memory's own file had, in the form and in every save under way.
  So what a save changes was entered, or was changed elsewhere meanwhile.
- *Lists.* `CatalogInv`: of secrets one action at a time, whose row is at work; and where
  requests did not overlap there is one, and an answer that is on its way is true.
- *Voice buttons.* `MicInReach` is inductive with the types.
- *Numbers.* The proofs changed the model. As a bag, the requests of the panel and of the
  form were out of reach where it mattered which of several equal ones had ended; as
  numbered records, "one sign-in is the newest" speaks of members of a set. A number is
  chosen among one more than there are requests, and that one of those is free is the
  pigeonhole principle (`NewIdIsNew`). Where bags remain, single requests are all that the
  proofs need of them (`Single`), and no sum over a bag.

**Beside the message path** (`Sidecars_proofs`).

- *Lock file.* Unless a race happened, the file belongs to the process that created it
  for as long as that one uses it (`LockInvariant`).
- *Scheduler.* `TimersTakeTurns` is inductive with the types. `RunsInvariant` says what
  may be recorded of a run from where it is, and that two runs are busy at once only
  for cause; "busy" is wider than "carried out" so that it is inductive.
- *Sign-in server.* What the server says of itself fits the attempt that holds the
  port, and unless one was usurped that is the only one (`AuthInvariant`).
- *Memory.* Requests that work have their turn, one at a time, and what such a request
  has read is still so (`MemoryInvariant`); hence `MemoriesStayWhole`, kills included.
- *Voice.* Unless the page was left, one turn is live and it alone decides what is
  shown (`VoiceInvariant`).
- *Plugin.* An execution is queued once and until its memories are told, and has the
  only array of its session, unless executions overlapped that cannot be told apart
  (`ToolInvariant`).
- *Wizard's server.* An answer to a poll may be old when it is read. What makes an old one
  as good as a new one is that the setup stays complete, the choice not to start anything
  never changes, and what was up was up: `WizardInv` says so of every answer under way.
  Hence `WizardDoneIsEarned`, the safety half of `WizardEndsRight`.
- *All at once.* `SidecarInv` joins the invariants; a step of the whole is a step of
  each part or leaves it alone (`PartsStep`). Hence `SidecarsTypeCorrect`, and
  `SidecarsKeepWhatTheyPromise` in the behaviours the run `background` checks.

Only model-checked:

- `TakenIsServed`, `WatchedCompletes`, `SidecarsGoOn`, `AdminGoesOn`, and the refinement
  `ImplementsQueue`, whose abstract specification has fairness: liveness. Of `SidecarsGoOn`
  and `ImplementsQueue` the safety is proved. Every other property of a run is a theorem.
- What a recursive definition computes for every input; none of the theorems rests on
  one.

The assumptions are named where the constants are declared. They say that a value that
stands for "nothing" is none of the others (`NoneAssumption`, `OutcomesAssumption`,
`PayloadAssumption`, `InstallationAssumption`, `CurationAssumption`,
`StackConfigAssumption`), that bounds and limits are numbers and what the code has as
a positive limit is positive (`ReplayAssumption`, `RateAssumption`,
`ForwardingAssumption`, `SchedulerAssumption`; none of them keeps the ids of users
apart from the keys of channels), which providers have a variable for their key
(`StackConfigAssumption`, `PayloadAssumption`), who sends what (`InboundAssumption`,
`DeliveriesAssumption`, `EventsAssumption`, `ClearsAssumption`), and that something
exists at all (`MemoryAssumption`). Beyond them, `OneSessionEach` has its hypothesis
on two times to live and `NoncesAreExact` its bound on the messages.

## 5. Not modelled

Of the modelled parts:

- HMAC, JSON and titles: a message is a record of what the checks ask about it, a
  signature is the secret it was made with. Of the setup's payload what the validation
  refuses is modelled, not the shape of its optional texts.
- Wall clocks that step backwards, and sessions deleted in the assistant by
  somebody else.
- What an audit entry says; a log file that is reopened is assumed to be appended to. A
  flush that fails keeps or loses all that was buffered: a line written in part, and a
  rejection that comes later, are not told apart from these.
- The lock file: other users' processes (`EPERM`), other pid namespaces and pids used
  again. `isProcessAlive` is exact in the model.
- Channels: the wording of replies, permissions and empty messages beyond "rejected",
  splitting, typing indicators, the Slack home tab. A request can only be given up
  while it is in the guardian's line.
- Lifecycle: single system calls within one stretch, `backup.ts`, the admin that
  recreates its own container. A docker command reads files and environment in one
  instant, when it is started, and overlaps others service by service. `StackConfig`:
  another process between the read and the write of one file; the pass backend;
  models, dimensions and base URLs.
- Memory: search and reranking, which only read, and the history table. Voice: the
  Tauri providers and the settings dialog. Wizard: the choice of voices. Login server: a
  process that cannot be started ('error' without a listener).

Parts without a model:

- Components of the admin that render what a request returned: the overview, the rows of
  containers, artifacts and connections, the editors' fields. What is beneath them (the
  token, the loaders, the providers, the lists, the form) is in `AdminConsole`,
  `ProviderPanel` and `AdminTabs`.
- The routes that read or forward; conversions between configuration formats
  (`memory-config.ts`, `registry.ts` beyond `setAddonEnabled`, validation); tools that
  call one service; bootstrapping, self-update and shell scripts: one input, one
  output, no state in between.
- The memory plugin's session bookkeeping beyond feedback, novelty and hygiene
  (`memory-context.ts`, `memory-lib.ts`): independent counters per session.
- Tests, scripts, stylesheets and the desktop shell. Tests alone are about two fifths of
  the lines of the repository's sources, and components that render most of another
  fifth; the map covers some 22 % of all lines, and most of what is left that keeps
  state between two requests.

## 6. What comes next

Every invariant and action property of the runs is proved; liveness is as far as TLC
takes it. What would add most, in this order:

1. `Lifecycle` on `OrchestratorLock` itself instead of on an exact lock, for one pair of
   operations: which of its properties survive a lock that was taken for corrupt?
2. The recreation of the admin by its own lifecycle (`backup.ts` and the single system calls
   within one stretch of it).
3. The overview and the rows of containers, as far as they keep state between two requests.
