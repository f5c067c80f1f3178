# Droid Peek: specification and proofs

Droid Peek mirrors an Android phone in a panel of a Wayland bar. A Rust helper process pairs with the phone over
wireless adb, keeps one scrcpy running and forwards input; a QML panel starts the helper, writes it one JSON
command per line and reads one JSON event per line. This directory models the parts whose correctness depends on
the order in which threads, processes and messages act, checks them with TLC and proves most of their safety properties with TLAPS.

Paths are relative to the repository. Line numbers of every definition are in `PROJECT.json`, under `map`.

## 1. Inventory

| Component | State it keeps | Operations | What makes it correct |
| --- | --- | --- | --- |
| `SessionControl` and the session workers (`helper/src/runtime.rs` 165-424, `session.rs` 287-369) | session generation, cancellation token, runner and transition mutexes, target cell, preview-ready generation | `start` and its closure, `stop_and_wait`, `invalidate_and_wait`, `restart`, acknowledgement, automatic retry | one scrcpy at a time; a running one can be stopped; nothing runs once a stop returned; an acknowledged session is not retried |
| `RuntimePairingBackend` (`runtime.rs` 426-1283) | pairing generation, pairing token, flow mutex, QR ceremony, trusted device in memory and on disk | one handler per command, `launch_pending`, `launch_reconnect`, lifetime thread, `Drop` | the latest pairing wins; generations are told and start once; replies come after the effects they report |
| `ProtocolEngine`, main loop (`protocol.rs`, `main.rs`) | helper epoch | `handle_line`, reply, `response_emitted` | stale commands change nothing; a reply precedes what it launches |
| `PairingFlow`, `AvahiDiscovery` (`wireless.rs`) | connected target | pair by QR, by code, reconnect | cancellation is observed; outcomes are told apart |
| `QrCeremony` (`qr.rs`) | the active artifact | start, cancel | the artifact lives as long as its pairing |
| Stores (`private_fs.rs`, `persistence.rs`, `preferences.rs`, `scrcpy_config.rs`) | three private files | atomic replace, remove, load | old or new content after a crash; a refused revision changes nothing |
| Processes (`process.rs`, guardian in `session.rs`) | children, deadlines | spawn, poll, drain, kill | no child outlives its owner; a deadline is a cancellation |
| Inputs, actions (`actions.rs`, `input.rs`, `pairing.rs`) | none | validation, conversion to `adb shell input` | only what is listed reaches adb |
| `PairingState.qml` | the panel's picture of the helper: generation, session, trust, Start Over, stage | `receiveLine`, one sender per command, first-frame timer | what it shows is so, and every wait ends |
| `Panel.qml`, `PanelLifecycle.js` | opened, shutdown pending, retained close, helper process | open, close, retain, restart of the helper | the helper is stopped or retained as the settings say |
| `ApplicationState.qml` | none (derived) | which surface is shown | inputs only when the preview is usable |
| `SubmapController.qml` | last dispatched submap, request number | dispatch, reset, retry | the submap follows the state in the end |
| `PhoneTargetRouter.qml` | labels, notification times | accept, consume | each answer is matched with its request |
| `SessionRegistry.js`, `BarWidget.qml` | the shared panel, its hosts, the load under way | ensure, register, unregister, teardown | one panel, torn down with its last host |
| `PhonePreview.qml`, `PreviewGeometry.js` | frames, retained image, capture epoch | capture, retain, map pointers | an image belongs to the session it is shown for |
| `integrations/*.lua` | bindings | dispatch of phone targets | requests carry a deadline |
| `scripts/*` | none | set up, clean up | outside this development |

How they interact. The main thread of the helper reads a command, runs its handler, writes the reply, and only then
launches a pairing or reconnect worker (`main.rs` 76-89). A worker holds the flow mutex while it talks to the phone,
decides with a `compare_exchange` on the pairing generation whether it won, and calls the closure it got from
`SessionControl::start`, which becomes a session worker. A session worker holds the runner mutex as long as scrcpy
runs. The main thread ends things by moving a generation, cancelling a token, and locking the flow or the runner once,
as a barrier. All of them write events to one sink. The panel reads these in order, admits a session event only for its
own generation or the one that follows, and sends commands that name the generation it has; both directions are
pipes, so commands and events cross.

The other processes. Inside a pairing or reconnect worker, `PairingFlow` alternates between an `avahi-browse` child, read
by a thread of its own, and `adb` children, polled by the worker itself. scrcpy runs under a guardian that the kernel ties
to the helper. The scrcpy arguments come from a third process, `droid-peek-helper store-scrcpy-args`, that shares
one file with the helper. The panel starts, stops and replaces the helper, and tells one from the next by its epoch.

The hard parts: three threads move the session generation; the barrier protects only what happens under the mutex;
replies read the generation before they are written; the panel has no way to catch up with a generation it missed;
children may block on a full pipe, exit between two polls, or outlive whoever started them; a file is replaced while
another process reads it and the power may fail.
`PROJECT.json` lists each hazard at its line.

## 2. Modules

| Module | Models |
| --- | --- |
| `SessionControl` | `SessionControl`, `SessionTransition` and the session worker thread. The caller is the most general one: any method at any time, closures called late or dropped. |
| `HelperRuntime` | EXTENDS `SessionControl`. The main loop, the handlers, the pairing, reconnect and lifetime threads. Narrows the caller down and is shown to implement `SessionControl!Spec`. |
| `PanelSession` | EXTENDS `HelperRuntime`. `PairingState.qml` with what `Panel.qml` lets the user do, the command pipe and the events read so far. |
| `CommandRun` | `AdbCommandRunner` (`process.rs`): one adb child after another, with its pipes, its token and its deadline. |
| `Browse` | `AvahiDiscovery::browse` (`wireless.rs`): the search, its reader thread, the `avahi-browse` child and three deadlines. |
| `PairingFlow` | EXTENDS `CommandRun` and `Browse`. The steps of `pair_with`, `pair_manual_with` and `reconnect_with`. |
| `PairingPromise` | What the workers of `HelperRuntime` rely on in a flow. `PairingFlow` is shown to implement it. |
| `ScrcpyConfig` | A configuration on its way from `phone-bindings.lua` over the snapshot file and the panel to scrcpy; crashes and power failures at every step. |
| `PanelLifecycle` | `Panel.qml`: opening, closing, the stop timer, the helper's version, its epochs and its death, and the guardian of scrcpy. |
| `PhoneShell` | `input.rs`, `actions.rs`: cutting, encoding and quoting of texts, components and packages, against the shell that reads them on the phone. |
| `SessionControlProofs`, `CommandRunProofs`, `ScrcpyConfigProofs`, `PanelLifecycleProofs` | the proofs about the module each is named for |
| `PairingFlowProofs` | EXTENDS `CommandRunProofs`: a search, and the whole flow with `PairingPromise` |
| `HelperRuntimeProofs` | EXTENDS `SessionControlProofs`: the helper keeps the sessions' invariant under the callers it really has, and its own |
| `PanelSessionProofs` | EXTENDS `HelperRuntimeProofs`: the same for helper and panel together; the device and the code that the panel shows |
| `PanelStartOverProofs` | EXTENDS `PanelSessionProofs`: across a Start Over, the session that the panel shows and the device it has seen forgotten |
| `MC*` | constants and symmetry for the runs. |

Each composition replaces an assumption of the module above it. `HelperRuntime` lets a worker's flow end in any way at
any time; `PairingFlow` shows that it ends in one of them (`KeepsPromise`, `FlowEnds`). `SessionControl` takes a
scrcpy that has been cancelled to be gone when its runner returns; `PanelLifecycle` has the guardian that makes it so when
the helper itself is killed. `PanelSession` has one helper and a panel that stays open; `PanelLifecycle` has many of
both, and keeps of a helper only what the panel can tell of it: answers in order, one piece of work at a time.

State and actions against the code:

- *Threads.* `worker[w]` is a closure of `start()` and, once called, its thread; its `step` names the place in the
  closure (`lock`, `admit`, `live`, ...). `launcher[w]` is the pairing or reconnect worker that carries the closure.
  `caller` is the main thread inside a `SessionControl` method, `cmd` the command it works on: `Program` gives each
  handler as a sequence of steps, so every place where another thread may step in is a place between two elements.
  `run`, `search` and `flow` are the three nested calls of a flow in the same way: each is a record with the step, the
  arguments and the result.
- *Atomicity.* One action is one critical section, one access to an atomic or one system call. A reply reads the generation in one
  step (`ReadGeneration`) and is written in another, as `session_event` and the main loop do. Where two accesses are one step, the
  comments say why: `Invalidate` (`runtime.rs` 354-355, where unlocked readers test both), `LifetimeExpires` (741-745), the shutdown
  in `Program` (one pass for the three of `protocol.rs` 64-67 and `Drop`), and `AnswerStale`, whose answer the code may also write after a
  newer event, for the panel to pass over. The `failure` of a step that fails names no generation and is written with that step.
- *Tokens.* A `CancellationToken` is a number; `cancelled` and `withdrawn` are the numbers whose shared flag is set.
  A replaced token is a new number, which is what makes a stale clone visible. In a flow there is one token, its shared
  flag (`flag`), and the deadline of a child token (`expired`).
- *Mutexes.* `runner`, `transition`, `flow` hold their owner. The trusted device mutex is taken for longer than one step
  only by `start_over` (`TrustedLocked`). In `PairingFlow` the flow mutex is the guard `flow.step = "idle"` of what
  the main thread does on the same runner.
- *Events.* `sent` is the sink. An event is its type and generation (0 where the wire has none).
- *The panel.* In `PanelSession`, `view` is the record of the `PairingState` properties that decide something. One action per
  event type of `receiveLine` (`Hear...`), with the commands it sends, since QML handles a line in one go; one action
  per sender (`Reconnect`, `StartOver`, ...), guarded by where `Panel.qml` shows its button. `pipe` holds commands in
  flight, `read` how far the panel has read `sent`.
- *Children.* A child is running, killed, exited or reaped; output comes in blocks that are plain or a notice the runner
  classifies by. What a child does by itself (write, stop writing, exit, ignore its input) is unconstrained. A pipe has
  room for `PipeSize` blocks, and `wrote` remembers the blocks the code ought to have kept. Discovery's lines are an endpoint,
  `invalid`, or `other` for what the parser drops.
- *Files.* `disk.seen` is what the snapshot's name leads to now, `disk.kept` what it leads to after a power failure; a file's
  contents are there after one only if they were synchronised (`synced`). `Writeback` is the kernel synchronising of its own accord.
- *Epochs.* In `PanelLifecycle` every start of the helper is a new index. Writing false to
  `helperProcess.running` only asks the process to end: `running` keeps the epoch until the process `process[e]` is dead, its output was
  read and `onRunningChanged` has run (`NoticeExit`), while `accepted` forgets the epoch at once. That is what Quickshell's `Process` does; it is
  external. The version check ends in the same way (`version`).
- *Revisions.* A configuration stands for its arguments and for their FNV revision: two configurations are taken never to collide.
- *Environment.* The phone, avahi, adb, scrcpy, the file system and the user choose nondeterministically, including failure.
  Poisoned mutexes are left out: no code under a lock panics in normal operation. What the phone's shell, `input`, `am` and
  `monkey` do with a line is external, modelled from how `input.rs` and `actions.rs` write for them.

## 3. Runs

| Run | Bound | Shows |
| --- | --- | --- |
| `session` | 2 workers, 2 calls | `OneScrcpy`, `RunningIsCancellable`, `ReapedBeforeReturn`, `AcknowledgedNeverRetried`; `SafetyInv`, the inductive invariant of the proofs; `BarrierIsCrossed`: whoever waits for the runner gets it |
| `helper_commands` | 2 workers, 2 commands of 11 kinds (`use-manual-code` and `set-preferences` differ from `cancel-pairing` and `set-scrcpy-args` in names and order only) | `GenerationStartsOnce`, `StopIsFinal`, `NoProgressAfterCancel`; `NoStartAfterEnd`: after the answer to a stop no older session is told as starting or started (that it ended or failed may still be told, section 4) |
| `helper_threads` | 2 workers, 2 commands of 5 kinds, Start Over among them | `DrivesSessionControl`: every step of the runtime is a step of `SessionControl` or a stutter; `CommandAnswered`, `EveryGenerationIsTold` |
| `panel_live` | 2 workers, 3 commands | `ShownSessionRuns`, `LoadingIsWorked`, `PreviewAcknowledged` with reconnects, first frames and their timeout |
| `panel_commands` | 1 worker, 3 commands | `ShownSessionRuns` with preferences that restart the session, and inputs; `StartOverForgot`; both until a forgotten phone is restarted (section 4) |
| `panel_pairing` | 2 workers, 3 commands | `TrustAgrees`, `ShownCodeIsLive` with QR and manual codes |
| `command_run` | pipe of 1 block, 2 drained per poll, 1 kept | `ReapedOnReturn`, `VerdictOnPrefix`, `BlockedWriteProceeds`, `CancelledReturns` |
| `pairing_flow` | 2 endpoints, search of 2 ticks, settling of 1, 2 lines per search | `UnambiguousMatch`, `StopsItsBrowser`, `SavesThePairedPhone`, `FlowEnds`; `KeepsPromise`: the flow implements `PairingPromise` |
| `scrcpy_config` | 2 configurations and the empty one, 2 commits or spoilt files, 2 generations, 2 helpers | `NeverTorn`, `StoredSurvives`, `SettledAgrees`, `RestartRunsUpdate` |
| `panel_lifecycle` | 2 helpers, 2 openings, 2 generations, 1 change of *Keep device connected* | `NoOrphan`, `ReadyIsCurrent`, `ClosedStops`, `OpenGetsHelper` |
| `phone_shell` | texts up to 5 characters of five kinds, packages up to 4 | `ReachesThePhone` |
| `opening_reconnects` | as `panel_lifecycle` | a counterexample to `OpeningReconnects`, section 4 |

Why the bounds suffice:

- *Commands.* `MaxCommands` counts what the panel sends of itself too (the reconnect or QR request after `ready`).
  Two workers are what it takes for an old thread to meet a new one, and a retry, a terminal event and a restart each move
  the generation without a command. Two commands give every ordered pair of handlers with everything the threads of the
  first still do; three leave room, in the panel runs, for the automatic request, the acknowledgement and a command of
  the user. `panel_commands` has one worker: the panel there only waits for the thread of the command before; old threads
  meeting new ones are what `panel_live` is about. `MaxCalls` is twice `MaxCommands`, so that it never cuts a command short.
- *Pipes.* One block fills a pipe, so that a child blocks at once; a poll that may drain more than a pipe holds is what makes the
  bound on draining matter; keeping one block makes every second one a block beyond the limit.
- *Discovery.* Two endpoints are one phone and another. Two ticks put a line before, at and after either deadline, with the
  settle time shorter than what is left of the search and longer. A flow has at most two searches; the endpoint the discovery
  keeps makes three flows in a row different from one, and the run's flows may follow each other for ever.
- *Configurations.* Two commits can be told in the wrong order, two helpers make a restart, two generations a stale request and its
  retry. The retry is one per revision in the code.
- *Helpers and openings.* Two of each give a close that meets a reopening, a reopening that meets a helper told to end, a helper that dies
  under an open panel and its successor, and lines of an epoch that the panel has given up. Only the death of the second helper, for which
  the run has no third, is let off by `OpenGetsHelper`. One change of *Keep device connected* can be confirmed, refused, or unread when the panel closes.
- *Texts.* Five characters hold a `%s` with something before, between and after, twice, or a quote on each side of it.

`SYMMETRY` is used only in runs without liveness and refinement. The runs stop at their bounds, hence `CHECK_DEADLOCK FALSE`; that
nobody waits for ever is `CommandAnswered`, `FlowEnds`, `CancelledReturns`, `ClosedStops` and `OpenGetsHelper`.

Fairness. Threads are scheduled (`WF` of the main thread's steps, of each worker's, of the flow's and the search's), and a cancelled
scrcpy is noticed, because the loops of `ScrcpySessionRunner::run` poll. In `command_run` and `pairing_flow` also: the kernel ends a
killed child and completes a write for which there is room, and clocks advance. In `panel_lifecycle`: the timer fires, the event loop
delivers exits and lines, a helper takes the commands it has, a signalled process dies and a guardian goes on.
Nothing is assumed of the phone, of adb, avahi-browse, scrcpy or of the user; that is why `FlowEnds` lets a flow wait for
an adb that runs while nobody has cancelled it, and `CommandAnswered` leaves out inputs, which may wait for such a flow.
The runs of `PanelSession` check safety only. Instead of "in the end", its properties speak of states that are `Settled`: nothing unread, no
command on its way, no thread that could move by itself. A wrong picture in such a state stays wrong until the phone, scrcpy
or the user does something. `SettledAgrees` speaks of such states too.

`InSync` in the panel's properties says that the panel has the helper's generation. It can lose it for ever (section 4); the
properties say what holds as long as it did not.

## 4. Findings

`opening_reconnects` ends with a counterexample. `README.md` 72 says "Opening the panel later attempts to reconnect to
the remembered device". `Panel.qml` 300-307 sends nothing to a helper that runs already and is not unpaired: a panel that is closed
with a retained session, whose session then ends, is opened again over an idle helper and a trusted device, and waits for the user.
A panel opened again before the helper it told to stop has confirmed it ends up the same way; the property does not count that,
since a session was there when it was opened.

The models also have these behaviours, which the properties are stated around; but for the two below in which Start Over leaves a
device, and the one in which *Keep device connected* is switched off, they contradict no sentence of the documentation:

*Sessions and commands*

- A worker that connected and then lost its `compare_exchange` runs `adb disconnect` after the cancellation was acknowledged
  (`runtime.rs` 722).
- A refused session leaves its target behind (224), and a quality change then starts a session that was stopped. After a Start
  Over that is a session with a phone that was forgotten (`RestartsForgotten`): the panel takes the phone for its device again,
  while the QR pairing it has asked for goes on. It then offers Start Over during a pairing, and the `save` of a pairing that has won puts a device
  back after the forgetting (the next but one item).
- An ended session clears the target of a newer one (320), so `stop_for_pairing` lets a pairing command through that
  stops a live session. Together with the item above, a panel without pairing by code gets there too, and goes on showing the session.
- A pairing worker that won before `start_over` moved the pairing generation (1037) saves its device after the stored one was
  removed. Otherwise a panel that pairs with QR codes does not get there, since it offers Start Over only with a trusted device and its
  pairing is over by then. One that pairs by code does, with five commands: the QR pairing wins while `use-manual-code` is under
  way, its session fails, a code is submitted and that pairing wins, and Start Over is confirmed before its `save` (698).
  `docs/how-to-use-and-configure.md` 129 says that Start Over forgets the record; `StartOverForgot` says so of panels that do not
  pair by code, and until a forgotten phone is restarted.
- `stop_for_pairing` (552-563) looks at the session twice. With pairing by code, a pairing command that meets a session coming up between the two looks -
  a manual code, or the new QR code the panel asks for after a late `qr-timed-out` - stops it, and nobody tells the panel.
- A pairing that has already won is not stopped by the pairing command after it: the panel hears of the new pairing, then of the old
  one's success, and stays at "connecting".
- A worker that wins between the `cancel` and the `fetch_add` of the command that replaces it (893-896) drops the replacement's artifact.
- `stop_session` and `reconnect` move the pairing generation and leave the ceremony; the lifetime thread then gives up (738-740),
  and the artifact stays until the next pairing command.
- The reply of a restart, written after the restarted session failed, carries the failure's generation and hides it
  (`protocol.rs` 405); `LoadingIsWorked` is therefore not claimed with settings.

*The panel*

- A failure told after the answer to a stop leaves the panel one generation behind for good (`runtime.rs` 340, `PairingState.qml` 479).
- A Start Over overtaken by a new generation is answered as stale, and the panel waits for ever (`PairingState.qml` 574).
- The failure of another command is taken for the failure of Start Over (813).
- A `preview-ready` that crosses the end of its session is answered as stale, and the panel reports a broken helper (802).
- Once there has been a session, the failure of a pairing is only a notification (826): the panel stays at "Pairing Android device".
  A QR code or a loading treatment that was shown then stays too.
- A Start Over whose session ends first is closed by that end (533-545), and one whose removal of the record fails after that end is
  not told so: the panel goes on without a trusted device while the helper has one.
- A Start Over that the panel took for failed, since another command had failed, completes all the same. The panel ignores its
  completion (782) and goes on showing frames of a session that has ended, whose acknowledgement was refused as stale.

The properties of the panel say where these behaviours do not interfere. `ShownSessionRuns` and `StartOverForgot` speak of panels without
pairing by code, until a forgotten phone is restarted; `LoadingIsWorked` of panels without pairing by code and without settings;
`ShownCodeIsLive` of the time before the first session; `TrustAgrees` of panels without Start Over, both in what the panel shows and in what
it denies; and `PreviewAcknowledged`, with Start Over, of a panel that has the helper's generation. In this form they were also simulated
with three workers and ten commands. What takes more commands in a given order than a run has - a Start Over taken for failed needs six, the
restart of a forgotten phone more - came to light while these properties were simulated and proved.

*Opening and closing*

- A helper that was told to end may still run when the panel is opened again. `launchHelper` then returns, since it runs (`Panel.qml` 263), and its
  exit is passed over, since the epoch was forgotten (525): the panel stays open without a helper until it is closed and opened once
  more. `OpenGetsHelper` leaves such openings out (`missed`).
- Closing and opening again while the version check runs may show the helper as unavailable: the answer of the check that was told to end, with
  its output discarded, meets an open panel.
- Closing goes by the *Keep device connected* that the helper confirmed last. Switched off, and closed before `preferences-updated` is read, the
  session is retained, without a timer; the event then switches the setting off in a closed panel, and the session lives on.
  `docs/how-to-use-and-configure.md` 122 says that with the setting off closing stops an active session. `ClosedStops` goes by what the panel showed.
- Closed and opened again before `pairing-cancelled` is read, the panel asks for two QR pairings; the second may be refused and the
  panel shows a broken helper.
- `ready` read while the panel is closed still starts a reconnect: `PairingState.qml` asks before anyone looks at `opened`.
- Closing while a session is starting sends nothing, because there is no started session to name; the timer ends it.
- A `stop-session` that crosses the session's own end is answered as stale; again the timer ends it.

*Pairing and commands*

- A service without a valid address or port returns by `?` (`wireless.rs` 228) past `stop_child`, and `avahi-browse` goes on running until it
  prints again. `StopsItsBrowser` says that this is the only way.
- A phone target whose deadline passes before the next poll is reported as timed out although adb has carried it out.
- A text that fails half way leaves its first half typed; nothing undoes it or tells how far it came.

*Configuration*

- A configuration set between a starting worker's read of the arguments (`runtime.rs` 208) and its write of the target finds no session to restart:
  the session goes on with the arguments of before. `RestartRunsUpdate` speaks of sessions that were restarted for a configuration and of which
  none was set while they started.
- `handle_line` reads the generation for a stale answer, and the main loop writes the answer later. A session's end told in between makes the panel pass
  the answer over, and with it the one retry: the configuration waits for the next commit or helper. `ScrcpyConfig` reads and writes in one
  step (`TakeSet`), so `SettledAgrees` says nothing of this; its answers may be overtaken once they are written.
- After two quick commits the panel drops the confirmation of the first (`PairingState.qml` 658), keeps a stale applied revision, and its one retry
  is refused: a broken helper is shown.
- A change to something and back to nothing while an update is in flight leaves the helper with the something.
- `notify` runs asynchronously: of two tellings the older may come last. A store that fails after its rename is never told.
- A helper that starts and finds the snapshot invalid removes it by name (`scrcpy_config.rs` 215), also when a new one has just got that name.
- Removals are not synchronised (`private_fs.rs` 20-26): a configuration removed before a power failure may be back after it.

## 5. Proofs

All theorems hold for any set of workers, phones, endpoints and configurations, for pipes, deadlines and limits of any size, and for any number of
commands, generations, helpers and openings. `PROJECT.json` lists them under `theorems`. What they assume of the constants are the
named `ASSUME`s of the modules, nothing else: that bounds are natural numbers, that the names for "nobody", "no target", "none"
and the like are not among what they are told apart from, that `Commands` are commands of the helper, that there are two calls per command
(a handler makes at most two), and that one drain takes at least what a pipe holds, as the sizes in `process.rs` do.
Everything a theorem says of time is safety: the invariants and the steps, not that anything happens.

Each proof has one invariant that is inductive, a lemma per action or group of actions that it is kept, and the theorems as
consequences. Why the property alone does not carry itself:

**`SessionControlProofs`** (`SafetyInv`). Two running workers are excluded because both would hold the runner
(`LocksHeld`). That a running worker polls the token of the moment needs that tokens of the past are
cancelled (`TokensRetired`), that no worker has a token before it was handed out (`FreshToken`), and that a worker is past its
admission only on the current token (`AdmittedOnToken`), which survives `RenewToken` because the barrier was crossed with the
token already cancelled. That an acknowledged generation is not retried needs that the acknowledgement is
remembered for as long as that generation stands (`AckRemembered`): `Advance`, which takes no lock, moves the
generation but never back. `SafetyInv` is also checked by the run `session`.

**`HelperRuntimeProofs`** (`RuntimeInv`). The types and `SafetyInv`, kept because every step of the helper is a step of `SessionControl`, an event
that `SessionControl` has no name for, or a step that leaves its variables alone (`StepsDriveSessions`). To that,

- `MainInv`: what is left of a command is the end of its program (`TodoFits`), the main thread is outside `SessionControl` between commands
  (`Returned`), after a stop it has nothing to restart and nothing launched (`StopDone`), and between two of its steps it holds the flow (`MainFlow`);
- `LauncherInv`: what a pairing or reconnect worker may still do with its closure (`LauncherFits`), that it holds the flow while it
  talks (`FlowHeld`), and that past the answer to `cancel-pairing` every worker is one that was withdrawn (`PairingsPast`, `Retired`);
- `LogInv`: who may still announce which generation (`AnnounceInv`), and that no session which is still admitted is older than
  what the last stop was answered with (`Floors`).

`GenerationStartsOnce` needs `AnnounceInv`, since the pairing worker moves the generation without the transition mutex: it is not inductive
to say that no generation was announced twice, but it is that whoever is on the way to an announcement has a number nobody announced
(`Unannounced`, `CallerFresh`, `ReconnectFresh`) and that one worker alone has the token of the moment (`OnePerToken`).
`NoStartAfterEnd` needs `Floors`, and that a reply names a generation that has been reached (`AnswersPast`), which it read before it is written; `StopIsFinal` follows from `StopDone` and `AdmittedOnToken`; `NoProgressAfterCancel` from `Retired`.

**`PanelSessionProofs`** (`PanelInv`). `HelperRuntime` assumes of its caller that it names generations it was told and acknowledges sessions
it was told of. `PanelIsCaller` discharges that: the panel has read every generation it names (`NamesTold`), and frames, and with them
`preview-ready`, exist only after the session was told as started (`StartsTold`, `FramesTold`). So everything above holds for helper
and panel together (`HelperKeepsPromises`, `PanelHonoursPreview`). `FramesAcknowledged` needs where the acknowledgement is: made, in the pipe, or the command
under way (`AckUnderWay`); that it is not refused needs that the generation does not come back (`StartsReached`). It states `PreviewAcknowledged` of a
panel at the helper's generation, which is all the property says for panels with Start Over. For those without, TLC checks the rest.

Two more invariants rest on `PanelInv`.

- `TrustInv`, for `TrustAgrees` (`DeviceShown`): the panel shows a device only while the helper has one, and once there is a generation it denies none
  (`Honest`). While the helper has none, nobody carries a session, no target is left and no word of one was written (`Nothing`); whoever
  begins or restarts a session moves the generation first (`Counted`); and a device that is known without a generation is one of before the panel opened, or
  just paired, whose reconnect or generation is on its way (`Early`).
- `ShownCode`, for `ShownCodeIsLive` (`CodeShown`): at most one worker pairs for the pairing generation of the moment (`PairingInv`); as long as none
  of the words that end a code has been written after it, somebody still waits for that code, or is about to be launched, or a command has got past the point
  where it must write one (`CodeInv`); and the panel shows a code only while what it has read ends in one (`CodeRead`).

**`PanelStartOverProofs`** (`CleanInv`). Between a Start Over and the next session the helper stops sessions without moving the generation
(`CancelToken` in `stop_for_pairing`), so a session that the panel shows could be silenced by a pairing that the panel asked for. It is not, because

- QR pairings go in a cycle: one at a time is in the pipe, under way in the main thread, sought by a worker, or just over in an event that the panel
  has not read (`QrInv`; `Hot` says that there is one). Who asks for the next has seen the last one end;
- while there is one, no device is trusted but the one it has just found (`Sought`), every worker of the helper's generation is idle or seeks, the
  commands in the pipe that name a session are stale, and the panel offers nothing of a session (`Calming`);
- a generation that was told as started has a worker that serves it with a token that is not cancelled (`Served`), which is what `SessionShown`
  needs. Every step that cancels a token moves the generation, or is taken for a pairing, when nothing is served.

`ForgottenWhenComplete` needs where a Start Over is: between forgetting and its answer nobody can remember a device (`Forgetting`, with
`Moving` for the workers whose claim is of an older pairing generation), and an answer that the panel has not read is of the helper's last generation, with
the device still forgotten (`Completing`). `Managed`, `LogReached` and `RestartOnly` are what the others need of the panel's dialog, of the
log and of the target that settings restart. None of this holds after a forgotten phone was restarted. `RestartsForgotten` is stable, so that
what is inductive is `RestartsForgotten \/ CleanInv`.

**`CommandRunProofs`** (`CommandInv`). `ReapedOnReturn` needs what the child may be at every step (`ChildFits`, `StepFits`); `VerdictOnPrefix` needs
that what was kept and what is in the pipe begin with what was written (`PrefixKept`), and that the last drain empties both pipes (`Emptied`),
for which a drain has to take what a pipe holds.

**`PairingFlowProofs`** (`BrowseInv`, `FlowInv`). The search: what its child may be (`BrowserFits`), that its candidate is the only wanted
service among the lines taken and when it settles (`CandidateFits`), what its result says of these lines (`ResultFits`). The flow: that
each step goes on with the result of the call before it (`CallsFit`), that one endpoint runs through pairing, search, connection and memory
(`EndpointFits`, for `SavesThePairedPhone`), and what was told (`ToldFits`). `PromiseKept` is the whole refinement: initial states
and every step of the flow with its command and its search are initial states and steps, or stutters, of `PairingPromise`.

**`ScrcpyConfigProofs`**. Three invariants. `SnapshotInv`: a name leads only to synchronised data (`NamesSynced`), and a store prints last
(`PrintedLast`). `UpdateInv`: no session before the snapshot was read, and a restarted session finds its configuration in the cell until it
has read it (`RestartFinds`). `AgreeInv`, for `SettledAgrees`: events are in the order of the generations with a gap exactly for
a restart that is not told yet (`InOrder`, `Gaps`), the snapshot holds what was printed last (`Replaced`), and a panel that wants
something else has missed a generation, has asked, is about to be answered, or wants what is not stored (`Pursued`).

**`PanelLifecycleProofs`** (`LifecycleInv`). `ReadyIsCurrent` needs that the panel accepts the epoch it runs or, once it has told that one to end, none (`AcceptsRunning`), that an epoch not
counted yet has no process (`Unstarted`), and that no line of a helper is of a generation it has not reached (`LinesReached`). `NoOrphan` is
inductive with these.

Only model-checked, and why:

- *Liveness* (`BarrierIsCrossed`, `CommandAnswered`, `EveryGenerationIsTold`, `FlowEnds`, `BlockedWriteProceeds`, `CancelledReturns`,
  `ClosedStops`, `OpenGetsHelper`): it needs fairness and `ENABLED`, which the prover does not do.
- `ReachesThePhone`: an induction over the characters of a text.
- `DrivesSessionControl` as such: it compares logs through `SelectSeq`, an induction over the log with an operator as a parameter. What is
  proved is `StepsDriveSessions`, the same refinement step by step, with the events that `SessionControl` does not name left out.
- `LoadingIsWorked`: besides what `CleanInv` says it needs, for every event that is still unread and for every worker, which wait of the panel it
  will end; and `PreviewAcknowledged` of panels without Start Over that are behind the helper. Both are open.

## 6. Not modelled

- *Parsing and wording*: JSON, the lines of `avahi-browse`, the QR payload, the sanitising of adb's echoes, the validation of
  preferences and of scrcpy arguments. Sequential, total and covered by unit tests; a model would repeat them.
- *Pointer coordinates and key names* (`input.rs`, `PreviewGeometry.js`): arithmetic without state.
- *`PhonePreview.qml`, the settings and toolbar views*: rendering, and sending what `PanelSession` sends.
- *`requestScreenOffAfterPreview`*: only a test calls it. *`teardownSession`*: `SessionRegistry.js` calls it when the last host goes.
- *`SubmapController.qml`, `SessionRegistry.js` with `BarWidget.qml`, `PhoneTargetRouter.qml`*: planned, below. No other part depends on them.
- *`scripts/`*: set-up and clean-up by hand.

In the modelled parts: the trusted device and the preferences are written by the same `atomic_replace` as the snapshot, which is
modelled once, in `ScrcpyConfig`; `HelperRuntime` takes such a write to succeed or fail as a whole.

## 7. Plan

In this order:

1. A proof of `LoadingIsWorked`: an unread event, or a worker that will write one, for every wait the panel can be in.
2. A proof of `PreviewAcknowledged` of panels without Start Over that are behind the helper.
3. `SubmapControl`: `SubmapController.qml` with the process queue of `Panel.qml` 416-468; liveness: the submap follows the state.
4. `SessionRegistry`: hosts, the asynchronous load, teardown.
5. `PhoneTargets`: `PhoneTargetRouter.qml` with its deadlines.
