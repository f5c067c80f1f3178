---------------------------- MODULE PanelLifecycle ----------------------------
(***************************************************************************)
(* Panel.qml: opening and closing the panel, the check of the helper's      *)
(* version, the helper processes and their end, and the guardian that ties  *)
(* scrcpy to its helper (run_scrcpy_guardian of helper/src/session.rs).     *)
(*                                                                         *)
(* Each start of the helper is an epoch.  Writing FALSE to the running of a *)
(* Quickshell Process asks the process to end; running changes, and the     *)
(* exit is handled, once it has ended and its output was read.  A helper    *)
(* here is what the panel can tell of one: it answers its commands in order *)
(* and works on one thing at a time; HelperRuntime has the inside, and      *)
(* PanelSession the panel that stays open.                                  *)
(***************************************************************************)
EXTENDS Naturals, Sequences

CONSTANTS
  MaxEpochs,       (* bound: starts of the helper                               *)
  MaxOpens,        (* bound: openings of the panel                              *)
  MaxGenerations,  (* bound: session generations of one helper                  *)
  MaxChanges       (* bound: changes of Keep device connected                   *)

ASSUME LifecycleAssumption ==
  /\ MaxEpochs \in Nat \ {0} /\ MaxOpens \in Nat \ {0} /\ MaxGenerations \in Nat
  /\ MaxChanges \in Nat

VARIABLES
  opened,      (* Panel.opened                                                  *)
  opens,       (* openings so far                                               *)
  changes,     (* changes of the preference so far                              *)
  version,     (* helperVersionProcess: none, checking, or told to end          *)
  running,     (* the epoch whose helperProcess is running, 0 for none          *)
  accepted,    (* acceptedHelperEpoch, 0 for ""                                 *)
  counter,     (* helperEpochCounter                                            *)
  closing,     (* helperShutdownPending                                         *)
  timer,       (* helperStopTimer runs                                          *)
  view,        (* PairingState                                                  *)
  attempted,   (* history: since the panel was opened, a reconnect was asked    *)
               (* for or a session was there                                    *)
  missed,      (* history: when the panel was opened, a helper it had told to   *)
               (* end still ran                                                 *)
  kept,        (* history: while the panel is closed, what it showed for Keep   *)
               (* device connected when it was closed                           *)
  remembered,  (* the trusted device is stored                                  *)
  keepStored,  (* Keep device connected, as stored                              *)
  process,     (* of each epoch: not started, alive, told to end, or dead       *)
  helper,      (* of each epoch: what it does                                   *)
  guardian,    (* of each epoch: the guardian of its scrcpy                     *)
  commands,    (* of each epoch: the lines of its standard input                *)
  events       (* of each epoch: the lines of its standard output               *)

panel == <<opened, opens, changes, version, running, accepted, counter, closing, timer>>
history == <<attempted, missed, kept>>
facts == <<view, history>>
stores == <<remembered, keepStored>>
pipes == <<commands, events>>
lifecycleVars == <<panel, facts, stores, process, helper, guardian, pipes>>

Epochs == 1..MaxEpochs
(* connected stands for the stages from paired to session-starting.         *)
Stages == {"unpaired", "connecting", "connected", "started", "disconnected", "unavailable"}
Works == {"boot", "idle", "pairing", "connecting", "session"}
GuardianSteps == {"none", "forked", "armed", "scrcpy", "live"}
(* set-preferences and preferences-updated, with the one preference that     *)
(* decides what closing does.                                               *)
KeepTypes == {"keepOn", "keepOff"}
CommandTypes == {"startQr", "reconnect", "cancel", "stop"} \cup KeepTypes
EventTypes ==
  {"ready", "qrWaiting", "cancelled", "stopped", "stale", "refused", "failure", "rejected",
   "connecting", "connected", "started", "ended", "lifecycleFailure"} \cup KeepTypes

Line(type, generation) == [type |-> type, generation |-> generation]

(* resetHelperFacts; hasTrustedDevice and the preferences stay.             *)
Reset(v) ==
  [v EXCEPT !.ready = FALSE, !.generation = 0, !.started = FALSE,
            !.stage = IF v.trusted THEN "disconnected" ELSE "unpaired"]
ProtocolFailed(v) ==
  [v EXCEPT !.ready = FALSE, !.generation = 0, !.started = FALSE, !.stage = "unavailable"]
Failed(v) == [v EXCEPT !.started = FALSE, !.stage = "disconnected"]

NoHelper == [work |-> "boot", generation |-> 0]

LifecycleInit ==
  /\ opened = FALSE /\ opens = 0 /\ changes = 0 /\ version = "none"
  /\ running = 0 /\ accepted = 0 /\ counter = 0 /\ closing = FALSE /\ timer = FALSE
  /\ view = [ready |-> FALSE, generation |-> 0, started |-> FALSE, stage |-> "unpaired",
             trusted |-> FALSE, keep |-> FALSE]
  /\ attempted = FALSE /\ missed = FALSE /\ kept = FALSE
  /\ remembered \in BOOLEAN /\ keepStored \in BOOLEAN
  /\ process = [e \in Epochs |-> "none"]
  /\ helper = [e \in Epochs |-> NoHelper]
  /\ guardian = [e \in Epochs |-> "none"]
  /\ commands = [e \in Epochs |-> <<>>] /\ events = [e \in Epochs |-> <<>>]

-----------------------------------------------------------------------------
(* Opening and closing.                                                     *)

(* A command goes to the running helper with the generation shown.          *)
Write(type) ==
  commands' = [commands EXCEPT ![running] = Append(@, Line(type, view.generation))]

(* launchHelper: nothing, if a helper or a check runs, also one that was     *)
(* told to end.                                                             *)
Launched == IF version = "none" THEN "checking" ELSE version

(* onOpenedChanged, true.                                                   *)
Open ==
  /\ ~opened /\ opens < MaxOpens
  /\ opened' = TRUE /\ opens' = opens + 1
  /\ closing' = FALSE /\ timer' = FALSE
  /\ version' = IF running = 0 THEN Launched ELSE version
  /\ IF view.ready /\ view.stage = "unpaired" THEN Write("startQr") ELSE UNCHANGED commands
  /\ attempted' = (view.started \/ view.stage \in {"connecting", "connected"})
  /\ missed' = (running # 0 /\ accepted = 0) /\ kept' = FALSE
  /\ UNCHANGED <<changes, running, accepted, counter, view, stores, process, helper, guardian,
                 events>>

(* updatePreferences, from the toolbar of a session: the user turns Keep     *)
(* device connected.  The panel goes on showing what it showed until the     *)
(* helper confirms.                                                         *)
ChangeKeep ==
  /\ opened /\ view.started /\ changes < MaxChanges
  /\ changes' = changes + 1
  /\ Write(IF view.keep THEN "keepOff" ELSE "keepOn")
  /\ UNCHANGED <<opened, opens, version, running, accepted, counter, closing, timer, facts,
                 stores, process, helper, guardian, events>>

SessionMayExist == view.started \/ view.stage \in {"connected", "started"}

CloseAction ==
  IF running = 0 THEN "none"
  ELSE IF ~SessionMayExist THEN "cancel"
  ELSE IF view.keep THEN "retain"
  ELSE "stop"

(* A check that runs is told to end.                                        *)
Ended == IF version = "none" THEN "none" ELSE "ending"

(* stopSession and cancelPairing send nothing without an epoch, and only a   *)
(* started session has a generation to stop.                                *)
SendClose ==
  CASE CloseAction = "cancel" /\ accepted # 0 -> Write("cancel")
    [] CloseAction = "stop" /\ view.started -> Write("stop")
    [] OTHER -> UNCHANGED commands

(* Mutant: the timer is left to the confirmation.                           *)
CloseUntimed ==
  /\ opened
  /\ opened' = FALSE /\ version' = Ended
  /\ closing' = (closing \/ CloseAction \in {"stop", "cancel"})
  /\ SendClose
  /\ kept' = view.keep /\ attempted' = FALSE /\ missed' = FALSE
  /\ UNCHANGED <<opens, changes, timer, running, accepted, counter, view, stores, process,
                 helper, guardian, events>>

(* onOpenedChanged, false.  The timer bounds the wait for the helper's       *)
(* confirmation, which may never come.                                      *)
Close ==
  /\ opened
  /\ opened' = FALSE /\ version' = Ended
  /\ closing' = (closing \/ CloseAction \in {"stop", "cancel"})
  /\ timer' = (timer \/ CloseAction \in {"stop", "cancel"})
  /\ SendClose
  /\ kept' = view.keep /\ attempted' = FALSE /\ missed' = FALSE
  /\ UNCHANGED <<opens, changes, running, accepted, counter, view, stores, process, helper,
                 guardian, events>>

(* finishHelperShutdown: the process is told to end, and the panel forgets  *)
(* the epoch at once.                                                       *)
FinishShutdown ==
  /\ closing' = FALSE /\ timer' = FALSE /\ version' = Ended
  /\ accepted' = 0
  /\ process' = [e \in Epochs |-> IF e = running /\ process[e] = "alive" THEN "ending"
                                  ELSE process[e]]
  /\ view' = [Reset(view) EXCEPT !.keep = FALSE]
  /\ UNCHANGED <<opened, opens, changes, running, counter>>

TimerFires ==
  /\ timer
  /\ FinishShutdown
  /\ UNCHANGED <<history, stores, helper, guardian, pipes>>

-----------------------------------------------------------------------------
(* The helper's processes, as the panel sees them.                          *)

(* onExited of the version check, then startHelperAfterVersionCheck.  An    *)
(* epoch that changes resets the facts.  A check that was told to end may   *)
(* have answered before.                                                    *)
VersionMatches ==
  /\ version # "none" /\ opened /\ running = 0 /\ counter < MaxEpochs
  /\ version' = "none"
  /\ counter' = counter + 1 /\ accepted' = counter + 1 /\ running' = counter + 1
  /\ process' = [process EXCEPT ![counter + 1] = "alive"]
  /\ view' = Reset(view)
  /\ UNCHANGED <<opened, opens, changes, closing, timer, history, stores, helper, guardian,
                 pipes>>
(* The answer of a check that the panel has closed on is not looked at.      *)
VersionDiffers ==
  /\ version # "none"
  /\ version' = "none"
  /\ view' = IF opened THEN ProtocolFailed(view) ELSE view
  /\ UNCHANGED <<opened, opens, changes, running, accepted, counter, closing, timer, history,
                 stores, process, helper, guardian, pipes>>

(* running turns FALSE.                                                     *)
Exited ==
  /\ running # 0 /\ process[running] = "dead" /\ events[running] = <<>>
  /\ running' = 0
  /\ UNCHANGED <<opened, opens, changes, counter, closing, timer, history, stores, process,
                 helper, guardian, pipes>>

(* Mutant: the helper that died is not launched again.                      *)
NoticeExitOnly ==
  /\ Exited
  /\ IF accepted = 0 THEN UNCHANGED <<accepted, view, version>>
     ELSE accepted' = 0 /\ view' = Reset(view) /\ UNCHANGED version

(* onRunningChanged.  The exit of a helper that finishHelperShutdown told to *)
(* end is passed over, whatever the panel has become in the meantime.       *)
NoticeExit ==
  /\ Exited
  /\ IF accepted = 0 THEN UNCHANGED <<accepted, view, version>>
     ELSE /\ accepted' = 0 /\ view' = Reset(view)
          /\ version' = IF opened THEN Launched ELSE version

(* A helper dies by itself, or of the signal: it has no handler.  The       *)
(* kernel kills the child that asked to die with it.  What it wrote can     *)
(* still be read.                                                           *)
Die(e) ==
  /\ process[e] \in {"alive", "ending"}
  /\ process' = [process EXCEPT ![e] = "dead"]
  /\ guardian' = [guardian EXCEPT ![e] = IF @ = "forked" THEN "forked" ELSE "none"]
  /\ commands' = [commands EXCEPT ![e] = <<>>]
  /\ helper' = [helper EXCEPT ![e] = NoHelper]
  /\ UNCHANGED <<panel, facts, stores, events>>

-----------------------------------------------------------------------------
(* run_scrcpy_guardian.                                                     *)
GuardianMoves(e, from, to) ==
  /\ guardian[e] = from
  /\ guardian' = [guardian EXCEPT ![e] = to]
  /\ UNCHANGED <<panel, facts, stores, process, helper, pipes>>

(* Mutant: who the parent is goes unchecked.                                *)
GuardianUnchecked(e) ==
  \/ GuardianMoves(e, "forked", "armed")
  \/ GuardianMoves(e, "armed", "scrcpy")

(* set_pdeathsig; then getppid, which differs when the helper died before;  *)
(* then scrcpy takes the guardian's place and keeps the setting.            *)
Guardian(e) ==
  \/ GuardianMoves(e, "forked", "armed")
  \/ GuardianMoves(e, "armed", IF process[e] = "dead" THEN "none" ELSE "scrcpy")

-----------------------------------------------------------------------------
(* The helper of an epoch.                                                  *)
Alive(e) == process[e] \in {"alive", "ending"}
Tell(e, type, generation) == events' = [events EXCEPT ![e] = Append(@, Line(type, generation))]
Becomes(e, work, generation) ==
  helper' = [helper EXCEPT ![e] = [work |-> work, generation |-> generation]]
Advances(e) == helper[e].generation < MaxGenerations
Next_(e) == helper[e].generation + 1
EndScrcpy(e) == guardian' = [guardian EXCEPT ![e] = "none"]

Boot(e) ==
  /\ Alive(e) /\ helper[e].work = "boot"
  /\ Becomes(e, "idle", 0)
  /\ Tell(e, "ready", 0)
  /\ UNCHANGED <<panel, facts, stores, process, guardian, commands>>

(* The commands, in order.  stop names the generation it is for; a          *)
(* reconnect ends the session there is.                                     *)
Answer(e, c) ==
  LET h == helper[e] IN
  \/ /\ c.type = "startQr" /\ h.work # "session"
     /\ Becomes(e, "pairing", h.generation) /\ Tell(e, "qrWaiting", 0) /\ UNCHANGED guardian
  \/ /\ c.type = "startQr" /\ h.work = "session"
     /\ Tell(e, "refused", 0) /\ UNCHANGED <<helper, guardian>>
  \/ /\ c.type = "cancel"
     /\ Becomes(e, IF h.work = "session" THEN "session" ELSE "idle", h.generation)
     /\ Tell(e, "cancelled", 0) /\ UNCHANGED guardian
  \/ /\ c.type = "stop" /\ c.generation = h.generation /\ Advances(e)
     /\ Becomes(e, "idle", Next_(e)) /\ Tell(e, "stopped", Next_(e)) /\ EndScrcpy(e)
  \/ /\ c.type = "stop" /\ c.generation # h.generation
     /\ Tell(e, "stale", h.generation) /\ UNCHANGED <<helper, guardian>>
  \/ /\ c.type = "reconnect" /\ remembered /\ Advances(e)
     /\ Becomes(e, "connecting", Next_(e)) /\ Tell(e, "connecting", Next_(e)) /\ EndScrcpy(e)
  \/ /\ c.type = "reconnect" /\ ~remembered
     /\ Tell(e, "failure", 0) /\ UNCHANGED <<helper, guardian>>

Take(e) ==
  /\ Alive(e) /\ helper[e].work # "boot" /\ commands[e] # <<>>
  /\ Answer(e, Head(commands[e]))
  /\ commands' = [commands EXCEPT ![e] = Tail(@)]
  /\ UNCHANGED <<panel, facts, stores, process>>

(* set_preferences: the preference is stored, or the answer is a failure.    *)
Prefers(e) ==
  /\ Alive(e) /\ helper[e].work # "boot" /\ commands[e] # <<>>
  /\ LET c == Head(commands[e]) IN
       /\ c.type \in KeepTypes
       /\ \/ Tell(e, c.type, helper[e].generation) /\ keepStored' = (c.type = "keepOn")
          \/ Tell(e, "failure", 0) /\ UNCHANGED keepStored
  /\ commands' = [commands EXCEPT ![e] = Tail(@)]
  /\ UNCHANGED <<panel, facts, remembered, process, helper, guardian>>

(* A pairing or a reconnect ends, one way or the other; the phone may refuse *)
(* the code.                                                                *)
Links(e) ==
  /\ Alive(e)
  /\ \/ /\ helper[e].work = "pairing" /\ Advances(e)
        /\ Becomes(e, "session", Next_(e)) /\ Tell(e, "connected", Next_(e))
        /\ remembered' = TRUE
     \/ /\ helper[e].work = "connecting"
        /\ Becomes(e, "session", helper[e].generation)
        /\ Tell(e, "connected", helper[e].generation)
        /\ UNCHANGED remembered
  /\ UNCHANGED <<panel, facts, keepStored, process, guardian, commands>>
Fails(e) ==
  /\ Alive(e)
  /\ \/ /\ helper[e].work = "pairing"
        /\ Becomes(e, "idle", helper[e].generation)
        /\ Tell(e, "failure", 0) \/ Tell(e, "rejected", 0)
     \/ /\ helper[e].work = "connecting" /\ Advances(e)
        /\ Becomes(e, "idle", Next_(e)) /\ Tell(e, "lifecycleFailure", Next_(e))
  /\ UNCHANGED <<panel, facts, stores, process, guardian, commands>>

(* The session worker: scrcpy is spawned under its guardian, shows the      *)
(* device, and ends by itself.                                              *)
Spawn(e) ==
  /\ Alive(e) /\ helper[e].work = "session" /\ guardian[e] = "none"
  /\ guardian' = [guardian EXCEPT ![e] = "forked"]
  /\ UNCHANGED <<panel, facts, stores, process, helper, pipes>>
GoesLive(e) ==
  /\ Alive(e) /\ helper[e].work = "session" /\ guardian[e] = "scrcpy"
  /\ guardian' = [guardian EXCEPT ![e] = "live"]
  /\ Tell(e, "started", helper[e].generation)
  /\ UNCHANGED <<panel, facts, stores, process, helper, commands>>
SessionEnds(e) ==
  /\ Alive(e) /\ helper[e].work = "session" /\ guardian[e] # "none" /\ Advances(e)
  /\ Becomes(e, "idle", Next_(e)) /\ Tell(e, "ended", Next_(e)) /\ EndScrcpy(e)
  /\ UNCHANGED <<panel, facts, stores, process, commands>>

-----------------------------------------------------------------------------
(* receiveLine.                                                             *)
Follows(g) == view.ready /\ g = view.generation + 1
IsCurrent(g) == view.ready /\ g = view.generation /\ g # 0
At(v, g) == IF g = v.generation THEN v
            ELSE [v EXCEPT !.generation = g, !.started = FALSE]

(* What a line makes of the view.                                           *)
Shown(line) ==
  LET g == line.generation
      v == At(view, g)
  IN  CASE line.type = "ready" ->
             IF view.ready THEN view
             ELSE [view EXCEPT !.ready = TRUE, !.generation = 0, !.trusted = remembered,
                               !.keep = keepStored,
                               !.stage = IF remembered THEN "disconnected" ELSE "unpaired"]
        [] line.type = "qrWaiting" -> [view EXCEPT !.stage = "unpaired"]
        [] line.type = "cancelled" -> [view EXCEPT !.stage = "unpaired"]
        [] line.type \in {"connecting", "connected"} ->
             IF IsCurrent(g) \/ Follows(g)
             THEN [v EXCEPT !.trusted = TRUE, !.stage = line.type] ELSE view
        [] line.type = "started" ->
             IF IsCurrent(g) THEN [view EXCEPT !.trusted = TRUE, !.started = TRUE,
                                               !.stage = "started"] ELSE view
        [] line.type \in {"ended", "lifecycleFailure"} ->
             IF Follows(g) THEN Failed(v) ELSE view
        [] line.type = "stopped" ->
             IF Follows(g) \/ (IsCurrent(g) /\ ~view.started)
             THEN [v EXCEPT !.stage = "disconnected"] ELSE view
        [] line.type = "stale" -> IF IsCurrent(g) THEN ProtocolFailed(view) ELSE view
        [] line.type = "failure" ->
             IF view.ready /\ view.generation = 0 THEN Failed(view) ELSE view
        [] line.type = "rejected" ->
             IF view.ready /\ view.generation = 0
             THEN [view EXCEPT !.stage = "unpaired", !.trusted = FALSE] ELSE view
        [] line.type \in KeepTypes ->
             IF view.ready /\ g = view.generation
             THEN [view EXCEPT !.keep = (line.type = "keepOn")] ELSE view
        [] line.type = "refused" -> ProtocolFailed(view)

(* The confirmations a shutdown waits for.                                  *)
Confirms(line) ==
  \/ line.type = "cancelled"
  \/ line.type = "stopped" /\ (Follows(line.generation)
                               \/ (IsCurrent(line.generation) /\ ~view.started))

(* What a line makes the panel send; automatic pairing is for an open       *)
(* panel, a reconnect at ready is not.                                      *)
Response(line) ==
  CASE line.type = "ready" /\ ~view.ready /\ remembered -> "reconnect"
    [] line.type = "ready" /\ ~view.ready /\ ~remembered /\ opened -> "startQr"
    [] line.type = "cancelled" /\ opened /\ view.ready -> "startQr"
    [] OTHER -> "nothing"

HearLine(line) ==
  \/ /\ closing /\ Confirms(line)
     /\ FinishShutdown
     /\ UNCHANGED <<history, commands>>
  \/ /\ ~(closing /\ Confirms(line))
     /\ view' = Shown(line)
     /\ IF Response(line) = "nothing" THEN UNCHANGED commands ELSE
          commands' = [commands EXCEPT ![running] =
                         Append(@, Line(Response(line), Shown(line).generation))]
     /\ attempted' = (opened /\ (attempted \/ Response(line) = "reconnect"
                        \/ Shown(line).stage \in {"connecting", "connected", "started"}))
     /\ UNCHANGED <<panel, missed, kept, process>>

(* Mutant: a line is taken whoever wrote it.                                *)
HearAny(e) ==
  /\ events[e] # <<>>
  /\ events' = [events EXCEPT ![e] = Tail(@)]
  /\ HearLine(Head(events[e]))
  /\ UNCHANGED <<stores, helper, guardian>>

(* A line of a helper that is not the accepted one is dropped.               *)
Hear(e) ==
  /\ events[e] # <<>>
  /\ events' = [events EXCEPT ![e] = Tail(@)]
  /\ IF e = accepted THEN HearLine(Head(events[e]))
     ELSE UNCHANGED <<panel, facts, process, commands>>
  /\ UNCHANGED <<stores, helper, guardian>>

-----------------------------------------------------------------------------
Panel ==
  Open \/ Close \/ ChangeKeep \/ TimerFires \/ VersionMatches \/ VersionDiffers \/ NoticeExit
Helper(e) ==
  \/ Boot(e) \/ Take(e) \/ Prefers(e) \/ Links(e) \/ Fails(e) \/ Spawn(e) \/ GoesLive(e) \/ SessionEnds(e)
LifecycleNext ==
  \/ Panel
  \/ \E e \in Epochs : Hear(e) \/ Helper(e) \/ Guardian(e) \/ Die(e)

(* The panel's event loop runs, the kernel runs the processes and delivers  *)
(* their signals.  The user, the device and an accident owe nothing.        *)
LifecycleFairness ==
  /\ WF_lifecycleVars(TimerFires)
  /\ WF_lifecycleVars(VersionMatches \/ VersionDiffers \/ NoticeExit)
  /\ \A e \in Epochs :
       /\ WF_lifecycleVars(Hear(e) \/ Boot(e) \/ Take(e) \/ Prefers(e))
       /\ WF_lifecycleVars(Guardian(e) \/ (process[e] = "ending" /\ Die(e)))

LifecycleSpec == LifecycleInit /\ [][LifecycleNext]_lifecycleVars /\ LifecycleFairness

-----------------------------------------------------------------------------
(* No scrcpy outlives its helper: docs/explanation.md, "An abrupt helper    *)
(* exit therefore makes the guardian stop scrcpy instead of leaving video   *)
(* production orphaned."                                                    *)
NoOrphan == \A e \in Epochs : process[e] = "dead" => guardian[e] \notin {"scrcpy", "live"}

(* What the panel shows as ready is the helper that runs, once that helper  *)
(* said so itself, and never one that it has told to end and of which lines  *)
(* are still unread.                                                        *)
ReadyIsCurrent ==
  view.ready => /\ accepted = running /\ running # 0
                /\ process[running] # "dead" =>
                     /\ helper[running].work # "boot"
                     /\ view.generation <= helper[running].generation

(* A panel that is closed keeps its helper only if it showed Keep device     *)
(* connected at that moment; any other close, and one that waits for a       *)
(* confirmation, ends with no helper and no scrcpy, unless the panel is      *)
(* opened again first.                                                      *)
ClosedStops ==
  (~opened /\ (closing \/ ~kept)) ~>
    (opened \/ \A e \in Epochs : process[e] \in {"none", "dead"} /\ guardian[e] = "none")

(* An open panel whose helper has died, or that has none, gets one that is   *)
(* ready and lives, unless the panel is closed first, finds the helper's     *)
(* version unusable, or was opened while the helper it had told to end still *)
(* ran: then onRunningChanged passes the exit over and nothing launches.     *)
Served == view.ready /\ process[running] # "dead"
OpenGetsHelper ==
  (opened /\ ~missed /\ (accepted = 0 \/ process[accepted] = "dead")) ~>
    (Served \/ ~opened \/ view.stage = "unavailable" \/ (version # "none" /\ counter = MaxEpochs))

(* README.md: "Opening the panel later attempts to reconnect to the         *)
(* remembered device."                                                      *)
Settled ==
  /\ opened /\ view.ready /\ process[running] = "alive"
  /\ commands[running] = <<>> /\ events[running] = <<>> /\ helper[running].work = "idle"
OpeningReconnects == Settled /\ view.trusted => attempted
=============================================================================
