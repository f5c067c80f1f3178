---------------------------- MODULE HelperRuntime -----------------------------
(***************************************************************************)
(* RuntimePairingBackend of helper/src/runtime.rs, driven by the command    *)
(* loop of main.rs and ProtocolEngine::handle_line: the main thread, the    *)
(* pairing and reconnect workers it launches, and the session workers of    *)
(* SessionControl, whose variables and actions this module extends.         *)
(*                                                                         *)
(* A command is the sequence of steps its handler takes (Program); the main *)
(* thread takes them one by one, and a worker may step between any two.     *)
(* A launched pairing or reconnect worker and the session closure it        *)
(* carries share one member of Sessions: launcher[w] is the worker,         *)
(* worker[w] the closure and, once called, its thread.                      *)
(***************************************************************************)
EXTENDS SessionControl, SequencesExt, Functions

CONSTANTS
  Main,          (* the main thread, as the owner of the flow mutex             *)
  Commands,      (* the commands the panel sends in this instance               *)
  MaxCommands    (* bound: commands received                                    *)

ASSUME HelperRuntimeAssumption ==
  /\ Main \notin Sessions \cup {Nobody}
  /\ MaxCommands \in Nat /\ 2 * MaxCommands <= MaxCalls

VARIABLES
  pairing,      (* pairing_generation, an AtomicU64                            *)
  pairingToken, (* RuntimePairingBackend.cancellation: the pairing generation  *)
                (* it was made for                                             *)
  withdrawn,    (* the pairing tokens whose flag is set                        *)
  flow,         (* owner of the flow mutex                                     *)
  qr,           (* pairing generation of the active QR artifact, 0 for none    *)
  stored,       (* whether the trusted device is on disk                       *)
  trusted,      (* whether it is in memory                                     *)
  launcher,     (* pairing and reconnect workers                               *)
  cmd,          (* the command the main thread works on                        *)
  received      (* commands received                                           *)

quiet == <<cells, locks, worker, caller, acked, launched, calls>>    \* all but sent
pairingVars == <<pairing, pairingToken, withdrawn, flow, qr, stored, trusted>>
runtimeVars == <<vars, pairingVars, launcher, cmd, received>>

-----------------------------------------------------------------------------
(* What each handler does, in order; input stands for taps, swipes, keys    *)
(* and text.  shutdown is one pass over what cancel_pairing, stop_session   *)
(* and Drop do three times over: the later passes cancel what is cancelled, *)
(* cross free locks and move generations that nobody reads any more.        *)
Program ==
  [startQrPairing   |-> <<"refuseIfLive", "stop", "cancel", "supersede", "startQr",
                          "reply", "launch">>,
   submitManualCode |-> <<"refuseIfLive", "stop", "cancel", "supersede", "cancelQr",
                          "reply", "launch">>,
   cancelPairing    |-> <<"cancel", "retire", "crossFlow", "cancelQr", "reply">>,
   useManualCode    |-> <<"cancel", "retire", "crossFlow", "cancelQr", "reply">>,
   reconnect        |-> <<"needTrusted", "invalidate", "cancel", "supersede", "reply",
                          "launch">>,
   stopSession      |-> <<"cancel", "retire", "crossFlow", "invalidate", "reply">>,
   startOver        |-> <<"readTarget", "cancel", "lockFlow", "forget", "invalidate",
                          "retire", "unlockFlow", "cancelQr", "reply">>,
   setPreferences   |-> <<"readTarget", "store", "restart", "reply">>,
   setScrcpyArgs    |-> <<"store", "readTarget", "restart", "reply">>,
   input            |-> <<"needTarget", "lockFlow", "adb">>,
   phoneTarget      |-> <<"needTarget", "lockFlow", "adb">>,
   previewReady     |-> <<"acknowledge">>,
   shutdown         |-> <<"cancel", "retire", "crossFlow", "cancelQr", "invalidate">>]

FailedInput == <<"invalidate", "replyFailed">>

(* Commands that name a session generation and are refused as stale unless  *)
(* it is the current one.                                                   *)
SessionBound ==
  {"stopSession", "startOver", "input", "phoneTarget", "previewReady", "setScrcpyArgs"}

Ops == DOMAIN Program

(* A line that is no command of the protocol never reaches a handler.       *)
ASSUME CommandsAreKnown == Commands \subseteq Ops

MicroSteps ==
  (UNION {Range(Program[op]) : op \in Ops}) \cup Range(FailedInput)

CommandState ==
  [op: Ops \cup {"none"}, todo: Seq(MicroSteps), generation: Nat, read: BOOLEAN,
   target: Targets \cup {NoTarget}]
IdleCommand ==
  [op |-> "none", todo |-> <<>>, generation |-> 0, read |-> FALSE, target |-> NoTarget]

(* The reply of each command; 0 where the event carries no generation.  An  *)
(* update says whether it restarted the session.                            *)
ReplyType ==
  [startQrPairing |-> "QrWaiting", submitManualCode |-> "Pairing",
   cancelPairing |-> "PairingCancelled", useManualCode |-> "ManualCodeRequired",
   reconnect |-> "Connecting",
   stopSession |-> "SessionStopped", startOver |-> "StartOverComplete",
   setPreferences |-> "PreferencesUpdated", setScrcpyArgs |-> "ScrcpyArgsUpdated"]
RestartType ==
  [setPreferences |-> "PreferencesRestarted", setScrcpyArgs |-> "ScrcpyArgsRestarted"]
Telling == {"reconnect", "stopSession", "startOver", "setPreferences", "setScrcpyArgs"}

-----------------------------------------------------------------------------
LauncherKinds == {"qr", "manual", "reconnect"}
FlowSteps == {"talk", "progress", "pairing", "disconnecting"}    \* the flow is locked
LauncherSteps ==
  {"idle", "flow", "claim", "dropQr", "save", "remember", "advance", "report", "start",
   "disconnect", "tell"} \cup FlowSteps
Outcomes == {"None", "Linked", "Failure", "TimedOut", "Cancelled"}
LauncherState ==
  [step: LauncherSteps, kind: LauncherKinds \cup {"none"}, pairing: Nat,
   target: Targets \cup {NoTarget}, outcome: Outcomes,
   told: Nat]
IdleLauncher ==
  [step |-> "idle", kind |-> "none", pairing |-> 0, target |-> NoTarget,
   outcome |-> "None", told |-> 0]

LGoto(w, step) == launcher' = [launcher EXCEPT ![w].step = step]
LFinish(w) == launcher' = [launcher EXCEPT ![w] = IdleLauncher]
Withdrawn(w) == launcher[w].pairing \in withdrawn
Emit(e) == sent' = Append(sent, e)

RuntimeInit ==
  /\ Init
  /\ pairing = 0 /\ pairingToken = 0 /\ withdrawn = {} /\ flow = Nobody /\ qr = 0
  /\ stored \in BOOLEAN /\ trusted = stored
  /\ launcher = [w \in Sessions |-> IdleLauncher]
  /\ cmd = IdleCommand
  /\ received = 0

-----------------------------------------------------------------------------
(* The main thread.                                                         *)

(* The panel can only name a generation it was told.                        *)
Known(g) == g = 0 \/ \E i \in DOMAIN sent : sent[i].generation = g

(* A command is read and passes the generation check of handle_line.        *)
Reading == cmd.todo = <<>> /\ cmd.op # "shutdown" /\ received < MaxCommands
Accept(op) ==
  /\ Reading /\ received' = received + 1
  /\ cmd' = [IdleCommand EXCEPT !.op = op, !.todo = Program[op], !.generation = generation]
  /\ UNCHANGED <<vars, pairingVars, launcher>>

(* One that does not pass is answered as stale and changes nothing; who     *)
(* sends it is PanelSession's matter.  The comparison, the generation that  *)
(* stale_result reads and the write are one step: the answer of the code    *)
(* may also name a generation that has just gone by, and the panel, which   *)
(* has then read of the newer one, passes it over.                          *)
AnswerStale(op) ==
  /\ Reading /\ received' = received + 1
  /\ Emit(Event(IF op = "setScrcpyArgs" THEN "ScrcpyArgsStale" ELSE "StaleSession", generation))
  /\ cmd' = IdleCommand
  /\ UNCHANGED <<quiet, pairingVars, launcher>>

(* The panel of this module sends what it likes, as long as it names a      *)
(* generation it was told.                                                  *)
Receive(op) ==
  /\ op \in SessionBound => Known(generation)
  /\ op = "previewReady" => Sent(Event("SessionStarted", generation))
  /\ Accept(op)

(* The main thread is about to take this step.  Inside a SessionControl     *)
(* method it goes on only when the method has returned.  A step begins      *)
(* without having read the generation.                                      *)
At(step) == cmd.todo # <<>> /\ Head(cmd.todo) = step /\ caller.step = "idle"
Continue == cmd' = [cmd EXCEPT !.todo = Tail(@), !.read = FALSE]
Abandon == cmd' = IdleCommand

RefuseIfLive ==
  /\ At("refuseIfLive")
  /\ IF target = NoTarget
     THEN Continue /\ UNCHANGED sent
     ELSE Abandon /\ Emit(Event("Refused", 0))
  /\ UNCHANGED <<quiet, pairingVars, launcher, received>>

NeedTrusted ==
  /\ At("needTrusted")
  /\ IF trusted
     THEN Continue /\ UNCHANGED sent
     ELSE Abandon /\ Emit(Event("Failure", 0))
  /\ UNCHANGED <<quiet, pairingVars, launcher, received>>

(* A setting that is what it was reads no target and will restart nothing.  *)
ReadTarget ==
  /\ At("readTarget")
  /\ \E t \in {target, NoTarget} :
       cmd' = [cmd EXCEPT !.todo = Tail(@), !.read = FALSE, !.target = t]
  /\ UNCHANGED <<vars, pairingVars, launcher, received>>

(* Without a session an input fails as a failing input does; a phone target *)
(* without one, or past its deadline, is answered as a failed action alone. *)
NeedTarget ==
  /\ At("needTarget")
  /\ \/ target # NoTarget /\ Continue
     \/ /\ target = NoTarget /\ cmd.op = "input"
        /\ cmd' = [cmd EXCEPT !.todo = FailedInput, !.read = FALSE]
     \/ cmd.op = "phoneTarget" /\ Abandon
  /\ UNCHANGED <<vars, pairingVars, launcher, received>>

(* Mutant: a pairing command does not stop what was launched before.        *)
MainStopSkipped ==
  /\ At("stop")
  /\ Continue
  /\ UNCHANGED <<vars, pairingVars, launcher, received>>

MainStop ==
  /\ At("stop") /\ Count /\ StopSession
  /\ Continue
  /\ UNCHANGED <<pairingVars, launcher, received>>

(* Mutant: the session is stopped without a new generation.                 *)
MainInvalidateInPlace ==
  /\ At("invalidate") /\ Count /\ StopSession
  /\ Continue
  /\ UNCHANGED <<pairingVars, launcher, received>>

MainInvalidate ==
  /\ At("invalidate") /\ Count /\ Invalidate(NoTarget)
  /\ Continue
  /\ UNCHANGED <<pairingVars, launcher, received>>

(* Only a target that was there when the command was read is restarted.     *)
MainRestart ==
  /\ At("restart")
  /\ Continue
  /\ IF cmd.target = NoTarget THEN UNCHANGED vars ELSE Count /\ Invalidate(cmd.target)
  /\ UNCHANGED <<pairingVars, launcher, received>>

Acknowledge ==
  /\ At("acknowledge")
  /\ transition = Nobody
  /\ IF generation = cmd.generation THEN AcknowledgePreview ELSE UNCHANGED vars
  /\ Continue
  /\ UNCHANGED <<pairingVars, launcher, received>>

(* Mutant: the pairing token is not cancelled.                              *)
CancelTokenSkipped ==
  /\ At("cancel")
  /\ Continue
  /\ UNCHANGED <<vars, pairingVars, launcher, received>>

CancelToken ==
  /\ At("cancel")
  /\ withdrawn' = withdrawn \cup {pairingToken}
  /\ Continue
  /\ UNCHANGED <<vars, pairing, pairingToken, flow, qr, stored, trusted, launcher,
                 received>>

Retire ==
  /\ At("retire")
  /\ pairing' = pairing + 1
  /\ Continue
  /\ UNCHANGED <<vars, pairingToken, withdrawn, flow, qr, stored, trusted, launcher,
                 received>>

(* A new pairing generation with a token of its own.                        *)
Supersede ==
  /\ At("supersede")
  /\ pairing' = pairing + 1 /\ pairingToken' = pairing + 1
  /\ Continue
  /\ UNCHANGED <<vars, withdrawn, flow, qr, stored, trusted, launcher, received>>

(* QrCeremony::start drops the artifact there is, then may fail.            *)
StartQr ==
  /\ At("startQr")
  /\ \/ qr' = pairingToken /\ Continue /\ UNCHANGED sent
     \/ qr' = 0 /\ Abandon /\ Emit(Event("Failure", 0))
  /\ UNCHANGED <<quiet, pairing, pairingToken, withdrawn, flow, stored, trusted, launcher, received>>

CancelQr ==
  /\ At("cancelQr")
  /\ qr' = 0
  /\ Continue
  /\ UNCHANGED <<vars, pairing, pairingToken, withdrawn, flow, stored, trusted, launcher,
                 received>>

(* Mutant: the barrier does not wait for the flow.                          *)
CrossFlowAtOnce ==
  /\ At("crossFlow")
  /\ Continue
  /\ UNCHANGED <<vars, pairingVars, launcher, received>>

CrossFlow ==
  /\ At("crossFlow") /\ flow = Nobody
  /\ Continue
  /\ UNCHANGED <<vars, pairingVars, launcher, received>>

LockFlow ==
  /\ At("lockFlow") /\ flow = Nobody
  /\ flow' = Main
  /\ Continue
  /\ UNCHANGED <<vars, pairing, pairingToken, withdrawn, qr, stored, trusted, launcher,
                 received>>

UnlockFlow ==
  /\ At("unlockFlow")
  /\ flow' = Nobody
  /\ Continue
  /\ UNCHANGED <<vars, pairing, pairingToken, withdrawn, qr, stored, trusted, launcher,
                 received>>

(* Mutant: the device is forgotten, its file is not.                        *)
ForgetInMemory ==
  /\ At("forget")
  /\ \/ trusted' = FALSE /\ Continue /\ UNCHANGED <<flow, sent, stored>>
     \/ Abandon /\ flow' = Nobody /\ Emit(Event("Failure", 0)) /\ UNCHANGED <<stored, trusted>>
  /\ UNCHANGED <<quiet, pairing, pairingToken, withdrawn, qr, launcher, received>>

(* start_over holds the trusted device mutex from here to the release of    *)
(* the flow; the file may not be removable.                                 *)
Forget ==
  /\ At("forget")
  /\ \/ stored' = FALSE /\ trusted' = FALSE /\ Continue /\ UNCHANGED <<flow, sent>>
     \/ Abandon /\ flow' = Nobody /\ Emit(Event("Failure", 0)) /\ UNCHANGED <<stored, trusted>>
  /\ UNCHANGED <<quiet, pairing, pairingToken, withdrawn, qr, launcher, received>>
TrustedLocked == cmd.op = "startOver" /\ flow = Main

(* A preference or configuration file is written or read.                   *)
UseStore ==
  /\ At("store")
  /\ \/ Continue /\ UNCHANGED sent
     \/ Abandon /\ Emit(Event("Failure", 0))
  /\ UNCHANGED <<quiet, pairingVars, launcher, received>>

(* The adb child of an input runs with the flow locked.                     *)
RunInput ==
  /\ At("adb")
  /\ flow' = Nobody
  /\ \/ Continue
     \/ cmd' = [cmd EXCEPT !.todo = FailedInput, !.read = FALSE]
  /\ UNCHANGED <<vars, pairing, pairingToken, withdrawn, qr, stored, trusted, launcher,
                 received>>

(* session_event reads the generation the reply will name; the main loop    *)
(* writes the reply later, and other threads may move on in between.        *)
ReadGeneration ==
  /\ (At("reply") /\ cmd.op \in Telling) \/ At("replyFailed")
  /\ ~cmd.read
  /\ cmd' = [cmd EXCEPT !.generation = generation, !.read = TRUE]
  /\ UNCHANGED <<vars, pairingVars, launcher, received>>

Reply ==
  /\ At("reply") /\ (cmd.op \in Telling => cmd.read)
  /\ Emit(Event(IF cmd.op \in DOMAIN RestartType /\ cmd.target # NoTarget
                THEN RestartType[cmd.op] ELSE ReplyType[cmd.op],
                IF cmd.op \in Telling THEN cmd.generation ELSE 0))
  /\ Continue
  /\ UNCHANGED <<quiet, pairingVars, launcher, received>>

ReplyFailed ==
  /\ At("replyFailed") /\ cmd.read
  /\ Emit(Event("InputFailed", cmd.generation))
  /\ Continue
  /\ UNCHANGED <<quiet, pairingVars, launcher, received>>

(* response_emitted: launch_pending or launch_reconnect.                    *)
Launch(w) ==
  /\ At("launch") /\ launcher[w].step = "idle" /\ Count /\ Capture(w)
  /\ \E kind \in LauncherKinds :
       /\ kind = "qr" <=> cmd.op = "startQrPairing"
       /\ kind = "reconnect" <=> cmd.op = "reconnect"
       /\ launcher' = [launcher EXCEPT ![w] =
            [IdleLauncher EXCEPT !.step = "flow", !.kind = kind, !.pairing = pairingToken]]
  /\ Continue
  /\ UNCHANGED <<pairingVars, received>>

(* The steps of stop_and_wait, invalidate_and_wait and restart.             *)
InSessionControl ==
  /\ CallerStep
  /\ UNCHANGED <<pairingVars, launcher, cmd, received>>

-----------------------------------------------------------------------------
(* The workers of launch_pending and launch_reconnect.                      *)

(* The flow mutex is taken, and the first thing looked at is the token.     *)
EnterFlow(w) ==
  /\ launcher[w].step = "flow" /\ flow = Nobody
  /\ flow' = w
  /\ LGoto(w, "talk")
  /\ UNCHANGED <<vars, pairing, pairingToken, withdrawn, qr, stored, trusted, cmd,
                 received>>

(* pair_with reports progress between discovery and adb pair.  Whether the  *)
(* pairing still stands is tested before the event is written.              *)
ReportProgress(w) ==
  /\ launcher[w].step = "talk" /\ launcher[w].kind = "qr" /\ ~Withdrawn(w)
  /\ LGoto(w, IF pairing = launcher[w].pairing THEN "progress" ELSE "pairing")
  /\ UNCHANGED <<vars, pairingVars, cmd, received>>
TellProgress(w) ==
  /\ launcher[w].step = "progress"
  /\ Emit(Event("Pairing", 0))
  /\ LGoto(w, "pairing")
  /\ UNCHANGED <<quiet, pairingVars, cmd, received>>

(* pair_with, pair_manual_with or reconnect_with returns, and the flow is   *)
(* released.  The last thing a success looked at is the token; a failure of *)
(* avahi or adb may hide a cancellation.                                    *)
LeaveFlow(w, outcome, t) ==
  /\ launcher[w].step \in {"talk", "pairing"}
  /\ flow' = Nobody
  /\ launcher' = [launcher EXCEPT ![w].step = "claim", ![w].outcome = outcome,
                                  ![w].target = t]
  /\ UNCHANGED <<vars, pairing, pairingToken, withdrawn, qr, stored, trusted, cmd,
                 received>>
FlowLinks(w, t) ==
  /\ ~Withdrawn(w)
  /\ launcher[w].kind = "qr" => launcher[w].step = "pairing"
  /\ LeaveFlow(w, "Linked", t)
FlowFails(w) == LeaveFlow(w, "Failure", NoTarget)
FlowTimesOut(w) ==
  /\ launcher[w].step = "talk" /\ launcher[w].kind = "qr"
  /\ LeaveFlow(w, "TimedOut", NoTarget)
FlowCancelled(w) == Withdrawn(w) /\ LeaveFlow(w, "Cancelled", NoTarget)

(* The thread that sleeps for the lifetime of the pairing.  Its second test *)
(* is made with the ceremony locked, so that it never drops the artifact of *)
(* a later pairing.  Its two tests and two changes are one step: whoever    *)
(* moves the pairing generation after the first test has cancelled the      *)
(* token by then, and a worker that sees the token cancelled before the     *)
(* artifact is dropped goes on to drop it too.                              *)
LifetimeExpires(w) ==
  /\ launcher[w].kind \in {"qr", "manual"} /\ launcher[w].pairing = pairing
  /\ ~Withdrawn(w) \/ qr # 0
  /\ withdrawn' = withdrawn \cup {pairing}
  /\ qr' = 0
  /\ UNCHANGED <<vars, pairing, pairingToken, flow, stored, trusted, launcher, cmd,
                 received>>

(* The compare_exchange that decides whether the result counts.             *)
ClaimPairing(w) ==
  /\ launcher[w].step = "claim" /\ pairing = launcher[w].pairing
  /\ pairing' = pairing + 1
  /\ withdrawn' = withdrawn \cup {launcher[w].pairing}
  /\ LGoto(w, IF launcher[w].kind = "reconnect" THEN "report" ELSE "dropQr")
  /\ UNCHANGED <<vars, pairingToken, flow, qr, stored, trusted, cmd, received>>

(* A superseded pairing undoes its adb connect; a superseded reconnect      *)
(* leaves it.                                                               *)
LosePairing(w) ==
  /\ launcher[w].step = "claim" /\ pairing # launcher[w].pairing
  /\ IF launcher[w].outcome = "Linked" /\ launcher[w].kind # "reconnect"
     THEN LGoto(w, "disconnect") /\ UNCHANGED vars
     ELSE LFinish(w) /\ Discard(w)
  /\ UNCHANGED <<pairingVars, cmd, received>>

StartDisconnect(w) ==
  /\ launcher[w].step = "disconnect" /\ flow = Nobody
  /\ flow' = w
  /\ LGoto(w, "disconnecting")
  /\ UNCHANGED <<vars, pairing, pairingToken, withdrawn, qr, stored, trusted, cmd,
                 received>>

Disconnected(w) ==
  /\ launcher[w].step = "disconnecting"
  /\ flow' = Nobody
  /\ LFinish(w) /\ Discard(w)
  /\ UNCHANGED <<pairing, pairingToken, withdrawn, qr, stored, trusted, cmd, received>>

(* The worker cancels the ceremony, whichever pairing it belongs to by now. *)
DropQr(w) ==
  /\ launcher[w].step = "dropQr"
  /\ qr' = 0
  /\ LGoto(w, IF launcher[w].outcome = "Linked" THEN "save" ELSE "report")
  /\ UNCHANGED <<vars, pairing, pairingToken, withdrawn, flow, stored, trusted, cmd,
                 received>>

(* Mutant: a saved device is not remembered.                                *)
SaveDeviceOnly(w) ==
  /\ launcher[w].step = "save"
  /\ stored' = TRUE /\ LGoto(w, "advance")
  /\ UNCHANGED <<vars, pairing, pairingToken, withdrawn, flow, qr, trusted, cmd, received>>

SaveDevice(w) ==
  /\ launcher[w].step = "save"
  /\ \/ stored' = TRUE /\ LGoto(w, "remember")
     \/ /\ launcher' = [launcher EXCEPT ![w].step = "report", ![w].outcome = "Failure"]
        /\ UNCHANGED stored
  /\ UNCHANGED <<vars, pairing, pairingToken, withdrawn, flow, qr, trusted, cmd, received>>

RememberDevice(w) ==
  /\ launcher[w].step = "remember" /\ ~TrustedLocked
  /\ trusted' = TRUE
  /\ LGoto(w, "advance")
  /\ UNCHANGED <<vars, pairing, pairingToken, withdrawn, flow, qr, stored, cmd, received>>

AdvanceGeneration(w) ==
  /\ launcher[w].step = "advance" /\ Advance(w)
  /\ launcher' = [launcher EXCEPT ![w].step = "report"]
  /\ UNCHANGED <<pairingVars, cmd, received>>

(* The terminal event of a pairing, and the Connected of a reconnect.        *)
ReportLinked(w) ==
  /\ launcher[w].step = "report" /\ launcher[w].outcome = "Linked"
  /\ Emit(Event(IF launcher[w].kind = "reconnect" THEN "Connected" ELSE "Paired",
                worker[w].current))
  /\ LGoto(w, "start")
  /\ UNCHANGED <<quiet, pairingVars, cmd, received>>

StartSession(w) ==
  /\ launcher[w].step = "start" /\ Spawn(w, launcher[w].target)
  /\ LFinish(w)
  /\ UNCHANGED <<pairingVars, cmd, received>>

PairingOver ==
  [Failure |-> "Failure", TimedOut |-> "QrTimedOut", Cancelled |-> "PairingCancelled"]
ReportPairingOver(w) ==
  /\ launcher[w].step = "report" /\ launcher[w].outcome # "Linked"
  /\ launcher[w].kind # "reconnect"
  /\ Emit(Event(PairingOver[launcher[w].outcome], 0))
  /\ Finish(w) /\ LFinish(w)
  /\ UNCHANGED <<cells, locks, caller, acked, launched, calls, pairingVars, cmd, received>>

(* A failed reconnect takes a generation of its own if its generation still *)
(* stands, and tells it in a step of its own.                               *)
FailReconnect(w) ==
  /\ launcher[w].step = "report" /\ launcher[w].kind = "reconnect"
  /\ launcher[w].outcome = "Failure" /\ AdvanceFailed(w)
  /\ launcher' = [launcher EXCEPT ![w].step = "tell", ![w].told = generation + 1]
  /\ UNCHANGED <<pairingVars, cmd, received>>

(* Mutant: the failure of a reconnect is not told.                          *)
TellFailureSilently(w) ==
  /\ launcher[w].step = "tell"
  /\ LFinish(w)
  /\ UNCHANGED <<vars, pairingVars, cmd, received>>

TellFailure(w) ==
  /\ launcher[w].step = "tell"
  /\ Emit(Event("ReconnectFailed", launcher[w].told))
  /\ LFinish(w)
  /\ UNCHANGED <<quiet, pairingVars, cmd, received>>

DropReconnect(w) ==
  /\ launcher[w].step = "report" /\ launcher[w].kind = "reconnect"
  /\ \/ launcher[w].outcome = "Cancelled"
     \/ launcher[w].outcome = "Failure" /\ generation # worker[w].current
  /\ Discard(w) /\ LFinish(w)
  /\ UNCHANGED <<pairingVars, cmd, received>>

-----------------------------------------------------------------------------
MainStep ==
  \/ RefuseIfLive \/ NeedTrusted \/ ReadTarget \/ NeedTarget \/ MainStop
  \/ MainInvalidate \/ MainRestart \/ Acknowledge \/ CancelToken \/ Retire
  \/ Supersede \/ StartQr \/ CancelQr \/ CrossFlow \/ LockFlow \/ UnlockFlow
  \/ Forget \/ UseStore \/ RunInput \/ ReadGeneration \/ Reply \/ ReplyFailed
  \/ InSessionControl \/ \E w \in Sessions : Launch(w)

(* What a launched worker does by itself, and what the phone decides.       *)
LauncherStep(w) ==
  \/ EnterFlow(w) \/ TellProgress(w) \/ FlowCancelled(w) \/ ClaimPairing(w) \/ LosePairing(w)
  \/ StartDisconnect(w) \/ Disconnected(w) \/ DropQr(w) \/ SaveDevice(w)
  \/ RememberDevice(w) \/ AdvanceGeneration(w) \/ ReportLinked(w) \/ StartSession(w)
  \/ ReportPairingOver(w) \/ FailReconnect(w) \/ TellFailure(w) \/ DropReconnect(w)
PhoneStep(w) ==
  \/ ReportProgress(w) \/ FlowFails(w) \/ FlowTimesOut(w) \/ \E t \in Targets : FlowLinks(w, t)

SessionWorkerStep(w) == WorkerStep(w) /\ UNCHANGED <<pairingVars, launcher, cmd, received>>
SessionChildStep(w) == ScrcpyStep(w) /\ UNCHANGED <<pairingVars, launcher, cmd, received>>

RuntimeNext ==
  \/ \E op \in Commands : Receive(op)
  \/ MainStep
  \/ \E w \in Sessions :
       \/ LauncherStep(w) \/ PhoneStep(w) \/ LifetimeExpires(w)
       \/ SessionWorkerStep(w) \/ SessionChildStep(w)

(* Every thread is scheduled; the two threads of a slot follow each other,  *)
(* so one condition does for both.  Nothing is asked of the phone, of scrcpy *)
(* or of the panel.                                                         *)
RuntimeFairness ==
  /\ WF_runtimeVars(MainStep)
  /\ \A w \in Sessions : WF_runtimeVars(LauncherStep(w) \/ SessionWorkerStep(w))

RuntimeSpec == RuntimeInit /\ [][RuntimeNext]_runtimeVars
FairRuntimeSpec == RuntimeSpec /\ RuntimeFairness

-----------------------------------------------------------------------------
RuntimeTypeOK ==
  /\ TypeOK
  /\ pairing \in Nat /\ pairingToken \in 0..pairing /\ withdrawn \subseteq 0..pairing
  /\ flow \in Sessions \cup {Nobody, Main} /\ qr \in 0..pairing
  /\ stored \in BOOLEAN /\ trusted \in BOOLEAN
  /\ launcher \in [Sessions -> LauncherState]
  /\ cmd \in CommandState
  /\ received \in 0..MaxCommands

SessionEvents == {"SessionStarting", "SessionStarted", "SessionEnded", "LifecycleFailure"}
Session ==
  INSTANCE SessionControl WITH
    sent <- SelectSeq(sent, LAMBDA e : e.type \in SessionEvents)

(* The runtime drives SessionControl the way its callers must: methods one  *)
(* at a time, one launch per token, a closure called or dropped only by the *)
(* worker that carries it (runtime.rs:607-844 against 189-424).             *)
DrivesSessionControl == Session!Spec

(* A generation is announced at most once: two sessions never share one,    *)
(* though three threads move the counter (runtime.rs:275, 354, 711, 812).   *)
GenerationStartsOnce ==
  \A i, j \in DOMAIN sent :
    sent[i].type = "SessionStarting" /\ sent[j] = sent[i] => i = j

(* After a reply that ended a session, no session of an older generation is *)
(* told as starting or started, although its worker tests the generation    *)
(* before it writes (runtime.rs:352-369, 217-254). That the older session   *)
(* ended or failed may still be told: its worker writes this after it let   *)
(* go of the transition mutex (runtime.rs:340).                             *)
EndingReplies == {"SessionStopped", "StartOverComplete", "Connecting", "InputFailed"}
NoStartAfterEnd ==
  \A i \in DOMAIN sent : sent[i].type \in EndingReplies =>
    \A j \in i..Len(sent) :
      sent[j].type \in {"SessionStarting", "SessionStarted"} =>
        sent[j].generation >= sent[i].generation

Done(op) == cmd.op = op /\ cmd.todo = <<>>

(* Once stop-session, start-over or a failed input was answered, no scrcpy  *)
(* runs and none starts before the next command, whatever a pairing worker  *)
(* that had already won still does (runtime.rs:1006-1014, 199-207).         *)
StopIsFinal ==
  Done("stopSession") \/ Done("startOver") \/ (Done("input") /\ ~launched) =>
    \A w \in Sessions : ~Running(w)

(* No Pairing progress after the answer to cancel-pairing: the flow barrier *)
(* waits for the worker that could still write it (runtime.rs:936-941).     *)
NoProgressAfterCancel ==
  [][Done("cancelPairing") /\ cmd' = cmd /\ sent' # sent =>
       Last(sent') # Event("Pairing", 0)]_runtimeVars

(* Every command is answered: nobody waits for ever on the flow, the runner *)
(* or a transition.                                                         *)
CommandAnswered == []<>(cmd.todo = <<>> \/ cmd.op \in {"input", "phoneTarget"})

(* The panel learns every generation, or a newer one: otherwise all its     *)
(* session commands would be stale from then on.                            *)
EveryGenerationIsTold ==
  []<>(generation = 0 \/ \E i \in DOMAIN sent : sent[i].generation >= generation)
=============================================================================
