----------------------------- MODULE PanelSession -----------------------------
(***************************************************************************)
(* qml/state/PairingState.qml, the panel's picture of the helper, composed  *)
(* with HelperRuntime.  Commands travel to the helper in a pipe; the events *)
(* of sent travel back and are read in order.  Each side acts on what the   *)
(* other was when it wrote, so commands and events cross.                   *)
(*                                                                         *)
(* One helper epoch, with the panel open throughout: closing, reopening and *)
(* a helper that dies belong to the panel's lifecycle.  The panel is one    *)
(* thread, so an event line is handled in one step, with what it sends.     *)
(***************************************************************************)
EXTENDS HelperRuntime

VARIABLES
  view,   (* the properties of PairingState that decide something             *)
  read,   (* how many events of sent the panel has read                       *)
  pipe    (* commands written to the helper and not read yet                  *)

panelVars == <<view, read, pipe>>
sessionVars == <<runtimeVars, panelVars>>

-----------------------------------------------------------------------------
SessionStates ==
  {"unpaired", "pairing", "connecting", "started", "disconnected", "stopping",
   "unauthorized", "unavailable"}
Stages == {"idle", "qrWaiting", "manualCode", "protocolError", "other"}

(* generation means something while ready, framed is previewReadyGeneration *)
(* === sessionGeneration, startOverGeneration means something while         *)
(* startOver.  The surface of the preview is mounted exactly while started, *)
(* and the first-frame timer runs while started and not framed.             *)
View ==
  [ready: BOOLEAN, generation: Nat, trusted: BOOLEAN, started: BOOLEAN,
   framed: BOOLEAN, presenting: BOOLEAN, management: BOOLEAN,
   startOver: BOOLEAN, startOverGeneration: Nat, state: SessionStates, stage: Stages]

InitialView ==
  [ready |-> FALSE, generation |-> 0, trusted |-> FALSE, started |-> FALSE,
   framed |-> FALSE, presenting |-> FALSE, management |-> FALSE, startOver |-> FALSE,
   startOverGeneration |-> 0, state |-> "unpaired", stage |-> "idle"]

(* advanceGeneration: only to the generation that follows.                  *)
Follows(g) == view.ready /\ g = view.generation + 1

(* Mutant: the session before is kept as started.                           *)
MoveToStarted(g) == [view EXCEPT !.generation = g, !.framed = FALSE]

MoveTo(g) ==
  [view EXCEPT !.generation = g, !.framed = FALSE, !.started = FALSE]

(* Mutant: the stage is written where the state belongs.                    *)
FailedAsStage(v, state) ==
  [v EXCEPT !.presenting = FALSE, !.management = FALSE, !.startOver = FALSE,
            !.started = FALSE, !.state = "failed", !.stage = "other"]

(* Mutant: the loading treatment stays.                                     *)
FailedPresenting(v, state) ==
  [v EXCEPT !.management = FALSE, !.startOver = FALSE,
            !.started = FALSE, !.state = state, !.stage = "other"]

(* applyLifecycleFailure, whose reason decides where the session stands.    *)
Failed(v, state) ==
  [v EXCEPT !.presenting = FALSE, !.management = FALSE, !.startOver = FALSE,
            !.started = FALSE, !.state = state, !.stage = "other"]
FailureStates == {"unauthorized", "disconnected", "unavailable"}

ProtocolFailed(v) ==
  [v EXCEPT !.ready = FALSE, !.presenting = FALSE, !.framed = FALSE,
            !.management = FALSE, !.startOver = FALSE, !.started = FALSE, !.state = "unavailable",
            !.stage = "protocolError"]

-----------------------------------------------------------------------------
(* What the panel writes.                                                   *)
MaySend == received + Len(pipe) < MaxCommands
Send(op) ==
  /\ MaySend
  /\ pipe' = Append(pipe, [op |-> op, generation |-> view.generation])

(* ready is the first line of a helper; what it says of the trusted device  *)
(* still holds, since nothing was asked of the helper before.               *)
HearReady ==
  /\ view.stage = "idle"
  /\ view' = [view EXCEPT !.ready = TRUE, !.trusted = trusted, !.presenting = trusted,
                          !.state = IF trusted THEN "disconnected" ELSE "unpaired",
                          !.stage = "other"]
  /\ Send(IF trusted THEN "reconnect" ELSE "startQrPairing")
  /\ UNCHANGED <<runtimeVars, read>>

(* captureSurfaceRequired: the preview, or its loading treatment, is shown. *)
Surface == ~view.management /\ (view.started \/ view.presenting)

(* Settings are reached from an interactive preview; Start Over also from   *)
(* its fallback button when there is no preview.                            *)
OpenManagement ==
  /\ ~view.management /\ view.ready /\ view.trusted
  /\ (view.started /\ view.framed) \/ (~Surface /\ ~view.startOver)
  /\ view' = [view EXCEPT !.management = TRUE]
  /\ UNCHANGED <<runtimeVars, read, pipe>>

CloseManagement ==
  /\ view.management
  /\ view' = [view EXCEPT !.management = FALSE]
  /\ UNCHANGED <<runtimeVars, read, pipe>>

Reconnect ==
  /\ view.ready /\ view.trusted /\ view.state = "disconnected" /\ ~Surface
  /\ view' = [view EXCEPT !.presenting = TRUE]
  /\ Send("reconnect")
  /\ UNCHANGED <<runtimeVars, read>>

UseManualCode ==
  /\ view.stage = "qrWaiting"
  /\ Send("useManualCode")
  /\ UNCHANGED <<runtimeVars, view, read>>

SubmitManualCode ==
  /\ view.stage = "manualCode"
  /\ Send("submitManualCode")
  /\ UNCHANGED <<runtimeVars, view, read>>

(* The dialog is confirmed, however long after it was opened.               *)
StartOver ==
  /\ view.management /\ view.ready /\ view.trusted /\ ~view.startOver
  /\ view' = [view EXCEPT !.startOver = TRUE, !.startOverGeneration = view.generation,
                          !.trusted = FALSE, !.presenting = FALSE, !.started = FALSE,
                          !.management = FALSE, !.state = "stopping", !.stage = "other"]
  /\ Send("startOver")
  /\ UNCHANGED <<runtimeVars, read>>

SetPreferences ==
  /\ view.management
  /\ Send("setPreferences")
  /\ UNCHANGED <<runtimeVars, view, read>>

(* A tap, a swipe, a key or a text, on a preview that shows frames.         *)
Input ==
  /\ view.ready /\ view.started /\ view.framed /\ ~view.management
  /\ Send("input")
  /\ UNCHANGED <<runtimeVars, view, read>>

(* Mutant: the acknowledgement is not sent.                                 *)
FirstFrameUnsent ==
  /\ view.ready /\ view.started /\ ~view.framed
  /\ view' = [view EXCEPT !.framed = TRUE, !.presenting = FALSE]
  /\ UNCHANGED <<runtimeVars, read, pipe>>

(* The first valid frame of the session: acknowledgePreviewReady.           *)
FirstFrame ==
  /\ view.ready /\ view.started /\ ~view.framed
  /\ view' = [view EXCEPT !.framed = TRUE, !.presenting = FALSE]
  /\ Send("previewReady")
  /\ UNCHANGED <<runtimeVars, read>>

FirstFrameTimeout ==
  /\ view.started /\ ~view.framed
  /\ view' = [view EXCEPT !.presenting = FALSE, !.started = FALSE,
                          !.state = "disconnected", !.stage = "other"]
  /\ Send("stopSession")
  /\ UNCHANGED <<runtimeVars, read>>

-----------------------------------------------------------------------------
(* receiveLine.                                                             *)
Unread == read < Len(sent)
Incoming == sent[read + 1]

(* What is let through while a Start Over is under way.                     *)
StartOverEvents ==
  {"SessionEnded", "SessionStopped", "StartOverComplete", "LifecycleFailure",
   "InputFailed", "ReconnectFailed", "Failure", "StaleSession", "Refused"}

Hear(types) ==
  /\ Unread /\ Incoming.type \in types
  /\ view.startOver => Incoming.type \in StartOverEvents
  /\ read' = read + 1
  /\ UNCHANGED runtimeVars

HearNothing ==
  /\ Unread /\ view.startOver /\ Incoming.type \notin StartOverEvents
  /\ read' = read + 1
  /\ UNCHANGED <<runtimeVars, view, pipe>>

Silent == UNCHANGED pipe

(* Mutant: a restart keeps the facts of the session before.                 *)
HearPreferencesInPlace ==
  /\ Hear({"PreferencesUpdated", "PreferencesRestarted"})
  /\ view' = IF Incoming.type = "PreferencesRestarted" /\ Follows(Incoming.generation)
             THEN [view EXCEPT !.generation = Incoming.generation]
             ELSE view
  /\ Silent

HearPreferences ==
  /\ Hear({"PreferencesUpdated", "PreferencesRestarted"})
  /\ view' = IF Incoming.type = "PreferencesRestarted" /\ Follows(Incoming.generation)
             THEN [MoveTo(Incoming.generation) EXCEPT
                     !.presenting = TRUE, !.state = "connecting", !.stage = "other"]
             ELSE view
  /\ Silent

HearQrWaiting ==
  /\ Hear({"QrWaiting"})
  /\ view' = [view EXCEPT !.state = "unpaired", !.stage = "qrWaiting"]
  /\ Silent

HearQrTimedOut ==
  /\ Hear({"QrTimedOut"})
  /\ view' = [view EXCEPT !.stage = "other"]
  /\ Send("startQrPairing")

HearPairing ==
  /\ Hear({"Pairing"})
  /\ view' = [view EXCEPT !.state = "pairing", !.stage = "other"]
  /\ Silent

(* Mutant: the code stays on the screen.                                    *)
HearManualCodeKept ==
  /\ Hear({"ManualCodeRequired"})
  /\ UNCHANGED view
  /\ Silent

HearManualCode ==
  /\ Hear({"ManualCodeRequired"})
  /\ view' = [view EXCEPT !.stage = "manualCode"]
  /\ Silent

(* The panel, which is open, starts over with a new code.                   *)
HearCancelled ==
  /\ Hear({"PairingCancelled"})
  /\ view' = [view EXCEPT !.state = "unpaired", !.stage = "other"]
  /\ IF view.ready THEN Send("startQrPairing") ELSE Silent

(* admitCurrentGeneration                                                   *)
IsCurrent(g) == view.ready /\ g = view.generation /\ g # 0

HearConnection ==
  /\ Hear({"Paired", "Connecting", "Connected", "SessionStarting"})
  /\ LET g == Incoming.generation
         v == IF Follows(g) THEN MoveTo(g) ELSE view
     IN  view' = IF IsCurrent(g) \/ Follows(g)
                 THEN [v EXCEPT !.trusted = TRUE, !.presenting = ~v.framed,
                                !.state = "connecting", !.stage = "other"]
                 ELSE view
  /\ Silent

HearStarted ==
  /\ Hear({"SessionStarted"})
  /\ view' = IF IsCurrent(Incoming.generation)
             THEN [view EXCEPT !.trusted = TRUE, !.presenting = ~view.framed,
                               !.started = TRUE, !.state = "started", !.stage = "other"]
             ELSE view
  /\ Silent

HearEnded ==
  /\ Hear({"SessionEnded"})
  /\ LET v == MoveTo(Incoming.generation)
     IN  view' = IF ~Follows(Incoming.generation) THEN view
                 ELSE IF view.startOver THEN [v EXCEPT !.presenting = FALSE]
                 ELSE Failed(v, "disconnected")
  /\ Silent

(* Accepted for the generation the panel already has, when it is over.      *)
Over(g) == view.ready /\ g = view.generation /\ ~view.started

HearStopped ==
  /\ Hear({"SessionStopped"})
  /\ LET g == Incoming.generation
         v == IF Follows(g) THEN MoveTo(g) ELSE view
     IN  view' = IF Follows(g) \/ (Over(g) /\ g # 0)
                 THEN [v EXCEPT !.presenting = FALSE, !.stage = "other",
                                !.state = IF view.startOver THEN "stopping" ELSE "disconnected"]
                 ELSE view
  /\ Silent

HearStartOverComplete ==
  /\ Hear({"StartOverComplete"})
  /\ LET g == Incoming.generation
         v == IF Follows(g) THEN MoveTo(g) ELSE view
     IN  IF /\ view.startOver /\ g = view.startOverGeneration + 1
            /\ Follows(g) \/ Over(g)
         THEN /\ view' = [v EXCEPT !.presenting = FALSE, !.startOver = FALSE,
                                   !.trusted = FALSE, !.state = "unpaired", !.stage = "other"]
              /\ Send("startQrPairing")
         ELSE UNCHANGED view /\ Silent

(* The answer to a stale command names the helper's generation and, but for *)
(* a phone target, no request: the panel takes that for a broken protocol.  *)
HearStale ==
  /\ Hear({"StaleSession"})
  /\ view' = IF IsCurrent(Incoming.generation) THEN ProtocolFailed(view) ELSE view
  /\ Silent

(* Once there has been a session, a failure is a notification and no more.  *)
HearFailure ==
  /\ Hear({"Failure"})
  /\ \/ /\ view.startOver
        /\ view' = [view EXCEPT !.presenting = FALSE, !.startOver = FALSE, !.trusted = TRUE,
                                !.state = "disconnected", !.stage = "other"]
     \/ /\ ~view.startOver /\ ~(view.ready /\ view.generation = 0)
        /\ view' = view
     \/ /\ ~view.startOver /\ view.ready /\ view.generation = 0
        /\ \/ \E state \in FailureStates : view' = Failed(view, state)
           \/ view' = [view EXCEPT !.trusted = FALSE, !.presenting = FALSE,
                                   !.state = "unpaired", !.stage = "other"]
  /\ Silent

HearLifecycleFailure ==
  /\ Hear({"LifecycleFailure", "InputFailed", "ReconnectFailed"})
  /\ IF Follows(Incoming.generation)
     THEN \E state \in FailureStates : view' = Failed(MoveTo(Incoming.generation), state)
     ELSE UNCHANGED view
  /\ Silent

HearProtocolError ==
  /\ Hear({"Refused"})
  /\ view' = ProtocolFailed(view)
  /\ Silent

-----------------------------------------------------------------------------
(* The helper reads the next command.                                       *)
TakeCommand ==
  /\ pipe # <<>> /\ pipe' = Tail(pipe)
  /\ LET c == Head(pipe)
     IN  IF c.op \in SessionBound /\ c.generation # generation
         THEN AnswerStale(c.op)
         ELSE Accept(c.op)
  /\ UNCHANGED <<view, read>>

HelperStep ==
  /\ \/ MainStep
     \/ \E w \in Sessions :
          \/ LauncherStep(w) \/ PhoneStep(w) \/ LifetimeExpires(w)
          \/ SessionWorkerStep(w) \/ SessionChildStep(w)
  /\ UNCHANGED panelVars

UserStep ==
  \/ {"startOver", "setPreferences"} \cap Commands # {} /\ (OpenManagement \/ CloseManagement)
  \/ "reconnect" \in Commands /\ Reconnect
  \/ "useManualCode" \in Commands /\ UseManualCode
  \/ "submitManualCode" \in Commands /\ SubmitManualCode
  \/ "startOver" \in Commands /\ StartOver
  \/ "setPreferences" \in Commands /\ SetPreferences
  \/ "input" \in Commands /\ Input

(* What the panel does of itself.                                           *)
FrameStep ==
  \/ "previewReady" \in Commands /\ FirstFrame
  \/ "stopSession" \in Commands /\ FirstFrameTimeout

ReceiveLine ==
  \/ HearReady \/ HearNothing \/ HearPreferences \/ HearQrWaiting \/ HearQrTimedOut
  \/ HearPairing \/ HearManualCode \/ HearCancelled \/ HearConnection \/ HearStarted
  \/ HearEnded \/ HearStopped \/ HearStartOverComplete \/ HearStale \/ HearFailure
  \/ HearLifecycleFailure \/ HearProtocolError

PanelInit == RuntimeInit /\ view = InitialView /\ read = 0 /\ pipe = <<>>
PanelNext == TakeCommand \/ HelperStep \/ UserStep \/ FrameStep \/ ReceiveLine
PanelSpec == PanelInit /\ [][PanelNext]_sessionVars

-----------------------------------------------------------------------------
PanelTypeOK ==
  /\ RuntimeTypeOK
  /\ view \in View
  /\ read \in 0..Len(sent)
  /\ pipe \in Seq([op: Ops, generation: Nat])

(* Nothing is on its way and no thread has anything to do: what is left     *)
(* waits for the phone, for scrcpy or for the user.                         *)
Waits(w) ==
  /\ launcher[w].step \in {"idle", "talk", "pairing"}
  /\ launcher[w].step # "idle" => ~Withdrawn(w)
  /\ worker[w].step \in {"idle", "armed"} \cup {"starting", "live"}
  /\ worker[w].step \in {"starting", "live"} => worker[w].token \notin cancelled
Settled ==
  /\ view.stage # "idle" /\ ~Unread /\ pipe = <<>> /\ cmd.todo = <<>>
  /\ \A w \in Sessions : Waits(w)
Busy == \E w \in Sessions : launcher[w].step # "idle" \/ worker[w].step # "idle"

(* The panel has read all there is and names the helper's generation.       *)
InSync == Settled /\ view.ready /\ ~view.startOver /\ view.generation = generation

(* The user may ask for a pairing by code while the QR pairing succeeds.    *)
(* The pairing command that follows stops a session that comes up between   *)
(* its two looks at the session, and nobody tells the panel                 *)
(* (stop_for_pairing, runtime.rs:552-563).  What the panel shows of a       *)
(* session is therefore held against the helper without pairings by code.   *)
PairsByCode == "useManualCode" \in Commands

(* A session that was refused leaves its target behind (runtime.rs:224),    *)
(* and settings restart whatever target there is: after a Start Over, a     *)
(* phone that was forgotten.  The panel takes what it hears of that session *)
(* for its device again, while the pairing it asked for goes on.            *)
RestartsForgotten ==
  \E i \in DOMAIN sent :
    /\ sent[i].type = "StartOverComplete"
    /\ \/ cmd.op = "setPreferences" /\ Len(cmd.todo) = 1 /\ cmd.target # NoTarget
       \/ \E j \in i + 1..Len(sent) : sent[j].type = "PreferencesRestarted"

(* A session that the panel shows as live runs, and is the one its commands *)
(* name: the events between the old session and the new one clear the       *)
(* session facts (PairingState.qml:479-488, 738-757).  Unless a forgotten   *)
(* phone was restarted: the pairing that the panel asked for stops such a   *)
(* session without a word, once the end of the session before it has        *)
(* cleared its target (runtime.rs:320, 552-563).                            *)
ShownSessionRuns ==
  InSync /\ ~PairsByCode /\ ~RestartsForgotten /\ view.started =>
    \E w \in Sessions : Running(w) /\ worker[w].current = generation

(* While the panel shows that something is loading, connecting or stopping, *)
(* a worker of the helper is at it: no event that ends the wait is lost     *)
(* behind the one that begins it (PairingState.qml:522-558, 758-781).       *)
(* Without settings: the reply of a restart, written after the restarted    *)
(* session failed, carries the failure's generation and hides it            *)
(* (protocol.rs:405).                                                       *)
LoadingIsWorked ==
  InSync /\ ~PairsByCode /\ "setPreferences" \notin Commands
         /\ (view.presenting \/ view.state \in {"connecting", "stopping"})
    => Busy

(* A preview that shows frames was acknowledged for this very session, so   *)
(* that its next end is reported and not retried (PairingState.qml:252-266, *)
(* runtime.rs:166-176).  A Start Over that the panel takes for failed when  *)
(* another command fails (813) may leave frames of a generation that the    *)
(* helper has ended.                                                        *)
PreviewAcknowledged ==
  /\ Settled /\ view.started /\ view.framed
  /\ "startOver" \in Commands => view.generation = generation
  => view.generation \in acked

(* What the panel says of the trusted device is so: it offers Reconnect     *)
(* only when there is a device and never denies the one there is            *)
(* (PairingState.qml:724-757, 782-834).  While no Start Over is used, that  *)
(* is: one that the end of its session overtakes is closed by that end and  *)
(* leaves a device denied that was not forgotten (533-545), and one that    *)
(* the panel takes for failed when another command fails (813) leaves it a  *)
(* device that the helper forgets.                                          *)
TrustAgrees ==
  InSync /\ "startOver" \notin Commands => (view.trusted <=> trusted)

(* A QR code on the screen is one that a pairing waits for: nothing that    *)
(* withdraws it is overtaken by what shows it.  Before the first session,   *)
(* that is: a pairing that fails after one is a notification and leaves its *)
(* code there (PairingState.qml:677-722, 826-828).                          *)
ShownCodeIsLive ==
  InSync /\ view.generation = 0 /\ view.stage = "qrWaiting" =>
    \E w \in Sessions : launcher[w].step # "idle" /\ launcher[w].kind = "qr"

(* When the panel sees its Start Over complete, no pairing or reconnect     *)
(* worker has put the device back, in memory or on disk, and none will      *)
(* before the panel asks for a pairing (PairingState.qml:782-798).  A       *)
(* pairing that has won when Start Over is confirmed would                  *)
(* (runtime.rs:698-704): a pairing by code, or the pairing that goes on     *)
(* while the panel takes a restarted phone for its device.                  *)
StartOverForgot ==
  [][/\ HearStartOverComplete /\ view.startOver /\ ~view'.startOver
     /\ ~PairsByCode /\ ~RestartsForgotten
     => ~stored /\ ~trusted]_sessionVars
=============================================================================
