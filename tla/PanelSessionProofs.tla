-------------------------- MODULE PanelSessionProofs ---------------------------
(***************************************************************************)
(* Proofs about PanelSession for any number of workers and commands.  The   *)
(* helper keeps RuntimeInv with the panel as its caller, and the panel is a *)
(* caller of the kind HelperRuntime asks for: it names only generations it  *)
(* was told and acknowledges only sessions it was told of.                  *)
(***************************************************************************)
EXTENDS PanelSession, HelperRuntimeProofs

(* The panel and its commands name what the helper has told.                 *)
NamesTold ==
  /\ Known(view.generation)
  /\ \A i \in DOMAIN pipe : Known(pipe[i].generation)
StartTold(g) == Sent(Event("SessionStarted", g))
StartsTold ==
  /\ view.started => StartTold(view.generation)
  /\ \A i \in DOMAIN pipe : pipe[i].op = "previewReady" => StartTold(pipe[i].generation)

(* Frames are shown of a session that was told as started, and the           *)
(* acknowledgement of the present generation was made, is on its way, or is  *)
(* the command under way.                                                    *)
FramesTold == view.framed => StartTold(view.generation)
StartsReached ==
  \A i \in DOMAIN sent : sent[i].type = "SessionStarted" => sent[i].generation <= generation
Answering(g) == cmd.op = "previewReady" /\ cmd.todo # <<>> /\ cmd.generation = g
Queued(g) ==
  \E i \in DOMAIN pipe : pipe[i].op = "previewReady" /\ pipe[i].generation = g
AckUnderWay ==
  view.framed /\ view.generation = generation =>
    generation \in acked \/ Queued(generation) \/ Answering(generation)

PanelInv ==
  /\ RuntimeInv /\ PanelTypeOK /\ NamesTold /\ StartsTold /\ Acknowledging
  /\ FramesTold /\ StartsReached /\ AckUnderWay /\ AnswersPast

(* A step of the helper's own, and what it may do with a command it reads.   *)
OwnStep ==
  \/ MainStep
  \/ \E w \in Sessions :
       \/ LauncherStep(w) \/ PhoneStep(w) \/ LifetimeExpires(w)
       \/ SessionWorkerStep(w) \/ SessionChildStep(w)
CalledStep ==
  \/ OwnStep
  \/ \E op \in Ops : Receive(op)
  \/ \E op \in SessionBound : AnswerStale(op)

-----------------------------------------------------------------------------
(* What a step makes of the panel's picture.                                 *)

(* A picture that follows from the present one and from the next event.      *)
Shows(v) ==
  /\ v \in View
  /\ v.generation = view.generation \/ (Unread /\ v.generation = Incoming.generation)
  /\ v.started => \/ view.started /\ v.generation = view.generation
                  \/ Unread /\ Incoming = Event("SessionStarted", v.generation)
  /\ v.framed => v.generation = view.generation /\ (view.framed \/ FirstFrame)

(* The fields of a picture.                                                  *)
LEMMA Fields ==
  ASSUME NEW v \in View
  PROVE  /\ v.ready \in BOOLEAN /\ v.generation \in Nat /\ v.trusted \in BOOLEAN
         /\ v.started \in BOOLEAN /\ v.framed \in BOOLEAN /\ v.presenting \in BOOLEAN
         /\ v.management \in BOOLEAN /\ v.startOver \in BOOLEAN
         /\ v.startOverGeneration \in Nat /\ v.state \in SessionStates /\ v.stage \in Stages
BY DEF View

(* The next event is one of the log.                                         *)
LEMMA NextEvent ==
  ASSUME PanelTypeOK, Unread
  PROVE  /\ Incoming \in EventSet /\ Incoming.generation \in Nat
         /\ Incoming = Event(Incoming.type, Incoming.generation)
         /\ Sent(Incoming) /\ Known(Incoming.generation)
         /\ read + 1 \in 0..Len(sent)
<1>1. sent \in Seq(EventSet) /\ read \in 0..Len(sent) /\ Len(sent) \in Nat
  BY DEF PanelTypeOK, RuntimeTypeOK, TypeOK
<1>2. read + 1 \in 1..Len(sent) /\ DOMAIN sent = 1..Len(sent)
  BY <1>1 DEF Unread
<1>3. Incoming \in EventSet
  BY <1>1, <1>2 DEF Incoming
<1>4. Incoming.generation \in Nat /\ Incoming = Event(Incoming.type, Incoming.generation)
  BY <1>3 DEF EventSet, Event
<1>5. Sent(Incoming) /\ Known(Incoming.generation)
  BY <1>2 DEF Sent, Known, Incoming
<1>6. QED BY <1>1, <1>2, <1>3, <1>4, <1>5

(* The picture stays.                                                        *)
LEMMA StaysShown == ASSUME PanelTypeOK PROVE Shows(view)
BY Fields DEF Shows, PanelTypeOK

(* A picture that keeps the generation and starts nothing.                   *)
LEMMA SameShown ==
  ASSUME PanelTypeOK, NEW v \in View, v.generation = view.generation, v.started => view.started,
         v.framed => view.framed
  PROVE  Shows(v)
BY DEF Shows

(* A picture of the generation the event names, with no session.             *)
LEMMA MovedShown ==
  ASSUME PanelTypeOK, Unread, NEW v \in View, v.generation = Incoming.generation, ~v.started,
         ~v.framed
  PROVE  Shows(v)
BY DEF Shows

(* Moving to a generation clears what belongs to the session before.         *)
LEMMA Moved ==
  ASSUME PanelTypeOK, NEW g \in Nat
  PROVE  /\ MoveTo(g) \in View /\ MoveTo(g).generation = g /\ ~MoveTo(g).started
         /\ ~MoveTo(g).framed
<1>1. view \in View
  BY DEF PanelTypeOK
<1>2. QED BY <1>1 DEF MoveTo, View

(* A lifecycle failure leaves no session.                                    *)
LEMMA FailedShown ==
  ASSUME NEW v \in View, NEW state \in FailureStates
  PROVE  /\ Failed(v, state) \in View /\ Failed(v, state).generation = v.generation
         /\ ~Failed(v, state).started /\ Failed(v, state).framed = v.framed
<1>1. state \in SessionStates /\ "other" \in Stages
  BY DEF FailureStates, SessionStates, Stages
<1>2. QED BY <1>1 DEF Failed, View

(* Neither does a broken protocol.                                           *)
LEMMA ProtocolFailedShown ==
  ASSUME NEW v \in View
  PROVE  /\ ProtocolFailed(v) \in View /\ ProtocolFailed(v).generation = v.generation
         /\ ~ProtocolFailed(v).started /\ ~ProtocolFailed(v).framed
<1>1. "unavailable" \in SessionStates /\ "protocolError" \in Stages
  BY DEF SessionStates, Stages
<1>2. QED BY <1>1 DEF ProtocolFailed, View

(* The pictures after the events that the panel reads.                       *)
LEMMA HearReadyShows == ASSUME PanelTypeOK, RuntimeTypeOK, HearReady PROVE Shows(view')
<1>1. view \in View /\ trusted \in BOOLEAN
  BY DEF PanelTypeOK, RuntimeTypeOK
<1>2. {"disconnected", "unpaired"} \subseteq SessionStates /\ "other" \in Stages
  BY DEF SessionStates, Stages
<1>3. view' \in View /\ view'.generation = view.generation /\ view'.started = view.started
      /\ view'.framed = view.framed
  BY <1>1, <1>2 DEF HearReady, View
<1>4. QED BY <1>3, SameShown

(* Settings that restart the session move the panel to the next generation. *)
LEMMA HearPreferencesShows == ASSUME PanelTypeOK, HearPreferences PROVE Shows(view')
<1> DEFINE g == Incoming.generation
           v == [MoveTo(g) EXCEPT !.presenting = TRUE, !.state = "connecting", !.stage = "other"]
<1>1. Unread /\ g \in Nat /\ view' \in {v, view}
  BY NextEvent DEF HearPreferences, Hear
<1>2. "connecting" \in SessionStates /\ "other" \in Stages
  BY DEF SessionStates, Stages
<1>3. MoveTo(g) \in View /\ MoveTo(g).generation = g /\ ~MoveTo(g).started
      /\ ~MoveTo(g).framed
  BY <1>1, Moved
<1>4. v \in View /\ v.generation = g /\ ~v.started /\ ~v.framed
  BY <1>2, <1>3 DEF View
<1>5. QED BY <1>1, <1>4, MovedShown, StaysShown

(* Telling of a pairing leaves the session alone.                           *)
LEMMA HearPairingsShow ==
  ASSUME PanelTypeOK,
         HearQrWaiting \/ HearQrTimedOut \/ HearPairing \/ HearManualCode \/ HearCancelled
  PROVE  Shows(view')
<1>1. view \in View
  BY DEF PanelTypeOK
<1>2. {"unpaired", "pairing"} \subseteq SessionStates
      /\ {"qrWaiting", "other", "manualCode"} \subseteq Stages
  BY DEF SessionStates, Stages
<1>3. view' \in View /\ view'.generation = view.generation /\ view'.started = view.started
      /\ view'.framed = view.framed
  BY <1>1, <1>2 DEF View, HearQrWaiting, HearQrTimedOut, HearPairing, HearManualCode, HearCancelled
<1>4. QED BY <1>3, SameShown

(* A connection that follows moves the panel to its generation.             *)
LEMMA HearConnectionShows == ASSUME PanelTypeOK, HearConnection PROVE Shows(view')
<1> DEFINE g == Incoming.generation
           v == IF Follows(g) THEN MoveTo(g) ELSE view
           shown == [v EXCEPT !.trusted = TRUE, !.presenting = ~v.framed,
                              !.state = "connecting", !.stage = "other"]
<1>1. Unread /\ g \in Nat /\ view' \in {shown, view} /\ view \in View
  BY NextEvent DEF HearConnection, Hear, PanelTypeOK
<1>2. "connecting" \in SessionStates /\ "other" \in Stages
  BY DEF SessionStates, Stages
<1>3. v \in View /\ (v = view \/ (v.generation = g /\ ~v.started /\ ~v.framed))
  BY <1>1, Moved
<1>4. shown \in View /\ shown.generation = v.generation /\ shown.started = v.started
      /\ shown.framed = v.framed
  <2> HIDE DEF v
  <2>1. v.framed \in BOOLEAN
    BY <1>3, Fields
  <2>2. QED BY <1>2, <1>3, <2>1 DEF View
<1>5. Shows(shown)
  <2> HIDE DEF v, shown
  <2>1. CASE v = view
    BY <1>4, <2>1, SameShown
  <2>2. CASE v.generation = g /\ ~v.started /\ ~v.framed
    BY <1>1, <1>4, <2>2, MovedShown
  <2>3. QED BY <1>3, <2>1, <2>2
<1>6. QED BY <1>1, <1>5, StaysShown

(* A session is shown as started only by the event that tells of it.        *)
LEMMA HearStartedShows == ASSUME PanelTypeOK, HearStarted PROVE Shows(view')
<1> DEFINE v == [view EXCEPT !.trusted = TRUE, !.presenting = ~view.framed,
                             !.started = TRUE, !.state = "started", !.stage = "other"]
<1>1. /\ Unread /\ view \in View /\ Incoming.type = "SessionStarted"
      /\ Incoming = Event(Incoming.type, Incoming.generation)
      /\ view' = view \/ (view' = v /\ Incoming.generation = view.generation)
  BY NextEvent DEF HearStarted, Hear, PanelTypeOK, IsCurrent
<1>2. "started" \in SessionStates /\ "other" \in Stages
  BY DEF SessionStates, Stages
<1>3. v \in View /\ v.generation = view.generation /\ v.framed = view.framed
  BY <1>1, <1>2 DEF View
<1>4. CASE view' = v /\ Incoming.generation = view.generation
  BY <1>1, <1>3, <1>4 DEF Shows
<1>5. QED BY <1>1, <1>4, StaysShown

(* An end that counts moves the panel past what was started.                *)
LEMMA HearEndedShows == ASSUME PanelTypeOK, HearEnded PROVE Shows(view')
<1> DEFINE g == Incoming.generation
           v == MoveTo(g)
<1>1. /\ Unread /\ g \in Nat
      /\ view' = view \/ view' = [v EXCEPT !.presenting = FALSE]
                      \/ view' = Failed(v, "disconnected")
  BY NextEvent DEF HearEnded, Hear
<1>2. v \in View /\ v.generation = g /\ ~v.started /\ ~v.framed
  BY <1>1, Moved
<1> HIDE DEF v
<1>3. CASE view' = [v EXCEPT !.presenting = FALSE]
  <2>1. view' \in View /\ view'.generation = g /\ ~view'.started
        /\ ~view'.framed
    BY <1>2, <1>3 DEF View
  <2>2. QED BY <1>1, <2>1, MovedShown
<1>4. CASE view' = Failed(v, "disconnected")
  <2>1. "disconnected" \in FailureStates
    BY DEF FailureStates
  <2>2. QED BY <1>1, <1>2, <1>4, <2>1, FailedShown, MovedShown
<1>5. QED BY <1>1, <1>3, <1>4, StaysShown

(* The answer to a stop that follows moves the panel to its generation.     *)
LEMMA HearStoppedShows == ASSUME PanelTypeOK, HearStopped PROVE Shows(view')
<1> DEFINE g == Incoming.generation
           v == IF Follows(g) THEN MoveTo(g) ELSE view
           shown == [v EXCEPT !.presenting = FALSE, !.stage = "other",
                              !.state = IF view.startOver THEN "stopping" ELSE "disconnected"]
<1>1. Unread /\ g \in Nat /\ view' \in {shown, view} /\ view \in View
  BY NextEvent DEF HearStopped, Hear, PanelTypeOK
<1>2. {"stopping", "disconnected"} \subseteq SessionStates /\ "other" \in Stages
  BY DEF SessionStates, Stages
<1>3. v \in View /\ (v = view \/ (v.generation = g /\ ~v.started /\ ~v.framed))
  BY <1>1, Moved
<1>4. shown \in View /\ shown.generation = v.generation /\ shown.started = v.started
      /\ shown.framed = v.framed
  <2> HIDE DEF v
  <2>1. QED BY <1>2, <1>3 DEF View
<1>5. Shows(shown)
  <2> HIDE DEF v, shown
  <2>1. CASE v = view
    BY <1>4, <2>1, SameShown
  <2>2. CASE v.generation = g /\ ~v.started /\ ~v.framed
    BY <1>1, <1>4, <2>2, MovedShown
  <2>3. QED BY <1>3, <2>1, <2>2
<1>6. QED BY <1>1, <1>5, StaysShown

(* So does the answer to a Start Over.                                      *)
LEMMA HearStartOverCompleteShows ==
  ASSUME PanelTypeOK, HearStartOverComplete
  PROVE  Shows(view')
<1> DEFINE g == Incoming.generation
           v == IF Follows(g) THEN MoveTo(g) ELSE view
           shown == [v EXCEPT !.presenting = FALSE, !.startOver = FALSE,
                              !.trusted = FALSE, !.state = "unpaired", !.stage = "other"]
<1>1. Unread /\ g \in Nat /\ view' \in {shown, view} /\ view \in View
  BY NextEvent DEF HearStartOverComplete, Hear, PanelTypeOK
<1>2. "unpaired" \in SessionStates /\ "other" \in Stages
  BY DEF SessionStates, Stages
<1>3. v \in View /\ (v = view \/ (v.generation = g /\ ~v.started /\ ~v.framed))
  BY <1>1, Moved
<1>4. shown \in View /\ shown.generation = v.generation /\ shown.started = v.started
      /\ shown.framed = v.framed
  <2> HIDE DEF v
  <2>1. QED BY <1>2, <1>3 DEF View
<1>5. Shows(shown)
  <2> HIDE DEF v, shown
  <2>1. CASE v = view
    BY <1>4, <2>1, SameShown
  <2>2. CASE v.generation = g /\ ~v.started /\ ~v.framed
    BY <1>1, <1>4, <2>2, MovedShown
  <2>3. QED BY <1>3, <2>1, <2>2
<1>6. QED BY <1>1, <1>5, StaysShown

(* A failure keeps the panel where it is or moves it.                       *)
LEMMA HearFailuresShow ==
  ASSUME PanelTypeOK, HearFailure \/ HearLifecycleFailure
  PROVE  Shows(view')
<1>1. Unread /\ view \in View /\ Incoming.generation \in Nat
  BY NextEvent DEF HearFailure, HearLifecycleFailure, Hear, PanelTypeOK
<1>2. {"unpaired", "disconnected"} \subseteq SessionStates /\ "other" \in Stages
  BY DEF SessionStates, Stages
<1>3. CASE view' = view
  BY <1>3, StaysShown
<1>4. ASSUME NEW state \in FailureStates, view' = Failed(view, state) PROVE Shows(view')
  BY <1>1, <1>4, FailedShown, SameShown
<1>5. ASSUME NEW state \in FailureStates, view' = Failed(MoveTo(Incoming.generation), state)
      PROVE  Shows(view')
  BY <1>1, <1>5, Moved, FailedShown, MovedShown
<1>6. CASE HearFailure
  <2>1. CASE view' = [view EXCEPT !.presenting = FALSE, !.startOver = FALSE, !.trusted = TRUE,
                                  !.state = "disconnected", !.stage = "other"]
    <3>1. view' \in View /\ view'.generation = view.generation /\ view'.started = view.started
          /\ view'.framed = view.framed
      BY <1>1, <1>2, <2>1 DEF View
    <3>2. QED BY <3>1, SameShown
  <2>2. CASE view' = [view EXCEPT !.trusted = FALSE, !.presenting = FALSE,
                                  !.state = "unpaired", !.stage = "other"]
    <3>1. view' \in View /\ view'.generation = view.generation /\ view'.started = view.started
          /\ view'.framed = view.framed
      BY <1>1, <1>2, <2>2 DEF View
    <3>2. QED BY <3>1, SameShown
  <2>3. QED BY <1>3, <1>4, <1>6, <2>1, <2>2 DEF HearFailure
<1>7. CASE HearLifecycleFailure
  BY <1>3, <1>5, <1>7 DEF HearLifecycleFailure
<1>8. QED BY <1>6, <1>7

(* Errors of the protocol change the surface alone.                         *)
LEMMA HearErrorsShow == ASSUME PanelTypeOK, HearStale \/ HearProtocolError PROVE Shows(view')
<1>1. view \in View /\ view' \in {view, ProtocolFailed(view)}
  BY DEF PanelTypeOK, HearStale, HearProtocolError
<1>2. QED BY <1>1, ProtocolFailedShown, SameShown, StaysShown

(* What the panel does of itself or for the user starts no session either.   *)
LEMMA PanelStepShows == ASSUME PanelTypeOK, UserStep \/ FrameStep PROVE Shows(view')
<1>1. view \in View
  BY DEF PanelTypeOK
<1>2. {"stopping", "disconnected"} \subseteq SessionStates /\ "other" \in Stages
  BY DEF SessionStates, Stages
<1>3. CASE view' = view
  BY <1>3, StaysShown
<1>4. ASSUME view' \in View, view'.generation = view.generation, view'.started => view.started,
             view'.framed => view.framed
      PROVE  Shows(view')
  BY <1>4, SameShown
<1>5. CASE OpenManagement \/ CloseManagement \/ Reconnect
  BY <1>1, <1>4, <1>5 DEF OpenManagement, CloseManagement, Reconnect, View
<1>6. CASE StartOver
  BY <1>1, <1>2, <1>4, <1>6 DEF StartOver, View
<1>7. CASE FirstFrameTimeout
  BY <1>1, <1>2, <1>4, <1>7 DEF FirstFrameTimeout, View
<1>8. CASE FirstFrame
  <2>1. view' \in View /\ view'.generation = view.generation /\ view'.started = view.started
    BY <1>1, <1>8 DEF FirstFrame, View
  <2>2. QED BY <1>8, <2>1 DEF Shows
<1>9. CASE UseManualCode \/ SubmitManualCode \/ SetPreferences \/ Input
  BY <1>3, <1>9 DEF UseManualCode, SubmitManualCode, SetPreferences, Input
<1>10. QED BY <1>5, <1>6, <1>7, <1>8, <1>9 DEF UserStep, FrameStep

-----------------------------------------------------------------------------
(* What a step makes of the pipe.                                            *)

(* What the panel may send, and what it sends of a session that it shows.     *)
PanelOps ==
  {"startQrPairing", "submitManualCode", "useManualCode", "reconnect", "stopSession",
   "startOver", "setPreferences", "input", "previewReady"}
ShownOps == {"previewReady", "stopSession", "input"}

(* A command names the generation of the picture, and one about the preview
   is written while a session is shown.                                      *)
Writes ==
  \/ pipe' = pipe
  \/ \E op \in PanelOps :
       /\ pipe' = Append(pipe, [op |-> op, generation |-> view.generation])
       /\ op \in ShownOps => view.started
       /\ op = "startOver" => op \in Commands

(* One command more.                                                         *)
LEMMA SendWrites ==
  ASSUME NEW op \in PanelOps, Send(op), op \in ShownOps => view.started,
         op = "startOver" => op \in Commands
  PROVE  Writes
BY DEF Send, Writes

(* Every line that is read, every button and the first frame write at most
   one command.                                                              *)
LEMMA PanelWrites == ASSUME ReceiveLine \/ UserStep \/ FrameStep PROVE Writes
<1>1. /\ PanelOps = {"startQrPairing", "submitManualCode", "useManualCode", "reconnect",
                      "stopSession", "startOver", "setPreferences", "input", "previewReady"}
      /\ ShownOps = {"previewReady", "stopSession", "input"}
  BY DEF PanelOps, ShownOps
<1>2. CASE pipe' = pipe
  BY <1>2 DEF Writes
<1>3. CASE ReceiveLine
  <2>1. CASE HearReady
    <3>1. CASE trusted
      BY <1>1, <2>1, <3>1, SendWrites DEF HearReady
    <3>2. CASE ~trusted
      BY <1>1, <2>1, <3>2, SendWrites DEF HearReady
    <3>3. QED BY <3>1, <3>2
  <2>2. CASE HearQrTimedOut \/ HearCancelled \/ HearStartOverComplete
    BY <1>1, <1>2, <2>2, SendWrites DEF HearQrTimedOut, HearCancelled, HearStartOverComplete, Silent
  <2>3. QED
    BY <1>2, <1>3, <2>1, <2>2
       DEF ReceiveLine, HearNothing, HearPreferences, HearQrWaiting, HearPairing, HearManualCode,
           HearConnection, HearStarted, HearEnded, HearStopped, HearStale, HearFailure,
           HearLifecycleFailure, HearProtocolError, Silent
<1>4. CASE UserStep
  <2>1. CASE OpenManagement \/ CloseManagement
    BY <1>2, <2>1 DEF OpenManagement, CloseManagement
  <2>2. CASE Reconnect
    BY <1>1, <2>2, SendWrites DEF Reconnect
  <2>3. CASE UseManualCode
    BY <1>1, <2>3, SendWrites DEF UseManualCode
  <2>4. CASE SubmitManualCode
    BY <1>1, <2>4, SendWrites DEF SubmitManualCode
  <2>5. CASE "startOver" \in Commands /\ StartOver
    BY <1>1, <2>5, SendWrites DEF StartOver
  <2>6. CASE SetPreferences
    BY <1>1, <2>6, SendWrites DEF SetPreferences
  <2>7. CASE Input
    BY <1>1, <2>7, SendWrites DEF Input
  <2>8. QED BY <1>4, <2>1, <2>2, <2>3, <2>4, <2>5, <2>6, <2>7 DEF UserStep
<1>5. CASE FrameStep
  <2>1. CASE FirstFrame
    BY <1>1, <2>1, SendWrites DEF FirstFrame
  <2>2. CASE FirstFrameTimeout
    BY <1>1, <2>2, SendWrites DEF FirstFrameTimeout
  <2>3. QED BY <1>5, <2>1, <2>2 DEF FrameStep
<1>6. QED BY <1>3, <1>4, <1>5

(* The same steps leave the helper alone, and read at most one event.        *)
LEMMA PanelFrame ==
  ASSUME PanelTypeOK, ReceiveLine \/ UserStep \/ FrameStep
  PROVE  UNCHANGED runtimeVars /\ read' \in 0..Len(sent)
<1>1. read \in 0..Len(sent) /\ (Unread => read + 1 \in 0..Len(sent))
  BY NextEvent DEF PanelTypeOK
<1>2. CASE ReceiveLine
  BY <1>1, <1>2
     DEF ReceiveLine, HearReady, HearNothing, HearPreferences, HearQrWaiting, HearQrTimedOut,
         HearPairing, HearManualCode, HearCancelled, HearConnection, HearStarted, HearEnded,
         HearStopped, HearStartOverComplete, HearStale, HearFailure, HearLifecycleFailure,
         HearProtocolError, Hear
<1>3. CASE UserStep \/ FrameStep
  BY <1>1, <1>3
     DEF UserStep, FrameStep, OpenManagement, CloseManagement, Reconnect, UseManualCode,
         SubmitManualCode, StartOver, SetPreferences, Input, FirstFrame, FirstFrameTimeout
<1>4. QED BY <1>2, <1>3

(* A line that is read makes a picture that follows from it.                 *)
LEMMA LineShows == ASSUME PanelTypeOK, ReceiveLine PROVE Shows(view')
<1>1. RuntimeTypeOK
  BY DEF PanelTypeOK
<1>2. CASE HearNothing
  BY <1>2, StaysShown DEF HearNothing
<1>3. QED
  BY <1>1, <1>2, HearReadyShows, HearPreferencesShows, HearPairingsShow, HearConnectionShows,
     HearStartedShows, HearEndedShows, HearStoppedShows, HearStartOverCompleteShows,
     HearFailuresShow, HearErrorsShow DEF ReceiveLine

(* The commands in the pipe, one by one, after one more was sent.            *)
LEMMA QueueGrows ==
  ASSUME NEW S, NEW s \in Seq(S), NEW e \in S
  PROVE  /\ Append(s, e) \in Seq(S)
         /\ \A i \in DOMAIN Append(s, e) :
              Append(s, e)[i] = e \/ (i \in DOMAIN s /\ Append(s, e)[i] = s[i])
         /\ \A i \in DOMAIN s : i \in DOMAIN Append(s, e) /\ Append(s, e)[i] = s[i]
         /\ \E i \in DOMAIN Append(s, e) : Append(s, e)[i] = e
<1>1. /\ Append(s, e) \in Seq(S) /\ Len(s) \in Nat /\ DOMAIN s = 1..Len(s)
      /\ DOMAIN Append(s, e) = 1..Len(s) + 1
      /\ \A i \in 1..Len(s) : Append(s, e)[i] = s[i]
      /\ Append(s, e)[Len(s) + 1] = e
  BY AppendProperties
<1>2. Len(s) + 1 \in 1..Len(s) + 1 /\ \A i \in 1..Len(s) : i \in 1..Len(s) + 1
  BY <1>1
<1>3. \A i \in 1..Len(s) + 1 : i \in 1..Len(s) \/ i = Len(s) + 1
  BY <1>1
<1>4. QED BY <1>1, <1>2, <1>3

(* The commands of the pipe after the first was taken.                      *)
LEMMA QueueShrinks ==
  ASSUME NEW S, NEW s \in Seq(S), s # <<>>
  PROVE  /\ Head(s) \in S /\ Tail(s) \in Seq(S) /\ 1 \in DOMAIN s /\ Head(s) = s[1]
         /\ \A i \in DOMAIN Tail(s) : i + 1 \in DOMAIN s /\ Tail(s)[i] = s[i + 1]
         /\ \A i \in DOMAIN s : s[i] = Head(s) \/ \E j \in DOMAIN Tail(s) : Tail(s)[j] = s[i]
<1>1. /\ Head(s) \in S /\ Tail(s) \in Seq(S) /\ 1 \in DOMAIN s /\ Head(s) = s[1]
      /\ \A i \in DOMAIN Tail(s) : i + 1 \in DOMAIN s /\ Tail(s)[i] = s[i + 1]
  OBVIOUS
<1>2. ASSUME NEW i \in DOMAIN s, i # 1
      PROVE  i - 1 \in DOMAIN Tail(s) /\ Tail(s)[i - 1] = s[i]
  BY <1>2
<1>3. QED BY <1>1, <1>2

-----------------------------------------------------------------------------
(* The panel's own steps keep the invariant.                                 *)
LEMMA PanelStepInv ==
  ASSUME PanelInv, ReceiveLine \/ UserStep \/ FrameStep
  PROVE  PanelInv'
<1>0. /\ RuntimeInv /\ PanelTypeOK /\ NamesTold /\ StartsTold /\ Acknowledging
      /\ FramesTold /\ StartsReached /\ AckUnderWay /\ AnswersPast
      /\ pipe \in Seq([op: Ops, generation: Nat]) /\ view \in View
  BY DEF PanelInv, PanelTypeOK
<1>1. UNCHANGED runtimeVars /\ read' \in 0..Len(sent) /\ Shows(view') /\ Writes
  BY <1>0, PanelFrame, PanelWrites, LineShows, PanelStepShows
<1>2. sent' = sent /\ cmd' = cmd
  BY <1>1 DEF runtimeVars, vars
<1>3. RuntimeInv' /\ RuntimeTypeOK'
  BY <1>0, <1>1, RuntimeStutters DEF RuntimeInv
<1>4. Acknowledging'
  BY <1>0, <1>2 DEF Acknowledging, Sent
<1>5. (\A g : Known(g) => Known(g)') /\ (\A g : StartTold(g) => StartTold(g)')
  BY <1>2 DEF Known, StartTold, Sent
<1> DEFINE Grown(q) ==
             /\ q \in Seq([op: Ops, generation: Nat])
             /\ \A i \in DOMAIN q :
                  \/ q[i].generation = view.generation
                     /\ (q[i].op = "previewReady" => view.started)
                  \/ i \in DOMAIN pipe /\ q[i] = pipe[i]
             /\ \A i \in DOMAIN pipe : \E j \in DOMAIN q : q[j] = pipe[i]
<1>6. Grown(pipe')
  <2>1. CASE pipe' = pipe
    BY <1>0, <2>1
  <2>2. ASSUME NEW op \in PanelOps,
               pipe' = Append(pipe, [op |-> op, generation |-> view.generation]),
               op \in ShownOps => view.started
        PROVE  Grown(pipe')
    <3> DEFINE e == [op |-> op, generation |-> view.generation]
    <3>0. op \in Ops /\ (op = "previewReady" => op \in ShownOps)
      BY Programs DEF PanelOps, ShownOps
    <3>1. e \in [op: Ops, generation: Nat] /\ e.op = op /\ e.generation = view.generation
      BY <1>0, <3>0, Fields
    <3> HIDE DEF e
    <3>2. pipe' = Append(pipe, e)
      BY <2>2 DEF e
    <3>3. QED BY <1>0, <2>2, <3>0, <3>1, <3>2, QueueGrows
  <2>3. QED BY <1>1, <2>1, <2>2 DEF Writes
<1>7. PanelTypeOK'
  BY <1>1, <1>2, <1>3, <1>6 DEF PanelTypeOK, Shows
<1>8. NamesTold'
  <2>1. Known(view'.generation)
    <3>1. CASE Unread /\ view'.generation = Incoming.generation
      BY <1>0, <3>1, NextEvent
    <3>2. QED BY <1>0, <1>1, <3>1 DEF Shows, NamesTold
  <2>2. QED BY <1>0, <1>5, <1>6, <2>1 DEF NamesTold
<1>9. StartsTold'
  <2>1. view'.started => StartTold(view'.generation)
    <3>1. CASE Unread /\ Incoming = Event("SessionStarted", view'.generation)
      BY <1>0, <3>1, NextEvent DEF StartTold
    <3>2. QED BY <1>0, <1>1, <3>1 DEF Shows, StartsTold
  <2>2. QED BY <1>0, <1>5, <1>6, <2>1 DEF StartsTold
<1>10. ASSUME view'.framed
       PROVE  view'.generation = view.generation /\ (view.framed \/ FirstFrame)
  BY <1>1, <1>10 DEF Shows
<1>11. FramesTold'
  <2>1. FirstFrame => view.started
    BY DEF FirstFrame
  <2>2. QED BY <1>0, <1>5, <1>10, <2>1 DEF FramesTold, StartsTold
<1>12. generation' = generation /\ acked' = acked
  BY <1>1 DEF runtimeVars, vars, cells
<1>13. StartsReached'
  BY <1>0, <1>2, <1>12 DEF StartsReached
<1>14. AckUnderWay'
  <2>1. SUFFICES ASSUME view'.framed, view'.generation = generation, generation \notin acked,
                        ~Answering(generation)
                 PROVE  \E i \in DOMAIN pipe' : /\ pipe'[i].op = "previewReady"
                                                /\ pipe'[i].generation = generation
    BY <1>2, <1>12 DEF AckUnderWay, Queued, Answering
  <2>2. CASE view.framed
    <3>1. PICK i \in DOMAIN pipe : pipe[i].op = "previewReady" /\ pipe[i].generation = generation
      BY <1>0, <1>10, <2>1, <2>2 DEF AckUnderWay, Queued
    <3>2. QED BY <1>6, <3>1
  <2>3. CASE FirstFrame
    <3> DEFINE e == [op |-> "previewReady", generation |-> view.generation]
    <3>1. pipe' = Append(pipe, e)
      BY <2>3 DEF FirstFrame, Send
    <3>2. e \in [op: Ops, generation: Nat] /\ e.op = "previewReady"
          /\ e.generation = generation
      BY <1>0, <1>10, <2>1, Fields, Programs
    <3> HIDE DEF e
    <3>3. QED BY <1>0, <3>1, <3>2, QueueGrows
  <2>4. QED BY <1>10, <2>1, <2>2, <2>3
<1>15. AnswersPast'
  BY <1>0, <1>2, <1>12 DEF AnswersPast
<1>16. QED BY <1>3, <1>4, <1>7, <1>8, <1>9, <1>11, <1>13, <1>14, <1>15 DEF PanelInv

(* What the panel knows it goes on knowing.                                  *)
LEMMA ToldStays ==
  ASSUME TypeOK, Driven
  PROVE  /\ \A g : Known(g) => Known(g)'
         /\ \A g : StartTold(g) => StartTold(g)'
         /\ Len(sent) <= Len(sent') /\ Len(sent') \in Nat
<1>1. ASSUME NEW g, Known(g) PROVE Known(g)'
  <2>1. CASE g = 0
    BY <2>1 DEF Known
  <2>2. ASSUME NEW e, Sent(e), e.generation = g PROVE Known(g)'
    <3>1. Sent(e)'
      BY <2>2, SentStays
    <3>2. QED BY <2>2, <3>1 DEF Sent, Known
  <2>3. QED BY <1>1, <2>1, <2>2 DEF Known, Sent
<1>2. ASSUME NEW g, StartTold(g) PROVE StartTold(g)'
  <2>1. ASSUME NEW e, e = Event("SessionStarted", g), Sent(e)
        PROVE  \E i \in DOMAIN sent' : sent'[i] = e
    BY <2>1, SentStays DEF Sent
  <2>2. QED BY <1>2, <2>1 DEF StartTold, Sent, Event
<1>3. Len(sent) <= Len(sent') /\ Len(sent') \in Nat
  <2>1. sent \in Seq(EventSet)
    BY DEF TypeOK
  <2>2. CASE sent' = sent
    BY <2>1, <2>2
  <2>3. ASSUME NEW e \in EventSet, sent' = Append(sent, e)
        PROVE  Len(sent) <= Len(sent') /\ Len(sent') \in Nat
    BY <2>1, <2>3
  <2>4. QED BY <2>2, <2>3, DrivenGrows
<1>4. QED BY <1>1, <1>2, <1>3

(* The session generation counts up, and what was acknowledged stays so.     *)
LEMMA DrivenCounts ==
  ASSUME TypeOK, Driven
  PROVE  GenerationGoesOn /\ acked \subseteq acked'
<1>1. CASE Call
  BY <1>1 DEF Call, Count, Invalidate, StopSession, Arm, Capture, cells, GenerationGoesOn
<1>2. CASE CallerStep \/ AcknowledgePreview
  BY <1>2 DEF CallerStep, CrossBarrier, ResetTarget, RenewToken, Restart, AcknowledgePreview,
              cells, GenerationGoesOn
<1>3. ASSUME NEW w \in Sessions, WorkerStep(w) \/ ScrcpyStep(w)
      PROVE  GenerationGoesOn /\ acked \subseteq acked'
  BY <1>3, WorkerFrame DEF GenerationGoesOn
<1>4. ASSUME NEW w \in Sessions,
             Advance(w) \/ AdvanceFailed(w) \/ Discard(w) \/ \E t \in Targets : Spawn(w, t)
      PROVE  GenerationGoesOn /\ acked \subseteq acked'
  BY <1>4 DEF Advance, AdvanceFailed, Discard, Spawn, cells, GenerationGoesOn
<1>5. CASE UNCHANGED quiet
  BY <1>5 DEF quiet, cells, GenerationGoesOn
<1>6. ASSUME NEW w \in Sessions, DropsClosure(w) PROVE GenerationGoesOn /\ acked \subseteq acked'
  BY <1>6 DEF DropsClosure, cells, GenerationGoesOn
<1>7. CASE UNCHANGED vars
  BY <1>7 DEF vars, cells, GenerationGoesOn
<1>8. QED BY <1>1, <1>2, <1>3, <1>4, <1>5, <1>6, <1>7 DEF Driven, DrivenStep, Next

(* A session is told as started by the worker that has its generation.       *)
LEMMA StartedBy ==
  ASSUME TypeOK, CurrentsKnown, Driven, NEW e, sent' = Append(sent, e),
         e.type = "SessionStarted"
  PROVE  e.generation <= generation
<1>1. sent \in Seq(EventSet)
  BY DEF TypeOK
<1>2. \A d : sent' = Append(sent, d) => d = e
  <2>1. ASSUME NEW d, sent' = Append(sent, d) PROVE d = e
    <3>1. Append(sent, d)[Len(sent) + 1] = d /\ Append(sent, e)[Len(sent) + 1] = e
      BY <1>1
    <3>2. QED BY <2>1, <3>1
  <2>2. QED BY <2>1
<1>3. ASSUME NEW w \in Sessions, ConfirmStarted(w) PROVE e.generation <= generation
  <2>1. e = Event("SessionStarted", worker[w].current)
    BY <1>2, <1>3 DEF ConfirmStarted
  <2>2. QED BY <2>1 DEF Event, CurrentsKnown
<1>4. ASSUME NEW w \in Sessions, Announce(w) \/ ReportEnd(w) PROVE FALSE
  <2>1. CASE Announce(w)
    <3>1. e = Event("SessionStarting", worker[w].current)
      BY <1>2, <2>1 DEF Announce
    <3>2. QED BY <3>1 DEF Event
  <2>2. CASE ReportEnd(w)
    <3>1. \E type \in {"SessionEnded", "LifecycleFailure"}, g \in Nat \cup {worker[w].current} :
            e = Event(type, g)
      BY <1>2, <2>2 DEF ReportEnd, EndEvent
    <3>2. QED BY <3>1 DEF Event
  <2>3. QED BY <1>4, <2>1, <2>2
<1>5. CASE TellsElse
  BY <1>2, <1>5 DEF TellsElse, Event, SessionEvents
<1>6. Append(sent, e) # sent
  <2>1. Len(Append(sent, e)) = Len(sent) + 1 /\ Len(sent) \in Nat
    BY <1>1
  <2>2. Len(sent) + 1 # Len(sent)
    BY <2>1
  <2>3. QED BY <2>1, <2>2
<1>7. CASE Next
  <2>1. sent' # sent
    BY <1>6
  <2>2. ~(Call \/ CallerStep \/ AcknowledgePreview)
    BY <2>1 DEF Call, Invalidate, StopSession, Arm, Capture, CallerStep, CrossBarrier,
                ResetTarget, RenewToken, Restart, AcknowledgePreview
  <2>3. ASSUME NEW w \in Sessions
        PROVE  ~(Advance(w) \/ AdvanceFailed(w) \/ Discard(w) \/ \E t \in Targets : Spawn(w, t))
    BY <2>1 DEF Advance, AdvanceFailed, Discard, Spawn
  <2>4. PICK w \in Sessions : WorkerStep(w) \/ ScrcpyStep(w)
    BY <1>7, <2>2, <2>3 DEF Next
  <2>5. Announce(w) \/ ConfirmStarted(w) \/ ReportEnd(w)
    BY <2>1, <2>4
       DEF WorkerStep, ScrcpyStep, SpawnStale, SpawnCurrent, LockRunner, SetTarget, RefuseStart,
           AdmitStart, RunScrcpy, RunStopped, StartDeadline, ExitSuperseded, ClaimRetry,
           KeepResult, EndSilently, ClaimEnd, ClearTarget, CaptureReady, RunUnavailable,
           ScrcpyExits
  <2>6. QED BY <1>3, <1>4, <2>5
<1>8. CASE UNCHANGED vars
  BY <1>6, <1>8 DEF vars
<1>9. QED BY <1>5, <1>7, <1>8 DEF Driven, DrivenStep

(* Only generations that were reached are told as started.                   *)
LEMMA StartsReachedStays ==
  ASSUME TypeOK, CurrentsKnown, Driven, StartsReached
  PROVE  StartsReached'
<1>1. /\ sent \in Seq(EventSet) /\ generation \in Nat /\ generation' \in Nat
      /\ generation <= generation'
  BY DrivenCounts, Onward DEF TypeOK
<1>2. \A e \in EventSet : e.generation \in Nat
  BY DEF EventSet
<1>3. CASE sent' = sent
  <2>1. \A i \in DOMAIN sent : sent[i].generation \in Nat
    BY <1>1, <1>2
  <2>2. QED BY <1>1, <1>3, <2>1 DEF StartsReached
<1>4. ASSUME NEW e \in EventSet, sent' = Append(sent, e) PROVE StartsReached'
  <2>1. /\ \A i \in DOMAIN sent' : sent'[i] = e \/ (i \in DOMAIN sent /\ sent'[i] = sent[i])
        /\ \A i \in DOMAIN sent : sent[i] \in EventSet
    BY <1>1, <1>4, QueueGrows
  <2>2. e.type = "SessionStarted" => e.generation <= generation
    BY <1>4, StartedBy
  <2>3. QED BY <1>1, <1>2, <2>1, <2>2 DEF StartsReached
<1>5. QED BY <1>3, <1>4, DrivenGrows

(* A step of the helper that leaves the picture alone, and the commands but
   for the first.                                                            *)
LEMMA HelperMoves ==
  ASSUME PanelInv, RuntimeInv', Driven, Acknowledging', AckUnderWay', AnswersPast',
         UNCHANGED <<view, read>>,
         pipe' = pipe \/ (pipe # <<>> /\ pipe' = Tail(pipe))
  PROVE  PanelInv'
<1>0. /\ RuntimeInv /\ PanelTypeOK /\ NamesTold /\ StartsTold /\ FramesTold /\ StartsReached
      /\ TypeOK /\ CurrentsKnown
      /\ pipe \in Seq([op: Ops, generation: Nat]) /\ view \in View /\ read \in 0..Len(sent)
  BY DEF PanelInv, PanelTypeOK, RuntimeTypeOK, RuntimeInv, LogInv, AnnounceInv
<1>1. /\ \A g : Known(g) => Known(g)'
      /\ \A g : StartTold(g) => StartTold(g)'
      /\ Len(sent) <= Len(sent') /\ Len(sent') \in Nat
  BY <1>0, ToldStays
<1>2. pipe' \in Seq([op: Ops, generation: Nat])
      /\ \A i \in DOMAIN pipe' : \E j \in DOMAIN pipe : pipe'[i] = pipe[j]
  <2>1. CASE pipe' = pipe
    BY <1>0, <2>1
  <2>2. CASE pipe # <<>> /\ pipe' = Tail(pipe)
    BY <1>0, <2>2, QueueShrinks
  <2>3. QED BY <2>1, <2>2
<1>3. read' \in 0..Len(sent') /\ RuntimeTypeOK'
  <2>1. Len(sent) \in Nat
    BY <1>0 DEF TypeOK
  <2>2. QED BY <1>0, <1>1, <2>1 DEF RuntimeInv
<1>4. PanelTypeOK'
  BY <1>0, <1>2, <1>3 DEF PanelTypeOK
<1>5. NamesTold'
  BY <1>0, <1>1, <1>2 DEF NamesTold
<1>6. StartsTold'
  BY <1>0, <1>1, <1>2 DEF StartsTold
<1>7. FramesTold' /\ StartsReached'
  BY <1>0, <1>1, StartsReachedStays DEF FramesTold
<1>8. QED BY <1>4, <1>5, <1>6, <1>7 DEF PanelInv

(* The acknowledgement that is under way is taken from the pipe.              *)
LEMMA TakenAcks ==
  ASSUME PanelInv, pipe # <<>>, pipe' = Tail(pipe), view' = view, acked' = acked,
         generation' = generation, cmd.todo = <<>>,
         Head(pipe).op = "previewReady" /\ Head(pipe).generation = generation
           => cmd'.op = "previewReady" /\ cmd'.todo # <<>> /\ cmd'.generation = generation
  PROVE  AckUnderWay'
<1>0. pipe \in Seq([op: Ops, generation: Nat]) /\ AckUnderWay
  BY DEF PanelInv, PanelTypeOK
<1>1. SUFFICES ASSUME view.framed, view.generation = generation, generation \notin acked,
                      ~(Head(pipe).op = "previewReady" /\ Head(pipe).generation = generation)
               PROVE  \E i \in DOMAIN pipe' : /\ pipe'[i].op = "previewReady"
                                              /\ pipe'[i].generation = generation
  BY DEF AckUnderWay, Queued, Answering
<1>2. PICK i \in DOMAIN pipe : pipe[i].op = "previewReady" /\ pipe[i].generation = generation
  BY <1>0, <1>1 DEF AckUnderWay, Queued, Answering
<1>3. pipe[i] = Head(pipe) \/ \E j \in DOMAIN Tail(pipe) : Tail(pipe)[j] = pipe[i]
  BY <1>0, QueueShrinks
<1>4. QED BY <1>1, <1>2, <1>3

(* The main thread, with an acknowledgement to make, makes it.               *)
LEMMA MainAcknowledges ==
  ASSUME RuntimeInv, cmd.op = "previewReady", cmd.todo # <<>>, MainStep, cmd' # cmd
  PROVE  Acknowledge
<1>0. cmd \in CommandState /\ TodoFits
  BY DEF RuntimeInv, RuntimeTypeOK, MainInv
<1>1. cmd.todo \in Seq(MicroSteps) /\ Program["previewReady"] \in Seq(MicroSteps)
  BY <1>0, ProgramsTyped, Programs DEF CommandState
<1>2. Remains(cmd.todo, Program["previewReady"])
  BY <1>0 DEF TodoFits, Failing
<1>3. Len(Program["previewReady"]) = 1 /\ Program["previewReady"][1] = "acknowledge"
  BY Programs
<1>4. /\ Len(cmd.todo) \in 1..1
      /\ Head(cmd.todo) = Program["previewReady"][1 - Len(cmd.todo) + 1]
  BY <1>1, <1>2, <1>3, RemainsTail
<1>5. Head(cmd.todo) = "acknowledge"
  <2>1. Len(cmd.todo) = 1
    BY <1>4
  <2>2. QED BY <1>3, <1>4, <2>1
<1>6. \A step : At(step) => step = "acknowledge"
  BY <1>5 DEF At
<1>7. ~InSessionControl
  BY DEF InSessionControl
<1>8. QED
  BY <1>6, <1>7
     DEF MainStep, RefuseIfLive, NeedTrusted, ReadTarget, NeedTarget, MainStop, MainInvalidate,
         MainRestart, CancelToken, Retire, Supersede, StartQr, CancelQr, CrossFlow, LockFlow,
         UnlockFlow, Forget, UseStore, RunInput, ReadGeneration, Reply, ReplyFailed, Launch

(* The helper does not lose an acknowledgement, and does not come back to a
   generation whose frames are shown.                                        *)
LEMMA HelperAcks ==
  ASSUME PanelInv, OwnStep, Driven, UNCHANGED <<view, read, pipe>>
  PROVE  AckUnderWay'
<1>0. /\ RuntimeInv /\ TypeOK /\ FramesTold /\ StartsReached /\ AckUnderWay /\ view \in View
  BY DEF PanelInv, PanelTypeOK, RuntimeTypeOK
<1>1. generation' \in {generation, generation + 1} /\ acked \subseteq acked'
      /\ generation \in Nat /\ view.generation \in Nat
  BY <1>0, DrivenCounts, Fields DEF GenerationGoesOn, TypeOK
<1>2. SUFFICES ASSUME view.framed, view.generation = generation', generation \notin acked',
                      ~Queued(generation)
               PROVE  cmd'.op = "previewReady" /\ cmd'.todo # <<>> /\ cmd'.generation = generation
  <2>1. view.framed => view.generation <= generation
    <3>1. ASSUME NEW i \in DOMAIN sent, sent[i] = Event("SessionStarted", view.generation)
          PROVE  view.generation <= generation
      BY <1>0, <3>1 DEF StartsReached, Event
    <3>2. QED BY <1>0, <3>1 DEF FramesTold, StartTold, Sent
  <2>2. view.framed /\ view.generation = generation' => generation' = generation
    BY <1>1, <2>1
  <2>3. QED BY <1>2, <2>2 DEF AckUnderWay, Queued, Answering
<1>3. view.generation = generation
  <2>1. ASSUME NEW i \in DOMAIN sent, sent[i] = Event("SessionStarted", view.generation)
        PROVE  view.generation <= generation
    BY <1>0, <2>1 DEF StartsReached, Event
  <2>2. view.generation <= generation
    BY <1>0, <1>2, <2>1 DEF FramesTold, StartTold, Sent
  <2>3. QED BY <1>1, <1>2, <2>2
<1>4. cmd.op = "previewReady" /\ cmd.todo # <<>> /\ cmd.generation = generation
  BY <1>0, <1>1, <1>2, <1>3 DEF AckUnderWay, Answering
<1>5. CASE MainStep /\ cmd' # cmd
  <2>1. Acknowledge
    BY <1>0, <1>4, <1>5, MainAcknowledges
  <2>2. generation \in acked'
    BY <1>4, <2>1 DEF Acknowledge, AcknowledgePreview
  <2>3. QED BY <1>2, <2>2
<1>6. CASE cmd' = cmd
  BY <1>4, <1>6
<1>7. QED BY <1>5, <1>6, CommandStays DEF OwnStep

(* The helper by itself.                                                     *)
LEMMA HelperStepInv ==
  ASSUME PanelInv, HelperStep
  PROVE  PanelInv' /\ OwnStep /\ Driven
<1>1. OwnStep /\ RuntimeNext /\ UNCHANGED <<view, read, pipe>>
  BY DEF HelperStep, OwnStep, RuntimeNext, panelVars
<1>2. RuntimeInv /\ Acknowledging /\ AnswersPast
  BY DEF PanelInv
<1>3. RuntimeInv' /\ Driven /\ AnswersPast'
  BY <1>1, <1>2, RuntimeNextInv, RuntimeDrives, AnswersStayPast
<1>4. Acknowledging'
  BY <1>1, <1>2, <1>3, AcknowledgingStays
<1>5. AckUnderWay'
  BY <1>1, <1>3, HelperAcks
<1>6. QED BY <1>1, <1>3, <1>4, <1>5, HelperMoves

(* Reading a command: what it names was told, and a command that does not
   name the present generation is answered and no more.                      *)
LEMMA TakeCommandInv ==
  ASSUME PanelInv, TakeCommand
  PROVE  PanelInv' /\ CalledStep /\ Driven
<1> DEFINE c == Head(pipe)
<1>0. /\ RuntimeInv /\ PanelTypeOK /\ NamesTold /\ StartsTold /\ TypeOK /\ generation \in Nat
      /\ pipe \in Seq([op: Ops, generation: Nat]) /\ Acknowledging
  BY DEF PanelInv, PanelTypeOK, RuntimeTypeOK, TypeOK
<1>1. /\ pipe # <<>> /\ pipe' = Tail(pipe) /\ UNCHANGED <<view, read>>
      /\ IF c.op \in SessionBound /\ c.generation # generation
         THEN AnswerStale(c.op) ELSE Accept(c.op)
  BY DEF TakeCommand
<1>2. c.op \in Ops /\ Known(c.generation)
      /\ (c.op = "previewReady" => StartTold(c.generation))
  <2>1. c \in [op: Ops, generation: Nat] /\ 1 \in DOMAIN pipe /\ c = pipe[1]
    BY <1>0, <1>1, QueueShrinks
  <2> HIDE DEF c
  <2>2. QED BY <1>0, <2>1 DEF NamesTold, StartsTold
<1> HIDE DEF c
<1>3. CASE c.op \in SessionBound /\ c.generation # generation
  <2>1. AnswerStale(c.op)
    BY <1>1, <1>3
  <2>2. RuntimeInv'
    BY <1>0, <1>2, <2>1, AnswerStaleInv
  <2>3. Driven
    <3> DEFINE type == IF c.op = "setScrcpyArgs" THEN "ScrcpyArgsStale" ELSE "StaleSession"
    <3>1. type \in EventTypes \ SessionEvents
      BY DEF EventTypes, SessionEvents
    <3>2. Emit(Event(type, generation)) /\ UNCHANGED quiet
      BY <2>1 DEF AnswerStale
    <3> HIDE DEF type
    <3>3. QED BY <1>0, <3>1, <3>2, Elsewhere
  <2>4. Acknowledging'
    BY <2>1, IdleTodo DEF AnswerStale, Acknowledging
  <2>5. AckUnderWay'
    <3>1. /\ acked' = acked /\ generation' = generation /\ cmd.todo = <<>>
          /\ "previewReady" \in SessionBound
      BY <2>1 DEF AnswerStale, quiet, cells, Reading, SessionBound
    <3>2. ~(c.op = "previewReady" /\ c.generation = generation)
      BY <1>3
    <3>3. QED BY <1>1, <3>1, <3>2, TakenAcks DEF c
  <2>6. AnswersPast'
    BY <1>0, <2>1 DEF AnswerStale, IdleCommand, AnswersPast, quiet, cells
  <2>7. QED BY <1>1, <1>3, <2>1, <2>2, <2>3, <2>4, <2>5, <2>6, HelperMoves DEF CalledStep
<1>4. CASE ~(c.op \in SessionBound /\ c.generation # generation)
  <2>1. Accept(c.op) /\ (c.op \in SessionBound => c.generation = generation)
    BY <1>1, <1>4
  <2>2. "previewReady" \in SessionBound
    BY DEF SessionBound
  <2>3. Receive(c.op)
    BY <1>2, <2>1, <2>2 DEF Receive, StartTold
  <2>4. RuntimeInv'
    BY <1>0, <1>2, <2>1, AcceptInv
  <2>5. UNCHANGED vars /\ Driven
    BY <2>1 DEF Accept, Driven
  <2>6. Acknowledging'
    <3>1. cmd'.op = c.op /\ cmd'.generation = generation /\ sent' = sent
      BY <2>1, <2>5 DEF Accept, IdleCommand, vars
    <3>2. QED BY <2>3, <3>1 DEF Acknowledging, Receive, Sent
  <2>7. AckUnderWay'
    <3>1. acked' = acked /\ generation' = generation /\ cmd.todo = <<>>
      BY <2>1, <2>5 DEF Accept, vars, cells, Reading
    <3>2. /\ cmd'.op = c.op /\ cmd'.todo = Program[c.op] /\ cmd'.generation = generation
      BY <2>1 DEF Accept, IdleCommand
    <3>3. c.op = "previewReady" => cmd'.todo # <<>>
      <4> SUFFICES ASSUME c.op = "previewReady" PROVE cmd'.todo # <<>>
        OBVIOUS
      <4>1. cmd'.todo = Program["previewReady"]
        BY <3>2, Zenon
      <4>2. Len(Program["previewReady"]) = 1
        BY Programs
      <4>3. QED BY <4>1, <4>2
    <3>4. QED BY <1>1, <3>1, <3>2, <3>3, TakenAcks DEF c
  <2>8. AnswersPast'
    BY <1>0, <2>1, <2>5 DEF Accept, IdleCommand, AnswersPast, vars, cells
  <2>9. QED BY <1>1, <1>2, <2>3, <2>4, <2>5, <2>6, <2>7, <2>8, HelperMoves DEF CalledStep
<1>5. QED BY <1>3, <1>4

-----------------------------------------------------------------------------
(* The panel and the helper together.                                        *)

(* The invariant holds when the panel opens and the helper starts.           *)
LEMMA PanelStart == PanelInit => PanelInv
<1> SUFFICES ASSUME PanelInit PROVE PanelInv
  OBVIOUS
<1>1. RuntimeInit /\ view = InitialView /\ read = 0 /\ pipe = <<>>
  BY DEF PanelInit
<1>2. RuntimeInv /\ RuntimeTypeOK
  BY <1>1, RuntimeStart DEF RuntimeInv
<1>3. /\ InitialView \in View /\ InitialView.generation = 0 /\ ~InitialView.started
      /\ ~InitialView.framed
  BY DEF InitialView, View, SessionStates, Stages
<1>4. sent = <<>>
  BY <1>1 DEF RuntimeInit, Init
<1>5. PanelTypeOK
  BY <1>1, <1>2, <1>3, <1>4 DEF PanelTypeOK
<1>6. NamesTold /\ StartsTold
  BY <1>1, <1>3 DEF NamesTold, StartsTold, Known
<1>7. Acknowledging
  BY <1>1, IdleTodo DEF RuntimeInit, Acknowledging
<1>8. FramesTold /\ StartsReached /\ AckUnderWay /\ AnswersPast
  BY <1>1, <1>3, <1>4
     DEF FramesTold, StartsReached, AckUnderWay, AnswersPast, RuntimeInit, Init, IdleCommand
<1>9. QED BY <1>2, <1>5, <1>6, <1>7, <1>8 DEF PanelInv

(* Every step keeps it, and is to the helper one of its own or one of a
   caller as it asks for.                                                    *)
LEMMA PanelNextInv ==
  ASSUME PanelInv, [PanelNext]_sessionVars
  PROVE  PanelInv' /\ [CalledStep]_runtimeVars /\ Driven
<1>1. CASE TakeCommand
  BY <1>1, TakeCommandInv
<1>2. CASE HelperStep
  BY <1>2, HelperStepInv DEF CalledStep
<1>3. CASE ReceiveLine \/ UserStep \/ FrameStep
  BY <1>3, PanelStepInv, PanelFrame DEF PanelInv, Driven, runtimeVars
<1>4. CASE UNCHANGED sessionVars
  <2>1. UNCHANGED runtimeVars /\ view' = view /\ read' = read /\ pipe' = pipe
    BY <1>4 DEF sessionVars, panelVars
  <2>2. RuntimeInv' /\ sent' = sent /\ cmd' = cmd /\ UNCHANGED vars
    BY <2>1, RuntimeStutters DEF PanelInv, runtimeVars, vars
  <2>3. Acknowledging' /\ Driven
    BY <2>2 DEF PanelInv, Acknowledging, Sent, Driven
  <2>4. AckUnderWay' /\ AnswersPast'
    BY <2>1, <2>2 DEF PanelInv, AckUnderWay, Queued, Answering, AnswersPast, vars, cells
  <2>5. QED BY <2>1, <2>2, <2>3, <2>4, HelperMoves
<1>5. QED BY <1>1, <1>2, <1>3, <1>4 DEF PanelNext

(* The panel's picture, what is in the pipe and the helper together.         *)
THEOREM PanelInvariant == PanelSpec => []PanelInv
<1>1. PanelInv /\ [PanelNext]_sessionVars => PanelInv'
  BY PanelNextInv
<1>2. QED BY <1>1, PanelStart, PTL DEF PanelSpec

(* Every property of the panel keeps to its type, whatever is read in
   whichever order (PairingState.qml:15-140).                                *)
THEOREM PanelTypes == PanelSpec => []PanelTypeOK
<1>1. PanelInv => PanelTypeOK
  BY DEF PanelInv
<1>2. QED BY <1>1, PanelInvariant, PTL

(* The panel is a caller as HelperRuntime takes it to be: every step of the
   two together is, to the helper, a step of its own, a command that names a
   told generation and acknowledges a told start, or the answer to a command
   that came too late (protocol.rs:405-470, PairingState.qml:252-266).       *)
THEOREM PanelIsCaller == PanelSpec => RuntimeInit /\ [][CalledStep]_runtimeVars
<1>1. PanelInit => RuntimeInit
  BY DEF PanelInit
<1>2. PanelInv /\ [PanelNext]_sessionVars => [CalledStep]_runtimeVars
  BY PanelNextInv
<1>3. QED BY <1>1, <1>2, PanelInvariant, PTL DEF PanelSpec

(* What the helper promises it keeps with the panel as its caller: no
   session is announced twice, none is told as started after the answer to
   its end, none survives its stop, and one scrcpy runs at a time.           *)
THEOREM HelperKeepsPromises ==
  PanelSpec => [](GenerationStartsOnce /\ NoStartAfterEnd /\ StopIsFinal /\ OneScrcpy)
<1>1. ASSUME RuntimeInv
      PROVE  GenerationStartsOnce /\ NoStartAfterEnd /\ StopIsFinal /\ OneScrcpy
  BY <1>1, StopsForGood, SafeSessions DEF RuntimeInv, LogInv, AnnounceInv
<1>2. PanelInv => GenerationStartsOnce /\ NoStartAfterEnd /\ StopIsFinal /\ OneScrcpy
  BY <1>1 DEF PanelInv
<1>3. QED BY <1>2, PanelInvariant, PTL

(* A panel that has the helper's generation, with nothing on its way, shows
   frames only of a session it acknowledged: the acknowledgement is not lost
   in the pipe, nor behind other commands, nor refused as stale while its
   session stands (PairingState.qml:252-266, runtime.rs:166-176).            *)
THEOREM FramesAcknowledged ==
  PanelSpec => [](view.generation = generation => PreviewAcknowledged)
<1>1. ASSUME PanelInv, view.generation = generation, Settled, view.framed
      PROVE  view.generation \in acked
  <2>1. pipe = <<>> /\ cmd.todo = <<>> /\ DOMAIN pipe = {}
    BY <1>1 DEF Settled
  <2>2. QED BY <1>1, <2>1 DEF PanelInv, AckUnderWay, Queued, Answering
<1>2. PanelInv => (view.generation = generation => PreviewAcknowledged)
  BY <1>1 DEF PreviewAcknowledged
<1>3. QED BY <1>2, PanelInvariant, PTL

(* So a session whose frames the panel shows is not retried, whatever else   *)
(* the panel sends: the helper keeps AcknowledgedNeverRetried under the      *)
(* panel too.                                                                *)
THEOREM PanelHonoursPreview == PanelSpec => AcknowledgedNeverRetried
<1> DEFINE Step == \A w \in Sessions :
             ~worker[w].retried /\ worker'[w].retried => worker[w].current \notin acked
<1>1. PanelInv /\ [PanelNext]_sessionVars => [DrivenStep]_vars
  BY PanelNextInv DEF Driven
<1>2. PanelInv /\ [DrivenStep]_vars => [Step]_vars
  BY DrivenRetries DEF Step, PanelInv, RuntimeInv
<1>3. QED BY <1>1, <1>2, PanelInvariant, PTL DEF PanelSpec, AcknowledgedNeverRetried, Step

-----------------------------------------------------------------------------
(* What the panel says of the trusted device.                               *)
(* A command that has at most k steps left had no more before, or has just
   taken the step that stands there.                                         *)
LEMMA LeftSince ==
  ASSUME cmd \in CommandState, TodoFits, NEW step, At(step), Proceeds,
         NEW op \in Ops \ {"input", "phoneTarget"}, NEW k \in Nat, Left(op, k)'
  PROVE  Left(op, k) \/ (cmd.op = op /\ Place(op, k + 1, step))
<1>1. /\ Len(cmd.todo) \in Nat
      /\ \/ ~Failing /\ Place(cmd.op, Len(cmd.todo), step)
         \/ Failing
  BY TodoNow
<1>2. cmd'.op = cmd.op /\ Len(cmd'.todo) = Len(cmd.todo) - 1
  BY TodoGoesOn
<1>3. cmd.op = op /\ Len(cmd.todo) - 1 <= k
  BY <1>2, Zenon DEF Left
<1>4. \A n \in Nat : n - 1 <= k => n <= k \/ n = k + 1
  OBVIOUS
<1>5. Len(cmd.todo) <= k \/ Len(cmd.todo) = k + 1
  BY ONLY <1>1, <1>3, <1>4, Zenon
<1>6. ~Failing
  BY <1>3 DEF Failing
<1>7. QED BY <1>1, <1>3, <1>5, <1>6 DEF Left

(* The main thread leaves its command as it is, drops it, turns to a failed
   input or goes on with it.                                                 *)
Follow(step) ==
  /\ At(step) /\ Proceeds
  /\ step = "needTrusted" => trusted
  /\ step = "invalidate" => MainInvalidate
  /\ step = "restart" => MainRestart
  /\ cmd'.target = cmd.target \/ (step = "readTarget" /\ cmd'.target \in {target, NoTarget})
  /\ ~cmd'.read

(* It is at the same step of the same command; the generation of its reply
   may have been read.                                                       *)
CommandKept ==
  /\ cmd'.op = cmd.op /\ cmd'.todo = cmd.todo /\ cmd'.target = cmd.target
  /\ cmd' = cmd \/ (cmd'.generation = generation /\ generation' = generation)

(* Reading the generation does nothing else.                                 *)
LEMMA ReadingKeeps ==
  ASSUME cmd \in CommandState, ReadGeneration
  PROVE  CommandKept /\ UNCHANGED <<vars, pairingVars, launcher, received>>
BY DEF ReadGeneration, CommandKept, CommandState, vars, cells

(* What the main thread does to a command that is under way.                *)
LEMMA MainFollows ==
  ASSUME RuntimeTypeOK, TodoFits, MainStep
  PROVE  \/ CommandKept \/ cmd' = IdleCommand
         \/ cmd.op \in {"input", "phoneTarget"} /\ cmd' = [cmd EXCEPT !.todo = FailedInput, !.read = FALSE]
         \/ \E step : Follow(step)
<1>0. cmd \in CommandState /\ target \in Targets \cup {NoTarget}
  BY DEF RuntimeTypeOK, TypeOK
<1>1. ASSUME NEW step, At(step), Continue,
             step = "needTrusted" => trusted, step = "invalidate" => MainInvalidate,
             step = "restart" => MainRestart
      PROVE  Follow(step)
  <2>1. Proceeds
    BY <1>0, <1>1, ContinueProceeds
  <2>2. cmd'.target = cmd.target /\ ~cmd'.read
    BY <1>0, <1>1 DEF Continue, CommandState
  <2>3. QED BY <1>1, <2>1, <2>2 DEF Follow
<1>2. CASE ReadTarget
  <2>1. PICK t \in {target, NoTarget} : cmd' = [cmd EXCEPT !.todo = Tail(@), !.read = FALSE, !.target = t]
    BY <1>2 DEF ReadTarget
  <2>2. At("readTarget") /\ Tail(cmd.todo) \in Seq(MicroSteps)
    BY <1>0, <1>2, HeadTailProperties DEF ReadTarget, At, CommandState
  <2>3. Proceeds /\ cmd'.target = t /\ ~cmd'.read
    BY <1>0, <2>1, <2>2 DEF Proceeds, CommandState
  <2>4. QED BY <2>2, <2>3 DEF Follow
<1>3. CASE RefuseIfLive \/ NeedTrusted
  <2>1. CASE Abandon
    BY <2>1 DEF Abandon
  <2>2. CASE RefuseIfLive /\ Continue
    BY <1>1, <2>2 DEF RefuseIfLive
  <2>3. CASE NeedTrusted /\ Continue /\ trusted
    BY <1>1, <2>3, Zenon DEF NeedTrusted
  <2>4. QED BY <1>3, <2>1, <2>2, <2>3 DEF RefuseIfLive, NeedTrusted
<1>4. CASE NeedTarget \/ RunInput
  <2>1. CASE Abandon \/ Continue
    BY <1>1, <1>4, <2>1 DEF NeedTarget, RunInput, Abandon
  <2>2. CASE cmd' = [cmd EXCEPT !.todo = FailedInput, !.read = FALSE]
    <3>1. cmd.op \in {"input", "phoneTarget"}
      BY <1>0, <1>4, TodoNow DEF NeedTarget, RunInput, Place
    <3>2. QED BY <2>2, <3>1
  <2>3. QED BY <1>4, <2>1, <2>2 DEF NeedTarget, RunInput
<1>5. CASE InSessionControl \/ ReadGeneration
  BY <1>0, <1>5 DEF InSessionControl, ReadGeneration, CommandKept, CommandState, vars, cells
<1>6. CASE \E w \in Sessions : Launch(w)
  BY <1>1, <1>6 DEF Launch
<1>7. CASE MainStop \/ MainInvalidate \/ MainRestart \/ Acknowledge \/ CancelToken \/ Retire
  BY <1>1, <1>7 DEF MainStop, MainInvalidate, MainRestart, Acknowledge, CancelToken, Retire
<1>8. CASE Supersede \/ StartQr \/ CancelQr \/ CrossFlow \/ LockFlow \/ UnlockFlow
  BY <1>1, <1>8 DEF Supersede, StartQr, CancelQr, CrossFlow, LockFlow, UnlockFlow, Abandon
<1>9. CASE Forget \/ UseStore \/ Reply \/ ReplyFailed
  BY <1>1, <1>9 DEF Forget, UseStore, Reply, ReplyFailed, Abandon
<1>10. QED
  BY <1>2, <1>3, <1>4, <1>5, <1>6, <1>7, <1>8, <1>9 DEF MainStep

(* While no device is trusted nothing connects: a worker that comes to a
   device remembers it first.                                                *)
Stranger(w) ==
  /\ worker[w].step \in {"idle"} \cup ArmedSteps
  /\ launcher[w].kind # "reconnect"
  /\ launcher[w].step \notin {"advance", "start"}
  /\ launcher[w].step = "report" => launcher[w].outcome # "Linked"
ConnectionWords == {"Paired", "Connecting", "Connected", "SessionStarting", "SessionStarted"}
Nothing ==
  /\ \A i \in DOMAIN sent : sent[i].type \notin ConnectionWords
  /\ \A w \in Sessions : Stranger(w)
  /\ target = NoTarget /\ cmd.target = NoTarget
  /\ caller.target = NoTarget /\ caller.step # "restart"
  /\ ~Left("reconnect", 5)

(* What a step of one worker leaves alone.                                   *)
Apart(w) ==
  /\ target' = target /\ caller' = caller /\ cmd' = cmd
  /\ \A v \in Sessions \ {w} : worker'[v] = worker[v] /\ launcher'[v] = launcher[v]

(* A worker that goes on stays a stranger ...                                *)
LEMMA StrangerGoesOn ==
  ASSUME RuntimeTypeOK, NEW w \in Sessions, Stranger(w),
         NEW s \in LauncherSteps, s \notin {"advance", "start"}, LGoto(w, s),
         s = "report" => launcher[w].outcome # "Linked",
         worker' = worker /\ target' = target /\ caller' = caller /\ cmd' = cmd
  PROVE  Stranger(w)' /\ Apart(w)
<1>1. LauncherGoes(w, s) /\ LauncherKeeps(w)
  BY GoesOn
<1>2. QED BY <1>1 DEF LauncherGoes, LauncherKeeps, Stranger, Apart

(* ... and so does one that comes to its end ...                             *)
LEMMA StrangerGone ==
  ASSUME RuntimeTypeOK, NEW w \in Sessions, LFinish(w),
         \A v \in Sessions \ {w} : worker'[v] = worker[v],
         worker'[w].step \in {"idle"} \cup ArmedSteps,
         target' = target, caller' = caller, cmd' = cmd
  PROVE  Stranger(w)' /\ Apart(w)
<1>1. launcher \in [Sessions -> LauncherState]
  BY DEF RuntimeTypeOK
<1>2. /\ launcher'[w].kind = "none" /\ launcher'[w].step = "idle"
      /\ \A v \in Sessions \ {w} : launcher'[v] = launcher[v]
  BY <1>1 DEF LFinish, IdleLauncher
<1>3. QED BY <1>2 DEF Stranger, Apart

(* ... or drops its closure.                                                 *)
LEMMA StrangerDrops ==
  ASSUME RuntimeTypeOK, NEW w \in Sessions, LFinish(w), Finish(w),
         target' = target, caller' = caller, cmd' = cmd
  PROVE  Stranger(w)' /\ Apart(w)
<1>1. worker \in [Sessions -> WorkerState]
  BY DEF RuntimeTypeOK, TypeOK
<1>2. worker'[w].step = "idle" /\ \A v \in Sessions \ {w} : worker'[v] = worker[v]
  BY <1>1 DEF Finish, IdleWorker
<1>3. QED BY <1>2, StrangerGone

(* A worker stays a stranger.                                                *)
LEMMA StrangersStay ==
  ASSUME RuntimeTypeOK, NEW w \in Sessions, LauncherStep(w) \/ PhoneStep(w) \/ LifetimeExpires(w),
         ~trusted', Stranger(w)
  PROVE  Stranger(w)' /\ Apart(w) /\ ~ReportLinked(w)
<1> DEFINE Frame == worker' = worker /\ target' = target /\ caller' = caller /\ cmd' = cmd
<1>0. /\ launcher \in [Sessions -> LauncherState] /\ launcher[w] \in LauncherState
      /\ {"talk", "progress", "pairing", "disconnecting", "dropQr", "save", "report", "remember",
          "disconnect"} \subseteq LauncherSteps
  BY LauncherValues DEF RuntimeTypeOK
<1>3. CASE EnterFlow(w) \/ ReportProgress(w) \/ StartDisconnect(w) \/ TellProgress(w)
  <2>1. Frame
    BY <1>3 DEF EnterFlow, ReportProgress, StartDisconnect, TellProgress, vars, quiet, cells
  <2>2. \E s \in {"talk", "progress", "pairing", "disconnecting"} : LGoto(w, s)
    BY <1>3 DEF EnterFlow, ReportProgress, StartDisconnect, TellProgress
  <2>3. PICK s \in {"talk", "progress", "pairing", "disconnecting"} : LGoto(w, s)
    BY <2>2
  <2>4. s \in LauncherSteps /\ s \notin {"advance", "start", "report"}
    BY <1>0
  <2>5. Stranger(w)' /\ Apart(w)
    BY <2>1, <2>3, <2>4, StrangerGoesOn
  <2>6. ~ReportLinked(w)
    BY DEF ReportLinked, Stranger
  <2>7. QED BY <2>5, <2>6
<1>4. CASE ClaimPairing(w) \/ DropQr(w)
  <2>1. Frame
    BY <1>4 DEF ClaimPairing, DropQr, vars, cells
  <2>2. \E s \in {"dropQr", "save", "report"} :
          LGoto(w, s) /\ (s = "report" => launcher[w].outcome # "Linked")
    BY <1>4 DEF ClaimPairing, DropQr, Stranger
  <2>3. PICK s \in {"dropQr", "save", "report"} :
          LGoto(w, s) /\ (s = "report" => launcher[w].outcome # "Linked")
    BY <2>2
  <2>4. s \in LauncherSteps /\ s \notin {"advance", "start"}
    BY <1>0
  <2>5. QED BY <2>1, <2>3, <2>4, StrangerGoesOn DEF ReportLinked, Stranger
<1>5. CASE FlowCancelled(w) \/ FlowFails(w) \/ FlowTimesOut(w) \/ \E t \in Targets : FlowLinks(w, t)
  <2>1. Frame /\ \E o, t : launcher' = [launcher EXCEPT ![w].step = "claim", ![w].outcome = o,
                                                   ![w].target = t]
    BY <1>5 DEF FlowCancelled, FlowFails, FlowTimesOut, FlowLinks, LeaveFlow, vars, cells
  <2>2. PICK o, t : launcher' = [launcher EXCEPT ![w].step = "claim", ![w].outcome = o,
                                                   ![w].target = t]
    BY <2>1
  <2>3. launcher'[w].step = "claim" /\ launcher'[w].kind = launcher[w].kind
        /\ \A v \in Sessions \ {w} : launcher'[v] = launcher[v]
    BY <1>0, <2>2 DEF LauncherState
  <2>4. Stranger(w)'
    BY <2>1, <2>3 DEF Stranger
  <2>5. Apart(w)
    BY <2>1, <2>3 DEF Apart
  <2>6. QED BY <2>4, <2>5 DEF Stranger, ReportLinked
<1>6. CASE LosePairing(w) \/ Disconnected(w) \/ ReportPairingOver(w)
  <2>1. CASE LGoto(w, "disconnect") /\ UNCHANGED vars /\ cmd' = cmd
    <3>1. Frame
      BY <2>1 DEF vars, cells
    <3>2. QED BY <1>0, <2>1, <3>1, StrangerGoesOn DEF ReportLinked, Stranger
  <2>2. CASE LFinish(w) /\ Finish(w) /\ target' = target /\ caller' = caller /\ cmd' = cmd
    BY <2>2, StrangerDrops DEF ReportLinked, Stranger
  <2>3. QED BY <1>6, <2>1, <2>2 DEF LosePairing, Disconnected, ReportPairingOver, Discard, cells
<1>7. CASE SaveDevice(w)
  <2>1. Frame
    BY <1>7 DEF SaveDevice, vars, cells
  <2>2. CASE LGoto(w, "remember")
    BY <1>0, <2>1, <2>2, StrangerGoesOn DEF ReportLinked, Stranger
  <2>3. CASE launcher' = [launcher EXCEPT ![w].step = "report", ![w].outcome = "Failure"]
    <3>1. /\ launcher'[w].step = "report" /\ launcher'[w].kind = launcher[w].kind
          /\ launcher'[w].outcome = "Failure"
          /\ \A v \in Sessions \ {w} : launcher'[v] = launcher[v]
      BY <1>0, <2>3 DEF LauncherState
    <3>2. Stranger(w)' /\ Apart(w)
      BY <2>1, <3>1 DEF Stranger, Apart
    <3>3. QED BY <3>2 DEF ReportLinked, Stranger
  <2>4. QED BY <1>7, <2>2, <2>3 DEF SaveDevice
<1>8. CASE TellFailure(w)
  <2>1. LFinish(w) /\ Frame
    BY <1>8 DEF TellFailure, quiet, cells
  <2>2. worker'[w].step \in {"idle"} \cup ArmedSteps
    BY <2>1 DEF Stranger
  <2>3. QED BY <2>1, <2>2, StrangerGone DEF ReportLinked, Stranger
<1>9. CASE LifetimeExpires(w)
  <2>1. launcher' = launcher /\ Frame
    BY <1>9 DEF LifetimeExpires, vars, cells
  <2>2. QED BY <2>1 DEF Stranger, Apart, ReportLinked
<1>10. ~(RememberDevice(w) \/ AdvanceGeneration(w) \/ ReportLinked(w) \/ StartSession(w)
         \/ FailReconnect(w) \/ DropReconnect(w))
  BY DEF RememberDevice, AdvanceGeneration, ReportLinked, StartSession, FailReconnect, DropReconnect,
         Stranger
<1>11. QED BY <1>3, <1>4, <1>5, <1>6, <1>7, <1>8, <1>9, <1>10 DEF LauncherStep, PhoneStep

(* The first step of a reconnect looks at the device.                        *)
LEMMA ReconnectLooks ==
  ASSUME cmd \in CommandState, TodoFits, NEW step, At(step), cmd.op = "reconnect",
         Len(cmd.todo) = 6
  PROVE  step = "needTrusted"
<1>1. cmd.todo \in Seq(MicroSteps) /\ Program["reconnect"] \in Seq(MicroSteps)
  BY ProgramsTyped, Programs DEF CommandState
<1>2. Remains(cmd.todo, Program["reconnect"]) /\ cmd.todo # <<>>
  BY DEF TodoFits, Failing, At
<1>3. Len(Program["reconnect"]) = 6 /\ Program["reconnect"][1] = "needTrusted"
  BY Programs
<1>4. Head(cmd.todo) = Program["reconnect"][6 - 6 + 1]
  BY <1>1, <1>2, <1>3, RemainsTail
<1>5. QED BY <1>3, <1>4 DEF At

(* A device is forgotten by Start Over alone.                                *)
LEMMA MainTrusts ==
  ASSUME RuntimeInv, cmd.op # "startOver", MainStep
  PROVE  trusted' = trusted
<1>1. cmd \in CommandState /\ TodoFits
  BY DEF RuntimeInv, RuntimeTypeOK, MainInv
<1>2. ~Forget
  <2>1. SUFFICES ASSUME At("forget") PROVE FALSE
    BY DEF Forget
  <2>2. QED BY <1>1, <2>1, TodoNow DEF Place
<1>3. QED
  BY <1>2
     DEF MainStep, RefuseIfLive, NeedTrusted, ReadTarget, NeedTarget, MainStop, MainInvalidate,
         MainRestart, Acknowledge, CancelToken, Retire, Supersede, StartQr, CancelQr, CrossFlow,
         LockFlow, UnlockFlow, UseStore, RunInput, ReadGeneration, Reply, ReplyFailed, InSessionControl, Launch,
         pairingVars

(* A worker forgets no device.                                               *)
LEMMA WorkersTrust ==
  ASSUME RuntimeTypeOK, NEW w \in Sessions,
         LauncherStep(w) \/ PhoneStep(w) \/ LifetimeExpires(w) \/ SessionWorkerStep(w)
           \/ SessionChildStep(w)
  PROVE  trusted' = trusted \/ (RememberDevice(w) /\ trusted')
BY DEF LauncherStep, PhoneStep, LifetimeExpires, EnterFlow, TellProgress, FlowCancelled,
       ClaimPairing, LosePairing, StartDisconnect, Disconnected, DropQr, SaveDevice,
       RememberDevice, AdvanceGeneration, ReportLinked, StartSession, ReportPairingOver,
       FailReconnect, TellFailure, DropReconnect, ReportProgress, FlowFails, FlowTimesOut,
       FlowLinks, LeaveFlow, SessionWorkerStep, SessionChildStep, pairingVars

(* The log grows by a word that is not of a connection.                      *)
Unconnected == \A i \in DOMAIN sent : sent[i].type \notin ConnectionWords

(* A log to which no word of a connection is added has none.                *)
LEMMA UnconnectedGrows ==
  ASSUME TypeOK, Unconnected,
         \/ sent' = sent
         \/ \E type \in EventTypes \ ConnectionWords, g \in Nat : Emit(Event(type, g))
  PROVE  Unconnected'
<1>1. sent \in Seq(EventSet)
  BY DEF TypeOK
<1>2. CASE sent' = sent
  BY <1>2 DEF Unconnected
<1>3. ASSUME NEW type \in EventTypes \ ConnectionWords, NEW g \in Nat, Emit(Event(type, g))
      PROVE  Unconnected'
  <2>1. Event(type, g) \in EventSet /\ Event(type, g).type = type
    BY <1>3 DEF Event, EventSet
  <2>2. sent' = Append(sent, Event(type, g))
    BY <1>3 DEF Emit
  <2> HIDE DEF Event
  <2>3. \A i \in DOMAIN sent' :
          sent'[i] = Event(type, g) \/ (i \in DOMAIN sent /\ sent'[i] = sent[i])
    BY <1>1, <2>1, <2>2, QueueGrows
  <2>4. QED BY <2>1, <2>3 DEF Unconnected
<1>4. QED BY <1>2, <1>3

(* What the main thread writes.                                              *)
LEMMA MainTells ==
  ASSUME RuntimeInv, MainStep
  PROVE  \/ sent' = sent
         \/ Reply
         \/ \E type \in {"Refused", "Failure", "InputFailed"}, g \in Nat : Emit(Event(type, g))
<1>1. cmd.generation \in Nat /\ 0 \in Nat
  BY DEF RuntimeInv, RuntimeTypeOK, CommandState
<1>2. QED
  BY <1>1
     DEF MainStep, RefuseIfLive, NeedTrusted, ReadTarget, NeedTarget, MainStop, MainInvalidate,
         MainRestart, Acknowledge, CancelToken, Retire, Supersede, StartQr, CancelQr, CrossFlow,
         LockFlow, UnlockFlow, Forget, UseStore, RunInput, ReadGeneration, ReplyFailed, InSessionControl, Launch,
         StopSession, Invalidate, AcknowledgePreview, Capture, CallerStep, CrossBarrier,
         ResetTarget, RenewToken, Restart, vars

(* What a command is answered.                                               *)
LEMMA ReplyTells ==
  ASSUME RuntimeInv, Reply
  PROVE  /\ cmd.op \in DOMAIN ReplyType
         /\ LET type == IF cmd.op \in DOMAIN RestartType /\ cmd.target # NoTarget
                        THEN RestartType[cmd.op] ELSE ReplyType[cmd.op]
                g == IF cmd.op \in Telling THEN cmd.generation ELSE 0
            IN  type \in EventTypes /\ g \in Nat /\ Emit(Event(type, g))
<1>1. cmd \in CommandState /\ TodoFits /\ cmd.generation \in Nat /\ At("reply")
  BY DEF RuntimeInv, RuntimeTypeOK, CommandState, MainInv, Reply
<1>2. cmd.op \in {"startQrPairing", "submitManualCode", "reconnect", "cancelPairing",
                  "useManualCode", "stopSession", "startOver", "setPreferences", "setScrcpyArgs"}
  BY <1>1, TodoNow DEF Place
<1>3. DOMAIN RestartType = {"setPreferences", "setScrcpyArgs"}
      /\ DOMAIN ReplyType = {"startQrPairing", "submitManualCode", "cancelPairing",
           "useManualCode", "reconnect", "stopSession", "startOver", "setPreferences",
           "setScrcpyArgs"}
  BY DEF RestartType, ReplyType
<1>4. /\ ReplyType[cmd.op] \in EventTypes
      /\ cmd.op \in DOMAIN RestartType => RestartType[cmd.op] \in EventTypes
  BY <1>2, <1>3, Replies, KnownTypes
<1>5. QED BY <1>1, <1>2, <1>3, <1>4 DEF Reply

(* The main thread connects nothing without a device: the reconnect asks for
   one before it does anything, and only a session leaves a target.          *)
LEMMA MainStrange ==
  ASSUME RuntimeInv, cmd.op # "startOver", MainStep, ~trusted, Nothing
  PROVE  Nothing'
<1>0. /\ RuntimeTypeOK /\ TypeOK /\ TodoFits /\ cmd \in CommandState /\ caller \in CallerState
      /\ worker \in [Sessions -> WorkerState] /\ launcher \in [Sessions -> LauncherState]
  BY DEF RuntimeInv, RuntimeTypeOK, TypeOK, MainInv
<1>1. /\ Unconnected /\ (\A w \in Sessions : Stranger(w)) /\ target = NoTarget
      /\ cmd.target = NoTarget /\ caller.target = NoTarget /\ caller.step # "restart"
      /\ ~Left("reconnect", 5)
  BY DEF Nothing, Unconnected
<1>2. ASSUME NEW w \in Sessions PROVE ~Restart(w)
  BY <1>1 DEF Restart
<1>3. Unconnected'
  <2>1. CASE Reply
    <3>1. cmd.op # "reconnect"
      <4>1. SUFFICES ASSUME cmd.op = "reconnect" PROVE FALSE
        OBVIOUS
      <4>2. At("reply")
        BY <2>1 DEF Reply
      <4>3. Len(cmd.todo) = 2
        BY <1>0, <4>1, <4>2, TodoNow DEF Place, Failing
      <4>4. QED BY <1>1, <4>1, <4>3 DEF Left
    <3> DEFINE type == IF cmd.op \in DOMAIN RestartType /\ cmd.target # NoTarget
                       THEN RestartType[cmd.op] ELSE ReplyType[cmd.op]
               g == IF cmd.op \in Telling THEN cmd.generation ELSE 0
    <3>2. type \in EventTypes /\ g \in Nat /\ Emit(Event(type, g)) /\ cmd.op \in DOMAIN ReplyType
      BY <2>1, ReplyTells
    <3>3. type \notin ConnectionWords
      <4>1. cmd.op \in {"startQrPairing", "submitManualCode", "cancelPairing", "useManualCode",
                        "stopSession", "startOver", "setPreferences", "setScrcpyArgs"}
        BY <3>1, <3>2 DEF ReplyType
      <4>2. type = ReplyType[cmd.op]
        BY <1>1
      <4> HIDE DEF type
      <4>3. QED BY <4>1, <4>2, Replies DEF ConnectionWords
    <3> HIDE DEF type, g
    <3>4. QED BY <1>0, <1>1, <3>2, <3>3, UnconnectedGrows
  <2>2. {"Refused", "Failure", "InputFailed"} \subseteq EventTypes \ ConnectionWords
    BY KnownTypes DEF ConnectionWords
  <2>3. QED BY <1>0, <1>1, <2>1, <2>2, MainTells, UnconnectedGrows
<1>4. cmd'.target = NoTarget /\ ~Left("reconnect", 5)'
  <2>1. CASE CommandKept
    BY <1>1, <2>1 DEF CommandKept, Left
  <2>2. CASE cmd' = IdleCommand
    BY <2>2 DEF Left, IdleCommand
  <2>3. CASE cmd.op \in {"input", "phoneTarget"} /\ cmd' = [cmd EXCEPT !.todo = FailedInput, !.read = FALSE]
    <3>1. cmd'.target = cmd.target /\ cmd'.op = cmd.op
      BY <1>0, <2>3 DEF CommandState
    <3>2. QED BY <1>1, <2>3, <3>1 DEF Left
  <2>4. ASSUME NEW step, Follow(step) PROVE cmd'.target = NoTarget /\ ~Left("reconnect", 5)'
    <3>1. cmd'.target = NoTarget
      BY <1>1, <2>4 DEF Follow
    <3>2. SUFFICES ASSUME Left("reconnect", 5)' PROVE FALSE
      BY <3>1
    <3>3. At(step) /\ Proceeds /\ "reconnect" \in Ops \ {"input", "phoneTarget"} /\ 5 \in Nat
      BY <2>4, Programs DEF Follow
    <3>4. cmd.op = "reconnect"
      BY <1>0, <1>1, <3>2, <3>3, LeftSince
    <3>5. Len(cmd.todo) = 6
      <4>1. cmd'.op = cmd.op /\ Len(cmd'.todo) = Len(cmd.todo) - 1 /\ Len(cmd.todo) \in Nat
        BY <1>0, <3>3, TodoGoesOn, TodoNow
      <4>2. Len(cmd'.todo) <= 5 /\ ~(Len(cmd.todo) <= 5)
        BY <1>1, <3>2, <3>4, Zenon DEF Left
      <4>3. \A n \in Nat : n - 1 <= 5 /\ ~(n <= 5) => n = 6
        OBVIOUS
      <4>4. Len(cmd.todo) - 1 <= 5
        BY <4>1, <4>2, Zenon
      <4>5. QED BY ONLY <4>1, <4>2, <4>3, <4>4, Zenon
    <3>6. step = "needTrusted"
      BY <1>0, <3>3, <3>4, <3>5, ReconnectLooks
    <3>7. QED BY <2>4, <3>6 DEF Follow
  <2>5. QED BY <1>0, <2>1, <2>2, <2>3, <2>4, MainFollows
<1>5. target' = NoTarget /\ caller'.target = NoTarget /\ caller'.step # "restart"
  <2>1. CASE InSessionControl
    <3>1. CASE CrossBarrier \/ ResetTarget
      BY <1>0, <1>1, <3>1 DEF CrossBarrier, ResetTarget, CallerState, cells
    <3>2. CASE RenewToken
      BY <1>1, <3>2 DEF RenewToken, IdleCaller
    <3>3. QED BY <1>2, <2>1, <3>1, <3>2 DEF InSessionControl, CallerStep
  <2>2. CASE MainStop \/ MainInvalidate
    BY <1>1, <2>2 DEF MainStop, MainInvalidate, StopSession, Invalidate, IdleCaller
  <2>3. CASE MainRestart
    BY <1>1, <2>3 DEF MainRestart, vars, cells
  <2>4. CASE Acknowledge \/ \E w \in Sessions : Launch(w)
    BY <1>1, <2>4 DEF Acknowledge, AcknowledgePreview, Launch, Capture, vars, cells
  <2>5. CASE RefuseIfLive \/ NeedTrusted \/ ReadTarget \/ NeedTarget \/ CancelToken \/ Retire
             \/ Supersede \/ StartQr \/ CancelQr \/ CrossFlow
    BY <1>1, <2>5
       DEF RefuseIfLive, NeedTrusted, ReadTarget, NeedTarget, CancelToken, Retire, Supersede,
           StartQr, CancelQr, CrossFlow, vars, quiet, cells
  <2>6. CASE LockFlow \/ UnlockFlow \/ Forget \/ UseStore \/ RunInput
             \/ ReadGeneration \/ Reply \/ ReplyFailed
    BY <1>1, <2>6
       DEF LockFlow, UnlockFlow, Forget, UseStore, RunInput, ReadGeneration, Reply, ReplyFailed, vars, quiet, cells
  <2>7. QED BY <2>1, <2>2, <2>3, <2>4, <2>5, <2>6 DEF MainStep
<1>6. ASSUME NEW w \in Sessions PROVE Stranger(w)'
  <2>1. CASE worker' = worker /\ launcher' = launcher
    BY <1>1, <2>1 DEF Stranger
  <2>2. ASSUME NEW v \in Sessions, Launch(v) PROVE Stranger(w)'
    <3>1. Left("reconnect", 1) <=> cmd.op = "reconnect"
      <4>1. At("launch")
        BY <2>2 DEF Launch
      <4>2. Len(cmd.todo) = 1
        BY <1>0, <4>1, TodoNow DEF Place
      <4>3. QED BY <4>2 DEF Left
    <3>2. cmd.op # "reconnect"
      <4>1. Len(cmd.todo) \in Nat
        BY <1>0 DEF CommandState
      <4>2. QED BY <1>1, <3>1, <4>1 DEF Left
    <3>3. /\ worker'[v].step = "armed" /\ launcher'[v].kind # "reconnect"
          /\ launcher'[v].step = "flow"
          /\ \A u \in Sessions \ {v} : worker'[u] = worker[u] /\ launcher'[u] = launcher[u]
      BY <1>0, <2>2, <3>2 DEF Launch, Capture, IdleWorker, IdleLauncher
    <3>4. "armed" \in ArmedSteps
      BY StepSets
    <3>5. QED BY <1>1, <3>3, <3>4 DEF Stranger
  <2>3. (worker' = worker /\ launcher' = launcher) \/ \E v \in Sessions : Launch(v)
    BY <1>2
       DEF MainStep, RefuseIfLive, NeedTrusted, ReadTarget, NeedTarget, MainStop, MainInvalidate,
           MainRestart, Acknowledge, CancelToken, Retire, Supersede, StartQr, CancelQr, CrossFlow,
           LockFlow, UnlockFlow, Forget, UseStore, RunInput, ReadGeneration, Reply, ReplyFailed, InSessionControl,
           StopSession, Invalidate, AcknowledgePreview, CallerStep, CrossBarrier,
           ResetTarget, RenewToken, vars, quiet
  <2>4. QED BY <2>1, <2>2, <2>3
<1>7. QED BY <1>3, <1>4, <1>5, <1>6 DEF Nothing, Unconnected

(* Neither do the workers, while the device is not remembered.               *)
LEMMA WorkersStrange ==
  ASSUME RuntimeInv, NEW w \in Sessions,
         LauncherStep(w) \/ PhoneStep(w) \/ LifetimeExpires(w) \/ SessionWorkerStep(w)
           \/ SessionChildStep(w),
         ~trusted', Nothing
  PROVE  Nothing'
<1>0. RuntimeTypeOK /\ TypeOK /\ LauncherFits
  BY DEF RuntimeInv, RuntimeTypeOK, LauncherInv
<1>1. Unconnected /\ Stranger(w)
  BY DEF Nothing, Unconnected
<1>2. ~(SessionWorkerStep(w) \/ SessionChildStep(w))
  BY <1>1, StepSets
     DEF Stranger, SessionWorkerStep, SessionChildStep, WorkerStep, ScrcpyStep, SpawnStale,
         SpawnCurrent, LockRunner, SetTarget, RefuseStart, AdmitStart, Announce, RunScrcpy,
         RunStopped, ConfirmStarted, StartDeadline, ExitSuperseded, ClaimRetry, KeepResult,
         EndSilently, ClaimEnd, ClearTarget, ReportEnd, CaptureReady, RunUnavailable, ScrcpyExits
<1>3. LauncherStep(w) \/ PhoneStep(w) \/ LifetimeExpires(w)
  BY <1>2
<1>4. Stranger(w)' /\ Apart(w) /\ ~ReportLinked(w)
  BY <1>0, <1>1, <1>3, StrangersStay
<1>5. Unconnected'
  <2>1. sent' = sent \/ \E type \in {"Pairing", "Failure", "QrTimedOut", "PairingCancelled",
                                     "ReconnectFailed"}, g \in Nat : Emit(Event(type, g))
    <3>1. launcher[w].outcome \in Outcomes /\ launcher[w].told \in Nat
      BY <1>0 DEF RuntimeTypeOK, LauncherState
    <3>2. CASE TellProgress(w) \/ TellFailure(w)
      BY <3>1, <3>2 DEF TellProgress, TellFailure
    <3>3. CASE ReportPairingOver(w)
      <4>1. launcher[w].outcome \in {"Failure", "TimedOut", "Cancelled"}
        BY <1>0, <3>1, <3>3, LauncherValues DEF ReportPairingOver, LauncherFits, Fits
      <4>2. PairingOver[launcher[w].outcome] \in {"Failure", "QrTimedOut", "PairingCancelled"}
        BY <4>1 DEF PairingOver
      <4>3. QED BY <3>3, <4>2 DEF ReportPairingOver
    <3>4. QED
      BY <1>3, <1>4, <3>2, <3>3
         DEF LauncherStep, PhoneStep, LifetimeExpires, EnterFlow, FlowCancelled,
             ClaimPairing, LosePairing, StartDisconnect, Disconnected, DropQr, SaveDevice,
             RememberDevice, AdvanceGeneration, StartSession,
             FailReconnect, DropReconnect, ReportProgress, FlowFails, FlowTimesOut,
             FlowLinks, LeaveFlow, Advance, Spawn, Discard, AdvanceFailed, vars
  <2>2. {"Pairing", "Failure", "QrTimedOut", "PairingCancelled", "ReconnectFailed"}
          \subseteq EventTypes \ ConnectionWords
    BY KnownTypes DEF ConnectionWords
  <2>3. QED BY <1>0, <1>1, <2>1, <2>2, UnconnectedGrows
<1>6. \A v \in Sessions : Stranger(v)'
  BY <1>4 DEF Nothing, Stranger, Apart
<1>7. QED BY <1>4, <1>5, <1>6 DEF Nothing, Unconnected, Apart, Left

(* A session, a stop, an input and a reconnect have a generation behind them, and
   what ends one takes the next: no end is told of the first generation.     *)
EndWords ==
  {"SessionEnded", "LifecycleFailure", "SessionStopped", "InputFailed", "ReconnectFailed",
   "PreferencesRestarted"}
LateEnds == \A i \in DOMAIN sent : sent[i].type \in EndWords => sent[i].generation >= 2
SessionOps == {"stopSession", "input", "phoneTarget"}

(* What follows the first generation.                                       *)
First ==
  cmd.op \in SessionOps \/ Left("reconnect", 4) \/ target # NoTarget \/ cmd.target # NoTarget

(* What the second generation follows.                                      *)
Second ==
  Left("stopSession", 1) \/ (Failing /\ Len(cmd.todo) = 1)
    \/ (Left("setPreferences", 1) /\ cmd.target # NoTarget)
ReadCounts == Second /\ cmd.read => cmd.generation >= 2
WorkerCounts(w) ==
  /\ worker[w].step \notin {"idle", "armed"} => worker[w].current >= 1
  /\ worker[w].step \in {"untarget", "report"} => worker[w].current >= 2
  /\ worker[w].step = "armed" /\ launcher[w].kind = "reconnect" => worker[w].current >= 1
  /\ launcher[w].step = "tell" => launcher[w].told >= 2
CallerCounts == caller.target # NoTarget \/ caller.step = "restart" => caller.generation >= 1
Counted ==
  /\ First => generation >= 1
  /\ Second => generation >= 2
  /\ CallerCounts /\ LateEnds /\ ReadCounts
  /\ \A w \in Sessions : WorkerCounts(w)

(* One more event.                                                           *)
LEMMA LateEndsGrow ==
  ASSUME TypeOK, LateEnds,
         \/ sent' = sent
         \/ \E type \in EventTypes, g \in Nat : Emit(Event(type, g)) /\ (type \in EndWords => g >= 2)
  PROVE  LateEnds'
<1>1. sent \in Seq(EventSet)
  BY DEF TypeOK
<1>2. CASE sent' = sent
  BY <1>2 DEF LateEnds
<1>3. ASSUME NEW type \in EventTypes, NEW g \in Nat, Emit(Event(type, g)),
             type \in EndWords => g >= 2
      PROVE  LateEnds'
  <2>1. Event(type, g) \in EventSet /\ Event(type, g).type = type
        /\ Event(type, g).generation = g
    BY <1>3 DEF Event, EventSet
  <2>2. sent' = Append(sent, Event(type, g))
    BY <1>3 DEF Emit
  <2> HIDE DEF Event
  <2>3. \A i \in DOMAIN sent' :
          sent'[i] = Event(type, g) \/ (i \in DOMAIN sent /\ sent'[i] = sent[i])
    BY <1>1, <2>1, <2>2, QueueGrows
  <2>4. QED BY <1>3, <2>1, <2>3 DEF LateEnds
<1>4. QED BY <1>2, <1>3

(* The command under way.                                                    *)
LEMMA MainCounts ==
  ASSUME RuntimeInv, MainStep, GenerationGoesOn, First => generation >= 1,
         Second => generation >= 2, ReadCounts, target' \in {target, NoTarget}
  PROVE  (First => generation >= 1)' /\ (Second => generation >= 2)' /\ ReadCounts'
<1>0. /\ RuntimeTypeOK /\ TypeOK /\ TodoFits /\ cmd \in CommandState /\ generation \in Nat
      /\ generation' \in Nat /\ generation <= generation'
  BY Onward DEF RuntimeInv, RuntimeTypeOK, TypeOK, MainInv
<1>1. CASE CommandKept
  <2>1. First' => First
    BY <1>1 DEF CommandKept, First, Left
  <2>2. Second' <=> Second
    BY <1>1 DEF CommandKept, Second, Left, Failing, Remains
  <2>3. ReadCounts'
    BY <1>0, <1>1, <2>2 DEF CommandKept, ReadCounts
  <2>4. QED BY <1>0, <2>1, <2>2, <2>3
<1>2. CASE cmd' = IdleCommand
  <2>1. First' => First
    BY <1>2 DEF First, Left, IdleCommand, SessionOps
  <2>2. ~Second'
    BY <1>2 DEF Second, Left, Failing, IdleCommand
  <2>3. QED BY <1>0, <2>1, <2>2 DEF ReadCounts
<1>3. CASE cmd.op \in {"input", "phoneTarget"} /\ cmd' = [cmd EXCEPT !.todo = FailedInput, !.read = FALSE]
  <2>1. cmd'.op = cmd.op /\ cmd'.todo = FailedInput /\ Len(FailedInput) = 2
    BY <1>0, <1>3, Lengths DEF CommandState
  <2>2. First
    BY <1>3 DEF First, SessionOps
  <2>3. ~Second'
    BY <1>3, <2>1 DEF Second, Left
  <2>4. QED BY <1>0, <2>2, <2>3 DEF ReadCounts
<1>4. ASSUME NEW step, Follow(step)
      PROVE  (First => generation >= 1)' /\ (Second => generation >= 2)' /\ ReadCounts'
  <2>0. At(step) /\ Proceeds /\ cmd'.op = cmd.op
        /\ {"reconnect", "stopSession", "setPreferences"} \subseteq Ops \ {"input", "phoneTarget"}
    BY <1>4, Programs DEF Follow, Proceeds
  <2>1. step = "invalidate" => generation' = generation + 1
    BY <1>4 DEF Follow, MainInvalidate, Invalidate
  <2>2. First' => First \/ step = "invalidate"
    <3>1. Left("reconnect", 4)' => Left("reconnect", 4) \/ step = "invalidate"
      <4>1. SUFFICES ASSUME Left("reconnect", 4)' PROVE Left("reconnect", 4) \/ step = "invalidate"
        OBVIOUS
      <4>2. Left("reconnect", 4) \/ Place("reconnect", 5, step)
        BY <1>0, <2>0, <4>1, LeftSince
      <4>3. QED BY <4>2 DEF Place
    <3>2. cmd'.target # NoTarget => cmd.target # NoTarget \/ target # NoTarget
      BY <1>4 DEF Follow
    <3>3. QED BY <2>0, <3>1, <3>2 DEF First
  <2>3. ASSUME Second' PROVE generation' >= 2
    <3>1. CASE Left("stopSession", 1)'
      <4>1. Left("stopSession", 1) \/ (cmd.op = "stopSession" /\ Place("stopSession", 2, step))
        BY <1>0, <2>0, <3>1, LeftSince
      <4>2. CASE Left("stopSession", 1)
        BY <1>0, <4>2 DEF Second
      <4>3. CASE cmd.op = "stopSession" /\ Place("stopSession", 2, step)
        <5>1. step = "invalidate" /\ First
          BY <4>3 DEF Place, First, SessionOps
        <5>2. QED BY <1>0, <2>1, <5>1
      <4>4. QED BY <4>1, <4>2, <4>3
    <3>2. CASE Failing'
      <4>1. Failing /\ step = "invalidate"
        BY <1>0, <2>0, <3>2, TodoGoesOn
      <4>2. First
        BY <4>1 DEF Failing, First, SessionOps
      <4>3. QED BY <1>0, <2>1, <4>1, <4>2
    <3>3. CASE (Left("setPreferences", 1) /\ cmd.target # NoTarget)'
      <4>1. \/ Left("setPreferences", 1)
            \/ cmd.op = "setPreferences" /\ Place("setPreferences", 2, step)
        BY <1>0, <2>0, <3>3, LeftSince
      <4>2. CASE Left("setPreferences", 1)
        <5>1. Place("setPreferences", 1, step)
          BY <1>0, <2>0, <4>2, TodoNow, NonEmpty DEF Left, Failing, CommandState
        <5>2. cmd'.target = cmd.target
          BY <1>4, <5>1 DEF Follow, Place
        <5>3. QED BY <1>0, <3>3, <4>2, <5>2 DEF Second
      <4>3. CASE cmd.op = "setPreferences" /\ Place("setPreferences", 2, step)
        <5>1. step = "restart"
          BY <4>3 DEF Place
        <5>2. cmd.target # NoTarget /\ MainRestart
          BY <1>4, <3>3, <5>1 DEF Follow
        <5>3. First /\ generation' = generation + 1
          BY <5>2 DEF First, MainRestart, Invalidate
        <5>4. QED BY <1>0, <5>3
      <4>4. QED BY <4>1, <4>2, <4>3
    <3>4. QED BY <2>3, <3>1, <3>2, <3>3 DEF Second
  <2>4. ReadCounts'
    BY <1>4 DEF Follow, ReadCounts
  <2>5. QED BY <1>0, <2>1, <2>2, <2>3, <2>4
<1>5. QED BY <1>0, <1>1, <1>2, <1>3, <1>4, MainFollows

(* The main thread.                                                          *)
LEMMA MainStepCounts ==
  ASSUME RuntimeInv, MainStep, GenerationGoesOn, Counted
  PROVE  Counted'
<1>0. /\ RuntimeTypeOK /\ TypeOK /\ TodoFits /\ cmd \in CommandState /\ caller \in CallerState
      /\ worker \in [Sessions -> WorkerState] /\ launcher \in [Sessions -> LauncherState]
      /\ generation \in Nat /\ generation' \in Nat /\ generation <= generation'
      /\ caller.generation \in Nat
  BY Onward DEF RuntimeInv, RuntimeTypeOK, TypeOK, MainInv, CallerState
<1>1. /\ First => generation >= 1
      /\ Second => generation >= 2
      /\ CallerCounts /\ LateEnds /\ ReadCounts /\ \A w \in Sessions : WorkerCounts(w)
  BY DEF Counted
<1>2. target' \in {target, NoTarget} /\ CallerCounts'
  <2>1. CASE InSessionControl
    <3>1. CASE CrossBarrier \/ ResetTarget
      BY <1>0, <1>1, <3>1 DEF CrossBarrier, ResetTarget, CallerState, cells, CallerCounts
    <3>2. CASE RenewToken
      <4>1. target' = target /\ caller.step = "renew"
        BY <3>2 DEF RenewToken
      <4>2. CASE caller' = IdleCaller
        BY <4>1, <4>2 DEF IdleCaller, CallerCounts
      <4>3. CASE caller.target # NoTarget /\ caller' = [caller EXCEPT !.step = "restart"]
        <5>1. caller'.target = caller.target /\ caller'.generation = caller.generation
          BY <1>0, <4>3 DEF CallerState
        <5>2. QED BY <1>1, <4>1, <4>3, <5>1 DEF CallerCounts
      <4>4. QED BY <3>2, <4>2, <4>3 DEF RenewToken
    <3>3. ASSUME NEW w \in Sessions, Restart(w) PROVE target' = target /\ CallerCounts'
      BY <3>3 DEF Restart, IdleCaller, CallerCounts, cells
    <3>4. QED BY <2>1, <3>1, <3>2, <3>3 DEF InSessionControl, CallerStep
  <2>2. CASE MainStop \/ MainInvalidate
    BY <1>0, <1>1, <2>2
       DEF MainStop, MainInvalidate, StopSession, Invalidate, IdleCaller, CallerCounts
  <2>3. CASE MainRestart
    BY <1>0, <1>1, <2>3 DEF MainRestart, Invalidate, vars, cells, CallerCounts
  <2>4. CASE Acknowledge \/ \E w \in Sessions : Launch(w)
    BY <1>1, <2>4 DEF Acknowledge, AcknowledgePreview, Launch, Capture, vars, cells, CallerCounts
  <2>5. CASE RefuseIfLive \/ NeedTrusted \/ ReadTarget \/ NeedTarget \/ CancelToken \/ Retire
             \/ Supersede \/ StartQr \/ CancelQr \/ CrossFlow
    BY <1>1, <2>5
       DEF RefuseIfLive, NeedTrusted, ReadTarget, NeedTarget, CancelToken, Retire, Supersede,
           StartQr, CancelQr, CrossFlow, vars, quiet, cells, CallerCounts
  <2>6. CASE LockFlow \/ UnlockFlow \/ Forget \/ UseStore \/ RunInput
             \/ ReadGeneration \/ Reply \/ ReplyFailed
    BY <1>1, <2>6
       DEF LockFlow, UnlockFlow, Forget, UseStore, RunInput, ReadGeneration, Reply, ReplyFailed, vars, quiet, cells,
           CallerCounts
  <2>7. QED BY <2>1, <2>2, <2>3, <2>4, <2>5, <2>6 DEF MainStep
<1>3. (First => generation >= 1)' /\ (Second => generation >= 2)' /\ ReadCounts'
  BY <1>1, <1>2, MainCounts
<1>4. LateEnds'
  <2>1. CASE Reply
    <3> DEFINE type == IF cmd.op \in DOMAIN RestartType /\ cmd.target # NoTarget
                       THEN RestartType[cmd.op] ELSE ReplyType[cmd.op]
               g == IF cmd.op \in Telling THEN cmd.generation ELSE 0
    <3>1. type \in EventTypes /\ g \in Nat /\ Emit(Event(type, g)) /\ cmd.op \in DOMAIN ReplyType
      BY <2>1, ReplyTells
    <3>2. type \in EndWords => g >= 2
      <4>1. At("reply") /\ (cmd.op \in Telling => cmd.read)
        BY <2>1 DEF Reply
      <4>2. cmd.op \in {"stopSession", "setPreferences"} => Len(cmd.todo) <= 1
        <5>1. SUFFICES ASSUME cmd.op \in {"stopSession", "setPreferences"}
                       PROVE  Len(cmd.todo) <= 1
          BY <5>1
        <5>2. Place(cmd.op, Len(cmd.todo), "reply")
          BY <1>0, <4>1, <5>1, TodoNow DEF Failing
        <5>3. Len(cmd.todo) = 1
          BY <5>1, <5>2 DEF Place
        <5>4. 1 <= 1
          OBVIOUS
        <5>5. QED BY ONLY <5>3, <5>4, Zenon
      <4>3. cmd.op = "stopSession" \/ (cmd.op = "setPreferences" /\ cmd.target # NoTarget) => Second
        BY <4>2, Zenon DEF Second, Left
      <4>4. cmd.op \in {"startQrPairing", "submitManualCode", "cancelPairing", "useManualCode",
                        "stopSession", "startOver", "setPreferences", "setScrcpyArgs", "reconnect"}
        BY <3>1 DEF ReplyType
      <4>5. DOMAIN RestartType = {"setPreferences", "setScrcpyArgs"}
        BY DEF RestartType
      <4>6. type \in EndWords =>
              cmd.op = "stopSession" \/ (cmd.op = "setPreferences" /\ cmd.target # NoTarget)
        <5>1. CASE cmd.op \in DOMAIN RestartType /\ cmd.target # NoTarget
          <6>1. type = RestartType[cmd.op]
            BY <5>1
          <6> HIDE DEF type
          <6>2. QED BY <4>5, <5>1, <6>1, Replies DEF EndWords
        <5>2. CASE ~(cmd.op \in DOMAIN RestartType /\ cmd.target # NoTarget)
          <6>1. type = ReplyType[cmd.op]
            BY <5>2
          <6> HIDE DEF type
          <6>2. QED BY <4>4, <6>1, Replies DEF EndWords
        <5>3. QED BY <5>1, <5>2
      <4>7. cmd.op \in {"stopSession", "setPreferences"} => cmd.op \in Telling
        BY DEF Telling
      <4> HIDE DEF type
      <4>8. QED BY <1>1, <4>1, <4>3, <4>6, <4>7 DEF ReadCounts
    <3> HIDE DEF type, g
    <3>3. QED BY <1>0, <1>1, <3>1, <3>2, LateEndsGrow
  <2>2. CASE ReplyFailed
    <3>1. At("replyFailed") /\ cmd.read /\ Emit(Event("InputFailed", cmd.generation))
      BY <2>2 DEF ReplyFailed
    <3>2. Failing /\ Len(cmd.todo) = 1
      BY <1>0, <3>1, TodoNow DEF Place
    <3>3. /\ cmd.generation \in Nat /\ cmd.generation >= 2
          /\ "InputFailed" \in EventTypes
      BY <1>0, <1>1, <3>1, <3>2, KnownTypes DEF Second, ReadCounts, CommandState
    <3>4. QED BY <1>0, <1>1, <3>1, <3>3, LateEndsGrow
  <2>3. CASE sent' = sent \/ \E type \in {"Refused", "Failure"} : Emit(Event(type, 0))
    <3>1. {"Refused", "Failure"} \subseteq EventTypes \ EndWords /\ 0 \in Nat
      BY KnownTypes DEF EndWords
    <3>2. QED BY <1>0, <1>1, <2>3, <3>1, LateEndsGrow
  <2>4. QED
    BY <2>1, <2>2, <2>3
       DEF MainStep, RefuseIfLive, NeedTrusted, ReadTarget, NeedTarget, MainStop, MainInvalidate,
           MainRestart, Acknowledge, CancelToken, Retire, Supersede, StartQr, CancelQr, CrossFlow,
           LockFlow, UnlockFlow, Forget, UseStore, RunInput, ReadGeneration, InSessionControl,
           Launch, StopSession, Invalidate, AcknowledgePreview, Capture, CallerStep, CrossBarrier,
           ResetTarget, RenewToken, Restart, vars
<1>5. ASSUME NEW w \in Sessions PROVE WorkerCounts(w)'
  <2>1. CASE worker' = worker /\ launcher' = launcher
    BY <1>1, <2>1 DEF WorkerCounts
  <2>2. ASSUME NEW v \in Sessions, Launch(v) PROVE WorkerCounts(w)'
    <3>1. cmd.op = "reconnect" => generation >= 1
      <4>1. At("launch")
        BY <2>2 DEF Launch
      <4>2. Len(cmd.todo) = 1
        BY <1>0, <4>1, TodoNow DEF Place
      <4>3. QED BY <1>1, <4>2 DEF Left, First
    <3>2. /\ worker'[v].step = "armed" /\ worker'[v].current = generation
          /\ launcher'[v].kind = "reconnect" => cmd.op = "reconnect"
          /\ launcher'[v].step = "flow"
          /\ \A u \in Sessions \ {v} : worker'[u] = worker[u] /\ launcher'[u] = launcher[u]
      BY <1>0, <2>2 DEF Launch, Capture, IdleWorker, IdleLauncher
    <3>3. QED BY <1>1, <3>1, <3>2 DEF WorkerCounts
  <2>3. ASSUME NEW v \in Sessions, Restart(v), launcher' = launcher PROVE WorkerCounts(w)'
    <3>1. /\ worker'[v].step = "spawned" /\ worker'[v].current = caller.generation
          /\ \A u \in Sessions \ {v} : worker'[u] = worker[u] /\ launcher'[u] = launcher[u]
          /\ launcher'[v] = launcher[v]
      BY <1>0, <2>3 DEF Restart, IdleWorker
    <3>2. caller.generation >= 1
      BY <1>1, <2>3 DEF Restart, CallerCounts
    <3>3. QED BY <1>1, <3>1, <3>2 DEF WorkerCounts
  <2>4. \/ worker' = worker /\ launcher' = launcher
        \/ \E v \in Sessions : Launch(v)
        \/ \E v \in Sessions : Restart(v) /\ launcher' = launcher
    BY DEF MainStep, RefuseIfLive, NeedTrusted, ReadTarget, NeedTarget, MainStop, MainInvalidate,
           MainRestart, Acknowledge, CancelToken, Retire, Supersede, StartQr, CancelQr, CrossFlow,
           LockFlow, UnlockFlow, Forget, UseStore, RunInput, ReadGeneration, Reply, ReplyFailed, InSessionControl,
           StopSession, Invalidate, AcknowledgePreview, CallerStep, CrossBarrier,
           ResetTarget, RenewToken, vars, quiet
  <2>5. QED BY <2>1, <2>2, <2>3, <2>4
<1>6. QED BY <1>2, <1>3, <1>4, <1>5 DEF Counted

(* A step of one worker that leaves the command and the caller alone.        *)
LEMMA WorkerKeepsCount ==
  ASSUME TypeOK, GenerationGoesOn, Counted, NEW w \in Sessions, cmd' = cmd, caller' = caller,
         \A v \in Sessions \ {w} : worker'[v] = worker[v] /\ launcher'[v] = launcher[v],
         WorkerCounts(w)', LateEnds', target' # NoTarget => target # NoTarget \/ generation' >= 1
  PROVE  Counted'
<1>0. generation \in Nat /\ generation' \in Nat /\ generation <= generation'
  BY Onward DEF TypeOK
<1>1. /\ First => generation >= 1
      /\ Second => generation >= 2
      /\ CallerCounts /\ ReadCounts /\ \A v \in Sessions : WorkerCounts(v)
  BY DEF Counted
<1>2. First' => First \/ generation' >= 1
  BY DEF First, Left
<1>3. Second' <=> Second
  BY DEF Second, Left, Failing, Remains
<1>4. CallerCounts'
  BY <1>1 DEF CallerCounts
<1>5. \A v \in Sessions : WorkerCounts(v)'
  BY <1>1 DEF WorkerCounts
<1>6. ReadCounts'
  BY <1>1, <1>3 DEF ReadCounts
<1>7. QED BY <1>0, <1>1, <1>2, <1>3, <1>4, <1>5, <1>6 DEF Counted

(* What is left to show of a step of worker w.                               *)
Fine(w) ==
  /\ WorkerCounts(w)' /\ LateEnds' /\ caller' = caller
  /\ target' # NoTarget => target # NoTarget \/ generation' >= 1
  /\ \A v \in Sessions \ {w} : worker'[v] = worker[v] /\ launcher'[v] = launcher[v]

(* The sessions.                                                             *)
LEMMA SessionCounts ==
  ASSUME RuntimeInv, NEW w \in Sessions, SessionWorkerStep(w) \/ SessionChildStep(w),
         GenerationGoesOn, Counted
  PROVE  Counted'
<1>0. /\ TypeOK /\ worker \in [Sessions -> WorkerState] /\ worker[w] \in WorkerState
      /\ generation \in Nat /\ worker[w].current \in Nat /\ worker[w].current <= generation
      /\ launcher' = launcher /\ cmd' = cmd
  BY DEF RuntimeInv, RuntimeTypeOK, TypeOK, WorkerState, LogInv, AnnounceInv, CurrentsKnown,
         SessionWorkerStep, SessionChildStep
<1>1. WorkerCounts(w) /\ LateEnds
  BY DEF Counted
<1>2. /\ caller' = caller
      /\ \A v \in Sessions \ {w} : worker'[v] = worker[v]
  BY <1>0, WorkerFrame DEF SessionWorkerStep, SessionChildStep
<1> SUFFICES Fine(w)
  BY <1>0, <1>2, WorkerKeepsCount DEF Fine
<1>3. ASSUME NEW s, s \notin {"idle", "armed", "untarget", "report"}, worker'[w].step = s,
             worker'[w].current >= 1, target' = target,
             \/ sent' = sent
             \/ \E type \in {"SessionStarting", "SessionStarted"} :
                  Emit(Event(type, worker[w].current))
      PROVE  Fine(w)
  <2>1. LateEnds'
    <3>1. {"SessionStarting", "SessionStarted"} \subseteq EventTypes \ EndWords
      BY KnownTypes DEF EndWords
    <3>2. QED BY <1>0, <1>1, <1>3, <3>1, LateEndsGrow
  <2>2. WorkerCounts(w)'
    BY <1>0, <1>1, <1>3 DEF WorkerCounts
  <2>3. QED BY <1>0, <1>2, <1>3, <2>1, <2>2 DEF Fine
<1>4. CASE Finish(w) /\ target' = target
  <2>1. worker'[w].step = "idle"
    BY <1>0, <1>4 DEF Finish, IdleWorker
  <2>2. WorkerCounts(w)'
    BY <1>0, <1>1, <2>1 DEF WorkerCounts
  <2>3. LateEnds'
    <3>1. CASE sent' = sent
      BY <1>0, <1>1, <3>1, LateEndsGrow
    <3>2. CASE ReportEnd(w)
      <4> DEFINE type == IF worker[w].result \in {"Ended", "Stopped"}
                         THEN "SessionEnded" ELSE "LifecycleFailure"
      <4>1. type \in EventTypes
        BY KnownTypes
      <4>2. Emit(Event(type, worker[w].current))
        BY <3>2 DEF ReportEnd, EndEvent, Emit
      <4>3. worker[w].current >= 2
        BY <1>1, <3>2 DEF ReportEnd, WorkerCounts
      <4> HIDE DEF type
      <4>4. QED BY <1>0, <1>1, <4>1, <4>2, <4>3, LateEndsGrow
    <3>3. sent' = sent \/ ReportEnd(w)
      <4>1. Goto(w, "run") \/ Goto(w, "live") => worker'[w].step # "idle"
        BY <1>0 DEF Goto, WorkerState
      <4>2. ~Announce(w) /\ ~ConfirmStarted(w)
        BY <2>1, <4>1 DEF Announce, ConfirmStarted
      <4>3. QED
        BY <4>2
           DEF SessionWorkerStep, SessionChildStep, WorkerStep, ScrcpyStep, SpawnStale,
               SpawnCurrent, LockRunner, SetTarget, RefuseStart, AdmitStart, RunScrcpy,
               RunStopped, StartDeadline, ExitSuperseded, ClaimRetry, KeepResult,
               EndSilently, ClaimEnd, ClearTarget, CaptureReady, RunUnavailable, ScrcpyExits
    <3>4. QED BY <3>1, <3>2, <3>3
  <2>4. QED BY <1>0, <1>2, <1>4, <2>2, <2>3 DEF Fine
<1>5. CASE SpawnCurrent(w) \/ LockRunner(w) \/ AdmitStart(w) \/ Announce(w) \/ RunScrcpy(w)
           \/ ConfirmStarted(w) \/ CaptureReady(w) \/ KeepResult(w)
  <2>1. worker[w].current >= 1
    BY <1>1, <1>5, StepSets
       DEF WorkerCounts, SpawnCurrent, LockRunner, AdmitStart, Announce, RunScrcpy,
           ConfirmStarted, CaptureReady, KeepResult
  <2>2. \E s \in {"lock", "target", "announce", "run", "starting", "live", "confirm", "ended"} :
          Goto(w, s)
    BY <1>5 DEF SpawnCurrent, LockRunner, AdmitStart, Announce, RunScrcpy, ConfirmStarted,
                CaptureReady, KeepResult
  <2>3. PICK s \in {"lock", "target", "announce", "run", "starting", "live", "confirm", "ended"} :
          Goto(w, s)
    BY <2>2
  <2>4. worker'[w].step = s /\ worker'[w].current = worker[w].current
    BY <1>0, <2>3 DEF Goto, WorkerState
  <2>5. target' = target /\ (sent' = sent \/ \E type \in {"SessionStarting", "SessionStarted"} :
                               Emit(Event(type, worker[w].current)))
    BY <1>5 DEF SpawnCurrent, LockRunner, AdmitStart, Announce, RunScrcpy, ConfirmStarted,
                CaptureReady, KeepResult, cells, Emit
  <2>6. QED BY <1>3, <2>1, <2>3, <2>4, <2>5
<1>6. CASE RunStopped(w) \/ StartDeadline(w) \/ RunUnavailable(w)
           \/ \E r \in {"Ended", "Disconnected"} : ScrcpyExits(w, r)
  <2>1. worker[w].current >= 1
    BY <1>1, <1>6 DEF WorkerCounts, RunStopped, StartDeadline, RunUnavailable, ScrcpyExits
  <2>2. \E r : Exit(w, r)
    BY <1>6 DEF RunStopped, StartDeadline, RunUnavailable, ScrcpyExits
  <2>3. worker'[w].step = "exited" /\ worker'[w].current = worker[w].current
    BY <1>0, <2>2 DEF Exit, WorkerState
  <2>4. target' = target /\ sent' = sent
    BY <1>6 DEF RunStopped, StartDeadline, RunUnavailable, ScrcpyExits, cells
  <2>5. QED BY <1>3, <2>1, <2>3, <2>4
<1>7. CASE SetTarget(w)
  <2>1. worker[w].current >= 1 /\ sent' = sent /\ generation' = generation
    BY <1>1, <1>7 DEF WorkerCounts, SetTarget
  <2>2. worker'[w].step = "admit" /\ worker'[w].current = worker[w].current
    BY <1>0, <1>7 DEF SetTarget, Goto, WorkerState
  <2>3. WorkerCounts(w)'
    BY <1>0, <1>1, <2>1, <2>2 DEF WorkerCounts
  <2>4. LateEnds'
    BY <1>0, <1>1, <2>1, LateEndsGrow
  <2>5. QED BY <1>0, <1>2, <2>1, <2>3, <2>4 DEF Fine
<1>8. CASE ClaimRetry(w)
  <2>1. worker'[w].step = "reannounce" /\ worker'[w].current = generation + 1
        /\ sent' = sent /\ target' = target
    BY <1>0, <1>8 DEF ClaimRetry, WorkerState
  <2>2. worker'[w].current >= 1
    BY <1>0, <2>1
  <2>3. QED BY <1>3, <2>1, <2>2
<1>9. CASE ClaimEnd(w)
  <2>1. generation = worker[w].current /\ worker[w].current >= 1
        /\ sent' = sent /\ target' = target
    BY <1>1, <1>9 DEF ClaimEnd, Current, WorkerCounts
  <2>2. worker'[w].step = "untarget" /\ worker'[w].current = generation + 1
    BY <1>0, <1>9 DEF ClaimEnd, WorkerState
  <2>3. worker'[w].current >= 2
    BY <1>0, <2>1, <2>2
  <2>4. WorkerCounts(w)'
    BY <1>0, <1>1, <2>2, <2>3 DEF WorkerCounts
  <2>5. LateEnds'
    BY <1>0, <1>1, <2>1, LateEndsGrow
  <2>6. QED BY <1>0, <1>2, <2>1, <2>4, <2>5 DEF Fine
<1>10. CASE ClearTarget(w)
  <2>1. worker[w].current >= 2 /\ sent' = sent /\ target' = NoTarget
    BY <1>1, <1>10 DEF ClearTarget, WorkerCounts
  <2>2. worker'[w].step = "report" /\ worker'[w].current = worker[w].current
    BY <1>0, <1>10 DEF ClearTarget, Goto, WorkerState
  <2>3. WorkerCounts(w)'
    BY <1>0, <1>1, <2>1, <2>2 DEF WorkerCounts
  <2>4. LateEnds'
    BY <1>0, <1>1, <2>1, LateEndsGrow
  <2>5. QED BY <1>0, <1>2, <2>1, <2>3, <2>4 DEF Fine
<1>11. CASE SpawnStale(w) \/ RefuseStart(w) \/ ExitSuperseded(w) \/ EndSilently(w) \/ ReportEnd(w)
  <2>1. Finish(w) /\ target' = target
    BY <1>11 DEF SpawnStale, RefuseStart, ExitSuperseded, EndSilently, ReportEnd, cells
  <2>2. QED BY <1>4, <2>1
<1>12. QED
  BY <1>5, <1>6, <1>7, <1>8, <1>9, <1>10, <1>11
     DEF SessionWorkerStep, SessionChildStep, WorkerStep, ScrcpyStep

(* The pairing and reconnect workers.                                        *)
LEMMA LauncherCounts ==
  ASSUME RuntimeInv, NEW w \in Sessions, LauncherStep(w) \/ PhoneStep(w) \/ LifetimeExpires(w),
         GenerationGoesOn, Counted
  PROVE  Counted'
<1>0. /\ RuntimeTypeOK /\ TypeOK /\ LauncherFits
      /\ launcher \in [Sessions -> LauncherState] /\ launcher[w] \in LauncherState
      /\ worker \in [Sessions -> WorkerState] /\ worker[w] \in WorkerState
      /\ generation \in Nat /\ worker[w].current \in Nat /\ launcher[w].told \in Nat
      /\ LauncherSteps =
           {"idle", "flow", "claim", "dropQr", "save", "remember", "advance", "report", "start",
            "disconnect", "tell", "talk", "progress", "pairing", "disconnecting"}
  BY LauncherValues DEF RuntimeInv, RuntimeTypeOK, TypeOK, WorkerState, LauncherState, LauncherInv
<1>1. WorkerCounts(w) /\ LateEnds
  BY DEF Counted
<1>2. cmd' = cmd
  BY CommandStays
<1> SUFFICES Fine(w)
  BY <1>0, <1>2, WorkerKeepsCount DEF Fine
<1>3. ASSUME sent' = sent PROVE LateEnds'
  BY <1>0, <1>1, <1>3, LateEndsGrow
<1>4. CASE LifetimeExpires(w)
  BY <1>1, <1>3, <1>4 DEF LifetimeExpires, vars, cells, WorkerCounts, Fine
<1>5. ASSUME NEW s \in LauncherSteps \ {"tell"}, LGoto(w, s), worker' = worker, LateEnds',
             caller' = caller, target' = target
      PROVE  Fine(w)
  <2>1. LauncherGoes(w, s)
    BY <1>0, <1>5, GoesOn
  <2>2. QED BY <1>1, <1>5, <2>1 DEF LauncherGoes, WorkerCounts, Fine
<1>6. CASE EnterFlow(w) \/ ReportProgress(w) \/ StartDisconnect(w) \/ TellProgress(w)
           \/ ClaimPairing(w) \/ DropQr(w) \/ RememberDevice(w) \/ ReportLinked(w)
  <2>1. worker' = worker /\ caller' = caller /\ target' = target
    BY <1>6 DEF EnterFlow, ReportProgress, StartDisconnect, TellProgress, ClaimPairing, DropQr,
                RememberDevice, ReportLinked, vars, quiet, cells
  <2>2. \E s \in {"talk", "progress", "pairing", "disconnecting", "report", "dropQr", "save",
                  "advance", "start"} : LGoto(w, s)
    BY <1>6 DEF EnterFlow, ReportProgress, StartDisconnect, TellProgress, ClaimPairing, DropQr,
                RememberDevice, ReportLinked
  <2>3. LateEnds'
    <3>1. \/ sent' = sent
          \/ \E type \in {"Pairing", "Connected", "Paired"}, g \in Nat : Emit(Event(type, g))
      BY <1>0, <1>6 DEF EnterFlow, ReportProgress, StartDisconnect, TellProgress, ClaimPairing,
                        DropQr, RememberDevice, ReportLinked, vars
    <3>2. {"Pairing", "Connected", "Paired"} \subseteq EventTypes \ EndWords
      BY KnownTypes DEF EndWords
    <3>3. QED BY <1>0, <1>1, <3>1, <3>2, LateEndsGrow
  <2>4. PICK s \in {"talk", "progress", "pairing", "disconnecting", "report", "dropQr", "save",
                    "advance", "start"} : LGoto(w, s)
    BY <2>2
  <2>5. s \in LauncherSteps \ {"tell"}
    BY <1>0
  <2>6. QED BY <1>5, <2>1, <2>3, <2>4, <2>5
<1>7. CASE FlowCancelled(w) \/ FlowFails(w) \/ FlowTimesOut(w) \/ \E t \in Targets : FlowLinks(w, t)
  <2>1. UNCHANGED vars /\ \E o, t : launcher' = [launcher EXCEPT ![w].step = "claim",
                                                   ![w].outcome = o, ![w].target = t]
    BY <1>7 DEF FlowCancelled, FlowFails, FlowTimesOut, FlowLinks, LeaveFlow
  <2>2. launcher'[w].step = "claim" /\ launcher'[w].kind = launcher[w].kind
        /\ \A v \in Sessions \ {w} : launcher'[v] = launcher[v]
    BY <1>0, <2>1 DEF LauncherState
  <2>3. worker' = worker /\ caller' = caller /\ target' = target /\ sent' = sent
    BY <2>1 DEF vars, cells
  <2>4. QED BY <1>1, <1>3, <2>2, <2>3 DEF WorkerCounts, Fine
<1>8. ASSUME LFinish(w), Finish(w) \/ (worker' = worker /\ launcher[w].step = "tell"),
             LateEnds', caller' = caller, target' = target
      PROVE  Fine(w)
  <2>1. LauncherGone(w) /\ launcher'[w].kind = "none"
    BY <1>0, <1>8, IsGone DEF LFinish, IdleLauncher
  <2>2. CASE Finish(w)
    <3>1. worker'[w].step = "idle" /\ \A v \in Sessions \ {w} : worker'[v] = worker[v]
      BY <1>0, <2>2 DEF Finish, IdleWorker
    <3>2. QED BY <1>8, <2>1, <3>1 DEF LauncherGone, WorkerCounts, Fine
  <2>3. CASE worker' = worker
    BY <1>1, <1>8, <2>1, <2>3 DEF LauncherGone, WorkerCounts, Fine
  <2>4. QED BY <1>8, <2>2, <2>3
<1>9. CASE LosePairing(w)
  <2>1. CASE LGoto(w, "disconnect") /\ UNCHANGED vars
    <3>1. worker' = worker /\ caller' = caller /\ target' = target /\ sent' = sent
      BY <2>1 DEF vars, cells
    <3>2. QED BY <1>0, <1>3, <1>5, <2>1, <3>1
  <2>2. CASE LFinish(w) /\ Discard(w)
    <3>1. Finish(w) /\ caller' = caller /\ target' = target /\ sent' = sent
      BY <2>2 DEF Discard, cells
    <3>2. QED BY <1>3, <1>8, <2>2, <3>1
  <2>3. QED BY <1>9, <2>1, <2>2 DEF LosePairing
<1>10. CASE Disconnected(w) \/ DropReconnect(w)
  <2>1. LFinish(w) /\ Finish(w) /\ caller' = caller /\ target' = target /\ sent' = sent
    BY <1>10 DEF Disconnected, DropReconnect, Discard, cells
  <2>2. QED BY <1>3, <1>8, <2>1
<1>11. CASE ReportPairingOver(w)
  <2>1. launcher[w].outcome \in {"Failure", "TimedOut", "Cancelled"}
    <3>1. launcher[w].outcome \in Outcomes
      BY <1>0 DEF LauncherState
    <3>2. QED BY <1>0, <1>11, <3>1, LauncherValues DEF ReportPairingOver, LauncherFits, Fits
  <2>2. PairingOver[launcher[w].outcome] \in {"Failure", "QrTimedOut", "PairingCancelled"}
    BY <2>1 DEF PairingOver
  <2>3. {"Failure", "QrTimedOut", "PairingCancelled"} \subseteq EventTypes \ EndWords /\ 0 \in Nat
    BY KnownTypes DEF EndWords
  <2>4. LateEnds'
    BY <1>0, <1>1, <1>11, <2>2, <2>3, LateEndsGrow DEF ReportPairingOver
  <2>5. LFinish(w) /\ Finish(w) /\ caller' = caller /\ target' = target
    BY <1>11 DEF ReportPairingOver, cells
  <2>6. QED BY <1>8, <2>4, <2>5
<1>12. CASE SaveDevice(w)
  <2>1. worker' = worker /\ caller' = caller /\ target' = target /\ sent' = sent
    BY <1>12 DEF SaveDevice, vars, cells
  <2>2. CASE LGoto(w, "remember")
    BY <1>0, <1>3, <1>5, <2>1, <2>2
  <2>3. CASE launcher' = [launcher EXCEPT ![w].step = "report", ![w].outcome = "Failure"]
    <3>1. LauncherGoes(w, "report")
      BY <1>0, <2>3, SaveFails
    <3>2. QED BY <1>1, <1>3, <2>1, <3>1 DEF LauncherGoes, WorkerCounts, Fine
  <2>4. QED BY <1>12, <2>2, <2>3 DEF SaveDevice
<1>13. CASE AdvanceGeneration(w)
  <2>1. ClosureAlone(w) /\ worker'[w].step = "advanced" /\ worker'[w].current = generation + 1
        /\ sent' = sent
    BY <1>0, <1>13, ClosureAdvanced DEF AdvanceGeneration
  <2>2. LGoto(w, "report") /\ caller' = caller /\ target' = target
    BY <1>13 DEF AdvanceGeneration, Advance, LGoto
  <2>3. LauncherGoes(w, "report")
    BY <1>0, <2>2, GoesOn
  <2>4. worker'[w].current >= 1
    BY <1>0, <2>1
  <2>5. QED BY <1>3, <2>1, <2>2, <2>3, <2>4 DEF ClosureAlone, LauncherGoes, WorkerCounts, Fine
<1>14. CASE StartSession(w)
  <2>1. launcher[w].step = "start" /\ LFinish(w) /\ Spawn(w, launcher[w].target)
    BY <1>14 DEF StartSession
  <2>2. /\ worker[w].step \in ArmedSteps /\ worker'[w].step = "spawned"
        /\ worker'[w].current = worker[w].current
        /\ \A v \in Sessions \ {w} : worker'[v] = worker[v]
        /\ sent' = sent /\ caller' = caller /\ target' = target
    BY <1>0, <2>1 DEF Spawn, WorkerState, cells
  <2>3. worker[w].current >= 1
    <3>1. launcher[w].kind = "reconnect" \/ worker[w].step = "advanced"
      BY <1>0, <2>1 DEF LauncherFits, Fits
    <3>2. worker[w].step \in {"armed", "advanced"}
      BY <2>2, StepSets
    <3>3. QED BY <1>1, <3>1, <3>2 DEF WorkerCounts
  <2>4. LauncherGone(w)
    BY <1>0, <2>1, IsGone
  <2>5. QED BY <1>3, <2>2, <2>3, <2>4 DEF LauncherGone, WorkerCounts, Fine
<1>15. CASE FailReconnect(w)
  <2>1. worker[w].step = "armed" /\ launcher[w].kind = "reconnect" /\ generation = worker[w].current
        /\ AdvanceFailed(w)
    BY <1>15 DEF FailReconnect, AdvanceFailed
  <2>2. generation + 1 >= 2
    BY <1>0, <1>1, <2>1 DEF WorkerCounts
  <2>3. launcher'[w].step = "tell" /\ launcher'[w].told = generation + 1
        /\ \A v \in Sessions \ {w} : launcher'[v] = launcher[v]
    BY <1>0, <1>15 DEF FailReconnect, LauncherState
  <2>4. worker'[w].step = "idle" /\ \A v \in Sessions \ {w} : worker'[v] = worker[v]
    BY <1>0, <2>1 DEF AdvanceFailed, Finish, IdleWorker
  <2>5. caller' = caller /\ target' = target /\ sent' = sent
    BY <2>1 DEF AdvanceFailed
  <2>6. QED BY <1>3, <2>2, <2>3, <2>4, <2>5 DEF WorkerCounts, Fine
<1>16. CASE TellFailure(w)
  <2>1. launcher[w].step = "tell" /\ launcher[w].told >= 2
    BY <1>1, <1>16 DEF TellFailure, WorkerCounts
  <2>2. Emit(Event("ReconnectFailed", launcher[w].told)) /\ "ReconnectFailed" \in EventTypes
    BY <1>16, KnownTypes DEF TellFailure
  <2>3. LateEnds'
    BY <1>0, <1>1, <2>1, <2>2, LateEndsGrow
  <2>4. QED BY <1>8, <1>16, <2>1, <2>3 DEF TellFailure, quiet, cells
<1>17. QED
  BY <1>4, <1>6, <1>7, <1>9, <1>10, <1>11, <1>12, <1>13, <1>14, <1>15, <1>16
     DEF LauncherStep, PhoneStep

(* What the panel shows without a Start Over: a session has a generation, a
   ready panel that knows no device is at the first, and it knows none that
   the helper does not know.                                                 *)
Honest(v) ==
  /\ ~v.startOver
  /\ v.started => v.generation # 0
  /\ ~v.trusted /\ v.ready => v.generation = 0
  /\ ~trusted => ~v.trusted
Better(v) == Honest(v) /\ (v.stage = "idle" => view.stage = "idle")

(* Moving to a generation, a failure and a broken protocol leave the device
   as it was.                                                                *)
LEMMA MovedKeeps ==
  ASSUME view \in View, NEW g \in Nat
  PROVE  LET v == MoveTo(g)
         IN  /\ v \in View /\ v.generation = g /\ ~v.started
             /\ v.trusted = view.trusted /\ v.ready = view.ready
             /\ v.startOver = view.startOver /\ v.stage = view.stage
BY DEF MoveTo, View

(* A failure forgets no device and knows none (applyLifecycleFailure).      *)
LEMMA FailedKeeps ==
  ASSUME NEW v \in View, NEW state
  PROVE  LET f == Failed(v, state)
         IN  /\ f.generation = v.generation /\ ~f.started /\ ~f.startOver
             /\ f.trusted = v.trusted /\ f.ready = v.ready /\ f.stage = "other"
BY DEF Failed, View

(* Neither does a broken protocol.                                          *)
LEMMA BrokenKeeps ==
  ASSUME NEW v \in View
  PROVE  LET f == ProtocolFailed(v)
         IN  /\ f.generation = v.generation /\ ~f.started /\ ~f.startOver
             /\ f.trusted = v.trusted /\ ~f.ready /\ f.stage = "protocolError"
BY DEF ProtocolFailed, View

(* The events that tell of a connection or of an end.                        *)
LEMMA WhatIsHeard ==
  ASSUME PanelTypeOK, LateEnds, Unread
  PROVE  /\ Incoming.generation \in Nat
         /\ Incoming.type \in EndWords => Incoming.generation >= 2
         /\ Unconnected => Incoming.type \notin ConnectionWords
<1>1. Sent(Incoming) /\ Incoming.generation \in Nat
  BY NextEvent
<1>2. PICK i \in DOMAIN sent : sent[i] = Incoming
  BY <1>1 DEF Sent
<1>3. QED BY <1>1, <1>2 DEF LateEnds, Unconnected

(* The panel moves only to a generation that follows its own.                *)
LEMMA NextIsFirst ==
  ASSUME PanelTypeOK, LateEnds, Unread, Honest(view), Follows(Incoming.generation)
  PROVE  /\ Incoming.generation # 0
         /\ Incoming.type \in EndWords => view.trusted
<1>1. view.generation \in Nat /\ view.ready /\ Incoming.generation = view.generation + 1
  BY Fields DEF PanelTypeOK, Follows
<1>2. Incoming.type \in EndWords => view.generation # 0
  BY <1>1, WhatIsHeard
<1>3. QED BY <1>1, <1>2 DEF Honest

(* A word of a connection or of a start.                                     *)
LEMMA HearConnectionBetter ==
  ASSUME PanelTypeOK, LateEnds, ~trusted => Unconnected, Honest(view),
         HearConnection \/ HearStarted
  PROVE  Better(view')
<1>1. Unread /\ Incoming.type \in ConnectionWords /\ view \in View /\ Incoming.generation \in Nat
      /\ view.generation \in Nat
  BY NextEvent, Fields DEF HearConnection, HearStarted, Hear, ConnectionWords, PanelTypeOK
<1>2. trusted
  BY <1>1, WhatIsHeard
<1>3. CASE view' = view
  BY <1>3 DEF Better, Honest
<1>4. CASE HearStarted /\ view' # view
  <2>1. IsCurrent(Incoming.generation) /\
        view' = [view EXCEPT !.trusted = TRUE, !.presenting = ~view.framed,
                             !.started = TRUE, !.state = "started", !.stage = "other"]
    BY <1>4 DEF HearStarted
  <2>2. view.generation # 0
    BY <2>1 DEF IsCurrent
  <2>3. /\ view'.trusted /\ view'.generation = view.generation /\ view'.stage = "other"
        /\ view'.startOver = view.startOver
    BY <1>1, <2>1 DEF View
  <2>4. QED BY <1>2, <2>2, <2>3 DEF Better, Honest
<1>5. CASE HearConnection /\ view' # view
  <2> DEFINE v == IF Follows(Incoming.generation) THEN MoveTo(Incoming.generation) ELSE view
  <2>1. view' = [v EXCEPT !.trusted = TRUE, !.presenting = ~v.framed,
                          !.state = "connecting", !.stage = "other"]
    BY <1>5 DEF HearConnection
  <2>2. /\ v \in View /\ v.startOver = view.startOver
        /\ v.started => view.started /\ v.generation = view.generation
    BY <1>1, MovedKeeps
  <2> HIDE DEF v
  <2>3. /\ view'.trusted /\ view'.generation = v.generation /\ view'.started = v.started
        /\ view'.startOver = v.startOver /\ view'.stage = "other"
    BY <2>1, <2>2 DEF View
  <2>4. QED BY <1>2, <2>2, <2>3 DEF Better, Honest
<1>6. QED BY <1>3, <1>4, <1>5

(* A word that ends something.                                               *)
LEMMA HearEndBetter ==
  ASSUME PanelTypeOK, LateEnds, Honest(view),
         HearEnded \/ HearStopped \/ HearLifecycleFailure \/ HearPreferences
  PROVE  Better(view')
<1> DEFINE g == Incoming.generation
<1>1. Unread /\ view \in View /\ g \in Nat
  BY NextEvent DEF HearEnded, HearStopped, HearLifecycleFailure, HearPreferences, Hear, PanelTypeOK
<1>2. CASE view' = view
  BY <1>2 DEF Better, Honest
<1>3. ASSUME Incoming.type \in EndWords, Follows(g),
             view'.generation = g, ~view'.started, ~view'.startOver,
             view'.trusted = view.trusted, view'.stage = "idle" => view.stage = "idle"
      PROVE  Better(view')
  <2>1. view.trusted
    BY <1>1, <1>3, NextIsFirst
  <2>2. QED BY <1>3, <2>1 DEF Better, Honest
<1>4. MoveTo(g) \in View /\ MoveTo(g).generation = g /\ ~MoveTo(g).started
      /\ MoveTo(g).trusted = view.trusted /\ MoveTo(g).startOver = view.startOver
      /\ MoveTo(g).stage = view.stage
  BY <1>1, MovedKeeps
<1>5. CASE HearEnded /\ view' # view
  <2>1. Follows(g) /\ view' = Failed(MoveTo(g), "disconnected")
        /\ Incoming.type \in EndWords
    BY <1>5 DEF HearEnded, Hear, EndWords, Honest
  <2>2. /\ view'.generation = MoveTo(g).generation /\ ~view'.started /\ ~view'.startOver
        /\ view'.trusted = MoveTo(g).trusted /\ view'.stage = "other"
    BY <1>4, <2>1, FailedKeeps
  <2>3. QED BY <1>3, <1>4, <2>1, <2>2
<1>6. CASE HearLifecycleFailure /\ view' # view
  <2>1. Follows(g) /\ Incoming.type \in EndWords
    BY <1>6 DEF HearLifecycleFailure, Hear, EndWords
  <2>2. PICK state \in FailureStates : view' = Failed(MoveTo(g), state)
    BY <1>6, <2>1 DEF HearLifecycleFailure
  <2>3. /\ view'.generation = MoveTo(g).generation /\ ~view'.started /\ ~view'.startOver
        /\ view'.trusted = MoveTo(g).trusted /\ view'.stage = "other"
    BY <1>4, <2>2, FailedKeeps
  <2>4. QED BY <1>3, <1>4, <2>1, <2>3
<1>7. CASE HearPreferences /\ view' # view
  <2>1. /\ Follows(g) /\ Incoming.type \in EndWords
        /\ view' = [MoveTo(g) EXCEPT !.presenting = TRUE, !.state = "connecting", !.stage = "other"]
    BY <1>7 DEF HearPreferences, Hear, EndWords
  <2>2. /\ view'.generation = MoveTo(g).generation /\ view'.started = MoveTo(g).started
        /\ view'.startOver = MoveTo(g).startOver
        /\ view'.trusted = MoveTo(g).trusted /\ view'.stage = "other"
    BY <1>4, <2>1 DEF View
  <2>3. QED BY <1>3, <1>4, <2>1, <2>2 DEF Honest
<1>8. CASE HearStopped /\ view' # view
  <2> DEFINE v == IF Follows(g) THEN MoveTo(g) ELSE view
  <2>1. /\ view' = [v EXCEPT !.presenting = FALSE, !.stage = "other",
                             !.state = IF view.startOver THEN "stopping" ELSE "disconnected"]
        /\ Incoming.type \in EndWords
    BY <1>8 DEF HearStopped, Hear, EndWords
  <2>2. v \in View
    BY <1>1, <1>4
  <2>3. /\ view'.generation = v.generation /\ view'.started = v.started
        /\ view'.startOver = v.startOver /\ view'.ready = v.ready
        /\ view'.trusted = v.trusted /\ view'.stage = "other"
    <3> HIDE DEF v
    <3>1. QED BY <2>1, <2>2 DEF View
  <2>4. CASE Follows(g)
    BY <1>3, <1>4, <2>1, <2>3, <2>4 DEF Honest
  <2>5. CASE ~Follows(g)
    BY <2>3, <2>5 DEF Better, Honest
  <2>6. QED BY <2>4, <2>5
<1>9. QED BY <1>2, <1>5, <1>6, <1>7, <1>8

(* The rest of what is read.                                                 *)
LEMMA HearRestBetter ==
  ASSUME PanelTypeOK, RuntimeTypeOK, LateEnds, Honest(view), view.stage = "idle" => view = InitialView,
         \/ HearReady \/ HearNothing \/ HearQrWaiting \/ HearQrTimedOut \/ HearPairing
         \/ HearManualCode \/ HearCancelled \/ HearStartOverComplete \/ HearStale \/ HearFailure
         \/ HearProtocolError
  PROVE  Better(view')
<1>1. view \in View /\ trusted \in BOOLEAN /\ ~view.startOver
  BY DEF PanelTypeOK, RuntimeTypeOK, Honest
<1>2. CASE view' = view
  BY <1>2 DEF Better, Honest
<1>3. CASE HearReady
  <2>1. view = InitialView
    BY <1>3 DEF HearReady
  <2>2. /\ view'.trusted = trusted /\ view'.startOver = FALSE /\ view'.started = FALSE
        /\ view'.generation = 0 /\ view'.stage = "other"
    BY <1>1, <1>3, <2>1 DEF HearReady, View, InitialView
  <2>3. QED BY <2>2 DEF Better, Honest
<1>4. CASE HearQrWaiting \/ HearQrTimedOut \/ HearPairing \/ HearManualCode \/ HearCancelled
  <2>1. /\ view'.trusted = view.trusted /\ view'.startOver = view.startOver
        /\ view'.started = view.started /\ view'.generation = view.generation
        /\ view'.ready = view.ready /\ view'.stage \in {"qrWaiting", "other", "manualCode"}
    BY <1>1, <1>4 DEF HearQrWaiting, HearQrTimedOut, HearPairing, HearManualCode, HearCancelled, View
  <2>2. QED BY <2>1 DEF Better, Honest
<1>5. CASE HearStale \/ HearProtocolError
  <2>1. CASE view' = ProtocolFailed(view)
    <3>1. /\ view'.generation = view.generation /\ ~view'.started /\ ~view'.startOver
          /\ view'.trusted = view.trusted /\ ~view'.ready /\ view'.stage = "protocolError"
      BY <1>1, <2>1, BrokenKeeps
    <3>2. QED BY <3>1 DEF Better, Honest
  <2>2. QED BY <1>2, <1>5, <2>1 DEF HearStale, HearProtocolError
<1>6. CASE HearFailure
  <2>1. ASSUME NEW state \in FailureStates, view' = Failed(view, state) PROVE Better(view')
    <3>1. /\ view'.generation = view.generation /\ ~view'.started /\ ~view'.startOver
          /\ view'.trusted = view.trusted /\ view'.ready = view.ready /\ view'.stage = "other"
      BY <1>1, <2>1, FailedKeeps
    <3>2. QED BY <3>1 DEF Better, Honest
  <2>2. CASE view.generation = 0 /\
             view' = [view EXCEPT !.trusted = FALSE, !.presenting = FALSE,
                                  !.state = "unpaired", !.stage = "other"]
    <3>1. /\ view'.generation = 0 /\ view'.started = view.started
          /\ view'.startOver = view.startOver /\ ~view'.trusted /\ view'.stage = "other"
      BY <1>1, <2>2 DEF View
    <3>2. QED BY <2>2, <3>1 DEF Better, Honest
  <2>3. QED BY <1>1, <1>2, <1>6, <2>1, <2>2 DEF HearFailure
<1>7. CASE HearNothing \/ HearStartOverComplete
  BY <1>1, <1>2, <1>7 DEF HearNothing, HearStartOverComplete
<1>8. QED BY <1>3, <1>4, <1>5, <1>6, <1>7

(* What the panel does for the user and of itself.                           *)
LEMMA PanelStepBetter ==
  ASSUME PanelTypeOK, Honest(view), "startOver" \notin Commands, UserStep \/ FrameStep
  PROVE  Better(view')
<1>1. view \in View
  BY DEF PanelTypeOK
<1>2. CASE view' = view
  BY <1>2 DEF Better, Honest
<1>3. CASE OpenManagement \/ CloseManagement \/ Reconnect \/ FirstFrame
  <2>1. /\ view'.trusted = view.trusted /\ view'.startOver = view.startOver
        /\ view'.started = view.started /\ view'.generation = view.generation
        /\ view'.ready = view.ready /\ view'.stage = view.stage
    BY <1>1, <1>3 DEF OpenManagement, CloseManagement, Reconnect, FirstFrame, View
  <2>2. QED BY <2>1 DEF Better, Honest
<1>4. CASE FirstFrameTimeout
  <2>1. /\ view'.trusted = view.trusted /\ view'.startOver = view.startOver
        /\ view'.started = FALSE /\ view'.generation = view.generation
        /\ view'.ready = view.ready /\ view'.stage = "other"
    BY <1>1, <1>4 DEF FirstFrameTimeout, View
  <2>2. QED BY <2>1 DEF Better, Honest
<1>5. CASE UseManualCode \/ SubmitManualCode \/ SetPreferences \/ Input
  BY <1>2, <1>5 DEF UseManualCode, SubmitManualCode, SetPreferences, Input
<1>6. QED BY <1>3, <1>4, <1>5 DEF UserStep, FrameStep

(* What is written without a Start Over, and of a session that has begun.    *)
Decent(c) == c.op # "startOver" /\ (c.op \in SessionOps => c.generation # 0)
Decently == cmd.op # "startOver" /\ \A i \in DOMAIN pipe : Decent(pipe[i])

(* Before the helper's first line nothing has been asked of it.              *)
Unopened ==
  view.stage = "idle" =>
    /\ view = InitialView /\ pipe = <<>> /\ sent = <<>> /\ cmd.todo = <<>> /\ caller.step = "idle"
    /\ \A w \in Sessions : launcher[w].step = "idle" /\ worker[w].step = "idle"

(* A device that is known while there was no generation yet is about to be
   connected.                                                                *)
Advancing == \E w \in Sessions : launcher[w].step = "advance"
Rejoining == cmd.op = "reconnect" /\ ~Left("reconnect", 4)
Early ==
  generation = 0 /\ trusted =>
    view.stage = "idle" \/ Advancing \/ (pipe # <<>> /\ Head(pipe).op = "reconnect") \/ Rejoining

(* The invariant, of a panel that does not use Start Over.                  *)
TrustInv ==
  /\ Honest(view) /\ (~trusted => Nothing) /\ Counted
  /\ Decently /\ Unopened /\ Early

(* The panel's own steps.                                                    *)
LEMMA OpensFirst ==
  ASSUME PanelTypeOK, view = InitialView, sent = <<>>, ReceiveLine \/ UserStep \/ FrameStep
  PROVE  HearReady
<1>1. ~Unread
  BY DEF Unread, PanelTypeOK
<1>2. /\ ~view.ready /\ ~view.started /\ ~view.management /\ view.stage = "idle" /\ ~view.startOver
  BY DEF InitialView
<1>3. CASE ReceiveLine
  BY <1>1, <1>3
     DEF ReceiveLine, HearNothing, HearPreferences, HearQrWaiting, HearQrTimedOut,
         HearPairing, HearManualCode, HearCancelled, HearConnection, HearStarted, HearEnded,
         HearStopped, HearStartOverComplete, HearStale, HearFailure, HearLifecycleFailure,
         HearProtocolError, Hear
<1>4. CASE UserStep \/ FrameStep
  BY <1>2, <1>4
     DEF UserStep, FrameStep, OpenManagement, CloseManagement, Reconnect, UseManualCode,
         SubmitManualCode, StartOver, SetPreferences, Input, FirstFrame, FirstFrameTimeout
<1>5. QED BY <1>3, <1>4

(* What the panel reads and writes keeps it, line by line.                  *)
LEMMA PanelTrusts ==
  ASSUME PanelInv, TrustInv, "startOver" \notin Commands, ReceiveLine \/ UserStep \/ FrameStep
  PROVE  TrustInv'
<1>0. /\ PanelTypeOK /\ RuntimeTypeOK /\ pipe \in Seq([op: Ops, generation: Nat]) /\ view \in View
      /\ view.generation \in Nat
  BY Fields DEF PanelInv, PanelTypeOK
<1>1. /\ Honest(view) /\ (~trusted => Nothing) /\ Counted /\ LateEnds
      /\ Decently /\ Unopened /\ Early /\ (~trusted => Unconnected)
      /\ view.stage = "idle" => view = InitialView
  BY DEF TrustInv, Counted, Nothing, Unconnected, Unopened
<1>2. UNCHANGED runtimeVars /\ Writes
  BY <1>0, PanelFrame, PanelWrites
<1>3. /\ sent' = sent /\ cmd' = cmd /\ caller' = caller /\ worker' = worker /\ launcher' = launcher
      /\ target' = target /\ generation' = generation /\ trusted' = trusted
  BY <1>2 DEF runtimeVars, vars, cells, pairingVars
<1>4. Better(view')
  <2>1. CASE UserStep \/ FrameStep
    BY <1>0, <1>1, <2>1, PanelStepBetter
  <2>2. CASE ReceiveLine
    BY <1>0, <1>1, <2>2, HearConnectionBetter, HearEndBetter, HearRestBetter DEF ReceiveLine
  <2>3. QED BY <2>1, <2>2
<1>5. Honest(view)'
  BY <1>3, <1>4 DEF Better, Honest
<1>6. (~trusted => Nothing)'
  BY <1>1, <1>3 DEF Nothing, Stranger, Left
<1>7. Counted'
  <2>1. First' <=> First
    BY <1>3 DEF First, Left
  <2>2. Second' <=> Second
    BY <1>3 DEF Second, Left, Failing, Remains
  <2>3. QED BY <1>1, <1>3, <2>1, <2>2 DEF Counted, ReadCounts, CallerCounts, LateEnds, WorkerCounts
<1>8. ASSUME NEW op \in PanelOps, op \in ShownOps => view.started, op = "startOver" => op \in Commands
      PROVE  Decent([op |-> op, generation |-> view.generation])
  <2>1. op \in SessionOps => op \in ShownOps
    BY <1>8 DEF PanelOps, SessionOps, ShownOps
  <2>2. QED BY <1>1, <1>8, <2>1 DEF Honest, Decent
<1>9. /\ Decently'
      /\ pipe # <<>> => pipe' # <<>> /\ Head(pipe') = Head(pipe)
  <2>1. CASE pipe' = pipe
    BY <1>1, <1>3, <2>1 DEF Decently
  <2>2. ASSUME NEW op \in PanelOps, op \in ShownOps => view.started,
               op = "startOver" => op \in Commands,
               pipe' = Append(pipe, [op |-> op, generation |-> view.generation])
        PROVE  /\ Decently'
               /\ pipe # <<>> => pipe' # <<>> /\ Head(pipe') = Head(pipe)
    <3> DEFINE e == [op |-> op, generation |-> view.generation]
    <3>1. op \in Ops
      BY Programs DEF PanelOps
    <3>2. e \in [op: Ops, generation: Nat] /\ Decent(e)
      BY <1>0, <1>8, <2>2, <3>1
    <3> HIDE DEF e
    <3>3. pipe' = Append(pipe, e)
      BY <2>2 DEF e
    <3>4. \A i \in DOMAIN pipe' : pipe'[i] = e \/ (i \in DOMAIN pipe /\ pipe'[i] = pipe[i])
      BY <1>0, <3>2, <3>3, QueueGrows
    <3>5. Decently'
      BY <1>1, <1>3, <3>2, <3>4 DEF Decently
    <3>6. pipe # <<>> => pipe' # <<>> /\ Head(pipe') = Head(pipe)
      BY <1>0, <3>2, <3>3
    <3>7. QED BY <3>5, <3>6
  <2>3. QED BY <1>2, <2>1, <2>2 DEF Writes
<1>10. view.stage = "idle" => HearReady
  <2>1. view.stage = "idle" => sent = <<>>
    BY <1>1 DEF Unopened
  <2>2. QED BY <1>0, <1>1, <2>1, OpensFirst
<1>11. HearReady => view'.stage = "other"
  BY <1>0 DEF HearReady, View
<1>12. view'.stage # "idle"
  BY <1>4, <1>10, <1>11 DEF Better
<1>13. Unopened'
  BY <1>12 DEF Unopened
<1>14. Early'
  <2>1. SUFFICES ASSUME generation = 0, trusted, ~Advancing, ~Rejoining
                 PROVE  pipe' # <<>> /\ Head(pipe').op = "reconnect"
    BY <1>3 DEF Early, Advancing, Rejoining, Left
  <2>2. CASE view.stage = "idle"
    <3>1. pipe = <<>> /\ HearReady
      BY <1>1, <1>10, <2>2 DEF Unopened
    <3>2. pipe' = Append(<<>>, [op |-> "reconnect", generation |-> view.generation])
      BY <2>1, <3>1 DEF HearReady, Send
    <3>3. QED BY <3>2
  <2>3. QED BY <1>1, <1>9, <2>1, <2>2 DEF Early
<1>15. QED BY <1>5, <1>6, <1>7, <1>9, <1>13, <1>14 DEF TrustInv

(* A command is read.                                                        *)
LEMMA TakenTrusts ==
  ASSUME PanelInv, TrustInv, TakeCommand
  PROVE  TrustInv'
<1> DEFINE c == Head(pipe)
<1>0. /\ RuntimeInv /\ TypeOK /\ generation \in Nat /\ pipe \in Seq([op: Ops, generation: Nat])
  BY DEF PanelInv, PanelTypeOK, RuntimeTypeOK, TypeOK
<1>1. /\ Honest(view) /\ (~trusted => Nothing) /\ Counted /\ LateEnds
      /\ Decently /\ Unopened /\ Early /\ (~trusted => Unconnected)
  BY DEF TrustInv, Counted, Nothing, Unconnected
<1>2. /\ pipe # <<>> /\ pipe' = Tail(pipe) /\ UNCHANGED <<view, read>>
      /\ IF c.op \in SessionBound /\ c.generation # generation
         THEN AnswerStale(c.op) ELSE Accept(c.op)
  BY DEF TakeCommand
<1>3. c.op \in Ops /\ Decent(c) /\ \A i \in DOMAIN pipe' : Decent(pipe'[i])
  <2>1. c \in [op: Ops, generation: Nat] /\ 1 \in DOMAIN pipe /\ c = pipe[1]
        /\ \A i \in DOMAIN pipe' : i + 1 \in DOMAIN pipe /\ pipe'[i] = pipe[i + 1]
    BY <1>0, <1>2, QueueShrinks
  <2> HIDE DEF c
  <2>2. QED BY <1>1, <2>1 DEF Decently
<1>4. c.op = "reconnect" <=> pipe # <<>> /\ Head(pipe).op = "reconnect"
  BY <1>2
<1> HIDE DEF c
<1>5. view.stage # "idle"
  BY <1>1, <1>2 DEF Unopened
<1>6. /\ view' = view /\ generation' = generation /\ trusted' = trusted /\ launcher' = launcher
      /\ worker' = worker /\ caller' = caller /\ target' = target /\ cmd.todo = <<>>
  BY <1>2 DEF AnswerStale, Accept, Reading, quiet, vars, cells, pairingVars
<1>7. ~Rejoining
  <2>1. Len(cmd.todo) = 0
    BY <1>6
  <2>2. QED BY <2>1 DEF Rejoining, Left
<1>8. Honest(view)' /\ Unopened'
  BY <1>1, <1>5, <1>6 DEF Honest, Unopened
<1>9. SUFFICES /\ (~trusted => Nothing)' /\ Counted' /\ cmd'.op # "startOver"
               /\ c.op = "reconnect" => Rejoining'
  <2>1. SUFFICES ASSUME cmd'.op # "startOver", c.op = "reconnect" => Rejoining'
                 PROVE  Decently' /\ Early'
    BY <1>8 DEF TrustInv
  <2>2. Decently'
    BY <1>3, <2>1 DEF Decently
  <2>3. Advancing' <=> Advancing
    BY <1>6 DEF Advancing
  <2>4. QED BY <1>1, <1>4, <1>5, <1>6, <1>7, <2>1, <2>2, <2>3 DEF Early
<1>10. ASSUME ~First', ~Second', LateEnds' PROVE Counted'
  BY <1>1, <1>6, <1>10 DEF Counted, ReadCounts, CallerCounts, WorkerCounts
<1>11. CASE c.op \in SessionBound /\ c.generation # generation
  <2>1. AnswerStale(c.op)
    BY <1>2, <1>11
  <2>2. cmd' = IdleCommand
    BY <2>1 DEF AnswerStale
  <2>3. \E type \in {"ScrcpyArgsStale", "StaleSession"} : Emit(Event(type, generation))
    BY <2>1 DEF AnswerStale
  <2>4. {"ScrcpyArgsStale", "StaleSession"} \subseteq EventTypes \ (ConnectionWords \cup EndWords)
    BY DEF EventTypes, ConnectionWords, EndWords
  <2>5. LateEnds' /\ (~trusted => Unconnected')
    BY <1>0, <1>1, <2>3, <2>4, LateEndsGrow, UnconnectedGrows
  <2>6. (~trusted => Nothing)'
    BY <1>1, <1>6, <2>2, <2>5 DEF Nothing, Unconnected, Stranger, Left, IdleCommand
  <2>7. Counted'
    <3>1. First' => First
      BY <1>6, <2>2 DEF First, Left, IdleCommand, SessionOps
    <3>2. ~Second'
      BY <2>2 DEF Second, Left, Failing, IdleCommand
    <3>3. QED BY <1>1, <1>6, <2>5, <3>1, <3>2 DEF Counted, ReadCounts, CallerCounts, WorkerCounts
  <2>8. c.op # "reconnect"
    BY <1>11 DEF SessionBound
  <2>9. cmd'.op # "startOver"
    BY <2>2 DEF IdleCommand
  <2>10. QED BY <2>6, <2>7, <2>8, <2>9
<1>12. CASE ~(c.op \in SessionBound /\ c.generation # generation)
  <2>1. /\ Accept(c.op) /\ sent' = sent
        /\ cmd'.op = c.op /\ cmd'.todo = Program[c.op] /\ cmd'.target = NoTarget
    BY <1>2, <1>12 DEF Accept, IdleCommand, vars
  <2>2. ~Left("reconnect", 5)' /\ ~Left("reconnect", 4)' /\ ~Left("stopSession", 1)'
    <3>1. ~(6 <= 5) /\ ~(6 <= 4) /\ ~(5 <= 1)
      OBVIOUS
    <3>2. c.op = "reconnect" => Len(cmd'.todo) = 6
      BY <2>1, Lengths, Zenon
    <3>3. c.op = "stopSession" => Len(cmd'.todo) = 5
      BY <2>1, Lengths, Zenon
    <3>4. QED BY <2>1, <3>1, <3>2, <3>3, Zenon DEF Left
  <2>3. c.op \in {"input", "phoneTarget"} => Len(cmd'.todo) = 3
    BY <2>1, Lengths, Zenon
  <2>4. c.op \in SessionOps => generation >= 1
    <3>1. SessionOps \subseteq SessionBound
      BY DEF SessionOps, SessionBound
    <3>2. c.op \in SessionOps => generation # 0
      BY <1>3, <1>12, <3>1 DEF Decent
    <3>3. QED BY <1>0, <3>2
  <2>6. (~trusted => Nothing)'
    BY <1>1, <1>6, <2>1, <2>2 DEF Nothing, Stranger
  <2>7. Counted'
    <3>1. First' => First \/ c.op \in SessionOps
      BY <1>6, <2>1, <2>2 DEF First
    <3>2. ~Second'
      <4>1. Failing' => Len(cmd'.todo) = 3
        BY <2>1, <2>3 DEF Failing
      <4>2. QED BY <2>1, <2>2, <4>1 DEF Second
    <3>3. QED BY <1>1, <1>6, <2>1, <2>4, <3>1, <3>2 DEF Counted, ReadCounts, CallerCounts, WorkerCounts, LateEnds
  <2>8. c.op = "reconnect" => Rejoining'
    BY <2>1, <2>2 DEF Rejoining
  <2>9. cmd'.op # "startOver"
    BY <1>3, <2>1 DEF Decent
  <2>10. QED BY <2>6, <2>7, <2>8, <2>9
<1>13. QED BY <1>11, <1>12

(* A reconnect that has a device begins by taking the next generation.       *)
LEMMA ReconnectHolds ==
  ASSUME RuntimeInv, MainStep, trusted, Rejoining
  PROVE  Rejoining' \/ generation' = generation + 1
<1>0. /\ cmd \in CommandState /\ TodoFits /\ cmd.op = "reconnect" /\ ~(Len(cmd.todo) <= 4)
  BY DEF RuntimeInv, RuntimeTypeOK, MainInv, Rejoining, Left
<1>1. cmd.todo \in Seq(MicroSteps) /\ Program["reconnect"] \in Seq(MicroSteps)
  BY <1>0, ProgramsTyped, Programs DEF CommandState
<1>2. Remains(cmd.todo, Program["reconnect"])
  BY <1>0 DEF TodoFits, Failing
<1>3. /\ Len(Program["reconnect"]) = 6 /\ Program["reconnect"][1] = "needTrusted"
      /\ Program["reconnect"][2] = "invalidate"
  BY Programs
<1>4. Len(cmd.todo) \in Nat /\ Len(cmd.todo) <= 6
  BY <1>1, <1>2, <1>3, NonEmpty, Zenon DEF Remains
<1>5. ASSUME NEW step, At(step)
      PROVE  (Len(cmd.todo) = 6 /\ step = "needTrusted") \/ step = "invalidate"
  <2>1. cmd.todo # <<>> /\ Head(cmd.todo) = step
    BY <1>5 DEF At
  <2>2. step = Program["reconnect"][6 - Len(cmd.todo) + 1]
    BY <1>1, <1>2, <1>3, <2>1, RemainsTail
  <2>3. \A n \in Nat : n <= 6 /\ ~(n <= 4) => (n = 6 /\ 6 - n + 1 = 1) \/ 6 - n + 1 = 2
    OBVIOUS
  <2>4. (Len(cmd.todo) = 6 /\ 6 - Len(cmd.todo) + 1 = 1) \/ 6 - Len(cmd.todo) + 1 = 2
    BY ONLY <1>0, <1>4, <2>3, Zenon
  <2>5. QED BY ONLY <1>3, <2>2, <2>4, Zenon
<1>6. CASE NeedTrusted
  <2>1. At("needTrusted") /\ Continue
    BY <1>6, Zenon DEF NeedTrusted
  <2>2. cmd'.op = "reconnect" /\ Len(cmd'.todo) = Len(cmd.todo) - 1
    BY <1>0, <2>1, ContinueProceeds, TodoGoesOn DEF Rejoining
  <2>3. Len(cmd'.todo) = 5 /\ ~(5 <= 4)
    <3>1. Len(cmd.todo) = 6
      BY <1>5, <2>1
    <3>2. QED BY <2>2, <3>1
  <2>4. QED BY <2>2, <2>3, Zenon DEF Rejoining, Left
<1>7. CASE MainInvalidate
  BY <1>7 DEF MainInvalidate, Invalidate
<1>8. CASE InSessionControl
  BY <1>8 DEF InSessionControl, Rejoining, Left
<1>9. {"refuseIfLive", "readTarget", "needTarget", "stop", "restart", "acknowledge", "cancel",
        "retire", "supersede", "startQr", "cancelQr", "crossFlow", "lockFlow", "unlockFlow",
        "forget", "store", "adb", "reply", "replyFailed", "launch"}
         \cap {"needTrusted", "invalidate"} = {}
  OBVIOUS
<1>10. \A step \in {"refuseIfLive", "readTarget", "needTarget", "stop", "restart", "acknowledge",
        "cancel", "retire", "supersede", "startQr", "cancelQr", "crossFlow", "lockFlow",
        "unlockFlow", "forget", "store", "adb", "reply", "replyFailed", "launch"} : ~At(step)
  BY <1>5, <1>9, Zenon
<1>11. QED
  BY <1>6, <1>7, <1>8, <1>10
     DEF MainStep, RefuseIfLive, ReadTarget, NeedTarget, MainStop,
         MainRestart, Acknowledge, CancelToken, Retire, Supersede, StartQr, CancelQr, CrossFlow,
         LockFlow, UnlockFlow, Forget, UseStore, RunInput, ReadGeneration, Reply, ReplyFailed, Launch

(* A pairing that has remembered its device takes the next generation.        *)
LEMMA AdvanceHolds ==
  ASSUME RuntimeTypeOK, NEW w \in Sessions, NEW v \in Sessions, launcher[w].step = "advance",
         LauncherStep(v) \/ PhoneStep(v) \/ LifetimeExpires(v) \/ SessionWorkerStep(v)
           \/ SessionChildStep(v)
  PROVE  launcher'[w].step = "advance" \/ (AdvanceGeneration(w) /\ generation' = generation + 1)
<1>1. launcher \in [Sessions -> LauncherState]
  BY DEF RuntimeTypeOK
<1>2. CASE launcher' = launcher
  BY <1>2
<1>3. CASE v # w
  BY <1>1, <1>3
     DEF LauncherStep, PhoneStep, LifetimeExpires, EnterFlow, TellProgress, FlowCancelled,
         ClaimPairing, LosePairing, StartDisconnect, Disconnected, DropQr, SaveDevice,
         RememberDevice, AdvanceGeneration, ReportLinked, StartSession, ReportPairingOver,
         FailReconnect, TellFailure, DropReconnect, ReportProgress, FlowFails, FlowTimesOut,
         FlowLinks, LeaveFlow, SessionWorkerStep, SessionChildStep, LGoto, LFinish
<1>4. CASE v = w /\ launcher' # launcher
  <2>1. AdvanceGeneration(w)
    BY <1>4
       DEF LauncherStep, PhoneStep, LifetimeExpires, EnterFlow, TellProgress, FlowCancelled,
           ClaimPairing, LosePairing, StartDisconnect, Disconnected, DropQr, SaveDevice,
           RememberDevice, ReportLinked, StartSession, ReportPairingOver,
           FailReconnect, TellFailure, DropReconnect, ReportProgress, FlowFails, FlowTimesOut,
           FlowLinks, LeaveFlow, SessionWorkerStep, SessionChildStep
  <2>2. QED BY <2>1 DEF AdvanceGeneration, Advance
<1>5. QED BY <1>2, <1>3, <1>4

(* Before anything was asked the helper does nothing.                         *)
LEMMA NothingToDo ==
  ASSUME PanelTypeOK, cmd.todo = <<>>, caller.step = "idle",
         \A w \in Sessions : launcher[w].step = "idle" /\ worker[w].step = "idle", OwnStep
  PROVE  UNCHANGED <<vars, launcher, cmd>>
<1>1. ~MainStep
  BY DEF MainStep, RefuseIfLive, NeedTrusted, ReadTarget, NeedTarget, MainStop, MainInvalidate,
         MainRestart, Acknowledge, CancelToken, Retire, Supersede, StartQr, CancelQr, CrossFlow,
         LockFlow, UnlockFlow, Forget, UseStore, RunInput, ReadGeneration, Reply, ReplyFailed, Launch, At,
         InSessionControl, CallerStep, CrossBarrier, ResetTarget, RenewToken, Restart
<1>2. ASSUME NEW w \in Sessions PROVE ~(SessionWorkerStep(w) \/ SessionChildStep(w))
  BY StepSets
     DEF SessionWorkerStep, SessionChildStep, WorkerStep, ScrcpyStep, SpawnStale,
         SpawnCurrent, LockRunner, SetTarget, RefuseStart, AdmitStart, Announce, RunScrcpy,
         RunStopped, ConfirmStarted, StartDeadline, ExitSuperseded, ClaimRetry, KeepResult,
         EndSilently, ClaimEnd, ClearTarget, ReportEnd, CaptureReady, RunUnavailable, ScrcpyExits
<1>3. ASSUME NEW w \in Sessions PROVE ~(LauncherStep(w) \/ PhoneStep(w))
  BY DEF LauncherStep, PhoneStep, EnterFlow, TellProgress, FlowCancelled,
         ClaimPairing, LosePairing, StartDisconnect, Disconnected, DropQr, SaveDevice,
         RememberDevice, AdvanceGeneration, ReportLinked, StartSession, ReportPairingOver,
         FailReconnect, TellFailure, DropReconnect, ReportProgress, FlowFails, FlowTimesOut,
         FlowLinks, LeaveFlow
<1>4. PICK w \in Sessions : LifetimeExpires(w)
  BY <1>1, <1>2, <1>3 DEF OwnStep
<1>5. QED BY <1>4 DEF LifetimeExpires

(* A step of the helper.                                                      *)
LEMMA HelperTrusts ==
  ASSUME PanelInv, TrustInv, HelperStep
  PROVE  TrustInv'
<1>0. /\ RuntimeInv /\ PanelTypeOK /\ RuntimeTypeOK /\ TypeOK /\ generation \in Nat
      /\ launcher \in [Sessions -> LauncherState] /\ trusted \in BOOLEAN
  BY DEF PanelInv, RuntimeInv, RuntimeTypeOK, TypeOK
<1>1. /\ Honest(view) /\ (~trusted => Nothing) /\ Counted
      /\ Decently /\ Unopened /\ Early
  BY DEF TrustInv
<1>2. OwnStep /\ Driven /\ view' = view /\ pipe' = pipe
  BY HelperStepInv DEF HelperStep, panelVars
<1>3. GenerationGoesOn /\ generation' \in Nat /\ generation <= generation'
  BY <1>0, <1>2, DrivenCounts, Onward
<1>4. cmd.op # "startOver"
  BY <1>1 DEF Decently
<1>5. cmd'.op # "startOver"
  <2>1. CASE cmd' = cmd
    BY <1>4, <2>1
  <2>2. CASE MainStep
    <3>1. cmd'.op \in {cmd.op, "none"}
      <4>1. cmd \in CommandState /\ TodoFits
        BY <1>0 DEF RuntimeInv, RuntimeTypeOK, MainInv
      <4>2. [cmd EXCEPT !.todo = FailedInput, !.read = FALSE].op = cmd.op
        BY <4>1 DEF CommandState
      <4>3. QED BY <1>0, <2>2, <4>1, <4>2, IdleTodo, MainFollows
               DEF CommandKept, Follow, Proceeds, RuntimeInv, MainInv
    <3>2. QED BY <1>4, <3>1
  <2>3. QED BY <1>2, <2>1, <2>2, CommandStays DEF OwnStep
<1>6. \/ trusted' = trusted
      \/ trusted' /\ ~trusted /\ \E w \in Sessions : launcher'[w].step = "advance"
  <2>1. CASE MainStep
    BY <1>0, <1>4, <2>1, MainTrusts
  <2>2. ASSUME NEW w \in Sessions, RememberDevice(w) PROVE launcher'[w].step = "advance"
    <3>1. "advance" \in LauncherSteps
      BY LauncherValues
    <3>2. QED BY <1>0, <2>2, <3>1, GoesOn DEF RememberDevice, LauncherGoes
  <2>3. QED BY <1>0, <1>2, <2>1, <2>2, WorkersTrust DEF OwnStep
<1>7. Honest(view)'
  BY <1>0, <1>1, <1>2, <1>6 DEF Honest
<1>8. (~trusted => Nothing)'
  <2>1. SUFFICES ASSUME ~trusted' PROVE Nothing'
    OBVIOUS
  <2>2. ~trusted /\ Nothing
    BY <1>0, <1>1, <1>6, <2>1
  <2>3. QED BY <1>0, <1>2, <1>4, <2>1, <2>2, MainStrange, WorkersStrange DEF OwnStep
<1>9. Counted'
  BY <1>0, <1>1, <1>2, <1>3, MainStepCounts, SessionCounts, LauncherCounts DEF OwnStep
<1>10. Decently'
  BY <1>1, <1>2, <1>5 DEF Decently
<1>11. Unopened'
  <2>1. SUFFICES ASSUME view.stage = "idle" PROVE UNCHANGED <<vars, launcher, cmd>>
    BY <1>1, <1>2 DEF Unopened, vars
  <2>2. QED BY <1>0, <1>1, <1>2, <2>1, NothingToDo DEF Unopened
<1>12. Early'
  <2>1. SUFFICES ASSUME generation' = 0, trusted', ~Advancing', view.stage # "idle",
                        ~(pipe # <<>> /\ Head(pipe).op = "reconnect")
                 PROVE  Rejoining'
    BY <1>2 DEF Early
  <2>2. generation = 0 /\ generation' # generation + 1
    BY <1>0, <1>3, <2>1
  <2>3. trusted
    BY <1>6, <2>1 DEF Advancing
  <2>4. Advancing \/ Rejoining
    BY <1>1, <2>1, <2>2, <2>3 DEF Early
  <2>5. CASE Rejoining
    <3>1. CASE MainStep
      BY <1>0, <2>2, <2>3, <2>5, <3>1, ReconnectHolds
    <3>2. CASE cmd' = cmd
      BY <2>5, <3>2 DEF Rejoining, Left
    <3>3. QED BY <1>2, <3>1, <3>2, CommandStays DEF OwnStep
  <2>6. CASE Advancing
    <3>1. PICK w \in Sessions : launcher[w].step = "advance"
      BY <2>6 DEF Advancing
    <3>2. ~MainStep
      <4>1. SUFFICES ASSUME MainStep PROVE launcher'[w].step = "advance"
        BY <2>1 DEF Advancing
      <4>2. ASSUME NEW v \in Sessions, Launch(v) PROVE launcher'[w].step = "advance"
        BY <1>0, <3>1, <4>2 DEF Launch
      <4>3. launcher' = launcher \/ \E v \in Sessions : Launch(v)
        BY <4>1
           DEF MainStep, RefuseIfLive, NeedTrusted, ReadTarget, NeedTarget, MainStop,
               MainInvalidate, MainRestart, Acknowledge, CancelToken, Retire, Supersede, StartQr,
               CancelQr, CrossFlow, LockFlow, UnlockFlow, Forget, UseStore, RunInput, ReadGeneration, Reply,
               ReplyFailed, InSessionControl
      <4>4. QED BY <3>1, <4>2, <4>3
    <3>3. QED BY <1>0, <1>2, <2>1, <2>2, <3>1, <3>2, AdvanceHolds DEF OwnStep, Advancing
  <2>7. QED BY <2>4, <2>5, <2>6
<1>13. QED BY <1>7, <1>8, <1>9, <1>10, <1>11, <1>12 DEF TrustInv

(* The panel opens.                                                           *)
LEMMA TrustStart == PanelInit => TrustInv
<1> SUFFICES ASSUME PanelInit PROVE TrustInv
  OBVIOUS
<1>1. RuntimeInit /\ Init /\ view = InitialView /\ pipe = <<>>
  BY DEF PanelInit, RuntimeInit
<1>2. /\ sent = <<>> /\ cmd = IdleCommand /\ target = NoTarget
      /\ caller = IdleCaller
      /\ \A w \in Sessions : launcher[w] = IdleLauncher /\ worker[w] = IdleWorker
  BY <1>1 DEF RuntimeInit, Init
<1>3. /\ \A w \in Sessions : /\ launcher[w].step = "idle" /\ launcher[w].kind = "none"
                             /\ worker[w].step = "idle"
      /\ cmd.todo = <<>> /\ cmd.op = "none" /\ cmd.target = NoTarget
      /\ caller.step = "idle" /\ caller.target = NoTarget
  BY <1>2 DEF IdleLauncher, IdleWorker, IdleCommand, IdleCaller
<1>4. Honest(view) /\ view.stage = "idle"
  BY <1>1 DEF Honest, InitialView
<1>5. Nothing
  BY <1>2, <1>3 DEF Nothing, Stranger, Left
<1>6. Counted
  BY <1>2, <1>3
     DEF Counted, First, Second, Left, Failing, SessionOps, CallerCounts, LateEnds, ReadCounts,
         WorkerCounts
<1>7. Decently /\ Unopened /\ Early
  BY <1>1, <1>2, <1>3, <1>4 DEF Decently, Unopened, Early
<1>8. QED BY <1>4, <1>5, <1>6, <1>7 DEF TrustInv

(* Every step keeps it.                                                     *)
LEMMA TrustNext ==
  ASSUME PanelInv, TrustInv, "startOver" \notin Commands, [PanelNext]_sessionVars
  PROVE  TrustInv'
<1>1. CASE UNCHANGED sessionVars
  <2>1. /\ sent' = sent /\ cmd' = cmd /\ caller' = caller /\ worker' = worker
        /\ launcher' = launcher /\ target' = target /\ generation' = generation
        /\ trusted' = trusted /\ view' = view /\ pipe' = pipe
    BY <1>1 DEF sessionVars, runtimeVars, panelVars, vars, cells, pairingVars
  <2>2. (Honest(view) /\ (~trusted => Nothing))'
    BY <2>1 DEF TrustInv, Honest, Nothing, Stranger, Left
  <2>3. (First' <=> First) /\ (Second' <=> Second)
    BY <2>1 DEF First, Second, Left, Failing, Remains
  <2>4. Counted'
    BY <2>1, <2>3 DEF TrustInv, Counted, ReadCounts, CallerCounts, LateEnds, WorkerCounts
  <2>5. (Decently /\ Unopened /\ Early)'
    BY <2>1 DEF TrustInv, Decently, Unopened, Early, Advancing, Rejoining, Left
  <2>6. QED BY <2>2, <2>4, <2>5 DEF TrustInv
<1>2. QED BY <1>1, PanelTrusts, TakenTrusts, HelperTrusts DEF PanelNext

(* A panel that has read all there is knows the device of the helper.       *)
LEMMA TrustedShown ==
  ASSUME PanelInv, TrustInv, InSync
  PROVE  view.trusted <=> trusted
<1>0. view \in View /\ trusted \in BOOLEAN /\ view.trusted \in BOOLEAN
  BY Fields DEF PanelInv, PanelTypeOK, RuntimeTypeOK
<1>1. /\ view.stage # "idle" /\ pipe = <<>> /\ cmd.todo = <<>> /\ view.ready
      /\ view.generation = generation
      /\ \A w \in Sessions : launcher[w].step \in {"idle", "talk", "pairing"}
  BY DEF InSync, Settled, Waits
<1>2. ~Advancing
  BY <1>1 DEF Advancing
<1>3. ~Rejoining
  <2>1. Len(cmd.todo) = 0
    BY <1>1
  <2>2. QED BY <2>1 DEF Rejoining, Left
<1>4. ~trusted => ~view.trusted
  BY DEF TrustInv, Honest
<1>5. ~view.trusted => ~trusted
  <2>1. SUFFICES ASSUME ~view.trusted, trusted PROVE FALSE
    OBVIOUS
  <2>2. generation = 0
    BY <1>1, <2>1 DEF TrustInv, Honest
  <2>3. QED BY <1>1, <1>2, <1>3, <2>1, <2>2 DEF TrustInv, Early
<1>6. QED BY <1>0, <1>4, <1>5

(* What the panel says of the trusted device is so, while no Start Over is   *)
(* used (PairingState.qml:724-757, 782-834).                                 *)
THEOREM DeviceShown == PanelSpec => []TrustAgrees
<1>1. CASE "startOver" \in Commands
  <2>1. PanelInv => TrustAgrees
    BY <1>1 DEF TrustAgrees
  <2>2. QED BY <2>1, PanelInvariant, PTL
<1>2. CASE "startOver" \notin Commands
  <2>1. PanelInv /\ TrustInv /\ [PanelNext]_sessionVars => TrustInv'
    BY <1>2, TrustNext
  <2>2. PanelInv /\ TrustInv => TrustAgrees
    BY TrustedShown DEF TrustAgrees
  <2>3. QED BY <2>1, <2>2, TrustStart, PanelInvariant, PTL DEF PanelSpec
<1>3. QED BY <1>1, <1>2

-----------------------------------------------------------------------------
(* A QR code that the panel shows before the first session is one that a     *)
(* pairing waits for.                                                        *)
(* A command of these with as many steps left.                               *)
Rest(ops, lo, hi) == cmd.op \in ops /\ Len(cmd.todo) \in lo..hi

(* The steps of the pairing commands, as Place has the others.               *)
PairingPlace(op, n, step) ==
  /\ step = "supersede" <=>
       (op \in {"startQrPairing", "submitManualCode"} /\ n = 4) \/ (op = "reconnect" /\ n = 3)
  /\ step = "startQr" <=> op = "startQrPairing" /\ n = 3
  /\ step = "cancelQr" <=>
       \/ op = "submitManualCode" /\ n = 3
       \/ op \in {"cancelPairing", "useManualCode", "startOver", "shutdown"} /\ n = 2

(* Which step comes where, in the programs of the pairing commands.         *)
LEMMA PairingPlaces ==
  ASSUME NEW op \in Ops, NEW n \in 1..Len(Program[op])
  PROVE  PairingPlace(op, n, Program[op][Len(Program[op]) - n + 1])
<1>1. CASE op = "startQrPairing"
  BY <1>1 DEF Program, PairingPlace
<1>2. CASE op = "submitManualCode"
  BY <1>2 DEF Program, PairingPlace
<1>3. CASE op = "cancelPairing"
  BY <1>3 DEF Program, PairingPlace
<1>4. CASE op = "useManualCode"
  BY <1>4 DEF Program, PairingPlace
<1>5. CASE op = "reconnect"
  BY <1>5 DEF Program, PairingPlace
<1>6. CASE op = "stopSession"
  BY <1>6 DEF Program, PairingPlace
<1>7. CASE op = "startOver"
  BY <1>7 DEF Program, PairingPlace
<1>8. CASE op = "setPreferences"
  BY <1>8 DEF Program, PairingPlace
<1>9. CASE op = "setScrcpyArgs"
  BY <1>9 DEF Program, PairingPlace
<1>10. CASE op = "input"
  BY <1>10 DEF Program, PairingPlace
<1>11. CASE op = "phoneTarget"
  BY <1>11 DEF Program, PairingPlace
<1>12. CASE op = "previewReady"
  BY <1>12 DEF Program, PairingPlace
<1>13. CASE op = "shutdown"
  BY <1>13 DEF Program, PairingPlace
<1>14. QED
  BY <1>1, <1>2, <1>3, <1>4, <1>5, <1>6, <1>7, <1>8, <1>9, <1>10, <1>11, <1>12, <1>13, Programs

(* Where the main thread is, outside a failed input.                         *)
LEMMA PairingNow ==
  ASSUME cmd \in CommandState, TodoFits, NEW step, At(step), ~Failing
  PROVE  /\ Place(cmd.op, Len(cmd.todo), step) /\ PairingPlace(cmd.op, Len(cmd.todo), step)
         /\ Len(cmd.todo) \in Nat \ {0}
<1>1. /\ cmd.op \in Ops /\ cmd.todo \in Seq(MicroSteps) /\ cmd.todo # <<>>
      /\ Head(cmd.todo) = step /\ Len(cmd.todo) \in Nat \ {0}
  BY TodoNow DEF At, CommandState
<1>2. Program[cmd.op] \in Seq(MicroSteps) /\ Remains(cmd.todo, Program[cmd.op])
  BY <1>1, ProgramsTyped, Programs DEF TodoFits
<1>3. /\ Len(cmd.todo) \in 1..Len(Program[cmd.op])
      /\ step = Program[cmd.op][Len(Program[cmd.op]) - Len(cmd.todo) + 1]
  BY <1>1, <1>2, RemainsTail
<1>4. PairingPlace(cmd.op, Len(cmd.todo), step)
  BY <1>1, <1>3, PairingPlaces
<1>5. Place(cmd.op, Len(cmd.todo), step)
  BY <1>1, <1>3, Places
<1>6. QED BY <1>1, <1>4, <1>5

(* A command that goes on has one step less.                                 *)
LEMMA RestBefore ==
  ASSUME cmd \in CommandState, TodoFits, NEW step, At(step), Proceeds,
         NEW ops, NEW lo \in Nat, NEW hi \in Nat, Rest(ops, lo, hi)'
  PROVE  Rest(ops, lo + 1, hi + 1)
<1>1. cmd'.op = cmd.op /\ Len(cmd'.todo) = Len(cmd.todo) - 1 /\ Len(cmd.todo) \in Nat
  BY TodoNow, TodoGoesOn
<1>2. cmd'.op \in ops /\ Len(cmd'.todo) \in lo..hi
  BY DEF Rest
<1>3. \A n \in Nat : n - 1 \in lo..hi => n \in lo + 1..hi + 1
  OBVIOUS
<1>4. QED BY <1>1, <1>2, <1>3, Zenon DEF Rest

(* A command that is under way stays so until its last step.                *)
LEMMA RestAfter ==
  ASSUME cmd \in CommandState, TodoFits, NEW step, At(step), Proceeds,
         NEW ops, NEW lo \in Nat, NEW hi \in Nat, Rest(ops, lo, hi)
  PROVE  Rest(ops, lo, hi)' \/ Len(cmd.todo) = lo
<1>1. cmd'.op = cmd.op /\ Len(cmd'.todo) = Len(cmd.todo) - 1 /\ Len(cmd.todo) \in Nat
  BY TodoNow, TodoGoesOn
<1>2. cmd.op \in ops /\ Len(cmd.todo) \in lo..hi
  BY DEF Rest
<1>3. \A n \in Nat : n \in lo..hi => n - 1 \in lo..hi \/ n = lo
  OBVIOUS
<1>4. QED BY <1>1, <1>2, <1>3, Zenon DEF Rest

(* What the main thread does to the pairing generation and to the workers.   *)
LEMMA MainPairs ==
  ASSUME MainStep
  PROVE  /\ (pairing' = pairing /\ pairingToken' = pairingToken) \/ Retire \/ Supersede
         /\ launcher' = launcher \/ \E w \in Sessions : Launch(w)
BY DEF MainStep, RefuseIfLive, NeedTrusted, ReadTarget, NeedTarget, MainStop, MainInvalidate,
       MainRestart, Acknowledge, CancelToken, StartQr, CancelQr, CrossFlow, LockFlow, UnlockFlow,
       Forget, UseStore, RunInput, ReadGeneration, Reply, ReplyFailed, InSessionControl, Launch, pairingVars,
       Retire, Supersede

(* What a worker does to the pairing generation and to the others.           *)
BeforeClaim == {"flow", "talk", "progress", "pairing", "claim"}
Gone(w) == launcher'[w].step = "idle" /\ launcher'[w].pairing = 0

(* What a worker does to a pairing: it keeps it or leaves it.               *)
LEMMA WorkerPairs ==
  ASSUME RuntimeTypeOK, NEW w \in Sessions,
         LauncherStep(w) \/ PhoneStep(w) \/ LifetimeExpires(w) \/ SessionWorkerStep(w)
           \/ SessionChildStep(w)
  PROVE  /\ pairingToken' = pairingToken
         /\ pairing' = pairing \/ ClaimPairing(w)
         /\ \A v \in Sessions \ {w} : launcher'[v] = launcher[v]
         /\ \/ Gone(w)
            \/ /\ launcher'[w].pairing = launcher[w].pairing
               /\ launcher'[w].step \in BeforeClaim => launcher[w].step \in BeforeClaim
<1>0. launcher \in [Sessions -> LauncherState] /\ launcher[w] \in LauncherState
  BY DEF RuntimeTypeOK
<1>1. pairingToken' = pairingToken /\ (pairing' = pairing \/ ClaimPairing(w))
  BY DEF LauncherStep, PhoneStep, LifetimeExpires, EnterFlow, TellProgress, FlowCancelled,
         LosePairing, StartDisconnect, Disconnected, DropQr, SaveDevice, ClaimPairing,
         RememberDevice, AdvanceGeneration, ReportLinked, StartSession, ReportPairingOver,
         FailReconnect, TellFailure, DropReconnect, ReportProgress, FlowFails, FlowTimesOut,
         FlowLinks, LeaveFlow, SessionWorkerStep, SessionChildStep, pairingVars
<1>2. \A v \in Sessions \ {w} : launcher'[v] = launcher[v]
  BY <1>0
     DEF LauncherStep, PhoneStep, LifetimeExpires, EnterFlow, TellProgress, FlowCancelled,
         ClaimPairing, LosePairing, StartDisconnect, Disconnected, DropQr, SaveDevice,
         RememberDevice, AdvanceGeneration, ReportLinked, StartSession, ReportPairingOver,
         FailReconnect, TellFailure, DropReconnect, ReportProgress, FlowFails, FlowTimesOut,
         FlowLinks, LeaveFlow, SessionWorkerStep, SessionChildStep, LGoto, LFinish
<1>3. CASE launcher' = launcher
  BY <1>1, <1>2, <1>3
<1>4. CASE LFinish(w)
  <2>1. Gone(w)
    BY <1>0, <1>4 DEF LFinish, IdleLauncher, Gone
  <2>2. QED BY <1>1, <1>2, <2>1
<1>5. ASSUME NEW l, launcher' = [launcher EXCEPT ![w] = l], l.pairing = launcher[w].pairing,
             l.step \in BeforeClaim => launcher[w].step \in BeforeClaim
      PROVE  /\ launcher'[w].pairing = launcher[w].pairing
             /\ launcher'[w].step \in BeforeClaim => launcher[w].step \in BeforeClaim
  BY <1>0, <1>5
<1>6. ASSUME NEW s, LGoto(w, s), s \in BeforeClaim => launcher[w].step \in BeforeClaim
      PROVE  /\ launcher'[w].pairing = launcher[w].pairing
             /\ launcher'[w].step \in BeforeClaim => launcher[w].step \in BeforeClaim
  <2>1. launcher' = [launcher EXCEPT ![w] = [launcher[w] EXCEPT !.step = s]]
    BY <1>0, <1>6 DEF LGoto
  <2>2. [launcher[w] EXCEPT !.step = s].pairing = launcher[w].pairing
        /\ [launcher[w] EXCEPT !.step = s].step = s
    BY <1>0 DEF LauncherState
  <2>3. QED BY <1>5, <1>6, <2>1, <2>2
<1>7. CASE \E s : LGoto(w, s) /\ (s \in BeforeClaim => launcher[w].step \in BeforeClaim)
  BY <1>1, <1>2, <1>6, <1>7
<1>8. CASE FlowCancelled(w) \/ FlowFails(w) \/ FlowTimesOut(w) \/ \E t \in Targets : FlowLinks(w, t)
  <2>1. PICK o, t : /\ launcher' = [launcher EXCEPT ![w].step = "claim", ![w].outcome = o,
                                                    ![w].target = t]
                    /\ launcher[w].step \in {"talk", "pairing"}
    BY <1>8 DEF FlowCancelled, FlowFails, FlowTimesOut, FlowLinks, LeaveFlow
  <2>2. launcher'[w].pairing = launcher[w].pairing /\ launcher[w].step \in BeforeClaim
    BY <1>0, <2>1 DEF LauncherState, BeforeClaim
  <2>3. QED BY <1>1, <1>2, <2>2
<1>9. CASE SaveDevice(w) \/ AdvanceGeneration(w) \/ FailReconnect(w)
  <2>1. /\ launcher'[w].pairing = launcher[w].pairing
        /\ launcher'[w].step \in {"remember", "report", "tell"}
    BY <1>0, <1>9 DEF SaveDevice, AdvanceGeneration, FailReconnect, LauncherState, LGoto
  <2>2. QED BY <1>1, <1>2, <2>1 DEF BeforeClaim
<1>10. CASE EnterFlow(w) \/ ReportProgress(w) \/ TellProgress(w) \/ ClaimPairing(w) \/ StartDisconnect(w)
            \/ DropQr(w) \/ RememberDevice(w) \/ ReportLinked(w)
  BY <1>7, <1>10 DEF EnterFlow, ReportProgress, TellProgress, ClaimPairing, StartDisconnect, DropQr,
                     RememberDevice, ReportLinked, BeforeClaim
<1>11. CASE LosePairing(w) \/ Disconnected(w) \/ StartSession(w) \/ ReportPairingOver(w)
            \/ TellFailure(w) \/ DropReconnect(w)
  BY <1>4, <1>7, <1>11 DEF LosePairing, Disconnected, StartSession, ReportPairingOver, TellFailure,
                           DropReconnect, BeforeClaim
<1>12. CASE LifetimeExpires(w) \/ SessionWorkerStep(w) \/ SessionChildStep(w)
  BY <1>3, <1>12 DEF LifetimeExpires, SessionWorkerStep, SessionChildStep
<1>13. QED BY <1>8, <1>9, <1>10, <1>11, <1>12 DEF LauncherStep, PhoneStep

(* A reconnect and a Start Over have ended the session before they touch the
   pairing; a pairing that is about to be launched is the latest one, and no
   worker has it yet; two workers never hope for the same pairing.           *)
Superseded == Rest({"startQrPairing", "submitManualCode"}, 1, 3) \/ Rest({"reconnect"}, 1, 2)
PastFirst == Rest({"reconnect", "startOver"}, 0, 4) => generation >= 1
Fresh == Superseded => pairing = pairingToken /\ \A w \in Sessions : launcher[w].pairing < pairing
ApartPairings ==
  \A v, w \in Sessions :
    v # w /\ launcher[v].step \in BeforeClaim /\ launcher[w].step \in BeforeClaim =>
      launcher[v].pairing # launcher[w].pairing
PairingInv == PastFirst /\ Fresh /\ ApartPairings

(* What the main thread is about to do is what it does.                      *)
LEMMA MainDoes ==
  ASSUME MainStep, cmd' # cmd, ~ReadGeneration
  PROVE  /\ At(Head(cmd.todo))
         /\ At("supersede") => Supersede
         /\ At("startQr") => StartQr
         /\ At("cancelQr") => CancelQr
         /\ At("crossFlow") => CrossFlow
         /\ At("reply") => Reply
         /\ At("invalidate") => MainInvalidate
         /\ At("launch") => \E w \in Sessions : Launch(w)
<1>1. ASSUME NEW s, At(s) PROVE \A t : At(t) => t = s
  BY <1>1 DEF At
<1>2. ~InSessionControl
  BY DEF InSessionControl
<1>3. /\ RefuseIfLive => At("refuseIfLive")
      /\ NeedTrusted => At("needTrusted")
      /\ ReadTarget => At("readTarget")
      /\ NeedTarget => At("needTarget")
      /\ MainStop => At("stop")
      /\ MainInvalidate => At("invalidate")
      /\ MainRestart => At("restart")
      /\ Acknowledge => At("acknowledge")
      /\ CancelToken => At("cancel")
      /\ Retire => At("retire")
      /\ Supersede => At("supersede")
      /\ StartQr => At("startQr")
      /\ CancelQr => At("cancelQr")
      /\ CrossFlow => At("crossFlow")
      /\ LockFlow => At("lockFlow")
      /\ UnlockFlow => At("unlockFlow")
      /\ Forget => At("forget")
      /\ UseStore => At("store")
      /\ RunInput => At("adb")
      /\ Reply => At("reply")
      /\ ReplyFailed => At("replyFailed")
      /\ \A w \in Sessions : Launch(w) => At("launch")
  BY DEF RefuseIfLive, NeedTrusted, ReadTarget, NeedTarget, MainStop, MainInvalidate,
         MainRestart, Acknowledge, CancelToken, Retire, Supersede, StartQr, CancelQr, CrossFlow,
         LockFlow, UnlockFlow, Forget, UseStore, RunInput, ReadGeneration, Reply, ReplyFailed, Launch
<1>4. At(Head(cmd.todo))
  <2>1. \E s : At(s)
    BY <1>2, <1>3 DEF MainStep
  <2>2. QED BY <2>1 DEF At
<1>5. QED BY <1>1, <1>2, <1>3, <1>4 DEF MainStep

(* The main thread keeps it ...                                             *)
LEMMA MainKeepsPairings ==
  ASSUME RuntimeInv, MainStep, GenerationGoesOn, PairingInv
  PROVE  PairingInv'
<1>0. /\ RuntimeTypeOK /\ TypeOK /\ TodoFits /\ cmd \in CommandState /\ PairingsPast
      /\ launcher \in [Sessions -> LauncherState] /\ pairing \in Nat
      /\ generation \in Nat /\ generation' \in Nat /\ generation <= generation'
      /\ PastFirst /\ Fresh /\ ApartPairings
  BY Onward DEF RuntimeInv, RuntimeTypeOK, TypeOK, MainInv, LauncherInv, PairingInv
<1>1. /\ (pairing' = pairing /\ pairingToken' = pairingToken) \/ Retire \/ Supersede
      /\ launcher' = launcher \/ \E w \in Sessions : Launch(w)
  BY MainPairs
<1>2. ASSUME NEW step, At(step), Proceeds
      PROVE  /\ cmd'.op = cmd.op /\ Len(cmd'.todo) = Len(cmd.todo) - 1 /\ Len(cmd.todo) \in Nat \ {0}
             /\ cmd.op \notin {"input", "phoneTarget"} => /\ Place(cmd.op, Len(cmd.todo), step)
                                                         /\ PairingPlace(cmd.op, Len(cmd.todo), step)
  BY <1>0, <1>2, TodoNow, TodoGoesOn, PairingNow DEF Failing
<1>3. CASE CommandKept
  <2>1. ~Retire /\ ~Supersede /\ \A w \in Sessions : ~Launch(w)
    <3>1. SUFFICES ASSUME NEW step, At(step), Continue PROVE FALSE
      BY DEF Retire, Supersede, Launch
    <3>2. Len(cmd'.todo) = Len(cmd.todo) - 1 /\ Len(cmd.todo) \in Nat
      BY <1>0, <1>2, <3>1, ContinueProceeds
    <3>3. QED BY <1>3, <3>2 DEF CommandKept
  <2>2. pairing' = pairing /\ pairingToken' = pairingToken /\ launcher' = launcher
    BY <1>1, <2>1
  <2>3. \A ops, lo, hi : Rest(ops, lo, hi)' <=> Rest(ops, lo, hi)
    BY <1>3 DEF CommandKept, Rest
  <2>4. PastFirst'
    BY <1>0, <2>3 DEF PastFirst
  <2>5. Superseded' <=> Superseded
    BY <1>3 DEF CommandKept, Superseded, Rest
  <2>6. Fresh'
    <3>1. SUFFICES ASSUME Superseded'
                   PROVE  /\ pairing' = pairingToken'
                          /\ \A w \in Sessions : launcher'[w].pairing < pairing'
      BY DEF Fresh
    <3>2. pairing = pairingToken /\ \A w \in Sessions : launcher[w].pairing < pairing
      BY <1>0, <2>5, <3>1 DEF Fresh
    <3>3. QED BY <2>2, <3>2
  <2>7. ApartPairings'
    BY <1>0, <2>2 DEF ApartPairings
  <2>8. QED BY <2>4, <2>6, <2>7 DEF PairingInv
<1>4. CASE ~Superseded' /\ ~Rest({"reconnect", "startOver"}, 0, 4)' /\ launcher' = launcher
  BY <1>0, <1>4 DEF PairingInv, PastFirst, Fresh, ApartPairings
<1>5. CASE cmd' = IdleCommand \/ (cmd.op \in {"input", "phoneTarget"}
                                    /\ cmd' = [cmd EXCEPT !.todo = FailedInput, !.read = FALSE])
  <2>1. cmd'.op \in {"none", "input", "phoneTarget"}
    <3>1. IdleCommand.op = "none"
      BY DEF IdleCommand
    <3>2. [cmd EXCEPT !.todo = FailedInput, !.read = FALSE].op = cmd.op
      BY <1>0 DEF CommandState
    <3>3. QED BY <1>5, <3>1, <3>2
  <2>2. ASSUME NEW w \in Sessions, Launch(w) PROVE FALSE
    <3>1. At("launch") /\ Proceeds
      BY <1>0, <2>2, ContinueProceeds DEF Launch
    <3>2. cmd.op \in {"startQrPairing", "submitManualCode", "reconnect"}
      BY <1>0, <3>1, TodoNow DEF Place
    <3>3. QED BY <1>2, <2>1, <3>1, <3>2
  <2>3. ~Superseded' /\ ~Rest({"reconnect", "startOver"}, 0, 4)'
    BY <2>1 DEF Superseded, Rest
  <2>4. QED BY <1>1, <1>4, <2>2, <2>3
<1>6. ASSUME NEW step, Follow(step) PROVE PairingInv'
  <2>0. At(step) /\ Proceeds /\ {0, 1, 2, 3, 4} \subseteq Nat
    BY <1>6 DEF Follow
  <2>1. PastFirst'
    <3>1. SUFFICES ASSUME Rest({"reconnect", "startOver"}, 0, 4)' PROVE generation' >= 1
      BY DEF PastFirst
    <3>2. cmd.op \in {"reconnect", "startOver"} /\ Len(cmd.todo) \in 1..5
      <4>1. Rest({"reconnect", "startOver"}, 0 + 1, 4 + 1)
        BY <1>0, <2>0, <3>1, RestBefore
      <4>2. QED BY <4>1 DEF Rest
    <3>3. CASE Len(cmd.todo) \in 0..4
      BY <1>0, <3>2, <3>3 DEF PastFirst, Rest
    <3>4. CASE Len(cmd.todo) = 5
      <4>1. step = "invalidate"
        BY <1>2, <2>0, <3>2, <3>4 DEF Place
      <4>2. generation' = generation + 1
        BY <1>6, <4>1 DEF Follow, MainInvalidate, Invalidate
      <4>3. QED BY <1>0, <4>2
    <3>5. QED BY <3>2, <3>3, <3>4
  <2>2. Fresh'
    <3>1. SUFFICES ASSUME Superseded'
                   PROVE  pairing' = pairingToken' /\ \A w \in Sessions : launcher'[w].pairing < pairing'
      BY DEF Fresh
    <3>2. \/ cmd.op \in {"startQrPairing", "submitManualCode"} /\ Len(cmd.todo) \in 2..4
          \/ cmd.op = "reconnect" /\ Len(cmd.todo) \in 2..3
      <4>1. CASE Rest({"startQrPairing", "submitManualCode"}, 1, 3)'
        <5>1. Rest({"startQrPairing", "submitManualCode"}, 1 + 1, 3 + 1)
          BY <1>0, <2>0, <4>1, RestBefore
        <5>2. QED BY <5>1 DEF Rest
      <4>2. CASE Rest({"reconnect"}, 1, 2)'
        <5>1. Rest({"reconnect"}, 1 + 1, 2 + 1)
          BY <1>0, <2>0, <4>2, RestBefore
        <5>2. QED BY <5>1 DEF Rest
      <4>3. QED BY <3>1, <4>1, <4>2 DEF Superseded
    <3>3. Place(cmd.op, Len(cmd.todo), step) /\ PairingPlace(cmd.op, Len(cmd.todo), step)
      BY <1>2, <2>0, <3>2
    <3>4. ASSUME NEW s, At(s) PROVE s = step
      BY <2>0, <3>4 DEF At
    <3>5. \A w \in Sessions : ~Launch(w)
      <4>1. step # "launch"
        <5>1. Len(cmd.todo) # 1
          BY <3>2
        <5>2. QED BY <3>3, <5>1, Zenon DEF Place
      <4>2. QED BY <3>4, <4>1 DEF Launch
    <3>6. ~Retire
      <4>1. step # "retire"
        BY <3>2, <3>3 DEF Place
      <4>2. QED BY <3>4, <4>1 DEF Retire
    <3>7. CASE Supersede
      <4>1. pairing' = pairing + 1 /\ pairingToken' = pairing + 1 /\ launcher' = launcher
        BY <3>7 DEF Supersede
      <4>2. ASSUME NEW w \in Sessions PROVE launcher[w].pairing < pairing + 1
        <5>1. launcher[w].pairing \in Nat
          BY <1>0 DEF LauncherState
        <5>2. QED BY <1>0, <5>1 DEF PairingsPast
      <4>3. QED BY <4>1, <4>2
    <3>8. CASE ~Supersede
      <4>1. step # "supersede"
        <5>1. cmd' # cmd /\ ~ReadGeneration
          <6>1. Len(cmd'.todo) = Len(cmd.todo) - 1 /\ Len(cmd.todo) \in Nat
            BY <1>2, <2>0
          <6>2. QED BY <1>0, <6>1, ReadingKeeps DEF CommandKept
        <5>2. QED BY <2>0, <3>8, <5>1, MainDoes
      <4>2. Superseded
        BY <3>2, <3>3, <4>1 DEF PairingPlace, Superseded, Rest
      <4>3. QED BY <1>0, <1>1, <3>5, <3>6, <3>8, <4>2 DEF Fresh
    <3>9. QED BY <3>7, <3>8
  <2>3. ApartPairings'
    <3>1. CASE launcher' = launcher
      BY <1>0, <3>1 DEF ApartPairings
    <3>2. ASSUME NEW u \in Sessions, Launch(u) PROVE ApartPairings'
      <4>1. /\ At("launch") /\ launcher'[u].pairing = pairingToken
            /\ \A v \in Sessions \ {u} : launcher'[v] = launcher[v]
        BY <1>0, <3>2 DEF Launch, IdleLauncher, LauncherState
      <4>2. Superseded
        <5>1. step = "launch"
          BY <2>0, <4>1 DEF At
        <5>2. cmd.op \in {"startQrPairing", "submitManualCode", "reconnect"}
          BY <1>0, <4>1, TodoNow DEF Place
        <5>3. Len(cmd.todo) = 1
          BY <1>2, <2>0, <5>1, <5>2 DEF Place
        <5>4. QED BY <5>2, <5>3 DEF Superseded, Rest
      <4>3. \A v \in Sessions : launcher[v].pairing < launcher'[u].pairing
        BY <1>0, <4>1, <4>2 DEF Fresh
      <4>4. \A v \in Sessions : launcher[v].pairing \in Nat
        BY <1>0 DEF LauncherState
      <4>5. \A v \in Sessions : launcher[v].pairing # launcher'[u].pairing
        BY <1>0, <4>1, <4>2, <4>3, <4>4 DEF RuntimeTypeOK
      <4>6. QED BY <1>0, <4>1, <4>5 DEF ApartPairings
    <3>3. QED BY <1>1, <3>1, <3>2
  <2>4. QED BY <2>1, <2>2, <2>3 DEF PairingInv
<1>7. QED BY <1>0, <1>3, <1>5, <1>6, MainFollows

(* ... the workers keep it ...                                              *)
LEMMA WorkerKeepsPairings ==
  ASSUME RuntimeInv, NEW w \in Sessions,
         LauncherStep(w) \/ PhoneStep(w) \/ LifetimeExpires(w) \/ SessionWorkerStep(w)
           \/ SessionChildStep(w),
         GenerationGoesOn, PairingInv
  PROVE  PairingInv'
<1>0. /\ RuntimeTypeOK /\ TypeOK /\ launcher \in [Sessions -> LauncherState] /\ pairing \in Nat
      /\ pairingToken \in Nat
      /\ generation \in Nat /\ generation' \in Nat /\ generation <= generation'
      /\ PastFirst /\ Fresh /\ ApartPairings
  BY Onward DEF RuntimeInv, RuntimeTypeOK, TypeOK, PairingInv
<1>1. /\ pairingToken' = pairingToken /\ cmd' = cmd
      /\ pairing' = pairing \/ ClaimPairing(w)
      /\ \A v \in Sessions \ {w} : launcher'[v] = launcher[v]
      /\ \/ Gone(w)
         \/ /\ launcher'[w].pairing = launcher[w].pairing
            /\ launcher'[w].step \in BeforeClaim => launcher[w].step \in BeforeClaim
  BY <1>0, WorkerPairs, CommandStays
<1>2. PastFirst'
  BY <1>0, <1>1 DEF PastFirst, Rest
<1>3. Fresh'
  <2>1. SUFFICES ASSUME Superseded
                 PROVE  pairing' = pairingToken' /\ \A v \in Sessions : launcher'[v].pairing < pairing'
    BY <1>1 DEF Fresh, Superseded, Rest
  <2>2. pairing = pairingToken /\ \A v \in Sessions : launcher[v].pairing < pairing
    BY <1>0, <2>1 DEF Fresh
  <2>3. \A v \in Sessions : launcher[v].pairing \in Nat
    BY <1>0 DEF LauncherState
  <2>4. ~ClaimPairing(w)
    BY <1>0, <2>2, <2>3 DEF ClaimPairing
  <2>5. 0 < pairing
    BY <1>0, <2>2, <2>3
  <2>6. launcher'[w].pairing < pairing
    BY <1>1, <2>2, <2>5 DEF Gone
  <2>7. QED BY <1>1, <2>2, <2>4, <2>6
<1>4. ApartPairings'
  <2>1. SUFFICES ASSUME NEW u \in Sessions, NEW v \in Sessions, u # v,
                        launcher'[u].step \in BeforeClaim, launcher'[v].step \in BeforeClaim
                 PROVE  launcher'[u].pairing # launcher'[v].pairing
    BY DEF ApartPairings
  <2>2. "idle" \notin BeforeClaim
    BY DEF BeforeClaim
  <2>3. ASSUME NEW x \in Sessions, launcher'[x].step \in BeforeClaim
        PROVE  launcher[x].step \in BeforeClaim /\ launcher'[x].pairing = launcher[x].pairing
    <3>1. CASE x = w
      BY <1>1, <2>2, <2>3, <3>1 DEF Gone
    <3>2. CASE x # w
      BY <1>1, <2>3, <3>2
    <3>3. QED BY <3>1, <3>2
  <2>4. QED BY <1>0, <2>1, <2>3 DEF ApartPairings
<1>5. QED BY <1>2, <1>3, <1>4 DEF PairingInv

(* ... and a command that is read begins with it.                           *)
LEMMA TakenKeepsPairings ==
  ASSUME PanelInv, TakeCommand, PairingInv
  PROVE  PairingInv'
<1> DEFINE c == Head(pipe)
<1>1. c.op \in Ops
  <2>1. pipe \in Seq([op: Ops, generation: Nat]) /\ pipe # <<>>
    BY DEF TakeCommand, PanelInv, PanelTypeOK
  <2>2. c \in [op: Ops, generation: Nat]
    BY ONLY <2>1, QueueShrinks
  <2>3. QED BY ONLY <2>2
<1>2. AnswerStale(c.op) \/ Accept(c.op)
  BY DEF TakeCommand
<1> HIDE DEF c
<1>3. /\ launcher' = launcher
      /\ cmd' = IdleCommand \/ (cmd'.op = c.op /\ cmd'.todo = Program[c.op])
  BY <1>2 DEF AnswerStale, Accept, IdleCommand
<1>4. ~Superseded' /\ ~Rest({"reconnect", "startOver"}, 0, 4)'
  <2>1. CASE cmd' = IdleCommand
    BY <2>1 DEF Superseded, Rest, IdleCommand
  <2>2. CASE cmd'.op = c.op /\ cmd'.todo = Program[c.op]
    <3>1. /\ c.op = "startQrPairing" => Len(cmd'.todo) = 7
          /\ c.op = "submitManualCode" => Len(cmd'.todo) = 7
          /\ c.op = "reconnect" => Len(cmd'.todo) = 6
          /\ c.op = "startOver" => Len(cmd'.todo) = 9
      BY <2>2, Lengths, Zenon
    <3>2. 7 \notin 1..3 /\ 6 \notin 1..2 /\ 6 \notin 0..4 /\ 9 \notin 0..4
      OBVIOUS
    <3>3. ~Superseded'
      BY <2>2, <3>1, <3>2, Zenon DEF Superseded, Rest
    <3>4. ~Rest({"reconnect", "startOver"}, 0, 4)'
      BY <2>2, <3>1, <3>2, Zenon DEF Rest
    <3>5. QED BY <3>3, <3>4
  <2>3. QED BY <1>3, <2>1, <2>2
<1>5. PastFirst' /\ Fresh'
  BY <1>4 DEF PastFirst, Fresh
<1>6. ApartPairings'
  BY <1>3 DEF PairingInv, ApartPairings
<1>7. QED BY <1>5, <1>6 DEF PairingInv

(* The words that take a code off the screen before the first session, and a
   log whose last code none of them follows.                                 *)
Enders == {"QrTimedOut", "Pairing", "ManualCodeRequired", "PairingCancelled", "Failure"}
CodeIn(s, n) ==
  \E i \in 1..n : s[i].type = "QrWaiting" /\ \A j \in i + 1..n : s[j].type \notin Enders

(* A worker whose QR pairing is the current one, or has been claimed and is
   not told yet.                                                             *)
Holds(w) ==
  /\ launcher[w].kind = "qr"
  /\ \/ launcher[w].step \in BeforeClaim /\ launcher[w].pairing = pairing
     \/ launcher[w].step \in {"dropQr", "save", "remember", "advance"}
     \/ launcher[w].step = "report" /\ launcher[w].outcome # "Linked"

(* A pairing about to be launched, and commands that will say that the code
   is over.                                                                  *)
Launching == Rest({"startQrPairing"}, 1, 1)
Committed ==
  \/ Rest({"startQrPairing", "submitManualCode", "stopSession"}, 2, 3)
  \/ Rest({"useManualCode", "cancelPairing", "shutdown"}, 1, 3)
CodeInv ==
  generation = 0 /\ CodeIn(sent, Len(sent)) =>
    (\E w \in Sessions : Holds(w)) \/ Launching \/ Committed

(* A word that is no code leaves the code that was there or ends it.         *)
LEMMA CodeGrows ==
  ASSUME NEW s \in Seq(EventSet), NEW e \in EventSet, e.type # "QrWaiting",
         NEW t, t = Append(s, e), CodeIn(t, Len(t))
  PROVE  CodeIn(s, Len(s)) /\ e.type \notin Enders
<1>1. /\ Len(s) \in Nat /\ Len(t) = Len(s) + 1 /\ t[Len(s) + 1] = e
      /\ \A i \in 1..Len(s) : t[i] = s[i]
  OBVIOUS
<1>2. PICK i \in 1..Len(t) : t[i].type = "QrWaiting" /\ \A j \in i + 1..Len(t) : t[j].type \notin Enders
  BY DEF CodeIn
<1>3. i # Len(s) + 1
  BY <1>1, <1>2
<1>4. i \in 1..Len(s) /\ Len(s) + 1 \in i + 1..Len(t)
  BY <1>1, <1>2, <1>3
<1>5. \A j \in i + 1..Len(s) : j \in i + 1..Len(t) /\ t[j] = s[j]
  BY <1>1, <1>4
<1>6. e.type \notin Enders
  BY <1>1, <1>2, <1>4
<1>7. QED BY <1>1, <1>2, <1>4, <1>5, <1>6 DEF CodeIn

(* A log that nobody writes keeps its code.                                 *)
LEMMA CodeStays ==
  ASSUME NEW s \in Seq(EventSet), NEW e \in EventSet, NEW n \in 0..Len(s), CodeIn(s, n)
  PROVE  CodeIn(Append(s, e), n)
<1>1. \A i \in 1..n : Append(s, e)[i] = s[i]
  OBVIOUS
<1>2. PICK i \in 1..n : s[i].type = "QrWaiting" /\ \A j \in i + 1..n : s[j].type \notin Enders
  BY DEF CodeIn
<1>3. \A j \in i + 1..n : j \in 1..n
  BY <1>2
<1>4. QED BY <1>1, <1>2, <1>3 DEF CodeIn

(* The pairing a worker holds goes on until the worker tells of its end or
   the generation moves on.                                                  *)
LEMMA HoldsOn ==
  ASSUME RuntimeInv, NEW w \in Sessions, Holds(w),
         LauncherStep(w) \/ PhoneStep(w) \/ LifetimeExpires(w) \/ SessionWorkerStep(w)
           \/ SessionChildStep(w)
  PROVE  \/ Holds(w)' \/ generation' = generation + 1
         \/ \E type \in Enders : Emit(Event(type, 0))
<1>0. /\ launcher \in [Sessions -> LauncherState] /\ launcher[w] \in LauncherState /\ Fits(w)
      /\ launcher[w].kind = "qr" /\ RuntimeTypeOK
  BY DEF RuntimeInv, RuntimeTypeOK, LauncherInv, LauncherFits, Holds
<1>1. CASE launcher' = launcher /\ pairing' = pairing
  BY <1>1 DEF Holds
<1>2. ASSUME NEW s \in LauncherSteps, LGoto(w, s), pairing' = pairing,
             \/ s \in BeforeClaim /\ launcher[w].step \in BeforeClaim
             \/ s \in {"dropQr", "save", "remember", "advance"}
             \/ s = "report" /\ launcher[w].outcome # "Linked"
      PROVE  Holds(w)'
  <2>1. LauncherGoes(w, s) /\ LauncherKeeps(w)
    BY <1>0, <1>2, GoesOn
  <2>2. launcher'[w].step = s /\ launcher'[w].kind = "qr"
        /\ launcher'[w].pairing = launcher[w].pairing /\ launcher'[w].outcome = launcher[w].outcome
    BY <1>0, <2>1 DEF LauncherGoes, LauncherKeeps
  <2>3. launcher[w].step \in BeforeClaim => launcher[w].pairing = pairing
    BY DEF Holds, BeforeClaim
  <2>4. QED BY <1>2, <2>2, <2>3 DEF Holds
<1>3. CASE EnterFlow(w) \/ ReportProgress(w) \/ TellProgress(w)
  BY <1>2, <1>3, LauncherValues
     DEF EnterFlow, ReportProgress, TellProgress, BeforeClaim, pairingVars
<1>4. CASE ClaimPairing(w)
  <2>1. LauncherGoes(w, "dropQr")
    BY <1>0, <1>4, GoesOn, LauncherValues DEF ClaimPairing
  <2>2. QED BY <1>0, <2>1 DEF LauncherGoes, Holds
<1>5. CASE DropQr(w)
  BY <1>2, <1>5, LauncherValues DEF DropQr
<1>6. CASE RememberDevice(w)
  BY <1>2, <1>6, LauncherValues DEF RememberDevice
<1>7. CASE SaveDevice(w)
  <2>1. launcher[w].step = "save" /\ pairing' = pairing
    BY <1>7 DEF SaveDevice
  <2>2. CASE LGoto(w, "remember")
    BY <1>2, <2>1, <2>2, LauncherValues
  <2>3. CASE launcher' = [launcher EXCEPT ![w].step = "report", ![w].outcome = "Failure"]
    <3>1. launcher'[w].step = "report" /\ launcher'[w].outcome = "Failure" /\ launcher'[w].kind = "qr"
      BY <1>0, <2>3 DEF LauncherState
    <3>2. QED BY <3>1 DEF Holds
  <2>4. QED BY <1>7, <2>2, <2>3 DEF SaveDevice
<1>8. CASE AdvanceGeneration(w)
  BY <1>8 DEF AdvanceGeneration, Advance
<1>9. CASE FlowCancelled(w) \/ FlowFails(w) \/ FlowTimesOut(w) \/ \E t \in Targets : FlowLinks(w, t)
  <2>1. PICK o, t : /\ launcher' = [launcher EXCEPT ![w].step = "claim", ![w].outcome = o,
                                                    ![w].target = t]
                    /\ launcher[w].step \in {"talk", "pairing"} /\ pairing' = pairing
    BY <1>9 DEF FlowCancelled, FlowFails, FlowTimesOut, FlowLinks, LeaveFlow
  <2>2. launcher'[w].pairing = launcher[w].pairing /\ launcher'[w].step = "claim"
        /\ launcher'[w].kind = "qr"
    BY <1>0, <2>1 DEF LauncherState
  <2>3. launcher[w].pairing = pairing
    BY <2>1 DEF Holds
  <2>4. QED BY <2>1, <2>2, <2>3 DEF Holds, BeforeClaim
<1>10. CASE ReportPairingOver(w)
  <2>1. launcher[w].outcome \in {"Failure", "TimedOut", "Cancelled"}
    BY <1>0, <1>10, LauncherValues DEF ReportPairingOver, Fits, LauncherState
  <2>2. PairingOver[launcher[w].outcome] \in Enders
    <3>1. CASE launcher[w].outcome = "Failure" BY <3>1 DEF PairingOver, Enders
    <3>2. CASE launcher[w].outcome = "TimedOut" BY <3>2 DEF PairingOver, Enders
    <3>3. CASE launcher[w].outcome = "Cancelled" BY <3>3 DEF PairingOver, Enders
    <3>4. QED BY <2>1, <3>1, <3>2, <3>3
  <2>3. QED BY <1>10, <2>2 DEF ReportPairingOver
<1>11. ~LosePairing(w) /\ ~StartDisconnect(w) /\ ~Disconnected(w) /\ ~ReportLinked(w)
       /\ ~StartSession(w) /\ ~FailReconnect(w) /\ ~DropReconnect(w) /\ ~TellFailure(w)
  BY <1>0 DEF Holds, BeforeClaim, LosePairing, StartDisconnect, Disconnected, ReportLinked,
              StartSession, FailReconnect, DropReconnect, TellFailure
<1>12. CASE LifetimeExpires(w) \/ SessionWorkerStep(w) \/ SessionChildStep(w)
  BY <1>1, <1>12 DEF LifetimeExpires, SessionWorkerStep, SessionChildStep, pairingVars
<1>13. QED BY <1>3, <1>4, <1>5, <1>6, <1>7, <1>8, <1>9, <1>10, <1>11, <1>12
           DEF LauncherStep, PhoneStep

(* Nor does any other worker take it.                                        *)
LEMMA OthersLetHold ==
  ASSUME RuntimeTypeOK, ApartPairings, NEW w \in Sessions, Holds(w), NEW v \in Sessions, v # w,
         LauncherStep(v) \/ PhoneStep(v) \/ LifetimeExpires(v) \/ SessionWorkerStep(v)
           \/ SessionChildStep(v)
  PROVE  Holds(w)'
<1>1. launcher'[w] = launcher[w] /\ (pairing' = pairing \/ ClaimPairing(v))
  BY WorkerPairs
<1>2. CASE pairing' = pairing
  BY <1>1, <1>2 DEF Holds
<1>3. CASE ClaimPairing(v)
  <2>1. launcher[v].pairing = pairing /\ launcher[v].step \in BeforeClaim
    BY <1>3 DEF ClaimPairing, BeforeClaim
  <2>2. ~(launcher[w].step \in BeforeClaim /\ launcher[w].pairing = pairing)
    BY <2>1 DEF ApartPairings
  <2>3. QED BY <1>1, <2>2 DEF Holds
<1>4. QED BY <1>1, <1>2, <1>3

(* What the main thread does to the pairing of a worker that holds a code:
   it retires or supersedes it in a command that says so, or after the session
   has moved on.                                                             *)
LEMMA MainLetsHold ==
  ASSUME RuntimeInv, PairingInv, MainStep, generation = 0, NEW w \in Sessions, Holds(w)
  PROVE  Holds(w)' \/ Committed'
<1>0. /\ RuntimeTypeOK /\ TodoFits /\ cmd \in CommandState /\ PastFirst
      /\ launcher \in [Sessions -> LauncherState]
  BY DEF RuntimeInv, RuntimeTypeOK, MainInv, PairingInv
<1>1. launcher'[w] = launcher[w]
  <2>1. ASSUME NEW u \in Sessions, Launch(u) PROVE launcher'[w] = launcher[w]
    <3>1. u # w
      BY <2>1 DEF Launch, Holds, BeforeClaim
    <3>2. QED BY <1>0, <2>1, <3>1 DEF Launch
  <2>2. QED BY <2>1, MainPairs
<1>2. CASE pairing' = pairing
  BY <1>1, <1>2 DEF Holds
<1>3. ASSUME NEW step, At(step), Continue, step \in {"retire", "supersede"}
      PROVE  Committed'
  <2>1. /\ cmd'.op = cmd.op /\ Len(cmd'.todo) = Len(cmd.todo) - 1 /\ Len(cmd.todo) \in Nat
    BY <1>0, <1>3, ContinueProceeds, TodoNow, TodoGoesOn
  <2>2. ~Failing
    BY <1>0, <1>3, TodoNow
  <2>3. Place(cmd.op, Len(cmd.todo), step) /\ PairingPlace(cmd.op, Len(cmd.todo), step)
    BY <1>0, <1>3, <2>2, PairingNow
  <2>4. ASSUME cmd.op \in {"reconnect", "startOver"}, Len(cmd.todo) \in {3, 4} PROVE FALSE
    BY <1>0, <2>4 DEF PastFirst, Rest
  <2>5. /\ cmd.op \in {"startQrPairing", "submitManualCode", "stopSession", "useManualCode",
                       "cancelPairing", "shutdown"}
        /\ Len(cmd.todo) = 4
    BY <1>3, <2>3, <2>4 DEF Place, PairingPlace
  <2>6. Len(cmd'.todo) = 3
    BY <2>1, <2>5
  <2>7. QED BY <2>1, <2>5, <2>6 DEF Committed, Rest
<1>4. CASE Retire \/ Supersede
  BY <1>3, <1>4 DEF Retire, Supersede
<1>5. QED BY <1>2, <1>4, MainPairs

(* A QR pairing that is launched is the current one.                         *)
LEMMA LaunchHolds ==
  ASSUME RuntimeInv, PairingInv, MainStep, cmd' # cmd, ~ReadGeneration, Launching
  PROVE  \E w \in Sessions : Holds(w)'
<1>0. /\ RuntimeTypeOK /\ TodoFits /\ cmd \in CommandState /\ Fresh
      /\ launcher \in [Sessions -> LauncherState]
  BY DEF RuntimeInv, RuntimeTypeOK, MainInv, PairingInv
<1>1. cmd.op = "startQrPairing" /\ Len(cmd.todo) = 1 /\ At(Head(cmd.todo))
  BY MainDoes DEF Launching, Rest
<1>2. Head(cmd.todo) = "launch"
  <2>1. Place(cmd.op, Len(cmd.todo), Head(cmd.todo))
    BY <1>0, <1>1, PairingNow DEF Failing
  <2>2. QED BY <1>1, <2>1 DEF Place
<1>3. PICK w \in Sessions : Launch(w)
  BY <1>1, <1>2, MainDoes
<1>4. pairing = pairingToken
  <2>1. Superseded
    BY <1>1 DEF Superseded, Rest
  <2>2. QED BY <1>0, <2>1 DEF Fresh
<1>5. /\ launcher'[w].kind = "qr" /\ launcher'[w].step = "flow"
      /\ launcher'[w].pairing = pairingToken /\ pairing' = pairing
  BY <1>0, <1>1, <1>3 DEF Launch, IdleLauncher, pairingVars
<1>6. QED BY <1>4, <1>5 DEF Holds, BeforeClaim

(* A command that will say that the code is over says so.                    *)
LEMMA CommittedSays ==
  ASSUME RuntimeInv, MainStep, cmd' # cmd, ~ReadGeneration, Committed
  PROVE  \/ Committed' \/ generation' = generation + 1
         \/ Reply /\ cmd.op = "startQrPairing"
         \/ \E type \in Enders : Emit(Event(type, 0))
<1>0. /\ RuntimeTypeOK /\ TodoFits /\ cmd \in CommandState
  BY DEF RuntimeInv, RuntimeTypeOK, MainInv
<1> DEFINE n == Len(cmd.todo)
<1>1. /\ \/ cmd.op \in {"startQrPairing", "submitManualCode", "stopSession"} /\ n \in 2..3
         \/ cmd.op \in {"useManualCode", "cancelPairing", "shutdown"} /\ n \in 1..3
      /\ At(Head(cmd.todo))
  BY MainDoes DEF Committed, Rest
<1>2. /\ Place(cmd.op, n, Head(cmd.todo)) /\ PairingPlace(cmd.op, n, Head(cmd.todo))
  BY <1>0, <1>1, PairingNow DEF Failing
<1>3. ASSUME Continue PROVE cmd'.op = cmd.op /\ Len(cmd'.todo) = n - 1
  BY <1>0, <1>1, <1>3, ContinueProceeds, TodoNow, TodoGoesOn
<1> HIDE DEF n
<1>4. CASE n = 3
  <2>1. Head(cmd.todo) \in {"startQr", "cancelQr", "crossFlow"}
    BY <1>1, <1>2, <1>4 DEF Place, PairingPlace
  <2>2. StartQr \/ CancelQr \/ CrossFlow
    BY <1>1, <2>1, MainDoes
  <2>3. CASE Continue
    <3>1. cmd'.op = cmd.op /\ Len(cmd'.todo) = 2
      BY <1>3, <1>4, <2>3
    <3>2. QED BY <1>1, <3>1 DEF Committed, Rest
  <2>4. CASE Emit(Event("Failure", 0))
    BY <2>4 DEF Enders
  <2>5. QED BY <2>2, <2>3, <2>4 DEF StartQr, CancelQr, CrossFlow
<1>5. ASSUME Reply, cmd.op \in {"submitManualCode", "useManualCode", "cancelPairing"}
      PROVE  \E type \in Enders : Emit(Event(type, 0))
  <2>1. cmd.op \notin DOMAIN RestartType /\ cmd.op \notin Telling
    BY <1>5 DEF RestartType, Telling
  <2>2. ReplyType[cmd.op] \in {"Pairing", "ManualCodeRequired", "PairingCancelled"}
    BY <1>5 DEF ReplyType
  <2>3. QED BY <1>5, <2>1, <2>2 DEF Reply, Enders
<1>6. CASE n = 2
  <2>1. CASE cmd.op \in {"startQrPairing", "submitManualCode"}
    <3>1. Head(cmd.todo) = "reply"
      BY <1>2, <1>6, <2>1 DEF Place
    <3>2. Reply
      BY <1>1, <3>1, MainDoes
    <3>3. QED BY <1>5, <2>1, <3>2
  <2>2. CASE cmd.op = "stopSession"
    <3>1. Head(cmd.todo) = "invalidate"
      BY <1>2, <1>6, <2>2 DEF Place
    <3>2. MainInvalidate
      BY <1>1, <3>1, MainDoes
    <3>3. QED BY <3>2 DEF MainInvalidate, Invalidate
  <2>3. CASE cmd.op \in {"useManualCode", "cancelPairing", "shutdown"}
    <3>1. Head(cmd.todo) = "cancelQr"
      BY <1>2, <1>6, <2>3 DEF PairingPlace
    <3>2. CancelQr
      BY <1>1, <3>1, MainDoes
    <3>3. cmd'.op = cmd.op /\ Len(cmd'.todo) = 1
      BY <1>3, <1>6, <3>2 DEF CancelQr
    <3>4. QED BY <2>3, <3>3 DEF Committed, Rest
  <2>4. QED BY <1>1, <2>1, <2>2, <2>3
<1>7. CASE n = 1
  <2>1. cmd.op \in {"useManualCode", "cancelPairing", "shutdown"}
    BY <1>1, <1>7
  <2>2. CASE cmd.op = "shutdown"
    <3>1. Head(cmd.todo) = "invalidate"
      BY <1>2, <1>7, <2>2 DEF Place
    <3>2. MainInvalidate
      BY <1>1, <3>1, MainDoes
    <3>3. QED BY <3>2 DEF MainInvalidate, Invalidate
  <2>3. CASE cmd.op \in {"useManualCode", "cancelPairing"}
    <3>1. Head(cmd.todo) = "reply"
      BY <1>2, <1>7, <2>3 DEF Place
    <3>2. Reply
      BY <1>1, <3>1, MainDoes
    <3>3. QED BY <1>5, <2>3, <3>2
  <2>4. QED BY <2>1, <2>2, <2>3
<1>8. n \in {1, 2, 3}
  BY <1>1
<1>9. QED BY <1>4, <1>6, <1>7, <1>8

(* The log grows by a word that is no code.                                  *)
LEMMA CodeBefore ==
  ASSUME TypeOK, NEW type \in EventTypes \ {"QrWaiting"}, NEW g \in Nat,
         Emit(Event(type, g)), CodeIn(sent', Len(sent'))
  PROVE  CodeIn(sent, Len(sent)) /\ type \notin Enders
<1>1. Event(type, g) \in EventSet /\ Event(type, g).type = type
  BY DEF Event, EventSet
<1>2. sent \in Seq(EventSet) /\ sent' = Append(sent, Event(type, g))
  BY DEF TypeOK, Emit
<1> HIDE DEF Event
<1>3. QED BY <1>1, <1>2, CodeGrows

(* A step of the main thread.                                                *)
LEMMA MainKeepsCode ==
  ASSUME RuntimeInv, PairingInv, MainStep, GenerationGoesOn, CodeInv
  PROVE  CodeInv'
<1>0. /\ RuntimeTypeOK /\ TypeOK /\ TodoFits /\ cmd \in CommandState
      /\ generation \in Nat /\ generation' \in Nat /\ generation <= generation'
      /\ launcher \in [Sessions -> LauncherState]
  BY Onward DEF RuntimeInv, RuntimeTypeOK, TypeOK, MainInv
<1>1. SUFFICES ASSUME generation' = 0, CodeIn(sent', Len(sent'))
               PROVE  (\E w \in Sessions : Holds(w)') \/ Launching' \/ Committed'
  BY DEF CodeInv
<1>2. generation = 0 /\ generation' # generation + 1
  BY <1>0, <1>1
<1>3. CASE Reply /\ cmd.op = "startQrPairing"
  <2>1. At("reply") /\ Continue
    BY <1>3 DEF Reply
  <2>2. /\ cmd'.op = cmd.op /\ Len(cmd'.todo) = Len(cmd.todo) - 1
        /\ PairingPlace(cmd.op, Len(cmd.todo), "reply") /\ Place(cmd.op, Len(cmd.todo), "reply")
    BY <1>0, <1>3, <2>1, ContinueProceeds, TodoNow, TodoGoesOn, PairingNow DEF Failing
  <2>3. Len(cmd.todo) = 2
    BY <1>3, <2>2 DEF Place
  <2>4. QED BY <1>3, <2>2, <2>3 DEF Launching, Rest
<1>4. ASSUME ~(Reply /\ cmd.op = "startQrPairing")
      PROVE  /\ CodeIn(sent, Len(sent))
             /\ \A type \in Enders : ~Emit(Event(type, 0))
  <2>1. ASSUME NEW type \in EventTypes \ {"QrWaiting"}, NEW g \in Nat, Emit(Event(type, g))
        PROVE  CodeIn(sent, Len(sent)) /\ type \notin Enders
    BY <1>0, <1>1, <2>1, CodeBefore
  <2>2. Enders \subseteq EventTypes \ {"QrWaiting"} /\ 0 \in Nat
    BY KnownTypes DEF Enders
  <2>3. \A type \in Enders : ~Emit(Event(type, 0))
    BY <2>1, <2>2
  <2>4. CASE sent' = sent
    BY <1>1, <2>3, <2>4
  <2>5. CASE \E type \in {"Refused", "Failure", "InputFailed"}, g \in Nat : Emit(Event(type, g))
    BY <2>1, <2>3, <2>5, KnownTypes
  <2>6. CASE Reply
    <3>1. /\ cmd.op \in DOMAIN ReplyType /\ cmd.op # "startQrPairing"
          /\ LET type == IF cmd.op \in DOMAIN RestartType /\ cmd.target # NoTarget
                         THEN RestartType[cmd.op] ELSE ReplyType[cmd.op]
                 g == IF cmd.op \in Telling THEN cmd.generation ELSE 0
             IN  type \in EventTypes /\ g \in Nat /\ Emit(Event(type, g))
      BY <1>4, <2>6, ReplyTells
    <3>2. /\ ReplyType[cmd.op] # "QrWaiting"
          /\ cmd.op \in DOMAIN RestartType => RestartType[cmd.op] # "QrWaiting"
      BY <3>1 DEF ReplyType, RestartType
    <3>3. QED BY <2>1, <2>3, <3>1, <3>2
  <2>7. QED BY <2>4, <2>5, <2>6, MainTells
<1>5. CASE ~(Reply /\ cmd.op = "startQrPairing")
  <2>1. (\E w \in Sessions : Holds(w)) \/ Launching \/ Committed
    BY <1>2, <1>4, <1>5 DEF CodeInv
  <2>2. CASE \E w \in Sessions : Holds(w)
    BY <1>2, <2>2, MainLetsHold
  <2>3. CASE cmd' = cmd \/ ReadGeneration
    BY <1>0, <2>1, <2>2, <2>3, ReadingKeeps DEF CommandKept, Launching, Committed, Rest
  <2>4. CASE cmd' # cmd /\ ~ReadGeneration /\ Launching
    BY <2>4, LaunchHolds
  <2>5. CASE cmd' # cmd /\ ~ReadGeneration /\ Committed
    BY <1>2, <1>4, <1>5, <2>5, CommittedSays
  <2>6. QED BY <2>1, <2>2, <2>3, <2>4, <2>5
<1>6. QED BY <1>3, <1>5

(* A step of a worker.                                                       *)
LEMMA WorkerKeepsCode ==
  ASSUME RuntimeInv, PairingInv, GenerationGoesOn, CodeInv, NEW v \in Sessions,
         LauncherStep(v) \/ PhoneStep(v) \/ LifetimeExpires(v) \/ SessionWorkerStep(v)
           \/ SessionChildStep(v)
  PROVE  CodeInv'
<1>0. /\ RuntimeTypeOK /\ TypeOK /\ LauncherFits /\ ApartPairings
      /\ generation \in Nat /\ generation' \in Nat /\ generation <= generation'
  BY Onward DEF RuntimeInv, RuntimeTypeOK, TypeOK, LauncherInv, PairingInv
<1>1. SUFFICES ASSUME generation' = 0, CodeIn(sent', Len(sent'))
               PROVE  (\E w \in Sessions : Holds(w)') \/ Launching' \/ Committed'
  BY DEF CodeInv
<1>2. generation = 0 /\ generation' # generation + 1
  BY <1>0, <1>1
<1>3. ASSUME NEW type \in EventTypes \ {"QrWaiting"}, NEW g \in Nat, Emit(Event(type, g))
      PROVE  CodeIn(sent, Len(sent)) /\ type \notin Enders
  BY <1>0, <1>1, <1>3, CodeBefore
<1>4. CodeIn(sent, Len(sent))
  <2>1. CASE sent' = sent
    BY <1>1, <2>1
  <2>2. CASE TellProgress(v)
    BY <1>3, <2>2, KnownTypes DEF TellProgress
  <2>3. CASE sent' # sent /\ (LauncherStep(v) \/ PhoneStep(v) \/ LifetimeExpires(v))
    <3>1. \/ TellProgress(v)
          \/ \E type \in Endings, g \in Nat : Emit(Event(type, g))
      BY <1>0, <2>3, LaunchersTell DEF Emit
    <3>2. Endings \subseteq EventTypes \ {"QrWaiting"}
      BY KnownTypes DEF Endings
    <3>3. QED BY <1>3, <2>2, <3>1, <3>2
  <2>4. CASE sent' # sent /\ (SessionWorkerStep(v) \/ SessionChildStep(v))
    <3>1. \E type \in SessionEvents, g \in Nat : Emit(Event(type, g))
      BY <1>0, <2>4, SessionsTellSessions DEF SessionWorkerStep, SessionChildStep, Emit
    <3>2. SessionEvents \subseteq EventTypes \ {"QrWaiting"}
      BY KnownTypes DEF SessionEvents
    <3>3. QED BY <1>3, <3>1, <3>2
  <2>5. QED BY <2>1, <2>3, <2>4
<1>5. \A type \in Enders : ~Emit(Event(type, 0))
  BY <1>3, KnownTypes DEF Enders
<1>6. cmd' = cmd
  BY CommandStays
<1>7. ASSUME NEW w \in Sessions, Holds(w) PROVE Holds(w)'
  BY <1>0, <1>2, <1>5, <1>7, HoldsOn, OthersLetHold
<1>8. QED BY <1>2, <1>4, <1>6, <1>7 DEF CodeInv, Launching, Committed, Rest

(* A command is taken, or answered as stale.                                 *)
LEMMA TakenKeepsCode ==
  ASSUME PanelInv, TakeCommand, CodeInv
  PROVE  CodeInv'
<1> DEFINE c == Head(pipe)
<1>0. TypeOK /\ generation \in Nat
  BY DEF PanelInv, PanelTypeOK, RuntimeTypeOK, TypeOK
<1>1. (c.op \in SessionBound /\ AnswerStale(c.op)) \/ Accept(c.op)
  BY DEF TakeCommand
<1> HIDE DEF c
<1>2. /\ cmd.todo = <<>> /\ launcher' = launcher /\ pairing' = pairing /\ generation' = generation
      /\ \/ sent' = sent
         \/ \E type \in {"ScrcpyArgsStale", "StaleSession"} : Emit(Event(type, generation))
  BY <1>1 DEF AnswerStale, Accept, Reading, quiet, cells, vars, pairingVars
<1>3. SUFFICES ASSUME generation' = 0, CodeIn(sent', Len(sent'))
               PROVE  \E w \in Sessions : Holds(w)'
  BY DEF CodeInv
<1>4. CodeIn(sent, Len(sent))
  BY <1>0, <1>2, <1>3, CodeBefore, KnownTypes
<1>5. ~Launching /\ ~Committed
  <2>1. Len(cmd.todo) = 0
    BY <1>2
  <2>2. QED BY <2>1 DEF Launching, Committed, Rest
<1>6. PICK w \in Sessions : Holds(w)
  BY <1>2, <1>3, <1>4, <1>5 DEF CodeInv
<1>7. QED BY <1>2, <1>6 DEF Holds

(* What the panel shows of a code is what it has read, and a Start Over shows
   none.                                                                     *)
CodeRead ==
  /\ view.startOver => view.stage # "qrWaiting"
  /\ view.ready /\ view.generation = 0 /\ view.stage = "qrWaiting" => CodeIn(sent, read)

(* The code is still the last word when one is read that ends none.         *)
LEMMA CodeReads ==
  ASSUME NEW s, NEW n \in Nat, CodeIn(s, n), s[n + 1].type \notin Enders
  PROVE  CodeIn(s, n + 1)
<1>1. PICK i \in 1..n : s[i].type = "QrWaiting" /\ \A j \in i + 1..n : s[j].type \notin Enders
  BY DEF CodeIn
<1>2. i \in 1..n + 1 /\ \A j \in i + 1..n + 1 : j \in i + 1..n \/ j = n + 1
  OBVIOUS
<1>3. QED BY <1>1, <1>2 DEF CodeIn

(* A word that leaves the panel as it was ends no code, before the first
   session.                                                                  *)
LEMMA HearsCode ==
  ASSUME PanelTypeOK, CodeRead, ReceiveLine,
         ~HearQrWaiting, view'.stage = "qrWaiting"
  PROVE  /\ view' = view /\ read' = read + 1 /\ ~view.startOver
         /\ view.ready /\ view.generation = 0 => Incoming.type \notin Enders
<1>0. view \in View
  BY DEF PanelTypeOK
<1>1. ~HearReady /\ ~HearQrTimedOut /\ ~HearPairing /\ ~HearManualCode /\ ~HearCancelled
  BY <1>0 DEF HearReady, HearQrTimedOut, HearPairing, HearManualCode, HearCancelled, View
<1>2. view.startOver => view.stage # "qrWaiting"
  BY DEF CodeRead
<1>3. ~HearNothing
  BY <1>2 DEF HearNothing
<1>4. ASSUME HearStarted PROVE view' = view
  BY <1>0, <1>4 DEF HearStarted, View
<1>5. ASSUME NEW v \in View, NEW p, NEW s PROVE [v EXCEPT !.presenting = p, !.state = s, !.stage = "other"].stage = "other"
  BY DEF View
<1>6. ASSUME HearConnection PROVE view' = view
  <2> DEFINE v == IF Follows(Incoming.generation) THEN MoveTo(Incoming.generation) ELSE view
  <2>1. v \in View
    BY <1>0, <1>6, NextEvent, MovedKeeps DEF HearConnection, Hear
  <2>2. \/ view' = view
        \/ view' = [v EXCEPT !.trusted = TRUE, !.presenting = ~v.framed,
                             !.state = "connecting", !.stage = "other"]
    BY <1>6 DEF HearConnection
  <2> HIDE DEF v
  <2>3. QED BY <2>1, <2>2 DEF View
<1>7. ASSUME HearPreferences PROVE view' = view
  <2> DEFINE v == MoveTo(Incoming.generation)
  <2>1. v \in View
    BY <1>0, <1>7, NextEvent, MovedKeeps DEF HearPreferences, Hear
  <2>2. \/ view' = view
        \/ view' = [v EXCEPT !.presenting = TRUE, !.state = "connecting", !.stage = "other"]
    BY <1>7 DEF HearPreferences
  <2> HIDE DEF v
  <2>3. QED BY <2>1, <2>2 DEF View
<1>8. ASSUME HearStopped PROVE view' = view
  <2> DEFINE v == IF Follows(Incoming.generation) THEN MoveTo(Incoming.generation) ELSE view
  <2>1. v \in View
    BY <1>0, <1>8, NextEvent, MovedKeeps DEF HearStopped, Hear
  <2>2. \/ view' = view
        \/ view' = [v EXCEPT !.presenting = FALSE, !.stage = "other",
                             !.state = IF view.startOver THEN "stopping" ELSE "disconnected"]
    BY <1>8 DEF HearStopped
  <2> HIDE DEF v
  <2>3. QED BY <2>1, <2>2 DEF View
<1>9. ASSUME HearStartOverComplete PROVE view' = view
  <2> DEFINE v == IF Follows(Incoming.generation) THEN MoveTo(Incoming.generation) ELSE view
  <2>1. v \in View
    BY <1>0, <1>9, NextEvent, MovedKeeps DEF HearStartOverComplete, Hear
  <2>2. \/ view' = view
        \/ view' = [v EXCEPT !.presenting = FALSE, !.startOver = FALSE,
                             !.trusted = FALSE, !.state = "unpaired", !.stage = "other"]
    BY <1>9 DEF HearStartOverComplete
  <2> HIDE DEF v
  <2>3. QED BY <2>1, <2>2 DEF View
<1>10. ASSUME HearEnded PROVE view' = view
  <2> DEFINE v == MoveTo(Incoming.generation)
  <2>1. v \in View /\ v.stage = view.stage
    BY <1>0, <1>10, NextEvent, MovedKeeps DEF HearEnded, Hear
  <2>2. \/ view' = view
        \/ view.startOver /\ view' = [v EXCEPT !.presenting = FALSE]
        \/ view' = Failed(v, "disconnected")
    BY <1>10 DEF HearEnded
  <2> HIDE DEF v
  <2>3. CASE view.startOver /\ view' = [v EXCEPT !.presenting = FALSE]
    BY <1>2, <2>1, <2>3 DEF View
  <2>4. QED BY <2>1, <2>2, <2>3, FailedKeeps
<1>11. ASSUME HearLifecycleFailure PROVE view' = view
  <2>1. MoveTo(Incoming.generation) \in View
    BY <1>0, <1>11, NextEvent, MovedKeeps DEF HearLifecycleFailure, Hear
  <2>2. \/ view' = view
        \/ \E state : view' = Failed(MoveTo(Incoming.generation), state)
    BY <1>11 DEF HearLifecycleFailure
  <2>3. QED BY <2>1, <2>2, FailedKeeps
<1>12. ASSUME HearStale PROVE view' = view
  BY <1>0, <1>12, BrokenKeeps DEF HearStale
<1>13. ~HearProtocolError
  BY <1>0, BrokenKeeps DEF HearProtocolError
<1>14. ASSUME HearFailure PROVE view' = view /\ ~(view.ready /\ view.generation = 0)
  <2>1. CASE \E state : view' = Failed(view, state)
    BY <1>0, <2>1, FailedKeeps
  <2>2. CASE \/ view' = [view EXCEPT !.presenting = FALSE, !.startOver = FALSE, !.trusted = TRUE,
                                     !.state = "disconnected", !.stage = "other"]
             \/ view' = [view EXCEPT !.trusted = FALSE, !.presenting = FALSE,
                                     !.state = "unpaired", !.stage = "other"]
    BY <1>0, <2>2 DEF View
  <2>3. QED BY <1>14, <2>1, <2>2 DEF HearFailure
<1>15. /\ \/ HearPreferences \/ HearConnection \/ HearStarted \/ HearEnded \/ HearStopped
          \/ HearStartOverComplete \/ HearStale \/ HearFailure \/ HearLifecycleFailure
       /\ view' = view
  BY <1>1, <1>3, <1>4, <1>6, <1>7, <1>8, <1>9, <1>10, <1>11, <1>12, <1>13, <1>14 DEF ReceiveLine
<1>16. read' = read + 1
  BY <1>15
     DEF HearPreferences, HearConnection, HearStarted, HearEnded, HearStopped,
         HearStartOverComplete, HearStale, HearFailure, HearLifecycleFailure, Hear
<1>17. Incoming.type \notin Enders \/ HearFailure
  BY <1>15
     DEF HearPreferences, HearConnection, HearStarted, HearEnded, HearStopped,
         HearStartOverComplete, HearStale, HearLifecycleFailure, Hear, Enders
<1>18. QED BY <1>2, <1>14, <1>15, <1>16, <1>17

(* The panel's own steps.                                                    *)
LEMMA PanelReadsCode ==
  ASSUME PanelTypeOK, CodeRead, ReceiveLine \/ UserStep \/ FrameStep
  PROVE  CodeRead'
<1>0. view \in View /\ read \in Nat /\ sent \in Seq(EventSet) /\ read <= Len(sent)
  BY DEF PanelTypeOK, RuntimeTypeOK, TypeOK
<1>1. sent' = sent
  BY PanelFrame DEF runtimeVars, vars, quiet
<1>2. CASE view'.stage # "qrWaiting"
  BY <1>2 DEF CodeRead
<1>3. CASE HearQrWaiting
  <2>1. /\ ~view.startOver /\ read' = read + 1 /\ sent[read + 1].type = "QrWaiting"
        /\ view' = [view EXCEPT !.state = "unpaired", !.stage = "qrWaiting"]
    BY <1>3 DEF HearQrWaiting, Hear, StartOverEvents, Incoming
  <2>2. ~view'.startOver
    BY <1>0, <2>1 DEF View
  <2>3. read + 1 \in 1..read + 1 /\ read + 1 + 1..read + 1 = {}
    BY <1>0
  <2>4. CodeIn(sent, read + 1)
    BY <2>1, <2>3 DEF CodeIn
  <2>5. QED BY <1>1, <2>1, <2>2, <2>4 DEF CodeRead
<1>4. CASE ReceiveLine /\ ~HearQrWaiting /\ view'.stage = "qrWaiting"
  <2>1. /\ view' = view /\ read' = read + 1 /\ ~view.startOver
        /\ view.ready /\ view.generation = 0 => Incoming.type \notin Enders
    BY <1>4, HearsCode
  <2>2. view.ready /\ view.generation = 0 => CodeIn(sent, read + 1)
    BY <1>0, <1>4, <2>1, CodeReads DEF CodeRead, Incoming
  <2>3. QED BY <1>1, <2>1, <2>2 DEF CodeRead
<1>5. CASE (UserStep \/ FrameStep) /\ view'.stage = "qrWaiting"
  <2>1. /\ read' = read /\ view'.stage = view.stage /\ view'.startOver = view.startOver
        /\ view'.ready = view.ready /\ view'.generation = view.generation
    BY <1>0, <1>5
       DEF UserStep, FrameStep, OpenManagement, CloseManagement, Reconnect, UseManualCode,
           SubmitManualCode, StartOver, SetPreferences, Input, FirstFrame, FirstFrameTimeout, View
  <2>2. QED BY <1>1, <2>1 DEF CodeRead
<1>6. QED BY <1>2, <1>3, <1>4, <1>5

(* What the helper writes meanwhile is not read yet.                         *)
LEMMA UnreadCode ==
  ASSUME PanelTypeOK, CodeRead, view' = view, read' = read,
         sent' = sent \/ \E e \in EventSet : sent' = Append(sent, e)
  PROVE  CodeRead'
<1>1. sent \in Seq(EventSet) /\ read \in 0..Len(sent)
  BY DEF PanelTypeOK, RuntimeTypeOK, TypeOK
<1>2. CodeIn(sent, read) => CodeIn(sent', read)
  BY <1>1, CodeStays
<1>3. QED BY <1>2 DEF CodeRead

(* The invariant.                                                           *)
ShownCode == PairingInv /\ CodeInv /\ CodeRead

(* It holds when the panel opens ...                                        *)
LEMMA CodeStart == PanelInit => ShownCode
<1> SUFFICES ASSUME PanelInit PROVE ShownCode
  OBVIOUS
<1>1. RuntimeInit /\ Init /\ view = InitialView /\ cmd = IdleCommand /\ sent = <<>>
  BY DEF PanelInit, RuntimeInit, Init
<1>2. cmd.op = "none" /\ ~view.startOver /\ ~view.ready /\ Len(sent) = 0
  BY <1>1 DEF IdleCommand, InitialView
<1>3. PastFirst /\ Fresh /\ CodeRead
  BY <1>2 DEF PastFirst, Fresh, Superseded, Rest, CodeRead
<1>4. ApartPairings
  BY <1>1 DEF ApartPairings, RuntimeInit, IdleLauncher, BeforeClaim
<1>5. CodeInv
  BY <1>2 DEF CodeInv, CodeIn
<1>6. QED BY <1>3, <1>4, <1>5 DEF ShownCode, PairingInv

(* ... and every step keeps it.                                             *)
LEMMA CodeNext ==
  ASSUME PanelInv, ShownCode, [PanelNext]_sessionVars
  PROVE  ShownCode'
<1>0. /\ RuntimeInv /\ PanelTypeOK /\ TypeOK /\ PairingInv /\ CodeInv /\ CodeRead
      /\ sent' = sent \/ \E e \in EventSet : sent' = Append(sent, e)
  BY PanelNextInv, DrivenGrows DEF PanelInv, RuntimeInv, RuntimeTypeOK, ShownCode
<1>1. ASSUME UNCHANGED runtimeVars PROVE PairingInv' /\ CodeInv' /\ sent' = sent
  <2>1. /\ generation' = generation /\ sent' = sent /\ cmd' = cmd /\ launcher' = launcher
        /\ pairing' = pairing /\ pairingToken' = pairingToken
    BY <1>1 DEF runtimeVars, vars, quiet, cells, pairingVars
  <2>2. PairingInv'
    BY <1>0, <2>1 DEF PairingInv, PastFirst, Fresh, Superseded, ApartPairings, Rest
  <2>3. QED BY <1>0, <2>1, <2>2 DEF CodeInv, Holds, Launching, Committed, Rest
<1>2. CASE UNCHANGED sessionVars
  <2>1. UNCHANGED runtimeVars /\ view' = view /\ read' = read
    BY <1>2 DEF sessionVars, panelVars
  <2>2. QED BY <1>0, <1>1, <2>1, UnreadCode DEF ShownCode
<1>3. CASE ReceiveLine \/ UserStep \/ FrameStep
  BY <1>0, <1>1, <1>3, PanelFrame, PanelReadsCode DEF ShownCode
<1>4. CASE TakeCommand
  <2>1. view' = view /\ read' = read
    BY <1>4 DEF TakeCommand
  <2>2. QED BY <1>0, <1>4, <2>1, TakenKeepsPairings, TakenKeepsCode, UnreadCode DEF ShownCode
<1>5. CASE HelperStep
  <2>1. OwnStep /\ Driven /\ view' = view /\ read' = read
    BY <1>5, HelperStepInv DEF HelperStep, panelVars
  <2>2. GenerationGoesOn
    BY <1>0, <2>1, DrivenCounts
  <2>3. PairingInv' /\ CodeInv'
    BY <1>0, <2>1, <2>2, MainKeepsPairings, WorkerKeepsPairings, MainKeepsCode, WorkerKeepsCode
       DEF OwnStep
  <2>4. QED BY <1>0, <2>1, <2>3, UnreadCode DEF ShownCode
<1>6. QED BY <1>2, <1>3, <1>4, <1>5 DEF PanelNext

(* A code on the screen of a panel that has read all there is.              *)
LEMMA CodeIsLive ==
  ASSUME PanelInv, ShownCode
  PROVE  ShownCodeIsLive
<1>0. read \in 0..Len(sent) /\ sent \in Seq(EventSet)
  BY DEF PanelInv, PanelTypeOK, RuntimeTypeOK, TypeOK
<1>1. SUFFICES ASSUME InSync, view.generation = 0, view.stage = "qrWaiting"
               PROVE  \E w \in Sessions : launcher[w].step # "idle" /\ launcher[w].kind = "qr"
  BY DEF ShownCodeIsLive
<1>2. /\ view.ready /\ generation = 0 /\ cmd.todo = <<>> /\ ~Unread
  BY <1>1 DEF InSync, Settled
<1>3. read = Len(sent)
  BY <1>0, <1>2 DEF Unread
<1>4. CodeIn(sent, Len(sent))
  BY <1>1, <1>2, <1>3 DEF ShownCode, CodeRead
<1>5. ~Launching /\ ~Committed
  <2>1. Len(cmd.todo) = 0
    BY <1>2
  <2>2. QED BY <2>1 DEF Launching, Committed, Rest
<1>6. PICK w \in Sessions : Holds(w)
  BY <1>2, <1>4, <1>5 DEF ShownCode, CodeInv
<1>7. QED BY <1>6 DEF Holds, BeforeClaim

(* A QR code on the screen, before the first session, is one that a pairing *)
(* waits for: a code that expired, was withdrawn or was followed by another *)
(* word is taken off it (PairingState.qml:677-722, 826-828).                *)
THEOREM CodeShown == PanelSpec => []ShownCodeIsLive
<1>1. PanelInv /\ ShownCode /\ [PanelNext]_sessionVars => ShownCode'
  BY CodeNext
<1>2. PanelInv /\ ShownCode => ShownCodeIsLive
  BY CodeIsLive
<1>3. QED BY <1>1, <1>2, CodeStart, PanelInvariant, PTL DEF PanelSpec
=============================================================================
