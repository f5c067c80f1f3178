------------------------ MODULE PanelStartOverProofs --------------------------
(* Proofs about PanelSession across a Start Over: a session that the panel    *)
(* shows as live runs, and a Start Over that it sees complete has forgotten   *)
(* the device.  Both rest on the cycle of the QR pairings: one at a time is   *)
(* asked for, sought or just over, and while there is one the panel offers    *)
(* nothing of a session.                                                      *)
EXTENDS PanelSessionProofs

(* Why the panel writes a command.                                           *)
Asks(op) ==
  /\ op \in ShownOps => view.started
  /\ op \in {"startOver", "setPreferences", "useManualCode"} => op \in Commands
  /\ op = "submitManualCode" => view.stage = "manualCode"
  /\ op = "reconnect" => (HearReady /\ trusted) \/ (view.ready /\ view.trusted)
  /\ op = "startOver" => view.ready /\ view.trusted /\ ~view.startOver
  /\ op = "startQrPairing" =>
       \/ (HearReady /\ ~trusted) \/ HearQrTimedOut \/ HearCancelled
       \/ HearStartOverComplete /\ view.startOver /\ ~view'.startOver
Asked(op) ==
  op \in PanelOps /\ pipe' = Append(pipe, [op |-> op, generation |-> view.generation]) /\ Asks(op)

(* What the panel writes, it asks for.                                      *)
LEMMA PanelAsks ==
  ASSUME PanelTypeOK, ReceiveLine \/ UserStep \/ FrameStep
  PROVE  pipe' = pipe \/ \E op \in PanelOps : Asked(op)
<1>0. view \in View
  BY DEF PanelTypeOK
<1>1. /\ PanelOps = {"startQrPairing", "submitManualCode", "useManualCode", "reconnect",
                      "stopSession", "startOver", "setPreferences", "input", "previewReady"}
      /\ ShownOps = {"previewReady", "stopSession", "input"}
  BY DEF PanelOps, ShownOps
<1>2. ASSUME NEW op \in PanelOps, Send(op), Asks(op) PROVE \E o \in PanelOps : Asked(o)
  BY <1>2 DEF Send, Asked
<1>3. CASE ReceiveLine
  <2>1. CASE HearReady
    <3>1. CASE trusted
      BY <1>1, <1>2, <2>1, <3>1 DEF HearReady, Asks
    <3>2. CASE ~trusted
      <4>1. Send("startQrPairing") /\ "startQrPairing" \in PanelOps /\ Asks("startQrPairing")
        BY <1>1, <2>1, <3>2 DEF HearReady, Asks
      <4>2. QED BY <1>2, <4>1
    <3>3. QED BY <3>1, <3>2
  <2>2. CASE HearQrTimedOut
    <3>1. Send("startQrPairing") /\ "startQrPairing" \in PanelOps /\ Asks("startQrPairing")
      BY <1>1, <2>2 DEF HearQrTimedOut, Asks
    <3>2. QED BY <1>2, <3>1
  <2>3. CASE HearCancelled
    <3>1. Send("startQrPairing") \/ pipe' = pipe
      BY <2>3 DEF HearCancelled, Silent
    <3>2. "startQrPairing" \in PanelOps /\ Asks("startQrPairing")
      BY <1>1, <2>3 DEF Asks
    <3>3. QED BY <1>2, <3>1, <3>2
  <2>4. CASE HearStartOverComplete
    <3> DEFINE v == IF Follows(Incoming.generation) THEN MoveTo(Incoming.generation) ELSE view
    <3>1. \/ pipe' = pipe
          \/ /\ view.startOver /\ Send("startQrPairing")
             /\ view' = [v EXCEPT !.presenting = FALSE, !.startOver = FALSE,
                                  !.trusted = FALSE, !.state = "unpaired", !.stage = "other"]
      BY <2>4 DEF HearStartOverComplete, Silent
    <3>2. v \in View
      BY <1>0, <2>4, NextEvent, MovedKeeps DEF HearStartOverComplete, Hear
    <3> HIDE DEF v
    <3>3. pipe' = pipe \/ (view.startOver /\ Send("startQrPairing") /\ ~view'.startOver)
      BY <3>1, <3>2 DEF View
    <3>4. pipe' = pipe \/ (Send("startQrPairing") /\ Asks("startQrPairing"))
      BY <1>1, <2>4, <3>3 DEF Asks
    <3>5. QED BY <1>1, <1>2, <3>4
  <2>5. QED
    BY <1>3, <2>1, <2>2, <2>3, <2>4
       DEF ReceiveLine, HearNothing, HearPreferences, HearQrWaiting, HearPairing, HearManualCode,
           HearConnection, HearStarted, HearEnded, HearStopped, HearStale, HearFailure,
           HearLifecycleFailure, HearProtocolError, Silent
<1>4. CASE UserStep
  <2>1. CASE OpenManagement \/ CloseManagement
    BY <2>1 DEF OpenManagement, CloseManagement
  <2>2. CASE Reconnect
    BY <1>1, <1>2, <2>2 DEF Reconnect, Asks
  <2>3. CASE "useManualCode" \in Commands /\ UseManualCode
    BY <1>1, <1>2, <2>3 DEF UseManualCode, Asks
  <2>4. CASE SubmitManualCode
    BY <1>1, <1>2, <2>4 DEF SubmitManualCode, Asks
  <2>5. CASE "startOver" \in Commands /\ StartOver
    BY <1>1, <1>2, <2>5 DEF StartOver, Asks
  <2>6. CASE "setPreferences" \in Commands /\ SetPreferences
    BY <1>1, <1>2, <2>6 DEF SetPreferences, Asks
  <2>7. CASE Input
    BY <1>1, <1>2, <2>7 DEF Input, Asks
  <2>8. QED BY <1>4, <2>1, <2>2, <2>3, <2>4, <2>5, <2>6, <2>7 DEF UserStep
<1>5. CASE FrameStep
  <2>1. CASE FirstFrame
    BY <1>1, <1>2, <2>1 DEF FirstFrame, Asks
  <2>2. CASE FirstFrameTimeout
    BY <1>1, <1>2, <2>2 DEF FirstFrameTimeout, Asks
  <2>3. QED BY <1>5, <2>1, <2>2 DEF FrameStep
<1>6. QED BY <1>3, <1>4, <1>5

(* A panel that pairs by QR code alone: what it writes, and what never       *)
(* happens then.                                                             *)
QrOps ==
  {"startQrPairing", "reconnect", "stopSession", "input", "previewReady"}
    \cup ({"startOver", "setPreferences"} \cap Commands)
QrOnly ==
  /\ cmd.op \in QrOps \cup {"none"}
  /\ \A i \in DOMAIN pipe : pipe[i].op \in QrOps
  /\ \A w \in Sessions : launcher[w].kind # "manual"
  /\ view.stage # "manualCode"
  /\ \A i \in DOMAIN sent : sent[i].type # "ManualCodeRequired"

(* Before the panel has heard of the helper, nothing has happened.           *)
Opening ==
  view.stage = "idle" =>
    /\ view = InitialView /\ pipe = <<>> /\ sent = <<>> /\ generation = 0
    /\ cmd.todo = <<>> /\ caller.step = "idle"
    /\ \A w \in Sessions : launcher[w].step = "idle" /\ worker[w].step = "idle"

(* One QR pairing at a time is wanted by the panel, asked of the helper,     *)
(* sought by a worker, or over and not yet heard of.                         *)
Wants(i) == i \in DOMAIN pipe /\ pipe[i].op = "startQrPairing"
Wanted == \E i : Wants(i)
Asking == cmd.op = "startQrPairing" /\ cmd.todo # <<>>
Seeks(w) ==
  /\ launcher[w].kind = "qr" /\ launcher[w].step \notin {"idle", "start", "tell"}
  /\ launcher[w].step = "report" => launcher[w].outcome # "Linked"
Seeking == \E w \in Sessions : Seeks(w)
QrWords == {"QrTimedOut", "PairingCancelled"}
Lapses(i) == i \in read + 1..Len(sent) /\ sent[i].type \in QrWords
Lapsed == \E i : Lapses(i)
OneWants == \A i, j : Wants(i) /\ Wants(j) => i = j
OneSeeks == \A v, w \in Sessions : Seeks(v) /\ Seeks(w) => v = w
OneLapses == \A i, j : Lapses(i) /\ Lapses(j) => i = j
Exclusive ==
  /\ Wanted => ~Asking /\ ~Seeking /\ ~Lapsed
  /\ Asking => ~Seeking /\ ~Lapsed
  /\ Seeking => ~Lapsed
QrCycle == OneWants /\ OneSeeks /\ OneLapses /\ Exclusive
Hot == Wanted \/ Asking \/ Seeking \/ Lapsed

(* The panel reads one event at most, and does not enter the manual stage    *)
(* unless it is told to.                                                     *)
LEMMA PanelReads ==
  ASSUME ReceiveLine \/ UserStep \/ FrameStep
  PROVE  /\ read' = read \/ (Unread /\ read' = read + 1)
         /\ HearQrTimedOut \/ HearCancelled => Incoming.type \in QrWords /\ Unread /\ read' = read + 1
<1>1. CASE ReceiveLine
  BY <1>1
     DEF ReceiveLine, HearReady, HearNothing, HearPreferences, HearQrWaiting, HearQrTimedOut,
         HearPairing, HearManualCode, HearCancelled, HearConnection, HearStarted, HearEnded,
         HearStopped, HearStartOverComplete, HearStale, HearFailure, HearLifecycleFailure,
         HearProtocolError, Hear, QrWords
<1>2. CASE UserStep \/ FrameStep
  BY <1>2
     DEF UserStep, FrameStep, OpenManagement, CloseManagement, Reconnect, UseManualCode,
         SubmitManualCode, StartOver, SetPreferences, Input, FirstFrame, FirstFrameTimeout,
         HearQrTimedOut, HearCancelled, Hear, QrWords
<1>3. QED BY <1>1, <1>2

(* Which stages the panel shows, and when.                                  *)
LEMMA Staged ==
  ASSUME PanelTypeOK, ReceiveLine \/ UserStep \/ FrameStep
  PROVE  \/ view'.stage \notin {"idle", "manualCode"} \/ view'.stage = view.stage
         \/ Unread /\ Incoming.type = "ManualCodeRequired"
<1>0. view \in View
  BY DEF PanelTypeOK
<1> DEFINE Sane(v) == v.stage \notin {"idle", "manualCode"} \/ v.stage = view.stage
<1>1. Sane(view)
  OBVIOUS
<1>2. ASSUME NEW v \in View, v.stage = view.stage PROVE Sane(v)
  BY <1>2
<1>3. ASSUME NEW v \in View, v.stage \in {"other", "qrWaiting", "protocolError"} PROVE Sane(v)
  BY <1>3
<1>4. CASE HearReady \/ HearQrWaiting \/ HearQrTimedOut \/ HearPairing \/ HearCancelled
  BY <1>0, <1>4 DEF HearReady, HearQrWaiting, HearQrTimedOut, HearPairing, HearCancelled, View
<1>5. CASE HearNothing \/ HearStarted
  BY <1>0, <1>5 DEF HearNothing, HearStarted, View
<1>6. CASE HearManualCode
  BY <1>6 DEF HearManualCode, Hear
<1>7. CASE HearConnection \/ HearStopped \/ HearStartOverComplete
  <2> DEFINE v == IF Follows(Incoming.generation) THEN MoveTo(Incoming.generation) ELSE view
  <2>1. v \in View
    BY <1>0, <1>7, NextEvent, MovedKeeps DEF HearConnection, HearStopped, HearStartOverComplete, Hear
  <2>2. \/ view' = view
        \/ view' = [v EXCEPT !.trusted = TRUE, !.presenting = ~v.framed,
                             !.state = "connecting", !.stage = "other"]
        \/ view' = [v EXCEPT !.presenting = FALSE, !.stage = "other",
                             !.state = IF view.startOver THEN "stopping" ELSE "disconnected"]
        \/ view' = [v EXCEPT !.presenting = FALSE, !.startOver = FALSE,
                             !.trusted = FALSE, !.state = "unpaired", !.stage = "other"]
    BY <1>7 DEF HearConnection, HearStopped, HearStartOverComplete
  <2> HIDE DEF v
  <2>3. QED BY <2>1, <2>2 DEF View
<1>8. CASE HearPreferences
  <2> DEFINE v == MoveTo(Incoming.generation)
  <2>1. v \in View
    BY <1>0, <1>8, NextEvent, MovedKeeps DEF HearPreferences, Hear
  <2>2. \/ view' = view
        \/ view' = [v EXCEPT !.presenting = TRUE, !.state = "connecting", !.stage = "other"]
    BY <1>8 DEF HearPreferences
  <2> HIDE DEF v
  <2>3. QED BY <2>1, <2>2 DEF View
<1>9. CASE HearEnded
  <2> DEFINE v == MoveTo(Incoming.generation)
  <2>1. v \in View /\ v.stage = view.stage
    BY <1>0, <1>9, NextEvent, MovedKeeps DEF HearEnded, Hear
  <2>2. \/ view' = view
        \/ view' = [v EXCEPT !.presenting = FALSE]
        \/ view' = Failed(v, "disconnected")
    BY <1>9 DEF HearEnded
  <2> HIDE DEF v
  <2>3. CASE view' = [v EXCEPT !.presenting = FALSE]
    BY <2>1, <2>3 DEF View
  <2>4. QED BY <2>1, <2>2, <2>3, FailedKeeps
<1>10. CASE HearLifecycleFailure
  <2>1. MoveTo(Incoming.generation) \in View
    BY <1>0, <1>10, NextEvent, MovedKeeps DEF HearLifecycleFailure, Hear
  <2>2. \/ view' = view
        \/ \E state : view' = Failed(MoveTo(Incoming.generation), state)
    BY <1>10 DEF HearLifecycleFailure
  <2>3. QED BY <2>1, <2>2, FailedKeeps
<1>11. CASE HearStale \/ HearProtocolError
  BY <1>0, <1>11, BrokenKeeps DEF HearStale, HearProtocolError
<1>12. CASE HearFailure
  <2>1. \/ view' = view \/ \E state : view' = Failed(view, state)
        \/ view' = [view EXCEPT !.presenting = FALSE, !.startOver = FALSE, !.trusted = TRUE,
                                !.state = "disconnected", !.stage = "other"]
        \/ view' = [view EXCEPT !.trusted = FALSE, !.presenting = FALSE,
                                !.state = "unpaired", !.stage = "other"]
    BY <1>12 DEF HearFailure
  <2>2. CASE \E state : view' = Failed(view, state)
    BY <1>0, <2>2, FailedKeeps
  <2>3. QED BY <1>0, <2>1, <2>2 DEF View
<1>13. CASE UserStep \/ FrameStep
  <2>1. CASE OpenManagement \/ CloseManagement \/ Reconnect \/ FirstFrame
    BY <1>0, <2>1 DEF OpenManagement, CloseManagement, Reconnect, FirstFrame, View
  <2>2. CASE FirstFrameTimeout \/ StartOver
    BY <1>0, <2>2 DEF FirstFrameTimeout, StartOver, View
  <2>3. CASE UseManualCode \/ SubmitManualCode \/ SetPreferences \/ Input
    BY <2>3 DEF UseManualCode, SubmitManualCode, SetPreferences, Input
  <2>4. QED BY <1>13, <2>1, <2>2, <2>3 DEF UserStep, FrameStep
<1>14. QED
  BY <1>4, <1>5, <1>6, <1>7, <1>8, <1>9, <1>10, <1>11, <1>12, <1>13 DEF ReceiveLine

(* What the queues say of the cycle, as they move.                           *)
LEMMA WantsMore ==
  ASSUME NEW S, pipe \in Seq(S), NEW c \in S, pipe' = Append(pipe, c), OneWants
  PROVE  /\ Wanted' => Wanted \/ c.op = "startQrPairing"
         /\ (c.op = "startQrPairing" => ~Wanted) => OneWants'
<1>1. /\ DOMAIN pipe = 1..Len(pipe) /\ DOMAIN pipe' = 1..Len(pipe) + 1 /\ Len(pipe) \in Nat
      /\ \A i \in 1..Len(pipe) : pipe'[i] = pipe[i]
      /\ pipe'[Len(pipe) + 1] = c
  <2> DEFINE t == Append(pipe, c)
  <2>1. t = Append(pipe, c)
    OBVIOUS
  <2> HIDE DEF t
  <2>2. QED BY <2>1, Appended
<1>2. \A i : Wants(i)' => Wants(i) \/ (i = Len(pipe) + 1 /\ c.op = "startQrPairing")
  BY <1>1 DEF Wants
<1>3. QED BY <1>2 DEF Wanted, OneWants

(* A command that is read is wanted no more.                                *)
LEMMA WantsLess ==
  ASSUME NEW S, pipe \in Seq(S), pipe # <<>>, pipe' = Tail(pipe), OneWants
  PROVE  /\ OneWants' /\ (Wanted' => Wanted)
         /\ Head(pipe).op = "startQrPairing" => Wanted /\ ~Wanted'
<1>1. /\ 1 \in DOMAIN pipe /\ Head(pipe) = pipe[1] /\ DOMAIN pipe' \subseteq Nat \ {0}
      /\ \A i \in DOMAIN pipe' : i + 1 \in DOMAIN pipe /\ pipe'[i] = pipe[i + 1]
  <2>1. Tail(pipe) \in Seq(S)
    BY QueueShrinks
  <2>2. QED BY <2>1, QueueShrinks
<1>2. \A i : Wants(i)' => Wants(i + 1) /\ i \in Nat \ {0}
  BY <1>1 DEF Wants
<1>3. Head(pipe).op = "startQrPairing" => Wants(1)
  BY <1>1 DEF Wants
<1>4. \A i \in Nat \ {0} : i + 1 # 1
  OBVIOUS
<1>5. \A i, j \in Nat : i + 1 = j + 1 => i = j
  OBVIOUS
<1>6. QED BY <1>2, <1>3, <1>4, <1>5 DEF Wanted, OneWants

(* An event that is read lapses no more.                                    *)
LEMMA LapsesLess ==
  ASSUME PanelTypeOK, sent' = sent, read' = read \/ (Unread /\ read' = read + 1)
  PROVE  /\ Lapsed' => Lapsed
         /\ OneLapses => OneLapses'
         /\ OneLapses /\ Unread /\ read' = read + 1 /\ Incoming.type \in QrWords => Lapsed /\ ~Lapsed'
<1>1. read \in Nat /\ Len(sent) \in Nat
  BY DEF PanelTypeOK, RuntimeTypeOK, TypeOK
<1>2. \A i : Lapses(i)' => Lapses(i)
  BY <1>1 DEF Lapses
<1>3. Unread /\ Incoming.type \in QrWords => Lapses(read + 1)
  BY <1>1 DEF Unread, Incoming, Lapses
<1>4. ASSUME read' = read + 1, NEW i, Lapses(i)' PROVE i # read + 1
  BY <1>1, <1>4 DEF Lapses
<1>5. QED BY <1>2, <1>3, <1>4 DEF Lapsed, OneLapses

(* An event that is written may lapse.                                      *)
LEMMA LapsesMore ==
  ASSUME PanelTypeOK, NEW e \in EventSet, sent' = Append(sent, e), read' = read
  PROVE  /\ Lapsed' => Lapsed \/ e.type \in QrWords
         /\ OneLapses /\ (e.type \in QrWords => ~Lapsed) => OneLapses'
<1>1. read \in Nat /\ sent \in Seq(EventSet) /\ read <= Len(sent)
  BY DEF PanelTypeOK, RuntimeTypeOK, TypeOK
<1>2. /\ Len(sent') = Len(sent) + 1 /\ Len(sent) \in Nat
      /\ \A i \in 1..Len(sent) : sent'[i] = sent[i]
      /\ sent'[Len(sent) + 1] = e
  <2> DEFINE t == Append(sent, e)
  <2>1. t = Append(sent, e)
    OBVIOUS
  <2> HIDE DEF t
  <2>2. QED BY <1>1, <2>1, Appended
<1>3. \A i : Lapses(i)' => Lapses(i) \/ (i = Len(sent) + 1 /\ e.type \in QrWords)
  BY <1>1, <1>2 DEF Lapses
<1>4. QED BY <1>3 DEF Lapsed, OneLapses

QrInv == QrOnly /\ Opening /\ QrCycle

(* A launcher that goes on seeks no more than it did ...                    *)
LEMMA SeeksOn ==
  ASSUME RuntimeTypeOK, NEW w \in Sessions, NEW s \in LauncherSteps, LGoto(w, s),
         launcher[w].step \notin {"idle", "start", "tell"} \/ s = "start",
         launcher[w].step = "report" => s = "start",
         s = "report" => launcher[w].kind # "qr" \/ launcher[w].outcome # "Linked"
  PROVE  \A v \in Sessions : Seeks(v)' => Seeks(v)
<1>1. LauncherGoes(w, s) /\ LauncherKeeps(w)
  BY GoesOn
<1>2. \A v \in Sessions \ {w} : Seeks(v)' => Seeks(v)
  BY <1>1 DEF Seeks, LauncherGoes
<1>3. Seeks(w)' => Seeks(w)
  BY <1>1 DEF Seeks, LauncherGoes, LauncherKeeps
<1>4. QED BY <1>2, <1>3

(* ... and one that leaves does not seek.                                   *)
LEMMA SeeksNoMore ==
  ASSUME RuntimeTypeOK, NEW w \in Sessions, LFinish(w)
  PROVE  /\ \A v \in Sessions : Seeks(v)' => Seeks(v)
         /\ ~Seeks(w)'
BY IsGone DEF LauncherGone, Seeks

(* A worker seeks no more than it did, and says that its pairing is over as *)
(* it stops seeking.                                                        *)
LEMMA WorkerSeeks ==
  ASSUME RuntimeInv, NEW w \in Sessions, launcher[w].kind # "manual",
         LauncherStep(w) \/ PhoneStep(w) \/ LifetimeExpires(w) \/ SessionWorkerStep(w)
           \/ SessionChildStep(w)
  PROVE  /\ \A v \in Sessions : Seeks(v)' => Seeks(v)
         /\ \/ sent' = sent
            \/ \E type \in EventTypes, g \in Nat :
                 /\ Emit(Event(type, g)) /\ type # "ManualCodeRequired"
                 /\ type \in QrWords => Seeks(w) /\ ~Seeks(w)'
<1>0. /\ RuntimeTypeOK /\ TypeOK /\ generation \in Nat /\ launcher[w] \in LauncherState
      /\ Fits(w) /\ launcher \in [Sessions -> LauncherState]
  BY DEF RuntimeInv, RuntimeTypeOK, TypeOK, LauncherInv, LauncherFits
<1>1. ASSUME launcher' = launcher PROVE \A v \in Sessions : Seeks(v)' => Seeks(v)
  BY <1>1 DEF Seeks
<1>2. CASE EnterFlow(w) \/ ReportProgress(w)
  BY <1>0, <1>2, SeeksOn, LauncherValues DEF EnterFlow, ReportProgress, vars
<1>3. CASE TellProgress(w)
  <2>1. Emit(Event("Pairing", 0)) /\ "Pairing" \in EventTypes \ QrWords /\ 0 \in Nat
    BY <1>3, KnownTypes DEF TellProgress, QrWords
  <2>2. QED BY <1>0, <1>3, <2>1, SeeksOn, LauncherValues DEF TellProgress
<1>4. CASE FlowCancelled(w) \/ FlowFails(w) \/ FlowTimesOut(w) \/ \E t \in Targets : FlowLinks(w, t)
  <2>1. PICK o \in Outcomes, t \in Targets \cup {NoTarget} : LeaveFlow(w, o, t)
    BY <1>4, LauncherValues DEF FlowCancelled, FlowFails, FlowTimesOut, FlowLinks
  <2>2. LauncherGoes(w, "claim") /\ launcher[w].step \in {"talk", "pairing"} /\ sent' = sent
    BY <1>0, <2>1, LeavesFlow DEF LeaveFlow, vars
  <2>3. \A v \in Sessions : Seeks(v)' => Seeks(v)
    BY <2>2 DEF LauncherGoes, Seeks
  <2>4. QED BY <2>2, <2>3
<1>5. CASE ClaimPairing(w) \/ StartDisconnect(w) \/ DropQr(w) \/ RememberDevice(w)
  BY <1>0, <1>5, SeeksOn, LauncherValues DEF ClaimPairing, StartDisconnect, DropQr, RememberDevice, vars
<1>6. CASE LosePairing(w) \/ Disconnected(w) \/ DropReconnect(w) \/ StartSession(w)
  <2>1. sent' = sent /\ (LFinish(w) \/ (LGoto(w, "disconnect") /\ launcher[w].step = "claim"))
    BY <1>6 DEF LosePairing, Disconnected, DropReconnect, StartSession, Discard, Spawn, vars
  <2>2. QED BY <1>0, <2>1, SeeksOn, SeeksNoMore, LauncherValues
<1>7. CASE SaveDevice(w)
  <2>1. CASE LGoto(w, "remember")
    BY <1>0, <1>7, <2>1, SeeksOn, LauncherValues DEF SaveDevice, vars
  <2>2. CASE launcher' = [launcher EXCEPT ![w].step = "report", ![w].outcome = "Failure"]
    <3>1. LauncherGoes(w, "report") /\ launcher[w].step = "save" /\ sent' = sent
      BY <1>0, <1>7, <2>2, SaveFails DEF SaveDevice, vars
    <3>2. \A v \in Sessions : Seeks(v)' => Seeks(v)
      BY <3>1 DEF LauncherGoes, Seeks
    <3>3. QED BY <3>1, <3>2
  <2>3. QED BY <1>7, <2>1, <2>2 DEF SaveDevice
<1>8. CASE AdvanceGeneration(w)
  <2>1. LGoto(w, "report") /\ launcher[w].step = "advance" /\ sent' = sent
    BY <1>8 DEF AdvanceGeneration, Advance, LGoto
  <2>2. launcher'[w].outcome = "Linked" /\ LauncherGoes(w, "report")
    BY <1>0, <2>1, GoesOn, LauncherValues DEF Fits, LauncherKeeps
  <2>3. \A v \in Sessions : Seeks(v)' => Seeks(v)
    BY <2>1, <2>2 DEF LauncherGoes, Seeks
  <2>4. QED BY <2>1, <2>3
<1>9. CASE ReportLinked(w)
  <2>1. \E type \in {"Connected", "Paired"} : Emit(Event(type, worker[w].current))
    BY <1>9 DEF ReportLinked
  <2>2. worker[w].current \in Nat /\ {"Connected", "Paired"} \subseteq EventTypes \ QrWords
    BY <1>0, WorkerFields, KnownTypes DEF QrWords
  <2>3. \A v \in Sessions : Seeks(v)' => Seeks(v)
    BY <1>0, <1>9, SeeksOn, LauncherValues DEF ReportLinked
  <2>4. QED BY <2>1, <2>2, <2>3
<1>10. CASE ReportPairingOver(w)
  <2>1. /\ Emit(Event(PairingOver[launcher[w].outcome], 0)) /\ LFinish(w)
        /\ launcher[w].kind # "reconnect" /\ launcher[w].step = "report"
        /\ launcher[w].outcome # "Linked"
    BY <1>10 DEF ReportPairingOver
  <2>2. launcher[w].outcome \in {"Failure", "TimedOut", "Cancelled"}
    BY <1>0, <2>1, LauncherValues DEF Fits, LauncherState
  <2>3. PairingOver[launcher[w].outcome] \in {"Failure", "QrTimedOut", "PairingCancelled"}
    BY <2>2 DEF PairingOver
  <2>4. PairingOver[launcher[w].outcome] \in EventTypes /\ 0 \in Nat
        /\ PairingOver[launcher[w].outcome] # "ManualCodeRequired"
    BY <2>3, KnownTypes
  <2>5. \A v \in Sessions : Seeks(v)' => Seeks(v)
    BY <1>0, <2>1, SeeksNoMore
  <2>6. ~Seeks(w)'
    BY <1>0, <2>1, SeeksNoMore
  <2>7. PairingOver[launcher[w].outcome] \in QrWords => Seeks(w)
    <3>1. launcher[w].kind = "qr"
      BY <1>0, <2>1, LauncherValues DEF Fits, Carries, LauncherState
    <3>2. QED BY <2>1, <3>1 DEF Seeks
  <2>8. QED BY <2>1, <2>4, <2>5, <2>6, <2>7
<1>11. CASE FailReconnect(w)
  <2>1. LauncherGoes(w, "tell") /\ sent' = sent
    BY <1>0, <1>11, FailureToTell DEF FailReconnect, AdvanceFailed
  <2>2. \A v \in Sessions : Seeks(v)' => Seeks(v)
    BY <2>1 DEF LauncherGoes, Seeks
  <2>3. QED BY <2>1, <2>2
<1>12. CASE TellFailure(w)
  <2>1. Emit(Event("ReconnectFailed", launcher[w].told)) /\ LFinish(w) /\ launcher[w].told \in Nat
        /\ "ReconnectFailed" \in EventTypes \ QrWords
    BY <1>0, <1>12, KnownTypes DEF TellFailure, LauncherState, QrWords
  <2>2. QED BY <1>0, <2>1, SeeksNoMore
<1>13. CASE LifetimeExpires(w)
  BY <1>1, <1>13 DEF LifetimeExpires, vars
<1>14. CASE SessionWorkerStep(w) \/ SessionChildStep(w)
  <2>1. launcher' = launcher /\ (WorkerStep(w) \/ ScrcpyStep(w))
    BY <1>14 DEF SessionWorkerStep, SessionChildStep
  <2>2. sent' = sent \/ Announce(w) \/ ConfirmStarted(w) \/ ReportEnd(w)
    BY <2>1 DEF WorkerStep, ScrcpyStep, SpawnStale, SpawnCurrent, LockRunner, SetTarget, RefuseStart, AdmitStart,
           RunScrcpy, RunStopped, StartDeadline, ExitSuperseded, ClaimRetry, KeepResult, EndSilently, ClaimEnd,
           ClearTarget, CaptureReady, RunUnavailable, ScrcpyExits
  <2>3. sent' = sent \/ \E type \in {"SessionStarting", "SessionStarted", "SessionEnded", "LifecycleFailure"} :
                         Emit(Event(type, worker[w].current))
    BY <2>2 DEF Announce, ConfirmStarted, ReportEnd, EndEvent, Emit
  <2>4. worker[w].current \in Nat
        /\ {"SessionStarting", "SessionStarted", "SessionEnded", "LifecycleFailure"} \subseteq EventTypes \ QrWords
    BY <1>0, WorkerFields, KnownTypes DEF QrWords
  <2>5. QED BY <1>1, <2>1, <2>3, <2>4
<1>15. QED
  BY <1>2, <1>3, <1>4, <1>5, <1>6, <1>7, <1>8, <1>9, <1>10, <1>11, <1>12, <1>13, <1>14
     DEF LauncherStep, PhoneStep

(* What the main thread does to the cycle: it goes on asking, or launches    *)
(* the one worker that seeks.                                                *)
LEMMA MainSeeks ==
  ASSUME RuntimeInv, cmd.op \in QrOps \cup {"none"}, MainStep
  PROVE  /\ Asking' => Asking
         /\ cmd'.op \in {cmd.op, "none"}
         /\ \/ launcher' = launcher
            \/ \E w \in Sessions :
                 /\ launcher[w].step = "idle" /\ launcher'[w].kind # "manual"
                 /\ \A v \in Sessions \ {w} : launcher'[v] = launcher[v]
                 /\ Seeks(w)' => Asking /\ ~Asking'
         /\ \/ sent' = sent
            \/ \E type \in EventTypes \ (QrWords \cup {"ManualCodeRequired"}), g \in Nat :
                 Emit(Event(type, g))
<1>0. /\ RuntimeTypeOK /\ TypeOK /\ TodoFits /\ cmd \in CommandState
      /\ launcher \in [Sessions -> LauncherState]
  BY DEF RuntimeInv, RuntimeTypeOK, TypeOK, MainInv
<1>1. /\ Asking' => Asking
      /\ cmd'.op \in {cmd.op, "none"}
  <2>1. CASE CommandKept
    BY <2>1 DEF CommandKept, Asking
  <2>2. CASE cmd' = IdleCommand
    BY <2>2, IdleTodo DEF Asking
  <2>3. CASE cmd.op \in {"input", "phoneTarget"} /\ cmd' = [cmd EXCEPT !.todo = FailedInput, !.read = FALSE]
    BY <1>0, <2>3 DEF Asking, CommandState
  <2>4. CASE \E step : Follow(step)
    <3>1. PICK step : At(step) /\ Proceeds
      BY <2>4 DEF Follow
    <3>2. QED BY <3>1 DEF At, Proceeds, Asking
  <2>5. QED BY <1>0, <2>1, <2>2, <2>3, <2>4, MainFollows
<1>2. ASSUME NEW w \in Sessions, Launch(w)
      PROVE  /\ launcher[w].step = "idle" /\ launcher'[w].kind # "manual"
             /\ \A v \in Sessions \ {w} : launcher'[v] = launcher[v]
             /\ Seeks(w)' => Asking /\ ~Asking'
  <2>1. At("launch") /\ Proceeds
    BY <1>0, <1>2, ContinueProceeds DEF Launch
  <2>2. cmd.op \in {"startQrPairing", "submitManualCode", "reconnect"} /\ cmd'.todo = <<>>
    <3>1. ~Failing => Place(cmd.op, Len(cmd.todo), "launch")
      BY <1>0, <2>1, TodoNow
    <3>2. cmd.op \in {"startQrPairing", "submitManualCode", "reconnect"} /\ Len(cmd.todo) = 1
      BY <1>0, <2>1, <3>1, TodoNow DEF Place
    <3>3. QED BY <1>0, <2>1, <3>2, TodoGoesOn
  <2>3. cmd.op \in {"startQrPairing", "reconnect"}
    BY <2>2 DEF QrOps
  <2>4. PICK kind \in LauncherKinds :
          /\ kind = "qr" <=> cmd.op = "startQrPairing"
          /\ kind = "reconnect" <=> cmd.op = "reconnect"
          /\ launcher' = [launcher EXCEPT ![w] =
               [IdleLauncher EXCEPT !.step = "flow", !.kind = kind, !.pairing = pairingToken]]
    BY <1>2 DEF Launch
  <2>5. launcher'[w].kind = kind /\ \A v \in Sessions \ {w} : launcher'[v] = launcher[v]
    BY <1>0, <2>4 DEF IdleLauncher
  <2>6. launcher[w].step = "idle" /\ cmd.todo # <<>>
    BY <1>2 DEF Launch, At
  <2>7. launcher'[w].kind = "qr" => Asking /\ ~Asking'
    BY <2>2, <2>4, <2>5, <2>6 DEF Asking
  <2>8. QED BY <2>3, <2>4, <2>5, <2>6, <2>7 DEF Seeks
<1>3. \/ launcher' = launcher
      \/ \E w \in Sessions :
           /\ launcher[w].step = "idle" /\ launcher'[w].kind # "manual"
           /\ \A v \in Sessions \ {w} : launcher'[v] = launcher[v]
           /\ Seeks(w)' => Asking /\ ~Asking'
  BY <1>2, MainPairs
<1>4. \/ sent' = sent
      \/ \E type \in EventTypes \ (QrWords \cup {"ManualCodeRequired"}), g \in Nat :
           Emit(Event(type, g))
  <2>1. CASE Reply
    <3> DEFINE type == IF cmd.op \in DOMAIN RestartType /\ cmd.target # NoTarget
                       THEN RestartType[cmd.op] ELSE ReplyType[cmd.op]
               g == IF cmd.op \in Telling THEN cmd.generation ELSE 0
    <3>1. type \in EventTypes /\ g \in Nat /\ Emit(Event(type, g)) /\ cmd.op \in DOMAIN ReplyType
      BY <2>1, ReplyTells
    <3>2. cmd.op \in {"startQrPairing", "reconnect", "stopSession", "startOver", "setPreferences"}
      BY <3>1 DEF ReplyType, QrOps
    <3>3. type \in {"QrWaiting", "Connecting", "SessionStopped", "StartOverComplete",
                    "PreferencesUpdated", "PreferencesRestarted"}
      <4>1. DOMAIN RestartType = {"setPreferences", "setScrcpyArgs"}
        BY DEF RestartType
      <4>2. QED BY <3>2, <4>1, Replies
    <3> HIDE DEF type, g
    <3>4. type \notin QrWords \cup {"ManualCodeRequired"}
      BY <3>3 DEF QrWords
    <3>5. QED BY <3>1, <3>4
  <2>2. {"Refused", "Failure", "InputFailed"} \subseteq EventTypes \ (QrWords \cup {"ManualCodeRequired"})
    BY KnownTypes DEF QrWords
  <2>3. QED BY <2>1, <2>2, MainTells
<1>5. QED BY <1>1, <1>3, <1>4

(* An event that is no word of the cycle.                                    *)
LEMMA SaysElse ==
  ASSUME PanelTypeOK, read' = read, OneLapses, \A i \in DOMAIN sent : sent[i].type # "ManualCodeRequired",
         \/ sent' = sent
         \/ \E type \in EventTypes \ (QrWords \cup {"ManualCodeRequired"}), g \in Nat :
              Emit(Event(type, g))
  PROVE  /\ Lapsed' => Lapsed
         /\ OneLapses'
         /\ \A i \in DOMAIN sent' : sent'[i].type # "ManualCodeRequired"
<1>1. CASE sent' = sent
  BY <1>1, LapsesLess
<1>2. CASE \E type \in EventTypes \ (QrWords \cup {"ManualCodeRequired"}), g \in Nat :
              Emit(Event(type, g))
  <2>1. PICK type \in EventTypes \ (QrWords \cup {"ManualCodeRequired"}), g \in Nat :
          Emit(Event(type, g))
    BY <1>2
  <2>2. /\ sent' = Append(sent, Event(type, g)) /\ Event(type, g) \in EventSet
        /\ Event(type, g).type = type /\ sent \in Seq(EventSet)
    BY <2>1 DEF Emit, Event, EventSet, PanelTypeOK, RuntimeTypeOK, TypeOK
  <2>3. \A i \in DOMAIN sent' :
          sent'[i] = Event(type, g) \/ (i \in DOMAIN sent /\ sent'[i] = sent[i])
    BY <2>2, QueueGrows
  <2>4. QED BY <2>2, <2>3, LapsesMore
<1>3. QED BY <1>1, <1>2

(* The helper reads the next command.                                        *)
LEMMA TakenQr ==
  ASSUME PanelInv, QrInv, TakeCommand
  PROVE  QrInv' /\ (Hot' => Hot)
<1> DEFINE c == Head(pipe)
<1>0. /\ PanelTypeOK /\ TypeOK /\ generation \in Nat /\ pipe \in Seq([op: Ops, generation: Nat])
      /\ QrOnly /\ Opening /\ OneWants /\ OneSeeks /\ OneLapses /\ Exclusive
  BY DEF PanelInv, PanelTypeOK, RuntimeTypeOK, TypeOK, QrInv, QrCycle
<1>1. /\ pipe # <<>> /\ pipe' = Tail(pipe) /\ view' = view /\ read' = read
      /\ (c.op \in SessionBound /\ AnswerStale(c.op)) \/ Accept(c.op)
  BY DEF TakeCommand
<1>2. /\ \A i \in DOMAIN pipe' : i + 1 \in DOMAIN pipe /\ pipe'[i] = pipe[i + 1]
      /\ 1 \in DOMAIN pipe /\ c = pipe[1]
  BY <1>0, <1>1, QueueShrinks
<1>3. OneWants' /\ (Wanted' => Wanted) /\ (c.op = "startQrPairing" => Wanted /\ ~Wanted')
  BY <1>0, <1>1, WantsLess
<1> HIDE DEF c
<1>4. c.op \in QrOps /\ (c.op \in SessionBound => c.op # "setScrcpyArgs" /\ c.op # "startQrPairing")
  BY <1>0, <1>2 DEF QrOnly, QrOps, SessionBound
<1>5. /\ launcher' = launcher /\ cmd.todo = <<>>
      /\ sent' = sent \/ Emit(Event("StaleSession", generation))
      /\ cmd' = IdleCommand \/ cmd' = [IdleCommand EXCEPT !.op = c.op, !.todo = Program[c.op], !.generation = generation]
      /\ c.op = "startQrPairing" => sent' = sent
  BY <1>1, <1>4 DEF AnswerStale, Accept, Reading, vars
<1>6. "StaleSession" \in EventTypes \ (QrWords \cup {"ManualCodeRequired"})
  BY KnownTypes DEF QrWords
<1>7. /\ Lapsed' => Lapsed
      /\ OneLapses'
      /\ \A i \in DOMAIN sent' : sent'[i].type # "ManualCodeRequired"
  <2>1. \A i \in DOMAIN sent : sent[i].type # "ManualCodeRequired"
    BY <1>0 DEF QrOnly
  <2>2. \/ sent' = sent
        \/ \E type \in EventTypes \ (QrWords \cup {"ManualCodeRequired"}), g \in Nat :
              Emit(Event(type, g))
    BY <1>0, <1>5, <1>6
  <2>3. QED BY <1>0, <1>1, <2>1, <2>2, SaysElse
<1>8. \A v \in Sessions : Seeks(v)' <=> Seeks(v)
  BY <1>5 DEF Seeks
<1>9. ~Asking /\ (Asking' => c.op = "startQrPairing") /\ cmd'.op \in {c.op, "none"}
  BY <1>5, IdleTodo DEF Asking, IdleCommand
<1>10. QrOnly'
  BY <1>0, <1>1, <1>2, <1>4, <1>5, <1>7, <1>9 DEF QrOnly
<1>11. Opening'
  BY <1>0, <1>1 DEF Opening
<1>12. OneSeeks'
  BY <1>0, <1>8 DEF OneSeeks
<1>13. Seeking' => Seeking
  BY <1>8 DEF Seeking
<1>14. Exclusive'
  <2>1. CASE c.op = "startQrPairing"
    BY <1>0, <1>3, <1>7, <1>9, <1>13, <2>1 DEF Exclusive
  <2>2. CASE c.op # "startQrPairing"
    BY <1>0, <1>3, <1>7, <1>9, <1>13, <2>2 DEF Exclusive
  <2>3. QED BY <2>1, <2>2
<1>15. QED BY <1>3, <1>7, <1>9, <1>10, <1>11, <1>12, <1>13, <1>14 DEF QrInv, QrCycle, Hot

(* The helper keeps the cycle.                                               *)
LEMMA MainQr ==
  ASSUME PanelInv, QrInv, MainStep, UNCHANGED <<view, read, pipe>>
  PROVE  QrOnly' /\ QrCycle' /\ (Hot' => Hot)
<1>0. /\ RuntimeInv /\ PanelTypeOK /\ QrOnly /\ OneWants /\ OneSeeks /\ OneLapses /\ Exclusive
  BY DEF PanelInv, QrInv, QrCycle
<1>1. /\ Asking' => Asking
      /\ cmd'.op \in {cmd.op, "none"}
      /\ \/ launcher' = launcher
         \/ \E w \in Sessions :
              /\ launcher[w].step = "idle" /\ launcher'[w].kind # "manual"
              /\ \A v \in Sessions \ {w} : launcher'[v] = launcher[v]
              /\ Seeks(w)' => Asking /\ ~Asking'
      /\ \/ sent' = sent
         \/ \E type \in EventTypes \ (QrWords \cup {"ManualCodeRequired"}), g \in Nat :
              Emit(Event(type, g))
  BY <1>0, MainSeeks DEF QrOnly
<1>2. /\ Lapsed' => Lapsed
      /\ OneLapses'
      /\ \A i \in DOMAIN sent' : sent'[i].type # "ManualCodeRequired"
  BY <1>0, <1>1, SaysElse DEF QrOnly
<1>3. (\A i : Wants(i)' <=> Wants(i)) /\ OneWants' /\ (Wanted' => Wanted)
  BY <1>0 DEF Wants, OneWants, Wanted
<1>4. QrOnly'
  BY <1>0, <1>1, <1>2 DEF QrOnly
<1>5. CASE launcher' = launcher
  <2>1. \A v \in Sessions : Seeks(v)' <=> Seeks(v)
    BY <1>5 DEF Seeks
  <2>2. OneSeeks' /\ (Seeking' => Seeking)
    BY <1>0, <2>1 DEF OneSeeks, Seeking
  <2>3. Exclusive'
    BY <1>0, <1>1, <1>2, <1>3, <2>2 DEF Exclusive
  <2>4. QED BY <1>1, <1>2, <1>3, <1>4, <2>2, <2>3 DEF QrCycle, Hot
<1>6. CASE \E w \in Sessions :
              /\ launcher[w].step = "idle" /\ launcher'[w].kind # "manual"
              /\ \A v \in Sessions \ {w} : launcher'[v] = launcher[v]
              /\ Seeks(w)' => Asking /\ ~Asking'
  <2>1. PICK w \in Sessions :
              /\ launcher[w].step = "idle" /\ launcher'[w].kind # "manual"
              /\ \A v \in Sessions \ {w} : launcher'[v] = launcher[v]
              /\ Seeks(w)' => Asking /\ ~Asking'
    BY <1>6
  <2>2. \A v \in Sessions \ {w} : Seeks(v)' <=> Seeks(v)
    BY <2>1 DEF Seeks
  <2>3. CASE Seeks(w)'
    <3>1. Asking /\ ~Asking' /\ ~Wanted /\ ~Lapsed /\ \A v \in Sessions : ~Seeks(v)
      BY <1>0, <2>1, <2>3 DEF Exclusive, Seeking
    <3>2. OneSeeks'
      BY <2>2, <3>1 DEF OneSeeks
    <3>3. Exclusive'
      BY <1>2, <1>3, <3>1 DEF Exclusive
    <3>4. QED BY <1>2, <1>3, <1>4, <3>1, <3>2, <3>3 DEF QrCycle, Hot
  <2>4. CASE ~Seeks(w)'
    <3>1. OneSeeks' /\ (Seeking' => Seeking)
      BY <1>0, <2>2, <2>4 DEF OneSeeks, Seeking
    <3>2. Exclusive'
      BY <1>0, <1>1, <1>2, <1>3, <3>1 DEF Exclusive
    <3>3. QED BY <1>1, <1>2, <1>3, <1>4, <3>1, <3>2 DEF QrCycle, Hot
  <2>5. QED BY <2>3, <2>4
<1>7. QED BY <1>1, <1>5, <1>6

(* A worker keeps its kind until it leaves.                                 *)
LEMMA WorkerKinds ==
  ASSUME RuntimeTypeOK, NEW w \in Sessions,
         LauncherStep(w) \/ PhoneStep(w) \/ LifetimeExpires(w) \/ SessionWorkerStep(w)
           \/ SessionChildStep(w)
  PROVE  launcher'[w].kind \in {launcher[w].kind, "none"}
<1>0. launcher \in [Sessions -> LauncherState] /\ launcher[w] \in LauncherState
  BY DEF RuntimeTypeOK
<1>1. ASSUME NEW l, launcher' = [launcher EXCEPT ![w] = l], l.kind = launcher[w].kind
      PROVE  launcher'[w].kind = launcher[w].kind
  BY <1>0, <1>1
<1>2. ASSUME NEW s, LGoto(w, s) PROVE launcher'[w].kind = launcher[w].kind
  BY <1>0, <1>2 DEF LGoto, LauncherState
<1>3. CASE LFinish(w)
  BY <1>0, <1>3 DEF LFinish, IdleLauncher
<1>4. CASE FlowCancelled(w) \/ FlowFails(w) \/ FlowTimesOut(w) \/ \E t \in Targets : FlowLinks(w, t)
  <2>1. PICK o, t : launcher' = [launcher EXCEPT ![w].step = "claim", ![w].outcome = o,
                                                 ![w].target = t]
    BY <1>4 DEF FlowCancelled, FlowFails, FlowTimesOut, FlowLinks, LeaveFlow
  <2>2. QED BY <1>0, <2>1 DEF LauncherState
<1>5. CASE SaveDevice(w) \/ AdvanceGeneration(w) \/ FailReconnect(w)
  BY <1>0, <1>5 DEF SaveDevice, AdvanceGeneration, FailReconnect, LauncherState, LGoto
<1>6. CASE EnterFlow(w) \/ ReportProgress(w) \/ TellProgress(w) \/ ClaimPairing(w) \/ StartDisconnect(w)
            \/ DropQr(w) \/ RememberDevice(w) \/ ReportLinked(w)
  BY <1>2, <1>6 DEF EnterFlow, ReportProgress, TellProgress, ClaimPairing, StartDisconnect, DropQr,
                    RememberDevice, ReportLinked
<1>7. CASE LosePairing(w) \/ Disconnected(w) \/ StartSession(w) \/ ReportPairingOver(w)
            \/ TellFailure(w) \/ DropReconnect(w)
  BY <1>2, <1>3, <1>7 DEF LosePairing, Disconnected, StartSession, ReportPairingOver, TellFailure,
                          DropReconnect
<1>8. CASE LifetimeExpires(w) \/ SessionWorkerStep(w) \/ SessionChildStep(w)
  BY <1>8 DEF LifetimeExpires, SessionWorkerStep, SessionChildStep
<1>9. QED BY <1>4, <1>5, <1>6, <1>7, <1>8 DEF LauncherStep, PhoneStep

(* The workers keep the cycle of the QR pairings ...                        *)
LEMMA WorkerQr ==
  ASSUME PanelInv, QrInv, UNCHANGED <<view, read, pipe>>, NEW w \in Sessions,
         LauncherStep(w) \/ PhoneStep(w) \/ LifetimeExpires(w) \/ SessionWorkerStep(w)
           \/ SessionChildStep(w)
  PROVE  QrOnly' /\ QrCycle' /\ (Hot' => Hot)
<1>0. /\ RuntimeInv /\ RuntimeTypeOK /\ PanelTypeOK
      /\ QrOnly /\ OneWants /\ OneSeeks /\ OneLapses /\ Exclusive
      /\ launcher[w].kind # "manual" /\ sent \in Seq(EventSet)
  BY DEF PanelInv, QrInv, QrCycle, QrOnly, PanelTypeOK, RuntimeTypeOK, TypeOK
<1>1. /\ \A v \in Sessions : Seeks(v)' => Seeks(v)
      /\ \/ sent' = sent
         \/ \E type \in EventTypes, g \in Nat :
              /\ Emit(Event(type, g)) /\ type # "ManualCodeRequired"
              /\ type \in QrWords => Seeks(w) /\ ~Seeks(w)'
  BY <1>0, WorkerSeeks
<1>2. cmd' = cmd
  BY DEF LauncherStep, PhoneStep, LifetimeExpires, EnterFlow, TellProgress, FlowCancelled,
         LosePairing, StartDisconnect, Disconnected, DropQr, SaveDevice, ClaimPairing,
         RememberDevice, AdvanceGeneration, ReportLinked, StartSession, ReportPairingOver,
         FailReconnect, TellFailure, DropReconnect, ReportProgress, FlowFails, FlowTimesOut,
         FlowLinks, LeaveFlow, SessionWorkerStep, SessionChildStep
<1>3. (\A i : Wants(i)' <=> Wants(i)) /\ OneWants' /\ (Wanted' <=> Wanted) /\ (Asking' <=> Asking)
  BY <1>0, <1>2 DEF Wants, OneWants, Wanted, Asking
<1>4. \A v \in Sessions \ {w} : launcher'[v] = launcher[v]
  BY <1>0, WorkerPairs
<1>5. launcher'[w].kind # "manual"
  <2>1. launcher'[w].kind \in {launcher[w].kind, "none"}
    BY <1>0, WorkerKinds
  <2>2. QED BY <1>0, <2>1
<1>6. OneSeeks' /\ (Seeking' => Seeking)
  BY <1>0, <1>1 DEF OneSeeks, Seeking
<1>7. CASE \/ sent' = sent
           \/ \E type \in EventTypes \ (QrWords \cup {"ManualCodeRequired"}), g \in Nat :
                Emit(Event(type, g))
  <2>1. /\ Lapsed' => Lapsed
        /\ OneLapses'
        /\ \A i \in DOMAIN sent' : sent'[i].type # "ManualCodeRequired"
    BY <1>0, <1>7, SaysElse DEF QrOnly
  <2>2. QrOnly'
    BY <1>0, <1>2, <1>4, <1>5, <2>1 DEF QrOnly
  <2>3. Exclusive'
    BY <1>0, <1>3, <1>6, <2>1 DEF Exclusive
  <2>4. QED BY <1>3, <1>6, <2>1, <2>2, <2>3 DEF QrCycle, Hot
<1>8. ASSUME NEW type \in EventTypes, NEW g \in Nat, Emit(Event(type, g)), Seeks(w), ~Seeks(w)',
             type # "ManualCodeRequired"
      PROVE  QrOnly' /\ QrCycle' /\ (Hot' => Hot)
  <2>1. Seeking /\ ~Wanted /\ ~Asking /\ ~Lapsed
    BY <1>0, <1>8 DEF Exclusive, Seeking
  <2>2. ~Seeking'
    BY <1>0, <1>1, <1>8 DEF Seeking, OneSeeks
  <2>3. /\ sent' = Append(sent, Event(type, g)) /\ Event(type, g) \in EventSet
        /\ Event(type, g).type = type
    BY <1>8 DEF Emit, Event, EventSet
  <2> HIDE DEF Event
  <2>4. OneLapses'
    BY <1>0, <2>1, <2>3, LapsesMore
  <2>5. \A i \in DOMAIN sent' :
          sent'[i] = Event(type, g) \/ (i \in DOMAIN sent /\ sent'[i] = sent[i])
    BY <1>0, <2>3, QueueGrows
  <2>6. \A i \in DOMAIN sent' : sent'[i].type # "ManualCodeRequired"
    BY <1>0, <1>8, <2>3, <2>5 DEF QrOnly
  <2>7. QrOnly'
    BY <1>0, <1>2, <1>4, <1>5, <2>6 DEF QrOnly
  <2>8. Exclusive'
    BY <1>3, <2>1, <2>2 DEF Exclusive
  <2>9. QED BY <1>3, <1>6, <2>1, <2>4, <2>7, <2>8 DEF QrCycle, Hot
<1>9. QED BY <1>1, <1>7, <1>8

(* The helper keeps the cycle.                                               *)
LEMMA HelperQr ==
  ASSUME PanelInv, QrInv, HelperStep
  PROVE  QrInv' /\ (Hot' => Hot)
<1>0. /\ PanelTypeOK /\ Opening /\ OwnStep /\ UNCHANGED <<view, read, pipe>>
  BY HelperStepInv DEF PanelInv, QrInv, HelperStep, panelVars
<1>1. QrOnly' /\ QrCycle' /\ (Hot' => Hot)
  BY <1>0, MainQr, WorkerQr DEF OwnStep
<1>2. Opening'
  <2>1. SUFFICES ASSUME view.stage = "idle" PROVE UNCHANGED <<vars, launcher, cmd>>
    BY <1>0 DEF Opening, vars, cells
  <2>2. QED BY <1>0, <2>1, NothingToDo DEF Opening
<1>3. QED BY <1>1, <1>2 DEF QrInv

(* The panel sees its Start Over complete.                                   *)
Restarted == HearStartOverComplete /\ view.startOver /\ ~view'.startOver

(* ... and so does the panel, if it asks for a code after a Start Over only *)
(* where none is sought.                                                    *)
LEMMA PanelQr ==
  ASSUME ~PairsByCode, PanelInv, QrInv, ReceiveLine \/ UserStep \/ FrameStep,
         Restarted => ~Hot
  PROVE  QrInv' /\ (Hot' => Hot \/ (HearReady /\ ~trusted) \/ Restarted)
<1>0. /\ PanelTypeOK /\ RuntimeTypeOK /\ pipe \in Seq([op: Ops, generation: Nat]) /\ view \in View
      /\ view.generation \in Nat /\ QrOnly /\ Opening
      /\ OneWants /\ OneSeeks /\ OneLapses /\ Exclusive
  BY Fields DEF PanelInv, PanelTypeOK, QrInv, QrCycle
<1>1. /\ UNCHANGED runtimeVars
      /\ sent' = sent /\ cmd' = cmd /\ launcher' = launcher /\ worker' = worker /\ caller' = caller
      /\ generation' = generation
  BY <1>0, PanelFrame DEF runtimeVars, vars, cells
<1>2. /\ read' = read \/ (Unread /\ read' = read + 1)
      /\ HearQrTimedOut \/ HearCancelled => Incoming.type \in QrWords /\ Unread /\ read' = read + 1
  BY PanelReads
<1>3. /\ Lapsed' => Lapsed
      /\ OneLapses'
      /\ Unread /\ read' = read + 1 /\ Incoming.type \in QrWords => Lapsed /\ ~Lapsed'
  BY <1>0, <1>1, <1>2, LapsesLess
<1>4. /\ Asking' <=> Asking
      /\ \A v \in Sessions : Seeks(v)' <=> Seeks(v)
  BY <1>1 DEF Asking, Seeks
<1>5. OneSeeks' /\ (Seeking' <=> Seeking)
  BY <1>0, <1>4 DEF OneSeeks, Seeking
<1>6. view'.stage \notin {"idle", "manualCode"}
  <2>1. view'.stage = view.stage \/ view'.stage \notin {"idle", "manualCode"}
    <3>1. Unread => Incoming.type # "ManualCodeRequired"
      BY <1>0, NextEvent DEF QrOnly, Sent
    <3>2. QED BY <1>0, <3>1, Staged
  <2>2. view.stage # "idle" \/ HearReady
    BY <1>0, OpensFirst DEF Opening
  <2>3. HearReady => view'.stage = "other"
    BY <1>0 DEF HearReady, View
  <2>4. QED BY <1>0, <2>1, <2>2, <2>3 DEF QrOnly
<1>7. Opening'
  BY <1>6 DEF Opening
<1>8. pipe' = pipe \/ \E op \in PanelOps : Asked(op)
  BY <1>0, PanelAsks
<1>9. CASE pipe' = pipe
  <2>1. (\A i : Wants(i)' <=> Wants(i)) /\ OneWants' /\ (Wanted' <=> Wanted)
    BY <1>0, <1>9 DEF Wants, OneWants, Wanted
  <2>2. QrOnly'
    BY <1>0, <1>1, <1>6, <1>9 DEF QrOnly
  <2>3. Exclusive'
    BY <1>0, <1>3, <1>4, <1>5, <2>1 DEF Exclusive
  <2>4. QED BY <1>3, <1>4, <1>5, <1>7, <2>1, <2>2, <2>3 DEF QrInv, QrCycle, Hot
<1>10. ASSUME NEW op \in PanelOps, Asked(op)
       PROVE  QrInv' /\ (Hot' => Hot \/ (HearReady /\ ~trusted) \/ Restarted)
  <2> DEFINE c == [op |-> op, generation |-> view.generation]
  <2>1. PanelOps \subseteq Ops
    BY Programs DEF PanelOps
  <2>2. pipe' = Append(pipe, c) /\ c \in [op: Ops, generation: Nat] /\ c.op = op /\ Asks(op)
    BY <1>0, <1>10, <2>1 DEF Asked
  <2> HIDE DEF c
  <2>3. /\ Wanted' => Wanted \/ op = "startQrPairing"
        /\ (op = "startQrPairing" => ~Wanted) => OneWants'
    BY <1>0, <2>2, WantsMore
  <2>4. op \in QrOps
    <3>1. op # "submitManualCode" /\ op # "useManualCode"
      <4>1. op # "submitManualCode"
        BY <1>0, <2>2 DEF Asks, QrOnly
      <4>2. op # "useManualCode"
        BY <2>2 DEF Asks, PairsByCode
      <4>3. QED BY <4>1, <4>2
    <3>2. op \in {"startOver", "setPreferences"} => op \in Commands
      BY <2>2 DEF Asks
    <3>3. QED BY <3>1, <3>2 DEF PanelOps, QrOps
  <2>5. QrOnly'
    <3>1. \A i \in DOMAIN pipe' : pipe'[i].op \in QrOps
      <4>1. \A i \in DOMAIN pipe' : pipe'[i] = c \/ (i \in DOMAIN pipe /\ pipe'[i] = pipe[i])
        BY <1>0, <2>2, QueueGrows
      <4>2. QED BY <1>0, <2>2, <2>4, <4>1 DEF QrOnly
    <3>2. QED BY <1>0, <1>1, <1>6, <3>1 DEF QrOnly
  <2>6. CASE op # "startQrPairing"
    <3>1. Exclusive'
      BY <1>0, <1>3, <1>4, <1>5, <2>3, <2>6 DEF Exclusive
    <3>2. QED BY <1>3, <1>4, <1>5, <1>7, <2>3, <2>5, <2>6, <3>1 DEF QrInv, QrCycle, Hot
  <2>7. CASE op = "startQrPairing"
    <3>1. (HearReady /\ ~trusted) \/ HearQrTimedOut \/ HearCancelled \/ Restarted
      BY <2>2, <2>7 DEF Asks, Restarted
    <3>2. ~Wanted /\ ~Asking' /\ ~Seeking' /\ ~Lapsed'
      <4>1. CASE HearReady
        <5>1. view.stage = "idle"
          BY <4>1 DEF HearReady
        <5>2. pipe = <<>> /\ cmd.todo = <<>> /\ sent = <<>> /\ \A w \in Sessions : launcher[w].step = "idle"
          BY <1>0, <5>1 DEF Opening
        <5>3. read \in Nat /\ ~Lapsed
          BY <1>0, <5>2 DEF Lapsed, Lapses, PanelTypeOK
        <5>4. ~Wanted
          BY <5>2 DEF Wanted, Wants
        <5>5. ~Asking /\ ~Seeking
          BY <5>2 DEF Asking, Seeking, Seeks
        <5>6. QED BY <1>3, <1>4, <1>5, <5>3, <5>4, <5>5
      <4>2. CASE HearQrTimedOut \/ HearCancelled
        <5>1. Lapsed /\ ~Lapsed'
          BY <1>2, <1>3, <4>2
        <5>2. QED BY <1>0, <1>4, <1>5, <5>1 DEF Exclusive
      <4>3. CASE Restarted
        BY <1>3, <1>4, <1>5, <4>3 DEF Hot
      <4>4. QED BY <3>1, <4>1, <4>2, <4>3
    <3>3. Exclusive'
      BY <3>2 DEF Exclusive
    <3>4. HearQrTimedOut \/ HearCancelled => Hot
      BY <1>2, <1>3 DEF Hot
    <3>5. QED BY <1>3, <1>5, <1>7, <2>3, <2>5, <3>1, <3>2, <3>3, <3>4 DEF QrInv, QrCycle
  <2>8. QED BY <2>6, <2>7
<1>11. QED BY <1>8, <1>9, <1>10

(* While a pairing is under way there is no device, until it has one.        *)
Sought == Hot => ~trusted \/ Advancing

(* A pairing that has moved the generation is not sought any more.          *)
LEMMA AdvanceCools ==
  ASSUME PanelInv, QrInv, UNCHANGED <<view, read, pipe>>, NEW w \in Sessions, AdvanceGeneration(w)
  PROVE  ~Hot'
<1>0. /\ RuntimeTypeOK /\ launcher[w] \in LauncherState /\ Fits(w) /\ QrOnly /\ OneSeeks /\ Exclusive
      /\ launcher \in [Sessions -> LauncherState]
  BY DEF PanelInv, RuntimeInv, RuntimeTypeOK, LauncherInv, LauncherFits, QrInv, QrCycle
<1>1. /\ LGoto(w, "report") /\ launcher[w].step = "advance" /\ sent' = sent /\ cmd' = cmd
  BY DEF AdvanceGeneration, Advance, LGoto
<1>2. launcher[w].kind = "qr" /\ launcher[w].outcome = "Linked"
  BY <1>0, <1>1, LauncherValues DEF Fits, Carries, QrOnly, LauncherState
<1>3. Seeks(w)
  BY <1>1, <1>2 DEF Seeks
<1>4. ~Wanted /\ ~Asking /\ ~Lapsed /\ \A v \in Sessions \ {w} : ~Seeks(v)
  BY <1>0, <1>3 DEF Exclusive, Seeking, OneSeeks
<1>5. LauncherGoes(w, "report") /\ launcher'[w].outcome = "Linked"
  BY <1>0, <1>1, <1>2, GoesOn, LauncherValues DEF LauncherKeeps
<1>6. ~Seeking'
  BY <1>4, <1>5 DEF Seeking, Seeks, LauncherGoes
<1>7. ~Wanted' /\ ~Asking' /\ ~Lapsed'
  BY <1>1, <1>4 DEF Wanted, Wants, Asking, Lapsed, Lapses
<1>8. QED BY <1>6, <1>7 DEF Hot

(* While a pairing is sought, no device is trusted but the one it has just  *)
(* found.                                                                   *)
LEMMA HelperSeeks ==
  ASSUME PanelInv, QrInv, Sought, HelperStep, trusted' => trusted \/ \E w \in Sessions : RememberDevice(w)
  PROVE  Sought'
<1>0. /\ RuntimeInv /\ RuntimeTypeOK /\ launcher \in [Sessions -> LauncherState]
      /\ OwnStep /\ UNCHANGED <<view, read, pipe>>
  BY HelperStepInv DEF PanelInv, RuntimeInv, RuntimeTypeOK, HelperStep, panelVars
<1>1. SUFFICES ASSUME Hot', trusted' PROVE Advancing'
  BY DEF Sought
<1>2. Hot
  BY <1>1, HelperQr
<1>3. CASE ~trusted
  <2>1. PICK w \in Sessions : RememberDevice(w)
    BY <1>1, <1>3
  <2>2. launcher'[w].step = "advance"
    <3>1. "advance" \in LauncherSteps
      BY LauncherValues
    <3>2. QED BY <1>0, <2>1, <3>1, GoesOn DEF RememberDevice, LauncherGoes
  <2>3. QED BY <2>2 DEF Advancing
<1>4. CASE trusted
  <2>1. PICK w \in Sessions : launcher[w].step = "advance"
    BY <1>2, <1>4 DEF Sought, Advancing
  <2>2. ~AdvanceGeneration(w)
    BY <1>0, <1>1, AdvanceCools
  <2>3. CASE MainStep
    <3>1. ASSUME NEW v \in Sessions, Launch(v) PROVE launcher'[w].step = "advance"
      BY <1>0, <2>1, <3>1 DEF Launch
    <3>2. QED BY <2>1, <2>3, <3>1, MainPairs DEF Advancing
  <2>4. CASE ~MainStep
    BY <1>0, <2>1, <2>2, <2>4, AdvanceHolds DEF OwnStep, Advancing
  <2>5. QED BY <2>3, <2>4
<1>5. trusted \in BOOLEAN
  BY <1>0 DEF RuntimeTypeOK
<1>6. QED BY <1>3, <1>4, <1>5

(* A session that was announced as started and was not ended since.          *)
Serves(w) ==
  /\ worker[w].step \in {"live", "exited", "ended"}
  /\ worker[w].current = generation /\ worker[w].token \notin cancelled
Confirms(w) == worker[w].step = "confirm" /\ worker[w].current = generation
Served ==
  /\ StartTold(generation) => \E w \in Sessions : Serves(w)
  /\ \A w \in Sessions : Confirms(w) => worker[w].token \notin cancelled

(* Where the steps of a worker lead.                                         *)
LEMMA WorkerGoes ==
  ASSUME TypeOK, NEW w \in Sessions
  PROVE  /\ \A s : Goto(w, s) => /\ worker'[w].step = s /\ worker'[w].token = worker[w].token
                                /\ worker'[w].current = worker[w].current
         /\ \A r : Exit(w, r) => /\ worker'[w].step = "exited"
                                /\ worker'[w].token = worker[w].token
                                /\ worker'[w].current = worker[w].current
         /\ Finish(w) => worker'[w] = IdleWorker
<1>0. worker \in [Sessions -> WorkerState] /\ worker[w] \in WorkerState
  BY DEF TypeOK
<1>1. ASSUME NEW s, Goto(w, s)
      PROVE  /\ worker'[w].step = s /\ worker'[w].token = worker[w].token
             /\ worker'[w].current = worker[w].current
  <2>1. worker'[w] = [worker[w] EXCEPT !.step = s]
    BY <1>0, <1>1 DEF Goto
  <2>2. QED BY <1>0, <2>1 DEF WorkerState
<1>2. ASSUME NEW r, Exit(w, r)
      PROVE  /\ worker'[w].step = "exited" /\ worker'[w].token = worker[w].token
             /\ worker'[w].current = worker[w].current
  <2>1. worker'[w] = [worker[w] EXCEPT !.step = "exited", !.result = r]
    BY <1>0, <1>2 DEF Exit
  <2>2. QED BY <1>0, <2>1 DEF WorkerState
<1>3. Finish(w) => worker'[w] = IdleWorker
  BY <1>0 DEF Finish
<1>4. QED BY <1>1, <1>2, <1>3

(* A session is about to be told as started since its worker looked.         *)
LEMMA Confirming ==
  ASSUME TypeOK, NEW w \in Sessions, WorkerStep(w) \/ ScrcpyStep(w), worker'[w].step = "confirm"
  PROVE  /\ CaptureReady(w) /\ Current(w) /\ generation' = generation /\ cancelled' = cancelled
         /\ worker'[w].token = worker[w].token /\ worker'[w].current = worker[w].current
<1>0. /\ \A s : Goto(w, s) => s = "confirm" /\ worker'[w].token = worker[w].token
                              /\ worker'[w].current = worker[w].current
      /\ (\A r : ~Exit(w, r)) /\ ~Finish(w)
  <2>1. \A s : Goto(w, s) => worker'[w].step = s
    BY WorkerGoes
  <2>2. \A r : Exit(w, r) => worker'[w].step = "exited"
    BY WorkerGoes
  <2>3. Finish(w) => worker'[w].step = "idle"
    BY WorkerGoes DEF IdleWorker
  <2>4. QED BY <2>1, <2>2, <2>3, WorkerGoes
<1>a. worker \in [Sessions -> WorkerState] /\ worker[w] \in WorkerState /\ generation \in Nat
  BY DEF TypeOK
<1>b. ~ClaimRetry(w)
  <2> SUFFICES ASSUME ClaimRetry(w) PROVE FALSE
    OBVIOUS
  <2>1. worker'[w] = [worker[w] EXCEPT !.step = "reannounce", !.current = generation + 1,
                                      !.retried = TRUE, !.result = "None"]
    BY <1>a DEF ClaimRetry
  <2>2. worker'[w].step = "reannounce"
    BY <1>a, <2>1 DEF WorkerState
  <2>3. QED BY <2>2
<1>c. ~ClaimEnd(w)
  <2> SUFFICES ASSUME ClaimEnd(w) PROVE FALSE
    OBVIOUS
  <2>1. worker'[w] = [worker[w] EXCEPT !.step = "untarget", !.current = generation + 1]
    BY <1>a DEF ClaimEnd
  <2>2. worker'[w].step = "untarget"
    BY <1>a, <2>1 DEF WorkerState
  <2>3. QED BY <2>2
<1>1. ~ClaimRetry(w) /\ ~ClaimEnd(w)
  BY <1>b, <1>c
<1>2. CaptureReady(w)
  BY <1>0, <1>1
     DEF WorkerStep, ScrcpyStep, SpawnStale, SpawnCurrent, LockRunner, SetTarget, RefuseStart,
         AdmitStart, RunScrcpy, RunStopped, StartDeadline, ExitSuperseded, KeepResult, EndSilently,
         ClearTarget, RunUnavailable, ScrcpyExits, Announce, ConfirmStarted, ReportEnd
<1>3. Goto(w, IF Current(w) THEN "confirm" ELSE "live")
  BY <1>2 DEF CaptureReady
<1>4. (IF Current(w) THEN "confirm" ELSE "live") = "confirm"
  BY <1>0, <1>3
<1>5. QED BY <1>0, <1>2, <1>3, <1>4 DEF CaptureReady, cells

(* A session that nobody cancelled serves on, until it takes the next        *)
(* generation.                                                               *)
LEMMA ServesOn ==
  ASSUME TypeOK, NEW w \in Sessions, WorkerStep(w) \/ ScrcpyStep(w), generation' = generation
  PROVE  /\ cancelled' = cancelled
         /\ Serves(w) => Serves(w)'
         /\ sent' = sent \/ Announce(w) \/ ReportEnd(w) \/ ConfirmStarted(w)
         /\ ConfirmStarted(w) => /\ worker'[w].step = "live" /\ worker'[w].token = worker[w].token
                                 /\ worker'[w].current = worker[w].current
<1>0. generation \in Nat
  BY DEF TypeOK
<1>1. ~ClaimRetry(w) /\ ~ClaimEnd(w)
  BY <1>0 DEF ClaimRetry, ClaimEnd
<1>2. cancelled' = cancelled
  BY <1>1
     DEF WorkerStep, ScrcpyStep, SpawnStale, SpawnCurrent, LockRunner, SetTarget, RefuseStart, AdmitStart,
         RunScrcpy, RunStopped, StartDeadline, ExitSuperseded, KeepResult, EndSilently, Announce,
         ClearTarget, CaptureReady, RunUnavailable, ScrcpyExits, ConfirmStarted, ReportEnd, cells
<1>3. ASSUME Serves(w) PROVE Serves(w)'
  <2>1. ASSUME NEW s \in {"exited", "ended"}, worker'[w].step = s, worker'[w].token = worker[w].token,
               worker'[w].current = worker[w].current
        PROVE  Serves(w)'
    BY <1>2, <1>3, <2>1 DEF Serves
  <2>2. CASE worker[w].step = "live"
    <3>1. PICK r : Exit(w, r)
      BY <1>3, <2>2, StepSets
         DEF Serves, WorkerStep, ScrcpyStep, SpawnStale, SpawnCurrent, LockRunner, SetTarget, RefuseStart,
             AdmitStart, RunScrcpy, RunStopped, StartDeadline, ExitSuperseded, ClaimRetry, KeepResult, EndSilently,
             ClaimEnd, ClearTarget, CaptureReady, RunUnavailable, ScrcpyExits, Announce, ConfirmStarted, ReportEnd
    <3>2. /\ worker'[w].step = "exited" /\ worker'[w].token = worker[w].token
          /\ worker'[w].current = worker[w].current
      BY <3>1, WorkerGoes
    <3>3. QED BY <2>1, <3>2
  <2>3. CASE worker[w].step = "exited"
    <3>1. Goto(w, "ended")
      BY <1>1, <1>3, <2>3, StepSets
         DEF Serves, WorkerStep, ScrcpyStep, SpawnStale, SpawnCurrent, LockRunner, SetTarget, RefuseStart,
             AdmitStart, RunScrcpy, RunStopped, StartDeadline, ExitSuperseded, KeepResult, EndSilently,
             ClearTarget, CaptureReady, RunUnavailable, ScrcpyExits, Announce, ConfirmStarted, ReportEnd
    <3>2. /\ worker'[w].step = "ended" /\ worker'[w].token = worker[w].token
          /\ worker'[w].current = worker[w].current
      BY <3>1, WorkerGoes
    <3>3. QED BY <2>1, <3>2
  <2>4. CASE worker[w].step = "ended"
    <3>1. Current(w)
      BY <1>3 DEF Serves, Current
    <3>2. QED
      BY <1>1, <2>4, <3>1, StepSets
         DEF WorkerStep, ScrcpyStep, SpawnStale, SpawnCurrent, LockRunner, SetTarget, RefuseStart,
             AdmitStart, RunScrcpy, RunStopped, StartDeadline, ExitSuperseded, KeepResult, EndSilently,
             ClearTarget, CaptureReady, RunUnavailable, ScrcpyExits, Announce, ConfirmStarted, ReportEnd
  <2>5. QED BY <1>3, <2>2, <2>3, <2>4 DEF Serves
<1>4. sent' = sent \/ Announce(w) \/ ReportEnd(w) \/ ConfirmStarted(w)
  BY DEF WorkerStep, ScrcpyStep, SpawnStale, SpawnCurrent, LockRunner, SetTarget, RefuseStart,
         AdmitStart, RunScrcpy, RunStopped, StartDeadline, ExitSuperseded, KeepResult, EndSilently,
         ClearTarget, RunUnavailable, ScrcpyExits, CaptureReady, ClaimRetry, ClaimEnd
<1>5. ConfirmStarted(w) => /\ worker'[w].step = "live" /\ worker'[w].token = worker[w].token
                           /\ worker'[w].current = worker[w].current
  <2> SUFFICES ASSUME ConfirmStarted(w)
               PROVE  /\ worker'[w].step = "live" /\ worker'[w].token = worker[w].token
                      /\ worker'[w].current = worker[w].current
    OBVIOUS
  <2>1. Goto(w, "live")
    BY DEF ConfirmStarted
  <2>2. QED BY <2>1, WorkerGoes
<1>6. QED BY <1>2, <1>3, <1>4, <1>5

(* A start that is told was told before, or is told now.                     *)
LEMMA ToldNow ==
  ASSUME TypeOK, NEW e, sent' = Append(sent, e), NEW g, StartTold(g)'
  PROVE  StartTold(g) \/ e = Event("SessionStarted", g)
<1>1. /\ sent \in Seq(EventSet) /\ Len(sent) \in Nat /\ DOMAIN sent' = 1..Len(sent) + 1
      /\ DOMAIN sent = 1..Len(sent)
      /\ \A i \in 1..Len(sent) : sent'[i] = sent[i]
      /\ sent'[Len(sent) + 1] = e
  BY DEF TypeOK
<1> DEFINE x == Event("SessionStarted", g)
<1>2. PICK i \in DOMAIN sent' : sent'[i] = x
  BY DEF StartTold, Sent
<1> HIDE DEF x
<1>3. CASE i \in 1..Len(sent)
  <2>1. \E j \in DOMAIN sent : sent[j] = x
    BY <1>1, <1>2, <1>3
  <2>2. QED BY <2>1 DEF StartTold, Sent, x
<1>4. CASE i = Len(sent) + 1
  BY <1>1, <1>2, <1>4 DEF x
<1>5. QED BY <1>1, <1>3, <1>4

(* Only a session's own step starts or tells a session.                      *)
LEMMA OthersMove ==
  ASSUME TypeOK, Driven, ~\E w \in Sessions : WorkerStep(w) \/ ScrcpyStep(w)
  PROVE  /\ \A w \in Sessions : worker'[w] = worker[w] \/
                /\ worker[w].step \in {"idle"} \cup ArmedSteps
                /\ worker'[w].step \in {"idle", "armed", "advanced", "spawned"}
         /\ \A g : StartTold(g)' => StartTold(g)
<1> DEFINE Leaves(w) == worker'[w] = worker[w] \/
                /\ worker[w].step \in {"idle"} \cup ArmedSteps
                /\ worker'[w].step \in {"idle", "armed", "advanced", "spawned"}
<1>0. worker \in [Sessions -> WorkerState] /\ \A w \in Sessions : worker[w] \in WorkerState
  BY DEF TypeOK
<1>1. ASSUME UNCHANGED worker, NEW w \in Sessions PROVE Leaves(w)
  BY <1>1
<1>2. ASSUME NEW v \in Sessions, worker[v].step \in {"idle"} \cup ArmedSteps, NEW x,
             worker' = [worker EXCEPT ![v] = x], x.step \in {"idle", "armed", "advanced", "spawned"},
             NEW w \in Sessions
      PROVE  Leaves(w)
  <2>1. w = v => worker'[w] = x
    BY <1>0, <1>2
  <2>2. w # v => worker'[w] = worker[w]
    BY <1>0, <1>2
  <2>3. QED BY <1>2, <2>1, <2>2
<1>3. ASSUME sent' = sent, NEW g, StartTold(g)' PROVE StartTold(g)
  BY <1>3 DEF StartTold, Sent
<1>4. ASSUME TellsElse, NEW g, StartTold(g)' PROVE StartTold(g)
  <2>1. PICK type \in EventTypes \ SessionEvents, h \in Nat : sent' = Append(sent, Event(type, h))
    BY <1>4 DEF TellsElse
  <2>2. Event(type, h) # Event("SessionStarted", g)
    BY <2>1 DEF Event, SessionEvents
  <2>3. QED BY <1>4, <2>1, <2>2, ToldNow
<1>5. ASSUME NEW v \in Sessions, Finish(v), worker[v].step \in ArmedSteps, NEW w \in Sessions
      PROVE  Leaves(w)
  <2>1. worker' = [worker EXCEPT ![v] = IdleWorker] /\ IdleWorker.step = "idle"
    BY <1>5 DEF Finish, IdleWorker
  <2> HIDE DEF Leaves
  <2>2. QED BY <1>2, <1>5, <2>1
<1>6. ASSUME NEW v \in Sessions, Capture(v), NEW w \in Sessions PROVE Leaves(w)
  <2> DEFINE x == [IdleWorker EXCEPT !.step = "armed", !.token = token, !.current = generation]
  <2>1. worker' = [worker EXCEPT ![v] = x] /\ worker[v].step = "idle" /\ x.step = "armed"
    BY <1>6 DEF Capture, IdleWorker
  <2> HIDE DEF x, Leaves
  <2>2. QED BY <1>2, <2>1
<1>7. ASSUME NEW v \in Sessions, Restart(v), NEW w \in Sessions PROVE Leaves(w)
  <2> DEFINE x == [IdleWorker EXCEPT !.step = "spawned", !.token = token,
                          !.current = caller.generation, !.target = caller.target]
  <2>1. worker' = [worker EXCEPT ![v] = x] /\ worker[v].step = "idle" /\ x.step = "spawned"
    BY <1>7 DEF Restart, IdleWorker
  <2> HIDE DEF x, Leaves
  <2>2. QED BY <1>2, <2>1
<1>8. ASSUME NEW v \in Sessions, Advance(v), NEW w \in Sessions PROVE Leaves(w)
  <2> DEFINE x == [worker[v] EXCEPT !.step = "advanced", !.current = generation + 1]
  <2>1. worker' = [worker EXCEPT ![v] = x] /\ worker[v].step \in ArmedSteps /\ x.step = "advanced"
    BY <1>0, <1>8, StepSets DEF Advance, WorkerState
  <2> HIDE DEF x, Leaves
  <2>2. QED BY <1>2, <2>1
<1>9. ASSUME NEW v \in Sessions, NEW t \in Targets, Spawn(v, t), NEW w \in Sessions PROVE Leaves(w)
  <2> DEFINE x == [worker[v] EXCEPT !.step = "spawned", !.target = t]
  <2>1. worker' = [worker EXCEPT ![v] = x] /\ worker[v].step \in ArmedSteps /\ x.step = "spawned"
    BY <1>0, <1>9 DEF Spawn, WorkerState
  <2> HIDE DEF x, Leaves
  <2>2. QED BY <1>2, <2>1
<1> DEFINE Quietly == (\A w \in Sessions : Leaves(w)) /\ \A g : StartTold(g)' => StartTold(g)
<1> HIDE DEF Leaves
<1>10. CASE Call
  <2>1. sent' = sent /\ (worker' = worker \/ \E v \in Sessions : Capture(v))
    BY <1>10 DEF Call, Invalidate, StopSession, Arm, Capture
  <2>2. QED BY <1>1, <1>3, <1>6, <2>1 DEF Leaves
<1>11. CASE CallerStep \/ AcknowledgePreview
  <2>1. sent' = sent /\ (worker' = worker \/ \E v \in Sessions : Restart(v))
    BY <1>11 DEF CallerStep, CrossBarrier, ResetTarget, RenewToken, Restart, AcknowledgePreview
  <2>2. QED BY <1>1, <1>3, <1>7, <2>1 DEF Leaves
<1>12. ASSUME NEW v \in Sessions,
              Advance(v) \/ AdvanceFailed(v) \/ Discard(v) \/ \E t \in Targets : Spawn(v, t)
       PROVE  Quietly
  <2>1. sent' = sent
    BY <1>12 DEF Advance, AdvanceFailed, Discard, Spawn
  <2>2. CASE AdvanceFailed(v) \/ Discard(v)
    <3>1. Finish(v) /\ worker[v].step \in ArmedSteps
      BY <2>2, StepSets DEF AdvanceFailed, Discard
    <3>2. QED BY <1>3, <1>5, <2>1, <3>1
  <2>3. QED BY <1>3, <1>8, <1>9, <1>12, <2>1, <2>2
<1>13. CASE TellsElse /\ UNCHANGED quiet
  BY <1>1, <1>4, <1>13 DEF quiet, Leaves
<1>14. ASSUME TellsElse, NEW v \in Sessions, DropsClosure(v) PROVE Quietly
  BY <1>4, <1>5, <1>14 DEF DropsClosure
<1>15. CASE UNCHANGED vars
  BY <1>1, <1>3, <1>15 DEF vars, Leaves
<1>16. Quietly
  BY <1>10, <1>11, <1>12, <1>13, <1>14, <1>15 DEF Driven, DrivenStep, Next, Leaves
<1>17. QED BY <1>16 DEF Leaves

(* A generation that nobody names yet was not told as started.               *)
LEMMA NotStartedYet ==
  ASSUME TypeOK, CurrentsKnown, StartsReached, Driven, generation' = generation + 1
  PROVE  ~StartTold(generation)'
<1>0. generation \in Nat /\ sent \in Seq(EventSet)
  BY DEF TypeOK
<1>g. PICK g \in Nat : g = generation + 1
  BY <1>0
<1>1. \A h : h <= generation => h # g
  BY <1>0, <1>g
<1>s. SUFFICES ASSUME StartTold(g)' PROVE FALSE
  BY <1>g DEF StartTold, Sent
<1>2. ~StartTold(g)
  BY <1>1 DEF StartTold, Sent, StartsReached, Event
<1>3. sent' # sent
  BY <1>2, <1>s DEF StartTold, Sent
<1>4. PICK e \in EventSet : sent' = Append(sent, e)
  BY <1>3, DrivenGrows
<1>5. e = Event("SessionStarted", g)
  BY <1>2, <1>4, <1>s, ToldNow
<1>6. e.generation <= generation
  BY <1>4, <1>5, StartedBy DEF Event
<1>7. QED BY <1>1, <1>5, <1>6 DEF Event

(* The session that was told as started serves, until the generation moves   *)
(* or nobody is left to serve.                                               *)
LEMMA ServedStays ==
  ASSUME TypeOK, CurrentsKnown, StartsReached, Served, Driven,
         cancelled' # cancelled /\ generation' = generation =>
           \A w \in Sessions : worker[w].current = generation =>
             worker[w].step \in {"idle"} \cup ArmedSteps
  PROVE  Served'
<1>0. generation \in Nat /\ worker \in [Sessions -> WorkerState]
  BY DEF TypeOK
<1>1. generation' \in {generation, generation + 1}
  BY DrivenCounts DEF GenerationGoesOn
<1>2. \A w \in Sessions : worker[w].current # generation + 1
  <2>1. \A w \in Sessions : worker[w].current \in Nat /\ worker[w].current <= generation
    BY <1>0 DEF WorkerState, CurrentsKnown
  <2>2. QED BY <1>0, <2>1
<1>3. CASE ~\E w \in Sessions : WorkerStep(w) \/ ScrcpyStep(w)
  <2>1. /\ \A w \in Sessions : worker'[w] = worker[w] \/
                /\ worker[w].step \in {"idle", "armed", "advanced"}
                /\ worker'[w].step \in {"idle", "armed", "advanced", "spawned"}
        /\ \A g : StartTold(g)' => StartTold(g)
    BY <1>3, OthersMove, StepSets
  <2>t. generation' = generation /\ StartTold(generation)' => StartTold(generation)
    <3>1. PICK g : g = generation
      OBVIOUS
    <3>2. generation' = generation /\ StartTold(generation)' => StartTold(g)'
      BY <3>1 DEF StartTold, Sent
    <3>3. QED BY <2>1, <3>1, <3>2
  <2>2. \A w \in Sessions : worker'[w].step = "confirm" => worker'[w] = worker[w]
    BY <2>1
  <2>3. CASE generation' = generation + 1
    <3>1. ~StartTold(generation)'
      BY <2>3, NotStartedYet
    <3>2. \A w \in Sessions : ~Confirms(w)'
      BY <1>2, <2>2, <2>3 DEF Confirms
    <3>3. QED BY <3>1, <3>2 DEF Served
  <2>4. CASE generation' = generation /\ cancelled' = cancelled
    <3>1. \A w \in Sessions : Serves(w) => Serves(w)'
      BY <2>1, <2>4 DEF Serves
    <3>2. \A w \in Sessions : Confirms(w)' => worker'[w].token \notin cancelled'
      BY <2>2, <2>4 DEF Confirms, Served
    <3>3. StartTold(generation)' => StartTold(generation)
      BY <2>t, <2>4
    <3>4. QED BY <3>1, <3>2, <3>3 DEF Served
  <2>5. CASE generation' = generation /\ cancelled' # cancelled
    <3>1. \A w \in Sessions : worker[w].current = generation =>
            worker[w].step \in {"idle", "armed", "advanced"}
      BY <2>5, StepSets
    <3>2. ~StartTold(generation)
      BY <3>1 DEF Served, Serves
    <3>3. ~StartTold(generation)'
      BY <2>t, <2>5, <3>2
    <3>4. \A w \in Sessions : ~Confirms(w)'
      BY <2>2, <2>5, <3>1 DEF Confirms
    <3>5. QED BY <3>3, <3>4 DEF Served
  <2>6. QED BY <1>1, <2>3, <2>4, <2>5
<1>4. ASSUME NEW w \in Sessions, WorkerStep(w) \/ ScrcpyStep(w) PROVE Served'
  <2>1. \A v \in Sessions \ {w} : worker'[v] = worker[v]
    BY <1>4, WorkerFrame
  <2>2. CASE generation' = generation + 1
    <3>1. ~StartTold(generation)'
      BY <2>2, NotStartedYet
    <3>2. worker'[w].step # "confirm"
      BY <1>0, <1>4, <2>2, Confirming
    <3>3. \A v \in Sessions : ~Confirms(v)'
      BY <1>2, <2>1, <2>2, <3>2 DEF Confirms
    <3>4. QED BY <3>1, <3>3 DEF Served
  <2>3. CASE generation' = generation
    <3>1. /\ cancelled' = cancelled
          /\ Serves(w) => Serves(w)'
          /\ sent' = sent \/ Announce(w) \/ ReportEnd(w) \/ ConfirmStarted(w)
          /\ ConfirmStarted(w) => /\ worker'[w].step = "live" /\ worker'[w].token = worker[w].token
                                  /\ worker'[w].current = worker[w].current
      BY <1>4, <2>3, ServesOn
    <3>2. \A v \in Sessions : Serves(v) => Serves(v)'
      BY <2>1, <2>3, <3>1 DEF Serves
    <3>3. \A v \in Sessions : Confirms(v)' => worker'[v].token \notin cancelled'
      <4>1. worker'[w].step = "confirm" => worker[w].token \notin cancelled /\ worker'[w].token = worker[w].token
        BY <1>4, Confirming DEF Current
      <4>2. \A v \in Sessions \ {w} : Confirms(v)' => worker'[v].token \notin cancelled'
        BY <2>1, <2>3, <3>1 DEF Confirms, Served
      <4>3. QED BY <3>1, <4>1, <4>2 DEF Confirms
    <3>4. StartTold(generation)' => StartTold(generation) \/ \E v \in Sessions : Serves(v)'
      <4>g. PICK g : g = generation
        OBVIOUS
      <4>s. SUFFICES ASSUME StartTold(g)', ~StartTold(g)
                     PROVE  \E v \in Sessions : Serves(v)'
        BY <2>3, <4>g DEF StartTold, Sent
      <4>1. sent' # sent
        BY <4>s DEF StartTold, Sent
      <4>2. \A e : sent' = Append(sent, e) => e = Event("SessionStarted", generation)
        BY <4>g, <4>s, ToldNow
      <4>3. ~Announce(w)
        BY <4>2 DEF Announce, Event
      <4>4. ~ReportEnd(w)
        BY <4>2 DEF ReportEnd, EndEvent, Event
      <4>5. ConfirmStarted(w)
        BY <3>1, <4>1, <4>3, <4>4
      <4>6. worker[w].step = "confirm" /\ worker[w].current = generation
        BY <4>2, <4>5 DEF ConfirmStarted, Event
      <4>7. worker[w].token \notin cancelled
        BY <4>6 DEF Served, Confirms
      <4>8. Serves(w)'
        BY <2>3, <3>1, <4>5, <4>6, <4>7 DEF Serves
      <4>9. QED BY <4>8
    <3>5. QED BY <3>2, <3>3, <3>4 DEF Served
  <2>4. QED BY <1>1, <2>2, <2>3
<1>5. QED BY <1>3, <1>4

(* Only a stop cancels a session and leaves its generation as it is.         *)
LEMMA StopCancels ==
  ASSUME TypeOK, OwnStep, cancelled' # cancelled, generation' = generation
  PROVE  MainStop
<1>0. generation \in Nat /\ generation + 1 # generation
  BY DEF TypeOK
<1>1. ASSUME NEW w \in Sessions, SessionWorkerStep(w) \/ SessionChildStep(w) PROVE FALSE
  BY <1>1, ServesOn DEF SessionWorkerStep, SessionChildStep
<1>2. ASSUME NEW w \in Sessions, LauncherStep(w) PROVE FALSE
  BY <1>2 DEF LauncherStep, EnterFlow, TellProgress, FlowCancelled, ClaimPairing, LosePairing,
              StartDisconnect, Disconnected, DropQr, SaveDevice, RememberDevice, AdvanceGeneration,
              ReportLinked, StartSession, ReportPairingOver, FailReconnect, TellFailure,
              DropReconnect, LeaveFlow, Advance, AdvanceFailed, Spawn, Discard, quiet, vars, cells
<1>3. ASSUME NEW w \in Sessions, PhoneStep(w) \/ LifetimeExpires(w) PROVE FALSE
  BY <1>3 DEF PhoneStep, ReportProgress, FlowFails, FlowTimesOut, FlowLinks, LeaveFlow,
              LifetimeExpires, vars, cells
<1>4. CASE MainStep
  <2>1. ~MainInvalidate /\ ~MainRestart
    BY <1>0 DEF MainInvalidate, MainRestart, Invalidate, vars, cells
  <2>2. ~Acknowledge
    BY DEF Acknowledge, AcknowledgePreview, vars, cells
  <2>3. ~InSessionControl
    BY DEF InSessionControl, CallerStep, CrossBarrier, ResetTarget, RenewToken, Restart, cells
  <2>4. ASSUME NEW w \in Sessions, Launch(w) PROVE FALSE
    BY <2>4 DEF Launch, Capture, cells
  <2>5. ~(RefuseIfLive \/ NeedTrusted \/ ReadTarget \/ NeedTarget \/ CancelToken \/ Retire)
    BY DEF RefuseIfLive, NeedTrusted, ReadTarget, NeedTarget, CancelToken, Retire, quiet, vars, cells
  <2>6. ~(Supersede \/ StartQr \/ CancelQr \/ CrossFlow \/ LockFlow \/ UnlockFlow)
    BY DEF Supersede, StartQr, CancelQr, CrossFlow, LockFlow, UnlockFlow, quiet, vars, cells
  <2>7. ~(Forget \/ UseStore \/ RunInput \/ ReadGeneration \/ Reply \/ ReplyFailed)
    BY DEF Forget, UseStore, RunInput, ReadGeneration, Reply, ReplyFailed, quiet, vars, cells
  <2>8. QED BY <1>4, <2>1, <2>2, <2>3, <2>4, <2>5, <2>6, <2>7 DEF MainStep
<1>5. QED BY <1>1, <1>2, <1>3, <1>4 DEF OwnStep

(* A pairing that advances the generation is one that was sought.            *)
LEMMA AdvanceSeeks ==
  ASSUME RuntimeInv, QrOnly, Advancing
  PROVE  Seeking
<1>1. PICK w \in Sessions : launcher[w].step = "advance"
  BY DEF Advancing
<1>2. /\ Fits(w) /\ launcher[w] \in LauncherState /\ launcher[w].kind # "manual"
  BY <1>1 DEF RuntimeInv, LauncherInv, LauncherFits, RuntimeTypeOK, QrOnly
<1>3. launcher[w].kind # "none" /\ launcher[w].kind # "reconnect"
  BY <1>1, <1>2 DEF Fits, Carries
<1>4. launcher[w].kind = "qr"
  BY <1>2, <1>3 DEF LauncherState, LauncherKinds
<1>5. QED BY <1>1, <1>4 DEF Seeking, Seeks

(* A session is stopped only for a pairing that the panel asked for.         *)
LEMMA StopAsks ==
  ASSUME PanelInv, QrInv, MainStop
  PROVE  Asking /\ ~Advancing
<1>0. RuntimeInv /\ cmd \in CommandState /\ TodoFits /\ QrOnly /\ Exclusive
  BY DEF PanelInv, RuntimeInv, RuntimeTypeOK, MainInv, QrInv, QrCycle
<1>1. At("stop")
  BY DEF MainStop
<1>2. cmd.op \in {"startQrPairing", "submitManualCode"}
  BY <1>0, <1>1, TodoNow DEF Place
<1>3. cmd.op # "submitManualCode"
  BY <1>0 DEF QrOnly, QrOps
<1>4. Asking
  BY <1>1, <1>2, <1>3 DEF Asking, At
<1>5. QED BY <1>0, <1>4, AdvanceSeeks DEF Exclusive

(* Only the helper cancels a session or moves the generation.                *)
LEMMA OnlyHelperStops ==
  ASSUME PanelTypeOK, [PanelNext]_sessionVars, ~HelperStep
  PROVE  cancelled' = cancelled /\ generation' = generation /\ trusted' = trusted
         /\ launcher' = launcher
<1>1. CASE TakeCommand
  BY <1>1 DEF TakeCommand, Accept, AnswerStale, quiet, vars, cells, pairingVars
<1>2. CASE ReceiveLine \/ UserStep \/ FrameStep
  BY <1>2, PanelFrame DEF runtimeVars, vars, cells, pairingVars
<1>3. CASE UNCHANGED sessionVars
  BY <1>3 DEF sessionVars, runtimeVars, vars, cells, pairingVars
<1>4. QED BY <1>1, <1>2, <1>3 DEF PanelNext

(* At first nothing is asked of anybody.                                     *)
LEMMA RunStart == PanelInit => QrInv /\ Sought /\ Served
<1> SUFFICES ASSUME PanelInit PROVE QrInv /\ Sought /\ Served
  OBVIOUS
<1>1. /\ pipe = <<>> /\ sent = <<>> /\ read = 0 /\ cmd = IdleCommand /\ view = InitialView
      /\ launcher = [w \in Sessions |-> IdleLauncher] /\ worker = [w \in Sessions |-> IdleWorker]
      /\ generation = 0 /\ caller = IdleCaller
  BY DEF PanelInit, RuntimeInit, Init
<1>2. /\ cmd.op = "none" /\ cmd.todo = <<>> /\ view.stage = "idle" /\ caller.step = "idle"
      /\ \A w \in Sessions : /\ launcher[w].step = "idle" /\ launcher[w].kind = "none"
                             /\ worker[w].step = "idle"
  BY <1>1 DEF IdleCommand, InitialView, IdleLauncher, IdleWorker, IdleCaller
<1>3. ~Wanted /\ ~Asking /\ ~Seeking /\ ~Lapsed
  <2>1. ~Wanted
    BY <1>1 DEF Wanted, Wants
  <2>2. ~Asking /\ ~Seeking
    BY <1>2 DEF Asking, Seeking, Seeks
  <2>3. ~Lapsed
    BY <1>1 DEF Lapsed, Lapses
  <2>4. QED BY <2>1, <2>2, <2>3
<1>4. QrOnly /\ Opening
  BY <1>1, <1>2 DEF QrOnly, Opening
<1>5. QrCycle
  BY <1>3 DEF QrCycle, OneWants, OneSeeks, OneLapses, Exclusive, Wanted, Seeking, Lapsed
<1>6. Served
  BY <1>1, <1>2 DEF Served, StartTold, Sent, Confirms
<1>7. QED BY <1>3, <1>4, <1>5, <1>6 DEF QrInv, Sought, Hot

(* What the panel shows as live was told as started and serves.              *)
LEMMA ShownServes ==
  ASSUME PanelInv, Served, InSync, view.started
  PROVE  \E w \in Sessions : Running(w) /\ worker[w].current = generation
<1>1. StartTold(generation)
  BY DEF PanelInv, StartsTold, InSync
<1>2. PICK w \in Sessions : Serves(w)
  BY <1>1 DEF Served
<1>3. worker[w].step = "live"
  BY <1>2 DEF Serves, InSync, Settled, Waits
<1>4. QED BY <1>2, <1>3, StepSets DEF Running, Serves

OfWorker(w) ==
  \/ LauncherStep(w) \/ PhoneStep(w) \/ LifetimeExpires(w)
  \/ SessionWorkerStep(w) \/ SessionChildStep(w)

(* Most steps of a launcher touch neither its closure nor the generation.    *)
LEMMA ClosureAges ==
  ASSUME RuntimeInv, NEW w \in Sessions, LauncherStep(w) \/ PhoneStep(w) \/ LifetimeExpires(w)
  PROVE  \/ worker' = worker /\ generation' = generation
         \/ AdvanceGeneration(w)
         \/ StartSession(w) /\ generation' = generation
         \/ Finish(w) /\ (generation' = generation \/ FailReconnect(w))
BY DEF LauncherStep, PhoneStep, LifetimeExpires, EnterFlow, TellProgress, FlowCancelled, ClaimPairing,
       LosePairing, StartDisconnect, Disconnected, DropQr, SaveDevice, RememberDevice, ReportLinked,
       StartSession, ReportPairingOver, FailReconnect, TellFailure, DropReconnect, ReportProgress,
       FlowFails, FlowTimesOut, FlowLinks, LeaveFlow, Spawn, Discard, AdvanceFailed, quiet, vars, cells

(* A session worker keeps its generation or takes the next one.              *)
LEMMA SessionAges ==
  ASSUME TypeOK, NEW w \in Sessions, WorkerStep(w) \/ ScrcpyStep(w)
  PROVE  /\ worker[w].step \notin {"idle"} \cup ArmedSteps
         /\ \A v \in Sessions \ {w} : worker'[v] = worker[v]
         /\ generation' = generation \/ worker[w].current = generation
         /\ generation' = generation =>
              worker'[w].step = "idle" \/ worker'[w].current = worker[w].current
<1>0. worker \in [Sessions -> WorkerState] /\ generation + 1 # generation
  BY DEF TypeOK
<1>1. worker[w].step \notin {"idle"} \cup ArmedSteps
  BY StepSets
     DEF WorkerStep, ScrcpyStep, SpawnStale, SpawnCurrent, LockRunner, SetTarget, RefuseStart, AdmitStart,
         Announce, RunScrcpy, RunStopped, ConfirmStarted, StartDeadline, ExitSuperseded, ClaimRetry,
         KeepResult, EndSilently, ClaimEnd, ClearTarget, ReportEnd, CaptureReady, RunUnavailable, ScrcpyExits
<1>2. CASE ClaimRetry(w) \/ ClaimEnd(w)
  BY <1>0, <1>1, <1>2 DEF ClaimRetry, ClaimEnd, Current
<1>3. CASE ~(ClaimRetry(w) \/ ClaimEnd(w))
  <2>1. generation' = generation /\ (Finish(w) \/ (\E s : Goto(w, s)) \/ \E r : Exit(w, r))
    BY <1>3
       DEF WorkerStep, ScrcpyStep, SpawnStale, SpawnCurrent, LockRunner, SetTarget, RefuseStart, AdmitStart,
           Announce, RunScrcpy, RunStopped, ConfirmStarted, StartDeadline, ExitSuperseded,
           KeepResult, EndSilently, ClearTarget, ReportEnd, CaptureReady, RunUnavailable, ScrcpyExits, cells
  <2>2. \A v \in Sessions \ {w} : worker'[v] = worker[v]
    BY <1>0, <2>1 DEF Finish, Goto, Exit
  <2>3. worker'[w].step = "idle" \/ worker'[w].current = worker[w].current
    BY <2>1, WorkerGoes DEF IdleWorker
  <2>4. QED BY <1>1, <2>1, <2>2, <2>3
<1>4. QED BY <1>2, <1>3

(* Only a worker of this generation moves it, and while it does not, every   *)
(* worker is of the generation it was of.                                    *)
LEMMA WorkerAges ==
  ASSUME RuntimeInv, NEW w \in Sessions, OfWorker(w), ~AdvanceGeneration(w)
  PROVE  /\ \A v \in Sessions \ {w} : worker'[v] = worker[v] /\ launcher'[v] = launcher[v]
         /\ \/ generation' = generation
            \/ worker[w].step # "idle" /\ worker[w].current = generation /\ ~Seeks(w)
         /\ generation' = generation =>
              \/ worker'[w].step = "idle" \/ worker'[w] = worker[w]
              \/ worker[w].step # "idle" /\ worker'[w].current = worker[w].current
<1>0. /\ RuntimeTypeOK /\ TypeOK /\ worker \in [Sessions -> WorkerState] /\ worker[w] \in WorkerState
      /\ generation \in Nat /\ generation + 1 # generation /\ Fits(w)
  BY DEF RuntimeInv, RuntimeTypeOK, TypeOK, LauncherInv, LauncherFits
<1>1. \A v \in Sessions \ {w} : launcher'[v] = launcher[v]
  BY <1>0, WorkerPairs DEF OfWorker
<1>2. CASE SessionWorkerStep(w) \/ SessionChildStep(w)
  <2>1. WorkerStep(w) \/ ScrcpyStep(w)
    BY <1>2 DEF SessionWorkerStep, SessionChildStep
  <2>2. ~Seeks(w)
    BY <1>0, <2>1, SessionAges DEF Seeks, Fits, Carries
  <2>3. /\ worker[w].step # "idle"
        /\ generation' = generation \/ worker[w].current = generation
        /\ generation' = generation =>
             worker'[w].step = "idle" \/ worker'[w].current = worker[w].current
        /\ \A v \in Sessions \ {w} : worker'[v] = worker[v]
    BY <1>0, <2>1, SessionAges
  <2>4. QED BY <1>1, <2>2, <2>3
<1>3. CASE LauncherStep(w) \/ PhoneStep(w) \/ LifetimeExpires(w)
  <2>1. CASE worker' = worker /\ generation' = generation
    BY <1>1, <2>1
  <2>2. CASE StartSession(w) /\ generation' = generation
    <3>1. PICK t : worker' = [worker EXCEPT ![w].step = "spawned", ![w].target = t]
      BY <2>2 DEF StartSession, Spawn
    <3>2. worker'[w].current = worker[w].current /\ \A v \in Sessions \ {w} : worker'[v] = worker[v]
      BY <1>0, <3>1 DEF WorkerState
    <3>3. worker[w].step # "idle"
      BY <2>2, StepSets DEF StartSession, Spawn
    <3>4. QED BY <1>1, <2>2, <3>2, <3>3
  <2>3. CASE Finish(w)
    <3>1. worker'[w].step = "idle" /\ \A v \in Sessions \ {w} : worker'[v] = worker[v]
      BY <1>0, <2>3 DEF Finish, IdleWorker
    <3>2. FailReconnect(w) => worker[w].step # "idle" /\ worker[w].current = generation /\ ~Seeks(w)
      BY DEF FailReconnect, AdvanceFailed, Seeks
    <3>3. AdvanceGeneration(w) \/ StartSession(w) \/ generation' = generation \/ FailReconnect(w)
      BY <1>3, ClosureAges
    <3>4. StartSession(w) => generation' = generation
      BY DEF StartSession, Spawn, cells
    <3>5. QED BY <1>1, <3>1, <3>2, <3>3, <3>4
  <2>4. QED BY <1>3, <2>1, <2>2, <2>3, ClosureAges
<1>4. QED BY <1>2, <1>3 DEF OfWorker

(* A worker that seeks goes on, or is gone with its closure.                 *)
LEMMA SeekingGoes ==
  ASSUME RuntimeInv, NEW w \in Sessions, OfWorker(w), ~AdvanceGeneration(w), Seeks(w)
  PROVE  worker'[w].step = "idle" \/ Seeks(w)'
<1>0. /\ RuntimeTypeOK /\ TypeOK /\ worker \in [Sessions -> WorkerState]
      /\ launcher \in [Sessions -> LauncherState] /\ Fits(w)
      /\ launcher[w].kind = "qr" /\ launcher[w].step \notin {"idle", "start", "tell"}
  BY DEF RuntimeInv, RuntimeTypeOK, TypeOK, LauncherInv, LauncherFits, Seeks
<1>1. ASSUME NEW s \in LauncherSteps \ {"idle", "start", "tell", "report"}, LauncherGoes(w, s)
      PROVE  Seeks(w)'
  BY <1>0, <1>1 DEF Seeks, LauncherGoes
<1>2. ASSUME NEW s \in LauncherSteps \ {"idle", "start", "tell", "report"}, LGoto(w, s)
      PROVE  Seeks(w)'
  BY <1>0, <1>1, <1>2, GoesOn
<1>3. CASE EnterFlow(w) \/ TellProgress(w) \/ ReportProgress(w) \/ StartDisconnect(w) \/ RememberDevice(w)
             \/ ClaimPairing(w)
  BY <1>0, <1>2, <1>3, LauncherValues
     DEF EnterFlow, TellProgress, ReportProgress, StartDisconnect, RememberDevice, ClaimPairing
<1>4. CASE FlowCancelled(w) \/ FlowFails(w) \/ FlowTimesOut(w) \/ \E t \in Targets : FlowLinks(w, t)
  <2>1. PICK o \in Outcomes, t \in Targets \cup {NoTarget} : LeaveFlow(w, o, t)
    BY <1>4, LauncherValues DEF FlowCancelled, FlowFails, FlowTimesOut, FlowLinks
  <2>2. LauncherGoes(w, "claim")
    BY <1>0, <2>1, LeavesFlow
  <2>3. QED BY <1>1, <2>2, LauncherValues
<1>5. CASE DropQr(w)
  <2>1. CASE launcher[w].outcome = "Linked"
    BY <1>2, <1>5, <2>1, LauncherValues DEF DropQr
  <2>2. CASE launcher[w].outcome # "Linked"
    <3>1. LauncherGoes(w, "report") /\ LauncherKeeps(w)
      BY <1>0, <1>5, <2>2, GoesOn, LauncherValues DEF DropQr
    <3>2. QED BY <1>0, <2>2, <3>1 DEF Seeks, LauncherGoes, LauncherKeeps
  <2>3. QED BY <2>1, <2>2
<1>6. CASE SaveDevice(w)
  <2>1. CASE LGoto(w, "remember")
    BY <1>2, <2>1, LauncherValues
  <2>2. CASE launcher' = [launcher EXCEPT ![w].step = "report", ![w].outcome = "Failure"]
    BY <1>0, <2>2, SaveFails DEF Seeks, LauncherGoes
  <2>3. QED BY <1>6, <2>1, <2>2 DEF SaveDevice
<1>7. CASE LosePairing(w) \/ Disconnected(w) \/ ReportPairingOver(w) \/ DropReconnect(w)
  <2>1. CASE LGoto(w, "disconnect")
    BY <1>2, <2>1, LauncherValues
  <2>2. CASE Finish(w)
    BY <1>0, <2>2 DEF Finish, IdleWorker
  <2>3. QED BY <1>7, <2>1, <2>2 DEF LosePairing, Disconnected, ReportPairingOver, DropReconnect, Discard
<1>8. CASE ReportLinked(w) \/ StartSession(w) \/ FailReconnect(w) \/ TellFailure(w)
  BY <1>0, <1>8 DEF ReportLinked, StartSession, FailReconnect, TellFailure, Seeks
<1>9. CASE LifetimeExpires(w)
  BY <1>9 DEF LifetimeExpires, Seeks
<1>10. CASE SessionWorkerStep(w) \/ SessionChildStep(w)
  <2>1. WorkerStep(w) \/ ScrcpyStep(w)
    BY <1>10 DEF SessionWorkerStep, SessionChildStep
  <2>2. QED BY <1>0, <2>1, SessionAges DEF Fits, Carries
<1>11. QED
  BY <1>3, <1>4, <1>5, <1>6, <1>7, <1>8, <1>9, <1>10 DEF OfWorker, LauncherStep, PhoneStep

(* What is told, names a generation that there was.                          *)
LogReached ==
  /\ \A i \in DOMAIN sent : sent[i].generation <= generation
  /\ \A w \in Sessions : launcher[w].step = "tell" => launcher[w].told <= generation

(* What a worker says: of its own generation unless it seeks, of the one it  *)
(* took for its failure, or of none.                                         *)
LEMMA WorkerSpeaks ==
  ASSUME RuntimeInv, NEW w \in Sessions, OfWorker(w)
  PROVE  \/ sent' = sent
         \/ \E type \in EventTypes \ {"StartOverComplete", "PreferencesRestarted"}, g \in Nat :
              /\ Emit(Event(type, g)) /\ generation' = generation
              /\ \/ g = 0 /\ type \notin ConnectionWords
                 \/ g = worker[w].current /\ worker[w].step # "idle" /\ ~Seeks(w)
                 \/ g = launcher[w].told /\ launcher[w].step = "tell" /\ type \notin ConnectionWords
<1> DEFINE Quiets == {"StartOverComplete", "PreferencesRestarted"}
<1>0. /\ RuntimeTypeOK /\ TypeOK /\ generation \in Nat /\ launcher[w] \in LauncherState
      /\ Fits(w) /\ worker[w].current \in Nat
  BY WorkerFields DEF RuntimeInv, RuntimeTypeOK, TypeOK, LauncherInv, LauncherFits
<1>1. CASE TellProgress(w)
  <2>1. Emit(Event("Pairing", 0)) /\ "Pairing" \in EventTypes \ Quiets /\ 0 \in Nat
        /\ "Pairing" \notin ConnectionWords /\ generation' = generation
    BY <1>1, KnownTypes DEF TellProgress, ConnectionWords, quiet, cells
  <2>2. QED BY <2>1
<1>2. CASE ReportLinked(w)
  <2>1. /\ \E type \in {"Connected", "Paired"} : Emit(Event(type, worker[w].current))
        /\ generation' = generation
    BY <1>2 DEF ReportLinked, quiet, cells
  <2>2. {"Connected", "Paired"} \subseteq EventTypes \ Quiets
    BY KnownTypes
  <2>3. worker[w].step # "idle" /\ ~Seeks(w)
    BY <1>0, <1>2, StepSets DEF ReportLinked, Fits, Carries, Seeks
  <2>4. QED BY <1>0, <2>1, <2>2, <2>3
<1>3. CASE ReportPairingOver(w)
  <2>1. /\ Emit(Event(PairingOver[launcher[w].outcome], 0)) /\ generation' = generation
        /\ launcher[w].step = "report" /\ launcher[w].outcome # "Linked"
    BY <1>3 DEF ReportPairingOver, cells
  <2>2. launcher[w].outcome \in {"Failure", "TimedOut", "Cancelled"}
    BY <1>0, <2>1, LauncherValues DEF Fits, LauncherState
  <2>3. PairingOver[launcher[w].outcome] \in {"Failure", "QrTimedOut", "PairingCancelled"}
    BY <2>2 DEF PairingOver
  <2>4. /\ PairingOver[launcher[w].outcome] \in EventTypes \ Quiets /\ 0 \in Nat
        /\ PairingOver[launcher[w].outcome] \notin ConnectionWords
    BY <2>3, KnownTypes DEF ConnectionWords
  <2>5. QED BY <2>1, <2>4
<1>4. CASE TellFailure(w)
  <2>1. /\ Emit(Event("ReconnectFailed", launcher[w].told)) /\ launcher[w].told \in Nat
        /\ "ReconnectFailed" \in EventTypes \ Quiets /\ "ReconnectFailed" \notin ConnectionWords
        /\ launcher[w].step = "tell" /\ generation' = generation
    BY <1>0, <1>4, KnownTypes DEF TellFailure, LauncherState, ConnectionWords, quiet, cells
  <2>2. QED BY <2>1
<1>5. CASE SessionWorkerStep(w) \/ SessionChildStep(w)
  <2>1. WorkerStep(w) \/ ScrcpyStep(w)
    BY <1>5 DEF SessionWorkerStep, SessionChildStep
  <2>2. sent' = sent \/ Announce(w) \/ ConfirmStarted(w) \/ ReportEnd(w)
    BY <2>1 DEF WorkerStep, ScrcpyStep, SpawnStale, SpawnCurrent, LockRunner, SetTarget, RefuseStart, AdmitStart,
           RunScrcpy, RunStopped, StartDeadline, ExitSuperseded, ClaimRetry, KeepResult, EndSilently, ClaimEnd,
           ClearTarget, CaptureReady, RunUnavailable, ScrcpyExits
  <2>3. \/ sent' = sent
        \/ /\ \E type \in {"SessionStarting", "SessionStarted", "SessionEnded", "LifecycleFailure"} :
                Emit(Event(type, worker[w].current))
           /\ generation' = generation
    BY <2>2 DEF Announce, ConfirmStarted, ReportEnd, EndEvent, Emit, cells
  <2>4. {"SessionStarting", "SessionStarted", "SessionEnded", "LifecycleFailure"} \subseteq EventTypes \ Quiets
    BY KnownTypes
  <2>5. worker[w].step # "idle" /\ ~Seeks(w)
    BY <1>0, <2>1, SessionAges DEF Fits, Carries, Seeks
  <2>6. QED BY <1>0, <2>3, <2>4, <2>5
<1>6. CASE ~(TellProgress(w) \/ ReportLinked(w) \/ ReportPairingOver(w) \/ TellFailure(w)
              \/ SessionWorkerStep(w) \/ SessionChildStep(w))
  <2>1. sent' = sent
    BY <1>6 DEF OfWorker, LauncherStep, PhoneStep, LifetimeExpires, EnterFlow, FlowCancelled,
         ClaimPairing, LosePairing, StartDisconnect, Disconnected, DropQr, SaveDevice,
         RememberDevice, AdvanceGeneration, StartSession, Advance, AdvanceFailed, Spawn, Discard,
         FailReconnect, DropReconnect, ReportProgress, FlowFails, FlowTimesOut,
         FlowLinks, LeaveFlow, vars
  <2>2. QED BY <2>1
<1>7. QED BY <1>1, <1>2, <1>3, <1>4, <1>5, <1>6

(* A failure that is to be told is one of the generation it took.            *)
LEMMA WorkerTells ==
  ASSUME RuntimeInv, NEW w \in Sessions, OfWorker(w), launcher'[w].step = "tell"
  PROVE  \/ launcher[w].step = "tell" /\ launcher'[w].told = launcher[w].told
         \/ generation' = generation + 1 /\ launcher'[w].told = generation'
<1>0. /\ RuntimeTypeOK /\ launcher[w] \in LauncherState /\ launcher \in [Sessions -> LauncherState]
      /\ generation \in Nat
  BY DEF RuntimeInv, RuntimeTypeOK, TypeOK
<1>1. ASSUME NEW s, LGoto(w, s) PROVE launcher'[w].step = s
  <2>1. launcher'[w] = [launcher[w] EXCEPT !.step = s]
    BY <1>0, <1>1 DEF LGoto
  <2>2. QED BY <1>0, <2>1 DEF LauncherState
<1>2. CASE launcher' = launcher
  BY <1>2
<1>3. ~LFinish(w)
  BY <1>0 DEF LFinish, IdleLauncher
<1>4. CASE FailReconnect(w)
  <2>1. launcher'[w] = [launcher[w] EXCEPT !.step = "tell", !.told = generation + 1]
        /\ generation' = generation + 1
    BY <1>0, <1>4 DEF FailReconnect, AdvanceFailed
  <2>2. launcher'[w].told = generation + 1
    BY <1>0, <2>1 DEF LauncherState
  <2>3. QED BY <2>1, <2>2
<1>5. ~SaveDevice(w)
  <2>1. ASSUME launcher' = [launcher EXCEPT ![w].step = "report", ![w].outcome = "Failure"] PROVE FALSE
    BY <1>0, <2>1, SaveFails DEF LauncherGoes
  <2>2. ~LGoto(w, "remember")
    BY <1>1
  <2>3. QED BY <2>1, <2>2 DEF SaveDevice
<1>6. ASSUME NEW o \in Outcomes, NEW t \in Targets \cup {NoTarget}, LeaveFlow(w, o, t) PROVE FALSE
  BY <1>0, <1>6, LeavesFlow DEF LauncherGoes
<1>7. ~(FlowCancelled(w) \/ FlowFails(w) \/ FlowTimesOut(w) \/ \E t \in Targets : FlowLinks(w, t))
  BY <1>6, LauncherValues DEF FlowCancelled, FlowFails, FlowTimesOut, FlowLinks
<1>8. ~(EnterFlow(w) \/ TellProgress(w) \/ ReportProgress(w) \/ StartDisconnect(w) \/ RememberDevice(w)
             \/ ClaimPairing(w) \/ ReportLinked(w) \/ DropQr(w))
  BY <1>1 DEF EnterFlow, TellProgress, ReportProgress, StartDisconnect, RememberDevice,
              ClaimPairing, ReportLinked, DropQr
<1>9. ~(LosePairing(w) \/ Disconnected(w) \/ ReportPairingOver(w) \/ DropReconnect(w)
         \/ StartSession(w) \/ TellFailure(w))
  BY <1>1, <1>3 DEF LosePairing, Disconnected, ReportPairingOver, DropReconnect, StartSession, TellFailure
<1>10. ~AdvanceGeneration(w)
  <2>1. ASSUME AdvanceGeneration(w) PROVE LGoto(w, "report")
    BY <2>1 DEF AdvanceGeneration, LGoto
  <2>2. QED BY <1>1, <2>1
<1>11. QED
  BY <1>2, <1>4, <1>5, <1>7, <1>8, <1>9, <1>10
     DEF OfWorker, LauncherStep, PhoneStep, LifetimeExpires, SessionWorkerStep, SessionChildStep

(* The settings that restart a session.                                      *)
Restarts == cmd.op = "setPreferences" /\ Len(cmd.todo) = 1 /\ cmd.target # NoTarget

(* What the main thread moves: the generation when it ends or restarts a     *)
(* session, a worker when it launches or restarts one.                       *)
LEMMA MainMoves ==
  ASSUME RuntimeInv, cmd.op # "shutdown", MainStep
  PROVE  /\ cmd.todo # <<>>
         /\ \/ generation' = generation
            \/ /\ generation' = generation + 1
               /\ sent' = sent /\ worker' = worker /\ launcher' = launcher
               /\ MainInvalidate \/ (MainRestart /\ cmd.target # NoTarget)
         /\ \/ worker' = worker
            \/ \E w \in Sessions : Launch(w)
            \/ \E w \in Sessions : Restart(w) /\ launcher' = launcher /\ cmd' = cmd
         /\ (trusted' => trusted) /\ (stored' => stored)
<1>0. /\ MainInv /\ generation \in Nat /\ cmd \in CommandState
  BY DEF RuntimeInv, RuntimeTypeOK, TypeOK
<1>1. cmd.todo # <<>>
  <2>1. CASE InSessionControl
    <3>1. caller.step # "idle"
      BY <2>1 DEF InSessionControl, CallerStep, CrossBarrier, ResetTarget, RenewToken, Restart
    <3>2. QED BY <1>0, <3>1 DEF MainInv, Returned
  <2>2. CASE ~InSessionControl
    BY <2>2 DEF MainStep, RefuseIfLive, NeedTrusted, ReadTarget, NeedTarget, MainStop, MainInvalidate,
         MainRestart, Acknowledge, CancelToken, Retire, Supersede, StartQr, CancelQr, CrossFlow,
         LockFlow, UnlockFlow, Forget, UseStore, RunInput, ReadGeneration, Reply, ReplyFailed, Launch, At
  <2>3. QED BY <2>1, <2>2
<1>2. CASE MainInvalidate \/ (MainRestart /\ cmd.target # NoTarget)
  BY <1>1, <1>2 DEF MainInvalidate, MainRestart, Invalidate, pairingVars, locks
<1>3. CASE InSessionControl
  BY <1>1, <1>3 DEF InSessionControl, CallerStep, CrossBarrier, ResetTarget, RenewToken, Restart,
       pairingVars, cells
<1>4. CASE \E w \in Sessions : Launch(w)
  <2>1. PICK w \in Sessions : Launch(w)
    BY <1>4
  <2>2. generation' = generation /\ trusted' = trusted /\ stored' = stored
    BY <2>1 DEF Launch, Capture, pairingVars, cells
  <2>3. QED BY <1>1, <2>1, <2>2
<1>5. CASE MainStop \/ Acknowledge \/ (MainRestart /\ cmd.target = NoTarget)
  BY <1>1, <1>5 DEF MainStop, StopSession, Acknowledge, AcknowledgePreview, MainRestart, pairingVars, vars,
       cells, locks
<1>6. CASE RefuseIfLive \/ NeedTrusted \/ ReadTarget \/ NeedTarget \/ CancelToken \/ Retire
            \/ Supersede \/ StartQr \/ CancelQr \/ CrossFlow \/ LockFlow \/ UnlockFlow
            \/ Forget \/ UseStore \/ RunInput \/ ReadGeneration \/ Reply \/ ReplyFailed
  BY <1>1, <1>6 DEF RefuseIfLive, NeedTrusted, ReadTarget, NeedTarget, CancelToken, Retire,
       Supersede, StartQr, CancelQr, CrossFlow, LockFlow, UnlockFlow, Forget, UseStore, RunInput,
       ReadGeneration, Reply, ReplyFailed, pairingVars, vars, quiet, cells
<1>7. QED BY <1>2, <1>3, <1>4, <1>5, <1>6 DEF MainStep

(* A session is restarted only by settings that found its target.            *)
RestartOnly ==
  caller.step # "idle" /\ (caller.target # NoTarget \/ caller.step = "restart") =>
    /\ cmd.op \in {"setPreferences", "setScrcpyArgs"}
    /\ Len(cmd.todo) = 1 /\ cmd.target # NoTarget

(* ... which stays so while the main thread is in SessionControl.           *)
LEMMA MainRestartsOnly ==
  ASSUME RuntimeInv, RestartOnly, MainStep
  PROVE  RestartOnly'
<1>0. /\ TodoFits /\ cmd \in CommandState /\ caller \in CallerState
  BY DEF RuntimeInv, RuntimeTypeOK, TypeOK, MainInv
<1>1. CASE InSessionControl
  <2>1. cmd' = cmd /\ caller.step # "idle"
    BY <1>1 DEF InSessionControl, CallerStep, CrossBarrier, ResetTarget, RenewToken, Restart
  <2>2. \/ caller'.step = "idle"
        \/ caller'.target = caller.target /\ caller'.step # "restart"
        \/ caller.target # NoTarget
    BY <1>0, <1>1 DEF InSessionControl, CallerStep, CrossBarrier, ResetTarget, RenewToken, Restart,
         IdleCaller, CallerState
  <2>3. QED BY <2>1, <2>2 DEF RestartOnly
<1>2. CASE MainRestart
  <2>1. At("restart") /\ Proceeds
    BY <1>0, <1>2, ContinueProceeds DEF MainRestart
  <2>2. cmd.op \in {"setPreferences", "setScrcpyArgs"} /\ Len(cmd.todo) = 2
    BY <1>0, <2>1, TodoNow DEF Place
  <2>3. cmd'.op = cmd.op /\ Len(cmd'.todo) = 1
    <3>1. Len(cmd'.todo) = Len(cmd.todo) - 1
      BY <1>0, <2>1, TodoGoesOn
    <3>2. QED BY <2>1, <2>2, <3>1 DEF Proceeds
  <2>4. cmd'.target = cmd.target
    BY <1>0, <1>2 DEF MainRestart, Continue, CommandState
  <2>5. cmd.target = NoTarget => caller'.step = "idle"
    BY <1>2 DEF MainRestart, At, vars
  <2>6. QED BY <2>2, <2>3, <2>4, <2>5 DEF RestartOnly
<1>3. CASE MainStop \/ MainInvalidate
  <2>1. caller'.target = NoTarget /\ caller'.step = "barrier"
    BY <1>3 DEF MainStop, MainInvalidate, StopSession, Invalidate, IdleCaller
  <2>2. QED BY <2>1 DEF RestartOnly
<1>4. CASE ~(InSessionControl \/ MainRestart \/ MainStop \/ MainInvalidate)
  <2>1. caller' = caller /\ caller.step = "idle"
    BY <1>4 DEF MainStep, RefuseIfLive, NeedTrusted, ReadTarget, NeedTarget, Acknowledge, AcknowledgePreview,
         CancelToken, Retire, Supersede, StartQr, CancelQr, CrossFlow, LockFlow, UnlockFlow, Forget,
         UseStore, RunInput, ReadGeneration, Reply, ReplyFailed, Launch, Capture, At, vars, quiet
  <2>2. QED BY <2>1 DEF RestartOnly
<1>5. QED BY <1>1, <1>2, <1>3, <1>4

(* What the main thread says: of the generation it read or of none; that a session *)
(* connects only when it reconnects, that a device is forgotten only at the  *)
(* end of a Start Over, and that a session restarted only when it did.       *)
LEMMA MainSays ==
  ASSUME RuntimeInv, MainStep
  PROVE  \/ sent' = sent
         \/ \E type \in EventTypes, g \in Nat :
              /\ Emit(Event(type, g)) /\ g \in {0, cmd.generation} /\ generation' = generation
              /\ type \in ConnectionWords => Rest({"reconnect"}, 2, 2)
              /\ type = "StartOverComplete" =>
                   /\ Rest({"startOver"}, 1, 1)
                   /\ g = cmd.generation /\ cmd.read /\ cmd'.todo = <<>> /\ cmd'.op = "startOver"
              /\ type = "PreferencesRestarted" => Restarts
<1>0. cmd.generation \in Nat /\ 0 \in Nat /\ cmd \in CommandState /\ TodoFits
  BY DEF RuntimeInv, RuntimeTypeOK, MainInv, CommandState
<1>1. \/ sent' = sent \/ Reply
      \/ \E type \in {"Refused", "Failure", "InputFailed"}, g \in Nat :
           Emit(Event(type, g)) /\ g \in {0, cmd.generation} /\ generation' = generation
  BY <1>0
     DEF MainStep, RefuseIfLive, NeedTrusted, ReadTarget, NeedTarget, MainStop, MainInvalidate,
         MainRestart, Acknowledge, CancelToken, Retire, Supersede, StartQr, CancelQr, CrossFlow,
         LockFlow, UnlockFlow, Forget, UseStore, RunInput, ReadGeneration, ReplyFailed, InSessionControl, Launch,
         StopSession, Invalidate, AcknowledgePreview, Capture, CallerStep, CrossBarrier,
         ResetTarget, RenewToken, Restart, vars, quiet, cells
<1>2. {"Refused", "Failure", "InputFailed"} \subseteq
        EventTypes \ (ConnectionWords \cup {"StartOverComplete", "PreferencesRestarted"})
  BY KnownTypes DEF ConnectionWords
<1>3. CASE Reply
  <2> DEFINE type == IF cmd.op \in DOMAIN RestartType /\ cmd.target # NoTarget
                     THEN RestartType[cmd.op] ELSE ReplyType[cmd.op]
             g == IF cmd.op \in Telling THEN cmd.generation ELSE 0
  <2>1. type \in EventTypes /\ g \in Nat /\ Emit(Event(type, g))
    BY <1>3, ReplyTells
  <2>2. /\ g \in {0, cmd.generation} /\ generation' = generation
        /\ cmd.op = "startOver" => g = cmd.generation /\ cmd.read
    BY <1>3 DEF Reply, quiet, cells, Telling
  <2>3. /\ \/ cmd.op \in {"startQrPairing", "submitManualCode", "reconnect"} /\ Len(cmd.todo) = 2
           \/ /\ cmd.op \in {"cancelPairing", "useManualCode", "stopSession", "startOver",
                             "setPreferences", "setScrcpyArgs"}
              /\ Len(cmd.todo) = 1
        /\ At("reply") /\ Proceeds
    BY <1>0, <1>3, TodoNow, ContinueProceeds DEF Place, Reply
  <2>4. /\ type \in ConnectionWords => cmd.op = "reconnect"
        /\ type = "StartOverComplete" => cmd.op = "startOver"
        /\ type = "PreferencesRestarted" => cmd.op = "setPreferences" /\ cmd.target # NoTarget
    <3>1. DOMAIN RestartType = {"setPreferences", "setScrcpyArgs"}
      BY DEF RestartType
    <3>2. QED BY <2>3, <3>1, Replies DEF ConnectionWords
  <2>5. Len(cmd.todo) = 1 => cmd'.todo = <<>> /\ cmd'.op = cmd.op
    BY <1>0, <2>3, TodoGoesOn
  <2> HIDE DEF type, g
  <2>6. type \in ConnectionWords => Rest({"reconnect"}, 2, 2)
    BY <2>3, <2>4 DEF Rest
  <2>7. type = "StartOverComplete" => Rest({"startOver"}, 1, 1)
    BY <2>3, <2>4 DEF Rest
  <2>8. type = "PreferencesRestarted" => Restarts
    BY <2>3, <2>4 DEF Restarts
  <2>9. QED BY <2>1, <2>2, <2>3, <2>4, <2>5, <2>6, <2>7, <2>8 DEF Rest
<1>4. QED BY <1>1, <1>2, <1>3

(* An event in the log.                                                      *)
LEMMA Spoken ==
  ASSUME TypeOK, NEW type \in EventTypes, NEW g \in Nat, Emit(Event(type, g))
  PROVE  /\ Len(sent) \in Nat /\ DOMAIN sent = 1..Len(sent) /\ DOMAIN sent' = 1..Len(sent) + 1
         /\ Len(sent') = Len(sent) + 1
         /\ \A i \in DOMAIN sent : sent'[i] = sent[i]
         /\ sent'[Len(sent) + 1].type = type /\ sent'[Len(sent) + 1].generation = g
<1>1. sent \in Seq(EventSet) /\ Event(type, g) \in EventSet /\ sent' = Append(sent, Event(type, g))
  BY DEF TypeOK, EventSet, Event, Emit
<1>2. Event(type, g).type = type /\ Event(type, g).generation = g
  BY DEF Event
<1> HIDE DEF Event
<1>3. /\ Len(sent') = Len(sent) + 1 /\ Len(sent) \in Nat
      /\ DOMAIN sent = 1..Len(sent) /\ DOMAIN sent' = 1..Len(sent) + 1
      /\ \A i \in 1..Len(sent) : sent'[i] = sent[i]
      /\ sent'[Len(sent) + 1] = Event(type, g)
  BY <1>1, Appended
<1>4. QED BY <1>2, <1>3

(* Nothing of this generation is left: no worker but one that seeks a        *)
(* pairing, no command that names a session, no word of a connection.        *)
PastWorkers ==
  \A w \in Sessions :
    worker[w].step = "idle" \/ worker[w].current < generation \/ Seeks(w)
PastPipe == \A i \in DOMAIN pipe : pipe[i].op \in SessionBound => pipe[i].generation < generation
PastWords ==
  \A i \in DOMAIN sent : sent[i].type \in ConnectionWords => sent[i].generation < generation
Behind == PastWorkers /\ PastPipe /\ PastWords

(* The main thread does nothing that begins or ends a session.               *)
Spare ==
  cmd.todo # <<>> =>
    cmd.op \in {"startQrPairing", "setPreferences"} \/ (cmd.op = "reconnect" /\ Len(cmd.todo) = 6)

(* The words of a log that grows by one that is none, or an old one.         *)
LEMMA WordsStay ==
  ASSUME TypeOK, PastWords, generation' = generation,
         \/ sent' = sent
         \/ \E type \in EventTypes, g \in Nat :
              Emit(Event(type, g)) /\ (type \in ConnectionWords => g < generation)
  PROVE  PastWords'
<1>1. CASE sent' = sent
  BY <1>1 DEF PastWords
<1>2. ASSUME NEW type \in EventTypes, NEW g \in Nat, Emit(Event(type, g)),
             type \in ConnectionWords => g < generation
      PROVE  PastWords'
  <2>1. /\ Len(sent) \in Nat /\ DOMAIN sent = 1..Len(sent) /\ DOMAIN sent' = 1..Len(sent) + 1
        /\ \A i \in DOMAIN sent : sent'[i] = sent[i]
        /\ sent'[Len(sent) + 1].type = type /\ sent'[Len(sent) + 1].generation = g
    BY <1>2, Spoken
  <2>2. \A i \in DOMAIN sent' : i \in DOMAIN sent \/ i = Len(sent) + 1
    BY <2>1
  <2>3. QED BY <1>2, <2>1, <2>2 DEF PastWords
<1>3. QED BY <1>1, <1>2

(* No event names a generation the helper has not reached.                   *)
LEMMA ReachedStays ==
  ASSUME TypeOK, LogReached, GenerationGoesOn,
         \A w \in Sessions : launcher'[w].step = "tell" => launcher'[w].told <= generation',
         \/ sent' = sent
         \/ \E type \in EventTypes, g \in Nat : Emit(Event(type, g)) /\ g <= generation
  PROVE  LogReached'
<1>1. generation' \in Nat /\ generation \in Nat /\ generation <= generation'
  BY Onward DEF TypeOK
<1>2. \A i \in DOMAIN sent : sent[i].generation \in Nat
  BY EventsTyped
<1>3. CASE sent' = sent
  BY <1>1, <1>2, <1>3 DEF LogReached
<1>4. ASSUME NEW type \in EventTypes, NEW g \in Nat, Emit(Event(type, g)), g <= generation
      PROVE  LogReached'
  <2>1. /\ Len(sent) \in Nat /\ DOMAIN sent = 1..Len(sent) /\ DOMAIN sent' = 1..Len(sent) + 1
        /\ \A i \in DOMAIN sent : sent'[i] = sent[i]
        /\ sent'[Len(sent) + 1].generation = g
    BY <1>4, Spoken
  <2>2. \A i \in DOMAIN sent' : i \in DOMAIN sent \/ i = Len(sent) + 1
    BY <2>1
  <2>3. QED BY <1>1, <1>2, <1>4, <2>1, <2>2 DEF LogReached
<1>5. QED BY <1>3, <1>4

(* What a worker tells was reached.                                         *)
LEMMA WorkerReaches ==
  ASSUME RuntimeInv, LogReached, GenerationGoesOn, NEW w \in Sessions, OfWorker(w)
  PROVE  LogReached'
<1>0. /\ TypeOK /\ CurrentsKnown /\ RuntimeTypeOK /\ generation \in Nat
      /\ launcher \in [Sessions -> LauncherState]
  BY DEF RuntimeInv, RuntimeTypeOK, TypeOK, LogInv, AnnounceInv
<1>1. generation' \in Nat /\ generation <= generation'
  BY <1>0, Onward
<1>2. \A v \in Sessions \ {w} : launcher'[v] = launcher[v]
  BY <1>0, WorkerPairs DEF OfWorker
<1>3. \A v \in Sessions : launcher'[v].step = "tell" => launcher'[v].told <= generation'
  <2>1. \A v \in Sessions : launcher[v].told \in Nat
    BY <1>0 DEF LauncherState
  <2>2. launcher'[w].step = "tell" => launcher'[w].told <= generation'
    BY <1>0, <1>1, <2>1, WorkerTells DEF LogReached
  <2>3. QED BY <1>0, <1>1, <1>2, <2>1, <2>2 DEF LogReached
<1>4. \/ sent' = sent
      \/ \E type \in EventTypes, g \in Nat : Emit(Event(type, g)) /\ g <= generation
  <2>1. CASE sent' = sent
    BY <2>1
  <2>2. CASE sent' # sent
    <3>1. PICK type \in EventTypes, g \in Nat :
             /\ Emit(Event(type, g))
             /\ g = 0 \/ g = worker[w].current \/ (g = launcher[w].told /\ launcher[w].step = "tell")
      BY <2>2, WorkerSpeaks
    <3>2. g <= generation
      BY <1>0, <3>1 DEF CurrentsKnown, LogReached
    <3>3. QED BY <3>1, <3>2
  <2>3. QED BY <2>1, <2>2
<1>5. QED BY <1>0, <1>3, <1>4, ReachedStays

(* What a worker does to what is behind.                                     *)
LEMMA WorkerBehind ==
  ASSUME RuntimeInv, PastWorkers, NEW w \in Sessions, OfWorker(w), ~AdvanceGeneration(w)
  PROVE  generation' = generation /\ PastWorkers'
<1>0. generation \in Nat
  BY DEF RuntimeInv, RuntimeTypeOK, TypeOK
<1>1. generation' = generation
  <2>1. ~(worker[w].step # "idle" /\ worker[w].current = generation /\ ~Seeks(w))
    BY <1>0 DEF PastWorkers
  <2>2. QED BY <2>1, WorkerAges
<1>2. \A v \in Sessions \ {w} : worker'[v] = worker[v] /\ launcher'[v] = launcher[v]
  BY WorkerAges
<1>3. \A v \in Sessions \ {w} :
        worker'[v].step = "idle" \/ worker'[v].current < generation' \/ Seeks(v)'
  <2> TAKE v \in Sessions \ {w}
  <2>1. Seeks(v) => Seeks(v)'
    BY <1>2 DEF Seeks
  <2>2. QED BY <1>1, <1>2, <2>1 DEF PastWorkers
<1>4. worker'[w].step = "idle" \/ worker'[w].current < generation' \/ Seeks(w)'
  <2>1. CASE Seeks(w)
    BY <2>1, SeekingGoes
  <2>2. CASE ~Seeks(w)
    <3>1. worker'[w].step = "idle" \/ worker'[w] = worker[w]
            \/ (worker[w].step # "idle" /\ worker'[w].current = worker[w].current)
      BY <1>1, WorkerAges
    <3>2. QED BY <1>1, <2>2, <3>1 DEF PastWorkers
  <2>3. QED BY <2>1, <2>2
<1>5. QED BY <1>1, <1>3, <1>4 DEF PastWorkers

(* It says nothing of the session that the helper now has.                  *)
LEMMA WorkerWords ==
  ASSUME RuntimeInv, PastWorkers, PastWords, NEW w \in Sessions, OfWorker(w), ~AdvanceGeneration(w)
  PROVE  PastWords'
<1>0. TypeOK
  BY DEF RuntimeInv, RuntimeTypeOK
<1>1. generation' = generation
  BY WorkerBehind
<1>2. CASE sent' = sent
  BY <1>0, <1>1, <1>2, WordsStay
<1>3. CASE sent' # sent
  <2>1. PICK type \in EventTypes, g \in Nat :
           /\ Emit(Event(type, g))
           /\ \/ type \notin ConnectionWords
              \/ g = worker[w].current /\ worker[w].step # "idle" /\ ~Seeks(w)
    BY <1>3, WorkerSpeaks
  <2>2. type \in ConnectionWords => g < generation
    BY <2>1 DEF PastWorkers
  <2>3. QED BY <1>0, <1>1, <2>1, <2>2, WordsStay
<1>4. QED BY <1>2, <1>3

(* A worker that seeks no pairing puts no device back.                       *)
LEMMA WorkerForgets ==
  ASSUME RuntimeInv, QrOnly, ~Seeking, NEW w \in Sessions, OfWorker(w)
  PROVE  (trusted' => trusted) /\ (stored' => stored) /\ ~AdvanceGeneration(w)
<1>0. /\ Fits(w) /\ launcher[w] \in LauncherState /\ launcher[w].kind # "manual" /\ RuntimeTypeOK
  BY DEF RuntimeInv, LauncherInv, LauncherFits, RuntimeTypeOK, QrOnly
<1>1. launcher[w].step \notin {"save", "remember", "advance"}
  <2>1. ASSUME launcher[w].step \in {"save", "remember", "advance"} PROVE FALSE
    <3>1. launcher[w].kind # "none" /\ launcher[w].kind # "reconnect"
      BY <1>0, <2>1 DEF Fits, Carries
    <3>2. launcher[w].kind = "qr"
      BY <1>0, <3>1 DEF LauncherState, LauncherKinds
    <3>3. QED BY <2>1, <3>2 DEF Seeking, Seeks
  <2>2. QED BY <2>1
<1>2. trusted' => trusted
  BY <1>0, <1>1, WorkersTrust DEF RememberDevice, OfWorker
<1>3. stored' = stored \/ SaveDevice(w)
  BY DEF OfWorker, LauncherStep, PhoneStep, LifetimeExpires, EnterFlow, TellProgress, FlowCancelled,
         LosePairing, StartDisconnect, Disconnected, DropQr, SaveDevice, ClaimPairing,
         RememberDevice, AdvanceGeneration, ReportLinked, StartSession, ReportPairingOver,
         FailReconnect, TellFailure, DropReconnect, ReportProgress, FlowFails, FlowTimesOut,
         FlowLinks, LeaveFlow, SessionWorkerStep, SessionChildStep, pairingVars
<1>4. QED BY <1>1, <1>2, <1>3 DEF SaveDevice, AdvanceGeneration

(* A Start Over was completed.                                               *)
ForgotOnce == \E i \in DOMAIN sent : sent[i].type = "StartOverComplete"
Settings == cmd.op = "setPreferences" /\ cmd.todo # <<>> => ForgotOnce

(* Settings that restart after a Start Over restart a phone that was        *)
(* forgotten.                                                               *)
LEMMA RestartsLate == ForgotOnce /\ Restarts => RestartsForgotten
  BY DEF ForgotOnce, Restarts, RestartsForgotten

(* The same, of the next state.                                             *)
LEMMA RestartsLateNext == ForgotOnce' /\ Restarts' => RestartsForgotten'
  BY DEF ForgotOnce, Restarts, RestartsForgotten

(* Settings restart no session where none was forgotten, and nothing else    *)
(* that the main thread works on begins or ends one.                         *)
LEMMA MainStill ==
  ASSUME RuntimeInv, QrOnly, RestartOnly, Spare, Settings, MainStep,
         ~RestartsForgotten, ~RestartsForgotten', ForgotOnce => ForgotOnce'
  PROVE  /\ generation' = generation /\ cmd.todo # <<>>
         /\ (worker' = worker /\ launcher' = launcher)
              \/ \E w \in Sessions : Launch(w) /\ cmd.op = "startQrPairing"
<1>0. /\ cmd \in CommandState /\ TodoFits /\ generation \in Nat /\ cmd.op \in QrOps \cup {"none"}
      /\ Len(cmd.todo) \in Nat
  BY DEF RuntimeInv, RuntimeTypeOK, TypeOK, MainInv, QrOnly, CommandState
<1>1. cmd.op # "shutdown"
  BY <1>0 DEF QrOps
<1>2. /\ cmd.todo # <<>>
      /\ generation' = generation \/ MainInvalidate \/ (MainRestart /\ cmd.target # NoTarget)
      /\ \/ worker' = worker
         \/ \E w \in Sessions : Launch(w)
         \/ \E w \in Sessions : Restart(w) /\ launcher' = launcher /\ cmd' = cmd
  BY <1>1, MainMoves
<1>3. cmd.op \in {"startQrPairing", "setPreferences"} \/ (cmd.op = "reconnect" /\ Len(cmd.todo) = 6)
  BY <1>2 DEF Spare
<1>4. ~MainInvalidate
  <2>1. ASSUME MainInvalidate PROVE FALSE
    <3>1. At("invalidate")
      BY <2>1 DEF MainInvalidate
    <3>2. ~Failing
      BY <1>3 DEF Failing
    <3>3. Place(cmd.op, Len(cmd.todo), "invalidate")
      BY <1>0, <3>1, <3>2, TodoNow
    <3>4. QED BY <1>3, <3>3 DEF Place
  <2>2. QED BY <2>1
<1>5. ~(MainRestart /\ cmd.target # NoTarget)
  <2>1. ASSUME MainRestart, cmd.target # NoTarget PROVE FALSE
    <3>1. At("restart") /\ Proceeds
      BY <1>0, <2>1, ContinueProceeds DEF MainRestart
    <3>2. cmd.op \in {"setPreferences", "setScrcpyArgs"} /\ Len(cmd.todo) = 2
      BY <1>0, <3>1, TodoNow DEF Place
    <3>3. cmd.op = "setPreferences" /\ ForgotOnce
      BY <1>2, <1>3, <3>2 DEF Settings
    <3>4. cmd'.op = cmd.op /\ Len(cmd'.todo) = 1
      <4>1. Len(cmd'.todo) = Len(cmd.todo) - 1
        BY <1>0, <3>1, TodoGoesOn
      <4>2. QED BY <3>1, <3>2, <4>1 DEF Proceeds
    <3>5. cmd'.target = cmd.target
      BY <1>0, <2>1 DEF MainRestart, Continue, CommandState
    <3>6. Restarts'
      BY <2>1, <3>3, <3>4, <3>5 DEF Restarts
    <3>7. QED BY <3>3, <3>6, RestartsLateNext
  <2>2. QED BY <2>1
<1>6. ASSUME NEW w \in Sessions, Restart(w) PROVE FALSE
  <2>1. caller.step = "restart"
    BY <1>6 DEF Restart
  <2>2. Len(cmd.todo) = 1 /\ cmd.target # NoTarget
    BY <2>1 DEF RestartOnly
  <2>3. cmd.op = "setPreferences"
    BY <1>3, <2>1 DEF RestartOnly
  <2>4. QED BY <1>2, <2>2, <2>3, RestartsLate DEF Settings, Restarts
<1>7. ASSUME NEW w \in Sessions, Launch(w) PROVE cmd.op = "startQrPairing"
  <2>1. At("launch")
    BY <1>7 DEF Launch
  <2>2. cmd.op \in {"startQrPairing", "submitManualCode", "reconnect"} /\ Len(cmd.todo) = 1
    BY <1>0, <2>1, TodoNow DEF Place
  <2>3. QED BY <1>3, <2>2
<1>8. worker' = worker => launcher' = launcher
  <2>1. ASSUME worker' = worker, NEW w \in Sessions, Launch(w) PROVE FALSE
    <3>1. worker \in [Sessions -> WorkerState]
      BY DEF RuntimeInv, RuntimeTypeOK, TypeOK
    <3>2. worker[w].step = "idle" /\ worker'[w].step = "armed"
      BY <2>1, <3>1 DEF Launch, Capture, IdleWorker
    <3>3. QED BY <2>1, <3>2
  <2>2. QED BY <2>1, MainPairs
<1>9. QED BY <1>2, <1>4, <1>5, <1>6, <1>7, <1>8

(* What is behind stays so.                                                  *)
LEMMA MainPast ==
  ASSUME RuntimeInv, PastWorkers, MainStep, generation' = generation,
         (worker' = worker /\ launcher' = launcher)
           \/ \E w \in Sessions : Launch(w) /\ cmd.op = "startQrPairing"
  PROVE  PastWorkers'
<1>1. CASE worker' = worker /\ launcher' = launcher
  BY <1>1 DEF PastWorkers, Seeks
<1>2. ASSUME NEW w \in Sessions, Launch(w), cmd.op = "startQrPairing" PROVE PastWorkers'
  <2>0. launcher \in [Sessions -> LauncherState] /\ worker \in [Sessions -> WorkerState]
    BY DEF RuntimeInv, RuntimeTypeOK, TypeOK
  <2>1. \A v \in Sessions \ {w} : launcher'[v] = launcher[v] /\ worker'[v] = worker[v]
    BY <1>2, <2>0 DEF Launch, Capture
  <2>2. launcher'[w].kind = "qr" /\ launcher'[w].step = "flow"
    <3>1. PICK kind \in LauncherKinds :
            /\ kind = "qr"
            /\ launcher' = [launcher EXCEPT ![w] =
                 [IdleLauncher EXCEPT !.step = "flow", !.kind = kind, !.pairing = pairingToken]]
      BY <1>2 DEF Launch
    <3>2. launcher'[w] =
            [IdleLauncher EXCEPT !.step = "flow", !.kind = kind, !.pairing = pairingToken]
      BY <2>0, <3>1
    <3>3. QED BY <3>1, <3>2 DEF IdleLauncher
  <2>3. Seeks(w)'
    BY <2>2 DEF Seeks
  <2>4. ASSUME NEW v \in Sessions \ {w}
        PROVE  worker'[v].step = "idle" \/ worker'[v].current < generation' \/ Seeks(v)'
    <3>1. Seeks(v) => Seeks(v)'
      BY <2>1, <2>4 DEF Seeks
    <3>2. QED BY <2>1, <2>4, <3>1 DEF PastWorkers
  <2>5. QED BY <2>3, <2>4 DEF PastWorkers
<1>3. QED BY <1>1, <1>2

(* The main thread says nothing of a session either, but for a reconnect.   *)
LEMMA MainWords ==
  ASSUME RuntimeInv, PastWords, MainStep, generation' = generation, ~Rest({"reconnect"}, 2, 2)
  PROVE  PastWords'
<1>0. TypeOK
  BY DEF RuntimeInv, RuntimeTypeOK
<1>1. CASE sent' = sent
  BY <1>0, <1>1, WordsStay
<1>2. CASE sent' # sent
  <2>1. PICK type \in EventTypes, g \in Nat : Emit(Event(type, g)) /\ type \notin ConnectionWords
    BY <1>2, MainSays
  <2>2. QED BY <1>0, <2>1, WordsStay
<1>3. QED BY <1>1, <1>2

(* Of the commands that begin a session, only a reconnect that finds no      *)
(* device is worked on.                                                      *)
LEMMA MainSpares ==
  ASSUME RuntimeInv, Spare, MainStep, cmd.op # "shutdown",
         cmd.op = "reconnect" /\ cmd.todo # <<>> => ~trusted
  PROVE  Spare'
<1>0. /\ cmd \in CommandState /\ TodoFits /\ RuntimeTypeOK /\ Len(cmd.todo) \in Nat
  BY DEF RuntimeInv, RuntimeTypeOK, MainInv, CommandState
<1>1. CASE CommandKept
  BY <1>1 DEF CommandKept, Spare
<1>2. CASE cmd' = IdleCommand
  BY <1>2 DEF Spare, IdleCommand
<1>3. CASE ~CommandKept /\ cmd' # IdleCommand
  <2>1. cmd.todo # <<>>
    BY MainMoves
  <2>2. cmd.op \in {"startQrPairing", "setPreferences"} \/ (cmd.op = "reconnect" /\ Len(cmd.todo) = 6)
    BY <2>1 DEF Spare
  <2>3. PICK step : Follow(step)
    BY <1>0, <1>3, <2>2, MainFollows
  <2>4. At(step) /\ cmd'.op = cmd.op /\ (step = "needTrusted" => trusted)
    BY <2>3 DEF Follow, Proceeds
  <2>5. cmd.op # "reconnect"
    BY <1>0, <2>1, <2>2, <2>4, ReconnectLooks
  <2>6. QED BY <2>2, <2>4, <2>5 DEF Spare
<1>4. QED BY <1>1, <1>2, <1>3

Forgotten == ~trusted /\ ~stored

(* From the forgetting step of a Start Over on, the device stays forgotten.  *)
Forgetting == Rest({"startOver"}, 1, 5) => Forgotten

(* From its new generation on, nothing anywhere names that generation.       *)
Older ==
  /\ PastWorkers /\ PastPipe /\ view.generation < generation
  /\ \A i \in DOMAIN sent : sent[i].generation < generation
  /\ \A w \in Sessions : launcher[w].step = "tell" => launcher[w].told < generation
Moving == Rest({"startOver"}, 1, 4) => Older /\ (cmd.read => cmd.generation = generation)

(* The forgetting step forgets in memory and on disk, or the command ends.   *)
LEMMA ForgetsBoth ==
  ASSUME MainStep, At("forget"), ~CommandKept, cmd \in CommandState, cmd'.op # "none"
  PROVE  ~trusted' /\ ~stored'
<1>0. IdleCommand.op = "none"
  BY DEF IdleCommand
<1>1. ~ReadGeneration /\ cmd' # cmd
  BY ReadingKeeps DEF CommandKept
<1>2. Forget
  BY <1>1
     DEF MainStep, At, RefuseIfLive, NeedTrusted, ReadTarget, NeedTarget, MainStop, MainInvalidate,
         MainRestart, Acknowledge, CancelToken, Retire, Supersede, StartQr, CancelQr, CrossFlow,
         LockFlow, UnlockFlow, UseStore, RunInput, Reply, ReplyFailed, InSessionControl, Launch
<1>3. QED BY <1>0, <1>2 DEF Forget, Abandon

(* A Start Over that is worked on says nothing before its reply.             *)
LEMMA StartOverSilent ==
  ASSUME RuntimeInv, MainStep, cmd.op = "startOver", cmd'.op = "startOver", cmd'.todo # <<>>
  PROVE  sent' = sent
<1>0. cmd \in CommandState /\ TodoFits /\ IdleCommand.op = "none"
  BY DEF RuntimeInv, RuntimeTypeOK, MainInv, IdleCommand
<1>1. ASSUME Reply PROVE FALSE
  <2>1. At("reply") /\ Proceeds
    BY <1>0, <1>1, ContinueProceeds DEF Reply
  <2>2. Len(cmd.todo) = 1
    BY <1>0, <2>1, TodoNow DEF Place
  <2>3. QED BY <1>0, <2>1, <2>2, TodoGoesOn
<1>2. ASSUME ReplyFailed PROVE FALSE
  <2>1. At("replyFailed")
    BY <1>2 DEF ReplyFailed
  <2>2. Failing
    BY <1>0, <2>1, TodoNow DEF Place
  <2>3. QED BY <2>2 DEF Failing
<1>3. ~Abandon
  BY <1>0 DEF Abandon
<1>4. CASE RefuseIfLive \/ NeedTrusted \/ StartQr \/ Forget \/ UseStore
  BY <1>3, <1>4 DEF RefuseIfLive, NeedTrusted, StartQr, Forget, UseStore
<1>5. CASE ReadTarget \/ NeedTarget \/ MainStop \/ MainInvalidate \/ MainRestart \/ Acknowledge
  BY <1>5 DEF ReadTarget, NeedTarget, MainStop, MainInvalidate, MainRestart, Acknowledge, StopSession,
              Invalidate, AcknowledgePreview, vars
<1>6. CASE CancelToken \/ Retire \/ Supersede \/ CancelQr \/ CrossFlow \/ LockFlow \/ UnlockFlow
            \/ RunInput
  BY <1>6 DEF CancelToken, Retire, Supersede, CancelQr, CrossFlow, LockFlow, UnlockFlow, RunInput, vars
<1>7. CASE InSessionControl \/ ReadGeneration \/ \E w \in Sessions : Launch(w)
  BY <1>7 DEF InSessionControl, CallerStep, CrossBarrier, ResetTarget, RenewToken, Restart, Launch,
              ReadGeneration, Capture, vars
<1>8. QED BY <1>1, <1>2, <1>4, <1>5, <1>6, <1>7 DEF MainStep

(* A Start Over touches no worker, and moves the generation in one step.     *)
LEMMA StartOverStill ==
  ASSUME RuntimeInv, RestartOnly, MainStep, cmd.op = "startOver"
  PROVE  /\ worker' = worker /\ launcher' = launcher /\ cmd.todo # <<>>
         /\ generation' = generation \/ (MainInvalidate /\ Len(cmd.todo) = 5)
<1>0. cmd \in CommandState /\ TodoFits
  BY DEF RuntimeInv, RuntimeTypeOK, MainInv
<1>1. /\ cmd.todo # <<>>
      /\ generation' = generation \/ MainInvalidate \/ MainRestart
      /\ worker' = worker \/ (\E w \in Sessions : Launch(w)) \/ (\E w \in Sessions : Restart(w))
  BY MainMoves
<1>2. ASSUME NEW w \in Sessions, Launch(w) PROVE FALSE
  <2>1. At("launch")
    BY <1>2 DEF Launch
  <2>2. QED BY <1>0, <2>1, TodoNow DEF Place
<1>3. ASSUME NEW w \in Sessions, Restart(w) PROVE FALSE
  BY <1>3 DEF Restart, RestartOnly
<1>4. ~MainRestart
  <2>1. ASSUME MainRestart PROVE FALSE
    <3>1. At("restart")
      BY <2>1 DEF MainRestart
    <3>2. QED BY <1>0, <3>1, TodoNow DEF Place
  <2>2. QED BY <2>1
<1>5. MainInvalidate => Len(cmd.todo) = 5
  <2>1. ASSUME MainInvalidate PROVE Len(cmd.todo) = 5
    <3>1. At("invalidate") /\ ~Failing
      BY <2>1 DEF MainInvalidate, Failing
    <3>2. QED BY <1>0, <3>1, TodoNow DEF Place
  <2>2. QED BY <2>1
<1>6. QED BY <1>1, <1>2, <1>3, <1>4, <1>5, MainPairs

(* The main thread keeps the device forgotten ...                           *)
LEMMA MainForgetting ==
  ASSUME RuntimeInv, Forgetting, MainStep
  PROVE  Forgetting'
<1> SUFFICES ASSUME Rest({"startOver"}, 1, 5)' PROVE Forgotten'
  BY DEF Forgetting
<1>0. cmd \in CommandState /\ TodoFits /\ RuntimeTypeOK
  BY DEF RuntimeInv, RuntimeTypeOK, MainInv
<1>1. cmd'.op = "startOver"
  BY DEF Rest
<1>2. CASE CommandKept
  <2>1. Forgotten /\ cmd.op # "shutdown"
    BY <1>1, <1>2 DEF CommandKept, Forgetting, Rest
  <2>2. QED BY <2>1, MainMoves DEF Forgotten
<1>3. CASE ~CommandKept
  <2>1. cmd' # IdleCommand
    BY <1>1 DEF IdleCommand
  <2>2. ~(cmd.op \in {"input", "phoneTarget"} /\ cmd' = [cmd EXCEPT !.todo = FailedInput, !.read = FALSE])
    BY <1>0, <1>1 DEF CommandState
  <2>3. PICK step : Follow(step)
    BY <1>0, <1>3, <2>1, <2>2, MainFollows
  <2>4. At(step) /\ Proceeds /\ cmd'.op = cmd.op
    BY <2>3 DEF Follow, Proceeds
  <2>5. Rest({"startOver"}, 1 + 1, 5 + 1)
    BY <1>0, <2>4, RestBefore
  <2>6. cmd.op = "startOver" /\ Len(cmd.todo) \in 2..6
    BY <2>5 DEF Rest
  <2>7. CASE Len(cmd.todo) = 6
    <3>1. step = "forget"
      BY <1>0, <2>4, <2>6, <2>7, TodoNow DEF Place, Failing
    <3>2. cmd'.op # "none"
      BY <1>1
    <3>3. QED BY <1>0, <1>3, <2>4, <3>1, <3>2, ForgetsBoth DEF Forgotten
  <2>8. CASE Len(cmd.todo) # 6
    <3>1. Rest({"startOver"}, 1, 5)
      BY <2>6, <2>8 DEF Rest
    <3>2. Forgotten /\ cmd.op # "shutdown"
      BY <2>6, <3>1 DEF Forgetting
    <3>3. QED BY <3>2, MainMoves DEF Forgotten
  <2>9. QED BY <2>7, <2>8
<1>4. QED BY <1>2, <1>3

(* A generation that the panel was told is one that the helper reached.      *)
LEMMA ToldReached ==
  ASSUME TypeOK, LogReached, NEW g, Known(g)
  PROVE  g <= generation /\ g \in Nat
<1>1. generation \in Nat /\ \A i \in DOMAIN sent : sent[i].generation \in Nat
  BY EventsTyped DEF TypeOK
<1>2. QED BY <1>1 DEF Known, LogReached

(* A new generation is named by nothing yet.                                 *)
LEMMA InvalidateOlder ==
  ASSUME RuntimeInv, LogReached, NamesTold, MainInvalidate, UNCHANGED <<view, pipe>>,
         worker' = worker, launcher' = launcher
  PROVE  Older'
<1>0. /\ TypeOK /\ generation \in Nat /\ CurrentsKnown /\ worker \in [Sessions -> WorkerState]
      /\ launcher \in [Sessions -> LauncherState]
  BY DEF RuntimeInv, RuntimeTypeOK, TypeOK, LogInv, AnnounceInv
<1>1. generation' = generation + 1 /\ sent' = sent
  BY DEF MainInvalidate, Invalidate
<1>2. \A n \in Nat : n <= generation => n < generation'
  BY <1>0, <1>1
<1>3. PastWorkers'
  <2>1. \A w \in Sessions : worker[w].current \in Nat /\ worker[w].current <= generation
    BY <1>0 DEF CurrentsKnown, WorkerState
  <2>2. QED BY <1>2, <2>1 DEF PastWorkers
<1>4. PastPipe' /\ view'.generation < generation'
  <2>1. \A i \in DOMAIN pipe : pipe[i].generation <= generation /\ pipe[i].generation \in Nat
    BY <1>0, ToldReached DEF NamesTold
  <2>2. view.generation <= generation /\ view.generation \in Nat
    BY <1>0, ToldReached DEF NamesTold
  <2>3. QED BY <1>2, <2>1, <2>2 DEF PastPipe
<1>5. \A i \in DOMAIN sent' : sent'[i].generation < generation'
  BY <1>0, <1>1, <1>2, EventsTyped DEF LogReached
<1>6. \A w \in Sessions : launcher'[w].step = "tell" => launcher'[w].told < generation'
  BY <1>0, <1>2 DEF LogReached, LauncherState
<1>7. QED BY <1>3, <1>4, <1>5, <1>6 DEF Older

(* ... and the generation that it has ended over.                           *)
LEMMA MainMoving ==
  ASSUME RuntimeInv, LogReached, NamesTold, RestartOnly, Moving, MainStep, UNCHANGED <<view, pipe>>
  PROVE  Moving'
<1> SUFFICES ASSUME Rest({"startOver"}, 1, 4)'
             PROVE  Older' /\ (cmd'.read => cmd'.generation = generation')
  BY DEF Moving
<1>0. cmd \in CommandState /\ TodoFits /\ RuntimeTypeOK
  BY DEF RuntimeInv, RuntimeTypeOK, MainInv
<1>1. cmd'.op = "startOver" /\ cmd'.todo # <<>>
  BY DEF Rest
<1>2. cmd.op = "startOver" /\ (CommandKept \/ \E step : Follow(step))
  <2>1. cmd' # IdleCommand
    BY <1>1 DEF IdleCommand
  <2>2. ~(cmd.op \in {"input", "phoneTarget"} /\ cmd' = [cmd EXCEPT !.todo = FailedInput, !.read = FALSE])
    BY <1>0, <1>1 DEF CommandState
  <2>3. CommandKept \/ \E step : Follow(step)
    BY <1>0, <2>1, <2>2, MainFollows
  <2>4. QED BY <1>1, <2>3 DEF CommandKept, Follow, Proceeds
<1>3. /\ sent' = sent /\ worker' = worker /\ launcher' = launcher
      /\ generation' = generation \/ (MainInvalidate /\ Len(cmd.todo) = 5)
  BY <1>1, <1>2, StartOverSilent, StartOverStill
<1>4. CASE MainInvalidate
  <2>1. ~cmd'.read
    BY <1>0, <1>4 DEF MainInvalidate, Continue, CommandState
  <2>2. QED BY <1>3, <1>4, <2>1, InvalidateOlder
<1>5. CASE ~MainInvalidate
  <2>1. Rest({"startOver"}, 1, 4)
    <3>1. CASE CommandKept
      BY <3>1 DEF CommandKept, Rest
    <3>2. ASSUME NEW step, Follow(step) PROVE Rest({"startOver"}, 1, 4)
      <4>1. At(step) /\ Proceeds /\ step # "invalidate"
        BY <1>5, <3>2 DEF Follow
      <4>2. Rest({"startOver"}, 1 + 1, 4 + 1)
        BY <1>0, <4>1, RestBefore
      <4>3. cmd.op = "startOver" /\ Len(cmd.todo) \in 2..5
        BY <4>2 DEF Rest
      <4>4. Len(cmd.todo) # 5
        BY <1>0, <4>1, <4>3, TodoNow DEF Place, Failing
      <4>5. QED BY <4>3, <4>4 DEF Rest
    <3>3. QED BY <1>2, <3>1, <3>2
  <2>2. Older /\ (cmd.read => cmd.generation = generation)
    BY <2>1 DEF Moving
  <2>3. Older'
    BY <1>3, <1>5, <2>2 DEF Older, PastWorkers, PastPipe, Seeks
  <2>4. cmd'.read => cmd'.generation = generation'
    BY <1>2, <1>3, <1>5, <2>2 DEF CommandKept, Follow
  <2>5. QED BY <2>3, <2>4
<1>6. QED BY <1>4, <1>5

(* What the panel shows while a pairing is sought: no session and no device. *)
PanelCalm ==
  /\ ~view.started /\ ~view.management
  /\ view.ready => ~view.trusted /\ ~view.startOver /\ view.generation = generation

(* A reconnect that was asked for comes before the pairing.                  *)
Ordered ==
  /\ cmd.op = "reconnect" /\ cmd.todo # <<>> => Wanted
  /\ \A i \in DOMAIN pipe : pipe[i].op = "reconnect" => \E j : i < j /\ Wants(j)

(* Settings were changed before only if a device was forgotten since.        *)
Unsettled ==
  /\ Settings
  /\ \A i \in DOMAIN pipe : pipe[i].op = "setPreferences" => ForgotOnce

Calm == Behind /\ Spare /\ PanelCalm /\ Ordered /\ Unsettled
Calming == Hot => Calm

(* A Start Over that is complete and that the panel has not read of.         *)
Quiet == Behind /\ Spare /\ ~Hot /\ Forgotten /\ view.generation < generation
Completes(i) == i \in read + 1..Len(sent) /\ sent[i].type = "StartOverComplete"
Latest(i) ==
  /\ sent[i].generation = generation
  /\ \A j \in 1..i - 1 : sent[j].generation < generation
Completing == \A i : Completes(i) => Quiet /\ Latest(i)

(* An event that says so was said.                                          *)
LEMMA CompletesForgot ==
  ASSUME PanelTypeOK, NEW i, Completes(i)
  PROVE  ForgotOnce /\ i \in DOMAIN sent /\ i \in Nat /\ i >= 1 /\ i <= Len(sent)
<1>1. sent \in Seq(EventSet) /\ read \in 0..Len(sent) /\ Len(sent) \in Nat
      /\ DOMAIN sent = 1..Len(sent)
  BY DEF PanelTypeOK, RuntimeTypeOK, TypeOK
<1>2. QED BY <1>1 DEF Completes, ForgotOnce

(* A log that grows keeps what it had.                                       *)
LEMMA LogGrows ==
  ASSUME TypeOK, Driven
  PROVE  /\ Len(sent) \in Nat /\ DOMAIN sent = 1..Len(sent) /\ DOMAIN sent' = 1..Len(sent')
         /\ Len(sent') \in Nat /\ Len(sent) <= Len(sent')
         /\ \A i \in DOMAIN sent : i \in DOMAIN sent' /\ sent'[i] = sent[i]
         /\ ForgotOnce => ForgotOnce'
<1>1. sent \in Seq(EventSet)
  BY DEF TypeOK
<1>2. CASE sent' = sent
  BY <1>1, <1>2 DEF ForgotOnce
<1>3. ASSUME NEW e \in EventSet, sent' = Append(sent, e)
      PROVE  /\ Len(sent) \in Nat /\ DOMAIN sent = 1..Len(sent) /\ DOMAIN sent' = 1..Len(sent')
             /\ Len(sent') \in Nat /\ Len(sent) <= Len(sent')
             /\ \A i \in DOMAIN sent : i \in DOMAIN sent' /\ sent'[i] = sent[i]
             /\ ForgotOnce => ForgotOnce'
  <2>1. /\ sent' \in Seq(EventSet) /\ Len(sent') = Len(sent) + 1 /\ Len(sent) \in Nat
        /\ DOMAIN sent = 1..Len(sent) /\ DOMAIN sent' = 1..Len(sent) + 1
        /\ \A i \in 1..Len(sent) : sent'[i] = sent[i]
    BY <1>1, <1>3, Appended
  <2>2. \A i \in DOMAIN sent : i \in DOMAIN sent' /\ sent'[i] = sent[i]
    BY <2>1
  <2>3. ForgotOnce => ForgotOnce'
    BY <2>2 DEF ForgotOnce
  <2>4. QED BY <2>1, <2>2, <2>3
<1>4. QED BY <1>2, <1>3, DrivenGrows

(* The main thread keeps calm.                                               *)
LEMMA MainCalm ==
  ASSUME PanelInv, QrInv, RestartOnly, Sought, Calm, Hot, MainStep, Driven,
         ~RestartsForgotten, ~RestartsForgotten', UNCHANGED <<view, read, pipe>>
  PROVE  Calm'
<1>0. /\ RuntimeInv /\ TypeOK /\ QrOnly /\ Exclusive /\ PastWorkers /\ PastPipe /\ PastWords /\ Spare
      /\ Settings /\ cmd.op \in QrOps \cup {"none"} /\ PanelCalm /\ Ordered /\ Unsettled
  BY DEF PanelInv, RuntimeInv, RuntimeTypeOK, QrInv, QrCycle, QrOnly, Calm, Behind, Unsettled
<1>1. ForgotOnce => ForgotOnce'
  BY <1>0, LogGrows
<1>2. /\ generation' = generation /\ cmd.todo # <<>>
      /\ (worker' = worker /\ launcher' = launcher)
           \/ \E w \in Sessions : Launch(w) /\ cmd.op = "startQrPairing"
  BY <1>0, <1>1, MainStill
<1>3. cmd.op = "reconnect" /\ cmd.todo # <<>> => ~trusted
  <2>1. ASSUME cmd.op = "reconnect", cmd.todo # <<>> PROVE ~trusted
    <3>1. Wanted
      BY <1>0, <2>1 DEF Ordered
    <3>2. ~Advancing
      BY <1>0, <3>1, AdvanceSeeks DEF Exclusive
    <3>3. QED BY <3>2 DEF Sought
  <2>2. QED BY <2>1
<1>4. Spare'
  BY <1>0, <1>3, MainSpares DEF QrOps
<1>5. PastWorkers'
  BY <1>0, <1>2, MainPast
<1>6. PastPipe'
  BY <1>0, <1>2 DEF PastPipe
<1>7. PastWords'
  <2>1. cmd.op = "reconnect" => Len(cmd.todo) = 6
    BY <1>0, <1>2 DEF Spare
  <2>2. 6 \notin 2..2
    OBVIOUS
  <2>3. ~Rest({"reconnect"}, 2, 2)
    BY <2>1, <2>2 DEF Rest
  <2>4. QED BY <1>0, <1>2, <2>3, MainWords
<1>8. PanelCalm'
  BY <1>0, <1>2 DEF PanelCalm
<1>9. cmd'.op \in {cmd.op, "none"}
  BY <1>0, MainSeeks
<1>10. Ordered' /\ Unsettled'
  BY <1>0, <1>1, <1>2, <1>9 DEF Ordered, Unsettled, Settings, Wanted, Wants
<1>11. QED BY <1>4, <1>5, <1>6, <1>7, <1>8, <1>10 DEF Calm, Behind

(* ... and leaves a Start Over that is complete alone.                       *)
LEMMA MainQuiet ==
  ASSUME PanelInv, QrInv, RestartOnly, Quiet, ForgotOnce, MainStep, Driven,
         ~RestartsForgotten, ~RestartsForgotten', UNCHANGED <<view, read, pipe>>
  PROVE  Quiet' /\ generation' = generation
<1>0. /\ RuntimeInv /\ TypeOK /\ QrOnly /\ PastWorkers /\ PastPipe /\ PastWords /\ Spare /\ Settings
      /\ cmd.op \in QrOps \cup {"none"} /\ ~Hot /\ Forgotten
  BY DEF PanelInv, RuntimeInv, RuntimeTypeOK, QrInv, QrOnly, Quiet, Behind, Settings
<1>1. ForgotOnce => ForgotOnce'
  BY <1>0, LogGrows
<1>2. /\ generation' = generation /\ cmd.todo # <<>>
      /\ (worker' = worker /\ launcher' = launcher)
           \/ \E w \in Sessions : Launch(w) /\ cmd.op = "startQrPairing"
  BY <1>0, <1>1, MainStill
<1>3. Spare'
  BY <1>0, MainSpares DEF QrOps, Forgotten
<1>4. PastWorkers'
  BY <1>0, <1>2, MainPast
<1>5. PastPipe'
  BY <1>0, <1>2 DEF PastPipe
<1>6. PastWords'
  <2>1. cmd.op = "reconnect" => Len(cmd.todo) = 6
    BY <1>0, <1>2 DEF Spare
  <2>2. 6 \notin 2..2
    OBVIOUS
  <2>3. ~Rest({"reconnect"}, 2, 2)
    BY <2>1, <2>2 DEF Rest
  <2>4. QED BY <1>0, <1>2, <2>3, MainWords
<1>7. Forgotten'
  <2>1. cmd.op # "shutdown"
    BY <1>0 DEF QrOps
  <2>2. (trusted' => trusted) /\ (stored' => stored)
    BY <1>0, <2>1, MainMoves
  <2>3. QED BY <1>0, <2>2 DEF Forgotten
<1>8. ~Hot'
  <2>1. ~Hot
    BY <1>0
  <2>2. QED BY <2>1, MainQr
<1>9. view'.generation < generation'
  BY <1>2 DEF Quiet
<1>10. QED BY <1>2, <1>3, <1>4, <1>5, <1>6, <1>7, <1>8, <1>9 DEF Quiet, Behind

(* The reply of a Start Over finds all of it behind.                         *)
LEMMA ReplyCompletes ==
  ASSUME PanelInv, QrInv, RestartOnly, Calming, Forgetting, Moving, MainStep, Driven,
         Rest({"startOver"}, 1, 1), generation' = generation, cmd'.todo = <<>>,
         Emit(Event("StartOverComplete", generation)), UNCHANGED <<view, read, pipe>>,
         NEW n, n = Len(sent) + 1
  PROVE  Quiet' /\ Latest(n)'
<1>0. /\ RuntimeInv /\ TypeOK /\ cmd.op = "startOver" /\ cmd.todo # <<>> /\ generation \in Nat
  <2>1. cmd.op = "startOver" /\ Len(cmd.todo) = 1
    BY DEF Rest
  <2>2. cmd.todo # <<>>
    BY <2>1
  <2>3. QED BY <2>1, <2>2 DEF PanelInv, RuntimeInv, RuntimeTypeOK, TypeOK
<1>1. Forgotten /\ Older
  BY DEF Rest, Forgetting, Moving
<1>2. worker' = worker /\ launcher' = launcher
  BY <1>0, StartOverStill
<1>3. "StartOverComplete" \in EventTypes
  BY KnownTypes DEF EventTypes
<1>4. /\ Len(sent) \in Nat /\ DOMAIN sent = 1..Len(sent) /\ DOMAIN sent' = 1..Len(sent) + 1
      /\ \A i \in DOMAIN sent : sent'[i] = sent[i]
      /\ sent'[Len(sent) + 1].type = "StartOverComplete"
      /\ sent'[Len(sent) + 1].generation = generation
  BY <1>0, <1>3, Spoken
<1>5. PastWorkers' /\ PastPipe' /\ view'.generation < generation'
  BY <1>1, <1>2 DEF Older, PastWorkers, PastPipe, Seeks
<1>6. PastWords'
  <2>1. \A i \in DOMAIN sent' : i \in DOMAIN sent \/ i = Len(sent) + 1
    BY <1>4
  <2>2. "StartOverComplete" \notin ConnectionWords
    BY DEF ConnectionWords
  <2>3. QED BY <1>1, <1>4, <2>1, <2>2 DEF PastWords, Older
<1>7. Spare'
  BY DEF Spare
<1>8. ~Hot'
  <2>1. ~Hot
    BY <1>0 DEF Calming, Calm, Spare
  <2>2. QED BY <2>1, MainQr
<1>9. Forgotten'
  <2>1. (trusted' => trusted) /\ (stored' => stored)
    BY <1>0, MainMoves
  <2>2. QED BY <1>1, <2>1 DEF Forgotten
<1>10. Latest(n)'
  <2>1. sent'[n].generation = generation'
    BY <1>4
  <2>2. \A j \in 1..n - 1 : j \in DOMAIN sent
    BY <1>4
  <2>3. \A j \in 1..n - 1 : sent'[j].generation < generation'
    BY <1>1, <1>4, <2>2 DEF Older
  <2>4. QED BY <2>1, <2>3 DEF Latest
<1>11. QED BY <1>5, <1>6, <1>7, <1>8, <1>9, <1>10 DEF Quiet, Behind

(* A Start Over whose completion was told stays complete until it is read.   *)
LEMMA MainCompleting ==
  ASSUME PanelInv, QrInv, RestartOnly, Calming, Completing, Forgetting, Moving, MainStep, Driven,
         ~RestartsForgotten, ~RestartsForgotten', UNCHANGED <<view, read, pipe>>
  PROVE  Completing'
<1> SUFFICES ASSUME NEW n, Completes(n)' PROVE Quiet' /\ Latest(n)'
  <2>1. Completing' <=> \A i : Completes(i)' => Quiet' /\ Latest(i)'
    BY DEF Completing
  <2>2. QED BY <2>1
<1>0. /\ PanelTypeOK /\ RuntimeInv /\ TypeOK /\ read \in Nat
  BY DEF PanelInv, PanelTypeOK, RuntimeTypeOK, TypeOK
<1>1. /\ Len(sent) \in Nat /\ DOMAIN sent = 1..Len(sent) /\ DOMAIN sent' = 1..Len(sent')
      /\ Len(sent') \in Nat /\ Len(sent) <= Len(sent')
      /\ \A i \in DOMAIN sent : i \in DOMAIN sent' /\ sent'[i] = sent[i]
  BY <1>0, LogGrows
<1>2. n \in read + 1..Len(sent') /\ sent'[n].type = "StartOverComplete"
  BY DEF Completes
<1>3. CASE n <= Len(sent)
  <2>1. n \in DOMAIN sent /\ Completes(n)
    BY <1>0, <1>1, <1>2, <1>3 DEF Completes
  <2>2. Quiet /\ Latest(n) /\ ForgotOnce
    BY <1>0, <2>1, CompletesForgot DEF Completing
  <2>3. Quiet' /\ generation' = generation
    BY <2>2, MainQuiet
  <2>4. \A j \in 1..n - 1 : j \in DOMAIN sent /\ sent'[j] = sent[j]
    BY <1>1, <2>1
  <2>5. Latest(n)'
    BY <1>1, <2>1, <2>2, <2>3, <2>4 DEF Latest
  <2>6. QED BY <2>3, <2>5
<1>4. CASE ~(n <= Len(sent))
  <2>1. sent' # sent
    BY <1>0, <1>1, <1>2, <1>4
  <2>2. PICK type \in EventTypes, g \in Nat :
          /\ Emit(Event(type, g)) /\ generation' = generation
          /\ type = "StartOverComplete" =>
               Rest({"startOver"}, 1, 1) /\ g = cmd.generation /\ cmd.read /\ cmd'.todo = <<>>
    BY <1>0, <2>1, MainSays
  <2>3. Len(sent') = Len(sent) + 1 /\ sent'[Len(sent) + 1].type = type
    BY <1>0, <2>2, Spoken
  <2>4. n = Len(sent) + 1
    BY <1>0, <1>1, <1>2, <1>4, <2>3
  <2>5. type = "StartOverComplete"
    BY <1>2, <2>3, <2>4
  <2>6. /\ Emit(Event("StartOverComplete", generation)) /\ generation' = generation
        /\ Rest({"startOver"}, 1, 1) /\ cmd'.todo = <<>>
    <3>1. Rest({"startOver"}, 1, 4)
      BY <2>2, <2>5 DEF Rest
    <3>2. QED BY <2>2, <2>5, <3>1 DEF Moving
  <2>7. QED BY <2>4, <2>6, ReplyCompletes
<1>5. QED BY <1>3, <1>4

(* The workers keep calm.                                                    *)
LEMMA WorkerCalm ==
  ASSUME PanelInv, QrInv, Calm, NEW w \in Sessions, OfWorker(w), Hot', Driven,
         UNCHANGED <<view, read, pipe>>
  PROVE  Calm'
<1>0. /\ RuntimeInv /\ TypeOK /\ PastWorkers /\ PastPipe /\ PastWords /\ Spare /\ PanelCalm
      /\ Ordered /\ Unsettled
  BY DEF PanelInv, RuntimeInv, RuntimeTypeOK, Calm, Behind
<1>1. ~AdvanceGeneration(w)
  BY AdvanceCools
<1>2. generation' = generation /\ PastWorkers' /\ PastWords'
  BY <1>0, <1>1, WorkerBehind, WorkerWords
<1>3. cmd' = cmd
  BY CommandStays DEF OfWorker
<1>4. ForgotOnce => ForgotOnce'
  BY <1>0, LogGrows
<1>5. PastPipe' /\ Spare' /\ PanelCalm'
  BY <1>0, <1>2, <1>3 DEF PastPipe, Spare, PanelCalm
<1>6. Ordered' /\ Unsettled'
  BY <1>0, <1>3, <1>4 DEF Ordered, Unsettled, Settings, Wanted, Wants
<1>7. QED BY <1>2, <1>5, <1>6 DEF Calm, Behind

(* No worker brings back a device that was forgotten ...                    *)
LEMMA WorkerQuiets ==
  ASSUME PanelInv, QrInv, Quiet, NEW w \in Sessions, OfWorker(w), UNCHANGED <<view, read, pipe>>
  PROVE  Quiet' /\ generation' = generation
<1>0. /\ RuntimeInv /\ PastWorkers /\ PastPipe /\ PastWords /\ Spare /\ QrOnly /\ ~Hot /\ ~Seeking
      /\ Forgotten /\ view.generation < generation
  BY DEF PanelInv, Quiet, Behind, QrInv, Hot
<1>1. (trusted' => trusted) /\ (stored' => stored) /\ ~AdvanceGeneration(w)
  BY <1>0, WorkerForgets
<1>2. generation' = generation /\ PastWorkers' /\ PastWords'
  BY <1>0, <1>1, WorkerBehind, WorkerWords
<1>3. cmd' = cmd
  BY CommandStays DEF OfWorker
<1>4. PastPipe' /\ Spare' /\ Forgotten' /\ view'.generation < generation'
  BY <1>0, <1>1, <1>2, <1>3 DEF PastPipe, Spare, Forgotten
<1>5. ~Hot'
  <2>1. ~Hot
    BY <1>0
  <2>2. QED BY <2>1, WorkerQr DEF OfWorker
<1>6. QED BY <1>2, <1>4, <1>5 DEF Quiet, Behind

(* ... before the panel reads that it was.                                  *)
LEMMA WorkerCompleting ==
  ASSUME PanelInv, QrInv, Completing, NEW w \in Sessions, OfWorker(w), Driven,
         UNCHANGED <<view, read, pipe>>
  PROVE  Completing'
<1> SUFFICES ASSUME NEW n, Completes(n)' PROVE Quiet' /\ Latest(n)'
  <2>1. Completing' <=> \A i : Completes(i)' => Quiet' /\ Latest(i)'
    BY DEF Completing
  <2>2. QED BY <2>1
<1>0. /\ PanelTypeOK /\ RuntimeInv /\ TypeOK /\ read \in Nat
  BY DEF PanelInv, PanelTypeOK, RuntimeTypeOK, TypeOK
<1>1. /\ Len(sent) \in Nat /\ DOMAIN sent = 1..Len(sent) /\ DOMAIN sent' = 1..Len(sent')
      /\ Len(sent') \in Nat /\ Len(sent) <= Len(sent')
      /\ \A i \in DOMAIN sent : i \in DOMAIN sent' /\ sent'[i] = sent[i]
  BY <1>0, LogGrows
<1>2. n \in read + 1..Len(sent') /\ sent'[n].type = "StartOverComplete"
  BY DEF Completes
<1>3. n <= Len(sent)
  <2>1. ASSUME ~(n <= Len(sent)) PROVE FALSE
    <3>1. sent' # sent
      BY <1>0, <1>1, <1>2, <2>1
    <3>2. PICK type \in EventTypes, g \in Nat : Emit(Event(type, g)) /\ type # "StartOverComplete"
      BY <1>0, <3>1, WorkerSpeaks
    <3>3. Len(sent') = Len(sent) + 1 /\ sent'[Len(sent) + 1].type = type
      BY <1>0, <3>2, Spoken
    <3>4. n = Len(sent) + 1
      BY <1>0, <1>1, <1>2, <2>1, <3>3
    <3>5. QED BY <1>2, <3>2, <3>3, <3>4
  <2>2. QED BY <2>1
<1>4. n \in DOMAIN sent /\ Completes(n)
  BY <1>0, <1>1, <1>2, <1>3 DEF Completes
<1>5. Quiet /\ Latest(n)
  BY <1>4 DEF Completing
<1>6. Quiet' /\ generation' = generation
  BY <1>5, WorkerQuiets
<1>7. \A j \in 1..n - 1 : j \in DOMAIN sent /\ sent'[j] = sent[j]
  BY <1>1, <1>4
<1>8. Latest(n)'
  BY <1>1, <1>4, <1>5, <1>6, <1>7 DEF Latest
<1>9. QED BY <1>6, <1>8

(* Neither does a worker undo what a Start Over under way has done.          *)
LEMMA WorkerForgetting ==
  ASSUME PanelInv, QrInv, Calming, Forgetting, Moving, LogReached, NEW w \in Sessions, OfWorker(w),
         UNCHANGED <<view, read, pipe>>
  PROVE  Forgetting' /\ Moving'
<1>0. RuntimeInv /\ QrOnly /\ TypeOK /\ generation \in Nat /\ view.generation \in Nat
  BY Fields DEF PanelInv, PanelTypeOK, RuntimeInv, RuntimeTypeOK, TypeOK, QrInv
<1>1. cmd' = cmd
  BY CommandStays DEF OfWorker
<1>2. CASE ~Rest({"startOver"}, 1, 5)
  <2>1. ~Rest({"startOver"}, 1, 5)' /\ ~Rest({"startOver"}, 1, 4)'
    BY <1>1, <1>2 DEF Rest
  <2>2. QED BY <2>1 DEF Forgetting, Moving
<1>3. CASE Rest({"startOver"}, 1, 5)
  <2>1. ~Hot /\ ~Seeking
    BY <1>3 DEF Calming, Calm, Spare, Rest, Hot
  <2>2. (trusted' => trusted) /\ (stored' => stored) /\ ~AdvanceGeneration(w)
    BY <1>0, <2>1, WorkerForgets
  <2>3. Forgetting'
    BY <1>3, <2>2 DEF Forgetting, Forgotten
  <2>4. Moving'
    <3> SUFFICES ASSUME Rest({"startOver"}, 1, 4)'
                 PROVE  Older' /\ (cmd'.read => cmd'.generation = generation')
      BY DEF Moving
    <3>1. Older /\ (cmd.read => cmd.generation = generation)
      BY <1>1 DEF Rest, Moving
    <3>2. PastWorkers
      BY <3>1 DEF Older
    <3>3. generation' = generation /\ PastWorkers'
      BY <1>0, <2>2, <3>2, WorkerBehind
    <3>4. PastPipe' /\ view'.generation < generation'
      BY <3>1, <3>3 DEF Older, PastPipe
    <3>5. \A v \in Sessions : launcher'[v].step = "tell" => launcher'[v].told < generation'
      <4>1. \A v \in Sessions \ {w} : launcher'[v] = launcher[v]
        BY <2>2, <1>0, WorkerAges
      <4>2. launcher'[w].step = "tell" => launcher[w].step = "tell" /\ launcher'[w].told = launcher[w].told
        BY <1>0, <3>3, WorkerTells
      <4>3. QED BY <3>1, <3>3, <4>1, <4>2 DEF Older
    <3>6. \A i \in DOMAIN sent' : sent'[i].generation < generation'
      <4>1. CASE sent' = sent
        BY <3>1, <3>3, <4>1 DEF Older
      <4>2. CASE sent' # sent
        <5>1. PICK type \in EventTypes, g \in Nat :
                /\ Emit(Event(type, g))
                /\ \/ g = 0
                   \/ g = worker[w].current /\ worker[w].step # "idle" /\ ~Seeks(w)
                   \/ g = launcher[w].told /\ launcher[w].step = "tell"
          BY <1>0, <4>2, WorkerSpeaks
        <5>2. g < generation
          BY <1>0, <3>1, <5>1 DEF Older, PastWorkers
        <5>3. /\ DOMAIN sent = 1..Len(sent) /\ DOMAIN sent' = 1..Len(sent) + 1 /\ Len(sent) \in Nat
              /\ \A i \in DOMAIN sent : sent'[i] = sent[i]
              /\ sent'[Len(sent) + 1].generation = g
          BY <1>0, <5>1, Spoken
        <5>4. \A i \in DOMAIN sent' : i \in DOMAIN sent \/ i = Len(sent) + 1
          BY <5>3
        <5>5. QED BY <3>1, <3>3, <5>2, <5>3, <5>4 DEF Older
      <4>3. QED BY <4>1, <4>2
    <3>7. QED BY <1>1, <3>1, <3>3, <3>4, <3>5, <3>6 DEF Older
  <2>5. QED BY <2>3, <2>4
<1>4. QED BY <1>2, <1>3

(* A command is taken when the main thread is free, and nothing else moves.  *)
LEMMA Taken ==
  ASSUME PanelInv, TakeCommand
  PROVE  /\ cmd.todo = <<>> /\ caller.step = "idle"
         /\ UNCHANGED <<view, read, generation, worker, launcher, caller, trusted, stored, cancelled>>
         /\ pipe # <<>> /\ pipe' = Tail(pipe) /\ Head(pipe).op \in Ops
         /\ \/ /\ cmd' = IdleCommand
               /\ \E type \in {"ScrcpyArgsStale", "StaleSession"} : Emit(Event(type, generation))
            \/ /\ sent' = sent
               /\ cmd'.op = Head(pipe).op /\ cmd'.todo = Program[Head(pipe).op]
               /\ Head(pipe).op \in SessionBound => Head(pipe).generation = generation
<1>0. pipe \in Seq([op: Ops, generation: Nat]) /\ pipe # <<>>
  BY DEF PanelInv, PanelTypeOK, TakeCommand
<1>1. Head(pipe).op \in Ops
  <2>1. Head(pipe) \in [op: Ops, generation: Nat]
    BY <1>0, QueueShrinks
  <2>2. QED BY <2>1
<1>2. Reading
  BY DEF TakeCommand, Accept, AnswerStale
<1>3. cmd.todo = <<>> /\ caller.step = "idle"
  BY <1>2 DEF Reading, PanelInv, RuntimeInv, MainInv, Returned
<1>4. CASE AnswerStale(Head(pipe).op)
  BY <1>0, <1>1, <1>3, <1>4 DEF TakeCommand, AnswerStale, quiet, cells, pairingVars
<1>5. CASE Accept(Head(pipe).op) /\ (Head(pipe).op \in SessionBound => Head(pipe).generation = generation)
  BY <1>0, <1>1, <1>3, <1>5 DEF TakeCommand, Accept, vars, cells, pairingVars, IdleCommand
<1>6. QED BY <1>4, <1>5 DEF TakeCommand

(* What is behind stays so, and a command of a session that is behind is     *)
(* answered as stale.                                                        *)
LEMMA TakenBehind ==
  ASSUME PanelInv, QrOnly, Behind, TakeCommand
  PROVE  Behind' /\ Spare'
<1>0. /\ PastWorkers /\ PastPipe /\ PastWords /\ TypeOK /\ pipe \in Seq([op: Ops, generation: Nat])
      /\ generation \in Nat
  BY DEF Behind, PanelInv, PanelTypeOK, RuntimeTypeOK, TypeOK
<1>1. /\ UNCHANGED <<view, read, generation, worker, launcher>>
      /\ pipe # <<>> /\ pipe' = Tail(pipe) /\ Head(pipe).op \in Ops
      /\ \/ /\ cmd' = IdleCommand
            /\ \E type \in {"ScrcpyArgsStale", "StaleSession"} : Emit(Event(type, generation))
         \/ /\ sent' = sent
            /\ cmd'.op = Head(pipe).op /\ cmd'.todo = Program[Head(pipe).op]
            /\ Head(pipe).op \in SessionBound => Head(pipe).generation = generation
  BY Taken
<1>2. /\ 1 \in DOMAIN pipe /\ Head(pipe) = pipe[1]
      /\ \A i \in DOMAIN Tail(pipe) : i + 1 \in DOMAIN pipe /\ Tail(pipe)[i] = pipe[i + 1]
  BY <1>0, <1>1, QueueShrinks
<1>3. PastWorkers'
  BY <1>0, <1>1 DEF PastWorkers, Seeks
<1>4. PastPipe'
  BY <1>0, <1>1, <1>2 DEF PastPipe
<1>5. PastWords'
  <2>1. {"ScrcpyArgsStale", "StaleSession"} \subseteq EventTypes \ ConnectionWords
    BY DEF EventTypes, ConnectionWords
  <2>2. \/ sent' = sent
        \/ \E type \in EventTypes, g \in Nat :
             Emit(Event(type, g)) /\ (type \in ConnectionWords => g < generation)
    BY <1>0, <1>1, <2>1
  <2>3. QED BY <1>0, <1>1, <2>2, WordsStay
<1>6. Spare'
  <2>1. CASE cmd' = IdleCommand
    BY <2>1 DEF IdleCommand, Spare
  <2>2. CASE /\ cmd'.op = Head(pipe).op /\ cmd'.todo = Program[Head(pipe).op]
             /\ Head(pipe).op \in SessionBound => Head(pipe).generation = generation
    <3>1. Head(pipe).op \notin SessionBound
      BY <1>0, <1>2, <2>2 DEF PastPipe
    <3>2. Head(pipe).op \in QrOps
      BY <1>2 DEF QrOnly
    <3>3. Head(pipe).op \in {"startQrPairing", "reconnect", "setPreferences"}
      BY <3>1, <3>2 DEF QrOps, SessionBound
    <3>4. QED BY <2>2, <3>3, Lengths DEF Spare
  <2>3. QED BY <1>1, <2>1, <2>2
<1>7. QED BY <1>3, <1>4, <1>5, <1>6 DEF Behind

(* A command that is read leaves the others in their order.                 *)
LEMMA TakenOrders ==
  ASSUME PanelInv, Ordered, Unsettled, TakeCommand, ForgotOnce => ForgotOnce'
  PROVE  Ordered' /\ Unsettled'
<1>0. pipe \in Seq([op: Ops, generation: Nat]) /\ Len(pipe) \in Nat /\ DOMAIN pipe = 1..Len(pipe)
  BY DEF PanelInv, PanelTypeOK
<1>1. /\ pipe # <<>> /\ pipe' = Tail(pipe)
      /\ \/ cmd' = IdleCommand
         \/ cmd'.op = Head(pipe).op
  BY Taken
<1>2. /\ 1 \in DOMAIN pipe /\ Head(pipe) = pipe[1]
      /\ \A i \in DOMAIN Tail(pipe) : i + 1 \in DOMAIN pipe /\ Tail(pipe)[i] = pipe[i + 1]
  BY <1>0, <1>1, QueueShrinks
<1>3. DOMAIN Tail(pipe) = 1..Len(pipe) - 1
  BY <1>0, <1>1
<1>4. ASSUME NEW i \in Nat, i >= 1, NEW j, i < j, Wants(j)
      PROVE  j - 1 \in DOMAIN Tail(pipe) /\ Wants(j - 1)'
  <2>1. j \in 1..Len(pipe) /\ pipe[j].op = "startQrPairing"
    BY <1>0, <1>4 DEF Wants
  <2>2. j - 1 \in DOMAIN Tail(pipe) /\ (j - 1) + 1 = j
    BY <1>0, <1>3, <1>4, <2>1
  <2>3. Tail(pipe)[j - 1] = pipe[j]
    BY <1>2, <2>2
  <2>4. QED BY <1>1, <2>1, <2>2, <2>3 DEF Wants
<1>5. cmd'.op = "reconnect" /\ cmd'.todo # <<>> => Wanted'
  <2>1. CASE cmd' = IdleCommand
    BY <2>1 DEF IdleCommand
  <2>2. CASE cmd'.op = Head(pipe).op
    <3> SUFFICES ASSUME Head(pipe).op = "reconnect" PROVE Wanted'
      BY <2>2
    <3>1. PICK j : 1 < j /\ Wants(j)
      BY <1>2 DEF Ordered
    <3>2. Wants(j - 1)'
      BY <3>1, <1>4
    <3>3. PICK k : k = j - 1
      OBVIOUS
    <3>4. Wants(k)'
      BY <3>2, <3>3 DEF Wants
    <3>5. QED BY <3>4 DEF Wanted
  <2>3. QED BY <1>1, <2>1, <2>2
<1>6. ASSUME NEW i \in DOMAIN pipe', pipe'[i].op = "reconnect"
      PROVE  \E j : i < j /\ Wants(j)'
  <2>1. i \in Nat /\ i >= 1 /\ i + 1 \in DOMAIN pipe /\ pipe[i + 1].op = "reconnect"
    BY <1>0, <1>1, <1>2, <1>3, <1>6
  <2>2. PICK j : i + 1 < j /\ Wants(j)
    BY <2>1 DEF Ordered
  <2>3. j \in Nat
    BY <1>0, <2>2 DEF Wants
  <2>4. i < j /\ i < j - 1
    BY <2>1, <2>2, <2>3
  <2>5. PICK k : k = j - 1
    OBVIOUS
  <2>6. Wants(k)'
    BY <1>4, <2>1, <2>2, <2>4, <2>5 DEF Wants
  <2>7. QED BY <2>4, <2>5, <2>6
<1>7. Unsettled'
  <2>1. \A i \in DOMAIN pipe : pipe[i].op = "setPreferences" => ForgotOnce'
    BY DEF Unsettled
  <2>2. cmd'.op = "setPreferences" => ForgotOnce'
    BY <1>1, <1>2, <2>1 DEF IdleCommand
  <2>3. \A i \in DOMAIN pipe' : pipe'[i].op = "setPreferences" => ForgotOnce'
    BY <1>1, <1>2, <2>1
  <2>4. QED BY <2>2, <2>3 DEF Unsettled, Settings
<1>8. QED BY <1>5, <1>6, <1>7 DEF Ordered

(* A command that is read brings back no device that was forgotten.         *)
LEMMA TakenCompleting ==
  ASSUME PanelInv, QrInv, Completing, TakeCommand, Driven
  PROVE  Completing'
<1> SUFFICES ASSUME NEW n, Completes(n)' PROVE Quiet' /\ Latest(n)'
  <2>1. Completing' <=> \A i : Completes(i)' => Quiet' /\ Latest(i)'
    BY DEF Completing
  <2>2. QED BY <2>1
<1>0. /\ PanelTypeOK /\ TypeOK /\ read \in Nat /\ QrOnly /\ generation \in Nat
  BY DEF PanelInv, PanelTypeOK, RuntimeTypeOK, TypeOK, QrInv
<1>1. /\ Len(sent) \in Nat /\ DOMAIN sent = 1..Len(sent) /\ DOMAIN sent' = 1..Len(sent')
      /\ Len(sent') \in Nat /\ Len(sent) <= Len(sent')
      /\ \A i \in DOMAIN sent : i \in DOMAIN sent' /\ sent'[i] = sent[i]
  BY <1>0, LogGrows
<1>2. /\ UNCHANGED <<view, read, generation, trusted, stored>>
      /\ \/ sent' = sent
         \/ \E type \in {"ScrcpyArgsStale", "StaleSession"} : Emit(Event(type, generation))
  BY Taken
<1>3. n \in read + 1..Len(sent') /\ sent'[n].type = "StartOverComplete"
  BY <1>2 DEF Completes
<1>4. n <= Len(sent)
  <2>1. ASSUME ~(n <= Len(sent)) PROVE FALSE
    <3>1. sent' # sent
      BY <1>0, <1>1, <1>3, <2>1
    <3>2. PICK type \in {"ScrcpyArgsStale", "StaleSession"} : Emit(Event(type, generation))
      BY <1>2, <3>1
    <3>3. type \in EventTypes /\ type # "StartOverComplete"
      BY DEF EventTypes
    <3>4. Len(sent') = Len(sent) + 1 /\ sent'[Len(sent) + 1].type = type
      BY <1>0, <3>2, <3>3, Spoken
    <3>5. n = Len(sent) + 1
      BY <1>0, <1>1, <1>3, <2>1, <3>4
    <3>6. QED BY <1>3, <3>3, <3>4, <3>5
  <2>2. QED BY <2>1
<1>5. n \in DOMAIN sent /\ Completes(n)
  BY <1>0, <1>1, <1>3, <1>4 DEF Completes
<1>6. Quiet /\ Latest(n)
  BY <1>5 DEF Completing
<1>7. Behind' /\ Spare'
  BY <1>0, <1>6, TakenBehind DEF Quiet
<1>8. ~Hot'
  <2>1. ~Hot
    BY <1>6 DEF Quiet
  <2>2. QED BY <2>1, TakenQr
<1>9. Quiet'
  BY <1>2, <1>6, <1>7, <1>8 DEF Quiet, Forgotten
<1>10. \A j \in 1..n - 1 : j \in DOMAIN sent /\ sent'[j] = sent[j]
  BY <1>1, <1>5
<1>11. Latest(n)'
  BY <1>1, <1>2, <1>5, <1>6, <1>10 DEF Latest
<1>12. QED BY <1>9, <1>11

-----------------------------------------------------------------------------
(* The panel, and all of the session.                                        *)
(* While a Start Over is under way the settings are closed and the panel     *)
(* shows no device, so that they cannot be opened.                           *)
Managed == view.startOver => ~view.management /\ ~view.trusted

(* The panel takes another generation only from an event it reads.           *)
LEMMA PanelNames ==
  ASSUME PanelTypeOK, ReceiveLine \/ UserStep \/ FrameStep
  PROVE  /\ view' \in View
         /\ read' = read \/ (Unread /\ read' = read + 1)
         /\ \/ view'.generation = view.generation
            \/ Unread /\ read' = read + 1 /\ view'.generation = Incoming.generation
<1>0. view \in View
  BY DEF PanelTypeOK
<1>1. Shows(view')
  BY LineShows, PanelStepShows
<1>2. read' = read \/ (Unread /\ read' = read + 1)
  BY PanelReads
<1>3. CASE HearReady
  <2>1. view'.generation = view.generation
    BY <1>0, <1>3 DEF HearReady, View
  <2>2. QED BY <1>1, <1>2, <2>1 DEF Shows
<1>4. CASE ReceiveLine /\ ~HearReady
  <2>1. read' = read + 1 /\ Unread
    BY <1>4 DEF ReceiveLine, HearNothing, HearPreferences, HearQrWaiting, HearQrTimedOut,
                HearPairing, HearManualCode, HearCancelled, HearConnection, HearStarted, HearEnded,
                HearStopped, HearStartOverComplete, HearStale, HearFailure, HearLifecycleFailure,
                HearProtocolError, Hear
  <2>2. QED BY <1>1, <1>2, <2>1 DEF Shows
<1>5. CASE UserStep
  <2>1. view'.generation = view.generation
    BY <1>0, <1>5 DEF UserStep, OpenManagement, CloseManagement, Reconnect, UseManualCode,
                      SubmitManualCode, StartOver, SetPreferences, Input, View
  <2>2. QED BY <1>1, <1>2, <2>1 DEF Shows
<1>6. CASE FrameStep
  <2>1. view'.generation = view.generation
    BY <1>0, <1>6 DEF FrameStep, FirstFrame, FirstFrameTimeout, View
  <2>2. QED BY <1>1, <1>2, <2>1 DEF Shows
<1>7. QED BY <1>3, <1>4, <1>5, <1>6

(* No step opens the settings, or shows a device, while a Start Over goes    *)
(* on.                                                                       *)
LEMMA ManagedStays ==
  ASSUME PanelTypeOK, Opening, Managed, ReceiveLine \/ UserStep \/ FrameStep
  PROVE  Managed'
<1>0. view \in View
  BY DEF PanelTypeOK
<1>1. CASE ReceiveLine
  <2>1. CASE HearReady
    <3>1. ~view.startOver
      BY <2>1 DEF HearReady, Opening, InitialView
    <3>2. ~view'.startOver
      BY <1>0, <2>1, <3>1 DEF HearReady, View
    <3>3. QED BY <3>2 DEF Managed
  <2>2. CASE HearNothing
    BY <2>2 DEF HearNothing, Managed
  <2>3. CASE HearPreferences
    BY <1>0, <2>3 DEF HearPreferences, MoveTo, Managed, View
  <2>4. CASE HearQrWaiting \/ HearQrTimedOut \/ HearPairing \/ HearManualCode \/ HearCancelled
    BY <1>0, <2>4 DEF HearQrWaiting, HearQrTimedOut, HearPairing, HearManualCode, HearCancelled,
                      Managed, View
  <2>5. CASE HearConnection
    <3>1. ~view.startOver
      BY <2>5 DEF HearConnection, Hear, StartOverEvents
    <3>2. ~view'.startOver
      BY <1>0, <2>5, <3>1 DEF HearConnection, MoveTo, View
    <3>3. QED BY <3>2 DEF Managed
  <2>6. CASE HearStarted
    <3>1. ~view.startOver
      BY <2>6 DEF HearStarted, Hear, StartOverEvents
    <3>2. ~view'.startOver
      BY <1>0, <2>6, <3>1 DEF HearStarted, View
    <3>3. QED BY <3>2 DEF Managed
  <2>7. CASE HearEnded
    <3>1. view' = view \/ (view'.startOver = view.startOver /\ view'.management = view.management
                            /\ view'.trusted = view.trusted) \/ ~view'.startOver
      BY <1>0, <2>7 DEF HearEnded, MoveTo, Failed, View
    <3>2. QED BY <3>1 DEF Managed
  <2>8. CASE HearStopped
    BY <1>0, <2>8 DEF HearStopped, MoveTo, Managed, View
  <2>9. CASE HearStartOverComplete
    <3>1. view' = view \/ ~view'.startOver
      BY <1>0, <2>9 DEF HearStartOverComplete, MoveTo, View
    <3>2. QED BY <3>1 DEF Managed
  <2>10. CASE HearFailure
    <3>1. view' = view \/ ~view'.startOver
      BY <1>0, <2>10 DEF HearFailure, Failed, View
    <3>2. QED BY <3>1 DEF Managed
  <2>11. CASE HearStale \/ HearLifecycleFailure \/ HearProtocolError
    <3>1. view' = view \/ ~view'.startOver
      BY <1>0, <2>11 DEF HearStale, HearLifecycleFailure, HearProtocolError, MoveTo, Failed,
                         ProtocolFailed, View
    <3>2. QED BY <3>1 DEF Managed
  <2>12. QED BY <1>1, <2>1, <2>2, <2>3, <2>4, <2>5, <2>6, <2>7, <2>8, <2>9, <2>10, <2>11
                DEF ReceiveLine
<1>2. CASE UserStep \/ FrameStep
  BY <1>0, <1>2 DEF UserStep, FrameStep, OpenManagement, CloseManagement, Reconnect, UseManualCode,
                    SubmitManualCode, StartOver, SetPreferences, Input, FirstFrame,
                    FirstFrameTimeout, View, Managed
<1>3. QED BY <1>1, <1>2

(* What the panel hears while a pairing is sought names no generation that   *)
(* follows its own, and no session of its own.                               *)
LEMMA CalmHears ==
  ASSUME PanelTypeOK, PastWords, LogReached, PanelCalm, view.ready, Unread
  PROVE  /\ ~Follows(Incoming.generation)
         /\ Incoming.type \in ConnectionWords => ~IsCurrent(Incoming.generation)
<1>1. Sent(Incoming) /\ Incoming.generation \in Nat
  BY NextEvent
<1>2. PICK i \in DOMAIN sent : sent[i] = Incoming
  BY <1>1 DEF Sent
<1>3. /\ Incoming.generation <= generation
      /\ Incoming.type \in ConnectionWords => Incoming.generation < generation
  BY <1>2 DEF LogReached, PastWords
<1>4. view.generation = generation /\ generation \in Nat
  BY DEF PanelCalm, PanelTypeOK, RuntimeTypeOK, TypeOK
<1>5. QED BY <1>1, <1>3, <1>4 DEF Follows, IsCurrent

(* While a pairing is sought the panel offers nothing of a session, and what *)
(* it writes is another pairing.                                             *)
LEMMA PanelCalms ==
  ASSUME ~PairsByCode, PanelTypeOK, QrOnly, PastWords, LogReached, PanelCalm,
         view.stage # "idle", ReceiveLine \/ UserStep \/ FrameStep
  PROVE  PanelCalm' /\ (pipe' = pipe \/ Send("startQrPairing"))
<1>0. /\ view \in View /\ UNCHANGED runtimeVars /\ generation' = generation
      /\ view.ready => ~view.trusted /\ ~view.startOver /\ view.generation = generation
      /\ ~view.started /\ ~view.management
  BY PanelFrame DEF PanelTypeOK, runtimeVars, vars, cells, PanelCalm
<1>1. ASSUME view' = view PROVE PanelCalm'
  BY <1>0, <1>1 DEF PanelCalm
<1>2. ASSUME Unread
      PROVE  /\ ~Follows(Incoming.generation)
             /\ view.ready /\ Incoming.type \in ConnectionWords => ~IsCurrent(Incoming.generation)
  BY <1>2, CalmHears DEF Follows
<1>3. CASE ReceiveLine
  <2>0. ~HearReady
    BY DEF HearReady
  <2>1. CASE HearNothing
    BY <1>1, <2>1 DEF HearNothing
  <2>2. CASE HearPreferences
    <3>1. view' = view /\ pipe' = pipe
      BY <1>2, <2>2 DEF HearPreferences, Hear, Silent
    <3>2. QED BY <1>1, <3>1
  <2>3. CASE HearQrWaiting \/ HearQrTimedOut \/ HearPairing \/ HearManualCode \/ HearCancelled
    <3>1. /\ view'.started = view.started /\ view'.management = view.management
          /\ view'.ready = view.ready /\ view'.trusted = view.trusted
          /\ view'.startOver = view.startOver /\ view'.generation = view.generation
      BY <1>0, <2>3 DEF HearQrWaiting, HearQrTimedOut, HearPairing, HearManualCode, HearCancelled,
                        View
    <3>2. pipe' = pipe \/ Send("startQrPairing")
      BY <2>3 DEF HearQrWaiting, HearQrTimedOut, HearPairing, HearManualCode, HearCancelled, Silent
    <3>3. QED BY <1>0, <3>1, <3>2 DEF PanelCalm
  <2>4. CASE HearConnection
    <3>1. Unread /\ Incoming.type \in ConnectionWords
      BY <2>4 DEF HearConnection, Hear, ConnectionWords
    <3>2. ~IsCurrent(Incoming.generation) /\ ~Follows(Incoming.generation)
      BY <1>2, <3>1 DEF IsCurrent
    <3>3. view' = view /\ pipe' = pipe
      BY <2>4, <3>2 DEF HearConnection, Silent
    <3>4. QED BY <1>1, <3>3
  <2>5. CASE HearStarted
    <3>1. Unread /\ Incoming.type \in ConnectionWords
      BY <2>5 DEF HearStarted, Hear, ConnectionWords
    <3>2. ~IsCurrent(Incoming.generation)
      BY <1>2, <3>1 DEF IsCurrent
    <3>3. view' = view /\ pipe' = pipe
      BY <2>5, <3>2 DEF HearStarted, Silent
    <3>4. QED BY <1>1, <3>3
  <2>6. CASE HearEnded
    <3>1. view' = view /\ pipe' = pipe
      BY <1>2, <2>6 DEF HearEnded, Hear, Silent
    <3>2. QED BY <1>1, <3>1
  <2>7. CASE HearStopped
    <3>1. ~Follows(Incoming.generation)
      BY <1>2, <2>7 DEF HearStopped, Hear
    <3>2. \/ view' = view
          \/ /\ view'.started = view.started /\ view'.management = view.management
             /\ view'.ready = view.ready /\ view'.trusted = view.trusted
             /\ view'.startOver = view.startOver /\ view'.generation = view.generation
      BY <1>0, <2>7, <3>1 DEF HearStopped, View
    <3>3. pipe' = pipe
      BY <2>7 DEF HearStopped, Silent
    <3>4. QED BY <1>0, <1>1, <3>2, <3>3 DEF PanelCalm
  <2>8. CASE HearStartOverComplete
    <3>1. ~Follows(Incoming.generation)
      BY <1>2, <2>8 DEF HearStartOverComplete, Hear
    <3>2. view' = view /\ pipe' = pipe
      BY <1>0, <2>8, <3>1 DEF HearStartOverComplete, Over, Silent
    <3>3. QED BY <1>1, <3>2
  <2>9. CASE HearStale \/ HearProtocolError
    <3>1. view' = view \/ view' = ProtocolFailed(view)
      BY <2>9 DEF HearStale, HearProtocolError
    <3>2. view' = view \/ (~view'.ready /\ ~view'.started /\ ~view'.management)
      BY <1>0, <3>1 DEF ProtocolFailed, View
    <3>3. pipe' = pipe
      BY <2>9 DEF HearStale, HearProtocolError, Silent
    <3>4. QED BY <1>1, <3>2, <3>3 DEF PanelCalm
  <2>10. CASE HearFailure
    <3>1. \/ view' = view
          \/ ~view.ready /\ ~view'.ready /\ ~view'.started /\ ~view'.management
          \/ /\ view'.ready = view.ready /\ view'.generation = view.generation
             /\ ~view'.started /\ ~view'.management /\ ~view'.startOver
             /\ view'.trusted => view.trusted
      BY <1>0, <2>10 DEF HearFailure, Failed, View
    <3>2. pipe' = pipe
      BY <2>10 DEF HearFailure, Silent
    <3>3. QED BY <1>0, <1>1, <3>1, <3>2 DEF PanelCalm
  <2>11. CASE HearLifecycleFailure
    <3>1. view' = view /\ pipe' = pipe
      BY <1>2, <2>11 DEF HearLifecycleFailure, Hear, Silent
    <3>2. QED BY <1>1, <3>1
  <2>12. QED BY <1>3, <2>0, <2>1, <2>2, <2>3, <2>4, <2>5, <2>6, <2>7, <2>8, <2>9, <2>10, <2>11
                DEF ReceiveLine
<1>4. CASE UserStep \/ FrameStep
  <2>1. ~(UseManualCode /\ "useManualCode" \in Commands) /\ ~SubmitManualCode
    BY DEF PairsByCode, QrOnly, SubmitManualCode
  <2>2. FALSE
    BY <1>0, <1>4, <2>1 DEF UserStep, FrameStep, OpenManagement, CloseManagement, Reconnect,
          StartOver, SetPreferences, Input, FirstFrame, FirstFrameTimeout
  <2>3. QED BY <2>2
<1>5. QED BY <1>3, <1>4

(* A Start Over that the panel sees complete is the last word of the helper. *)
LEMMA RestartedLatest ==
  ASSUME PanelTypeOK, Completing, Restarted
  PROVE  /\ Unread /\ Completes(read + 1) /\ Quiet /\ Latest(read + 1) /\ ForgotOnce
         /\ Follows(Incoming.generation) /\ Incoming.generation = generation
<1>1. Unread /\ Incoming.type = "StartOverComplete"
  BY DEF Restarted, HearStartOverComplete, Hear
<1>2. read \in Nat /\ Len(sent) \in Nat /\ read + 1 \in read + 1..Len(sent)
  <2>1. read \in Nat /\ Len(sent) \in Nat
    BY DEF PanelTypeOK, RuntimeTypeOK, TypeOK
  <2>2. QED BY <1>1, <2>1 DEF Unread
<1>3. Completes(read + 1)
  BY <1>1, <1>2 DEF Completes, Incoming
<1>4. Quiet /\ Latest(read + 1)
  BY <1>3 DEF Completing
<1>5. Incoming.generation = generation /\ view.generation < generation
  BY <1>4 DEF Latest, Incoming, Quiet
<1>6. Follows(Incoming.generation) \/ Over(Incoming.generation)
  BY DEF Restarted, HearStartOverComplete
<1>7. ~Over(Incoming.generation)
  <2>1. view.generation \in Nat /\ generation \in Nat
    BY Fields DEF PanelTypeOK, RuntimeTypeOK, TypeOK
  <2>2. QED BY <1>5, <2>1 DEF Over
<1>8. ForgotOnce
  BY <1>3, CompletesForgot
<1>9. QED BY <1>1, <1>3, <1>4, <1>5, <1>6, <1>7, <1>8

(* The pipe after a pairing was asked for.                                   *)
LEMMA PipeCalms ==
  ASSUME PanelTypeOK, UNCHANGED runtimeVars, pipe' = pipe \/ Send("startQrPairing")
  PROVE  /\ pipe' \in Seq([op: Ops, generation: Nat])
         /\ \A i \in DOMAIN pipe' :
              pipe'[i].op = "startQrPairing" \/ (i \in DOMAIN pipe /\ pipe'[i] = pipe[i])
         /\ \A i : Wants(i) => Wants(i)'
         /\ pipe' # pipe => \E n : Wants(n)' /\ \A i \in DOMAIN pipe : i < n
<1> DEFINE S == [op: Ops, generation: Nat]
           c == [op |-> "startQrPairing", generation |-> view.generation]
<1>1. pipe \in Seq(S) /\ view.generation \in Nat
  BY Fields DEF PanelTypeOK
<1>2. c \in S /\ c.op = "startQrPairing"
  BY <1>1, Programs
<1>3. CASE pipe' = pipe
  BY <1>1, <1>3 DEF Wants
<1>4. CASE Send("startQrPairing")
  <2>1. pipe' = Append(pipe, c)
    BY <1>4 DEF Send
  <2> HIDE DEF c, S
  <2>2. /\ pipe' \in Seq(S)
        /\ \A i \in DOMAIN pipe' : pipe'[i] = c \/ (i \in DOMAIN pipe /\ pipe'[i] = pipe[i])
        /\ \A i \in DOMAIN pipe : i \in DOMAIN pipe' /\ pipe'[i] = pipe[i]
    BY <1>1, <1>2, <2>1, QueueGrows
  <2>3. /\ Len(pipe') = Len(pipe) + 1 /\ Len(pipe) \in Nat /\ DOMAIN pipe = 1..Len(pipe)
        /\ DOMAIN pipe' = 1..Len(pipe') /\ pipe'[Len(pipe')] = c
    BY <1>1, <1>2, <2>1
  <2>4. PICK n : n = Len(pipe')
    OBVIOUS
  <2>5. Wants(n)' /\ \A i \in DOMAIN pipe : i < n
    BY <1>2, <2>3, <2>4 DEF Wants
  <2>6. \A i : Wants(i) => Wants(i)'
    BY <2>2 DEF Wants
  <2>7. QED BY <1>2, <2>2, <2>5, <2>6 DEF S
<1>5. QED BY <1>3, <1>4

(* The commands that wait, after a pairing was asked for.                    *)
LEMMA PipeOrders ==
  ASSUME PanelTypeOK, UNCHANGED runtimeVars, pipe' = pipe \/ Send("startQrPairing")
  PROVE  /\ Behind => Behind'
         /\ Spare => Spare'
         /\ Ordered /\ Unsettled => Ordered' /\ Unsettled'
         /\ ForgotOnce /\ pipe' # pipe => Ordered' /\ Unsettled'
<1>1. /\ cmd' = cmd /\ sent' = sent /\ generation' = generation /\ worker' = worker
      /\ launcher' = launcher
  BY DEF runtimeVars, vars, cells
<1>2. /\ \A i \in DOMAIN pipe' :
           pipe'[i].op = "startQrPairing" \/ (i \in DOMAIN pipe /\ pipe'[i] = pipe[i])
      /\ \A i : Wants(i) => Wants(i)'
      /\ pipe' # pipe => \E n : Wants(n)' /\ \A i \in DOMAIN pipe : i < n
  BY PipeCalms
<1>3. Behind => Behind'
  <2>1. "startQrPairing" \notin SessionBound
    BY DEF SessionBound
  <2>2. PastPipe => PastPipe'
    BY <1>1, <1>2, <2>1 DEF PastPipe
  <2>3. PastWorkers => PastWorkers'
    BY <1>1 DEF PastWorkers, Seeks
  <2>4. PastWords => PastWords'
    BY <1>1 DEF PastWords
  <2>5. QED BY <2>2, <2>3, <2>4 DEF Behind
<1>4. Spare => Spare'
  BY <1>1 DEF Spare
<1>5. (Wanted => Wanted') /\ (pipe' # pipe => Wanted')
  BY <1>2 DEF Wanted
<1>6. (ForgotOnce => ForgotOnce') /\ (Settings => Settings')
  BY <1>1 DEF ForgotOnce, Settings
<1>7. ForgotOnce => Settings'
  BY <1>6 DEF Settings
<1>8. ForgotOnce => Unsettled'
  BY <1>6, <1>7 DEF Unsettled
<1>9. Unsettled => Unsettled'
  BY <1>2, <1>6 DEF Unsettled
<1>10. Ordered => Ordered'
  <2>1. ASSUME Ordered, NEW i \in DOMAIN pipe', pipe'[i].op = "reconnect"
        PROVE  (\E j : i < j /\ Wants(j))'
    <3>1. i \in DOMAIN pipe /\ pipe[i].op = "reconnect"
      BY <1>2, <2>1
    <3>2. QED BY <1>2, <2>1, <3>1 DEF Ordered
  <2>2. QED BY <1>1, <1>5, <2>1 DEF Ordered
<1>11. pipe' # pipe => Ordered'
  <2>1. ASSUME pipe' # pipe, NEW i \in DOMAIN pipe', pipe'[i].op = "reconnect"
        PROVE  (\E j : i < j /\ Wants(j))'
    <3>1. i \in DOMAIN pipe
      BY <1>2, <2>1
    <3>2. QED BY <1>2, <2>1, <3>1
  <2>2. QED BY <1>5, <2>1 DEF Ordered
<1>12. QED BY <1>3, <1>4, <1>8, <1>9, <1>10, <1>11

(* What the panel shows once it has seen its Start Over complete.            *)
LEMMA RestartedView ==
  ASSUME PanelTypeOK, Managed, Completing, Restarted
  PROVE  /\ ~view'.started /\ ~view'.management /\ ~view'.trusted /\ ~view'.startOver
         /\ view'.generation = generation /\ Send("startQrPairing")
<1>0. view \in View
  BY DEF PanelTypeOK
<1>1. /\ Follows(Incoming.generation) /\ Incoming.generation = generation
      /\ Incoming.generation \in Nat /\ view.startOver
  BY RestartedLatest, NextEvent DEF Restarted
<1>2. ~view.management
  BY <1>1 DEF Managed
<1> DEFINE v == MoveTo(Incoming.generation)
<1>3. /\ view' = [v EXCEPT !.presenting = FALSE, !.startOver = FALSE, !.trusted = FALSE,
                           !.state = "unpaired", !.stage = "other"]
      /\ Send("startQrPairing")
  <2>1. view' # view
    BY DEF Restarted
  <2>2. QED BY <1>1, <2>1 DEF Restarted, HearStartOverComplete
<1>4. v \in View /\ v.generation = Incoming.generation /\ ~v.started
  BY <1>0, <1>1, MovedKeeps
<1>5. v.management = view.management
  BY <1>0 DEF MoveTo, View
<1> HIDE DEF v
<1>6. QED BY <1>1, <1>2, <1>3, <1>4, <1>5 DEF View

(* The first line of a helper finds nothing under way.                       *)
LEMMA ReadyCalm ==
  ASSUME PanelInv, Opening, HearReady, ~trusted
  PROVE  Calm'
<1>0. PanelTypeOK /\ view \in View
  BY DEF PanelInv, PanelTypeOK
<1>1. /\ view = InitialView /\ pipe = <<>> /\ sent = <<>> /\ generation = 0 /\ cmd.todo = <<>>
      /\ \A w \in Sessions : worker[w].step = "idle"
  BY DEF HearReady, Opening
<1>2. UNCHANGED runtimeVars /\ Send("startQrPairing")
  BY DEF HearReady
<1>3. Behind /\ Spare /\ Ordered /\ Unsettled
  <2>1. Behind
    BY <1>1 DEF Behind, PastWorkers, PastPipe, PastWords
  <2>2. Spare /\ Ordered /\ Unsettled
    BY <1>1 DEF Spare, Ordered, Unsettled, Settings
  <2>3. QED BY <2>1, <2>2
<1>4. Behind' /\ Spare' /\ Ordered' /\ Unsettled'
  BY <1>0, <1>2, <1>3, PipeOrders
<1>5. PanelCalm'
  <2>1. /\ ~view'.started /\ ~view'.management /\ ~view'.trusted /\ ~view'.startOver
        /\ view'.generation = 0
    <3>1. view' = [view EXCEPT !.ready = TRUE, !.trusted = trusted, !.presenting = trusted,
                          !.state = IF trusted THEN "disconnected" ELSE "unpaired",
                          !.stage = "other"]
      BY DEF HearReady
    <3>2. QED BY <1>1, <3>1 DEF InitialView
  <2>2. generation' = 0
    BY <1>1, <1>2 DEF runtimeVars, vars, cells
  <2>3. QED BY <2>1, <2>2 DEF PanelCalm
<1>6. QED BY <1>4, <1>5 DEF Calm

(* Every step of the panel leaves a pairing that is sought with the calm     *)
(* that it needs.                                                            *)
LEMMA PanelCalming ==
  ASSUME ~PairsByCode, PanelInv, QrInv, LogReached, Managed, Calming, Completing,
         ReceiveLine \/ UserStep \/ FrameStep
  PROVE  Calming' /\ QrInv' /\ (Hot' => Hot \/ (HearReady /\ ~trusted) \/ Restarted)
<1>0. PanelTypeOK /\ QrOnly /\ Opening
  BY DEF PanelInv, QrInv
<1>1. UNCHANGED runtimeVars
  BY <1>0, PanelFrame
<1>2. Restarted => ~Hot
  BY <1>0, RestartedLatest DEF Quiet
<1>3. QrInv' /\ (Hot' => Hot \/ (HearReady /\ ~trusted) \/ Restarted)
  BY <1>2, PanelQr
<1>4. CASE Hot
  <2>1. Behind /\ Spare /\ PanelCalm /\ Ordered /\ Unsettled /\ PastWords
    BY <1>4 DEF Calming, Calm, Behind
  <2>2. view.stage # "idle"
    <3>1. ASSUME view.stage = "idle" PROVE ~Hot
      <4>1. /\ pipe = <<>> /\ cmd.todo = <<>> /\ sent = <<>>
            /\ \A w \in Sessions : launcher[w].step = "idle"
        BY <1>0, <3>1 DEF Opening
      <4>2. ~Wanted /\ ~Asking /\ ~Seeking
        BY <4>1 DEF Wanted, Wants, Asking, Seeking, Seeks
      <4>3. ~Lapsed
        BY <1>0, <4>1 DEF Lapsed, Lapses, PanelTypeOK
      <4>4. QED BY <4>2, <4>3 DEF Hot
    <3>2. QED BY <1>4, <3>1
  <2>3. PanelCalm' /\ (pipe' = pipe \/ Send("startQrPairing"))
    BY <1>0, <2>1, <2>2, PanelCalms
  <2>4. Behind' /\ Spare' /\ Ordered' /\ Unsettled'
    BY <1>0, <1>1, <2>1, <2>3, PipeOrders
  <2>5. QED BY <1>3, <2>3, <2>4 DEF Calming, Calm
<1>5. CASE HearReady /\ ~trusted
  BY <1>0, <1>3, <1>5, ReadyCalm DEF Calming
<1>6. CASE Restarted
  <2>1. /\ ~view'.started /\ ~view'.management /\ ~view'.trusted /\ ~view'.startOver
        /\ view'.generation = generation /\ Send("startQrPairing")
    BY <1>0, <1>6, RestartedView
  <2>2. PanelCalm'
    <3>1. generation' = generation
      BY <1>1 DEF runtimeVars, vars, cells
    <3>2. QED BY <2>1, <3>1 DEF PanelCalm
  <2>3. Behind /\ Spare /\ ForgotOnce
    BY <1>0, <1>6, RestartedLatest DEF Quiet
  <2>4. pipe' # pipe
    <3>1. pipe \in Seq([op: Ops, generation: Nat])
      BY <1>0 DEF PanelTypeOK
    <3>2. Len(pipe') # Len(pipe)
      BY <2>1, <3>1 DEF Send
    <3>3. QED BY <3>2
  <2>5. Behind' /\ Spare' /\ Ordered' /\ Unsettled'
    BY <1>0, <1>1, <2>1, <2>3, <2>4, PipeOrders
  <2>6. QED BY <1>3, <2>2, <2>5 DEF Calming, Calm
<1>7. QED BY <1>3, <1>4, <1>5, <1>6 DEF Calming

(* What the panel writes before it has read of the generation that its Start *)
(* Over ended is stale.                                                      *)
LEMMA PastAsked ==
  ASSUME PanelTypeOK, PastPipe, view.generation < generation, UNCHANGED runtimeVars, Writes
  PROVE  PastPipe'
<1>0. generation' = generation /\ pipe \in Seq([op: Ops, generation: Nat])
      /\ view.generation \in Nat
  BY Fields DEF PanelTypeOK, runtimeVars, vars, cells
<1>1. CASE pipe' = pipe
  BY <1>0, <1>1 DEF PastPipe
<1>2. ASSUME NEW op \in PanelOps,
             pipe' = Append(pipe, [op |-> op, generation |-> view.generation])
      PROVE  PastPipe'
  <2> DEFINE c == [op |-> op, generation |-> view.generation]
  <2>1. op \in Ops
    BY Programs DEF PanelOps
  <2>2. c \in [op: Ops, generation: Nat] /\ c.generation = view.generation
    BY <1>0, <2>1
  <2>3. pipe' = Append(pipe, c)
    BY <1>2
  <2> HIDE DEF c
  <2>4. \A i \in DOMAIN pipe' : pipe'[i] = c \/ (i \in DOMAIN pipe /\ pipe'[i] = pipe[i])
    BY <1>0, <2>2, <2>3, QueueGrows
  <2>5. QED BY <1>0, <2>2, <2>4 DEF PastPipe
<1>3. QED BY <1>1, <1>2 DEF Writes

(* Until the panel reads that its Start Over is complete, nothing it does    *)
(* brings the device back.                                                   *)
LEMMA PanelCompleting ==
  ASSUME ~PairsByCode, PanelInv, QrInv, LogReached, Managed, Calming, Completing,
         ReceiveLine \/ UserStep \/ FrameStep
  PROVE  Completing'
<1>0. /\ PanelTypeOK /\ Opening /\ read \in Nat /\ Len(sent) \in Nat
      /\ DOMAIN sent = 1..Len(sent) /\ generation \in Nat
      /\ \A i \in DOMAIN sent : sent[i].generation \in Nat
  <2>1. PanelTypeOK /\ Opening /\ TypeOK /\ read \in Nat
    BY DEF PanelInv, QrInv, PanelTypeOK, RuntimeTypeOK
  <2>2. sent \in Seq(EventSet) /\ generation \in Nat
    BY <2>1 DEF TypeOK
  <2>3. QED BY <2>1, <2>2, EventsTyped
<1>1. /\ sent' = sent /\ generation' = generation /\ worker' = worker /\ launcher' = launcher
      /\ trusted' = trusted /\ stored' = stored /\ cmd' = cmd /\ UNCHANGED runtimeVars
  BY <1>0, PanelFrame DEF runtimeVars, vars, cells, pairingVars
<1>2. /\ view' \in View
      /\ read' = read \/ (Unread /\ read' = read + 1)
      /\ \/ view'.generation = view.generation
         \/ Unread /\ read' = read + 1 /\ view'.generation = Incoming.generation
  BY <1>0, PanelNames
<1>3. Hot' => Hot \/ (HearReady /\ ~trusted) \/ Restarted
  BY PanelCalming
<1>4. SUFFICES ASSUME NEW i, Completes(i)'
               PROVE  Quiet' /\ Latest(i)'
  <2>1. Completing' <=> \A i : Completes(i)' => Quiet' /\ Latest(i)'
    BY DEF Completing
  <2>2. QED BY <1>4, <2>1
<1>5. i \in read' + 1..Len(sent) /\ sent[i].type = "StartOverComplete"
  BY <1>1, <1>4 DEF Completes
<1>6. i \in Nat /\ i \in DOMAIN sent /\ Completes(i)
  BY <1>0, <1>2, <1>5 DEF Completes
<1>7. Quiet /\ Latest(i)
  BY <1>6 DEF Completing
<1>8. Latest(i)'
  BY <1>1, <1>7 DEF Latest
<1>9. read' = read + 1 => Unread /\ Incoming.generation < generation
  <2>1. read' = read + 1 => read + 1 \in 1..i - 1
    BY <1>0, <1>5, <1>6
  <2>2. read' = read + 1 => Unread
    BY <1>0, <1>2
  <2>3. QED BY <1>7, <2>1, <2>2 DEF Latest, Incoming
<1>10. view'.generation < generation
  BY <1>2, <1>7, <1>9 DEF Quiet
<1>11. ~HearReady
  BY <1>0, <1>6 DEF HearReady, Opening
<1>12. ~Restarted
  <2>1. SUFFICES ASSUME Restarted PROVE FALSE
    OBVIOUS
  <2>2. Unread /\ Incoming.generation = generation
    BY <1>0, <2>1, RestartedLatest
  <2>3. read' = read + 1
    BY <2>1 DEF Restarted, HearStartOverComplete, Hear
  <2>4. QED BY <1>0, <1>9, <2>2, <2>3
<1>13. ~Hot'
  BY <1>3, <1>7, <1>11, <1>12 DEF Quiet
<1>14. Behind'
  <2>1. PastPipe /\ PastWorkers /\ PastWords /\ view.generation < generation
    BY <1>7 DEF Quiet, Behind
  <2>2. PastPipe'
    BY <1>0, <1>1, <2>1, PanelWrites, PastAsked
  <2>3. PastWorkers'
    BY <1>1, <2>1 DEF PastWorkers, Seeks
  <2>4. PastWords'
    BY <1>1, <2>1 DEF PastWords
  <2>5. QED BY <2>2, <2>3, <2>4 DEF Behind
<1>15. Spare' /\ Forgotten'
  BY <1>1, <1>7 DEF Quiet, Spare, Forgotten
<1>16. Quiet'
  BY <1>1, <1>10, <1>13, <1>14, <1>15 DEF Quiet
<1>17. QED BY <1>8, <1>16

(* While the helper forgets, the panel names only what is over.              *)
LEMMA PanelForgetting ==
  ASSUME PanelInv, Forgetting, Moving, ReceiveLine \/ UserStep \/ FrameStep
  PROVE  Forgetting' /\ Moving'
<1>0. PanelTypeOK /\ read \in Nat /\ Len(sent) \in Nat /\ DOMAIN sent = 1..Len(sent)
  <2>1. PanelTypeOK /\ sent \in Seq(EventSet)
    BY DEF PanelInv, PanelTypeOK, RuntimeTypeOK, TypeOK
  <2>2. QED BY <2>1 DEF PanelTypeOK
<1>1. /\ sent' = sent /\ generation' = generation /\ worker' = worker /\ launcher' = launcher
      /\ trusted' = trusted /\ stored' = stored /\ cmd' = cmd /\ UNCHANGED runtimeVars
  BY <1>0, PanelFrame DEF runtimeVars, vars, cells, pairingVars
<1>2. Forgetting'
  BY <1>1 DEF Forgetting, Rest, Forgotten
<1>3. ASSUME Older PROVE Older'
  <2>1. /\ PastWorkers /\ PastPipe /\ view.generation < generation
        /\ \A i \in DOMAIN sent : sent[i].generation < generation
        /\ \A w \in Sessions : launcher[w].step = "tell" => launcher[w].told < generation
    BY <1>3 DEF Older
  <2>2. PastPipe'
    BY <1>0, <1>1, <2>1, PanelWrites, PastAsked
  <2>3. PastWorkers'
    BY <1>1, <2>1 DEF PastWorkers, Seeks
  <2>4. view'.generation < generation
    <3>1. Unread => Incoming.generation < generation
      BY <1>0, <2>1 DEF Unread, Incoming
    <3>2. QED BY <1>0, <2>1, <3>1, PanelNames
  <2>5. QED BY <1>1, <2>1, <2>2, <2>3, <2>4 DEF Older
<1>4. Moving'
  BY <1>1, <1>3 DEF Moving, Rest
<1>5. QED BY <1>2, <1>4

(* What holds until a phone that was forgotten is restarted.                 *)
CleanInv ==
  /\ LogReached /\ RestartOnly /\ Managed /\ QrInv /\ Sought /\ Served
  /\ Calming /\ Completing /\ Forgetting /\ Moving

(* A step of the panel.                                                      *)
LEMMA PanelClean ==
  ASSUME ~PairsByCode, PanelInv, CleanInv, Served', ReceiveLine \/ UserStep \/ FrameStep
  PROVE  CleanInv'
<1>0. /\ PanelTypeOK /\ Opening /\ LogReached /\ RestartOnly /\ Managed /\ QrInv /\ Sought
      /\ Calming /\ Completing /\ Forgetting /\ Moving
  BY DEF PanelInv, CleanInv, QrInv
<1>1. /\ sent' = sent /\ generation' = generation /\ launcher' = launcher /\ trusted' = trusted
      /\ cmd' = cmd /\ caller' = caller
  BY <1>0, PanelFrame DEF runtimeVars, vars, cells, pairingVars
<1>2. Calming' /\ QrInv' /\ (Hot' => Hot \/ (HearReady /\ ~trusted) \/ Restarted)
  BY <1>0, PanelCalming
<1>3. Completing' /\ Forgetting' /\ Moving' /\ Managed'
  BY <1>0, PanelCompleting, PanelForgetting, ManagedStays
<1>4. LogReached' /\ RestartOnly'
  BY <1>0, <1>1 DEF LogReached, RestartOnly
<1>5. Restarted => ~trusted
  BY <1>0, RestartedLatest DEF Quiet, Forgotten
<1>6. Sought'
  BY <1>0, <1>1, <1>2, <1>5 DEF Sought, Advancing
<1>7. QED BY <1>2, <1>3, <1>4, <1>6 DEF CleanInv

(* A command that is read.                                                   *)
LEMMA TakenClean ==
  ASSUME PanelInv, CleanInv, Served', TakeCommand
  PROVE  CleanInv'
<1>0. /\ PanelTypeOK /\ RuntimeInv /\ RuntimeTypeOK /\ TypeOK
      /\ QrOnly /\ LogReached /\ RestartOnly /\ Managed /\ QrInv /\ Sought
      /\ Calming /\ Completing /\ Forgetting /\ Moving
  BY DEF PanelInv, RuntimeInv, RuntimeTypeOK, CleanInv, QrInv
<1>1. /\ cmd.todo = <<>> /\ caller.step = "idle"
      /\ UNCHANGED <<view, read, generation, worker, launcher, caller, trusted, stored, cancelled>>
      /\ pipe # <<>> /\ pipe' = Tail(pipe) /\ Head(pipe).op \in Ops
      /\ \/ /\ cmd' = IdleCommand
            /\ \E type \in {"ScrcpyArgsStale", "StaleSession"} : Emit(Event(type, generation))
         \/ /\ sent' = sent
            /\ cmd'.op = Head(pipe).op /\ cmd'.todo = Program[Head(pipe).op]
            /\ Head(pipe).op \in SessionBound => Head(pipe).generation = generation
  BY Taken
<1>2. Driven
  BY TakeCommandInv
<1>3. QrInv' /\ (Hot' => Hot)
  BY <1>0, TakenQr
<1>4. Calming'
  <2>1. ASSUME Hot' PROVE Calm'
    <3>1. Behind /\ Spare /\ PanelCalm /\ Ordered /\ Unsettled
      BY <1>0, <1>3, <2>1 DEF Calming, Calm
    <3>2. Behind' /\ Spare'
      BY <1>0, <3>1, TakenBehind
    <3>3. ForgotOnce => ForgotOnce'
      BY <1>0, <1>2, LogGrows
    <3>4. Ordered' /\ Unsettled'
      BY <3>1, <3>3, TakenOrders
    <3>5. PanelCalm'
      BY <1>1, <3>1 DEF PanelCalm
    <3>6. QED BY <3>2, <3>4, <3>5 DEF Calm
  <2>2. QED BY <2>1 DEF Calming
<1>5. Completing'
  BY <1>0, <1>2, TakenCompleting
<1>6. Forgetting' /\ Moving'
  <2>1. cmd'.op = "startOver" => Len(cmd'.todo) = 9
    <3>1. cmd' = IdleCommand => cmd'.op # "startOver"
      BY DEF IdleCommand
    <3>2. QED BY <1>1, <3>1, Lengths
  <2>2. 9 \notin 1..5 /\ 9 \notin 1..4
    OBVIOUS
  <2>3. ~Rest({"startOver"}, 1, 5)' /\ ~Rest({"startOver"}, 1, 4)'
    BY <2>1, <2>2 DEF Rest
  <2>4. QED BY <2>3 DEF Forgetting, Moving
<1>7. LogReached'
  <2>1. GenerationGoesOn
    BY <1>1 DEF GenerationGoesOn
  <2>2. \A w \in Sessions : launcher'[w].step = "tell" => launcher'[w].told <= generation'
    BY <1>0, <1>1 DEF LogReached
  <2>3. generation \in Nat /\ generation <= generation
    BY <1>0 DEF TypeOK
  <2>4. \/ sent' = sent
        \/ \E type \in EventTypes, g \in Nat : Emit(Event(type, g)) /\ g <= generation
    <3>1. CASE sent' = sent
      BY <3>1
    <3>2. CASE sent' # sent
      <4>1. PICK type \in {"ScrcpyArgsStale", "StaleSession"} : Emit(Event(type, generation))
        BY <1>1, <3>2
      <4>2. type \in EventTypes
        BY KnownTypes
      <4>3. QED BY <2>3, <4>1, <4>2
    <3>3. QED BY <3>1, <3>2
  <2>5. QED BY <1>0, <2>1, <2>2, <2>4, ReachedStays
<1>8. RestartOnly'
  BY <1>1 DEF RestartOnly
<1>9. Managed' /\ Sought'
  BY <1>0, <1>1, <1>3 DEF Managed, Sought, Advancing
<1>10. QED BY <1>3, <1>4, <1>5, <1>6, <1>7, <1>8, <1>9 DEF CleanInv

(* The main thread's call into SessionControl is its own.                    *)
LEMMA CallerStays ==
  ASSUME NEW w \in Sessions, OfWorker(w)
  PROVE  caller' = caller
<1>1. CASE LauncherStep(w)
  BY <1>1 DEF LauncherStep, EnterFlow, TellProgress, FlowCancelled, ClaimPairing, LosePairing,
              StartDisconnect, Disconnected, DropQr, SaveDevice, RememberDevice, AdvanceGeneration,
              ReportLinked, StartSession, ReportPairingOver, FailReconnect, TellFailure,
              DropReconnect, LeaveFlow, Advance, AdvanceFailed, Spawn, Discard, quiet, vars
<1>2. CASE PhoneStep(w) \/ LifetimeExpires(w)
  BY <1>2 DEF PhoneStep, ReportProgress, FlowFails, FlowTimesOut, FlowLinks, LeaveFlow,
              LifetimeExpires, vars
<1>3. CASE SessionWorkerStep(w) \/ SessionChildStep(w)
  BY <1>3 DEF SessionWorkerStep, SessionChildStep, WorkerStep, ScrcpyStep, SpawnStale,
              SpawnCurrent, LockRunner, SetTarget, RefuseStart, AdmitStart, Announce, RunScrcpy,
              RunStopped, ConfirmStarted, StartDeadline, ExitSuperseded, ClaimRetry, KeepResult,
              EndSilently, ClaimEnd, ClearTarget, ReportEnd, CaptureReady, RunUnavailable,
              ScrcpyExits
<1>4. QED BY <1>1, <1>2, <1>3 DEF OfWorker

(* A stop finds no session of its generation: a pairing is sought.           *)
LEMMA StopFindsNone ==
  ASSUME PanelInv, QrInv, Calming, MainStop, NEW w \in Sessions, worker[w].current = generation
  PROVE  worker[w].step \in {"idle"} \cup ArmedSteps
<1>1. Hot
  BY StopAsks DEF Hot
<1>2. PastWorkers /\ generation \in Nat /\ Fits(w)
  BY <1>1 DEF Calming, Calm, Behind, PanelInv, RuntimeInv, RuntimeTypeOK, TypeOK, LauncherInv,
              LauncherFits
<1>3. worker[w].step = "idle" \/ Seeks(w)
  BY <1>2 DEF PastWorkers
<1>4. Seeks(w) => worker[w].step \in ArmedSteps
  BY <1>2 DEF Seeks, Fits, Carries
<1>5. QED BY <1>3, <1>4

(* What the helper said of its session goes on being so.                     *)
LEMMA ServedKept ==
  ASSUME PanelInv, QrInv, Served, Calming, [PanelNext]_sessionVars
  PROVE  Served'
<1>0. PanelTypeOK /\ RuntimeInv /\ TypeOK /\ CurrentsKnown /\ StartsReached
  BY DEF PanelInv, PanelTypeOK, RuntimeTypeOK, RuntimeInv, LogInv, AnnounceInv
<1>1. Driven
  BY PanelNextInv
<1>2. ASSUME cancelled' # cancelled, generation' = generation
      PROVE  MainStop
  <2>1. HelperStep
    BY <1>0, <1>2, OnlyHelperStops
  <2>2. QED BY <1>0, <1>2, <2>1, HelperStepInv, StopCancels
<1>3. QED BY <1>0, <1>1, <1>2, StopFindsNone, ServedStays

(* What the log reaches, when the main thread writes it.                     *)
LEMMA MainReaches ==
  ASSUME RuntimeInv, AnswersPast, LogReached, GenerationGoesOn, MainStep
  PROVE  LogReached'
<1>0. TypeOK /\ generation \in Nat /\ launcher \in [Sessions -> LauncherState]
  BY DEF RuntimeInv, RuntimeTypeOK, TypeOK
<1>1. \A w \in Sessions : launcher'[w].step = "tell" => launcher'[w].told <= generation'
  <2>1. \A w \in Sessions : launcher'[w].step = "tell" =>
          launcher[w].step = "tell" /\ launcher'[w].told = launcher[w].told
    <3>1. CASE launcher' = launcher
      BY <3>1
    <3>2. ASSUME NEW v \in Sessions, Launch(v)
          PROVE  \A w \in Sessions : launcher'[w].step = "tell" =>
                   launcher[w].step = "tell" /\ launcher'[w].told = launcher[w].told
      <4>1. launcher'[v].step = "flow" /\ \A w \in Sessions \ {v} : launcher'[w] = launcher[w]
        BY <1>0, <3>2 DEF Launch, IdleLauncher
      <4>2. QED BY <4>1
    <3>3. QED BY <3>1, <3>2, MainPairs
  <2>2. \A w \in Sessions : launcher[w].step = "tell" =>
          launcher[w].told <= generation /\ launcher[w].told \in Nat
    BY <1>0 DEF LogReached, LauncherState
  <2>3. QED BY <1>0, <2>1, <2>2 DEF GenerationGoesOn
<1>2. \/ sent' = sent
      \/ \E type \in EventTypes, g \in Nat : Emit(Event(type, g)) /\ g <= generation
  BY <1>0, MainSays DEF AnswersPast
<1>3. QED BY <1>0, <1>1, <1>2, ReachedStays

(* A step of the main thread.                                                *)
LEMMA MainClean ==
  ASSUME PanelInv, CleanInv, Served', HelperStep, MainStep, ~RestartsForgotten, ~RestartsForgotten'
  PROVE  CleanInv'
<1>0. /\ RuntimeInv /\ AnswersPast /\ TypeOK /\ NamesTold /\ QrOnly
      /\ LogReached /\ RestartOnly /\ Managed /\ QrInv /\ Sought
      /\ Calming /\ Completing /\ Forgetting /\ Moving
      /\ UNCHANGED <<view, read, pipe>>
  BY DEF PanelInv, RuntimeInv, RuntimeTypeOK, CleanInv, QrInv, HelperStep, panelVars
<1>1. Driven /\ GenerationGoesOn
  BY <1>0, HelperStepInv, DrivenCounts
<1>2. QrInv' /\ (Hot' => Hot)
  BY <1>0, HelperQr
<1>3. Calming'
  <2>1. ASSUME Hot' PROVE Calm'
    BY <1>0, <1>1, <1>2, <2>1, MainCalm DEF Calming
  <2>2. QED BY <2>1 DEF Calming
<1>4. Completing'
  BY <1>0, <1>1, MainCompleting
<1>5. Forgetting' /\ Moving'
  BY <1>0, MainForgetting, MainMoving
<1>6. LogReached' /\ RestartOnly'
  BY <1>0, <1>1, MainReaches, MainRestartsOnly
<1>7. Sought'
  <2>1. cmd.op # "shutdown"
    BY <1>0 DEF QrOnly, QrOps
  <2>2. trusted' => trusted
    BY <1>0, <2>1, MainMoves
  <2>3. QED BY <1>0, <2>2, HelperSeeks
<1>8. Managed'
  BY <1>0 DEF Managed
<1>9. QED BY <1>2, <1>3, <1>4, <1>5, <1>6, <1>7, <1>8 DEF CleanInv

(* A step of a worker, or of the phone or the scrcpy it works with.          *)
LEMMA WorkerClean ==
  ASSUME PanelInv, CleanInv, Served', HelperStep, NEW w \in Sessions, OfWorker(w)
  PROVE  CleanInv'
<1>0. /\ RuntimeInv /\ RuntimeTypeOK /\ TypeOK
      /\ LogReached /\ RestartOnly /\ Managed /\ QrInv /\ Sought
      /\ Calming /\ Completing /\ Forgetting /\ Moving
      /\ UNCHANGED <<view, read, pipe>>
  BY DEF PanelInv, RuntimeInv, RuntimeTypeOK, CleanInv, HelperStep, panelVars
<1>1. Driven /\ GenerationGoesOn
  BY <1>0, HelperStepInv, DrivenCounts
<1>2. QrInv' /\ (Hot' => Hot)
  BY <1>0, HelperQr
<1>3. Calming'
  <2>1. ASSUME Hot' PROVE Calm'
    BY <1>0, <1>1, <1>2, <2>1, WorkerCalm DEF Calming
  <2>2. QED BY <2>1 DEF Calming
<1>4. Completing'
  BY <1>0, <1>1, WorkerCompleting
<1>5. Forgetting' /\ Moving'
  BY <1>0, WorkerForgetting
<1>6. LogReached'
  BY <1>0, <1>1, WorkerReaches
<1>7. RestartOnly'
  <2>1. caller' = caller /\ cmd' = cmd
    BY CallerStays, CommandStays DEF OfWorker
  <2>2. QED BY <1>0, <2>1 DEF RestartOnly
<1>8. Sought'
  <2>1. trusted' => trusted \/ \E v \in Sessions : RememberDevice(v)
    BY <1>0, WorkersTrust DEF OfWorker
  <2>2. QED BY <1>0, <2>1, HelperSeeks
<1>9. Managed'
  BY <1>0 DEF Managed
<1>10. QED BY <1>2, <1>3, <1>4, <1>5, <1>6, <1>7, <1>8, <1>9 DEF CleanInv

(* The reply of settings that restart a session says that they did.          *)
LEMMA RestartsTold ==
  ASSUME RuntimeInv, Restarts, MainStep, cmd' # cmd, ~ReadGeneration
  PROVE  \E g \in Nat : Emit(Event("PreferencesRestarted", g))
<1>0. /\ cmd \in CommandState /\ TodoFits /\ generation \in Nat
      /\ cmd.op = "setPreferences" /\ Len(cmd.todo) = 1 /\ cmd.target # NoTarget
      /\ cmd.generation \in Nat
  BY DEF RuntimeInv, RuntimeTypeOK, TypeOK, MainInv, Restarts, CommandState
<1>1. PICK step : step = Head(cmd.todo)
  OBVIOUS
<1>2. At(step)
  BY <1>1, MainDoes
<1>3. ~Failing
  BY <1>0 DEF Failing
<1>4. Place(cmd.op, Len(cmd.todo), step)
  BY <1>0, <1>2, <1>3, TodoNow
<1>5. step = "reply"
  BY <1>0, <1>4 DEF Place
<1>6. Reply
  BY <1>1, <1>5, MainDoes
<1>7. QED BY <1>0, <1>6, Replies DEF Reply, Telling

(* Whether a phone that was forgotten is restarted does not change back.     *)
LEMMA RestartsForgottenStays ==
  ASSUME PanelInv, [PanelNext]_sessionVars, RestartsForgotten
  PROVE  RestartsForgotten'
<1>0. PanelTypeOK /\ RuntimeInv /\ TypeOK
  BY DEF PanelInv, RuntimeInv, RuntimeTypeOK
<1>1. Driven
  BY PanelNextInv
<1>2. /\ Len(sent) \in Nat /\ DOMAIN sent = 1..Len(sent) /\ DOMAIN sent' = 1..Len(sent')
      /\ Len(sent') \in Nat /\ Len(sent) <= Len(sent')
      /\ \A i \in DOMAIN sent : i \in DOMAIN sent' /\ sent'[i] = sent[i]
  BY <1>0, <1>1, LogGrows
<1>3. PICK i \in DOMAIN sent :
        /\ sent[i].type = "StartOverComplete"
        /\ Restarts \/ \E j \in i + 1..Len(sent) : sent[j].type = "PreferencesRestarted"
  BY DEF RestartsForgotten, Restarts
<1>4. i \in DOMAIN sent' /\ sent'[i].type = "StartOverComplete" /\ i \in Nat
  BY <1>2, <1>3
<1>5. CASE \E j \in i + 1..Len(sent) : sent[j].type = "PreferencesRestarted"
  <2>1. PICK j \in i + 1..Len(sent) : sent[j].type = "PreferencesRestarted"
    BY <1>5
  <2>2. j \in DOMAIN sent /\ j \in i + 1..Len(sent')
    BY <1>2, <1>4, <2>1
  <2>3. sent'[j].type = "PreferencesRestarted"
    BY <1>2, <2>1, <2>2
  <2>4. QED BY <1>4, <2>2, <2>3 DEF RestartsForgotten
<1>6. CASE Restarts
  <2>1. CASE cmd' = cmd \/ ReadGeneration
    <3>1. CommandKept
      BY <1>0, <2>1, ReadingKeeps DEF CommandKept, RuntimeInv, RuntimeTypeOK
    <3>2. QED BY <1>4, <1>6, <3>1 DEF CommandKept, RestartsForgotten, Restarts
  <2>2. CASE cmd' # cmd /\ ~ReadGeneration
    <3>1. ~TakeCommand
      <4>1. cmd.todo # <<>>
        <5>1. cmd.todo \in Seq(MicroSteps) /\ Len(cmd.todo) = 1
          BY <1>0, <1>6 DEF Restarts, RuntimeInv, RuntimeTypeOK, CommandState
        <5>2. cmd.todo = <<>> => Len(cmd.todo) = 0
          OBVIOUS
        <5>3. QED BY <5>1, <5>2
      <4>2. QED BY <4>1, Taken
    <3>2. ~(ReceiveLine \/ UserStep \/ FrameStep)
      BY <1>0, <2>2, PanelFrame DEF runtimeVars
    <3>3. ~UNCHANGED sessionVars
      BY <2>2 DEF sessionVars, runtimeVars
    <3>4. MainStep
      BY <2>2, <3>1, <3>2, <3>3, CommandStays DEF PanelNext, HelperStep
    <3>5. PICK g \in Nat : Emit(Event("PreferencesRestarted", g))
      BY <1>0, <1>6, <2>2, <3>4, RestartsTold
    <3>6. PICK j : j = Len(sent) + 1
      OBVIOUS
    <3>7. Len(sent') = j /\ sent'[j].type = "PreferencesRestarted"
      <4>1. "PreferencesRestarted" \in EventTypes
        BY KnownTypes
      <4>2. QED BY <1>0, <3>5, <3>6, <4>1, Spoken
    <3>8. j \in i + 1..Len(sent')
      BY <1>2, <1>3, <3>6, <3>7
    <3>9. QED BY <1>4, <3>7, <3>8 DEF RestartsForgotten
  <2>3. QED BY <2>1, <2>2
<1>7. QED BY <1>3, <1>5, <1>6

(* At first nothing is asked of anybody, and nothing was said.               *)
LEMMA CleanStart == PanelInit => CleanInv
<1> SUFFICES ASSUME PanelInit PROVE CleanInv
  OBVIOUS
<1>1. /\ pipe = <<>> /\ sent = <<>> /\ read = 0 /\ cmd = IdleCommand /\ view = InitialView
      /\ launcher = [w \in Sessions |-> IdleLauncher] /\ worker = [w \in Sessions |-> IdleWorker]
      /\ caller = IdleCaller
  BY DEF PanelInit, RuntimeInit, Init
<1>2. /\ cmd.op = "none" /\ cmd.todo = <<>> /\ caller.step = "idle" /\ ~view.startOver
      /\ \A w \in Sessions : launcher[w].step = "idle" /\ worker[w].step = "idle"
  BY <1>1 DEF IdleCommand, InitialView, IdleLauncher, IdleWorker, IdleCaller
<1>3. QrInv /\ Sought /\ Served
  BY RunStart
<1>4. LogReached /\ RestartOnly /\ Managed
  BY <1>1, <1>2 DEF LogReached, RestartOnly, Managed
<1>5. ~Hot
  <2>1. ~Wanted /\ ~Lapsed
    BY <1>1 DEF Wanted, Wants, Lapsed, Lapses
  <2>2. ~Asking /\ ~Seeking
    BY <1>2 DEF Asking, Seeking, Seeks
  <2>3. QED BY <2>1, <2>2 DEF Hot
<1>6. Calming /\ Completing
  BY <1>1, <1>5 DEF Calming, Completing, Completes
<1>7. Forgetting /\ Moving
  BY <1>2 DEF Forgetting, Moving, Rest
<1>8. QED BY <1>3, <1>4, <1>6, <1>7 DEF CleanInv

(* Every step, as long as no phone that was forgotten is restarted.          *)
LEMMA CleanNext ==
  ASSUME ~PairsByCode, PanelInv, RestartsForgotten \/ CleanInv, [PanelNext]_sessionVars
  PROVE  (RestartsForgotten \/ CleanInv)'
<1>1. CASE RestartsForgotten
  BY <1>1, RestartsForgottenStays
<1>2. CASE RestartsForgotten'
  BY <1>2
<1>3. CASE ~RestartsForgotten /\ ~RestartsForgotten'
  <2>0. CleanInv /\ QrInv /\ Served /\ Calming
    BY <1>3 DEF CleanInv
  <2>1. Served'
    BY <2>0, ServedKept
  <2>2. CASE TakeCommand
    BY <2>0, <2>1, <2>2, TakenClean
  <2>3. CASE HelperStep
    <3>1. CASE MainStep
      BY <1>3, <2>0, <2>1, <2>3, <3>1, MainClean
    <3>2. CASE \E w \in Sessions : OfWorker(w)
      BY <2>0, <2>1, <2>3, <3>2, WorkerClean
    <3>3. QED BY <2>3, <3>1, <3>2 DEF HelperStep, OfWorker
  <2>4. CASE ReceiveLine \/ UserStep \/ FrameStep
    BY <2>0, <2>1, <2>4, PanelClean
  <2>5. CASE UNCHANGED sessionVars
    <3>1. /\ UNCHANGED <<view, read, pipe, sent, generation, cmd, caller, worker, launcher>>
          /\ UNCHANGED <<trusted, stored, cancelled>>
      BY <2>5 DEF sessionVars, runtimeVars, vars, cells, panelVars, pairingVars
    <3>2. Hot' <=> Hot
      BY <3>1 DEF Hot, Wanted, Wants, Asking, Seeking, Seeks, Lapsed, Lapses
    <3>3. QrInv'
      BY <2>0, <3>1 DEF QrInv, QrOnly, Opening, QrCycle, OneWants, OneSeeks, OneLapses, Exclusive,
                        Wanted, Wants, Asking, Seeking, Seeks, Lapsed, Lapses
    <3>4. (Calm <=> Calm') /\ (Behind <=> Behind') /\ (Spare <=> Spare')
      BY <3>1 DEF Calm, Behind, PastWorkers, PastPipe, PastWords, Seeks, Spare, PanelCalm, Ordered,
                  Wanted, Wants, Unsettled, Settings, ForgotOnce
    <3>5. Calming' /\ Sought'
      BY <2>0, <3>1, <3>2, <3>4 DEF CleanInv, Calming, Sought, Advancing
    <3>6. Completing'
      <4>1. Quiet <=> Quiet'
        BY <3>1, <3>2, <3>4 DEF Quiet, Forgotten
      <4>2. \A i : (Completes(i)' <=> Completes(i)) /\ (Latest(i)' <=> Latest(i))
        BY <3>1 DEF Completes, Latest
      <4>3. Completing' <=> \A i : Completes(i)' => Quiet' /\ Latest(i)'
        BY DEF Completing
      <4>4. QED BY <2>0, <4>1, <4>2, <4>3 DEF CleanInv, Completing
    <3>7. LogReached' /\ RestartOnly' /\ Managed' /\ Forgetting'
      BY <2>0, <3>1 DEF CleanInv, LogReached, RestartOnly, Managed, Forgetting, Rest, Forgotten
    <3>8. Moving'
      <4>1. Older <=> Older'
        BY <3>1 DEF Older, PastWorkers, PastPipe, Seeks
      <4>2. QED BY <2>0, <3>1, <4>1 DEF CleanInv, Moving, Rest
    <3>9. QED BY <2>1, <3>3, <3>5, <3>6, <3>7, <3>8 DEF CleanInv
  <2>6. QED BY <2>2, <2>3, <2>4, <2>5 DEF PanelNext
<1>4. QED BY <1>1, <1>2, <1>3

(* When the panel sees its Start Over complete, the device is forgotten.     *)
LEMMA CompleteForgets ==
  ASSUME PanelTypeOK, CleanInv, HearStartOverComplete, view.startOver, ~view'.startOver
  PROVE  ~stored /\ ~trusted
<1>1. Restarted
  BY DEF Restarted
<1>2. Completing
  BY DEF CleanInv
<1>3. Quiet
  BY <1>1, <1>2, RestartedLatest
<1>4. QED BY <1>3 DEF Quiet, Forgotten

(* A session that the panel shows as live runs and is the one its commands   *)
(* name: the events between the old session and the new one clear the        *)
(* session facts (PairingState.qml:479-488, 738-757).                        *)
THEOREM SessionShown == PanelSpec => []ShownSessionRuns
<1>1. CASE PairsByCode
  <2>1. ShownSessionRuns
    BY <1>1 DEF ShownSessionRuns
  <2>2. QED BY <1>1, PTL DEF ShownSessionRuns, PairsByCode
<1>2. CASE ~PairsByCode
  <2>1. PanelInit => RestartsForgotten \/ CleanInv
    BY CleanStart
  <2>2. PanelInv /\ (RestartsForgotten \/ CleanInv) /\ [PanelNext]_sessionVars
          => (RestartsForgotten \/ CleanInv)'
    BY <1>2, CleanNext
  <2>3. PanelInv /\ (RestartsForgotten \/ CleanInv) => ShownSessionRuns
    BY ShownServes DEF ShownSessionRuns, CleanInv
  <2>4. QED BY <2>1, <2>2, <2>3, PanelInvariant, PTL DEF PanelSpec
<1>3. QED BY <1>1, <1>2

(* When the panel sees its Start Over complete, no pairing or reconnect      *)
(* worker has put the device back, in memory or on disk                      *)
(* (PairingState.qml:782-798, runtime.rs:698-704).                           *)
THEOREM ForgottenWhenComplete == PanelSpec => StartOverForgot
<1>1. CASE PairsByCode
  <2>1. [PanelNext]_sessionVars =>
          [HearStartOverComplete /\ view.startOver /\ ~view'.startOver
             /\ ~PairsByCode /\ ~RestartsForgotten => ~stored /\ ~trusted]_sessionVars
    BY <1>1
  <2>2. QED BY <2>1, PTL DEF PanelSpec, StartOverForgot
<1>2. CASE ~PairsByCode
  <2>1. PanelInit => RestartsForgotten \/ CleanInv
    BY CleanStart
  <2>2. PanelInv /\ (RestartsForgotten \/ CleanInv) /\ [PanelNext]_sessionVars
          => (RestartsForgotten \/ CleanInv)'
    BY <1>2, CleanNext
  <2>3. PanelInv /\ (RestartsForgotten \/ CleanInv) /\ [PanelNext]_sessionVars =>
          [HearStartOverComplete /\ view.startOver /\ ~view'.startOver
             /\ ~PairsByCode /\ ~RestartsForgotten => ~stored /\ ~trusted]_sessionVars
    BY CompleteForgets DEF PanelInv
  <2>4. QED BY <2>1, <2>2, <2>3, PanelInvariant, PTL DEF PanelSpec, StartOverForgot
<1>3. QED BY <1>1, <1>2
=============================================================================
