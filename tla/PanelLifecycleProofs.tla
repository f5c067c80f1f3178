------------------------- MODULE PanelLifecycleProofs -------------------------
(* Proofs about PanelLifecycle, for any number of helpers, openings and       *)
(* generations.                                                              *)
EXTENDS PanelLifecycle, SequenceTheorems, TLAPS

Views == [ready: BOOLEAN, generation: Nat, started: BOOLEAN, stage: Stages,
          trusted: BOOLEAN, keep: BOOLEAN]
Helpers == [work: Works, generation: Nat]
CommandLines == [type: CommandTypes, generation: Nat]
EventLines == [type: EventTypes, generation: Nat]
ProcessStates == {"none", "alive", "ending", "dead"}

LifecycleTypeOK ==
  /\ opened \in BOOLEAN /\ opens \in 0..MaxOpens /\ changes \in 0..MaxChanges
  /\ version \in {"none", "checking", "ending"}
  /\ running \in 0..MaxEpochs /\ accepted \in 0..MaxEpochs /\ counter \in 0..MaxEpochs
  /\ closing \in BOOLEAN /\ timer \in BOOLEAN
  /\ view \in Views /\ attempted \in BOOLEAN /\ missed \in BOOLEAN /\ kept \in BOOLEAN
  /\ remembered \in BOOLEAN /\ keepStored \in BOOLEAN
  /\ process \in [Epochs -> ProcessStates]
  /\ helper \in [Epochs -> Helpers]
  /\ guardian \in [Epochs -> GuardianSteps]
  /\ commands \in [Epochs -> Seq(CommandLines)]
  /\ events \in [Epochs -> Seq(EventLines)]

(* The panel accepts the epoch it runs, or has told it to end and accepts    *)
(* none.                                                                     *)
AcceptsRunning == accepted \in {0, running}

(* An epoch that is not counted yet has no process.                          *)
Unstarted == \A e \in Epochs : e > counter => process[e] = "none"

(* A helper that has not booted has said nothing, and no line a live helper   *)
(* wrote is of a generation it has not reached.                              *)
LinesReached ==
  \A e \in Epochs :
    process[e] # "dead" =>
      /\ helper[e].work = "boot" => events[e] = <<>> /\ helper[e].generation = 0
      /\ \A i \in 1..Len(events[e]) : events[e][i].generation <= helper[e].generation

LifecycleInv ==
  /\ LifecycleTypeOK /\ AcceptsRunning /\ Unstarted /\ LinesReached
  /\ ReadyIsCurrent /\ NoOrphan

-----------------------------------------------------------------------------
(* What the handlers make of the view.                                       *)
LEMMA ResetTyped ==
  ASSUME NEW v \in Views
  PROVE  /\ Reset(v) \in Views /\ ~Reset(v).ready
         /\ [Reset(v) EXCEPT !.keep = FALSE] \in Views
         /\ ~[Reset(v) EXCEPT !.keep = FALSE].ready
<1>1. {"unpaired", "disconnected"} \subseteq Stages /\ 0 \in Nat
  BY DEF Stages
<1>2. Reset(v) \in Views /\ ~Reset(v).ready
  BY <1>1 DEF Views, Reset
<1>3. LET r == Reset(v) IN [r EXCEPT !.keep = FALSE] \in Views /\ ~[r EXCEPT !.keep = FALSE].ready
  BY <1>2 DEF Views
<1>4. QED BY <1>2, <1>3

(* What a failure leaves of the panel's picture.                             *)
LEMMA FailedTyped ==
  ASSUME NEW v \in Views
  PROVE  /\ ProtocolFailed(v) \in Views /\ ~ProtocolFailed(v).ready
         /\ ProtocolFailed(v).generation = 0
         /\ Failed(v) \in Views /\ Failed(v).generation = v.generation
         /\ Failed(v).ready = v.ready
<1>1. {"disconnected", "unavailable"} \subseteq Stages /\ 0 \in Nat
  BY DEF Stages
<1>2. /\ ProtocolFailed(v) \in Views /\ ~ProtocolFailed(v).ready
      /\ ProtocolFailed(v).generation = 0
  BY <1>1 DEF Views, ProtocolFailed
<1>3. Failed(v) \in Views /\ Failed(v).generation = v.generation /\ Failed(v).ready = v.ready
  BY <1>1 DEF Views, Failed
<1>4. QED BY <1>2, <1>3

(* What moving to a generation leaves of the panel's picture.                *)
LEMMA AtTyped ==
  ASSUME NEW v \in Views, NEW g \in Nat
  PROVE  At(v, g) \in Views /\ At(v, g).generation = g /\ At(v, g).ready = v.ready
<1>1. CASE g = v.generation BY <1>1 DEF At
<1>2. CASE g # v.generation BY <1>2 DEF At, Views
<1>3. QED BY <1>1, <1>2

(* A line takes the view no further than the generation it is of, and makes   *)
(* it ready at generation 0 only.                                            *)
LEMMA ShownTyped ==
  ASSUME view \in Views, remembered \in BOOLEAN, keepStored \in BOOLEAN,
         NEW line \in EventLines
  PROVE  /\ Shown(line) \in Views
         /\ Shown(line).generation \in {view.generation, line.generation, 0}
         /\ Shown(line).ready => view.ready \/ Shown(line).generation = 0
<1> DEFINE g == line.generation
           v == At(view, g)
<1>1. /\ line.type \in EventTypes /\ g \in Nat
      /\ {"unpaired", "disconnected", "connecting", "connected", "started"} \subseteq Stages
  BY DEF EventLines, Stages
<1>2. v \in Views /\ v.generation = g /\ v.ready = view.ready
  BY <1>1, AtTyped
<1>3. CASE line.type = "ready"
  <2> DEFINE w == [view EXCEPT !.ready = TRUE, !.generation = 0, !.trusted = remembered,
                               !.keep = keepStored,
                               !.stage = IF remembered THEN "disconnected" ELSE "unpaired"]
  <2>1. w \in Views /\ w.generation = 0
    BY <1>1 DEF Views
  <2>2. Shown(line) = IF view.ready THEN view ELSE w
    BY <1>3 DEF Shown, KeepTypes
  <2> HIDE DEF w
  <2>3. QED BY <1>3, <2>1, <2>2
<1>4. CASE line.type \in {"qrWaiting", "cancelled"}
  <2>1. Shown(line) = [view EXCEPT !.stage = "unpaired"]
    BY <1>4 DEF Shown, KeepTypes
  <2>2. QED BY <1>1, <2>1 DEF Views
<1>5. CASE line.type \in {"connecting", "connected"}
  <2>1. Shown(line) = IF IsCurrent(g) \/ Follows(g)
                      THEN [v EXCEPT !.trusted = TRUE, !.stage = line.type] ELSE view
    BY <1>5 DEF Shown, KeepTypes
  <2> DEFINE w == [v EXCEPT !.trusted = TRUE, !.stage = line.type]
  <2>2. line.type \in Stages
    BY <1>1, <1>5
  <2> HIDE DEF v
  <2>3. w \in Views /\ w.generation = g /\ w.ready = view.ready
    BY <1>2, <2>2 DEF Views
  <2> HIDE DEF w
  <2>4. Shown(line) = w \/ Shown(line) = view
    BY <2>1 DEF w, v
  <2>5. QED BY <2>3, <2>4
<1>6. CASE line.type = "started"
  <2>1. Shown(line) = IF IsCurrent(g) THEN [view EXCEPT !.trusted = TRUE, !.started = TRUE,
                                                        !.stage = "started"] ELSE view
    BY <1>6 DEF Shown, KeepTypes
  <2>2. QED BY <1>1, <2>1 DEF Views
<1>7. CASE line.type \in {"ended", "lifecycleFailure"}
  <2>1. Shown(line) = IF Follows(g) THEN Failed(v) ELSE view
    BY <1>7 DEF Shown, KeepTypes
  <2> HIDE DEF v
  <2>2. Failed(v) \in Views /\ Failed(v).generation = g /\ Failed(v).ready = view.ready
    BY <1>1, <1>2, FailedTyped
  <2>3. QED BY <2>1, <2>2 DEF v
<1>8. CASE line.type = "stopped"
  <2>1. Shown(line) = IF Follows(g) \/ (IsCurrent(g) /\ ~view.started)
                      THEN [v EXCEPT !.stage = "disconnected"] ELSE view
    BY <1>8 DEF Shown, KeepTypes
  <2> DEFINE w == [v EXCEPT !.stage = "disconnected"]
  <2> HIDE DEF v
  <2>2. w \in Views /\ w.generation = g /\ w.ready = view.ready
    BY <1>1, <1>2 DEF Views
  <2> HIDE DEF w
  <2>3. Shown(line) = w \/ Shown(line) = view
    BY <2>1 DEF w, v
  <2>4. QED BY <2>2, <2>3
<1>9. CASE line.type = "stale"
  <2>1. Shown(line) = IF IsCurrent(g) THEN ProtocolFailed(view) ELSE view
    BY <1>9 DEF Shown, KeepTypes
  <2>2. /\ ProtocolFailed(view) \in Views /\ ProtocolFailed(view).generation = 0
        /\ ~ProtocolFailed(view).ready
    BY FailedTyped
  <2>3. QED BY <2>1, <2>2
<1>10. CASE line.type = "failure"
  <2>1. Shown(line) = IF view.ready /\ view.generation = 0 THEN Failed(view) ELSE view
    BY <1>10 DEF Shown, KeepTypes
  <2>2. /\ Failed(view) \in Views /\ Failed(view).generation = view.generation
        /\ Failed(view).ready = view.ready
    BY <1>1, FailedTyped
  <2>3. QED BY <2>1, <2>2
<1>11. CASE line.type = "refused"
  <2>1. Shown(line) = ProtocolFailed(view)
    BY <1>11 DEF Shown, KeepTypes
  <2>2. /\ ProtocolFailed(view) \in Views /\ ProtocolFailed(view).generation = 0
        /\ ~ProtocolFailed(view).ready
    BY FailedTyped
  <2>3. QED BY <2>1, <2>2
<1>12. CASE line.type = "rejected"
  <2> DEFINE w == [view EXCEPT !.stage = "unpaired", !.trusted = FALSE]
  <2>1. w \in Views /\ w.generation = view.generation /\ w.ready = view.ready
    BY <1>1 DEF Views
  <2>2. Shown(line) = w \/ Shown(line) = view
    BY <1>12 DEF Shown, KeepTypes
  <2> HIDE DEF w
  <2>3. QED BY <2>1, <2>2
<1>13. CASE line.type \in KeepTypes
  <2> DEFINE w == [view EXCEPT !.keep = (line.type = "keepOn")]
  <2>1. w \in Views /\ w.generation = view.generation /\ w.ready = view.ready
    BY DEF Views
  <2>2. Shown(line) = IF view.ready /\ g = view.generation THEN w ELSE view
    BY <1>13 DEF Shown, KeepTypes
  <2> HIDE DEF w
  <2>3. QED BY <2>1, <2>2
<1>14. QED
  BY <1>1, <1>3, <1>4, <1>5, <1>6, <1>7, <1>8, <1>9, <1>10, <1>11, <1>12, <1>13 DEF EventTypes

-----------------------------------------------------------------------------
(* The panel's own steps leave the helpers and what they wrote alone.        *)
LEMMA PanelQuiet ==
  ASSUME LifecycleInv, LifecycleTypeOK', helper' = helper, guardian' = guardian,
         events' = events, \A e \in Epochs : process'[e] = "dead" <=> process[e] = "dead",
         AcceptsRunning', Unstarted',
         view'.ready => /\ view.ready /\ running' = running /\ accepted' = accepted
                        /\ view'.generation = view.generation
  PROVE  LifecycleInv'
<1>1. LinesReached' /\ NoOrphan'
  BY DEF LifecycleInv, LinesReached, NoOrphan
<1>2. ReadyIsCurrent'
  <2>1. SUFFICES ASSUME view'.ready
        PROVE  /\ accepted' = running' /\ running' # 0
               /\ process'[running'] # "dead" =>
                    /\ helper'[running'].work # "boot"
                    /\ view'.generation <= helper'[running'].generation
    BY DEF ReadyIsCurrent
  <2>2. /\ running' = running /\ view'.generation = view.generation /\ running # 0
        /\ accepted' = accepted /\ accepted = running
        /\ process[running] # "dead" =>
             /\ helper[running].work # "boot" /\ view.generation <= helper[running].generation
    BY <2>1 DEF LifecycleInv, ReadyIsCurrent
  <2>3. running \in Epochs
    BY <2>2 DEF LifecycleInv, LifecycleTypeOK, Epochs
  <2>4. QED BY <2>2, <2>3
<1>3. QED BY <1>1, <1>2 DEF LifecycleInv

(* Commands and events of any generation are lines.                          *)
LEMMA LineTyped ==
  ASSUME NEW g \in Nat
  PROVE  /\ \A t \in CommandTypes : Line(t, g) \in CommandLines
         /\ \A t \in EventTypes : Line(t, g) \in EventLines /\ Line(t, g).generation = g
BY DEF Line, CommandLines, EventLines

(* A command sent to the running epoch keeps the pipes typed.                *)
LEMMA CommandsTyped ==
  ASSUME LifecycleTypeOK, NEW c \in CommandLines,
         \/ commands' = commands
         \/ commands' = [commands EXCEPT ![running] = Append(@, c)]
  PROVE  commands' \in [Epochs -> Seq(CommandLines)]
<1>1. commands \in [Epochs -> Seq(CommandLines)]
  BY DEF LifecycleTypeOK
<1>2. CASE running \in Epochs
  <2>1. Append(commands[running], c) \in Seq(CommandLines)
    BY <1>1, <1>2, AppendProperties
  <2>2. QED BY <1>1, <2>1
<1>3. CASE running \notin Epochs
  BY <1>1, <1>3
<1>4. QED BY <1>2, <1>3

(* Opening the panel keeps the invariant.                                    *)
LEMMA OpenKeeps == LifecycleInv /\ Open => LifecycleInv'
<1> SUFFICES ASSUME LifecycleInv, Open PROVE LifecycleInv'
  OBVIOUS
<1>1. LifecycleTypeOK /\ view.generation \in Nat
  BY DEF LifecycleInv, LifecycleTypeOK, Views
<1>2. commands' \in [Epochs -> Seq(CommandLines)]
  <2>1. Line("startQr", view.generation) \in CommandLines
    BY <1>1, LineTyped DEF CommandTypes
  <2>2. \/ commands' = commands
        \/ commands' = [commands EXCEPT ![running] =
                          Append(@, Line("startQr", view.generation))]
    BY DEF Open, Write
  <2>3. QED BY <1>1, <2>1, <2>2, CommandsTyped
<1>3. /\ opened' = TRUE /\ opens' = opens + 1 /\ opens < MaxOpens /\ closing' = FALSE
      /\ timer' = FALSE /\ version' \in {"none", "checking", "ending"}
      /\ attempted' \in BOOLEAN /\ missed' \in BOOLEAN /\ kept' \in BOOLEAN
      /\ UNCHANGED <<changes, running, accepted, counter, view, remembered, keepStored, process, helper,
                     guardian, events>>
  BY DEF Open, Launched, stores, LifecycleInv, LifecycleTypeOK, Views
<1>4. opens' \in 0..MaxOpens
  BY <1>1, <1>3, LifecycleAssumption DEF LifecycleTypeOK
<1>5. LifecycleTypeOK'
  BY <1>1, <1>2, <1>3, <1>4 DEF LifecycleTypeOK
<1>6. Unstarted' /\ AcceptsRunning'
  BY <1>3 DEF LifecycleInv, Unstarted, AcceptsRunning
<1>7. QED BY <1>3, <1>5, <1>6, PanelQuiet

(* A change of the preference keeps the invariant.                           *)
LEMMA ChangeKeepKeeps == LifecycleInv /\ ChangeKeep => LifecycleInv'
<1> SUFFICES ASSUME LifecycleInv, ChangeKeep PROVE LifecycleInv'
  OBVIOUS
<1>1. LifecycleTypeOK /\ view.generation \in Nat
  BY DEF LifecycleInv, LifecycleTypeOK, Views
<1>2. commands' \in [Epochs -> Seq(CommandLines)]
  <2>1. /\ Line("keepOn", view.generation) \in CommandLines
        /\ Line("keepOff", view.generation) \in CommandLines
    BY <1>1, LineTyped DEF CommandTypes, KeepTypes
  <2>2. \/ commands' = [commands EXCEPT ![running] = Append(@, Line("keepOn", view.generation))]
        \/ commands' = [commands EXCEPT ![running] = Append(@, Line("keepOff", view.generation))]
    BY DEF ChangeKeep, Write
  <2>3. QED BY <1>1, <2>1, <2>2, CommandsTyped
<1>3. /\ changes' = changes + 1 /\ changes < MaxChanges
      /\ UNCHANGED <<opened, opens, version, running, accepted, counter, closing, timer, view,
                     attempted, missed, kept, remembered, keepStored, process, helper, guardian,
                     events>>
  BY DEF ChangeKeep, facts, history, stores
<1>4. changes' \in 0..MaxChanges
  BY <1>1, <1>3, LifecycleAssumption DEF LifecycleTypeOK
<1>5. LifecycleTypeOK'
  BY <1>1, <1>2, <1>3, <1>4 DEF LifecycleTypeOK
<1>6. Unstarted' /\ AcceptsRunning'
  BY <1>3 DEF LifecycleInv, Unstarted, AcceptsRunning
<1>7. QED BY <1>3, <1>5, <1>6, PanelQuiet

(* Closing the panel keeps the invariant, whatever closeAction answers.      *)
LEMMA CloseKeeps == LifecycleInv /\ Close => LifecycleInv'
<1> SUFFICES ASSUME LifecycleInv, Close PROVE LifecycleInv'
  OBVIOUS
<1>1. LifecycleTypeOK /\ view.generation \in Nat
  BY DEF LifecycleInv, LifecycleTypeOK, Views
<1>2. commands' \in [Epochs -> Seq(CommandLines)]
  <2>1. /\ Line("cancel", view.generation) \in CommandLines
        /\ Line("stop", view.generation) \in CommandLines
    BY <1>1, LineTyped DEF CommandTypes
  <2>2. \/ commands' = commands
        \/ commands' = [commands EXCEPT ![running] = Append(@, Line("cancel", view.generation))]
        \/ commands' = [commands EXCEPT ![running] = Append(@, Line("stop", view.generation))]
    BY DEF Close, SendClose, Write
  <2>3. QED BY <1>1, <2>1, <2>2, CommandsTyped
<1>3. /\ opened' = FALSE /\ version' \in {"none", "ending"} /\ closing' \in BOOLEAN
      /\ timer' \in BOOLEAN /\ attempted' = FALSE /\ missed' = FALSE /\ kept' \in BOOLEAN
      /\ UNCHANGED <<opens, changes, running, accepted, counter, view, remembered, keepStored,
                     process, helper, guardian, events>>
  BY DEF Close, Ended, stores, LifecycleInv, LifecycleTypeOK, Views
<1>4. LifecycleTypeOK'
  BY <1>1, <1>2, <1>3 DEF LifecycleTypeOK
<1>5. Unstarted' /\ AcceptsRunning'
  BY <1>3 DEF LifecycleInv, Unstarted, AcceptsRunning
<1>6. QED BY <1>3, <1>4, <1>5, PanelQuiet

(* The panel lets go of the helper: what it showed of it goes as well.        *)
LEMMA FinishShutdownKeeps ==
  ASSUME LifecycleInv, FinishShutdown, events' \in [Epochs -> Seq(EventLines)],
         UNCHANGED <<history, remembered, keepStored, helper, guardian, commands>>
  PROVE  /\ LifecycleTypeOK' /\ AcceptsRunning' /\ Unstarted' /\ ReadyIsCurrent' /\ NoOrphan'
         /\ \A e \in Epochs : process'[e] = "dead" <=> process[e] = "dead"
<1>1. LifecycleTypeOK
  BY DEF LifecycleInv
<1>2. process' = [e \in Epochs |-> IF e = running /\ process[e] = "alive" THEN "ending"
                                   ELSE process[e]]
  BY DEF FinishShutdown
<1>3. process' \in [Epochs -> ProcessStates]
  BY <1>1, <1>2 DEF LifecycleTypeOK, ProcessStates
<1>4. \A e \in Epochs : process'[e] = "dead" <=> process[e] = "dead"
  BY <1>2
<1>5. view' \in Views /\ ~view'.ready
  BY <1>1, ResetTyped DEF FinishShutdown, LifecycleTypeOK
<1>6. /\ accepted' = 0 /\ closing' = FALSE /\ timer' = FALSE
      /\ version' \in {"none", "ending"} /\ 0 \in 0..MaxEpochs
      /\ UNCHANGED <<opened, opens, changes, running, counter, attempted, missed, kept>>
  BY LifecycleAssumption DEF FinishShutdown, Ended, history
<1>7. LifecycleTypeOK'
  BY <1>1, <1>3, <1>5, <1>6 DEF LifecycleTypeOK
<1>8. Unstarted'
  BY <1>2, <1>6 DEF LifecycleInv, Unstarted
<1>9. AcceptsRunning' /\ ReadyIsCurrent'
  BY <1>5, <1>6 DEF AcceptsRunning, ReadyIsCurrent
<1>10. NoOrphan'
  BY <1>4 DEF LifecycleInv, NoOrphan
<1>11. QED BY <1>4, <1>7, <1>8, <1>9, <1>10

(* The stop timer keeps the invariant.                                       *)
LEMMA TimerFiresKeeps == LifecycleInv /\ TimerFires => LifecycleInv'
<1> SUFFICES ASSUME LifecycleInv, TimerFires PROVE LifecycleInv'
  OBVIOUS
<1>1. /\ FinishShutdown /\ events' = events
      /\ UNCHANGED <<history, remembered, keepStored, helper, guardian, commands>>
  BY DEF TimerFires, history, stores, pipes
<1>2. events' \in [Epochs -> Seq(EventLines)]
  BY <1>1 DEF LifecycleInv, LifecycleTypeOK
<1>3. /\ LifecycleTypeOK' /\ AcceptsRunning' /\ Unstarted' /\ ReadyIsCurrent' /\ NoOrphan'
      /\ \A e \in Epochs : process'[e] = "dead" <=> process[e] = "dead"
  BY <1>1, <1>2, FinishShutdownKeeps
<1>4. LinesReached'
  BY <1>1, <1>3 DEF LifecycleInv, LinesReached
<1>5. QED BY <1>3, <1>4 DEF LifecycleInv

(* A helper of the right version keeps the invariant.                        *)
LEMMA VersionMatchesKeeps == LifecycleInv /\ VersionMatches => LifecycleInv'
<1> SUFFICES ASSUME LifecycleInv, VersionMatches PROVE LifecycleInv'
  OBVIOUS
<1>1. LifecycleTypeOK
  BY DEF LifecycleInv
<1>2. counter + 1 \in Epochs /\ counter + 1 \in 0..MaxEpochs /\ counter \in Nat
  BY <1>1, LifecycleAssumption DEF VersionMatches, LifecycleTypeOK, Epochs
<1>3. process' = [process EXCEPT ![counter + 1] = "alive"] /\ process[counter + 1] = "none"
  BY <1>2 DEF LifecycleInv, Unstarted, VersionMatches
<1>4. /\ process' \in [Epochs -> ProcessStates]
      /\ \A e \in Epochs : process'[e] = "dead" <=> process[e] = "dead"
  BY <1>1, <1>2, <1>3 DEF LifecycleTypeOK, ProcessStates
<1>5. view' \in Views /\ ~view'.ready
  BY <1>1, ResetTyped DEF VersionMatches, LifecycleTypeOK
<1>6. /\ version' = "none" /\ counter' = counter + 1 /\ accepted' = counter + 1
      /\ running' = counter + 1
      /\ UNCHANGED <<opened, opens, changes, closing, timer, attempted, missed, kept, remembered,
                     keepStored, helper, guardian, commands, events>>
  BY DEF VersionMatches, history, stores, pipes
<1>7. LifecycleTypeOK'
  BY <1>1, <1>2, <1>4, <1>5, <1>6 DEF LifecycleTypeOK
<1>8. Unstarted'
  <2>1. SUFFICES ASSUME NEW e \in Epochs, e > counter + 1 PROVE process'[e] = "none"
    BY <1>6 DEF Unstarted
  <2>2. e # counter + 1 /\ e > counter
    BY <1>2, <2>1 DEF Epochs
  <2>3. QED BY <1>1, <1>3, <2>2 DEF LifecycleInv, Unstarted, LifecycleTypeOK
<1>9. AcceptsRunning'
  BY <1>6 DEF AcceptsRunning
<1>10. QED BY <1>4, <1>5, <1>6, <1>7, <1>8, <1>9, PanelQuiet

(* Letting go of a helper, by version or after its exit, keeps the
   invariant.                                                                *)
LEMMA LetGoKeeps ==
  ASSUME LifecycleInv, VersionDiffers \/ NoticeExit
  PROVE  LifecycleInv'
<1>1. LifecycleTypeOK /\ AcceptsRunning /\ 0 \in 0..MaxEpochs
  BY LifecycleAssumption DEF LifecycleInv
<1>2. /\ UNCHANGED <<opened, opens, changes, counter, closing, timer, attempted, missed, kept,
                     remembered, keepStored, process, helper, guardian, commands, events>>
      /\ version' \in {"none", "checking", "ending"}
      /\ \/ running' = running /\ accepted' = accepted
         \/ running' = 0 /\ accepted' = 0
  BY <1>1 DEF VersionDiffers, NoticeExit, Exited, Launched, history, stores, pipes, LifecycleTypeOK
<1>3. /\ view' \in Views
      /\ view'.ready => view' = view /\ running' = running /\ accepted' = accepted
  <2>1. view \in Views
    BY <1>1 DEF LifecycleTypeOK
  <2>2. CASE VersionDiffers /\ opened
    BY <2>1, <2>2, FailedTyped DEF VersionDiffers
  <2>3. CASE VersionDiffers /\ ~opened
    BY <2>1, <2>3 DEF VersionDiffers
  <2>4. CASE NoticeExit /\ accepted # 0
    BY <2>1, <2>4, ResetTyped DEF NoticeExit
  <2>5. CASE NoticeExit /\ accepted = 0
    <3>1. view' = view /\ running # 0
      BY <2>5 DEF NoticeExit, Exited
    <3>2. ~view.ready
      BY <2>5, <3>1 DEF LifecycleInv, ReadyIsCurrent
    <3>3. QED BY <2>1, <3>1, <3>2
  <2>6. QED BY <2>2, <2>3, <2>4, <2>5
<1>4. LifecycleTypeOK'
  BY <1>1, <1>2, <1>3 DEF LifecycleTypeOK
<1>5. Unstarted' /\ AcceptsRunning'
  BY <1>1, <1>2 DEF LifecycleInv, Unstarted, AcceptsRunning
<1>6. view'.ready => view.ready /\ view'.generation = view.generation
  BY <1>3
<1>7. QED BY <1>2, <1>3, <1>4, <1>5, <1>6, PanelQuiet

-----------------------------------------------------------------------------
(* A helper dies and takes scrcpy with it, unless its guardian has not asked  *)
(* for that yet: then it finds out itself.                                   *)
LEMMA DieKeeps == ASSUME LifecycleInv, NEW e \in Epochs, Die(e) PROVE LifecycleInv'
<1>1. LifecycleTypeOK
  BY DEF LifecycleInv
<1>2. UNCHANGED <<opened, opens, changes, version, running, accepted, counter, closing, timer,
                  view, attempted, missed, kept, remembered, keepStored, events>>
  BY DEF Die, panel, facts, history, stores
<1>3. /\ process' \in [Epochs -> ProcessStates] /\ process'[e] = "dead"
      /\ \A o \in Epochs \ {e} : process'[o] = process[o]
  BY <1>1 DEF Die, LifecycleTypeOK, ProcessStates
<1>4. /\ guardian' \in [Epochs -> GuardianSteps] /\ guardian'[e] \in {"none", "forked"}
      /\ \A o \in Epochs \ {e} : guardian'[o] = guardian[o]
  BY <1>1 DEF Die, LifecycleTypeOK, GuardianSteps
<1>5. commands' \in [Epochs -> Seq(CommandLines)]
  <2>1. <<>> \in Seq(CommandLines)
    OBVIOUS
  <2>2. QED BY <1>1, <2>1 DEF Die, LifecycleTypeOK
<1>6. /\ helper' \in [Epochs -> Helpers]
      /\ \A o \in Epochs \ {e} : helper'[o] = helper[o]
  <2>1. NoHelper \in Helpers
    BY DEF NoHelper, Helpers, Works
  <2>2. QED BY <1>1, <2>1 DEF Die, LifecycleTypeOK
<1>7. LifecycleTypeOK'
  BY <1>1, <1>2, <1>3, <1>4, <1>5, <1>6 DEF LifecycleTypeOK
<1>8. Unstarted'
  <2>1. process[e] # "none"
    BY DEF Die
  <2>2. QED BY <1>2, <1>3, <2>1 DEF LifecycleInv, Unstarted
<1>9. LinesReached'
  BY <1>2, <1>3, <1>6 DEF LifecycleInv, LinesReached
<1>10. ReadyIsCurrent'
  <2>1. running = 0 \/ running \in Epochs
    BY <1>1 DEF LifecycleTypeOK, Epochs
  <2>2. QED BY <1>2, <1>3, <1>6, <2>1 DEF LifecycleInv, ReadyIsCurrent
<1>11. NoOrphan'
  BY <1>3, <1>4 DEF LifecycleInv, NoOrphan
<1>12. QED BY <1>2, <1>7, <1>8, <1>9, <1>10, <1>11 DEF LifecycleInv, AcceptsRunning

(* Only a helper that lives becomes scrcpy's parent: the guardian looks       *)
(* before it goes on.                                                        *)
LEMMA GuardianOnly ==
  ASSUME LifecycleInv, NEW e \in Epochs, NEW to \in GuardianSteps,
         process[e] = "dead" => to \notin {"scrcpy", "live"},
         guardian' = [guardian EXCEPT ![e] = to],
         UNCHANGED <<panel, facts, stores, process, helper, pipes>>
  PROVE  LifecycleInv'
<1>1. LifecycleTypeOK
  BY DEF LifecycleInv
<1>2. /\ guardian' \in [Epochs -> GuardianSteps] /\ guardian'[e] = to
      /\ \A o \in Epochs \ {e} : guardian'[o] = guardian[o]
  BY <1>1 DEF LifecycleTypeOK
<1>3. UNCHANGED <<opened, opens, changes, version, running, accepted, counter, closing, timer,
                  view, attempted, missed, kept, remembered, keepStored, process, helper,
                  commands, events>>
  BY DEF panel, facts, history, stores, pipes
<1>4. LifecycleTypeOK'
  BY <1>1, <1>2, <1>3 DEF LifecycleTypeOK
<1>5. NoOrphan'
  BY <1>2, <1>3 DEF LifecycleInv, NoOrphan
<1>6. AcceptsRunning' /\ Unstarted' /\ LinesReached' /\ ReadyIsCurrent'
  BY <1>3 DEF LifecycleInv, AcceptsRunning, Unstarted, LinesReached, ReadyIsCurrent
<1>7. QED BY <1>4, <1>5, <1>6 DEF LifecycleInv

(* The guardian of scrcpy and what it spawns keep the invariant.             *)
LEMMA GuardianKeeps ==
  ASSUME LifecycleInv, NEW e \in Epochs, Guardian(e) \/ Spawn(e)
  PROVE  LifecycleInv'
<1>1. {"none", "forked", "armed", "scrcpy"} \subseteq GuardianSteps
  BY DEF GuardianSteps
<1>2. CASE Guardian(e) BY <1>1, <1>2, GuardianOnly DEF Guardian, GuardianMoves
<1>3. CASE Spawn(e) BY <1>1, <1>3, GuardianOnly DEF Spawn
<1>4. QED BY <1>2, <1>3

-----------------------------------------------------------------------------
(* A live helper writes a line of a generation it has reached.               *)
Writes(e, w, g, t, n) ==
  /\ Alive(e) /\ helper[e].generation <= g /\ n <= g
  /\ \/ helper' = [helper EXCEPT ![e] = [work |-> w, generation |-> g]]
     \/ helper' = helper /\ helper[e].work = w /\ helper[e].generation = g
  /\ events' = [events EXCEPT ![e] = Append(events[e], Line(t, n))]
  /\ \/ guardian' = guardian
     \/ \E s \in {"none", "live"} : guardian' = [guardian EXCEPT ![e] = s]
  /\ \/ commands' = commands
     \/ commands' = [commands EXCEPT ![e] = Tail(commands[e])] /\ commands[e] # <<>>
  /\ remembered' \in BOOLEAN /\ keepStored' \in BOOLEAN
  /\ UNCHANGED <<panel, facts, process>>

(* A helper that goes on to other work and writes a line keeps the
   invariant.                                                                *)
LEMMA HelperWrites ==
  ASSUME LifecycleInv, NEW e \in Epochs, NEW w \in Works \ {"boot"}, NEW g \in Nat,
         NEW t \in EventTypes, NEW n \in Nat, Writes(e, w, g, t, n)
  PROVE  LifecycleInv'
<1>1. LifecycleTypeOK /\ process[e] \notin {"none", "dead"}
  BY DEF LifecycleInv, Alive, Writes
<1>2. UNCHANGED <<opened, opens, changes, version, running, accepted, counter, closing, timer,
                  view, attempted, missed, kept, process>>
  BY DEF panel, facts, history, Writes
<1>3. /\ helper' \in [Epochs -> Helpers] /\ helper'[e].work = w /\ helper'[e].generation = g
      /\ \A o \in Epochs \ {e} : helper'[o] = helper[o]
  <2>1. helper \in [Epochs -> Helpers] /\ [work |-> w, generation |-> g] \in Helpers
    BY <1>1 DEF LifecycleTypeOK, Helpers
  <2>2. QED BY <2>1 DEF Writes
<1>4. Line(t, n) \in EventLines /\ Line(t, n).generation = n
  BY LineTyped
<1>5. /\ events \in [Epochs -> Seq(EventLines)] /\ events[e] \in Seq(EventLines)
      /\ events' = [events EXCEPT ![e] = Append(events[e], Line(t, n))]
  BY <1>1 DEF Writes, LifecycleTypeOK
<1>6. /\ events' \in [Epochs -> Seq(EventLines)]
      /\ events'[e] = Append(events[e], Line(t, n))
      /\ \A o \in Epochs \ {e} : events'[o] = events[o]
  <2>1. Append(events[e], Line(t, n)) \in Seq(EventLines)
    BY <1>4, <1>5, AppendProperties
  <2>2. QED BY <1>5, <2>1
<1>7. \A i \in 1..Len(events'[e]) : events'[e][i].generation <= g
  <2>1. TAKE i \in 1..Len(events'[e])
  <2>2. /\ Len(events'[e]) = Len(events[e]) + 1 /\ Len(events[e]) \in Nat
        /\ events'[e][Len(events[e]) + 1] = Line(t, n)
        /\ \A k \in 1..Len(events[e]) : events'[e][k] = events[e][k]
    BY <1>4, <1>5, <1>6, AppendProperties
  <2>3. CASE i = Len(events[e]) + 1 BY <1>4, <2>2, <2>3 DEF Writes
  <2>4. CASE i \in 1..Len(events[e])
    <3>1. events[e][i].generation <= helper[e].generation /\ events'[e][i] = events[e][i]
      BY <1>1, <2>2, <2>4 DEF LifecycleInv, LinesReached
    <3>2. events[e][i].generation \in Nat /\ helper[e].generation \in Nat
      <4>1. events[e][i] \in EventLines
        BY <1>5, <2>4, ElementOfSeq
      <4>2. QED BY <1>1, <4>1 DEF LifecycleTypeOK, EventLines, Helpers
    <3>3. helper[e].generation <= g
      BY DEF Writes
    <3>4. QED BY <3>1, <3>2, <3>3
  <2>5. QED BY <2>2, <2>3, <2>4
<1>8. commands' \in [Epochs -> Seq(CommandLines)]
  <2>1. commands \in [Epochs -> Seq(CommandLines)]
    BY <1>1 DEF LifecycleTypeOK
  <2>2. commands[e] # <<>> => Tail(commands[e]) \in Seq(CommandLines)
    BY <2>1, HeadTailProperties
  <2>3. QED BY <2>1, <2>2 DEF Writes
<1>9. /\ guardian' \in [Epochs -> GuardianSteps]
      /\ \A o \in Epochs \ {e} : guardian'[o] = guardian[o]
  BY <1>1 DEF LifecycleTypeOK, GuardianSteps, Writes
<1>10. LifecycleTypeOK'
  BY <1>1, <1>2, <1>3, <1>6, <1>8, <1>9 DEF LifecycleTypeOK, Writes
<1>11. LinesReached'
  BY <1>2, <1>3, <1>6, <1>7 DEF LifecycleInv, LinesReached
<1>12. ReadyIsCurrent'
  <2>1. running = 0 \/ running \in Epochs
    BY <1>1 DEF LifecycleTypeOK, Epochs
  <2>2. CASE running = e
    <3>1. view.ready => view.generation <= g
      <4>1. view.generation \in Nat /\ helper[e].generation \in Nat
        BY <1>1 DEF LifecycleTypeOK, Views, Helpers
      <4>2. view.ready => view.generation <= helper[e].generation
        BY <1>1, <2>2 DEF LifecycleInv, ReadyIsCurrent
      <4>3. helper[e].generation <= g
        BY DEF Writes
      <4>4. QED BY <4>1, <4>2, <4>3
    <3>2. QED BY <1>2, <1>3, <2>2, <3>1 DEF LifecycleInv, ReadyIsCurrent
  <2>3. CASE running # e
    BY <1>2, <1>3, <2>1, <2>3 DEF LifecycleInv, ReadyIsCurrent
  <2>4. QED BY <2>2, <2>3
<1>13. NoOrphan'
  BY <1>1, <1>2, <1>9 DEF LifecycleInv, NoOrphan
<1>14. AcceptsRunning' /\ Unstarted'
  BY <1>2 DEF LifecycleInv, AcceptsRunning, Unstarted
<1>15. QED BY <1>10, <1>11, <1>12, <1>13, <1>14 DEF LifecycleInv

(* A line of a helper that stays what it is.                                 *)
LEMMA HelperTyped ==
  ASSUME LifecycleInv, NEW e \in Epochs
  PROVE  /\ helper[e].work \in Works /\ helper[e].generation \in Nat
         /\ remembered \in BOOLEAN /\ keepStored \in BOOLEAN
         /\ helper[e].generation + 1 \in Nat
         /\ helper[e].generation <= helper[e].generation + 1
<1>1. /\ helper[e].work \in Works /\ helper[e].generation \in Nat
      /\ remembered \in BOOLEAN /\ keepStored \in BOOLEAN
  BY DEF LifecycleInv, LifecycleTypeOK, Helpers
<1>2. QED BY <1>1

(* The names of events and kinds of work the helper's steps use.             *)
LEMMA EventNames ==
  /\ {"ready", "qrWaiting", "cancelled", "stopped", "stale", "refused", "failure", "rejected",
      "connecting", "connected", "started", "ended", "lifecycleFailure", "keepOn", "keepOff"}
       \subseteq EventTypes
  /\ {"idle", "pairing", "connecting", "session"} \subseteq Works \ {"boot"}
BY DEF EventTypes, KeepTypes, Works

(* The helper's first line keeps the invariant.                              *)
LEMMA BootKeeps == ASSUME LifecycleInv, NEW e \in Epochs, Boot(e) PROVE LifecycleInv'
<1>1. helper[e].generation = 0 /\ remembered \in BOOLEAN /\ keepStored \in BOOLEAN
  BY HelperTyped DEF LifecycleInv, LinesReached, Boot, Alive
<1>2. Writes(e, "idle", 0, "ready", 0)
  BY <1>1 DEF Writes, Boot, Becomes, Tell, stores
<1>3. QED BY <1>2, EventNames, HelperWrites

(* An answer to a command, for whatever command it is.                       *)
LEMMA TakeKeeps == ASSUME LifecycleInv, NEW e \in Epochs, Take(e) PROVE LifecycleInv'
<1> DEFINE w == helper[e].work
           g == helper[e].generation
           c == Head(commands[e])
<1>1. w \in Works \ {"boot"} /\ g \in Nat /\ g + 1 \in Nat /\ g <= g + 1 /\ 0 <= g
  BY HelperTyped DEF Take
<1>2. /\ Alive(e) /\ Answer(e, c)
      /\ commands' = [commands EXCEPT ![e] = Tail(commands[e])] /\ commands[e] # <<>>
      /\ remembered' \in BOOLEAN /\ keepStored' \in BOOLEAN
      /\ UNCHANGED <<panel, facts, process>>
  BY HelperTyped DEF Take, stores
<1>3. \/ Writes(e, "pairing", g, "qrWaiting", 0)
      \/ Writes(e, w, g, "refused", 0)
      \/ Writes(e, "session", g, "cancelled", 0) \/ Writes(e, "idle", g, "cancelled", 0)
      \/ Writes(e, "idle", g + 1, "stopped", g + 1)
      \/ Writes(e, w, g, "stale", g)
      \/ Writes(e, "connecting", g + 1, "connecting", g + 1)
      \/ Writes(e, w, g, "failure", 0)
  <2>1. CASE c.type = "startQr" /\ w # "session"
    <3>1. Writes(e, "pairing", g, "qrWaiting", 0)
      BY <1>1, <1>2, <2>1 DEF Writes, Answer, Becomes, Tell, EndScrcpy, Next_
    <3>2. QED BY <3>1
  <2>2. CASE c.type = "startQr" /\ w = "session"
    <3>1. Writes(e, w, g, "refused", 0)
      BY <1>1, <1>2, <2>2 DEF Writes, Answer, Becomes, Tell, EndScrcpy, Next_
    <3>2. QED BY <3>1
  <2>3. CASE c.type = "cancel" /\ w = "session"
    <3>1. Writes(e, "session", g, "cancelled", 0)
      BY <1>1, <1>2, <2>3 DEF Writes, Answer, Becomes, Tell, EndScrcpy, Next_
    <3>2. QED BY <3>1
  <2>4. CASE c.type = "cancel" /\ w # "session"
    <3>1. Writes(e, "idle", g, "cancelled", 0)
      BY <1>1, <1>2, <2>4 DEF Writes, Answer, Becomes, Tell, EndScrcpy, Next_
    <3>2. QED BY <3>1
  <2>5. CASE c.type = "stop" /\ c.generation = g
    <3>1. Writes(e, "idle", g + 1, "stopped", g + 1)
      BY <1>1, <1>2, <2>5 DEF Writes, Answer, Becomes, Tell, EndScrcpy, Next_
    <3>2. QED BY <3>1
  <2>6. CASE c.type = "stop" /\ c.generation # g
    <3>1. Writes(e, w, g, "stale", g)
      BY <1>1, <1>2, <2>6 DEF Writes, Answer, Becomes, Tell, EndScrcpy, Next_
    <3>2. QED BY <3>1
  <2>7. CASE c.type = "reconnect" /\ remembered
    <3>1. Writes(e, "connecting", g + 1, "connecting", g + 1)
      BY <1>1, <1>2, <2>7 DEF Writes, Answer, Becomes, Tell, EndScrcpy, Next_
    <3>2. QED BY <3>1
  <2>8. CASE c.type = "reconnect" /\ ~remembered
    <3>1. Writes(e, w, g, "failure", 0)
      BY <1>1, <1>2, <2>8 DEF Writes, Answer, Becomes, Tell, EndScrcpy, Next_
    <3>2. QED BY <3>1
  <2>9. QED
    BY <1>2, <2>1, <2>2, <2>3, <2>4, <2>5, <2>6, <2>7, <2>8 DEF Answer
<1> HIDE DEF w, g, c
<1>4. QED BY <1>1, <1>3, EventNames, HelperWrites

(* A preference stored, or refused, keeps the invariant.                     *)
LEMMA PrefersKeeps == ASSUME LifecycleInv, NEW e \in Epochs, Prefers(e) PROVE LifecycleInv'
<1> DEFINE w == helper[e].work
           g == helper[e].generation
           c == Head(commands[e])
<1>1. w \in Works \ {"boot"} /\ g \in Nat /\ 0 \in Nat /\ g <= g /\ 0 <= g
  BY HelperTyped DEF Prefers
<1>2. /\ Alive(e) /\ helper' = helper /\ guardian' = guardian
      /\ commands' = [commands EXCEPT ![e] = Tail(commands[e])] /\ commands[e] # <<>>
      /\ remembered' \in BOOLEAN /\ keepStored' \in BOOLEAN
      /\ UNCHANGED <<panel, facts, process>>
  BY HelperTyped DEF Prefers
<1>3. \/ Writes(e, w, g, "keepOn", g) \/ Writes(e, w, g, "keepOff", g)
      \/ Writes(e, w, g, "failure", 0)
  BY <1>1, <1>2 DEF Writes, Prefers, Tell, KeepTypes
<1> HIDE DEF w, g, c
<1>4. QED BY <1>1, <1>3, EventNames, HelperWrites

(* A pairing or reconnect that links keeps the invariant.                    *)
LEMMA LinksKeeps == ASSUME LifecycleInv, NEW e \in Epochs, Links(e) PROVE LifecycleInv'
<1> DEFINE g == helper[e].generation
<1>1. g \in Nat /\ g + 1 \in Nat /\ g <= g + 1 /\ remembered \in BOOLEAN /\ keepStored \in BOOLEAN
  BY HelperTyped
<1>2. \/ Writes(e, "session", g + 1, "connected", g + 1)
      \/ Writes(e, "session", g, "connected", g)
  <2>1. CASE helper[e].work = "pairing"
    <3>1. Writes(e, "session", g + 1, "connected", g + 1)
      BY <1>1, <2>1 DEF Writes, Links, Becomes, Tell, Next_
    <3>2. QED BY <3>1
  <2>2. CASE helper[e].work # "pairing"
    <3>1. Writes(e, "session", g, "connected", g)
      BY <1>1, <2>2 DEF Writes, Links, Becomes, Tell
    <3>2. QED BY <3>1
  <2>3. QED BY <2>1, <2>2
<1> HIDE DEF g
<1>3. QED BY <1>1, <1>2, EventNames, HelperWrites

(* A pairing or reconnect that fails keeps the invariant.                    *)
LEMMA FailsKeeps == ASSUME LifecycleInv, NEW e \in Epochs, Fails(e) PROVE LifecycleInv'
<1> DEFINE g == helper[e].generation
<1>1. g \in Nat /\ g + 1 \in Nat /\ g <= g + 1 /\ 0 <= g /\ remembered \in BOOLEAN
      /\ keepStored \in BOOLEAN
  BY HelperTyped
<1>2. \/ Writes(e, "idle", g, "failure", 0) \/ Writes(e, "idle", g, "rejected", 0)
      \/ Writes(e, "idle", g + 1, "lifecycleFailure", g + 1)
  <2>1. CASE helper[e].work = "pairing"
    <3>1. CASE Tell(e, "failure", 0)
      <4>1. Writes(e, "idle", g, "failure", 0)
        BY <1>1, <2>1, <3>1 DEF Writes, Fails, Becomes, Tell, stores
      <4>2. QED BY <4>1
    <3>2. CASE Tell(e, "rejected", 0)
      <4>1. Writes(e, "idle", g, "rejected", 0)
        BY <1>1, <2>1, <3>2 DEF Writes, Fails, Becomes, Tell, stores
      <4>2. QED BY <4>1
    <3>3. QED BY <2>1, <3>1, <3>2 DEF Fails
  <2>2. CASE helper[e].work # "pairing"
    <3>1. Writes(e, "idle", g + 1, "lifecycleFailure", g + 1)
      BY <1>1, <2>2 DEF Writes, Fails, Becomes, Tell, Next_, stores
    <3>2. QED BY <3>1
  <2>3. QED BY <2>1, <2>2
<1> HIDE DEF g
<1>3. QED BY <1>1, <1>2, EventNames, HelperWrites

(* A session that starts keeps the invariant.                                *)
LEMMA GoesLiveKeeps == ASSUME LifecycleInv, NEW e \in Epochs, GoesLive(e) PROVE LifecycleInv'
<1> DEFINE g == helper[e].generation
<1>1. g \in Nat /\ g <= g /\ remembered \in BOOLEAN /\ keepStored \in BOOLEAN
  BY HelperTyped
<1>2. Writes(e, "session", g, "started", g)
  BY <1>1 DEF Writes, GoesLive, Tell, stores
<1> HIDE DEF g
<1>3. QED BY <1>1, <1>2, EventNames, HelperWrites

(* A session that ends keeps the invariant.                                  *)
LEMMA SessionEndsKeeps == ASSUME LifecycleInv, NEW e \in Epochs, SessionEnds(e) PROVE LifecycleInv'
<1> DEFINE g == helper[e].generation
<1>1. g \in Nat /\ g + 1 \in Nat /\ g <= g + 1 /\ remembered \in BOOLEAN /\ keepStored \in BOOLEAN
  BY HelperTyped
<1>2. Writes(e, "idle", g + 1, "ended", g + 1)
  BY <1>1 DEF Writes, SessionEnds, Becomes, Tell, Next_, EndScrcpy, stores
<1> HIDE DEF g
<1>3. QED BY <1>1, <1>2, EventNames, HelperWrites

-----------------------------------------------------------------------------
(* The panel reads a line.                                                   *)
LEMMA LineTaken ==
  ASSUME LifecycleInv, NEW e \in Epochs, events[e] # <<>>,
         events' = [events EXCEPT ![e] = Tail(events[e])],
         helper' = helper, \A o \in Epochs : process'[o] = "dead" <=> process[o] = "dead"
  PROVE  /\ events' \in [Epochs -> Seq(EventLines)] /\ LinesReached'
         /\ Head(events[e]) \in EventLines
         /\ process[e] # "dead" =>
              /\ helper[e].work # "boot"
              /\ Head(events[e]).generation <= helper[e].generation
<1>1. events \in [Epochs -> Seq(EventLines)] /\ events[e] \in Seq(EventLines)
  BY DEF LifecycleInv, LifecycleTypeOK
<1>2. /\ Tail(events[e]) \in Seq(EventLines) /\ Len(Tail(events[e])) = Len(events[e]) - 1
      /\ \A i \in 1..Len(Tail(events[e])) : Tail(events[e])[i] = events[e][i + 1]
      /\ Head(events[e]) \in EventLines /\ Head(events[e]) = events[e][1]
      /\ Len(events[e]) \in Nat /\ Len(events[e]) # 0
  BY <1>1, HeadTailProperties
<1>3. /\ events' \in [Epochs -> Seq(EventLines)] /\ events'[e] = Tail(events[e])
      /\ \A o \in Epochs \ {e} : events'[o] = events[o]
  BY <1>1, <1>2
<1>4. process[e] # "dead" =>
        /\ helper[e].work # "boot"
        /\ \A i \in 1..Len(events[e]) : events[e][i].generation <= helper[e].generation
  BY DEF LifecycleInv, LinesReached
<1>5. ASSUME process[e] # "dead"
      PROVE  \A i \in 1..Len(events'[e]) : events'[e][i].generation <= helper[e].generation
  <2>1. TAKE i \in 1..Len(events'[e])
  <2>2. i + 1 \in 1..Len(events[e]) /\ events'[e][i] = events[e][i + 1]
    BY <1>2, <1>3
  <2>3. QED BY <1>4, <1>5, <2>2
<1>6. LinesReached'
  <2>1. SUFFICES ASSUME NEW o \in Epochs, process[o] # "dead"
        PROVE  /\ helper[o].work = "boot" => events'[o] = <<>> /\ helper[o].generation = 0
               /\ \A i \in 1..Len(events'[o]) : events'[o][i].generation <= helper[o].generation
    BY DEF LinesReached
  <2>2. CASE o = e BY <1>4, <1>5, <2>1, <2>2
  <2>3. CASE o # e BY <1>3, <2>1, <2>3 DEF LifecycleInv, LinesReached
  <2>4. QED BY <2>2, <2>3
<1>7. process[e] # "dead" => Head(events[e]).generation <= helper[e].generation
  <2>1. 1 \in 1..Len(events[e])
    BY <1>2
  <2>2. QED BY <1>2, <1>4, <2>1
<1>8. QED BY <1>2, <1>3, <1>4, <1>6, <1>7

(* A line the panel reads keeps the invariant, whichever epoch wrote it.     *)
LEMMA HearKeeps == ASSUME LifecycleInv, NEW e \in Epochs, Hear(e) PROVE LifecycleInv'
<1> DEFINE line == Head(events[e])
<1>1. /\ events[e] # <<>> /\ events' = [events EXCEPT ![e] = Tail(events[e])]
      /\ UNCHANGED <<remembered, keepStored, helper, guardian>>
  BY DEF Hear, stores
<1>2. LifecycleTypeOK /\ AcceptsRunning /\ (e = accepted => accepted = running)
  BY DEF LifecycleInv, AcceptsRunning, Epochs
<1>3. CASE e # accepted
  <2>1. UNCHANGED <<opened, opens, changes, version, running, accepted, counter, closing, timer,
                    view, attempted, missed, kept, process, commands>>
    BY <1>3 DEF Hear, panel, facts, history
  <2>2. events' \in [Epochs -> Seq(EventLines)] /\ LinesReached'
    BY <1>1, <2>1, LineTaken
  <2>3. LifecycleTypeOK'
    BY <1>1, <1>2, <2>1, <2>2 DEF LifecycleTypeOK
  <2>4. AcceptsRunning' /\ Unstarted' /\ ReadyIsCurrent' /\ NoOrphan'
    BY <1>1, <2>1 DEF LifecycleInv, AcceptsRunning, Unstarted, ReadyIsCurrent, NoOrphan
  <2>5. QED BY <2>2, <2>3, <2>4 DEF LifecycleInv
<1>4. CASE e = accepted /\ closing /\ Confirms(line)
  <2>1. FinishShutdown /\ UNCHANGED <<history, commands>>
    BY <1>4 DEF Hear, HearLine
  <2>2. events' \in [Epochs -> Seq(EventLines)]
    BY <1>1, <1>2, LineTaken, HeadTailProperties DEF LifecycleTypeOK
  <2>3. /\ LifecycleTypeOK' /\ AcceptsRunning' /\ Unstarted' /\ ReadyIsCurrent' /\ NoOrphan'
        /\ \A o \in Epochs : process'[o] = "dead" <=> process[o] = "dead"
    BY <1>1, <2>1, <2>2, FinishShutdownKeeps
  <2>4. LinesReached'
    BY <1>1, <2>3, LineTaken
  <2>5. QED BY <2>3, <2>4 DEF LifecycleInv
<1>5. CASE e = accepted /\ ~(closing /\ Confirms(line))
  <2> DEFINE v == Shown(line)
             c == Line(Response(line), v.generation)
  <2>1. /\ UNCHANGED <<opened, opens, changes, version, running, accepted, counter, closing, timer,
                       process, missed, kept>>
        /\ view' = v
        /\ IF Response(line) = "nothing" THEN UNCHANGED commands
           ELSE commands' = [commands EXCEPT ![running] = Append(@, c)]
        /\ attempted' \in BOOLEAN
    BY <1>2, <1>5 DEF Hear, HearLine, panel, LifecycleTypeOK
  <2>2. /\ events' \in [Epochs -> Seq(EventLines)] /\ LinesReached' /\ line \in EventLines
        /\ process[e] # "dead" =>
             helper[e].work # "boot" /\ line.generation <= helper[e].generation
    BY <1>1, <2>1, LineTaken
  <2>3. /\ v \in Views /\ v.generation \in {view.generation, line.generation, 0}
        /\ v.ready => view.ready \/ v.generation = 0
    BY <1>2, <2>2, ShownTyped DEF LifecycleTypeOK
  <2>4. commands' \in [Epochs -> Seq(CommandLines)]
    <3>1. CASE Response(line) = "nothing"
      BY <1>2, <2>1, <3>1 DEF LifecycleTypeOK
    <3>2. CASE Response(line) # "nothing"
      <4>1. Response(line) \in {"reconnect", "startQr"}
        BY <3>2 DEF Response
      <4>2. v.generation \in Nat
        BY <2>3 DEF Views
      <4> HIDE DEF v
      <4>3. c \in CommandLines
        BY <4>1, <4>2, LineTyped DEF CommandTypes
      <4> HIDE DEF c
      <4>4. commands' = [commands EXCEPT ![running] = Append(@, c)]
        BY <2>1, <3>2
      <4>5. QED BY <1>2, <4>3, <4>4, CommandsTyped
    <3>3. QED BY <3>1, <3>2
  <2> HIDE DEF v, c
  <2>5. LifecycleTypeOK'
    BY <1>1, <1>2, <2>1, <2>2, <2>3, <2>4 DEF LifecycleTypeOK
  <2>6. ReadyIsCurrent'
    <3>1. SUFFICES ASSUME v.ready, process[e] # "dead"
                   PROVE  helper[e].work # "boot" /\ v.generation <= helper[e].generation
      BY <1>1, <1>2, <1>5, <2>1 DEF ReadyIsCurrent, AcceptsRunning, Epochs
    <3>2. helper[e].generation \in Nat
      BY HelperTyped
    <3>3. view.ready => view.generation <= helper[e].generation
      BY <1>2, <1>5, <3>1 DEF LifecycleInv, ReadyIsCurrent, AcceptsRunning
    <3>4. QED BY <2>2, <2>3, <3>1, <3>2, <3>3
  <2>7. AcceptsRunning' /\ Unstarted' /\ NoOrphan'
    BY <1>1, <2>1 DEF LifecycleInv, AcceptsRunning, Unstarted, NoOrphan
  <2>8. QED BY <2>2, <2>5, <2>6, <2>7 DEF LifecycleInv
<1>6. QED BY <1>3, <1>4, <1>5

-----------------------------------------------------------------------------
(* The invariant holds before the panel is first opened.                     *)
LEMMA LifecycleInvInit == LifecycleInit => LifecycleInv
<1> SUFFICES ASSUME LifecycleInit PROVE LifecycleInv
  OBVIOUS
<1>1. /\ NoHelper \in Helpers /\ NoHelper.work = "boot" /\ NoHelper.generation = 0
      /\ "none" \in GuardianSteps /\ "none" \in ProcessStates
  BY DEF NoHelper, Helpers, Works, GuardianSteps, ProcessStates
<1>2. view \in Views /\ ~view.ready
  BY DEF LifecycleInit, Views, Stages
<1>3. /\ commands \in [Epochs -> Seq(CommandLines)] /\ events \in [Epochs -> Seq(EventLines)]
      /\ \A e \in Epochs : events[e] = <<>> /\ Len(events[e]) = 0
  BY DEF LifecycleInit
<1>4. LifecycleTypeOK
  <2>1. 0 \in 0..MaxEpochs /\ 0 \in 0..MaxOpens /\ 0 \in 0..MaxChanges
    BY LifecycleAssumption
  <2>2. /\ process \in [Epochs -> ProcessStates] /\ helper \in [Epochs -> Helpers]
        /\ guardian \in [Epochs -> GuardianSteps]
    BY <1>1 DEF LifecycleInit
  <2>3. QED BY <1>2, <1>3, <2>1, <2>2 DEF LifecycleInit, LifecycleTypeOK
<1>5. LinesReached
  BY <1>1, <1>3 DEF LifecycleInit, LinesReached
<1>6. AcceptsRunning /\ Unstarted /\ ReadyIsCurrent /\ NoOrphan
  BY <1>2 DEF LifecycleInit, AcceptsRunning, Unstarted, ReadyIsCurrent, NoOrphan
<1>7. QED BY <1>4, <1>5, <1>6 DEF LifecycleInv

(* Every step keeps the invariant.                                           *)
LEMMA LifecycleInvNext == LifecycleInv /\ [LifecycleNext]_lifecycleVars => LifecycleInv'
<1> SUFFICES ASSUME LifecycleInv, [LifecycleNext]_lifecycleVars PROVE LifecycleInv'
  OBVIOUS
<1>1. CASE Panel
  BY <1>1, OpenKeeps, ChangeKeepKeeps, CloseKeeps, TimerFiresKeeps, VersionMatchesKeeps,
     LetGoKeeps DEF Panel
<1>2. ASSUME NEW e \in Epochs, Hear(e) \/ Helper(e) \/ Guardian(e) \/ Die(e)
      PROVE  LifecycleInv'
  BY <1>2, HearKeeps, BootKeeps, TakeKeeps, PrefersKeeps, LinksKeeps, FailsKeeps, GuardianKeeps,
     GoesLiveKeeps, SessionEndsKeeps, DieKeeps DEF Helper
<1>3. CASE UNCHANGED lifecycleVars
  <2>1. /\ UNCHANGED <<opened, opens, changes, version, running, accepted, counter, closing, timer>>
        /\ UNCHANGED <<view, attempted, missed, kept, remembered, keepStored, process, helper, guardian>>
        /\ UNCHANGED <<commands, events>>
    BY <1>3 DEF lifecycleVars, panel, facts, history, stores, pipes
  <2>2. LifecycleTypeOK'
    BY <2>1 DEF LifecycleInv, LifecycleTypeOK
  <2>3. AcceptsRunning' /\ Unstarted'
    BY <2>1 DEF LifecycleInv, AcceptsRunning, Unstarted
  <2>4. LinesReached'
    BY <2>1 DEF LifecycleInv, LinesReached
  <2>5. ReadyIsCurrent' /\ NoOrphan'
    BY <2>1 DEF LifecycleInv, ReadyIsCurrent, NoOrphan
  <2>6. QED BY <2>2, <2>3, <2>4, <2>5 DEF LifecycleInv
<1>4. QED BY <1>1, <1>2, <1>3 DEF LifecycleNext

(* The types.                                                                *)
THEOREM LifecycleTypes == LifecycleSpec => []LifecycleTypeOK
<1>1. LifecycleInv => LifecycleTypeOK
  BY DEF LifecycleInv
<1>2. QED BY <1>1, LifecycleInvInit, LifecycleInvNext, PTL DEF LifecycleSpec

(* However the death of a helper falls between the steps of its guardian -    *)
(* before it asked to die with it, before it looked who its parent is, after - *)
(* no scrcpy is left.                                                        *)
THEOREM NoScrcpyOrphaned == LifecycleSpec => []NoOrphan
<1>1. LifecycleInv => NoOrphan
  BY DEF LifecycleInv
<1>2. QED BY <1>1, LifecycleInvInit, LifecycleInvNext, PTL DEF LifecycleSpec

(* Whatever helpers were started, died and were let go of, what the panel     *)
(* shows as ready is the one that runs, at a generation it has reached.        *)
THEOREM ShownReadyIsCurrent == LifecycleSpec => []ReadyIsCurrent
<1>1. LifecycleInv => ReadyIsCurrent
  BY DEF LifecycleInv
<1>2. QED BY <1>1, LifecycleInvInit, LifecycleInvNext, PTL DEF LifecycleSpec

=============================================================================
