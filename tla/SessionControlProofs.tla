------------------------- MODULE SessionControlProofs -------------------------
(* Proofs about SessionControl for any number of workers, targets and calls. *)
EXTENDS SessionControl, TLAPS

(* The steps of a worker, listed.                                           *)
LEMMA AllSteps ==
  Steps = {"target", "admit", "announce", "run", "exited", "reannounce", "starting",
           "confirm", "live", "idle", "spawned", "lock", "ended", "untarget", "report",
           "armed", "advanced"}
BY DEF Steps, RunnerSteps, AdmittedSteps, RunningSteps, FreeSteps, ArmedSteps

(* A worker whose record is replaced by a typed one keeps the function typed. *)
LEMMA WorkerUpdate ==
  ASSUME TypeOK, NEW w \in Sessions, NEW r \in WorkerState
  PROVE  [worker EXCEPT ![w] = r] \in [Sessions -> WorkerState]
BY DEF TypeOK

(* A worker that is not there has the type of a worker.                     *)
LEMMA IdleTyped == IdleWorker \in WorkerState
BY SessionControlAssumption, AllSteps DEF IdleWorker, WorkerState, Results

(* Moving a worker to another step keeps the workers typed ...              *)
LEMMA GotoTyped ==
  ASSUME TypeOK, NEW w \in Sessions, NEW s \in Steps, Goto(w, s)
  PROVE  worker' \in [Sessions -> WorkerState]
<1>1. [worker[w] EXCEPT !.step = s] \in WorkerState
  BY DEF TypeOK, WorkerState
<1>2. QED BY <1>1 DEF Goto, TypeOK

(* ... and so does its end ...                                              *)
LEMMA FinishTyped ==
  ASSUME TypeOK, NEW w \in Sessions, Finish(w)
  PROVE  worker' \in [Sessions -> WorkerState]
BY IdleTyped, WorkerUpdate DEF Finish

(* ... and the result of a scrcpy that is gone.                             *)
LEMMA ExitTyped ==
  ASSUME TypeOK, NEW w \in Sessions, NEW r \in Results, Exit(w, r)
  PROVE  worker' \in [Sessions -> WorkerState]
<1>1. [worker[w] EXCEPT !.step = "exited", !.result = r] \in WorkerState
  BY AllSteps DEF TypeOK, WorkerState
<1>2. QED BY <1>1 DEF Exit, TypeOK

(* Writing an event of the protocol keeps the sink typed.                   *)
LEMMA EventTyped ==
  ASSUME TypeOK, NEW type \in EventTypes, NEW g \in Nat
  PROVE  Append(sent, Event(type, g)) \in Seq(EventSet)
<1>1. Event(type, g) \in EventSet
  BY DEF Event, EventSet
<1>2. QED BY <1>1 DEF TypeOK

(* The fields of a worker, from the type invariant.                         *)
LEMMA WorkerFields ==
  ASSUME TypeOK, NEW w \in Sessions
  PROVE  /\ worker[w] \in WorkerState
         /\ worker[w].token \in Nat /\ worker[w].current \in Nat
         /\ worker[w].target \in Targets \cup {NoTarget}
BY DEF TypeOK, WorkerState

(* The counters stay natural numbers.                                       *)
LEMMA Successor == TypeOK => generation + 1 \in Nat /\ token + 1 \in Nat
BY DEF TypeOK

(* The records of a worker whose generation moved.                          *)
LEMMA RecordUpdate ==
  ASSUME NEW r \in WorkerState, NEW s \in Steps, NEW g \in Nat
  PROVE  /\ [r EXCEPT !.step = s, !.current = g] \in WorkerState
         /\ [r EXCEPT !.step = s, !.current = g, !.retried = TRUE, !.result = "None"]
              \in WorkerState
BY DEF WorkerState, Results

(* Every step of a session worker keeps the state typed.                    *)
LEMMA WorkerStepTyped ==
  ASSUME TypeOK, NEW w \in Sessions, WorkerStep(w)
  PROVE  TypeOK'
<1> USE AllSteps, WorkerFields DEF cells, locks
<1>1. CASE SpawnStale(w) BY <1>1, FinishTyped DEF SpawnStale, TypeOK
<1>2. CASE SpawnCurrent(w) BY <1>2, GotoTyped DEF SpawnCurrent, TypeOK
<1>3. CASE LockRunner(w) BY <1>3, GotoTyped DEF LockRunner, TypeOK
<1>4. CASE SetTarget(w) BY <1>4, GotoTyped DEF SetTarget, TypeOK
<1>5. CASE RefuseStart(w) BY <1>5, FinishTyped DEF RefuseStart, TypeOK
<1>6. CASE AdmitStart(w) BY <1>6, GotoTyped DEF AdmitStart, TypeOK
<1>7. CASE Announce(w)
  <2>1. sent' \in Seq(EventSet)
    BY <1>7, EventTyped DEF Announce, EventTypes
  <2>2. QED BY <1>7, <2>1, GotoTyped DEF Announce, TypeOK
<1>8. CASE RunScrcpy(w) BY <1>8, GotoTyped DEF RunScrcpy, TypeOK
<1>9. CASE RunStopped(w) BY <1>9, ExitTyped DEF RunStopped, TypeOK, Results
<1>10. CASE ConfirmStarted(w)
  <2>1. sent' \in Seq(EventSet)
    BY <1>10, EventTyped DEF ConfirmStarted, EventTypes
  <2>2. QED BY <1>10, <2>1, GotoTyped DEF ConfirmStarted, TypeOK
<1>11. CASE StartDeadline(w) BY <1>11, ExitTyped DEF StartDeadline, TypeOK, Results
<1>12. CASE ExitSuperseded(w) BY <1>12, FinishTyped DEF ExitSuperseded, TypeOK
<1>13. CASE ClaimRetry(w)
  <2>1. [worker[w] EXCEPT !.step = "reannounce", !.current = generation + 1,
                          !.retried = TRUE, !.result = "None"] \in WorkerState
    BY RecordUpdate, Successor
  <2>2. worker' \in [Sessions -> WorkerState]
    BY <1>13, <2>1 DEF ClaimRetry, TypeOK
  <2>3. QED BY <1>13, <2>2 DEF ClaimRetry, TypeOK
<1>14. CASE KeepResult(w) BY <1>14, GotoTyped DEF KeepResult, TypeOK
<1>15. CASE EndSilently(w) BY <1>15, FinishTyped DEF EndSilently, TypeOK
<1>16. CASE ClaimEnd(w)
  <2>1. [worker[w] EXCEPT !.step = "untarget", !.current = generation + 1] \in WorkerState
    BY RecordUpdate, Successor
  <2>2. worker' \in [Sessions -> WorkerState]
    BY <1>16, <2>1 DEF ClaimEnd, TypeOK
  <2>3. QED BY <1>16, <2>2 DEF ClaimEnd, TypeOK
<1>17. CASE ClearTarget(w) BY <1>17, GotoTyped DEF ClearTarget, TypeOK
<1>18. CASE ReportEnd(w)
  <2>1. sent' \in Seq(EventSet)
    BY <1>18, EventTyped DEF ReportEnd, EndEvent, EventTypes
  <2>2. QED BY <1>18, <2>1, FinishTyped DEF ReportEnd, TypeOK
<1>19. QED
  BY <1>1, <1>2, <1>3, <1>4, <1>5, <1>6, <1>7, <1>8, <1>9, <1>10, <1>11, <1>12, <1>13,
     <1>14, <1>15, <1>16, <1>17, <1>18 DEF WorkerStep

(* So does whatever scrcpy does ...                                         *)
LEMMA ScrcpyStepTyped ==
  ASSUME TypeOK, NEW w \in Sessions, ScrcpyStep(w)
  PROVE  TypeOK'
<1> USE AllSteps DEF cells, locks
<1>1. CASE CaptureReady(w) BY <1>1, GotoTyped DEF CaptureReady, TypeOK
<1>2. CASE RunUnavailable(w) BY <1>2, ExitTyped DEF RunUnavailable, TypeOK, Results
<1>3. ASSUME NEW r \in {"Ended", "Disconnected"}, ScrcpyExits(w, r) PROVE TypeOK'
  BY <1>3, ExitTyped DEF ScrcpyExits, TypeOK, Results
<1>4. QED BY <1>1, <1>2, <1>3 DEF ScrcpyStep

(* ... whoever holds a closure of start() ...                               *)
LEMMA ClosureStepTyped ==
  ASSUME TypeOK, NEW w \in Sessions, 
         Arm(w) \/ Advance(w) \/ AdvanceFailed(w) \/ Discard(w)
           \/ \E t \in Targets : Spawn(w, t),
         calls' \in 0..MaxCalls
  PROVE  TypeOK'
<1> USE AllSteps, WorkerFields, IdleTyped DEF cells, locks
<1>1. CASE Arm(w)
  <2>1. [IdleWorker EXCEPT !.step = "armed", !.token = token, !.current = generation]
          \in WorkerState
    BY DEF TypeOK, WorkerState
  <2>2. QED BY <1>1, <2>1 DEF Arm, Capture, TypeOK
<1>2. CASE Advance(w)
  <2>1. [worker[w] EXCEPT !.step = "advanced", !.current = generation + 1] \in WorkerState
    BY RecordUpdate, Successor
  <2>2. QED BY <1>2, <2>1 DEF Advance, TypeOK
<1>3. CASE AdvanceFailed(w) BY <1>3, FinishTyped DEF AdvanceFailed, TypeOK
<1>4. CASE Discard(w) BY <1>4, FinishTyped DEF Discard, TypeOK
<1>5. ASSUME NEW t \in Targets, Spawn(w, t) PROVE TypeOK'
  <2>1. [worker[w] EXCEPT !.step = "spawned", !.target = t] \in WorkerState
    BY DEF WorkerState
  <2>2. QED BY <1>5, <2>1 DEF Spawn, TypeOK
<1>6. QED BY <1>1, <1>2, <1>3, <1>4, <1>5

(* ... and the main thread.                                                 *)
LEMMA CallerTyped ==
  ASSUME TypeOK, Call \/ CallerStep \/ AcknowledgePreview
  PROVE  TypeOK'
<1> USE SessionControlAssumption DEF cells, locks, CallerState, CallerSteps, IdleCaller
<1>1. CASE Call
  <2>1. Count /\ calls' \in 0..MaxCalls
    BY <1>1 DEF Call, Count, TypeOK
  <2>2. ASSUME NEW t \in Targets \cup {NoTarget}, Invalidate(t) PROVE TypeOK'
    BY <2>1, <2>2 DEF Invalidate, TypeOK
  <2>3. CASE StopSession
    BY <2>1, <2>3 DEF StopSession, TypeOK
  <2>4. ASSUME NEW w \in Sessions, Arm(w) PROVE TypeOK'
    BY <2>1, <2>4, ClosureStepTyped
  <2>5. QED BY <1>1, <2>2, <2>3, <2>4 DEF Call
<1>2. CASE CallerStep
  <2>1. CASE CrossBarrier BY <2>1 DEF CrossBarrier, TypeOK
  <2>2. CASE ResetTarget BY <2>2 DEF ResetTarget, TypeOK
  <2>3. CASE RenewToken
    <3>1. caller' \in CallerState
      BY <2>3 DEF RenewToken, TypeOK
    <3>2. QED BY <2>3, <3>1, Successor DEF RenewToken, TypeOK
  <2>4. ASSUME NEW w \in Sessions, Restart(w) PROVE TypeOK'
    <3>1. [IdleWorker EXCEPT !.step = "spawned", !.token = token,
                             !.current = caller.generation, !.target = caller.target]
            \in WorkerState
      BY IdleTyped, AllSteps DEF TypeOK, WorkerState
    <3>2. QED BY <2>4, <3>1 DEF Restart, TypeOK
  <2>5. QED BY <1>2, <2>1, <2>2, <2>3, <2>4 DEF CallerStep
<1>3. CASE AcknowledgePreview BY <1>3 DEF AcknowledgePreview, TypeOK
<1>4. QED BY <1>1, <1>2, <1>3

(* The state of the session half always has its type.                       *)
THEOREM TypeCorrect == Spec => []TypeOK
<1>1. Init => TypeOK
  <2> SUFFICES ASSUME Init PROVE TypeOK
    OBVIOUS
  <2>1. worker \in [Sessions -> WorkerState]
    BY IdleTyped DEF Init
  <2>2. sent \in Seq(EventSet)
    BY DEF Init
  <2>3. caller \in CallerState
    BY DEF Init, IdleCaller, CallerState, CallerSteps
  <2>4. calls \in 0..MaxCalls /\ generation \in Nat /\ token \in Nat
    BY SessionControlAssumption DEF Init
  <2>5. /\ previewReady \in SUBSET Nat /\ cancelled \in SUBSET Nat
        /\ acked \in SUBSET Nat /\ launched \in BOOLEAN
    BY DEF Init
  <2>6. /\ target \in Targets \cup {NoTarget}
        /\ runner \in Sessions \cup {Nobody} /\ transition \in Sessions \cup {Nobody}
    BY DEF Init
  <2>7. QED
    BY <2>1, <2>2, <2>3, <2>4, <2>5, <2>6 DEF TypeOK
<1>2. TypeOK /\ [Next]_vars => TypeOK'
  <2> SUFFICES ASSUME TypeOK, [Next]_vars PROVE TypeOK'
    OBVIOUS
  <2>1. CASE Call \/ CallerStep \/ AcknowledgePreview
    BY <2>1, CallerTyped
  <2>2. ASSUME NEW w \in Sessions, WorkerStep(w) PROVE TypeOK'
    BY <2>2, WorkerStepTyped
  <2>3. ASSUME NEW w \in Sessions, ScrcpyStep(w) PROVE TypeOK'
    BY <2>3, ScrcpyStepTyped
  <2>4. ASSUME NEW w \in Sessions,
               Advance(w) \/ AdvanceFailed(w) \/ Discard(w) \/ \E t \in Targets : Spawn(w, t)
        PROVE  TypeOK'
    <3>1. calls' \in 0..MaxCalls
      BY <2>4 DEF Advance, AdvanceFailed, Discard, Spawn, TypeOK
    <3>2. QED BY <2>4, <3>1, ClosureStepTyped
  <2>5. CASE UNCHANGED vars
    BY <2>5 DEF vars, cells, locks, TypeOK
  <2>6. QED BY <2>1, <2>2, <2>3, <2>4, <2>5 DEF Next
<1>3. QED BY <1>1, <1>2, PTL DEF Spec

-----------------------------------------------------------------------------
(* The safety invariant.  What each thread does to the records of the       *)
(* workers is first reduced to the few facts the invariant speaks of.       *)

(* The sets of steps the invariant speaks of, listed.                       *)
LEMMA StepSets ==
  /\ RunnerSteps = {"target", "admit", "announce", "run", "exited", "reannounce",
                    "starting", "confirm", "live"}
  /\ AdmittedSteps = {"announce", "run", "exited", "reannounce", "starting", "confirm",
                      "live"}
  /\ RunningSteps = {"starting", "confirm", "live"}
  /\ TransitionSteps = {"announce", "reannounce"}
  /\ ArmedSteps = {"armed", "advanced"}
BY DEF RunnerSteps, AdmittedSteps, RunningSteps, TransitionSteps, ArmedSteps

(* A step of worker w leaves the other workers alone and w with its token,  *)
(* unless w becomes idle.                                                   *)
LEMMA WorkerFrame ==
  ASSUME TypeOK, NEW w \in Sessions, WorkerStep(w) \/ ScrcpyStep(w)
  PROVE  /\ \A v \in Sessions \ {w} : worker'[v] = worker[v]
         /\ \/ worker'[w].step = "idle" /\ worker'[w].token = 0
            \/ worker'[w].token = worker[w].token
         /\ token' = token /\ caller' = caller /\ launched' = launched /\ acked' = acked
         /\ previewReady' = previewReady /\ cancelled \subseteq cancelled'
         /\ generation' \in {generation, generation + 1}
         /\ worker[w].step # "idle"
         /\ worker'[w].step \in AdmittedSteps =>
              worker[w].step \in AdmittedSteps
                \/ worker[w].token \notin cancelled
         /\ ~worker[w].retried /\ worker'[w].retried => ClaimRetry(w)
<1> USE StepSets DEF TypeOK, WorkerState, Current, cells, locks, Goto, Finish, Exit, IdleWorker
<1>1. CASE ScrcpyStep(w)
  BY <1>1 DEF ScrcpyStep, CaptureReady, RunUnavailable, ScrcpyExits
<1>2. CASE SpawnStale(w) BY <1>2 DEF SpawnStale
<1>3. CASE SpawnCurrent(w) BY <1>3 DEF SpawnCurrent
<1>4. CASE LockRunner(w) BY <1>4 DEF LockRunner
<1>5. CASE SetTarget(w) BY <1>5 DEF SetTarget
<1>6. CASE RefuseStart(w) BY <1>6 DEF RefuseStart
<1>7. CASE AdmitStart(w) BY <1>7 DEF AdmitStart
<1>8. CASE Announce(w) BY <1>8 DEF Announce
<1>9. CASE RunScrcpy(w) BY <1>9 DEF RunScrcpy
<1>10. CASE RunStopped(w) BY <1>10 DEF RunStopped
<1>11. CASE ConfirmStarted(w) BY <1>11 DEF ConfirmStarted
<1>12. CASE StartDeadline(w) BY <1>12 DEF StartDeadline
<1>13. CASE ExitSuperseded(w) BY <1>13 DEF ExitSuperseded
<1>14. CASE ClaimRetry(w) BY <1>14 DEF ClaimRetry
<1>15. CASE KeepResult(w) BY <1>15 DEF KeepResult
<1>16. CASE EndSilently(w) BY <1>16 DEF EndSilently
<1>17. CASE ClaimEnd(w) BY <1>17 DEF ClaimEnd
<1>18. CASE ClearTarget(w) BY <1>18 DEF ClearTarget
<1>19. CASE ReportEnd(w) BY <1>19 DEF ReportEnd
<1>20. QED
  BY <1>1, <1>2, <1>3, <1>4, <1>5, <1>6, <1>7, <1>8, <1>9, <1>10, <1>11, <1>12, <1>13,
     <1>14, <1>15, <1>16, <1>17, <1>18, <1>19 DEF WorkerStep

(* A mutex changes hands only together with the step of its owner.          *)
LEMMA WorkerKeepsLocks ==
  ASSUME TypeOK, LocksHeld, NEW w \in Sessions, WorkerStep(w) \/ ScrcpyStep(w)
  PROVE  LocksHeld'
<1> USE StepSets, SessionControlAssumption
    DEF TypeOK, LocksHeld, locks, Goto, Finish, Exit, IdleWorker
<1>1. CASE ScrcpyStep(w)
  <2>1. CASE CaptureReady(w) BY <2>1 DEF CaptureReady
  <2>2. CASE RunUnavailable(w) BY <2>2 DEF RunUnavailable
  <2>3. ASSUME NEW r \in {"Ended", "Disconnected"}, ScrcpyExits(w, r) PROVE LocksHeld'
    BY <2>3 DEF ScrcpyExits
  <2>4. QED BY <1>1, <2>1, <2>2, <2>3 DEF ScrcpyStep
<1>2. CASE SpawnStale(w) BY <1>2 DEF SpawnStale
<1>3. CASE SpawnCurrent(w) BY <1>3 DEF SpawnCurrent
<1>4. CASE LockRunner(w) BY <1>4 DEF LockRunner
<1>5. CASE SetTarget(w) BY <1>5 DEF SetTarget
<1>6. CASE RefuseStart(w) BY <1>6 DEF RefuseStart
<1>7. CASE AdmitStart(w) BY <1>7 DEF AdmitStart
<1>8. CASE Announce(w) BY <1>8 DEF Announce
<1>9. CASE RunScrcpy(w) BY <1>9 DEF RunScrcpy
<1>10. CASE RunStopped(w) BY <1>10 DEF RunStopped
<1>11. CASE ConfirmStarted(w) BY <1>11 DEF ConfirmStarted
<1>12. CASE StartDeadline(w) BY <1>12 DEF StartDeadline
<1>13. CASE ExitSuperseded(w) BY <1>13 DEF ExitSuperseded
<1>14. CASE ClaimRetry(w) BY <1>14 DEF ClaimRetry
<1>15. CASE KeepResult(w) BY <1>15 DEF KeepResult
<1>16. CASE EndSilently(w) BY <1>16 DEF EndSilently
<1>17. CASE ClaimEnd(w) BY <1>17 DEF ClaimEnd
<1>18. CASE ClearTarget(w) BY <1>18 DEF ClearTarget
<1>19. CASE ReportEnd(w) BY <1>19 DEF ReportEnd
<1>20. QED
  BY <1>1, <1>2, <1>3, <1>4, <1>5, <1>6, <1>7, <1>8, <1>9, <1>10, <1>11, <1>12, <1>13,
     <1>14, <1>15, <1>16, <1>17, <1>18, <1>19 DEF WorkerStep

(* A worker's step preserves the rest of the invariant: it is admitted only *)
(* on a token that is alive, and only the main thread's token is.           *)
LEMMA WorkerKeepsInv ==
  ASSUME SafetyInv, NEW w \in Sessions, WorkerStep(w) \/ ScrcpyStep(w)
  PROVE  SafetyInv'
<1> USE DEF SafetyInv
<1>1. TypeOK'
  BY WorkerStepTyped, ScrcpyStepTyped
<1>2. LocksHeld'
  BY WorkerKeepsLocks
<1>3. /\ token \in Nat /\ generation \in Nat /\ acked \subseteq Nat
      /\ \A v \in Sessions : worker[v].token \in Nat
  BY WorkerFields DEF TypeOK
<1>4. TokensRetired'
  <2>1. \A v \in Sessions : worker'[v].token <= token
    BY <1>3, WorkerFrame DEF TokensRetired
  <2>2. QED BY <1>3, <2>1, WorkerFrame DEF TokensRetired
<1>5. FreshToken'
  <2>1. ASSUME ~launched, NEW v \in Sessions
        PROVE  worker'[v].step = "idle" \/ worker'[v].token < token
    BY <2>1, WorkerFrame DEF FreshToken
  <2>2. QED BY <2>1, WorkerFrame DEF FreshToken
<1>6. AdmittedOnToken'
  <2>1. ASSUME NEW v \in Sessions, worker'[v].step \in AdmittedSteps
        PROVE  worker'[v].token = token /\ caller.step \notin {"untarget", "renew"}
    <3>1. CASE v # w
      BY <2>1, <3>1, WorkerFrame DEF AdmittedOnToken
    <3>2. CASE v = w
      <4>1. worker'[w].token = worker[w].token
        BY <2>1, <3>2, WorkerFrame, StepSets
      <4>2. CASE worker[w].step \in AdmittedSteps
        BY <3>2, <4>1, <4>2 DEF AdmittedOnToken
      <4>3. CASE worker[w].token \notin cancelled
        BY <1>3, <3>2, <4>1, <4>3 DEF TokensRetired
      <4>4. QED BY <2>1, <3>2, <4>2, <4>3, WorkerFrame
    <3>3. QED BY <3>1, <3>2
  <2>2. QED BY <2>1, WorkerFrame DEF AdmittedOnToken
<1>7. AckRemembered'
  <2>1. /\ acked' = acked /\ previewReady' = previewReady
        /\ generation' = generation \/ generation' = generation + 1
    BY WorkerFrame
  <2>2. QED BY <1>3, <2>1 DEF AckRemembered
<1>8. QED BY <1>1, <1>2, <1>4, <1>5, <1>6, <1>7

(* The main thread and the holders of closures preserve it too.             *)
LEMMA CallerKeepsInv ==
  ASSUME SafetyInv, TypeOK', Call \/ CallerStep \/ AcknowledgePreview
  PROVE  SafetyInv'
<1> USE SessionControlAssumption, StepSets DEF SafetyInv, cells, locks
<1>0. /\ token \in Nat /\ generation \in Nat /\ acked \subseteq Nat
      /\ \A v \in Sessions : worker[v].token \in Nat
      /\ worker \in [Sessions -> WorkerState] /\ caller \in CallerState
  BY WorkerFields DEF TypeOK
<1>1. ASSUME NEW t \in Targets \cup {NoTarget}, Invalidate(t) PROVE SafetyInv'
  <2>1. LocksHeld' BY <1>1 DEF Invalidate, LocksHeld
  <2>2. TokensRetired' BY <1>0, <1>1 DEF Invalidate, TokensRetired
  <2>3. FreshToken' BY <1>1 DEF Invalidate, FreshToken
  <2>4. AdmittedOnToken' BY <1>1 DEF Invalidate, AdmittedOnToken
  <2>5. AckRemembered' BY <1>0, <1>1 DEF Invalidate, AckRemembered
  <2>6. QED BY <2>1, <2>2, <2>3, <2>4, <2>5
<1>2. CASE StopSession
  <2>1. LocksHeld' BY <1>2 DEF StopSession, LocksHeld
  <2>2. TokensRetired' BY <1>0, <1>2 DEF StopSession, TokensRetired
  <2>3. FreshToken' BY <1>2 DEF StopSession, FreshToken, IdleCaller
  <2>4. AdmittedOnToken' BY <1>2 DEF StopSession, AdmittedOnToken, IdleCaller
  <2>5. AckRemembered' BY <1>2 DEF StopSession, AckRemembered
  <2>6. QED BY <2>1, <2>2, <2>3, <2>4, <2>5
<1>3. ASSUME NEW w \in Sessions, Arm(w) PROVE SafetyInv'
  <2>1. LocksHeld' BY <1>0, <1>3 DEF Arm, Capture, LocksHeld, IdleWorker
  <2>2. TokensRetired' BY <1>0, <1>3 DEF Arm, Capture, TokensRetired, IdleWorker
  <2>3. FreshToken' BY <1>3 DEF Arm, Capture, FreshToken
  <2>4. AdmittedOnToken' BY <1>0, <1>3 DEF Arm, Capture, AdmittedOnToken, IdleWorker
  <2>5. AckRemembered' BY <1>3 DEF Arm, Capture, AckRemembered
  <2>6. QED BY <2>1, <2>2, <2>3, <2>4, <2>5
(* The barrier: no worker holds the runner, so none is admitted.            *)
<1>4. CASE CrossBarrier
  <2>1. LocksHeld' BY <1>4 DEF CrossBarrier, LocksHeld
  <2>2. TokensRetired' BY <1>0, <1>4 DEF CrossBarrier, TokensRetired
  <2>3. FreshToken' BY <1>0, <1>4 DEF CrossBarrier, FreshToken, CallerState
  <2>4. \A v \in Sessions : worker[v].step \notin AdmittedSteps
    BY <1>4 DEF CrossBarrier, LocksHeld
  <2>5. AdmittedOnToken' BY <1>4, <2>4 DEF CrossBarrier, AdmittedOnToken
  <2>6. AckRemembered' BY <1>4 DEF CrossBarrier, AckRemembered
  <2>7. QED BY <2>1, <2>2, <2>3, <2>5, <2>6
<1>5. CASE ResetTarget
  <2>1. LocksHeld' BY <1>5 DEF ResetTarget, LocksHeld
  <2>2. TokensRetired' BY <1>0, <1>5 DEF ResetTarget, TokensRetired
  <2>3. FreshToken' BY <1>0, <1>5 DEF ResetTarget, FreshToken, CallerState
  <2>4. AdmittedOnToken' BY <1>0, <1>5 DEF ResetTarget, AdmittedOnToken, CallerState
  <2>5. AckRemembered' BY <1>5 DEF ResetTarget, AckRemembered
  <2>6. QED BY <2>1, <2>2, <2>3, <2>4, <2>5
(* The new token is fresh: every worker's is older.                         *)
<1>6. CASE RenewToken
  <2>1. LocksHeld' BY <1>6 DEF RenewToken, LocksHeld
  <2>2. caller'.step \in {"idle", "restart"}
    BY <1>0, <1>6 DEF RenewToken, IdleCaller, CallerState
  <2>3. TokensRetired'
    <3>1. token \in cancelled BY <1>6 DEF RenewToken, TokensRetired
    <3>2. \A t \in 0..token' : t # token' => t \in cancelled'
      BY <1>0, <1>6, <3>1 DEF RenewToken, TokensRetired
    <3>3. \A v \in Sessions : worker'[v].token <= token'
      BY <1>0, <1>6 DEF RenewToken, TokensRetired
    <3>4. QED BY <2>2, <3>2, <3>3 DEF TokensRetired
  <2>4. \A v \in Sessions : worker'[v].token < token'
    BY <1>0, <1>6 DEF RenewToken, TokensRetired
  <2>5. FreshToken' BY <1>6, <2>4 DEF RenewToken, FreshToken
  <2>6. AdmittedOnToken'
    BY <1>6, <2>2 DEF RenewToken, AdmittedOnToken
  <2>7. AckRemembered' BY <1>6 DEF RenewToken, AckRemembered
  <2>8. QED BY <2>1, <2>3, <2>5, <2>6, <2>7
<1>7. ASSUME NEW w \in Sessions, Restart(w) PROVE SafetyInv'
  <2>1. LocksHeld' BY <1>0, <1>7 DEF Restart, LocksHeld, IdleWorker
  <2>2. TokensRetired' BY <1>0, <1>7 DEF Restart, TokensRetired, IdleWorker, IdleCaller
  <2>3. FreshToken' BY <1>7 DEF Restart, FreshToken, IdleCaller
  <2>4. AdmittedOnToken'
    BY <1>0, <1>7 DEF Restart, AdmittedOnToken, IdleWorker, IdleCaller
  <2>5. AckRemembered' BY <1>7 DEF Restart, AckRemembered
  <2>6. QED BY <2>1, <2>2, <2>3, <2>4, <2>5
<1>8. CASE AcknowledgePreview
  <2>1. LocksHeld' BY <1>8 DEF AcknowledgePreview, LocksHeld
  <2>2. TokensRetired' BY <1>8 DEF AcknowledgePreview, TokensRetired
  <2>3. FreshToken' BY <1>8 DEF AcknowledgePreview, FreshToken
  <2>4. AdmittedOnToken' BY <1>8 DEF AcknowledgePreview, AdmittedOnToken
  <2>5. AckRemembered' BY <1>0, <1>8 DEF AcknowledgePreview, AckRemembered
  <2>6. QED BY <2>1, <2>2, <2>3, <2>4, <2>5
<1>9. QED
  BY <1>1, <1>2, <1>3, <1>4, <1>5, <1>6, <1>7, <1>8 DEF Call, CallerStep

(* What calling the closure of start() changes, and what it does not.       *)
LEMMA SpawnFields ==
  ASSUME TypeOK, NEW w \in Sessions, NEW t \in Targets, Spawn(w, t)
  PROVE  /\ UNCHANGED <<runner, transition, token, cancelled, caller, launched>>
         /\ worker[w].step \in ArmedSteps /\ worker'[w].step = "spawned"
         /\ worker'[w].token = worker[w].token /\ worker'[w].retried = worker[w].retried
         /\ \A v \in Sessions \ {w} : worker'[v] = worker[v]
BY DEF TypeOK, WorkerState, Spawn, cells, locks

(* Whoever carries a closure of start() preserves the invariant.            *)
LEMMA ClosureKeepsInv ==
  ASSUME SafetyInv, TypeOK', NEW w \in Sessions,
         Advance(w) \/ AdvanceFailed(w) \/ Discard(w) \/ \E t \in Targets : Spawn(w, t)
  PROVE  SafetyInv'
<1> USE SessionControlAssumption, StepSets DEF SafetyInv, cells, locks
<1>0. /\ token \in Nat /\ generation \in Nat /\ acked \subseteq Nat
      /\ worker \in [Sessions -> WorkerState]
      /\ \A v \in Sessions : worker[v].token \in Nat
  BY WorkerFields DEF TypeOK
<1>1. CASE Advance(w)
  <2>1. LocksHeld' BY <1>0, <1>1 DEF Advance, LocksHeld
  <2>2. TokensRetired' BY <1>0, <1>1 DEF Advance, TokensRetired, WorkerState
  <2>3. FreshToken' BY <1>0, <1>1 DEF Advance, FreshToken, WorkerState
  <2>4. AdmittedOnToken' BY <1>0, <1>1 DEF Advance, AdmittedOnToken, WorkerState
  <2>5. AckRemembered' BY <1>0, <1>1 DEF Advance, AckRemembered
  <2>6. QED BY <2>1, <2>2, <2>3, <2>4, <2>5
<1>2. CASE AdvanceFailed(w)
  <2>1. LocksHeld' BY <1>0, <1>2 DEF AdvanceFailed, LocksHeld, Finish, IdleWorker
  <2>2. TokensRetired' BY <1>0, <1>2 DEF AdvanceFailed, TokensRetired, Finish, IdleWorker
  <2>3. FreshToken' BY <1>0, <1>2 DEF AdvanceFailed, FreshToken, Finish, IdleWorker
  <2>4. AdmittedOnToken'
    BY <1>0, <1>2 DEF AdvanceFailed, AdmittedOnToken, Finish, IdleWorker
  <2>5. AckRemembered' BY <1>0, <1>2 DEF AdvanceFailed, AckRemembered
  <2>6. QED BY <2>1, <2>2, <2>3, <2>4, <2>5
<1>3. CASE Discard(w)
  <2>1. LocksHeld' BY <1>0, <1>3 DEF Discard, LocksHeld, Finish, IdleWorker
  <2>2. TokensRetired' BY <1>0, <1>3 DEF Discard, TokensRetired, Finish, IdleWorker
  <2>3. FreshToken' BY <1>0, <1>3 DEF Discard, FreshToken, Finish, IdleWorker
  <2>4. AdmittedOnToken' BY <1>0, <1>3 DEF Discard, AdmittedOnToken, Finish, IdleWorker
  <2>5. AckRemembered' BY <1>3 DEF Discard, AckRemembered
  <2>6. QED BY <2>1, <2>2, <2>3, <2>4, <2>5
<1>4. ASSUME NEW t \in Targets, Spawn(w, t) PROVE SafetyInv'
  <2>0. /\ UNCHANGED <<runner, transition, token, cancelled, caller, launched>>
        /\ worker[w].step \in ArmedSteps /\ worker'[w].step = "spawned"
        /\ worker'[w].token = worker[w].token
        /\ \A v \in Sessions \ {w} : worker'[v] = worker[v]
    BY <1>4, SpawnFields
  <2>1. LocksHeld' BY <2>0 DEF LocksHeld
  <2>2. TokensRetired' BY <2>0 DEF TokensRetired
  <2>3. FreshToken' BY <2>0 DEF FreshToken, ArmedSteps
  <2>4. AdmittedOnToken' BY <2>0 DEF AdmittedOnToken
  <2>5. AckRemembered' BY <1>4 DEF Spawn, AckRemembered
  <2>6. QED BY <2>1, <2>2, <2>3, <2>4, <2>5
<1>5. QED BY <1>1, <1>2, <1>3, <1>4

(* The locks, the tokens and the acknowledgements stay in step.             *)
THEOREM SafetyInvariant == Spec => []SafetyInv
<1>1. ASSUME Init, TypeOK PROVE SafetyInv
  <2> USE <1>1, StepSets, SessionControlAssumption DEF Init
  <2>1. LocksHeld BY DEF LocksHeld, IdleWorker
  <2>2. TokensRetired BY DEF TokensRetired, IdleWorker, IdleCaller
  <2>3. FreshToken BY DEF FreshToken, IdleWorker, IdleCaller
  <2>4. AdmittedOnToken BY DEF AdmittedOnToken, IdleWorker, IdleCaller
  <2>5. AckRemembered BY DEF AckRemembered
  <2>6. QED BY <2>1, <2>2, <2>3, <2>4, <2>5 DEF SafetyInv
<1>2. ASSUME SafetyInv, [Next]_vars, TypeOK' PROVE SafetyInv'
  <2>1. CASE Call \/ CallerStep \/ AcknowledgePreview
    BY <1>2, <2>1, CallerKeepsInv
  <2>2. ASSUME NEW w \in Sessions, WorkerStep(w) \/ ScrcpyStep(w) PROVE SafetyInv'
    BY <1>2, <2>2, WorkerKeepsInv
  <2>3. ASSUME NEW w \in Sessions,
               Advance(w) \/ AdvanceFailed(w) \/ Discard(w) \/ \E t \in Targets : Spawn(w, t)
        PROVE  SafetyInv'
    BY <1>2, <2>3, ClosureKeepsInv
  <2>4. CASE UNCHANGED vars
    BY <1>2, <2>4 DEF vars, cells, locks, SafetyInv, LocksHeld, TokensRetired, FreshToken,
                      AdmittedOnToken, AckRemembered
  <2>5. QED BY <1>2, <2>1, <2>2, <2>3, <2>4 DEF Next
<1>3. QED BY <1>1, <1>2, TypeCorrect, PTL DEF Spec

(* What the invariant says of the scrcpy that runs.                         *)
LEMMA SafeSessions ==
  ASSUME SafetyInv
  PROVE  OneScrcpy /\ RunningIsCancellable /\ ReapedBeforeReturn
<1>1. OneScrcpy
  BY StepSets DEF SafetyInv, LocksHeld, OneScrcpy, Running
<1>2. RunningIsCancellable
  BY StepSets DEF SafetyInv, AdmittedOnToken, RunningIsCancellable, Running
<1>3. ReapedBeforeReturn
  <2> SUFFICES ASSUME caller.step \in {"untarget", "renew", "restart"},
                      NEW w \in Sessions, Running(w)
               PROVE  FALSE
    BY DEF ReapedBeforeReturn
  <2>1. worker[w].step \in AdmittedSteps /\ worker[w].step # "idle"
    BY StepSets DEF Running
  <2>2. CASE caller.step = "restart"
    <3>1. worker[w].token < token
      BY <2>1, <2>2 DEF SafetyInv, FreshToken
    <3>2. worker[w].token = token /\ token \in Nat
      BY <2>1 DEF SafetyInv, AdmittedOnToken, TypeOK
    <3>3. QED BY <3>1, <3>2
  <2>3. QED BY <2>1, <2>2 DEF SafetyInv, AdmittedOnToken
<1>4. QED BY <1>1, <1>2, <1>3

(* At most one scrcpy runs: two that run would both own the runner mutex.   *)
THEOREM OneScrcpyAtATime == Spec => []OneScrcpy
BY SafeSessions, SafetyInvariant, PTL

(* A running scrcpy polls the token the main thread holds.                  *)
THEOREM RunningCancellable == Spec => []RunningIsCancellable
BY SafeSessions, SafetyInvariant, PTL

(* Past the barrier no scrcpy runs until the method has returned.  At the   *)
(* restart step the token is new, so no worker that runs could have it.     *)
THEOREM Reaped == Spec => []ReapedBeforeReturn
BY SafeSessions, SafetyInvariant, PTL

(* Only claim_retry marks a worker as retried.                              *)
LEMMA RetryOnlyClaimed ==
  ASSUME TypeOK, Next, NEW w \in Sessions, ~worker[w].retried, worker'[w].retried
  PROVE  ClaimRetry(w)
<1> USE DEF TypeOK, WorkerState
<1>1. ASSUME NEW v \in Sessions, WorkerStep(v) \/ ScrcpyStep(v) PROVE ClaimRetry(w)
  BY <1>1, WorkerFrame
<1>2. CASE Call
  <2>1. worker' = worker \/ \E v \in Sessions : Arm(v)
    BY <1>2 DEF Call, Invalidate, StopSession
  <2>2. ASSUME NEW v \in Sessions, Arm(v) PROVE ClaimRetry(w)
    <3>1. worker'[v].retried = FALSE
      BY <2>2 DEF Arm, Capture, IdleWorker
    <3>2. v # w => worker'[w] = worker[w]
      BY <2>2 DEF Arm, Capture
    <3>3. QED BY <3>1, <3>2
  <2>3. QED BY <2>1, <2>2
<1>3. CASE CallerStep
  <2>1. worker' = worker \/ \E v \in Sessions : Restart(v)
    BY <1>3 DEF CallerStep, CrossBarrier, ResetTarget, RenewToken
  <2>2. ASSUME NEW v \in Sessions, Restart(v) PROVE ClaimRetry(w)
    <3>1. worker'[v].retried = FALSE
      BY <2>2 DEF Restart, IdleWorker
    <3>2. v # w => worker'[w] = worker[w]
      BY <2>2 DEF Restart
    <3>3. QED BY <3>1, <3>2
  <2>3. QED BY <2>1, <2>2
<1>4. CASE AcknowledgePreview
  BY <1>4 DEF AcknowledgePreview
<1>5. ASSUME NEW v \in Sessions,
             Advance(v) \/ AdvanceFailed(v) \/ Discard(v) \/ \E t \in Targets : Spawn(v, t)
      PROVE  ClaimRetry(w)
  <2>1. CASE Advance(v) BY <2>1 DEF Advance
  <2>2. CASE AdvanceFailed(v) \/ Discard(v)
    BY <2>2 DEF AdvanceFailed, Discard, Finish, IdleWorker
  <2>3. ASSUME NEW t \in Targets, Spawn(v, t) PROVE ClaimRetry(w)
    BY <2>3, SpawnFields
  <2>4. QED BY <1>5, <2>1, <2>2, <2>3
<1>6. QED BY <1>1, <1>2, <1>3, <1>4, <1>5 DEF Next

(* No step claims the retry of a generation whose preview was acknowledged. *)
THEOREM NoRetryAfterAcknowledgement == Spec => AcknowledgedNeverRetried
<1> DEFINE Step == \A w \in Sessions :
             ~worker[w].retried /\ worker'[w].retried => worker[w].current \notin acked
<1>1. SafetyInv /\ [Next]_vars => [Step]_vars
  <2> SUFFICES ASSUME SafetyInv, Next, NEW w \in Sessions,
                      ~worker[w].retried, worker'[w].retried
               PROVE  worker[w].current \notin acked
    BY DEF Step
  <2>1. ClaimRetry(w)
    BY RetryOnlyClaimed DEF SafetyInv
  <2>2. QED BY <2>1 DEF ClaimRetry, MayRetry, SafetyInv, AckRemembered
<1>2. QED BY <1>1, SafetyInvariant, PTL DEF Spec, AcknowledgedNeverRetried, Step

=============================================================================
