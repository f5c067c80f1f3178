---------------------------- MODULE SessionControl ----------------------------
(***************************************************************************)
(* The session half of helper/src/runtime.rs: struct SessionControl, the   *)
(* session worker threads its start() closures spawn, and the retry rule   *)
(* of SessionTransition.  A worker owns the runner mutex for as long as    *)
(* scrcpy runs; the main thread ends a session by cancelling its token and *)
(* then locking the runner once ("barrier").                               *)
(*                                                                         *)
(* The caller is the most general one the API admits: the main thread runs *)
(* one &mut self method at a time, in any order, and a closure returned by *)
(* start() may be called late or dropped (that is what the pairing and     *)
(* reconnect workers do with it).  HelperRuntime narrows this caller down. *)
(*                                                                         *)
(* One atomic step is one critical section or one access to an atomic;     *)
(* where a step merges two accesses, its comment says why nobody can tell. *)
(***************************************************************************)
EXTENDS Naturals, Sequences, FiniteSets

CONSTANTS
  Sessions,   (* session workers: start() closures and the threads they become *)
  Targets,    (* adb targets a session may be started on                       *)
  NoTarget,   (* Option::None in the shared target cell                        *)
  Nobody,     (* a mutex nobody holds                                          *)
  MaxCalls    (* bound: calls made by the caller and by the pairing workers    *)

ASSUME SessionControlAssumption ==
  /\ Nobody \notin Sessions
  /\ NoTarget \notin Targets
  /\ MaxCalls \in Nat

VARIABLES
  generation,    (* SessionControl.generation, an AtomicU64                    *)
  previewReady,  (* SessionTransition.preview_ready_generation as a set: {}/{g} *)
  token,         (* identity of SessionControl.cancellation                    *)
  cancelled,     (* the tokens whose shared flag is set                        *)
  runner,        (* owner of the runner mutex                                  *)
  transition,    (* owner of the transition mutex                              *)
  target,        (* the shared target cell                                     *)
  worker,        (* what each session worker is doing                          *)
  caller,        (* progress of the main thread inside a SessionControl method *)
  sent,          (* events written to the sink, in order                       *)
  acked,         (* history: generations whose preview was acknowledged        *)
  launched,      (* whether start() was called since the token was replaced    *)
  calls          (* calls made so far                                          *)

cells == <<generation, previewReady, token, cancelled, target>>
locks == <<runner, transition>>
vars == <<cells, locks, worker, caller, sent, acked, launched, calls>>

-----------------------------------------------------------------------------
Results == {"None", "Ended", "Disconnected", "Unavailable", "Stopped"}

(* Where a worker is in the closure of start().                             *)
RunningSteps == {"starting", "confirm", "live"}           \* a scrcpy child exists
AdmittedSteps == {"announce", "run", "exited", "reannounce"} \cup RunningSteps
RunnerSteps == {"target", "admit"} \cup AdmittedSteps     \* the runner is locked
TransitionSteps == {"announce", "reannounce"}             \* transition is locked
ArmedSteps == {"armed", "advanced"}                       \* start() returned its closure
FreeSteps == {"idle", "spawned", "lock", "ended", "untarget", "report"} \cup ArmedSteps

Steps == RunnerSteps \cup FreeSteps

WorkerState ==
  [step: Steps, token: Nat, current: Nat,
   target: Targets \cup {NoTarget}, retried: BOOLEAN, result: Results]

IdleWorker ==
  [step |-> "idle", token |-> 0, current |-> 0, target |-> NoTarget,
   retried |-> FALSE, result |-> "None"]

CallerSteps == {"idle", "barrier", "untarget", "renew", "restart"}
CallerState == [step: CallerSteps, generation: Nat, target: Targets \cup {NoTarget}]
IdleCaller == [step |-> "idle", generation |-> 0, target |-> NoTarget]

EventTypes ==
  {"SessionStarting", "SessionStarted", "SessionEnded", "LifecycleFailure",
   "SessionStopped", "StartOverComplete", "Connecting", "Connected", "Paired",
   "PairingCancelled", "QrWaiting", "QrTimedOut", "Pairing", "ManualCodeRequired",
   "PreferencesUpdated", "PreferencesRestarted", "ScrcpyArgsUpdated",
   "ScrcpyArgsRestarted", "ScrcpyArgsStale", "StaleSession", "Failure", "Refused",
   "InputFailed", "ReconnectFailed"}
Event(type, g) == [type |-> type, generation |-> g]
Sent(e) == \E i \in DOMAIN sent : sent[i] = e
EventSet == [type: EventTypes, generation: Nat]

Running(w) == worker[w].step \in RunningSteps

(* !cancellation.is_cancelled() && generation == the worker's: the test the *)
(* worker makes before it starts, announces, confirms or ends a session.    *)
Current(w) == worker[w].token \notin cancelled /\ generation = worker[w].current

Goto(w, step) == worker' = [worker EXCEPT ![w].step = step]
Finish(w) == worker' = [worker EXCEPT ![w] = IdleWorker]
Exit(w, r) == worker' = [worker EXCEPT ![w].step = "exited", ![w].result = r]

-----------------------------------------------------------------------------
(* The caller: methods of SessionControl on the main thread.                *)

Init ==
  /\ generation = 0 /\ previewReady = {} /\ token = 0 /\ cancelled = {}
  /\ runner = Nobody /\ transition = Nobody /\ target = NoTarget
  /\ worker = [w \in Sessions |-> IdleWorker]
  /\ caller = IdleCaller
  /\ sent = <<>>
  /\ acked = {} /\ launched = FALSE /\ calls = 0

Count == calls < MaxCalls /\ calls' = calls + 1

(* invalidate_and_wait up to the barrier.  The generation moves and the     *)
(* token is cancelled under the transition mutex, in one step here although *)
(* two in the code: unlocked readers test both, so seeing one change or     *)
(* both makes them do the same.                                             *)
(* t is the target of a restart, NoTarget for a plain invalidation.         *)
Invalidate(t) ==
  /\ caller.step = "idle" /\ transition = Nobody
  /\ generation' = generation + 1
  /\ cancelled' = cancelled \cup {token}
  /\ caller' = [step |-> "barrier", generation |-> generation + 1, target |-> t]
  /\ UNCHANGED <<previewReady, token, target, locks, worker, sent, acked, launched>>

(* Mutant: the token survives stop_and_wait.                                *)
StopSessionUncancelled ==
  /\ caller.step = "idle" /\ transition = Nobody
  /\ caller' = [IdleCaller EXCEPT !.step = "barrier"]
  /\ UNCHANGED <<cells, locks, worker, sent, acked, launched>>

(* stop_and_wait: the same without a new generation.                        *)
StopSession ==
  /\ caller.step = "idle" /\ transition = Nobody
  /\ cancelled' = cancelled \cup {token}
  /\ caller' = [IdleCaller EXCEPT !.step = "barrier"]
  /\ UNCHANGED <<generation, previewReady, token, target, locks, worker, sent, acked,
                 launched>>

(* Mutant: wait_and_reset does not wait for the runner.                     *)
CrossBarrierAtOnce ==
  /\ caller.step = "barrier"
  /\ caller' = [caller EXCEPT !.step = "untarget"]
  /\ UNCHANGED <<cells, locks, worker, sent, acked, launched, calls>>

(* wait_and_reset: lock and unlock the runner ...                           *)
CrossBarrier ==
  /\ caller.step = "barrier" /\ runner = Nobody
  /\ caller' = [caller EXCEPT !.step = "untarget"]
  /\ UNCHANGED <<cells, locks, worker, sent, acked, launched, calls>>

(* ... forget the target ...                                                *)
ResetTarget ==
  /\ caller.step = "untarget"
  /\ target' = NoTarget
  /\ caller' = [caller EXCEPT !.step = "renew"]
  /\ UNCHANGED <<generation, previewReady, token, cancelled, locks, worker, sent,
                 acked, launched, calls>>

(* ... and make a new token, which only the main thread can reach yet.      *)
RenewToken ==
  /\ caller.step = "renew"
  /\ token' = token + 1
  /\ launched' = FALSE
  /\ caller' = IF caller.target = NoTarget
               THEN IdleCaller
               ELSE [caller EXCEPT !.step = "restart"]
  /\ UNCHANGED <<generation, previewReady, cancelled, target, locks, worker, sent,
                 acked, calls>>

(* restart, after the invalidation: start()(target, generation).            *)
Restart(w) ==
  /\ caller.step = "restart" /\ worker[w].step = "idle"
  /\ worker' = [worker EXCEPT ![w] =
       [IdleWorker EXCEPT !.step = "spawned", !.token = token,
                          !.current = caller.generation, !.target = caller.target]]
  /\ launched' = TRUE
  /\ caller' = IdleCaller
  /\ UNCHANGED <<cells, locks, sent, acked, calls>>

(* acknowledge_preview_ready of the generation the command names.  One that *)
(* names another generation is refused and changes nothing.                 *)
AcknowledgePreview ==
  /\ caller.step = "idle" /\ transition = Nobody
  /\ previewReady' = {generation}
  /\ acked' = acked \cup {generation}
  /\ UNCHANGED <<generation, token, cancelled, target, locks, worker, caller, sent,
                 launched, calls>>

-----------------------------------------------------------------------------
(* start() and its closure, which a pairing or reconnect worker calls.      *)

(* launch_pending and launch_reconnect call start(): the closure captures   *)
(* the token of that moment, and the worker that will call it remembers the *)
(* generation.                                                              *)
Capture(w) ==
  /\ caller.step = "idle" /\ worker[w].step = "idle"
  /\ worker' = [worker EXCEPT ![w] = [IdleWorker EXCEPT !.step = "armed",
                                       !.token = token, !.current = generation]]
  /\ launched' = TRUE
  /\ UNCHANGED <<cells, locks, caller, sent, acked>>

(* The runtime launches at most once per token (HelperRuntime shows it).    *)
Arm(w) == ~launched /\ Capture(w)

(* The pairing worker's fetch_add on the generation, which does not take    *)
(* the transition mutex; its result is the generation of the session.       *)
Advance(w) ==
  /\ worker[w].step = "armed"
  /\ generation' = generation + 1
  /\ worker' = [worker EXCEPT ![w].step = "advanced", ![w].current = generation + 1]
  /\ UNCHANGED <<previewReady, token, cancelled, target, locks, caller, sent, acked,
                 launched, calls>>

(* The reconnect worker's compare_exchange on the generation it remembers:  *)
(* no session is to start, the closure is dropped.                          *)
AdvanceFailed(w) ==
  /\ worker[w].step = "armed" /\ generation = worker[w].current
  /\ generation' = generation + 1
  /\ Finish(w)
  /\ UNCHANGED <<previewReady, token, cancelled, target, locks, caller, sent, acked,
                 launched, calls>>

(* Mutant: the closure reads the token when it is called.                   *)
SpawnOnNewToken(w, t) ==
  /\ worker[w].step \in ArmedSteps
  /\ worker' = [worker EXCEPT ![w].step = "spawned", ![w].target = t, ![w].token = token]
  /\ UNCHANGED <<cells, locks, caller, sent, acked, launched, calls>>

(* The closure is called with the connected target: the thread is spawned.  *)
Spawn(w, t) ==
  /\ worker[w].step \in ArmedSteps
  /\ worker' = [worker EXCEPT ![w].step = "spawned", ![w].target = t]
  /\ UNCHANGED <<cells, locks, caller, sent, acked, launched, calls>>

(* The closure is dropped: nothing was connected.                           *)
Discard(w) ==
  /\ worker[w].step \in ArmedSteps
  /\ Finish(w)
  /\ UNCHANGED <<cells, locks, caller, sent, acked, launched, calls>>

-----------------------------------------------------------------------------
(* The session worker thread.                                               *)

SpawnStale(w) ==
  /\ worker[w].step = "spawned" /\ ~Current(w)
  /\ Finish(w)
  /\ UNCHANGED <<cells, locks, caller, sent, acked, launched, calls>>

SpawnCurrent(w) ==
  /\ worker[w].step = "spawned" /\ Current(w)
  /\ Goto(w, "lock")
  /\ UNCHANGED <<cells, locks, caller, sent, acked, launched, calls>>

LockRunner(w) ==
  /\ worker[w].step = "lock" /\ runner = Nobody
  /\ runner' = w
  /\ Goto(w, "target")
  /\ UNCHANGED <<cells, transition, caller, sent, acked, launched, calls>>

(* The target is written before the session is admitted ...                 *)
SetTarget(w) ==
  /\ worker[w].step = "target"
  /\ target' = worker[w].target
  /\ Goto(w, "admit")
  /\ UNCHANGED <<generation, previewReady, token, cancelled, locks, caller, sent,
                 acked, launched, calls>>

(* ... and a session that is not admitted leaves it as it is.               *)
RefuseStart(w) ==
  /\ worker[w].step = "admit" /\ transition = Nobody /\ ~Current(w)
  /\ Finish(w)
  /\ runner' = Nobody
  /\ UNCHANGED <<cells, transition, caller, sent, acked, launched, calls>>

AdmitStart(w) ==
  /\ worker[w].step = "admit" /\ transition = Nobody /\ Current(w)
  /\ transition' = w
  /\ Goto(w, "announce")
  /\ UNCHANGED <<cells, runner, caller, sent, acked, launched, calls>>

(* Mutant: the runner's guard is dropped with the transition's.             *)
AnnounceUnlocked(w) ==
  /\ worker[w].step \in TransitionSteps
  /\ sent' = Append(sent, Event("SessionStarting", worker[w].current))
  /\ transition' = Nobody /\ runner' = Nobody
  /\ Goto(w, "run")
  /\ UNCHANGED <<cells, caller, acked, launched, calls>>

(* SessionStarting is written while the transition mutex is still held, for *)
(* a first run and for a retry.                                             *)
Announce(w) ==
  /\ worker[w].step \in TransitionSteps
  /\ sent' = Append(sent, Event("SessionStarting", worker[w].current))
  /\ transition' = Nobody
  /\ Goto(w, "run")
  /\ UNCHANGED <<cells, runner, caller, acked, launched, calls>>

(* SessionRunner::run: the child is spawned unless the token is cancelled.  *)
RunScrcpy(w) ==
  /\ worker[w].step = "run" /\ worker[w].token \notin cancelled
  /\ Goto(w, "starting")
  /\ UNCHANGED <<cells, locks, caller, sent, acked, launched, calls>>

(* Mutant: only the start-up loop polls the token.                          *)
RunStoppedBeforeLive(w) ==
  /\ worker[w].step \in {"run", "starting"} /\ worker[w].token \in cancelled
  /\ Exit(w, "Stopped")
  /\ UNCHANGED <<cells, locks, caller, sent, acked, launched, calls>>

(* The polling loops of run see the cancellation: the child is killed and   *)
(* reaped.                                                                  *)
RunStopped(w) ==
  /\ worker[w].step \in {"run", "starting", "live"} /\ worker[w].token \in cancelled
  /\ Exit(w, "Stopped")
  /\ UNCHANGED <<cells, locks, caller, sent, acked, launched, calls>>

(* The capture sink turns ready and on_started tests the session; the event *)
(* is written later, with no lock held but the runner's.                    *)
CaptureReady(w) ==
  /\ worker[w].step = "starting"
  /\ Goto(w, IF Current(w) THEN "confirm" ELSE "live")
  /\ UNCHANGED <<cells, locks, caller, sent, acked, launched, calls>>

ConfirmStarted(w) ==
  /\ worker[w].step = "confirm"
  /\ sent' = Append(sent, Event("SessionStarted", worker[w].current))
  /\ Goto(w, "live")
  /\ UNCHANGED <<cells, locks, caller, acked, launched, calls>>

(* The child was not ready within SESSION_START_TIMEOUT and is killed.      *)
StartDeadline(w) ==
  /\ worker[w].step = "starting"
  /\ Exit(w, "Disconnected")
  /\ UNCHANGED <<cells, locks, caller, sent, acked, launched, calls>>

(* The child exits by itself: with success or without.                      *)
ScrcpyExits(w, r) ==
  /\ worker[w].step \in {"starting", "live"} /\ r \in {"Ended", "Disconnected"}
  /\ Exit(w, r)
  /\ UNCHANGED <<cells, locks, caller, sent, acked, launched, calls>>

(* The sink, the spawn or try_wait fails.                                   *)
RunUnavailable(w) ==
  /\ worker[w].step \in {"run", "starting", "live"}
  /\ worker[w].step = "run" => worker[w].token \notin cancelled
  /\ Exit(w, "Unavailable")
  /\ UNCHANGED <<cells, locks, caller, sent, acked, launched, calls>>

Retryable(w) ==
  ~worker[w].retried /\ worker[w].result \in {"Ended", "Disconnected"}

(* Mutant: the acknowledgement is not looked at.                            *)
MayRetryAcknowledged(w) == worker[w].token \notin cancelled

(* SessionTransition::claim_retry, for an attempt of the current generation. *)
MayRetry(w) == worker[w].token \notin cancelled /\ worker[w].current \notin previewReady

(* A session of an older generation returns at once: the target stays.      *)
ExitSuperseded(w) ==
  /\ worker[w].step = "exited" /\ Retryable(w)
  /\ transition = Nobody /\ generation # worker[w].current
  /\ Finish(w)
  /\ runner' = Nobody
  /\ UNCHANGED <<cells, transition, caller, sent, acked, launched, calls>>

(* The load and the compare_exchange are one step: the transition mutex is  *)
(* held, so only Advance could come between them, and a failed exchange     *)
(* returns as ExitSuperseded does.                                          *)
ClaimRetry(w) ==
  /\ worker[w].step = "exited" /\ Retryable(w)
  /\ transition = Nobody /\ generation = worker[w].current /\ MayRetry(w)
  /\ generation' = generation + 1
  /\ transition' = w
  /\ worker' = [worker EXCEPT ![w].step = "reannounce", ![w].current = generation + 1,
                              ![w].retried = TRUE, ![w].result = "None"]
  /\ UNCHANGED <<previewReady, token, cancelled, target, runner, caller, sent, acked,
                 launched, calls>>

(* Mutant: the runner is not released.                                      *)
KeepResultLocked(w) ==
  /\ worker[w].step = "exited"
  /\ \/ ~Retryable(w)
     \/ transition = Nobody /\ generation = worker[w].current /\ ~MayRetry(w)
  /\ Goto(w, "ended")
  /\ UNCHANGED <<cells, locks, caller, sent, acked, launched, calls>>

(* The result stands: the worker leaves its loop and drops the runner.      *)
KeepResult(w) ==
  /\ worker[w].step = "exited"
  /\ \/ ~Retryable(w)
     \/ transition = Nobody /\ generation = worker[w].current /\ ~MayRetry(w)
  /\ Goto(w, "ended")
  /\ runner' = Nobody
  /\ UNCHANGED <<cells, transition, caller, sent, acked, launched, calls>>

EndSilently(w) ==
  /\ worker[w].step = "ended" /\ transition = Nobody /\ ~Current(w)
  /\ Finish(w)
  /\ UNCHANGED <<cells, locks, caller, sent, acked, launched, calls>>

(* The compare_exchange to the terminal generation and the cancel() of the  *)
(* token, both under the transition mutex.                                  *)
ClaimEnd(w) ==
  /\ worker[w].step = "ended" /\ transition = Nobody /\ Current(w)
  /\ generation' = generation + 1
  /\ cancelled' = cancelled \cup {worker[w].token}
  /\ worker' = [worker EXCEPT ![w].step = "untarget", ![w].current = generation + 1]
  /\ UNCHANGED <<previewReady, token, target, locks, caller, sent, acked, launched,
                 calls>>

(* The target cell is cleared after the transition mutex was released.      *)
ClearTarget(w) ==
  /\ worker[w].step = "untarget"
  /\ target' = NoTarget
  /\ Goto(w, "report")
  /\ UNCHANGED <<generation, previewReady, token, cancelled, locks, caller, sent,
                 acked, launched, calls>>

EndEvent(w) ==
  Event(IF worker[w].result \in {"Ended", "Stopped"}
        THEN "SessionEnded" ELSE "LifecycleFailure", worker[w].current)

ReportEnd(w) ==
  /\ worker[w].step = "report"
  /\ sent' = Append(sent, EndEvent(w))
  /\ Finish(w)
  /\ UNCHANGED <<cells, locks, caller, acked, launched, calls>>

-----------------------------------------------------------------------------
(* What the thread does by itself, and what scrcpy may do to it.            *)
WorkerStep(w) ==
  \/ SpawnStale(w) \/ SpawnCurrent(w) \/ LockRunner(w) \/ SetTarget(w)
  \/ RefuseStart(w) \/ AdmitStart(w) \/ Announce(w) \/ RunScrcpy(w) \/ RunStopped(w)
  \/ ConfirmStarted(w) \/ StartDeadline(w) \/ ExitSuperseded(w) \/ ClaimRetry(w)
  \/ KeepResult(w) \/ EndSilently(w) \/ ClaimEnd(w) \/ ClearTarget(w) \/ ReportEnd(w)

ScrcpyStep(w) ==
  \/ CaptureReady(w) \/ RunUnavailable(w)
  \/ \E r \in {"Ended", "Disconnected"} : ScrcpyExits(w, r)

CallerStep ==
  CrossBarrier \/ ResetTarget \/ RenewToken \/ \E w \in Sessions : Restart(w)

Call ==
  /\ Count
  /\ \/ \E t \in Targets \cup {NoTarget} : Invalidate(t)
     \/ StopSession
     \/ \E w \in Sessions : Arm(w)

Next ==
  \/ Call \/ CallerStep
  \/ Sent(Event("SessionStarted", generation)) /\ AcknowledgePreview
  \/ \E w \in Sessions :
       \/ WorkerStep(w) \/ ScrcpyStep(w)
       \/ Advance(w) \/ AdvanceFailed(w) \/ Discard(w) \/ \E t \in Targets : Spawn(w, t)

(* Threads are scheduled and a cancelled or overdue child is noticed by the *)
(* polling loop; scrcpy itself owes nothing.                                *)
Fairness ==
  /\ WF_vars(CallerStep)
  /\ \A w \in Sessions : WF_vars(WorkerStep(w))

Spec == Init /\ [][Next]_vars
FairSpec == Spec /\ Fairness

-----------------------------------------------------------------------------
TypeOK ==
  /\ generation \in Nat /\ token \in Nat /\ calls \in 0..MaxCalls
  /\ previewReady \in SUBSET Nat /\ cancelled \in SUBSET Nat /\ acked \in SUBSET Nat
  /\ target \in Targets \cup {NoTarget}
  /\ runner \in Sessions \cup {Nobody} /\ transition \in Sessions \cup {Nobody}
  /\ worker \in [Sessions -> WorkerState]
  /\ caller \in CallerState
  /\ sent \in Seq(EventSet)
  /\ launched \in BOOLEAN

(* At most one scrcpy writes to the V4L2 sink at a time, however many       *)
(* workers restarts and retries have left behind (runner mutex,             *)
(* runtime.rs:217).                                                         *)
OneScrcpy == \A v, w \in Sessions : Running(v) /\ Running(w) => v = w

(* A scrcpy that runs can be stopped: its worker polls the token the main   *)
(* thread would cancel next, never one that was already thrown away by      *)
(* wait_and_reset (runtime.rs:361-369 against the capture at 199).          *)
RunningIsCancellable == \A w \in Sessions : Running(w) => worker[w].token = token

(* Between the barrier and the moment the method is done, no scrcpy is      *)
(* left: this is what lets every backend failure "reap the session before   *)
(* emitting the new generation" (tests/reconnect.rs:870).                   *)
ReapedBeforeReturn ==
  caller.step \in {"untarget", "renew", "restart"} =>
    \A w \in Sessions : ~Running(w)

(* Once the panel has acknowledged the preview of a generation, the end of  *)
(* that session is never hidden by the automatic retry (claim_retry,        *)
(* runtime.rs:165-176), whatever else moved in between.                     *)
AcknowledgedNeverRetried ==
  [][\A w \in Sessions :
       ~worker[w].retried /\ worker'[w].retried => worker[w].current \notin acked]_vars

(* stop, invalidate and restart come back: the barrier is not held for ever *)
(* by a session that ignores its cancelled token.                           *)
BarrierIsCrossed == caller.step = "barrier" ~> caller.step = "idle"

-----------------------------------------------------------------------------
(* The strengthening that makes the safety properties inductive.            *)

(* The mutexes are held exactly where the code holds them.                  *)
LocksHeld ==
  \A w \in Sessions :
    /\ runner = w <=> worker[w].step \in RunnerSteps
    /\ transition = w <=> worker[w].step \in TransitionSteps

(* Only the token of the moment can be alive, and it is not while the main  *)
(* thread waits for the session it cancelled.                               *)
TokensRetired ==
  /\ \A t \in 0..token : t # token => t \in cancelled
  /\ \A w \in Sessions : worker[w].token <= token
  /\ caller.step \in {"barrier", "untarget", "renew"} => token \in cancelled

(* A token that was not handed out yet belongs to no worker.                *)
FreshToken ==
  /\ ~launched => \A w \in Sessions : worker[w].step = "idle" \/ worker[w].token < token
  /\ caller.step = "restart" => ~launched

AdmittedOnToken ==
  /\ \A w \in Sessions : worker[w].step \in AdmittedSteps => worker[w].token = token
  /\ caller.step \in {"untarget", "renew"} =>
       \A w \in Sessions : worker[w].step \notin AdmittedSteps

AckRemembered ==
  /\ generation \in acked => generation \in previewReady
  /\ \A g \in acked : g <= generation

SafetyInv ==
  /\ TypeOK /\ LocksHeld /\ TokensRetired /\ FreshToken /\ AdmittedOnToken
  /\ AckRemembered
=============================================================================
