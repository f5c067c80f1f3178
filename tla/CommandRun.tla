------------------------------ MODULE CommandRun ------------------------------
(***************************************************************************)
(* One adb child process after another, as AdbCommandRunner in             *)
(* helper/src/process.rs runs them: spawn, optional private stdin, a poll  *)
(* loop of cancellation, output and exit, and kill-and-wait on every other *)
(* way out.                                                                *)
(*                                                                         *)
(* Output is counted in blocks: a block is "plain" or a notice the runner  *)
(* classifies a phone target by.  The child may write for ever, may block  *)
(* on a full pipe, and need not exit unless it is killed.                  *)
(***************************************************************************)
EXTENDS Naturals, Sequences

CONSTANTS
  Notices,     (* texts that are classified, of AllNotices                    *)
  PipeSize,    (* blocks a pipe holds: 64 KB on Linux                         *)
  DrainSize,   (* MAX_DRAIN_BYTES_PER_POLL, 64 KB, in blocks                  *)
  KeepSize     (* MAX_CLASSIFIED_OUTPUT_BYTES, 8 KB, in blocks                *)

AllNotices == {"unauthorized", "disconnected", "notLaunched"}

ASSUME CommandRunAssumption ==
  /\ Notices \subseteq AllNotices
  /\ PipeSize \in Nat \ {0} /\ DrainSize \in Nat /\ PipeSize <= DrainSize
  /\ KeepSize \in Nat

VARIABLES
  run,       (* run_internal: where it is, for what, and what it will return  *)
  child,     (* the child process                                             *)
  stream,    (* per stream: what is in the pipe, what is kept, and (history)  *)
             (* the first KeepSize blocks the child wrote                     *)
  flag,      (* the atomic the token shares with its parent is set            *)
  expired    (* the deadline of the token has passed                          *)

commandVars == <<run, child, stream, flag, expired>>

Requests == {"pair", "connect", "disconnect", "input", "target"}
Captures(r) == r = "target"                  \* run_phone_target
HasStdin(r) == r = "pair"                    \* the pairing code
HasDeadline(r) == r \in {"disconnect", "input", "target"}

Streams == {"stdout", "stderr"}
Blocks == {"plain"} \cup Notices

Failures == {"DependencyUnavailable", "Cancelled"}
Verdicts == Failures \cup {"Succeeded", "Failed", "Unauthorized", "Disconnected"}
RunSteps == {"idle", "begin", "capture", "input", "poll", "drain", "wait",
             "finish", "kill", "reap"}
ChildStates == {"none", "running", "killed", "exited", "reaped"}

CommandTypeOK ==
  /\ run \in [step: RunSteps, request: Requests, result: Verdicts \cup {"None"},
              reading: Streams, drained: 0..DrainSize]
  /\ child \in [state: ChildStates, ok: BOOLEAN, writing: Streams \cup {"none"}]
  /\ stream \in [Streams -> [pipe: Seq(Blocks), kept: Seq(Blocks), wrote: Seq(Blocks)]]
  /\ \A s \in Streams :
       /\ Len(stream[s].pipe) <= PipeSize
       /\ Len(stream[s].kept) <= KeepSize /\ Len(stream[s].wrote) <= KeepSize
  /\ flag \in BOOLEAN /\ expired \in BOOLEAN

NoChild == [state |-> "none", ok |-> FALSE, writing |-> "none"]
NoOutput == [s \in Streams |-> [pipe |-> <<>>, kept |-> <<>>, wrote |-> <<>>]]

CommandInit ==
  /\ run = [step |-> "idle", request |-> "connect", result |-> "None",
            reading |-> "stdout", drained |-> 0]
  /\ child = NoChild /\ stream = NoOutput
  /\ flag = FALSE /\ expired = FALSE

-----------------------------------------------------------------------------
(* The token.  A child token shares its parent's flag and has a deadline    *)
(* that is the earlier of the two; is_cancelled reads both.                 *)

IsCancelled == flag \/ expired

(* The session worker ends a session, or a thread ends a ceremony.          *)
Cancel ==
  /\ ~flag /\ flag' = TRUE
  /\ UNCHANGED <<run, child, stream, expired>>

DeadlinePasses ==
  /\ HasDeadline(run.request) /\ run.step # "idle"
  /\ ~expired /\ expired' = TRUE
  /\ UNCHANGED <<run, child, stream, flag>>

-----------------------------------------------------------------------------
(* The runner                                                               *)

Step(s) == run' = [run EXCEPT !.step = s]
Return(v) == run' = [run EXCEPT !.step = "idle", !.result = v]
Abort(v) == run' = [run EXCEPT !.step = "kill", !.result = v]
Read(s, rest) == run' = [run EXCEPT !.step = s, !.reading = rest, !.drained = 0]

(* The caller asks for a command, under a token of its own that may have     *)
(* been cancelled, or under the token of the flow it is part of.            *)
Ask(r) ==
  /\ run.step = "idle"
  /\ run' = [run EXCEPT !.step = "begin", !.request = r, !.result = "None"]
  /\ child' = NoChild /\ stream' = NoOutput /\ expired' = FALSE

Request(r) == Ask(r) /\ flag' \in BOOLEAN

Begin ==
  /\ run.step = "begin"
  /\ \/ IsCancelled /\ Return("Cancelled") /\ UNCHANGED child
     \/ ~IsCancelled /\ Return("DependencyUnavailable") /\ UNCHANGED child
     \/ /\ ~IsCancelled
        /\ child' = [child EXCEPT !.state = "running"]
        /\ Step(IF Captures(run.request) THEN "capture"
                ELSE IF HasStdin(run.request) THEN "input" ELSE "poll")
  /\ UNCHANGED <<stream, flag, expired>>

StartCapture ==
  /\ run.step = "capture"
  /\ Step("poll") \/ Abort("DependencyUnavailable")
  /\ UNCHANGED <<child, stream, flag, expired>>

(* Mutant: a failed write returns as it is, with `?`.                        *)
WriteInputReturning ==
  /\ run.step = "input"
  /\ \/ Return("DependencyUnavailable")
     \/ child.state # "exited" /\ Step("poll")
  /\ UNCHANGED <<child, stream, flag, expired>>

(* The write of the code fails when nobody can read it any more: the child   *)
(* has exited, or it runs on and has closed its standard input.             *)
WriteInput ==
  /\ run.step = "input"
  /\ \/ Abort("DependencyUnavailable")
     \/ child.state # "exited" /\ Step("poll")
  /\ UNCHANGED <<child, stream, flag, expired>>

(* Mutant: output is read once, when the child has exited.                 *)
PollUndrained ==
  /\ run.step = "poll"
  /\ IF IsCancelled THEN Abort("Cancelled") ELSE Step("wait")
  /\ UNCHANGED <<child, stream, flag, expired>>

Poll ==
  /\ run.step = "poll"
  /\ IF IsCancelled THEN Abort("Cancelled")
     ELSE IF Captures(run.request) THEN Read("drain", "stdout") ELSE Step("wait")
  /\ UNCHANGED <<child, stream, flag, expired>>

(* What classify_action_failure and run_phone_target make of the two kept   *)
(* prefixes and the exit status.                                            *)
Verdict ==
  LET Kept(notice) == \E s \in Streams, i \in 1..KeepSize :
                        i \in DOMAIN stream[s].kept /\ stream[s].kept[i] = notice
  IN CASE Kept("unauthorized") -> "Unauthorized"
       [] ~Kept("unauthorized") /\ Kept("disconnected") -> "Disconnected"
       [] OTHER -> IF child.ok /\ ~Kept("notLaunched") THEN "Succeeded" ELSE "Failed"

(* Mutant: a poll drains a stream until it is empty.                       *)
DrainOverUnbounded == stream[run.reading].pipe = <<>>

(* read_available_bounded: one block of the stream, until there is none or  *)
(* the poll has drained its share; stdout first, then stderr.               *)
DrainOver == stream[run.reading].pipe = <<>> \/ run.drained = DrainSize

(* A block taken from the pipe is kept within the limit, dropped beyond it.  *)
Taken(s) ==
  [s EXCEPT !.pipe = Tail(@),
            !.kept = IF Len(@) < KeepSize THEN Append(@, Head(s.pipe)) ELSE @]

ReadBlock ==
  /\ run.step \in {"drain", "finish"} /\ ~DrainOver
  /\ stream' = [stream EXCEPT ![run.reading] = Taken(@)]
  /\ run' = [run EXCEPT !.drained = IF @ < DrainSize THEN @ + 1 ELSE @]
  /\ UNCHANGED <<child, flag, expired>>

ReadOver ==
  /\ run.step \in {"drain", "finish"} /\ DrainOver
  /\ IF run.reading = "stdout" THEN Read(run.step, "stderr")
     ELSE IF run.step = "drain" THEN Step("wait") ELSE Return(Verdict)
  /\ UNCHANGED <<child, stream, flag, expired>>

(* A read of a pipe fails: the child is killed, or, by the `?` after its     *)
(* exit, there is none any more.                                            *)
ReadFails ==
  /\ run.step \in {"drain", "finish"} /\ run.drained < DrainSize
  /\ IF run.step = "drain" THEN Abort("DependencyUnavailable")
     ELSE Return("DependencyUnavailable")
  /\ UNCHANGED <<child, stream, flag, expired>>

(* Mutant: what the last poll captured is what counts.                     *)
TryWaitUnfinished ==
  /\ run.step = "wait"
  /\ \/ /\ child.state = "exited" /\ child' = [child EXCEPT !.state = "reaped"]
        /\ Return(IF Captures(run.request) THEN Verdict
                  ELSE IF child.ok THEN "Succeeded" ELSE "Failed")
     \/ child.state # "exited" /\ Step("poll") /\ UNCHANGED child
     \/ Abort("DependencyUnavailable") /\ UNCHANGED child
  /\ UNCHANGED <<stream, flag, expired>>

(* try_wait reaps a child that has exited, or tells nothing of it.           *)
TryWait ==
  /\ run.step = "wait"
  /\ \/ /\ child.state = "exited" /\ child' = [child EXCEPT !.state = "reaped"]
        /\ IF Captures(run.request) THEN Read("finish", "stdout")
           ELSE Return(IF child.ok THEN "Succeeded" ELSE "Failed")
     \/ child.state # "exited" /\ Step("poll") /\ UNCHANGED child
     \/ Abort("DependencyUnavailable") /\ UNCHANGED child
  /\ UNCHANGED <<stream, flag, expired>>

(* terminate: kill, then wait until the child has exited.                   *)
Kill ==
  /\ run.step = "kill"
  /\ child' = IF child.state = "running" THEN [child EXCEPT !.state = "killed"] ELSE child
  /\ Step("reap")
  /\ UNCHANGED <<stream, flag, expired>>

Reap ==
  /\ run.step = "reap" /\ child.state = "exited"
  /\ child' = [child EXCEPT !.state = "reaped"]
  /\ Return(run.result)
  /\ UNCHANGED <<stream, flag, expired>>

Runner ==
  Begin \/ StartCapture \/ WriteInput \/ Poll \/ ReadBlock \/ ReadOver \/ ReadFails
  \/ TryWait \/ Kill \/ Reap

-----------------------------------------------------------------------------
(* The child: adb, which the source does not contain.  Only a child whose   *)
(* output is captured can block, the others write to /dev/null.             *)

ChildWants(s) ==
  /\ child.state = "running" /\ child.writing = "none" /\ Captures(run.request)
  /\ child' = [child EXCEPT !.writing = s]
  /\ UNCHANGED <<run, stream, flag, expired>>

Given(s, b) ==
  [s EXCEPT !.pipe = Append(@, b),
            !.wrote = IF Len(@) < KeepSize THEN Append(@, b) ELSE @]

ChildWrites(b) ==
  /\ child.state = "running" /\ child.writing # "none"
  /\ Len(stream[child.writing].pipe) < PipeSize
  /\ stream' = [stream EXCEPT ![child.writing] = Given(@, b)]
  /\ child' = [child EXCEPT !.writing = "none"]
  /\ UNCHANGED <<run, flag, expired>>

ChildExits(ok) ==
  /\ child.state = "running" /\ child.writing = "none"
  /\ child' = [child EXCEPT !.state = "exited", !.ok = ok]
  /\ UNCHANGED <<run, stream, flag, expired>>

ChildDies ==
  /\ child.state = "killed"
  /\ child' = [child EXCEPT !.state = "exited", !.ok = FALSE, !.writing = "none"]
  /\ UNCHANGED <<run, stream, flag, expired>>

Adb ==
  \/ \E s \in Streams : ChildWants(s)
  \/ \E b \in Blocks : ChildWrites(b)
  \/ \E ok \in BOOLEAN : ChildExits(ok)
  \/ ChildDies

CommandNext ==
  (\E r \in Requests : Request(r)) \/ Runner \/ Cancel \/ DeadlinePasses \/ Adb

CommandSpec == CommandInit /\ [][CommandNext]_commandVars

(* The thread of the runner is scheduled; the kernel completes a write for  *)
(* which there is room and ends a killed process.  Nothing makes adb write, *)
(* nothing makes it exit.                                                   *)
FairCommandSpec ==
  /\ CommandSpec
  /\ WF_commandVars(Runner)
  /\ WF_commandVars(\E b \in Blocks : ChildWrites(b))
  /\ WF_commandVars(ChildDies)

-----------------------------------------------------------------------------
(* Properties                                                               *)

Returned == run.step = "idle" /\ run.result # "None"

(* Whatever way run_internal returns - also with a child that runs on while  *)
(* its input, a read of its output or try_wait has failed - no child of it   *)
(* runs and none is left as a zombie.                                       *)
ReapedOnReturn == Returned => child.state \in {"none", "reaped"}

(* The verdict on a phone target rests on everything the child wrote up to  *)
(* the limit, the blocks it wrote between the last poll and its exit too:   *)
(* success is reported only for a child that exited with success and wrote  *)
(* no notice within the limit, and a failure class only for one it wrote.   *)
Wrote(notice) ==
  \E s \in Streams, i \in 1..KeepSize :
    i \in DOMAIN stream[s].wrote /\ stream[s].wrote[i] = notice
VerdictOnPrefix ==
  Returned /\ Captures(run.request) /\ run.result \notin Failures =>
    /\ \A s \in Streams : stream[s].kept = stream[s].wrote
    /\ run.result = "Succeeded" => child.ok /\ \A n \in Notices : ~Wrote(n)
    /\ run.result = "Unauthorized" => Wrote("unauthorized")
    /\ run.result = "Disconnected" => Wrote("disconnected")

(* A child that waits for room in a pipe is never left waiting: the poll    *)
(* loop drains both pipes for as long as the child runs, or kills it.       *)
BlockedWriteProceeds ==
  \A s \in Streams : child.writing = s ~> child.writing # s

(* A cancelled or overdue command returns, also when its child never stops  *)
(* writing: the amount drained per poll is bounded.                         *)
CancelledReturns == IsCancelled /\ run.step # "idle" ~> run.step = "idle"

=============================================================================
