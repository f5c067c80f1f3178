--------------------------- MODULE CommandRunProofs ---------------------------
(* Proofs about CommandRun, for pipes, drains and limits of any size.       *)
EXTENDS CommandRun, SequenceTheorems, TLAPS

(* What the child may be at each step of run_internal: from a successful     *)
(* spawn on there is one that runs or has exited by itself, until the step   *)
(* that reaps it.                                                            *)
ChildFits ==
  /\ run.step = "idle" => child.state \in {"none", "reaped"}
  /\ run.step = "begin" => child.state = "none"
  /\ run.step \in {"capture", "input", "poll", "drain", "wait", "kill"} =>
       child.state \in {"running", "exited"}
  /\ run.step = "finish" => child.state = "reaped"
  /\ run.step = "reap" => child.state \in {"killed", "exited"}

(* Only a command that gives up is killed; only a captured one drains.       *)
StepFits ==
  /\ run.step \in {"kill", "reap"} => run.result \in Failures
  /\ run.step \in {"drain", "finish"} => Captures(run.request)

(* The first KeepSize blocks a child wrote are the ones that were kept,      *)
(* followed by those that wait in the pipe.                                  *)
Prefix(wrote, kept, pipe) ==
  /\ Len(wrote) = IF Len(kept) + Len(pipe) < KeepSize THEN Len(kept) + Len(pipe) ELSE KeepSize
  /\ \A i \in 1..Len(wrote) :
       wrote[i] = IF i <= Len(kept) THEN kept[i] ELSE pipe[i - Len(kept)]
PrefixKept == \A s \in Streams : Prefix(stream[s].wrote, stream[s].kept, stream[s].pipe)

(* The last drain reads what is left: no more than a pipe holds, which is no *)
(* more than one drain may take, and nobody writes any more.                 *)
Emptied ==
  run.step = "finish" =>
    /\ run.drained + Len(stream[run.reading].pipe) <= PipeSize
    /\ run.reading = "stderr" => stream["stdout"].pipe = <<>>

CommandInv ==
  CommandTypeOK /\ ChildFits /\ StepFits /\ PrefixKept /\ Emptied /\ VerdictOnPrefix

-----------------------------------------------------------------------------
(* A block that moves from the pipe to what is kept leaves the prefix as it   *)
(* was ...                                                                   *)
LEMMA ReadKeepsPrefix ==
  ASSUME NEW wrote \in Seq(Blocks), NEW kept \in Seq(Blocks), NEW pipe \in Seq(Blocks),
         Prefix(wrote, kept, pipe), pipe # <<>>, Len(kept) < KeepSize
  PROVE  Prefix(wrote, Append(kept, Head(pipe)), Tail(pipe))
<1> USE CommandRunAssumption
<1> DEFINE k == Append(kept, Head(pipe))
           t == Tail(pipe)
<1>1. Len(wrote) \in Nat /\ Len(kept) \in Nat /\ Len(pipe) \in Nat
  OBVIOUS
<1>2. /\ Len(k) = Len(kept) + 1 /\ k[Len(kept) + 1] = pipe[1]
      /\ \A i \in 1..Len(kept) : k[i] = kept[i]
  BY HeadTailProperties, AppendProperties
<1>3. Len(t) = Len(pipe) - 1 /\ \A i \in 1..(Len(pipe) - 1) : t[i] = pipe[i + 1]
  BY HeadTailProperties
<1>4. /\ Len(wrote) = IF Len(kept) + Len(pipe) < KeepSize THEN Len(kept) + Len(pipe) ELSE KeepSize
      /\ \A i \in 1..Len(wrote) :
           wrote[i] = IF i <= Len(kept) THEN kept[i] ELSE pipe[i - Len(kept)]
  BY DEF Prefix
<1> HIDE DEF k, t
<1>5. Len(wrote) = IF Len(k) + Len(t) < KeepSize THEN Len(k) + Len(t) ELSE KeepSize
  BY <1>1, <1>2, <1>3, <1>4
<1>6. ASSUME NEW i \in 1..Len(wrote)
      PROVE  wrote[i] = IF i <= Len(k) THEN k[i] ELSE t[i - Len(k)]
  <2>1. CASE i <= Len(kept) BY <1>1, <1>2, <1>4, <2>1
  <2>2. CASE i = Len(kept) + 1 BY <1>1, <1>2, <1>4, <2>2
  <2>3. CASE i > Len(kept) + 1
    <3>1. i - Len(k) \in 1..(Len(pipe) - 1)
      BY <1>1, <1>2, <1>4, <2>3
    <3>2. t[i - Len(k)] = pipe[i - Len(kept)]
      BY <1>1, <1>2, <1>3, <3>1
    <3>3. QED BY <1>1, <1>2, <1>4, <2>3, <3>2
  <2>4. QED BY <1>1, <2>1, <2>2, <2>3
<1>7. Prefix(wrote, k, t)
  BY <1>5, <1>6 DEF Prefix
<1>8. QED BY <1>7 DEF k, t

(* ... and so does one that is dropped because enough is kept; ...           *)
LEMMA DropKeepsPrefix ==
  ASSUME NEW wrote \in Seq(Blocks), NEW kept \in Seq(Blocks), NEW pipe \in Seq(Blocks),
         Prefix(wrote, kept, pipe), pipe # <<>>, Len(kept) >= KeepSize
  PROVE  Prefix(wrote, kept, Tail(pipe))
<1> USE CommandRunAssumption
<1> DEFINE t == Tail(pipe)
<1>1. Len(wrote) \in Nat /\ Len(kept) \in Nat /\ Len(pipe) \in Nat
  OBVIOUS
<1>2. Len(t) \in Nat
  BY HeadTailProperties
<1>3. /\ Len(wrote) = IF Len(kept) + Len(pipe) < KeepSize THEN Len(kept) + Len(pipe) ELSE KeepSize
      /\ \A i \in 1..Len(wrote) :
           wrote[i] = IF i <= Len(kept) THEN kept[i] ELSE pipe[i - Len(kept)]
  BY DEF Prefix
<1> HIDE DEF t
<1>4. Prefix(wrote, kept, t)
  BY <1>1, <1>2, <1>3 DEF Prefix
<1>5. QED BY <1>4 DEF t

(* ... a block that is written within the limit extends both ...             *)
LEMMA WriteKeepsPrefix ==
  ASSUME NEW wrote \in Seq(Blocks), NEW kept \in Seq(Blocks), NEW pipe \in Seq(Blocks),
         Prefix(wrote, kept, pipe), Len(wrote) < KeepSize, NEW b \in Blocks
  PROVE  Prefix(Append(wrote, b), kept, Append(pipe, b))
<1> USE CommandRunAssumption
<1> DEFINE w == Append(wrote, b)
           p == Append(pipe, b)
<1>1. Len(wrote) \in Nat /\ Len(kept) \in Nat /\ Len(pipe) \in Nat
  OBVIOUS
<1>2. /\ Len(w) = Len(wrote) + 1 /\ w[Len(wrote) + 1] = b
      /\ \A i \in 1..Len(wrote) : w[i] = wrote[i]
  BY AppendProperties
<1>3. /\ Len(p) = Len(pipe) + 1 /\ p[Len(pipe) + 1] = b
      /\ \A i \in 1..Len(pipe) : p[i] = pipe[i]
  BY AppendProperties
<1>4. /\ Len(wrote) = IF Len(kept) + Len(pipe) < KeepSize THEN Len(kept) + Len(pipe) ELSE KeepSize
      /\ \A i \in 1..Len(wrote) :
           wrote[i] = IF i <= Len(kept) THEN kept[i] ELSE pipe[i - Len(kept)]
  BY DEF Prefix
<1> HIDE DEF w, p
<1>5. Len(w) = IF Len(kept) + Len(p) < KeepSize THEN Len(kept) + Len(p) ELSE KeepSize
  BY <1>1, <1>2, <1>3, <1>4
<1>6. ASSUME NEW i \in 1..Len(w)
      PROVE  w[i] = IF i <= Len(kept) THEN kept[i] ELSE p[i - Len(kept)]
  <2>1. CASE i <= Len(wrote)
    <3>1. CASE i <= Len(kept) BY <1>1, <1>2, <1>4, <2>1, <3>1
    <3>2. CASE ~(i <= Len(kept))
      <4>1. i - Len(kept) \in 1..Len(pipe)
        BY <1>1, <1>4, <2>1, <3>2
      <4>2. p[i - Len(kept)] = pipe[i - Len(kept)]
        BY <1>3, <4>1
      <4>3. i \in 1..Len(wrote) /\ w[i] = wrote[i]
        BY <1>1, <1>2, <2>1
      <4>4. QED BY <1>4, <3>2, <4>2, <4>3
    <3>3. QED BY <3>1, <3>2
  <2>2. CASE i = Len(wrote) + 1
    <3>1. Len(wrote) = Len(kept) + Len(pipe)
      BY <1>1, <1>4
    <3>2. i - Len(kept) = Len(pipe) + 1 /\ ~(i <= Len(kept))
      BY <1>1, <2>2, <3>1
    <3>3. QED BY <1>2, <1>3, <2>2, <3>2
  <2>3. QED BY <1>1, <1>2, <2>1, <2>2
<1>7. Prefix(w, kept, p)
  BY <1>5, <1>6 DEF Prefix
<1>8. QED BY <1>7 DEF w, p

(* ... and one beyond it is none of the prefix.                              *)
LEMMA ExtraKeepsPrefix ==
  ASSUME NEW wrote \in Seq(Blocks), NEW kept \in Seq(Blocks), NEW pipe \in Seq(Blocks),
         Prefix(wrote, kept, pipe), Len(wrote) >= KeepSize, NEW b \in Blocks
  PROVE  Prefix(wrote, kept, Append(pipe, b))
<1> USE CommandRunAssumption
<1> DEFINE p == Append(pipe, b)
<1>1. Len(wrote) \in Nat /\ Len(kept) \in Nat /\ Len(pipe) \in Nat
  OBVIOUS
<1>2. Len(p) = Len(pipe) + 1 /\ \A i \in 1..Len(pipe) : p[i] = pipe[i]
  BY AppendProperties
<1>3. /\ Len(wrote) = IF Len(kept) + Len(pipe) < KeepSize THEN Len(kept) + Len(pipe) ELSE KeepSize
      /\ \A i \in 1..Len(wrote) :
           wrote[i] = IF i <= Len(kept) THEN kept[i] ELSE pipe[i - Len(kept)]
  BY DEF Prefix
<1> HIDE DEF p
<1>4. Len(wrote) = IF Len(kept) + Len(p) < KeepSize THEN Len(kept) + Len(p) ELSE KeepSize
  BY <1>1, <1>2, <1>3
<1>5. ASSUME NEW i \in 1..Len(wrote)
      PROVE  wrote[i] = IF i <= Len(kept) THEN kept[i] ELSE p[i - Len(kept)]
  <2>1. CASE i <= Len(kept) BY <1>1, <1>3, <2>1
  <2>2. CASE ~(i <= Len(kept))
    <3>1. i - Len(kept) \in 1..Len(pipe)
      BY <1>1, <1>3, <2>2
    <3>2. QED BY <1>2, <1>3, <2>2, <3>1
  <2>3. QED BY <2>1, <2>2
<1>6. Prefix(wrote, kept, p)
  BY <1>4, <1>5 DEF Prefix
<1>7. QED BY <1>6 DEF p

(* A stream whose pipe has been emptied was kept as it was written.          *)
LEMMA EmptyPipeAgrees ==
  ASSUME NEW wrote \in Seq(Blocks), NEW kept \in Seq(Blocks),
         Prefix(wrote, kept, <<>>), Len(kept) <= KeepSize
  PROVE  kept = wrote
<1>1. Len(kept) = Len(wrote)
  BY CommandRunAssumption DEF Prefix
<1>2. \A i \in 1..Len(wrote) : kept[i] = wrote[i]
  BY <1>1 DEF Prefix
<1>3. QED BY <1>1, <1>2, SeqEqual

-----------------------------------------------------------------------------
(* The fields, typed.                                                        *)
LEMMA FieldsTyped ==
  ASSUME CommandTypeOK
  PROVE  /\ run.step \in RunSteps /\ run.reading \in Streams /\ run.drained \in 0..DrainSize
         /\ child.state \in ChildStates
         /\ \A s \in Streams : /\ stream[s].pipe \in Seq(Blocks) /\ stream[s].kept \in Seq(Blocks)
                              /\ stream[s].wrote \in Seq(Blocks)
BY DEF CommandTypeOK

(* What the runner writes to its record keeps it typed.                      *)
RunRecords ==
  [step: RunSteps, request: Requests, result: Verdicts \cup {"None"},
   reading: Streams, drained: 0..DrainSize]
(* Going to another step leaves the request and the result alone.            *)
LEMMA RunUpdates ==
  ASSUME CommandTypeOK, NEW s \in RunSteps
  PROVE  /\ Step(s) => run' \in RunRecords
         /\ Step(s) => /\ run'.step = s /\ run'.request = run.request
                       /\ run'.result = run.result
<1>1. run \in RunRecords
  BY DEF CommandTypeOK, RunRecords
<1>2. QED BY <1>1 DEF RunRecords, Step
(* Returning leaves the request, and stores the verdict.                     *)
LEMMA ReturnUpdates ==
  ASSUME CommandTypeOK, NEW v \in Verdicts
  PROVE  /\ Return(v) => run' \in RunRecords
         /\ Return(v) => run'.step = "idle" /\ run'.request = run.request /\ run'.result = v
<1>1. run \in RunRecords /\ "idle" \in RunSteps
  BY DEF CommandTypeOK, RunRecords, RunSteps
<1>2. QED BY <1>1 DEF RunRecords, Return
(* Giving up leads to the kill with the verdict already chosen.              *)
LEMMA AbortUpdates ==
  ASSUME CommandTypeOK, NEW v \in Verdicts
  PROVE  /\ Abort(v) => run' \in RunRecords
         /\ Abort(v) => run'.step = "kill" /\ run'.request = run.request /\ run'.result = v
<1>1. run \in RunRecords /\ "kill" \in RunSteps
  BY DEF CommandTypeOK, RunRecords, RunSteps
<1>2. QED BY <1>1 DEF RunRecords, Abort
(* Turning to a stream starts its count of drained blocks at zero.           *)
LEMMA ReadUpdates ==
  ASSUME CommandTypeOK, NEW s \in RunSteps, NEW o \in Streams
  PROVE  /\ Read(s, o) => run' \in RunRecords
         /\ Read(s, o) => /\ run'.step = s /\ run'.request = run.request
                          /\ run'.result = run.result /\ run'.reading = o /\ run'.drained = 0
<1>1. run \in RunRecords /\ 0 \in 0..DrainSize
  BY CommandRunAssumption DEF CommandTypeOK, RunRecords
<1>2. QED BY <1>1 DEF RunRecords, Read

(* The child's record.                                                       *)
Children == [state: ChildStates, ok: BOOLEAN, writing: Streams \cup {"none"}]
(* A child whose state alone changes is a child.                             *)
LEMMA ChildUpdates ==
  ASSUME CommandTypeOK
  PROVE  /\ child \in Children /\ NoChild \in Children
         /\ \A s \in ChildStates : [child EXCEPT !.state = s] \in Children
BY DEF CommandTypeOK, Children, NoChild, ChildStates

(* A step that leaves the streams alone has its types and the prefix to show  *)
(* for two records only.                                                     *)
LEMMA QuietKeeps ==
  ASSUME CommandInv, stream' = stream, run' \in RunRecords, child' \in Children,
         flag' \in BOOLEAN, expired' \in BOOLEAN
  PROVE  CommandTypeOK' /\ PrefixKept'
<1>1. CommandTypeOK'
  BY DEF CommandInv, CommandTypeOK, RunRecords, Children
<1>2. PrefixKept'
  BY DEF CommandInv, PrefixKept, Prefix
<1>3. QED BY <1>1, <1>2

(* It keeps the rest of the invariant if the command goes on at a step but   *)
(* the last, ...                                                             *)
LEMMA GoingOn ==
  ASSUME CommandInv, stream' = stream, run' \in RunRecords, child' \in Children,
         flag' \in BOOLEAN, expired' \in BOOLEAN,
         run'.step \notin {"idle", "finish"}, ChildFits', StepFits'
  PROVE  CommandInv'
<1>1. Emptied' /\ VerdictOnPrefix'
  BY DEF Emptied, VerdictOnPrefix, Returned
<1>2. QED BY <1>1, QuietKeeps DEF CommandInv

(* ... or returns, with a failure or for a command that is not captured.      *)
LEMMA GivingUp ==
  ASSUME CommandInv, stream' = stream, run' \in RunRecords, child' \in Children,
         flag' \in BOOLEAN, expired' \in BOOLEAN,
         run'.step = "idle", child'.state \in {"none", "reaped"},
         run'.result \in Failures \/ ~Captures(run'.request)
  PROVE  CommandInv'
<1>1. ChildFits' /\ StepFits' /\ Emptied'
  BY DEF ChildFits, StepFits, Emptied
<1>2. VerdictOnPrefix'
  BY DEF VerdictOnPrefix, Captures
<1>3. QED BY <1>1, <1>2, QuietKeeps DEF CommandInv

(* The names the actions use.                                                *)
LEMMA Names ==
  /\ {"idle", "begin", "capture", "input", "poll", "drain", "wait", "finish", "kill", "reap"}
       \subseteq RunSteps
  /\ {"DependencyUnavailable", "Cancelled"} \subseteq Failures
  /\ Failures \subseteq Verdicts
  /\ {"Succeeded", "Failed", "Unauthorized", "Disconnected"} \subseteq Verdicts
  /\ {"none", "running", "killed", "exited", "reaped"} \subseteq ChildStates
  /\ {"stdout", "stderr"} \subseteq Streams
BY DEF RunSteps, Failures, Verdicts, ChildStates, Streams

-----------------------------------------------------------------------------
(* What starts from nothing has nothing to keep.                             *)
LEMMA StartsAnew ==
  ASSUME CommandInv, run' \in RunRecords, run'.step \in {"idle", "begin"},
         run'.result = "None", child' = NoChild, stream' = NoOutput,
         flag' \in BOOLEAN, expired' \in BOOLEAN
  PROVE  CommandInv'
<1> USE CommandRunAssumption
<1>1. child' = NoChild /\ child' \in Children /\ child'.state = "none"
  BY ChildUpdates DEF NoChild, CommandInv
<1>2. stream' = [s \in Streams |-> [pipe |-> <<>>, kept |-> <<>>, wrote |-> <<>>]]
  BY DEF NoOutput
<1>3. stream' \in [Streams -> [pipe: Seq(Blocks), kept: Seq(Blocks), wrote: Seq(Blocks)]]
  BY <1>2
<1>4. \A s \in Streams : /\ stream'[s].pipe = <<>> /\ stream'[s].kept = <<>>
                         /\ stream'[s].wrote = <<>>
  BY <1>2
<1>5. CommandTypeOK'
  <2>1. \A s \in Streams :
          /\ Len(stream'[s].pipe) <= PipeSize
          /\ Len(stream'[s].kept) <= KeepSize /\ Len(stream'[s].wrote) <= KeepSize
    <3>1. 0 <= PipeSize /\ 0 <= KeepSize /\ Len(<<>>) = 0
      OBVIOUS
    <3>2. QED BY <1>4, <3>1
  <2>2. QED BY <1>1, <1>3, <2>1 DEF CommandTypeOK, RunRecords, Children
<1>6. PrefixKept'
  <2>1. Prefix(<<>>, <<>>, <<>>)
    BY DEF Prefix
  <2>2. \A s \in Streams : Prefix(stream'[s].wrote, stream'[s].kept, stream'[s].pipe)
    BY <1>4, <2>1
  <2>3. QED BY <2>2 DEF PrefixKept, Prefix
<1>7. ChildFits' /\ StepFits' /\ Emptied' /\ VerdictOnPrefix'
  BY <1>1 DEF ChildFits, StepFits, Emptied, VerdictOnPrefix, Returned
<1>8. QED BY <1>5, <1>6, <1>7 DEF CommandInv

(* A new command does.                                                       *)
LEMMA AskKeepsInv ==
  ASSUME CommandInv, NEW r \in Requests, Ask(r), flag' \in BOOLEAN
  PROVE  CommandInv' /\ run'.step = "begin" /\ run'.request = r
<1>1. run \in RunRecords /\ "begin" \in RunSteps
  BY Names DEF CommandInv, CommandTypeOK, RunRecords
<1>2. run' = [run EXCEPT !.step = "begin", !.request = r, !.result = "None"]
  BY DEF Ask
<1>3. /\ run' \in RunRecords /\ run'.step = "begin" /\ run'.request = r
      /\ run'.result = "None"
  BY <1>1, <1>2 DEF RunRecords
<1>4. QED BY <1>3, StartsAnew DEF Ask

(* The steps of the runner that leave the streams alone, one by one.         *)
LEMMA BeginKeepsInv == CommandInv /\ Begin => CommandInv'
<1> SUFFICES ASSUME CommandInv, Begin PROVE CommandInv'
  OBVIOUS
<1>1. CommandTypeOK /\ run.step = "begin" /\ child.state = "none" /\ child \in Children
  BY ChildUpdates DEF CommandInv, Begin, ChildFits
<1>2. stream' = stream /\ flag' \in BOOLEAN /\ expired' \in BOOLEAN
  BY DEF Begin, CommandInv, CommandTypeOK
<1>3. CASE Return("Cancelled") /\ UNCHANGED child
  <2>1. run' \in RunRecords /\ run'.step = "idle" /\ run'.result \in Failures
    BY <1>1, <1>3, Names, ReturnUpdates
  <2>2. QED BY <1>1, <1>2, <1>3, <2>1, GivingUp
<1>4. CASE Return("DependencyUnavailable") /\ UNCHANGED child
  <2>1. run' \in RunRecords /\ run'.step = "idle" /\ run'.result \in Failures
    BY <1>1, <1>4, Names, ReturnUpdates
  <2>2. QED BY <1>1, <1>2, <1>4, <2>1, GivingUp
<1>5. ASSUME NEW s \in {"capture", "input", "poll"}, Step(s),
             child' = [child EXCEPT !.state = "running"]
      PROVE  CommandInv'
  <2>1. run' \in RunRecords /\ run'.step = s
    BY <1>1, <1>5, Names, RunUpdates
  <2>2. child' \in Children /\ child'.state = "running"
    BY <1>1, <1>5, Names, ChildUpdates DEF Children
  <2>3. ChildFits' /\ StepFits' /\ run'.step \notin {"idle", "finish"}
    BY <2>1, <2>2 DEF ChildFits, StepFits
  <2>4. QED BY <1>2, <2>1, <2>2, <2>3, GoingOn
<1>6. QED BY <1>3, <1>4, <1>5 DEF Begin

(* Starting the capture, or giving up when it cannot be started, keeps the
   invariant.                                                                *)
LEMMA StartCaptureKeepsInv == CommandInv /\ StartCapture => CommandInv'
<1> SUFFICES ASSUME CommandInv, StartCapture PROVE CommandInv'
  OBVIOUS
<1>1. /\ CommandTypeOK /\ run.step = "capture" /\ child.state \in {"running", "exited"}
      /\ child' = child /\ child' \in Children
  BY ChildUpdates DEF CommandInv, StartCapture, ChildFits
<1>2. stream' = stream /\ flag' \in BOOLEAN /\ expired' \in BOOLEAN
  BY DEF StartCapture, CommandInv, CommandTypeOK
<1>3. CASE Step("poll")
  <2>1. run' \in RunRecords /\ run'.step = "poll"
    BY <1>1, <1>3, Names, RunUpdates
  <2>2. ChildFits' /\ StepFits'
    BY <1>1, <2>1 DEF ChildFits, StepFits
  <2>3. QED BY <1>1, <1>2, <2>1, <2>2, GoingOn
<1>4. CASE Abort("DependencyUnavailable")
  <2>1. run' \in RunRecords /\ run'.step = "kill" /\ run'.result \in Failures
    BY <1>1, <1>4, Names, AbortUpdates
  <2>2. ChildFits' /\ StepFits'
    BY <1>1, <2>1 DEF ChildFits, StepFits
  <2>3. QED BY <1>1, <1>2, <2>1, <2>2, GoingOn
<1>5. QED BY <1>3, <1>4 DEF StartCapture

(* Writing the child's input keeps the invariant.                            *)
LEMMA WriteInputKeepsInv == CommandInv /\ WriteInput => CommandInv'
<1> SUFFICES ASSUME CommandInv, WriteInput PROVE CommandInv'
  OBVIOUS
<1>1. /\ CommandTypeOK /\ run.step = "input" /\ child.state \in {"running", "exited"}
      /\ child' = child /\ child' \in Children
  BY ChildUpdates DEF CommandInv, WriteInput, ChildFits
<1>2. stream' = stream /\ flag' \in BOOLEAN /\ expired' \in BOOLEAN
  BY DEF WriteInput, CommandInv, CommandTypeOK
<1>3. CASE Step("poll")
  <2>1. run' \in RunRecords /\ run'.step = "poll"
    BY <1>1, <1>3, Names, RunUpdates
  <2>2. ChildFits' /\ StepFits'
    BY <1>1, <2>1 DEF ChildFits, StepFits
  <2>3. QED BY <1>1, <1>2, <2>1, <2>2, GoingOn
<1>4. CASE Abort("DependencyUnavailable")
  <2>1. run' \in RunRecords /\ run'.step = "kill" /\ run'.result \in Failures
    BY <1>1, <1>4, Names, AbortUpdates
  <2>2. ChildFits' /\ StepFits'
    BY <1>1, <2>1 DEF ChildFits, StepFits
  <2>3. QED BY <1>1, <1>2, <2>1, <2>2, GoingOn
<1>5. QED BY <1>3, <1>4 DEF WriteInput

(* The test of the token at the head of the polling loop keeps the
   invariant.                                                                *)
LEMMA PollKeepsInv == CommandInv /\ Poll => CommandInv'
<1> SUFFICES ASSUME CommandInv, Poll PROVE CommandInv'
  OBVIOUS
<1>1. /\ CommandTypeOK /\ run.step = "poll" /\ child.state \in {"running", "exited"}
      /\ child' = child /\ child' \in Children
  BY ChildUpdates DEF CommandInv, Poll, ChildFits
<1>2. stream' = stream /\ flag' \in BOOLEAN /\ expired' \in BOOLEAN
  BY DEF Poll, CommandInv, CommandTypeOK
<1>3. CASE Abort("Cancelled")
  <2>1. run' \in RunRecords /\ run'.step = "kill" /\ run'.result \in Failures
    BY <1>1, <1>3, Names, AbortUpdates
  <2>2. ChildFits' /\ StepFits'
    BY <1>1, <2>1 DEF ChildFits, StepFits
  <2>3. QED BY <1>1, <1>2, <2>1, <2>2, GoingOn
<1>4. CASE Captures(run.request) /\ Read("drain", "stdout")
  <2>1. run' \in RunRecords /\ run'.step = "drain" /\ run'.request = run.request
    BY <1>1, <1>4, Names, ReadUpdates
  <2>2. ChildFits' /\ StepFits'
    BY <1>1, <1>4, <2>1 DEF ChildFits, StepFits, Captures
  <2>3. QED BY <1>1, <1>2, <2>1, <2>2, GoingOn
<1>5. CASE Step("wait")
  <2>1. run' \in RunRecords /\ run'.step = "wait"
    BY <1>1, <1>5, Names, RunUpdates
  <2>2. ChildFits' /\ StepFits'
    BY <1>1, <2>1 DEF ChildFits, StepFits
  <2>3. QED BY <1>1, <1>2, <2>1, <2>2, GoingOn
<1>6. QED BY <1>3, <1>4, <1>5 DEF Poll

(* Asking for the child's exit keeps the invariant.                          *)
LEMMA TryWaitKeepsInv == CommandInv /\ TryWait => CommandInv'
<1> SUFFICES ASSUME CommandInv, TryWait PROVE CommandInv'
  OBVIOUS
<1>1. /\ CommandTypeOK /\ run.step = "wait" /\ child.state \in {"running", "exited"}
      /\ child \in Children
  BY ChildUpdates DEF CommandInv, TryWait, ChildFits
<1>2. stream' = stream /\ flag' \in BOOLEAN /\ expired' \in BOOLEAN
  BY DEF TryWait, CommandInv, CommandTypeOK
<1>3. CASE child.state = "exited" /\ child' = [child EXCEPT !.state = "reaped"]
  <2>1. child' \in Children /\ child'.state = "reaped"
    BY <1>1, <1>3, Names, ChildUpdates DEF Children
  <2>2. CASE Captures(run.request) /\ Read("finish", "stdout")
    <3>1. /\ run' \in RunRecords /\ run'.step = "finish" /\ run'.request = run.request
          /\ run'.reading = "stdout" /\ run'.drained = 0
      BY <1>1, <2>2, Names, ReadUpdates
    <3>2. ChildFits' /\ StepFits' /\ VerdictOnPrefix'
      BY <2>1, <2>2, <3>1 DEF ChildFits, StepFits, VerdictOnPrefix, Returned, Captures
    <3>3. Emptied'
      <4>1. stream["stdout"].pipe \in Seq(Blocks) /\ Len(stream["stdout"].pipe) <= PipeSize
        BY <1>1, Names DEF CommandTypeOK
      <4>2. 0 + Len(stream["stdout"].pipe) <= PipeSize
        BY <4>1
      <4>3. QED BY <1>2, <3>1, <4>2 DEF Emptied
    <3>4. QED BY <1>2, <2>1, <3>1, <3>2, <3>3, QuietKeeps DEF CommandInv
  <2>3. ASSUME NEW v \in {"Succeeded", "Failed"}, ~Captures(run.request), Return(v)
        PROVE  CommandInv'
    <3>1. run' \in RunRecords /\ run'.step = "idle" /\ run'.request = run.request
      BY <1>1, <2>3, Names, ReturnUpdates
    <3>2. ~Captures(run'.request)
      BY <2>3, <3>1 DEF Captures
    <3>3. QED BY <1>2, <2>1, <3>1, <3>2, GivingUp
  <2>4. CASE Abort("DependencyUnavailable") /\ child' = child
    <3>1. child.state = "exited" /\ child.state = "reaped"
      BY <1>3, <2>1, <2>4
    <3>2. QED BY <3>1
  <2>5. QED BY <1>3, <2>2, <2>3, <2>4 DEF TryWait
<1>4. CASE Step("poll") /\ child' = child
  <2>1. run' \in RunRecords /\ run'.step = "poll"
    BY <1>1, <1>4, Names, RunUpdates
  <2>2. ChildFits' /\ StepFits'
    BY <1>1, <1>4, <2>1 DEF ChildFits, StepFits
  <2>3. QED BY <1>1, <1>2, <1>4, <2>1, <2>2, GoingOn
<1>5. CASE Abort("DependencyUnavailable") /\ child' = child
  <2>1. run' \in RunRecords /\ run'.step = "kill" /\ run'.result \in Failures
    BY <1>1, <1>5, Names, AbortUpdates
  <2>2. ChildFits' /\ StepFits'
    BY <1>1, <1>5, <2>1 DEF ChildFits, StepFits
  <2>3. QED BY <1>1, <1>2, <1>5, <2>1, <2>2, GoingOn
<1>6. QED BY <1>3, <1>4, <1>5 DEF TryWait

(* Giving up on output that cannot be read keeps the invariant: the child is
   killed, or it has been reaped already.                                    *)
LEMMA ReadFailsKeepsInv == CommandInv /\ ReadFails => CommandInv'
<1> SUFFICES ASSUME CommandInv, ReadFails PROVE CommandInv'
  OBVIOUS
<1>1. /\ CommandTypeOK /\ child' = child /\ child' \in Children
      /\ run.step = "drain" => child.state \in {"running", "exited"}
      /\ run.step = "finish" => child.state = "reaped"
  BY ChildUpdates DEF CommandInv, ReadFails, ChildFits
<1>2. stream' = stream /\ flag' \in BOOLEAN /\ expired' \in BOOLEAN
  BY DEF ReadFails, CommandInv, CommandTypeOK
<1>3. CASE run.step = "drain" /\ Abort("DependencyUnavailable")
  <2>1. run' \in RunRecords /\ run'.step = "kill" /\ run'.result \in Failures
    BY <1>1, <1>3, Names, AbortUpdates
  <2>2. ChildFits' /\ StepFits'
    BY <1>1, <1>3, <2>1 DEF ChildFits, StepFits
  <2>3. QED BY <1>1, <1>2, <2>1, <2>2, GoingOn
<1>4. CASE run.step = "finish" /\ Return("DependencyUnavailable")
  <2>1. run' \in RunRecords /\ run'.step = "idle" /\ run'.result \in Failures
    BY <1>1, <1>4, Names, ReturnUpdates
  <2>2. QED BY <1>1, <1>2, <1>4, <2>1, GivingUp
<1>5. QED BY <1>3, <1>4 DEF ReadFails

(* Killing the child keeps the invariant.                                    *)
LEMMA KillKeepsInv == CommandInv /\ Kill => CommandInv'
<1> SUFFICES ASSUME CommandInv, Kill PROVE CommandInv'
  OBVIOUS
<1>1. /\ CommandTypeOK /\ run.step = "kill" /\ child.state \in {"running", "exited"}
      /\ child \in Children /\ run.result \in Failures
  BY ChildUpdates DEF CommandInv, Kill, ChildFits, StepFits
<1>2. stream' = stream /\ flag' \in BOOLEAN /\ expired' \in BOOLEAN
  BY DEF Kill, CommandInv, CommandTypeOK
<1>3. run' \in RunRecords /\ run'.step = "reap" /\ run'.result = run.result
  BY <1>1, Names, RunUpdates DEF Kill
<1>4. child' \in Children /\ child'.state \in {"killed", "exited"}
  BY <1>1, Names, ChildUpdates DEF Kill, Children
<1>5. ChildFits' /\ StepFits'
  BY <1>1, <1>3, <1>4 DEF ChildFits, StepFits
<1>6. QED BY <1>2, <1>3, <1>4, <1>5, GoingOn

(* Waiting for a child that is gone keeps the invariant.                     *)
LEMMA ReapKeepsInv == CommandInv /\ Reap => CommandInv'
<1> SUFFICES ASSUME CommandInv, Reap PROVE CommandInv'
  OBVIOUS
<1>1. CommandTypeOK /\ child \in Children /\ run.result \in Failures
  BY ChildUpdates DEF CommandInv, Reap, StepFits
<1>2. stream' = stream /\ flag' \in BOOLEAN /\ expired' \in BOOLEAN
  BY DEF Reap, CommandInv, CommandTypeOK
<1>3. run' \in RunRecords /\ run'.step = "idle" /\ run'.result \in Failures
  BY <1>1, Names, ReturnUpdates DEF Reap
<1>4. child' \in Children /\ child'.state = "reaped"
  BY <1>1, Names, ChildUpdates DEF Reap, Children
<1>5. QED BY <1>2, <1>3, <1>4, GivingUp

-----------------------------------------------------------------------------
(* A stream that changes keeps the types if its three sequences do.          *)
Streamed == [pipe: Seq(Blocks), kept: Seq(Blocks), wrote: Seq(Blocks)]
(* A step that touches one stream within its limits keeps the types, and
   the other streams.                                                        *)
LEMMA StreamUpdates ==
  ASSUME CommandTypeOK, NEW s \in Streams, NEW x \in Streamed,
         Len(x.pipe) <= PipeSize, Len(x.kept) <= KeepSize, Len(x.wrote) <= KeepSize,
         stream' = [stream EXCEPT ![s] = x],
         run' \in RunRecords, child' \in Children, flag' \in BOOLEAN, expired' \in BOOLEAN
  PROVE  /\ CommandTypeOK'
         /\ stream'[s] = x
         /\ \A o \in Streams \ {s} : stream'[o] = stream[o]
<1>1. stream \in [Streams -> Streamed]
  BY DEF CommandTypeOK, Streamed
<1>2. stream' \in [Streams -> Streamed] /\ stream'[s] = x
  BY <1>1
<1>3. \A o \in Streams \ {s} : stream'[o] = stream[o]
  BY <1>1
<1>4. \A o \in Streams :
        /\ Len(stream'[o].pipe) <= PipeSize
        /\ Len(stream'[o].kept) <= KeepSize /\ Len(stream'[o].wrote) <= KeepSize
  BY <1>2, <1>3 DEF CommandTypeOK
<1>5. CommandTypeOK'
  BY <1>2, <1>4 DEF CommandTypeOK, Streamed, RunRecords, Children
<1>6. QED BY <1>2, <1>3, <1>5

(* A block that is read and kept, or read and dropped.                       *)
LEMMA ReadBlockKeepsInv == CommandInv /\ ReadBlock => CommandInv'
<1> SUFFICES ASSUME CommandInv, ReadBlock PROVE CommandInv'
  OBVIOUS
<1> DEFINE s == run.reading
           pipe == stream[s].pipe
           kept == stream[s].kept
           wrote == stream[s].wrote
           k == IF Len(kept) < KeepSize THEN Append(kept, Head(pipe)) ELSE kept
           x == Taken(stream[s])
<1>1. /\ CommandTypeOK /\ s \in Streams /\ run.drained \in 0..DrainSize
      /\ pipe \in Seq(Blocks) /\ kept \in Seq(Blocks) /\ wrote \in Seq(Blocks)
      /\ Len(pipe) <= PipeSize /\ Len(kept) <= KeepSize /\ Len(wrote) <= KeepSize
  BY FieldsTyped DEF CommandInv, CommandTypeOK
<1>2. /\ run.step \in {"drain", "finish"} /\ pipe # <<>> /\ run.drained # DrainSize
      /\ child' = child /\ flag' = flag /\ expired' = expired
  BY DEF ReadBlock, DrainOver
<1>3. run' = [run EXCEPT !.drained = run.drained + 1]
  BY <1>1, <1>2, CommandRunAssumption DEF ReadBlock
<1>4. /\ run' \in RunRecords /\ run'.drained = run.drained + 1 /\ run'.step = run.step
      /\ run'.reading = s /\ run'.request = run.request /\ run'.result = run.result
  <2>1. run \in RunRecords /\ run.drained + 1 \in 0..DrainSize
    BY <1>1, <1>2, CommandRunAssumption DEF CommandTypeOK, RunRecords
  <2>2. QED BY <1>3, <2>1 DEF RunRecords
<1>5. /\ Tail(pipe) \in Seq(Blocks) /\ Len(Tail(pipe)) = Len(pipe) - 1
      /\ Head(pipe) \in Blocks /\ Len(pipe) \in Nat
  BY <1>1, <1>2, HeadTailProperties
<1>6. k \in Seq(Blocks) /\ Len(k) <= KeepSize
  <2>1. CASE Len(kept) < KeepSize
    <3>1. Append(kept, Head(pipe)) \in Seq(Blocks)
      BY <1>1, <1>5, AppendProperties
    <3>2. Len(Append(kept, Head(pipe))) = Len(kept) + 1 /\ Len(kept) \in Nat
      BY <1>1, <1>5, AppendProperties
    <3>3. QED BY <2>1, <3>1, <3>2, CommandRunAssumption
  <2>2. CASE ~(Len(kept) < KeepSize)
    BY <1>1, <2>2
  <2>3. QED BY <2>1, <2>2
<1>7. Prefix(wrote, kept, pipe)
  BY <1>1 DEF CommandInv, PrefixKept
<1>8. Prefix(wrote, k, Tail(pipe))
  <2>1. CASE Len(kept) < KeepSize
    BY <1>1, <1>2, <1>7, <2>1, ReadKeepsPrefix
  <2>2. CASE ~(Len(kept) < KeepSize)
    <3>1. Len(kept) >= KeepSize
      BY <1>1, <2>2, CommandRunAssumption
    <3>2. QED BY <1>1, <1>2, <1>7, <2>2, <3>1, DropKeepsPrefix
  <2>3. QED BY <2>1, <2>2
<1>9. stream' = [stream EXCEPT ![s] = x]
  BY DEF ReadBlock
<1>10. x \in Streamed /\ x.pipe = Tail(pipe) /\ x.kept = k /\ x.wrote = wrote
  <2>1. stream[s] \in Streamed
    BY <1>1 DEF CommandTypeOK, Streamed
  <2>2. x.pipe = Tail(pipe) /\ x.kept = k /\ x.wrote = wrote
    BY <2>1 DEF Streamed, Taken
  <2>3. x \in Streamed
    BY <1>1, <1>5, <1>6, <2>1, <2>2 DEF Streamed, Taken
  <2>4. QED BY <2>2, <2>3
<1>11. child' \in Children /\ flag' \in BOOLEAN /\ expired' \in BOOLEAN
  BY <1>2 DEF CommandInv, CommandTypeOK, Children
<1> HIDE DEF k, x
<1>12. /\ CommandTypeOK' /\ stream'[s].pipe = Tail(pipe)
       /\ stream'[s].kept = k /\ stream'[s].wrote = wrote
       /\ \A o \in Streams \ {s} : stream'[o] = stream[o]
  <2>1. Len(x.pipe) <= PipeSize /\ Len(x.kept) <= KeepSize /\ Len(x.wrote) <= KeepSize
    BY <1>1, <1>5, <1>6, <1>10, CommandRunAssumption
  <2>2. /\ CommandTypeOK' /\ stream'[s] = x
        /\ \A o \in Streams \ {s} : stream'[o] = stream[o]
    BY <1>1, <1>4, <1>9, <1>10, <1>11, <2>1, StreamUpdates
  <2>3. QED BY <1>10, <2>2
<1>13. PrefixKept'
  <2>1. ASSUME NEW o \in Streams
        PROVE  Prefix(stream'[o].wrote, stream'[o].kept, stream'[o].pipe)
    <3>1. CASE o = s BY <1>8, <1>12, <3>1
    <3>2. CASE o # s BY <1>12, <3>2 DEF CommandInv, PrefixKept
    <3>3. QED BY <3>1, <3>2
  <2>2. QED BY <2>1 DEF PrefixKept, Prefix
<1>14. ChildFits' /\ StepFits' /\ VerdictOnPrefix'
  BY <1>2, <1>4 DEF CommandInv, ChildFits, StepFits, VerdictOnPrefix, Returned, Captures
<1>15. Emptied'
  <2>1. SUFFICES ASSUME run.step = "finish"
        PROVE  /\ run'.drained + Len(stream'[run'.reading].pipe) <= PipeSize
               /\ run'.reading = "stderr" => stream'["stdout"].pipe = <<>>
    BY <1>4 DEF Emptied
  <2>2. run.drained + Len(pipe) <= PipeSize /\ (s = "stderr" => stream["stdout"].pipe = <<>>)
    BY <2>1 DEF CommandInv, Emptied
  <2>3. run.drained + 1 + (Len(pipe) - 1) <= PipeSize
    BY <1>1, <1>5, <2>2, CommandRunAssumption
  <2>4. s = "stderr" => stream'["stdout"].pipe = <<>>
    BY <1>12, <2>2, Names
  <2>5. QED BY <1>4, <1>5, <1>12, <2>3, <2>4
<1>16. QED BY <1>12, <1>13, <1>14, <1>15 DEF CommandInv

(* What the runner makes of the output it kept.                              *)
HasKept(notice) == \E s \in Streams, i \in 1..KeepSize :
                     i \in DOMAIN stream[s].kept /\ stream[s].kept[i] = notice
(* A verdict names a notice that was kept, or says that none was and adb
   succeeded.                                                                *)
LEMMA VerdictSays ==
  /\ Verdict \in {"Unauthorized", "Disconnected", "Succeeded", "Failed"}
  /\ Verdict = "Unauthorized" => HasKept("unauthorized")
  /\ Verdict = "Disconnected" => HasKept("disconnected")
  /\ Verdict = "Succeeded" => child.ok /\ \A n \in AllNotices : ~HasKept(n)
<1>1. Verdict = CASE HasKept("unauthorized") -> "Unauthorized"
                  [] ~HasKept("unauthorized") /\ HasKept("disconnected") -> "Disconnected"
                  [] OTHER -> IF child.ok /\ ~HasKept("notLaunched") THEN "Succeeded" ELSE "Failed"
  BY DEF Verdict, HasKept
<1> HIDE DEF HasKept
<1>2. CASE HasKept("unauthorized") BY <1>1, <1>2
<1>3. CASE ~HasKept("unauthorized") /\ HasKept("disconnected") BY <1>1, <1>3
<1>4. CASE ~HasKept("unauthorized") /\ ~HasKept("disconnected")
  BY <1>1, <1>4 DEF AllNotices
<1>5. QED BY <1>2, <1>3, <1>4

(* The drain moves on to the other stream, or ends.  At the last one both    *)
(* pipes are empty: what was kept is what was written.                       *)
LEMMA ReadOverKeepsInv == CommandInv /\ ReadOver => CommandInv'
<1> SUFFICES ASSUME CommandInv, ReadOver PROVE CommandInv'
  OBVIOUS
<1> DEFINE s == run.reading
<1>1. /\ CommandTypeOK /\ s \in Streams /\ run.drained \in 0..DrainSize
      /\ run.step \in {"drain", "finish"} /\ DrainOver /\ Captures(run.request)
      /\ \A o \in Streams : /\ stream[o].pipe \in Seq(Blocks) /\ Len(stream[o].pipe) <= PipeSize
                           /\ stream[o].kept \in Seq(Blocks) /\ Len(stream[o].kept) <= KeepSize
                           /\ stream[o].wrote \in Seq(Blocks)
  BY FieldsTyped DEF CommandInv, CommandTypeOK, StepFits, ReadOver
<1>2. /\ stream' = stream /\ flag' \in BOOLEAN /\ expired' \in BOOLEAN
      /\ child' = child /\ child' \in Children
  BY ChildUpdates DEF ReadOver, CommandInv, CommandTypeOK
<1>3. /\ run.step = "drain" => child.state \in {"running", "exited"}
      /\ run.step = "finish" => child.state = "reaped"
  BY DEF CommandInv, ChildFits
<1>4. run.step = "finish" => stream[s].pipe = <<>>
  <2>1. SUFFICES ASSUME run.step = "finish", run.drained = DrainSize
                 PROVE  stream[s].pipe = <<>>
    BY <1>1 DEF DrainOver
  <2>2. DrainSize + Len(stream[s].pipe) <= PipeSize
    BY <2>1 DEF CommandInv, Emptied
  <2>3. Len(stream[s].pipe) \in Nat
    BY <1>1
  <2>4. Len(stream[s].pipe) = 0
    BY <2>2, <2>3, CommandRunAssumption
  <2>5. QED BY <1>1, <2>4
<1>5. CASE s = "stdout" /\ Read(run.step, "stderr")
  <2>1. /\ run' \in RunRecords /\ run'.step = run.step /\ run'.request = run.request
        /\ run'.reading = "stderr" /\ run'.drained = 0 /\ run'.result = run.result
    BY <1>1, <1>5, Names, ReadUpdates
  <2>2. ChildFits' /\ StepFits' /\ VerdictOnPrefix'
    BY <1>1, <1>2, <1>3, <2>1
    DEF ChildFits, StepFits, VerdictOnPrefix, Returned, Captures
  <2>3. Emptied'
    <3>1. stream["stderr"].pipe \in Seq(Blocks) /\ Len(stream["stderr"].pipe) <= PipeSize
      BY <1>1, Names
    <3>2. 0 + Len(stream["stderr"].pipe) <= PipeSize
      BY <3>1
    <3>3. run.step = "finish" => stream["stdout"].pipe = <<>>
      BY <1>4, <1>5
    <3>4. QED BY <1>2, <2>1, <3>2, <3>3 DEF Emptied
  <2>4. QED BY <1>2, <2>1, <2>2, <2>3, QuietKeeps DEF CommandInv
<1>6. CASE run.step = "drain" /\ Step("wait")
  <2>1. run' \in RunRecords /\ run'.step = "wait"
    BY <1>1, <1>6, Names, RunUpdates
  <2>2. ChildFits' /\ StepFits'
    BY <1>2, <1>3, <1>6, <2>1 DEF ChildFits, StepFits
  <2>3. QED BY <1>2, <2>1, <2>2, GoingOn
<1>7. CASE s = "stderr" /\ run.step = "finish" /\ Return(Verdict)
  <2>1. /\ run' \in RunRecords /\ run'.step = "idle" /\ run'.request = run.request
        /\ run'.result = Verdict
    BY <1>1, <1>7, Names, VerdictSays, ReturnUpdates
  <2>2. ChildFits' /\ StepFits' /\ Emptied'
    BY <1>2, <1>3, <1>7, <2>1 DEF ChildFits, StepFits, Emptied
  <2>3. \A o \in Streams : stream[o].pipe = <<>>
    BY <1>4, <1>7 DEF CommandInv, Emptied, Streams
  <2>4. ASSUME NEW o \in Streams PROVE stream[o].kept = stream[o].wrote
    <3>1. Prefix(stream[o].wrote, stream[o].kept, <<>>)
      BY <2>3 DEF CommandInv, PrefixKept
    <3>2. QED BY <1>1, <3>1, EmptyPipeAgrees
  <2>5. \A n : HasKept(n) <=> Wrote(n)'
    BY <1>2, <2>4 DEF HasKept, Wrote
  <2>6. /\ run'.result = "Succeeded" => child'.ok /\ \A n \in Notices : ~Wrote(n)'
        /\ run'.result = "Unauthorized" => Wrote("unauthorized")'
        /\ run'.result = "Disconnected" => Wrote("disconnected")'
    BY <1>2, <2>1, <2>5, VerdictSays, CommandRunAssumption
  <2>7. \A o \in Streams : stream'[o].kept = stream'[o].wrote
    BY <1>2, <2>4
  <2>8. VerdictOnPrefix'
    BY <2>6, <2>7 DEF VerdictOnPrefix
  <2>9. QED BY <1>2, <2>1, <2>2, <2>8, QuietKeeps DEF CommandInv
<1>8. QED BY <1>1, <1>5, <1>6, <1>7 DEF ReadOver, Streams

(* Every step of the runner keeps the invariant.                             *)
LEMMA RunnerKeepsInv == CommandInv /\ Runner => CommandInv'
BY BeginKeepsInv, StartCaptureKeepsInv, WriteInputKeepsInv, PollKeepsInv, ReadBlockKeepsInv,
   ReadOverKeepsInv, ReadFailsKeepsInv, TryWaitKeepsInv, KillKeepsInv, ReapKeepsInv DEF Runner

(* The runner works for a command until it has a result for it.              *)
LEMMA RunnerReturns ==
  ASSUME CommandInv, Runner
  PROVE  /\ run.step # "idle" /\ run'.request = run.request
         /\ run'.step = "idle" =>
              /\ run'.result # "None"
              /\ ~Captures(run.request) => run'.result \in Failures \cup {"Succeeded", "Failed"}
<1>1. CommandTypeOK /\ StepFits /\ run \in RunRecords
  BY DEF CommandInv, CommandTypeOK, RunRecords
<1>2. ASSUME NEW s \in RunSteps \ {"idle"},
             Step(s) \/ (\E o \in Streams : Read(s, o))
      PROVE  run'.request = run.request /\ run'.step # "idle"
  BY <1>1, <1>2, RunUpdates, ReadUpdates
<1>3. ASSUME NEW v \in Verdicts, Return(v)
      PROVE  run'.request = run.request /\ run'.step = "idle" /\ run'.result = v /\ v # "None"
  BY <1>1, <1>3, ReturnUpdates DEF Verdicts, Failures
<1>4. ASSUME NEW v \in Failures, Abort(v)
      PROVE  run'.request = run.request /\ run'.step # "idle"
  BY <1>1, <1>4, Names, AbortUpdates
<1>5. CASE Begin
  BY <1>2, <1>3, <1>5, Names DEF Begin
<1>6. CASE StartCapture \/ WriteInput \/ Poll
  BY <1>2, <1>4, <1>6, Names DEF StartCapture, WriteInput, Poll
<1>7. CASE ReadBlock
  <2>1. run' = [run EXCEPT !.drained = IF run.drained < DrainSize THEN run.drained + 1
                                       ELSE run.drained]
    BY <1>7 DEF ReadBlock
  <2>2. run'.step = run.step /\ run'.request = run.request
    BY <1>1, <2>1 DEF RunRecords
  <2>3. QED BY <1>7, <2>2 DEF ReadBlock
<1>8. CASE ReadOver
  <2>1. Captures(run.request) /\ run.step \in {"drain", "finish"}
    BY <1>1, <1>8 DEF StepFits, ReadOver
  <2>2. Verdict \in Verdicts
    BY VerdictSays, Names
  <2>3. QED BY <1>2, <1>3, <1>8, <2>1, <2>2, Names DEF ReadOver
<1>9. CASE TryWait \/ ReadFails
  BY <1>2, <1>3, <1>4, <1>9, Names DEF TryWait, ReadFails
<1>10. CASE Kill
  BY <1>2, <1>10, Names DEF Kill
<1>11. CASE Reap
  <2>1. run.result \in Failures
    BY <1>1, <1>11 DEF StepFits, Reap
  <2>2. QED BY <1>3, <1>11, <2>1, Names DEF Reap
<1>12. QED BY <1>5, <1>6, <1>7, <1>8, <1>9, <1>10, <1>11 DEF Runner

-----------------------------------------------------------------------------
(* The token touches no part of the command.                                 *)
LEMMA TokenKeepsInv == CommandInv /\ (Cancel \/ DeadlinePasses) => CommandInv'
<1> SUFFICES ASSUME CommandInv, Cancel \/ DeadlinePasses PROVE CommandInv'
  OBVIOUS
<1>1. /\ run' = run /\ child' = child /\ stream' = stream
      /\ flag' \in BOOLEAN /\ expired' \in BOOLEAN
  BY DEF Cancel, DeadlinePasses, CommandInv, CommandTypeOK
<1>2. run' \in RunRecords /\ child' \in Children
  BY <1>1 DEF CommandInv, CommandTypeOK, RunRecords, Children
<1>3. ChildFits' /\ StepFits' /\ Emptied' /\ VerdictOnPrefix'
  BY <1>1 DEF CommandInv, ChildFits, StepFits, Emptied, VerdictOnPrefix, Returned, Captures,
     Wrote
<1>4. QED BY <1>1, <1>2, <1>3, QuietKeeps DEF CommandInv

(* The child does not write after it has exited, and it exits while a step   *)
(* waits for it: what it does is in time for the verdict.                    *)
LEMMA ChildStateKeepsInv ==
  ASSUME CommandInv, \/ \E s \in Streams : ChildWants(s)
                     \/ \E ok \in BOOLEAN : ChildExits(ok)
                     \/ ChildDies
  PROVE  CommandInv'
<1>1. CommandTypeOK /\ child \in Children /\ run \in RunRecords
  BY ChildUpdates DEF CommandInv, CommandTypeOK, RunRecords
<1>2. /\ run' = run /\ stream' = stream /\ flag' \in BOOLEAN /\ expired' \in BOOLEAN
      /\ run' \in RunRecords
  BY <1>1 DEF ChildWants, ChildExits, ChildDies, CommandInv, CommandTypeOK
<1>3. /\ child.state = "running" =>
           run.step \in {"capture", "input", "poll", "drain", "wait", "kill"}
      /\ child.state = "killed" => run.step = "reap"
  BY DEF CommandInv, CommandTypeOK, ChildFits, RunSteps
<1>4. /\ child' \in Children
      /\ child.state = "running" => child'.state \in {"running", "exited"}
      /\ child.state = "killed" => child'.state = "exited"
      /\ child.state \in {"running", "killed"}
  <2>1. CASE \E s \in Streams : ChildWants(s)
    BY <1>1, <2>1 DEF ChildWants, Children
  <2>2. CASE \E ok \in BOOLEAN : ChildExits(ok)
    BY <1>1, <2>2, Names DEF ChildExits, Children
  <2>3. CASE ChildDies
    <3>1. child' = [child EXCEPT !.state = "exited", !.ok = FALSE, !.writing = "none"]
      BY <2>3 DEF ChildDies
    <3>2. child' \in Children /\ child'.state = "exited"
      BY <1>1, <3>1, Names DEF Children
    <3>3. QED BY <2>3, <3>2 DEF ChildDies
  <2>4. QED BY <2>1, <2>2, <2>3
<1>5. ChildFits' /\ StepFits'
  BY <1>2, <1>3, <1>4 DEF CommandInv, ChildFits, StepFits, Captures
<1>6. run'.step \notin {"idle", "finish"}
  BY <1>2, <1>3, <1>4
<1>7. QED BY <1>2, <1>4, <1>5, <1>6, GoingOn

(* The child writing a block keeps the invariant; the block is noted only
   where the code keeps it.                                                  *)
LEMMA ChildWritesKeepsInv ==
  ASSUME CommandInv, NEW b \in Blocks, ChildWrites(b)
  PROVE  CommandInv'
<1> DEFINE s == child.writing
           pipe == stream[s].pipe
           kept == stream[s].kept
           wrote == stream[s].wrote
           w == IF Len(wrote) < KeepSize THEN Append(wrote, b) ELSE wrote
           x == Given(stream[s], b)
<1>1. /\ CommandTypeOK /\ child \in Children /\ run \in RunRecords /\ s \in Streams
      /\ child.state = "running"
  BY ChildUpdates DEF CommandInv, CommandTypeOK, RunRecords, Children, ChildWrites
<1>2. /\ pipe \in Seq(Blocks) /\ kept \in Seq(Blocks) /\ wrote \in Seq(Blocks)
      /\ Len(pipe) < PipeSize /\ Len(kept) <= KeepSize /\ Len(wrote) <= KeepSize
  BY <1>1, FieldsTyped DEF CommandTypeOK, ChildWrites
<1>3. /\ run' = run /\ run' \in RunRecords /\ flag' \in BOOLEAN /\ expired' \in BOOLEAN
      /\ child' = [child EXCEPT !.writing = "none"]
  BY <1>1 DEF CommandInv, CommandTypeOK, ChildWrites
<1>4. child' \in Children /\ child'.state = child.state
  BY <1>1, <1>3 DEF Children
<1>5. /\ Append(pipe, b) \in Seq(Blocks) /\ Len(Append(pipe, b)) <= PipeSize
      /\ w \in Seq(Blocks) /\ Len(w) <= KeepSize
  BY <1>2, AppendProperties, CommandRunAssumption
<1>6. Prefix(w, kept, Append(pipe, b))
  <2>1. Prefix(wrote, kept, pipe)
    BY <1>1 DEF CommandInv, PrefixKept
  <2>2. CASE Len(wrote) < KeepSize
    BY <1>2, <2>1, <2>2, WriteKeepsPrefix
  <2>3. CASE ~(Len(wrote) < KeepSize)
    <3>1. Len(wrote) >= KeepSize
      BY <1>2, <2>3, CommandRunAssumption
    <3>2. QED BY <1>2, <2>1, <2>3, <3>1, ExtraKeepsPrefix
  <2>4. QED BY <2>2, <2>3
<1>7. stream' = [stream EXCEPT ![s] = x]
  BY DEF ChildWrites
<1>8. x \in Streamed /\ x.pipe = Append(pipe, b) /\ x.kept = kept /\ x.wrote = w
  <2>1. stream[s] \in Streamed
    BY <1>1 DEF CommandTypeOK, Streamed
  <2>2. x.pipe = Append(pipe, b) /\ x.kept = kept /\ x.wrote = w
    BY <2>1 DEF Streamed, Given
  <2>3. x \in Streamed
    BY <1>5, <2>1, <2>2 DEF Streamed, Given
  <2>4. QED BY <2>2, <2>3
<1> HIDE DEF w, x
<1>9. /\ CommandTypeOK' /\ stream'[s].pipe = Append(pipe, b)
      /\ stream'[s].kept = kept /\ stream'[s].wrote = w
      /\ \A o \in Streams \ {s} : stream'[o] = stream[o]
  <2>1. Len(x.pipe) <= PipeSize /\ Len(x.kept) <= KeepSize /\ Len(x.wrote) <= KeepSize
    BY <1>2, <1>5, <1>8
  <2>2. /\ CommandTypeOK' /\ stream'[s] = x
        /\ \A o \in Streams \ {s} : stream'[o] = stream[o]
    BY <1>1, <1>3, <1>4, <1>7, <1>8, <2>1, StreamUpdates
  <2>3. QED BY <1>8, <2>2
<1>10. PrefixKept'
  <2>1. ASSUME NEW o \in Streams
        PROVE  Prefix(stream'[o].wrote, stream'[o].kept, stream'[o].pipe)
    <3>1. CASE o = s BY <1>6, <1>9, <3>1
    <3>2. CASE o # s BY <1>9, <3>2 DEF CommandInv, PrefixKept
    <3>3. QED BY <3>1, <3>2
  <2>2. QED BY <2>1 DEF PrefixKept, Prefix
<1>11. run.step \notin {"idle", "finish"}
  BY <1>1 DEF CommandInv, ChildFits
<1>12. ChildFits' /\ StepFits' /\ Emptied' /\ VerdictOnPrefix'
  BY <1>3, <1>4, <1>11
  DEF CommandInv, ChildFits, StepFits, Emptied, VerdictOnPrefix, Returned, Captures
<1>13. QED BY <1>9, <1>10, <1>12 DEF CommandInv

(* Everything the child does by itself keeps the invariant.                  *)
LEMMA AdbKeepsInv == CommandInv /\ Adb => CommandInv'
BY ChildStateKeepsInv, ChildWritesKeepsInv DEF Adb

-----------------------------------------------------------------------------
(* The invariant holds before the first command.                             *)
LEMMA InitInv == CommandInit => CommandInv
<1> SUFFICES ASSUME CommandInit PROVE CommandInv
  OBVIOUS
<1> USE CommandRunAssumption
<1>1. /\ run.step = "idle" /\ run.result = "None" /\ child = NoChild /\ child.state = "none"
      /\ stream = [s \in Streams |-> [pipe |-> <<>>, kept |-> <<>>, wrote |-> <<>>]]
  BY DEF CommandInit, NoChild, NoOutput
<1>2. run \in RunRecords /\ child \in Children
  BY DEF CommandInit, NoChild, RunRecords, Children, RunSteps, Requests, Streams, ChildStates
<1>3. stream \in [Streams -> [pipe: Seq(Blocks), kept: Seq(Blocks), wrote: Seq(Blocks)]]
  BY <1>1
<1>4. \A s \in Streams : /\ stream[s].pipe = <<>> /\ stream[s].kept = <<>>
                         /\ stream[s].wrote = <<>>
  BY <1>1
<1>5. CommandTypeOK
  <2>1. \A s \in Streams :
          /\ Len(stream[s].pipe) <= PipeSize
          /\ Len(stream[s].kept) <= KeepSize /\ Len(stream[s].wrote) <= KeepSize
    <3>1. 0 <= PipeSize /\ 0 <= KeepSize /\ Len(<<>>) = 0
      OBVIOUS
    <3>2. QED BY <1>4, <3>1
  <2>2. QED BY <1>2, <1>3, <2>1 DEF CommandTypeOK, RunRecords, Children, CommandInit
<1>6. PrefixKept
  <2>1. Prefix(<<>>, <<>>, <<>>)
    BY DEF Prefix
  <2>2. QED BY <1>4, <2>1 DEF PrefixKept
<1>7. ChildFits /\ StepFits /\ Emptied /\ VerdictOnPrefix
  BY <1>1 DEF ChildFits, StepFits, Emptied, VerdictOnPrefix, Returned
<1>8. QED BY <1>5, <1>6, <1>7 DEF CommandInv

(* Every step keeps the invariant.                                           *)
LEMMA NextInv == CommandInv /\ [CommandNext]_commandVars => CommandInv'
<1> SUFFICES ASSUME CommandInv, [CommandNext]_commandVars PROVE CommandInv'
  OBVIOUS
<1>1. CASE \E r \in Requests : Request(r)
  BY <1>1, AskKeepsInv DEF Request
<1>2. CASE Runner BY <1>2, RunnerKeepsInv
<1>3. CASE Cancel \/ DeadlinePasses BY <1>3, TokenKeepsInv
<1>4. CASE Adb BY <1>4, AdbKeepsInv
<1>5. CASE UNCHANGED commandVars
  <2>1. /\ run' = run /\ child' = child /\ stream' = stream /\ flag' = flag
        /\ expired' = expired
    BY <1>5 DEF commandVars
  <2>2. /\ run' \in RunRecords /\ child' \in Children /\ flag' \in BOOLEAN
        /\ expired' \in BOOLEAN
    BY <2>1 DEF CommandInv, CommandTypeOK, RunRecords, Children
  <2>3. ChildFits' /\ StepFits' /\ Emptied' /\ VerdictOnPrefix'
    BY <2>1 DEF CommandInv, ChildFits, StepFits, Emptied, VerdictOnPrefix, Returned, Captures,
       Wrote
  <2>4. QED BY <2>1, <2>2, <2>3, QuietKeeps DEF CommandInv
<1>6. QED BY <1>1, <1>2, <1>3, <1>4, <1>5 DEF CommandNext

(* The types: a pipe never holds more than it can, the runner never keeps     *)
(* more than the limit, and it never drains more than its share in one poll.  *)
THEOREM CommandTypes == CommandSpec => []CommandTypeOK
<1>1. CommandInv => CommandTypeOK
  BY DEF CommandInv
<1>2. QED BY <1>1, InitInv, NextInv, PTL DEF CommandSpec

(* Whatever way a command ends - spawn failed, cancelled, overdue, its input  *)
(* refused by a child that has exited or runs on, its output unreadable, its  *)
(* state unknown or its exit awaited - there is no child left.                *)
THEOREM Reaped == CommandSpec => []ReapedOnReturn
<1>1. CommandInv => ReapedOnReturn
  BY DEF CommandInv, ChildFits, ReapedOnReturn, Returned
<1>2. QED BY <1>1, InitInv, NextInv, PTL DEF CommandSpec

(* The verdict rests on all the child wrote up to the limit, whatever the     *)
(* sizes are: that a drain may take what a pipe holds (CommandRunAssumption)  *)
(* is what the last drain needs.                                              *)
THEOREM VerdictSeesAll == CommandSpec => []VerdictOnPrefix
<1>1. CommandInv => VerdictOnPrefix
  BY DEF CommandInv
<1>2. QED BY <1>1, InitInv, NextInv, PTL DEF CommandSpec

=============================================================================
