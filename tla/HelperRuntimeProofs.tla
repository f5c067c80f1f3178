------------------------- MODULE HelperRuntimeProofs --------------------------
(***************************************************************************)
(* Proofs about HelperRuntime for any number of workers, targets, commands *)
(* and calls.  RuntimeInv carries the invariant of SessionControl over to   *)
(* the callers the runtime really has, and adds where the main thread is in *)
(* its command, what a launched worker may still do with its closure, and   *)
(* which session events were written and may be written yet.               *)
(***************************************************************************)
EXTENDS HelperRuntime, SessionControlProofs, SequenceTheorems

(* What is left of a command is the end of its program.                      *)
Remains(s, p) ==
  Len(s) <= Len(p) /\ \A i \in 1..Len(s) : s[i] = p[Len(p) - Len(s) + i]
Failing ==
  cmd.op \in {"input", "phoneTarget"} /\ cmd.todo # <<>> /\ Remains(cmd.todo, FailedInput)
TodoFits ==
  /\ cmd.op = "none" => cmd.todo = <<>>
  /\ cmd.op # "none" => Remains(cmd.todo, Program[cmd.op]) \/ Failing

(* The main thread leaves a command when SessionControl has returned.        *)
Returned == cmd.todo = <<>> /\ cmd.op # "shutdown" => caller.step = "idle"

(* The session was stopped or invalidated by the command under way, and      *)
(* nothing was launched since.                                               *)
Left(op, n) == cmd.op = op /\ Len(cmd.todo) <= n
SessionOver ==
  \/ Left("startQrPairing", 5) /\ cmd.todo # <<>>
  \/ Left("submitManualCode", 5) /\ cmd.todo # <<>>
  \/ Left("reconnect", 4) /\ cmd.todo # <<>>
  \/ Left("stopSession", 1)
  \/ Left("startOver", 4)
  \/ Failing /\ Len(cmd.todo) = 1
Ended ==
  /\ caller.target = NoTarget /\ caller.step # "restart"
  /\ caller.step = "idle" => ~launched
StopDone == SessionOver => Ended

(* The main thread has the flow mutex between its two steps.                 *)
MainHolds ==
  \/ Left("startOver", 6) /\ Len(cmd.todo) >= 3
  \/ cmd.op \in {"input", "phoneTarget"} /\ Len(cmd.todo) = 1 /\ ~Failing
MainFlow == MainHolds => flow = Main

MainInv == TodoFits /\ Returned /\ StopDone /\ MainFlow

(* A launched worker and its closure.                                        *)
Carries(w) == launcher[w].step \notin {"idle", "tell"}
Fits(w) ==
  /\ Carries(w) <=> worker[w].step \in ArmedSteps
  /\ Carries(w) => launcher[w].kind # "none"
  /\ launcher[w].step \in {"dropQr", "save", "remember", "advance", "disconnect",
                           "disconnecting"} => launcher[w].kind # "reconnect"
  /\ launcher[w].step \in {"save", "remember", "advance", "start"} =>
       launcher[w].outcome = "Linked"
  /\ launcher[w].step \in {"claim", "dropQr", "report"} => launcher[w].outcome # "None"
  /\ launcher[w].outcome = "Linked" => launcher[w].target \in Targets
  /\ /\ launcher[w].kind # "reconnect"
     /\ launcher[w].step = "start" \/
          (launcher[w].step = "report" /\ launcher[w].outcome = "Linked")
     => worker[w].step = "advanced"
LauncherFits == \A w \in Sessions : Fits(w)
FlowHeld == \A w \in Sessions : launcher[w].step \in FlowSteps => flow = w
PairingsPast == \A w \in Sessions : launcher[w].pairing <= pairing

(* Once a pairing was retired by cancel-pairing no worker holds it, and past *)
(* the barrier none is about to write progress.                              *)
Retired ==
  /\ Left("cancelPairing", 3) =>
       \A w \in Sessions : launcher[w].step # "idle" => launcher[w].pairing < pairing
  /\ Left("cancelPairing", 2) => \A w \in Sessions : launcher[w].step # "progress"

LauncherInv == LauncherFits /\ FlowHeld /\ PairingsPast /\ Retired

(* Session events: what was written, and what may be.                        *)
Starting(g) == Sent(Event("SessionStarting", g))
StartsKnown ==
  \A i \in DOMAIN sent : sent[i].type = "SessionStarting" => sent[i].generation <= generation
CurrentsKnown ==
  /\ \A w \in Sessions : worker[w].current <= generation
  /\ caller.generation <= generation
OnePerToken ==
  \A v, w \in Sessions :
    /\ worker[v].step # "idle" /\ worker[v].token = token
    /\ worker[w].step # "idle" /\ worker[w].token = token
    => v = w
Announcing ==
  \A w \in Sessions : worker[w].step \in TransitionSteps => worker[w].token \notin cancelled
PendingSteps == {"advanced", "spawned", "lock", "target", "admit", "announce", "reannounce"}
Pending(w) ==
  \/ worker[w].step \in PendingSteps
  \/ worker[w].step = "armed" /\ launcher[w].kind = "reconnect"
Unannounced ==
  \A w \in Sessions :
    Pending(w) /\ worker[w].token \notin cancelled => ~Starting(worker[w].current)
CallerFresh ==
  caller.step # "idle" /\ (caller.target # NoTarget \/ caller.step = "restart") =>
    ~Starting(caller.generation)
ReconnectFresh == Left("reconnect", 4) /\ cmd.todo # <<>> => ~Starting(generation)
Floors ==
  \A i \in DOMAIN sent : sent[i].type \in EndingReplies =>
    /\ sent[i].generation <= generation
    /\ \A w \in Sessions : worker[w].step \in AdmittedSteps =>
         worker[w].current >= sent[i].generation

AnnounceInv ==
  /\ StartsKnown /\ CurrentsKnown /\ OnePerToken /\ Announcing /\ Unannounced
  /\ CallerFresh /\ ReconnectFresh /\ GenerationStartsOnce
LogInv == AnnounceInv /\ Floors /\ NoStartAfterEnd

RuntimeInv == RuntimeTypeOK /\ SafetyInv /\ MainInv /\ LauncherInv /\ LogInv

(* A reply names a generation that has been reached.                         *)
AnswersPast == cmd.generation <= generation

-----------------------------------------------------------------------------
(* The programs of the commands.                                             *)

(* The steps between which something is decided, and their places.           *)
LEMMA Programs ==
  /\ Ops = {"startQrPairing", "submitManualCode", "cancelPairing", "useManualCode", "reconnect",
            "stopSession", "startOver", "setPreferences", "setScrcpyArgs", "input",
            "phoneTarget", "previewReady", "shutdown"}
  /\ Program["startQrPairing"] = <<"refuseIfLive", "stop", "cancel", "supersede", "startQr",
                                   "reply", "launch">>
  /\ Program["submitManualCode"] = <<"refuseIfLive", "stop", "cancel", "supersede", "cancelQr",
                                     "reply", "launch">>
  /\ Program["cancelPairing"] = <<"cancel", "retire", "crossFlow", "cancelQr", "reply">>
  /\ Program["useManualCode"] = <<"cancel", "retire", "crossFlow", "cancelQr", "reply">>
  /\ Program["reconnect"] = <<"needTrusted", "invalidate", "cancel", "supersede", "reply",
                              "launch">>
  /\ Program["stopSession"] = <<"cancel", "retire", "crossFlow", "invalidate", "reply">>
  /\ Program["startOver"] = <<"readTarget", "cancel", "lockFlow", "forget", "invalidate",
                              "retire", "unlockFlow", "cancelQr", "reply">>
  /\ Program["setPreferences"] = <<"readTarget", "store", "restart", "reply">>
  /\ Program["setScrcpyArgs"] = <<"store", "readTarget", "restart", "reply">>
  /\ Program["input"] = <<"needTarget", "lockFlow", "adb">>
  /\ Program["phoneTarget"] = <<"needTarget", "lockFlow", "adb">>
  /\ Program["previewReady"] = <<"acknowledge">>
  /\ Program["shutdown"] = <<"cancel", "retire", "crossFlow", "cancelQr", "invalidate">>
BY DEF Program, Ops

(* A sequence is made of its own elements.                                   *)
LEMMA OwnElements == ASSUME NEW S, NEW s \in Seq(S), NEW T, Range(s) \subseteq T PROVE s \in Seq(T)
<1>1. s \in [1..Len(s) -> S] /\ Len(s) \in Nat /\ DOMAIN s = 1..Len(s)
  OBVIOUS
<1>2. \A i \in 1..Len(s) : s[i] \in T
  BY <1>1 DEF Range
<1>3. s \in [1..Len(s) -> T]
  BY <1>1, <1>2
<1>4. QED BY <1>1, <1>3, SeqDef

(* Each handler's program is a sequence over any set that has its steps.     *)
LEMMA ProgramsOver ==
  ASSUME NEW S,
         {"refuseIfLive", "stop", "cancel", "supersede", "startQr", "reply", "launch", "cancelQr",
          "retire", "crossFlow", "needTrusted", "invalidate", "readTarget", "lockFlow", "forget",
          "unlockFlow", "store", "restart", "needTarget", "adb", "acknowledge",
          "replyFailed"} \subseteq S
  PROVE  (\A op \in Ops : Program[op] \in Seq(S)) /\ FailedInput \in Seq(S)
<1>1. Program["startQrPairing"] \in Seq(S)
  BY DEF Program
<1>2. Program["submitManualCode"] \in Seq(S)
  BY DEF Program
<1>3. Program["cancelPairing"] \in Seq(S)
  BY DEF Program
<1>4. Program["useManualCode"] \in Seq(S)
  BY DEF Program
<1>5. Program["reconnect"] \in Seq(S)
  BY DEF Program
<1>6. Program["stopSession"] \in Seq(S)
  BY DEF Program
<1>7. Program["startOver"] \in Seq(S)
  BY DEF Program
<1>8. Program["setPreferences"] \in Seq(S)
  BY DEF Program
<1>9. Program["setScrcpyArgs"] \in Seq(S)
  BY DEF Program
<1>10. Program["input"] \in Seq(S)
  BY DEF Program
<1>11. Program["phoneTarget"] \in Seq(S)
  BY DEF Program
<1>12. Program["previewReady"] \in Seq(S)
  BY DEF Program
<1>13. Program["shutdown"] \in Seq(S)
  BY DEF Program
<1>14. FailedInput \in Seq(S)
  BY DEF FailedInput
<1>15. QED
  BY <1>1, <1>2, <1>3, <1>4, <1>5, <1>6, <1>7, <1>8, <1>9, <1>10, <1>11, <1>12, <1>13, <1>14,
     Programs

(* Programs are sequences of micro steps.                                    *)
LEMMA ProgramsTyped ==
  /\ \A op \in Ops : Program[op] \in Seq(MicroSteps)
  /\ FailedInput \in Seq(MicroSteps)
<1>1. PICK S : (\A op \in Ops : Program[op] \in Seq(S)) /\ FailedInput \in Seq(S)
  BY ProgramsOver
<1>2. \A op \in Ops : Range(Program[op]) \subseteq MicroSteps
  BY DEF MicroSteps
<1>3. Range(FailedInput) \subseteq MicroSteps
  BY Zenon DEF MicroSteps
<1>4. QED BY <1>1, <1>2, <1>3, OwnElements

(* What is left of a program after its next step.                            *)
LEMMA RemainsTail ==
  ASSUME NEW s \in Seq(MicroSteps), NEW p \in Seq(MicroSteps), Remains(s, p), s # <<>>
  PROVE  /\ Tail(s) \in Seq(MicroSteps) /\ Len(Tail(s)) = Len(s) - 1 /\ Len(s) \in 1..Len(p)
         /\ Head(s) = p[Len(p) - Len(s) + 1] /\ Head(s) = s[1]
         /\ Remains(Tail(s), p)
<1>1. /\ Tail(s) \in Seq(MicroSteps) /\ Len(Tail(s)) = Len(s) - 1 /\ Head(s) = s[1]
      /\ \A i \in 1..Len(Tail(s)) : Tail(s)[i] = s[i + 1]
  BY HeadTailProperties
<1>2. Len(s) \in Nat /\ Len(p) \in Nat /\ Len(s) # 0 /\ Len(s) <= Len(p)
  BY EmptySeq DEF Remains
<1>3. Head(s) = p[Len(p) - Len(s) + 1]
  BY <1>1, <1>2 DEF Remains
<1>4. ASSUME NEW i \in 1..Len(Tail(s)) PROVE Tail(s)[i] = p[Len(p) - Len(Tail(s)) + i]
  <2>1. i + 1 \in 1..Len(s) /\ Len(p) - Len(Tail(s)) + i = Len(p) - Len(s) + (i + 1)
    BY <1>1, <1>2
  <2>2. QED BY <1>1, <2>1 DEF Remains
<1>5. QED BY <1>1, <1>2, <1>3, <1>4 DEF Remains

(* Which step is next when n of them are left.                               *)
Place(op, n, step) ==
  /\ step = "stop" <=> op \in {"startQrPairing", "submitManualCode"} /\ n = 6
  /\ step = "invalidate" <=>
       \/ op \in {"reconnect", "startOver"} /\ n = 5
       \/ op = "stopSession" /\ n = 2
       \/ op = "shutdown" /\ n = 1
  /\ step = "restart" <=> op \in {"setPreferences", "setScrcpyArgs"} /\ n = 2
  /\ step = "launch" <=> op \in {"startQrPairing", "submitManualCode", "reconnect"} /\ n = 1
  /\ step = "lockFlow" <=>
       (op = "startOver" /\ n = 7) \/ (op \in {"input", "phoneTarget"} /\ n = 2)
  /\ step = "forget" <=> op = "startOver" /\ n = 6
  /\ step = "unlockFlow" <=> op = "startOver" /\ n = 3
  /\ step = "needTarget" <=> op \in {"input", "phoneTarget"} /\ n = 3
  /\ step = "adb" <=> op \in {"input", "phoneTarget"} /\ n = 1
  /\ step = "retire" <=>
       op \in {"cancelPairing", "useManualCode", "stopSession", "startOver", "shutdown"} /\ n = 4
  /\ step = "crossFlow" <=>
       op \in {"cancelPairing", "useManualCode", "stopSession", "shutdown"} /\ n = 3
  /\ step = "reply" <=>
       \/ op \in {"startQrPairing", "submitManualCode", "reconnect"} /\ n = 2
       \/ /\ op \in {"cancelPairing", "useManualCode", "stopSession", "startOver",
                     "setPreferences", "setScrcpyArgs"}
          /\ n = 1
  /\ step # "replyFailed"

(* Which step stands how far from the end of which program.                  *)
LEMMA Places ==
  ASSUME NEW op \in Ops, NEW n \in 1..Len(Program[op])
  PROVE  Place(op, n, Program[op][Len(Program[op]) - n + 1])
<1>1. CASE op = "startQrPairing"
  BY <1>1 DEF Program, Place
<1>2. CASE op = "submitManualCode"
  BY <1>2 DEF Program, Place
<1>3. CASE op = "cancelPairing"
  BY <1>3 DEF Program, Place
<1>4. CASE op = "useManualCode"
  BY <1>4 DEF Program, Place
<1>5. CASE op = "reconnect"
  BY <1>5 DEF Program, Place
<1>6. CASE op = "stopSession"
  BY <1>6 DEF Program, Place
<1>7. CASE op = "startOver"
  BY <1>7 DEF Program, Place
<1>8. CASE op = "setPreferences"
  BY <1>8 DEF Program, Place
<1>9. CASE op = "setScrcpyArgs"
  BY <1>9 DEF Program, Place
<1>10. CASE op = "input"
  BY <1>10 DEF Program, Place
<1>11. CASE op = "phoneTarget"
  BY <1>11 DEF Program, Place
<1>12. CASE op = "previewReady"
  BY <1>12 DEF Program, Place
<1>13. CASE op = "shutdown"
  BY <1>13 DEF Program, Place
<1>14. QED
  BY <1>1, <1>2, <1>3, <1>4, <1>5, <1>6, <1>7, <1>8, <1>9, <1>10, <1>11, <1>12, <1>13, Programs

(* How long the programs are that the proofs count in.                       *)
LEMMA Lengths ==
  /\ \A op \in Ops : Len(Program[op]) \in Nat \ {0}
  /\ Len(Program["startQrPairing"]) = 7 /\ Len(Program["submitManualCode"]) = 7
  /\ Len(Program["reconnect"]) = 6 /\ Len(Program["cancelPairing"]) = 5
  /\ Len(Program["stopSession"]) = 5 /\ Len(Program["startOver"]) = 9
  /\ Len(Program["input"]) = 3 /\ Len(Program["phoneTarget"]) = 3
  /\ Len(FailedInput) = 2 /\ FailedInput[1] = "invalidate" /\ FailedInput[2] = "replyFailed"
<1>1. Len(Program["startQrPairing"]) = 7 /\ Len(Program["submitManualCode"]) = 7
  BY DEF Program
<1>2. Len(Program["reconnect"]) = 6 /\ Len(Program["cancelPairing"]) = 5
  BY DEF Program
<1>3. Len(Program["stopSession"]) = 5 /\ Len(Program["startOver"]) = 9
  BY DEF Program
<1>4. Len(Program["input"]) = 3 /\ Len(Program["phoneTarget"]) = 3
  BY DEF Program
<1>5. /\ Len(Program["useManualCode"]) = 5 /\ Len(Program["setPreferences"]) = 4
      /\ Len(Program["setScrcpyArgs"]) = 4
  BY DEF Program
<1>6. Len(Program["previewReady"]) = 1 /\ Len(Program["shutdown"]) = 5
  BY DEF Program
<1>7. ASSUME NEW op \in Ops PROVE Len(Program[op]) \in 1..9
  <2>2. op \in {"startQrPairing", "submitManualCode", "cancelPairing", "useManualCode",
                "reconnect", "stopSession", "startOver", "setPreferences", "setScrcpyArgs",
                "input", "phoneTarget", "previewReady", "shutdown"}
    BY Programs
  <2>3. CASE op \in {"startQrPairing", "submitManualCode", "reconnect", "stopSession", "startOver"}
    BY <1>1, <1>2, <1>3, <2>3
  <2>4. CASE op \in {"cancelPairing", "useManualCode", "setPreferences", "setScrcpyArgs"}
    BY <1>2, <1>5, <2>4
  <2>5. CASE op \in {"input", "phoneTarget", "previewReady", "shutdown"}
    BY <1>4, <1>6, <2>5
  <2>6. QED BY <2>2, <2>3, <2>4, <2>5
<1>8. Len(FailedInput) = 2 /\ FailedInput[1] = "invalidate" /\ FailedInput[2] = "replyFailed"
  BY DEF FailedInput
<1>9. \A n \in 1..9 : n \in Nat \ {0}
  OBVIOUS
<1>10. \A op \in Ops : Len(Program[op]) \in Nat \ {0}
  BY <1>7, <1>9
<1>11. QED BY <1>1, <1>2, <1>3, <1>4, <1>8, <1>10

(* A program is over when its length is zero.                                *)
LEMMA NonEmpty ==
  ASSUME NEW s \in Seq(MicroSteps)
  PROVE  Len(s) \in Nat /\ (s # <<>> <=> Len(s) # 0)
BY EmptySeq

(* The last step of a program is never that of a failed input.               *)
LEMMA NotFailing ==
  ASSUME NEW s \in Seq(MicroSteps), NEW op \in {"input", "phoneTarget"}, s # <<>>,
         Remains(s, Program[op])
  PROVE  ~Remains(s, FailedInput)
<1>1. Len(s) \in Nat /\ Len(s) # 0
  BY NonEmpty
<1>2. Len(Program[op]) = 3 /\ Program[op][3] = "adb"
  <2>1. CASE op = "input"
    BY <2>1 DEF Program
  <2>2. CASE op = "phoneTarget"
    BY <2>2 DEF Program
  <2>3. QED BY <2>1, <2>2
<1>3. Len(s) \in 1..Len(s)
  BY <1>1
<1>4. s[Len(s)] = Program[op][3 - Len(s) + Len(s)]
  BY <1>2, <1>3 DEF Remains
<1>5. s[Len(s)] = "adb"
  BY <1>1, <1>2, <1>4
<1>6. ASSUME Remains(s, FailedInput) PROVE FALSE
  <2>1. s[Len(s)] = FailedInput[2 - Len(s) + Len(s)]
    BY <1>3, <1>6, Lengths DEF Remains
  <2>2. s[Len(s)] = "replyFailed"
    BY <1>1, <2>1, Lengths
  <2>3. QED BY <1>5, <2>2
<1>7. QED BY <1>6

(* The tail of a program is empty when one step was left.                    *)
LEMMA TailEmpty ==
  ASSUME NEW s \in Seq(MicroSteps), s # <<>>
  PROVE  Tail(s) = <<>> <=> Len(s) = 1
<1>1. Tail(s) \in Seq(MicroSteps) /\ Len(Tail(s)) = Len(s) - 1 /\ Len(s) \in Nat
  BY HeadTailProperties
<1>2. PICK t \in Seq(MicroSteps) : t = Tail(s) /\ Len(t) = Len(s) - 1
  BY <1>1
<1>3. t = <<>> <=> Len(t) = 0
  BY NonEmpty
<1>4. Len(t) = 0 <=> Len(s) = 1
  BY <1>1, <1>2
<1>5. QED BY ONLY <1>2, <1>3, <1>4, Zenon

(* The empty program is what remains of any program in the end.              *)
LEMMA NothingRemains == ASSUME NEW p \in Seq(MicroSteps) PROVE Remains(<<>>, p)
<1>1. Len(p) \in Nat /\ Len(<<>>) = 0
  OBVIOUS
<1>2. QED BY <1>1 DEF Remains

(* What the main thread is at, and what is left when it goes on.             *)
LEMMA TodoNow ==
  ASSUME cmd \in CommandState, TodoFits, NEW step, At(step)
  PROVE  /\ cmd.op \in Ops /\ Len(cmd.todo) \in Nat \ {0} /\ caller.step = "idle"
         /\ \/ /\ ~Failing /\ Len(cmd.todo) <= Len(Program[cmd.op])
               /\ Place(cmd.op, Len(cmd.todo), step)
            \/ Failing /\ Len(cmd.todo) = 2 /\ step = "invalidate"
            \/ Failing /\ Len(cmd.todo) = 1 /\ step = "replyFailed"
<1>1. /\ cmd.op \in Ops /\ cmd.todo \in Seq(MicroSteps) /\ cmd.todo # <<>>
      /\ Head(cmd.todo) = step /\ caller.step = "idle"
  BY Programs DEF At, TodoFits, CommandState
<1>2. Program[cmd.op] \in Seq(MicroSteps) /\ FailedInput \in Seq(MicroSteps)
  BY <1>1, ProgramsTyped
<1>3. Len(cmd.todo) \in Nat \ {0}
  BY <1>1, NonEmpty
<1>4. CASE Failing
  <2>0. Remains(cmd.todo, FailedInput) /\ Len(FailedInput) = 2
    BY <1>4, Lengths DEF Failing
  <2>1. Len(cmd.todo) \in 1..2 /\ Head(cmd.todo) = FailedInput[2 - Len(cmd.todo) + 1]
    BY <1>1, <1>2, <2>0, RemainsTail
  <2>2. \/ Len(cmd.todo) = 1 /\ Head(cmd.todo) = FailedInput[2]
        \/ Len(cmd.todo) = 2 /\ Head(cmd.todo) = FailedInput[1]
    <3>1. CASE Len(cmd.todo) = 1
      BY <2>1, <3>1
    <3>2. CASE Len(cmd.todo) = 2
      BY <2>1, <3>2
    <3>3. Len(cmd.todo) = 1 \/ Len(cmd.todo) = 2
      BY <2>1
    <3>4. QED BY <3>1, <3>2, <3>3
  <2>3. QED BY <1>1, <1>3, <1>4, <2>2, Lengths
<1>5. CASE ~Failing
  <2>1. Remains(cmd.todo, Program[cmd.op])
    BY <1>1, <1>5, Programs DEF TodoFits
  <2>2. /\ Len(cmd.todo) \in 1..Len(Program[cmd.op])
        /\ step = Program[cmd.op][Len(Program[cmd.op]) - Len(cmd.todo) + 1]
    BY <1>1, <1>2, <2>1, RemainsTail
  <2>3. Place(cmd.op, Len(cmd.todo), step)
    BY <1>1, <2>2, Places
  <2>4. Len(cmd.todo) <= Len(Program[cmd.op])
    BY <2>2
  <2>5. QED BY <1>1, <1>3, <1>5, <2>3, <2>4
<1>6. QED BY <1>4, <1>5

(* The main thread goes on to the next step.                                 *)
Proceeds == cmd' \in CommandState /\ cmd'.op = cmd.op /\ cmd'.todo = Tail(cmd.todo)

(* A handler that continues drops its first step.                            *)
LEMMA ContinueProceeds ==
  ASSUME cmd \in CommandState, NEW step, At(step), Continue
  PROVE  Proceeds
<1>1. cmd.todo \in Seq(MicroSteps) /\ cmd.todo # <<>>
  BY DEF At, CommandState
<1>2. Tail(cmd.todo) \in Seq(MicroSteps)
  BY <1>1, HeadTailProperties
<1>3. cmd' = [cmd EXCEPT !.todo = Tail(cmd.todo), !.read = FALSE]
  BY DEF Continue
<1>4. QED BY <1>2, <1>3 DEF CommandState, Proceeds

(* A handler that drops its first step is still a rest of its program.       *)
LEMMA TodoGoesOn ==
  ASSUME cmd \in CommandState, TodoFits, NEW step, At(step), Proceeds
  PROVE  /\ cmd' \in CommandState /\ cmd'.op = cmd.op
         /\ Len(cmd'.todo) = Len(cmd.todo) - 1 /\ TodoFits'
         /\ cmd'.todo = <<>> <=> Len(cmd.todo) = 1
         /\ Failing' <=> Failing /\ step = "invalidate"
<1>1. /\ cmd.op \in Ops /\ cmd.todo \in Seq(MicroSteps) /\ cmd.todo # <<>>
  BY TodoNow DEF At, CommandState
<1>2. /\ Program[cmd.op] \in Seq(MicroSteps) /\ FailedInput \in Seq(MicroSteps)
      /\ Len(cmd.todo) \in Nat \ {0} /\ cmd.op # "none"
  BY <1>1, ProgramsTyped, NonEmpty, Programs
<1>3. Tail(cmd.todo) \in Seq(MicroSteps) /\ Len(Tail(cmd.todo)) = Len(cmd.todo) - 1
  BY <1>1, HeadTailProperties
<1>4. cmd' \in CommandState /\ cmd'.op = cmd.op /\ cmd'.todo = Tail(cmd.todo)
  BY DEF Proceeds
<1>5. Tail(cmd.todo) = <<>> <=> Len(cmd.todo) = 1
  BY <1>1, TailEmpty
<1>6. CASE Failing
  <2>1. Remains(Tail(cmd.todo), FailedInput)
    BY <1>1, <1>2, <1>6, RemainsTail DEF Failing
  <2>2. \/ Len(cmd.todo) = 2 /\ step = "invalidate"
        \/ Len(cmd.todo) = 1 /\ step = "replyFailed"
    BY <1>6, TodoNow
  <2>3. Failing' <=> Tail(cmd.todo) # <<>>
    BY <1>4, <1>6, <2>1 DEF Failing
  <2>4. Failing' <=> step = "invalidate"
    <3>1. 2 # 1 /\ "invalidate" # "replyFailed"
      OBVIOUS
    <3>2. CASE Len(cmd.todo) = 2 /\ step = "invalidate"
      BY ONLY <1>5, <2>3, <3>1, <3>2, Zenon
    <3>3. CASE Len(cmd.todo) = 1 /\ step = "replyFailed"
      BY ONLY <1>5, <2>3, <3>1, <3>3, Zenon
    <3>4. QED BY <2>2, <3>2, <3>3
  <2>5. TodoFits'
    <3>1. CASE Tail(cmd.todo) = <<>>
      <4>1. Remains(<<>>, Program[cmd.op]) /\ cmd'.todo = <<>>
        BY <1>2, <1>4, <3>1, NothingRemains
      <4>2. QED BY <1>2, <1>4, <4>1 DEF TodoFits
    <3>2. CASE Tail(cmd.todo) # <<>>
      BY <1>2, <1>4, <2>3, <3>2 DEF TodoFits
    <3>3. QED BY <3>1, <3>2
  <2>6. QED BY <1>3, <1>4, <1>5, <1>6, <2>4, <2>5
<1>7. CASE ~Failing
  <2>1. Remains(cmd.todo, Program[cmd.op])
    BY <1>2, <1>7 DEF TodoFits
  <2>2. Remains(Tail(cmd.todo), Program[cmd.op])
    <3>1. cmd.todo \in Seq(MicroSteps) /\ cmd.todo # <<>>
      BY <1>1
    <3>2. QED BY <1>2, <2>1, <3>1, RemainsTail
  <2>3. ~Failing'
    BY <1>3, <1>4, <2>2, NotFailing DEF Failing
  <2>4. TodoFits'
    BY <1>2, <1>4, <2>2 DEF TodoFits
  <2>5. QED BY <1>3, <1>4, <1>5, <1>7, <2>3, <2>4
<1>8. QED BY <1>6, <1>7

-----------------------------------------------------------------------------
(* What happens to the log.                                                  *)

(* The last event is new, the others are where they were.                    *)
LEMMA Appended ==
  ASSUME NEW T, NEW s \in Seq(T), NEW e \in T, NEW t, t = Append(s, e)
  PROVE  /\ t \in Seq(T) /\ Len(t) = Len(s) + 1 /\ Len(s) \in Nat
         /\ DOMAIN s = 1..Len(s) /\ DOMAIN t = 1..Len(s) + 1
         /\ \A i \in 1..Len(s) : t[i] = s[i]
         /\ t[Len(s) + 1] = e
BY AppendProperties

(* No session was announced on a generation that is not reached yet.         *)
LEMMA NotReached ==
  ASSUME TypeOK, StartsKnown
  PROVE  ~Starting(generation + 1)
<1>1. generation \in Nat
  BY DEF TypeOK
<1>2. ASSUME NEW i \in DOMAIN sent, sent[i] = Event("SessionStarting", generation + 1)
      PROVE  FALSE
  BY <1>1, <1>2 DEF StartsKnown, Event
<1>3. QED BY <1>2 DEF Starting, Sent

(* An event that announces no session; one that confirms a session is of an  *)
(* admitted worker, a reply that ends one finds none.                        *)
Plain(e) ==
  /\ e \in EventSet /\ e.type # "SessionStarting"
  /\ e.type = "SessionStarted" =>
       \E w \in Sessions : worker[w].step \in AdmittedSteps /\ worker[w].current = e.generation
  /\ e.type \in EndingReplies =>
       e.generation <= generation /\ \A w \in Sessions : worker[w].step \notin AdmittedSteps
Logged == sent' = sent \/ \E e : Plain(e) /\ sent' = Append(sent, e)

(* Only a worker of the generation of the moment is admitted.                *)
Admissions ==
  \A w \in Sessions : worker'[w].step \in AdmittedSteps =>
    \/ worker[w].step \in AdmittedSteps /\ worker'[w].current = worker[w].current
    \/ worker'[w].current >= generation
GenerationGoesOn == generation' \in {generation, generation + 1}

(* What is in the log is an event with a natural number for its generation.  *)
LEMMA EventsTyped ==
  ASSUME TypeOK
  PROVE  \A i \in DOMAIN sent : sent[i] \in EventSet /\ sent[i].generation \in Nat
<1>1. sent \in Seq(EventSet)
  BY DEF TypeOK
<1>2. \A i \in DOMAIN sent : sent[i] \in EventSet
  BY <1>1
<1>3. \A e \in EventSet : e.generation \in Nat
  BY DEF EventSet
<1>4. QED BY <1>2, <1>3

(* The session generation never moves back.                                  *)
LEMMA Onward ==
  ASSUME TypeOK, GenerationGoesOn
  PROVE  generation' \in Nat /\ generation <= generation'
BY DEF TypeOK, GenerationGoesOn

(* Whether a generation was announced changes only by its announcement.      *)
LEMMA StartingStays ==
  ASSUME TypeOK, Logged, NEW g
  PROVE  Starting(g)' <=> Starting(g)
<1>1. sent \in Seq(EventSet)
  BY DEF TypeOK
<1>2. CASE sent' = sent
  BY <1>2 DEF Starting, Sent
<1>3. ASSUME NEW e, Plain(e), sent' = Append(sent, e) PROVE Starting(g)' <=> Starting(g)
  <2>1. /\ Len(sent) \in Nat /\ DOMAIN sent = 1..Len(sent) /\ DOMAIN sent' = 1..Len(sent) + 1
        /\ \A i \in 1..Len(sent) : sent'[i] = sent[i]
        /\ sent'[Len(sent) + 1] = e
    BY <1>1, <1>3, Appended DEF Plain
  <2>2. e # Event("SessionStarting", g)
    BY <1>3 DEF Plain, Event
  <2>3. \A i \in 1..Len(sent) + 1 : i \in 1..Len(sent) \/ i = Len(sent) + 1
    BY <2>1
  <2>4. \A i \in 1..Len(sent) : i \in 1..Len(sent) + 1
    BY <2>1
  <2>5. QED BY <2>1, <2>2, <2>3, <2>4 DEF Starting, Sent
<1>4. QED BY <1>2, <1>3 DEF Logged

(* Announced generations stay generations the helper has reached.            *)
LEMMA StartsKnownStays ==
  ASSUME TypeOK, StartsKnown, GenerationGoesOn, Logged
  PROVE  StartsKnown'
<1>1. sent \in Seq(EventSet) /\ generation \in Nat /\ generation <= generation'
      /\ \A i \in DOMAIN sent : sent[i].generation \in Nat
  BY EventsTyped, Onward DEF TypeOK
<1>2. CASE sent' = sent
  BY <1>1, <1>2 DEF StartsKnown, GenerationGoesOn
<1>3. ASSUME NEW e, Plain(e), sent' = Append(sent, e) PROVE StartsKnown'
  <2>1. /\ Len(sent) \in Nat /\ DOMAIN sent = 1..Len(sent) /\ DOMAIN sent' = 1..Len(sent) + 1
        /\ \A i \in 1..Len(sent) : sent'[i] = sent[i]
        /\ sent'[Len(sent) + 1] = e
    BY <1>1, <1>3, Appended DEF Plain
  <2>2. e.type # "SessionStarting"
    BY <1>3 DEF Plain
  <2>3. \A i \in 1..Len(sent) + 1 : i \in 1..Len(sent) \/ i = Len(sent) + 1
    BY <2>1
  <2>4. \A i \in DOMAIN sent' : sent'[i].type = "SessionStarting" =>
          i \in DOMAIN sent /\ sent'[i] = sent[i]
    BY <2>1, <2>2, <2>3
  <2>5. QED BY <1>1, <2>4 DEF StartsKnown, GenerationGoesOn
<1>4. QED BY <1>2, <1>3 DEF Logged

(* No generation is announced twice as long as no step logs an
   announcement.                                                             *)
LEMMA StartsOnceStays ==
  ASSUME TypeOK, GenerationStartsOnce, Logged
  PROVE  GenerationStartsOnce'
<1>1. sent \in Seq(EventSet)
  BY DEF TypeOK
<1>2. CASE sent' = sent
  BY <1>2 DEF GenerationStartsOnce
<1>3. ASSUME NEW e, Plain(e), sent' = Append(sent, e) PROVE GenerationStartsOnce'
  <2>1. /\ Len(sent) \in Nat /\ DOMAIN sent = 1..Len(sent) /\ DOMAIN sent' = 1..Len(sent) + 1
        /\ \A i \in 1..Len(sent) : sent'[i] = sent[i]
        /\ sent'[Len(sent) + 1] = e
    BY <1>1, <1>3, Appended DEF Plain
  <2>2. e.type # "SessionStarting"
    BY <1>3 DEF Plain
  <2>3. \A i \in 1..Len(sent) + 1 : i \in 1..Len(sent) \/ i = Len(sent) + 1
    BY <2>1
  <2>4. \A i \in DOMAIN sent' : sent'[i].type = "SessionStarting" =>
          i \in DOMAIN sent /\ sent'[i] = sent[i]
    BY <2>1, <2>2, <2>3
  <2>5. QED BY <2>4 DEF GenerationStartsOnce
<1>4. QED BY <1>2, <1>3 DEF Logged

(* No admitted worker falls behind the generation of an ending that was
   told.                                                                     *)
LEMMA FloorsStay ==
  ASSUME TypeOK, Floors, GenerationGoesOn, Logged, Admissions, worker' \in [Sessions -> WorkerState]
  PROVE  Floors'
<1>1. /\ sent \in Seq(EventSet) /\ generation \in Nat /\ generation' \in Nat
      /\ generation <= generation'
      /\ \A i \in DOMAIN sent : sent[i].generation \in Nat
      /\ \A w \in Sessions : worker[w].current \in Nat /\ worker'[w].current \in Nat
  BY EventsTyped, Onward, WorkerFields DEF TypeOK, WorkerState
<1>2. ASSUME NEW i \in DOMAIN sent, sent[i].type \in EndingReplies
      PROVE  /\ sent[i].generation <= generation'
             /\ \A w \in Sessions : worker'[w].step \in AdmittedSteps =>
                  worker'[w].current >= sent[i].generation
  <2>1. /\ sent[i].generation <= generation /\ sent[i].generation \in Nat
        /\ \A w \in Sessions : worker[w].step \in AdmittedSteps =>
             worker[w].current >= sent[i].generation
    BY <1>1, <1>2 DEF Floors
  <2>2. QED BY <1>1, <2>1 DEF Admissions
<1>3. CASE sent' = sent
  BY <1>2, <1>3 DEF Floors
<1>4. ASSUME NEW e, Plain(e), sent' = Append(sent, e) PROVE Floors'
  <2>1. /\ Len(sent) \in Nat /\ DOMAIN sent = 1..Len(sent) /\ DOMAIN sent' = 1..Len(sent) + 1
        /\ \A i \in 1..Len(sent) : sent'[i] = sent[i]
        /\ sent'[Len(sent) + 1] = e
    BY <1>1, <1>4, Appended DEF Plain
  <2>2. \A i \in 1..Len(sent) + 1 : i \in 1..Len(sent) \/ i = Len(sent) + 1
    BY <2>1
  <2>3. ASSUME e.type \in EndingReplies
        PROVE  /\ e.generation <= generation'
               /\ \A w \in Sessions : worker'[w].step \in AdmittedSteps =>
                    worker'[w].current >= e.generation
    <3>1. e.generation \in Nat /\ e.generation <= generation
      BY <1>4, <2>3 DEF Plain, EventSet
    <3>2. \A w \in Sessions : worker'[w].step \in AdmittedSteps => worker'[w].current >= generation
      BY <1>4, <2>3 DEF Plain, Admissions
    <3>3. QED BY <1>1, <3>1, <3>2
  <2>4. ASSUME NEW i \in DOMAIN sent', sent'[i].type \in EndingReplies
        PROVE  /\ sent'[i].generation <= generation'
               /\ \A w \in Sessions : worker'[w].step \in AdmittedSteps =>
                    worker'[w].current >= sent'[i].generation
    <3>1. CASE i = Len(sent) + 1
      BY <2>1, <2>3, <2>4, <3>1
    <3>2. CASE i \in 1..Len(sent)
      BY <1>2, <2>1, <2>4, <3>2
    <3>3. QED BY <2>1, <2>2, <2>4, <3>1, <3>2
  <2>5. QED BY <2>4 DEF Floors
<1>5. QED BY <1>3, <1>4 DEF Logged

(* No event follows an ending as long as no step logs one of a session.      *)
LEMMA NoEventStays ==
  ASSUME TypeOK, Floors, NoStartAfterEnd, Logged
  PROVE  NoStartAfterEnd'
<1>1. sent \in Seq(EventSet)
  BY DEF TypeOK
<1>2. CASE sent' = sent
  BY <1>2 DEF NoStartAfterEnd
<1>3. ASSUME NEW e, Plain(e), sent' = Append(sent, e) PROVE NoStartAfterEnd'
  <2>1. /\ Len(sent) \in Nat /\ DOMAIN sent = 1..Len(sent) /\ DOMAIN sent' = 1..Len(sent) + 1
        /\ \A i \in 1..Len(sent) : sent'[i] = sent[i]
        /\ sent'[Len(sent) + 1] = e /\ Len(sent') = Len(sent) + 1
    BY <1>1, <1>3, Appended DEF Plain
  <2>2. ASSUME NEW i \in DOMAIN sent, sent[i].type \in EndingReplies,
               e.type \in {"SessionStarting", "SessionStarted"}
        PROVE  e.generation >= sent[i].generation
    BY <1>3, <2>2 DEF Floors, Plain
  <2>3. {"SessionStarting", "SessionStarted"} \cap EndingReplies = {}
    BY DEF EndingReplies
  <2>4. ASSUME NEW i \in DOMAIN sent', sent'[i].type \in EndingReplies,
               NEW j \in i..Len(sent'), sent'[j].type \in {"SessionStarting", "SessionStarted"}
        PROVE  sent'[j].generation >= sent'[i].generation
    <3>1. i \in 1..Len(sent) + 1 /\ j \in 1..Len(sent) + 1 /\ i <= j
      BY <2>1, <2>4
    <3>2. CASE j = Len(sent) + 1 /\ i = Len(sent) + 1
      BY <2>1, <2>3, <2>4, <3>2
    <3>3. CASE j = Len(sent) + 1 /\ i \in 1..Len(sent)
      BY <2>1, <2>2, <2>4, <3>3
    <3>4. CASE j \in 1..Len(sent) /\ i \in 1..Len(sent)
      <4>1. j \in i..Len(sent) /\ i \in DOMAIN sent
        BY <2>1, <3>1, <3>4
      <4>2. sent'[i] = sent[i] /\ sent'[j] = sent[j]
        BY <2>1, <3>4
      <4>3. QED BY <2>4, <4>1, <4>2 DEF NoStartAfterEnd
    <3>5. QED BY <2>1, <3>1, <3>2, <3>3, <3>4
  <2>5. QED BY <2>4 DEF NoStartAfterEnd
<1>4. QED BY <1>2, <1>3 DEF Logged

(* Whatever step writes no announcement: what is left to show of it.         *)
LEMMA LogMoves ==
  ASSUME TypeOK, LogInv, TypeOK', GenerationGoesOn, Logged, Admissions, CurrentsKnown',
         OnePerToken', Announcing',
         \A w \in Sessions :
           Pending(w)' /\ worker'[w].token \notin cancelled' => ~Starting(worker'[w].current),
         caller'.step # "idle" /\ (caller'.target # NoTarget \/ caller'.step = "restart") =>
           ~Starting(caller'.generation),
         (Left("reconnect", 4) /\ cmd.todo # <<>>)' => ~Starting(generation')
  PROVE  LogInv'
<1>1. \A g : Starting(g)' <=> Starting(g)
  BY StartingStays
<1>2. Unannounced'
  BY <1>1 DEF Unannounced, Starting
<1>3. CallerFresh'
  BY <1>1 DEF CallerFresh, Starting
<1>4. ReconnectFresh'
  BY <1>1 DEF ReconnectFresh, Starting
<1>5. StartsKnown' /\ GenerationStartsOnce'
  BY StartsKnownStays, StartsOnceStays DEF LogInv, AnnounceInv
<1>6. Floors' /\ NoStartAfterEnd'
  BY FloorsStay, NoEventStays DEF LogInv, TypeOK
<1>7. QED BY <1>2, <1>3, <1>4, <1>5, <1>6 DEF LogInv, AnnounceInv

-----------------------------------------------------------------------------
(* Where the main thread is in its command.                                  *)

(* Counting down what is left.                                               *)
LEMMA Countdown ==
  \A n \in Nat :
    /\ n <= 6 => n = 6 \/ n <= 5
    /\ n <= 5 => n = 5 \/ n <= 4
    /\ n <= 4 => n = 4 \/ n <= 3
    /\ n <= 3 => n = 3 \/ n <= 2
    /\ n <= 2 => n = 2 \/ n <= 1
    /\ n - 1 <= 6 /\ n - 1 >= 3 => n = 7 \/ (n <= 6 /\ n >= 3 /\ n # 3)
OBVIOUS

(* A session is over from the step that ended it.                            *)
LEMMA OverSince ==
  ASSUME cmd \in CommandState, TodoFits, NEW step, At(step), Proceeds, SessionOver'
  PROVE  SessionOver \/ step \in {"stop", "invalidate"}
<1>0. Len(cmd.todo) \in Nat
  BY TodoNow
<1>1. /\ cmd.op \in Ops /\ Len(cmd.todo) \in Nat \ {0} /\ caller.step = "idle"
      /\ \/ ~Failing /\ Place(cmd.op, Len(cmd.todo), step)
         \/ Failing /\ Len(cmd.todo) = 2 /\ step = "invalidate"
         \/ Failing /\ Len(cmd.todo) = 1 /\ step = "replyFailed"
  BY TodoNow
<1>2. /\ cmd'.op = cmd.op /\ Len(cmd'.todo) = Len(cmd.todo) - 1
      /\ Failing' <=> Failing /\ step = "invalidate"
  BY TodoGoesOn
<1>3. cmd.todo # <<>>
  BY DEF At
<1>4. CASE Failing'
  BY <1>2, <1>4
<1>5. CASE ~Failing' /\ Failing
  <2>1. Len(cmd.todo) = 1 /\ cmd.op \in {"input", "phoneTarget"}
    BY <1>1, <1>2, <1>5 DEF Failing
  <2>2. QED BY <1>2, <1>5, <2>1 DEF SessionOver, Left
<1>6. CASE ~Failing' /\ ~Failing
  <2>1. Place(cmd.op, Len(cmd.todo), step)
    BY <1>1, <1>6
  <2>2. CASE cmd.op \in {"startQrPairing", "submitManualCode"}
    <3>1. Len(cmd.todo) <= 6
      BY <1>1, <1>2, <1>6, <2>2 DEF SessionOver, Left
    <3>2. CASE Len(cmd.todo) = 6
      BY <2>1, <2>2, <3>2 DEF Place
    <3>3. CASE Len(cmd.todo) <= 5
      BY <1>3, <2>2, <3>3 DEF SessionOver, Left
    <3>4. QED BY ONLY <1>0, <3>1, <3>2, <3>3, Countdown, Zenon
  <2>3. CASE cmd.op = "reconnect"
    <3>1. Len(cmd.todo) <= 5
      BY <1>1, <1>2, <1>6, <2>3 DEF SessionOver, Left
    <3>2. CASE Len(cmd.todo) = 5
      BY <2>1, <2>3, <3>2 DEF Place
    <3>3. CASE Len(cmd.todo) <= 4
      BY <1>3, <2>3, <3>3 DEF SessionOver, Left
    <3>4. QED BY ONLY <1>0, <3>1, <3>2, <3>3, Countdown, Zenon
  <2>4. CASE cmd.op = "stopSession"
    <3>1. Len(cmd.todo) <= 2
      BY <1>1, <1>2, <1>6, <2>4 DEF SessionOver, Left
    <3>2. CASE Len(cmd.todo) = 2
      BY <2>1, <2>4, <3>2 DEF Place
    <3>3. CASE Len(cmd.todo) <= 1
      BY <2>4, <3>3 DEF SessionOver, Left
    <3>4. QED BY ONLY <1>0, <3>1, <3>2, <3>3, Countdown, Zenon
  <2>5. CASE cmd.op = "startOver"
    <3>1. Len(cmd.todo) <= 5
      BY <1>1, <1>2, <1>6, <2>5 DEF SessionOver, Left
    <3>2. CASE Len(cmd.todo) = 5
      BY <2>1, <2>5, <3>2 DEF Place
    <3>3. CASE Len(cmd.todo) <= 4
      BY <2>5, <3>3 DEF SessionOver, Left
    <3>4. QED BY ONLY <1>0, <3>1, <3>2, <3>3, Countdown, Zenon
  <2>6. QED BY <1>2, <1>6, <2>2, <2>3, <2>4, <2>5 DEF SessionOver, Left
<1>7. QED BY <1>4, <1>5, <1>6

(* The flow is held from the step that locked it.                            *)
LEMMA HeldSince ==
  ASSUME cmd \in CommandState, TodoFits, NEW step, At(step), Proceeds, MainHolds'
  PROVE  step = "lockFlow" \/ (MainHolds /\ step \notin {"unlockFlow", "adb"})
<1>0. Len(cmd.todo) \in Nat
  BY TodoNow
<1>1. /\ cmd.op \in Ops /\ Len(cmd.todo) \in Nat \ {0}
      /\ \/ ~Failing /\ Place(cmd.op, Len(cmd.todo), step)
         \/ Failing /\ Len(cmd.todo) = 2 /\ step = "invalidate"
         \/ Failing /\ Len(cmd.todo) = 1 /\ step = "replyFailed"
  BY TodoNow
<1>2. /\ cmd'.op = cmd.op /\ Len(cmd'.todo) = Len(cmd.todo) - 1
      /\ Failing' <=> Failing /\ step = "invalidate"
  BY TodoGoesOn
<1>3. CASE cmd.op = "startOver"
  <2>0. Len(cmd'.todo) <= 6 /\ Len(cmd'.todo) >= 3
    BY <1>2, <1>3 DEF MainHolds, Left
  <2>1. \/ Len(cmd.todo) = 7
        \/ Len(cmd.todo) <= 6 /\ Len(cmd.todo) >= 3 /\ Len(cmd.todo) # 3
    <3>1. Len(cmd.todo) - 1 <= 6 /\ Len(cmd.todo) - 1 >= 3
      BY ONLY <1>2, <2>0, Zenon
    <3>2. QED BY ONLY <1>0, <3>1, Countdown, Zenon
  <2>2. ~Failing
    BY <1>3 DEF Failing
  <2>3. Place("startOver", Len(cmd.todo), step)
    BY <1>1, <1>3, <2>2
  <2>4. CASE Len(cmd.todo) = 7
    BY <2>3, <2>4 DEF Place
  <2>5. CASE Len(cmd.todo) <= 6 /\ Len(cmd.todo) >= 3 /\ Len(cmd.todo) # 3
    <3>1. step \notin {"unlockFlow", "adb"}
      BY <2>3, <2>5 DEF Place
    <3>2. MainHolds
      BY <1>3, <2>5, Zenon DEF MainHolds, Left
    <3>3. QED BY <3>1, <3>2
  <2>6. QED BY <2>1, <2>4, <2>5
<1>4. CASE cmd.op \in {"input", "phoneTarget"}
  <2>1. Len(cmd.todo) = 2 /\ ~Failing'
    BY <1>1, <1>2, <1>4 DEF MainHolds, Left
  <2>2. Place(cmd.op, 2, step)
    BY <1>1, <1>2, <2>1
  <2>3. QED BY <1>4, <2>2 DEF Place
<1>5. QED BY <1>2, <1>3, <1>4 DEF MainHolds, Left

(* Who unlocks the flow has it.                                              *)
LEMMA HeldAt ==
  ASSUME cmd \in CommandState, MainInv, NEW step \in {"unlockFlow", "adb", "forget"}, At(step)
  PROVE  flow = Main
<1>1. ~Failing /\ Place(cmd.op, Len(cmd.todo), step)
  BY TodoNow DEF MainInv
<1>2. \/ cmd.op = "startOver" /\ Len(cmd.todo) = 3
      \/ cmd.op = "startOver" /\ Len(cmd.todo) = 6
      \/ cmd.op \in {"input", "phoneTarget"} /\ Len(cmd.todo) = 1
  <2>1. CASE step = "unlockFlow" BY <1>1, <2>1 DEF Place
  <2>2. CASE step = "adb" BY <1>1, <2>2 DEF Place
  <2>3. CASE step = "forget" BY <1>1, <2>3 DEF Place
  <2>4. QED BY <2>1, <2>2, <2>3
<1>3. CASE cmd.op = "startOver" /\ Len(cmd.todo) = 3
  BY <1>3 DEF MainInv, MainFlow, MainHolds, Left
<1>4. CASE cmd.op = "startOver" /\ Len(cmd.todo) = 6
  BY <1>4 DEF MainInv, MainFlow, MainHolds, Left
<1>5. CASE cmd.op \in {"input", "phoneTarget"} /\ Len(cmd.todo) = 1
  BY <1>1, <1>5 DEF MainInv, MainFlow, MainHolds, Left
<1>6. QED BY <1>2, <1>3, <1>4, <1>5

(* The main thread takes its step and goes on.                               *)
LEMMA MainGoesOn ==
  ASSUME cmd \in CommandState, MainInv, NEW step, At(step), Proceeds,
         step \notin {"stop", "invalidate", "restart"} => caller' = caller,
         step \in {"stop", "invalidate"} => caller'.step = "barrier" /\ caller'.target = NoTarget,
         step \notin {"stop", "invalidate", "restart", "launch"} => launched' = launched,
         step = "lockFlow" => flow' = Main,
         step \notin {"lockFlow", "unlockFlow", "adb"} => flow' = flow
  PROVE  MainInv' /\ cmd' \in CommandState
<1>1. /\ cmd.op \in Ops /\ Len(cmd.todo) \in Nat \ {0} /\ caller.step = "idle"
      /\ \/ ~Failing /\ Place(cmd.op, Len(cmd.todo), step)
         \/ Failing /\ Len(cmd.todo) = 2 /\ step = "invalidate"
         \/ Failing /\ Len(cmd.todo) = 1 /\ step = "replyFailed"
  BY TodoNow DEF MainInv
<1>2. /\ cmd' \in CommandState /\ cmd'.op = cmd.op /\ TodoFits'
      /\ Len(cmd'.todo) = Len(cmd.todo) - 1
      /\ cmd'.todo = <<>> <=> Len(cmd.todo) = 1
  BY TodoGoesOn DEF MainInv
<1>3. Returned'
  <2>1. ASSUME step \in {"stop", "invalidate", "restart"}, Len(cmd.todo) = 1, cmd.op # "shutdown"
        PROVE  FALSE
    BY <1>1, <2>1 DEF Place
  <2>2. QED BY <1>1, <1>2, <2>1 DEF Returned
<1>4. StopDone'
  <2>1. SUFFICES ASSUME SessionOver' PROVE Ended'
    BY DEF StopDone
  <2>2. CASE step \in {"stop", "invalidate"}
    BY <2>2 DEF Ended
  <2>3. CASE step \notin {"stop", "invalidate"}
    <3>1. SessionOver /\ Ended
      BY <2>1, <2>3, OverSince DEF MainInv, StopDone
    <3>2. step # "restart"
      <4>1. ASSUME step = "restart" PROVE FALSE
        <5>1. cmd.op \in {"setPreferences", "setScrcpyArgs"} /\ ~Failing
          BY <1>1, <4>1 DEF Place
        <5>2. QED BY <3>1, <5>1 DEF SessionOver, Left
      <4>2. QED BY <4>1
    <3>3. step # "launch"
      <4>1. ASSUME step = "launch" PROVE FALSE
        <5>1. cmd.op \in {"startQrPairing", "submitManualCode", "reconnect"} /\ Len(cmd.todo) = 1
          BY <1>1, <4>1 DEF Place
        <5>2. cmd'.todo = <<>>
          BY <1>2, <5>1
        <5>3. ~SessionOver'
          BY <1>2, <5>1, <5>2 DEF SessionOver, Left, Failing
        <5>4. QED BY <2>1, <5>3
      <4>2. QED BY <4>1
    <3>4. caller' = caller /\ launched' = launched
      BY <2>3, <3>2, <3>3
    <3>5. QED BY <3>1, <3>4 DEF Ended
  <2>4. QED BY <2>2, <2>3
<1>5. MainFlow'
  <2>1. ASSUME MainHolds' PROVE flow' = Main
    <3>1. step = "lockFlow" \/ (MainHolds /\ step \notin {"unlockFlow", "adb"})
      BY <2>1, HeldSince DEF MainInv
    <3>2. QED BY <3>1 DEF MainInv, MainFlow
  <2>2. QED BY <2>1 DEF MainFlow
<1>6. QED BY <1>2, <1>3, <1>4, <1>5 DEF MainInv

(* A command is dropped, answered or not.                                    *)
LEMMA IdleTodo == IdleCommand \in CommandState /\ IdleCommand.todo = <<>> /\ IdleCommand.op = "none"
BY SessionControlAssumption DEF IdleCommand, CommandState

(* A main thread that has no command satisfies its invariant.                *)
LEMMA MainAbandons ==
  ASSUME cmd' = IdleCommand, caller.step = "idle", caller' = caller
  PROVE  MainInv' /\ cmd' \in CommandState
<1>1. cmd' \in CommandState /\ cmd'.todo = <<>> /\ cmd'.op = "none"
  BY IdleTodo
<1>2. ~Failing' /\ ~MainHolds' /\ ~SessionOver'
  BY <1>1 DEF Failing, MainHolds, SessionOver, Left
<1>3. QED BY <1>1, <1>2 DEF MainInv, TodoFits, Returned, StopDone, MainFlow

(* An input fails: its session is ended, then it is answered.                *)
LEMMA MainFails ==
  ASSUME cmd \in CommandState, cmd.op \in {"input", "phoneTarget"},
         cmd' = [cmd EXCEPT !.todo = FailedInput, !.read = FALSE]
  PROVE  MainInv' /\ cmd' \in CommandState /\ cmd'.op = cmd.op
<1>1. /\ cmd' \in CommandState /\ cmd'.op = cmd.op /\ cmd'.todo = FailedInput
  BY ProgramsTyped DEF CommandState
<1>0. Len(FailedInput) = 2 /\ FailedInput # <<>>
  <2>1. Len(FailedInput) = 2 /\ FailedInput \in Seq(MicroSteps) /\ 2 # 0
    BY Lengths, ProgramsTyped
  <2>2. QED BY <2>1, NonEmpty, Zenon
<1>2. Len(cmd'.todo) = 2 /\ cmd'.todo # <<>>
  <2>1. Len(cmd'.todo) = 2
    BY <1>0, <1>1, Zenon
  <2>2. cmd'.todo # <<>>
    BY <1>0, <1>1, Zenon
  <2>3. QED BY <2>1, <2>2
<1>3. Remains(FailedInput, FailedInput)
  BY Lengths DEF Remains
<1>4. Failing'
  BY <1>1, <1>2, <1>3 DEF Failing
<1>5. ~MainHolds' /\ ~SessionOver'
  <2>1. 2 # 1
    OBVIOUS
  <2>2. QED BY <1>1, <1>2, <1>4, <2>1, Zenon DEF MainHolds, SessionOver, Left
<1>6. QED BY <1>1, <1>2, <1>4, <1>5 DEF MainInv, TodoFits, Returned, StopDone, MainFlow

(* A command is read.                                                        *)
LEMMA MainAccepts ==
  ASSUME RuntimeTypeOK, NEW op \in Ops,
         cmd' = [IdleCommand EXCEPT !.op = op, !.todo = Program[op], !.generation = generation]
  PROVE  MainInv' /\ cmd' \in CommandState /\ cmd'.op = op /\ cmd'.todo = Program[op]
<1>1. Program[op] \in Seq(MicroSteps) /\ generation \in Nat
  BY ProgramsTyped DEF RuntimeTypeOK, TypeOK
<1>2. cmd' \in CommandState /\ cmd'.op = op /\ cmd'.todo = Program[op]
  BY <1>1, IdleTodo DEF IdleCommand, CommandState
<1>3. Len(Program[op]) \in Nat \ {0} /\ Program[op] # <<>>
  BY <1>1, Lengths, NonEmpty
<1>4. Remains(Program[op], Program[op])
  BY <1>3 DEF Remains
<1>5. ~Failing'
  BY <1>1, <1>2, <1>3, <1>4, NotFailing DEF Failing
<1>6. ~SessionOver' /\ ~MainHolds'
  <2>1. Len(cmd'.todo) = Len(Program[op])
    BY <1>2
  <2>2. CASE op \in {"startQrPairing", "submitManualCode"}
    <3>1. Len(cmd'.todo) = 7
      BY <2>1, <2>2, Lengths, Zenon
    <3>2. ~(7 <= 5)
      OBVIOUS
    <3>3. QED BY <1>2, <1>5, <2>2, <3>1, <3>2, Zenon DEF SessionOver, MainHolds, Left
  <2>3. CASE op = "reconnect"
    <3>1. Len(cmd'.todo) = 6
      BY <2>1, <2>3, Lengths, Zenon
    <3>2. ~(6 <= 4)
      OBVIOUS
    <3>3. QED BY <1>2, <1>5, <2>3, <3>1, <3>2, Zenon DEF SessionOver, MainHolds, Left
  <2>4. CASE op = "stopSession"
    <3>1. Len(cmd'.todo) = 5
      BY <2>1, <2>4, Lengths, Zenon
    <3>2. ~(5 <= 1)
      OBVIOUS
    <3>3. QED BY <1>2, <1>5, <2>4, <3>1, <3>2, Zenon DEF SessionOver, MainHolds, Left
  <2>5. CASE op = "startOver"
    <3>1. Len(cmd'.todo) = 9
      BY <2>1, <2>5, Lengths, Zenon
    <3>2. ~(9 <= 4) /\ ~(9 <= 6)
      OBVIOUS
    <3>3. QED BY <1>2, <1>5, <2>5, <3>1, <3>2, Zenon DEF SessionOver, MainHolds, Left
  <2>6. CASE op \in {"input", "phoneTarget"}
    <3>1. Len(cmd'.todo) = 3
      BY <2>1, <2>6, Lengths, Zenon
    <3>2. 3 # 1
      OBVIOUS
    <3>3. QED BY <1>2, <1>5, <2>6, <3>1, <3>2, Zenon DEF SessionOver, MainHolds, Left
  <2>7. QED BY <1>2, <1>5, <2>2, <2>3, <2>4, <2>5, <2>6 DEF SessionOver, MainHolds, Left
<1>7. op # "none"
  BY Programs
<1>8. QED BY <1>2, <1>3, <1>4, <1>6, <1>7 DEF MainInv, TodoFits, Returned, StopDone, MainFlow

(* Whoever steps, the main thread stays where it is.                         *)
LEMMA MainStays ==
  ASSUME MainInv, cmd'.op = cmd.op, cmd'.todo = cmd.todo, caller' = caller,
         launched' = launched, flow' = flow \/ flow # Main
  PROVE  MainInv'
BY DEF MainInv, TodoFits, Returned, StopDone, MainFlow, MainHolds, SessionOver, Ended, Failing, Left

(* A step inside a session method leaves the main thread's invariant alone.  *)
LEMMA CallerMoves ==
  ASSUME TypeOK, MainInv, CallerStep, cmd' = cmd, flow' = flow
  PROVE  MainInv'
<1>1. caller.step \notin {"idle"}
  BY DEF CallerStep, CrossBarrier, ResetTarget, RenewToken, Restart
<1>2. TodoFits' /\ MainFlow' /\ (SessionOver' <=> SessionOver)
  BY DEF MainInv, TodoFits, MainFlow, MainHolds, SessionOver, Failing, Left
<1>3. Returned'
  BY <1>1 DEF MainInv, Returned
<1>4. StopDone'
  <2>1. SUFFICES ASSUME SessionOver PROVE Ended'
    BY <1>2 DEF StopDone
  <2>2. caller.target = NoTarget /\ caller.step # "restart" /\ caller \in CallerState
    BY <2>1 DEF MainInv, StopDone, Ended, TypeOK
  <2>3. CASE CrossBarrier
    BY <2>2, <2>3 DEF CrossBarrier, Ended, CallerState
  <2>4. CASE ResetTarget
    BY <2>2, <2>4 DEF ResetTarget, Ended, CallerState
  <2>5. CASE RenewToken
    BY <2>2, <2>5 DEF RenewToken, Ended, IdleCaller
  <2>6. QED BY <2>2, <2>3, <2>4, <2>5 DEF CallerStep, Restart
<1>5. QED BY <1>2, <1>3, <1>4 DEF MainInv

-----------------------------------------------------------------------------
(* The sessions: SessionControl under the callers the runtime really has.    *)

(* A step outside SessionControl writes events at most.                      *)
LEMMA SafetyStays ==
  ASSUME SafetyInv, UNCHANGED quiet, sent' \in Seq(EventSet)
  PROVE  SafetyInv'
<1>1. TypeOK'
  BY DEF SafetyInv, TypeOK, quiet, cells, locks
<1>2. LocksHeld' /\ TokensRetired' /\ FreshToken' /\ AdmittedOnToken' /\ AckRemembered'
  BY DEF SafetyInv, LocksHeld, TokensRetired, FreshToken, AdmittedOnToken, AckRemembered, quiet,
         cells, locks
<1>3. QED BY <1>1, <1>2 DEF SafetyInv

(* The session invariant depends on the session variables only.              *)
LEMMA SafetyUnmoved == ASSUME SafetyInv, UNCHANGED vars PROVE SafetyInv'
<1>1. UNCHANGED quiet /\ sent' = sent /\ sent \in Seq(EventSet)
  BY DEF SafetyInv, TypeOK, vars, quiet
<1>2. QED BY <1>1, SafetyStays

(* The events the runtime writes.                                            *)
LEMMA Written ==
  ASSUME TypeOK, NEW type \in EventTypes, NEW g \in Nat, Emit(Event(type, g))
  PROVE  sent' \in Seq(EventSet) /\ Event(type, g) \in EventSet
<1>1. sent' \in Seq(EventSet)
  BY EventTyped DEF Emit
<1>2. QED BY <1>1 DEF Event, EventSet

(* The event types, listed.                                                  *)
LEMMA KnownTypes ==
  EventTypes =
    {"SessionStarting", "SessionStarted", "SessionEnded", "LifecycleFailure",
     "SessionStopped", "StartOverComplete", "Connecting", "Connected", "Paired",
     "PairingCancelled", "QrWaiting", "QrTimedOut", "Pairing", "ManualCodeRequired",
     "PreferencesUpdated", "PreferencesRestarted", "ScrcpyArgsUpdated",
     "ScrcpyArgsRestarted", "ScrcpyArgsStale", "StaleSession", "Failure", "Refused",
     "InputFailed", "ReconnectFailed"}
BY DEF EventTypes

(* A call of the main thread.                                                *)
LEMMA SafetyCalls ==
  ASSUME SafetyInv, Call \/ CallerStep \/ AcknowledgePreview
  PROVE  SafetyInv'
<1>1. TypeOK'
  BY CallerTyped DEF SafetyInv
<1>2. QED BY <1>1, CallerKeepsInv

(* A closure is called or dropped.                                           *)
LEMMA SafetyClosures ==
  ASSUME SafetyInv, NEW w \in Sessions,
         Advance(w) \/ AdvanceFailed(w) \/ Discard(w) \/ \E t \in Targets : Spawn(w, t)
  PROVE  SafetyInv'
<1>1. calls' = calls /\ calls \in 0..MaxCalls
  BY DEF SafetyInv, TypeOK, Advance, AdvanceFailed, Discard, Spawn
<1>2. TypeOK'
  BY <1>1, ClosureStepTyped DEF SafetyInv
<1>3. QED BY <1>2, ClosureKeepsInv

(* Nothing was launched since the main thread renewed the token.             *)
LEMMA SafetyLaunches ==
  ASSUME SafetyInv, MainInv, cmd \in CommandState, NEW w \in Sessions, Launch(w)
  PROVE  SafetyInv' /\ ~launched
<1>1. /\ Len(cmd.todo) \in Nat \ {0} /\ caller.step = "idle"
      /\ ~Failing /\ Place(cmd.op, Len(cmd.todo), "launch")
  BY TodoNow DEF Launch, MainInv
<1>2. cmd.op \in {"startQrPairing", "submitManualCode", "reconnect"} /\ Len(cmd.todo) = 1
  BY <1>1 DEF Place
<1>3. cmd.todo # <<>>
  BY DEF Launch, At
<1>4. SessionOver
  <2>1. 1 <= 5 /\ 1 <= 4
    OBVIOUS
  <2>2. QED BY <1>2, <1>3, <2>1, Zenon DEF SessionOver, Left
<1>5. ~launched
  BY <1>1, <1>4 DEF MainInv, StopDone, Ended
<1>6. Call
  BY <1>5 DEF Launch, Call, Arm
<1>7. QED BY <1>5, <1>6, SafetyCalls

(* A pairing that is over drops its closure and tells the outcome.           *)
LEMMA SafetyReportsOver ==
  ASSUME SafetyInv, NEW w \in Sessions, worker[w].step \in ArmedSteps, Finish(w),
         UNCHANGED <<cells, locks, caller, acked, launched, calls>>, sent' \in Seq(EventSet)
  PROVE  SafetyInv'
<1>1. TypeOK'
  <2>1. worker' \in [Sessions -> WorkerState]
    BY FinishTyped DEF SafetyInv
  <2>2. QED BY <2>1 DEF SafetyInv, TypeOK, cells, locks
<1>2. /\ \A v \in Sessions \ {w} : worker'[v] = worker[v]
      /\ worker'[w].step = "idle" /\ worker'[w].token = 0
  BY DEF SafetyInv, TypeOK, Finish, IdleWorker
<1>3. token \in Nat /\ 0 <= token
  BY DEF SafetyInv, TypeOK
<1>4. LocksHeld'
  BY <1>2, StepSets DEF SafetyInv, LocksHeld, locks
<1>5. TokensRetired'
  BY <1>2, <1>3 DEF SafetyInv, TokensRetired, cells
<1>6. FreshToken' /\ AdmittedOnToken' /\ AckRemembered'
  BY <1>2, StepSets DEF SafetyInv, FreshToken, AdmittedOnToken, AckRemembered, cells
<1>7. QED BY <1>1, <1>4, <1>5, <1>6 DEF SafetyInv

-----------------------------------------------------------------------------
(* The launched workers.                                                     *)

(* The steps, kinds and outcomes of a worker, listed.                        *)
LEMMA LauncherValues ==
  /\ FlowSteps = {"talk", "progress", "pairing", "disconnecting"}
  /\ LauncherSteps =
       {"idle", "flow", "claim", "dropQr", "save", "remember", "advance", "report", "start",
        "disconnect", "tell", "talk", "progress", "pairing", "disconnecting"}
  /\ LauncherKinds = {"qr", "manual", "reconnect"}
  /\ Outcomes = {"None", "Linked", "Failure", "TimedOut", "Cancelled"}
BY DEF FlowSteps, LauncherSteps, LauncherKinds, Outcomes

(* A launched worker goes to s, and the rest of it stays ...                 *)
LauncherGoes(w, s) ==
  /\ launcher' \in [Sessions -> LauncherState]
  /\ \A v \in Sessions \ {w} : launcher'[v] = launcher[v]
  /\ launcher'[w].step = s
  /\ launcher'[w].kind = launcher[w].kind /\ launcher'[w].pairing = launcher[w].pairing
LauncherKeeps(w) ==
  launcher'[w].outcome = launcher[w].outcome /\ launcher'[w].target = launcher[w].target

(* A worker that goes to a step keeps its kind, token and generation.        *)
LEMMA GoesOn ==
  ASSUME RuntimeTypeOK, NEW w \in Sessions, NEW s \in LauncherSteps, LGoto(w, s)
  PROVE  LauncherGoes(w, s) /\ LauncherKeeps(w)
<1>1. launcher \in [Sessions -> LauncherState] /\ launcher[w] \in LauncherState
  BY DEF RuntimeTypeOK
<1>2. [launcher[w] EXCEPT !.step = s] \in LauncherState
  BY <1>1 DEF LauncherState
<1>3. launcher' = [launcher EXCEPT ![w] = [launcher[w] EXCEPT !.step = s]]
  BY <1>1 DEF LGoto
<1>4. launcher' \in [Sessions -> LauncherState]
  BY <1>1, <1>2, <1>3
<1>5. launcher'[w] = [launcher[w] EXCEPT !.step = s]
  BY <1>1, <1>3
<1>6. \A v \in Sessions \ {w} : launcher'[v] = launcher[v]
  BY <1>1, <1>3
<1>7. QED BY <1>1, <1>4, <1>5, <1>6 DEF LauncherGoes, LauncherKeeps, LauncherState

(* ... or is gone ...                                                        *)
LauncherGone(w) ==
  /\ launcher' \in [Sessions -> LauncherState]
  /\ \A v \in Sessions \ {w} : launcher'[v] = launcher[v]
  /\ launcher'[w].step = "idle" /\ launcher'[w].outcome = "None" /\ launcher'[w].pairing = 0

(* An idle worker is typed.                                                  *)
LEMMA NoLauncherTyped ==
  /\ IdleLauncher \in LauncherState
  /\ IdleLauncher.step = "idle" /\ IdleLauncher.outcome = "None" /\ IdleLauncher.pairing = 0
BY LauncherValues, SessionControlAssumption DEF IdleLauncher, LauncherState

(* A worker that finishes is idle.                                           *)
LEMMA IsGone ==
  ASSUME RuntimeTypeOK, NEW w \in Sessions, LFinish(w)
  PROVE  LauncherGone(w)
<1>1. launcher \in [Sessions -> LauncherState]
  BY DEF RuntimeTypeOK
<1>2. QED BY <1>1, NoLauncherTyped DEF LFinish, LauncherGone

(* ... or comes to the end of its flow, or of its reconnect.                 *)
LEMMA LeavesFlow ==
  ASSUME RuntimeTypeOK, NEW w \in Sessions, NEW o \in Outcomes, NEW t \in Targets \cup {NoTarget},
         LeaveFlow(w, o, t)
  PROVE  LauncherGoes(w, "claim") /\ launcher'[w].outcome = o /\ launcher'[w].target = t
<1>1. launcher \in [Sessions -> LauncherState] /\ launcher[w] \in LauncherState
  BY DEF RuntimeTypeOK
<1> DEFINE r == [launcher[w] EXCEPT !.step = "claim", !.outcome = o, !.target = t]
<1>2. /\ r \in LauncherState /\ r.step = "claim" /\ r.kind = launcher[w].kind
      /\ r.pairing = launcher[w].pairing /\ r.outcome = o /\ r.target = t
  BY <1>1, LauncherValues DEF LauncherState
<1>3. launcher' = [launcher EXCEPT ![w] = r]
  BY <1>1 DEF LeaveFlow
<1> HIDE DEF r
<1>4. QED BY <1>1, <1>2, <1>3 DEF LauncherGoes

(* A device that cannot be saved leads to the report of a failure.           *)
LEMMA SaveFails ==
  ASSUME RuntimeTypeOK, NEW w \in Sessions,
         launcher' = [launcher EXCEPT ![w].step = "report", ![w].outcome = "Failure"]
  PROVE  LauncherGoes(w, "report") /\ launcher'[w].outcome = "Failure"
<1>1. launcher \in [Sessions -> LauncherState] /\ launcher[w] \in LauncherState
  BY DEF RuntimeTypeOK
<1> DEFINE r == [launcher[w] EXCEPT !.step = "report", !.outcome = "Failure"]
<1>2. /\ r \in LauncherState /\ r.step = "report" /\ r.kind = launcher[w].kind
      /\ r.pairing = launcher[w].pairing /\ r.outcome = "Failure"
  BY <1>1, LauncherValues DEF LauncherState
<1>3. launcher' = [launcher EXCEPT ![w] = r]
  BY <1>1
<1> HIDE DEF r
<1>4. QED BY <1>1, <1>2, <1>3 DEF LauncherGoes

(* A reconnect that fails remembers the generation it has to tell.           *)
LEMMA FailureToTell ==
  ASSUME RuntimeTypeOK, NEW w \in Sessions,
         launcher' = [launcher EXCEPT ![w].step = "tell", ![w].told = generation + 1]
  PROVE  LauncherGoes(w, "tell") /\ LauncherKeeps(w)
<1>1. launcher \in [Sessions -> LauncherState] /\ launcher[w] \in LauncherState
      /\ generation + 1 \in Nat
  BY DEF RuntimeTypeOK, TypeOK
<1> DEFINE r == [launcher[w] EXCEPT !.step = "tell", !.told = generation + 1]
<1>2. /\ r \in LauncherState /\ r.step = "tell" /\ r.kind = launcher[w].kind
      /\ r.pairing = launcher[w].pairing
      /\ r.outcome = launcher[w].outcome /\ r.target = launcher[w].target
  BY <1>1, LauncherValues DEF LauncherState
<1>3. launcher' = [launcher EXCEPT ![w] = r]
  BY <1>1
<1> HIDE DEF r
<1>4. QED BY <1>1, <1>2, <1>3 DEF LauncherGoes, LauncherKeeps

(* The closures.                                                             *)
ClosureAlone(w) ==
  /\ \A v \in Sessions \ {w} : worker'[v] = worker[v]
  /\ UNCHANGED <<token, cancelled, caller, launched>>

(* A closure that is dropped touches one session worker only.                *)
LEMMA ClosureDropped ==
  ASSUME TypeOK, NEW w \in Sessions, Discard(w) \/ AdvanceFailed(w)
  PROVE  /\ ClosureAlone(w) /\ worker[w].step \in ArmedSteps /\ worker'[w].step = "idle"
         /\ worker'[w].current = 0 /\ sent' = sent
         /\ generation' = generation \/ (AdvanceFailed(w) /\ generation' = generation + 1)
<1>1. CASE Discard(w)
  BY <1>1 DEF TypeOK, Discard, Finish, IdleWorker, ClosureAlone, cells
<1>2. CASE AdvanceFailed(w)
  BY <1>2, StepSets DEF TypeOK, AdvanceFailed, Finish, IdleWorker, ClosureAlone, cells
<1>3. QED BY <1>1, <1>2

(* A closure that advances moves the generation by one.                      *)
LEMMA ClosureAdvanced ==
  ASSUME TypeOK, NEW w \in Sessions, Advance(w)
  PROVE  /\ ClosureAlone(w) /\ worker[w].step = "armed" /\ worker'[w].step = "advanced"
         /\ worker'[w].token = worker[w].token /\ worker'[w].current = generation + 1
         /\ sent' = sent /\ generation' = generation + 1
BY DEF TypeOK, WorkerState, Advance, ClosureAlone, cells

(* A closure that is called becomes a thread with the same token and
   generation.                                                               *)
LEMMA ClosureCalled ==
  ASSUME TypeOK, NEW w \in Sessions, NEW t \in Targets, Spawn(w, t)
  PROVE  /\ ClosureAlone(w) /\ worker[w].step \in ArmedSteps /\ worker'[w].step = "spawned"
         /\ worker'[w].token = worker[w].token /\ worker'[w].current = worker[w].current
         /\ sent' = sent /\ generation' = generation
BY DEF TypeOK, WorkerState, Spawn, ClosureAlone, cells

-----------------------------------------------------------------------------
(* What the step of a launched worker may do.                                *)
Carried(w) ==
  /\ launcher' \in [Sessions -> LauncherState]
  /\ \A v \in Sessions \ {w} : launcher'[v] = launcher[v] /\ worker'[v] = worker[v]
  /\ Fits(w)'
  /\ launcher[w].step = "idle" => launcher'[w].step = "idle"
  /\ launcher'[w].pairing \in {0, launcher[w].pairing}
  /\ launcher'[w].step = "idle" \/
       (launcher'[w].pairing = launcher[w].pairing /\ launcher'[w].kind = launcher[w].kind)
  /\ launcher'[w].step = "progress" =>
       launcher[w].step = "progress" \/ launcher[w].pairing = pairing
  /\ launcher'[w].step \in FlowSteps => flow' = w
  /\ flow' = flow \/ (flow \in {Nobody, w} /\ flow' \in {Nobody, w})
  /\ cmd' = cmd /\ received' = received /\ caller' = caller /\ launched' = launched
PairingsGo ==
  /\ pairing' \in {pairing, pairing + 1} /\ pairingToken' = pairingToken
  /\ withdrawn' \subseteq 0..pairing' /\ qr' \in 0..pairing'
  /\ stored' \in BOOLEAN /\ trusted' \in BOOLEAN

(* A step that leaves the pairing variables alone moves no pairing
   generation back.                                                          *)
LEMMA PairingsStay == ASSUME RuntimeTypeOK, UNCHANGED pairingVars PROVE PairingsGo
BY DEF RuntimeTypeOK, PairingsGo, pairingVars

(* A step of one worker that is described by Carried keeps the main
   thread's and the workers' invariants.                                     *)
LEMMA CarriedOn ==
  ASSUME RuntimeTypeOK, MainInv, LauncherInv, NEW w \in Sessions, Carried(w), PairingsGo, TypeOK'
  PROVE  RuntimeTypeOK' /\ MainInv' /\ LauncherInv'
<1>1. /\ pairing \in Nat /\ pairingToken \in 0..pairing
      /\ pairing' \in Nat /\ pairing <= pairing' /\ pairingToken' \in 0..pairing'
      /\ \A v \in Sessions : launcher[v].pairing \in Nat
  BY DEF RuntimeTypeOK, PairingsGo, LauncherState
<1>2. Main \notin Sessions /\ Main # Nobody /\ Nobody \notin Sessions
  BY HelperRuntimeAssumption, SessionControlAssumption
<1>3. RuntimeTypeOK'
  BY <1>1 DEF RuntimeTypeOK, Carried, PairingsGo
<1>4. MainInv'
  BY <1>2, MainStays DEF Carried
<1>5. LauncherFits'
  <2>1. \A v \in Sessions \ {w} : Fits(v)'
    BY DEF Carried, LauncherInv, LauncherFits, Fits, Carries
  <2>2. QED BY <2>1 DEF LauncherFits, Carried
<1>6. FlowHeld'
  <2>1. ASSUME NEW v \in Sessions, launcher'[v].step \in FlowSteps, v # w PROVE flow' = v
    BY <1>2, <2>1 DEF LauncherInv, FlowHeld, Carried
  <2>2. QED BY <2>1 DEF FlowHeld, Carried
<1>7. PairingsPast'
  <2>1. ASSUME NEW v \in Sessions PROVE launcher'[v].pairing <= pairing'
    <3>1. launcher'[v].pairing \in {0, launcher[v].pairing}
      BY DEF Carried
    <3>2. launcher[v].pairing <= pairing
      BY DEF LauncherInv, PairingsPast
    <3>3. QED BY <1>1, <3>1, <3>2
  <2>2. QED BY <2>1 DEF PairingsPast
<1>8. Retired'
  <2>1. ASSUME Left("cancelPairing", 3)', NEW v \in Sessions, launcher'[v].step # "idle"
        PROVE  launcher'[v].pairing < pairing'
    <3>1. launcher[v].step # "idle" /\ launcher'[v].pairing = launcher[v].pairing
      BY <2>1 DEF Carried
    <3>2. launcher[v].pairing < pairing
      BY <2>1, <3>1 DEF LauncherInv, Retired, Left, Carried
    <3>3. QED BY <1>1, <3>1, <3>2
  <2>2. ASSUME Left("cancelPairing", 2)', NEW v \in Sessions PROVE launcher'[v].step # "progress"
    <3>1. launcher[v].step # "progress"
      BY <2>2 DEF LauncherInv, Retired, Left, Carried
    <3>2. ASSUME launcher'[v].step = "progress" PROVE FALSE
      <4>1. v = w /\ launcher[w].pairing = pairing /\ launcher[w].step # "idle"
        BY <3>1, <3>2 DEF Carried
      <4>2. Len(cmd.todo) \in Nat
        BY NonEmpty DEF RuntimeTypeOK, CommandState
      <4>3. Left("cancelPairing", 3)
        BY <2>2, <4>2 DEF Left, Carried
      <4>4. QED BY <1>1, <4>1, <4>3 DEF LauncherInv, Retired
    <3>3. QED BY <3>2
  <2>3. QED BY <2>1, <2>2 DEF Retired
<1>9. QED BY <1>3, <1>4, <1>5, <1>6, <1>7, <1>8 DEF LauncherInv

(* The pairing and its outcome, without the session.                         *)
LEMMA Pairings ==
  ASSUME RuntimeTypeOK, LauncherInv, NEW w \in Sessions,
         \/ EnterFlow(w) \/ ReportProgress(w) \/ FlowCancelled(w) \/ FlowFails(w)
         \/ FlowTimesOut(w) \/ (\E t \in Targets : FlowLinks(w, t)) \/ ClaimPairing(w)
         \/ StartDisconnect(w) \/ DropQr(w) \/ SaveDevice(w) \/ RememberDevice(w)
         \/ LifetimeExpires(w)
  PROVE  Carried(w) /\ PairingsGo /\ UNCHANGED vars
<1>1. /\ pairing \in Nat /\ withdrawn \subseteq 0..pairing /\ qr \in 0..pairing
      /\ launcher[w] \in LauncherState /\ launcher[w].pairing \in Nat
      /\ launcher \in [Sessions -> LauncherState]
      /\ stored \in BOOLEAN /\ trusted \in BOOLEAN
  BY DEF RuntimeTypeOK, LauncherState
<1>2. /\ Fits(w) /\ (launcher[w].step \in FlowSteps => flow = w)
      /\ launcher[w].pairing <= pairing
  BY DEF LauncherInv, LauncherFits, FlowHeld, PairingsPast
<1>3. ASSUME EnterFlow(w) PROVE Carried(w) /\ PairingsGo /\ UNCHANGED vars
  <2>1. LauncherGoes(w, "talk") /\ LauncherKeeps(w)
    BY <1>3, GoesOn, LauncherValues DEF EnterFlow
  <2>2. UNCHANGED vars /\ worker' = worker /\ caller' = caller /\ launched' = launched
    BY <1>3 DEF EnterFlow, vars
  <2>3. Fits(w)'
    BY <1>2, <1>3, <2>1, <2>2, LauncherValues
       DEF EnterFlow, Fits, Carries, LauncherGoes, LauncherKeeps
  <2>4. Carried(w)
    BY <1>3, <2>1, <2>2, <2>3 DEF EnterFlow, Carried, LauncherGoes
  <2>5. QED BY <1>1, <1>3, <2>2, <2>4 DEF EnterFlow, PairingsGo
<1>4. ASSUME ReportProgress(w) PROVE Carried(w) /\ PairingsGo /\ UNCHANGED vars
  <2> DEFINE s == IF pairing = launcher[w].pairing THEN "progress" ELSE "pairing"
  <2>1. /\ s \in {"progress", "pairing"} /\ s \in LauncherSteps
        /\ s = "progress" => launcher[w].pairing = pairing
    BY LauncherValues
  <2>2. LGoto(w, s)
    BY <1>4 DEF ReportProgress
  <2> HIDE DEF s
  <2>3. LauncherGoes(w, s) /\ LauncherKeeps(w)
    BY <2>1, <2>2, GoesOn
  <2>4. UNCHANGED vars /\ worker' = worker /\ caller' = caller /\ launched' = launched
    BY <1>4 DEF ReportProgress, vars
  <2>5. Fits(w)'
    BY <1>2, <1>4, <2>1, <2>3, <2>4, LauncherValues
       DEF ReportProgress, Fits, Carries, LauncherGoes, LauncherKeeps
  <2>6. flow' = w
    BY <1>2, <1>4, LauncherValues DEF ReportProgress, pairingVars
  <2>7. Carried(w)
    BY <1>2, <1>4, <2>1, <2>3, <2>4, <2>5, <2>6, LauncherValues
       DEF ReportProgress, Carried, LauncherGoes, pairingVars
  <2>8. QED BY <1>4, <2>4, <2>7, PairingsStay DEF ReportProgress
<1>5. ASSUME NEW o \in Outcomes \ {"None"}, NEW t \in Targets \cup {NoTarget},
             o = "Linked" => t \in Targets, LeaveFlow(w, o, t)
      PROVE  Carried(w) /\ PairingsGo /\ UNCHANGED vars
  <2>1. LauncherGoes(w, "claim") /\ launcher'[w].outcome = o /\ launcher'[w].target = t
    BY <1>5, LeavesFlow
  <2>2. UNCHANGED vars /\ worker' = worker /\ caller' = caller /\ launched' = launched
    BY <1>5 DEF LeaveFlow, vars
  <2>3. launcher[w].step \in {"talk", "pairing"} /\ flow = w
    BY <1>2, <1>5, LauncherValues DEF LeaveFlow
  <2>4. Fits(w)'
    BY <1>2, <1>5, <2>1, <2>2, <2>3 DEF Fits, Carries, LauncherGoes
  <2>5. Carried(w)
    BY <1>5, <2>1, <2>2, <2>3, <2>4, LauncherValues DEF LeaveFlow, Carried, LauncherGoes
  <2>6. QED BY <1>1, <1>5, <2>2, <2>5 DEF LeaveFlow, PairingsGo
<1>6. ASSUME ClaimPairing(w) PROVE Carried(w) /\ PairingsGo /\ UNCHANGED vars
  <2> DEFINE s == IF launcher[w].kind = "reconnect" THEN "report" ELSE "dropQr"
  <2>1. /\ s \in LauncherSteps
        /\ s \in {"report", "dropQr"} /\ (s = "report" <=> launcher[w].kind = "reconnect")
    BY LauncherValues
  <2>2. LGoto(w, s)
    BY <1>6 DEF ClaimPairing
  <2> HIDE DEF s
  <2>3. LauncherGoes(w, s) /\ LauncherKeeps(w)
    BY <2>1, <2>2, GoesOn
  <2>4. UNCHANGED vars /\ worker' = worker /\ caller' = caller /\ launched' = launched
    BY <1>6 DEF ClaimPairing, vars
  <2>5. Fits(w)'
    BY <1>2, <1>6, <2>1, <2>3, <2>4 DEF ClaimPairing, Fits, Carries, LauncherGoes, LauncherKeeps
  <2>6. Carried(w)
    BY <1>6, <2>1, <2>3, <2>4, <2>5, LauncherValues DEF ClaimPairing, Carried, LauncherGoes
  <2>7. withdrawn' \subseteq 0..pairing' /\ qr' \in 0..pairing' /\ pairing' = pairing + 1
    <3>1. /\ pairing' = pairing + 1 /\ qr' = qr
          /\ withdrawn' = withdrawn \cup {launcher[w].pairing}
      BY <1>6 DEF ClaimPairing
    <3>2. launcher[w].pairing \in 0..pairing + 1 /\ 0..pairing \subseteq 0..pairing + 1
      BY <1>1, <1>2
    <3>3. QED BY <1>1, <3>1, <3>2
  <2>8. QED BY <1>1, <1>6, <2>4, <2>6, <2>7 DEF ClaimPairing, PairingsGo
<1>7. ASSUME StartDisconnect(w) PROVE Carried(w) /\ PairingsGo /\ UNCHANGED vars
  <2>1. LauncherGoes(w, "disconnecting") /\ LauncherKeeps(w)
    BY <1>7, GoesOn, LauncherValues DEF StartDisconnect
  <2>2. UNCHANGED vars /\ worker' = worker /\ caller' = caller /\ launched' = launched
    BY <1>7 DEF StartDisconnect, vars
  <2>3. Fits(w)'
    BY <1>2, <1>7, <2>1, <2>2 DEF StartDisconnect, Fits, Carries, LauncherGoes, LauncherKeeps
  <2>4. Carried(w)
    BY <1>7, <2>1, <2>2, <2>3 DEF StartDisconnect, Carried, LauncherGoes
  <2>5. QED BY <1>1, <1>7, <2>2, <2>4 DEF StartDisconnect, PairingsGo
<1>8. ASSUME DropQr(w) PROVE Carried(w) /\ PairingsGo /\ UNCHANGED vars
  <2> DEFINE s == IF launcher[w].outcome = "Linked" THEN "save" ELSE "report"
  <2>1. /\ s \in LauncherSteps
        /\ s \in {"save", "report"} /\ (s = "save" <=> launcher[w].outcome = "Linked")
    BY LauncherValues
  <2>2. LGoto(w, s)
    BY <1>8 DEF DropQr
  <2> HIDE DEF s
  <2>3. LauncherGoes(w, s) /\ LauncherKeeps(w)
    BY <2>1, <2>2, GoesOn
  <2>4. UNCHANGED vars /\ worker' = worker /\ caller' = caller /\ launched' = launched
    BY <1>8 DEF DropQr, vars
  <2>5. Fits(w)'
    BY <1>2, <1>8, <2>1, <2>3, <2>4 DEF DropQr, Fits, Carries, LauncherGoes, LauncherKeeps
  <2>6. Carried(w)
    BY <1>8, <2>1, <2>3, <2>4, <2>5, LauncherValues DEF DropQr, Carried, LauncherGoes
  <2>7. QED BY <1>1, <1>8, <2>4, <2>6 DEF DropQr, PairingsGo
<1>9. ASSUME SaveDevice(w) PROVE Carried(w) /\ PairingsGo /\ UNCHANGED vars
  <2>1. UNCHANGED vars /\ worker' = worker /\ caller' = caller /\ launched' = launched
    BY <1>9 DEF SaveDevice, vars
  <2>2. PairingsGo
    BY <1>1, <1>9 DEF SaveDevice, PairingsGo
  <2>3. ASSUME LGoto(w, "remember") PROVE Carried(w)
    <3>1. LauncherGoes(w, "remember") /\ LauncherKeeps(w)
      BY <2>3, GoesOn, LauncherValues
    <3>2. Fits(w)'
      BY <1>2, <1>9, <2>1, <3>1 DEF SaveDevice, Fits, Carries, LauncherGoes, LauncherKeeps
    <3>3. QED BY <1>9, <2>1, <3>1, <3>2, LauncherValues DEF SaveDevice, Carried, LauncherGoes
  <2>4. ASSUME launcher' = [launcher EXCEPT ![w].step = "report", ![w].outcome = "Failure"]
        PROVE  Carried(w)
    <3>1. LauncherGoes(w, "report") /\ launcher'[w].outcome = "Failure"
      BY <2>4, SaveFails
    <3>2. Fits(w)'
      BY <1>2, <1>9, <2>1, <3>1 DEF SaveDevice, Fits, Carries, LauncherGoes
    <3>3. QED BY <1>9, <2>1, <3>1, <3>2, LauncherValues DEF SaveDevice, Carried, LauncherGoes
  <2>5. QED BY <1>9, <2>1, <2>2, <2>3, <2>4 DEF SaveDevice
<1>10. ASSUME RememberDevice(w) PROVE Carried(w) /\ PairingsGo /\ UNCHANGED vars
  <2>1. LauncherGoes(w, "advance") /\ LauncherKeeps(w)
    BY <1>10, GoesOn, LauncherValues DEF RememberDevice
  <2>2. UNCHANGED vars /\ worker' = worker /\ caller' = caller /\ launched' = launched
    BY <1>10 DEF RememberDevice, vars
  <2>3. Fits(w)'
    BY <1>2, <1>10, <2>1, <2>2 DEF RememberDevice, Fits, Carries, LauncherGoes, LauncherKeeps
  <2>4. Carried(w)
    BY <1>10, <2>1, <2>2, <2>3, LauncherValues DEF RememberDevice, Carried, LauncherGoes
  <2>5. QED BY <1>1, <1>10, <2>2, <2>4 DEF RememberDevice, PairingsGo
<1>11. ASSUME LifetimeExpires(w) PROVE Carried(w) /\ PairingsGo /\ UNCHANGED vars
  <2>1. UNCHANGED vars /\ worker' = worker /\ caller' = caller /\ launched' = launched
    BY <1>11 DEF LifetimeExpires, vars
  <2>2. launcher' = launcher /\ flow' = flow /\ cmd' = cmd /\ received' = received
    BY <1>11 DEF LifetimeExpires
  <2>3. Fits(w)'
    BY <1>2, <2>1, <2>2 DEF Fits, Carries
  <2>4. Carried(w)
    BY <1>1, <1>2, <2>1, <2>2, <2>3 DEF Carried
  <2>5. QED BY <1>1, <1>11, <2>1, <2>4 DEF LifetimeExpires, PairingsGo
<1>12. QED
  <2>1. CASE FlowCancelled(w)
    BY <1>5, <2>1, LauncherValues DEF FlowCancelled
  <2>2. CASE FlowFails(w)
    BY <1>5, <2>2, LauncherValues DEF FlowFails
  <2>3. CASE FlowTimesOut(w)
    BY <1>5, <2>3, LauncherValues DEF FlowTimesOut
  <2>4. ASSUME NEW t \in Targets, FlowLinks(w, t)
        PROVE  Carried(w) /\ PairingsGo /\ UNCHANGED vars
    BY <1>5, <2>4, LauncherValues DEF FlowLinks
  <2>5. QED
    BY <1>3, <1>4, <1>6, <1>7, <1>8, <1>9, <1>10, <1>11, <2>1, <2>2, <2>3, <2>4

-----------------------------------------------------------------------------
(* What a worker's step may do to the session events that are to come.       *)
GoesAhead(w) ==
  /\ \A v \in Sessions \ {w} : worker'[v] = worker[v]
  /\ GenerationGoesOn /\ token' = token /\ cancelled \subseteq cancelled' /\ caller' = caller
  /\ worker'[w].step = "idle" \/
       (worker[w].step # "idle" /\ worker'[w].token = worker[w].token)
  /\ worker'[w].current <= generation'
  /\ worker'[w].step \in AdmittedSteps =>
       \/ worker[w].step \in AdmittedSteps /\ worker'[w].current = worker[w].current
       \/ worker'[w].current >= generation
  /\ Pending(w)' =>
       \/ Pending(w) /\ worker'[w].current = worker[w].current
       \/ worker'[w].current = generation + 1
  /\ Announcing'

(* A step of one worker that announces nothing keeps the log's invariant.    *)
LEMMA LogFollows ==
  ASSUME TypeOK, LogInv, TypeOK', NEW w \in Sessions, GoesAhead(w), Logged, cmd' = cmd,
         \A v \in Sessions \ {w} : launcher'[v] = launcher[v]
  PROVE  LogInv'
<1>1. \A g : Starting(g)' <=> Starting(g)
  BY StartingStays
<1>2. ~Starting(generation + 1)
  BY NotReached DEF LogInv, AnnounceInv
<1>3. GenerationGoesOn /\ Announcing'
  BY DEF GoesAhead
<1>4. Admissions
  BY DEF GoesAhead, Admissions
<1>5. OnePerToken'
  <2>1. \A v \in Sessions : worker'[v].step # "idle" /\ worker'[v].token = token' =>
          worker[v].step # "idle" /\ worker[v].token = token
    BY DEF GoesAhead
  <2>2. QED BY <2>1 DEF OnePerToken, LogInv, AnnounceInv
<1>10. CurrentsKnown'
  <2>1. /\ generation \in Nat /\ generation' \in Nat /\ generation <= generation'
        /\ caller.generation \in Nat
        /\ \A v \in Sessions : worker[v].current \in Nat
    BY <1>3, Onward, WorkerFields DEF TypeOK, CallerState
  <2>2. ASSUME NEW v \in Sessions PROVE worker'[v].current <= generation'
    <3>1. CASE v = w
      BY <3>1 DEF GoesAhead
    <3>2. CASE v # w
      <4>1. worker'[v] = worker[v] /\ worker[v].current <= generation
        BY <3>2 DEF GoesAhead, LogInv, AnnounceInv, CurrentsKnown
      <4>2. QED BY <2>1, <4>1
    <3>3. QED BY <3>1, <3>2
  <2>3. caller' = caller /\ caller.generation <= generation
    BY DEF GoesAhead, LogInv, AnnounceInv, CurrentsKnown
  <2>4. QED BY <2>1, <2>2, <2>3 DEF CurrentsKnown
<1>6. ASSUME NEW v \in Sessions, Pending(v)', worker'[v].token \notin cancelled'
      PROVE  ~Starting(worker'[v].current)
  <2>1. CASE v # w
    <3>1. Pending(v) /\ worker'[v] = worker[v] /\ worker[v].token \notin cancelled
      BY <1>6, <2>1 DEF GoesAhead, Pending
    <3>2. QED BY <3>1 DEF LogInv, AnnounceInv, Unannounced
  <2>2. CASE v = w
    <3>1. worker'[w].step # "idle"
      BY <1>6, <2>2 DEF Pending, PendingSteps
    <3>2. worker[w].token \notin cancelled
      BY <1>6, <2>2, <3>1 DEF GoesAhead
    <3>3. CASE worker'[w].current = generation + 1
      BY <1>2, <2>2, <3>3
    <3>4. CASE Pending(w) /\ worker'[w].current = worker[w].current
      BY <2>2, <3>2, <3>4 DEF LogInv, AnnounceInv, Unannounced
    <3>5. QED BY <1>6, <2>2, <3>3, <3>4 DEF GoesAhead
  <2>3. QED BY <2>1, <2>2
<1>7. caller'.step # "idle" /\ (caller'.target # NoTarget \/ caller'.step = "restart") =>
        ~Starting(caller'.generation)
  BY DEF GoesAhead, LogInv, AnnounceInv, CallerFresh
<1>8. (Left("reconnect", 4) /\ cmd.todo # <<>>)' => ~Starting(generation')
  <2>1. SUFFICES ASSUME Left("reconnect", 4) /\ cmd.todo # <<>> PROVE ~Starting(generation')
    BY DEF Left
  <2>2. ~Starting(generation)
    BY <2>1 DEF LogInv, AnnounceInv, ReconnectFresh
  <2>3. QED BY <1>2, <1>3, <2>2 DEF GenerationGoesOn
<1>9. QED BY <1>3, <1>4, <1>5, <1>6, <1>7, <1>8, <1>10, LogMoves

(* A launched worker that leaves its closure alone.                          *)
LEMMA LeavesClosure ==
  ASSUME TypeOK, LogInv, NEW w \in Sessions, Carried(w), UNCHANGED quiet
  PROVE  GoesAhead(w)
<1>1. /\ worker' = worker /\ generation' = generation /\ token' = token
      /\ cancelled' = cancelled /\ caller' = caller
  BY DEF quiet, cells
<1>2. ASSUME Pending(w)' PROVE Pending(w)
  <2>1. CASE worker[w].step = "armed"
    <3>1. launcher'[w].step # "idle"
      BY <1>1, <2>1, StepSets DEF Carried, Fits, Carries
    <3>2. launcher'[w].kind = launcher[w].kind
      BY <3>1 DEF Carried
    <3>3. QED BY <1>1, <1>2, <3>2 DEF Pending
  <2>2. CASE worker[w].step # "armed"
    BY <1>1, <1>2, <2>2 DEF Pending
  <2>3. QED BY <2>1, <2>2
<1>3. Announcing'
  BY <1>1 DEF LogInv, AnnounceInv, Announcing
<1>4. worker'[w].current <= generation'
  BY <1>1 DEF LogInv, AnnounceInv, CurrentsKnown
<1>5. worker'[w].step # "idle" => worker[w].step # "idle"
  BY <1>1
<1>6. QED BY <1>1, <1>2, <1>3, <1>4, <1>5 DEF GoesAhead, GenerationGoesOn

(* An event that says nothing of a session.                                  *)
Told ==
  \E type \in EventTypes \ ({"SessionStarting", "SessionStarted"} \cup EndingReplies), g \in Nat :
    Emit(Event(type, g))
(* A step that writes an event no session writes logs nothing the invariant
   counts.                                                                   *)
LEMMA ToldLogged == ASSUME TypeOK, Told PROVE Logged /\ sent' \in Seq(EventSet)
<1>1. PICK type \in EventTypes \ ({"SessionStarting", "SessionStarted"} \cup EndingReplies),
           g \in Nat : Emit(Event(type, g))
  BY DEF Told
<1>2. sent' \in Seq(EventSet) /\ Event(type, g) \in EventSet
  BY <1>1, Written
<1>3. Plain(Event(type, g))
  BY <1>1, <1>2 DEF Plain, Event
<1>4. QED BY <1>1, <1>2, <1>3 DEF Logged, Emit

(* The event types that neither announce a session nor end one.              *)
LEMMA SaysNothing ==
  {"Pairing", "Connected", "Paired", "Failure", "QrTimedOut", "PairingCancelled",
   "ReconnectFailed", "Refused", "QrWaiting", "ManualCodeRequired", "PreferencesUpdated",
   "PreferencesRestarted", "ScrcpyArgsUpdated", "ScrcpyArgsRestarted", "ScrcpyArgsStale",
   "StaleSession"}
    \subseteq EventTypes \ ({"SessionStarting", "SessionStarted"} \cup EndingReplies)
BY DEF EventTypes, EndingReplies

(* What a launched worker tells.                                             *)
LEMMA Tellings ==
  ASSUME RuntimeTypeOK, LauncherInv, NEW w \in Sessions,
         TellProgress(w) \/ ReportLinked(w) \/ TellFailure(w)
  PROVE  Carried(w) /\ PairingsGo /\ UNCHANGED quiet /\ Told
<1>1. launcher[w] \in LauncherState /\ launcher[w].told \in Nat /\ worker[w].current \in Nat
  BY WorkerFields DEF RuntimeTypeOK, LauncherState
<1>2. Fits(w) /\ (launcher[w].step \in FlowSteps => flow = w)
  BY DEF LauncherInv, LauncherFits, FlowHeld
<1>3. ASSUME TellProgress(w) PROVE Carried(w) /\ PairingsGo /\ UNCHANGED quiet /\ Told
  <2>1. LauncherGoes(w, "pairing") /\ LauncherKeeps(w)
    BY <1>3, GoesOn, LauncherValues DEF TellProgress
  <2>2. UNCHANGED quiet /\ worker' = worker /\ caller' = caller /\ launched' = launched
    BY <1>3 DEF TellProgress, quiet
  <2>3. flow = w /\ flow' = flow
    BY <1>2, <1>3, LauncherValues DEF TellProgress, pairingVars
  <2>4. Fits(w)'
    BY <1>2, <1>3, <2>1, <2>2, LauncherValues
       DEF TellProgress, Fits, Carries, LauncherGoes, LauncherKeeps
  <2>5. Carried(w)
    BY <1>3, <2>1, <2>2, <2>3, <2>4, LauncherValues DEF TellProgress, Carried, LauncherGoes
  <2>6. Told
    BY <1>3, SaysNothing DEF TellProgress, Told
  <2>7. QED BY <1>3, <2>2, <2>5, <2>6, PairingsStay DEF TellProgress
<1>4. ASSUME ReportLinked(w) PROVE Carried(w) /\ PairingsGo /\ UNCHANGED quiet /\ Told
  <2>1. LauncherGoes(w, "start") /\ LauncherKeeps(w)
    BY <1>4, GoesOn, LauncherValues DEF ReportLinked
  <2>2. UNCHANGED quiet /\ worker' = worker /\ caller' = caller /\ launched' = launched
    BY <1>4 DEF ReportLinked, quiet
  <2>3. flow' = flow
    BY <1>4 DEF ReportLinked, pairingVars
  <2>4. Fits(w)'
    BY <1>2, <1>4, <2>1, <2>2, LauncherValues
       DEF ReportLinked, Fits, Carries, LauncherGoes, LauncherKeeps
  <2>5. Carried(w)
    BY <1>4, <2>1, <2>2, <2>3, <2>4, LauncherValues DEF ReportLinked, Carried, LauncherGoes
  <2>6. Told
    <3> DEFINE type == IF launcher[w].kind = "reconnect" THEN "Connected" ELSE "Paired"
    <3>1. Emit(Event(type, worker[w].current))
      BY <1>4 DEF ReportLinked
    <3>2. type \in {"Connected", "Paired"}
      OBVIOUS
    <3> HIDE DEF type
    <3>3. QED BY <1>1, <3>1, <3>2, SaysNothing DEF Told
  <2>7. QED BY <1>4, <2>2, <2>5, <2>6, PairingsStay DEF ReportLinked
<1>5. ASSUME TellFailure(w) PROVE Carried(w) /\ PairingsGo /\ UNCHANGED quiet /\ Told
  <2>1. LauncherGone(w)
    BY <1>5, IsGone DEF TellFailure
  <2>2. UNCHANGED quiet /\ worker' = worker /\ caller' = caller /\ launched' = launched
    BY <1>5 DEF TellFailure, quiet
  <2>3. flow' = flow
    BY <1>5 DEF TellFailure, pairingVars
  <2>4. Fits(w)'
    BY <1>2, <1>5, <2>1, <2>2, LauncherValues DEF TellFailure, Fits, Carries, LauncherGone
  <2>5. Carried(w)
    BY <1>5, <2>1, <2>2, <2>3, <2>4, LauncherValues DEF TellFailure, Carried, LauncherGone
  <2>6. Told
    BY <1>1, <1>5, SaysNothing DEF TellFailure, Told
  <2>7. QED BY <1>5, <2>2, <2>5, <2>6, PairingsStay DEF TellFailure
<1>6. QED BY <1>3, <1>4, <1>5

-----------------------------------------------------------------------------
(* A closure is called, dropped, or given another generation.                *)

(* What a closure does to its session worker is what the log's invariant
   allows.                                                                   *)
LEMMA ClosureFollows ==
  ASSUME TypeOK, LogInv, NEW w \in Sessions, ClosureAlone(w), GenerationGoesOn,
         worker'[w].current \in {0, worker[w].current, generation'},
         \/ worker'[w].step = "idle"
         \/ /\ worker[w].step # "idle" /\ worker'[w].token = worker[w].token
            /\ worker'[w].step \in {"advanced", "spawned"}
            /\ \/ Pending(w) /\ worker'[w].current = worker[w].current
               \/ worker'[w].current = generation + 1
  PROVE  GoesAhead(w)
<1>1. worker'[w].step \notin TransitionSteps \cup AdmittedSteps
  BY StepSets
<1>2. Announcing'
  BY <1>1 DEF ClosureAlone, LogInv, AnnounceInv, Announcing
<1>3. worker'[w].step = "idle" => ~Pending(w)'
  BY DEF Pending, PendingSteps
<1>4. worker'[w].current <= generation'
  <2>1. /\ worker[w].current <= generation /\ worker[w].current \in Nat /\ generation \in Nat
        /\ generation' \in Nat /\ generation <= generation'
    BY Onward, WorkerFields DEF LogInv, AnnounceInv, CurrentsKnown, TypeOK
  <2>2. QED BY <2>1
<1>5. QED BY <1>1, <1>2, <1>3, <1>4 DEF GoesAhead, ClosureAlone

(* A worker that drops its closure keeps all invariants.                     *)
LEMMA Dropped ==
  ASSUME RuntimeTypeOK, SafetyInv, LauncherInv, LogInv, NEW w \in Sessions,
         Discard(w) \/ AdvanceFailed(w),
         LauncherGone(w) \/ (LauncherGoes(w, "tell") /\ LauncherKeeps(w)),
         launcher[w].step # "idle",
         cmd' = cmd, received' = received,
         flow' = flow \/ (flow \in {Nobody, w} /\ flow' \in {Nobody, w})
  PROVE  Carried(w) /\ GoesAhead(w) /\ Logged /\ SafetyInv'
<1>1. TypeOK /\ worker[w].step \in ArmedSteps
  BY ClosureDropped DEF RuntimeTypeOK
<1>2. /\ ClosureAlone(w) /\ worker'[w].step = "idle" /\ worker'[w].current = 0
      /\ sent' = sent
      /\ generation' = generation \/ generation' = generation + 1
  BY ClosureDropped DEF RuntimeTypeOK
<1>3. Fits(w)'
  <2>1. Fits(w)
    BY DEF LauncherInv, LauncherFits
  <2>2. worker'[w].step \notin ArmedSteps
    BY <1>2, StepSets
  <2>3. CASE LauncherGone(w)
    BY <2>2, <2>3 DEF Fits, Carries, LauncherGone
  <2>4. CASE LauncherGoes(w, "tell") /\ LauncherKeeps(w)
    BY <2>1, <2>2, <2>4 DEF Fits, Carries, LauncherGoes, LauncherKeeps
  <2>5. QED BY <2>3, <2>4
<1>4. Carried(w)
  <2>1. CASE LauncherGone(w)
    BY <1>2, <1>3, <2>1, LauncherValues DEF Carried, LauncherGone, ClosureAlone
  <2>2. CASE LauncherGoes(w, "tell")
    BY <1>2, <1>3, <2>2, LauncherValues DEF Carried, LauncherGoes, ClosureAlone
  <2>3. QED BY <2>1, <2>2
<1>5. GoesAhead(w)
  BY <1>1, <1>2, ClosureFollows DEF GenerationGoesOn
<1>6. SafetyInv'
  BY SafetyClosures
<1>7. QED BY <1>2, <1>4, <1>5, <1>6 DEF Logged

(* Every step of a worker that touches its closure keeps all invariants.     *)
LEMMA Closures ==
  ASSUME RuntimeTypeOK, SafetyInv, LauncherInv, LogInv, NEW w \in Sessions,
         \/ LosePairing(w) \/ Disconnected(w) \/ AdvanceGeneration(w) \/ StartSession(w)
         \/ FailReconnect(w) \/ DropReconnect(w) \/ ReportPairingOver(w)
  PROVE  Carried(w) /\ PairingsGo /\ GoesAhead(w) /\ Logged /\ SafetyInv'
<1>1. /\ TypeOK /\ Fits(w) /\ (launcher[w].step \in FlowSteps => flow = w)
      /\ launcher[w] \in LauncherState
  BY DEF LauncherInv, LauncherFits, FlowHeld, RuntimeTypeOK
<1>2. ASSUME LosePairing(w) PROVE Carried(w) /\ PairingsGo /\ GoesAhead(w) /\ Logged /\ SafetyInv'
  <2>0. flow' = flow /\ cmd' = cmd /\ received' = received /\ PairingsGo
    BY <1>2, PairingsStay DEF LosePairing, pairingVars
  <2>1. CASE LGoto(w, "disconnect") /\ UNCHANGED vars /\ launcher[w].kind # "reconnect"
    <3>1. LauncherGoes(w, "disconnect") /\ LauncherKeeps(w)
      BY <2>1, GoesOn, LauncherValues
    <3>2. /\ UNCHANGED quiet /\ worker' = worker /\ caller' = caller /\ launched' = launched
          /\ sent' = sent
      BY <2>1 DEF vars, quiet
    <3>3. Fits(w)'
      BY <1>1, <1>2, <2>1, <3>1, <3>2
         DEF LosePairing, Fits, Carries, LauncherGoes, LauncherKeeps
    <3>4. Carried(w)
      BY <1>2, <2>0, <3>1, <3>2, <3>3, LauncherValues DEF LosePairing, Carried, LauncherGoes
    <3>5. GoesAhead(w)
      BY <1>1, <3>2, <3>4, LeavesClosure
    <3>6. QED BY <2>0, <2>1, <3>2, <3>4, <3>5, SafetyUnmoved DEF Logged
  <2>2. CASE LFinish(w) /\ Discard(w)
    <3>1. LauncherGone(w)
      BY <2>2, IsGone
    <3>2. launcher[w].step # "idle"
      BY <1>2 DEF LosePairing
    <3>3. QED BY <2>0, <2>2, <3>1, <3>2, Dropped
  <2>3. QED BY <1>2, <2>1, <2>2 DEF LosePairing
<1>3. ASSUME Disconnected(w) PROVE Carried(w) /\ PairingsGo /\ GoesAhead(w) /\ Logged /\ SafetyInv'
  <2>1. LauncherGone(w) /\ Discard(w) /\ launcher[w].step # "idle"
    BY <1>3, IsGone DEF Disconnected
  <2>2. flow = w /\ flow' = Nobody /\ cmd' = cmd /\ received' = received
    BY <1>1, <1>3, LauncherValues DEF Disconnected
  <2>3. PairingsGo
    BY <1>3 DEF Disconnected, PairingsGo, RuntimeTypeOK
  <2>4. QED BY <2>1, <2>2, <2>3, Dropped
<1>4. ASSUME AdvanceGeneration(w)
      PROVE  Carried(w) /\ PairingsGo /\ GoesAhead(w) /\ Logged /\ SafetyInv'
  <2>0. flow' = flow /\ cmd' = cmd /\ received' = received /\ PairingsGo /\ Advance(w)
    BY <1>4, PairingsStay DEF AdvanceGeneration, pairingVars
  <2>1. LauncherGoes(w, "report") /\ LauncherKeeps(w)
    BY <1>4, GoesOn, LauncherValues DEF AdvanceGeneration, LGoto
  <2>2. /\ ClosureAlone(w) /\ worker[w].step = "armed" /\ worker'[w].step = "advanced"
        /\ worker'[w].token = worker[w].token /\ worker'[w].current = generation + 1
        /\ sent' = sent /\ generation' = generation + 1
    BY <1>1, <2>0, ClosureAdvanced
  <2>3. Fits(w)'
    BY <1>1, <1>4, <2>1, <2>2, StepSets
       DEF AdvanceGeneration, Fits, Carries, LauncherGoes, LauncherKeeps
  <2>4. Carried(w)
    BY <1>4, <2>0, <2>1, <2>2, <2>3, LauncherValues
       DEF AdvanceGeneration, Carried, LauncherGoes, ClosureAlone
  <2>5. GoesAhead(w)
    BY <1>1, <2>2, ClosureFollows DEF GenerationGoesOn
  <2>6. SafetyInv'
    BY <2>0, SafetyClosures
  <2>7. QED BY <2>0, <2>2, <2>4, <2>5, <2>6 DEF Logged
<1>5. ASSUME StartSession(w) PROVE Carried(w) /\ PairingsGo /\ GoesAhead(w) /\ Logged /\ SafetyInv'
  <2>0. flow' = flow /\ cmd' = cmd /\ received' = received /\ PairingsGo
    BY <1>5, PairingsStay DEF StartSession, pairingVars
  <2>1. LauncherGone(w) /\ launcher[w].step = "start"
    BY <1>5, IsGone DEF StartSession
  <2>2. PICK t \in Targets : Spawn(w, t)
    BY <1>1, <1>5 DEF StartSession, Fits
  <2>3. /\ ClosureAlone(w) /\ worker[w].step \in ArmedSteps /\ worker'[w].step = "spawned"
        /\ worker'[w].token = worker[w].token /\ worker'[w].current = worker[w].current
        /\ sent' = sent /\ generation' = generation
    BY <1>1, <2>2, ClosureCalled
  <2>4. Pending(w) /\ worker[w].step # "idle"
    BY <1>1, <2>1, <2>3, StepSets DEF Fits, Pending, PendingSteps
  <2>5. Fits(w)'
    BY <2>1, <2>3, StepSets DEF Fits, Carries, LauncherGone
  <2>6. Carried(w)
    BY <2>0, <2>1, <2>3, <2>5, LauncherValues DEF Carried, LauncherGone, ClosureAlone
  <2>7. GoesAhead(w)
    BY <1>1, <2>3, <2>4, ClosureFollows DEF GenerationGoesOn
  <2>8. SafetyInv'
    BY <2>2, SafetyClosures
  <2>9. QED BY <2>0, <2>3, <2>6, <2>7, <2>8 DEF Logged
<1>6. ASSUME FailReconnect(w) PROVE Carried(w) /\ PairingsGo /\ GoesAhead(w) /\ Logged /\ SafetyInv'
  <2>0. flow' = flow /\ cmd' = cmd /\ received' = received /\ PairingsGo
    BY <1>6, PairingsStay DEF FailReconnect, pairingVars
  <2>1. LauncherGoes(w, "tell") /\ LauncherKeeps(w) /\ AdvanceFailed(w)
    BY <1>6, FailureToTell DEF FailReconnect
  <2>2. launcher[w].step # "idle"
    BY <1>6 DEF FailReconnect
  <2>3. QED BY <2>0, <2>1, <2>2, Dropped
<1>7. ASSUME DropReconnect(w) PROVE Carried(w) /\ PairingsGo /\ GoesAhead(w) /\ Logged /\ SafetyInv'
  <2>0. flow' = flow /\ cmd' = cmd /\ received' = received /\ PairingsGo
    BY <1>7, PairingsStay DEF DropReconnect, pairingVars
  <2>1. LauncherGone(w) /\ Discard(w) /\ launcher[w].step # "idle"
    BY <1>7, IsGone DEF DropReconnect
  <2>2. QED BY <2>0, <2>1, Dropped
<1>8. ASSUME ReportPairingOver(w)
      PROVE  Carried(w) /\ PairingsGo /\ GoesAhead(w) /\ Logged /\ SafetyInv'
  <2>0. flow' = flow /\ cmd' = cmd /\ received' = received /\ PairingsGo
    BY <1>8, PairingsStay DEF ReportPairingOver, pairingVars
  <2>1. LauncherGone(w) /\ launcher[w].step = "report" /\ Finish(w)
    BY <1>8, IsGone DEF ReportPairingOver
  <2>2. Told
    <3>1. launcher[w].outcome \in {"Failure", "TimedOut", "Cancelled"}
      BY <1>1, <1>8, LauncherValues DEF ReportPairingOver, Fits, LauncherState
    <3>2. PairingOver[launcher[w].outcome] \in {"Failure", "QrTimedOut", "PairingCancelled"}
      BY <3>1 DEF PairingOver
    <3>3. QED BY <1>8, <3>2, SaysNothing DEF ReportPairingOver, Told
  <2>3. worker[w].step \in ArmedSteps
    BY <1>1, <2>1 DEF Fits, Carries
  <2>4. /\ ClosureAlone(w) /\ worker'[w].step = "idle" /\ worker'[w].current = 0
        /\ generation' = generation
    BY <1>1, <1>8, <2>1 DEF ReportPairingOver, TypeOK, Finish, IdleWorker, ClosureAlone, cells
  <2>5. Fits(w)'
    BY <2>1, <2>4, StepSets DEF Fits, Carries, LauncherGone
  <2>6. Carried(w)
    BY <2>0, <2>1, <2>4, <2>5, LauncherValues DEF Carried, LauncherGone, ClosureAlone
  <2>7. GoesAhead(w)
    BY <1>1, <2>4, ClosureFollows DEF GenerationGoesOn
  <2>8. Logged /\ sent' \in Seq(EventSet)
    BY <1>1, <2>2, ToldLogged
  <2>9. SafetyInv'
    BY <1>8, <2>1, <2>3, <2>8, SafetyReportsOver DEF ReportPairingOver
  <2>10. QED BY <2>0, <2>6, <2>7, <2>8, <2>9
<1>9. QED BY <1>2, <1>3, <1>4, <1>5, <1>6, <1>7, <1>8

(* Every step of a launched worker and its phone.                            *)
LEMMA LauncherStepInv ==
  ASSUME RuntimeInv, NEW w \in Sessions, LauncherStep(w) \/ PhoneStep(w) \/ LifetimeExpires(w)
  PROVE  RuntimeInv'
<1>0. RuntimeTypeOK /\ TypeOK /\ SafetyInv /\ MainInv /\ LauncherInv /\ LogInv
  BY DEF RuntimeInv, RuntimeTypeOK
<1>1. ASSUME Carried(w), PairingsGo, GoesAhead(w), Logged, SafetyInv' PROVE RuntimeInv'
  <2>1. TypeOK'
    BY <1>1 DEF SafetyInv
  <2>2. RuntimeTypeOK' /\ MainInv' /\ LauncherInv'
    BY <1>0, <1>1, <2>1, CarriedOn
  <2>3. cmd' = cmd /\ \A v \in Sessions \ {w} : launcher'[v] = launcher[v]
    BY <1>1 DEF Carried
  <2>4. LogInv'
    BY <1>0, <1>1, <2>1, <2>3, LogFollows
  <2>5. QED BY <1>1, <2>2, <2>4 DEF RuntimeInv
<1>2. CASE \/ EnterFlow(w) \/ ReportProgress(w) \/ FlowCancelled(w) \/ FlowFails(w)
           \/ FlowTimesOut(w) \/ (\E t \in Targets : FlowLinks(w, t)) \/ ClaimPairing(w)
           \/ StartDisconnect(w) \/ DropQr(w) \/ SaveDevice(w) \/ RememberDevice(w)
           \/ LifetimeExpires(w)
  <2>1. Carried(w) /\ PairingsGo /\ UNCHANGED vars
    BY <1>0, <1>2, Pairings
  <2>2. UNCHANGED quiet /\ sent' = sent
    BY <2>1 DEF vars, quiet
  <2>3. GoesAhead(w)
    BY <1>0, <2>1, <2>2, LeavesClosure
  <2>4. QED BY <1>0, <1>1, <2>1, <2>2, <2>3, SafetyUnmoved DEF Logged
<1>3. CASE TellProgress(w) \/ ReportLinked(w) \/ TellFailure(w)
  <2>1. Carried(w) /\ PairingsGo /\ UNCHANGED quiet /\ Told
    BY <1>0, <1>3, Tellings
  <2>2. Logged /\ sent' \in Seq(EventSet)
    BY <1>0, <2>1, ToldLogged
  <2>3. GoesAhead(w)
    BY <1>0, <2>1, LeavesClosure
  <2>4. SafetyInv'
    BY <1>0, <2>1, <2>2, SafetyStays
  <2>5. QED BY <1>1, <2>1, <2>2, <2>3, <2>4
<1>4. CASE \/ LosePairing(w) \/ Disconnected(w) \/ AdvanceGeneration(w) \/ StartSession(w)
           \/ FailReconnect(w) \/ DropReconnect(w) \/ ReportPairingOver(w)
  <2>1. Carried(w) /\ PairingsGo /\ GoesAhead(w) /\ Logged /\ SafetyInv'
    BY <1>0, <1>4, Closures
  <2>2. QED BY <1>1, <2>1
<1>5. QED BY <1>2, <1>3, <1>4 DEF LauncherStep, PhoneStep

-----------------------------------------------------------------------------
(* The session workers.                                                      *)

(* A step of a session worker that announces nothing.                        *)
LEMMA WorkerQuiet ==
  ASSUME TypeOK, NEW w \in Sessions, WorkerStep(w) \/ ScrcpyStep(w),
         worker[w].step \notin TransitionSteps
  PROVE  /\ worker[w].step \notin ArmedSteps /\ worker'[w].step \notin ArmedSteps
         /\ worker'[w].step \in AdmittedSteps =>
              \/ worker[w].step \in AdmittedSteps /\ worker'[w].current = worker[w].current
              \/ worker'[w].current \in {generation, generation + 1}
         /\ worker'[w].step \in PendingSteps =>
              \/ worker[w].step \in PendingSteps /\ worker'[w].current = worker[w].current
              \/ worker'[w].current = generation + 1
         /\ cancelled' = cancelled \/ transition = Nobody
         /\ worker'[w].step \in TransitionSteps =>
              worker[w].token \notin cancelled /\ cancelled' = cancelled
         /\ worker'[w].current \in {0, worker[w].current, generation'}
         /\ sent' = sent \/ ConfirmStarted(w) \/ ReportEnd(w)
<1> USE StepSets
    DEF TypeOK, WorkerState, Current, cells, locks, Goto, Finish, Exit, IdleWorker, PendingSteps
<1>1. CASE ScrcpyStep(w)
  <2>1. CASE CaptureReady(w)
    BY <2>1 DEF CaptureReady
  <2>2. CASE RunUnavailable(w)
    BY <2>2 DEF RunUnavailable
  <2>3. ASSUME NEW r \in {"Ended", "Disconnected"}, ScrcpyExits(w, r)
        PROVE  /\ worker[w].step \in {"starting", "live"} /\ worker'[w].step = "exited"
               /\ worker'[w].current = worker[w].current /\ cancelled' = cancelled
               /\ sent' = sent
    BY <2>3 DEF ScrcpyExits
  <2>4. QED BY <1>1, <2>1, <2>2, <2>3 DEF ScrcpyStep
<1>2. CASE SpawnStale(w) BY <1>2 DEF SpawnStale
<1>3. CASE SpawnCurrent(w) BY <1>3 DEF SpawnCurrent
<1>4. CASE LockRunner(w) BY <1>4 DEF LockRunner
<1>5. CASE SetTarget(w) BY <1>5 DEF SetTarget
<1>6. CASE RefuseStart(w) BY <1>6 DEF RefuseStart
<1>7. CASE AdmitStart(w) BY <1>7 DEF AdmitStart
<1>8. CASE Announce(w) BY <1>8 DEF Announce
<1>9. CASE RunScrcpy(w) BY <1>9 DEF RunScrcpy
<1>10. CASE RunStopped(w) BY <1>10 DEF RunStopped
<1>11. CASE ConfirmStarted(w)
  <2>1. /\ worker[w].step = "confirm" /\ worker'[w].step = "live"
        /\ worker'[w].current = worker[w].current /\ cancelled' = cancelled
    BY <1>11 DEF ConfirmStarted
  <2>2. QED BY ONLY <1>11, <2>1, StepSets DEF PendingSteps
<1>12. CASE StartDeadline(w) BY <1>12 DEF StartDeadline
<1>13. CASE ExitSuperseded(w) BY <1>13 DEF ExitSuperseded
<1>14. CASE ClaimRetry(w) BY <1>14 DEF ClaimRetry, MayRetry
<1>15. CASE KeepResult(w) BY <1>15 DEF KeepResult
<1>16. CASE EndSilently(w) BY <1>16 DEF EndSilently
<1>17. CASE ClaimEnd(w) BY <1>17 DEF ClaimEnd
<1>18. CASE ClearTarget(w) BY <1>18 DEF ClearTarget
<1>19. CASE ReportEnd(w)
  <2>1. worker[w].step = "report" /\ worker'[w].step = "idle" /\ cancelled' = cancelled
        /\ worker'[w].current = 0
    BY <1>19 DEF ReportEnd
  <2>2. QED BY ONLY <1>19, <2>1, StepSets DEF PendingSteps
<1>20. QED
  BY <1>1, <1>2, <1>3, <1>4, <1>5, <1>6, <1>7, <1>8, <1>9, <1>10, <1>11, <1>12, <1>13,
     <1>14, <1>15, <1>16, <1>17, <1>18, <1>19 DEF WorkerStep

(* A session worker outside its transition logs nothing the invariant
   counts.                                                                   *)
LEMMA WorkerLog ==
  ASSUME SafetyInv, LogInv, NEW w \in Sessions, WorkerStep(w) \/ ScrcpyStep(w),
         worker[w].step \notin TransitionSteps, launcher' = launcher
  PROVE  GoesAhead(w) /\ Logged
<1>0. TypeOK /\ generation \in Nat
  BY DEF SafetyInv, TypeOK
<1>1. /\ \A v \in Sessions \ {w} : worker'[v] = worker[v]
      /\ token' = token /\ caller' = caller /\ cancelled \subseteq cancelled'
      /\ GenerationGoesOn /\ worker[w].step # "idle"
      /\ worker'[w].step = "idle" \/ worker'[w].token = worker[w].token
  BY <1>0, WorkerFrame DEF GenerationGoesOn
<1>2. /\ worker[w].step \notin ArmedSteps /\ worker'[w].step \notin ArmedSteps
      /\ worker'[w].step \in AdmittedSteps =>
           \/ worker[w].step \in AdmittedSteps /\ worker'[w].current = worker[w].current
           \/ worker'[w].current \in {generation, generation + 1}
      /\ worker'[w].step \in PendingSteps =>
           \/ worker[w].step \in PendingSteps /\ worker'[w].current = worker[w].current
           \/ worker'[w].current = generation + 1
      /\ cancelled' = cancelled \/ transition = Nobody
      /\ worker'[w].step \in TransitionSteps =>
           worker[w].token \notin cancelled /\ cancelled' = cancelled
      /\ worker'[w].current \in {0, worker[w].current, generation'}
      /\ sent' = sent \/ ConfirmStarted(w) \/ ReportEnd(w)
  BY <1>0, WorkerQuiet
<1>3. worker'[w].step \in AdmittedSteps =>
        \/ worker[w].step \in AdmittedSteps /\ worker'[w].current = worker[w].current
        \/ worker'[w].current >= generation
  <2>1. \A g \in {generation, generation + 1} : g >= generation
    BY <1>0
  <2>2. QED BY <1>2, <2>1
<1>4. Pending(w)' =>
        \/ Pending(w) /\ worker'[w].current = worker[w].current
        \/ worker'[w].current = generation + 1
  <2>1. Pending(w)' => worker'[w].step \in PendingSteps
    BY <1>2, StepSets DEF Pending
  <2>2. QED BY <1>2, <2>1 DEF Pending
<1>5. Announcing'
  <2>1. ASSUME NEW v \in Sessions, worker'[v].step \in TransitionSteps
        PROVE  worker'[v].token \notin cancelled'
    <3>1. CASE v = w
      <4>1. worker'[w].step # "idle"
        BY <2>1, <3>1, StepSets
      <4>2. QED BY <1>1, <1>2, <2>1, <3>1, <4>1
    <3>2. CASE v # w
      <4>1. worker'[v] = worker[v] /\ transition = v
        BY <1>1, <2>1, <3>2 DEF SafetyInv, LocksHeld
      <4>2. cancelled' = cancelled
        BY <1>2, <4>1, SessionControlAssumption
      <4>3. QED BY <2>1, <4>1, <4>2 DEF LogInv, AnnounceInv, Announcing
    <3>3. QED BY <3>1, <3>2
  <2>2. QED BY <2>1 DEF Announcing
<1>6. Logged
  <2>0. worker[w].current \in Nat
    BY <1>0, WorkerFields
  <2>1. CASE ConfirmStarted(w)
    <3>1. /\ worker[w].step = "confirm" /\ Emit(Event("SessionStarted", worker[w].current))
      BY <2>1 DEF ConfirmStarted, Emit
    <3>2. Event("SessionStarted", worker[w].current) \in EventSet
      BY <1>0, <2>0, <3>1, Written, KnownTypes
    <3>3. Plain(Event("SessionStarted", worker[w].current))
      BY <3>1, <3>2, StepSets DEF Plain, Event, EndingReplies
    <3>4. QED BY <3>1, <3>3 DEF Logged, Emit
  <2>2. CASE ReportEnd(w)
    <3> DEFINE type == IF worker[w].result \in {"Ended", "Stopped"}
                       THEN "SessionEnded" ELSE "LifecycleFailure"
    <3>1. Emit(Event(type, worker[w].current))
      BY <2>2 DEF ReportEnd, Emit, EndEvent
    <3>2. type \in EventTypes \ ({"SessionStarting", "SessionStarted"} \cup EndingReplies)
      BY DEF EventTypes, EndingReplies
    <3> HIDE DEF type
    <3>3. QED BY <1>0, <2>0, <3>1, <3>2, ToldLogged DEF Told
  <2>3. QED BY <1>2, <2>1, <2>2 DEF Logged
<1>7. worker'[w].current <= generation'
  <2>1. /\ worker[w].current <= generation /\ worker[w].current \in Nat
        /\ generation' \in Nat /\ generation <= generation'
    BY <1>0, <1>1, Onward, WorkerFields DEF LogInv, AnnounceInv, CurrentsKnown
  <2>2. QED BY <1>0, <1>2, <2>1
<1>8. QED BY <1>1, <1>3, <1>4, <1>5, <1>6, <1>7 DEF GoesAhead

(* A session is announced once: nobody else has the token of the moment, and *)
(* the main thread ended no session since it made it.                        *)
LEMMA AnnounceLog ==
  ASSUME SafetyInv, MainInv, LogInv, TypeOK', NEW w \in Sessions, Announce(w), launcher' = launcher,
         cmd' = cmd, cmd \in CommandState
  PROVE  LogInv'
<1> DEFINE g == worker[w].current
           e == Event("SessionStarting", g)
<1>0. TypeOK /\ generation \in Nat /\ g \in Nat /\ sent \in Seq(EventSet)
  BY WorkerFields DEF SafetyInv, TypeOK
<1>1. /\ \A v \in Sessions \ {w} : worker'[v] = worker[v]
      /\ worker[w].step \in TransitionSteps /\ worker'[w].step = "run"
      /\ worker'[w].token = worker[w].token /\ worker'[w].current = worker[w].current
      /\ sent' = Append(sent, e) /\ generation' = generation /\ token' = token
      /\ cancelled' = cancelled /\ caller' = caller /\ launched' = launched
  BY <1>0 DEF TypeOK, WorkerState, Announce, Goto, cells
<1>2. /\ worker[w].token = token /\ token \notin cancelled /\ worker[w].step # "idle"
      /\ worker[w].step \in AdmittedSteps /\ Pending(w)
  BY <1>1, StepSets
     DEF SafetyInv, AdmittedOnToken, LogInv, AnnounceInv, Announcing, Pending, PendingSteps
<1>3. ~Starting(g)
  BY <1>2 DEF LogInv, AnnounceInv, Unannounced
<1>4. launched /\ caller.step \notin {"barrier", "untarget", "renew", "restart"}
  <2>1. token \in Nat /\ ~(token < token)
    BY <1>0 DEF TypeOK
  <2>2. launched
    BY <1>2, <2>1 DEF SafetyInv, FreshToken
  <2>3. QED BY <1>2, <2>2 DEF SafetyInv, FreshToken, TokensRetired
<1>5. caller.step = "idle"
  BY <1>0, <1>4 DEF TypeOK, CallerState, CallerSteps
<1>6. ~SessionOver
  BY <1>4, <1>5 DEF MainInv, StopDone, Ended
<1>7. g <= generation
  BY DEF LogInv, AnnounceInv, CurrentsKnown
<1>8. /\ Len(sent) \in Nat /\ DOMAIN sent = 1..Len(sent) /\ DOMAIN sent' = 1..Len(sent) + 1
      /\ \A i \in 1..Len(sent) : sent'[i] = sent[i]
      /\ sent'[Len(sent) + 1] = e /\ e \in EventSet /\ Len(sent') = Len(sent) + 1
  <2>1. e \in EventSet
    BY <1>0, KnownTypes DEF Event, EventSet
  <2>2. QED BY <1>0, <1>1, <2>1, Appended
<1>9. \A i \in 1..Len(sent) + 1 : i \in 1..Len(sent) \/ i = Len(sent) + 1
  BY <1>8
<1>10. e.type = "SessionStarting" /\ e.generation = g /\ e.type \notin EndingReplies
  BY DEF Event, EndingReplies
<1> HIDE DEF e, g
<1>11. StartsKnown'
  <2>1. ASSUME NEW i \in DOMAIN sent', sent'[i].type = "SessionStarting"
        PROVE  sent'[i].generation <= generation
    <3>1. CASE i = Len(sent) + 1
      BY <1>7, <1>8, <1>10, <3>1
    <3>2. CASE i \in 1..Len(sent)
      BY <1>8, <2>1, <3>2 DEF LogInv, AnnounceInv, StartsKnown
    <3>3. QED BY <1>8, <1>9, <3>1, <3>2
  <2>2. QED BY <1>1, <2>1 DEF StartsKnown
<1>12. GenerationStartsOnce'
  <2>1. ASSUME NEW i \in DOMAIN sent', NEW j \in DOMAIN sent',
               sent'[i].type = "SessionStarting", sent'[j] = sent'[i]
        PROVE  i = j
    <3>1. \A k \in 1..Len(sent) : sent'[k] # e
      BY <1>3, <1>8 DEF Starting, Sent, e
    <3>2. CASE i = Len(sent) + 1 \/ j = Len(sent) + 1
      BY <1>8, <1>9, <2>1, <3>1, <3>2
    <3>3. CASE i \in 1..Len(sent) /\ j \in 1..Len(sent)
      BY <1>8, <2>1, <3>3 DEF LogInv, AnnounceInv, GenerationStartsOnce
    <3>4. QED BY <1>8, <1>9, <3>2, <3>3
  <2>2. QED BY <2>1 DEF GenerationStartsOnce
<1>13. Floors'
  <2>1. ASSUME NEW i \in DOMAIN sent', sent'[i].type \in EndingReplies
        PROVE  /\ sent'[i].generation <= generation
               /\ \A v \in Sessions : worker'[v].step \in AdmittedSteps =>
                    worker'[v].current >= sent'[i].generation
    <3>1. i \in 1..Len(sent) /\ sent'[i] = sent[i]
      BY <1>8, <1>9, <1>10, <2>1
    <3>2. /\ sent[i].generation <= generation
          /\ \A v \in Sessions : worker[v].step \in AdmittedSteps =>
               worker[v].current >= sent[i].generation
      BY <1>8, <2>1, <3>1 DEF LogInv, Floors
    <3>3. QED BY <1>1, <1>2, <3>1, <3>2
  <2>2. QED BY <1>1, <2>1 DEF Floors
<1>14. NoStartAfterEnd'
  <2>1. ASSUME NEW i \in DOMAIN sent', sent'[i].type \in EndingReplies,
               NEW j \in i..Len(sent'), sent'[j].type \in {"SessionStarting", "SessionStarted"}
        PROVE  sent'[j].generation >= sent'[i].generation
    <3>1. i \in 1..Len(sent) /\ sent'[i] = sent[i] /\ i \in DOMAIN sent
      BY <1>8, <1>9, <1>10, <2>1
    <3>2. CASE j = Len(sent) + 1
      BY <1>2, <1>8, <1>10, <2>1, <3>1, <3>2 DEF LogInv, Floors, g
    <3>3. CASE j # Len(sent) + 1
      <4>1. j \in i..Len(sent) /\ j \in 1..Len(sent)
        BY <1>8, <2>1, <3>1, <3>3
      <4>2. QED BY <1>8, <2>1, <3>1, <4>1 DEF LogInv, NoStartAfterEnd
    <3>4. QED BY <3>2, <3>3
  <2>2. QED BY <2>1 DEF NoStartAfterEnd
<1>15. Unannounced'
  <2>1. ASSUME NEW v \in Sessions, Pending(v)', worker'[v].token \notin cancelled'
        PROVE  ~Starting(worker[v].current)'
    <3>1. v # w
      BY <1>1, <2>1 DEF Pending, PendingSteps
    <3>2. worker'[v] = worker[v] /\ worker[v].token \notin cancelled /\ Pending(v)
      BY <1>1, <2>1, <3>1 DEF Pending
    <3>3. worker[v].token = token
      <4>1. worker[v].token \in Nat /\ token \in Nat /\ worker[v].token <= token
        BY <1>0, WorkerFields DEF SafetyInv, TokensRetired, TypeOK
      <4>2. worker[v].token \in 0..token
        BY <4>1
      <4>3. QED BY <3>2, <4>2 DEF SafetyInv, TokensRetired
    <3>4. worker[v].step # "idle"
      BY <3>2 DEF Pending, PendingSteps
    <3>5. QED BY <1>2, <3>1, <3>3, <3>4 DEF LogInv, AnnounceInv, OnePerToken
  <2>2. QED BY <2>1 DEF Unannounced
<1>16. Announcing' /\ OnePerToken' /\ CurrentsKnown'
  <2>1. Announcing'
    BY <1>1, StepSets DEF LogInv, AnnounceInv, Announcing
  <2>2. OnePerToken'
    BY <1>1, <1>2 DEF LogInv, AnnounceInv, OnePerToken
  <2>3. CurrentsKnown'
    <3>1. \A v \in Sessions : worker'[v].current = worker[v].current
      BY <1>1
    <3>2. QED BY <1>1, <3>1 DEF LogInv, AnnounceInv, CurrentsKnown
  <2>4. QED BY <2>1, <2>2, <2>3
<1>17. CallerFresh'
  BY <1>1, <1>5 DEF CallerFresh
<1>18. ReconnectFresh'
  BY <1>6 DEF ReconnectFresh, SessionOver, Left
<1>19. QED
  BY <1>11, <1>12, <1>13, <1>14, <1>15, <1>16, <1>17, <1>18 DEF LogInv, AnnounceInv

(* Whoever steps outside the pairing, the launched workers stay as they are. *)
LEMMA LaunchersStay ==
  ASSUME LauncherInv, launcher' = launcher, flow' = flow, pairing' = pairing, cmd' = cmd,
         \A v \in Sessions :
           \/ worker'[v] = worker[v]
           \/ worker[v].step \notin ArmedSteps /\ worker'[v].step \notin ArmedSteps
  PROVE  LauncherInv'
<1>1. ASSUME NEW v \in Sessions PROVE Fits(v)'
  <2>1. Fits(v)
    BY DEF LauncherInv, LauncherFits
  <2>2. CASE worker'[v] = worker[v]
    BY <2>1, <2>2 DEF Fits, Carries
  <2>3. CASE worker[v].step \notin ArmedSteps /\ worker'[v].step \notin ArmedSteps
    BY <2>1, <2>3, StepSets DEF Fits, Carries
  <2>4. QED BY <2>2, <2>3
<1>2. QED
  BY <1>1 DEF LauncherInv, LauncherFits, FlowHeld, PairingsPast, Retired, Left

(* Every step of a session worker or of its scrcpy keeps the invariant.      *)
LEMMA SessionStepInv ==
  ASSUME RuntimeInv, NEW w \in Sessions, SessionWorkerStep(w) \/ SessionChildStep(w)
  PROVE  RuntimeInv'
<1>0. RuntimeTypeOK /\ TypeOK /\ SafetyInv /\ MainInv /\ LauncherInv /\ LogInv
  BY DEF RuntimeInv, RuntimeTypeOK
<1>1. /\ WorkerStep(w) \/ ScrcpyStep(w)
      /\ launcher' = launcher /\ flow' = flow /\ pairing' = pairing /\ cmd' = cmd
      /\ UNCHANGED <<pairingVars, received>>
  BY DEF SessionWorkerStep, SessionChildStep, pairingVars
<1>2. SafetyInv' /\ TypeOK'
  BY <1>0, <1>1, WorkerKeepsInv DEF SafetyInv
<1>3. RuntimeTypeOK'
  BY <1>0, <1>1, <1>2 DEF RuntimeTypeOK, pairingVars
<1>4. /\ \A v \in Sessions \ {w} : worker'[v] = worker[v]
      /\ caller' = caller /\ launched' = launched
  BY <1>0, <1>1, WorkerFrame
<1>5. MainInv'
  BY <1>0, <1>1, <1>4, MainStays
<1>6. CASE worker[w].step \notin TransitionSteps
  <2>1. worker[w].step \notin ArmedSteps /\ worker'[w].step \notin ArmedSteps
    BY <1>0, <1>1, <1>6, WorkerQuiet
  <2>2. LauncherInv'
    BY <1>0, <1>1, <1>4, <2>1, LaunchersStay
  <2>3. GoesAhead(w) /\ Logged
    BY <1>0, <1>1, <1>6, WorkerLog
  <2>4. LogInv'
    BY <1>0, <1>1, <1>2, <2>3, LogFollows
  <2>5. QED BY <1>2, <1>3, <1>5, <2>2, <2>4 DEF RuntimeInv
<1>7. CASE worker[w].step \in TransitionSteps
  <2>1. Announce(w)
    BY <1>1, <1>7, StepSets
       DEF WorkerStep, ScrcpyStep, SpawnStale, SpawnCurrent, LockRunner, SetTarget, RefuseStart,
           AdmitStart, RunScrcpy, RunStopped, ConfirmStarted, StartDeadline, ExitSuperseded,
           ClaimRetry, KeepResult, EndSilently, ClaimEnd, ClearTarget, ReportEnd, CaptureReady,
           RunUnavailable, ScrcpyExits
  <2>2. worker[w].step \notin ArmedSteps /\ worker'[w].step \notin ArmedSteps
    BY <1>0, <1>7, <2>1, StepSets DEF Announce, Goto, TypeOK, WorkerState
  <2>3. LauncherInv'
    BY <1>0, <1>1, <1>4, <2>2, LaunchersStay
  <2>4. LogInv'
    BY <1>0, <1>1, <1>2, <2>1, AnnounceLog DEF RuntimeTypeOK
  <2>5. QED BY <1>2, <1>3, <1>5, <2>3, <2>4 DEF RuntimeInv
<1>8. QED BY <1>6, <1>7

-----------------------------------------------------------------------------
(* The main thread, step by step.                                            *)

(* A reconnect that ended the session is about to tell and to launch.        *)
Reconnecting == Left("reconnect", 4) /\ cmd.todo # <<>>

(* The main thread gets nearer to the end of cancel-pairing only by the
   steps that make it so.                                                    *)
LEMMA CountedDown ==
  ASSUME cmd \in CommandState, TodoFits, NEW step, At(step), Proceeds
  PROVE  /\ Left("cancelPairing", 3)' => Left("cancelPairing", 3) \/ step = "retire"
         /\ Left("cancelPairing", 2)' => Left("cancelPairing", 2) \/ step = "crossFlow"
         /\ Reconnecting' => Reconnecting \/ step = "invalidate"
<1>0. Len(cmd.todo) \in Nat /\ cmd.todo # <<>>
  BY TodoNow DEF At
<1>1. /\ cmd.op \in Ops
      /\ \/ ~Failing /\ Place(cmd.op, Len(cmd.todo), step)
         \/ Failing /\ Len(cmd.todo) = 2 /\ step = "invalidate"
         \/ Failing /\ Len(cmd.todo) = 1 /\ step = "replyFailed"
  BY TodoNow
<1>2. cmd'.op = cmd.op /\ Len(cmd'.todo) = Len(cmd.todo) - 1
  BY TodoGoesOn
<1>3. \A n \in Nat : (n - 1 <= 3 => n <= 4) /\ (n - 1 <= 2 => n <= 3) /\ (n - 1 <= 4 => n <= 5)
  OBVIOUS
<1>4. ASSUME Left("cancelPairing", 3)' PROVE Left("cancelPairing", 3) \/ step = "retire"
  <2>1. cmd.op = "cancelPairing" /\ Len(cmd.todo) - 1 <= 3
    BY <1>2, <1>4, Zenon DEF Left
  <2>2. Len(cmd.todo) <= 4
    BY ONLY <1>0, <1>3, <2>1, Zenon
  <2>3. Len(cmd.todo) = 4 \/ Len(cmd.todo) <= 3
    BY ONLY <1>0, <2>2, Countdown, Zenon
  <2>4. Place("cancelPairing", Len(cmd.todo), step)
    BY <1>1, <2>1 DEF Failing
  <2>5. CASE Len(cmd.todo) = 4
    BY <2>4, <2>5 DEF Place
  <2>6. CASE Len(cmd.todo) <= 3
    BY <2>1, <2>6, Zenon DEF Left
  <2>7. QED BY <2>3, <2>5, <2>6
<1>5. ASSUME Left("cancelPairing", 2)' PROVE Left("cancelPairing", 2) \/ step = "crossFlow"
  <2>1. cmd.op = "cancelPairing" /\ Len(cmd.todo) - 1 <= 2
    BY <1>2, <1>5, Zenon DEF Left
  <2>2. Len(cmd.todo) <= 3
    BY ONLY <1>0, <1>3, <2>1, Zenon
  <2>3. Len(cmd.todo) = 3 \/ Len(cmd.todo) <= 2
    BY ONLY <1>0, <2>2, Countdown, Zenon
  <2>4. Place("cancelPairing", Len(cmd.todo), step)
    BY <1>1, <2>1 DEF Failing
  <2>5. CASE Len(cmd.todo) = 3
    BY <2>4, <2>5 DEF Place
  <2>6. CASE Len(cmd.todo) <= 2
    BY <2>1, <2>6, Zenon DEF Left
  <2>7. QED BY <2>3, <2>5, <2>6
<1>6. ASSUME Reconnecting' PROVE Reconnecting \/ step = "invalidate"
  <2>1. cmd.op = "reconnect" /\ Len(cmd.todo) - 1 <= 4
    BY <1>2, <1>6, Zenon DEF Left, Reconnecting
  <2>2. Len(cmd.todo) <= 5
    BY ONLY <1>0, <1>3, <2>1, Zenon
  <2>3. Len(cmd.todo) = 5 \/ Len(cmd.todo) <= 4
    BY ONLY <1>0, <2>2, Countdown, Zenon
  <2>4. Place("reconnect", Len(cmd.todo), step)
    BY <1>1, <2>1 DEF Failing
  <2>5. CASE Len(cmd.todo) = 5
    BY <2>4, <2>5 DEF Place
  <2>6. CASE Len(cmd.todo) <= 4
    BY <1>0, <2>1, <2>6, Zenon DEF Left, Reconnecting
  <2>7. QED BY <2>3, <2>5, <2>6
<1>7. QED BY <1>4, <1>5, <1>6

(* What the main thread's place in its command means to the others.          *)
CommandGoes ==
  /\ Left("cancelPairing", 3)' => Left("cancelPairing", 3) \/ pairing' = pairing + 1
  /\ Left("cancelPairing", 2)' => Left("cancelPairing", 2) \/ flow \notin Sessions
  /\ Reconnecting' => Reconnecting
MainPairings ==
  /\ pairing' \in {pairing, pairing + 1} /\ pairingToken' \in 0..pairing'
  /\ withdrawn' \subseteq 0..pairing' /\ qr' \in 0..pairing'
  /\ stored' \in BOOLEAN /\ trusted' \in BOOLEAN
  /\ flow' \in Sessions \cup {Nobody, Main} /\ (flow' = flow \/ flow \notin Sessions)

(* A step of the main thread that leaves the pairing variables alone is an
   allowed one.                                                              *)
LEMMA MainPairingsStay == ASSUME RuntimeTypeOK, UNCHANGED pairingVars PROVE MainPairings
BY DEF RuntimeTypeOK, MainPairings, pairingVars

(* A step of the main thread keeps the workers' invariant, as long as it
   gets past the flow only when it was free.                                 *)
LEMMA LaunchersWatch ==
  ASSUME RuntimeTypeOK, LauncherInv, MainPairings, launcher' = launcher, worker' = worker,
         Left("cancelPairing", 3)' => Left("cancelPairing", 3) \/ pairing' = pairing + 1,
         Left("cancelPairing", 2)' => Left("cancelPairing", 2) \/ flow \notin Sessions
  PROVE  LauncherInv'
<1>1. /\ pairing \in Nat /\ pairing' \in Nat /\ pairing <= pairing'
      /\ \A v \in Sessions : launcher[v].pairing \in Nat
  BY DEF RuntimeTypeOK, MainPairings, LauncherState
<1>2. LauncherFits'
  BY DEF LauncherInv, LauncherFits, Fits, Carries
<1>3. FlowHeld'
  BY DEF LauncherInv, FlowHeld, MainPairings
<1>4. \A v \in Sessions : launcher[v].pairing <= pairing
  BY DEF LauncherInv, PairingsPast
<1>5. PairingsPast'
  BY <1>1, <1>4 DEF PairingsPast
<1>6. Retired'
  <2>1. ASSUME Left("cancelPairing", 3)', NEW v \in Sessions, launcher[v].step # "idle"
        PROVE  launcher[v].pairing < pairing'
    <3>1. CASE Left("cancelPairing", 3)
      BY <1>1, <2>1, <3>1 DEF LauncherInv, Retired
    <3>2. CASE pairing' = pairing + 1
      BY <1>1, <1>4, <3>2
    <3>3. QED BY <2>1, <3>1, <3>2
  <2>2. ASSUME Left("cancelPairing", 2)', NEW v \in Sessions PROVE launcher[v].step # "progress"
    <3>1. CASE Left("cancelPairing", 2)
      BY <3>1 DEF LauncherInv, Retired
    <3>2. CASE flow \notin Sessions
      BY <3>2, LauncherValues DEF LauncherInv, FlowHeld
    <3>3. QED BY <2>2, <3>1, <3>2
  <2>3. QED BY <2>1, <2>2 DEF Retired
<1>7. QED BY <1>2, <1>3, <1>5, <1>6 DEF LauncherInv

(* The main thread writes an event, or ends a session.                       *)
LEMMA MainLog ==
  ASSUME SafetyInv, LogInv, TypeOK', Logged, GenerationGoesOn, worker' = worker,
         launcher' = launcher, token' = token, cancelled \subseteq cancelled',
         cancelled' = cancelled \/ transition = Nobody,
         caller'.generation <= generation',
         caller'.step # "idle" /\ (caller'.target # NoTarget \/ caller'.step = "restart") =>
           ~Starting(caller'.generation),
         Reconnecting' => Reconnecting \/ generation' = generation + 1
  PROVE  LogInv'
<1>0. TypeOK
  BY DEF SafetyInv
<1>1. ~Starting(generation + 1)
  BY <1>0, NotReached DEF LogInv, AnnounceInv
<1>2. Admissions
  BY DEF Admissions
<1>3. CurrentsKnown'
  <2>1. /\ generation \in Nat /\ generation' \in Nat /\ generation <= generation'
        /\ \A v \in Sessions : worker[v].current \in Nat /\ worker[v].current <= generation
    BY <1>0, Onward, WorkerFields DEF TypeOK, LogInv, AnnounceInv, CurrentsKnown
  <2>2. QED BY <2>1 DEF CurrentsKnown
<1>4. OnePerToken'
  BY DEF LogInv, AnnounceInv, OnePerToken
<1>5. Announcing'
  <2>1. ASSUME NEW v \in Sessions, worker[v].step \in TransitionSteps
        PROVE  worker[v].token \notin cancelled'
    <3>1. transition = v
      BY <2>1 DEF SafetyInv, LocksHeld
    <3>2. cancelled' = cancelled
      BY <3>1, SessionControlAssumption
    <3>3. QED BY <2>1, <3>2 DEF LogInv, AnnounceInv, Announcing
  <2>2. QED BY <2>1 DEF Announcing
<1>6. \A v \in Sessions :
        Pending(v)' /\ worker'[v].token \notin cancelled' => ~Starting(worker'[v].current)
  BY DEF LogInv, AnnounceInv, Unannounced, Pending
<1>7. Reconnecting' => ~Starting(generation')
  <2>1. SUFFICES ASSUME Reconnecting' PROVE ~Starting(generation')
    OBVIOUS
  <2>2. CASE generation' = generation + 1
    BY <1>1, <2>2
  <2>3. CASE generation' # generation + 1
    <3>1. generation' = generation /\ Reconnecting
      BY <2>1, <2>3 DEF GenerationGoesOn
    <3>2. QED BY <3>1 DEF LogInv, AnnounceInv, ReconnectFresh, Reconnecting
  <2>4. QED BY <2>2, <2>3
<1>8. (Left("reconnect", 4) /\ cmd.todo # <<>>)' => ~Starting(generation')
  BY <1>7 DEF Reconnecting
<1>9. QED BY <1>0, <1>2, <1>3, <1>4, <1>5, <1>6, <1>8, LogMoves

(* A step of the main thread outside SessionControl.                         *)
LEMMA MainStepKeeps ==
  ASSUME RuntimeInv, UNCHANGED quiet, launcher' = launcher, sent' \in Seq(EventSet), Logged,
         MainInv', cmd' \in CommandState, received' \in 0..MaxCommands, CommandGoes, MainPairings
  PROVE  RuntimeInv'
<1>0. RuntimeTypeOK /\ TypeOK /\ SafetyInv /\ MainInv /\ LauncherInv /\ LogInv
  BY DEF RuntimeInv, RuntimeTypeOK
<1>1. /\ worker' = worker /\ caller' = caller /\ generation' = generation /\ token' = token
      /\ cancelled' = cancelled
  BY DEF quiet, cells
<1>2. SafetyInv' /\ TypeOK'
  BY <1>0, SafetyStays DEF SafetyInv
<1>3. RuntimeTypeOK'
  BY <1>0, <1>2 DEF RuntimeTypeOK, MainPairings
<1>4. LauncherInv'
  BY <1>0, <1>1, LaunchersWatch DEF CommandGoes
<1>5. LogInv'
  <2>1. caller.generation <= generation /\ CallerFresh
    BY <1>0 DEF LogInv, AnnounceInv, CurrentsKnown
  <2>2. QED BY <1>0, <1>1, <1>2, <2>1, MainLog DEF GenerationGoesOn, CommandGoes, CallerFresh
<1>6. QED BY <1>2, <1>3, <1>4, <1>5 DEF RuntimeInv

-----------------------------------------------------------------------------
(* The steps of the main thread that leave SessionControl alone.             *)

(* It goes on, whatever it wrote, as long as the step is none of those that  *)
(* end or start a session.                                                   *)
LEMMA MainProceeds ==
  ASSUME RuntimeInv, NEW step, At(step), Proceeds,
         step \notin {"stop", "invalidate", "restart", "launch"},
         UNCHANGED quiet, launcher' = launcher, received' = received,
         sent' \in Seq(EventSet), Logged, MainPairings,
         step = "retire" => pairing' = pairing + 1,
         step = "crossFlow" => flow \notin Sessions,
         step = "lockFlow" => flow' = Main,
         step \notin {"lockFlow", "unlockFlow", "adb"} => flow' = flow
  PROVE  RuntimeInv'
<1>0. RuntimeTypeOK /\ MainInv /\ cmd \in CommandState /\ TodoFits /\ received \in 0..MaxCommands
  BY DEF RuntimeInv, RuntimeTypeOK, MainInv
<1>1. caller' = caller /\ launched' = launched
  BY DEF quiet
<1>2. MainInv' /\ cmd' \in CommandState
  BY <1>0, <1>1, MainGoesOn
<1>3. CommandGoes
  BY <1>0, CountedDown DEF CommandGoes
<1>4. QED BY <1>0, <1>2, <1>3, MainStepKeeps

(* A step that leaves the session variables alone writes nothing.            *)
LEMMA NothingWritten ==
  ASSUME TypeOK, UNCHANGED vars
  PROVE  UNCHANGED quiet /\ Logged /\ sent' \in Seq(EventSet)
BY DEF TypeOK, vars, quiet, Logged

(* It drops its command.                                                     *)
LEMMA MainDrops ==
  ASSUME RuntimeInv, cmd' = IdleCommand, caller.step = "idle",
         UNCHANGED quiet, launcher' = launcher, received' \in 0..MaxCommands, MainPairings,
         sent' \in Seq(EventSet), Logged
  PROVE  RuntimeInv'
<1>0. RuntimeTypeOK /\ TypeOK
  BY DEF RuntimeInv, RuntimeTypeOK
<1>1. caller' = caller
  BY DEF quiet
<1>2. MainInv' /\ cmd' \in CommandState
  BY <1>1, MainAbandons
<1>3. cmd'.op = "none"
  BY IdleTodo
<1>4. CommandGoes
  BY <1>3 DEF CommandGoes, Left, Reconnecting
<1>5. QED BY <1>2, <1>4, MainStepKeeps

(* It turns to the end of a failed input.                                    *)
LEMMA MainTurns ==
  ASSUME RuntimeInv, cmd.op \in {"input", "phoneTarget"},
         cmd' = [cmd EXCEPT !.todo = FailedInput, !.read = FALSE],
         UNCHANGED vars, launcher' = launcher, received' = received, MainPairings
  PROVE  RuntimeInv'
<1>0. RuntimeTypeOK /\ TypeOK /\ cmd \in CommandState /\ received \in 0..MaxCommands
  BY DEF RuntimeInv, RuntimeTypeOK
<1>1. MainInv' /\ cmd' \in CommandState /\ cmd'.op = cmd.op
  BY <1>0, MainFails
<1>2. CommandGoes
  BY <1>1 DEF CommandGoes, Left, Reconnecting
<1>3. UNCHANGED quiet /\ Logged /\ sent' \in Seq(EventSet)
  BY <1>0, NothingWritten
<1>4. QED BY <1>0, <1>1, <1>2, <1>3, MainStepKeeps

(* It reads a command.                                                       *)
LEMMA AcceptInv ==
  ASSUME RuntimeInv, NEW op \in Ops, Accept(op)
  PROVE  RuntimeInv'
<1>0. RuntimeTypeOK /\ TypeOK /\ received \in 0..MaxCommands
  BY DEF RuntimeInv, RuntimeTypeOK
<1>1. /\ cmd' = [IdleCommand EXCEPT !.op = op, !.todo = Program[op], !.generation = generation]
      /\ UNCHANGED vars /\ UNCHANGED pairingVars /\ launcher' = launcher
      /\ received < MaxCommands /\ received' = received + 1
  BY DEF Accept, Reading
<1>2. MainInv' /\ cmd' \in CommandState /\ cmd'.op = op /\ cmd'.todo = Program[op]
  BY <1>0, <1>1, MainAccepts
<1>3. CommandGoes
  <2>1. ~(5 <= 3) /\ ~(5 <= 2) /\ ~(6 <= 4)
    OBVIOUS
  <2>2. op = "cancelPairing" => Len(cmd'.todo) = 5
    BY <1>2, Lengths, Zenon
  <2>3. op = "reconnect" => Len(cmd'.todo) = 6
    BY <1>2, Lengths, Zenon
  <2>4. QED BY <1>2, <2>1, <2>2, <2>3, Zenon DEF CommandGoes, Left, Reconnecting
<1>4. received' \in 0..MaxCommands
  BY <1>0, <1>1, HelperRuntimeAssumption
<1>5. UNCHANGED quiet /\ Logged /\ sent' \in Seq(EventSet)
  BY <1>0, <1>1, NothingWritten
<1>6. QED BY <1>0, <1>1, <1>2, <1>3, <1>4, <1>5, MainPairingsStay, MainStepKeeps

(* Answering a stale command keeps the invariant.                            *)
LEMMA AnswerStaleInv ==
  ASSUME RuntimeInv, NEW op \in Ops, AnswerStale(op)
  PROVE  RuntimeInv'
<1>0. RuntimeTypeOK /\ TypeOK /\ received \in 0..MaxCommands /\ MainInv /\ generation \in Nat
  BY DEF RuntimeInv, RuntimeTypeOK, TypeOK
<1>1. /\ cmd' = IdleCommand /\ UNCHANGED quiet /\ UNCHANGED pairingVars /\ launcher' = launcher
      /\ received < MaxCommands /\ received' = received + 1
      /\ cmd.todo = <<>> /\ cmd.op # "shutdown"
  BY DEF AnswerStale, Reading
<1>2. caller.step = "idle"
  BY <1>0, <1>1 DEF MainInv, Returned
<1>3. Told
  <2> DEFINE type == IF op = "setScrcpyArgs" THEN "ScrcpyArgsStale" ELSE "StaleSession"
  <2>1. Emit(Event(type, generation))
    BY DEF AnswerStale
  <2>2. type \in {"ScrcpyArgsStale", "StaleSession"}
    OBVIOUS
  <2> HIDE DEF type
  <2>3. QED BY <1>0, <2>1, <2>2, SaysNothing DEF Told
<1>4. received' \in 0..MaxCommands
  BY <1>0, <1>1, HelperRuntimeAssumption
<1>5. Logged /\ sent' \in Seq(EventSet)
  BY <1>0, <1>3, ToldLogged
<1>6. QED BY <1>0, <1>1, <1>2, <1>4, <1>5, MainPairingsStay, MainDrops

(* Where a session is over nobody is admitted.                               *)
LEMMA NobodyAdmitted ==
  ASSUME SafetyInv, MainInv, SessionOver, caller.step = "idle"
  PROVE  ~launched /\ \A w \in Sessions : worker[w].step \notin AdmittedSteps
<1>1. ~launched
  BY DEF MainInv, StopDone, Ended
<1>2. token \in Nat /\ ~(token < token)
  BY DEF SafetyInv, TypeOK
<1>3. ASSUME NEW w \in Sessions, worker[w].step \in AdmittedSteps PROVE FALSE
  <2>1. worker[w].token = token /\ worker[w].step # "idle"
    BY <1>3, StepSets DEF SafetyInv, AdmittedOnToken
  <2>2. QED BY <1>1, <1>2, <2>1 DEF SafetyInv, FreshToken
<1>4. QED BY <1>1, <1>3

(* The replies.                                                              *)
LEMMA Replies ==
  /\ ReplyType["startQrPairing"] = "QrWaiting" /\ ReplyType["submitManualCode"] = "Pairing"
  /\ ReplyType["cancelPairing"] = "PairingCancelled"
  /\ ReplyType["useManualCode"] = "ManualCodeRequired"
  /\ ReplyType["reconnect"] = "Connecting" /\ ReplyType["stopSession"] = "SessionStopped"
  /\ ReplyType["startOver"] = "StartOverComplete"
  /\ ReplyType["setPreferences"] = "PreferencesUpdated"
  /\ ReplyType["setScrcpyArgs"] = "ScrcpyArgsUpdated"
  /\ RestartType["setPreferences"] = "PreferencesRestarted"
  /\ RestartType["setScrcpyArgs"] = "ScrcpyArgsRestarted"
  /\ DOMAIN RestartType = {"setPreferences", "setScrcpyArgs"}
BY DEF ReplyType, RestartType

(* A reply keeps the invariant; the session it reports as stopped has no
   announcement left to come.                                                *)
LEMMA ReplyInv ==
  ASSUME RuntimeInv, AnswersPast, Reply
  PROVE  RuntimeInv'
<1>0. /\ RuntimeTypeOK /\ TypeOK /\ SafetyInv /\ MainInv /\ cmd \in CommandState /\ TodoFits
      /\ generation \in Nat /\ sent \in Seq(EventSet)
  BY DEF RuntimeInv, RuntimeTypeOK, MainInv, TypeOK
<1> DEFINE type == IF cmd.op \in DOMAIN RestartType /\ cmd.target # NoTarget
                   THEN RestartType[cmd.op] ELSE ReplyType[cmd.op]
           g == IF cmd.op \in Telling THEN cmd.generation ELSE 0
<1>1. /\ At("reply") /\ Continue /\ Emit(Event(type, g))
      /\ UNCHANGED quiet /\ UNCHANGED pairingVars /\ launcher' = launcher /\ received' = received
  BY DEF Reply
<1>2. /\ ~Failing /\ Place(cmd.op, Len(cmd.todo), "reply") /\ caller.step = "idle"
      /\ Proceeds /\ cmd.todo # <<>>
  BY <1>0, <1>1, TodoNow, ContinueProceeds DEF At
<1>3. g \in Nat /\ (cmd.op \in Telling => g <= generation)
  BY <1>0 DEF AnswersPast, CommandState
<1>4. \/ cmd.op \in {"startQrPairing", "submitManualCode", "reconnect"} /\ Len(cmd.todo) = 2
      \/ /\ cmd.op \in {"cancelPairing", "useManualCode", "stopSession", "startOver",
                        "setPreferences", "setScrcpyArgs"}
         /\ Len(cmd.todo) = 1
  BY <1>2 DEF Place
<1>5. \/ type \in EventTypes \ ({"SessionStarting", "SessionStarted"} \cup EndingReplies)
      \/ cmd.op \in {"reconnect", "stopSession", "startOver"} /\ g <= generation
           /\ type \in {"Connecting", "SessionStopped", "StartOverComplete"}
  <2>1. CASE cmd.op = "startQrPairing" BY <2>1, Replies, SaysNothing
  <2>2. CASE cmd.op = "submitManualCode" BY <2>2, Replies, SaysNothing
  <2>3. CASE cmd.op = "cancelPairing" BY <2>3, Replies, SaysNothing
  <2>4. CASE cmd.op = "useManualCode" BY <2>4, Replies, SaysNothing
  <2>5. CASE cmd.op = "setPreferences" BY <2>5, Replies, SaysNothing
  <2>6. CASE cmd.op = "setScrcpyArgs" BY <2>6, Replies, SaysNothing
  <2>7. CASE cmd.op \in {"reconnect", "stopSession", "startOver"}
    BY <1>3, <2>7, Replies DEF Telling
  <2>8. QED BY <1>4, <2>1, <2>2, <2>3, <2>4, <2>5, <2>6, <2>7
<1> HIDE DEF type, g
<1>6. Logged /\ sent' \in Seq(EventSet)
  <2>1. CASE type \in EventTypes \ ({"SessionStarting", "SessionStarted"} \cup EndingReplies)
    BY <1>0, <1>1, <1>3, <2>1, ToldLogged DEF Told
  <2>2. CASE cmd.op \in {"reconnect", "stopSession", "startOver"} /\ g <= generation
               /\ type \in {"Connecting", "SessionStopped", "StartOverComplete"}
    <3>1. SessionOver
      <4>1. 2 <= 4 /\ 1 <= 1 /\ 1 <= 4
        OBVIOUS
      <4>2. CASE cmd.op = "reconnect" /\ Len(cmd.todo) = 2
        BY <1>2, <4>1, <4>2, Zenon DEF SessionOver, Left
      <4>3. CASE cmd.op = "stopSession" /\ Len(cmd.todo) = 1
        BY <4>1, <4>3, Zenon DEF SessionOver, Left
      <4>4. CASE cmd.op = "startOver" /\ Len(cmd.todo) = 1
        BY <4>1, <4>4, Zenon DEF SessionOver, Left
      <4>5. QED BY <1>4, <2>2, <4>2, <4>3, <4>4
    <3>2. \A w \in Sessions : worker[w].step \notin AdmittedSteps
      BY <1>0, <1>2, <3>1, NobodyAdmitted
    <3>3. type \in EventTypes /\ type \notin {"SessionStarting", "SessionStarted"}
      BY <2>2, KnownTypes
    <3>4. sent' \in Seq(EventSet) /\ Event(type, g) \in EventSet
      BY <1>0, <1>1, <1>3, <3>3, Written
    <3>5. Plain(Event(type, g))
      BY <2>2, <3>2, <3>3, <3>4 DEF Plain, Event
    <3>6. QED BY <1>1, <3>4, <3>5 DEF Logged, Emit
  <2>3. QED BY <1>5, <2>1, <2>2
<1>7. MainPairings /\ flow' = flow
  BY <1>0, <1>1, MainPairingsStay DEF pairingVars
<1>8. QED BY <1>1, <1>2, <1>6, <1>7, MainProceeds

(* The failure of an input keeps the invariant.                              *)
LEMMA ReplyFailedInv ==
  ASSUME RuntimeInv, AnswersPast, ReplyFailed
  PROVE  RuntimeInv'
<1>0. /\ RuntimeTypeOK /\ TypeOK /\ SafetyInv /\ MainInv /\ cmd \in CommandState /\ TodoFits
      /\ generation \in Nat /\ sent \in Seq(EventSet)
  BY DEF RuntimeInv, RuntimeTypeOK, MainInv, TypeOK
<1>1. /\ At("replyFailed") /\ Continue /\ Emit(Event("InputFailed", cmd.generation))
      /\ UNCHANGED quiet /\ UNCHANGED pairingVars /\ launcher' = launcher /\ received' = received
  BY DEF ReplyFailed
<1>2. Failing /\ Len(cmd.todo) = 1 /\ caller.step = "idle" /\ Proceeds
  BY <1>0, <1>1, TodoNow, ContinueProceeds DEF Place
<1>3. \A w \in Sessions : worker[w].step \notin AdmittedSteps
  BY <1>0, <1>2, NobodyAdmitted DEF SessionOver
<1>4. /\ sent' \in Seq(EventSet) /\ Event("InputFailed", cmd.generation) \in EventSet
      /\ cmd.generation \in Nat
  BY <1>0, <1>1, Written, KnownTypes DEF CommandState
<1>5. Plain(Event("InputFailed", cmd.generation))
  BY <1>3, <1>4 DEF Plain, Event, AnswersPast
<1>6. Logged
  BY <1>1, <1>5 DEF Logged, Emit
<1>7. MainPairings /\ flow' = flow
  BY <1>0, <1>1, MainPairingsStay DEF pairingVars
<1>8. QED BY <1>1, <1>2, <1>4, <1>6, <1>7, MainProceeds

(* To read the generation of a reply changes nothing the invariant speaks
   of.                                                                       *)
LEMMA ReadGenerationInv ==
  ASSUME RuntimeInv, ReadGeneration
  PROVE  RuntimeInv'
<1>0. /\ RuntimeTypeOK /\ TypeOK /\ MainInv /\ cmd \in CommandState /\ received \in 0..MaxCommands
      /\ generation \in Nat
  BY DEF RuntimeInv, RuntimeTypeOK, TypeOK
<1>1. /\ cmd' = [cmd EXCEPT !.generation = generation, !.read = TRUE]
      /\ UNCHANGED vars /\ UNCHANGED pairingVars /\ launcher' = launcher /\ received' = received
  BY DEF ReadGeneration
<1>2. cmd' \in CommandState /\ cmd'.op = cmd.op /\ cmd'.todo = cmd.todo
  BY <1>0, <1>1 DEF CommandState
<1>3. MainInv'
  BY <1>0, <1>1, <1>2, MainStays DEF vars, pairingVars
<1>4. CommandGoes
  BY <1>2 DEF CommandGoes, Left, Reconnecting
<1>5. UNCHANGED quiet /\ Logged /\ sent' \in Seq(EventSet)
  BY <1>0, <1>1, NothingWritten
<1>6. QED BY <1>0, <1>1, <1>2, <1>3, <1>4, <1>5, MainPairingsStay, MainStepKeeps

(* The rest of them.                                                         *)
MainSimple ==
  \/ RefuseIfLive \/ NeedTrusted \/ ReadTarget \/ NeedTarget \/ CancelToken \/ Retire
  \/ Supersede \/ StartQr \/ CancelQr \/ CrossFlow \/ LockFlow \/ UnlockFlow \/ Forget
  \/ UseStore \/ RunInput

(* The steps of a handler that call no session method keep the invariant.    *)
LEMMA MainSimpleInv ==
  ASSUME RuntimeInv, MainSimple
  PROVE  RuntimeInv'
<1>0. /\ RuntimeTypeOK /\ TypeOK /\ SafetyInv /\ MainInv /\ cmd \in CommandState /\ TodoFits
      /\ sent \in Seq(EventSet) /\ received \in 0..MaxCommands
  BY DEF RuntimeInv, RuntimeTypeOK, MainInv, TypeOK
<1>1. /\ pairing \in Nat /\ pairingToken \in 0..pairing /\ withdrawn \subseteq 0..pairing
      /\ qr \in 0..pairing /\ stored \in BOOLEAN /\ trusted \in BOOLEAN
      /\ flow \in Sessions \cup {Nobody, Main}
      /\ Main \notin Sessions /\ Nobody \notin Sessions
  BY <1>0, HelperRuntimeAssumption, SessionControlAssumption DEF RuntimeTypeOK
<1>2. ASSUME NEW step \in {"refuseIfLive", "needTrusted", "store"}, At(step),
             \/ Continue /\ sent' = sent
             \/ \E type \in {"Refused", "Failure"} : Abandon /\ Emit(Event(type, 0)),
             UNCHANGED <<quiet, pairingVars, launcher, received>>
      PROVE  RuntimeInv'
  <2>1. /\ MainPairings /\ flow' = flow /\ UNCHANGED quiet
        /\ launcher' = launcher /\ received' = received
    BY <1>0, <1>2, MainPairingsStay DEF pairingVars
  <2>2. ASSUME Continue, sent' = sent PROVE RuntimeInv'
    <3>1. Proceeds /\ Logged /\ sent' \in Seq(EventSet)
      BY <1>0, <1>2, <2>2, ContinueProceeds DEF Logged
    <3>2. QED BY <1>2, <2>1, <3>1, MainProceeds
  <2>3. ASSUME NEW type \in {"Refused", "Failure"}, Abandon, Emit(Event(type, 0))
        PROVE  RuntimeInv'
    <3>1. Logged /\ sent' \in Seq(EventSet)
      BY <1>0, <2>3, SaysNothing, ToldLogged DEF Told
    <3>2. caller.step = "idle" /\ cmd' = IdleCommand
      BY <1>2, <2>3 DEF At, Abandon
    <3>3. QED BY <1>0, <2>1, <3>1, <3>2, MainDrops
  <2>4. QED BY <1>2, <2>2, <2>3
<1>3. ASSUME NEW step, At(step), Continue, UNCHANGED <<vars, launcher, received>>, MainPairings,
             step \notin {"stop", "invalidate", "restart", "launch"},
             step = "retire" => pairing' = pairing + 1,
             step = "crossFlow" => flow \notin Sessions,
             step = "lockFlow" => flow' = Main,
             step \notin {"lockFlow", "unlockFlow", "adb"} => flow' = flow
      PROVE  RuntimeInv'
  <2>1. Proceeds
    BY <1>0, <1>3, ContinueProceeds
  <2>2. UNCHANGED quiet /\ Logged /\ sent' \in Seq(EventSet)
    BY <1>0, <1>3, NothingWritten
  <2>3. QED BY <1>3, <2>1, <2>2, MainProceeds
<1>4. ASSUME RefuseIfLive PROVE RuntimeInv'
  BY <1>2, <1>4 DEF RefuseIfLive
<1>5. ASSUME NeedTrusted PROVE RuntimeInv'
  BY <1>2, <1>5 DEF NeedTrusted
<1>6. ASSUME UseStore PROVE RuntimeInv'
  BY <1>2, <1>6 DEF UseStore
<1>7. ASSUME ReadTarget PROVE RuntimeInv'
  <2>1. PICK t \in {target, NoTarget} :
          cmd' = [cmd EXCEPT !.todo = Tail(cmd.todo), !.read = FALSE, !.target = t]
    BY <1>7 DEF ReadTarget
  <2>2. cmd.todo \in Seq(MicroSteps) /\ cmd.todo # <<>> /\ t \in Targets \cup {NoTarget}
    BY <1>0, <1>7 DEF ReadTarget, At, CommandState, TypeOK
  <2>3. Tail(cmd.todo) \in Seq(MicroSteps)
    BY <2>2, HeadTailProperties
  <2>4. Proceeds
    BY <1>0, <2>1, <2>2, <2>3 DEF CommandState, Proceeds
  <2>5. UNCHANGED quiet /\ Logged /\ sent' \in Seq(EventSet)
    BY <1>0, <1>7, NothingWritten DEF ReadTarget
  <2>6. At("readTarget") /\ UNCHANGED pairingVars /\ launcher' = launcher /\ received' = received
    BY <1>7 DEF ReadTarget
  <2>7. MainPairings /\ flow' = flow
    BY <1>0, <2>6, MainPairingsStay DEF pairingVars
  <2>8. QED BY <2>4, <2>5, <2>6, <2>7, MainProceeds
<1>8. ASSUME NeedTarget PROVE RuntimeInv'
  <2>1. At("needTarget") /\ UNCHANGED <<vars, pairingVars, launcher, received>>
    BY <1>8 DEF NeedTarget
  <2>2. MainPairings /\ flow' = flow
    BY <1>0, <2>1, MainPairingsStay DEF pairingVars
  <2>3. CASE Continue
    BY <1>3, <2>1, <2>2, <2>3
  <2>4. CASE cmd.op = "input" /\ cmd' = [cmd EXCEPT !.todo = FailedInput, !.read = FALSE]
    BY <2>1, <2>2, <2>4, MainTurns
  <2>5. CASE Abandon
    <3>1. UNCHANGED quiet /\ Logged /\ sent' \in Seq(EventSet)
      BY <1>0, <2>1, NothingWritten
    <3>2. caller.step = "idle" /\ cmd' = IdleCommand
      BY <2>1, <2>5 DEF At, Abandon
    <3>3. QED BY <1>0, <2>1, <2>2, <3>1, <3>2, MainDrops
  <2>6. QED BY <1>8, <2>3, <2>4, <2>5 DEF NeedTarget
<1>9. ASSUME CancelToken PROVE RuntimeInv'
  <2>1. MainPairings /\ flow' = flow
    BY <1>1, <1>9 DEF CancelToken, MainPairings
  <2>2. QED BY <1>3, <1>9, <2>1 DEF CancelToken
<1>10. ASSUME Retire PROVE RuntimeInv'
  <2>1. 0..pairing \subseteq 0..pairing + 1
    BY <1>1
  <2>2. MainPairings /\ flow' = flow
    BY <1>1, <1>10, <2>1 DEF Retire, MainPairings
  <2>3. QED BY <1>3, <1>10, <2>2 DEF Retire
<1>11. ASSUME Supersede PROVE RuntimeInv'
  <2>1. 0..pairing \subseteq 0..pairing + 1 /\ pairing + 1 \in 0..pairing + 1
    BY <1>1
  <2>2. MainPairings /\ flow' = flow
    BY <1>1, <1>11, <2>1 DEF Supersede, MainPairings
  <2>3. QED BY <1>3, <1>11, <2>2 DEF Supersede
<1>12. ASSUME StartQr PROVE RuntimeInv'
  <2>0. /\ At("startQr") /\ UNCHANGED quiet /\ launcher' = launcher /\ received' = received
        /\ flow' = flow /\ pairing' = pairing /\ pairingToken' = pairingToken
        /\ withdrawn' = withdrawn /\ stored' = stored /\ trusted' = trusted
    BY <1>12 DEF StartQr
  <2>1. qr' \in 0..pairing
    BY <1>1, <1>12 DEF StartQr
  <2>2. MainPairings
    BY <1>1, <2>0, <2>1 DEF MainPairings
  <2>3. ASSUME Continue, sent' = sent PROVE RuntimeInv'
    <3>1. Proceeds /\ Logged /\ sent' \in Seq(EventSet)
      BY <1>0, <2>0, <2>3, ContinueProceeds DEF Logged
    <3>2. QED BY <2>0, <2>2, <3>1, MainProceeds
  <2>4. ASSUME Abandon, Emit(Event("Failure", 0)) PROVE RuntimeInv'
    <3>1. Logged /\ sent' \in Seq(EventSet)
      BY <1>0, <2>4, SaysNothing, ToldLogged DEF Told
    <3>2. caller.step = "idle" /\ cmd' = IdleCommand
      BY <2>0, <2>4 DEF At, Abandon
    <3>3. QED BY <1>0, <2>0, <2>2, <3>1, <3>2, MainDrops
  <2>5. QED BY <1>12, <2>3, <2>4 DEF StartQr
<1>13. ASSUME CancelQr PROVE RuntimeInv'
  <2>1. MainPairings /\ flow' = flow
    BY <1>1, <1>13 DEF CancelQr, MainPairings
  <2>2. QED BY <1>3, <1>13, <2>1 DEF CancelQr
<1>14. ASSUME CrossFlow PROVE RuntimeInv'
  <2>1. MainPairings /\ flow' = flow /\ flow \notin Sessions
    BY <1>0, <1>1, <1>14, MainPairingsStay DEF CrossFlow, pairingVars
  <2>2. QED BY <1>3, <1>14, <2>1 DEF CrossFlow
<1>15. ASSUME LockFlow PROVE RuntimeInv'
  <2>1. MainPairings /\ flow' = Main
    BY <1>1, <1>15 DEF LockFlow, MainPairings
  <2>2. QED BY <1>3, <1>15, <2>1 DEF LockFlow
<1>16. ASSUME UnlockFlow PROVE RuntimeInv'
  <2>1. flow = Main
    BY <1>0, <1>16, HeldAt DEF UnlockFlow
  <2>2. MainPairings
    BY <1>1, <1>16, <2>1 DEF UnlockFlow, MainPairings
  <2>3. QED BY <1>3, <1>16, <2>2 DEF UnlockFlow
<1>17. ASSUME Forget PROVE RuntimeInv'
  <2>0. /\ At("forget") /\ UNCHANGED quiet /\ launcher' = launcher /\ received' = received
        /\ pairing' = pairing /\ pairingToken' = pairingToken
        /\ withdrawn' = withdrawn /\ qr' = qr
    BY <1>17 DEF Forget
  <2>1. flow = Main
    BY <1>0, <2>0, HeldAt
  <2>2. ASSUME stored' = FALSE, trusted' = FALSE, Continue, flow' = flow, sent' = sent
        PROVE  RuntimeInv'
    <3>1. Proceeds /\ Logged /\ sent' \in Seq(EventSet)
      BY <1>0, <2>0, <2>2, ContinueProceeds DEF Logged
    <3>2. MainPairings
      BY <1>1, <2>0, <2>2 DEF MainPairings
    <3>3. QED BY <2>0, <2>2, <3>1, <3>2, MainProceeds
  <2>3. ASSUME Abandon, flow' = Nobody, Emit(Event("Failure", 0)),
               stored' = stored, trusted' = trusted
        PROVE  RuntimeInv'
    <3>1. Logged /\ sent' \in Seq(EventSet)
      BY <1>0, <2>3, SaysNothing, ToldLogged DEF Told
    <3>2. caller.step = "idle" /\ cmd' = IdleCommand
      BY <2>0, <2>3 DEF At, Abandon
    <3>3. MainPairings
      BY <1>1, <2>0, <2>1, <2>3 DEF MainPairings
    <3>4. QED BY <1>0, <2>0, <3>1, <3>2, <3>3, MainDrops
  <2>4. QED BY <1>17, <2>2, <2>3 DEF Forget
<1>18. ASSUME RunInput PROVE RuntimeInv'
  <2>1. At("adb") /\ UNCHANGED vars /\ launcher' = launcher /\ received' = received
    BY <1>18 DEF RunInput
  <2>2. flow = Main
    BY <1>0, <2>1, HeldAt
  <2>3. MainPairings
    BY <1>1, <1>18, <2>2 DEF RunInput, MainPairings
  <2>4. cmd.op \in {"input", "phoneTarget"}
    BY <1>0, <2>1, TodoNow DEF Place
  <2>5. CASE Continue
    BY <1>3, <2>1, <2>3, <2>5
  <2>6. CASE cmd' = [cmd EXCEPT !.todo = FailedInput, !.read = FALSE]
    BY <2>1, <2>3, <2>4, <2>6, MainTurns
  <2>7. QED BY <1>18, <2>5, <2>6 DEF RunInput
<1>19. QED
  BY <1>4, <1>5, <1>6, <1>7, <1>8, <1>9, <1>10, <1>11, <1>12, <1>13, <1>14, <1>15, <1>16, <1>17,
     <1>18 DEF MainSimple

-----------------------------------------------------------------------------
(* The calls of SessionControl.                                              *)

(* A call that moves neither a worker nor the token, and writes nothing.     *)
LEMMA CallInv ==
  ASSUME RuntimeInv, SafetyInv', MainInv', cmd' \in CommandState, received' = received,
         UNCHANGED pairingVars, launcher' = launcher, worker' = worker, token' = token,
         sent' = sent, GenerationGoesOn, cancelled \subseteq cancelled',
         cancelled' = cancelled \/ transition = Nobody,
         caller'.generation <= generation',
         caller'.step # "idle" /\ (caller'.target # NoTarget \/ caller'.step = "restart") =>
           ~Starting(caller'.generation),
         Left("cancelPairing", 3)' => Left("cancelPairing", 3),
         Left("cancelPairing", 2)' => Left("cancelPairing", 2),
         Reconnecting' => Reconnecting \/ generation' = generation + 1
  PROVE  RuntimeInv'
<1>0. RuntimeTypeOK /\ TypeOK /\ SafetyInv /\ MainInv /\ LauncherInv /\ LogInv /\ TypeOK'
  BY DEF RuntimeInv, RuntimeTypeOK, SafetyInv
<1>1. MainPairings
  BY <1>0, MainPairingsStay
<1>2. RuntimeTypeOK'
  BY <1>0, <1>1 DEF RuntimeTypeOK, MainPairings
<1>3. LauncherInv'
  BY <1>0, <1>1, LaunchersWatch
<1>4. Logged
  BY DEF Logged
<1>5. LogInv'
  BY <1>0, <1>4, MainLog
<1>6. QED BY <1>2, <1>3, <1>5 DEF RuntimeInv

(* The call of stop_and_wait keeps the invariant.                            *)
LEMMA MainStopInv ==
  ASSUME RuntimeInv, MainStop
  PROVE  RuntimeInv'
<1>0. /\ SafetyInv /\ MainInv /\ cmd \in CommandState /\ TodoFits /\ generation \in Nat
      /\ CurrentsKnown /\ TypeOK
  BY DEF RuntimeInv, RuntimeTypeOK, MainInv, TypeOK, LogInv, AnnounceInv
<1>1. /\ At("stop") /\ Continue /\ Count /\ StopSession
      /\ UNCHANGED pairingVars /\ launcher' = launcher /\ received' = received
  BY DEF MainStop
<1>2. /\ transition = Nobody /\ generation' = generation /\ worker' = worker /\ token' = token
      /\ sent' = sent /\ cancelled \subseteq cancelled'
      /\ caller'.step = "barrier" /\ caller'.target = NoTarget /\ caller'.generation = 0
  BY <1>1 DEF StopSession, IdleCaller
<1>3. Proceeds /\ flow' = flow
  BY <1>0, <1>1, ContinueProceeds DEF pairingVars
<1>4. MainInv' /\ cmd' \in CommandState
  BY <1>0, <1>1, <1>2, <1>3, MainGoesOn
<1>5. SafetyInv'
  <2>1. Call
    BY <1>1 DEF Call
  <2>2. QED BY <1>0, <2>1, SafetyCalls
<1>6. GenerationGoesOn /\ caller'.generation <= generation'
  BY <1>0, <1>2 DEF GenerationGoesOn
<1>7. /\ Left("cancelPairing", 3)' => Left("cancelPairing", 3)
      /\ Left("cancelPairing", 2)' => Left("cancelPairing", 2)
      /\ Reconnecting' => Reconnecting
  BY <1>0, <1>1, <1>3, CountedDown
<1>8. caller'.step # "restart"
  BY <1>2
<1>9. QED BY <1>1, <1>2, <1>4, <1>5, <1>6, <1>7, <1>8, CallInv

(* A session is invalidated, for good or to be started again.                *)
LEMMA InvalidateInv ==
  ASSUME RuntimeInv, NEW t \in Targets \cup {NoTarget}, NEW step \in {"invalidate", "restart"},
         At(step), Count, Invalidate(t), Continue, step = "invalidate" => t = NoTarget,
         UNCHANGED <<pairingVars, launcher, received>>
  PROVE  RuntimeInv'
<1>0. /\ SafetyInv /\ MainInv /\ cmd \in CommandState /\ TodoFits /\ generation \in Nat
      /\ StartsKnown /\ TypeOK
  BY DEF RuntimeInv, RuntimeTypeOK, MainInv, TypeOK, LogInv, AnnounceInv
<1>1. UNCHANGED pairingVars /\ launcher' = launcher /\ received' = received
  OBVIOUS
<1>2. /\ transition = Nobody /\ generation' = generation + 1 /\ worker' = worker
      /\ token' = token /\ sent' = sent /\ cancelled \subseteq cancelled'
      /\ caller'.step = "barrier" /\ caller'.target = t
      /\ caller'.generation = generation + 1
  BY DEF Invalidate
<1>3. Proceeds /\ flow' = flow
  BY <1>0, ContinueProceeds DEF pairingVars
<1>4. MainInv' /\ cmd' \in CommandState
  BY <1>0, <1>2, <1>3, MainGoesOn
<1>5. SafetyInv'
  <2>1. Call
    BY DEF Call
  <2>2. QED BY <1>0, <2>1, SafetyCalls
<1>6. GenerationGoesOn /\ caller'.generation <= generation'
  BY <1>0, <1>2 DEF GenerationGoesOn
<1>7. /\ Left("cancelPairing", 3)' => Left("cancelPairing", 3)
      /\ Left("cancelPairing", 2)' => Left("cancelPairing", 2)
  BY <1>0, <1>3, CountedDown
<1>8. ~Starting(caller'.generation)
  BY <1>0, <1>2, NotReached
<1>9. QED BY <1>1, <1>2, <1>4, <1>5, <1>6, <1>7, <1>8, CallInv

(* The call of invalidate_and_wait keeps the invariant.                      *)
LEMMA MainInvalidateInv ==
  ASSUME RuntimeInv, MainInvalidate
  PROVE  RuntimeInv'
BY InvalidateInv DEF MainInvalidate

(* Nothing was restarted, or a preview was acknowledged.                     *)
LEMMA MainLooksInv ==
  ASSUME RuntimeInv, NEW step \in {"restart", "acknowledge"}, At(step), Continue,
         UNCHANGED vars \/ AcknowledgePreview,
         UNCHANGED <<pairingVars, launcher, received>>
  PROVE  RuntimeInv'
<1>0. /\ SafetyInv /\ MainInv /\ cmd \in CommandState /\ TodoFits /\ generation \in Nat
      /\ CurrentsKnown /\ CallerFresh /\ TypeOK
  BY DEF RuntimeInv, RuntimeTypeOK, MainInv, TypeOK, LogInv, AnnounceInv
<1>1. UNCHANGED pairingVars /\ launcher' = launcher /\ received' = received
  OBVIOUS
<1>2. /\ generation' = generation /\ worker' = worker /\ cancelled' = cancelled
      /\ token' = token /\ sent' = sent /\ caller' = caller /\ launched' = launched
  BY DEF AcknowledgePreview, vars, cells
<1>3. Proceeds /\ flow' = flow
  BY <1>0, ContinueProceeds DEF pairingVars
<1>4. MainInv' /\ cmd' \in CommandState
  BY <1>0, <1>2, <1>3, MainGoesOn
<1>5. SafetyInv'
  BY <1>0, SafetyCalls, SafetyUnmoved
<1>6. GenerationGoesOn /\ caller'.generation <= generation'
  BY <1>0, <1>2 DEF GenerationGoesOn, CurrentsKnown
<1>7. /\ Left("cancelPairing", 3)' => Left("cancelPairing", 3)
      /\ Left("cancelPairing", 2)' => Left("cancelPairing", 2)
      /\ Reconnecting' => Reconnecting
  BY <1>0, <1>3, CountedDown
<1>8. caller'.step # "idle" /\ (caller'.target # NoTarget \/ caller'.step = "restart") =>
        ~Starting(caller'.generation)
  BY <1>0, <1>2 DEF CallerFresh
<1>9. QED BY <1>1, <1>2, <1>4, <1>5, <1>6, <1>7, <1>8, CallInv

(* The call of restart keeps the invariant.                                  *)
LEMMA MainRestartInv ==
  ASSUME RuntimeInv, MainRestart
  PROVE  RuntimeInv'
<1>1. cmd.target \in Targets \cup {NoTarget}
  BY DEF RuntimeInv, RuntimeTypeOK, CommandState
<1>2. CASE cmd.target = NoTarget
  BY <1>2, MainLooksInv DEF MainRestart
<1>3. CASE cmd.target # NoTarget
  BY <1>1, <1>3, InvalidateInv DEF MainRestart
<1>4. QED BY <1>2, <1>3

(* The acknowledgement of a preview keeps the invariant.                     *)
LEMMA AcknowledgeInv ==
  ASSUME RuntimeInv, Acknowledge
  PROVE  RuntimeInv'
BY MainLooksInv DEF Acknowledge

(* The method goes on: the runner is crossed, the target reset ...           *)
LEMMA ResetsInv ==
  ASSUME RuntimeInv, CrossBarrier \/ ResetTarget, UNCHANGED <<pairingVars, launcher, cmd, received>>
  PROVE  RuntimeInv'
<1>0. /\ SafetyInv /\ MainInv /\ cmd \in CommandState /\ generation \in Nat
      /\ CurrentsKnown /\ CallerFresh /\ TypeOK
  BY DEF RuntimeInv, RuntimeTypeOK, TypeOK, LogInv, AnnounceInv
<1>1. /\ UNCHANGED pairingVars /\ launcher' = launcher /\ received' = received /\ cmd' = cmd
      /\ flow' = flow
  BY DEF pairingVars
<1>2. /\ generation' = generation /\ worker' = worker /\ cancelled' = cancelled
      /\ token' = token /\ sent' = sent /\ caller.step \notin {"idle", "restart"}
      /\ caller'.step # "restart" /\ caller'.target = caller.target
      /\ caller'.generation = caller.generation
  BY <1>0 DEF CrossBarrier, ResetTarget, cells, TypeOK, CallerState
<1>3. CallerStep
  BY DEF CallerStep
<1>4. MainInv' /\ cmd' \in CommandState
  BY <1>0, <1>1, <1>3, CallerMoves
<1>5. SafetyInv'
  BY <1>0, <1>3, SafetyCalls
<1>6. GenerationGoesOn /\ caller'.generation <= generation'
  BY <1>0, <1>2 DEF GenerationGoesOn, CurrentsKnown
<1>7. /\ Left("cancelPairing", 3)' => Left("cancelPairing", 3)
      /\ Left("cancelPairing", 2)' => Left("cancelPairing", 2)
      /\ Reconnecting' => Reconnecting
  BY <1>1 DEF Left, Reconnecting
<1>8. caller'.step # "idle" /\ (caller'.target # NoTarget \/ caller'.step = "restart") =>
        ~Starting(caller'.generation)
  BY <1>0, <1>2 DEF CallerFresh
<1>9. QED BY <1>1, <1>2, <1>4, <1>5, <1>6, <1>7, <1>8, CallInv

(* ... the token is renewed, so that no worker has it yet ...                *)
LEMMA RenewInv ==
  ASSUME RuntimeInv, RenewToken, UNCHANGED <<pairingVars, launcher, cmd, received>>
  PROVE  RuntimeInv'
<1>0. /\ RuntimeTypeOK /\ SafetyInv /\ MainInv /\ LauncherInv /\ LogInv /\ generation \in Nat
      /\ CurrentsKnown /\ CallerFresh /\ ReconnectFresh /\ Announcing /\ Unannounced
      /\ token \in Nat /\ TypeOK
  BY DEF RuntimeInv, RuntimeTypeOK, TypeOK, LogInv, AnnounceInv
<1>1. /\ UNCHANGED pairingVars /\ launcher' = launcher /\ received' = received /\ cmd' = cmd
      /\ flow' = flow /\ pairing' = pairing
  BY DEF pairingVars
<1>2. /\ generation' = generation /\ worker' = worker /\ cancelled' = cancelled
      /\ token' = token + 1 /\ sent' = sent /\ caller.step = "renew"
  BY DEF RenewToken
<1>3. CallerStep
  BY DEF CallerStep
<1>4. MainInv' /\ SafetyInv' /\ TypeOK'
  BY <1>0, <1>1, <1>3, CallerMoves, SafetyCalls DEF SafetyInv
<1>5. RuntimeTypeOK'
  BY <1>0, <1>1, <1>4 DEF RuntimeTypeOK, pairingVars
<1>6. LauncherInv'
  BY <1>0, <1>1, <1>2, LaunchersStay
<1>7. \/ caller' = IdleCaller
      \/ caller'.step = "restart" /\ caller'.generation = caller.generation
           /\ caller.target # NoTarget
  BY <1>0 DEF RenewToken, TypeOK, CallerState
<1>8. CurrentsKnown'
  <2>1. caller'.generation <= generation'
    BY <1>0, <1>2, <1>7 DEF CurrentsKnown, IdleCaller
  <2>2. QED BY <1>0, <1>2, <2>1 DEF CurrentsKnown
<1>9. OnePerToken'
  <2>1. ASSUME NEW v \in Sessions PROVE worker'[v].token # token'
    <3>1. worker[v].token <= token /\ worker[v].token \in Nat
      BY <1>0, WorkerFields DEF SafetyInv, TokensRetired
    <3>2. QED BY <1>0, <1>2, <3>1
  <2>2. QED BY <2>1 DEF OnePerToken
<1>10. Announcing' /\ GenerationGoesOn /\ Logged /\ Admissions
  BY <1>0, <1>2 DEF Announcing, GenerationGoesOn, Logged, Admissions
<1>11. \A v \in Sessions :
         Pending(v)' /\ worker'[v].token \notin cancelled' => ~Starting(worker'[v].current)
  BY <1>0, <1>1, <1>2 DEF Unannounced, Pending
<1>12. caller'.step # "idle" /\ (caller'.target # NoTarget \/ caller'.step = "restart") =>
         ~Starting(caller'.generation)
  BY <1>0, <1>2, <1>7 DEF CallerFresh, IdleCaller
<1>13. (Left("reconnect", 4) /\ cmd.todo # <<>>)' => ~Starting(generation')
  BY <1>0, <1>1, <1>2 DEF ReconnectFresh, Left
<1>14. LogInv'
  BY <1>0, <1>4, <1>8, <1>9, <1>10, <1>11, <1>12, <1>13, LogMoves
<1>15. QED BY <1>4, <1>5, <1>6, <1>14 DEF RuntimeInv

(* ... and a restart has its worker on a generation never announced.         *)
LEMMA RestartedInv ==
  ASSUME RuntimeInv, NEW w \in Sessions, Restart(w),
         UNCHANGED <<pairingVars, launcher, cmd, received>>
  PROVE  RuntimeInv'
<1>0. /\ RuntimeTypeOK /\ SafetyInv /\ MainInv /\ LauncherInv /\ LogInv /\ generation \in Nat
      /\ CurrentsKnown /\ CallerFresh /\ ReconnectFresh /\ Announcing /\ Unannounced
      /\ token \in Nat /\ TypeOK
  BY DEF RuntimeInv, RuntimeTypeOK, TypeOK, LogInv, AnnounceInv
<1>1. /\ UNCHANGED pairingVars /\ launcher' = launcher /\ received' = received /\ cmd' = cmd
      /\ flow' = flow /\ pairing' = pairing
  BY DEF pairingVars
<1>2. /\ generation' = generation /\ cancelled' = cancelled /\ token' = token /\ sent' = sent
      /\ caller.step = "restart" /\ caller' = IdleCaller /\ worker[w].step = "idle"
      /\ \A v \in Sessions \ {w} : worker'[v] = worker[v]
      /\ worker'[w].step = "spawned" /\ worker'[w].token = token
      /\ worker'[w].current = caller.generation
  BY <1>0 DEF Restart, cells, TypeOK, IdleWorker
<1>3. CallerStep
  BY DEF CallerStep
<1>4. MainInv' /\ SafetyInv' /\ TypeOK'
  BY <1>0, <1>1, <1>3, CallerMoves, SafetyCalls DEF SafetyInv
<1>5. RuntimeTypeOK'
  BY <1>0, <1>1, <1>4 DEF RuntimeTypeOK, pairingVars
<1>6. LauncherInv'
  <2>1. worker[w].step \notin ArmedSteps /\ worker'[w].step \notin ArmedSteps
    BY <1>2, StepSets
  <2>2. QED BY <1>0, <1>1, <1>2, <2>1, LaunchersStay
<1>7. CurrentsKnown'
  <2>1. caller'.generation <= generation'
    BY <1>0, <1>2 DEF IdleCaller
  <2>2. QED BY <1>0, <1>2, <2>1 DEF CurrentsKnown
<1>8. OnePerToken'
  <2>1. \A v \in Sessions \ {w} : worker[v].step = "idle" \/ worker[v].token # token
    <3>1. \A v \in Sessions : worker[v].step = "idle" \/ worker[v].token < token
      BY <1>0, <1>2 DEF SafetyInv, FreshToken
    <3>2. ~(token < token)
      BY <1>0
    <3>3. QED BY <3>1, <3>2
  <2>2. QED BY <1>2, <2>1 DEF OnePerToken
<1>9. Announcing'
  BY <1>0, <1>2, StepSets DEF Announcing
<1>10. GenerationGoesOn /\ Logged /\ Admissions
  BY <1>2, StepSets DEF GenerationGoesOn, Logged, Admissions
<1>11. \A v \in Sessions :
         Pending(v)' /\ worker'[v].token \notin cancelled' => ~Starting(worker'[v].current)
  <2>1. ~Starting(caller.generation)
    BY <1>0, <1>2 DEF CallerFresh
  <2>2. QED BY <1>0, <1>1, <1>2, <2>1 DEF Unannounced, Pending
<1>12. caller'.step = "idle"
  BY <1>2 DEF IdleCaller
<1>13. (Left("reconnect", 4) /\ cmd.todo # <<>>)' => ~Starting(generation')
  BY <1>0, <1>1, <1>2 DEF ReconnectFresh, Left
<1>14. LogInv'
  BY <1>0, <1>4, <1>7, <1>8, <1>9, <1>10, <1>11, <1>12, <1>13, LogMoves
<1>15. QED BY <1>4, <1>5, <1>6, <1>14 DEF RuntimeInv

(* The steps inside a session method keep the invariant.                     *)
LEMMA InSessionControlInv ==
  ASSUME RuntimeInv, InSessionControl
  PROVE  RuntimeInv'
BY ResetsInv, RenewInv, RestartedInv DEF InSessionControl, CallerStep

(* The closure of a launched worker is the only one on its token.            *)
LEMMA LaunchInv ==
  ASSUME RuntimeInv, NEW w \in Sessions, Launch(w)
  PROVE  RuntimeInv'
<1>0. /\ RuntimeTypeOK /\ SafetyInv /\ MainInv /\ LauncherInv /\ LogInv /\ generation \in Nat
      /\ CurrentsKnown /\ CallerFresh /\ ReconnectFresh /\ Announcing /\ Unannounced
      /\ token \in Nat /\ TypeOK /\ cmd \in CommandState /\ TodoFits
      /\ pairing \in Nat /\ pairingToken \in 0..pairing
  BY DEF RuntimeInv, RuntimeTypeOK, TypeOK, LogInv, AnnounceInv, MainInv
<1>1. PICK kind \in LauncherKinds :
        /\ kind = "qr" <=> cmd.op = "startQrPairing"
        /\ kind = "reconnect" <=> cmd.op = "reconnect"
        /\ launcher' = [launcher EXCEPT ![w] =
             [IdleLauncher EXCEPT !.step = "flow", !.kind = kind, !.pairing = pairingToken]]
  BY DEF Launch
<1>2. /\ At("launch") /\ launcher[w].step = "idle" /\ Capture(w) /\ Continue
      /\ UNCHANGED pairingVars /\ received' = received /\ flow' = flow /\ pairing' = pairing
  BY DEF Launch, pairingVars
<1>3. /\ generation' = generation /\ cancelled' = cancelled /\ token' = token /\ sent' = sent
      /\ caller' = caller /\ worker[w].step = "idle"
      /\ \A v \in Sessions \ {w} : worker'[v] = worker[v]
      /\ worker'[w].step = "armed" /\ worker'[w].token = token
      /\ worker'[w].current = generation
  BY <1>0, <1>2 DEF Capture, cells, TypeOK, IdleWorker
<1>4. /\ \A v \in Sessions \ {w} : launcher'[v] = launcher[v]
      /\ launcher'[w].step = "flow" /\ launcher'[w].kind = kind
      /\ launcher'[w].pairing = pairingToken /\ launcher'[w].outcome = "None"
  BY <1>0, <1>1 DEF RuntimeTypeOK, IdleLauncher
<1>5. /\ cmd.op \in {"startQrPairing", "submitManualCode", "reconnect"} /\ Len(cmd.todo) = 1
      /\ cmd.todo # <<>>
  BY <1>0, <1>2, TodoNow DEF Place, At
<1>6. Proceeds /\ cmd'.op = cmd.op /\ cmd'.todo = <<>>
  BY <1>0, <1>2, <1>5, ContinueProceeds, TodoGoesOn
<1>7. SafetyInv' /\ TypeOK' /\ ~launched
  BY <1>0, SafetyLaunches DEF SafetyInv
<1>8. MainInv' /\ cmd' \in CommandState
  BY <1>0, <1>2, <1>3, <1>6, MainGoesOn
<1>9. launcher' \in [Sessions -> LauncherState]
  <2>1. IdleLauncher \in LauncherState /\ "flow" \in LauncherSteps
        /\ kind \in LauncherKinds \cup {"none"} /\ pairingToken \in Nat
    BY <1>0, NoLauncherTyped DEF LauncherSteps
  <2>2. [IdleLauncher EXCEPT !.step = "flow", !.kind = kind, !.pairing = pairingToken]
          \in LauncherState
    BY <2>1 DEF LauncherState
  <2>3. QED BY <1>0, <1>1, <2>2 DEF RuntimeTypeOK
<1>10. RuntimeTypeOK'
  BY <1>0, <1>2, <1>7, <1>8, <1>9 DEF RuntimeTypeOK, pairingVars
<1>11. LauncherInv'
  <2>1. Fits(w)'
    <3>1. kind # "none"
      BY DEF LauncherKinds
    <3>2. QED BY <1>3, <1>4, <3>1 DEF Fits, Carries, ArmedSteps
  <2>2. \A v \in Sessions \ {w} : Fits(v)'
    BY <1>0, <1>3, <1>4 DEF LauncherInv, LauncherFits, Fits, Carries
  <2>3. FlowHeld'
    BY <1>0, <1>2, <1>4 DEF LauncherInv, FlowHeld, FlowSteps
  <2>4. PairingsPast'
    BY <1>0, <1>2, <1>4 DEF LauncherInv, PairingsPast
  <2>5. Retired'
    BY <1>5, <1>6 DEF Retired, Left
  <2>6. QED BY <2>1, <2>2, <2>3, <2>4, <2>5 DEF LauncherInv, LauncherFits
<1>12. CurrentsKnown'
  BY <1>0, <1>3 DEF CurrentsKnown
<1>13. OnePerToken'
  <2>1. \A v \in Sessions \ {w} : worker[v].step = "idle" \/ worker[v].token # token
    <3>1. \A v \in Sessions : worker[v].step = "idle" \/ worker[v].token < token
      BY <1>0, <1>7 DEF SafetyInv, FreshToken
    <3>2. ~(token < token)
      BY <1>0
    <3>3. QED BY <3>1, <3>2
  <2>2. QED BY <1>3, <2>1 DEF OnePerToken
<1>14. Announcing'
  BY <1>0, <1>3, StepSets DEF Announcing
<1>15. GenerationGoesOn /\ Logged /\ Admissions
  BY <1>3, StepSets DEF GenerationGoesOn, Logged, Admissions
<1>16. \A v \in Sessions :
         Pending(v)' /\ worker'[v].token \notin cancelled' => ~Starting(worker'[v].current)
  <2>1. \A v \in Sessions \ {w} :
          Pending(v)' /\ worker'[v].token \notin cancelled' => ~Starting(worker'[v].current)
    BY <1>0, <1>3, <1>4 DEF Unannounced, Pending
  <2>2. ASSUME Pending(w)' PROVE ~Starting(worker'[w].current)
    <3>1. cmd.op = "reconnect"
      BY <1>1, <1>3, <1>4, <2>2 DEF Pending, PendingSteps
    <3>2. 1 <= 4
      OBVIOUS
    <3>3. Left("reconnect", 4)
      BY <1>5, <3>1, <3>2, Zenon DEF Left
    <3>4. QED BY <1>0, <1>3, <1>5, <3>3 DEF ReconnectFresh
  <2>3. QED BY <2>1, <2>2
<1>17. caller'.step # "idle" /\ (caller'.target # NoTarget \/ caller'.step = "restart") =>
         ~Starting(caller'.generation)
  BY <1>0, <1>3 DEF CallerFresh
<1>18. (Left("reconnect", 4) /\ cmd.todo # <<>>)' => ~Starting(generation')
  BY <1>6
<1>19. LogInv'
  BY <1>0, <1>7, <1>12, <1>13, <1>14, <1>15, <1>16, <1>17, <1>18, LogMoves
<1>20. QED BY <1>7, <1>8, <1>10, <1>11, <1>19 DEF RuntimeInv

(* Every step of the main thread keeps the invariant.                        *)
LEMMA MainStepInv ==
  ASSUME RuntimeInv, AnswersPast, MainStep
  PROVE  RuntimeInv'
<1>1. MainSimple \/ MainStop \/ MainInvalidate \/ MainRestart \/ Acknowledge
        \/ ReadGeneration \/ Reply \/ ReplyFailed \/ InSessionControl \/ \E w \in Sessions : Launch(w)
  BY DEF MainStep, MainSimple
<1>2. QED
  BY <1>1, MainSimpleInv, MainStopInv, MainInvalidateInv, MainRestartInv, AcknowledgeInv,
     ReadGenerationInv, ReplyInv, ReplyFailedInv, InSessionControlInv, LaunchInv

-----------------------------------------------------------------------------
(* The invariant of the runtime.                                             *)

(* The invariant holds when the helper starts.                               *)
LEMMA RuntimeStart == RuntimeInit => RuntimeInv
<1> SUFFICES ASSUME RuntimeInit PROVE RuntimeInv
  OBVIOUS
<1>1. /\ generation = 0 /\ previewReady = {} /\ token = 0 /\ cancelled = {}
      /\ runner = Nobody /\ transition = Nobody /\ target = NoTarget
      /\ worker = [w \in Sessions |-> IdleWorker]
      /\ caller = IdleCaller /\ sent = <<>> /\ acked = {} /\ launched = FALSE /\ calls = 0
  BY DEF RuntimeInit, Init
<1>2. /\ pairing = 0 /\ pairingToken = 0 /\ withdrawn = {} /\ flow = Nobody /\ qr = 0
      /\ stored \in BOOLEAN /\ trusted = stored
      /\ launcher = [w \in Sessions |-> IdleLauncher] /\ cmd = IdleCommand /\ received = 0
  BY DEF RuntimeInit
<1>3. /\ \A w \in Sessions : worker[w].step = "idle" /\ worker[w].token = 0 /\ worker[w].current = 0
      /\ caller.step = "idle" /\ caller.generation = 0 /\ caller.target = NoTarget
  BY <1>1 DEF IdleWorker, IdleCaller
<1>4. \A w \in Sessions : launcher[w].step = "idle" /\ launcher[w].outcome = "None"
                            /\ launcher[w].pairing = 0
  BY <1>2, NoLauncherTyped
<1>5. cmd \in CommandState /\ cmd.todo = <<>> /\ cmd.op = "none"
  BY <1>2, IdleTodo
<1>6. TypeOK
  <2>1. worker \in [Sessions -> WorkerState]
    BY <1>1, IdleTyped
  <2>2. sent \in Seq(EventSet)
    BY <1>1
  <2>3. caller \in CallerState
    BY <1>1, SessionControlAssumption DEF IdleCaller, CallerState, CallerSteps
  <2>4. /\ generation \in Nat /\ token \in Nat /\ calls \in 0..MaxCalls
        /\ previewReady \in SUBSET Nat /\ cancelled \in SUBSET Nat /\ acked \in SUBSET Nat
        /\ launched \in BOOLEAN
    <3>1. previewReady \in SUBSET Nat /\ cancelled \in SUBSET Nat /\ acked \in SUBSET Nat
      BY <1>1
    <3>2. generation \in Nat /\ token \in Nat
      BY <1>1
    <3>3. calls \in 0..MaxCalls
      <4>1. MaxCalls \in Nat /\ calls = 0
        BY <1>1, SessionControlAssumption
      <4>2. QED BY ONLY <4>1
    <3>4. launched \in BOOLEAN
      BY <1>1
    <3>5. QED BY <3>1, <3>2, <3>3, <3>4
  <2>5. /\ target \in Targets \cup {NoTarget}
        /\ runner \in Sessions \cup {Nobody} /\ transition \in Sessions \cup {Nobody}
    BY <1>1
  <2>6. QED BY <2>1, <2>2, <2>3, <2>4, <2>5 DEF TypeOK
<1>7. RuntimeTypeOK
  <2>1. launcher \in [Sessions -> LauncherState]
    BY <1>2, NoLauncherTyped
  <2>2. received \in 0..MaxCommands
    BY <1>2, HelperRuntimeAssumption
  <2>3. stored \in BOOLEAN /\ trusted \in BOOLEAN
    BY <1>2
  <2>4. QED BY <1>2, <1>5, <1>6, <2>1, <2>2, <2>3 DEF RuntimeTypeOK
<1>8. SafetyInv
  <2>1. LocksHeld BY <1>1, <1>3, StepSets, SessionControlAssumption DEF LocksHeld
  <2>2. TokensRetired BY <1>1, <1>3 DEF TokensRetired
  <2>3. FreshToken BY <1>1, <1>3 DEF FreshToken
  <2>4. AdmittedOnToken BY <1>3, StepSets DEF AdmittedOnToken
  <2>5. AckRemembered BY <1>1 DEF AckRemembered
  <2>6. QED BY <1>6, <2>1, <2>2, <2>3, <2>4, <2>5 DEF SafetyInv
<1>9. MainInv
  <2>1. ~Failing /\ ~MainHolds /\ ~SessionOver
    BY <1>5 DEF Failing, MainHolds, SessionOver, Left
  <2>2. QED BY <1>3, <1>5, <2>1 DEF MainInv, TodoFits, Returned, StopDone, MainFlow
<1>10. LauncherInv
  <2>1. \A w \in Sessions : Fits(w)
    BY <1>3, <1>4 DEF Fits, Carries, ArmedSteps
  <2>2. FlowHeld BY <1>4 DEF FlowHeld, FlowSteps
  <2>3. PairingsPast BY <1>2, <1>4 DEF PairingsPast
  <2>4. Retired BY <1>5 DEF Retired, Left
  <2>5. QED BY <2>1, <2>2, <2>3, <2>4 DEF LauncherInv, LauncherFits
<1>11. LogInv
  <2>1. DOMAIN sent = {}
    BY <1>1
  <2>2. StartsKnown /\ GenerationStartsOnce /\ Floors /\ NoStartAfterEnd
    BY <2>1 DEF StartsKnown, GenerationStartsOnce, Floors, NoStartAfterEnd
  <2>3. CurrentsKnown
    BY <1>1, <1>3 DEF CurrentsKnown
  <2>4. OnePerToken /\ Announcing
    BY <1>3, StepSets DEF OnePerToken, Announcing
  <2>5. Unannounced /\ CallerFresh
    BY <1>3 DEF Unannounced, CallerFresh, Pending, PendingSteps
  <2>6. ReconnectFresh
    BY <1>5 DEF ReconnectFresh, Left
  <2>7. QED BY <2>2, <2>3, <2>4, <2>5, <2>6 DEF LogInv, AnnounceInv
<1>12. QED BY <1>7, <1>8, <1>9, <1>10, <1>11 DEF RuntimeInv

(* A step that changes nothing keeps the invariant.                          *)
LEMMA RuntimeStutters == ASSUME RuntimeInv, UNCHANGED runtimeVars PROVE RuntimeInv'
<1>0. RuntimeTypeOK /\ TypeOK /\ SafetyInv /\ MainInv /\ LauncherInv /\ LogInv /\ CurrentsKnown
  BY DEF RuntimeInv, RuntimeTypeOK, LogInv, AnnounceInv
<1>1. /\ UNCHANGED vars /\ UNCHANGED pairingVars /\ launcher' = launcher /\ cmd' = cmd
      /\ received' = received
  BY DEF runtimeVars
<1>2. /\ caller' = caller /\ worker' = worker /\ launched' = launched /\ token' = token
      /\ sent' = sent /\ generation' = generation /\ cancelled' = cancelled /\ flow' = flow
  BY <1>1 DEF vars, cells, pairingVars
<1>3. SafetyInv' /\ MainInv' /\ cmd' \in CommandState
  BY <1>0, <1>1, <1>2, SafetyUnmoved, MainStays DEF RuntimeTypeOK
<1>4. GenerationGoesOn /\ caller'.generation <= generation'
  BY <1>0, <1>2 DEF GenerationGoesOn, CurrentsKnown
<1>5. caller'.step # "idle" /\ (caller'.target # NoTarget \/ caller'.step = "restart") =>
        ~Starting(caller'.generation)
  BY <1>0, <1>2 DEF LogInv, AnnounceInv, CallerFresh
<1>6. /\ Left("cancelPairing", 3)' => Left("cancelPairing", 3)
      /\ Left("cancelPairing", 2)' => Left("cancelPairing", 2)
      /\ Reconnecting' => Reconnecting
  BY <1>1 DEF Left, Reconnecting
<1>7. QED BY <1>1, <1>2, <1>3, <1>4, <1>5, <1>6, CallInv

(* Reading a command keeps the invariant.                                    *)
LEMMA ReceiveInv ==
  ASSUME RuntimeInv, NEW op \in Commands, Receive(op)
  PROVE  RuntimeInv'
BY AcceptInv, CommandsAreKnown DEF Receive

(* Every step keeps the invariant.                                           *)
LEMMA RuntimeNextInv == ASSUME RuntimeInv, AnswersPast, RuntimeNext PROVE RuntimeInv'
<1>1. ASSUME NEW w \in Sessions,
             LauncherStep(w) \/ PhoneStep(w) \/ LifetimeExpires(w)
      PROVE  RuntimeInv'
  BY <1>1, LauncherStepInv
<1>2. ASSUME NEW w \in Sessions, SessionWorkerStep(w) \/ SessionChildStep(w) PROVE RuntimeInv'
  BY <1>2, SessionStepInv
<1>3. QED BY <1>1, <1>2, ReceiveInv, MainStepInv DEF RuntimeNext

(* The workers leave the command of the main thread alone.                   *)
LEMMA CommandStays ==
  ASSUME NEW w \in Sessions,
         LauncherStep(w) \/ PhoneStep(w) \/ LifetimeExpires(w) \/ SessionWorkerStep(w)
           \/ SessionChildStep(w)
  PROVE  cmd' = cmd
BY DEF LauncherStep, PhoneStep, LifetimeExpires, EnterFlow, TellProgress, FlowCancelled,
       ClaimPairing, LosePairing, StartDisconnect, Disconnected, DropQr, SaveDevice,
       RememberDevice, AdvanceGeneration, ReportLinked, StartSession, ReportPairingOver,
       FailReconnect, TellFailure, DropReconnect, ReportProgress, FlowFails, FlowTimesOut,
       FlowLinks, LeaveFlow, SessionWorkerStep, SessionChildStep

(* The generation a command carries is 0, or was read before or just now.    *)
LEMMA CommandNames ==
  ASSUME RuntimeTypeOK, [RuntimeNext]_runtimeVars
  PROVE  cmd'.generation \in {0, cmd.generation, generation}
<1>0. cmd \in CommandState /\ target \in Targets \cup {NoTarget}
  BY DEF RuntimeTypeOK, TypeOK
<1>1. CASE Continue \/ Abandon
  <2>1. CASE Continue
    BY <1>0, <2>1 DEF Continue, CommandState
  <2>2. CASE Abandon
    BY <2>2 DEF Abandon, IdleCommand
  <2>3. QED BY <1>1, <2>1, <2>2
<1>2. ASSUME NEW op \in Commands, Receive(op) PROVE cmd'.generation = generation
  BY <1>2 DEF Receive, Accept, IdleCommand
<1>3. CASE ReadTarget \/ NeedTarget \/ RunInput \/ ReadGeneration
  BY <1>0, <1>1, <1>3 DEF ReadTarget, NeedTarget, RunInput, ReadGeneration, CommandState
<1>4. CASE RefuseIfLive \/ NeedTrusted \/ StartQr \/ Forget \/ UseStore
  BY <1>1, <1>4 DEF RefuseIfLive, NeedTrusted, StartQr, Forget, UseStore
<1>5. CASE MainStop \/ MainInvalidate \/ MainRestart \/ Acknowledge \/ CancelToken \/ Retire
             \/ Supersede \/ CancelQr \/ CrossFlow \/ LockFlow \/ UnlockFlow \/ Reply \/ ReplyFailed
  BY <1>1, <1>5 DEF MainStop, MainInvalidate, MainRestart, Acknowledge, CancelToken, Retire,
                    Supersede, CancelQr, CrossFlow, LockFlow, UnlockFlow, Reply, ReplyFailed
<1>6. CASE InSessionControl
  BY <1>6 DEF InSessionControl
<1>7. ASSUME NEW w \in Sessions, Launch(w) PROVE cmd'.generation \in {0, cmd.generation, generation}
  BY <1>1, <1>7 DEF Launch
<1>8. ASSUME NEW w \in Sessions,
             LauncherStep(w) \/ PhoneStep(w) \/ LifetimeExpires(w) \/ SessionWorkerStep(w)
               \/ SessionChildStep(w)
      PROVE  cmd' = cmd
  BY <1>8, CommandStays
<1>9. CASE UNCHANGED runtimeVars
  BY <1>9 DEF runtimeVars
<1>10. QED
  BY <1>2, <1>3, <1>4, <1>5, <1>6, <1>7, <1>8, <1>9 DEF RuntimeNext, MainStep

(* The generation only grows.                                                *)
LEMMA GenerationOnward ==
  ASSUME TypeOK, [RuntimeNext]_runtimeVars
  PROVE  generation' \in {generation, generation + 1}
<1>1. CASE UNCHANGED vars \/ UNCHANGED quiet
  BY <1>1 DEF vars, quiet, cells
<1>2. ASSUME NEW op \in Commands, Receive(op) PROVE generation' \in {generation, generation + 1}
  BY <1>2 DEF Receive, Accept, vars, cells
<1>3. CASE RefuseIfLive \/ NeedTrusted \/ ReadTarget \/ NeedTarget \/ CancelToken \/ Retire
             \/ Supersede \/ StartQr \/ CancelQr \/ CrossFlow \/ LockFlow \/ UnlockFlow \/ Forget
             \/ UseStore \/ RunInput \/ ReadGeneration \/ Reply \/ ReplyFailed
  BY <1>1, <1>3 DEF RefuseIfLive, NeedTrusted, ReadTarget, NeedTarget, CancelToken, Retire,
                    Supersede, StartQr, CancelQr, CrossFlow, LockFlow, UnlockFlow, Forget,
                    UseStore, RunInput, ReadGeneration, Reply, ReplyFailed
<1>4. CASE MainStop \/ MainInvalidate \/ MainRestart \/ Acknowledge \/ InSessionControl
             \/ \E w \in Sessions : Launch(w)
  BY <1>4 DEF MainStop, MainInvalidate, MainRestart, Acknowledge, InSessionControl, Launch,
                    StopSession, Invalidate, AcknowledgePreview, Capture, CallerStep, CrossBarrier,
                    ResetTarget, RenewToken, Restart, vars, cells
<1>5. ASSUME NEW w \in Sessions, LauncherStep(w) \/ PhoneStep(w) \/ LifetimeExpires(w)
      PROVE  generation' \in {generation, generation + 1}
  BY <1>5 DEF LauncherStep, PhoneStep, LifetimeExpires, EnterFlow, TellProgress, FlowCancelled,
              ClaimPairing, LosePairing, StartDisconnect, Disconnected, DropQr, SaveDevice,
              RememberDevice, AdvanceGeneration, ReportLinked, StartSession, ReportPairingOver,
              FailReconnect, TellFailure, DropReconnect, ReportProgress, FlowFails, FlowTimesOut,
              FlowLinks, LeaveFlow, Discard, Spawn, Advance, AdvanceFailed, vars, quiet, cells
<1>6. ASSUME NEW w \in Sessions, SessionWorkerStep(w) \/ SessionChildStep(w)
      PROVE  generation' \in {generation, generation + 1}
  BY <1>6, WorkerFrame DEF SessionWorkerStep, SessionChildStep
<1>7. CASE UNCHANGED runtimeVars
  BY <1>1, <1>7 DEF runtimeVars
<1>8. QED
  BY <1>2, <1>3, <1>4, <1>5, <1>6, <1>7 DEF RuntimeNext, MainStep

(* So what a reply names stays reached.                                      *)
LEMMA AnswersStayPast ==
  ASSUME RuntimeInv, AnswersPast, [RuntimeNext]_runtimeVars
  PROVE  AnswersPast'
<1>1. RuntimeTypeOK /\ TypeOK /\ generation \in Nat /\ cmd.generation \in Nat
  BY DEF RuntimeInv, RuntimeTypeOK, TypeOK, CommandState
<1>2. generation' \in {generation, generation + 1}
  BY <1>1, GenerationOnward
<1>3. cmd'.generation \in {0, cmd.generation, generation}
  BY <1>1, CommandNames
<1>4. QED BY <1>1, <1>2, <1>3 DEF AnswersPast

(* The runtime keeps its invariant, whatever the panel sends, whatever the   *)
(* phone does and however its threads interleave.                            *)
THEOREM RuntimeInvariant == RuntimeSpec => [](RuntimeInv /\ AnswersPast)
<1>1. RuntimeInv /\ AnswersPast /\ [RuntimeNext]_runtimeVars => RuntimeInv'
  BY RuntimeNextInv, RuntimeStutters
<1>2. RuntimeInv /\ AnswersPast /\ [RuntimeNext]_runtimeVars => AnswersPast'
  BY AnswersStayPast
<1>3. RuntimeInit => AnswersPast
  BY DEF RuntimeInit, Init, AnswersPast, IdleCommand
<1>4. QED BY <1>1, <1>2, <1>3, RuntimeStart, PTL DEF RuntimeSpec

(* Every variable of the runtime keeps to its type (runtime.rs:426-505).     *)
THEOREM RuntimeTypes == RuntimeSpec => []RuntimeTypeOK
<1>1. RuntimeInv => RuntimeTypeOK
  BY DEF RuntimeInv
<1>2. QED BY <1>1, RuntimeInvariant, PTL

(* No generation is announced twice: the pairing worker, the retry and the   *)
(* main thread each announce on a number nobody announced before             *)
(* (runtime.rs:275, 354, 711, 812).                                          *)
THEOREM AnnouncedOnce == RuntimeSpec => []GenerationStartsOnce
<1>1. RuntimeInv => GenerationStartsOnce
  BY DEF RuntimeInv, LogInv, AnnounceInv
<1>2. QED BY <1>1, RuntimeInvariant, PTL

(* After a reply that ended a session, no session of an older generation is  *)
(* told as starting or started (runtime.rs:352-369, 217-254).                *)
THEOREM EndIsLast == RuntimeSpec => []NoStartAfterEnd
<1>1. RuntimeInv => NoStartAfterEnd
  BY DEF RuntimeInv, LogInv
<1>2. QED BY <1>1, RuntimeInvariant, PTL

(* Where a stop was answered, nobody is admitted.                            *)
LEMMA StopsForGood == ASSUME RuntimeInv PROVE StopIsFinal
<1>0. SafetyInv /\ MainInv /\ cmd \in CommandState /\ token \in Nat
  BY DEF RuntimeInv, RuntimeTypeOK, TypeOK, SafetyInv
<1>1. SUFFICES ASSUME Done("stopSession") \/ Done("startOver") \/ (Done("input") /\ ~launched),
                      NEW w \in Sessions, Running(w)
               PROVE  FALSE
  BY DEF StopIsFinal
<1>2. cmd.todo = <<>> /\ cmd.op \in {"stopSession", "startOver", "input"}
  BY <1>1 DEF Done
<1>3. caller.step = "idle"
  BY <1>0, <1>2 DEF MainInv, Returned
<1>4. ~launched
  <2>1. Len(cmd.todo) = 0 /\ 0 <= 1 /\ 0 <= 4
    BY <1>2
  <2>2. CASE cmd.op \in {"stopSession", "startOver"}
    <3>1. SessionOver
      BY <2>1, <2>2, Zenon DEF SessionOver, Left
    <3>2. QED BY <1>0, <1>3, <3>1 DEF MainInv, StopDone, Ended
  <2>3. CASE cmd.op = "input"
    BY <1>1, <2>3 DEF Done
  <2>4. QED BY <1>2, <2>2, <2>3
<1>5. worker[w].step # "idle" /\ worker[w].token = token
  BY <1>0, <1>1, StepSets DEF Running, SafetyInv, AdmittedOnToken
<1>6. ~(token < token)
  BY <1>0
<1>7. QED BY <1>0, <1>4, <1>5, <1>6 DEF SafetyInv, FreshToken

(* After the answer to stop-session, start-over or a failed input no scrcpy  *)
(* is left, whichever worker had already won (runtime.rs:1006-1014).         *)
THEOREM StoppedForGood == RuntimeSpec => []StopIsFinal
BY StopsForGood, RuntimeInvariant, PTL

-----------------------------------------------------------------------------
(* What may still be written when cancel-pairing was answered.               *)

(* The last event of a log is the one that was appended.                     *)
LEMMA LastWritten ==
  ASSUME TypeOK, NEW e \in EventSet, sent' = Append(sent, e)
  PROVE  Last(sent') = e
<1>1. sent \in Seq(EventSet)
  BY DEF TypeOK
<1>2. Len(sent') = Len(sent) + 1 /\ sent'[Len(sent) + 1] = e
  BY <1>1, AppendProperties
<1>3. QED BY <1>2 DEF Last

(* A session worker writes nothing about a pairing.                          *)
LEMMA SessionsTellSessions ==
  ASSUME TypeOK, NEW w \in Sessions, WorkerStep(w) \/ ScrcpyStep(w), sent' # sent
  PROVE  \E type \in SessionEvents, g \in Nat : sent' = Append(sent, Event(type, g))
<1>1. worker[w].current \in Nat
  BY WorkerFields
<1>2. Announce(w) \/ ConfirmStarted(w) \/ ReportEnd(w)
  BY DEF WorkerStep, ScrcpyStep, SpawnStale, SpawnCurrent, LockRunner, SetTarget, RefuseStart,
         AdmitStart, RunScrcpy, RunStopped, StartDeadline, ExitSuperseded, ClaimRetry, KeepResult,
         EndSilently, ClaimEnd, ClearTarget, CaptureReady, RunUnavailable, ScrcpyExits
<1>3. CASE Announce(w)
  BY <1>1, <1>3 DEF Announce, SessionEvents
<1>4. CASE ConfirmStarted(w)
  BY <1>1, <1>4 DEF ConfirmStarted, SessionEvents
<1>5. CASE ReportEnd(w)
  BY <1>1, <1>5 DEF ReportEnd, EndEvent, SessionEvents
<1>6. QED BY <1>2, <1>3, <1>4, <1>5

(* A launched worker writes its progress, or how it ended.                   *)
Endings ==
  {"Connected", "Paired", "Failure", "QrTimedOut", "PairingCancelled", "ReconnectFailed"}

(* A worker writes the progress of its pairing, or one of its endings.       *)
LEMMA LaunchersTell ==
  ASSUME RuntimeTypeOK, LauncherFits, NEW w \in Sessions,
         LauncherStep(w) \/ PhoneStep(w) \/ LifetimeExpires(w), sent' # sent
  PROVE  \/ TellProgress(w)
         \/ \E type \in Endings, g \in Nat : sent' = Append(sent, Event(type, g))
<1>0. /\ worker[w].current \in Nat /\ launcher[w].told \in Nat
      /\ launcher[w].outcome \in Outcomes /\ Fits(w)
  BY WorkerFields DEF RuntimeTypeOK, LauncherState, LauncherFits
<1>1. TellProgress(w) \/ ReportLinked(w) \/ ReportPairingOver(w) \/ TellFailure(w)
  BY DEF LauncherStep, PhoneStep, LifetimeExpires, EnterFlow, FlowCancelled, ClaimPairing,
         LosePairing, StartDisconnect, Disconnected, DropQr, SaveDevice, RememberDevice,
         AdvanceGeneration, StartSession, FailReconnect, DropReconnect, ReportProgress, FlowFails,
         FlowTimesOut, FlowLinks, LeaveFlow, Advance, AdvanceFailed, Spawn, Discard, vars
<1>2. CASE ReportLinked(w)
  BY <1>0, <1>2 DEF ReportLinked, Emit, Endings
<1>3. CASE ReportPairingOver(w)
  <2>1. launcher[w].outcome \in {"Failure", "TimedOut", "Cancelled"}
    BY <1>0, <1>3 DEF ReportPairingOver, Fits, Outcomes
  <2>2. PairingOver[launcher[w].outcome] \in {"Failure", "QrTimedOut", "PairingCancelled"}
    <3>1. CASE launcher[w].outcome = "Failure" BY <3>1 DEF PairingOver
    <3>2. CASE launcher[w].outcome = "TimedOut" BY <3>2 DEF PairingOver
    <3>3. CASE launcher[w].outcome = "Cancelled" BY <3>3 DEF PairingOver
    <3>4. QED BY <2>1, <3>1, <3>2, <3>3
  <2>3. PairingOver[launcher[w].outcome] \in Endings /\ 0 \in Nat
    BY <2>2 DEF Endings
  <2>4. QED BY <1>3, <2>3 DEF ReportPairingOver, Emit
<1>4. CASE TellFailure(w)
  BY <1>0, <1>4 DEF TellFailure, Emit, Endings
<1>5. QED BY <1>1, <1>2, <1>3, <1>4

(* Cancel-pairing is answered only when no worker is left between its test   *)
(* and its event: the flow barrier waited for it, and the pairing it held    *)
(* is retired for all that come to the test later (runtime.rs:936-941).      *)
THEOREM SilentAfterCancel == RuntimeSpec => NoProgressAfterCancel
<1> DEFINE Step == Done("cancelPairing") /\ cmd' = cmd /\ sent' # sent =>
                     Last(sent') # Event("Pairing", 0)
<1>1. ASSUME RuntimeInv, RuntimeNext, Done("cancelPairing"), cmd' = cmd, sent' # sent
      PROVE  Last(sent') # Event("Pairing", 0)
  <2>0. /\ RuntimeTypeOK /\ TypeOK /\ LauncherInv /\ LauncherFits /\ cmd.todo = <<>>
        /\ cmd.op = "cancelPairing"
    BY <1>1 DEF RuntimeInv, RuntimeTypeOK, LauncherInv, Done
  <2>1. ASSUME NEW type \in SessionEvents \cup Endings, NEW g \in Nat,
               sent' = Append(sent, Event(type, g))
        PROVE  Last(sent') # Event("Pairing", 0)
    <3>1. type # "Pairing" /\ type \in EventTypes
      BY <2>1, KnownTypes DEF SessionEvents, Endings
    <3>2. Event(type, g) \in EventSet
      BY <2>1, <3>1 DEF Event, EventSet
    <3>3. Last(sent') = Event(type, g)
      BY <2>0, <2>1, <3>2, LastWritten
    <3>4. QED BY <3>1, <3>3 DEF Event
  <2>2. ASSUME NEW op \in Commands, Receive(op) PROVE FALSE
    BY <1>1, <2>2 DEF Receive, Accept, vars
  <2>3. CASE MainStep
    <3>1. \A step : ~At(step)
      BY <2>0 DEF At
    <3>2. CallerStep
      BY <2>3, <3>1
         DEF MainStep, RefuseIfLive, NeedTrusted, ReadTarget, NeedTarget, MainStop, MainInvalidate,
             MainRestart, Acknowledge, CancelToken, Retire, Supersede, StartQr, CancelQr, CrossFlow,
             LockFlow, UnlockFlow, Forget, UseStore, RunInput, ReadGeneration, Reply, ReplyFailed,
             Launch, InSessionControl
    <3>3. sent' = sent
      BY <3>2 DEF CallerStep, CrossBarrier, ResetTarget, RenewToken, Restart
    <3>4. QED BY <1>1, <3>3
  <2>4. ASSUME NEW w \in Sessions, LauncherStep(w) \/ PhoneStep(w) \/ LifetimeExpires(w)
        PROVE  Last(sent') # Event("Pairing", 0)
    <3>1. ~TellProgress(w)
      <4>1. Len(cmd.todo) = 0 /\ 0 <= 2
        BY <2>0
      <4>2. Left("cancelPairing", 2)
        BY <2>0, <4>1, Zenon DEF Left
      <4>3. launcher[w].step # "progress"
        BY <2>0, <4>2 DEF LauncherInv, Retired
      <4>4. QED BY <4>3 DEF TellProgress
    <3>2. \E type \in Endings, g \in Nat : sent' = Append(sent, Event(type, g))
      BY <1>1, <2>0, <2>4, <3>1, LaunchersTell
    <3>3. QED BY <2>1, <3>2
  <2>5. ASSUME NEW w \in Sessions, SessionWorkerStep(w) \/ SessionChildStep(w)
        PROVE  Last(sent') # Event("Pairing", 0)
    <3>1. \E type \in SessionEvents, g \in Nat : sent' = Append(sent, Event(type, g))
      BY <1>1, <2>0, <2>5, SessionsTellSessions DEF SessionWorkerStep, SessionChildStep
    <3>2. QED BY <2>1, <3>1
  <2>6. QED BY <1>1, <2>2, <2>3, <2>4, <2>5 DEF RuntimeNext
<1>2. RuntimeInv /\ [RuntimeNext]_runtimeVars => [Step]_runtimeVars
  BY <1>1 DEF Step
<1>3. QED BY <1>2, RuntimeInvariant, PTL DEF RuntimeSpec, NoProgressAfterCancel, Step

(* What SessionControl promises it keeps under the callers it really has:    *)
(* one scrcpy at a time, always on the token the main thread holds, and none *)
(* between a barrier and the return of the method (runtime.rs:217, 361-369). *)
THEOREM SessionsKept == RuntimeSpec => [](OneScrcpy /\ RunningIsCancellable /\ ReapedBeforeReturn)
<1>1. ASSUME RuntimeInv PROVE OneScrcpy /\ RunningIsCancellable /\ ReapedBeforeReturn
  BY <1>1, SafeSessions DEF RuntimeInv
<1>2. QED BY <1>1, RuntimeInvariant, PTL

-----------------------------------------------------------------------------
(* The runtime as a caller of SessionControl.                                *)

(* An event the sessions do not write.                                       *)
TellsElse ==
  \E type \in EventTypes \ SessionEvents, g \in Nat : sent' = Append(sent, Event(type, g))
DropsClosure(w) ==
  /\ worker[w].step \in ArmedSteps /\ Finish(w)
  /\ UNCHANGED <<cells, locks, caller, acked, launched, calls>>

(* What a step of the runtime is to SessionControl: one of its own, or an    *)
(* event of another kind, with which a closure may be dropped.               *)
DrivenStep ==
  \/ Next
  \/ TellsElse /\ (UNCHANGED quiet \/ \E w \in Sessions : DropsClosure(w))
Driven == [DrivenStep]_vars

(* A preview is acknowledged only after its start was told.                  *)
Acknowledging ==
  cmd.op = "previewReady" /\ cmd.todo # <<>> => Sent(Event("SessionStarted", cmd.generation))

(* Telling an event that SessionControl has no name for.                     *)
LEMMA Elsewhere ==
  ASSUME NEW type \in EventTypes \ SessionEvents, NEW g \in Nat, Emit(Event(type, g)),
         UNCHANGED quiet
  PROVE  Driven
BY DEF Driven, DrivenStep, TellsElse, Emit

(* The event types that are not told by a session.                           *)
LEMMA NotOfSessions ==
  {"SessionStopped", "StartOverComplete", "Connecting", "Connected", "Paired", "PairingCancelled",
   "QrWaiting", "QrTimedOut", "Pairing", "ManualCodeRequired", "PreferencesUpdated",
   "PreferencesRestarted", "ScrcpyArgsUpdated", "ScrcpyArgsRestarted", "Failure", "Refused",
   "InputFailed", "ReconnectFailed"} \subseteq EventTypes \ SessionEvents
BY DEF EventTypes, SessionEvents

(* The steps of the pairing and reconnect workers.                           *)
LEMMA LauncherDrives ==
  ASSUME RuntimeInv, NEW w \in Sessions, LauncherStep(w) \/ PhoneStep(w) \/ LifetimeExpires(w)
  PROVE  Driven
<1>0. /\ RuntimeTypeOK /\ TypeOK /\ LauncherFits /\ Fits(w)
      /\ worker[w].current \in Nat /\ launcher[w].told \in Nat /\ launcher[w].outcome \in Outcomes
  BY WorkerFields DEF RuntimeInv, RuntimeTypeOK, LauncherInv, LauncherFits, LauncherState
<1>1. CASE UNCHANGED vars
  BY <1>1 DEF Driven
<1>2. CASE TellProgress(w)
  BY <1>2, NotOfSessions, Elsewhere DEF TellProgress
<1>3. CASE ReportLinked(w)
  <2> DEFINE type == IF launcher[w].kind = "reconnect" THEN "Connected" ELSE "Paired"
  <2>1. type \in EventTypes \ SessionEvents
    BY NotOfSessions
  <2>2. Emit(Event(type, worker[w].current)) /\ UNCHANGED quiet
    BY <1>3 DEF ReportLinked
  <2> HIDE DEF type
  <2>3. QED BY <1>0, <2>1, <2>2, Elsewhere
<1>4. CASE ReportPairingOver(w)
  <2>1. sent' # sent /\ RuntimeTypeOK /\ LauncherFits
    <3>1. sent \in Seq(EventSet)
      BY <1>0 DEF TypeOK
    <3>2. \A e : Append(sent, e) # sent
      <4>1. ASSUME NEW e, Append(sent, e) = sent PROVE FALSE
        <5>1. Len(Append(sent, e)) = Len(sent) + 1 /\ Len(sent) \in Nat
          BY <3>1
        <5>2. QED BY <4>1, <5>1
      <4>2. QED BY <4>1
    <3>3. QED BY <1>0, <1>4, <3>2 DEF ReportPairingOver, Emit
  <2>2. \E type \in Endings, g \in Nat : sent' = Append(sent, Event(type, g))
    <3>1. LauncherStep(w)
      BY <1>4 DEF LauncherStep
    <3>2. ~TellProgress(w)
      BY <1>4 DEF ReportPairingOver, TellProgress
    <3>3. QED BY <2>1, <3>1, <3>2, LaunchersTell
  <2>3. TellsElse
    BY <2>2, NotOfSessions DEF TellsElse, Endings
  <2>4. DropsClosure(w)
    <3>1. worker[w].step \in ArmedSteps
      BY <1>0, <1>4 DEF ReportPairingOver, Fits, Carries
    <3>2. QED BY <1>4, <3>1 DEF ReportPairingOver, DropsClosure
  <2>5. QED BY <2>3, <2>4 DEF Driven, DrivenStep
<1>5. CASE TellFailure(w)
  BY <1>0, <1>5, NotOfSessions, Elsewhere DEF TellFailure
<1>6. CASE Advance(w) \/ AdvanceFailed(w) \/ Discard(w)
  BY <1>6 DEF Driven, DrivenStep, Next
<1>7. CASE StartSession(w)
  <2>1. launcher[w].target \in Targets /\ Spawn(w, launcher[w].target)
    BY <1>0, <1>7 DEF StartSession, Fits
  <2>2. QED BY <2>1 DEF Driven, DrivenStep, Next
<1>8. CASE LauncherStep(w)
  BY <1>1, <1>2, <1>3, <1>4, <1>5, <1>6, <1>7, <1>8
     DEF LauncherStep, EnterFlow, FlowCancelled, LeaveFlow, ClaimPairing, LosePairing,
         StartDisconnect, Disconnected, DropQr, SaveDevice, RememberDevice, AdvanceGeneration,
         FailReconnect, DropReconnect
<1>9. CASE PhoneStep(w) \/ LifetimeExpires(w)
  BY <1>1, <1>9 DEF PhoneStep, LifetimeExpires, ReportProgress, FlowFails, FlowTimesOut, FlowLinks,
                    LeaveFlow
<1>10. QED BY <1>8, <1>9

(* Only preview-ready acknowledges.                                          *)
LEMMA AcknowledgePlace ==
  ASSUME NEW op \in Ops, NEW n \in 1..Len(Program[op]),
         Program[op][Len(Program[op]) - n + 1] = "acknowledge"
  PROVE  op = "previewReady"
<1>1. CASE op = "startQrPairing" BY <1>1 DEF Program
<1>2. CASE op = "submitManualCode" BY <1>2 DEF Program
<1>3. CASE op = "cancelPairing" BY <1>3 DEF Program
<1>4. CASE op = "useManualCode" BY <1>4 DEF Program
<1>5. CASE op = "reconnect" BY <1>5 DEF Program
<1>6. CASE op = "stopSession" BY <1>6 DEF Program
<1>7. CASE op = "startOver" BY <1>7 DEF Program
<1>8. CASE op = "setPreferences" BY <1>8 DEF Program
<1>9. CASE op = "setScrcpyArgs" BY <1>9 DEF Program
<1>10. CASE op = "input" BY <1>10 DEF Program
<1>11. CASE op = "phoneTarget" BY <1>11 DEF Program
<1>12. CASE op = "shutdown" BY <1>12 DEF Program
<1>13. QED
  BY <1>1, <1>2, <1>3, <1>4, <1>5, <1>6, <1>7, <1>8, <1>9, <1>10, <1>11, <1>12, Programs

(* A main thread about to acknowledge works on preview-ready.                *)
LEMMA AcknowledgedThen ==
  ASSUME RuntimeInv, At("acknowledge")
  PROVE  cmd.op = "previewReady" /\ cmd.todo # <<>>
<1>0. /\ cmd \in CommandState /\ TodoFits
  BY DEF RuntimeInv, RuntimeTypeOK, MainInv
<1>1. /\ cmd.op \in Ops /\ cmd.todo \in Seq(MicroSteps) /\ cmd.todo # <<>>
      /\ Head(cmd.todo) = "acknowledge" /\ ~Failing
  BY <1>0, TodoNow DEF At, CommandState
<1>2. Remains(cmd.todo, Program[cmd.op])
  BY <1>0, <1>1, Programs DEF TodoFits
<1>3. /\ Len(cmd.todo) \in 1..Len(Program[cmd.op])
      /\ Program[cmd.op][Len(Program[cmd.op]) - Len(cmd.todo) + 1] = "acknowledge"
  BY <1>1, <1>2, ProgramsTyped, RemainsTail
<1>4. QED BY <1>1, <1>3, AcknowledgePlace

(* The replies of the main thread.                                           *)
LEMMA ReplyDrives ==
  ASSUME RuntimeInv, Reply
  PROVE  Driven
<1>0. cmd \in CommandState /\ TodoFits /\ generation \in Nat
  BY DEF RuntimeInv, RuntimeTypeOK, MainInv, TypeOK
<1> DEFINE type == IF cmd.op \in DOMAIN RestartType /\ cmd.target # NoTarget
                   THEN RestartType[cmd.op] ELSE ReplyType[cmd.op]
           g == IF cmd.op \in Telling THEN cmd.generation ELSE 0
<1>1. /\ At("reply") /\ Emit(Event(type, g)) /\ UNCHANGED quiet
  BY DEF Reply
<1>2. cmd.op \in {"startQrPairing", "submitManualCode", "reconnect", "cancelPairing",
                  "useManualCode", "stopSession", "startOver", "setPreferences", "setScrcpyArgs"}
  BY <1>0, <1>1, TodoNow DEF Place
<1>3. type \in EventTypes \ SessionEvents
  <2>1. CASE cmd.op = "startQrPairing" BY <2>1, Replies, NotOfSessions
  <2>2. CASE cmd.op = "submitManualCode" BY <2>2, Replies, NotOfSessions
  <2>3. CASE cmd.op = "cancelPairing" BY <2>3, Replies, NotOfSessions
  <2>4. CASE cmd.op = "useManualCode" BY <2>4, Replies, NotOfSessions
  <2>5. CASE cmd.op = "setPreferences" BY <2>5, Replies, NotOfSessions
  <2>6. CASE cmd.op = "setScrcpyArgs" BY <2>6, Replies, NotOfSessions
  <2>7. CASE cmd.op = "reconnect" BY <2>7, Replies, NotOfSessions
  <2>8. CASE cmd.op = "stopSession" BY <2>8, Replies, NotOfSessions
  <2>9. CASE cmd.op = "startOver" BY <2>9, Replies, NotOfSessions
  <2>10. QED BY <1>2, <2>1, <2>2, <2>3, <2>4, <2>5, <2>6, <2>7, <2>8, <2>9
<1>4. g \in Nat
  BY <1>0 DEF CommandState
<1> HIDE DEF type, g
<1>5. QED BY <1>1, <1>3, <1>4, Elsewhere

(* The steps of the main thread.                                             *)
LEMMA MainDrives ==
  ASSUME RuntimeInv, Acknowledging, MainStep
  PROVE  Driven
<1>0. SafetyInv /\ MainInv /\ cmd \in CommandState /\ cmd.generation \in Nat
      /\ cmd.target \in Targets \cup {NoTarget}
  BY DEF RuntimeInv, RuntimeTypeOK, TypeOK, CommandState
<1>1. CASE UNCHANGED vars
  BY <1>1 DEF Driven
<1>2. CASE RefuseIfLive \/ NeedTrusted \/ StartQr \/ Forget \/ UseStore
  <2>1. /\ UNCHANGED quiet
        /\ sent' = sent \/ \E type \in {"Refused", "Failure"} : Emit(Event(type, 0))
    BY <1>2 DEF RefuseIfLive, NeedTrusted, StartQr, Forget, UseStore
  <2>2. CASE sent' = sent
    BY <1>1, <2>1, <2>2 DEF quiet, vars
  <2>3. ASSUME NEW type \in {"Refused", "Failure"}, Emit(Event(type, 0)) PROVE Driven
    BY <2>1, <2>3, NotOfSessions, Elsewhere
  <2>4. QED BY <2>1, <2>2, <2>3
<1>3. CASE Reply
  BY <1>3, ReplyDrives
<1>4. CASE ReplyFailed
  BY <1>0, <1>4, NotOfSessions, Elsewhere DEF ReplyFailed
<1>5. CASE Call
  BY <1>5 DEF Driven, DrivenStep, Next
<1>6. ASSUME NEW w \in Sessions, Launch(w) PROVE Driven
  <2>1. ~launched
    BY <1>0, <1>6, SafetyLaunches
  <2>2. Call
    BY <1>6, <2>1 DEF Launch, Call, Arm
  <2>3. QED BY <1>5, <2>2
<1>7. CASE MainStop \/ MainInvalidate \/ MainRestart
  BY <1>0, <1>1, <1>5, <1>7 DEF MainStop, MainInvalidate, MainRestart, Call
<1>8. CASE InSessionControl
  BY <1>8 DEF InSessionControl, Driven, DrivenStep, Next
<1>9. CASE Acknowledge
  <2>1. CASE generation = cmd.generation /\ AcknowledgePreview
    <3>1. Sent(Event("SessionStarted", generation))
      BY <1>9, <2>1, AcknowledgedThen DEF Acknowledge, Acknowledging
    <3>2. QED BY <2>1, <3>1 DEF Driven, DrivenStep, Next
  <2>2. QED BY <1>1, <1>9, <2>1 DEF Acknowledge
<1>10. CASE ReadTarget \/ NeedTarget \/ CancelToken \/ Retire \/ Supersede \/ CancelQr
              \/ CrossFlow \/ LockFlow \/ UnlockFlow \/ RunInput \/ ReadGeneration
  BY <1>1, <1>10 DEF ReadTarget, NeedTarget, CancelToken, Retire, Supersede, CancelQr,
                     CrossFlow, LockFlow, UnlockFlow, RunInput, ReadGeneration
<1>11. QED
  BY <1>2, <1>3, <1>4, <1>6, <1>7, <1>8, <1>9, <1>10 DEF MainStep

(* Every step is a step of SessionControl, tells an event it has no name
   for, or is a stutter.                                                     *)
LEMMA RuntimeDrives == ASSUME RuntimeInv, Acknowledging, [RuntimeNext]_runtimeVars PROVE Driven
<1>1. ASSUME NEW w \in Sessions, SessionWorkerStep(w) \/ SessionChildStep(w) PROVE Driven
  BY <1>1 DEF SessionWorkerStep, SessionChildStep, Driven, DrivenStep, Next
<1>2. ASSUME NEW op \in Commands, Receive(op) PROVE Driven
  BY <1>2 DEF Receive, Accept, Driven
<1>3. CASE UNCHANGED runtimeVars
  BY <1>3 DEF runtimeVars, Driven
<1>4. ASSUME NEW w \in Sessions, LauncherStep(w) \/ PhoneStep(w) \/ LifetimeExpires(w)
      PROVE  Driven
  BY <1>4, LauncherDrives
<1>5. QED BY <1>1, <1>2, <1>3, <1>4, MainDrives DEF RuntimeNext

(* The log only grows.                                                       *)
LEMMA DrivenGrows ==
  ASSUME TypeOK, Driven
  PROVE  sent' = sent \/ \E e \in EventSet : sent' = Append(sent, e)
<1>1. \A type \in EventTypes, g \in Nat : Event(type, g) \in EventSet
  BY DEF Event, EventSet
<1>2. CASE Call \/ CallerStep \/ AcknowledgePreview
  BY <1>2 DEF Call, Invalidate, StopSession, Arm, Capture, CallerStep, CrossBarrier, ResetTarget,
              RenewToken, Restart, AcknowledgePreview
<1>3. ASSUME NEW w \in Sessions, WorkerStep(w) \/ ScrcpyStep(w), sent' # sent
      PROVE  \E e \in EventSet : sent' = Append(sent, e)
  <2>1. PICK type \in SessionEvents, g \in Nat : sent' = Append(sent, Event(type, g))
    BY <1>3, SessionsTellSessions
  <2>2. type \in EventTypes
    BY KnownTypes DEF SessionEvents
  <2>3. QED BY <1>1, <2>1, <2>2
<1>4. ASSUME NEW w \in Sessions,
             Advance(w) \/ AdvanceFailed(w) \/ Discard(w) \/ \E t \in Targets : Spawn(w, t)
      PROVE  sent' = sent
  BY <1>4 DEF Advance, AdvanceFailed, Discard, Spawn
<1>5. CASE TellsElse
  BY <1>1, <1>5 DEF TellsElse
<1>6. CASE UNCHANGED vars
  BY <1>6 DEF vars
<1>7. QED BY <1>2, <1>3, <1>4, <1>5, <1>6 DEF Driven, DrivenStep, Next

(* What was written stays in the log.                                        *)
LEMMA SentStays ==
  ASSUME TypeOK, Driven, NEW e, Sent(e)
  PROVE  Sent(e)'
<1>1. sent \in Seq(EventSet)
  BY DEF TypeOK
<1>2. CASE sent' = sent
  BY <1>2 DEF Sent
<1>3. ASSUME NEW d \in EventSet, sent' = Append(sent, d) PROVE Sent(e)'
  <2>1. /\ Len(sent) \in Nat /\ DOMAIN sent = 1..Len(sent) /\ DOMAIN sent' = 1..Len(sent) + 1
        /\ \A i \in 1..Len(sent) : sent'[i] = sent[i]
    BY <1>1, <1>3, Appended
  <2>2. \A i \in 1..Len(sent) : i \in 1..Len(sent) + 1
    BY <2>1
  <2>3. QED BY <2>1, <2>2 DEF Sent
<1>4. QED BY <1>2, <1>3, DrivenGrows

(* What a step of the main thread makes of its command.                      *)
LEMMA MainCommand ==
  ASSUME RuntimeInv, MainStep
  PROVE  \/ cmd' = cmd
         \/ cmd'.op = "none"
         \/ cmd'.op = cmd.op /\ cmd.todo # <<>> /\ cmd'.todo = Tail(cmd.todo)
         \/ cmd'.op = cmd.op /\ cmd.op \in {"input", "phoneTarget"}
         \/ cmd'.op = cmd.op /\ cmd'.todo = cmd.todo /\ cmd.op # "previewReady"
<1>0. cmd \in CommandState /\ TodoFits
  BY DEF RuntimeInv, RuntimeTypeOK, MainInv
<1>1. ASSUME NEW step, At(step), Continue
      PROVE  cmd'.op = cmd.op /\ cmd.todo # <<>> /\ cmd'.todo = Tail(cmd.todo)
  BY <1>0, <1>1, ContinueProceeds DEF At, Proceeds
<1>2. CASE Abandon
  BY <1>2, IdleTodo DEF Abandon
<1>3. CASE ReadTarget
  BY <1>0, <1>3 DEF ReadTarget, At, CommandState
<1>4. CASE NeedTarget
  BY <1>0, <1>1, <1>2, <1>4 DEF NeedTarget, CommandState
<1>5. CASE RunInput
  <2>1. cmd.op \in {"input", "phoneTarget"}
    BY <1>0, <1>5, TodoNow DEF RunInput, Place
  <2>2. QED BY <1>0, <1>1, <1>5, <2>1 DEF RunInput, CommandState
<1>6. CASE RefuseIfLive \/ NeedTrusted \/ StartQr \/ Forget \/ UseStore
  BY <1>1, <1>2, <1>6 DEF RefuseIfLive, NeedTrusted, StartQr, Forget, UseStore
<1>7. CASE MainStop \/ MainInvalidate \/ MainRestart \/ Acknowledge \/ CancelToken \/ Retire
             \/ Supersede \/ CancelQr \/ CrossFlow \/ LockFlow \/ UnlockFlow \/ Reply \/ ReplyFailed
  BY <1>1, <1>7 DEF MainStop, MainInvalidate, MainRestart, Acknowledge, CancelToken, Retire,
                    Supersede, CancelQr, CrossFlow, LockFlow, UnlockFlow, Reply, ReplyFailed
<1>8. CASE InSessionControl
  BY <1>8 DEF InSessionControl
<1>9. ASSUME NEW w \in Sessions, Launch(w)
      PROVE  cmd'.op = cmd.op /\ cmd.todo # <<>> /\ cmd'.todo = Tail(cmd.todo)
  BY <1>1, <1>9 DEF Launch
<1>10. CASE ReadGeneration
  <2>1. cmd.op # "previewReady"
    <3>1. CASE cmd.op \in Telling
      BY <3>1 DEF Telling
    <3>2. CASE At("replyFailed")
      BY <1>0, <3>2, TodoNow DEF Place, Failing
    <3>3. QED BY <1>10, <3>1, <3>2 DEF ReadGeneration
  <2>2. QED BY <1>0, <1>10, <2>1 DEF ReadGeneration, CommandState
<1>11. QED BY <1>3, <1>4, <1>5, <1>6, <1>7, <1>8, <1>9, <1>10 DEF MainStep

(* A preview that is being acknowledged stays one whose session was
   announced.                                                                *)
LEMMA AcknowledgingStays ==
  ASSUME RuntimeInv, RuntimeInv', Acknowledging, [RuntimeNext]_runtimeVars
  PROVE  Acknowledging'
<1>0. /\ TypeOK /\ cmd \in CommandState /\ TodoFits /\ Driven
  BY RuntimeDrives DEF RuntimeInv, RuntimeTypeOK, MainInv
<1>1. SUFFICES ASSUME cmd'.op = "previewReady", cmd'.todo # <<>>
               PROVE  Sent(Event("SessionStarted", cmd.generation))'
  BY DEF Acknowledging
<1>2. \A g : Sent(Event("SessionStarted", g)) /\ cmd'.generation = g =>
               Sent(Event("SessionStarted", cmd.generation))'
  <2>1. ASSUME NEW g, NEW e, Sent(e), e = Event("SessionStarted", g)
        PROVE  Sent(e)' /\ \E i \in DOMAIN sent' : sent'[i] = e
    BY <1>0, <2>1, SentStays DEF Sent
  <2>2. QED BY <2>1 DEF Sent, Event
<1>3. CASE cmd' = cmd
  BY <1>1, <1>3, <1>2 DEF Acknowledging
<1>4. ASSUME NEW op \in Commands, Receive(op)
      PROVE  Sent(Event("SessionStarted", cmd.generation))'
  <2>1. cmd' = [IdleCommand EXCEPT !.op = op, !.todo = Program[op], !.generation = generation]
    BY <1>4 DEF Receive, Accept
  <2>2. cmd'.op = op /\ cmd'.generation = generation
    BY <2>1 DEF IdleCommand
  <2>3. Sent(Event("SessionStarted", generation))
    BY <1>1, <1>4, <2>2 DEF Receive
  <2>4. QED BY <1>2, <2>2, <2>3
<1>5. ASSUME MainStep, cmd' # cmd PROVE FALSE
  <2>1. cmd.op = "previewReady" /\ cmd.todo # <<>> /\ cmd'.todo = Tail(cmd.todo)
    BY <1>1, <1>5, MainCommand
  <2>2. cmd.todo \in Seq(MicroSteps) /\ Program["previewReady"] \in Seq(MicroSteps)
    BY <1>0, ProgramsTyped, Programs DEF CommandState
  <2>3. Remains(cmd.todo, Program["previewReady"]) /\ Len(Program["previewReady"]) = 1
    BY <1>0, <2>1, Programs DEF TodoFits, Failing
  <2>4. Len(cmd.todo) \in 1..1
    BY <2>1, <2>2, <2>3, RemainsTail
  <2>5. Len(cmd.todo) = 1
    BY <2>4
  <2>6. Tail(cmd.todo) = <<>>
    BY <2>1, <2>2, <2>5, TailEmpty
  <2>7. QED BY <1>1, <2>1, <2>6
<1>6. ASSUME NEW w \in Sessions,
             LauncherStep(w) \/ PhoneStep(w) \/ LifetimeExpires(w) \/ SessionWorkerStep(w)
               \/ SessionChildStep(w)
      PROVE  cmd' = cmd
  BY <1>6, CommandStays
<1>7. CASE UNCHANGED runtimeVars
  BY <1>3, <1>7 DEF runtimeVars
<1>8. QED BY <1>3, <1>4, <1>5, <1>6, <1>7 DEF RuntimeNext

(* The runtime drives SessionControl the way its callers must, step by step: *)
(* a launch per token, a closure called or dropped by the worker it was      *)
(* given to, an acknowledgement only of what was told; and what else it      *)
(* writes leaves the sessions alone (runtime.rs:607-844 against 189-424).    *)
THEOREM StepsDriveSessions == RuntimeSpec => Init /\ [][DrivenStep]_vars
<1>1. RuntimeInit => Init
  BY DEF RuntimeInit
<1>2. RuntimeInit => Acknowledging
  BY IdleTodo DEF RuntimeInit, Acknowledging
<1>3. RuntimeInv /\ Acknowledging /\ [RuntimeNext]_runtimeVars => [DrivenStep]_vars
  BY RuntimeDrives DEF Driven
<1>4. RuntimeInv /\ RuntimeInv' /\ Acknowledging /\ [RuntimeNext]_runtimeVars => Acknowledging'
  BY AcknowledgingStays
<1>5. QED BY <1>1, <1>2, <1>3, <1>4, RuntimeInvariant, PTL DEF RuntimeSpec

(* To retry is to claim the retry, which an acknowledgement forbids.         *)
LEMMA DrivenRetries ==
  ASSUME SafetyInv, DrivenStep, NEW w \in Sessions, ~worker[w].retried, worker'[w].retried
  PROVE  worker[w].current \notin acked
<1>1. CASE Next
  BY <1>1, RetryOnlyClaimed DEF SafetyInv, ClaimRetry, MayRetry, AckRemembered
<1>2. CASE UNCHANGED quiet
  BY <1>2 DEF quiet
<1>3. ASSUME NEW v \in Sessions, DropsClosure(v) PROVE FALSE
  BY <1>3 DEF DropsClosure, Finish, IdleWorker, SafetyInv, TypeOK
<1>4. QED BY <1>1, <1>2, <1>3 DEF DrivenStep

(* So an acknowledged preview is never retried here either (runtime.rs:165-  *)
(* 176).                                                                     *)
THEOREM RuntimeHonoursPreview == RuntimeSpec => AcknowledgedNeverRetried
<1> DEFINE Step == \A w \in Sessions :
             ~worker[w].retried /\ worker'[w].retried => worker[w].current \notin acked
<1>1. RuntimeInv /\ [DrivenStep]_vars => [Step]_vars
  BY DrivenRetries DEF Step, RuntimeInv
<1>2. QED
  BY <1>1, RuntimeInvariant, StepsDriveSessions, PTL DEF AcknowledgedNeverRetried, Step

=============================================================================
