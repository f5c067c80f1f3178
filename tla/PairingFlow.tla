------------------------------ MODULE PairingFlow ------------------------------
(***************************************************************************)
(* PairingFlow in helper/src/wireless.rs: find the phone (Browse), adb     *)
(* pair, find its connection service, adb connect (CommandRun), with the   *)
(* token tested between the steps.  The flow mutex serialises flows with   *)
(* the commands the main thread runs on the same runner (inputs, phone     *)
(* targets, disconnects; runtime.rs), so the two share one child at a time.*)
(***************************************************************************)
EXTENDS CommandRun, Browse

CONSTANT OtherRequests   (* commands the main thread runs on the same runner   *)

ASSUME PairingFlowAssumption == OtherRequests \subseteq {"disconnect", "input", "target"}

VARIABLES
  flow,        (* the flow under way: its step, its method, the endpoint      *)
  discovered,  (* AvahiDiscovery.paired_device: a device is its address here  *)
  paired,      (* PairingFlow.paired_device                                   *)
  target,      (* PairingFlow.connected_target                                *)
  told,        (* the events the flow emitted                                 *)
  helper       (* the helper process                                          *)

results == <<discovered, paired, target>>
vars == <<commandVars, browseVars, flow, results, told, helper>>

Methods == {"qr", "manual", "reconnect"}
FlowSteps == {"idle", "start", "find", "pair", "associate", "connect", "done"}
NoEndpoint == "none"
FlowEvents ==
  {"Pairing", "Paired", "Connected", "PairingCancelled", "PairingRejected", "QrTimedOut",
   "NetworkUnavailable", "DependencyUnavailable", "Disconnected"}

FlowTypeOK ==
  /\ CommandTypeOK /\ BrowseTypeOK
  /\ flow \in [step: FlowSteps, method: Methods, endpoint: Endpoints \cup {NoEndpoint}]
  /\ discovered \in Endpoints \cup {NoEndpoint}
  /\ paired \in Endpoints \cup {NoEndpoint}
  /\ target \in Endpoints \cup {NoEndpoint}
  /\ told \in Seq(FlowEvents) /\ Len(told) <= 2
  /\ helper \in {"running", "gone"}

FlowInit ==
  /\ CommandInit /\ BrowseInit
  /\ flow = [step |-> "idle", method |-> "qr", endpoint |-> NoEndpoint]
  /\ discovered = NoEndpoint /\ paired = NoEndpoint /\ target = NoEndpoint
  /\ told = <<>> /\ helper = "running"

FlowStep(s) == flow' = [flow EXCEPT !.step = s]
Tell(e) == told' = Append(told, e)
End(e) == Tell(e) /\ FlowStep("done")

(* pairing_discovery_failure, connection_discovery_failure, command_failure *)
DiscoveryFailure(f) ==
  CASE f = "TimedOut" /\ flow.method = "qr" -> "QrTimedOut"
    [] f = "TimedOut" /\ flow.method # "qr" -> "NetworkUnavailable"
    [] f = "Cancelled" -> "PairingCancelled"
    [] OTHER -> f
ConnectionFailure(f) ==
  CASE f \in {"NetworkUnavailable", "TimedOut"} -> "Disconnected"
    [] f = "Cancelled" -> "PairingCancelled"
    [] OTHER -> f
CommandFailure(f) == IF f = "Cancelled" THEN "PairingCancelled" ELSE f

-----------------------------------------------------------------------------
(* The steps of a flow.  search.result and run.result are what the last     *)
(* call returned; the token is read again before each of them is used.      *)

(* A worker has the flow mutex and calls pair_with, pair_manual_with or     *)
(* reconnect_with; its token may have been cancelled while it waited.       *)
FlowBegin(m) ==
  /\ helper = "running" /\ flow.step = "idle" /\ run.step = "idle"
  /\ flow' = [step |-> "start", method |-> m, endpoint |-> NoEndpoint]
  /\ paired' = IF m = "qr" THEN NoEndpoint ELSE paired
  /\ target' = NoEndpoint /\ told' = <<>>
  /\ flag' \in BOOLEAN /\ expired' = FALSE
  /\ run' = [run EXCEPT !.result = "None"] /\ child' = NoChild /\ stream' = NoOutput
  /\ UNCHANGED <<browseVars, discovered, helper>>

FlowStart ==
  /\ flow.step = "start"
  /\ IF flag THEN End("PairingCancelled") /\ UNCHANGED browseVars
     ELSE /\ BrowseFor(Endpoints, flow.method = "manual")
          /\ FlowStep("find") /\ UNCHANGED told
  /\ UNCHANGED <<commandVars, results, helper>>

FlowFind ==
  /\ flow.step = "find" /\ ~Searching
  /\ \/ /\ search.result \in SearchFailures
        /\ End(IF flow.method = "reconnect" THEN ConnectionFailure(search.result)
               ELSE DiscoveryFailure(search.result))
        /\ UNCHANGED commandVars
     \/ /\ search.result \in Endpoints /\ flag
        /\ End("PairingCancelled") /\ UNCHANGED commandVars
     \/ /\ search.result \in Endpoints /\ ~flag
        /\ flow' = [flow EXCEPT !.step = IF flow.method = "reconnect" THEN "connect" ELSE "pair",
                                !.endpoint = search.result]
        /\ Ask(IF flow.method = "reconnect" THEN "connect" ELSE "pair") /\ UNCHANGED flag
        /\ IF flow.method = "qr" THEN Tell("Pairing") ELSE UNCHANGED told
  /\ BrowseDone /\ UNCHANGED <<results, helper>>

(* Mutant: no return after a rejected code.                                 *)
FlowPairedContinuing ==
  /\ flow.step = "pair" /\ run.step = "idle"
  /\ CASE run.result \in Failures -> End(CommandFailure(run.result)) /\ UNCHANGED browseVars
       [] run.result \notin Failures /\ flag -> End("PairingCancelled") /\ UNCHANGED browseVars
       [] run.result \notin Failures /\ ~flag ->
            /\ BrowseFor({flow.endpoint}, FALSE) /\ FlowStep("associate")
            /\ IF run.result = "Failed" THEN Tell("PairingRejected") ELSE UNCHANGED told
  /\ UNCHANGED <<commandVars, results, helper>>

(* Mutant: any connection service will do.                                  *)
FlowPairedAnywhere ==
  /\ flow.step = "pair" /\ run.step = "idle"
  /\ CASE run.result \in Failures -> End(CommandFailure(run.result)) /\ UNCHANGED browseVars
       [] run.result \notin Failures /\ flag -> End("PairingCancelled") /\ UNCHANGED browseVars
       [] run.result = "Failed" /\ ~flag -> End("PairingRejected") /\ UNCHANGED browseVars
       [] run.result = "Succeeded" /\ ~flag ->
            /\ BrowseFor(Endpoints, FALSE)
            /\ FlowStep("associate") /\ UNCHANGED told
  /\ UNCHANGED <<commandVars, results, helper>>

FlowPaired ==
  /\ flow.step = "pair" /\ run.step = "idle"
  /\ CASE run.result \in Failures -> End(CommandFailure(run.result)) /\ UNCHANGED browseVars
       [] run.result \notin Failures /\ flag -> End("PairingCancelled") /\ UNCHANGED browseVars
       [] run.result = "Failed" /\ ~flag -> End("PairingRejected") /\ UNCHANGED browseVars
       [] run.result = "Succeeded" /\ ~flag ->
            /\ BrowseFor({flow.endpoint}, FALSE)
            /\ FlowStep("associate") /\ UNCHANGED told
  /\ UNCHANGED <<commandVars, results, helper>>

(* find_connection_endpoint keeps the device it found, whatever comes after. *)
FlowAssociated ==
  /\ flow.step = "associate" /\ ~Searching
  /\ discovered' = IF search.result \in Endpoints THEN search.result ELSE discovered
  /\ CASE search.result \in SearchFailures ->
            End(ConnectionFailure(search.result)) /\ UNCHANGED commandVars
       [] search.result \in Endpoints /\ flag ->
            End("PairingCancelled") /\ UNCHANGED commandVars
       [] search.result \in Endpoints /\ ~flag ->
            /\ Ask("connect") /\ FlowStep("connect") /\ UNCHANGED <<flag, told>>
  /\ BrowseDone /\ UNCHANGED <<paired, target, helper>>

(* Mutant: the target is kept before the token is asked.                    *)
FlowConnectedEarly ==
  /\ flow.step = "connect" /\ run.step = "idle"
  /\ target' = IF run.result = "Succeeded" THEN search.result ELSE target
  /\ CASE run.result \in Failures ->
            End(CommandFailure(run.result)) /\ UNCHANGED <<discovered, paired>>
       [] run.result \notin Failures /\ flag ->
            End("PairingCancelled") /\ UNCHANGED <<discovered, paired>>
       [] run.result = "Failed" /\ ~flag ->
            End("Disconnected") /\ UNCHANGED <<discovered, paired>>
       [] run.result = "Succeeded" /\ ~flag ->
            IF flow.method = "reconnect"
            THEN End("Connected") /\ UNCHANGED <<discovered, paired>>
            ELSE End("Paired") /\ paired' = discovered /\ discovered' = NoEndpoint
  /\ UNCHANGED <<commandVars, browseVars, helper>>

FlowConnected ==
  /\ flow.step = "connect" /\ run.step = "idle"
  /\ CASE run.result \in Failures -> End(CommandFailure(run.result)) /\ UNCHANGED results
       [] run.result \notin Failures /\ flag -> End("PairingCancelled") /\ UNCHANGED results
       [] run.result = "Failed" /\ ~flag -> End("Disconnected") /\ UNCHANGED results
       [] run.result = "Succeeded" /\ ~flag ->
            /\ target' = search.result
            /\ IF flow.method = "reconnect"
               THEN End("Connected") /\ UNCHANGED <<discovered, paired>>
               ELSE End("Paired") /\ paired' = discovered /\ discovered' = NoEndpoint
  /\ UNCHANGED <<commandVars, browseVars, helper>>

(* take_connected_target and, by a pairing worker, take_paired_device.      *)
TakeResults ==
  /\ flow.step = "done"
  /\ flow' = [flow EXCEPT !.step = "idle", !.endpoint = NoEndpoint]
  /\ target' = NoEndpoint /\ told' = <<>>
  /\ paired' = IF flow.method = "reconnect" THEN paired ELSE NoEndpoint
  /\ UNCHANGED <<commandVars, browseVars, discovered, helper>>

Flow ==
  FlowStart \/ FlowFind \/ FlowPaired \/ FlowAssociated \/ FlowConnected \/ TakeResults

(* The main thread, or a worker that lost its race, runs a command.         *)
OtherCommand(r) ==
  /\ helper = "running" /\ flow.step = "idle"
  /\ Request(r)
  /\ UNCHANGED <<browseVars, flow, results, told, helper>>

(* Shutdown and Drop cancel the token and wait for the flow mutex.          *)
Shutdown ==
  /\ helper = "running" /\ flow.step = "idle" /\ run.step = "idle"
  /\ helper' = "gone"
  /\ UNCHANGED <<commandVars, browseVars, flow, results, told>>

Idle == UNCHANGED <<flow, results, told, helper>>

FlowNext ==
  \/ \E m \in Methods : FlowBegin(m)
  \/ Flow
  \/ \E r \in OtherRequests : OtherCommand(r)
  \/ (Runner \/ Cancel \/ DeadlinePasses \/ Adb) /\ Idle /\ UNCHANGED browseVars
  \/ (Searcher(flag) \/ Reader \/ BrowseEnvironment) /\ Idle /\ UNCHANGED commandVars
  \/ Shutdown

FlowSpec == FlowInit /\ [][FlowNext]_vars

(* Threads are scheduled, time passes, the kernel ends what is killed and   *)
(* completes a write for which there is room.  Neither adb nor avahi-browse *)
(* is assumed to do anything.                                               *)
FairFlowSpec ==
  /\ FlowSpec
  /\ WF_vars(Flow)
  /\ WF_vars(Runner /\ Idle /\ UNCHANGED browseVars)
  /\ WF_vars((\E b \in Blocks : ChildWrites(b)) /\ Idle /\ UNCHANGED browseVars)
  /\ WF_vars(ChildDies /\ Idle /\ UNCHANGED browseVars)
  /\ WF_vars(Searcher(flag) /\ Idle /\ UNCHANGED commandVars)
  /\ WF_vars(AvahiDies /\ Idle /\ UNCHANGED commandVars)
  /\ WF_vars(Tick /\ Idle /\ UNCHANGED commandVars)

-----------------------------------------------------------------------------
(* Properties                                                               *)

(* The flow keeps PairingPromise: one terminal event, progress only before  *)
(* it and only for a QR code, a target exactly for a success.               *)
Phase == IF flow.step \in {"idle", "done"} THEN flow.step ELSE "working"
PairingPromise == INSTANCE PairingPromise WITH
  Targets <- Endpoints, NoTarget <- NoEndpoint, phase <- Phase, method <- flow.method
KeepsPromise == PairingPromise!Promise

(* The device that is saved as trusted, the target the session starts on    *)
(* and the phone that accepted the code are one phone, although the device  *)
(* waits in the discovery through failed and cancelled flows.               *)
SavesThePairedPhone ==
  flow.step = "done" /\ told # <<>> /\ told[Len(told)] = "Paired" =>
    paired = flow.endpoint /\ target = flow.endpoint

(* A flow comes to an end, whatever avahi-browse does, or waits for an adb  *)
(* that runs while nobody has cancelled the token.                          *)
Busy == flow.step \notin {"idle", "done"}
FlowEnds == Busy ~> ~Busy \/ (~flag /\ child.state = "running")
=============================================================================
