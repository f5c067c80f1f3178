---------------------------- MODULE PairingPromise ----------------------------
(***************************************************************************)
(* What PairingFlow (helper/src/wireless.rs) promises its callers, the     *)
(* pairing and reconnect workers of helper/src/runtime.rs: a flow tells    *)
(* one terminal event, at most one "Pairing" before it and only with a QR  *)
(* code, and it leaves a target exactly when the event is a success.       *)
(***************************************************************************)
EXTENDS Sequences

CONSTANTS Targets, NoTarget

VARIABLES
  phase,    (* "idle", "working", or "done": the worker may take the result   *)
  method,   (* "qr", "manual" or "reconnect"                                  *)
  told,     (* the events of this flow                                        *)
  target    (* connected_target                                               *)

Success(m) == IF m = "reconnect" THEN "Connected" ELSE "Paired"

Failures(m) ==
  {"PairingCancelled", "DependencyUnavailable", "Disconnected"}
    \cup (IF m = "reconnect" THEN {} ELSE {"NetworkUnavailable", "PairingRejected"})
    \cup (IF m = "qr" THEN {"QrTimedOut"} ELSE {})

PromiseInit ==
  phase = "idle" /\ method = "qr" /\ told = <<>> /\ target = NoTarget

Begin ==
  /\ phase = "idle" /\ phase' = "working" /\ told' = <<>> /\ target' = NoTarget
  /\ method' \in {"qr", "manual", "reconnect"}

Progress ==
  /\ phase = "working" /\ method = "qr" /\ told = <<>>
  /\ told' = <<"Pairing">>
  /\ UNCHANGED <<phase, method, target>>

Finish ==
  /\ phase = "working" /\ phase' = "done"
  /\ \/ told' = Append(told, Success(method)) /\ target' \in Targets
     \/ \E f \in Failures(method) : told' = Append(told, f) /\ target' = NoTarget
  /\ UNCHANGED method

Collect ==
  /\ phase = "done" /\ phase' = "idle" /\ target' = NoTarget /\ told' = <<>>
  /\ UNCHANGED method

PromiseNext == Begin \/ Progress \/ Finish \/ Collect
Promise == PromiseInit /\ [][PromiseNext]_<<phase, method, told, target>>

=============================================================================
