----------------------------- MODULE ScrcpyConfig -----------------------------
(***************************************************************************)
(* The scrcpy arguments of the user's Hyprland configuration on their way  *)
(* to scrcpy:                                                              *)
(*                                                                         *)
(*   - commitConfiguration (integrations/phone-bindings.lua) runs          *)
(*     `droid-peek-helper store-scrcpy-args`, a process of its own, which  *)
(*     replaces the snapshot file (scrcpy_config.rs, private_fs.rs), and   *)
(*     then tells the panel;                                               *)
(*   - the panel (PairingState.qml) asks the helper to move from the       *)
(*     revision it believes applied to the one it was told;                *)
(*   - the helper (protocol.rs, runtime.rs) compares both with its own and *)
(*     with the snapshot, and restarts a live session;                     *)
(*   - a helper that starts takes what it finds in the snapshot.           *)
(*                                                                         *)
(* Processes die and the power fails between any two of these steps.  A    *)
(* configuration stands for its arguments and for their revision.          *)
(***************************************************************************)
EXTENDS Naturals, Sequences, FiniteSets

CONSTANTS
  Configs,         (* configurations that have arguments                      *)
  ScreenOff,       (* those with --turn-screen-off                            *)
  Empty,           (* no arguments: the snapshot is removed                   *)
  None,            (* no configuration                                        *)
  MaxStores,       (* how often the user commits, or the file is spoilt      *)
  MaxGenerations,  (* session generations of one helper                       *)
  MaxHelpers       (* how often the panel starts a helper                     *)

Known == Configs \cup {Empty}
Invalid == "invalid"                       \* a snapshot configuration_from_snapshot refuses
Torn == "torn"                             \* a file whose data never reached the disk

ASSUME ScrcpyConfigAssumption ==
  /\ ScreenOff \subseteq Configs
  /\ Empty \notin Configs /\ None \notin Known \cup Nat
  /\ Invalid \notin Known /\ Torn \notin Known
  /\ MaxStores \in Nat /\ MaxGenerations \in Nat /\ MaxHelpers \in Nat \ {0}

VARIABLES
  disk,      (* what the snapshot's name leads to, and what survives          *)
  store,     (* the process store-scrcpy-args, and what Lua still has to tell *)
  helper,    (* RuntimePairingBackend's configuration, and the main thread    *)
  session,   (* the session worker, its generation and the arguments cell;    *)
             (* (history) the configuration it was restarted for              *)
  panel,     (* PairingState                                                  *)
  commands,  (* the helper's standard input                                   *)
  events,    (* the helper's standard output                                  *)
  stores, starts   (* the bounds                                              *)

configVars == <<disk, store, helper, session, panel, commands, events, stores, starts>>

(* What a name leads to: the file's contents, whether they reached the disk. *)
File(c, synced) == [value |-> c, synced |-> synced]
NoFile == File(Empty, TRUE)

(* effective_arguments: --turn-screen-off is filtered out unless enabled.     *)
Effective(c, screenOff) == [config |-> c, screenOff |-> screenOff /\ c \in ScreenOff]


NoSession == [step |-> "none", args |-> Effective(Empty, FALSE), restartOf |-> None]

ConfigInit ==
  /\ \E c \in Known \cup {Invalid} : disk = [seen |-> File(c, TRUE), kept |-> File(c, TRUE)]
  /\ store = [step |-> "idle", config |-> Empty, synced |-> FALSE, printed |-> None,
              told |-> {}]
  /\ helper = [step |-> "down", config |-> Empty, new |-> Empty, restarted |-> FALSE]
  /\ session = [worker |-> NoSession, generation |-> 0, cell |-> Effective(Empty, FALSE)]
  /\ panel = [ready |-> FALSE, generation |-> None, applied |-> None, desired |-> None,
              retry |-> None]
  /\ commands = <<>> /\ events = <<>>
  /\ stores = 0 /\ starts = 0

-----------------------------------------------------------------------------
(* The snapshot                                                              *)

(* The kernel writes back when it likes.                                      *)
Writeback ==
  /\ disk.kept # disk.seen
  /\ disk' = [disk EXCEPT !.kept = File(disk.seen.value, TRUE), !.seen.synced = TRUE]
  /\ UNCHANGED <<store, helper, session, panel, commands, events, stores, starts>>

(* Something else leaves a file there that is no snapshot: an editor, another *)
(* version.  It counts as a commit.                                           *)
Spoil ==
  /\ stores < MaxStores /\ stores' = stores + 1
  /\ disk' = [disk EXCEPT !.seen = File(Invalid, TRUE)]
  /\ UNCHANGED <<store, helper, session, panel, commands, events, starts>>

(* commitConfiguration: the arguments are validated and stored by a process   *)
(* of its own; no arguments means no file.                                    *)
Commit(c) ==
  /\ store.step = "idle" /\ stores < MaxStores
  /\ store' = [store EXCEPT !.step = IF c = Empty THEN "remove" ELSE "write",
                            !.config = c, !.synced = FALSE, !.printed = None]
  /\ stores' = stores + 1
  /\ UNCHANGED <<disk, helper, session, panel, commands, events, starts>>

StoreGoes(step) == store' = [store EXCEPT !.step = step]

(* println: Lua reads the revision and has the shell tell the panel.          *)
StorePrints ==
  store' = [store EXCEPT !.step = "idle", !.printed = store.config,
                         !.told = @ \cup {store.config}]

(* An I/O error, or the process is killed: the temporary file is dropped and  *)
(* Lua fails.                                                                 *)
StoreFails ==
  /\ store.step # "idle" /\ StoreGoes("idle")
  /\ UNCHANGED <<disk, helper, session, panel, commands, events, stores, starts>>

StoreWrite ==
  /\ store.step = "write" /\ StoreGoes("sync")
  /\ UNCHANGED <<disk, helper, session, panel, commands, events, stores, starts>>

(* Mutant: the data of the temporary file are not synchronised.               *)
StoreSyncSkipped ==
  /\ store.step = "sync" /\ StoreGoes("rename")
  /\ UNCHANGED <<disk, helper, session, panel, commands, events, stores, starts>>

StoreSync ==
  /\ store.step = "sync"
  /\ store' = [store EXCEPT !.step = "rename", !.synced = TRUE]
  /\ UNCHANGED <<disk, helper, session, panel, commands, events, stores, starts>>

(* Mutant: the directory is not synchronised.                                 *)
StoreRenameOnly ==
  /\ store.step = "rename"
  /\ disk' = [disk EXCEPT !.seen = File(store.config, store.synced)]
  /\ StorePrints
  /\ UNCHANGED <<helper, session, panel, commands, events, stores, starts>>

StoreRename ==
  /\ store.step = "rename"
  /\ disk' = [disk EXCEPT !.seen = File(store.config, store.synced)]
  /\ StoreGoes("syncDirectory")
  /\ UNCHANGED <<helper, session, panel, commands, events, stores, starts>>

(* The directory leads to the new file from now on; data that were not        *)
(* synchronised are still the kernel's.                                       *)
StoreSyncDirectory ==
  /\ store.step = "syncDirectory"
  /\ disk' = [disk EXCEPT !.kept = disk.seen]
  /\ StorePrints
  /\ UNCHANGED <<helper, session, panel, commands, events, stores, starts>>

(* remove_file_if_present: nothing synchronises the directory.                *)
StoreRemove ==
  /\ store.step = "remove"
  /\ disk' = [disk EXCEPT !.seen = NoFile]
  /\ StorePrints
  /\ UNCHANGED <<helper, session, panel, commands, events, stores, starts>>

-----------------------------------------------------------------------------
(* The panel                                                                 *)

SetArguments(p) ==
  [type |-> "set", expected |-> p.applied, new |-> p.desired, generation |-> p.generation]

(* sendDesiredScrcpyConfiguration.                                            *)
Wants(p) == p.ready /\ p.desired # p.applied
Sent(p) == IF Wants(p) THEN <<SetArguments(p)>> ELSE <<>>

NoFacts(p) == [p EXCEPT !.ready = FALSE, !.generation = None, !.applied = None, !.retry = None]

(* configureScrcpy; two of them may be run in either order.  A panel that is  *)
(* not loaded yet refuses it.                                                 *)
Configure(c) ==
  /\ c \in store.told
  /\ store' = [store EXCEPT !.told = @ \ {c}]
  /\ LET p == [panel EXCEPT !.desired = c, !.retry = None]
     IN panel' = p /\ commands' = commands \o Sent(p)
  /\ UNCHANGED <<disk, helper, session, events, stores, starts>>

StartHelper ==
  /\ helper.step = "down" /\ starts < MaxHelpers
  /\ starts' = starts + 1
  /\ helper' = [helper EXCEPT !.step = "load"]
  /\ panel' = NoFacts(panel)
  /\ session' = [session EXCEPT !.generation = 0, !.worker = NoSession]
  /\ commands' = <<>> /\ events' = <<>>
  /\ UNCHANGED <<disk, store, stores>>

(* reconnectTrustedDevice, of the panel itself or of its button.              *)
AskReconnect ==
  /\ panel.ready /\ session.generation < MaxGenerations
  /\ \A k \in DOMAIN commands : commands[k].type # "reconnect"
  /\ commands' = Append(commands, [type |-> "reconnect"])
  /\ UNCHANGED <<disk, store, helper, session, panel, events, stores, starts>>

(* advanceGeneration: only the next one.                                      *)
Advances(g) == panel.generation # None /\ g = panel.generation + 1
Advanced(g) == IF Advances(g) THEN [panel EXCEPT !.generation = g] ELSE panel

(* The generations of scrcpy-args-stale and of scrcpy-args-updated.           *)
Admits(g) == g = panel.generation \/ Advances(g)
Confirms(e) ==
  /\ e.config = panel.desired
  /\ IF e.restarted THEN Advances(e.generation) ELSE e.generation = panel.generation

HearReady(e) ==
  /\ e.type = "ready"
  /\ LET p == [panel EXCEPT !.ready = TRUE, !.generation = 0, !.applied = e.config,
                            !.desired = IF @ = None THEN e.config ELSE @]
     IN panel' = p /\ commands' = commands \o Sent(p)

HearGeneration(e) ==
  /\ e.type = "generation"
  /\ panel' = Advanced(e.generation)
  /\ UNCHANGED commands

(* Mutant: the revision is adopted, and that is all.                          *)
HearStaleWithoutRetry(e) ==
  /\ e.type = "stale"
  /\ Admits(e.generation)
  /\ panel' = [Advanced(e.generation) EXCEPT !.applied = e.config]
  /\ UNCHANGED commands

(* The helper's revision is adopted and what is desired is sent once more.    *)
HearStale(e) ==
  /\ e.type = "stale"
  /\ Admits(e.generation)
  /\ LET p == [Advanced(e.generation) EXCEPT !.applied = e.config]
     IN IF p.desired # p.applied /\ p.retry # p.desired
        THEN panel' = [p EXCEPT !.retry = p.desired] /\ commands' = commands \o Sent(p)
        ELSE panel' = p /\ UNCHANGED commands

HearUpdated(e) ==
  /\ e.type = "updated" /\ Confirms(e)
  /\ panel' = [Advanced(e.generation) EXCEPT !.retry = None, !.applied = e.config]
  /\ UNCHANGED commands

HearProtocolError(e) ==
  /\ e.type = "protocolError"
  /\ panel' = [panel EXCEPT !.ready = FALSE, !.generation = None]
  /\ UNCHANGED commands

(* A failure is a notification here, and what no case admits is dropped.      *)
HearIgnored(e) ==
  /\ \/ e.type = "failure"
     \/ e.type = "stale" /\ ~Admits(e.generation)
     \/ e.type = "updated" /\ ~Confirms(e)
  /\ UNCHANGED <<panel, commands>>

Heard(e) ==
  \/ HearReady(e)
  \/ HearGeneration(e)
  \/ HearStale(e)
  \/ HearUpdated(e)
  \/ HearProtocolError(e)
  \/ HearIgnored(e)

(* receiveLine                                                                *)
Hear ==
  /\ events # <<>> /\ events' = Tail(events)
  /\ Heard(Head(events))
  /\ UNCHANGED <<disk, store, helper, session, stores, starts>>

-----------------------------------------------------------------------------
(* The helper's main thread                                                  *)

Tell(e) == events' = Append(events, e)
AtGeneration(g) == [type |-> "generation", generation |-> g]

(* FileScrcpyConfigStore::load.  An invalid snapshot is removed by its name.  *)
Load ==
  /\ helper.step = "load"
  /\ IF disk.seen.value \in Known
     THEN /\ helper' = [helper EXCEPT !.step = "idle", !.config = disk.seen.value]
          /\ session' = [session EXCEPT !.cell = Effective(disk.seen.value, FALSE)]
          /\ Tell([type |-> "ready", config |-> disk.seen.value])
     ELSE helper' = [helper EXCEPT !.step = "clear"] /\ UNCHANGED <<session, events>>
  /\ UNCHANGED <<disk, store, panel, commands, stores, starts>>

Clear ==
  /\ helper.step = "clear"
  /\ disk' = [disk EXCEPT !.seen = NoFile]
  /\ helper' = [helper EXCEPT !.step = "idle", !.config = Empty]
  /\ session' = [session EXCEPT !.cell = Effective(Empty, FALSE)]
  /\ Tell([type |-> "ready", config |-> Empty])
  /\ UNCHANGED <<store, panel, commands, stores, starts>>

Taken(type) ==
  /\ helper.step = "idle" /\ commands # <<>> /\ Head(commands).type = type
  /\ commands' = Tail(commands)

(* handle_line: the generation, then the revision the panel starts from.  A   *)
(* stale answer is written in the step that read its generation; in the code  *)
(* a session's end may be told before it, and the panel passes it over.       *)
TakeSet ==
  /\ Taken("set")
  /\ LET c == Head(commands)
     IN IF c.generation # session.generation
        THEN /\ Tell([type |-> "stale", generation |-> session.generation,
                      config |-> helper.config])
             /\ UNCHANGED helper
        ELSE IF c.expected # helper.config
        THEN Tell([type |-> "protocolError"]) /\ UNCHANGED helper
        ELSE helper' = [helper EXCEPT !.step = "committed", !.new = c.new] /\ UNCHANGED events
  /\ UNCHANGED <<disk, store, session, panel, stores, starts>>

(* set_scrcpy_configuration loads the snapshot again: only what is committed  *)
(* is taken.                                                                  *)
CheckCommitted ==
  /\ helper.step = "committed"
  /\ IF disk.seen.value \notin Known
     THEN helper' = [helper EXCEPT !.step = "discard"] /\ UNCHANGED events
     ELSE IF disk.seen.value = helper.new
     THEN helper' = [helper EXCEPT !.step = "apply"] /\ UNCHANGED events
     ELSE helper' = [helper EXCEPT !.step = "idle"] /\ Tell([type |-> "failure"])
  /\ UNCHANGED <<disk, store, session, panel, commands, stores, starts>>

DiscardSnapshot ==
  /\ helper.step = "discard"
  /\ disk' = [disk EXCEPT !.seen = NoFile]
  /\ IF helper.new = Empty
     THEN helper' = [helper EXCEPT !.step = "apply"] /\ UNCHANGED events
     ELSE helper' = [helper EXCEPT !.step = "idle"] /\ Tell([type |-> "failure"])
  /\ UNCHANGED <<store, session, panel, commands, stores, starts>>

Spawned(args, of) == [step |-> "spawned", args |-> args, restartOf |-> of]

(* Mutant: the session is restarted before it is told its arguments.          *)
ApplyAfterRestart ==
  /\ helper.step = "apply"
  /\ LET live == session.worker.step = "live" IN
     /\ helper' = [helper EXCEPT !.step = "reply", !.config = helper.new, !.restarted = live]
     /\ session' =
          [session EXCEPT !.cell = Effective(helper.new, FALSE),
                          !.generation = IF live THEN @ + 1 ELSE @,
                          !.worker = IF live THEN [step |-> "read", args |-> session.cell,
                                                   restartOf |-> helper.new]
                                     ELSE [@ EXCEPT !.restartOf = None]]
  /\ UNCHANGED <<disk, store, panel, commands, events, stores, starts>>

(* The target says whether there is a session to restart; the worker of one   *)
(* that is starting may have read its arguments already.                      *)
Apply ==
  /\ helper.step = "apply"
  /\ LET live == session.worker.step = "live" IN
     /\ helper' = [helper EXCEPT !.step = "reply", !.config = helper.new, !.restarted = live]
     /\ session' =
          [session EXCEPT !.cell = Effective(helper.new, FALSE),
                          !.generation = IF live THEN @ + 1 ELSE @,
                          !.worker = IF live THEN Spawned(@.args, helper.new)
                                     ELSE [@ EXCEPT !.restartOf = None]]
  /\ UNCHANGED <<disk, store, panel, commands, events, stores, starts>>

(* scrcpy-args-updated carries the generation of the moment it is written.    *)
Reply ==
  /\ helper.step = "reply"
  /\ helper' = [helper EXCEPT !.step = "idle"]
  /\ Tell([type |-> "updated", config |-> helper.config, restarted |-> helper.restarted,
           generation |-> session.generation])
  /\ UNCHANGED <<disk, store, session, panel, commands, stores, starts>>

(* reconnect_trusted_device and, after the reply, prepare_session_start.       *)
TakeReconnect ==
  /\ Taken("reconnect")
  /\ session' = [generation |-> session.generation + 1,
                 cell |-> Effective(helper.config, TRUE),
                 worker |-> [NoSession EXCEPT !.step = "connecting"]]
  /\ Tell(AtGeneration(session.generation + 1))
  /\ UNCHANGED <<disk, store, helper, panel, stores, starts>>

-----------------------------------------------------------------------------
(* The session worker                                                        *)

WorkerGoes(from, to) ==
  /\ session.worker.step = from
  /\ session' = [session EXCEPT !.worker.step = to]
  /\ UNCHANGED <<disk, store, helper, panel, commands, events, stores, starts>>

Connect == WorkerGoes("connecting", "spawned")

(* The arguments are read, and the target is written when the runner is free. *)
ReadArguments ==
  /\ session.worker.step = "spawned"
  /\ session' = [session EXCEPT !.worker = [@ EXCEPT !.step = "read", !.args = session.cell]]
  /\ UNCHANGED <<disk, store, helper, panel, commands, events, stores, starts>>

GoLive == WorkerGoes("read", "live")

(* The session retries, or it is over.                                        *)
NextGeneration(worker) ==
  /\ session.generation < MaxGenerations
  /\ session' = [session EXCEPT !.generation = @ + 1, !.worker = worker]
  /\ Tell(AtGeneration(session.generation + 1))
  /\ UNCHANGED <<disk, store, helper, panel, commands, stores, starts>>

Retry == session.worker.step = "live" /\ NextGeneration(session.worker)
End == session.worker.step # "none" /\ NextGeneration(NoSession)

-----------------------------------------------------------------------------
(* Failures                                                                  *)

Gone ==
  /\ helper' = [helper EXCEPT !.step = "down"]
  /\ session' = [session EXCEPT !.worker = NoSession]
  /\ commands' = <<>> /\ events' = <<>>

HelperDies ==
  /\ helper.step # "down" /\ starts < MaxHelpers
  /\ Gone /\ panel' = NoFacts(panel)
  /\ UNCHANGED <<disk, store, stores, starts>>

(* A name leads to what reached the disk of it.                               *)
Survives(f) == IF f.synced THEN f ELSE File(Torn, TRUE)

PowerFails ==
  /\ starts < MaxHelpers
  /\ disk' = [seen |-> Survives(disk.kept), kept |-> Survives(disk.kept)]
  /\ store' = [store EXCEPT !.step = "idle", !.printed = None, !.told = {}]
  /\ Gone /\ panel' = [NoFacts(panel) EXCEPT !.desired = None]
  /\ UNCHANGED <<stores, starts>>

-----------------------------------------------------------------------------
StoreStep == StoreWrite \/ StoreSync \/ StoreRename \/ StoreSyncDirectory \/ StoreRemove

HelperStep ==
  \/ Load \/ Clear \/ TakeSet \/ CheckCommitted \/ DiscardSnapshot
  \/ Apply \/ Reply \/ TakeReconnect

SessionStep == Connect \/ ReadArguments \/ GoLive \/ Retry \/ End

ConfigNext ==
  \/ \E c \in Known : Commit(c)
  \/ StoreStep \/ StoreFails \/ Writeback \/ Spoil
  \/ \E c \in Known : Configure(c)
  \/ StartHelper \/ AskReconnect \/ Hear
  \/ HelperStep \/ SessionStep
  \/ HelperDies \/ PowerFails

ConfigSpec == ConfigInit /\ [][ConfigNext]_configVars

-----------------------------------------------------------------------------
(* Properties                                                                *)

(* A snapshot is never found half written, not even after a power failure:   *)
(* atomic_replace synchronises the file before it gives it the name.         *)
NeverTorn == disk.seen.value # Torn /\ disk.kept.value # Torn

(* A configuration whose revision was printed is what a power failure leaves, *)
(* unless the snapshot has been replaced or removed since.                    *)
StoredSurvives ==
  /\ store.printed \in Configs
  /\ disk.seen.value = store.printed
  => disk.kept.value = store.printed

(* Nothing is under way, panel and helper are at the same generation and      *)
(* revision, and what the panel was last told is what was last printed and is *)
(* stored: of two tellings the older may come last, a store that fails late   *)
(* is not told, and a helper that starts may remove what has just been stored.*)
Settled ==
  /\ store.step = "idle" /\ store.told = {}
  /\ commands = <<>> /\ events = <<>>
  /\ helper.step = "idle"
  /\ panel.ready /\ panel.generation = session.generation
  /\ panel.applied = helper.config
  /\ panel.desired = store.printed /\ disk.seen.value = store.printed

(* Then the helper has what is stored, and starting it again would change     *)
(* nothing; but a panel that has used up its one retry has given up.          *)
SettledAgrees ==
  Settled => \/ helper.config = disk.seen.value
             \/ panel.retry = panel.desired

(* A session restarted for a configuration runs that configuration, without  *)
(* its --turn-screen-off, unless another was set while it was starting.      *)
RestartRunsUpdate ==
  /\ session.worker.restartOf # None
  /\ session.worker.step = "live"
  => session.worker.args = Effective(session.worker.restartOf, FALSE)
=============================================================================
