-------------------------- MODULE ScrcpyConfigProofs --------------------------
(* Proofs about ScrcpyConfig, for any set of configurations.                 *)
EXTENDS ScrcpyConfig, SequenceTheorems, TLAPS

Revisions == Known \cup {None}
Files == [value: Known \cup {Invalid}, synced: BOOLEAN]
Disks == [seen: Files, kept: Files]
StoreSteps == {"idle", "write", "sync", "rename", "syncDirectory", "remove"}
Stores == [step: StoreSteps, config: Known, synced: BOOLEAN, printed: Revisions,
           told: SUBSET Known]
HelperSteps == {"down", "load", "clear", "idle", "committed", "discard", "apply", "reply"}
Helpers == [step: HelperSteps, config: Known, new: Known, restarted: BOOLEAN]
Arguments == [config: Known, screenOff: BOOLEAN]
WorkerSteps == {"none", "connecting", "spawned", "read", "live"}
Workers == [step: WorkerSteps, args: Arguments, restartOf: Revisions]
Sessions == [worker: Workers, generation: Nat, cell: Arguments]
Panels == [ready: BOOLEAN, generation: Nat \cup {None}, applied: Revisions,
           desired: Revisions, retry: Revisions]
Commands ==
  [type: {"set"}, expected: Known, new: Known, generation: Nat] \cup [type: {"reconnect"}]
Events ==
  [type: {"ready"}, config: Known] \cup [type: {"generation"}, generation: Nat]
  \cup [type: {"stale"}, generation: Nat, config: Known] \cup [type: {"protocolError", "failure"}]
  \cup [type: {"updated"}, config: Known, restarted: BOOLEAN, generation: Nat]

ConfigTypeOK ==
  /\ disk \in Disks /\ store \in Stores /\ helper \in Helpers /\ session \in Sessions
  /\ panel \in Panels /\ commands \in Seq(Commands) /\ events \in Seq(Events)

-----------------------------------------------------------------------------
(* Every name leads to synchronised data, and the temporary file has been    *)
(* synchronised before it gets one.                                          *)
NamesSynced ==
  /\ disk.seen.synced /\ disk.kept.synced
  /\ store.step = "rename" => store.synced

(* While a store runs nothing of it has been printed; a removal prints that   *)
(* there are no arguments.                                                   *)
PrintedLast ==
  /\ store.step # "idle" => store.printed = None
  /\ store.step = "remove" => store.config = Empty

(* There is no session before the helper has read the snapshot.              *)
NoSessionYet ==
  helper.step \in {"down", "load", "clear"} =>
    session.worker.step = "none" /\ session.worker.restartOf = None

(* A session restarted for a configuration finds it in the cell until it has  *)
(* read its arguments, and has it from then on.                               *)
RestartFinds ==
  session.worker.restartOf # None =>
    LET due == Effective(session.worker.restartOf, FALSE) IN
    /\ session.worker.step \in {"spawned", "read", "live"}
    /\ session.worker.step = "spawned" => session.cell = due
    /\ session.worker.step \in {"read", "live"} => session.worker.args = due

(* A panel that is ready has heard of a generation and of a revision.        *)
PanelTyped(p) ==
  /\ p \in Panels
  /\ p.ready => p.generation \in Nat /\ p.applied \in Known /\ p.desired \in Known

(* The inductive invariant has two halves that need nothing of each other.   *)
SnapshotInv ==
  disk \in Disks /\ store \in Stores /\ NamesSynced /\ PrintedLast /\ StoredSurvives
UpdateInv ==
  /\ helper \in Helpers /\ session \in Sessions /\ PanelTyped(panel)
  /\ commands \in Seq(Commands) /\ events \in Seq(Events)
  /\ NoSessionYet /\ RestartFinds

-----------------------------------------------------------------------------
(* The snapshot and the process that stores it.                              *)
(* A file or a printed revision is what it was made from.                    *)
LEMMA FileTyped ==
  ASSUME NEW c \in Known \cup {Invalid}, NEW b \in BOOLEAN
  PROVE  File(c, b) \in Files /\ File(c, b).value = c /\ File(c, b).synced = b
BY DEF File, Files

(* The typed parts of the file and of the process that stores it.            *)
LEMMA SnapshotParts ==
  ASSUME SnapshotInv
  PROVE  /\ disk.seen \in Files /\ disk.kept \in Files
         /\ disk.seen.value \in Known \cup {Invalid} /\ disk.seen.synced \in BOOLEAN
         /\ store.step \in StoreSteps /\ store.config \in Known /\ store.synced \in BOOLEAN
         /\ store.printed \in Revisions
BY DEF SnapshotInv, Disks, Stores, Files

(* The store process, step by step.                                          *)
LEMMA CommitKeeps == ASSUME SnapshotInv, NEW c \in Known, Commit(c) PROVE SnapshotInv'
<1>1. disk' = disk
  BY DEF Commit
<1>2. PICK s \in {"remove", "write"} :
        /\ s = "remove" => c = Empty
        /\ store' = [store EXCEPT !.step = s, !.config = c, !.synced = FALSE, !.printed = None]
  BY DEF Commit
<1>3. /\ store' \in Stores /\ store'.step = s /\ store'.config = c /\ store'.printed = None
  <2>1. s \in StoreSteps /\ None \in Revisions /\ store \in Stores
    BY <1>2 DEF StoreSteps, Revisions, SnapshotInv
  <2>2. QED BY <1>2, <2>1 DEF Stores
<1>4. StoredSurvives'
  BY <1>3, ScrcpyConfigAssumption DEF StoredSurvives, Known
<1>5. QED BY <1>1, <1>2, <1>3, <1>4 DEF SnapshotInv, NamesSynced, PrintedLast

(* A step of the storing process that leaves the file alone keeps the
   invariant.                                                                *)
LEMMA StoreGoesKeeps ==
  ASSUME SnapshotInv, NEW s \in {"idle", "sync"}, StoreGoes(s), disk' = disk,
         store.step # "idle"
  PROVE  SnapshotInv'
<1>1. /\ store' \in Stores /\ store'.step = s /\ store'.config = store.config
      /\ store'.printed = store.printed
  <2>1. s \in StoreSteps /\ store \in Stores
    BY DEF StoreSteps, SnapshotInv
  <2>2. QED BY <2>1 DEF Stores, StoreGoes
<1>2. QED BY <1>1 DEF SnapshotInv, NamesSynced, PrintedLast, StoredSurvives

(* Synchronising the temporary file keeps the invariant.                     *)
LEMMA StoreSyncKeeps == SnapshotInv /\ StoreSync => SnapshotInv'
<1> SUFFICES ASSUME SnapshotInv, StoreSync PROVE SnapshotInv'
  OBVIOUS
<1>1. disk' = disk /\ store.step = "sync"
  BY DEF StoreSync
<1>2. /\ store' \in Stores /\ store'.step = "rename" /\ store'.config = store.config
      /\ store'.printed = store.printed /\ store'.synced
  <2>1. "rename" \in StoreSteps /\ store \in Stores
    BY DEF StoreSteps, SnapshotInv
  <2>2. QED BY <2>1 DEF Stores, StoreSync
<1>3. QED BY <1>1, <1>2 DEF SnapshotInv, NamesSynced, PrintedLast, StoredSurvives

(* The name is given: nothing has been printed yet that this could belie.     *)
LEMMA StoreRenameKeeps == SnapshotInv /\ StoreRename => SnapshotInv'
<1> SUFFICES ASSUME SnapshotInv, StoreRename PROVE SnapshotInv'
  OBVIOUS
<1>1. store.step = "rename" /\ store.synced = TRUE /\ store.printed = None
  BY SnapshotParts DEF StoreRename, SnapshotInv, NamesSynced, PrintedLast
<1>2. /\ store' \in Stores /\ store'.step = "syncDirectory" /\ store'.printed = None
  <2>1. "syncDirectory" \in StoreSteps /\ store \in Stores
    BY DEF StoreSteps, SnapshotInv
  <2>2. QED BY <1>1, <2>1 DEF Stores, StoreRename, StoreGoes
<1>3. disk' \in Disks /\ disk'.seen.synced /\ disk'.kept = disk.kept
  <2>1. /\ File(store.config, store.synced) \in Files
        /\ File(store.config, store.synced).synced
    BY <1>1, SnapshotParts, FileTyped
  <2>2. disk \in Disks /\ disk' = [disk EXCEPT !.seen = File(store.config, store.synced)]
    BY DEF StoreRename, SnapshotInv
  <2>3. QED BY <2>1, <2>2 DEF Disks
<1>4. StoredSurvives'
  BY <1>2, ScrcpyConfigAssumption DEF StoredSurvives, Known
<1>5. QED BY <1>2, <1>3, <1>4 DEF SnapshotInv, NamesSynced, PrintedLast

(* The storing process prints what it stored.                                *)
LEMMA PrintsTyped ==
  ASSUME SnapshotInv, StorePrints
  PROVE  /\ store' \in Stores /\ store'.step = "idle" /\ store'.printed = store.config
<1>1. store \in Stores /\ "idle" \in StoreSteps /\ Known \subseteq Revisions
  BY DEF SnapshotInv, StoreSteps, Revisions
<1>2. store.config \in Known /\ store.told \cup {store.config} \in SUBSET Known
  BY <1>1 DEF Stores
<1>3. store' = [store EXCEPT !.step = "idle", !.printed = store.config,
                             !.told = store.told \cup {store.config}]
  BY DEF StorePrints
<1>4. QED BY <1>1, <1>2, <1>3 DEF Stores

(* What is printed is durable: the directory leads to it.                    *)
LEMMA StoreSyncDirectoryKeeps == SnapshotInv /\ StoreSyncDirectory => SnapshotInv'
<1> SUFFICES ASSUME SnapshotInv, StoreSyncDirectory PROVE SnapshotInv'
  OBVIOUS
<1>1. store' \in Stores /\ store'.step = "idle"
  BY PrintsTyped DEF StoreSyncDirectory
<1>2. disk' \in Disks /\ disk'.seen = disk.seen /\ disk'.kept = disk.seen
  <2>1. disk \in Disks /\ disk.seen \in Files
    BY SnapshotParts DEF SnapshotInv
  <2>2. QED BY <2>1 DEF Disks, StoreSyncDirectory
<1>3. QED BY <1>1, <1>2 DEF SnapshotInv, NamesSynced, PrintedLast, StoredSurvives

(* Removing the file keeps the invariant.                                    *)
LEMMA StoreRemoveKeeps == SnapshotInv /\ StoreRemove => SnapshotInv'
<1> SUFFICES ASSUME SnapshotInv, StoreRemove PROVE SnapshotInv'
  OBVIOUS
<1>1. store' \in Stores /\ store'.step = "idle" /\ store'.printed = store.config
  BY PrintsTyped DEF StoreRemove
<1>2. store.config = Empty
  BY DEF StoreRemove, SnapshotInv, PrintedLast
<1>3. disk' \in Disks /\ disk'.seen.synced /\ disk'.kept = disk.kept
  <2>1. NoFile \in Files /\ NoFile.synced
    BY FileTyped DEF NoFile, Known
  <2>2. disk \in Disks /\ disk' = [disk EXCEPT !.seen = NoFile]
    BY DEF StoreRemove, SnapshotInv
  <2>3. QED BY <2>1, <2>2 DEF Disks
<1>4. StoredSurvives'
  BY <1>1, <1>2, ScrcpyConfigAssumption DEF StoredSurvives, Known
<1>5. QED BY <1>1, <1>3, <1>4 DEF SnapshotInv, NamesSynced, PrintedLast

(* What others do to the name: a file that is no configuration is put there, *)
(* or the file is removed.  Neither is what was printed.                     *)
LEMMA SeenReplaced ==
  ASSUME SnapshotInv, store' = store, NEW c \in {Invalid, Empty},
         disk' = [disk EXCEPT !.seen = File(c, TRUE)]
  PROVE  SnapshotInv'
<1>1. File(c, TRUE) \in Files /\ File(c, TRUE).synced /\ File(c, TRUE).value = c
  BY FileTyped DEF Known
<1>2. /\ disk' \in Disks /\ disk'.seen.synced /\ disk'.kept = disk.kept
      /\ disk'.seen.value = c
  <2>1. disk \in Disks
    BY DEF SnapshotInv
  <2>2. QED BY <1>1, <2>1 DEF Disks
<1>3. c \notin Configs
  BY ScrcpyConfigAssumption DEF Known
<1>4. StoredSurvives'
  BY <1>2, <1>3 DEF StoredSurvives
<1>5. QED BY <1>2, <1>4 DEF SnapshotInv, NamesSynced, PrintedLast

(* The kernel's own writeback keeps the invariant.                           *)
LEMMA WritebackKeeps == SnapshotInv /\ Writeback => SnapshotInv'
<1> SUFFICES ASSUME SnapshotInv, Writeback PROVE SnapshotInv'
  OBVIOUS
<1>1. store' = store
  BY DEF Writeback
<1> DEFINE f == File(disk.seen.value, TRUE)
<1>2. f \in Files /\ f.value = disk.seen.value /\ f.synced
  BY SnapshotParts, FileTyped
<1>3. /\ disk' \in Disks /\ disk'.kept = f /\ disk'.seen.value = disk.seen.value
      /\ disk'.seen.synced
  <2>1. disk \in [seen: [value: Known \cup {Invalid}, synced: BOOLEAN],
                  kept: [value: Known \cup {Invalid}, synced: BOOLEAN]]
    BY DEF SnapshotInv, Disks, Files
  <2>2. disk' = [disk EXCEPT !.kept = f, !.seen.synced = TRUE]
    BY DEF Writeback
  <2> HIDE DEF f
  <2>3. QED BY <1>2, <2>1, <2>2 DEF Disks, Files
<1>4. QED BY <1>1, <1>2, <1>3 DEF SnapshotInv, NamesSynced, PrintedLast, StoredSurvives

(* A commit of the bindings keeps the invariant.                             *)
LEMMA ConfigureKeeps == ASSUME SnapshotInv, NEW c \in Known, Configure(c) PROVE SnapshotInv'
<1>1. disk' = disk /\ store' = [store EXCEPT !.told = store.told \ {c}]
  BY DEF Configure
<1>2. /\ store' \in Stores /\ store'.step = store.step /\ store'.config = store.config
      /\ store'.printed = store.printed /\ store'.synced = store.synced
  <2>1. store \in Stores
    BY DEF SnapshotInv
  <2>2. QED BY <1>1, <2>1 DEF Stores
<1>3. QED BY <1>1, <1>2 DEF SnapshotInv, NamesSynced, PrintedLast, StoredSurvives

(* Nothing is lost of a synchronised file.                                   *)
LEMMA PowerFailsKeeps == SnapshotInv /\ PowerFails => SnapshotInv'
<1> SUFFICES ASSUME SnapshotInv, PowerFails PROVE SnapshotInv'
  OBVIOUS
<1>1. disk' = [seen |-> disk.kept, kept |-> disk.kept]
  BY DEF SnapshotInv, NamesSynced, PowerFails, Survives
<1>2. disk' \in Disks /\ disk'.seen = disk.kept /\ disk'.kept = disk.kept
  BY <1>1, SnapshotParts DEF Disks
<1>3. store' \in Stores /\ store'.step = "idle" /\ store'.printed = None
  <2>1. "idle" \in StoreSteps /\ None \in Revisions /\ store \in Stores /\ {} \in SUBSET Known
    BY DEF StoreSteps, Revisions, SnapshotInv
  <2>2. store' = [store EXCEPT !.step = "idle", !.printed = None, !.told = {}]
    BY DEF PowerFails
  <2>3. QED BY <2>1, <2>2 DEF Stores
<1>4. StoredSurvives'
  BY <1>3, ScrcpyConfigAssumption DEF StoredSurvives, Known
<1>5. QED BY <1>2, <1>3, <1>4 DEF SnapshotInv, NamesSynced, PrintedLast

(* Every step keeps the snapshot's invariant.                                *)
LEMMA SnapshotNext == SnapshotInv /\ [ConfigNext]_configVars => SnapshotInv'
<1> SUFFICES ASSUME SnapshotInv, [ConfigNext]_configVars PROVE SnapshotInv'
  OBVIOUS
<1>1. CASE disk' = disk /\ store' = store
  BY <1>1 DEF SnapshotInv, NamesSynced, PrintedLast, StoredSurvives
<1>2. CASE \E c \in Known : Commit(c) BY <1>2, CommitKeeps
<1>3. CASE StoreStep
  <2>1. StoreWrite => SnapshotInv'
    BY StoreGoesKeeps DEF StoreWrite
  <2>2. QED BY <1>3, <2>1, StoreSyncKeeps, StoreRenameKeeps, StoreSyncDirectoryKeeps,
               StoreRemoveKeeps DEF StoreStep
<1>4. CASE StoreFails BY <1>4, StoreGoesKeeps DEF StoreFails
<1>5. CASE Writeback BY <1>5, WritebackKeeps
<1>6. CASE Spoil BY <1>6, SeenReplaced DEF Spoil
<1>7. CASE \E c \in Known : Configure(c) BY <1>7, ConfigureKeeps
<1>8. CASE Clear BY <1>8, SeenReplaced DEF Clear, NoFile
<1>9. CASE DiscardSnapshot BY <1>9, SeenReplaced DEF DiscardSnapshot, NoFile
<1>10. CASE PowerFails BY <1>10, PowerFailsKeeps
<1>11. CASE StartHelper \/ AskReconnect \/ Hear \/ HelperDies
  BY <1>1, <1>11 DEF StartHelper, AskReconnect, Hear, HelperDies
<1>12. CASE Load \/ TakeSet \/ CheckCommitted \/ Apply \/ Reply \/ TakeReconnect
  BY <1>1, <1>12 DEF Load, TakeSet, CheckCommitted, Apply, Reply, TakeReconnect
<1>13. CASE SessionStep
  BY <1>1, <1>13 DEF SessionStep, Connect, ReadArguments, GoLive, Retry, End, WorkerGoes,
     NextGeneration
<1>14. CASE UNCHANGED configVars BY <1>1, <1>14 DEF configVars
<1>15. QED
  BY <1>2, <1>3, <1>4, <1>5, <1>6, <1>7, <1>8, <1>9, <1>10, <1>11, <1>12, <1>13, <1>14
  DEF ConfigNext, HelperStep

(* The snapshot's invariant holds at first.                                  *)
LEMMA SnapshotInit == ConfigInit => SnapshotInv
<1> SUFFICES ASSUME ConfigInit PROVE SnapshotInv
  OBVIOUS
<1>1. PICK c \in Known \cup {Invalid} : disk = [seen |-> File(c, TRUE), kept |-> File(c, TRUE)]
  BY DEF ConfigInit
<1>2. disk \in Disks /\ disk.seen.synced /\ disk.kept.synced
  BY <1>1, FileTyped DEF Disks
<1>3. store \in Stores /\ store.step = "idle" /\ store.printed = None
  <2>1. store = [step |-> "idle", config |-> Empty, synced |-> FALSE, printed |-> None,
                 told |-> {}]
    BY DEF ConfigInit
  <2>2. QED BY <2>1 DEF Stores, StoreSteps, Known, Revisions
<1>4. StoredSurvives
  BY <1>3, ScrcpyConfigAssumption DEF StoredSurvives, Known
<1>5. QED BY <1>2, <1>3, <1>4 DEF SnapshotInv, NamesSynced, PrintedLast

(* Neither the name nor what a power failure leaves of it ever leads to data  *)
(* that were not synchronised.                                               *)
THEOREM SnapshotWhole == ConfigSpec => []NeverTorn
<1>1. SnapshotInv => NeverTorn
  BY SnapshotParts, ScrcpyConfigAssumption DEF NeverTorn, SnapshotInv, Disks, Files, Invalid, Torn
<1>2. QED BY <1>1, SnapshotInit, SnapshotNext, PTL DEF ConfigSpec

(* The user is told a revision when it is durable, not before: what was       *)
(* printed and is still there is what a power failure leaves.                 *)
THEOREM StoredDurable == ConfigSpec => []StoredSurvives
<1>1. SnapshotInv => StoredSurvives
  BY DEF SnapshotInv
<1>2. QED BY <1>1, SnapshotInit, SnapshotNext, PTL DEF ConfigSpec

-----------------------------------------------------------------------------
(* The update of the panel's configuration to the session: first the types.  *)
LEMMA CommandFields ==
  ASSUME NEW c \in Commands, c.type = "set"
  PROVE  c.expected \in Known /\ c.new \in Known /\ c.generation \in Nat
BY DEF Commands

(* The events that carry a configuration or a generation carry a proper
   one.                                                                      *)
LEMMA EventFields ==
  ASSUME NEW e \in Events
  PROVE  /\ e.type \in {"ready", "stale", "updated"} => e.config \in Known
         /\ e.type \in {"generation", "stale", "updated"} => e.generation \in Nat
BY DEF Events

(* The events the helper tells are events.                                   *)
LEMMA EventsTyped ==
  ASSUME NEW c \in Known, NEW g \in Nat, NEW r \in BOOLEAN
  PROVE  /\ [type |-> "ready", config |-> c] \in Events
         /\ [type |-> "generation", generation |-> g] \in Events
         /\ [type |-> "stale", generation |-> g, config |-> c] \in Events
         /\ [type |-> "protocolError"] \in Events /\ [type |-> "failure"] \in Events
         /\ [type |-> "updated", config |-> c, restarted |-> r, generation |-> g] \in Events
BY DEF Events

(* What a panel sends, and what is sent after other commands.                *)
LEMMA SentTyped ==
  ASSUME NEW p, PanelTyped(p), NEW cs \in Seq(Commands)
  PROVE  cs \o Sent(p) \in Seq(Commands)
<1>1. CASE ~Wants(p)
  <2>1. Sent(p) = <<>> /\ <<>> \in Seq(Commands)
    BY <1>1 DEF Sent
  <2>2. QED BY <2>1, ConcatProperties
<1>2. CASE Wants(p)
  <2>1. p.ready
    BY <1>2 DEF Wants
  <2>2. [type |-> "set", expected |-> p.applied, new |-> p.desired, generation |-> p.generation]
          \in Commands
    BY <2>1 DEF Commands, PanelTyped
  <2>3. SetArguments(p) \in Commands
    BY <2>2 DEF SetArguments
  <2>4. Sent(p) = <<SetArguments(p)>> /\ <<SetArguments(p)>> \in Seq(Commands)
    BY <1>2, <2>3 DEF Sent
  <2>5. QED BY <2>4, ConcatProperties
<1>3. QED BY <1>1, <1>2

(* What the panel makes of its record.                                       *)
LEMMA AdvancedTyped ==
  ASSUME PanelTyped(panel), NEW g \in Nat
  PROVE  PanelTyped(Advanced(g))
<1>1. panel \in Panels /\ g \in Nat \cup {None}
  BY DEF PanelTyped
<1>2. CASE Advances(g)
  <2>1. Advanced(g) = [panel EXCEPT !.generation = g]
    BY <1>2 DEF Advanced
  <2>2. [panel EXCEPT !.generation = g] \in Panels
    BY <1>1 DEF Panels
  <2>3. PanelTyped([panel EXCEPT !.generation = g])
    BY <1>1, <2>2 DEF PanelTyped, Panels
  <2>4. QED BY <2>1, <2>3
<1>3. CASE ~Advances(g)
  BY <1>3 DEF Advanced
<1>4. QED BY <1>2, <1>3

(* What a confirmation, a retry or a commit makes of the panel's facts is
   typed.                                                                    *)
LEMMA AppliedTyped ==
  ASSUME NEW p, PanelTyped(p), NEW c \in Known
  PROVE  /\ PanelTyped([p EXCEPT !.applied = c])
         /\ PanelTyped([p EXCEPT !.retry = p.desired])
         /\ PanelTyped([p EXCEPT !.retry = None, !.applied = c])
         /\ PanelTyped([p EXCEPT !.desired = c, !.retry = None])
<1>1. p \in Panels /\ c \in Revisions /\ None \in Revisions
  BY DEF PanelTyped, Revisions
<1>2. p.desired \in Revisions
  BY <1>1 DEF Panels
<1>3. PanelTyped([p EXCEPT !.applied = c])
  BY <1>1 DEF PanelTyped, Panels
<1>4. PanelTyped([p EXCEPT !.retry = p.desired])
  BY <1>1, <1>2 DEF PanelTyped, Panels
<1>5. PanelTyped([p EXCEPT !.retry = None, !.applied = c])
  BY <1>1 DEF PanelTyped, Panels
<1>6. PanelTyped([p EXCEPT !.desired = c, !.retry = None])
  BY <1>1 DEF PanelTyped, Panels
<1>7. QED BY <1>3, <1>4, <1>5, <1>6

(* What the loss of the helper makes of the panel's facts is typed.          *)
LEMMA UnreadyTyped ==
  ASSUME PanelTyped(panel)
  PROVE  /\ PanelTyped(NoFacts(panel))
         /\ PanelTyped([NoFacts(panel) EXCEPT !.desired = None])
         /\ PanelTyped([panel EXCEPT !.ready = FALSE, !.generation = None])
<1>1. panel \in Panels /\ None \in Revisions
  BY DEF PanelTyped, Revisions
<1>2. NoFacts(panel) \in Panels /\ ~NoFacts(panel).ready
  BY <1>1 DEF Panels, NoFacts
<1>3. LET p == NoFacts(panel) IN
      [p EXCEPT !.desired = None] \in Panels /\ ~[p EXCEPT !.desired = None].ready
  BY <1>1, <1>2 DEF Panels
<1>4. LET p == [panel EXCEPT !.ready = FALSE, !.generation = None] IN p \in Panels /\ ~p.ready
  BY <1>1 DEF Panels
<1>5. QED BY <1>2, <1>3, <1>4 DEF PanelTyped

(* Reading any event keeps the panel and its pipe typed.                     *)
LEMMA HeardTyped ==
  ASSUME PanelTyped(panel), commands \in Seq(Commands), NEW e \in Events, Heard(e)
  PROVE  PanelTyped(panel') /\ commands' \in Seq(Commands)
<1>1. CASE HearReady(e)
  <2>1. panel \in Panels /\ e.config \in Known /\ e.config \in Revisions
    BY <1>1, EventFields DEF HearReady, PanelTyped, Revisions
  <2> DEFINE p == [panel EXCEPT !.ready = TRUE, !.generation = 0, !.applied = e.config,
                                !.desired = IF @ = None THEN e.config ELSE @]
  <2>2. p \in Panels
    BY <2>1 DEF Panels
  <2>3. /\ p.ready = TRUE /\ p.generation = 0 /\ p.applied = e.config
        /\ p.desired = IF panel.desired = None THEN e.config ELSE panel.desired
    BY <2>1 DEF Panels
  <2>4. panel.desired \in Known \cup {None}
    BY <2>1 DEF Panels, Revisions
  <2>5. panel' = p /\ commands' = commands \o Sent(p)
    BY <1>1 DEF HearReady
  <2> HIDE DEF p
  <2>6. PanelTyped(p)
    BY <2>1, <2>2, <2>3, <2>4 DEF PanelTyped
  <2>7. QED BY <2>5, <2>6, SentTyped
<1>2. CASE HearGeneration(e)
  BY <1>2, EventFields, AdvancedTyped DEF HearGeneration
<1>3. CASE HearStale(e)
  <2> DEFINE p == [Advanced(e.generation) EXCEPT !.applied = e.config]
             q == [p EXCEPT !.retry = p.desired]
  <2>1. e.config \in Known /\ e.generation \in Nat
    BY <1>3, EventFields DEF HearStale
  <2>2. PanelTyped(p)
    BY <2>1, AdvancedTyped, AppliedTyped
  <2>3. \/ panel' = q /\ commands' = commands \o Sent(p)
        \/ panel' = p /\ commands' = commands
    BY <1>3 DEF HearStale
  <2> HIDE DEF p
  <2>4. PanelTyped(q)
    BY <2>1, <2>2, AppliedTyped
  <2> HIDE DEF q
  <2>5. QED BY <2>2, <2>3, <2>4, SentTyped
<1>4. CASE HearUpdated(e)
  <2>1. e.config \in Known /\ e.generation \in Nat
    BY <1>4, EventFields DEF HearUpdated
  <2>2. panel' = [Advanced(e.generation) EXCEPT !.retry = None, !.applied = e.config]
    BY <1>4 DEF HearUpdated
  <2>3. PanelTyped(Advanced(e.generation))
    BY <2>1, AdvancedTyped
  <2>4. PanelTyped([Advanced(e.generation) EXCEPT !.retry = None, !.applied = e.config])
    BY <2>1, <2>3, AppliedTyped
  <2>5. QED BY <1>4, <2>2, <2>4 DEF HearUpdated
<1>5. CASE HearProtocolError(e)
  BY <1>5, UnreadyTyped DEF HearProtocolError
<1>6. CASE HearIgnored(e)
  BY <1>6 DEF HearIgnored
<1>7. QED BY <1>1, <1>2, <1>3, <1>4, <1>5, <1>6 DEF Heard

-----------------------------------------------------------------------------
(* The session and the helper.                                               *)
LEMMA SessionParts ==
  ASSUME UpdateInv
  PROVE  /\ session.worker \in Workers /\ session.generation \in Nat
         /\ session.cell \in Arguments /\ session.worker.args \in Arguments
         /\ helper.step \in HelperSteps /\ helper.config \in Known /\ helper.new \in Known
         /\ helper.restarted \in BOOLEAN
BY DEF UpdateInv, Sessions, Workers, Helpers

(* The arguments a session starts with are arguments.                        *)
LEMMA EffectiveTyped ==
  ASSUME NEW c \in Known, NEW b \in BOOLEAN
  PROVE  Effective(c, b) \in Arguments
BY DEF Effective, Arguments

(* A step that leaves helper and session alone.                              *)
LEMMA PanelOnly ==
  ASSUME UpdateInv, helper' = helper, session' = session,
         PanelTyped(panel'), commands' \in Seq(Commands), events' \in Seq(Events)
  PROVE  UpdateInv'
<1>1. NoSessionYet' /\ RestartFinds'
  BY DEF UpdateInv, NoSessionYet, RestartFinds
<1>2. PanelTyped(panel)'
  BY DEF PanelTyped
<1>3. QED BY <1>1, <1>2 DEF UpdateInv

(* A step that replaces the worker by one without a session.                 *)
LEMMA WithoutSession ==
  ASSUME UpdateInv, helper' \in Helpers, session' \in Sessions, session'.worker = NoSession,
         PanelTyped(panel'), commands' \in Seq(Commands), events' \in Seq(Events)
  PROVE  UpdateInv'
<1>1. session'.worker.step = "none" /\ session'.worker.restartOf = None
  BY DEF NoSession
<1>2. NoSessionYet' /\ RestartFinds'
  BY <1>1 DEF NoSessionYet, RestartFinds
<1>3. PanelTyped(panel)'
  BY DEF PanelTyped
<1>4. QED BY <1>2, <1>3 DEF UpdateInv

(* A step that moves the helper along, past the snapshot.                    *)
LEMMA HelperOnly ==
  ASSUME UpdateInv, helper' \in Helpers, session' = session,
         \/ helper'.step \notin {"down", "load", "clear"}
         \/ helper.step \in {"down", "load", "clear"},
         panel' = panel, commands' \in Seq(Commands), events' \in Seq(Events)
  PROVE  UpdateInv'
<1>1. NoSessionYet' /\ RestartFinds'
  BY DEF UpdateInv, NoSessionYet, RestartFinds
<1>2. PanelTyped(panel)'
  BY DEF UpdateInv, PanelTyped
<1>3. QED BY <1>1, <1>2 DEF UpdateInv

(* A step that changes the session of a helper that has read the snapshot.   *)
LEMMA SessionOnly ==
  ASSUME UpdateInv, helper' \in Helpers, session' \in Sessions,
         helper'.step \notin {"down", "load", "clear"}, RestartFinds',
         panel' = panel, commands' \in Seq(Commands), events' \in Seq(Events)
  PROVE  UpdateInv'
<1>1. NoSessionYet'
  BY DEF NoSessionYet
<1>2. PanelTyped(panel)'
  BY DEF UpdateInv, PanelTyped
<1>3. QED BY <1>1, <1>2 DEF UpdateInv

(* A helper without a session is typed.                                      *)
LEMMA NoSessionTyped == NoSession \in Workers
BY EffectiveTyped DEF NoSession, Workers, WorkerSteps, Revisions, Known

(* Telling an event keeps the pipe typed.                                    *)
LEMMA TellTyped ==
  ASSUME UpdateInv, NEW e \in Events, Tell(e)
  PROVE  events' \in Seq(Events)
BY AppendProperties DEF UpdateInv, Tell

(* A command the helper takes was in its pipe.                               *)
LEMMA TakenTyped ==
  ASSUME UpdateInv, NEW t, Taken(t)
  PROVE  /\ commands' \in Seq(Commands) /\ Head(commands) \in Commands
         /\ Head(commands).type = t
BY HeadTailProperties DEF UpdateInv, Taken

(* The panel's steps.                                                        *)
LEMMA PanelKeeps ==
  ASSUME UpdateInv, (\E c \in Known : Configure(c)) \/ AskReconnect \/ Hear
  PROVE  UpdateInv'
<1>1. /\ helper' = helper /\ session' = session /\ PanelTyped(panel)
      /\ commands \in Seq(Commands) /\ events \in Seq(Events)
  BY DEF Configure, AskReconnect, Hear, UpdateInv
<1>2. ASSUME NEW c \in Known, Configure(c) PROVE UpdateInv'
  <2> DEFINE p == [panel EXCEPT !.desired = c, !.retry = None]
  <2>1. panel' = p /\ commands' = commands \o Sent(p) /\ events' = events
    BY <1>2 DEF Configure
  <2>2. PanelTyped(p)
    BY <1>1, AppliedTyped
  <2> HIDE DEF p
  <2>3. commands' \in Seq(Commands)
    BY <1>1, <2>1, <2>2, SentTyped
  <2>4. QED BY <1>1, <2>1, <2>2, <2>3, PanelOnly
<1>3. CASE AskReconnect
  <2>1. [type |-> "reconnect"] \in Commands
    BY DEF Commands
  <2>2. commands' \in Seq(Commands) /\ panel' = panel /\ events' = events
    BY <1>1, <1>3, <2>1, AppendProperties DEF AskReconnect
  <2>3. QED BY <1>1, <2>2, PanelOnly
<1>4. CASE Hear
  <2>1. Head(events) \in Events /\ events' \in Seq(Events) /\ Heard(Head(events))
    BY <1>1, <1>4, HeadTailProperties DEF Hear
  <2>2. PanelTyped(panel') /\ commands' \in Seq(Commands)
    BY <1>1, <2>1, HeardTyped
  <2>3. QED BY <1>1, <2>1, <2>2, PanelOnly
<1>5. QED BY <1>2, <1>3, <1>4

(* A helper is started, dies, or the power fails: there is no session.        *)
LEMMA GoneKeeps ==
  ASSUME UpdateInv, StartHelper \/ HelperDies \/ PowerFails
  PROVE  UpdateInv'
<1>1. helper \in Helpers /\ session \in Sessions /\ PanelTyped(panel) /\ NoSession \in Workers
  BY NoSessionTyped DEF UpdateInv
<1>2. PanelTyped(panel')
  BY <1>1, UnreadyTyped DEF StartHelper, HelperDies, PowerFails
<1>3. commands' = <<>> /\ events' = <<>>
  BY DEF StartHelper, HelperDies, PowerFails, Gone
<1>4. helper' \in Helpers
  <2>1. \E s \in {"load", "down"} : helper' = [helper EXCEPT !.step = s]
    BY DEF StartHelper, HelperDies, PowerFails, Gone
  <2>2. {"load", "down"} \subseteq HelperSteps
    BY DEF HelperSteps
  <2>3. QED BY <1>1, <2>1, <2>2 DEF Helpers
<1>5. session' \in Sessions /\ session'.worker = NoSession
  <2>1. \/ session' = [session EXCEPT !.generation = 0, !.worker = NoSession]
        \/ session' = [session EXCEPT !.worker = NoSession]
    BY DEF StartHelper, HelperDies, PowerFails, Gone
  <2>2. ASSUME session' = [session EXCEPT !.generation = 0, !.worker = NoSession]
        PROVE  session' \in Sessions /\ session'.worker = NoSession
    BY <1>1, <2>2 DEF Sessions
  <2>3. ASSUME session' = [session EXCEPT !.worker = NoSession]
        PROVE  session' \in Sessions /\ session'.worker = NoSession
    BY <1>1, <2>3 DEF Sessions
  <2>4. QED BY <2>1, <2>2, <2>3
<1>6. commands' \in Seq(Commands) /\ events' \in Seq(Events)
  BY <1>3
<1>7. QED BY <1>2, <1>4, <1>5, <1>6, WithoutSession

(* The helper reads the snapshot, with no session there.                     *)
LEMMA LoadKeeps ==
  ASSUME UpdateInv, Load \/ Clear
  PROVE  UpdateInv'
<1>1. /\ helper \in Helpers /\ session \in Sessions /\ commands \in Seq(Commands)
      /\ events \in Seq(Events) /\ panel' = panel /\ commands' = commands
      /\ session.worker.restartOf = None /\ helper.step \in {"load", "clear"}
  BY DEF UpdateInv, Load, Clear, NoSessionYet
<1>2. ASSUME NEW c \in Known,
             helper' = [helper EXCEPT !.step = "idle", !.config = c],
             session' = [session EXCEPT !.cell = Effective(c, FALSE)],
             Tell([type |-> "ready", config |-> c])
      PROVE  UpdateInv'
  <2>1. helper' \in Helpers /\ helper'.step = "idle"
    BY <1>1, <1>2 DEF Helpers, HelperSteps
  <2>2. session' \in Sessions /\ session'.worker = session.worker
    BY <1>1, <1>2, EffectiveTyped DEF Sessions
  <2>3. events' \in Seq(Events)
    BY <1>2, TellTyped DEF Events
  <2>4. RestartFinds'
    BY <1>1, <2>2 DEF RestartFinds
  <2>5. QED BY <1>1, <2>1, <2>2, <2>3, <2>4, SessionOnly
<1>3. CASE helper' = [helper EXCEPT !.step = "clear"] /\ session' = session /\ events' = events
  <2>1. helper' \in Helpers
    BY <1>1, <1>3 DEF Helpers, HelperSteps
  <2>2. QED BY <1>1, <1>3, <2>1, HelperOnly
<1>4. QED BY <1>2, <1>3 DEF Load, Clear, Known

(* A command is taken and checked.                                           *)
LEMMA CheckKeeps ==
  ASSUME UpdateInv, TakeSet \/ CheckCommitted \/ DiscardSnapshot \/ Reply
  PROVE  UpdateInv'
<1>1. /\ helper \in Helpers /\ session \in Sessions /\ commands \in Seq(Commands)
      /\ events \in Seq(Events) /\ panel' = panel /\ session' = session
      /\ session.generation \in Nat /\ helper.config \in Known /\ helper.restarted \in BOOLEAN
  BY SessionParts DEF UpdateInv, TakeSet, CheckCommitted, DiscardSnapshot, Reply
<1>2. \/ helper' = helper /\ helper.step = "idle"
      \/ \E s \in {"idle", "discard", "apply"} : helper' = [helper EXCEPT !.step = s]
      \/ TakeSet /\ helper' = [helper EXCEPT !.step = "committed", !.new = Head(commands).new]
  BY DEF TakeSet, CheckCommitted, DiscardSnapshot, Reply, Taken
<1>3. helper' \in Helpers /\ helper'.step \notin {"down", "load", "clear"}
  <2>1. CASE \E s \in {"idle", "discard", "apply"} : helper' = [helper EXCEPT !.step = s]
    BY <1>1, <2>1 DEF Helpers, HelperSteps
  <2>2. CASE TakeSet /\ helper' = [helper EXCEPT !.step = "committed", !.new = Head(commands).new]
    <3>1. Head(commands).new \in Known
      BY <2>2, TakenTyped, CommandFields DEF TakeSet
    <3>2. QED BY <1>1, <2>2, <3>1 DEF Helpers, HelperSteps
  <2>3. QED BY <1>1, <1>2, <2>1, <2>2
<1>4. commands' \in Seq(Commands)
  BY <1>1, TakenTyped DEF TakeSet, CheckCommitted, DiscardSnapshot, Reply
<1>5. events' \in Seq(Events)
  <2>1. CASE TakeSet
    <3>1. \/ events' = events \/ Tell([type |-> "protocolError"])
          \/ Tell([type |-> "stale", generation |-> session.generation, config |-> helper.config])
      BY <2>1 DEF TakeSet
    <3>2. QED BY <1>1, <3>1, EventsTyped, TellTyped
  <2>2. CASE CheckCommitted \/ DiscardSnapshot
    <3>1. events' = events \/ Tell([type |-> "failure"])
      BY <2>2 DEF CheckCommitted, DiscardSnapshot
    <3>2. QED BY <1>1, <3>1, EventsTyped, TellTyped
  <2>3. CASE Reply
    <3>1. Tell([type |-> "updated", config |-> helper.config, restarted |-> helper.restarted,
                generation |-> session.generation])
      BY <2>3 DEF Reply
    <3>2. QED BY <1>1, <3>1, EventsTyped, TellTyped
  <2>4. QED BY <2>1, <2>2, <2>3
<1>6. QED BY <1>1, <1>3, <1>4, <1>5, HelperOnly

(* The update itself: the cell is written before a session is restarted.     *)
LEMMA ApplyKeeps == UpdateInv /\ Apply => UpdateInv'
<1> SUFFICES ASSUME UpdateInv, Apply PROVE UpdateInv'
  OBVIOUS
<1> DEFINE due == Effective(helper.new, FALSE)
<1>1. /\ helper \in Helpers /\ session \in Sessions /\ commands' = commands
      /\ commands \in Seq(Commands) /\ events' = events /\ events \in Seq(Events)
      /\ panel' = panel /\ helper.new \in Known /\ session.generation \in Nat
  BY SessionParts DEF UpdateInv, Apply
<1>2. due \in Arguments /\ session.generation + 1 \in Nat
  <2>1. due \in Arguments
    BY <1>1, EffectiveTyped
  <2>2. session.generation + 1 \in Nat
    BY <1>1
  <2>3. QED BY <2>1, <2>2
<1>3. helper' \in Helpers /\ helper'.step = "reply"
  <2>1. \E r \in BOOLEAN :
          helper' = [helper EXCEPT !.step = "reply", !.config = helper.new, !.restarted = r]
    BY DEF Apply
  <2>2. "reply" \in HelperSteps
    BY DEF HelperSteps
  <2>3. QED BY <1>1, <2>1, <2>2 DEF Helpers
<1>4. CASE session.worker.step = "live"
  <2> DEFINE w == Spawned(session.worker.args, helper.new)
  <2>1. session' = [session EXCEPT !.cell = due, !.generation = session.generation + 1,
                                   !.worker = w]
    BY <1>4 DEF Apply
  <2>2. w \in Workers /\ w.step = "spawned" /\ w.restartOf = helper.new
    BY <1>1, SessionParts DEF Spawned, Workers, WorkerSteps, Revisions
  <2> HIDE DEF w, due
  <2>3. session' \in Sessions /\ session'.worker = w /\ session'.cell = due
    BY <1>1, <1>2, <2>1, <2>2 DEF Sessions
  <2>4. RestartFinds'
    BY <2>2, <2>3 DEF RestartFinds, due
  <2>5. QED BY <1>1, <1>3, <2>3, <2>4, SessionOnly
<1>5. CASE session.worker.step # "live"
  <2> DEFINE w == [session.worker EXCEPT !.restartOf = None]
  <2>1. session' = [session EXCEPT !.cell = due, !.generation = session.generation,
                                   !.worker = w]
    BY <1>5 DEF Apply
  <2>2. w \in Workers /\ w.restartOf = None
    BY <1>1, SessionParts DEF Workers, Revisions
  <2> HIDE DEF w, due
  <2>3. session' \in Sessions /\ session'.worker = w
    BY <1>1, <1>2, <2>1, <2>2 DEF Sessions
  <2>4. RestartFinds'
    BY <2>2, <2>3 DEF RestartFinds
  <2>5. QED BY <1>1, <1>3, <2>3, <2>4, SessionOnly
<1>6. QED BY <1>4, <1>5

(* A reconnect the helper takes keeps the invariant.                         *)
LEMMA TakeReconnectKeeps == UpdateInv /\ TakeReconnect => UpdateInv'
<1> SUFFICES ASSUME UpdateInv, TakeReconnect PROVE UpdateInv'
  OBVIOUS
<1> DEFINE w == [NoSession EXCEPT !.step = "connecting"]
<1>1. /\ helper' = helper /\ helper \in Helpers /\ panel' = panel
      /\ helper.step = "idle" /\ session.generation \in Nat /\ helper.config \in Known
  BY SessionParts DEF UpdateInv, TakeReconnect, Taken
<1>2. session.generation + 1 \in Nat /\ Effective(helper.config, TRUE) \in Arguments
  <2>1. Effective(helper.config, TRUE) \in Arguments
    BY <1>1, EffectiveTyped
  <2>2. session.generation + 1 \in Nat
    BY <1>1
  <2>3. QED BY <2>1, <2>2
<1>3. w \in Workers /\ w.restartOf = None
  BY NoSessionTyped DEF Workers, WorkerSteps, NoSession
<1>4. session' = [generation |-> session.generation + 1,
                  cell |-> Effective(helper.config, TRUE), worker |-> w]
  BY DEF TakeReconnect
<1> HIDE DEF w
<1>5. session' \in Sessions /\ session'.worker = w
  BY <1>2, <1>3, <1>4 DEF Sessions
<1>6. RestartFinds'
  BY <1>3, <1>5 DEF RestartFinds
<1>7. commands' \in Seq(Commands) /\ events' \in Seq(Events)
  <2>1. AtGeneration(session.generation + 1) \in Events
    BY <1>2 DEF AtGeneration, Events
  <2>2. QED BY <2>1, TakenTyped, TellTyped DEF TakeReconnect
<1>8. QED BY <1>1, <1>5, <1>6, <1>7, SessionOnly

(* The session worker's steps.                                               *)
LEMMA SessionKeeps ==
  ASSUME UpdateInv, SessionStep
  PROVE  UpdateInv'
<1>1. /\ helper' = helper /\ helper \in Helpers /\ session \in Sessions
      /\ panel' = panel /\ commands' = commands /\ commands \in Seq(Commands)
      /\ events \in Seq(Events) /\ session.worker.step # "none"
  BY DEF UpdateInv, SessionStep, Connect, ReadArguments, GoLive, Retry, End, WorkerGoes,
     NextGeneration
<1>2. helper.step \notin {"down", "load", "clear"}
  BY <1>1 DEF UpdateInv, NoSessionYet
<1>3. /\ session.worker \in Workers /\ session.generation \in Nat
      /\ session.cell \in Arguments /\ session.worker.args \in Arguments
  BY SessionParts
<1>4. CASE Connect \/ GoLive
  <2>1. PICK to \in WorkerSteps :
          /\ session' = [session EXCEPT !.worker.step = to]
          /\ \/ session.worker.step = "connecting" /\ to = "spawned"
             \/ session.worker.step = "read" /\ to = "live"
    BY <1>4 DEF Connect, GoLive, WorkerGoes, WorkerSteps
  <2> DEFINE w == [session.worker EXCEPT !.step = to]
  <2>2. /\ w \in Workers /\ w.step = to /\ w.args = session.worker.args
        /\ w.restartOf = session.worker.restartOf
    BY <1>3 DEF Workers
  <2>3. session' = [session EXCEPT !.worker = w]
    BY <1>1, <2>1 DEF Sessions
  <2> HIDE DEF w
  <2>4. session' \in Sessions /\ session'.worker = w /\ session'.cell = session.cell
    BY <1>1, <2>2, <2>3 DEF Sessions
  <2>5. RestartFinds'
    BY <2>1, <2>2, <2>4 DEF UpdateInv, RestartFinds
  <2>6. events' \in Seq(Events)
    BY <1>1, <1>4 DEF Connect, GoLive, WorkerGoes
  <2>7. QED BY <1>1, <1>2, <2>4, <2>5, <2>6, SessionOnly
<1>5. CASE ReadArguments
  <2> DEFINE w == [session.worker EXCEPT !.step = "read", !.args = session.cell]
  <2>1. /\ w \in Workers /\ w.step = "read" /\ w.args = session.cell
        /\ w.restartOf = session.worker.restartOf
    BY <1>3 DEF Workers, WorkerSteps
  <2>2. session.worker.step = "spawned" /\ session' = [session EXCEPT !.worker = w]
    BY <1>5 DEF ReadArguments
  <2> HIDE DEF w
  <2>3. session' \in Sessions /\ session'.worker = w
    BY <1>1, <2>1, <2>2 DEF Sessions
  <2>4. RestartFinds'
    BY <2>1, <2>2, <2>3 DEF UpdateInv, RestartFinds
  <2>5. events' \in Seq(Events)
    BY <1>1, <1>5 DEF ReadArguments
  <2>6. QED BY <1>1, <1>2, <2>3, <2>4, <2>5, SessionOnly
<1>6. ASSUME NEW w \in {session.worker, NoSession}, NextGeneration(w)
      PROVE  UpdateInv'
  <2>1. session' = [session EXCEPT !.generation = session.generation + 1, !.worker = w]
    BY <1>6 DEF NextGeneration
  <2>2. w \in Workers /\ session.generation + 1 \in Nat
    BY <1>3, NoSessionTyped
  <2>3. session' \in Sessions /\ session'.worker = w /\ session'.cell = session.cell
    BY <1>1, <2>1, <2>2 DEF Sessions
  <2>4. RestartFinds'
    <3>1. CASE w = session.worker
      BY <2>3, <3>1 DEF UpdateInv, RestartFinds
    <3>2. CASE w = NoSession
      BY <2>3, <3>2 DEF RestartFinds, NoSession
    <3>3. QED BY <3>1, <3>2
  <2>5. events' \in Seq(Events)
    <3>1. AtGeneration(session.generation + 1) \in Events
      BY <2>2 DEF AtGeneration, Events
    <3>2. QED BY <1>6, <3>1, TellTyped DEF NextGeneration
  <2>6. QED BY <1>1, <1>2, <2>3, <2>4, <2>5, SessionOnly
<1>7. QED BY <1>4, <1>5, <1>6 DEF SessionStep, Retry, End

(* Every step keeps the update's invariant.                                  *)
LEMMA UpdateNext == UpdateInv /\ [ConfigNext]_configVars => UpdateInv'
<1> SUFFICES ASSUME UpdateInv, [ConfigNext]_configVars PROVE UpdateInv'
  OBVIOUS
<1>1. CASE UNCHANGED <<helper, session, panel, commands, events>>
  BY <1>1, PanelOnly DEF UpdateInv
<1>2. CASE \/ \E c \in Known : Commit(c)
           \/ StoreStep \/ StoreFails \/ Writeback \/ Spoil \/ UNCHANGED configVars
  BY <1>1, <1>2 DEF Commit, StoreStep, StoreWrite, StoreSync, StoreRename, StoreSyncDirectory,
     StoreRemove, StoreFails, Writeback, Spoil, configVars
<1>3. CASE (\E c \in Known : Configure(c)) \/ AskReconnect \/ Hear BY <1>3, PanelKeeps
<1>4. CASE StartHelper \/ HelperDies \/ PowerFails BY <1>4, GoneKeeps
<1>5. CASE HelperStep
  BY <1>5, LoadKeeps, CheckKeeps, ApplyKeeps, TakeReconnectKeeps DEF HelperStep
<1>6. CASE SessionStep BY <1>6, SessionKeeps
<1>7. QED BY <1>2, <1>3, <1>4, <1>5, <1>6 DEF ConfigNext

(* The update's invariant holds at first.                                    *)
LEMMA UpdateInit == ConfigInit => UpdateInv
<1> SUFFICES ASSUME ConfigInit PROVE UpdateInv
  OBVIOUS
<1>1. Empty \in Known /\ None \in Revisions /\ Effective(Empty, FALSE) \in Arguments
  BY EffectiveTyped DEF Known, Revisions
<1>2. helper \in Helpers
  BY <1>1 DEF ConfigInit, Helpers, HelperSteps
<1>3. /\ session \in Sessions /\ session.worker = NoSession
  BY <1>1, NoSessionTyped DEF ConfigInit, Sessions
<1>4. PanelTyped(panel)
  BY <1>1 DEF ConfigInit, PanelTyped, Panels
<1>5. commands = <<>> /\ events = <<>>
  BY DEF ConfigInit
<1>6. NoSessionYet /\ RestartFinds
  BY <1>3 DEF NoSessionYet, RestartFinds, NoSession
<1>7. QED BY <1>2, <1>3, <1>4, <1>5, <1>6 DEF UpdateInv

(* A restarted session runs the configuration it was restarted for: the cell  *)
(* is written before, and the worker reads it once.                           *)
THEOREM RestartRuns == ConfigSpec => []RestartRunsUpdate
<1>1. UpdateInv => RestartRunsUpdate
  BY DEF UpdateInv, RestartFinds, RestartRunsUpdate
<1>2. QED BY <1>1, UpdateInit, UpdateNext, PTL DEF ConfigSpec

(* The types: an event the panel hears and a command the helper takes have    *)
(* the fields the handler reads, and no revision but a known one is applied.  *)
THEOREM ConfigTypes == ConfigSpec => []ConfigTypeOK
<1>1. SnapshotInv /\ UpdateInv => ConfigTypeOK
  BY DEF SnapshotInv, UpdateInv, PanelTyped, ConfigTypeOK
<1>2. QED BY <1>1, SnapshotInit, SnapshotNext, UpdateInit, UpdateNext, PTL DEF ConfigSpec

-----------------------------------------------------------------------------
(* The revisions panel and helper agree on: first the order of what is told. *)
Dated(e) == e.type \in {"generation", "stale", "updated"}
Restarts(e) == e.type = "updated" /\ e.restarted
Reached == IF panel.generation = None THEN 0 ELSE panel.generation

(* What is under way to the panel never falls back; a generation that is      *)
(* told is newer than all before, and so is that of a restart, except for the *)
(* generations told between the restart and its reply.                       *)
InOrder ==
  /\ Reached <= session.generation
  /\ \A i \in 1..Len(events) : Dated(events[i]) =>
       Reached <= events[i].generation /\ events[i].generation <= session.generation
  /\ \A i, j \in 1..Len(events) : i < j /\ Dated(events[i]) /\ Dated(events[j]) =>
       /\ events[i].generation <= events[j].generation
       /\ events[j].type = "generation" \/ (Restarts(events[j]) /\ events[i].type # "generation")
            => events[i].generation < events[j].generation

(* The generation a restart began is told by its reply alone: the panel has   *)
(* not reached it before, and nothing on its way takes the panel there.       *)
Gap(told, reached, n, g) ==
  \E x \in 0..g : reached < x /\ \A i \in 1..(n-1) : Dated(told[i]) => told[i].generation # x
Restarting == helper.step = "reply" /\ helper.restarted
Gaps ==
  /\ \A i \in 1..Len(events) : Restarts(events[i]) => Gap(events, Reached, i, events[i].generation)
  /\ Restarting =>
       /\ Gap(events, Reached, Len(events) + 1, session.generation)
       /\ \A i \in 1..Len(events) : events[i].type \in {"stale", "updated"} =>
            events[i].generation < session.generation
OrderInv == InOrder /\ Gaps

(* The snapshot holds what was printed last, unless something spoilt it or a  *)
(* helper has removed it.                                                    *)
Replaced ==
  /\ store.step = "syncDirectory" => disk.seen.value \in {store.config, Invalid, Empty}
  /\ store.step = "idle" /\ store.printed # None =>
       disk.seen.value \in {store.printed, Invalid, Empty}

(* A panel that wants another revision than the one it believes applied, and  *)
(* has not used up its retry, has missed a generation for good, or has asked, *)
(* or is about to be answered, or what it wants is not what is stored.       *)
Missed ==
  /\ panel.generation < session.generation
  /\ \A i \in 1..Len(events) : events[i].type = "generation" \/ Restarts(events[i]) =>
       events[i].generation > panel.generation + 1
  /\ Restarting => session.generation > panel.generation + 1
Asks(c, revision) == c.type = "set" /\ c.new = revision
Asked ==
  \/ \E i \in 1..Len(commands) : Asks(commands[i], panel.desired)
  \/ helper.step \in {"committed", "discard", "apply"} /\ helper.new = panel.desired
  \/ helper.step = "reply" /\ helper.config = panel.desired
Answers(e, revision) ==
  \/ e.type \in {"stale", "protocolError"}
  \/ e.type = "updated" /\ e.config = revision
Answered == \E i \in 1..Len(events) : Answers(events[i], panel.desired)
Unstored ==
  \/ store.step # "idle" \/ store.printed # panel.desired \/ panel.desired \in store.told
  \/ panel.desired # Empty /\ disk.seen.value # panel.desired
Wanting == panel.ready /\ panel.desired # panel.applied /\ panel.retry # panel.desired
Pursued == Wanting => Missed \/ Asked \/ Answered \/ Unstored

AgreeInv == OrderInv /\ Replaced /\ Pursued

-----------------------------------------------------------------------------
(* What the types say of the numbers the order compares.                     *)
LEMMA OrderTypes ==
  ASSUME UpdateInv
  PROVE  /\ session.generation \in Nat /\ Reached \in Nat /\ Len(events) \in Nat
         /\ \A i \in 1..Len(events) : events[i] \in Events
         /\ \A i \in 1..Len(events) : Dated(events[i]) => events[i].generation \in Nat
         /\ panel.ready => panel.generation \in Nat /\ Reached = panel.generation
                           /\ panel.generation # None
<1>1. session.generation \in Nat /\ events \in Seq(Events)
  BY SessionParts DEF UpdateInv
<1>2. panel.generation \in Nat \cup {None} /\ (panel.ready => panel.generation \in Nat)
  BY DEF UpdateInv, PanelTyped, Panels
<1>3. Reached \in Nat
  BY <1>2 DEF Reached
<1>4. \A i \in 1..Len(events) : events[i] \in Events
  BY <1>1
<1>5. \A i \in 1..Len(events) : Dated(events[i]) => events[i].generation \in Nat
  BY <1>4, EventFields DEF Dated
<1>6. panel.ready => Reached = panel.generation /\ panel.generation # None
  BY <1>2, ScrcpyConfigAssumption DEF Reached
<1>7. QED BY <1>1, <1>2, <1>3, <1>4, <1>5, <1>6

(* A step that tells nothing and moves the session at most to an untold       *)
(* generation keeps the order.                                               *)
LEMMA QuietOrders ==
  ASSUME UpdateInv, UpdateInv', OrderInv, events' = events, panel' = panel,
         \/ session'.generation = session.generation /\ (Restarting' => Restarting)
         \/ session'.generation = session.generation + 1 /\ ~Restarting
  PROVE  OrderInv'
<1>1. Reached' = Reached /\ session.generation \in Nat /\ Reached \in Nat /\ Len(events) \in Nat
  BY OrderTypes DEF Reached
<1>2. InOrder'
  <2>1. session.generation <= session'.generation
    BY <1>1
  <2>2. \A i \in 1..Len(events) : Dated(events[i]) => events[i].generation \in Nat
    BY OrderTypes
  <2>3. QED BY <1>1, <2>1, <2>2 DEF OrderInv, InOrder
<1>3. \A i \in 1..Len(events) :
        Restarts(events[i]) => Gap(events', Reached', i, events[i].generation)
  BY <1>1 DEF OrderInv, Gaps, Gap
<1>4. ASSUME Restarting'
      PROVE  /\ Gap(events', Reached', Len(events') + 1, session'.generation)
             /\ \A i \in 1..Len(events) : events[i].type \in {"stale", "updated"} =>
                  events[i].generation < session'.generation
  <2>1. CASE session'.generation = session.generation
    BY <1>1, <1>4, <2>1 DEF OrderInv, Gaps, Gap
  <2>2. CASE session'.generation = session.generation + 1
    <3>1. \A i \in 1..Len(events) : Dated(events[i]) =>
            events[i].generation \in Nat /\ events[i].generation <= session.generation
      BY OrderTypes DEF OrderInv, InOrder
    <3>2. Reached < session.generation + 1 /\ session.generation + 1 \in 0..(session.generation + 1)
      BY <1>1 DEF OrderInv, InOrder
    <3>3. \A i \in 1..Len(events) : Dated(events[i]) => events[i].generation # session.generation + 1
      BY <1>1, <3>1
    <3>4. Gap(events', Reached', Len(events') + 1, session'.generation)
      BY <1>1, <2>2, <3>2, <3>3 DEF Gap
    <3>5. \A i \in 1..Len(events) : events[i].type \in {"stale", "updated"} =>
            events[i].generation < session'.generation
      BY <1>1, <2>2, <3>1 DEF Dated
    <3>6. QED BY <3>4, <3>5
  <2>3. QED BY <2>1, <2>2
<1>5. QED BY <1>2, <1>3, <1>4 DEF OrderInv, Gaps

(* An event that is appended.                                                *)
LEMMA Appended ==
  ASSUME UpdateInv, NEW e \in Events, Tell(e)
  PROVE  /\ Len(events') = Len(events) + 1 /\ events'[Len(events) + 1] = e
         /\ \A i \in 1..Len(events) : events'[i] = events[i]
         /\ \A i \in 1..Len(events') : i \in 1..Len(events) \/ i = Len(events) + 1
<1>1. events \in Seq(Events) /\ events' = Append(events, e)
  BY DEF UpdateInv, Tell
<1>2. /\ Len(events') = Len(events) + 1 /\ events'[Len(events) + 1] = e
      /\ \A i \in 1..Len(events) : events'[i] = events[i]
  BY <1>1, AppendProperties
<1>3. Len(events) \in Nat
  BY <1>1
<1>4. QED BY <1>2, <1>3

(* An event that is told keeps the order, if it carries the generation of the *)
(* moment, and only a generation told by itself is new.                      *)
LEMMA TellOrders ==
  ASSUME UpdateInv, UpdateInv', OrderInv, NEW e \in Events, Tell(e), panel' = panel,
         Dated(e) => e.generation = session'.generation,
         session'.generation =
           IF e.type = "generation" THEN session.generation + 1 ELSE session.generation,
         e.type = "stale" => ~Restarting,
         Restarts(e) => Restarting,
         Restarting' => Restarting /\ e.type \notin {"stale", "updated"}
  PROVE  OrderInv'
<1> DEFINE n == Len(events)
           g == session.generation
<1>1. /\ Reached' = Reached /\ g \in Nat /\ Reached \in Nat /\ n \in Nat
      /\ session'.generation \in Nat
  BY OrderTypes, SessionParts DEF Reached
<1>2. /\ Len(events') = n + 1 /\ events'[n + 1] = e /\ \A i \in 1..n : events'[i] = events[i]
      /\ \A i \in 1..Len(events') : i \in 1..n \/ i = n + 1
  BY Appended
<1>3. \A i \in 1..n : Dated(events[i]) =>
        events[i].generation \in Nat /\ Reached <= events[i].generation
        /\ events[i].generation <= g
  BY OrderTypes DEF OrderInv, InOrder
<1>4. g <= session'.generation /\ Reached <= g
  BY <1>1 DEF OrderInv, InOrder
<1>5. \A i \in 1..Len(events') : Dated(events'[i]) =>
        Reached <= events'[i].generation /\ events'[i].generation <= session'.generation
  BY <1>1, <1>2, <1>3, <1>4
<1>6. ASSUME NEW i \in 1..Len(events'), NEW j \in 1..Len(events'), i < j,
             Dated(events'[i]), Dated(events'[j])
      PROVE  /\ events'[i].generation <= events'[j].generation
             /\ events'[j].type = "generation"
                  \/ (Restarts(events'[j]) /\ events'[i].type # "generation")
                  => events'[i].generation < events'[j].generation
  <2>1. i \in 1..n /\ events'[i] = events[i]
    BY <1>1, <1>2, <1>6
  <2>2. CASE j \in 1..n
    <3>1. events'[j] = events[j]
      BY <1>2, <2>2
    <3>2. QED BY <1>6, <2>1, <2>2, <3>1 DEF OrderInv, InOrder
  <2>3. CASE j = n + 1
    <3>1. events'[j] = e /\ e.generation = session'.generation /\ Dated(events[i])
      BY <1>2, <1>6, <2>1, <2>3
    <3>2. events'[i].generation <= events'[j].generation
      BY <1>1, <1>3, <1>4, <2>1, <3>1
    <3>3. CASE e.type = "generation"
      BY <1>1, <1>3, <2>1, <3>1, <3>2, <3>3
    <3>4. CASE Restarts(e) /\ events[i].type # "generation"
      <4>1. Restarting /\ events[i].type \in {"stale", "updated"} /\ e.type # "generation"
        BY <3>1, <3>4 DEF Dated, Restarts
      <4>2. events[i].generation < g
        BY <2>1, <4>1 DEF OrderInv, Gaps
      <4>3. QED BY <2>1, <3>1, <3>2, <4>1, <4>2
    <3>5. QED BY <2>1, <3>1, <3>2, <3>3, <3>4
  <2>4. QED BY <1>2, <2>2, <2>3
<1>7. InOrder'
  <2>1. Reached' <= session'.generation
    BY <1>1, <1>4
  <2>2. \A i \in 1..Len(events') : Dated(events'[i]) =>
          Reached' <= events'[i].generation /\ events'[i].generation <= session'.generation
    BY <1>1, <1>5
  <2>3. QED BY <1>6, <2>1, <2>2 DEF InOrder
<1>8. ASSUME NEW i \in 1..Len(events'), Restarts(events'[i])
      PROVE  Gap(events', Reached', i, events'[i].generation)
  <2>1. CASE i \in 1..n
    <3>1. events'[i] = events[i] /\ \A k \in 1..(i-1) : events'[k] = events[k]
      BY <1>1, <1>2, <2>1
    <3>2. Gap(events, Reached, i, events[i].generation)
      BY <1>8, <2>1, <3>1 DEF OrderInv, Gaps
    <3>3. QED BY <1>1, <3>1, <3>2 DEF Gap
  <2>2. CASE i = n + 1
    <3>1. events'[i] = e /\ Restarting /\ e.type = "updated"
      BY <1>2, <1>8, <2>2 DEF Restarts
    <3>2. Gap(events, Reached, n + 1, g) /\ e.generation = g
      BY <3>1 DEF OrderInv, Gaps, Dated
    <3>3. (n + 1) - 1 = n
      BY <1>1
    <3>4. QED BY <1>1, <1>2, <2>2, <3>1, <3>2, <3>3 DEF Gap
  <2>3. QED BY <1>2, <2>1, <2>2
<1>9. ASSUME Restarting'
      PROVE  /\ Gap(events', Reached', Len(events') + 1, session'.generation)
             /\ \A i \in 1..Len(events') : events'[i].type \in {"stale", "updated"} =>
                  events'[i].generation < session'.generation
  <2>1. Restarting /\ e.type \notin {"stale", "updated"}
    BY <1>9
  <2>2. PICK x \in 0..g :
          Reached < x /\ \A i \in 1..((n + 1) - 1) : Dated(events[i]) => events[i].generation # x
    BY <2>1 DEF OrderInv, Gaps, Gap
  <2>3. Dated(e) => e.generation # x
    <3>1. Dated(e) => e.type = "generation"
      BY <2>1 DEF Dated
    <3>2. QED BY <1>1, <2>2, <3>1
  <2>4. x \in 0..(session'.generation)
    BY <1>1, <1>4, <2>2
  <2>5. \A i \in 1..(n + 1) : Dated(events'[i]) => events'[i].generation # x
    BY <1>1, <1>2, <2>2, <2>3
  <2>6. ((n + 1) + 1) - 1 = n + 1
    BY <1>1
  <2>7. Gap(events', Reached', Len(events') + 1, session'.generation)
    BY <1>1, <1>2, <2>2, <2>4, <2>5, <2>6 DEF Gap
  <2>8. \A i \in 1..n : events[i].type \in {"stale", "updated"} => events[i].generation < g
    BY <2>1 DEF OrderInv, Gaps
  <2>9. \A i \in 1..n : events[i].type \in {"stale", "updated"} => events[i].generation \in Nat
    BY <1>3 DEF Dated
  <2>10. QED BY <1>1, <1>2, <1>4, <2>1, <2>7, <2>8, <2>9
<1>10. QED BY <1>7, <1>8, <1>9 DEF OrderInv, Gaps

(* What the panel hears is behind it from then on.                           *)
LEMMA Heads ==
  ASSUME UpdateInv, Hear
  PROVE  /\ Len(events) \in Nat \ {0} /\ Len(events') = Len(events) - 1
         /\ \A i \in 1..Len(events') : i + 1 \in 1..Len(events) /\ events'[i] = events[i + 1]
         /\ Head(events) = events[1] /\ events[1] \in Events /\ Heard(events[1])
<1>1. events \in Seq(Events) /\ events # <<>> /\ events' = Tail(events) /\ Heard(Head(events))
  BY DEF UpdateInv, Hear
<1>2. /\ Len(events) \in Nat \ {0} /\ Len(events') = Len(events) - 1
      /\ \A i \in 1..Len(events') : events'[i] = events[i + 1]
      /\ Head(events) = events[1] /\ events[1] \in Events
  BY <1>1, HeadTailProperties, EmptySeq
<1>3. QED BY <1>1, <1>2

(* Hearing takes the panel at most to the generation that follows.           *)
LEMMA HearMoves ==
  ASSUME UpdateInv, NEW e \in Events, Heard(e)
  PROVE  \/ Reached' <= Reached
         \/ Dated(e) /\ Reached' = e.generation /\ e.generation = Reached + 1
<1>1. panel \in Panels /\ Reached \in Nat /\ panel.generation \in Nat \cup {None}
  BY OrderTypes DEF UpdateInv, PanelTyped, Panels
<1>2. Dated(e) => e.generation \in Nat /\ e.generation # None
  BY EventFields, ScrcpyConfigAssumption DEF Dated
<1>3. ASSUME NEW g \in Nat, panel'.generation = Advanced(g).generation
      PROVE  Reached' <= Reached \/ (Reached' = g /\ g = Reached + 1)
  <2>1. CASE Advances(g)
    <3>1. Advanced(g).generation = g /\ panel.generation # None /\ g = panel.generation + 1
      BY <1>1, <2>1 DEF Advanced, Advances, Panels
    <3>2. g # None
      BY ScrcpyConfigAssumption
    <3>3. QED BY <1>3, <3>1, <3>2 DEF Reached
  <2>2. CASE ~Advances(g)
    <3>1. Reached' = Reached
      BY <1>3, <2>2 DEF Advanced, Reached
    <3>2. QED BY <1>1, <3>1
  <2>3. QED BY <2>1, <2>2
<1>4. CASE HearReady(e)
  <2>1. panel'.generation = 0
    BY <1>1, <1>4 DEF HearReady, Panels
  <2>2. Reached' = 0
    BY <2>1 DEF Reached
  <2>3. QED BY <1>1, <2>2
<1>5. CASE HearProtocolError(e)
  <2>1. panel'.generation = None
    BY <1>1, <1>5 DEF HearProtocolError, Panels
  <2>2. Reached' = 0
    BY <2>1 DEF Reached
  <2>3. QED BY <1>1, <2>2
<1>6. CASE HearIgnored(e)
  <2>1. Reached' = Reached
    BY <1>6 DEF HearIgnored, Reached
  <2>2. QED BY <1>1, <2>1
<1>7. CASE HearGeneration(e) \/ HearStale(e) \/ HearUpdated(e)
  <2>1. Dated(e)
    BY <1>7 DEF HearGeneration, HearStale, HearUpdated, Dated
  <2>2. PanelTyped(Advanced(e.generation))
    BY <1>2, <2>1, AdvancedTyped DEF UpdateInv
  <2>3. panel'.generation = Advanced(e.generation).generation
    <3>1. CASE HearGeneration(e)
      BY <3>1 DEF HearGeneration
    <3>2. CASE HearStale(e)
      BY <2>2, <3>2 DEF HearStale, PanelTyped, Panels
    <3>3. CASE HearUpdated(e)
      BY <2>2, <3>3 DEF HearUpdated, PanelTyped, Panels
    <3>4. QED BY <1>7, <3>1, <3>2, <3>3
  <2>4. QED BY <1>2, <1>3, <2>1, <2>3
<1>8. QED BY <1>4, <1>5, <1>6, <1>7 DEF Heard

(* Hearing keeps the order.                                                  *)
LEMMA HearOrders ==
  ASSUME UpdateInv, UpdateInv', OrderInv, Hear
  PROVE  OrderInv'
<1> DEFINE e == events[1]
<1>1. /\ helper' = helper /\ session' = session /\ session.generation \in Nat
      /\ Reached \in Nat /\ Reached' \in Nat
      /\ \A i \in 1..Len(events) : Dated(events[i]) => events[i].generation \in Nat
  <2>1. Reached' \in Nat
    <3>1. panel'.generation \in Nat \cup {None}
      BY DEF UpdateInv, PanelTyped, Panels
    <3>2. QED BY <3>1 DEF Reached
  <2>2. QED BY <2>1, OrderTypes DEF Hear
<1>2. /\ Len(events) \in Nat \ {0} /\ Len(events') = Len(events) - 1
      /\ \A i \in 1..Len(events') : i + 1 \in 1..Len(events) /\ events'[i] = events[i + 1]
      /\ e \in Events /\ Heard(e) /\ 1 \in 1..Len(events)
  BY Heads
<1>3. \/ Reached' <= Reached
      \/ Dated(e) /\ Reached' = e.generation /\ e.generation = Reached + 1
  BY <1>2, HearMoves
<1>4. \A i \in 1..Len(events) : i > 1 /\ Dated(events[i]) =>
        Reached' <= events[i].generation /\ events[i].generation <= session.generation
  <2> SUFFICES ASSUME NEW i \in 1..Len(events), i > 1, Dated(events[i])
               PROVE  Reached' <= events[i].generation /\ events[i].generation <= session.generation
    OBVIOUS
  <2>1. Reached <= events[i].generation /\ events[i].generation <= session.generation
    BY DEF OrderInv, InOrder
  <2>2. Dated(e) => e.generation <= events[i].generation
    BY <1>2 DEF OrderInv, InOrder
  <2>3. QED BY <1>1, <1>3, <2>1, <2>2
<1>5. Reached' <= session.generation
  BY <1>1, <1>2, <1>3 DEF OrderInv, InOrder
<1>6. InOrder'
  <2>1. \A i \in 1..Len(events') : Dated(events'[i]) =>
          Reached' <= events'[i].generation /\ events'[i].generation <= session'.generation
    <3> SUFFICES ASSUME NEW i \in 1..Len(events'), Dated(events'[i])
                 PROVE  Reached' <= events'[i].generation
                        /\ events'[i].generation <= session'.generation
      OBVIOUS
    <3>1. i + 1 \in 1..Len(events) /\ i + 1 > 1 /\ events'[i] = events[i + 1]
      BY <1>2
    <3>2. QED BY <1>1, <1>4, <3>1
  <2>2. ASSUME NEW i \in 1..Len(events'), NEW j \in 1..Len(events'), i < j,
               Dated(events'[i]), Dated(events'[j])
        PROVE  /\ events'[i].generation <= events'[j].generation
               /\ events'[j].type = "generation"
                    \/ (Restarts(events'[j]) /\ events'[i].type # "generation")
                    => events'[i].generation < events'[j].generation
    <3>1. /\ i + 1 \in 1..Len(events) /\ j + 1 \in 1..Len(events) /\ i + 1 < j + 1
          /\ events'[i] = events[i + 1] /\ events'[j] = events[j + 1]
      BY <1>2, <2>2
    <3>2. QED BY <2>2, <3>1 DEF OrderInv, InOrder
  <2>3. QED BY <1>1, <1>5, <2>1, <2>2 DEF InOrder
<1>7. ASSUME NEW n \in 1..Len(events) + 1, n > 1, NEW g \in Nat, Gap(events, Reached, n, g)
      PROVE  Gap(events', Reached', n - 1, g)
  <2>1. PICK x \in 0..g :
          Reached < x /\ \A i \in 1..(n-1) : Dated(events[i]) => events[i].generation # x
    BY <1>7 DEF Gap
  <2>2. Dated(e) => e.generation # x
    BY <1>2, <1>7, <2>1
  <2>3. Reached' < x
    BY <1>1, <1>3, <2>1, <2>2
  <2>4. \A i \in 1..((n - 1) - 1) : Dated(events'[i]) => events'[i].generation # x
    <3> SUFFICES ASSUME NEW i \in 1..((n - 1) - 1), Dated(events'[i])
                 PROVE  events'[i].generation # x
      OBVIOUS
    <3>1. i \in 1..Len(events') /\ i + 1 \in 1..(n - 1)
      BY <1>2, <1>7
    <3>2. QED BY <1>2, <2>1, <3>1
  <2>5. QED BY <2>1, <2>3, <2>4 DEF Gap
<1>8. ASSUME NEW i \in 1..Len(events'), Restarts(events'[i])
      PROVE  Gap(events', Reached', i, events'[i].generation)
  <2>1. /\ i + 1 \in 1..Len(events) /\ i + 1 > 1 /\ events'[i] = events[i + 1]
        /\ i + 1 \in 1..Len(events) + 1 /\ (i + 1) - 1 = i
    BY <1>2
  <2>2. Gap(events, Reached, i + 1, events[i + 1].generation) /\ events[i + 1].generation \in Nat
    BY <1>1, <1>8, <2>1 DEF OrderInv, Gaps, Restarts, Dated
  <2>3. Gap(events', Reached', (i + 1) - 1, events[i + 1].generation)
    BY <1>7, <2>1, <2>2
  <2>4. QED BY <2>1, <2>3 DEF Gap
<1>9. ASSUME Restarting'
      PROVE  /\ Gap(events', Reached', Len(events') + 1, session'.generation)
             /\ \A i \in 1..Len(events') : events'[i].type \in {"stale", "updated"} =>
                  events'[i].generation < session'.generation
  <2>1. Restarting
    BY <1>1, <1>9 DEF Restarting
  <2>2. Gap(events, Reached, Len(events) + 1, session.generation)
    BY <2>1 DEF OrderInv, Gaps
  <2>3. /\ Len(events) + 1 \in 1..Len(events) + 1 /\ Len(events) + 1 > 1
        /\ (Len(events) + 1) - 1 = Len(events') + 1
    BY <1>2
  <2>4. Gap(events', Reached', (Len(events) + 1) - 1, session.generation)
    BY <1>1, <1>7, <2>2, <2>3 DEF Gap
  <2>5. Gap(events', Reached', Len(events') + 1, session'.generation)
    BY <2>3, <2>4, <1>1 DEF Gap
  <2>6. QED BY <1>1, <1>2, <2>1, <2>5 DEF OrderInv, Gaps
<1>10. QED BY <1>6, <1>8, <1>9 DEF OrderInv, Gaps

(* Without a helper nothing is under way.                                    *)
LEMMA GoneOrders ==
  ASSUME UpdateInv', StartHelper \/ HelperDies \/ PowerFails
  PROVE  OrderInv' /\ ~panel'.ready
<1>1. UpdateInv' => panel' \in Panels
  BY DEF UpdateInv, PanelTyped
<1>2. panel'.generation = None /\ ~panel'.ready
  <2>1. panel' = NoFacts(panel) \/ panel' = [NoFacts(panel) EXCEPT !.desired = None]
    BY DEF StartHelper, HelperDies, PowerFails
  <2>2. DOMAIN panel' = {"ready", "generation", "applied", "desired", "retry"}
    BY <1>1 DEF Panels
  <2>3. DOMAIN panel = {"ready", "generation", "applied", "desired", "retry"}
    BY <2>1, <2>2 DEF NoFacts
  <2>4. QED BY <2>1, <2>3 DEF NoFacts
<1>3. events' = <<>> /\ Len(events') = 0
  BY DEF StartHelper, HelperDies, PowerFails, Gone
<1>4. Reached' = 0 /\ session'.generation \in Nat
  BY <1>2 DEF Reached, UpdateInv, Sessions
<1>5. ~Restarting'
  <2>1. \E s \in {"load", "down"} : helper' = [helper EXCEPT !.step = s]
    BY DEF StartHelper, HelperDies, PowerFails, Gone
  <2>2. helper' \in Helpers
    BY DEF UpdateInv
  <2>3. helper'.step # "reply"
    BY <2>1, <2>2 DEF Helpers
  <2>4. QED BY <2>3 DEF Restarting
<1>6. QED BY <1>2, <1>3, <1>4, <1>5 DEF OrderInv, InOrder, Gaps

(* What a step of the helper or of the session does to the events and to the  *)
(* generation.                                                               *)
LEMMA HelperTells ==
  ASSUME UpdateInv, HelperStep
  PROVE  \/ /\ events' = events
            /\ \/ session'.generation = session.generation /\ (Restarting' => Restarting)
               \/ session'.generation = session.generation + 1 /\ ~Restarting
         \/ \E e \in Events :
              /\ Tell(e) /\ ~Restarting'
              /\ Dated(e) => e.generation = session'.generation
              /\ session'.generation =
                   IF e.type = "generation" THEN session.generation + 1 ELSE session.generation
              /\ e.type = "stale" => ~Restarting
              /\ Restarts(e) => Restarting
<1>1. /\ session.generation \in Nat /\ helper.config \in Known /\ helper.restarted \in BOOLEAN
      /\ helper \in Helpers /\ session \in Sessions /\ session.generation + 1 \in Nat
  BY SessionParts DEF UpdateInv
<1>2. CASE Load \/ Clear
  <2>1. helper.step \in {"load", "clear"} /\ helper'.step \in {"idle", "clear"}
    BY <1>1, <1>2 DEF Load, Clear, Helpers
  <2>2. session'.generation = session.generation /\ ~Restarting /\ ~Restarting'
    BY <1>1, <1>2, <2>1 DEF Load, Clear, Sessions, Restarting
  <2>3. events' = events \/ \E c \in Known : Tell([type |-> "ready", config |-> c])
    BY <1>2 DEF Load, Clear, Known
  <2>4. QED BY <1>1, <2>2, <2>3, EventsTyped DEF Dated, Restarts
<1>3. CASE TakeSet \/ CheckCommitted \/ DiscardSnapshot
  <2>1. helper.step # "reply" /\ helper'.step # "reply" /\ session' = session
    BY <1>1, <1>3 DEF TakeSet, Taken, CheckCommitted, DiscardSnapshot, Helpers
  <2>2. ~Restarting /\ ~Restarting'
    BY <2>1 DEF Restarting
  <2>3. \/ events' = events \/ Tell([type |-> "protocolError"]) \/ Tell([type |-> "failure"])
        \/ Tell([type |-> "stale", generation |-> session.generation, config |-> helper.config])
    BY <1>3 DEF TakeSet, CheckCommitted, DiscardSnapshot
  <2>4. QED BY <1>1, <2>1, <2>2, <2>3, EventsTyped DEF Dated, Restarts
<1>4. CASE Apply
  <2>1. events' = events /\ helper.step = "apply"
    BY <1>4 DEF Apply
  <2>2. \/ session'.generation = session.generation /\ helper'.restarted = FALSE
        \/ session'.generation = session.generation + 1
    BY <1>1, <1>4 DEF Apply, Sessions, Helpers
  <2>3. QED BY <2>1, <2>2 DEF Restarting
<1>5. CASE Reply
  <2> DEFINE e == [type |-> "updated", config |-> helper.config, restarted |-> helper.restarted,
                   generation |-> session.generation]
  <2>1. e \in Events /\ Tell(e) /\ session' = session /\ helper.step = "reply"
    BY <1>1, <1>5, EventsTyped DEF Reply
  <2>2. helper'.step = "idle"
    BY <1>1, <1>5 DEF Reply, Helpers
  <2>3. /\ e.generation = session'.generation /\ e.type = "updated"
        /\ Restarts(e) => Restarting
    BY <2>1 DEF Restarts, Restarting
  <2> HIDE DEF e
  <2>4. QED BY <2>1, <2>2, <2>3 DEF Restarting
<1>6. CASE TakeReconnect
  <2> DEFINE e == [type |-> "generation", generation |-> session.generation + 1]
  <2>1. e \in Events /\ Tell(e) /\ session'.generation = session.generation + 1
    BY <1>1, <1>6, EventsTyped DEF TakeReconnect, AtGeneration
  <2>2. helper.step = "idle" /\ helper' = helper
    BY <1>6 DEF TakeReconnect, Taken
  <2>3. e.generation = session'.generation /\ e.type = "generation" /\ ~Restarts(e)
    BY <2>1 DEF Restarts
  <2> HIDE DEF e
  <2>4. QED BY <2>1, <2>2, <2>3 DEF Restarting
<1>7. QED BY <1>2, <1>3, <1>4, <1>5, <1>6 DEF HelperStep

(* The session leaves helper and panel alone, and tells what it begins.       *)
LEMMA SessionTells ==
  ASSUME UpdateInv, SessionStep
  PROVE  /\ helper' = helper /\ panel' = panel
         /\ \/ events' = events /\ session'.generation = session.generation
            \/ \E e \in Events :
                 /\ Tell(e) /\ e.type = "generation" /\ e.generation = session'.generation
                 /\ session'.generation = session.generation + 1
<1>1. /\ session.generation \in Nat /\ session \in Sessions /\ session.generation + 1 \in Nat
      /\ helper.config \in Known
  BY SessionParts DEF UpdateInv
<1>2. CASE Connect \/ ReadArguments \/ GoLive
  BY <1>1, <1>2 DEF Connect, ReadArguments, GoLive, WorkerGoes, Sessions
<1>3. CASE Retry \/ End
  <2> DEFINE e == [type |-> "generation", generation |-> session.generation + 1]
  <2>1. /\ e \in Events /\ Tell(e) /\ session'.generation = session.generation + 1
        /\ helper' = helper /\ panel' = panel
    BY <1>1, <1>3, EventsTyped DEF Retry, End, NextGeneration, AtGeneration, Sessions
  <2>2. e.type = "generation" /\ e.generation = session'.generation
    BY <2>1
  <2> HIDE DEF e
  <2>3. QED BY <2>1, <2>2
<1>4. QED BY <1>2, <1>3 DEF SessionStep

(* Every step keeps the order.                                               *)
LEMMA OrderNext ==
  ASSUME UpdateInv, UpdateInv', OrderInv, [ConfigNext]_configVars
  PROVE  OrderInv'
<1>1. ASSUME events' = events, panel' = panel, session' = session, helper' = helper
      PROVE  OrderInv'
  BY <1>1, QuietOrders DEF Restarting
<1>2. CASE \/ \E c \in Known : Commit(c)
           \/ StoreStep \/ StoreFails \/ Writeback \/ Spoil \/ AskReconnect
           \/ UNCHANGED configVars
  BY <1>1, <1>2 DEF Commit, StoreStep, StoreWrite, StoreSync, StoreRename, StoreSyncDirectory,
     StoreRemove, StoreFails, Writeback, Spoil, AskReconnect, configVars
<1>3. ASSUME NEW c \in Known, Configure(c) PROVE OrderInv'
  <2>1. /\ events' = events /\ session' = session /\ helper' = helper
        /\ panel' = [panel EXCEPT !.desired = c, !.retry = None] /\ panel \in Panels
    BY <1>3 DEF Configure, UpdateInv, PanelTyped
  <2>2. Reached' = Reached /\ Restarting' = Restarting
    BY <2>1 DEF Reached, Panels, Restarting
  <2>3. QED BY <2>1, <2>2 DEF OrderInv, InOrder, Gaps
<1>4. CASE Hear BY <1>4, HearOrders
<1>5. CASE StartHelper \/ HelperDies \/ PowerFails BY <1>5, GoneOrders
<1>6. CASE HelperStep
  <2>1. panel' = panel
    BY <1>6 DEF HelperStep, Load, Clear, TakeSet, CheckCommitted, DiscardSnapshot, Apply, Reply,
       TakeReconnect
  <2>2. QED BY <1>6, <2>1, HelperTells, QuietOrders, TellOrders
<1>7. CASE SessionStep
  <2>1. Restarting' = Restarting
    BY <1>7, SessionTells DEF Restarting
  <2>2. CASE events' = events /\ session'.generation = session.generation
    BY <1>7, <2>1, <2>2, SessionTells, QuietOrders
  <2>3. CASE \E e \in Events :
               /\ Tell(e) /\ e.type = "generation" /\ e.generation = session'.generation
               /\ session'.generation = session.generation + 1
    BY <1>7, <2>1, <2>3, SessionTells, TellOrders DEF Restarts
  <2>4. QED BY <1>7, <2>2, <2>3, SessionTells
<1>8. QED BY <1>2, <1>3, <1>4, <1>5, <1>6, <1>7 DEF ConfigNext

-----------------------------------------------------------------------------
(* The panel keeps after what it wants: first, what is stored.               *)
LEMMA ReplacedNext ==
  ASSUME SnapshotInv, SnapshotInv', Replaced, [ConfigNext]_configVars
  PROVE  Replaced'
<1>1. disk \in Disks /\ store \in Stores /\ disk' \in Disks /\ store' \in Stores
  BY DEF SnapshotInv
<1>2. CASE disk' = disk /\ store' = store
  BY <1>2 DEF Replaced
<1>3. ASSUME NEW c \in Known, Commit(c) PROVE Replaced'
  <2>1. store'.step \in {"remove", "write"}
    BY <1>1, <1>3 DEF Commit, Stores
  <2>2. QED BY <2>1 DEF Replaced
<1>4. CASE StoreWrite \/ StoreSync
  <2>1. store'.step \in {"sync", "rename"}
    BY <1>1, <1>4 DEF StoreWrite, StoreSync, StoreGoes, Stores
  <2>2. QED BY <2>1 DEF Replaced
<1>5. CASE StoreRename
  <2>1. store'.step = "syncDirectory" /\ store'.config = store.config
    BY <1>1, <1>5 DEF StoreRename, StoreGoes, Stores
  <2>2. disk'.seen.value = store.config
    BY <1>1, <1>5 DEF StoreRename, Disks, File
  <2>3. QED BY <2>1, <2>2 DEF Replaced
<1>6. CASE StoreSyncDirectory
  <2>1. store.step = "syncDirectory" /\ store'.step = "idle" /\ store'.printed = store.config
    BY <1>6, PrintsTyped DEF StoreSyncDirectory
  <2>2. disk'.seen = disk.seen
    BY <1>1, <1>6 DEF StoreSyncDirectory, Disks
  <2>3. QED BY <2>1, <2>2 DEF Replaced
<1>7. CASE StoreRemove \/ Clear \/ DiscardSnapshot
  <2>1. disk'.seen = NoFile
    BY <1>1, <1>7 DEF StoreRemove, Clear, DiscardSnapshot, Disks
  <2>2. disk'.seen.value = Empty
    BY <2>1 DEF NoFile, File
  <2>3. QED BY <2>2 DEF Replaced
<1>8. CASE StoreFails
  <2>1. store'.printed = None
    BY <1>1, <1>8 DEF StoreFails, StoreGoes, Stores, SnapshotInv, PrintedLast
  <2>2. store'.step = "idle"
    BY <1>1, <1>8 DEF StoreFails, StoreGoes, Stores
  <2>3. QED BY <2>1, <2>2 DEF Replaced
<1>9. CASE Writeback
  <2>1. disk'.seen.value = disk.seen.value /\ store' = store
    BY <1>1, <1>9 DEF Writeback, Disks, Files
  <2>2. QED BY <2>1 DEF Replaced
<1>10. CASE Spoil
  <2>1. disk'.seen.value = Invalid
    BY <1>1, <1>10 DEF Spoil, Disks, File
  <2>2. QED BY <2>1 DEF Replaced
<1>11. ASSUME NEW c \in Known, Configure(c) PROVE Replaced'
  <2>1. /\ store'.step = store.step /\ store'.config = store.config
        /\ store'.printed = store.printed /\ disk' = disk
    BY <1>1, <1>11 DEF Configure, Stores
  <2>2. QED BY <2>1 DEF Replaced
<1>12. CASE PowerFails
  <2>1. store'.step = "idle" /\ store'.printed = None
    BY <1>1, <1>12 DEF PowerFails, Stores
  <2>2. QED BY <2>1 DEF Replaced
<1>13. CASE StartHelper \/ AskReconnect \/ Hear \/ HelperDies
  BY <1>2, <1>13 DEF StartHelper, AskReconnect, Hear, HelperDies
<1>14. CASE Load \/ TakeSet \/ CheckCommitted \/ Apply \/ Reply \/ TakeReconnect
  BY <1>2, <1>14 DEF Load, TakeSet, CheckCommitted, Apply, Reply, TakeReconnect
<1>15. CASE SessionStep
  BY <1>2, <1>15 DEF SessionStep, Connect, ReadArguments, GoLive, Retry, End, WorkerGoes,
     NextGeneration
<1>16. CASE UNCHANGED configVars BY <1>2, <1>16 DEF configVars
<1>17. QED
  BY <1>3, <1>4, <1>5, <1>6, <1>7, <1>8, <1>9, <1>10, <1>11, <1>12, <1>13, <1>14, <1>15, <1>16
  DEF ConfigNext, HelperStep, StoreStep

(* A panel that has missed a generation keeps missing it, whatever is told.   *)
LEMMA MissedStays ==
  ASSUME UpdateInv, UpdateInv', OrderInv, Missed, panel.ready, panel' = panel,
         \/ events' = events
         \/ \E e \in Events :
              /\ Tell(e)
              /\ e.type = "generation" \/ Restarts(e) =>
                   /\ e.generation = session'.generation
                   /\ Restarting \/ session'.generation = session.generation + 1,
         session'.generation \in {session.generation, session.generation + 1},
         Restarting' => Restarting \/ session'.generation = session.generation + 1
  PROVE  Missed'
<1> DEFINE g == panel.generation
<1>1. /\ g \in Nat /\ session.generation \in Nat /\ session'.generation \in Nat
      /\ g < session.generation
  BY OrderTypes DEF Missed
<1>2. panel'.generation < session'.generation
  BY <1>1
<1>3. Restarting \/ session'.generation = session.generation + 1 =>
        session'.generation > panel'.generation + 1
  <2>1. CASE session'.generation = session.generation + 1
    BY <1>1, <2>1
  <2>2. CASE session'.generation = session.generation /\ Restarting
    BY <2>2 DEF Missed
  <2>3. QED BY <2>1, <2>2
<1>4. CASE events' = events
  BY <1>2, <1>3, <1>4 DEF Missed
<1>5. ASSUME NEW e \in Events, Tell(e),
             e.type = "generation" \/ Restarts(e) =>
               /\ e.generation = session'.generation
               /\ Restarting \/ session'.generation = session.generation + 1
      PROVE  Missed'
  <2>1. e.type = "generation" \/ Restarts(e) => e.generation > panel'.generation + 1
    BY <1>3, <1>5
  <2>2. \A i \in 1..Len(events') : events'[i].type = "generation" \/ Restarts(events'[i]) =>
          events'[i].generation > panel'.generation + 1
    BY <1>5, <2>1, Appended DEF Missed
  <2>3. QED BY <1>2, <1>3, <2>2 DEF Missed
<1>6. QED BY <1>4, <1>5

(* What a ready panel wants and believes is a revision.                      *)
LEMMA WantedTyped ==
  ASSUME UpdateInv, panel.ready
  PROVE  /\ panel.desired \in Known /\ panel.applied \in Known /\ panel.generation \in Nat
         /\ panel.desired # None /\ panel.desired # Invalid
BY ScrcpyConfigAssumption DEF UpdateInv, PanelTyped

(* The steps around the snapshot: a store that begins, fails or ends leaves   *)
(* something to wait for, and so does a file that is spoilt.                 *)
LEMMA StorePursues ==
  ASSUME SnapshotInv, UpdateInv, Pursued,
         (\E c \in Known : Commit(c)) \/ StoreStep \/ StoreFails \/ Writeback \/ Spoil
  PROVE  Pursued'
<1>1. /\ disk \in Disks /\ store \in Stores /\ helper' = helper /\ session' = session
      /\ panel' = panel /\ commands' = commands /\ events' = events
  BY DEF SnapshotInv, Commit, StoreStep, StoreWrite, StoreSync, StoreRename, StoreSyncDirectory,
     StoreRemove, StoreFails, Writeback, Spoil
<1>2. Wanting' = Wanting /\ Missed' = Missed /\ Asked' = Asked /\ Answered' = Answered
  BY <1>1 DEF Wanting, Missed, Restarting, Asked, Asks, Answered, Answers
<1>3. SUFFICES ASSUME Wanting, Unstored PROVE Unstored'
  BY <1>2 DEF Pursued
<1>4. panel.desired \in Known /\ panel.desired # None /\ panel.desired # Invalid
  BY <1>3, WantedTyped DEF Wanting
<1>5. ASSUME NEW c \in Known, Commit(c) PROVE Unstored'
  <2>1. store'.step \in {"remove", "write"}
    BY <1>1, <1>5 DEF Commit, Stores
  <2>2. QED BY <2>1 DEF Unstored
<1>6. CASE StoreWrite \/ StoreSync \/ StoreRename
  <2>1. store'.step \in {"sync", "rename", "syncDirectory"}
    BY <1>1, <1>6 DEF StoreWrite, StoreSync, StoreRename, StoreGoes, Stores
  <2>2. QED BY <2>1 DEF Unstored
<1>7. CASE StoreSyncDirectory \/ StoreRemove
  <2>1. store'.printed = store.config /\ store.config \in store'.told
    BY <1>1, <1>7 DEF StoreSyncDirectory, StoreRemove, StorePrints, Stores
  <2>2. QED BY <1>1, <2>1 DEF Unstored
<1>8. CASE StoreFails
  <2>1. store'.printed = None
    BY <1>1, <1>8 DEF StoreFails, StoreGoes, Stores, SnapshotInv, PrintedLast
  <2>2. QED BY <1>1, <1>4, <2>1 DEF Unstored
<1>9. CASE Writeback
  <2>1. disk'.seen.value = disk.seen.value /\ store' = store
    BY <1>1, <1>9 DEF Writeback, Disks, Files
  <2>2. QED BY <1>1, <1>3, <2>1 DEF Unstored
<1>10. CASE Spoil
  <2>1. disk'.seen.value = Invalid /\ store' = store
    BY <1>1, <1>10 DEF Spoil, Disks, File
  <2>2. QED BY <1>1, <1>3, <1>4, <2>1 DEF Unstored
<1>11. QED BY <1>5, <1>6, <1>7, <1>8, <1>9, <1>10 DEF StoreStep

(* A revision a ready panel is told it sends at once.                        *)
LEMMA SendsAsked ==
  ASSUME NEW p \in Panels, p.ready, p.desired # p.applied, commands \in Seq(Commands),
         p.applied \in Known, p.desired \in Known, p.generation \in Nat,
         panel' = p, commands' = commands \o Sent(p)
  PROVE  Asked'
<1>1. SetArguments(p) \in Commands /\ Asks(SetArguments(p), panel'.desired)
  BY DEF SetArguments, Commands, Asks
<1>2. Sent(p) = <<SetArguments(p)>>
  BY DEF Sent, Wants
<1>3. commands' = Append(commands, SetArguments(p))
  BY <1>1, <1>2
<1>4. /\ Len(commands') = Len(commands) + 1 /\ Len(commands) \in Nat
      /\ commands'[Len(commands) + 1] = SetArguments(p)
  BY <1>1, <1>3, AppendProperties
<1>5. \E i \in 1..Len(commands') : commands'[i] = SetArguments(p)
  BY <1>4
<1>6. QED BY <1>1, <1>5 DEF Asked, Asks

(* commitConfiguration tells the panel.                                      *)
LEMMA ConfigurePursues ==
  ASSUME UpdateInv, UpdateInv', NEW c \in Known, Configure(c)
  PROVE  Pursued'
<1> DEFINE p == [panel EXCEPT !.desired = c, !.retry = None]
<1>1. panel' = p /\ commands' = commands \o Sent(p) /\ commands \in Seq(Commands)
  BY DEF Configure, UpdateInv
<1> HIDE DEF p
<1>2. SUFFICES ASSUME Wanting' PROVE Asked'
  BY DEF Pursued
<1>3. /\ p \in Panels /\ p.ready /\ p.desired # p.applied
      /\ p.applied \in Known /\ p.desired \in Known /\ p.generation \in Nat
  BY <1>1, <1>2 DEF UpdateInv, PanelTyped, Wanting
<1>4. QED BY <1>1, <1>3, SendsAsked

(* The panel asks for a reconnect, behind what it has asked before.           *)
LEMMA AskReconnectPursues ==
  ASSUME UpdateInv, Pursued, AskReconnect
  PROVE  Pursued'
<1>1. /\ commands \in Seq(Commands) /\ [type |-> "reconnect"] \in Commands
      /\ commands' = Append(commands, [type |-> "reconnect"])
  BY DEF UpdateInv, AskReconnect, Commands
<1>2. /\ Len(commands) \in Nat /\ Len(commands') = Len(commands) + 1
      /\ \A i \in 1..Len(commands) : commands'[i] = commands[i]
  BY <1>1, AppendProperties
<1>3. UNCHANGED <<disk, store, helper, session, panel, events>>
  BY DEF AskReconnect
<1>4. Asked => Asked'
  BY <1>2, <1>3 DEF Asked, Asks
<1>5. Missed' = Missed /\ Answered' = Answered /\ Unstored' = Unstored /\ Wanting' = Wanting
  BY <1>3 DEF Missed, Restarting, Answered, Answers, Unstored, Wanting
<1>6. QED BY <1>4, <1>5 DEF Pursued

(* What is told stays told, and what is answered is answered.                *)
LEMMA AnsweredStays ==
  ASSUME UpdateInv, panel' = panel, events' = events \/ \E e \in Events : Tell(e)
  PROVE  Answered => Answered'
<1>1. CASE events' = events
  BY <1>1 DEF Answered, Answers
<1>2. ASSUME NEW e \in Events, Tell(e) PROVE Answered => Answered'
  <2>1. \A i \in 1..Len(events) : i \in 1..Len(events') /\ events'[i] = events[i]
    BY <1>2, Appended, OrderTypes
  <2>2. QED BY <2>1 DEF Answered, Answers
<1>3. QED BY <1>1, <1>2

(* What is told now is under way to the panel.                               *)
LEMMA AnswersNow ==
  ASSUME UpdateInv, NEW e \in Events, Tell(e), Answers(e, panel'.desired)
  PROVE  Answered'
<1>1. Len(events') \in Nat /\ Len(events) + 1 \in 1..Len(events') /\ events'[Len(events) + 1] = e
  BY Appended, OrderTypes
<1>2. QED BY <1>1 DEF Answered, Answers

(* A command the helper takes is the panel's, or the panel's comes later.     *)
LEMMA TakesAsked ==
  ASSUME UpdateInv, panel' = panel, NEW t, Taken(t), Asked
  PROVE  Asks(Head(commands), panel.desired) \/ Asked'
<1>1. /\ commands \in Seq(Commands) /\ commands # <<>> /\ commands' = Tail(commands)
      /\ helper.step = "idle"
  BY DEF UpdateInv, Taken
<1>2. /\ Len(commands) \in Nat \ {0} /\ Len(commands') = Len(commands) - 1
      /\ \A i \in 1..Len(commands') : commands'[i] = commands[i + 1]
      /\ Head(commands) = commands[1]
  BY <1>1, HeadTailProperties, EmptySeq
<1>3. PICK i \in 1..Len(commands) : Asks(commands[i], panel.desired)
  BY <1>1 DEF Asked
<1>4. CASE i = 1
  BY <1>2, <1>3, <1>4
<1>5. CASE i # 1
  <2>1. i - 1 \in 1..Len(commands') /\ commands'[i - 1] = commands[i]
    BY <1>2, <1>5
  <2>2. QED BY <1>3, <2>1 DEF Asked, Asks
<1>6. QED BY <1>4, <1>5

(* What the helper and the session do while the panel has missed a            *)
(* generation.                                                               *)
LEMMA WorkMisses ==
  ASSUME UpdateInv, UpdateInv', OrderInv, HelperStep \/ SessionStep, Missed, panel.ready
  PROVE  Missed'
<1>1. session.generation \in Nat
  BY SessionParts
<1>2. CASE HelperStep
  <2>1. panel' = panel
    BY <1>2 DEF HelperStep, Load, Clear, TakeSet, CheckCommitted, DiscardSnapshot, Apply, Reply,
       TakeReconnect
  <2>2. CASE events' = events /\ session'.generation \in {session.generation, session.generation + 1}
             /\ (Restarting' => Restarting \/ session'.generation = session.generation + 1)
    BY <2>1, <2>2, MissedStays
  <2>3. CASE \E e \in Events :
              /\ Tell(e) /\ ~Restarting'
              /\ Dated(e) => e.generation = session'.generation
              /\ session'.generation =
                   IF e.type = "generation" THEN session.generation + 1 ELSE session.generation
              /\ Restarts(e) => Restarting
    <3>1. PICK e \in Events :
              /\ Tell(e) /\ ~Restarting'
              /\ Dated(e) => e.generation = session'.generation
              /\ session'.generation =
                   IF e.type = "generation" THEN session.generation + 1 ELSE session.generation
              /\ Restarts(e) => Restarting
      BY <2>3
    <3>2. e.type = "generation" \/ Restarts(e) =>
            /\ e.generation = session'.generation
            /\ Restarting \/ session'.generation = session.generation + 1
      BY <3>1 DEF Dated, Restarts
    <3>3. session'.generation \in {session.generation, session.generation + 1}
      BY <3>1
    <3>4. QED BY <2>1, <3>1, <3>2, <3>3, MissedStays
  <2>4. QED BY <1>2, <2>2, <2>3, HelperTells
<1>3. CASE SessionStep
  <2>1. panel' = panel /\ Restarting' = Restarting
    BY <1>3, SessionTells DEF Restarting
  <2>2. CASE events' = events /\ session'.generation = session.generation
    BY <2>1, <2>2, MissedStays
  <2>3. CASE \E e \in Events :
               /\ Tell(e) /\ e.type = "generation" /\ e.generation = session'.generation
               /\ session'.generation = session.generation + 1
    BY <2>1, <2>3, MissedStays
  <2>4. QED BY <1>3, <2>2, <2>3, SessionTells
<1>4. QED BY <1>2, <1>3

(* The helper's steps: what it takes it answers, or it takes it over.         *)
LEMMA HelperPursues ==
  ASSUME SnapshotInv, UpdateInv, UpdateInv', AgreeInv, HelperStep
  PROVE  Pursued'
<1>1. /\ panel' = panel /\ store' = store
      /\ helper \in Helpers /\ disk \in Disks /\ store \in Stores
      /\ session.generation \in Nat /\ helper.config \in Known
  BY SessionParts DEF HelperStep, Load, Clear, TakeSet, CheckCommitted, DiscardSnapshot, Apply,
     Reply, TakeReconnect, UpdateInv, SnapshotInv
<1>2. SUFFICES ASSUME Wanting PROVE Missed' \/ Asked' \/ Answered' \/ Unstored'
  BY <1>1 DEF Pursued, Wanting
<1>3. panel.ready /\ panel.desired \in Known /\ panel.desired # None /\ panel.desired # Invalid
  BY <1>2, WantedTyped DEF Wanting
<1>4. Missed \/ Asked \/ Answered \/ Unstored
  BY <1>2 DEF AgreeInv, Pursued
<1>5. Missed => Missed'
  BY <1>3, WorkMisses DEF AgreeInv
<1>6. Answered => Answered'
  BY <1>1, AnsweredStays, HelperTells
<1>7. Unstored => Unstored'
  <2>1. disk'.seen.value \in {disk.seen.value, Empty}
    <3>1. disk' = disk \/ disk' = [disk EXCEPT !.seen = NoFile]
      BY DEF HelperStep, Load, Clear, TakeSet, CheckCommitted, DiscardSnapshot, Apply, Reply,
         TakeReconnect
    <3>2. QED BY <1>1, <3>1 DEF Disks, NoFile, File
  <2>2. QED BY <1>1, <2>1 DEF Unstored
<1>8. ASSUME Asked PROVE Asked' \/ Answered' \/ Unstored'
  <2>1. CASE Load \/ Clear
    <3>1. commands' = commands /\ helper.step \in {"load", "clear"}
      BY <2>1 DEF Load, Clear
    <3>2. QED BY <1>1, <1>8, <3>1 DEF Asked, Asks
  <2>2. CASE TakeSet
    <3> DEFINE c == Head(commands)
    <3>1. Taken("set") /\ (Asks(c, panel.desired) \/ Asked')
      BY <1>1, <1>8, <2>2, TakesAsked DEF TakeSet
    <3>2. ASSUME Asks(c, panel.desired) PROVE Asked' \/ Answered'
      <4>1. CASE \E e \in Events : Tell(e) /\ e.type \in {"stale", "protocolError"}
        BY <4>1, AnswersNow DEF Answers
      <4>2. CASE helper' = [helper EXCEPT !.step = "committed", !.new = c.new]
        BY <1>1, <3>2, <4>2 DEF Helpers, Asks, Asked
      <4>3. QED BY <1>1, <2>2, <4>1, <4>2, EventsTyped DEF TakeSet
    <3>3. QED BY <3>1, <3>2
  <2>3. CASE CheckCommitted
    <3>1. commands' = commands /\ helper.step = "committed" /\ disk' = disk
      BY <2>3 DEF CheckCommitted
    <3>2. CASE helper.new # panel.desired
      BY <1>1, <1>8, <3>1, <3>2 DEF Asked, Asks
    <3>3. CASE helper'.step \in {"discard", "apply"} /\ helper'.new = helper.new
      BY <1>1, <1>8, <3>1, <3>2, <3>3 DEF Asked, Asks
    <3>4. CASE helper.new = panel.desired /\ disk.seen.value \in Known
               /\ disk.seen.value # helper.new
      <4>1. CASE panel.desired # Empty
        BY <1>1, <3>1, <3>4, <4>1 DEF Unstored
      <4>2. CASE panel.desired = Empty
        <5>1. disk.seen.value \notin {Empty, Invalid}
          BY <3>4, <4>2, ScrcpyConfigAssumption
        <5>2. Unstored
          BY <1>3, <4>2, <5>1 DEF AgreeInv, Replaced, Unstored
        <5>3. QED BY <1>7, <5>2
      <4>3. QED BY <4>1, <4>2
    <3>5. QED BY <1>1, <2>3, <3>2, <3>3, <3>4 DEF CheckCommitted, Helpers
  <2>4. CASE DiscardSnapshot
    <3>1. /\ commands' = commands /\ helper.step = "discard" /\ helper'.new = helper.new
          /\ helper.new = Empty => helper'.step = "apply"
          /\ disk'.seen.value = Empty
      BY <1>1, <2>4 DEF DiscardSnapshot, Helpers, Disks, NoFile, File
    <3>2. CASE helper.new # panel.desired
      BY <1>1, <1>8, <3>1, <3>2 DEF Asked, Asks
    <3>3. CASE helper.new = panel.desired
      BY <1>1, <3>1, <3>3 DEF Asked, Unstored
    <3>4. QED BY <3>2, <3>3
  <2>5. CASE Apply
    <3>1. /\ commands' = commands /\ helper.step = "apply"
          /\ helper'.step = "reply" /\ helper'.config = helper.new
      BY <1>1, <2>5 DEF Apply, Helpers
    <3>2. QED BY <1>1, <1>8, <3>1 DEF Asked, Asks
  <2>6. CASE Reply
    <3> DEFINE e == [type |-> "updated", config |-> helper.config,
                     restarted |-> helper.restarted, generation |-> session.generation]
    <3>1. e \in Events /\ Tell(e) /\ helper.step = "reply" /\ commands' = commands
      BY <1>1, <2>6, SessionParts, EventsTyped DEF Reply
    <3>2. CASE helper.config = panel.desired
      <4>1. Answers(e, panel'.desired)
        BY <1>1, <3>2 DEF Answers
      <4> HIDE DEF e
      <4>2. QED BY <3>1, <4>1, AnswersNow
    <3>3. CASE helper.config # panel.desired
      BY <1>1, <1>8, <3>1, <3>3 DEF Asked, Asks
    <3>4. QED BY <3>2, <3>3
  <2>7. CASE TakeReconnect
    <3>1. Taken("reconnect")
      BY <2>7 DEF TakeReconnect
    <3>2. ~Asks(Head(commands), panel.desired)
      BY <3>1 DEF Taken, Asks
    <3>3. QED BY <1>1, <1>8, <3>1, <3>2, TakesAsked
  <2>8. QED BY <2>1, <2>2, <2>3, <2>4, <2>5, <2>6, <2>7 DEF HelperStep
<1>9. QED BY <1>4, <1>5, <1>6, <1>7, <1>8

(* The session's steps take nothing from the panel.                          *)
LEMMA SessionPursues ==
  ASSUME UpdateInv, UpdateInv', AgreeInv, SessionStep
  PROVE  Pursued'
<1>1. UNCHANGED <<disk, store, helper, panel, commands>>
  BY DEF SessionStep, Connect, ReadArguments, GoLive, Retry, End, WorkerGoes, NextGeneration
<1>2. Asked' = Asked /\ Unstored' = Unstored /\ Wanting' = Wanting
  BY <1>1 DEF Asked, Asks, Unstored, Wanting
<1>3. Answered => Answered'
  BY <1>1, AnsweredStays, SessionTells
<1>4. Wanting /\ Missed => Missed'
  BY WorkMisses DEF AgreeInv, Wanting
<1>5. QED BY <1>2, <1>3, <1>4 DEF AgreeInv, Pursued

(* A generation heard of that is past the next one: the panel missed one, and *)
(* whatever takes it to the next is behind what it has heard.                *)
LEMMA Overtaken ==
  ASSUME UpdateInv, OrderInv, panel.ready, Hear, panel' = panel,
         Dated(events[1]), events[1].generation > panel.generation,
         \/ events[1].generation > panel.generation + 1
         \/ events[1].type # "generation" /\ ~Restarts(events[1])
  PROVE  Missed'
<1> DEFINE e == events[1]
           g == panel.generation
<1>1. /\ g \in Nat /\ Reached = g /\ session.generation \in Nat /\ session' = session
      /\ helper' = helper /\ panel'.generation = g
      /\ \A i \in 1..Len(events) : Dated(events[i]) => events[i].generation \in Nat
  BY OrderTypes DEF Hear
<1>2. /\ Len(events) \in Nat \ {0} /\ Len(events') = Len(events) - 1 /\ 1 \in 1..Len(events)
      /\ \A i \in 1..Len(events') : i + 1 \in 1..Len(events) /\ events'[i] = events[i + 1]
  BY Heads
<1>3. e.generation \in Nat /\ e.generation <= session.generation
  BY <1>1, <1>2 DEF OrderInv, InOrder
<1>4. ASSUME NEW i \in 1..Len(events), i > 1,
             events[i].type = "generation" \/ Restarts(events[i])
      PROVE  events[i].generation > g + 1
  <2>1. Dated(events[i]) /\ events[i].generation \in Nat
    BY <1>1, <1>4 DEF Dated, Restarts
  <2>2. CASE e.generation > g + 1
    <3>1. e.generation <= events[i].generation
      BY <1>2, <1>4, <2>1 DEF OrderInv, InOrder
    <3>2. QED BY <1>1, <1>3, <2>1, <2>2, <3>1
  <2>3. CASE e.type # "generation"
    <3>1. e.generation < events[i].generation
      BY <1>2, <1>4, <2>1, <2>3 DEF OrderInv, InOrder
    <3>2. QED BY <1>1, <1>3, <2>1, <3>1
  <2>4. QED BY <2>2, <2>3
<1>5. \A i \in 1..Len(events') : events'[i].type = "generation" \/ Restarts(events'[i]) =>
        events'[i].generation > g + 1
  <2> SUFFICES ASSUME NEW i \in 1..Len(events'),
                      events'[i].type = "generation" \/ Restarts(events'[i])
               PROVE  events'[i].generation > g + 1
    OBVIOUS
  <2>1. i + 1 \in 1..Len(events) /\ i + 1 > 1 /\ events'[i] = events[i + 1]
    BY <1>2
  <2>2. QED BY <1>4, <2>1
<1>6. ASSUME Restarting PROVE session.generation > g + 1
  <2>1. CASE e.generation > g + 1
    BY <1>1, <1>3, <2>1
  <2>2. CASE e.type # "generation"
    <3>1. e.generation < session.generation
      BY <1>2, <1>6, <2>2 DEF OrderInv, Gaps, Dated
    <3>2. QED BY <1>1, <1>3, <3>1
  <2>3. QED BY <2>1, <2>2
<1>7. QED BY <1>1, <1>3, <1>5, <1>6 DEF Missed, Restarting

(* A panel that has missed a generation hears of no other that it could reach,*)
(* and what it drops it need not have heard.                                 *)
LEMMA HearKeepsOn ==
  ASSUME UpdateInv, AgreeInv, Hear, panel' = panel, commands' = commands,
         Answers(events[1], panel.desired) /\ Wanting => Missed'
  PROVE  Pursued'
<1>1. UNCHANGED <<disk, store, helper, session, panel, commands>>
  BY DEF Hear
<1>2. Asked' = Asked /\ Unstored' = Unstored /\ Wanting' = Wanting /\ Restarting' = Restarting
  BY <1>1 DEF Asked, Asks, Unstored, Wanting, Restarting
<1>3. /\ Len(events) \in Nat \ {0} /\ Len(events') = Len(events) - 1
      /\ \A i \in 1..Len(events') : i + 1 \in 1..Len(events) /\ events'[i] = events[i + 1]
  BY Heads
<1>4. Missed => Missed'
  BY <1>1, <1>2, <1>3 DEF Missed
<1>5. ASSUME Answered, ~Answers(events[1], panel.desired) PROVE Answered'
  <2>1. PICK i \in 1..Len(events) : Answers(events[i], panel.desired)
    BY <1>5 DEF Answered
  <2>2. i # 1
    BY <1>5, <2>1
  <2>3. i - 1 \in 1..Len(events') /\ events'[i - 1] = events[i]
    BY <1>3, <2>2
  <2>4. Answers(events'[i - 1], panel'.desired)
    BY <1>1, <2>1, <2>3
  <2>5. QED BY <2>3, <2>4 DEF Answered
<1>6. QED BY <1>2, <1>4, <1>5 DEF AgreeInv, Pursued

(* A generation that is told.                                                *)
LEMMA HearGenerationPursues ==
  ASSUME UpdateInv, AgreeInv, Hear, HearGeneration(events[1])
  PROVE  Pursued'
<1> DEFINE e == events[1]
<1>1. e.type = "generation" /\ panel' = Advanced(e.generation) /\ commands' = commands
  BY DEF HearGeneration
<1>2. CASE ~Advances(e.generation)
  <2>1. panel' = panel /\ ~Answers(e, panel.desired)
    BY <1>1, <1>2 DEF Advanced, Answers
  <2>2. QED BY <1>1, <2>1, HearKeepsOn
<1>3. CASE Advances(e.generation)
  <2>1. panel \in Panels /\ panel' = [panel EXCEPT !.generation = e.generation]
    BY <1>1, <1>3 DEF Advanced, UpdateInv, PanelTyped
  <2>2. /\ panel'.ready = panel.ready /\ panel'.desired = panel.desired
        /\ panel'.applied = panel.applied /\ panel'.retry = panel.retry
    BY <2>1 DEF Panels
  <2>3. UNCHANGED <<disk, store, helper, session, commands>>
    BY <1>1 DEF Hear
  <2>4. Asked' = Asked /\ Unstored' = Unstored /\ Wanting' = Wanting
    BY <2>2, <2>3 DEF Asked, Asks, Unstored, Wanting
  <2>5. /\ Len(events) \in Nat \ {0} /\ Len(events') = Len(events) - 1 /\ 1 \in 1..Len(events)
        /\ \A i \in 1..Len(events') : i + 1 \in 1..Len(events) /\ events'[i] = events[i + 1]
    BY Heads
  <2>6. Wanting => ~Missed
    <3>1. Missed => e.generation > panel.generation + 1
      BY <1>1, <2>5 DEF Missed
    <3>2. Wanting => e.generation \in Nat /\ panel.generation \in Nat
      BY <1>1, <2>5, OrderTypes DEF Wanting, Dated
    <3>3. QED BY <1>3, <3>1, <3>2 DEF Advances
  <2>7. ASSUME Answered PROVE Answered'
    <3>1. PICK i \in 1..Len(events) : Answers(events[i], panel.desired)
      BY <2>7 DEF Answered
    <3>2. i # 1
      BY <1>1, <3>1 DEF Answers
    <3>3. i - 1 \in 1..Len(events') /\ events'[i - 1] = events[i]
      BY <2>5, <3>2
    <3>4. Answers(events'[i - 1], panel'.desired)
      BY <2>2, <3>1, <3>3
    <3>5. QED BY <3>3, <3>4 DEF Answered
  <2>8. QED BY <2>4, <2>6, <2>7 DEF AgreeInv, Pursued
<1>4. QED BY <1>2, <1>3

(* What no case admits: an answer of a generation the panel has not reached.  *)
LEMMA HearIgnoredPursues ==
  ASSUME UpdateInv, AgreeInv, Hear, HearIgnored(events[1])
  PROVE  Pursued'
<1> DEFINE e == events[1]
<1>1. panel' = panel /\ commands' = commands
  BY DEF HearIgnored
<1>2. ASSUME Wanting, Answers(e, panel.desired) PROVE Missed'
  <2>1. /\ panel.ready /\ panel.generation \in Nat /\ panel.generation # None
        /\ Reached = panel.generation
    BY <1>2, OrderTypes DEF Wanting
  <2>2. \/ e.type = "stale" /\ ~Admits(e.generation)
        \/ e.type = "updated" /\ ~Confirms(e) /\ e.config = panel.desired
    BY <1>2 DEF HearIgnored, Answers
  <2>3. Dated(e) /\ e.type # "generation" /\ 1 \in 1..Len(events) /\ e \in Events
    BY <2>2, Heads DEF Dated
  <2>4. e.generation \in Nat /\ panel.generation <= e.generation
    BY <2>1, <2>3, OrderTypes DEF AgreeInv, OrderInv, InOrder
  <2>5. CASE e.type = "stale"
    <3>1. e.generation # panel.generation /\ e.generation # panel.generation + 1
      BY <2>1, <2>2, <2>5 DEF Admits, Advances
    <3>2. e.generation > panel.generation
      BY <2>1, <2>4, <3>1
    <3>3. ~Restarts(e)
      BY <2>5 DEF Restarts
    <3>4. QED BY <1>1, <2>1, <2>3, <3>2, <3>3, Overtaken DEF AgreeInv
  <2>6. CASE e.type = "updated" /\ e.restarted
    <3>1. e.generation # panel.generation + 1
      BY <2>1, <2>2, <2>6 DEF Confirms, Advances
    <3>2. Gap(events, Reached, 1, e.generation)
      BY <2>3, <2>6 DEF AgreeInv, OrderInv, Gaps, Restarts
    <3>3. e.generation > panel.generation
      BY <2>1, <2>4, <3>2 DEF Gap
    <3>4. e.generation > panel.generation + 1
      BY <2>1, <2>4, <3>1, <3>3
    <3>5. QED BY <1>1, <2>1, <2>3, <3>3, <3>4, Overtaken DEF AgreeInv
  <2>7. CASE e.type = "updated" /\ ~e.restarted
    <3>1. e.generation # panel.generation
      BY <2>2, <2>7 DEF Confirms
    <3>2. e.generation > panel.generation
      BY <2>1, <2>4, <3>1
    <3>3. ~Restarts(e)
      BY <2>7 DEF Restarts
    <3>4. QED BY <1>1, <2>1, <2>3, <3>2, <3>3, Overtaken DEF AgreeInv
  <2>8. QED BY <2>2, <2>5, <2>6, <2>7
<1>3. QED BY <1>1, <1>2, HearKeepsOn

(* Whatever the panel hears.                                                 *)
LEMMA HearPursues ==
  ASSUME UpdateInv, UpdateInv', AgreeInv, Hear
  PROVE  Pursued'
<1> DEFINE e == events[1]
<1>1. Heard(e) /\ e \in Events /\ panel \in Panels /\ commands \in Seq(Commands)
  BY Heads DEF UpdateInv, PanelTyped
<1>2. CASE HearReady(e)
  <2> DEFINE p == [panel EXCEPT !.ready = TRUE, !.generation = 0, !.applied = e.config,
                                !.desired = IF @ = None THEN e.config ELSE @]
  <2>1. panel' = p /\ commands' = commands \o Sent(p)
    BY <1>2 DEF HearReady
  <2> HIDE DEF p
  <2>2. SUFFICES ASSUME Wanting' PROVE Asked'
    BY DEF Pursued
  <2>3. /\ p \in Panels /\ p.ready /\ p.desired # p.applied
        /\ p.applied \in Known /\ p.desired \in Known /\ p.generation \in Nat
    BY <2>1, <2>2 DEF UpdateInv, PanelTyped, Wanting
  <2>4. QED BY <1>1, <2>1, <2>3, SendsAsked
<1>3. CASE HearGeneration(e) BY <1>3, HearGenerationPursues
<1>4. CASE HearStale(e) \/ HearUpdated(e)
  <2>1. Advanced(e.generation) \in Panels
    <3>1. e.generation \in Nat
      BY <1>1, <1>4, EventFields DEF HearStale, HearUpdated
    <3>2. QED BY <3>1, AdvancedTyped DEF UpdateInv, PanelTyped
  <2>2. ~Wanting'
    <3>1. CASE HearStale(e)
      <4> DEFINE p == [Advanced(e.generation) EXCEPT !.applied = e.config]
      <4>1. \/ panel' = [p EXCEPT !.retry = p.desired]
            \/ panel' = p /\ (p.desired = p.applied \/ p.retry = p.desired)
        BY <3>1 DEF HearStale
      <4>2. p \in [ready: BOOLEAN, generation: Nat \cup {None}, applied: {e.config},
                   desired: Revisions, retry: Revisions]
        BY <2>1 DEF Panels
      <4> HIDE DEF p
      <4>3. QED BY <4>1, <4>2 DEF Wanting
    <3>2. CASE HearUpdated(e)
      <4>1. Advanced(e.generation).desired = panel.desired
        BY <1>1 DEF Advanced, Panels
      <4>2. panel'.desired = panel'.applied
        BY <2>1, <3>2, <4>1 DEF HearUpdated, Confirms, Panels
      <4>3. QED BY <4>2 DEF Wanting
    <3>3. QED BY <1>4, <3>1, <3>2
  <2>3. QED BY <2>2 DEF Pursued
<1>5. CASE HearProtocolError(e)
  <2>1. ~panel'.ready
    BY <1>1, <1>5 DEF HearProtocolError, Panels
  <2>2. QED BY <2>1 DEF Pursued, Wanting
<1>6. CASE HearIgnored(e) BY <1>6, HearIgnoredPursues
<1>7. QED BY <1>1, <1>2, <1>3, <1>4, <1>5, <1>6 DEF Heard

(* Every step keeps it after what it wants.                                  *)
LEMMA AgreeNext ==
  ASSUME SnapshotInv, SnapshotInv', UpdateInv, UpdateInv', AgreeInv, [ConfigNext]_configVars
  PROVE  AgreeInv'
<1>1. OrderInv' /\ Replaced'
  BY OrderNext, ReplacedNext DEF AgreeInv
<1>2. CASE (\E c \in Known : Commit(c)) \/ StoreStep \/ StoreFails \/ Writeback \/ Spoil
  BY <1>1, <1>2, StorePursues DEF AgreeInv
<1>3. CASE (\E c \in Known : Configure(c)) \/ AskReconnect \/ Hear
  BY <1>1, <1>3, ConfigurePursues, AskReconnectPursues, HearPursues DEF AgreeInv
<1>4. CASE StartHelper \/ HelperDies \/ PowerFails
  BY <1>1, <1>4, GoneOrders DEF AgreeInv, Pursued, Wanting
<1>5. CASE HelperStep \/ SessionStep
  BY <1>1, <1>5, HelperPursues, SessionPursues DEF AgreeInv
<1>6. CASE UNCHANGED configVars
  <2>1. Pursued' = Pursued
    BY <1>6 DEF configVars, Pursued, Wanting, Missed, Restarting, Asked, Asks, Answered, Answers,
       Unstored
  <2>2. QED BY <1>1, <2>1 DEF AgreeInv
<1>7. QED BY <1>2, <1>3, <1>4, <1>5, <1>6 DEF ConfigNext

(* At first nothing is wanted.                                               *)
LEMMA AgreeInit == ConfigInit => AgreeInv
<1> SUFFICES ASSUME ConfigInit PROVE AgreeInv
  OBVIOUS
<1>1. /\ events = <<>> /\ Len(events) = 0 /\ Reached = 0 /\ session.generation = 0
      /\ helper.step = "down" /\ ~panel.ready /\ store.step = "idle" /\ store.printed = None
  BY DEF ConfigInit, Reached
<1>2. OrderInv
  BY <1>1 DEF OrderInv, InOrder, Gaps, Restarting
<1>3. Replaced
  BY <1>1 DEF Replaced
<1>4. Pursued
  BY <1>1 DEF Pursued, Wanting
<1>5. QED BY <1>2, <1>3, <1>4 DEF AgreeInv

(* When nothing is under way and the panel follows the helper's generations, *)
(* the helper has the stored configuration, unless the retry is used up: no  *)
(* order of commits, answers, restarts and losses leaves them apart.         *)
THEOREM RevisionsAgree == ConfigSpec => []SettledAgrees
<1>1. SnapshotInv /\ UpdateInv /\ AgreeInv => SettledAgrees
  <2> SUFFICES ASSUME SnapshotInv, UpdateInv, AgreeInv, Settled, panel.retry # panel.desired
               PROVE  helper.config = disk.seen.value
    BY DEF SettledAgrees
  <2>1. /\ panel.ready /\ panel.generation = session.generation /\ panel.applied = helper.config
        /\ commands = <<>> /\ events = <<>> /\ helper.step = "idle" /\ store.step = "idle"
        /\ store.told = {} /\ panel.desired = store.printed /\ disk.seen.value = store.printed
    BY DEF Settled
  <2>2. ~Missed
    BY <2>1, OrderTypes DEF Missed
  <2>3. ~Asked /\ ~Answered /\ ~Unstored
    BY <2>1 DEF Asked, Answered, Unstored
  <2>4. QED BY <2>1, <2>2, <2>3 DEF AgreeInv, Pursued, Wanting
<1>2. QED
  BY <1>1, SnapshotInit, SnapshotNext, UpdateInit, UpdateNext, AgreeInit, AgreeNext, PTL
  DEF ConfigSpec

=============================================================================
