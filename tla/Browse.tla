-------------------------------- MODULE Browse --------------------------------
(***************************************************************************)
(* AvahiDiscovery::browse in helper/src/wireless.rs: an avahi-browse child *)
(* prints one line per resolved service, a reader thread forwards the      *)
(* lines to a channel, and the searching thread takes them one by one      *)
(* while it watches the token, two deadlines and the child.                *)
(*                                                                         *)
(* A line is the endpoint of a service, "invalid" when the search is for   *)
(* that service and it has no address or port zero, or "other": what the   *)
(* parser drops.                                                           *)
(***************************************************************************)
EXTENDS Naturals, Sequences

CONSTANTS
  Endpoints,      (* resolved addresses and ports                             *)
  BrowseTimeout,  (* ticks until a search gives up                            *)
  SettleTime,     (* ticks a manual search waits for a second service, 250 ms *)
  MaxLines        (* bound: lines avahi-browse prints in one search           *)

SearchFailures == {"DependencyUnavailable", "NetworkUnavailable", "TimedOut", "Cancelled"}

ASSUME BrowseAssumption ==
  /\ BrowseTimeout \in Nat /\ SettleTime \in Nat /\ MaxLines \in Nat
  /\ Endpoints \cap ({"invalid", "other", "none"} \cup SearchFailures) = {}

VARIABLES
  search,    (* browse(): where it is, its candidate and what it will return  *)
  avahi,     (* the avahi-browse child and the lines in its standard output   *)
  reader,    (* the reader thread and the lines in the channel                *)
  clock,     (* ticks since the search began                                  *)
  taken      (* history: the lines the search took, and when the last match   *)

browseVars == <<search, avahi, reader, clock, taken>>

Lines == Endpoints \cup {"invalid", "other"}
Never == BrowseTimeout + SettleTime + 1        \* Option::None of a deadline

SearchSteps == {"idle", "begin", "test", "receive", "wait", "kill", "reap"}
AvahiStates == {"none", "running", "killed", "exited", "reaped"}
ReaderStates == {"none", "reading", "done"}

BrowseTypeOK ==
  /\ search \in [step: SearchSteps, wanted: SUBSET Endpoints, unique: BOOLEAN,
                 candidate: Endpoints \cup {"none"}, settle: 0..Never,
                 result: Endpoints \cup SearchFailures \cup {"none"}]
  /\ avahi \in [state: AvahiStates, out: Seq(Lines), printed: 0..MaxLines, ended: BOOLEAN]
  /\ reader \in [state: ReaderStates, channel: Seq(Lines)]
  /\ clock \in 0..BrowseTimeout
  /\ taken \in [lines: SUBSET Lines, last: 0..BrowseTimeout]

NoAvahi == [state |-> "none", out |-> <<>>, printed |-> 0, ended |-> FALSE]
NoReader == [state |-> "none", channel |-> <<>>]
NoneTaken == [lines |-> {}, last |-> 0]
NoSearch == [step |-> "idle", wanted |-> {}, unique |-> FALSE, candidate |-> "none",
             settle |-> Never, result |-> "none"]

BrowseInit ==
  /\ search = NoSearch /\ avahi = NoAvahi /\ reader = NoReader /\ clock = 0 /\ taken = NoneTaken

Searching == search.step # "idle"

-----------------------------------------------------------------------------
(* The searching thread.  `cancelled` is the token's answer at that moment. *)

SearchStep(s) == search' = [search EXCEPT !.step = s]
Conclude(r) == search' = [search EXCEPT !.step = "idle", !.result = r]
StopWith(r) == search' = [search EXCEPT !.step = "kill", !.result = r]
CandidateOr(failure) == IF search.candidate # "none" THEN search.candidate ELSE failure

(* The caller asks for a search: which endpoints its predicate lets through, *)
(* and whether two of them are an error.                                    *)
BrowseFor(wanted, unique) ==
  /\ search' = [NoSearch EXCEPT !.step = "begin", !.wanted = wanted, !.unique = unique]
  /\ UNCHANGED <<avahi, reader, clock, taken>>

(* The caller has the result and the search's locals are gone.  A child     *)
(* that still runs is nobody's: the thread that reads from it may end it    *)
(* with the next line, or it may live on.                                   *)
BrowseDone ==
  /\ search' = [NoSearch EXCEPT !.result = search.result]
  /\ avahi' = NoAvahi /\ reader' = NoReader /\ clock' = 0 /\ taken' = NoneTaken

BrowseBegin(cancelled) ==
  /\ search.step = "begin"
  /\ \/ cancelled /\ Conclude("Cancelled") /\ UNCHANGED <<avahi, reader>>
     \/ ~cancelled /\ Conclude("DependencyUnavailable") /\ UNCHANGED <<avahi, reader>>
     \/ /\ ~cancelled /\ SearchStep("test")
        /\ avahi' = [avahi EXCEPT !.state = "running"]
        /\ reader' = [reader EXCEPT !.state = "reading"]
  /\ UNCHANGED <<clock, taken>>

(* Mutant: a search without a candidate has no deadline.                    *)
BrowseTestSettling(cancelled) ==
  /\ search.step = "test"
  /\ CASE cancelled -> StopWith("Cancelled")
       [] ~cancelled /\ clock >= search.settle -> StopWith(CandidateOr("NetworkUnavailable"))
       [] OTHER -> SearchStep("receive")
  /\ UNCHANGED <<avahi, reader, clock, taken>>

(* The token, then the settle deadline, then the deadline of the search.    *)
BrowseTest(cancelled) ==
  /\ search.step = "test"
  /\ CASE cancelled -> StopWith("Cancelled")
       [] ~cancelled /\ clock >= search.settle -> StopWith(CandidateOr("NetworkUnavailable"))
       [] ~cancelled /\ clock < search.settle /\ clock >= BrowseTimeout ->
            StopWith(CandidateOr("TimedOut"))
       [] OTHER -> SearchStep("receive")
  /\ UNCHANGED <<avahi, reader, clock, taken>>

(* A match of a manual search: another may follow within SettleTime.        *)
Settle(e) ==
  search' = [search EXCEPT !.step = "wait", !.candidate = e, !.settle = clock + SettleTime]

(* Mutant: a second match replaces the first.                               *)
TakeLineLatest(line) ==
  CASE line \notin search.wanted \cup {"invalid"} -> SearchStep("wait")
    [] line = "invalid" -> Conclude("NetworkUnavailable")
    [] line \in search.wanted /\ ~search.unique -> StopWith(line)
    [] line \in search.wanted /\ search.unique -> Settle(line)

(* Mutant: the second endpoint returns as the invalid one does.             *)
TakeLineLeaving(line) ==
  CASE line \notin search.wanted \cup {"invalid"} -> SearchStep("wait")
    [] line = "invalid" -> Conclude("NetworkUnavailable")
    [] line \in search.wanted /\ ~search.unique -> StopWith(line)
    [] line \in search.wanted /\ search.unique ->
         IF search.candidate \in {"none", line} THEN Settle(line)
         ELSE Conclude("NetworkUnavailable")

(* What a line of the channel does to the search.  A service without a      *)
(* valid endpoint returns by `?`, past every stop_child.                    *)
TakeLine(line) ==
  CASE line \notin search.wanted \cup {"invalid"} -> SearchStep("wait")
    [] line = "invalid" -> Conclude("NetworkUnavailable")
    [] line \in search.wanted /\ ~search.unique -> StopWith(line)
    [] line \in search.wanted /\ search.unique ->
         IF search.candidate \in {"none", line} THEN Settle(line)
         ELSE StopWith("NetworkUnavailable")

(* recv_timeout: a line, nothing for a poll interval, or no sender left.    *)
BrowseReceive ==
  /\ search.step = "receive"
  /\ IF reader.channel # <<>>
     THEN /\ TakeLine(Head(reader.channel))
          /\ reader' = [reader EXCEPT !.channel = Tail(@)]
          /\ taken' = [lines |-> taken.lines \cup {Head(reader.channel)},
                       last |-> IF Head(reader.channel) \in search.wanted THEN clock
                                ELSE taken.last]
     ELSE /\ IF reader.state = "done" THEN StopWith(CandidateOr("NetworkUnavailable"))
             ELSE SearchStep("wait")
          /\ UNCHANGED <<reader, taken>>
  /\ UNCHANGED <<avahi, clock>>

(* try_wait: a child that has exited ends the search, also when lines it    *)
(* printed are still on their way.                                          *)
BrowseWait ==
  /\ search.step = "wait"
  /\ IF avahi.state = "exited"
     THEN /\ avahi' = [avahi EXCEPT !.state = "reaped"]
          /\ Conclude(CandidateOr("NetworkUnavailable"))
     ELSE SearchStep("test") /\ UNCHANGED avahi
  /\ UNCHANGED <<reader, clock, taken>>

(* stop_child                                                               *)
BrowseKill ==
  /\ search.step = "kill" /\ SearchStep("reap")
  /\ avahi' = IF avahi.state = "running" THEN [avahi EXCEPT !.state = "killed"] ELSE avahi
  /\ UNCHANGED <<reader, clock, taken>>

BrowseReap ==
  /\ search.step = "reap" /\ avahi.state = "exited"
  /\ avahi' = [avahi EXCEPT !.state = "reaped"]
  /\ Conclude(search.result)
  /\ UNCHANGED <<reader, clock, taken>>

Searcher(cancelled) ==
  \/ BrowseBegin(cancelled) \/ BrowseTest(cancelled)
  \/ BrowseReceive \/ BrowseWait \/ BrowseKill \/ BrowseReap

-----------------------------------------------------------------------------
(* The reader thread and avahi-browse.                                      *)

(* The thread forwards a line, or stops: nobody receives, or end of file.   *)
Forward ==
  /\ reader.state = "reading" /\ avahi.out # <<>>
  /\ avahi' = [avahi EXCEPT !.out = Tail(@)]
  /\ reader' = IF Searching THEN [reader EXCEPT !.channel = Append(@, Head(avahi.out))]
               ELSE [reader EXCEPT !.state = "done"]
  /\ UNCHANGED <<search, clock, taken>>

EndOfLines ==
  /\ reader.state = "reading" /\ avahi.out = <<>> /\ avahi.state \in {"exited", "reaped"}
  /\ reader' = [reader EXCEPT !.state = "done"]
  /\ UNCHANGED <<search, avahi, clock, taken>>

Reader == Forward \/ EndOfLines

(* A line whose reader is gone kills avahi-browse by SIGPIPE.               *)
AvahiPrints(line) ==
  /\ avahi.state = "running" /\ avahi.printed < MaxLines
  /\ avahi' = IF reader.state = "done" THEN [avahi EXCEPT !.state = "exited", !.ended = TRUE]
              ELSE [avahi EXCEPT !.out = Append(@, line), !.printed = @ + 1]
  /\ UNCHANGED <<search, reader, clock, taken>>

AvahiExits ==
  /\ avahi.state = "running"
  /\ avahi' = [avahi EXCEPT !.state = "exited", !.ended = TRUE]
  /\ UNCHANGED <<search, reader, clock, taken>>

AvahiDies ==
  /\ avahi.state = "killed"
  /\ avahi' = [avahi EXCEPT !.state = "exited"]
  /\ UNCHANGED <<search, reader, clock, taken>>

Tick ==
  /\ Searching /\ clock < BrowseTimeout
  /\ clock' = clock + 1
  /\ UNCHANGED <<search, avahi, reader, taken>>

BrowseEnvironment == (\E line \in Lines : AvahiPrints(line)) \/ AvahiExits \/ AvahiDies \/ Tick

-----------------------------------------------------------------------------
(* Properties                                                               *)

(* A manual search returns a service only if every line it took that was    *)
(* one named the same endpoint, and, unless avahi-browse ended or the       *)
(* search's own deadline came first, only after SettleTime without another. *)
UnambiguousMatch ==
  search.step = "idle" /\ search.unique /\ search.result \in Endpoints =>
    /\ taken.lines \cap search.wanted = {search.result}
    /\ clock = BrowseTimeout \/ avahi.ended \/ clock >= taken.last + SettleTime
(* A search that has ended has ended its avahi-browse too: it would go on    *)
(* browsing the network beside the next search.  The one way round            *)
(* stop_child is a service whose endpoint is none (wireless.rs:227-230).      *)
StopsItsBrowser ==
  search.step = "idle" /\ avahi.state = "running" => "invalid" \in taken.lines

=============================================================================
