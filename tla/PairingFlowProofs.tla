--------------------------- MODULE PairingFlowProofs ---------------------------
(* Proofs about PairingFlow, for any phones, pipes and deadlines: the types,   *)
(* what a search and a pairing return, and that PairingPromise is kept.       *)
EXTENDS PairingFlow, CommandRunProofs

(* A search: what it knows at each of its steps, for any services, deadlines  *)
(* and number of lines.                                                       *)
SearchRecords ==
  [step: SearchSteps, wanted: SUBSET Endpoints, unique: BOOLEAN,
   candidate: Endpoints \cup {"none"}, settle: 0..Never,
   result: Endpoints \cup SearchFailures \cup {"none"}]
AvahiRecords == [state: AvahiStates, out: Seq(Lines), printed: 0..MaxLines, ended: BOOLEAN]
ReaderRecords == [state: ReaderStates, channel: Seq(Lines)]
TakenRecords == [lines: SUBSET Lines, last: 0..BrowseTimeout]

LoopSteps == {"test", "receive", "wait"}
EndSteps == {"kill", "reap", "idle"}

(* The child of a search: none before the search begins; while it looks, one  *)
(* that runs or has exited by itself, and a channel that closes after that;   *)
(* then one that is killed and reaped, unless an invalid service was taken.   *)
BrowserFits ==
  /\ search.step = "begin" => avahi.state = "none" /\ reader.state = "none" /\ taken = NoneTaken
  /\ search.step \in LoopSteps =>
       /\ avahi.state \in {"running", "exited"}
       /\ avahi.state = "exited" => avahi.ended
       /\ reader.state # "none" /\ (reader.state = "done" => avahi.state = "exited")
  /\ search.step = "kill" => avahi.state \in {"running", "exited"}
  /\ search.step = "reap" => avahi.state \in {"killed", "exited"}
  /\ search.step = "idle" => avahi.state \in {"none", "reaped"} \/ "invalid" \in taken.lines

(* While a search looks, its candidate is the one wanted service it has seen, *)
(* and it settles SettleTime after it saw it last.                            *)
CandidateFits ==
  /\ search.candidate # "none" => search.unique /\ search.candidate \in search.wanted
  /\ search.step \in LoopSteps \cup {"begin"} =>
       /\ search.result = "none"
       /\ search.candidate = "none" =>
            search.settle = Never /\ taken.lines \cap search.wanted = {}
       /\ search.candidate # "none" =>
            /\ taken.lines \cap search.wanted = {search.candidate}
            /\ search.settle = taken.last + SettleTime

(* A search that ends has a result; a service that is returned is a wanted    *)
(* one, and for a manual search the only one, with nothing left to wait for.  *)
Waited == clock = BrowseTimeout \/ avahi.ended \/ clock >= taken.last + SettleTime
ResultFits ==
  search.step \in EndSteps =>
    /\ search.wanted # {} => search.result # "none"
    /\ search.result \in Endpoints =>
         /\ search.wanted = {} \/ search.result \in search.wanted
         /\ search.unique => taken.lines \cap search.wanted = {search.result} /\ Waited

BrowseInv == BrowseTypeOK /\ BrowserFits /\ CandidateFits /\ ResultFits

-----------------------------------------------------------------------------
(* The names the actions use.                                                 *)
LEMMA SearchNames ==
  /\ {"idle", "begin", "test", "receive", "wait", "kill", "reap"} \subseteq SearchSteps
  /\ SearchSteps = LoopSteps \cup EndSteps \cup {"begin"}
  /\ {"none", "running", "killed", "exited", "reaped"} \subseteq AvahiStates
  /\ {"none", "reading", "done"} \subseteq ReaderStates
  /\ {"DependencyUnavailable", "NetworkUnavailable", "TimedOut", "Cancelled"}
       \subseteq SearchFailures
  /\ "none" \notin Endpoints \cup SearchFailures
BY BrowseAssumption DEF SearchSteps, LoopSteps, EndSteps, AvahiStates, ReaderStates, SearchFailures

(* What the type invariant says of each variable of a search.                *)
LEMMA BrowseTyped ==
  ASSUME BrowseTypeOK
  PROVE  /\ search \in SearchRecords /\ avahi \in AvahiRecords /\ reader \in ReaderRecords
         /\ clock \in 0..BrowseTimeout /\ taken \in TakenRecords
BY DEF BrowseTypeOK, SearchRecords, AvahiRecords, ReaderRecords, TakenRecords

(* The type invariant from its parts, in the next state.                     *)
LEMMA BrowseTypes ==
  ASSUME search' \in SearchRecords, avahi' \in AvahiRecords, reader' \in ReaderRecords,
         clock' \in 0..BrowseTimeout, taken' \in TakenRecords
  PROVE  BrowseTypeOK'
BY DEF BrowseTypeOK, SearchRecords, AvahiRecords, ReaderRecords, TakenRecords

(* What the searching thread writes to its record.                            *)
LEMMA SearchStepUpdates ==
  ASSUME BrowseTypeOK, NEW s \in SearchSteps, SearchStep(s)
  PROVE  /\ search' \in SearchRecords /\ search'.step = s /\ search'.wanted = search.wanted
         /\ search'.unique = search.unique /\ search'.candidate = search.candidate
         /\ search'.settle = search.settle /\ search'.result = search.result
BY BrowseTyped DEF SearchRecords, SearchStep

(* A search that ends, over the kill or at once, keeps what it looked for
   and has its result.                                                       *)
LEMMA StopWithUpdates ==
  ASSUME BrowseTypeOK, NEW r \in Endpoints \cup SearchFailures, StopWith(r) \/ Conclude(r)
  PROVE  /\ search' \in SearchRecords /\ search'.step \in EndSteps
         /\ search'.wanted = search.wanted /\ search'.unique = search.unique
         /\ search'.candidate = search.candidate /\ search'.result = r
         /\ search'.step = IF StopWith(r) THEN "kill" ELSE "idle"
<1>1. search \in SearchRecords /\ {"kill", "idle"} \subseteq SearchSteps
  BY BrowseTyped, SearchNames
<1>2. CASE StopWith(r)
  BY <1>1, <1>2 DEF SearchRecords, StopWith, EndSteps
<1>3. CASE ~StopWith(r)
  <2>1. search' = [search EXCEPT !.step = "idle", !.result = r]
    BY <1>3 DEF Conclude
  <2>2. QED BY <1>1, <1>3, <2>1 DEF SearchRecords, EndSteps
<1>4. QED BY <1>2, <1>3

-----------------------------------------------------------------------------
(* A search that looks on, with nothing new among the services it wants.      *)
SameMatches ==
  /\ taken'.lines \cap search.wanted = taken.lines \cap search.wanted
  /\ taken'.last = taken.last
(* A turn of the loop that only drains the reader keeps the invariant.       *)
LEMMA LooksOn ==
  ASSUME BrowseInv, search.step \in LoopSteps, NEW s \in LoopSteps, SearchStep(s),
         avahi' = avahi, clock' = clock, reader' \in ReaderRecords,
         reader'.state = reader.state, taken' \in TakenRecords, SameMatches
  PROVE  BrowseInv'
<1>1. BrowseTypeOK /\ s \in SearchSteps
  BY SearchNames DEF BrowseInv
<1>2. /\ search' \in SearchRecords /\ search'.step = s /\ search'.wanted = search.wanted
      /\ search'.unique = search.unique /\ search'.candidate = search.candidate
      /\ search'.settle = search.settle /\ search'.result = search.result
  BY <1>1, SearchStepUpdates
<1>3. BrowseTypeOK'
  BY <1>1, <1>2, BrowseTyped, BrowseTypes
<1>4. BrowserFits'
  BY <1>2 DEF BrowseInv, BrowserFits, LoopSteps
<1>5. CandidateFits'
  BY <1>2 DEF BrowseInv, CandidateFits, SameMatches
<1>6. ResultFits'
  BY <1>2 DEF ResultFits, EndSteps, LoopSteps
<1>7. QED BY <1>3, <1>4, <1>5, <1>6 DEF BrowseInv

(* One that stops its child, with a failure or a service it may return.       *)
LEMMA Stops ==
  ASSUME BrowseInv, search.step \in LoopSteps,
         NEW r \in Endpoints \cup SearchFailures, StopWith(r),
         avahi' = avahi, clock' = clock, reader' \in ReaderRecords, taken' \in TakenRecords,
         r \in Endpoints =>
           /\ r \in search.wanted
           /\ search.unique => taken'.lines \cap search.wanted = {r} /\ Waited'
  PROVE  BrowseInv'
<1>1. BrowseTypeOK
  BY DEF BrowseInv
<1>2. /\ search' \in SearchRecords /\ search'.step = "kill"
      /\ search'.wanted = search.wanted /\ search'.unique = search.unique
      /\ search'.candidate = search.candidate /\ search'.result = r
  BY <1>1, StopWithUpdates
<1>3. BrowseTypeOK'
  BY <1>1, <1>2, BrowseTyped, BrowseTypes
<1>4. BrowserFits'
  BY <1>2 DEF BrowseInv, BrowserFits, LoopSteps
<1>5. CandidateFits'
  BY <1>2 DEF BrowseInv, CandidateFits, LoopSteps
<1>6. ResultFits'
  BY <1>2, SearchNames DEF ResultFits
<1>7. QED BY <1>3, <1>4, <1>5, <1>6 DEF BrowseInv

(* A candidate may be returned once there is nothing left to wait for.        *)
LEMMA CandidateMayStop ==
  ASSUME BrowseInv, search.step \in LoopSteps, NEW f \in SearchFailures,
         search.candidate # "none" => Waited
  PROVE  /\ CandidateOr(f) \in Endpoints \cup SearchFailures
         /\ CandidateOr(f) \in Endpoints =>
              /\ CandidateOr(f) \in search.wanted
              /\ search.unique => taken.lines \cap search.wanted = {CandidateOr(f)} /\ Waited
<1>1. search.candidate \in Endpoints \cup {"none"}
  BY BrowseTyped DEF BrowseInv, SearchRecords
<1>2. CASE search.candidate = "none"
  BY <1>2, BrowseAssumption DEF CandidateOr
<1>3. CASE search.candidate # "none"
  BY <1>1, <1>3 DEF CandidateOr, BrowseInv, CandidateFits
<1>4. QED BY <1>2, <1>3

-----------------------------------------------------------------------------
(* Starting a search keeps the invariant.                                    *)
LEMMA BrowseBeginKeeps ==
  ASSUME BrowseInv, NEW cancelled, BrowseBegin(cancelled)
  PROVE  BrowseInv'
<1>1. /\ BrowseTypeOK /\ search.step = "begin" /\ avahi.state = "none" /\ taken = NoneTaken
      /\ clock' = clock /\ taken' = taken
  BY DEF BrowseInv, BrowserFits, BrowseBegin
<1>2. ASSUME NEW r \in SearchFailures, Conclude(r), avahi' = avahi, reader' = reader
      PROVE  BrowseInv'
  <2>1. /\ search' \in SearchRecords /\ search'.wanted = search.wanted
        /\ search'.unique = search.unique /\ search'.candidate = search.candidate
        /\ search'.result = r /\ search'.step \in {"kill", "idle"}
    BY <1>1, <1>2, StopWithUpdates
  <2>2. search'.step = "idle"
    BY <1>1, <1>2, BrowseTyped DEF Conclude, SearchRecords
  <2>3. BrowseTypeOK'
    BY <1>1, <1>2, <2>1, BrowseTyped, BrowseTypes
  <2>4. BrowserFits'
    BY <1>1, <1>2, <2>2 DEF BrowserFits, LoopSteps
  <2>5. CandidateFits' /\ ResultFits'
    BY <1>2, <2>1, <2>2, SearchNames, BrowseAssumption
    DEF BrowseInv, CandidateFits, ResultFits, LoopSteps
  <2>6. QED BY <2>3, <2>4, <2>5 DEF BrowseInv
<1>3. CASE /\ SearchStep("test") /\ avahi' = [avahi EXCEPT !.state = "running"]
           /\ reader' = [reader EXCEPT !.state = "reading"]
  <2>1. /\ search' \in SearchRecords /\ search'.step = "test"
        /\ search'.wanted = search.wanted /\ search'.unique = search.unique
        /\ search'.candidate = search.candidate /\ search'.settle = search.settle
        /\ search'.result = search.result
    BY <1>1, <1>3, SearchNames, SearchStepUpdates
  <2>2. avahi' \in AvahiRecords /\ avahi'.state = "running"
    BY <1>1, <1>3, SearchNames, BrowseTyped DEF AvahiRecords
  <2>3. reader' \in ReaderRecords /\ reader'.state = "reading"
    BY <1>1, <1>3, SearchNames, BrowseTyped DEF ReaderRecords
  <2>4. BrowseTypeOK'
    BY <1>1, <2>1, <2>2, <2>3, BrowseTyped, BrowseTypes
  <2>5. BrowserFits'
    BY <2>1, <2>2, <2>3 DEF BrowserFits, LoopSteps
  <2>6. CandidateFits' /\ ResultFits'
    BY <1>1, <2>1 DEF BrowseInv, CandidateFits, ResultFits, EndSteps
  <2>7. QED BY <2>4, <2>5, <2>6 DEF BrowseInv
<1>4. QED BY <1>2, <1>3, SearchNames DEF BrowseBegin

(* The test of the token at the head of the loop keeps the invariant.        *)
LEMMA BrowseTestKeeps ==
  ASSUME BrowseInv, NEW cancelled \in BOOLEAN, BrowseTest(cancelled)
  PROVE  BrowseInv'
<1>1. /\ BrowseTypeOK /\ search.step = "test" /\ search.step \in LoopSteps
      /\ UNCHANGED <<avahi, reader, clock, taken>>
  BY DEF BrowseInv, BrowseTest, LoopSteps
<1>2. /\ reader' \in ReaderRecords /\ taken' \in TakenRecords /\ taken' = taken
      /\ reader'.state = reader.state /\ clock \in 0..BrowseTimeout /\ SameMatches
  BY <1>1, BrowseTyped DEF SameMatches
<1>3. Waited' <=> Waited
  BY <1>1 DEF Waited
<1>4. CASE StopWith("Cancelled")
  BY <1>1, <1>2, <1>4, SearchNames, BrowseAssumption, Stops
<1>5. ASSUME NEW f \in SearchFailures, StopWith(CandidateOr(f)),
             search.candidate # "none" => Waited
      PROVE  BrowseInv'
  BY <1>1, <1>2, <1>3, <1>5, CandidateMayStop, Stops
<1>6. CASE SearchStep("receive")
  BY <1>1, <1>2, <1>6, LooksOn DEF LoopSteps
<1>7. CASE clock >= search.settle /\ StopWith(CandidateOr("NetworkUnavailable"))
  <2>1. search.candidate # "none" => Waited
    BY <1>1, <1>7 DEF BrowseInv, CandidateFits, Waited
  <2>2. QED BY <1>5, <1>7, <2>1, SearchNames
<1>8. CASE clock >= BrowseTimeout /\ StopWith(CandidateOr("TimedOut"))
  <2>1. Waited
    BY <1>2, <1>8, BrowseAssumption DEF Waited
  <2>2. QED BY <1>5, <1>8, <2>1, SearchNames
<1>9. QED BY <1>4, <1>6, <1>7, <1>8 DEF BrowseTest

(* A manual search settles on the service it saw.                             *)
LEMMA Settles ==
  ASSUME BrowseInv, search.step \in LoopSteps, search.unique,
         NEW e \in search.wanted, search.candidate \in {"none", e}, Settle(e),
         avahi' = avahi, clock' = clock, reader' \in ReaderRecords,
         reader'.state = reader.state, taken' \in TakenRecords,
         taken'.lines = taken.lines \cup {e}, taken'.last = clock
  PROVE  BrowseInv'
<1>1. /\ BrowseTypeOK /\ search \in SearchRecords /\ clock \in 0..BrowseTimeout
      /\ e \in Endpoints /\ "wait" \in SearchSteps
  BY BrowseTyped, SearchNames DEF BrowseInv, SearchRecords
<1>2. clock + SettleTime \in 0..Never /\ e # "none"
  BY <1>1, BrowseAssumption DEF Never
<1>3. /\ search' \in SearchRecords /\ search'.step = "wait" /\ search'.wanted = search.wanted
      /\ search'.unique = search.unique /\ search'.candidate = e
      /\ search'.settle = clock + SettleTime /\ search'.result = search.result
  BY <1>1, <1>2 DEF SearchRecords, Settle
<1>4. BrowseTypeOK'
  BY <1>1, <1>3, BrowseTyped, BrowseTypes
<1>5. BrowserFits'
  BY <1>3 DEF BrowseInv, BrowserFits, LoopSteps
<1>6. taken'.lines \cap search.wanted = {e}
  BY <1>2 DEF BrowseInv, CandidateFits
<1>7. CandidateFits' /\ ResultFits'
  BY <1>2, <1>3, <1>6 DEF BrowseInv, CandidateFits, ResultFits, EndSteps
<1>8. QED BY <1>4, <1>5, <1>7 DEF BrowseInv

(* An invalid service ends the search at once, its child runs on.             *)
LEMMA LeavesAtInvalid ==
  ASSUME BrowseInv, search.step \in LoopSteps, Conclude("NetworkUnavailable"),
         avahi' = avahi, clock' = clock, reader' \in ReaderRecords,
         taken' \in TakenRecords, "invalid" \in taken'.lines
  PROVE  BrowseInv'
<1>1. BrowseTypeOK /\ "NetworkUnavailable" \in SearchFailures
  BY SearchNames DEF BrowseInv
<1>2. /\ search' \in SearchRecords /\ search'.wanted = search.wanted
      /\ search'.unique = search.unique /\ search'.candidate = search.candidate
      /\ search'.result = "NetworkUnavailable"
  BY <1>1, StopWithUpdates
<1>3. search'.step = "idle"
  BY <1>1, BrowseTyped DEF Conclude, SearchRecords
<1>4. BrowseTypeOK'
  BY <1>1, <1>2, BrowseTyped, BrowseTypes
<1>5. BrowserFits'
  BY <1>3 DEF BrowserFits, LoopSteps
<1>6. CandidateFits' /\ ResultFits'
  BY <1>1, <1>2, <1>3, BrowseAssumption DEF BrowseInv, CandidateFits, ResultFits, LoopSteps
<1>7. QED BY <1>4, <1>5, <1>6 DEF BrowseInv

(* Taking a line from the reader keeps the invariant; the candidate is the
   only endpoint that was seen.                                              *)
LEMMA BrowseReceiveKeeps == BrowseInv /\ BrowseReceive => BrowseInv'
<1> SUFFICES ASSUME BrowseInv, BrowseReceive PROVE BrowseInv'
  OBVIOUS
<1>1. /\ BrowseTypeOK /\ search.step \in LoopSteps /\ avahi' = avahi /\ clock' = clock
      /\ search \in SearchRecords /\ reader \in ReaderRecords /\ taken \in TakenRecords
      /\ clock \in 0..BrowseTimeout
  BY BrowseTyped DEF BrowseInv, BrowseReceive, LoopSteps
<1>2. CASE reader.channel = <<>>
  <2>1. reader' = reader /\ taken' = taken /\ SameMatches /\ (Waited' <=> Waited)
    BY <1>1, <1>2 DEF BrowseReceive, SameMatches, Waited
  <2>2. CASE reader.state = "done"
    <3>1. Waited
      BY <1>1, <2>2 DEF BrowseInv, BrowserFits, Waited
    <3>2. StopWith(CandidateOr("NetworkUnavailable"))
      BY <1>2, <2>2 DEF BrowseReceive
    <3>3. QED BY <1>1, <2>1, <3>1, <3>2, SearchNames, CandidateMayStop, Stops
  <2>3. CASE reader.state # "done"
    <3>1. SearchStep("wait") /\ "wait" \in LoopSteps
      BY <1>2, <2>3 DEF BrowseReceive, LoopSteps
    <3>2. QED BY <1>1, <2>1, <3>1, LooksOn
  <2>4. QED BY <2>2, <2>3
<1>3. CASE reader.channel # <<>>
  <2> DEFINE line == Head(reader.channel)
  <2>1. reader.channel \in Seq(Lines) /\ line \in Lines
    BY <1>1, <1>3 DEF ReaderRecords
  <2>2. reader' \in ReaderRecords /\ reader'.state = reader.state
    <3>1. Tail(reader.channel) \in Seq(Lines)
      BY <1>3, <2>1, HeadTailProperties
    <3>2. reader' = [reader EXCEPT !.channel = Tail(reader.channel)]
      BY <1>3 DEF BrowseReceive
    <3>3. QED BY <1>1, <3>1, <3>2 DEF ReaderRecords
  <2>3. TakeLine(line)
    BY <1>3 DEF BrowseReceive
  <2>4. taken' = [lines |-> taken.lines \cup {line},
                  last |-> IF line \in search.wanted THEN clock ELSE taken.last]
    BY <1>3 DEF BrowseReceive
  <2> HIDE DEF line
  <2>5. /\ taken' \in TakenRecords /\ taken'.lines = taken.lines \cup {line}
        /\ taken'.last = IF line \in search.wanted THEN clock ELSE taken.last
    BY <1>1, <2>1, <2>4 DEF TakenRecords
  <2>6. search.wanted \subseteq Endpoints /\ "invalid" \notin search.wanted
    BY <1>1, BrowseAssumption DEF SearchRecords
  <2>7. CASE line \notin search.wanted \cup {"invalid"}
    <3>1. SearchStep("wait") /\ "wait" \in LoopSteps
      BY <2>3, <2>7 DEF TakeLine, LoopSteps
    <3>2. SameMatches
      BY <2>5, <2>7 DEF SameMatches
    <3>3. QED BY <1>1, <2>2, <2>5, <3>1, <3>2, LooksOn
  <2>8. CASE line = "invalid"
    <3>1. Conclude("NetworkUnavailable")
      BY <2>3, <2>6, <2>8 DEF TakeLine
    <3>2. QED BY <1>1, <2>2, <2>5, <2>8, <3>1, LeavesAtInvalid
  <2>9. CASE line \in search.wanted /\ ~search.unique
    <3>1. StopWith(line) /\ line \in Endpoints
      BY <2>3, <2>6, <2>9 DEF TakeLine
    <3>2. QED BY <1>1, <2>2, <2>5, <2>9, <3>1, Stops
  <2>10. CASE line \in search.wanted /\ search.unique
    <3>1. IF search.candidate \in {"none", line} THEN Settle(line)
          ELSE StopWith("NetworkUnavailable")
      BY <2>3, <2>6, <2>10 DEF TakeLine
    <3>2. CASE search.candidate \in {"none", line}
      BY <1>1, <2>2, <2>5, <2>10, <3>1, <3>2, Settles
    <3>3. CASE search.candidate \notin {"none", line}
      BY <1>1, <2>2, <2>5, <3>1, <3>3, SearchNames, BrowseAssumption, Stops
    <3>4. QED BY <3>2, <3>3
  <2>11. QED BY <2>7, <2>8, <2>9, <2>10
<1>4. QED BY <1>2, <1>3

(* try_wait and stop_child.                                                   *)
LEMMA BrowseEndKeeps ==
  ASSUME BrowseInv, BrowseWait \/ BrowseKill \/ BrowseReap
  PROVE  BrowseInv'
<1>1. /\ BrowseTypeOK /\ UNCHANGED <<reader, clock, taken>>
      /\ search \in SearchRecords /\ avahi \in AvahiRecords
      /\ reader' \in ReaderRecords /\ taken' \in TakenRecords /\ clock' \in 0..BrowseTimeout
  BY BrowseTyped DEF BrowseInv, BrowseWait, BrowseKill, BrowseReap
<1>2. \A s \in AvahiStates : /\ [avahi EXCEPT !.state = s] \in AvahiRecords
                             /\ [avahi EXCEPT !.state = s].state = s
                             /\ [avahi EXCEPT !.state = s].ended = avahi.ended
  BY <1>1 DEF AvahiRecords
<1>3. CASE BrowseWait /\ avahi.state = "exited"
  <2>1. /\ search.step \in LoopSteps /\ Conclude(CandidateOr("NetworkUnavailable"))
        /\ avahi' = [avahi EXCEPT !.state = "reaped"]
    BY <1>3 DEF BrowseWait, LoopSteps
  <2>2. Waited
    BY <1>3, <2>1 DEF BrowseInv, BrowserFits, Waited
  <2> DEFINE r == CandidateOr("NetworkUnavailable")
  <2>3. /\ r \in Endpoints \cup SearchFailures
        /\ r \in Endpoints => /\ r \in search.wanted
                              /\ search.unique => taken.lines \cap search.wanted = {r} /\ Waited
    BY <2>1, <2>2, SearchNames, CandidateMayStop
  <2> HIDE DEF r
  <2>4. /\ search' \in SearchRecords /\ search'.wanted = search.wanted
        /\ search'.unique = search.unique /\ search'.candidate = search.candidate
        /\ search'.result = r
    BY <1>1, <2>1, <2>3, StopWithUpdates DEF r
  <2>5. search'.step = "idle"
    BY <1>1, <2>1 DEF Conclude, SearchRecords
  <2>6. avahi' \in AvahiRecords /\ avahi'.state = "reaped" /\ avahi'.ended = avahi.ended
    BY <1>2, <2>1, SearchNames
  <2>7. BrowseTypeOK' /\ BrowserFits'
    BY <1>1, <2>4, <2>5, <2>6, BrowseTypes DEF BrowserFits, LoopSteps
  <2>8. CandidateFits' /\ ResultFits'
    BY <1>1, <2>3, <2>4, <2>5, <2>6, SearchNames
    DEF BrowseInv, CandidateFits, ResultFits, Waited, LoopSteps
  <2>9. QED BY <2>7, <2>8 DEF BrowseInv
<1>4. CASE BrowseWait /\ avahi.state # "exited"
  <2>1. /\ search.step \in LoopSteps /\ SearchStep("test") /\ avahi' = avahi
        /\ "test" \in LoopSteps /\ SameMatches
    BY <1>1, <1>4 DEF BrowseWait, LoopSteps, SameMatches
  <2>2. QED BY <1>1, <2>1, LooksOn
<1>5. CASE BrowseKill
  <2>1. /\ search' \in SearchRecords /\ search'.step = "reap" /\ search'.wanted = search.wanted
        /\ search'.unique = search.unique /\ search'.candidate = search.candidate
        /\ search'.result = search.result
    BY <1>1, <1>5, SearchNames, SearchStepUpdates DEF BrowseKill
  <2>2. search.step = "kill" /\ avahi.state \in {"running", "exited"}
    BY <1>5 DEF BrowseInv, BrowserFits, BrowseKill
  <2>3. /\ avahi' \in AvahiRecords /\ avahi'.state \in {"killed", "exited"}
        /\ avahi'.ended = avahi.ended
    BY <1>1, <1>2, <1>5, <2>2, SearchNames DEF BrowseKill
  <2>4. BrowseTypeOK' /\ BrowserFits'
    BY <1>1, <2>1, <2>3, BrowseTypes DEF BrowserFits, LoopSteps
  <2>5. CandidateFits' /\ ResultFits'
    BY <1>1, <2>1, <2>2, <2>3 DEF BrowseInv, CandidateFits, ResultFits, Waited, LoopSteps, EndSteps
  <2>6. QED BY <2>4, <2>5 DEF BrowseInv
<1>6. CASE BrowseReap
  <2>1. /\ search.step = "reap" /\ search' = [search EXCEPT !.step = "idle"]
        /\ avahi' = [avahi EXCEPT !.state = "reaped"]
    BY <1>1, <1>6 DEF BrowseReap, Conclude, SearchRecords
  <2>2. /\ search' \in SearchRecords /\ search'.step = "idle" /\ search'.wanted = search.wanted
        /\ search'.unique = search.unique /\ search'.candidate = search.candidate
        /\ search'.result = search.result
    BY <1>1, <2>1, SearchNames DEF SearchRecords
  <2>3. avahi' \in AvahiRecords /\ avahi'.state = "reaped" /\ avahi'.ended = avahi.ended
    BY <1>2, <2>1, SearchNames
  <2>4. BrowseTypeOK' /\ BrowserFits'
    BY <1>1, <2>2, <2>3, BrowseTypes DEF BrowserFits, LoopSteps
  <2>5. CandidateFits' /\ ResultFits'
    BY <1>1, <2>1, <2>2, <2>3 DEF BrowseInv, CandidateFits, ResultFits, Waited, LoopSteps, EndSteps
  <2>6. QED BY <2>4, <2>5 DEF BrowseInv
<1>7. QED BY <1>3, <1>4, <1>5, <1>6

(* Every step of the searching thread keeps the invariant.                   *)
LEMMA SearcherKeeps ==
  ASSUME BrowseInv, NEW cancelled \in BOOLEAN, Searcher(cancelled)
  PROVE  BrowseInv'
BY BrowseBeginKeeps, BrowseTestKeeps, BrowseReceiveKeeps, BrowseEndKeeps DEF Searcher

-----------------------------------------------------------------------------
(* The reader, avahi-browse and the clock leave the search's record alone.    *)
LEMMA AroundTheSearch ==
  ASSUME BrowseInv, search' = search, taken' = taken, avahi' \in AvahiRecords,
         reader' \in ReaderRecords, clock' \in 0..BrowseTimeout, clock <= clock',
         avahi.ended => avahi'.ended, BrowserFits'
  PROVE  BrowseInv'
<1>1. /\ search \in SearchRecords /\ taken \in TakenRecords /\ clock \in 0..BrowseTimeout
      /\ taken.last \in Nat
  BY BrowseTyped DEF BrowseInv, TakenRecords
<1>2. BrowseTypeOK'
  BY <1>1, BrowseTypes
<1>3. Waited => Waited'
  BY <1>1, BrowseAssumption DEF Waited
<1>4. CandidateFits' /\ ResultFits'
  BY <1>3 DEF BrowseInv, CandidateFits, ResultFits
<1>5. QED BY <1>2, <1>4 DEF BrowseInv

(* Every step of the reader thread keeps the invariant.                      *)
LEMMA ReaderKeeps == BrowseInv /\ Reader => BrowseInv'
<1> SUFFICES ASSUME BrowseInv, Reader PROVE BrowseInv'
  OBVIOUS
<1>1. /\ search' = search /\ taken' = taken /\ clock' = clock /\ clock \in 0..BrowseTimeout
      /\ avahi \in AvahiRecords /\ reader \in ReaderRecords /\ reader.state = "reading"
      /\ clock <= clock /\ search.step \in SearchSteps
  BY BrowseTyped DEF BrowseInv, Reader, Forward, EndOfLines, SearchRecords
<1>2. CASE Forward
  <2>1. avahi.out \in Seq(Lines) /\ avahi.out # <<>> /\ reader.channel \in Seq(Lines)
    BY <1>1, <1>2 DEF Forward, AvahiRecords, ReaderRecords
  <2>2. Tail(avahi.out) \in Seq(Lines) /\ Head(avahi.out) \in Lines
    BY <2>1, HeadTailProperties
  <2>3. avahi' = [avahi EXCEPT !.out = Tail(avahi.out)]
    BY <1>2 DEF Forward
  <2>4. /\ avahi' \in AvahiRecords /\ avahi'.state = avahi.state
        /\ avahi'.ended = avahi.ended
    BY <1>1, <2>2, <2>3 DEF AvahiRecords
  <2>5. CASE Searching
    <3>1. Append(reader.channel, Head(avahi.out)) \in Seq(Lines)
      BY <2>1, <2>2, AppendProperties
    <3>2. reader' = [reader EXCEPT !.channel = Append(reader.channel, Head(avahi.out))]
      BY <1>2, <2>5 DEF Forward
    <3>3. reader' \in ReaderRecords /\ reader'.state = reader.state
      BY <1>1, <3>1, <3>2 DEF ReaderRecords
    <3>4. BrowserFits'
      BY <1>1, <2>4, <3>3 DEF BrowseInv, BrowserFits
    <3>5. QED BY <1>1, <2>4, <3>3, <3>4, AroundTheSearch
  <2>6. CASE ~Searching
    <3>1. reader' = [reader EXCEPT !.state = "done"]
      BY <1>2, <2>6 DEF Forward
    <3>2. reader' \in ReaderRecords
      BY <1>1, <3>1, SearchNames DEF ReaderRecords
    <3>3. BrowserFits'
      BY <1>1, <2>4, <2>6 DEF BrowseInv, BrowserFits, Searching, LoopSteps
    <3>4. QED BY <1>1, <2>4, <3>2, <3>3, AroundTheSearch
  <2>7. QED BY <2>5, <2>6
<1>3. CASE EndOfLines
  <2>1. avahi' = avahi /\ avahi.state \in {"exited", "reaped"}
    BY <1>3 DEF EndOfLines
  <2>2. reader' \in ReaderRecords /\ reader'.state = "done"
    BY <1>1, <1>3, SearchNames DEF ReaderRecords, EndOfLines
  <2>3. BrowserFits'
    BY <1>1, <2>1, <2>2 DEF BrowseInv, BrowserFits
  <2>4. QED BY <1>1, <2>1, <2>2, <2>3, AroundTheSearch
<1>4. QED BY <1>2, <1>3 DEF Reader

(* avahi-browse and the clock keep the invariant.                            *)
LEMMA EnvironmentKeeps == BrowseInv /\ BrowseEnvironment => BrowseInv'
<1> SUFFICES ASSUME BrowseInv, BrowseEnvironment PROVE BrowseInv'
  OBVIOUS
<1>1. /\ search' = search /\ taken' = taken /\ reader' = reader /\ clock \in 0..BrowseTimeout
      /\ avahi \in AvahiRecords /\ reader \in ReaderRecords
      /\ clock <= clock
  <2>1. search' = search /\ taken' = taken /\ reader' = reader
    BY DEF BrowseEnvironment, AvahiPrints, AvahiExits, AvahiDies, Tick
  <2>2. clock \in 0..BrowseTimeout /\ avahi \in AvahiRecords /\ reader \in ReaderRecords
    BY BrowseTyped DEF BrowseInv
  <2>3. clock <= clock
    BY <2>2, BrowseAssumption
  <2>4. QED BY <2>1, <2>2, <2>3
<1>2. ASSUME NEW line \in Lines, AvahiPrints(line), reader.state # "done" PROVE BrowseInv'
  <2>1. Append(avahi.out, line) \in Seq(Lines) /\ avahi.printed + 1 \in 0..MaxLines
    BY <1>1, <1>2, AppendProperties, BrowseAssumption DEF AvahiRecords, AvahiPrints
  <2>2. avahi' = [avahi EXCEPT !.out = Append(avahi.out, line), !.printed = avahi.printed + 1]
    BY <1>2 DEF AvahiPrints
  <2>3. avahi' \in AvahiRecords /\ avahi'.state = avahi.state /\ avahi'.ended = avahi.ended
    BY <1>1, <2>1, <2>2 DEF AvahiRecords
  <2>4. BrowserFits'
    BY <1>1, <2>3 DEF BrowseInv, BrowserFits
  <2>5. clock' = clock
    BY <1>2 DEF AvahiPrints
  <2>6. QED BY <1>1, <2>3, <2>4, <2>5, AroundTheSearch
<1>3. CASE /\ avahi.state = "running" /\ clock' = clock
           /\ avahi' = [avahi EXCEPT !.state = "exited", !.ended = TRUE]
  <2>1. avahi' \in AvahiRecords /\ avahi'.state = "exited" /\ avahi'.ended
    BY <1>1, <1>3, SearchNames DEF AvahiRecords
  <2>2. BrowserFits'
    BY <1>1, <1>3, <2>1 DEF BrowseInv, BrowserFits
  <2>3. QED BY <1>1, <1>3, <2>1, <2>2, AroundTheSearch
<1>4. CASE AvahiDies
  <2>1. avahi' \in AvahiRecords /\ avahi'.state = "exited" /\ avahi'.ended = avahi.ended
    BY <1>1, <1>4, SearchNames DEF AvahiRecords, AvahiDies
  <2>2. avahi.state = "killed" /\ clock' = clock
    BY <1>4 DEF AvahiDies
  <2>3. BrowserFits'
    BY <1>1, <2>1, <2>2 DEF BrowseInv, BrowserFits
  <2>4. QED BY <1>1, <2>1, <2>2, <2>3, AroundTheSearch
<1>5. CASE Tick
  <2>1. clock' \in 0..BrowseTimeout /\ clock <= clock' /\ avahi' = avahi
    BY <1>1, <1>5, BrowseAssumption DEF Tick
  <2>2. BrowserFits'
    BY <1>1, <2>1 DEF BrowseInv, BrowserFits
  <2>3. QED BY <1>1, <2>1, <2>2, AroundTheSearch
<1>6. ASSUME NEW line \in Lines, AvahiPrints(line) PROVE BrowseInv'
  BY <1>2, <1>3, <1>6 DEF AvahiPrints
<1>7. QED BY <1>3, <1>4, <1>5, <1>6 DEF BrowseEnvironment, AvahiExits

-----------------------------------------------------------------------------
(* No search: nothing was printed or taken, the last result may be there.     *)
Quiet == search.step = "idle" /\ avahi = NoAvahi /\ reader = NoReader /\ taken = NoneTaken

(* What the variables of a search hold when there is none is typed.          *)
LEMMA NothingTyped ==
  /\ NoAvahi \in AvahiRecords /\ NoReader \in ReaderRecords /\ NoneTaken \in TakenRecords
  /\ NoSearch \in SearchRecords /\ 0 \in 0..BrowseTimeout
<1>1. 0 \in 0..BrowseTimeout /\ 0 \in 0..MaxLines /\ Never \in 0..Never
  BY BrowseAssumption DEF Never
<1>2. NoAvahi \in AvahiRecords /\ NoReader \in ReaderRecords
  BY <1>1, SearchNames DEF NoAvahi, NoReader, AvahiRecords, ReaderRecords
<1>3. NoneTaken \in TakenRecords
  BY <1>1 DEF NoneTaken, TakenRecords
<1>4. NoSearch \in SearchRecords
  BY <1>1, SearchNames DEF NoSearch, SearchRecords
<1>5. QED BY <1>1, <1>2, <1>3, <1>4

(* Before the first search the invariant holds and nothing is running.       *)
LEMMA BrowseInitKeeps == BrowseInit => BrowseInv /\ Quiet /\ search.result = "none"
<1> SUFFICES ASSUME BrowseInit PROVE BrowseInv /\ Quiet /\ search.result = "none"
  OBVIOUS
<1>1. /\ search = NoSearch /\ avahi = NoAvahi /\ reader = NoReader /\ clock = 0
      /\ taken = NoneTaken
  BY DEF BrowseInit
<1>2. BrowseTypeOK
  BY <1>1, NothingTyped
     DEF BrowseTypeOK, SearchRecords, AvahiRecords, ReaderRecords, TakenRecords
<1>3. /\ search.step = "idle" /\ search.result = "none" /\ search.candidate = "none"
      /\ search.wanted = {}
  BY <1>1 DEF NoSearch
<1>4. BrowserFits /\ CandidateFits /\ ResultFits
  BY <1>1, <1>3, BrowseAssumption
     DEF BrowserFits, CandidateFits, ResultFits, NoAvahi, LoopSteps
<1>5. QED BY <1>1, <1>2, <1>3, <1>4 DEF BrowseInv, Quiet

(* A search is begun where there is none ...                                  *)
LEMMA BrowseForKeeps ==
  ASSUME BrowseInv, Quiet, NEW wanted \in SUBSET Endpoints, NEW unique \in BOOLEAN,
         BrowseFor(wanted, unique)
  PROVE  BrowseInv' /\ search'.step = "begin" /\ search'.wanted = wanted
<1>1. UNCHANGED <<avahi, reader, clock, taken>>
  BY DEF BrowseFor
<1>2. /\ search' \in SearchRecords /\ search'.step = "begin" /\ search'.wanted = wanted
      /\ search'.candidate = "none" /\ search'.settle = Never /\ search'.result = "none"
  <2>1. NoSearch \in SearchRecords /\ "begin" \in SearchSteps
    BY NothingTyped, SearchNames
  <2>2. search' = [NoSearch EXCEPT !.step = "begin", !.wanted = wanted, !.unique = unique]
    BY DEF BrowseFor
  <2>3. NoSearch.candidate = "none" /\ NoSearch.settle = Never /\ NoSearch.result = "none"
    BY DEF NoSearch
  <2> HIDE DEF NoSearch
  <2>4. QED BY <2>1, <2>2, <2>3 DEF SearchRecords
<1>3. BrowseTypeOK'
  BY <1>1, <1>2, BrowseTyped, BrowseTypes DEF BrowseInv
<1>4. BrowserFits' /\ CandidateFits' /\ ResultFits'
  BY <1>1, <1>2 DEF Quiet, BrowserFits, CandidateFits, ResultFits, NoAvahi, NoReader, NoneTaken,
     LoopSteps, EndSteps
<1>5. QED BY <1>2, <1>3, <1>4 DEF BrowseInv

(* ... and leaves none behind when its result is taken.                       *)
LEMMA BrowseDoneKeeps ==
  ASSUME BrowseInv, BrowseDone
  PROVE  BrowseInv' /\ Quiet' /\ search'.result = search.result
<1>1. /\ avahi' = NoAvahi /\ reader' = NoReader /\ clock' = 0 /\ taken' = NoneTaken
  BY DEF BrowseDone
<1>2. search.result \in Endpoints \cup SearchFailures \cup {"none"}
  BY BrowseTyped DEF BrowseInv, SearchRecords
<1>3. /\ search' \in SearchRecords /\ search'.step = "idle" /\ search'.wanted = {}
      /\ search'.unique = FALSE /\ search'.candidate = "none" /\ search'.result = search.result
  <2>1. NoSearch \in SearchRecords
    BY NothingTyped
  <2>2. search' = [NoSearch EXCEPT !.result = search.result]
    BY DEF BrowseDone
  <2>3. /\ NoSearch.candidate = "none" /\ NoSearch.wanted = {} /\ NoSearch.unique = FALSE
        /\ NoSearch.step = "idle"
    BY DEF NoSearch
  <2> HIDE DEF NoSearch
  <2>4. QED BY <1>2, <2>1, <2>2, <2>3 DEF SearchRecords
<1>4. BrowseTypeOK'
  BY <1>1, <1>3, NothingTyped, BrowseTypes
<1>5. BrowserFits' /\ CandidateFits' /\ ResultFits'
  BY <1>1, <1>3 DEF BrowserFits, CandidateFits, ResultFits, NoAvahi, LoopSteps
<1>6. QED BY <1>1, <1>3, <1>4, <1>5 DEF BrowseInv, Quiet

(* What the runs check of a search.                                           *)
LEMMA BrowsePromises == BrowseInv => UnambiguousMatch /\ StopsItsBrowser
<1> SUFFICES ASSUME BrowseInv PROVE UnambiguousMatch /\ StopsItsBrowser
  OBVIOUS
<1>1. UnambiguousMatch
  BY DEF BrowseInv, ResultFits, Waited, EndSteps, UnambiguousMatch
<1>2. StopsItsBrowser
  BY DEF BrowseInv, BrowserFits, StopsItsBrowser
<1>3. QED BY <1>1, <1>2

-----------------------------------------------------------------------------
(* The whole flow.                                                            *)

FlowRecords == [step: FlowSteps, method: Methods, endpoint: Endpoints \cup {NoEndpoint}]
WorkingSteps == {"start", "find", "pair", "associate", "connect"}
CommandSteps == {"pair", "connect"}

(* A search exists only while the flow waits for it; what a step of the flow  *)
(* goes on with is the result of the call before it.                          *)
CallsFit ==
  /\ flow.step \notin {"find", "associate"} => Quiet
  /\ flow.step = "associate" => search.wanted = {flow.endpoint}
  /\ flow.step \in CommandSteps =>
       /\ run.request = flow.step
       /\ run.step = "idle" => run.result \in Failures \cup {"Succeeded", "Failed"}

(* The endpoint that was paired is the one that is looked for, connected to   *)
(* and remembered.                                                            *)
EndpointFits ==
  /\ flow.step \in {"pair", "associate", "connect"} => flow.endpoint \in Endpoints
  /\ flow.step \in {"pair", "associate"} => flow.method # "reconnect"
  /\ flow.step = "connect" =>
       /\ search.result = flow.endpoint
       /\ flow.method # "reconnect" => discovered = flow.endpoint
  /\ flow.step # "done" => target = NoEndpoint

(* What was told before the end.                                              *)
Before ==
  IF flow.method = "qr" /\ flow.step \in {"pair", "associate", "connect"} THEN <<"Pairing">>
  ELSE <<>>
ToldFits ==
  /\ flow.step # "done" => told = Before
  /\ told \in Seq(FlowEvents) /\ Len(told) \in 0..2

RecordsTyped ==
  /\ flow \in FlowRecords
  /\ discovered \in Endpoints \cup {NoEndpoint}
  /\ paired \in Endpoints \cup {NoEndpoint}
  /\ target \in Endpoints \cup {NoEndpoint}
  /\ helper \in {"running", "gone"}

FlowInv ==
  /\ CommandInv /\ BrowseInv /\ RecordsTyped
  /\ CallsFit /\ EndpointFits /\ ToldFits /\ SavesThePairedPhone

-----------------------------------------------------------------------------
(* How the names of steps, requests and failures lie towards one another.    *)
LEMMA FlowNames ==
  /\ {"idle", "start", "find", "pair", "associate", "connect", "done"} \subseteq FlowSteps
  /\ FlowSteps = WorkingSteps \cup {"idle", "done"}
  /\ {"pair", "connect"} \subseteq Requests
  /\ ~Captures("pair") /\ ~Captures("connect")
  /\ NoEndpoint \notin Endpoints /\ Endpoints \cap SearchFailures = {}
BY BrowseAssumption DEF FlowSteps, WorkingSteps, Requests, Captures, NoEndpoint

(* Moving on to another step.                                                 *)
LEMMA FlowStepUpdates ==
  ASSUME RecordsTyped, NEW s \in FlowSteps, FlowStep(s)
  PROVE  /\ flow' \in FlowRecords /\ flow'.step = s /\ flow'.method = flow.method
         /\ flow'.endpoint = flow.endpoint
BY DEF RecordsTyped, FlowRecords, FlowStep

(* The failures a flow may tell.                                              *)
LEMMA FailuresPromised ==
  /\ \A f \in SearchFailures : ConnectionFailure(f) \in PairingPromise!Failures(flow.method)
  /\ flow.method \in {"qr", "manual"} =>
       \A f \in SearchFailures : DiscoveryFailure(f) \in PairingPromise!Failures(flow.method)
  /\ \A f \in Failures : CommandFailure(f) \in PairingPromise!Failures(flow.method)
  /\ {"PairingCancelled", "Disconnected"} \subseteq PairingPromise!Failures(flow.method)
  /\ flow.method \in {"qr", "manual"} =>
       "PairingRejected" \in PairingPromise!Failures(flow.method)
  /\ \A f \in PairingPromise!Failures(flow.method) :
       f \in FlowEvents /\ f \notin {"Paired", "Connected", "Pairing"}
<1>1. \A f \in SearchFailures : ConnectionFailure(f) \in PairingPromise!Failures(flow.method)
  BY DEF SearchFailures, ConnectionFailure, PairingPromise!Failures
<1>2. ASSUME flow.method \in {"qr", "manual"}
      PROVE  \A f \in SearchFailures :
               DiscoveryFailure(f) \in PairingPromise!Failures(flow.method)
  <2>1. CASE flow.method = "qr"
    BY <2>1 DEF SearchFailures, DiscoveryFailure, PairingPromise!Failures
  <2>2. CASE flow.method = "manual"
    BY <2>2 DEF SearchFailures, DiscoveryFailure, PairingPromise!Failures
  <2>3. QED BY <1>2, <2>1, <2>2
<1>3. /\ \A f \in Failures : CommandFailure(f) \in PairingPromise!Failures(flow.method)
      /\ {"PairingCancelled", "Disconnected"} \subseteq PairingPromise!Failures(flow.method)
      /\ flow.method \in {"qr", "manual"} =>
           "PairingRejected" \in PairingPromise!Failures(flow.method)
  BY DEF Failures, CommandFailure, PairingPromise!Failures
<1>4. \A f \in PairingPromise!Failures(flow.method) :
        f \in FlowEvents /\ f \notin {"Paired", "Connected", "Pairing"}
  BY DEF PairingPromise!Failures, FlowEvents
<1>5. QED BY <1>1, <1>2, <1>3, <1>4

(* Telling the last event.                                                    *)
LEMMA ToldAtEnd ==
  ASSUME FlowInv, flow.step \in WorkingSteps, NEW e \in FlowEvents, End(e)
  PROVE  /\ flow' \in FlowRecords /\ flow'.step = "done" /\ flow'.method = flow.method
         /\ flow'.endpoint = flow.endpoint
         /\ ToldFits' /\ told'[Len(told')] = e
<1>1. RecordsTyped /\ "done" \in FlowSteps
  BY FlowNames DEF FlowInv
<1>2. /\ flow' \in FlowRecords /\ flow'.step = "done" /\ flow'.method = flow.method
      /\ flow'.endpoint = flow.endpoint
  BY <1>1, FlowStepUpdates DEF End
<1>3. told \in Seq(FlowEvents) /\ Len(told) \in 0..1
  <2>1. told = <<>> \/ told = <<"Pairing">>
    BY DEF FlowInv, ToldFits, Before, WorkingSteps
  <2>2. Len(<<>>) = 0 /\ Len(<<"Pairing">>) = 1
    OBVIOUS
  <2>3. QED BY <2>1, <2>2 DEF FlowInv, ToldFits
<1>4. told' = Append(told, e)
  BY DEF End, Tell
<1>5. /\ told' \in Seq(FlowEvents) /\ Len(told') = Len(told) + 1
      /\ told'[Len(told) + 1] = e
  <2>1. told \in Seq(FlowEvents)
    BY <1>3
  <2>2. /\ Append(told, e) \in Seq(FlowEvents) /\ Len(Append(told, e)) = Len(told) + 1
        /\ Append(told, e)[Len(told) + 1] = e
    BY <2>1, AppendProperties
  <2>3. QED BY <1>4, <2>2
<1>6. told'[Len(told')] = e
  BY <1>5
<1>7. Len(told') \in 0..2
  <2>1. \A n \in 0..1 : n + 1 \in 0..2
    OBVIOUS
  <2>2. QED BY <1>3, <1>5, <2>1
<1>8. QED BY <1>2, <1>5, <1>6, <1>7 DEF ToldFits

(* A flow that ends without a phone.                                          *)
LEMMA EndsInFailure ==
  ASSUME FlowInv, flow.step \in WorkingSteps,
         NEW e \in PairingPromise!Failures(flow.method), End(e),
         CommandInv', BrowseInv', Quiet',
         discovered' \in Endpoints \cup {NoEndpoint}, UNCHANGED <<paired, target, helper>>
  PROVE  FlowInv'
<1>1. e \in FlowEvents /\ e # "Paired"
  BY FailuresPromised
<1>2. /\ flow' \in FlowRecords /\ flow'.step = "done" /\ ToldFits' /\ told'[Len(told')] = e
  BY <1>1, ToldAtEnd
<1>3. RecordsTyped'
  BY <1>2 DEF FlowInv, RecordsTyped
<1>4. CallsFit' /\ EndpointFits' /\ SavesThePairedPhone'
  BY <1>1, <1>2 DEF CallsFit, EndpointFits, SavesThePairedPhone, CommandSteps
<1>5. QED BY <1>2, <1>3, <1>4 DEF FlowInv

(* What a step of the flow leaves alone.                                      *)
LEMMA CommandLeft == CommandInv /\ UNCHANGED commandVars => CommandInv'
BY NextInv

(* A step that leaves the search alone keeps its invariant.                  *)
LEMMA BrowseLeft ==
  ASSUME BrowseInv, UNCHANGED browseVars
  PROVE  BrowseInv' /\ (Quiet => Quiet')
<1>1. search' = search /\ avahi' = avahi /\ reader' = reader /\ clock' = clock /\ taken' = taken
  BY DEF browseVars
<1>2. clock \in 0..BrowseTimeout /\ avahi \in AvahiRecords /\ reader \in ReaderRecords
  BY BrowseTyped DEF BrowseInv
<1>3. clock <= clock
  BY <1>2, BrowseAssumption
<1>4. BrowserFits'
  BY <1>1 DEF BrowseInv, BrowserFits
<1>5. QED BY <1>1, <1>2, <1>3, <1>4, AroundTheSearch DEF Quiet

(* A flow that goes on: told is what it was before, or "Pairing" more.        *)
LEMMA GoesOn ==
  ASSUME CommandInv', BrowseInv', RecordsTyped', CallsFit', EndpointFits',
         flow'.step # "done", told' = Before'
  PROVE  FlowInv'
<1>1. told' \in Seq(FlowEvents) /\ Len(told') \in 0..2
  <2>1. told' = <<>> \/ told' = <<"Pairing">>
    BY DEF Before
  <2>2. "Pairing" \in FlowEvents
    BY DEF FlowEvents
  <2>3. /\ <<>> \in Seq(FlowEvents) /\ <<"Pairing">> \in Seq(FlowEvents)
        /\ Len(<<>>) = 0 /\ Len(<<"Pairing">>) = 1
    BY <2>2
  <2>4. 0 \in 0..2 /\ 1 \in 0..2
    OBVIOUS
  <2>5. CASE told' = <<>> BY <2>3, <2>4, <2>5
  <2>6. CASE told' = <<"Pairing">> BY <2>3, <2>4, <2>6
  <2>7. QED BY <2>1, <2>5, <2>6
<1>2. ToldFits' /\ SavesThePairedPhone'
  BY <1>1 DEF ToldFits, SavesThePairedPhone
<1>3. QED BY <1>2 DEF FlowInv

-----------------------------------------------------------------------------
(* A flow that begins keeps the invariant.                                   *)
LEMMA FlowBeginKeeps == ASSUME FlowInv, NEW m \in Methods, FlowBegin(m) PROVE FlowInv'
<1>1. /\ CommandInv /\ BrowseInv /\ RecordsTyped /\ flow.step = "idle" /\ run.step = "idle"
      /\ Quiet /\ run \in RunRecords
  BY DEF FlowInv, CallsFit, FlowBegin, CommandInv, CommandTypeOK, RunRecords
<1>2. /\ flow' \in FlowRecords /\ flow'.step = "start"
  <2>1. flow' = [step |-> "start", method |-> m, endpoint |-> NoEndpoint]
    BY DEF FlowBegin
  <2>2. "start" \in FlowSteps
    BY FlowNames
  <2>3. QED BY <2>1, <2>2 DEF FlowRecords
<1>3. CommandInv'
  <2>1. run' \in RunRecords /\ run'.step = "idle" /\ run'.result = "None"
    BY <1>1 DEF FlowBegin, RunRecords
  <2>2. /\ child' = NoChild /\ stream' = NoOutput /\ flag' \in BOOLEAN
        /\ expired' \in BOOLEAN
    BY DEF FlowBegin
  <2>3. QED BY <1>1, <2>1, <2>2, StartsAnew
<1>4. BrowseInv' /\ Quiet'
  BY <1>1, BrowseLeft DEF FlowBegin
<1>5. RecordsTyped' /\ told' = <<>> /\ target' = NoEndpoint
  BY <1>1, <1>2 DEF FlowBegin, RecordsTyped
<1>6. CallsFit' /\ EndpointFits' /\ told' = Before'
  BY <1>2, <1>4, <1>5 DEF CallsFit, EndpointFits, Before, CommandSteps
<1>7. QED BY <1>2, <1>3, <1>4, <1>5, <1>6, GoesOn

(* The first step of a flow, a search or a command, keeps the invariant.     *)
LEMMA FlowStartKeeps == FlowInv /\ FlowStart => FlowInv'
<1> SUFFICES ASSUME FlowInv, FlowStart PROVE FlowInv'
  OBVIOUS
<1>1. /\ CommandInv /\ BrowseInv /\ RecordsTyped /\ flow.step = "start" /\ Quiet
      /\ UNCHANGED <<commandVars, discovered, paired, target, helper>>
      /\ flow.step \in WorkingSteps
  BY DEF FlowInv, CallsFit, FlowStart, WorkingSteps, results
<1>2. CommandInv'
  BY <1>1, CommandLeft
<1>3. CASE flag
  <2>1. End("PairingCancelled") /\ UNCHANGED browseVars
    BY <1>3 DEF FlowStart
  <2>2. discovered' \in Endpoints \cup {NoEndpoint}
    BY <1>1 DEF RecordsTyped
  <2>3. BrowseInv' /\ Quiet'
    BY <1>1, <2>1, BrowseLeft
  <2>4. QED BY <1>1, <1>2, <2>1, <2>2, <2>3, FailuresPromised, EndsInFailure
<1>4. CASE ~flag
  <2>1. BrowseFor(Endpoints, flow.method = "manual") /\ FlowStep("find") /\ told' = told
    BY <1>4 DEF FlowStart
  <2>2. /\ flow' \in FlowRecords /\ flow'.step = "find" /\ flow'.method = flow.method
    BY <1>1, <2>1, FlowNames, FlowStepUpdates
  <2>3. BrowseInv'
    BY <1>1, <2>1, BrowseForKeeps
  <2>4. RecordsTyped' /\ target' = NoEndpoint /\ told' = <<>>
    BY <1>1, <2>1, <2>2 DEF FlowInv, RecordsTyped, EndpointFits, ToldFits, Before
  <2>5. CallsFit' /\ EndpointFits' /\ told' = Before'
    BY <2>2, <2>4 DEF CallsFit, EndpointFits, Before, CommandSteps
  <2>6. QED BY <1>2, <2>2, <2>3, <2>4, <2>5, GoesOn
<1>5. QED BY <1>3, <1>4

(* Taking the result of a search keeps the invariant.                        *)
LEMMA FlowFindKeeps == FlowInv /\ FlowFind => FlowInv'
<1> SUFFICES ASSUME FlowInv, FlowFind PROVE FlowInv'
  OBVIOUS
<1>1. /\ CommandInv /\ BrowseInv /\ RecordsTyped /\ flow.step = "find"
      /\ UNCHANGED <<discovered, paired, target, helper>> /\ flow \in FlowRecords
      /\ flow.step \in WorkingSteps /\ BrowseDone /\ flow.method \in Methods
  BY DEF FlowInv, FlowFind, WorkingSteps, results, RecordsTyped, FlowRecords
<1>2. BrowseInv' /\ Quiet' /\ search'.result = search.result
  BY <1>1, BrowseDoneKeeps
<1>3. discovered' \in Endpoints \cup {NoEndpoint}
  BY <1>1 DEF RecordsTyped
<1>4. CASE search.result \in SearchFailures
  <2> DEFINE e == IF flow.method = "reconnect" THEN ConnectionFailure(search.result)
                  ELSE DiscoveryFailure(search.result)
  <2>1. End(e) /\ UNCHANGED commandVars
    BY <1>4, FlowNames DEF FlowFind
  <2>2. e \in PairingPromise!Failures(flow.method)
    BY <1>1, <1>4, FailuresPromised DEF Methods
  <2> HIDE DEF e
  <2>3. QED BY <1>1, <1>2, <1>3, <2>1, <2>2, CommandLeft, EndsInFailure
<1>5. CASE search.result \in Endpoints /\ flag
  <2>1. End("PairingCancelled") /\ UNCHANGED commandVars
    BY <1>5, FlowNames DEF FlowFind
  <2>2. QED BY <1>1, <1>2, <1>3, <2>1, FailuresPromised, CommandLeft, EndsInFailure
<1>6. CASE search.result \in Endpoints /\ ~flag
  <2> DEFINE r == IF flow.method = "reconnect" THEN "connect" ELSE "pair"
  <2>1. /\ flow' = [flow EXCEPT !.step = r, !.endpoint = search.result] /\ Ask(r)
        /\ flag' = flag
        /\ IF flow.method = "qr" THEN Tell("Pairing") ELSE told' = told
    BY <1>6, FlowNames DEF FlowFind
  <2>2. r \in Requests /\ r \in FlowSteps /\ r \in {"connect", "pair"}
    BY FlowNames
  <2>3. r = "connect" <=> flow.method = "reconnect"
    OBVIOUS
  <2> HIDE DEF r
  <2>4. /\ flow' \in FlowRecords /\ flow'.step = r /\ flow'.method = flow.method
        /\ flow'.endpoint = search.result
    BY <1>1, <1>6, <2>1, <2>2 DEF FlowRecords
  <2>5. CommandInv' /\ run'.step = "begin" /\ run'.request = r
    <3>1. flag' \in BOOLEAN
      BY <1>1, <2>1 DEF CommandInv, CommandTypeOK
    <3>2. QED BY <1>1, <2>1, <2>2, <3>1, AskKeepsInv
  <2>6. RecordsTyped' /\ target' = NoEndpoint
    BY <1>1, <2>4 DEF FlowInv, RecordsTyped, EndpointFits
  <2>7. told' = Before'
    <3>1. told = <<>>
      BY <1>1 DEF FlowInv, ToldFits, Before
    <3>2. Append(<<>>, "Pairing") = <<"Pairing">>
      OBVIOUS
    <3>3. told' = IF flow.method = "qr" THEN <<"Pairing">> ELSE <<>>
      BY <2>1, <3>1, <3>2 DEF Tell
    <3>4. flow.method = "qr" => r = "pair"
      BY <2>2, <2>3
    <3>5. QED BY <2>2, <2>4, <3>3, <3>4 DEF Before
  <2>8. CallsFit' /\ EndpointFits'
    BY <1>2, <1>6, <2>2, <2>3, <2>4, <2>5, <2>6 DEF CallsFit, EndpointFits, CommandSteps
  <2>9. flow'.step # "done"
    BY <2>2, <2>4
  <2>10. QED BY <1>2, <2>5, <2>6, <2>7, <2>8, <2>9, GoesOn
<1>7. QED BY <1>4, <1>5, <1>6 DEF FlowFind

(* Taking the result of adb pair keeps the invariant.                        *)
LEMMA FlowPairedKeeps == FlowInv /\ FlowPaired => FlowInv'
<1> SUFFICES ASSUME FlowInv, FlowPaired PROVE FlowInv'
  OBVIOUS
<1>1. /\ CommandInv /\ BrowseInv /\ RecordsTyped /\ flow.step = "pair" /\ Quiet
      /\ UNCHANGED <<commandVars, discovered, paired, target, helper>>
      /\ flow.step \in WorkingSteps /\ flow.method \in Methods /\ flow.method # "reconnect"
      /\ flow.endpoint \in Endpoints
      /\ run.result \in Failures \cup {"Succeeded", "Failed"}
  BY DEF FlowInv, CallsFit, EndpointFits, FlowPaired, WorkingSteps, CommandSteps, results,
     RecordsTyped, FlowRecords
<1>2. CommandInv' /\ discovered' \in Endpoints \cup {NoEndpoint}
  BY <1>1, CommandLeft DEF RecordsTyped
<1>3. {"Succeeded", "Failed"} \cap Failures = {} /\ flow.method \in {"qr", "manual"}
  BY <1>1 DEF Failures, Methods
<1>4. ASSUME NEW e \in PairingPromise!Failures(flow.method), End(e), UNCHANGED browseVars
      PROVE  FlowInv'
  BY <1>1, <1>2, <1>4, BrowseLeft, EndsInFailure
<1>5. CASE run.result \in Failures
  BY <1>1, <1>3, <1>4, <1>5, FailuresPromised DEF FlowPaired
<1>6. CASE run.result \notin Failures /\ flag
  BY <1>1, <1>3, <1>4, <1>6, FailuresPromised DEF FlowPaired
<1>7. CASE run.result = "Failed" /\ ~flag
  BY <1>1, <1>3, <1>4, <1>7, FailuresPromised DEF FlowPaired
<1>8. CASE run.result = "Succeeded" /\ ~flag
  <2>1. BrowseFor({flow.endpoint}, FALSE) /\ FlowStep("associate") /\ told' = told
    BY <1>3, <1>8 DEF FlowPaired
  <2>2. /\ flow' \in FlowRecords /\ flow'.step = "associate" /\ flow'.method = flow.method
        /\ flow'.endpoint = flow.endpoint
    BY <1>1, <2>1, FlowNames, FlowStepUpdates
  <2>3. BrowseInv' /\ search'.wanted = {flow.endpoint}
    <3>1. {flow.endpoint} \in SUBSET Endpoints
      BY <1>1
    <3>2. QED BY <1>1, <2>1, <3>1, BrowseForKeeps
  <2>4. RecordsTyped' /\ target' = NoEndpoint /\ told' = Before'
    BY <1>1, <2>1, <2>2 DEF FlowInv, RecordsTyped, EndpointFits, ToldFits, Before
  <2>5. CallsFit' /\ EndpointFits'
    BY <1>1, <2>2, <2>3, <2>4 DEF CallsFit, EndpointFits, CommandSteps
  <2>6. QED BY <1>2, <2>2, <2>3, <2>4, <2>5, GoesOn
<1>9. QED BY <1>1, <1>5, <1>6, <1>7, <1>8

(* Finding the service of the phone that was paired keeps the invariant.     *)
LEMMA FlowAssociatedKeeps == FlowInv /\ FlowAssociated => FlowInv'
<1> SUFFICES ASSUME FlowInv, FlowAssociated PROVE FlowInv'
  OBVIOUS
<1>1. /\ CommandInv /\ BrowseInv /\ RecordsTyped /\ flow.step = "associate"
      /\ UNCHANGED <<paired, target, helper>> /\ BrowseDone /\ search.step = "idle"
      /\ flow.step \in WorkingSteps /\ flow.method # "reconnect"
      /\ flow.endpoint \in Endpoints /\ search.wanted = {flow.endpoint}
      /\ discovered' = IF search.result \in Endpoints THEN search.result ELSE discovered
  BY DEF FlowInv, CallsFit, EndpointFits, FlowAssociated, WorkingSteps, Searching
<1>2. BrowseInv' /\ Quiet' /\ search'.result = search.result
  BY <1>1, BrowseDoneKeeps
<1>3. /\ search.result \in Endpoints \cup SearchFailures
      /\ search.result \in Endpoints => search.result = flow.endpoint
  BY <1>1, BrowseTyped DEF BrowseInv, ResultFits, EndSteps, SearchRecords
<1>4. discovered' \in Endpoints \cup {NoEndpoint}
  BY <1>1 DEF RecordsTyped
<1>5. ASSUME NEW e \in PairingPromise!Failures(flow.method), End(e), UNCHANGED commandVars
      PROVE  FlowInv'
  BY <1>1, <1>2, <1>4, <1>5, CommandLeft, EndsInFailure
<1>6. CASE search.result \in SearchFailures
  <2>1. End(ConnectionFailure(search.result)) /\ UNCHANGED commandVars
    BY <1>6, FlowNames DEF FlowAssociated
  <2>2. QED BY <1>5, <1>6, <2>1, FailuresPromised
<1>7. CASE search.result \in Endpoints /\ flag
  <2>1. End("PairingCancelled") /\ UNCHANGED commandVars
    BY <1>7, FlowNames DEF FlowAssociated
  <2>2. QED BY <1>5, <2>1, FailuresPromised
<1>8. CASE search.result \in Endpoints /\ ~flag
  <2>1. Ask("connect") /\ FlowStep("connect") /\ flag' = flag /\ told' = told
    BY <1>8, FlowNames DEF FlowAssociated
  <2>2. /\ flow' \in FlowRecords /\ flow'.step = "connect" /\ flow'.method = flow.method
        /\ flow'.endpoint = flow.endpoint
    BY <1>1, <2>1, FlowNames, FlowStepUpdates
  <2>3. CommandInv' /\ run'.step = "begin" /\ run'.request = "connect"
    <3>1. flag' \in BOOLEAN
      BY <1>1, <2>1 DEF CommandInv, CommandTypeOK
    <3>2. QED BY <1>1, <2>1, <3>1, FlowNames, AskKeepsInv
  <2>4. RecordsTyped' /\ target' = NoEndpoint /\ told' = Before'
    BY <1>1, <1>4, <2>1, <2>2 DEF FlowInv, RecordsTyped, EndpointFits, ToldFits, Before
  <2>5. CallsFit' /\ EndpointFits'
    BY <1>1, <1>2, <1>3, <1>8, <2>2, <2>3, <2>4 DEF CallsFit, EndpointFits, CommandSteps
  <2>6. QED BY <1>2, <2>2, <2>3, <2>4, <2>5, GoesOn
<1>9. QED BY <1>3, <1>6, <1>7, <1>8

(* Taking the result of adb connect keeps the invariant.                     *)
LEMMA FlowConnectedKeeps == FlowInv /\ FlowConnected => FlowInv'
<1> SUFFICES ASSUME FlowInv, FlowConnected PROVE FlowInv'
  OBVIOUS
<1>1. /\ CommandInv /\ BrowseInv /\ RecordsTyped /\ flow.step = "connect" /\ Quiet
      /\ UNCHANGED commandVars /\ UNCHANGED browseVars /\ helper' = helper
      /\ flow.step \in WorkingSteps
      /\ flow.endpoint \in Endpoints /\ search.result = flow.endpoint
      /\ flow.method # "reconnect" => discovered = flow.endpoint
      /\ run.result \in Failures \cup {"Succeeded", "Failed"}
  BY DEF FlowInv, CallsFit, EndpointFits, FlowConnected, WorkingSteps, CommandSteps
<1>2. CommandInv' /\ BrowseInv' /\ Quiet'
  BY <1>1, CommandLeft, BrowseLeft
<1>3. {"Succeeded", "Failed"} \cap Failures = {}
  BY DEF Failures
<1>4. ASSUME NEW e \in PairingPromise!Failures(flow.method), End(e), UNCHANGED results
      PROVE  FlowInv'
  <2>1. UNCHANGED <<discovered, paired, target>>
    BY <1>4 DEF results
  <2>2. discovered' \in Endpoints \cup {NoEndpoint}
    BY <1>1, <2>1 DEF RecordsTyped
  <2>3. QED BY <1>1, <1>2, <1>4, <2>1, <2>2, EndsInFailure
<1>5. CASE run.result \in Failures
  BY <1>1, <1>3, <1>4, <1>5, FailuresPromised DEF FlowConnected
<1>6. CASE run.result \notin Failures /\ flag
  BY <1>1, <1>3, <1>4, <1>6, FailuresPromised DEF FlowConnected
<1>7. CASE run.result = "Failed" /\ ~flag
  BY <1>1, <1>3, <1>4, <1>7, FailuresPromised DEF FlowConnected
<1>8. CASE run.result = "Succeeded" /\ ~flag
  <2>1. /\ target' = search.result
        /\ IF flow.method = "reconnect" THEN End("Connected") /\ UNCHANGED <<discovered, paired>>
           ELSE End("Paired") /\ paired' = discovered /\ discovered' = NoEndpoint
    BY <1>3, <1>8 DEF FlowConnected
  <2>a. "Connected" \in FlowEvents /\ "Paired" \in FlowEvents
    BY DEF FlowEvents
  <2>b. \E e \in FlowEvents : End(e) /\ (e = "Paired" => flow.method # "reconnect")
    <3>1. CASE flow.method = "reconnect"
      <4>1. End("Connected") /\ "Connected" # "Paired"
        BY <2>1, <3>1
      <4>2. QED BY <4>1, <2>a
    <3>2. CASE flow.method # "reconnect"
      <4>1. End("Paired")
        BY <2>1, <3>2
      <4>2. QED BY <4>1, <3>2, <2>a
    <3>3. QED BY <3>1, <3>2
  <2>2. PICK e \in FlowEvents : End(e) /\ (e = "Paired" => flow.method # "reconnect")
    BY <2>b
  <2>3. /\ flow' \in FlowRecords /\ flow'.step = "done" /\ flow'.endpoint = flow.endpoint
        /\ ToldFits' /\ told'[Len(told')] = e
    BY <1>1, <2>2, ToldAtEnd
  <2>4. RecordsTyped'
    <3>1. paired' \in Endpoints \cup {NoEndpoint} /\ discovered' \in Endpoints \cup {NoEndpoint}
      <4>1. CASE flow.method = "reconnect"
        BY <4>1, <1>1, <2>1 DEF RecordsTyped
      <4>2. CASE flow.method # "reconnect"
        BY <4>2, <1>1, <2>1 DEF RecordsTyped
      <4>3. QED BY <4>1, <4>2
    <3>2. target' \in Endpoints \cup {NoEndpoint} /\ helper' \in {"running", "gone"}
      BY <1>1, <2>1 DEF RecordsTyped
    <3>3. QED BY <2>3, <3>1, <3>2 DEF RecordsTyped
  <2>5. CallsFit' /\ EndpointFits'
    BY <1>2, <2>3 DEF CallsFit, EndpointFits, CommandSteps
  <2>6. SavesThePairedPhone'
    BY <1>1, <2>1, <2>2, <2>3 DEF SavesThePairedPhone
  <2>7. QED BY <1>2, <2>3, <2>4, <2>5, <2>6 DEF FlowInv
<1>9. QED BY <1>1, <1>5, <1>6, <1>7, <1>8

(* Every step at which a flow takes a result keeps the invariant.            *)
LEMMA TakeResultsKeeps == FlowInv /\ TakeResults => FlowInv'
<1> SUFFICES ASSUME FlowInv, TakeResults PROVE FlowInv'
  OBVIOUS
<1>1. /\ CommandInv /\ BrowseInv /\ RecordsTyped /\ flow.step = "done" /\ Quiet
      /\ UNCHANGED commandVars /\ UNCHANGED browseVars /\ UNCHANGED <<helper, discovered>>
      /\ target' = NoEndpoint /\ told' = <<>>
      /\ paired' = IF flow.method = "reconnect" THEN paired ELSE NoEndpoint
  BY DEF FlowInv, CallsFit, TakeResults
<1>2. CommandInv' /\ BrowseInv' /\ Quiet'
  BY <1>1, CommandLeft, BrowseLeft
<1>3. flow' \in FlowRecords /\ flow'.step = "idle"
  BY <1>1, FlowNames DEF TakeResults, RecordsTyped, FlowRecords
<1>4. RecordsTyped'
  BY <1>1, <1>3 DEF RecordsTyped
<1>5. CallsFit' /\ EndpointFits' /\ told' = Before'
  BY <1>1, <1>2, <1>3 DEF CallsFit, EndpointFits, Before, CommandSteps
<1>6. QED BY <1>2, <1>3, <1>4, <1>5, GoesOn

-----------------------------------------------------------------------------
(* What happens beside the flow.                                              *)
LEMMA FlowLeft ==
  ASSUME FlowInv, Idle, CommandInv', BrowseInv', CallsFit', search'.result = search.result
  PROVE  FlowInv'
<1>1. /\ flow' = flow /\ told' = told /\ helper' = helper
      /\ discovered' = discovered /\ paired' = paired /\ target' = target
  BY DEF Idle, results
<1>2. RecordsTyped' /\ EndpointFits' /\ ToldFits' /\ SavesThePairedPhone'
  BY <1>1 DEF FlowInv, RecordsTyped, EndpointFits, ToldFits, SavesThePairedPhone, Before
<1>3. QED BY <1>2 DEF FlowInv

(* A step of the nested command, or of its child, keeps the invariant of
   the flow around it.                                                       *)
LEMMA RunStepKeeps ==
  ASSUME FlowInv, Runner \/ Cancel \/ DeadlinePasses \/ Adb, Idle, UNCHANGED browseVars
  PROVE  FlowInv'
<1>1. CommandInv /\ BrowseInv /\ flow' = flow /\ search' = search
  BY DEF FlowInv, Idle, browseVars
<1>2. CommandInv' /\ BrowseInv' /\ (Quiet => Quiet')
  BY <1>1, RunnerKeepsInv, TokenKeepsInv, AdbKeepsInv, BrowseLeft
<1>3. CASE Runner
  <2>1. /\ run.step # "idle" /\ run'.request = run.request
        /\ run'.step = "idle" =>
             (~Captures(run.request) => run'.result \in Failures \cup {"Succeeded", "Failed"})
    BY <1>1, <1>3, RunnerReturns
  <2>2. CallsFit'
    BY <1>1, <1>2, <2>1, FlowNames DEF FlowInv, CallsFit, CommandSteps
  <2>3. QED BY <1>1, <1>2, <2>2, FlowLeft
<1>4. CASE ~Runner
  <2>1. run' = run
    BY <1>4 DEF Cancel, DeadlinePasses, Adb, ChildWants, ChildWrites, ChildExits, ChildDies
  <2>2. CallsFit'
    BY <1>1, <1>2, <2>1 DEF FlowInv, CallsFit
  <2>3. QED BY <1>1, <1>2, <2>2, FlowLeft
<1>5. QED BY <1>3, <1>4

(* A search step keeps what the search is for; where nothing is searched for   *)
(* there is none.                                                             *)
LEMMA SearchStepKeeps ==
  ASSUME FlowInv, Searcher(flag) \/ Reader \/ BrowseEnvironment, Idle, UNCHANGED commandVars
  PROVE  FlowInv'
<1>1. /\ CommandInv /\ BrowseInv /\ flow' = flow /\ run' = run /\ flag \in BOOLEAN
      /\ search \in SearchRecords
  BY BrowseTyped DEF FlowInv, Idle, commandVars, CommandInv, CommandTypeOK, BrowseInv
<1>2. CommandInv' /\ BrowseInv'
  BY <1>1, CommandLeft, SearcherKeeps, ReaderKeeps, EnvironmentKeeps
<1>3. ~Quiet
  <2>1. SUFFICES ASSUME Quiet PROVE FALSE
    OBVIOUS
  <2>2. /\ search.step = "idle" /\ avahi.state = "none" /\ reader.state = "none"
    BY <2>1 DEF Quiet, NoAvahi, NoReader
  <2>3. ~Searcher(flag)
    BY <2>2 DEF Searcher, BrowseBegin, BrowseTest, BrowseReceive, BrowseWait, BrowseKill, BrowseReap
  <2>4. ~Reader /\ ~BrowseEnvironment
    BY <2>2 DEF Reader, Forward, EndOfLines, BrowseEnvironment, AvahiPrints, AvahiExits, AvahiDies,
       Tick, Searching
  <2>5. QED BY <2>3, <2>4
<1>4. flow.step \in {"find", "associate"}
  BY <1>3 DEF FlowInv, CallsFit
<1>5. search'.wanted = search.wanted
  <2>1. CASE Reader \/ BrowseEnvironment
    BY <2>1 DEF Reader, Forward, EndOfLines, BrowseEnvironment, AvahiPrints, AvahiExits, AvahiDies,
       Tick
  <2>2. ASSUME NEW s, SearchStep(s) PROVE search'.wanted = search.wanted
    BY <1>1, <2>2 DEF SearchStep, SearchRecords
  <2>3. ASSUME NEW r, Conclude(r) \/ StopWith(r) PROVE search'.wanted = search.wanted
    BY <1>1, <2>3 DEF Conclude, StopWith, SearchRecords
  <2>4. ASSUME NEW e, Settle(e) PROVE search'.wanted = search.wanted
    BY <1>1, <2>4 DEF Settle, SearchRecords
  <2>5. CASE Searcher(flag)
    <3>1. CASE BrowseBegin(flag) \/ BrowseWait \/ BrowseKill \/ BrowseReap
      BY <2>2, <2>3, <3>1 DEF BrowseBegin, BrowseWait, BrowseKill, BrowseReap
    <3>2. CASE BrowseTest(flag)
      BY <1>1, <2>2, <2>3, <3>2 DEF BrowseTest
    <3>3. CASE BrowseReceive
      <4>1. \A line \in Lines : TakeLine(line) => search'.wanted = search.wanted
        BY <1>1, <2>2, <2>3, <2>4 DEF TakeLine
      <4>2. reader.channel # <<>> => Head(reader.channel) \in Lines
        BY <1>1, BrowseTyped, HeadTailProperties DEF BrowseInv, ReaderRecords
      <4>3. QED BY <2>2, <2>3, <3>3, <4>1, <4>2 DEF BrowseReceive
    <3>4. QED BY <2>5, <3>1, <3>2, <3>3 DEF Searcher
  <2>6. QED BY <2>1, <2>5
<1>6. CallsFit'
  BY <1>1, <1>4, <1>5 DEF FlowInv, CallsFit, CommandSteps
<1>7. /\ told' = told /\ helper' = helper /\ discovered' = discovered /\ paired' = paired
      /\ target' = target
  BY DEF Idle, results
<1>8. RecordsTyped' /\ EndpointFits' /\ told' = Before' /\ flow'.step # "done"
  BY <1>1, <1>4, <1>7 DEF FlowInv, RecordsTyped, EndpointFits, ToldFits, Before
<1>9. QED BY <1>2, <1>6, <1>8, GoesOn

(* What the main thread does with the same runner, between flows, keeps the
   invariant.                                                                *)
LEMMA OtherCommandKeeps ==
  ASSUME FlowInv, \/ \E r \in OtherRequests : OtherCommand(r)
                  \/ Shutdown
  PROVE  FlowInv'
<1>1. /\ CommandInv /\ BrowseInv /\ flow.step = "idle" /\ UNCHANGED browseVars
      /\ UNCHANGED <<flow, discovered, paired, target, told>> /\ helper' \in {"running", "gone"}
  BY DEF FlowInv, RecordsTyped, OtherCommand, Shutdown, results
<1>2. CommandInv'
  <2>1. ASSUME NEW r \in OtherRequests, Request(r) PROVE CommandInv'
    <3>1. r \in Requests
      BY PairingFlowAssumption DEF Requests
    <3>2. QED BY <1>1, <2>1, <3>1, AskKeepsInv DEF Request
  <2>2. QED BY <1>1, <2>1, CommandLeft DEF OtherCommand, Shutdown
<1>3. BrowseInv' /\ (Quiet => Quiet')
  BY <1>1, BrowseLeft
<1>4. RecordsTyped' /\ EndpointFits' /\ told' = Before' /\ CallsFit'
  BY <1>1, <1>3 DEF FlowInv, RecordsTyped, EndpointFits, ToldFits, Before, CallsFit, CommandSteps
<1>5. QED BY <1>1, <1>2, <1>3, <1>4, GoesOn

-----------------------------------------------------------------------------
(* The invariant holds before the first flow.                                *)
LEMMA FlowInvInit == FlowInit => FlowInv
<1> SUFFICES ASSUME FlowInit PROVE FlowInv
  OBVIOUS
<1>1. CommandInv /\ BrowseInv /\ Quiet
  BY InitInv, BrowseInitKeeps DEF FlowInit
<1>2. /\ flow = [step |-> "idle", method |-> "qr", endpoint |-> NoEndpoint]
      /\ discovered = NoEndpoint /\ paired = NoEndpoint /\ target = NoEndpoint
      /\ told = <<>> /\ helper = "running"
  BY DEF FlowInit
<1>3. flow \in FlowRecords /\ flow.step = "idle"
  BY <1>2, FlowNames DEF FlowRecords, Methods
<1>4. RecordsTyped /\ CallsFit /\ EndpointFits
  BY <1>1, <1>2, <1>3 DEF RecordsTyped, CallsFit, EndpointFits, CommandSteps
<1>5. ToldFits
  <2>1. told \in Seq(FlowEvents) /\ Len(told) = 0 /\ 0 \in 0..2
    BY <1>2
  <2>2. QED BY <1>2, <1>3, <2>1 DEF ToldFits, Before
<1>6. SavesThePairedPhone
  BY <1>3 DEF SavesThePairedPhone
<1>7. QED BY <1>1, <1>4, <1>5, <1>6 DEF FlowInv

(* Every step keeps the invariant.                                           *)
LEMMA FlowInvNext == FlowInv /\ [FlowNext]_vars => FlowInv'
<1> SUFFICES ASSUME FlowInv, [FlowNext]_vars PROVE FlowInv'
  OBVIOUS
<1>1. CASE \E m \in Methods : FlowBegin(m)
  BY <1>1, FlowBeginKeeps
<1>2. CASE Flow
  BY <1>2, FlowStartKeeps, FlowFindKeeps, FlowPairedKeeps, FlowAssociatedKeeps,
     FlowConnectedKeeps, TakeResultsKeeps DEF Flow
<1>3. CASE (\E r \in OtherRequests : OtherCommand(r)) \/ Shutdown
  BY <1>3, OtherCommandKeeps
<1>4. CASE (Runner \/ Cancel \/ DeadlinePasses \/ Adb) /\ Idle /\ UNCHANGED browseVars
  BY <1>4, RunStepKeeps
<1>5. CASE (Searcher(flag) \/ Reader \/ BrowseEnvironment) /\ Idle /\ UNCHANGED commandVars
  BY <1>5, SearchStepKeeps
<1>6. CASE UNCHANGED vars
  <2>1. UNCHANGED commandVars /\ UNCHANGED browseVars /\ Idle
    BY <1>6 DEF vars, Idle
  <2>2. run' = run /\ search' = search /\ flow' = flow
    BY <2>1 DEF commandVars, browseVars, Idle
  <2>3. CommandInv' /\ BrowseInv' /\ (Quiet => Quiet')
    BY <2>1, CommandLeft, BrowseLeft DEF FlowInv
  <2>4. CallsFit'
    BY <2>2, <2>3 DEF FlowInv, CallsFit
  <2>5. QED BY <2>1, <2>2, <2>3, <2>4, FlowLeft
<1>7. QED BY <1>1, <1>2, <1>3, <1>4, <1>5, <1>6 DEF FlowNext

(* The types.                                                                 *)
THEOREM FlowTypes == FlowSpec => []FlowTypeOK
<1>1. FlowInv => FlowTypeOK
  <2> SUFFICES ASSUME FlowInv PROVE FlowTypeOK
    OBVIOUS
  <2>1. CommandTypeOK /\ BrowseTypeOK
    BY DEF FlowInv, CommandInv, BrowseInv
  <2>2. told \in Seq(FlowEvents) /\ Len(told) \in 0..2
    BY DEF FlowInv, ToldFits
  <2>t. Len(told) <= 2
    <3>1. \A n \in 0..2 : n <= 2
      OBVIOUS
    <3>2. QED BY ONLY <2>2, <3>1, Zenon
  <2>3. /\ flow \in [step: FlowSteps, method: Methods, endpoint: Endpoints \cup {NoEndpoint}]
        /\ discovered \in Endpoints \cup {NoEndpoint}
        /\ paired \in Endpoints \cup {NoEndpoint}
        /\ target \in Endpoints \cup {NoEndpoint}
        /\ helper \in {"running", "gone"}
    BY DEF FlowInv, RecordsTyped, FlowRecords
  <2>4. QED BY <2>1, <2>2, <2>t, <2>3 DEF FlowTypeOK
<1>2. QED BY <1>1, FlowInvInit, FlowInvNext, PTL DEF FlowSpec

(* A manual search returns a service only if no other matched, and not before *)
(* the time it must wait for one is over (wireless.rs, AvahiDiscovery::browse).*)
THEOREM MatchIsUnambiguous == FlowSpec => []UnambiguousMatch
<1>1. FlowInv => UnambiguousMatch
  BY BrowsePromises DEF FlowInv
<1>2. QED BY <1>1, FlowInvInit, FlowInvNext, PTL DEF FlowSpec

(* Whatever way a search ends, its avahi-browse has ended, unless the search   *)
(* took an invalid service (wireless.rs, stop_child and its one bypass).       *)
THEOREM BrowserStopped == FlowSpec => []StopsItsBrowser
<1>1. FlowInv => StopsItsBrowser
  BY BrowsePromises DEF FlowInv
<1>2. QED BY <1>1, FlowInvInit, FlowInvNext, PTL DEF FlowSpec

(* The phone that is saved is the one that accepted the code and the one that *)
(* was connected, whatever flows ran, failed or were cancelled before.        *)
THEOREM PairedPhoneSaved == FlowSpec => []SavesThePairedPhone
<1>1. FlowInv => SavesThePairedPhone
  BY DEF FlowInv
<1>2. QED BY <1>1, FlowInvInit, FlowInvNext, PTL DEF FlowSpec

-----------------------------------------------------------------------------
(* PairingFlow implements PairingPromise: every step of a flow, of the runner, *)
(* of the search or of the environment is a step of the promise or none.      *)
Kept == PairingPromise!PromiseNext \/ UNCHANGED <<Phase, flow.method, told, target>>

(* Between two steps of the same flow nothing happens to the promise.         *)
LEMMA WorksOn ==
  ASSUME flow.step \in WorkingSteps, flow'.step \in WorkingSteps,
         flow'.method = flow.method, told' = told, target' = target
  PROVE  Kept
<1>1. Phase = "working" /\ Phase' = "working"
  BY DEF Phase, WorkingSteps
<1>2. QED BY <1>1 DEF Kept

(* A flow that ends in a failure finishes without a target.                   *)
LEMMA FailureFinishes ==
  ASSUME FlowInv, flow.step \in WorkingSteps,
         NEW e \in PairingPromise!Failures(flow.method), End(e), UNCHANGED target
  PROVE  Kept
<1>1. e \in FlowEvents
  BY FailuresPromised
<1>2. flow'.step = "done" /\ flow'.method = flow.method
  BY <1>1, ToldAtEnd
<1>3. Phase = "working" /\ Phase' = "done"
  BY <1>2 DEF Phase, WorkingSteps
<1>4. target' = NoEndpoint
  BY DEF FlowInv, EndpointFits, WorkingSteps
<1>5. told' = Append(told, e)
  BY DEF End, Tell
<1>6. PairingPromise!Finish
  BY <1>2, <1>3, <1>4, <1>5 DEF PairingPromise!Finish
<1>7. QED BY <1>6 DEF Kept, PairingPromise!PromiseNext

(* A flow that begins is the promise's beginning.                            *)
LEMMA BeginPromised == ASSUME FlowInv, NEW m \in Methods, FlowBegin(m) PROVE Kept
<1>1. flow.step = "idle" /\ told' = <<>> /\ target' = NoEndpoint
  BY DEF FlowBegin
<1>2. flow'.step = "start" /\ flow'.method = m
  BY DEF FlowBegin
<1>3. Phase = "idle" /\ Phase' = "working"
  BY <1>1, <1>2 DEF Phase
<1>4. flow'.method \in {"qr", "manual", "reconnect"}
  BY <1>2 DEF Methods
<1>5. PairingPromise!Begin
  BY <1>1, <1>3, <1>4 DEF PairingPromise!Begin
<1>6. QED BY <1>5 DEF Kept, PairingPromise!PromiseNext

(* The first step of a flow is a step of the promise, or a stutter.          *)
LEMMA StartPromised == FlowInv /\ FlowStart => Kept
<1> SUFFICES ASSUME FlowInv, FlowStart PROVE Kept
  OBVIOUS
<1>1. RecordsTyped /\ flow.step \in WorkingSteps /\ target' = target
  BY DEF FlowInv, FlowStart, WorkingSteps, results
<1>2. CASE flag
  <2>1. End("PairingCancelled")
    BY <1>2 DEF FlowStart
  <2>2. QED BY <1>1, <2>1, FailuresPromised, FailureFinishes
<1>3. CASE ~flag
  <2>1. FlowStep("find") /\ told' = told
    BY <1>3 DEF FlowStart
  <2>2. flow'.step = "find" /\ flow'.method = flow.method
    BY <1>1, <2>1, FlowNames, FlowStepUpdates
  <2>3. QED BY <1>1, <2>1, <2>2, WorksOn DEF WorkingSteps
<1>4. QED BY <1>2, <1>3

(* The result of a search ends the promise as it may end, or leaves it.      *)
LEMMA FindPromised == FlowInv /\ FlowFind => Kept
<1> SUFFICES ASSUME FlowInv, FlowFind PROVE Kept
  OBVIOUS
<1>1. /\ RecordsTyped /\ flow.step = "find" /\ target' = target /\ flow \in FlowRecords
      /\ flow.step \in WorkingSteps /\ flow.method \in Methods
  BY DEF FlowInv, FlowFind, WorkingSteps, results, RecordsTyped, FlowRecords
<1>2. CASE search.result \in SearchFailures
  <2> DEFINE e == IF flow.method = "reconnect" THEN ConnectionFailure(search.result)
                  ELSE DiscoveryFailure(search.result)
  <2>1. End(e)
    BY <1>2, FlowNames DEF FlowFind
  <2>2. e \in PairingPromise!Failures(flow.method)
    BY <1>1, <1>2, FailuresPromised DEF Methods
  <2> HIDE DEF e
  <2>3. QED BY <1>1, <2>1, <2>2, FailureFinishes
<1>3. CASE search.result \in Endpoints /\ flag
  <2>1. End("PairingCancelled")
    BY <1>3, FlowNames DEF FlowFind
  <2>2. QED BY <1>1, <2>1, FailuresPromised, FailureFinishes
<1>4. CASE search.result \in Endpoints /\ ~flag
  <2> DEFINE r == IF flow.method = "reconnect" THEN "connect" ELSE "pair"
  <2>1. /\ flow' = [flow EXCEPT !.step = r, !.endpoint = search.result]
        /\ IF flow.method = "qr" THEN Tell("Pairing") ELSE told' = told
    BY <1>4, FlowNames DEF FlowFind
  <2>2. r \in {"connect", "pair"}
    OBVIOUS
  <2> HIDE DEF r
  <2>3. flow'.step = r /\ flow'.method = flow.method
    BY <1>1, <2>1 DEF FlowRecords
  <2>4. flow'.step \in WorkingSteps
    BY <2>2, <2>3 DEF WorkingSteps
  <2>5. CASE flow.method # "qr"
    BY <1>1, <2>1, <2>3, <2>4, <2>5, WorksOn
  <2>6. CASE flow.method = "qr"
    <3>1. told = <<>>
      BY <1>1 DEF FlowInv, ToldFits, Before
    <3>2. told' = Append(<<>>, "Pairing")
      BY <2>1, <2>6, <3>1 DEF Tell
    <3>3. told' = <<"Pairing">>
      BY <3>2
    <3>4. Phase = "working" /\ Phase' = "working"
      BY <1>1, <2>4 DEF Phase, WorkingSteps
    <3>5. PairingPromise!Progress
      BY <1>1, <2>3, <2>6, <3>1, <3>3, <3>4 DEF PairingPromise!Progress
    <3>6. QED BY <3>5 DEF Kept, PairingPromise!PromiseNext
  <2>7. QED BY <2>5, <2>6
<1>5. QED BY <1>2, <1>3, <1>4 DEF FlowFind

(* adb pair's answer ends the promise only in failure or cancellation.       *)
LEMMA PairedPromised == FlowInv /\ FlowPaired => Kept
<1> SUFFICES ASSUME FlowInv, FlowPaired PROVE Kept
  OBVIOUS
<1>1. /\ RecordsTyped /\ target' = target
      /\ flow.step \in WorkingSteps /\ flow.method \in Methods /\ flow.method # "reconnect"
      /\ run.result \in Failures \cup {"Succeeded", "Failed"}
  BY DEF FlowInv, CallsFit, EndpointFits, FlowPaired, WorkingSteps, CommandSteps, results,
     RecordsTyped, FlowRecords
<1>2. {"Succeeded", "Failed"} \cap Failures = {} /\ flow.method \in {"qr", "manual"}
  BY <1>1 DEF Failures, Methods
<1>3. ASSUME NEW e \in PairingPromise!Failures(flow.method), End(e) PROVE Kept
  BY <1>1, <1>3, FailureFinishes
<1>4. CASE run.result \in Failures
  BY <1>1, <1>2, <1>3, <1>4, FailuresPromised DEF FlowPaired
<1>5. CASE run.result \notin Failures /\ flag
  BY <1>1, <1>2, <1>3, <1>5, FailuresPromised DEF FlowPaired
<1>6. CASE run.result = "Failed" /\ ~flag
  BY <1>1, <1>2, <1>3, <1>6, FailuresPromised DEF FlowPaired
<1>7. CASE run.result = "Succeeded" /\ ~flag
  <2>1. FlowStep("associate") /\ told' = told
    BY <1>2, <1>7 DEF FlowPaired
  <2>2. flow'.step = "associate" /\ flow'.method = flow.method
    BY <1>1, <2>1, FlowNames, FlowStepUpdates
  <2>3. QED BY <1>1, <2>1, <2>2, WorksOn DEF WorkingSteps
<1>8. QED BY <1>1, <1>4, <1>5, <1>6, <1>7

(* The search after the pairing ends the promise only in failure or
   cancellation.                                                             *)
LEMMA AssociatedPromised == FlowInv /\ FlowAssociated => Kept
<1> SUFFICES ASSUME FlowInv, FlowAssociated PROVE Kept
  OBVIOUS
<1>1. /\ RecordsTyped /\ BrowseInv /\ flow.step = "associate" /\ search.step = "idle"
      /\ flow.step \in WorkingSteps /\ target' = target
  BY DEF FlowInv, CallsFit, FlowAssociated, WorkingSteps, Searching
<1>2. search.result \in Endpoints \cup SearchFailures
  BY <1>1, BrowseTyped DEF FlowInv, CallsFit, BrowseInv, ResultFits, EndSteps, SearchRecords,
     FlowAssociated
<1>3. CASE search.result \in SearchFailures
  <2>1. End(ConnectionFailure(search.result))
    BY <1>3, FlowNames DEF FlowAssociated
  <2>2. QED BY <1>1, <1>3, <2>1, FailuresPromised, FailureFinishes
<1>4. CASE search.result \in Endpoints /\ flag
  <2>1. End("PairingCancelled")
    BY <1>4, FlowNames DEF FlowAssociated
  <2>2. QED BY <1>1, <2>1, FailuresPromised, FailureFinishes
<1>5. CASE search.result \in Endpoints /\ ~flag
  <2>1. FlowStep("connect") /\ told' = told
    BY <1>5, FlowNames DEF FlowAssociated
  <2>2. flow'.step = "connect" /\ flow'.method = flow.method
    BY <1>1, <2>1, FlowNames, FlowStepUpdates
  <2>3. QED BY <1>1, <2>1, <2>2, WorksOn DEF WorkingSteps
<1>6. QED BY <1>2, <1>3, <1>4, <1>5

(* A success finishes with the endpoint that was connected for a target.      *)
LEMMA ConnectedPromised == FlowInv /\ FlowConnected => Kept
<1> SUFFICES ASSUME FlowInv, FlowConnected PROVE Kept
  OBVIOUS
<1>1. /\ RecordsTyped /\ flow.step = "connect" /\ flow.step \in WorkingSteps
      /\ search.result \in Endpoints
      /\ run.result \in Failures \cup {"Succeeded", "Failed"}
  BY DEF FlowInv, CallsFit, EndpointFits, FlowConnected, WorkingSteps, CommandSteps
<1>2. {"Succeeded", "Failed"} \cap Failures = {}
  BY DEF Failures
<1>3. ASSUME NEW e \in PairingPromise!Failures(flow.method), End(e), UNCHANGED results
      PROVE  Kept
  BY <1>1, <1>3, FailureFinishes DEF results
<1>4. CASE run.result \in Failures
  BY <1>1, <1>2, <1>3, <1>4, FailuresPromised DEF FlowConnected
<1>5. CASE run.result \notin Failures /\ flag
  BY <1>1, <1>2, <1>3, <1>5, FailuresPromised DEF FlowConnected
<1>6. CASE run.result = "Failed" /\ ~flag
  BY <1>1, <1>2, <1>3, <1>6, FailuresPromised DEF FlowConnected
<1>7. CASE run.result = "Succeeded" /\ ~flag
  <2> DEFINE e == PairingPromise!Success(flow.method)
  <2>1. target' = search.result /\ End(e)
    BY <1>2, <1>7 DEF FlowConnected, PairingPromise!Success
  <2>2. e \in FlowEvents
    BY DEF FlowEvents, PairingPromise!Success
  <2>3. flow'.step = "done" /\ flow'.method = flow.method /\ told' = Append(told, e)
    <3> HIDE DEF e
    <3>1. flow'.step = "done" /\ flow'.method = flow.method
      BY <1>1, <2>1, <2>2, ToldAtEnd
    <3>2. QED BY <2>1, <3>1 DEF End, Tell
  <2>4. Phase = "working" /\ Phase' = "done"
    BY <1>1, <2>3 DEF Phase, WorkingSteps
  <2>5. PairingPromise!Finish
    BY <1>1, <2>1, <2>3, <2>4 DEF PairingPromise!Finish
  <2>6. QED BY <2>5 DEF Kept, PairingPromise!PromiseNext
<1>8. QED BY <1>1, <1>4, <1>5, <1>6, <1>7

(* Every result a flow takes is a step of the promise, or a stutter.         *)
LEMMA ResultsPromised == FlowInv /\ TakeResults => Kept
<1> SUFFICES ASSUME FlowInv, TakeResults PROVE Kept
  OBVIOUS
<1>1. /\ flow.step = "done" /\ target' = NoEndpoint /\ told' = <<>> /\ flow \in FlowRecords
      /\ flow' = [flow EXCEPT !.step = "idle", !.endpoint = NoEndpoint]
  BY DEF FlowInv, RecordsTyped, TakeResults
<1>2. flow'.step = "idle" /\ flow'.method = flow.method
  BY <1>1 DEF FlowRecords
<1>3. Phase = "done" /\ Phase' = "idle"
  BY <1>1, <1>2 DEF Phase
<1>4. PairingPromise!Collect
  BY <1>1, <1>2, <1>3 DEF PairingPromise!Collect
<1>5. QED BY <1>4 DEF Kept, PairingPromise!PromiseNext

(* Every step is a step of the promise, or a stutter.                        *)
LEMMA StepPromised == FlowInv /\ [FlowNext]_vars => Kept
<1> SUFFICES ASSUME FlowInv, [FlowNext]_vars PROVE Kept
  OBVIOUS
<1>1. CASE \E m \in Methods : FlowBegin(m)
  BY <1>1, BeginPromised
<1>2. CASE Flow
  BY <1>2, StartPromised, FindPromised, PairedPromised, AssociatedPromised,
     ConnectedPromised, ResultsPromised DEF Flow
<1>3. ASSUME flow' = flow, told' = told, target' = target PROVE Kept
  <2>1. Phase' = Phase /\ flow'.method = flow.method
    BY <1>3 DEF Phase
  <2>2. QED BY <1>3, <2>1 DEF Kept
<1>4. CASE Shutdown \/ \E r \in OtherRequests : OtherCommand(r)
  BY <1>3, <1>4 DEF Shutdown, OtherCommand, results
<1>5. CASE Idle
  BY <1>3, <1>5 DEF Idle, results
<1>6. CASE UNCHANGED vars
  BY <1>3, <1>6 DEF vars, results
<1>7. QED BY <1>1, <1>2, <1>4, <1>5, <1>6 DEF FlowNext

(* A flow tells one terminal event, "Pairing" before it only with a QR code,   *)
(* and leaves a target exactly when the event is a success (wireless.rs,       *)
(* PairingFlow): the detailed flow implements PairingPromise.                 *)
THEOREM PromiseKept == FlowSpec => KeepsPromise
<1>1. FlowInit => PairingPromise!PromiseInit
  <2> SUFFICES ASSUME FlowInit PROVE PairingPromise!PromiseInit
    OBVIOUS
  <2>1. flow.step = "idle" /\ flow.method = "qr"
    BY DEF FlowInit
  <2>2. QED BY <2>1 DEF FlowInit, PairingPromise!PromiseInit, Phase
<1>2. FlowInv /\ [FlowNext]_vars =>
        [PairingPromise!PromiseNext]_<<Phase, flow.method, told, target>>
  BY StepPromised DEF Kept
<1>3. QED
  BY <1>1, <1>2, FlowInvInit, FlowInvNext, PTL DEF FlowSpec, KeepsPromise, PairingPromise!Promise
=============================================================================
