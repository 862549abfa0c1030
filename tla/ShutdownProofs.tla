--------------------------- MODULE ShutdownProofs ---------------------------
(***************************************************************************)
(* Proofs about the process with its tracker, for every set of requests    *)
(* and links, every buffer size and any number of starts and kills.        *)
(*                                                                         *)
(* Most steps of the process are steps of the tracker or leave it alone,   *)
(* so what ClickTrackerProofs shows of a step of the tracker is used here; *)
(* what is left is a new tracker (New) and the end of a process (End).     *)
(***************************************************************************)
EXTENDS Shutdown, ClickTrackerProofs

(* A step that neither builds a service nor ends the process is a step of  *)
(* the tracker, or changes nothing of it.                                  *)
LEMMA TrackerStep ==
    ASSUME [RunNext]_allVars, ~New, ~Exit, ~Kill
    PROVE  [Next]_vars /\ UNCHANGED <<lost, torn, backend>>
<1>1. CASE buildStore \/ buildStoreFails \/ NewFails \/ Signal \/ ServeFails
  BY <1>1 DEF buildStore, buildStoreFails, NewFails, Signal, ServeFails, MainStep
<1>2. CASE ShutdownReturns \/ ShutdownTimesOut \/ CloseStore
  BY <1>2 DEF ShutdownReturns, ShutdownTimesOut, CloseStore, MainStep
<1>3. CASE CloseService
  BY <1>3 DEF CloseService, MainStep, process, Next
<1>4. CASE Restart
  BY <1>4 DEF Restart
<1>5. CASE Background
  BY <1>5 DEF Background, process, Next
<1>6. ASSUME NEW e \in Event, Arrive(e) \/ expandURL(e) \/ Respond(e)
      PROVE  [Next]_vars /\ UNCHANGED <<lost, torn, backend>>
  BY <1>6 DEF Arrive, expandURL, Respond, Step, Next
<1>7. CASE UNCHANGED allVars
  BY <1>7 DEF allVars, process
<1> QED
  BY <1>1, <1>2, <1>3, <1>4, <1>5, <1>6, <1>7 DEF RunNext

(* What New and the end of a process leave behind. *)
LEMMA EmptyTracker ==
    ASSUME NEW state, Tracker(state)
    PROVE  /\ events' = <<>> /\ batch' = <<>> /\ Range(events') = {}
           /\ Range(batch') = {} /\ Inside' = {}
           /\ IsInjective(events') /\ IsInjective(batch')
           /\ events' \in Seq(Event) /\ Len(events') = 0 /\ batch' \in Seq(Event)
           /\ todo' = {} /\ ~done' /\ ~tick' /\ ~final' /\ stopper' = "idle"
           /\ done' \in BOOLEAN /\ tick' \in BOOLEAN /\ final' \in BOOLEAN
           /\ pc' = state
<1>1. DOMAIN <<>> = {} /\ <<>> \in Seq(Event) /\ Len(<<>>) = 0
  BY EmptySeq, LenProperties
<1>2. IsInjective(<<>>) /\ Range(<<>>) = {}
  BY <1>1 DEF IsInjective, Range
<1> QED
  BY <1>1, <1>2 DEF Tracker, Inside

(* An end of the process leaves no tracker; the events of the batch it had *)
(* counted may be torn, and some of them recorded.                         *)
LEMMA EndOfProcess ==
    ASSUME TypeOK, Phases, Exit \/ Kill
    PROVE  \E sent \in SUBSET (Range(batch) \ Uncounted) :
             End(sent) /\ torn' = torn \cup (Range(batch) \ Uncounted)
<1>1. CASE Exit
  <2>1. End({}) /\ torn' = torn /\ main = "closed"
    BY <1>1 DEF Exit
  <2>2. pc = "exited"
    BY <2>1 DEF Phases, NoTracker
  <2>3. Range(batch) \ Uncounted = {}
    BY <2>2 DEF Uncounted
  <2> QED
    BY <2>1, <2>3
<1>2. CASE Kill
  <2>1. torn' = torn \cup (Range(batch) \ Uncounted)
    BY <1>2 DEF Kill
  <2>2. PICK n \in IF pc = "record" /\ backend = "redis" THEN 0 .. Len(batch)
                   ELSE {0} :
               End({batch[i] : i \in 1 .. n})
    BY <1>2 DEF Kill
  <2>3. CASE pc = "record"
    <3>1. n \in 0 .. Len(batch) /\ Len(batch) \in Nat /\ DOMAIN batch = 1 .. Len(batch)
      BY <2>2, LenProperties DEF TypeOK
    <3>2. {batch[i] : i \in 1 .. n} \subseteq Range(batch)
      BY <3>1 DEF Range
    <3>3. Uncounted = {}
      BY <2>3 DEF Uncounted
    <3> QED
      BY <2>1, <2>2, <3>2, <3>3
  <2>4. CASE pc # "record"
    <3>1. {batch[i] : i \in 1 .. n} = {}
      BY <2>2, <2>4
    <3> QED
      BY <2>1, <2>2, <3>1
  <2> QED
    BY <2>3, <2>4
<1> QED
  BY <1>1, <1>2

----------------------------------------------------------------------------
(* Types. *)

(* Events are never taken back from what was accepted. *)
LEMMA AcceptedGrows ==
    ASSUME [Next]_vars
    PROVE  accepted \subseteq accepted'
<1>1. CASE \E e \in Event : track(e)
  BY <1>1 DEF track
<1>2. CASE CloseDone
  BY <1>2 DEF CloseDone
<1>3. CASE WaitReturns \/ Tick \/ Receive \/ TakeTick \/ SeeDone \/ DrainEmpty
  BY <1>3 DEF WaitReturns, Tick, Receive, TakeTick, SeeDone, DrainEmpty, history
<1>4. CASE RecordEvents \/ \E l \in Link : IncrClickBy(l)
  BY <1>4 DEF RecordEvents, IncrClickBy, history
<1>5. CASE UNCHANGED vars
  BY <1>5 DEF vars, history
<1> QED
  BY <1>1, <1>2, <1>3, <1>4, <1>5 DEF Next, Worker

LEMMA EndTypeOK ==
    ASSUME TypeOK, NEW sent, End(sent)
    PROVE  TypeOK'
<1>1. Tracker("exited") /\ UNCHANGED history
  BY DEF End
<1>2. clicks' \in [Link -> Nat] /\ breakdown' \in [Event -> Nat]
  <2>1. CASE backend = "memory"
    BY <2>1 DEF End
  <2>2. CASE backend # "memory"
    <3>1. /\ clicks' = clicks
          /\ breakdown' = [e \in Event |-> IF e \in sent THEN breakdown[e] + 1
                                           ELSE breakdown[e]]
      BY <2>2 DEF End
    <3>2. clicks \in [Link -> Nat] /\ \A e \in Event : breakdown[e] \in Nat
      BY DEF TypeOK
    <3> QED
      BY <3>1, <3>2
  <2> QED
    BY <2>1, <2>2
<1>3. BufSize >= 0
  BY TrackerAssumption
<1> QED
  BY <1>1, <1>2, <1>3, EmptyTracker DEF TypeOK, history

LEMMA StepTrackerTypeOK ==
    ASSUME TypeOK, Phases, [RunNext]_allVars
    PROVE  TypeOK'
<1>1. CASE New
  <2>1. BufSize >= 0
    BY TrackerAssumption
  <2>2. Tracker("select") /\ UNCHANGED <<store, history>>
    BY <1>1 DEF New
  <2> QED
    BY <2>1, <2>2, EmptyTracker DEF TypeOK, store, history
<1>2. CASE Exit \/ Kill
  BY <1>2, EndOfProcess, EndTypeOK
<1> QED
  BY <1>1, <1>2, TrackerStep, StepTypeOK

(* Where run and the handlers are. *)
LEMMA StepProcessTypes ==
    ASSUME RunTypeOK, OnePlace, Phases, [RunNext]_allVars
    PROVE  RunTypeOK'
<1> DEFINE Places == {"starting", "opened", "serving", "shutdown", "closing",
                      "drained", "closed", "exited"}
           Requests == [Event -> {"none", "open", "found", "ended"}]
           Typed == /\ main \in Places /\ request \in Requests
                    /\ backend \in Backend /\ starts \in 1 .. MaxStarts
                    /\ graceful \in BOOLEAN /\ storeOpen \in BOOLEAN
<1>1. TypeOK'
  BY StepTrackerTypeOK DEF RunTypeOK
<1>2. lost' \subseteq accepted' /\ torn' \subseteq accepted'
  <2>1. CASE ~New /\ ~Exit /\ ~Kill
    BY <2>1, TrackerStep, AcceptedGrows DEF RunTypeOK
  <2>2. CASE New
    BY <2>2 DEF New, MainStep, history, RunTypeOK
  <2>3. CASE Exit \/ Kill
    <3>1. PICK sent \in SUBSET (Range(batch) \ Uncounted) :
            End(sent) /\ torn' = torn \cup (Range(batch) \ Uncounted)
      BY <2>3, EndOfProcess DEF RunTypeOK
    <3>2. Waiting \subseteq accepted /\ Range(batch) \subseteq accepted
      BY DEF Waiting, Uncounted, OnePlace
    <3> QED
      BY <3>1, <3>2 DEF End, history, RunTypeOK
  <2> QED
    BY <2>1, <2>2, <2>3
<1>3. Typed'
  <2> USE DEF RunTypeOK
  <2>1. CASE buildStore \/ buildStoreFails \/ New \/ NewFails \/ Signal \/ ServeFails
    BY <2>1 DEF buildStore, buildStoreFails, New, NewFails, Signal, ServeFails, MainStep
  <2>2. CASE ShutdownReturns \/ ShutdownTimesOut \/ CloseStore
    BY <2>2 DEF ShutdownReturns, ShutdownTimesOut, CloseStore, MainStep
  <2>3. CASE CloseService
    BY <2>3 DEF CloseService, MainStep, process
  <2>4. CASE Restart
    BY <2>4, ProcessAssumption DEF Restart
  <2>5. CASE Exit \/ Kill
    BY <2>5 DEF Exit, Kill, End
  <2>6. CASE Background \/ UNCHANGED allVars
    BY <2>6 DEF Background, process, allVars
  <2>7. ASSUME NEW e \in Event, Arrive(e) \/ expandURL(e) \/ Respond(e)
        PROVE  Typed'
    BY <2>7 DEF Arrive, expandURL, Respond, Step
  <2> QED
    BY <2>1, <2>2, <2>3, <2>4, <2>5, <2>6, <2>7 DEF RunNext
<1> QED
  BY <1>1, <1>2, <1>3 DEF RunTypeOK

----------------------------------------------------------------------------
(* Where events are, and what is lost. *)

LEMMA StepRunOnePlace ==
    ASSUME TypeOK, OnePlace, [RunNext]_allVars
    PROVE  OnePlace'
<1>1. ASSUME NEW state, Tracker(state), UNCHANGED history PROVE OnePlace'
  <2>1. /\ IsInjective(events') /\ IsInjective(batch')
        /\ Range(events') = {} /\ Range(batch') = {}
    BY <1>1, EmptyTracker
  <2>2. accepted' = accepted /\ dropped' = dropped
    BY <1>1 DEF history
  <2> QED
    BY <2>1, <2>2 DEF OnePlace
<1>2. CASE New
  BY <1>1, <1>2 DEF New
<1>3. CASE Exit \/ Kill
  BY <1>1, <1>3 DEF Exit, Kill, End
<1> QED
  BY <1>2, <1>3, TrackerStep, StepOnePlace

(* The end of a process, as the counts see it. *)
LEMMA EndMoves ==
    ASSUME NEW sent, End(sent)
    PROVE  /\ Inside' = {} /\ Waiting' = {} /\ accepted' = accepted
           /\ \/ /\ lost' = accepted
                 /\ clicks' = [l \in Link |-> 0]
                 /\ breakdown' = [e \in Event |-> 0]
              \/ /\ lost' = lost \cup Waiting
                 /\ clicks' = clicks
                 /\ breakdown' = [e \in Event |-> IF e \in sent THEN breakdown[e] + 1
                                                  ELSE breakdown[e]]
<1>1. Tracker("exited") /\ accepted' = accepted
  BY DEF End, history
<1>2. Inside' = {} /\ Range(events') = {} /\ Range(batch') = {} /\ pc' = "exited"
  BY <1>1, EmptyTracker
<1>3. Waiting' = {}
  BY <1>2 DEF Waiting, Uncounted
<1> QED
  BY <1>1, <1>2, <1>3 DEF End

(* A new tracker replaces an empty one. *)
LEMMA NewMoves ==
    ASSUME Phases, New
    PROVE  /\ Inside = {} /\ Waiting = {} /\ Inside' = {} /\ Waiting' = {}
           /\ UNCHANGED <<accepted, clicks, breakdown, lost, torn>>
<1>1. Tracker("select") /\ UNCHANGED <<accepted, clicks, breakdown, lost, torn>>
  BY DEF New, MainStep, store, history
<1>2. Inside' = {} /\ Range(events') = {} /\ Range(batch') = {} /\ pc' = "select"
  BY <1>1, EmptyTracker
<1>3. events = <<>> /\ batch = <<>> /\ pc = "exited"
  BY DEF New, MainStep, Phases, NoTracker
<1>4. Range(<<>>) = {}
  BY EmptySeq, LenProperties DEF Range
<1> QED
  BY <1>1, <1>2, <1>3, <1>4 DEF Waiting, Uncounted, Inside

LEMMA StepLostOutside ==
    ASSUME TypeOK, OnePlace, LostOutside, Phases, [RunNext]_allVars
    PROVE  LostOutside'
<1>1. CASE ~New /\ ~Exit /\ ~Kill
  <2>1. [Next]_vars /\ lost' = lost
    BY <1>1, TrackerStep
  <2>2. CASE RecordEvents
    <3>1. Range(<<>>) = {}
      BY EmptySeq, LenProperties DEF Range
    <3>2. Inside' \subseteq Inside /\ accepted' = accepted
      BY <2>2, <3>1 DEF RecordEvents, EndFlush, history, Inside
    <3> QED
      BY <2>1, <3>2 DEF LostOutside
  <2>3. CASE ~RecordEvents
    BY <2>1, <2>3, RecordsNothing DEF LostOutside, Inside
  <2> QED
    BY <2>2, <2>3
<1>2. CASE New
  BY <1>2, NewMoves DEF LostOutside
<1>3. CASE Exit \/ Kill
  <2>1. PICK sent : End(sent)
    BY <1>3, EndOfProcess
  <2>2. Waiting \subseteq accepted
    BY DEF Waiting, Uncounted, OnePlace
  <2> QED
    BY <2>1, <2>2, EndMoves DEF LostOutside
<1> QED
  BY <1>1, <1>2, <1>3

----------------------------------------------------------------------------
(* Counters and breakdowns over starts and kills. *)

LEMMA StepCounted ==
    ASSUME TypeOK, OnePlace, LostOutside, Counted, Phases, [RunNext]_allVars
    PROVE  Counted'
<1> SUFFICES ASSUME ~StoreFaults
             PROVE  \A l \in Link :
                      clicks'[l] = Cardinality(EventsOf(l, Settled' \ lost'))
  BY DEF Counted, EventsOf
<1>1. \A l \in Link : clicks[l] = Cardinality(EventsOf(l, Settled \ lost))
  BY DEF Counted
<1>2. CASE ~New /\ ~Exit /\ ~Kill
  <2>1. lost \subseteq Settled
    BY DEF LostOutside, Inside, Settled, Waiting, Uncounted
  <2>2. [Next]_vars /\ lost' = lost
    BY <1>2, TrackerStep
  <2>3. \A l \in Link : clicks'[l] = Cardinality(EventsOf(l, Settled' \ lost))
    BY <1>1, <2>1, <2>2, CountedExactly
  <2> QED
    BY <2>2, <2>3
<1>3. CASE New
  BY <1>1, <1>3, NewMoves DEF Settled, EventsOf
<1>4. CASE Exit \/ Kill
  <2>1. PICK sent : End(sent)
    BY <1>4, EndOfProcess
  <2>2. CASE lost' = accepted /\ clicks' = [l \in Link |-> 0]
    <3>1. \A l \in Link : EventsOf(l, Settled' \ lost') = {}
      BY <2>1, <2>2, EndMoves DEF Settled, EventsOf
    <3> QED
      BY <2>2, <3>1, FS_EmptySet
  <2>3. CASE lost' = lost \cup Waiting /\ clicks' = clicks
    <3>1. Settled' \ lost' = Settled \ lost
      BY <2>1, <2>3, EndMoves DEF Settled
    <3> QED
      BY <1>1, <2>3, <3>1 DEF EventsOf
  <2> QED
    BY <2>1, <2>2, <2>3, EndMoves
<1> QED
  BY <1>2, <1>3, <1>4

LEMMA StepRecorded ==
    ASSUME TypeOK, OnePlace, LostOutside, Recorded, Phases, [RunNext]_allVars
    PROVE  Recorded'
<1> DEFINE Sound(e) ==
      /\ e \in accepted \ (Inside \cup lost \cup torn) => breakdown[e] = 1
      /\ breakdown[e] > 0 =>
           breakdown[e] = 1 /\ e \in accepted \ (Inside \cup lost)
<1> SUFFICES ASSUME ~StoreFaults, NEW e \in Event PROVE Sound(e)'
  BY DEF Recorded
<1>1. Sound(e) /\ breakdown[e] \in Nat
  BY DEF Recorded, TypeOK
<1>2. CASE ~New /\ ~Exit /\ ~Kill
  <2>1. [Next]_vars /\ UNCHANGED <<lost, torn>>
    BY <1>2, TrackerStep
  <2>2. CASE RecordEvents
    <3>1. Range(<<>>) = {}
      BY EmptySeq, LenProperties DEF Range
    <3>2. Inside' = Range(events) /\ accepted' = accepted
      BY <2>2, <3>1 DEF RecordEvents, EndFlush, history, Inside
    <3>3. breakdown'[e] = IF e \in Range(batch) THEN breakdown[e] + 1
                          ELSE breakdown[e]
      BY <2>2, RecordsBatch
    <3>4. e \in Range(batch) => e \in accepted \ (lost \cup Range(events))
      BY DEF LostOutside, Inside, OnePlace
    <3> QED
      BY <1>1, <2>1, <3>2, <3>3, <3>4 DEF Inside
  <2>3. CASE ~RecordEvents
    <3>1. breakdown' = breakdown /\ accepted' \ Inside' = accepted \ Inside
      BY <2>1, <2>3, RecordsNothing DEF Inside
    <3> QED
      BY <1>1, <2>1, <3>1
  <2> QED
    BY <2>2, <2>3
<1>3. CASE New
  BY <1>1, <1>3, NewMoves
<1>4. CASE Exit \/ Kill
  <2>1. PICK sent \in SUBSET (Range(batch) \ Uncounted) :
          End(sent) /\ torn' = torn \cup (Range(batch) \ Uncounted)
    BY <1>4, EndOfProcess
  <2>2. Inside' = {} /\ accepted' = accepted
    BY <2>1, EndMoves
  <2>3. CASE lost' = accepted /\ breakdown' = [f \in Event |-> 0]
    BY <2>2, <2>3
  <2>4. CASE /\ lost' = lost \cup Waiting
             /\ breakdown' = [f \in Event |-> IF f \in sent THEN breakdown[f] + 1
                                              ELSE breakdown[f]]
    <3>1. breakdown'[e] = IF e \in sent THEN breakdown[e] + 1 ELSE breakdown[e]
      BY <2>4
    <3>2. /\ Inside \subseteq Waiting \cup (Range(batch) \ Uncounted)
          /\ Waiting \subseteq Inside
      BY DEF Inside, Waiting, Uncounted
    <3>3. e \in sent => /\ e \in accepted \ (lost \cup Waiting) /\ e \in Inside
                        /\ e \in torn'
      BY <2>1 DEF LostOutside, Inside, OnePlace, Waiting
    <3> HIDE DEF Inside, Waiting
    <3> QED
      BY <1>1, <2>1, <2>2, <2>4, <3>1, <3>2, <3>3
  <2> QED
    BY <2>1, <2>3, <2>4, EndMoves
<1> QED
  BY <1>2, <1>3, <1>4

----------------------------------------------------------------------------
(* The phases of the process. *)

(* A step of run that leaves the tracker alone. *)
LEMMA PhasesMain ==
    ASSUME Phases, UNCHANGED <<vars, request>>,
           storeOpen' <=> main' \notin {"starting", "closed", "exited"},
           \/ UNCHANGED <<main, graceful>>
           \/ /\ <<main, main'>> \in {<<"starting", "opened">>, <<"starting", "exited">>,
                    <<"opened", "drained">>, <<"serving", "shutdown">>,
                    <<"serving", "closing">>, <<"shutdown", "closing">>,
                    <<"drained", "closed">>, <<"exited", "starting">>}
              /\ graceful' = graceful \/ ShutdownReturns
    PROVE  Phases'
<1>1. /\ AllEnded' <=> AllEnded
      /\ NoTracker' <=> NoTracker
      /\ Draining' <=> Draining
      /\ UNCHANGED <<accepted, beforeClose, stopper, done, pc>>
  BY DEF AllEnded, NoTracker, Draining, vars, worker, history
<1>2. ShutdownReturns => AllEnded /\ main = "shutdown" /\ main' = "closing"
  BY DEF ShutdownReturns, MainStep
<1>3. Draining /\ stopper = "idle" => ~done
  BY DEF Draining
<1> QED
  BY <1>1, <1>2, <1>3 DEF Phases

(* A step of the tracker while it has a handler or a worker. *)
LEMMA PhasesTracker ==
    ASSUME TypeOK, OnePlace, Phases, Draining, [Next]_vars,
           UNCHANGED <<main, graceful, storeOpen, stopper>>,
           pc' = pc \/ main \in {"serving", "shutdown", "closing"},
           ~graceful \/ UNCHANGED <<request, done, accepted, beforeClose>>
    PROVE  Phases'
<1>1. Draining'
  BY StepDraining
<1>2. graceful => (AllEnded => AllEnded')
  BY DEF AllEnded
<1>3. beforeClose' \subseteq accepted'
  BY <1>1 DEF Draining
<1>4. ~NoTracker
  BY DEF NoTracker, Draining
<1>5. main \notin {"starting", "opened", "exited"}
  BY <1>4 DEF Phases
<1>6. main \in {"drained", "closed"} => pc' = "exited"
  BY <1>4 DEF Phases
<1>7. graceful => /\ main \notin {"serving", "shutdown"} /\ AllEnded'
                  /\ done' => beforeClose' = accepted'
  BY <1>2 DEF Phases
<1>8. UNCHANGED <<main, graceful, storeOpen, stopper>>
  OBVIOUS
<1> QED
  BY <1>1, <1>3, <1>5, <1>6, <1>7, <1>8 DEF Phases

LEMMA StepPhases ==
    ASSUME RunTypeOK, OnePlace, Phases, [RunNext]_allVars
    PROVE  Phases'
<1>0. storeOpen <=> main \notin {"starting", "closed", "exited"}
  BY DEF Phases
<1>1. CASE buildStore \/ buildStoreFails \/ NewFails \/ Signal \/ ServeFails
  <2>1. storeOpen' <=> main' \notin {"starting", "closed", "exited"}
    BY <1>0, <1>1
    DEF buildStore, buildStoreFails, NewFails, Signal, ServeFails, MainStep
  <2> QED
    BY <1>1, <2>1, PhasesMain
    DEF buildStore, buildStoreFails, NewFails, Signal, ServeFails, MainStep
<1>2. CASE ShutdownReturns \/ ShutdownTimesOut \/ CloseStore
  <2>1. storeOpen' <=> main' \notin {"starting", "closed", "exited"}
    BY <1>0, <1>2 DEF ShutdownReturns, ShutdownTimesOut, CloseStore, MainStep
  <2> QED
    BY <1>2, <2>1, PhasesMain
    DEF ShutdownReturns, ShutdownTimesOut, CloseStore, MainStep
<1>3. CASE Restart
  BY <1>0, <1>3, PhasesMain DEF Restart
<1>4. CASE UNCHANGED allVars
  BY <1>0, <1>4, PhasesMain DEF allVars, process
<1>5. CASE New
  <2>1. /\ Tracker("select") /\ UNCHANGED history /\ ~graceful'
        /\ main' = "serving" /\ storeOpen'
    BY <1>0, <1>5 DEF New, MainStep
  <2>2. /\ beforeClose' \subseteq accepted' /\ Range(events') = {}
        /\ pc' = "select" /\ ~final' /\ ~done' /\ stopper' = "idle"
    BY <2>1, EmptyTracker DEF Phases, history
  <2>3. Draining'
    BY <2>2 DEF Draining
  <2> QED
    BY <2>1, <2>2, <2>3 DEF Phases
<1>6. CASE Exit \/ Kill
  <2>1. PICK sent : End(sent)
    BY <1>6, EndOfProcess DEF RunTypeOK
  <2>2. /\ Tracker("exited") /\ UNCHANGED history
        /\ main' = "exited" /\ ~storeOpen'
    BY <2>1 DEF End
  <2>3. NoTracker' /\ ~done' /\ beforeClose' \subseteq accepted'
    BY <2>2, EmptyTracker DEF NoTracker, Phases, history
  <2>4. AllEnded'
    BY <2>1 DEF End, AllEnded
  <2> QED
    BY <2>2, <2>3, <2>4 DEF Phases
<1>7. CASE CloseService
  <2>1. CASE main = "closing" /\ CloseDone /\ UNCHANGED process
    <3>1. Draining /\ [Next]_vars
      BY <2>1 DEF Phases, Next
    <3>2. Draining'
      BY <3>1, StepDraining DEF RunTypeOK
    <3>3. beforeClose' = accepted' /\ beforeClose' = accepted
      BY <2>1 DEF CloseDone
    <3>4. AllEnded' <=> AllEnded
      BY <2>1 DEF AllEnded, process
    <3> QED
      BY <2>1, <3>2, <3>3, <3>4 DEF Phases, process
  <2>2. CASE /\ WaitReturns /\ MainStep("closing", "drained")
             /\ UNCHANGED <<graceful, storeOpen>>
    <3>1. Draining /\ [Next]_vars
      BY <2>2 DEF Phases, Next, MainStep
    <3>2. Draining'
      BY <3>1, StepDraining DEF RunTypeOK
    <3>3. pc' = "exited" /\ UNCHANGED <<done, accepted, beforeClose>>
      BY <2>2 DEF WaitReturns, worker, history
    <3>4. AllEnded' <=> AllEnded
      BY <2>2 DEF AllEnded, MainStep
    <3> QED
      BY <2>2, <3>2, <3>3, <3>4 DEF Phases, MainStep
  <2> QED
    BY <1>7, <2>1, <2>2 DEF CloseService
<1>8. CASE Background
  <2>1. [Next]_vars /\ UNCHANGED process /\ pc # "exited"
    BY <1>8 DEF Background, Next, Worker, Tick, Receive, TakeTick, SeeDone,
                DrainEmpty, IncrClickBy, RecordEvents
  <2>2. main \in {"serving", "shutdown", "closing"}
    BY <1>8, <2>1 DEF Background, Running, Phases, NoTracker, RunTypeOK
  <2>3. UNCHANGED <<stopper, done, accepted, beforeClose>>
    BY <1>8 DEF Background, Worker, Tick, Receive, TakeTick, SeeDone,
                DrainEmpty, IncrClickBy, RecordEvents, history
  <2>4. Draining
    BY <2>2 DEF Phases
  <2> QED
    BY <2>1, <2>2, <2>3, <2>4, PhasesTracker DEF process, RunTypeOK
<1>9. ASSUME NEW e \in Event, Arrive(e) \/ expandURL(e) \/ Respond(e)
      PROVE  Phases'
  <2>1. /\ main = "serving" \/ request[e] \in {"open", "found"}
        /\ Running /\ UNCHANGED <<main, graceful, storeOpen>>
    BY <1>9 DEF Arrive, expandURL, Respond, Step
  <2>2. ~graceful
    BY <2>1 DEF Phases, AllEnded
  <2>3. Draining
    BY <2>1 DEF Phases, AllEnded, Running, RunTypeOK
  <2>4. [Next]_vars /\ UNCHANGED <<stopper, pc>>
    BY <1>9 DEF Arrive, expandURL, Respond, Next, track, worker, vars
  <2> QED
    BY <2>1, <2>2, <2>3, <2>4, PhasesTracker DEF RunTypeOK
<1> QED
  BY <1>1, <1>2, <1>3, <1>4, <1>5, <1>6, <1>7, <1>8, <1>9 DEF RunNext

----------------------------------------------------------------------------
(* The inductive invariant, and what it gives. *)

LEMMA RunInductive == RunSpec => []RunIInv
<1>1. RunInit => RunIInv
  <2> SUFFICES ASSUME RunInit PROVE RunIInv
    OBVIOUS
  <2>1. <<>> \in Seq(Event) /\ Len(<<>>) = 0 /\ DOMAIN <<>> = {}
    BY EmptySeq, LenProperties
  <2>2. IsInjective(<<>>) /\ Range(<<>>) = {}
    BY <2>1 DEF IsInjective, Range
  <2>3. TypeOK
    <3> USE DEF RunInit
    <3>1. events \in Seq(Event) /\ Len(events) <= BufSize /\ batch \in Seq(Event)
      BY <2>1, TrackerAssumption
    <3>2. clicks \in [Link -> Nat] /\ breakdown \in [Event -> Nat]
      OBVIOUS
    <3>3. /\ done \in BOOLEAN /\ tick \in BOOLEAN /\ final \in BOOLEAN
          /\ pc \in {"select", "drain", "incr", "record", "exited"}
          /\ stopper \in {"idle", "waiting", "returned"}
      OBVIOUS
    <3>4. /\ todo \subseteq Link /\ accepted \subseteq Event
          /\ dropped \subseteq Event /\ beforeClose \subseteq Event
      OBVIOUS
    <3> QED
      BY <3>1, <3>2, <3>3, <3>4 DEF TypeOK
  <2>4. RunTypeOK
    <3>1. starts \in 1 .. MaxStarts
      BY ProcessAssumption DEF RunInit
    <3>2. request \in [Event -> {"none", "open", "found", "ended"}]
      BY DEF RunInit
    <3> QED
      BY <2>3, <3>1, <3>2 DEF RunInit, RunTypeOK
  <2>5. OnePlace
    BY <2>2, FS_EmptySet DEF RunInit, OnePlace
  <2>6. LostOutside
    BY DEF RunInit, LostOutside
  <2>7. Counted
    <3>1. \A l \in Link : EventsOf(l, Settled \ lost) = {}
      BY DEF RunInit, Settled, EventsOf
    <3> QED
      BY <3>1, FS_EmptySet DEF RunInit, Counted
  <2>8. Recorded
    BY DEF RunInit, Recorded
  <2>9. Phases
    BY DEF RunInit, Phases, NoTracker, AllEnded
  <2> QED
    BY <2>4, <2>5, <2>6, <2>7, <2>8, <2>9 DEF RunIInv
<1>2. RunIInv /\ [RunNext]_allVars => RunIInv'
  <2> SUFFICES ASSUME RunIInv, [RunNext]_allVars PROVE RunIInv'
    OBVIOUS
  <2>1. RunTypeOK /\ TypeOK /\ OnePlace /\ LostOutside /\ Counted /\ Recorded /\ Phases
    BY DEF RunIInv, RunTypeOK
  <2>2. RunTypeOK' /\ OnePlace' /\ LostOutside'
    BY <2>1, StepProcessTypes, StepRunOnePlace, StepLostOutside
  <2>3. Counted' /\ Recorded' /\ Phases'
    BY <2>1, StepCounted, StepRecorded, StepPhases
  <2> QED
    BY <2>2, <2>3 DEF RunIInv
<1> QED
  BY <1>1, <1>2, PTL DEF RunSpec

(* The process, its requests and the tracker inside it keep their types    *)
(* over any number of starts and kills (run, cmd/deeplink/main.go).        *)
THEOREM ProcessTyped == RunSpec => []RunTypeOK
<1>1. RunIInv => RunTypeOK
  BY DEF RunIInv
<1> QED
  BY <1>1, RunInductive, PTL

(* No flush of the tracker is in progress unless the store is open: the    *)
(* two deferred Close calls of run are in the right order.  And on no way  *)
(* out of run, a failing server.New included, is the store left open.      *)
THEOREM StoreOpenedAndClosed == RunSpec => []StoreLifetime
<1>1. RunIInv => StoreLifetime
  BY DEF RunIInv, Phases, NoTracker, StoreLifetime
<1> QED
  BY <1>1, RunInductive, PTL

(* When the store is closed, nothing accepted before service.Close was     *)
(* called waits, and nothing at all if Shutdown saw every request finish.  *)
THEOREM LossBounded == RunSpec => []LossIsBounded
<1>1. RunIInv => LossIsBounded
  <2> SUFFICES ASSUME RunIInv, main = "closed"
               PROVE  /\ Waiting \cap beforeClose = {}
                      /\ graceful => Waiting = {}
    BY DEF LossIsBounded
  <2>1. Range(<<>>) = {}
    BY EmptySeq, LenProperties DEF Range
  <2>2. CASE NoTracker
    BY <2>1, <2>2 DEF NoTracker, Waiting, Uncounted
  <2>3. CASE Draining /\ pc = "exited"
    <3>1. batch = <<>> /\ beforeClose \cap Range(events) = {} /\ done
      BY <2>3 DEF Draining
    <3>2. Waiting = Range(events) /\ Waiting \subseteq accepted
      BY <2>1, <2>3, <3>1 DEF Waiting, Uncounted, RunIInv, OnePlace
    <3>3. graceful => beforeClose = accepted
      BY <3>1 DEF RunIInv, Phases
    <3> QED
      BY <3>1, <3>2, <3>3
  <2> QED
    BY <2>2, <2>3 DEF RunIInv, Phases
<1> QED
  BY <1>1, RunInductive, PTL

(* Over any number of starts and kills, counters are the clicks accepted,  *)
(* without those waiting in a tracker, now or when a process ended.        *)
THEOREM ExactOverRestarts == RunSpec => []ExactAcrossRestarts
<1>1. RunIInv => ExactAcrossRestarts
  BY DEF RunIInv, Counted, ExactAcrossRestarts
<1> QED
  BY <1>1, RunInductive, PTL

(* Between two flushes the breakdowns differ from the counters only by     *)
(* events that a kill cut off between the two writes of flush (click.go).  *)
THEOREM DriftBounded == RunSpec => []DriftOnlyByKill
<1>1. RunIInv => DriftOnlyByKill
  <2> SUFFICES ASSUME RunIInv, ~StoreFaults, pc \notin {"incr", "record"},
                      NEW e \in Event
               PROVE  /\ e \in Settled \ (lost \cup torn) => breakdown[e] = 1
                      /\ breakdown[e] > 0 => breakdown[e] = 1 /\ e \in Settled \ lost
    BY DEF DriftOnlyByKill
  <2>1. Settled = accepted \ Inside
    BY DEF Settled, Waiting, Uncounted, Inside
  <2> QED
    BY <2>1 DEF RunIInv, Recorded
<1> QED
  BY <1>1, RunInductive, PTL

=============================================================================
