------------------------------ MODULE Shutdown ------------------------------
(***************************************************************************)
(* The life of the process (run in cmd/deeplink/main.go): it opens the     *)
(* store, builds the service and with it the tracker, and serves requests  *)
(* until a signal arrives or the listener fails; server.Shutdown waits for *)
(* the requests in progress, at most 30 seconds; then the deferred calls   *)
(* close the service, which stops the tracker, and after it the store.     *)
(* The process may also be killed at any moment, and is started again.     *)
(* Composed with the tracker: every event is the click of one request.     *)
(***************************************************************************)
EXTENDS ClickTracker

CONSTANTS Backend,    \* the values of DEEPLINK_STORE to consider
          MaxStarts   \* bound: how often the process is started

ASSUME ProcessAssumption ==
    /\ Backend \subseteq {"memory", "sqlite", "redis"}
    /\ MaxStarts \in Nat \ {0}

VARIABLES main,       \* where run is
          request,    \* where the handler of each event's request is
          backend,    \* DEEPLINK_STORE
          storeOpen,  \* is there a store that closeStore has yet to close?
          starts,     \* how often the process was started
          graceful,   \* history: did Shutdown see every request finish?
          lost,       \* history: events accepted and gone with a process
          torn        \* history: events counted by a flush that a kill cut off

process == <<main, request, backend, storeOpen, starts, graceful, lost, torn>>
allVars == <<vars, process>>

----------------------------------------------------------------------------
(* What a new tracker is, and what is left of one when the process ends.    *)

Tracker(state) == /\ events' = <<>> /\ done' = FALSE /\ tick' = FALSE
                  /\ pc' = state /\ batch' = <<>> /\ todo' = {}
                  /\ final' = FALSE /\ stopper' = "idle"

RunInit == /\ events = <<>> /\ done = FALSE /\ tick = FALSE
           /\ pc = "exited" /\ batch = <<>> /\ todo = {} /\ final = FALSE
           /\ stopper = "idle"
           /\ clicks = [l \in Link |-> 0] /\ breakdown = [e \in Event |-> 0]
           /\ accepted = {} /\ dropped = {} /\ beforeClose = {}
           /\ main = "starting" /\ request = [e \in Event |-> "none"]
           /\ backend \in Backend /\ storeOpen = FALSE /\ starts = 1
           /\ graceful = FALSE /\ lost = {} /\ torn = {}

Running == main \notin {"starting", "opened", "exited"}

\* Closing a memory store does nothing.
StoreAnswers == storeOpen \/ backend = "memory"

\* The handler of e's request moves on.
Step(e, from, to) ==
    /\ Running
    /\ request[e] = from /\ request' = [request EXCEPT ![e] = to]
    /\ UNCHANGED <<main, backend, storeOpen, starts, graceful, lost, torn>>

\* run moves on.
MainStep(from, to) == /\ main = from /\ main' = to
                      /\ UNCHANGED <<request, backend, starts, lost, torn>>

AllEnded == \A e \in Event : request[e] \in {"none", "ended"}

\* Bugs, one per property, for checking that the property can fail.
ShutdownAtOnce == MainStep("shutdown", "closing") /\ graceful' = TRUE
                  /\ UNCHANGED <<vars, storeOpen>>

CloseStoreEarly == /\ MainStep("closing", "closed") /\ storeOpen' = FALSE
                   /\ UNCHANGED <<vars, graceful>>

NoDeadline == /\ AllEnded /\ MainStep("shutdown", "closing")
              /\ UNCHANGED <<vars, graceful, storeOpen>>

----------------------------------------------------------------------------
(* Starting. *)

buildStore == /\ MainStep("starting", "opened") /\ storeOpen' = TRUE
              /\ UNCHANGED <<vars, graceful>>

\* The database cannot be opened, or Redis does not answer: nothing to close.
buildStoreFails == /\ backend # "memory"
                   /\ MainStep("starting", "exited")
                   /\ UNCHANGED <<vars, graceful, storeOpen>>

New == /\ MainStep("opened", "serving")
       /\ Tracker("select") /\ graceful' = FALSE
       /\ UNCHANGED <<store, history, storeOpen>>

\* A skip pattern or a template is wrong: run only closes the store.
NewFails == /\ MainStep("opened", "drained")
            /\ UNCHANGED <<vars, graceful, storeOpen>>

----------------------------------------------------------------------------
(* Requests.  A handler looks its link up in the store; if the store        *)
(* answers with a link, it tracks the click and responds, else it only      *)
(* responds.                                                                *)

Arrive(e) == main = "serving" /\ Step(e, "none", "open") /\ UNCHANGED vars

expandURL(e) == /\ \/ StoreAnswers /\ Step(e, "open", "found")
                   \/ Step(e, "open", "ended")
                /\ UNCHANGED vars

Respond(e) == Step(e, "found", "ended") /\ track(e)

----------------------------------------------------------------------------
(* Stopping. *)

Signal == /\ MainStep("serving", "shutdown")
          /\ UNCHANGED <<vars, graceful, storeOpen>>

\* ListenAndServe fails: run returns without waiting for anybody.
ServeFails == /\ MainStep("serving", "closing")
              /\ UNCHANGED <<vars, graceful, storeOpen>>

ShutdownReturns == /\ AllEnded /\ MainStep("shutdown", "closing")
                   /\ graceful' = TRUE /\ UNCHANGED <<vars, storeOpen>>

\* The 30 seconds are over.
ShutdownTimesOut == /\ MainStep("shutdown", "closing")
                    /\ UNCHANGED <<vars, graceful, storeOpen>>

\* service.Close, deferred last and so run first.
CloseService == \/ main = "closing" /\ CloseDone /\ UNCHANGED process
                \/ WaitReturns /\ MainStep("closing", "drained")
                   /\ UNCHANGED <<graceful, storeOpen>>

CloseStore == /\ MainStep("drained", "closed") /\ storeOpen' = FALSE
              /\ UNCHANGED <<vars, graceful>>

\* The process ends: every goroutine is gone, and a memory store with it;
\* what is open the system closes.
\* Events the worker had sent in the call it is cut off in are recorded.
End(sent) ==
    /\ main' = "exited" /\ storeOpen' = FALSE
    /\ request' = [e \in Event |-> IF request[e] = "none" THEN "none"
                                   ELSE "ended"]
    /\ Tracker("exited")
    /\ IF backend = "memory"
       THEN /\ clicks' = [l \in Link |-> 0]
            /\ breakdown' = [e \in Event |-> 0]
            /\ lost' = accepted
       ELSE /\ UNCHANGED clicks
            /\ breakdown' = [e \in Event |-> IF e \in sent THEN breakdown[e] + 1
                                             ELSE breakdown[e]]
            /\ lost' = lost \cup Waiting
    /\ UNCHANGED <<history, backend, starts, graceful>>

\* run returns, and main after it.
Exit == main = "closed" /\ End({}) /\ UNCHANGED torn

\* The process is killed.  Redis may have run a part of the pipeline that
\* RecordEvents was sending; a transaction of SQLite is rolled back.
Kill ==
    /\ Running
    /\ \E n \in IF pc = "record" /\ backend = "redis" THEN 0 .. Len(batch)
                ELSE {0} :
         End({batch[i] : i \in 1 .. n})
    /\ torn' = torn \cup (Range(batch) \ Uncounted)

Restart == /\ main = "exited" /\ starts < MaxStarts
           /\ main' = "starting" /\ starts' = starts + 1
           /\ UNCHANGED <<vars, request, backend, storeOpen, graceful, lost, torn>>

----------------------------------------------------------------------------
\* The worker of the tracker and its ticker.
Background == Running /\ (Worker \/ Tick) /\ UNCHANGED process

RunNext == \/ buildStore \/ buildStoreFails \/ New \/ NewFails
           \/ \E e \in Event : Arrive(e) \/ expandURL(e) \/ Respond(e)
           \/ Signal \/ ServeFails \/ ShutdownReturns \/ ShutdownTimesOut
           \/ CloseService \/ CloseStore \/ Exit
           \/ Kill \/ Restart
           \/ Background

RunSpec == RunInit /\ [][RunNext]_allVars

(* Shutdown returns after 30 seconds at the latest, the deferred calls run, *)
(* and the worker makes progress as in ClickTracker.  A handler need not    *)
(* ever finish: it may hang in a call of its own.                           *)
RunFairness ==
    /\ WF_allVars(ShutdownTimesOut) /\ WF_allVars(CloseService)
    /\ WF_allVars(CloseStore) /\ WF_allVars(Exit)
    /\ WF_allVars(Receive /\ Running /\ UNCHANGED process)
    /\ WF_allVars(SeeDone /\ Running /\ UNCHANGED process)
    /\ WF_allVars(DrainEmpty /\ Running /\ UNCHANGED process)
    /\ WF_allVars(RecordEvents /\ Running /\ UNCHANGED process)
    /\ WF_allVars((\E l \in Link : IncrClickBy(l)) /\ Running
                  /\ UNCHANGED process)

FairRunSpec == RunSpec /\ RunFairness

----------------------------------------------------------------------------
(* Types of the process and of the tracker inside it. *)
RunTypeOK ==
    /\ TypeOK
    /\ main \in {"starting", "opened", "serving", "shutdown", "closing",
                 "drained", "closed", "exited"}
    /\ request \in [Event -> {"none", "open", "found", "ended"}]
    /\ backend \in Backend /\ starts \in 1 .. MaxStarts
    /\ graceful \in BOOLEAN /\ storeOpen \in BOOLEAN
    /\ lost \subseteq accepted /\ torn \subseteq accepted

(* The store is closed only after the last flush: the deferred closeStore   *)
(* runs after service.Close, which waits for the worker; and a worker only  *)
(* runs over a store that was opened.  And it is closed: on no way out of   *)
(* run, that of a failing New included, is a store left open.               *)
StoreLifetime == /\ pc \in {"incr", "record"} => storeOpen
                 /\ main = "closed" => ~storeOpen

(* When the store is closed, every click accepted before service.Close was  *)
(* called has been handed to it, however the process came to stop; and if   *)
(* Shutdown did not run out of time, every accepted click at all.  What a    *)
(* handler tracks after that, because Shutdown gave up on it or the         *)
(* listener failed, is lost.                                                *)
LossIsBounded ==
    main = "closed" => /\ Waiting \cap beforeClose = {}
                       /\ graceful => Waiting = {}

(* Over any number of runs and kills, with a store whose calls succeed, a   *)
(* counter is exactly the clicks accepted for its link, without those that  *)
(* wait in the tracker and those that waited there when a process ended (or *)
(* were counted in the memory of one): a restart counts nothing again.      *)
ExactAcrossRestarts ==
    ~StoreFaults =>
      \A l \in Link : clicks[l] = Cardinality(EventsOf(l, Settled \ lost))

(* "breakdown sums may drift from the click total" (flush): between two     *)
(* flushes they differ at most by the events of a flush that a kill cut off *)
(* between its two writes, and never because something is in the breakdowns *)
(* that is not in the counter, or is there twice.                           *)
DriftOnlyByKill ==
    ~StoreFaults /\ pc \notin {"incr", "record"} =>
      \A e \in Event :
        /\ e \in Settled \ (lost \cup torn) => breakdown[e] = 1
        /\ breakdown[e] > 0 => breakdown[e] = 1 /\ e \in Settled \ lost

(* A signal ends the process, even if a handler hangs.                      *)
SignalEndsProcess == main = "shutdown" ~> main = "exited"

----------------------------------------------------------------------------
(* What makes these inductive. *)

Inside == Range(events) \cup Range(batch)

(* What is lost is not in the tracker any more. *)
LostOutside == lost \subseteq accepted \ Inside

Counted ==
    ~StoreFaults =>
      \A l \in Link : clicks[l] = Cardinality(EventsOf(l, Settled \ lost))

(* The breakdowns hold, once, what a worker has finished with. *)
Recorded ==
    ~StoreFaults =>
      \A e \in Event :
        /\ e \in accepted \ (Inside \cup lost \cup torn) => breakdown[e] = 1
        /\ breakdown[e] > 0 =>
             breakdown[e] = 1 /\ e \in accepted \ (Inside \cup lost)

NoTracker == /\ events = <<>> /\ batch = <<>> /\ pc = "exited"
             /\ ~done /\ ~final /\ stopper = "idle"

(* Where the tracker and the requests are while run goes through its parts. *)
Phases ==
    /\ storeOpen <=> main \notin {"starting", "closed", "exited"}
    /\ beforeClose \subseteq accepted
    /\ main \in {"starting", "opened", "exited"} => NoTracker /\ AllEnded
    /\ main \in {"serving", "shutdown"} => Draining /\ stopper = "idle"
    /\ main = "closing" => Draining
    /\ main \in {"drained", "closed"} => \/ (Draining /\ pc = "exited")
                                         \/ (NoTracker /\ AllEnded)
    /\ graceful => /\ main \notin {"serving", "shutdown"} /\ AllEnded
                   /\ done => beforeClose = accepted

RunIInv == RunTypeOK /\ OnePlace /\ LostOutside /\ Counted /\ Recorded /\ Phases

=============================================================================
