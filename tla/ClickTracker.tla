---------------------------- MODULE ClickTracker ----------------------------
(***************************************************************************)
(* The click tracker of click.go: request handlers put click events into a *)
(* bounded channel without ever blocking; one background worker gathers    *)
(* them into a batch and flushes the batch to the store when the ticker    *)
(* fires; stop closes the channel done, and the worker then drains the     *)
(* channel, flushes once more and exits.                                   *)
(*                                                                         *)
(* The store is seen through the two calls flush makes, IncrClickBy once   *)
(* per link and RecordEvents once per batch.  flush logs an error of       *)
(* either call and goes on, so all that matters of a call is how much of   *)
(* it took effect; with StoreFaults, any part of it may.                   *)
(***************************************************************************)
EXTENDS Integers, Sequences, FiniteSets, Functions

CONSTANTS Event,        \* click events, one per resolve request
          Link,         \* short IDs
          LinkOf,       \* ClickEvent.ShortID
          BufSize,      \* Config.ClickBufferSize, the capacity of the channel
          StoreFaults   \* may a store call fail, wholly or in part?

ASSUME TrackerAssumption ==
    /\ LinkOf \in [Event -> Link]
    /\ BufSize \in Nat \ {0}
    /\ StoreFaults \in BOOLEAN

VARIABLES
    events,     \* the channel ct.events
    done,       \* is the channel ct.done closed?
    tick,       \* does ticker.C hold a tick? (its capacity is one)
    pc,         \* where the worker is in run and flush
    batch,      \* run's batch
    todo,       \* the links flush has not called IncrClickBy for yet
    final,      \* is this the flush the worker exits after?
    stopper,    \* the caller of stop
    clicks,     \* the store: the click counter of each link
    breakdown,  \* the store: how often each event was added to the breakdowns
    accepted, dropped,   \* history: what track did with each event
    beforeClose          \* history: the events accepted before done was closed

worker == <<pc, batch, todo, final>>
store == <<clicks, breakdown>>
history == <<accepted, dropped, beforeClose>>
vars == <<events, done, tick, worker, stopper, store, history>>

----------------------------------------------------------------------------
EventsOf(l, S) == {e \in S : LinkOf[e] = l}

LinksOf(b) == {LinkOf[b[i]] : i \in DOMAIN b}

\* The events of the batch whose link's counter this flush has yet to bump.
Uncounted == IF pc = "record" THEN {}
             ELSE IF pc = "incr" THEN {e \in Range(batch) : LinkOf[e] \in todo}
             ELSE Range(batch)

\* Accepted events not counted yet, in the channel or with the worker.
Waiting == Range(events) \cup Uncounted

Settled == accepted \ Waiting

----------------------------------------------------------------------------
Init ==
    /\ events = <<>> /\ done = FALSE /\ tick = FALSE
    /\ pc = "select" /\ batch = <<>> /\ todo = {} /\ final = FALSE
    /\ stopper = "idle"
    /\ clicks = [l \in Link |-> 0] /\ breakdown = [e \in Event |-> 0]
    /\ accepted = {} /\ dropped = {} /\ beforeClose = {}

\* Bugs, one per property, for checking that the property can fail.
TrackUnbounded(e) ==
    /\ e \notin accepted \cup dropped
    /\ events' = Append(events, e) /\ accepted' = accepted \cup {e}
    /\ UNCHANGED <<dropped, beforeClose, done, tick, worker, stopper, store>>

CountOnce(l) == 1

CountWholeBatch(l) == Len(batch)

BreakInsteadOfReturn(b, last) ==
    IF b = <<>>
    THEN /\ pc' = (IF last THEN "drain" ELSE "select")
         /\ UNCHANGED <<todo, final>>
    ELSE /\ pc' = "incr" /\ todo' = LinksOf(b) /\ final' = last

KeepBatch == /\ pc' = (IF final THEN "exited" ELSE "select")
             /\ UNCHANGED batch

ExitAtOnce == /\ pc = "select" /\ done
              /\ pc' = "exited"
              /\ UNCHANGED <<events, done, tick, batch, todo, final, stopper,
                             store, history>>

FlushWithoutDraining ==
    /\ pc = "drain"
    /\ IF batch = <<>>
       THEN pc' = "exited" /\ UNCHANGED <<todo, final>>
       ELSE pc' = "incr" /\ todo' = LinksOf(batch) /\ final' = TRUE
    /\ UNCHANGED <<events, done, tick, batch, stopper, store, history>>

----------------------------------------------------------------------------
\* counts[id] of flush: how many events of the batch are about l.
Count(l) == Cardinality({i \in DOMAIN batch : LinkOf[batch[i]] = l})

(* Request handlers: track never blocks, whatever the worker is doing. *)

track(e) ==
    /\ e \notin accepted \cup dropped
    /\ IF Len(events) < BufSize
       THEN /\ events' = Append(events, e)
            /\ accepted' = accepted \cup {e}
            /\ UNCHANGED dropped
       ELSE /\ dropped' = dropped \cup {e}
            /\ UNCHANGED <<events, accepted>>
    /\ UNCHANGED <<beforeClose, done, tick, worker, stopper, store>>

(* stop: close(ct.done), then wait for the worker. *)

CloseDone ==
    /\ stopper = "idle"
    /\ stopper' = "waiting" /\ done' = TRUE /\ beforeClose' = accepted
    /\ UNCHANGED <<events, tick, worker, store, accepted, dropped>>

WaitReturns ==
    /\ stopper = "waiting" /\ pc = "exited"
    /\ stopper' = "returned"
    /\ UNCHANGED <<events, done, tick, worker, store, history>>

(* The ticker fires; a tick the worker has not taken yet absorbs the next. *)

Tick ==
    /\ ~tick /\ pc # "exited"
    /\ tick' = TRUE
    /\ UNCHANGED <<events, done, worker, stopper, store, history>>

----------------------------------------------------------------------------
(* The worker: run's select picks any ready case. *)

\* The call flush(b): nothing happens for an empty batch.
StartFlush(b, last) ==
    IF b = <<>>
    THEN /\ pc' = (IF last THEN "exited" ELSE "select")
         /\ UNCHANGED <<todo, final>>
    ELSE /\ pc' = "incr" /\ todo' = LinksOf(b) /\ final' = last

\* flush returns: to the loop, which empties the batch, or out of run.
EndFlush == /\ pc' = (IF final THEN "exited" ELSE "select")
            /\ batch' = <<>>

Receive ==
    /\ pc \in {"select", "drain"} /\ events # <<>>
    /\ batch' = Append(batch, Head(events)) /\ events' = Tail(events)
    /\ UNCHANGED <<done, tick, pc, todo, final, stopper, store, history>>

TakeTick ==
    /\ pc = "select" /\ tick
    /\ tick' = FALSE
    /\ StartFlush(batch, FALSE)
    /\ UNCHANGED <<events, done, batch, stopper, store, history>>

SeeDone ==
    /\ pc = "select" /\ done
    /\ pc' = "drain"
    /\ UNCHANGED <<events, done, tick, batch, todo, final, stopper, store,
                   history>>

DrainEmpty ==
    /\ pc = "drain" /\ events = <<>>
    /\ StartFlush(batch, TRUE)
    /\ UNCHANGED <<events, done, tick, batch, stopper, store, history>>

\* One IncrClickBy; flush walks the map counts in no particular order.
IncrClickBy(l) ==
    /\ pc = "incr" /\ l \in todo
    /\ \E took \in (IF StoreFaults THEN BOOLEAN ELSE {TRUE}) :
         clicks' = IF took THEN [clicks EXCEPT ![l] = @ + Count(l)] ELSE clicks
    /\ todo' = todo \ {l}
    /\ pc' = IF todo = {l} THEN "record" ELSE "incr"
    /\ UNCHANGED <<events, done, tick, batch, final, stopper, breakdown,
                   history>>

RecordEvents ==
    /\ pc = "record"
    /\ \E took \in (IF StoreFaults THEN SUBSET DOMAIN batch
                                   ELSE {DOMAIN batch}) :
         breakdown' = [e \in Event |-> breakdown[e]
                         + Cardinality({i \in took : batch[i] = e})]
    /\ EndFlush
    /\ UNCHANGED <<events, done, tick, todo, final, stopper, clicks, history>>

Worker == \/ Receive
          \/ TakeTick
          \/ SeeDone
          \/ DrainEmpty
          \/ \E l \in Link : IncrClickBy(l)
          \/ RecordEvents

Next == \/ \E e \in Event : track(e)
        \/ CloseDone
        \/ WaitReturns
        \/ Tick
        \/ Worker

Spec == Init /\ [][Next]_vars

(* The ticker keeps firing, a case of select that stays ready is picked in  *)
(* the end (Go picks among ready cases at random), store calls return       *)
(* (flush gives them a context of five seconds), and wg.Wait wakes up.      *)
(* Nothing says that requests arrive or that stop is called.                *)
Fairness == /\ WF_vars(Tick)
            /\ WF_vars(Receive)
            /\ WF_vars(TakeTick)
            /\ WF_vars(SeeDone)
            /\ WF_vars(DrainEmpty)
            /\ WF_vars(\E l \in Link : IncrClickBy(l))
            /\ WF_vars(RecordEvents)
            /\ WF_vars(WaitReturns)

FairSpec == Spec /\ Fairness

----------------------------------------------------------------------------
(* The values the variables take; in particular the channel is bounded. *)
TypeOK ==
    /\ events \in Seq(Event) /\ Len(events) <= BufSize
    /\ done \in BOOLEAN /\ tick \in BOOLEAN /\ final \in BOOLEAN
    /\ pc \in {"select", "drain", "incr", "record", "exited"}
    /\ batch \in Seq(Event)
    /\ todo \subseteq Link
    /\ stopper \in {"idle", "waiting", "returned"}
    /\ clicks \in [Link -> Nat]
    /\ breakdown \in [Event -> Nat]
    /\ accepted \subseteq Event /\ dropped \subseteq Event
    /\ beforeClose \subseteq Event

(* No click is counted twice, whatever the store does: a link's counter    *)
(* never exceeds the accepted events that left the tracker, and no event   *)
(* enters the breakdowns twice or while it still waits (flush, with the    *)
(* batch reset by run after every flush).                                  *)
AtMostOnce ==
    /\ \A l \in Link : clicks[l] <= Cardinality(EventsOf(l, Settled))
    /\ \A e \in Event : /\ breakdown[e] <= 1
                        /\ breakdown[e] = 1 => e \in Settled

(* With a store that does not fail nothing is lost inside the tracker: a   *)
(* link's counter is exactly its accepted events minus those waiting, and  *)
(* between two flushes the breakdowns hold exactly the events the counters *)
(* count.  So all the drift that flush's comment allows comes from failed  *)
(* store calls.                                                            *)
ExactWithoutFaults ==
    ~StoreFaults =>
      /\ \A l \in Link : clicks[l] = Cardinality(EventsOf(l, Settled))
      /\ pc \in {"select", "drain", "exited"} =>
           \A e \in Event : breakdown[e] = IF e \in Settled THEN 1 ELSE 0

(* When stop returns, every event accepted before it was called has been   *)
(* handed to the store (Service.Close: "drains any buffered click events").*)
(* Events tracked during or after stop have no such guarantee.             *)
DrainedWhenStopped ==
    stopper = "returned" => beforeClose \subseteq Settled

(* An event accepted while the tracker is open is handed to the store in   *)
(* the end, whether or not stop is called meanwhile.                       *)
EventuallySettled ==
    \A e \in Event : (e \in Waiting /\ ~done) ~> (e \in Settled)

(* stop returns: the drain loop, the last flush and the exit of the worker *)
(* all complete, whatever the finitely many events tracked meanwhile.      *)
StopReturns == (stopper = "waiting") ~> (stopper = "returned")

----------------------------------------------------------------------------
(* What makes AtMostOnce and DrainedWhenStopped inductive. *)

(* An event is at one place at a time: in the channel, in the batch, or    *)
(* gone; and what is in the tracker was accepted.                          *)
OnePlace ==
    /\ IsInjective(events) /\ IsInjective(batch)
    /\ Range(events) \cap Range(batch) = {}
    /\ Range(events) \cup Range(batch) \subseteq accepted
    /\ accepted \cap dropped = {}
    /\ IsFiniteSet(accepted)

(* The breakdowns hold only events the worker is done with. *)
RecordedOnce ==
    \A e \in Event :
      /\ breakdown[e] <= 1
      /\ breakdown[e] = 1 => e \in accepted \ (Range(events) \cup Range(batch))

(* The counters hold only events counted by this or an earlier flush. *)
CountedOnce == \A l \in Link : clicks[l] <= Cardinality(EventsOf(l, Settled))

(* From the last flush on, no event from before the close is in the channel. *)
Draining ==
    /\ beforeClose \subseteq accepted
    /\ done <=> stopper # "idle"
    /\ pc \in {"drain", "exited"} \/ final => done
    /\ pc = "exited" \/ (pc \in {"incr", "record"} /\ final)
         => beforeClose \cap Range(events) = {}
    /\ pc = "exited" => batch = <<>>
    /\ stopper = "returned" => pc = "exited"

IInv == TypeOK /\ OnePlace /\ RecordedOnce /\ CountedOnce /\ Draining

(* What makes ExactWithoutFaults inductive: RecordedOnce and CountedOnce    *)
(* with equality.                                                           *)
Exact ==
    /\ \A l \in Link : clicks[l] = Cardinality(EventsOf(l, Settled))
    /\ \A e \in Event :
         breakdown[e] = IF e \in accepted \ (Range(events) \cup Range(batch))
                        THEN 1 ELSE 0

----------------------------------------------------------------------------
(* The tracker implements the ledger. *)

FateOf(e) == IF e \in dropped THEN "dropped"
             ELSE IF e \in Waiting THEN "waiting"
             ELSE IF e \in accepted THEN "settled"
             ELSE "new"

Ledger == INSTANCE ClickLedger
            WITH fate <- [e \in Event |-> FateOf(e)], total <- clicks

(* Every step of handlers, ticker, worker and stop is a step the ledger    *)
(* allows, or changes nothing it sees.                                     *)
ImplementsLedger == Ledger!Spec

----------------------------------------------------------------------------
(* The tracker implements the flushes that LinkService works with. *)

Flushing == pc \in {"incr", "record"}

\* flush returns at once from an empty batch.
FlushSound == Flushing => batch # <<>>

\* Accepted events that no flush has taken, received by the worker or not.
Unflushed == Range(events) \cup (IF Flushing THEN {} ELSE Range(batch))

InFlush == IF Flushing THEN Range(batch) ELSE {}

InBreakdowns == {e \in Event : breakdown[e] = 1}

PerLink(S) == [l \in Link |-> Cardinality(EventsOf(l, S))]

Flushes == INSTANCE ClickFlushes
             WITH StoreForgets <- FALSE,
                  tracked <- PerLink(Unflushed), batch <- PerLink(InFlush),
                  uncounted <- IF pc = "incr" THEN todo ELSE {},
                  counted <- clicks, recorded <- PerLink(InBreakdowns)

(* Seen from the store, the tracker's buffering is invisible: the clicks it *)
(* accepts go out in whole flushes, one at a time, a count per link and     *)
(* then one call for the breakdowns, each with exactly the clicks the flush *)
(* took (flush of click.go, and run, which resets the batch).               *)
ImplementsFlushes == Flushes!Spec

=============================================================================
