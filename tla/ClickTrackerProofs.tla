------------------------- MODULE ClickTrackerProofs -------------------------
(***************************************************************************)
(* Proofs about the click tracker, for every set of events and links, every *)
(* buffer size and with or without store faults.                            *)
(***************************************************************************)
EXTENDS ClickTracker, FiniteSetTheorems, SequenceTheorems, TLAPS

----------------------------------------------------------------------------
(* Sequences without repetitions. *)

(* Appending a new element to a sequence without repetitions. *)
LEMMA AppendDistinct ==
    ASSUME NEW S, NEW s \in Seq(S), NEW e \in S, IsInjective(s), e \notin Range(s)
    PROVE  /\ Range(Append(s, e)) = Range(s) \cup {e}
           /\ IsInjective(Append(s, e))
<1> DEFINE t == Append(s, e)
<1>1. /\ Len(s) \in Nat /\ DOMAIN s = 1 .. Len(s)
      /\ t \in Seq(S) /\ Len(t) = Len(s) + 1
      /\ \A i \in 1 .. Len(s) : t[i] = s[i]
      /\ t[Len(s) + 1] = e
  BY LenProperties, AppendProperties
<1>2. DOMAIN t = 1 .. Len(s) + 1
  BY <1>1, LenProperties
<1> HIDE DEF t
<1>3. Range(t) = Range(s) \cup {e}
  BY <1>1, <1>2 DEF Range
<1>4. IsInjective(t)
  BY <1>1, <1>2 DEF Range, IsInjective
<1> QED
  BY <1>3, <1>4 DEF t

(* Removing the head of a sequence without repetitions. *)
LEMMA TailDistinct ==
    ASSUME NEW S, NEW s \in Seq(S), s # <<>>, IsInjective(s)
    PROVE  /\ Head(s) \in S /\ Tail(s) \in Seq(S)
           /\ Head(s) \in Range(s)
           /\ Range(Tail(s)) = Range(s) \ {Head(s)}
           /\ IsInjective(Tail(s))
<1> DEFINE t == Tail(s)
<1>1. /\ Len(s) \in Nat /\ Len(s) # 0 /\ DOMAIN s = 1 .. Len(s)
      /\ Head(s) \in S /\ Head(s) = s[1]
      /\ t \in Seq(S) /\ Len(t) = Len(s) - 1
      /\ \A i \in 1 .. Len(s) - 1 : t[i] = s[i + 1]
  BY LenProperties, HeadTailProperties, EmptySeq
<1>2. DOMAIN t = 1 .. Len(s) - 1
  BY <1>1, LenProperties
<1> HIDE DEF t
<1>3. \A j \in 2 .. Len(s) : j - 1 \in DOMAIN t /\ t[j - 1] = s[j]
  BY <1>1, <1>2
<1>4. Range(t) \subseteq Range(s) \ {s[1]}
  BY <1>1, <1>2 DEF Range, IsInjective
<1>5. Range(s) \ {s[1]} \subseteq Range(t)
  BY <1>1, <1>3 DEF Range
<1>6. IsInjective(t)
  <2> SUFFICES ASSUME NEW a \in DOMAIN t, NEW b \in DOMAIN t, t[a] = t[b]
               PROVE  a = b
    BY DEF IsInjective
  <2>1. /\ a + 1 \in DOMAIN s /\ t[a] = s[a + 1]
        /\ b + 1 \in DOMAIN s /\ t[b] = s[b + 1]
    BY <1>1, <1>2
  <2>2. a + 1 = b + 1
    BY <2>1 DEF IsInjective
  <2> QED
    BY <1>1, <1>2, <2>2
<1>7. s[1] \in Range(s)
  BY <1>1 DEF Range
<1> QED
  BY <1>1, <1>4, <1>5, <1>6, <1>7 DEF t

(* In a sequence without repetitions there are as many elements at some    *)
(* positions as there are positions: what flush counts per link, adding    *)
(* one per batch position, is the number of events of the link.            *)
LEMMA PositionsOfDistinct ==
    ASSUME NEW S, NEW s \in Seq(S), IsInjective(s),
           NEW I \in SUBSET DOMAIN s, NEW R,
           \A e : e \in R <=> \E i \in I : s[i] = e
    PROVE  /\ IsFiniteSet(I) /\ IsFiniteSet(R)
           /\ Cardinality(R) = Cardinality(I)
<1> DEFINE f == [i \in I |-> s[i]]
<1>1. IsFiniteSet(I)
  <2>1. Len(s) \in Nat /\ DOMAIN s = 1 .. Len(s)
    BY LenProperties
  <2>2. IsFiniteSet(1 .. Len(s))
    BY <2>1, FS_Interval
  <2> QED
    BY <2>1, <2>2, FS_Subset
<1>2. f \in Bijection(I, R)
  <2>1. f \in [I -> R]
    OBVIOUS
  <2>2. IsInjective(f)
    BY DEF IsInjective
  <2>3. \A e \in R : \E i \in I : f[i] = e
    OBVIOUS
  <2> QED
    BY <2>1, <2>2, <2>3 DEF Bijection, Injection, Surjection
<1>3. ExistsBijection(I, R)
  BY <1>2 DEF ExistsBijection
<1> QED
  BY <1>1, <1>3, FS_Bijection

----------------------------------------------------------------------------
(* Type correctness. *)

LEMMA InitTypeOK ==
    ASSUME Init
    PROVE  TypeOK
<1> USE TrackerAssumption DEF Init
<1>1. <<>> \in Seq(Event) /\ Len(<<>>) = 0
  BY EmptySeq
<1>2. events \in Seq(Event) /\ Len(events) <= BufSize /\ batch \in Seq(Event)
  BY <1>1
<1>3. clicks \in [Link -> Nat] /\ breakdown \in [Event -> Nat]
  OBVIOUS
<1>4. /\ done \in BOOLEAN /\ tick \in BOOLEAN /\ final \in BOOLEAN
      /\ pc \in {"select", "drain", "incr", "record", "exited"}
      /\ stopper \in {"idle", "waiting", "returned"}
  OBVIOUS
<1>5. /\ todo \subseteq Link /\ accepted \subseteq Event
      /\ dropped \subseteq Event /\ beforeClose \subseteq Event
  OBVIOUS
<1> QED
  BY <1>2, <1>3, <1>4, <1>5 DEF TypeOK
LEMMA StepTypeOK ==
    ASSUME TypeOK, [Next]_vars
    PROVE  TypeOK'
<1> USE TrackerAssumption DEF TypeOK
<1>1. ASSUME NEW e \in Event, track(e) PROVE TypeOK'
  <2>1. Append(events, e) \in Seq(Event) /\ Len(Append(events, e)) = Len(events) + 1
    BY AppendProperties
  <2>2. Len(events) \in Nat
    BY LenProperties
  <2>3. events' \in Seq(Event) /\ Len(events') <= BufSize
    <3>1. CASE Len(events) < BufSize
      <4>1. events' = Append(events, e)
        BY <1>1, <3>1 DEF track
      <4> QED
        BY <2>1, <2>2, <3>1, <4>1
    <3>2. CASE ~(Len(events) < BufSize)
      BY <1>1, <3>2 DEF track
    <3> QED
      BY <3>1, <3>2
  <2>4. accepted' \subseteq Event /\ dropped' \subseteq Event
    BY <1>1 DEF track
  <2> QED
    BY <1>1, <2>3, <2>4 DEF track, worker, store
<1>2. CASE CloseDone
  BY <1>2 DEF CloseDone, worker, store
<1>3. CASE WaitReturns
  BY <1>3 DEF WaitReturns, worker, store, history
<1>4. CASE Tick
  BY <1>4 DEF Tick, worker, store, history
<1>5. CASE Receive
  <2>1. /\ Head(events) \in Event /\ Tail(events) \in Seq(Event)
        /\ Len(Tail(events)) = Len(events) - 1
    BY <1>5, HeadTailProperties DEF Receive
  <2>2. Append(batch, Head(events)) \in Seq(Event)
    BY <2>1, AppendProperties
  <2>3. Len(events) \in Nat
    BY LenProperties
  <2> QED
    BY <1>5, <2>1, <2>2, <2>3 DEF Receive, store, history
<1>6. ASSUME NEW b \in Seq(Event) PROVE LinksOf(b) \subseteq Link
  BY LenProperties, ElementOfSeq DEF LinksOf
<1>7. CASE TakeTick
  BY <1>6, <1>7 DEF TakeTick, StartFlush, store, history
<1>8. CASE SeeDone
  BY <1>8 DEF SeeDone, store, history
<1>9. CASE DrainEmpty
  BY <1>6, <1>9 DEF DrainEmpty, StartFlush, store, history
<1>10. ASSUME NEW l \in Link, IncrClickBy(l) PROVE TypeOK'
  <2>1. Count(l) \in Nat
    <3>1. IsFiniteSet(DOMAIN batch)
      BY LenProperties, FS_Interval
    <3>2. IsFiniteSet({i \in DOMAIN batch : LinkOf[batch[i]] = l})
      BY <3>1, FS_Subset
    <3> QED
      BY <3>2, FS_CardinalityType DEF Count
  <2>2. clicks' \in [Link -> Nat]
    BY <1>10, <2>1 DEF IncrClickBy
  <2> QED
    BY <1>10, <2>2 DEF IncrClickBy, history
<1>11. CASE RecordEvents
  <2>1. ASSUME NEW took \in SUBSET DOMAIN batch, NEW e \in Event
        PROVE  Cardinality({i \in took : batch[i] = e}) \in Nat
    <3>1. IsFiniteSet(DOMAIN batch)
      BY LenProperties, FS_Interval
    <3>2. IsFiniteSet({i \in took : batch[i] = e})
      BY <3>1, FS_Subset
    <3> QED
      BY <3>2, FS_CardinalityType
  <2>2. PICK took \in SUBSET DOMAIN batch :
          breakdown' = [e \in Event |-> breakdown[e]
                          + Cardinality({i \in took : batch[i] = e})]
    BY <1>11 DEF RecordEvents
  <2>3. breakdown' \in [Event -> Nat]
    <3> DEFINE more(e) == Cardinality({i \in took : batch[i] = e})
    <3>1. \A e \in Event : more(e) \in Nat /\ breakdown[e] \in Nat
      BY <2>1
    <3>2. breakdown' = [e \in Event |-> breakdown[e] + more(e)]
      BY <2>2
    <3> HIDE DEF more, TypeOK
    <3> QED
      BY <3>1, <3>2
  <2>4. batch' \in Seq(Event)
    BY <1>11, EmptySeq DEF RecordEvents, EndFlush
  <2> QED
    BY <1>11, <2>3, <2>4 DEF RecordEvents, EndFlush, history
<1>12. CASE UNCHANGED vars
  BY <1>12 DEF vars, worker, store, history
<1> QED
  BY <1>1, <1>2, <1>3, <1>4, <1>5, <1>7, <1>8, <1>9, <1>10, <1>11, <1>12
  DEF Next, Worker

(* The variables keep their types, and the channel never holds more than   *)
(* BufSize events: track drops instead of overfilling it (click.go).       *)
THEOREM TypeCorrect == Spec => []TypeOK
<1>1. Init => TypeOK
  BY InitTypeOK
<1>2. TypeOK /\ [Next]_vars => TypeOK'
  BY StepTypeOK
<1> QED
  BY <1>1, <1>2, PTL DEF Spec

----------------------------------------------------------------------------
(* Every event is at one place at a time. *)

(* track puts the event at the end of the channel or leaves it as it is. *)
LEMMA TrackChannel ==
    ASSUME TypeOK, OnePlace, NEW e \in Event, track(e)
    PROVE  \/ /\ Range(events') = Range(events) \cup {e} /\ IsInjective(events')
              /\ accepted' = accepted \cup {e} /\ dropped' = dropped
           \/ /\ events' = events
              /\ accepted' = accepted /\ dropped' = dropped \cup {e}
<1>1. CASE Len(events) < BufSize
  <2>1. e \notin Range(events) /\ IsInjective(events)
    BY DEF track, OnePlace
  <2>2. events \in Seq(Event) /\ events' = Append(events, e)
    BY <1>1 DEF track, TypeOK
  <2>3. Range(events') = Range(events) \cup {e} /\ IsInjective(events')
    BY <2>1, <2>2, AppendDistinct
  <2> QED
    BY <1>1, <2>3 DEF track
<1>2. CASE ~(Len(events) < BufSize)
  BY <1>2 DEF track
<1> QED
  BY <1>1, <1>2

LEMMA InitOnePlace == Init => OnePlace
<1>1. DOMAIN <<>> = {}
  BY EmptySeq, LenProperties
<1>2. IsInjective(<<>>) /\ Range(<<>>) = {}
  BY <1>1 DEF IsInjective, Range
<1> QED
  BY <1>2, FS_EmptySet DEF Init, OnePlace

LEMMA StepOnePlace ==
    ASSUME TypeOK, OnePlace, [Next]_vars
    PROVE  OnePlace'
<1> USE DEF OnePlace
<1>1. IsInjective(<<>>) /\ Range(<<>>) = {}
  <2>1. DOMAIN <<>> = {}
    BY EmptySeq, LenProperties
  <2> QED
    BY <2>1 DEF IsInjective, Range
<1>2. ASSUME NEW e \in Event, track(e) PROVE OnePlace'
  <2>1. batch' = batch /\ e \notin accepted \cup dropped
    BY <1>2 DEF track, worker
  <2>2. IsFiniteSet(accepted \cup {e})
    BY FS_AddElement
  <2> QED
    BY <1>2, <2>1, <2>2, TrackChannel
<1>3. CASE Receive
  <2>1. /\ Head(events) \in Event /\ Head(events) \in Range(events)
        /\ Range(events') = Range(events) \ {Head(events)}
        /\ IsInjective(events')
    BY <1>3, TailDistinct DEF Receive, TypeOK
  <2>2. /\ Range(batch') = Range(batch) \cup {Head(events)}
        /\ IsInjective(batch')
    BY <1>3, <2>1, AppendDistinct DEF Receive, TypeOK
  <2> QED
    BY <1>3, <2>1, <2>2 DEF Receive, history
<1>4. CASE RecordEvents
  BY <1>1, <1>4 DEF RecordEvents, EndFlush, history
<1>5. CASE CloseDone
  BY <1>5 DEF CloseDone, worker
<1>6. CASE WaitReturns
  BY <1>6 DEF WaitReturns, worker, history
<1>7. CASE Tick
  BY <1>7 DEF Tick, worker, history
<1>8. CASE TakeTick
  BY <1>8 DEF TakeTick, history
<1>9. CASE SeeDone
  BY <1>9 DEF SeeDone, history
<1>10. CASE DrainEmpty
  BY <1>10 DEF DrainEmpty, history
<1>11. ASSUME NEW l \in Link, IncrClickBy(l) PROVE OnePlace'
  BY <1>11 DEF IncrClickBy, history
<1>12. CASE UNCHANGED vars
  BY <1>12 DEF vars, worker, history
<1> QED
  BY <1>2, <1>3, <1>4, <1>5, <1>6, <1>7, <1>8, <1>9, <1>10, <1>11, <1>12
  DEF Next, Worker

----------------------------------------------------------------------------
(* How a step moves events: track accepts or drops one, IncrClickBy counts *)
(* those of one link, and no other step changes what waits.                *)

LEMMA TrackMoves ==
    ASSUME TypeOK, OnePlace, NEW e \in Event, track(e)
    PROVE  /\ e \notin accepted \cup dropped \cup Waiting
           /\ clicks' = clicks
           /\ \/ /\ accepted' = accepted \cup {e} /\ dropped' = dropped
                 /\ Waiting' = Waiting \cup {e}
              \/ /\ accepted' = accepted /\ dropped' = dropped \cup {e}
                 /\ Waiting' = Waiting
<1>1. Uncounted' = Uncounted /\ clicks' = clicks
  BY DEF track, worker, store, Uncounted
<1>2. e \notin accepted \cup dropped /\ e \notin Range(events)
  BY DEF track, OnePlace
<1>3. Waiting \subseteq accepted
  BY DEF Waiting, Uncounted, OnePlace
<1> QED
  BY <1>1, <1>2, <1>3, TrackChannel DEF Waiting

LEMMA IncrMoves ==
    ASSUME TypeOK, OnePlace, NEW l \in Link, IncrClickBy(l)
    PROVE  LET S == EventsOf(l, Range(batch))
           IN  /\ S \subseteq Waiting /\ Waiting' = Waiting \ S
               /\ IsFiniteSet(S) /\ Count(l) = Cardinality(S)
               /\ \/ clicks' = [clicks EXCEPT ![l] = @ + Cardinality(S)]
                  \/ StoreFaults /\ clicks' = clicks
               /\ accepted' = accepted /\ dropped' = dropped
<1> DEFINE S == EventsOf(l, Range(batch))
<1>1. Range(batch) \subseteq Event
  BY ElementOfSeq, LenProperties DEF TypeOK, Range
<1>2. IsFiniteSet(S) /\ Count(l) = Cardinality(S)
  <2> DEFINE I == {i \in DOMAIN batch : LinkOf[batch[i]] = l}
  <2>1. batch \in Seq(Event) /\ IsInjective(batch)
    BY DEF TypeOK, OnePlace
  <2>2. \A e : e \in S <=> \E i \in I : batch[i] = e
    BY DEF EventsOf, Range
  <2>3. I \in SUBSET DOMAIN batch
    OBVIOUS
  <2> HIDE DEF S, I
  <2>4. IsFiniteSet(S) /\ Cardinality(S) = Cardinality(I)
    BY <2>1, <2>2, <2>3, PositionsOfDistinct
  <2> QED
    BY <2>4 DEF Count, I
<1>3. Uncounted = {e \in Range(batch) : LinkOf[e] \in todo} /\ l \in todo
  BY DEF IncrClickBy, Uncounted
<1>4. Uncounted' = {e \in Range(batch) : LinkOf[e] \in todo \ {l}}
  BY DEF IncrClickBy, Uncounted
<1>5. events' = events /\ S \cap Range(events) = {}
  BY DEF IncrClickBy, OnePlace, EventsOf
<1>6. S \subseteq Waiting /\ Waiting' = Waiting \ S
  BY <1>3, <1>4, <1>5 DEF Waiting, EventsOf
<1>7. accepted' = accepted /\ dropped' = dropped
  BY DEF IncrClickBy, history
<1>8. \/ clicks' = [clicks EXCEPT ![l] = @ + Cardinality(S)]
      \/ StoreFaults /\ clicks' = clicks
  BY <1>2 DEF IncrClickBy
<1> QED
  BY <1>2, <1>6, <1>7, <1>8

LEMMA OthersMoveNothing ==
    ASSUME TypeOK, OnePlace, [Next]_vars,
           ~ \E e \in Event : track(e), ~ \E l \in Link : IncrClickBy(l)
    PROVE  Waiting' = Waiting /\ UNCHANGED <<accepted, dropped, clicks>>
<1>1. Range(<<>>) = {}
  BY EmptySeq, LenProperties DEF Range
<1>2. ASSUME NEW e \in Range(batch) PROVE LinkOf[e] \in LinksOf(batch)
  BY DEF Range, LinksOf
<1>3. CASE Receive
  <2>1. /\ Head(events) \in Event /\ Head(events) \in Range(events)
        /\ Range(events') = Range(events) \ {Head(events)}
    BY <1>3, TailDistinct DEF Receive, TypeOK, OnePlace
  <2>2. Range(batch') = Range(batch) \cup {Head(events)}
    BY <1>3, <2>1, AppendDistinct DEF Receive, TypeOK, OnePlace
  <2> QED
    BY <1>3, <2>1, <2>2 DEF Receive, Waiting, Uncounted, store, history
<1>4. CASE RecordEvents
  BY <1>1, <1>4 DEF RecordEvents, EndFlush, history, Waiting, Uncounted
<1>5. CASE CloseDone
  BY <1>5 DEF CloseDone, worker, store, Waiting, Uncounted
<1>6. CASE WaitReturns
  BY <1>6 DEF WaitReturns, worker, store, history, Waiting, Uncounted
<1>7. CASE Tick
  BY <1>7 DEF Tick, worker, store, history, Waiting, Uncounted
<1>8. CASE TakeTick
  BY <1>1, <1>2, <1>8 DEF TakeTick, StartFlush, store, history, Waiting, Uncounted
<1>9. CASE SeeDone
  BY <1>9 DEF SeeDone, store, history, Waiting, Uncounted
<1>10. CASE DrainEmpty
  BY <1>1, <1>2, <1>10 DEF DrainEmpty, StartFlush, store, history, Waiting, Uncounted
<1>11. CASE UNCHANGED vars
  BY <1>11 DEF vars, worker, store, history, Waiting, Uncounted
<1> QED
  BY <1>3, <1>4, <1>5, <1>6, <1>7, <1>8, <1>9, <1>10, <1>11 DEF Next, Worker

----------------------------------------------------------------------------
(* The three parts of the inductive invariant about counting and closing. *)

LEMMA StepRecordedOnce ==
    ASSUME TypeOK, OnePlace, RecordedOnce, [Next]_vars
    PROVE  RecordedOnce'
<1> DEFINE Inside == Range(events) \cup Range(batch)
<1>1. Range(<<>>) = {}
  BY EmptySeq, LenProperties DEF Range
<1>2. ASSUME breakdown' = breakdown, accepted \subseteq accepted',
             Inside' \cap accepted \subseteq Inside
      PROVE  RecordedOnce'
  BY <1>2 DEF RecordedOnce
<1>3. ASSUME NEW e \in Event, track(e) PROVE RecordedOnce'
  <2>1. breakdown' = breakdown /\ accepted \subseteq accepted' /\ batch' = batch
    BY <1>3 DEF track, store, worker
  <2>2. Range(events') \cap accepted \subseteq Range(events)
    BY <1>3, TrackChannel DEF track
  <2> QED
    BY <1>2, <2>1, <2>2
<1>4. CASE Receive
  <2>1. /\ Head(events) \in Event /\ Head(events) \in Range(events)
        /\ Range(events') = Range(events) \ {Head(events)}
    BY <1>4, TailDistinct DEF Receive, TypeOK, OnePlace
  <2>2. Range(batch') = Range(batch) \cup {Head(events)}
    BY <1>4, <2>1, AppendDistinct DEF Receive, TypeOK, OnePlace
  <2> QED
    BY <1>2, <1>4, <2>1, <2>2 DEF Receive, store, history
<1>5. CASE RecordEvents
  <2>1. PICK took \in SUBSET DOMAIN batch :
          breakdown' = [e \in Event |-> breakdown[e]
                          + Cardinality({i \in took : batch[i] = e})]
    BY <1>5 DEF RecordEvents
  <2>2. Inside' = Range(events) /\ accepted' = accepted
    BY <1>1, <1>5 DEF RecordEvents, EndFlush, history
  <2> SUFFICES ASSUME NEW e \in Event
               PROVE  /\ breakdown'[e] <= 1
                      /\ breakdown'[e] = 1 => e \in accepted' \ Inside'
    BY DEF RecordedOnce
  <2> DEFINE T == {i \in took : batch[i] = e}
  <2>3. breakdown'[e] = breakdown[e] + Cardinality(T) /\ breakdown[e] \in Nat
    BY <2>1 DEF TypeOK
  <2>4. breakdown[e] <= 1 /\ (breakdown[e] = 1 => e \in accepted \ Inside)
    BY DEF RecordedOnce
  <2>5. CASE T = {}
    <3>1. breakdown'[e] = breakdown[e]
      BY <2>3, <2>5, FS_EmptySet
    <3> QED
      BY <2>2, <2>4, <3>1
  <2>6. CASE T # {}
    <3>1. PICK i \in took : batch[i] = e
      BY <2>6
    <3>2. \A j \in took : batch[j] = e => j = i
      BY <3>1 DEF OnePlace, IsInjective
    <3>3. T = {i}
      BY <3>1, <3>2
    <3>4. Cardinality(T) = 1
      BY <3>3, FS_Singleton
    <3>5. e \in Range(batch) /\ e \in accepted /\ e \notin Range(events)
      BY <3>1 DEF Range, OnePlace
    <3>6. breakdown[e] = 0
      BY <2>3, <2>4, <3>5
    <3> QED
      BY <2>2, <2>3, <3>4, <3>5, <3>6
  <2> QED
    BY <2>5, <2>6
<1>6. CASE CloseDone
  BY <1>2, <1>6 DEF CloseDone, worker, store
<1>7. CASE WaitReturns
  BY <1>2, <1>7 DEF WaitReturns, worker, store, history
<1>8. CASE Tick
  BY <1>2, <1>8 DEF Tick, worker, store, history
<1>9. CASE TakeTick
  BY <1>2, <1>9 DEF TakeTick, store, history
<1>10. CASE SeeDone
  BY <1>2, <1>10 DEF SeeDone, store, history
<1>11. CASE DrainEmpty
  BY <1>2, <1>11 DEF DrainEmpty, store, history
<1>12. ASSUME NEW l \in Link, IncrClickBy(l) PROVE RecordedOnce'
  BY <1>2, <1>12 DEF IncrClickBy, history
<1>13. CASE UNCHANGED vars
  BY <1>2, <1>13 DEF vars, worker, store, history
<1> QED
  BY <1>3, <1>4, <1>5, <1>6, <1>7, <1>8, <1>9, <1>10, <1>11, <1>12, <1>13
  DEF Next, Worker

LEMMA StepCountedOnce ==
    ASSUME TypeOK, OnePlace, CountedOnce, [Next]_vars
    PROVE  CountedOnce'
<1>1. ASSUME Settled' = Settled, clicks' = clicks PROVE CountedOnce'
  BY <1>1 DEF CountedOnce, EventsOf
<1>2. Waiting \subseteq accepted
  BY DEF Waiting, Uncounted, OnePlace
<1>3. ASSUME NEW e \in Event, track(e) PROVE CountedOnce'
  BY <1>1, <1>3, TrackMoves DEF Settled
<1>4. ASSUME NEW l \in Link, IncrClickBy(l) PROVE CountedOnce'
  <2> DEFINE S == EventsOf(l, Range(batch))
  <2>1. /\ S \subseteq Waiting /\ Waiting' = Waiting \ S
        /\ IsFiniteSet(S) /\ accepted' = accepted
        /\ \/ clicks' = [clicks EXCEPT ![l] = @ + Cardinality(S)]
           \/ clicks' = clicks
    BY <1>4, IncrMoves
  <2>2. S \subseteq EventsOf(l, Waiting)
    BY <2>1 DEF EventsOf
  <2>3. Settled' = Settled \cup S /\ Settled \cap S = {} /\ IsFiniteSet(Settled)
    BY <1>2, <2>1, FS_Difference DEF Settled, OnePlace
  <2> SUFFICES ASSUME NEW m \in Link
               PROVE  clicks'[m] <= Cardinality(EventsOf(m, Settled'))
    BY DEF CountedOnce
  <2> DEFINE Old == EventsOf(m, Settled)
  <2>4. /\ IsFiniteSet(Old) /\ Cardinality(Old) \in Nat
        /\ clicks[m] \in Nat /\ clicks[m] <= Cardinality(Old)
    BY <2>3, FS_Subset, FS_CardinalityType DEF EventsOf, CountedOnce, TypeOK
  <2>5. CASE m = l
    <3>1. EventsOf(m, Settled') = Old \cup S /\ Old \cap S = {}
      BY <2>3, <2>5 DEF EventsOf
    <3>2. IsFiniteSet(S) /\ Cardinality(S) \in Nat
      BY <2>1, FS_CardinalityType
    <3>3. Cardinality(EventsOf(m, Settled')) = Cardinality(Old) + Cardinality(S)
      <4> HIDE DEF S, Old
      <4>1. Cardinality(Old \cup S) = Cardinality(Old) + Cardinality(S) - Cardinality({})
        BY <2>4, <3>1, <3>2, FS_Union
      <4> QED
        BY <2>4, <3>1, <3>2, <4>1, FS_EmptySet
    <3>4. clicks'[m] = clicks[m] + Cardinality(S) \/ clicks'[m] = clicks[m]
      BY <2>1, <2>5 DEF TypeOK
    <3> HIDE DEF S, Old
    <3> QED
      BY <2>4, <3>2, <3>3, <3>4
  <2>6. CASE m # l
    <3>1. EventsOf(m, Settled') = Old
      BY <2>3, <2>6 DEF EventsOf
    <3>2. clicks'[m] = clicks[m]
      BY <2>1, <2>6 DEF TypeOK
    <3> QED
      BY <2>4, <3>1, <3>2
  <2> QED
    BY <2>5, <2>6
<1> QED
  <2>1. CASE /\ ~ \E e \in Event : track(e)
             /\ ~ \E l \in Link : IncrClickBy(l)
    BY <1>1, <2>1, OthersMoveNothing DEF Settled
  <2> QED
    BY <1>3, <1>4, <2>1

LEMMA StepDraining ==
    ASSUME TypeOK, OnePlace, Draining, [Next]_vars
    PROVE  Draining'
<1> USE DEF Draining
<1>1. ASSUME NEW e \in Event, track(e) PROVE Draining'
  <2>1. beforeClose \cap Range(events') = beforeClose \cap Range(events)
    BY <1>1, TrackChannel DEF track
  <2> QED
    BY <1>1, <2>1 DEF track, worker, TypeOK
<1>2. CASE CloseDone
  BY <1>2 DEF CloseDone, worker, TypeOK
<1>3. CASE WaitReturns
  BY <1>3 DEF WaitReturns, worker, history
<1>4. CASE Tick
  BY <1>4 DEF Tick, worker, history
<1>5. CASE Receive
  <2>1. Range(events') \subseteq Range(events)
    BY <1>5, TailDistinct DEF Receive, TypeOK, OnePlace
  <2> QED
    BY <1>5, <2>1 DEF Receive, history
<1>6. CASE TakeTick
  BY <1>6 DEF TakeTick, StartFlush, history, TypeOK
<1>7. CASE SeeDone
  BY <1>7 DEF SeeDone, history
<1>8. CASE DrainEmpty
  <2>1. Range(events) = {}
    BY <1>8, EmptySeq, LenProperties DEF Range, DrainEmpty
  <2> QED
    BY <1>8, <2>1 DEF DrainEmpty, StartFlush, history, TypeOK
<1>9. ASSUME NEW l \in Link, IncrClickBy(l) PROVE Draining'
  BY <1>9 DEF IncrClickBy, history
<1>10. CASE RecordEvents
  BY <1>10 DEF RecordEvents, EndFlush, history, TypeOK
<1>11. CASE UNCHANGED vars
  BY <1>11 DEF vars, worker, history
<1> QED
  BY <1>1, <1>2, <1>3, <1>4, <1>5, <1>6, <1>7, <1>8, <1>9, <1>10, <1>11
  DEF Next, Worker

----------------------------------------------------------------------------
(* Without store faults the counts are exact. *)

(* What a step does to the counters: apart from a set of settled events    *)
(* that are not counted, they remain exact.                                *)
LEMMA CountedExactly ==
    ASSUME TypeOK, OnePlace, ~StoreFaults, [Next]_vars,
           NEW L, L \subseteq Settled,
           \A l \in Link : clicks[l] = Cardinality(EventsOf(l, Settled \ L))
    PROVE  /\ \A l \in Link : clicks'[l] = Cardinality(EventsOf(l, Settled' \ L))
           /\ L \subseteq Settled'
<1>1. ASSUME Settled' = Settled, clicks' = clicks
      PROVE  /\ \A l \in Link : clicks'[l] = Cardinality(EventsOf(l, Settled' \ L))
             /\ L \subseteq Settled'
  BY <1>1 DEF EventsOf
<1>2. Waiting \subseteq accepted
  BY DEF Waiting, Uncounted, OnePlace
<1>3. CASE \E e \in Event : track(e)
  BY <1>1, <1>3, TrackMoves DEF Settled
<1>4. ASSUME NEW l \in Link, IncrClickBy(l)
      PROVE  /\ \A m \in Link : clicks'[m] = Cardinality(EventsOf(m, Settled' \ L))
             /\ L \subseteq Settled'
  <2> DEFINE S == EventsOf(l, Range(batch))
  <2>1. /\ S \subseteq Waiting /\ Waiting' = Waiting \ S
        /\ IsFiniteSet(S) /\ accepted' = accepted
        /\ clicks' = [clicks EXCEPT ![l] = @ + Cardinality(S)]
    BY <1>4, IncrMoves
  <2>2. Settled' = Settled \cup S /\ Settled \cap S = {} /\ IsFiniteSet(Settled)
    BY <1>2, <2>1, FS_Difference DEF Settled, OnePlace
  <2> SUFFICES ASSUME NEW m \in Link
               PROVE  clicks'[m] = Cardinality(EventsOf(m, Settled' \ L))
    BY <2>2
  <2> DEFINE Old == EventsOf(m, Settled \ L)
  <2>3. /\ IsFiniteSet(Old) /\ Cardinality(Old) \in Nat
        /\ clicks[m] \in Nat /\ clicks[m] = Cardinality(Old)
    BY <2>2, FS_Subset, FS_CardinalityType DEF EventsOf, TypeOK
  <2>4. CASE m = l
    <3>1. EventsOf(m, Settled' \ L) = Old \cup S /\ Old \cap S = {}
      BY <2>2, <2>4 DEF EventsOf
    <3>2. IsFiniteSet(S) /\ Cardinality(S) \in Nat
      BY <2>1, FS_CardinalityType
    <3>3. Cardinality(EventsOf(m, Settled' \ L)) = Cardinality(Old) + Cardinality(S)
      <4> HIDE DEF S, Old
      <4>1. Cardinality(Old \cup S) = Cardinality(Old) + Cardinality(S) - Cardinality({})
        BY <2>3, <3>1, <3>2, FS_Union
      <4>2. Cardinality({}) = 0
        BY FS_EmptySet
      <4>3. Cardinality(Old \cup S) = Cardinality(Old) + Cardinality(S)
        BY <2>3, <3>2, <4>1, <4>2
      <4> QED
        BY <3>1, <4>3
    <3>4. clicks'[m] = clicks[m] + Cardinality(S)
      BY <2>1, <2>4 DEF TypeOK
    <3> HIDE DEF S, Old
    <3> QED
      BY <2>3, <3>3, <3>4
  <2>5. CASE m # l
    <3>1. EventsOf(m, Settled' \ L) = Old
      BY <2>2, <2>5 DEF EventsOf
    <3>2. clicks'[m] = clicks[m]
      BY <2>1, <2>5 DEF TypeOK
    <3> QED
      BY <2>3, <3>1, <3>2
  <2> QED
    BY <2>4, <2>5
<1> QED
  <2>1. CASE /\ ~ \E e \in Event : track(e)
             /\ ~ \E l \in Link : IncrClickBy(l)
    BY <1>1, <2>1, OthersMoveNothing DEF Settled
  <2> QED
    BY <1>3, <1>4, <2>1

(* What RecordEvents does: of a batch without repetitions every event goes *)
(* into the breakdowns once, and no other.                                 *)
LEMMA RecordsBatch ==
    ASSUME TypeOK, OnePlace, ~StoreFaults, RecordEvents
    PROVE  \A e \in Event :
             breakdown'[e] = IF e \in Range(batch) THEN breakdown[e] + 1
                             ELSE breakdown[e]
<1> SUFFICES ASSUME NEW e \in Event
             PROVE  breakdown'[e] = IF e \in Range(batch) THEN breakdown[e] + 1
                                    ELSE breakdown[e]
  OBVIOUS
<1> DEFINE T == {i \in DOMAIN batch : batch[i] = e}
<1>1. breakdown'[e] = breakdown[e] + Cardinality(T) /\ breakdown[e] \in Nat
  BY DEF RecordEvents, TypeOK
<1>2. CASE e \notin Range(batch)
  <2>1. T = {}
    BY <1>2 DEF Range
  <2> QED
    BY <1>1, <1>2, <2>1, FS_EmptySet
<1>3. CASE e \in Range(batch)
  <2>1. PICK i \in DOMAIN batch : batch[i] = e
    BY <1>3 DEF Range
  <2>2. T = {i}
    BY <2>1 DEF OnePlace, IsInjective
  <2>3. Cardinality(T) = 1
    BY <2>2, FS_Singleton
  <2> QED
    BY <1>1, <1>3, <2>3
<1> QED
  BY <1>2, <1>3

(* A step that is not RecordEvents changes neither the breakdowns nor, but *)
(* for an event just accepted, what is inside the tracker.                 *)
LEMMA RecordsNothing ==
    ASSUME TypeOK, OnePlace, [Next]_vars, ~RecordEvents
    PROVE  /\ breakdown' = breakdown
           /\ accepted' \ (Range(events') \cup Range(batch'))
                = accepted \ (Range(events) \cup Range(batch))
<1>1. CASE \E e \in Event : track(e)
  <2>1. PICK e \in Event : track(e)
    BY <1>1
  <2>2. e \notin accepted /\ batch' = batch /\ breakdown' = breakdown
    BY <2>1 DEF track, worker, store
  <2> QED
    BY <2>1, <2>2, TrackChannel
<1>2. CASE Receive
  <2>1. /\ Head(events) \in Event /\ Head(events) \in Range(events)
        /\ Range(events') = Range(events) \ {Head(events)}
    BY <1>2, TailDistinct DEF Receive, TypeOK, OnePlace
  <2>2. Range(batch') = Range(batch) \cup {Head(events)}
    BY <1>2, <2>1, AppendDistinct DEF Receive, TypeOK, OnePlace
  <2> QED
    BY <1>2, <2>1, <2>2 DEF Receive, store, history
<1>3. ASSUME UNCHANGED <<events, batch, accepted, breakdown>>
      PROVE  /\ breakdown' = breakdown
             /\ accepted' \ (Range(events') \cup Range(batch'))
                  = accepted \ (Range(events) \cup Range(batch))
  BY <1>3
<1>4. CASE CloseDone \/ WaitReturns \/ Tick
  BY <1>3, <1>4 DEF CloseDone, WaitReturns, Tick, worker, store, history
<1>5. CASE TakeTick \/ SeeDone \/ DrainEmpty
  BY <1>3, <1>5 DEF TakeTick, SeeDone, DrainEmpty, store, history
<1>6. CASE \E l \in Link : IncrClickBy(l)
  BY <1>3, <1>6 DEF IncrClickBy, history
<1>7. CASE UNCHANGED vars
  BY <1>3, <1>7 DEF vars, worker, store, history
<1> QED
  BY <1>1, <1>2, <1>4, <1>5, <1>6, <1>7 DEF Next, Worker

LEMMA StepExact ==
    ASSUME TypeOK, OnePlace, ~StoreFaults, Exact, [Next]_vars
    PROVE  Exact'
<1> DEFINE Out == accepted \ (Range(events) \cup Range(batch))
<1>1. \A l \in Link : clicks'[l] = Cardinality(EventsOf(l, Settled'))
  <2>1. \A l \in Link : clicks[l] = Cardinality(EventsOf(l, Settled \ {}))
    BY DEF Exact, EventsOf
  <2>2. \A l \in Link : clicks'[l] = Cardinality(EventsOf(l, Settled' \ {}))
    BY <2>1, CountedExactly
  <2> QED
    BY <2>2 DEF EventsOf
<1>2. \A e \in Event : breakdown'[e] = IF e \in Out' THEN 1 ELSE 0
  <2>1. CASE RecordEvents
    <3>1. Range(<<>>) = {}
      BY EmptySeq, LenProperties DEF Range
    <3>2. Out' = Out \cup Range(batch)
      BY <2>1, <3>1 DEF RecordEvents, EndFlush, history, OnePlace
    <3>3. Out \cap Range(batch) = {}
      OBVIOUS
    <3> HIDE DEF Out
    <3>4. \A e \in Event : breakdown[e] = IF e \in Out THEN 1 ELSE 0
      BY DEF Exact, Out
    <3> QED
      BY <2>1, <3>2, <3>3, <3>4, RecordsBatch
  <2>2. CASE ~RecordEvents
    BY <2>2, RecordsNothing DEF Exact
  <2> QED
    BY <2>1, <2>2
<1> QED
  BY <1>1, <1>2 DEF Exact

----------------------------------------------------------------------------
(* The inductive invariant, and what it gives. *)

LEMMA Inductive == Spec => []IInv
<1>1. Init => IInv
  <2> SUFFICES ASSUME Init PROVE IInv
    OBVIOUS
  <2>1. TypeOK
    BY InitTypeOK
  <2>2. OnePlace
    BY InitOnePlace
  <2>3. RecordedOnce
    BY DEF Init, RecordedOnce
  <2>4. CountedOnce
    <3>1. ASSUME NEW l \in Link PROVE 0 <= Cardinality(EventsOf(l, Settled))
      <4>1. EventsOf(l, Settled) = {}
        BY DEF Init, Settled, EventsOf
      <4> QED
        BY <4>1, FS_EmptySet
    <3> QED
      BY <3>1 DEF Init, CountedOnce
  <2>5. Draining
    BY DEF Init, Draining
  <2> QED
    BY <2>1, <2>2, <2>3, <2>4, <2>5 DEF IInv
<1>2. IInv /\ [Next]_vars => IInv'
  BY StepTypeOK, StepOnePlace, StepRecordedOnce, StepCountedOnce, StepDraining
  DEF IInv
<1> QED
  BY <1>1, <1>2, PTL DEF Spec

(* No click is counted twice: a link's counter never exceeds the accepted  *)
(* events that have left the tracker, and no event enters the breakdowns   *)
(* twice or early, whatever the store does (flush and run of click.go).    *)
THEOREM NeverCountedTwice == Spec => []AtMostOnce
<1>1. IInv => AtMostOnce
  <2> SUFFICES ASSUME IInv, NEW e \in Event, breakdown[e] = 1
               PROVE  e \in Settled
    BY DEF IInv, AtMostOnce, CountedOnce, RecordedOnce
  <2> QED
    BY DEF IInv, RecordedOnce, Settled, Waiting, Uncounted
<1> QED
  BY <1>1, Inductive, PTL

(* When stop returns, every event accepted before it was called has been   *)
(* handed to the store (stop and the drain loop of run, click.go).         *)
THEOREM StopDrains == Spec => []DrainedWhenStopped
<1>1. IInv => DrainedWhenStopped
  <2> SUFFICES ASSUME IInv, stopper = "returned"
               PROVE  beforeClose \subseteq Settled
    BY DEF DrainedWhenStopped
  <2>1. pc = "exited" /\ batch = <<>> /\ beforeClose \cap Range(events) = {}
        /\ beforeClose \subseteq accepted
    BY DEF IInv, Draining
  <2>2. Range(batch) = {}
    BY <2>1, EmptySeq, LenProperties DEF Range
  <2> QED
    BY <2>1, <2>2 DEF Settled, Waiting, Uncounted
<1> QED
  BY <1>1, Inductive, PTL

(* With a store that does not fail nothing is lost or counted twice inside *)
(* the tracker (run and flush of click.go): every counter is exact at any  *)
(* moment, and the breakdowns are between two flushes.                     *)
THEOREM ExactCounts == Spec => []ExactWithoutFaults
<1> DEFINE P == ~StoreFaults => Exact
<1>1. Init => P
  <2> SUFFICES ASSUME Init, ~StoreFaults PROVE Exact
    OBVIOUS
  <2>1. \A l \in Link : EventsOf(l, Settled) = {}
    BY DEF Init, Settled, EventsOf
  <2> QED
    BY <2>1, FS_EmptySet DEF Init, Exact
<1>2. IInv /\ P /\ [Next]_vars => P'
  BY StepExact DEF IInv
<1>3. IInv /\ P => ExactWithoutFaults
  <2> SUFFICES ASSUME IInv, ~StoreFaults, Exact PROVE ExactWithoutFaults
    BY DEF ExactWithoutFaults
  <2>1. pc \in {"select", "drain", "exited"}
          => Settled = accepted \ (Range(events) \cup Range(batch))
    BY DEF Settled, Waiting, Uncounted
  <2> QED
    BY <2>1 DEF Exact, ExactWithoutFaults
<1> QED
  <2> HIDE DEF P
  <2> QED
    BY <1>1, <1>2, <1>3, Inductive, PTL DEF Spec

----------------------------------------------------------------------------
(* Refinement. *)

(* The tracker implements the ledger: each step of the code accepts or     *)
(* drops one new event, settles all waiting events of one link together,   *)
(* or changes nothing the ledger sees.                                     *)
THEOREM TrackerImplementsLedger == Spec => ImplementsLedger
<1> DEFINE Fate == [e \in Event |-> FateOf(e)]
<1>1. Init => Ledger!Init
  <2> SUFFICES ASSUME Init PROVE Ledger!Init
    OBVIOUS
  <2>1. Range(<<>>) = {}
    BY EmptySeq, LenProperties DEF Range
  <2>2. \A e \in Event : FateOf(e) = "new"
    BY <2>1 DEF Init, FateOf, Waiting, Uncounted
  <2> QED
    BY <2>2 DEF Init, Ledger!Init
<1>2. IInv /\ [Next]_vars => [Ledger!Next]_(Ledger!vars)
  <2> SUFFICES ASSUME IInv, [Next]_vars
               PROVE  Ledger!Next \/ UNCHANGED Ledger!vars
    OBVIOUS
  <2>1. TypeOK /\ OnePlace /\ Waiting \subseteq accepted
    BY DEF IInv, Waiting, Uncounted, OnePlace
  <2>2. CASE \E e \in Event : track(e)
    <3>1. PICK e \in Event : track(e)
      BY <2>2
    <3>2. FateOf(e) = "new" /\ clicks' = clicks
      BY <2>1, <3>1, TrackMoves DEF FateOf
    <3>3. FateOf(e)' \in {"waiting", "dropped"}
      BY <2>1, <3>1, TrackMoves DEF FateOf, OnePlace
    <3>4. \A d \in Event : d # e => FateOf(d)' = FateOf(d)
      BY <2>1, <3>1, TrackMoves DEF FateOf
    <3>5. Fate' = [Fate EXCEPT ![e] = FateOf(e)']
      BY <3>4
    <3>6. Ledger!Accept(e) \/ Ledger!Drop(e)
      BY <3>2, <3>3, <3>5 DEF Ledger!Accept, Ledger!Drop
    <3> QED
      BY <3>6 DEF Ledger!Next
  <2>3. CASE \E l \in Link : IncrClickBy(l)
    <3>1. PICK l \in Link : IncrClickBy(l)
      BY <2>3
    <3> DEFINE S == EventsOf(l, Range(batch))
    <3>2. /\ S \subseteq Waiting /\ Waiting' = Waiting \ S
          /\ \/ clicks' = [clicks EXCEPT ![l] = @ + Cardinality(S)]
             \/ StoreFaults /\ clicks' = clicks
          /\ accepted' = accepted /\ dropped' = dropped
      BY <2>1, <3>1, IncrMoves
    <3>3. S \subseteq Event /\ \A e \in S : LinkOf[e] = l
      BY <2>1, <3>2 DEF EventsOf, TypeOK
    <3>4. \A e \in S : FateOf(e) = "waiting" /\ FateOf(e)' = "settled"
      BY <2>1, <3>2 DEF FateOf, OnePlace
    <3>5. \A e \in Event \ S : FateOf(e)' = FateOf(e)
      BY <2>1, <3>2 DEF FateOf
    <3> HIDE DEF S
    <3>6. Fate' = [e \in Event |-> IF e \in S THEN "settled" ELSE Fate[e]]
      BY <3>3, <3>4, <3>5
    <3>7. \A e \in S : Fate[e] = "waiting"
      BY <3>3, <3>4
    <3>8. \A e \in S : Fate[e] = "waiting" /\ LinkOf[e] = l
      BY <3>3, <3>7
    <3>9. \/ clicks' = [clicks EXCEPT ![l] = @ + Cardinality(S)]
          \/ StoreFaults /\ UNCHANGED clicks
      BY <3>2
    <3>10. Ledger!Cardinality(S) = Cardinality(S)
      BY Zenon DEF Cardinality, Ledger!Cardinality, IsFiniteSet, Ledger!IsFiniteSet
    <3>11. Ledger!Settle(l, S)
      BY <3>6, <3>8, <3>9, <3>10, Zenon DEF Ledger!Settle
    <3> QED
      BY <3>3, <3>11 DEF Ledger!Next
  <2>4. CASE /\ ~ \E e \in Event : track(e)
             /\ ~ \E l \in Link : IncrClickBy(l)
    <3>1. Waiting' = Waiting /\ UNCHANGED <<accepted, dropped, clicks>>
      BY <2>1, <2>4, OthersMoveNothing
    <3>2. \A e \in Event : FateOf(e)' = FateOf(e)
      BY <3>1 DEF FateOf
    <3> QED
      BY <3>1, <3>2 DEF Ledger!vars
  <2> QED
    BY <2>2, <2>3, <2>4
<1> QED
  BY <1>1, <1>2, Inductive, PTL DEF Spec, ImplementsLedger, Ledger!Spec

----------------------------------------------------------------------------
(* What the store sees of the tracker: numbers of events per link.          *)

LEMMA PerLinkOf ==
    ASSUME NEW S, IsFiniteSet(S), NEW l \in Link
    PROVE  /\ IsFiniteSet(EventsOf(l, S)) /\ Cardinality(EventsOf(l, S)) \in Nat
           /\ PerLink(S)[l] = Cardinality(EventsOf(l, S))
<1>1. EventsOf(l, S) \subseteq S
  BY DEF EventsOf
<1> QED
  BY <1>1, FS_Subset, FS_CardinalityType DEF PerLink

LEMMA PerLinkOfNone == PerLink({}) = [l \in Link |-> 0]
<1>1. \A l \in Link : EventsOf(l, {}) = {}
  BY DEF EventsOf
<1> QED
  BY <1>1, FS_EmptySet DEF PerLink

(* Events of two sets that have none in common add up.                      *)
LEMMA PerLinkOfBoth ==
    ASSUME NEW S, NEW T, IsFiniteSet(S), IsFiniteSet(T), S \cap T = {},
           NEW l \in Link
    PROVE  PerLink(S \cup T)[l] = PerLink(S)[l] + PerLink(T)[l]
<1> DEFINE A == EventsOf(l, S)
           B == EventsOf(l, T)
<1>1. /\ IsFiniteSet(A) /\ Cardinality(A) \in Nat /\ PerLink(S)[l] = Cardinality(A)
      /\ IsFiniteSet(B) /\ Cardinality(B) \in Nat /\ PerLink(T)[l] = Cardinality(B)
  BY PerLinkOf
<1>2. A \cap B = {} /\ EventsOf(l, S \cup T) = A \cup B
  BY DEF EventsOf
<1>3. PerLink(S \cup T)[l] = Cardinality(EventsOf(l, S \cup T))
  BY DEF PerLink
<1> HIDE DEF A, B
<1>4. Cardinality(A \cup B) = Cardinality(A) + Cardinality(B) - Cardinality({})
  BY <1>1, <1>2, FS_Union
<1>5. Cardinality({}) = 0
  BY FS_EmptySet
<1>6. Cardinality(A \cup B) = Cardinality(A) + Cardinality(B)
  BY <1>1, <1>4, <1>5
<1> QED
  BY <1>1, <1>2, <1>3, <1>6

(* One more event is one more click of its link.                            *)
LEMMA PerLinkOfOneMore ==
    ASSUME NEW S, IsFiniteSet(S), NEW e \in Event, e \notin S
    PROVE  PerLink(S \cup {e}) = [PerLink(S) EXCEPT ![LinkOf[e]] = @ + 1]
<1> SUFFICES ASSUME NEW l \in Link
             PROVE  PerLink(S \cup {e})[l]
                      = IF l = LinkOf[e] THEN PerLink(S)[l] + 1 ELSE PerLink(S)[l]
  BY TrackerAssumption DEF PerLink
<1>1. IsFiniteSet({e}) /\ Cardinality({e}) = 1
  BY FS_Singleton
<1>2. PerLink(S \cup {e})[l] = PerLink(S)[l] + PerLink({e})[l]
  BY <1>1, PerLinkOfBoth
<1>3. PerLink(S)[l] \in Nat
  BY PerLinkOf
<1>4. CASE l = LinkOf[e]
  <2>1. EventsOf(l, {e}) = {e}
    BY <1>4 DEF EventsOf
  <2> QED
    BY <1>1, <1>2, <1>4, <2>1 DEF PerLink
<1>5. CASE l # LinkOf[e]
  <2>1. EventsOf(l, {e}) = {}
    BY <1>5 DEF EventsOf
  <2>2. PerLink({e})[l] = 0
    BY <2>1, FS_EmptySet DEF PerLink
  <2> QED
    BY <1>2, <1>3, <1>5, <2>2
<1> QED
  BY <1>4, <1>5

(* The links flush goes through, the keys of counts, are those the batch    *)
(* has clicks of.                                                           *)
LEMMA LinksOfBatch ==
    ASSUME NEW b \in Seq(Event), IsFiniteSet(Range(b))
    PROVE  LinksOf(b) = {l \in Link : PerLink(Range(b))[l] > 0}
<1>1. \A l \in Link : l \in LinksOf(b) <=> EventsOf(l, Range(b)) # {}
  BY DEF LinksOf, EventsOf, Range
<1>2. LinksOf(b) \subseteq Link
  BY LenProperties, ElementOfSeq, TrackerAssumption DEF LinksOf
<1>3. ASSUME NEW l \in Link
      PROVE  PerLink(Range(b))[l] > 0 <=> EventsOf(l, Range(b)) # {}
  <2>1. /\ IsFiniteSet(EventsOf(l, Range(b)))
        /\ Cardinality(EventsOf(l, Range(b))) \in Nat
        /\ PerLink(Range(b))[l] = Cardinality(EventsOf(l, Range(b)))
    BY PerLinkOf
  <2>2. Cardinality(EventsOf(l, Range(b))) = 0 <=> EventsOf(l, Range(b)) = {}
    BY <2>1, FS_EmptySet
  <2> QED
    BY <2>1, <2>2
<1> QED
  BY <1>1, <1>2, <1>3

LEMMA FlushesSound == Spec => []FlushSound
<1>1. Init => FlushSound
  BY DEF Init, FlushSound, Flushing
<1>2. ASSUME FlushSound, [Next]_vars
      PROVE  FlushSound'
  <2> USE DEF FlushSound, Flushing
  <2>1. CASE \E e \in Event : track(e)
    BY <1>2, <2>1 DEF track, worker
  <2>2. CASE CloseDone \/ WaitReturns \/ Tick
    BY <1>2, <2>2 DEF CloseDone, WaitReturns, Tick, worker
  <2>3. CASE Receive
    BY <2>3 DEF Receive
  <2>4. CASE TakeTick \/ DrainEmpty
    BY <1>2, <2>4 DEF TakeTick, DrainEmpty, StartFlush
  <2>5. CASE SeeDone
    BY <2>5 DEF SeeDone
  <2>6. CASE \E l \in Link : IncrClickBy(l)
    BY <1>2, <2>6 DEF IncrClickBy
  <2>7. CASE RecordEvents
    BY <2>7 DEF RecordEvents, EndFlush
  <2>8. CASE UNCHANGED vars
    BY <1>2, <2>8 DEF vars, worker
  <2> QED
    BY <1>2, <2>1, <2>2, <2>3, <2>4, <2>5, <2>6, <2>7, <2>8 DEF Next, Worker
<1> QED
  BY <1>1, <1>2, PTL DEF Spec

(* What is in the tracker is finite, so it can be counted. *)
LEMMA FinitelyMany ==
    ASSUME TypeOK, OnePlace
    PROVE  /\ IsFiniteSet(Range(events)) /\ IsFiniteSet(Range(batch))
           /\ IsFiniteSet(Unflushed) /\ IsFiniteSet(InFlush)
<1>1. Range(events) \subseteq accepted /\ Range(batch) \subseteq accepted
  BY DEF OnePlace
<1>2. Unflushed \subseteq accepted /\ InFlush \subseteq accepted
  BY <1>1 DEF Unflushed, InFlush
<1> QED
  BY <1>1, <1>2, FS_Subset DEF OnePlace

(* What the store has recorded, and what a RecordEvents adds: part of the   *)
(* batch, all of it if the call does not fail, none of it a second time.    *)
LEMMA RecordAdds ==
    ASSUME TypeOK, OnePlace, RecordedOnce, RecordEvents
    PROVE  \E T \in SUBSET Range(batch) :
             /\ InBreakdowns \cap T = {} /\ InBreakdowns' = InBreakdowns \cup T
             /\ ~StoreFaults => T = Range(batch)
<1>1. PICK took \in SUBSET DOMAIN batch :
        /\ breakdown' = [e \in Event |-> breakdown[e]
                           + Cardinality({i \in took : batch[i] = e})]
        /\ ~StoreFaults => took = DOMAIN batch
  BY DEF RecordEvents
<1> DEFINE T == {batch[i] : i \in took}
<1>2. T \subseteq Range(batch) /\ (~StoreFaults => T = Range(batch))
  BY <1>1 DEF Range
<1>3. T \subseteq Event
  BY <1>2, ElementOfSeq, LenProperties DEF TypeOK, Range
<1>4. \A e \in Event : /\ breakdown[e] \in Nat /\ breakdown[e] <= 1
                       /\ breakdown[e] = 1 => e \notin Range(batch)
  BY DEF TypeOK, RecordedOnce
<1>5. InBreakdowns \cap T = {}
  BY <1>2, <1>4 DEF InBreakdowns
<1>6. ASSUME NEW e \in Event
      PROVE  e \in InBreakdowns' <=> e \in InBreakdowns \cup T
  <2> DEFINE I == {i \in took : batch[i] = e}
  <2>1. breakdown'[e] = breakdown[e] + Cardinality(I)
    BY <1>1
  <2>2. e \in InBreakdowns <=> breakdown[e] = 1
    BY DEF InBreakdowns
  <2>3. e \in InBreakdowns' <=> breakdown'[e] = 1
    BY DEF InBreakdowns
  <2>4. CASE e \in T
    <3>1. PICK i \in took : batch[i] = e
      BY <2>4
    <3>2. \A j \in took : batch[j] = e => j = i
      BY <3>1 DEF OnePlace, IsInjective
    <3>3. I = {i}
      BY <3>1, <3>2
    <3>4. Cardinality(I) = 1
      BY <3>3, FS_Singleton
    <3>5. breakdown[e] = 0
      BY <1>2, <1>4, <2>4
    <3> QED
      BY <2>1, <2>3, <2>4, <3>4, <3>5
  <2>5. CASE e \notin T
    <3>1. I = {}
      BY <2>5
    <3>2. Cardinality(I) = 0
      BY <3>1, FS_EmptySet
    <3> QED
      BY <1>4, <2>1, <2>2, <2>3, <2>5, <3>2
  <2> QED
    BY <2>4, <2>5
<1>7. InBreakdowns' = InBreakdowns \cup T
  <2>1. InBreakdowns \subseteq Event /\ InBreakdowns' \subseteq Event
    BY DEF InBreakdowns
  <2> HIDE DEF T
  <2> QED
    BY <1>3, <1>6, <2>1
<1> QED
  BY <1>2, <1>5, <1>7

\* What the flushes see of a step that is none of theirs.
Unseen == /\ Unflushed' = Unflushed /\ InFlush' = InFlush
          /\ (IF pc = "incr" THEN todo ELSE {})' = IF pc = "incr" THEN todo ELSE {}
          /\ clicks' = clicks /\ breakdown' = breakdown

LEMMA UnseenStutters ==
    ASSUME Unseen
    PROVE  UNCHANGED Flushes!vars
<1>1. InBreakdowns' = InBreakdowns
  BY DEF Unseen, InBreakdowns
<1> QED
  BY <1>1 DEF Unseen, Flushes!vars, PerLink, EventsOf

LEMMA TrackIsSeen ==
    ASSUME TypeOK, OnePlace, NEW e \in Event, track(e)
    PROVE  Flushes!Track(LinkOf[e]) \/ UNCHANGED Flushes!vars
<1>1. /\ pc' = pc /\ batch' = batch /\ todo' = todo
      /\ clicks' = clicks /\ breakdown' = breakdown
  BY DEF track, worker, store
<1>2. InFlush' = InFlush /\ InBreakdowns' = InBreakdowns
  BY <1>1 DEF InFlush, Flushing, InBreakdowns
<1>3. CASE events' = events
  BY <1>1, <1>2, <1>3, UnseenStutters DEF Unseen, Unflushed, Flushing
<1>4. CASE Range(events') = Range(events) \cup {e}
  <2>1. e \notin accepted
    BY DEF track
  <2>2. e \notin Unflushed
    BY <2>1 DEF Unflushed, OnePlace
  <2>3. Unflushed' = Unflushed \cup {e}
    BY <1>1, <1>4 DEF Unflushed, Flushing
  <2>4. PerLink(Unflushed)' = [PerLink(Unflushed) EXCEPT ![LinkOf[e]] = @ + 1]
    <3>1. PerLink(Unflushed') = [PerLink(Unflushed) EXCEPT ![LinkOf[e]] = @ + 1]
      BY <2>2, <2>3, FinitelyMany, PerLinkOfOneMore
    <3> QED
      BY <3>1 DEF PerLink, EventsOf
  <2> QED
    BY <1>1, <1>2, <2>4 DEF Flushes!Track, PerLink, EventsOf
<1> QED
  BY <1>3, <1>4, TrackChannel

\* Like TakeTick and DrainEmpty with a batch: flush takes what was received.
LEMMA FlushIsSeen ==
    ASSUME TypeOK, OnePlace, NEW last, batch # <<>>, ~Flushing,
           StartFlush(batch, last), UNCHANGED <<events, batch, clicks, breakdown>>
    PROVE  Flushes!StartFlush
<1>1. pc' = "incr" /\ todo' = LinksOf(batch)
  BY DEF StartFlush
<1>2. /\ Unflushed = Range(events) \cup Range(batch) /\ InFlush = {}
      /\ Unflushed' = Range(events) /\ InFlush' = Range(batch)
  BY <1>1 DEF Unflushed, InFlush, Flushing
<1>3. Range(events) \cap Range(batch) = {} /\ batch \in Seq(Event)
  BY DEF OnePlace, TypeOK
<1>4. IsFiniteSet(Range(events)) /\ IsFiniteSet(Range(batch))
  BY FinitelyMany
<1>5. PerLink(InFlush) = Flushes!NoClicks
  BY <1>2, PerLinkOfNone DEF Flushes!NoClicks
<1>6. /\ PerLink(InFlush)' = PerLink(Range(batch))
      /\ PerLink(Unflushed)' = PerLink(Range(events))
  BY <1>2 DEF PerLink, EventsOf
<1>7. /\ PerLink(Range(batch)) \in [Link -> Nat]
      /\ PerLink(Range(events)) \in [Link -> Nat]
  BY <1>4, PerLinkOf DEF PerLink
<1>8. todo' = {l \in Link : PerLink(Range(batch))[l] > 0}
  BY <1>1, <1>3, <1>4, LinksOfBatch
<1>9. PerLink(Range(batch)) # Flushes!NoClicks
  <2>1. 1 \in DOMAIN batch
    BY <1>3, EmptySeq, LenProperties
  <2>2. LinkOf[batch[1]] \in LinksOf(batch)
    BY <2>1 DEF LinksOf
  <2>3. PICK l \in Link : PerLink(Range(batch))[l] > 0
    BY <1>1, <1>8, <2>2
  <2> QED
    BY <2>3 DEF Flushes!NoClicks
<1>10. \A l \in Link : PerLink(Unflushed)[l]
                         = PerLink(Range(events))[l] + PerLink(Range(batch))[l]
  BY <1>2, <1>3, <1>4, PerLinkOfBoth
<1>11. PerLink(InBreakdowns)' = PerLink(InBreakdowns)
  BY DEF PerLink, EventsOf, InBreakdowns
<1>12. (IF pc = "incr" THEN todo ELSE {})' = todo'
  BY <1>1
<1> QED
  BY <1>5, <1>6, <1>7, <1>8, <1>9, <1>10, <1>11, <1>12 DEF Flushes!StartFlush

LEMMA IncrIsSeen ==
    ASSUME TypeOK, OnePlace, NEW l \in Link, IncrClickBy(l)
    PROVE  Flushes!IncrClickBy(l)
<1>1. pc = "incr" /\ l \in todo /\ todo' = todo \ {l}
  BY DEF IncrClickBy
<1>2. (IF pc = "incr" THEN todo ELSE {})' = todo \ {l}
  BY <1>1 DEF IncrClickBy
<1>3. UNCHANGED <<events, batch, breakdown>> /\ Flushing /\ Flushing'
  BY DEF IncrClickBy, Flushing
<1>4. InFlush = Range(batch) /\ UNCHANGED <<Unflushed, InFlush, InBreakdowns>>
  BY <1>3 DEF InFlush, Unflushed, InBreakdowns
<1>5. UNCHANGED <<PerLink(Unflushed), PerLink(InFlush), PerLink(InBreakdowns)>>
  BY <1>4 DEF PerLink, EventsOf
<1>6. PerLink(InFlush)[l] = Cardinality(EventsOf(l, Range(batch)))
  BY <1>4 DEF PerLink
<1>7. \/ clicks' = [clicks EXCEPT ![l] = @ + Cardinality(EventsOf(l, Range(batch)))]
      \/ StoreFaults /\ clicks' = clicks
  BY IncrMoves
<1> QED
  BY <1>1, <1>2, <1>5, <1>6, <1>7 DEF Flushes!IncrClickBy

LEMMA RecordIsSeen ==
    ASSUME TypeOK, OnePlace, RecordedOnce, FlushSound, RecordEvents
    PROVE  Flushes!RecordEvents
<1>1. /\ pc = "record" /\ pc' \in {"select", "exited"} /\ batch' = <<>>
      /\ UNCHANGED <<events, clicks>>
  BY DEF RecordEvents, EndFlush
<1>2. Range(<<>>) = {}
  BY EmptySeq, LenProperties DEF Range
<1>3. InFlush = Range(batch) /\ InFlush' = {} /\ Unflushed' = Unflushed
  BY <1>1, <1>2 DEF InFlush, Unflushed, Flushing
<1>4. PerLink(Unflushed)' = PerLink(Unflushed)
  BY <1>3 DEF PerLink, EventsOf
<1>5. PerLink(InFlush)' = Flushes!NoClicks
  <2>1. PerLink(InFlush') = Flushes!NoClicks
    BY <1>3, PerLinkOfNone DEF Flushes!NoClicks
  <2> QED
    BY <2>1 DEF PerLink, EventsOf
<1>6. IsFiniteSet(Range(batch))
  BY FinitelyMany
<1>7. PerLink(InFlush) # Flushes!NoClicks
  <2>1. batch # <<>> /\ batch \in Seq(Event)
    BY <1>1 DEF FlushSound, Flushing, TypeOK
  <2>2. 1 \in DOMAIN batch
    BY <2>1, EmptySeq, LenProperties
  <2>3. LinkOf[batch[1]] \in LinksOf(batch)
    BY <2>2 DEF LinksOf
  <2>4. PICK l \in Link : PerLink(Range(batch))[l] > 0
    BY <1>6, <2>1, <2>3, LinksOfBatch
  <2> QED
    BY <1>3, <2>4 DEF Flushes!NoClicks
<1>8. PICK T \in SUBSET Range(batch) :
        /\ InBreakdowns \cap T = {} /\ InBreakdowns' = InBreakdowns \cup T
        /\ ~StoreFaults => T = Range(batch)
  BY RecordAdds
<1>9. IsFiniteSet(InBreakdowns) /\ IsFiniteSet(T)
  <2>1. InBreakdowns \subseteq accepted
    BY DEF InBreakdowns, RecordedOnce
  <2> QED
    BY <1>6, <2>1, FS_Subset DEF OnePlace
<1>10. PerLink(InBreakdowns)' = PerLink(InBreakdowns \cup T)
  BY <1>8 DEF PerLink, EventsOf
<1>11. PerLink(InBreakdowns)' \in [Link -> Nat]
  <2>1. IsFiniteSet(InBreakdowns \cup T)
    BY <1>9, FS_Union
  <2> QED
    BY <1>10, <2>1, PerLinkOf DEF PerLink
<1>12. ASSUME NEW l \in Link
       PROVE  PerLink(InBreakdowns)'[l] - PerLink(InBreakdowns)[l] \in
                IF StoreFaults THEN 0 .. PerLink(InFlush)[l] ELSE {PerLink(InFlush)[l]}
  <2>1. /\ PerLink(InBreakdowns)[l] \in Nat /\ PerLink(T)[l] \in Nat
        /\ PerLink(Range(batch))[l] \in Nat
    BY <1>6, <1>9, PerLinkOf
  <2>2. PerLink(InBreakdowns)'[l] = PerLink(InBreakdowns)[l] + PerLink(T)[l]
    BY <1>8, <1>9, <1>10, PerLinkOfBoth
  <2>3. PerLink(T)[l] <= PerLink(Range(batch))[l]
    <3>1. IsFiniteSet(Range(batch) \ T)
      BY <1>6, FS_Difference
    <3>2. T \cup (Range(batch) \ T) = Range(batch) /\ T \cap (Range(batch) \ T) = {}
      OBVIOUS
    <3>3. PerLink(T \cup (Range(batch) \ T))[l]
            = PerLink(T)[l] + PerLink(Range(batch) \ T)[l]
      BY <1>9, <3>1, <3>2, PerLinkOfBoth
    <3>4. PerLink(Range(batch) \ T)[l] \in Nat
      BY <3>1, PerLinkOf
    <3> QED
      BY <2>1, <3>2, <3>3, <3>4
  <2>4. PerLink(InBreakdowns)'[l] - PerLink(InBreakdowns)[l] = PerLink(T)[l]
    BY <2>1, <2>2
  <2>5. CASE StoreFaults
    BY <1>3, <2>1, <2>3, <2>4, <2>5
  <2>6. CASE ~StoreFaults
    BY <1>3, <1>8, <2>4, <2>6
  <2> QED
    BY <2>5, <2>6
<1>13. /\ (IF pc = "incr" THEN todo ELSE {}) = {}
       /\ (IF pc = "incr" THEN todo ELSE {})' = {}
  BY <1>1
<1> QED
  BY <1>1, <1>4, <1>5, <1>7, <1>11, <1>12, <1>13 DEF Flushes!RecordEvents

(* The tracker implements the flushes that the service is modelled with, at *)
(* every buffer size and whichever calls fail: buffer, ticker and stop show *)
(* in the store only as the moment at which a flush begins.                 *)
THEOREM TrackerImplementsFlushes == Spec => ImplementsFlushes
<1>1. Init => Flushes!Init
  <2> SUFFICES ASSUME Init PROVE Flushes!Init
    OBVIOUS
  <2>1. Range(<<>>) = {}
    BY EmptySeq, LenProperties DEF Range
  <2>2. Unflushed = {} /\ InFlush = {} /\ InBreakdowns = {}
    BY <2>1 DEF Init, Unflushed, InFlush, Flushing, InBreakdowns
  <2> QED
    BY <2>2, PerLinkOfNone DEF Init, Flushes!Init, Flushes!NoClicks
<1>2. IInv /\ FlushSound /\ [Next]_vars => [Flushes!Next]_(Flushes!vars)
  <2> SUFFICES ASSUME IInv, FlushSound, [Next]_vars
               PROVE  Flushes!Next \/ UNCHANGED Flushes!vars
    OBVIOUS
  <2>1. TypeOK /\ OnePlace /\ RecordedOnce
    BY DEF IInv
  <2>2. ASSUME NEW e \in Event, track(e)
        PROVE  Flushes!Next \/ UNCHANGED Flushes!vars
    <3>1. LinkOf[e] \in Link
      BY TrackerAssumption
    <3> QED
      BY <2>1, <2>2, <3>1, TrackIsSeen DEF Flushes!Next
  <2>3. CASE Receive
    <3>1. /\ Head(events) \in Range(events)
          /\ Range(events') = Range(events) \ {Head(events)}
      BY <2>1, <2>3, TailDistinct DEF Receive, TypeOK, OnePlace
    <3>2. Head(events) \in Event /\ Head(events) \notin Range(batch)
      BY <2>1, <2>3, <3>1, TailDistinct DEF Receive, TypeOK, OnePlace
    <3>3. Range(batch') = Range(batch) \cup {Head(events)}
      BY <2>1, <2>3, <3>2, AppendDistinct DEF Receive, TypeOK, OnePlace
    <3>4. Unseen
      BY <2>3, <3>1, <3>3 DEF Receive, Unseen, Unflushed, InFlush, Flushing, store
    <3> QED
      BY <3>4, UnseenStutters
  <2>4. CASE (TakeTick \/ DrainEmpty) /\ batch # <<>>
    <3>1. PICK last \in BOOLEAN : StartFlush(batch, last)
      BY <2>4 DEF TakeTick, DrainEmpty
    <3>2. ~Flushing /\ UNCHANGED <<events, batch, clicks, breakdown>>
      BY <2>4 DEF TakeTick, DrainEmpty, Flushing, store
    <3> QED
      BY <2>1, <2>4, <3>1, <3>2, FlushIsSeen DEF Flushes!Next
  <2>5. CASE (TakeTick \/ DrainEmpty) /\ batch = <<>>
    <3>1. Unseen
      BY <2>5 DEF TakeTick, DrainEmpty, StartFlush, Unseen, Unflushed, InFlush,
         Flushing, store
    <3> QED
      BY <3>1, UnseenStutters
  <2>6. CASE CloseDone \/ WaitReturns \/ Tick \/ SeeDone \/ UNCHANGED vars
    <3>1. Unseen
      BY <2>6 DEF CloseDone, WaitReturns, Tick, SeeDone, vars, worker, store,
         Unseen, Unflushed, InFlush, Flushing
    <3> QED
      BY <3>1, UnseenStutters
  <2>7. ASSUME NEW l \in Link, IncrClickBy(l)
        PROVE  Flushes!Next
    BY <2>1, <2>7, IncrIsSeen DEF Flushes!Next
  <2>8. CASE RecordEvents
    BY <2>1, <2>8, RecordIsSeen DEF Flushes!Next
  <2> QED
    BY <2>2, <2>3, <2>4, <2>5, <2>6, <2>7, <2>8 DEF Next, Worker
<1> QED
  BY <1>1, <1>2, Inductive, FlushesSound, PTL
  DEF Spec, ImplementsFlushes, Flushes!Spec

=============================================================================
