------------------------- MODULE SqliteStoreProofs -------------------------
(***************************************************************************)
(* Theorems about SqliteStore, for any number of requests, any grace       *)
(* window, and any Patience that fits into it as SqliteAssumption says:    *)
(* columns and payload agree, clicks and events stay with a link that is   *)
(* not due, and the row implements the life of a link.                     *)
(***************************************************************************)
EXTENDS SqliteStore, TLAPS

USE SqliteAssumption

(* A time stamp is a time, at most one second before the moment it is of.   *)
LEMMA StampBounds ==
    ASSUME NEW t \in Nat
    PROVE  Stamp(t) \in Nat /\ Stamp(t) <= t /\ t < Stamp(t) + SecondLen
<1>1. t % SecondLen \in 0 .. SecondLen - 1
  OBVIOUS
<1>2. t % SecondLen <= t
  OBVIOUS
<1> QED
  BY <1>1, <1>2 DEF Stamp

(* What requests in progress look like. *)
LEMMA WriterShape ==
    ASSUME TypeOK, NEW c \in Client, client[c].pc \in {"save", "mark"}
    PROVE  /\ client[c].payload \in Payload /\ client[c].since \in Nat
           /\ client[c].payload # Gone
<1>1. client[c] \in Busy \cup {Idle}
  BY DEF TypeOK
<1>2. client[c] # Idle
  BY DEF Idle
<1>3. client[c] \in [pc : {"save", "mark"}, payload : Payload, since : Nat]
  BY <1>1, <1>2 DEF Busy
<1> QED
  BY <1>3, GoneAssumption

\* What a DELETE is about to write is a time.
LEMMA MarkerShape ==
    ASSUME TypeOK, WritersSound, NEW c \in Client, client[c].pc = "mark"
    PROVE  client[c].payload.deleted \in Nat
<1>1. client[c].since \in Nat
  BY WriterShape
<1>2. client[c].payload.deleted = Stamp(client[c].since)
  BY DEF WritersSound, Writers
<1> QED
  BY <1>1, <1>2, StampBounds

LEMMA PurgerShape ==
    ASSUME TypeOK, NEW c \in Client,
           client[c].pc \in {"purge", "prune"}
    PROVE  [client[c] EXCEPT !.pc = "prune"] \in Busy
<1>1. client[c] \in Busy \cup {Idle}
  BY DEF TypeOK
<1>2. client[c] # Idle
  BY DEF Idle
<1>3. client[c] \in [pc : {"purge", "prune"}, since : Nat]
  BY <1>1, <1>2 DEF Busy
<1> QED
  BY <1>3 DEF Busy

LEMMA RowShape ==
    ASSUME TypeOK, row # Gone
    PROVE  /\ row \in Row
           /\ row.payload \in Payload /\ row.expires_at \in Time
           /\ row.deleted_at \in Time /\ row.clicks \in Nat
           /\ row.payload.exp \in Time
           /\ row.payload.deleted \in Time \cup {Given}
BY DEF TypeOK, Row, Payload

LEMMA GotoMoves ==
    ASSUME TypeOK, NEW c \in Client, NEW state, Goto(c, state)
    PROVE  /\ client'[c] = state
           /\ \A d \in Client : d # c => client'[d] = client[d]
BY DEF TypeOK, Goto

LEMMA InitIInv == Init => IInv
<1> SUFFICES ASSUME Init
             PROVE  IInv
  OBVIOUS
<1>1. Writers = {} /\ Purgers = {}
  BY DEF Init, Writers, Purgers, Idle
<1>2. TypeOK
  BY DEF Init, TypeOK
<1> QED
  BY <1>1, <1>2 DEF Init, IInv, ColumnsAgree, WritersSound, PurgesSound

----------------------------------------------------------------------------
(* Types. *)

LEMMA StepTypeOK ==
    ASSUME TypeOK, WritersSound, [Next]_vars
    PROVE  TypeOK'
<1> USE DEF flusher
<1>1. ASSUME NEW c \in Client, GetAndPurge(c)
      PROVE  TypeOK'
  BY <1>1 DEF GetAndPurge, Goto, TypeOK, Busy
<1>2. ASSUME NEW c \in Client, GetToResolve(c)
      PROVE  TypeOK'
  BY <1>2 DEF GetToResolve, TypeOK
<1>3. ASSUME NEW c \in Client, GetForUpdate(c)
      PROVE  TypeOK'
  BY <1>3, RowShape DEF GetForUpdate, Select, Goto, TypeOK, Busy
<1>4. ASSUME NEW c \in Client, GetForDelete(c)
      PROVE  TypeOK'
  <2>1. [row.payload EXCEPT !.deleted = Stamp(now)] \in Payload
    BY <1>4, RowShape, StampBounds DEF GetForDelete, Select, TypeOK, Payload, Time
  <2> QED
    BY <1>4, <2>1 DEF GetForDelete, Goto, TypeOK, Busy
<1>5. ASSUME NEW c \in Client, PurgeLink(c)
      PROVE  TypeOK'
  BY <1>5, PurgerShape DEF PurgeLink, Goto, TypeOK
<1>6. ASSUME NEW c \in Client, PurgeEvents(c)
      PROVE  TypeOK'
  <2>1. events' \in {0, events}
    BY <1>6 DEF PurgeEvents
  <2> QED
    BY <1>6, <2>1 DEF PurgeEvents, Goto, TypeOK
<1>7. ASSUME NEW c \in Client, NEW exp \in {Never} \cup 1 .. MaxTime,
             NEW deleted \in BodyDeletedAt, Create(c, exp, deleted)
      PROVE  TypeOK'
  <2>1. [exp |-> IF exp = Never THEN Never ELSE Stamp(exp), deleted |-> deleted]
          \in Payload
    BY StampBounds DEF Payload, Time, BodyDeletedAt
  <2> QED
    BY <1>7, <2>1 DEF Create, Goto, TypeOK, Busy
<1>8. ASSUME NEW c \in Client, Save(c)
      PROVE  TypeOK'
  <2>1. client[c].payload \in Payload
    BY <1>8, WriterShape DEF Save
  <2>2. Upsert(client[c].payload) \in Row
    BY <2>1, RowShape DEF Upsert, Row, Payload, Time
  <2> QED
    BY <1>8, <2>2 DEF Save, Goto, TypeOK
<1>9. ASSUME NEW c \in Client, Mark(c)
      PROVE  TypeOK'
  <2>1. client[c].payload \in Payload
    BY <1>9, WriterShape DEF Mark
  <2>2. row' \in Row \cup {Gone}
    BY <1>9, <2>1, RowShape, MarkerShape DEF Mark, Row, Payload, Time
  <2> QED
    BY <1>9, <2>2 DEF Mark, Goto, TypeOK
<1>10. ASSUME NEW c \in Client, Fail(c)
       PROVE  TypeOK'
  BY <1>10 DEF Fail, Goto, TypeOK
<1>11. CASE IncrClickBy
  <2>1. row' \in Row \cup {Gone}
    BY <1>11, RowShape DEF IncrClickBy, TypeOK, Row
  <2> QED
    BY <1>11, <2>1 DEF IncrClickBy, TypeOK
<1>12. CASE RecordEvents
  BY <1>12 DEF RecordEvents, TypeOK
<1>13. CASE Crash
  BY <1>13 DEF Crash, TypeOK
<1>14. CASE Tick
  BY <1>14 DEF Tick, TypeOK
<1>15. CASE UNCHANGED vars
  BY <1>15 DEF vars, TypeOK
<1> QED
  BY <1>1, <1>2, <1>3, <1>4, <1>5, <1>6, <1>7, <1>8, <1>9, <1>10, <1>11,
     <1>12, <1>13, <1>14, <1>15 DEF Next

----------------------------------------------------------------------------
(* The invariant: steps that write nothing new. *)

\* Requests end or go on to prune; the row stays, but for clicks, or goes.
Fades ==
    /\ now' = now /\ created' = created
    /\ \A c \in Client : \/ client'[c] = client[c]
                         \/ client'[c] = Idle
                         \/ c \in Purgers /\ client'[c].pc = "prune"
    /\ \/ row' = Gone
       \/ /\ row # Gone /\ row'.payload = row.payload
          /\ row'.expires_at = row.expires_at
          /\ row'.deleted_at = row.deleted_at

LEMMA FadesKeeps ==
    ASSUME IInv, Fades
    PROVE  ColumnsAgree' /\ WritersSound' /\ PurgesSound'
<1>1. /\ \A c \in Writers' : c \in Writers /\ client'[c] = client[c]
      /\ Purgers' \subseteq Purgers
  BY DEF Fades, Writers, Purgers, Idle
<1>2. ColumnsAgree'
  BY DEF Fades, IInv, ColumnsAgree
<1>3. WritersSound'
  <2>1. ~created' => row' = Gone /\ \A c \in Client : client'[c] = Idle
    <3>1. ~created => Purgers = {}
      BY DEF IInv, WritersSound, Purgers, Idle
    <3> QED
      BY <3>1 DEF Fades, IInv, WritersSound
  <2>2. ASSUME NEW c \in Writers'
        PROVE  /\ client'[c].since <= now' /\ now' <= client'[c].since + Patience
               /\ IF client'[c].pc = "save"
                  THEN client'[c].payload.deleted \in BodyDeletedAt
                  ELSE client'[c].payload.deleted = Stamp(client'[c].since)
               /\ client'[c].payload.deleted = Given =>
                    row' = Gone /\ Writers' = {c}
               /\ \A d \in Writers' :
                    client'[d].payload.exp = client'[c].payload.exp
               /\ row' # Gone =>
                    /\ row'.payload.exp = client'[c].payload.exp
                    /\ row'.payload.deleted # Given
                    /\ row'.deleted_at # Never => client'[c].since
                         < row'.deleted_at + Patience + SecondLen
    <3>1. c \in Writers /\ client'[c] = client[c]
      BY <1>1
    <3>2. client[c].payload.deleted = Given => row' = Gone /\ Writers' = {c}
      BY <1>1, <3>1 DEF Fades, IInv, WritersSound
    <3> QED
      BY <1>1, <3>1, <3>2 DEF Fades, IInv, WritersSound
  <2> QED
    BY <2>1, <2>2 DEF WritersSound
<1>4. PurgesSound'
  BY <1>1 DEF Fades, IInv, PurgesSound, PurgeDue
<1> QED
  BY <1>2, <1>3, <1>4

LEMMA FadingSteps ==
    ASSUME IInv,
           \/ \E c \in Client : \/ GetToResolve(c) \/ PurgeLink(c)
                                \/ PurgeEvents(c) \/ Fail(c)
           \/ IncrClickBy \/ RecordEvents \/ Crash \/ UNCHANGED vars
    PROVE  Fades
<1> USE DEF Fades, flusher
<1>1. client \in [Client -> Busy \cup {Idle}]
  BY DEF IInv, TypeOK
<1>2. ASSUME NEW c \in Client, GetToResolve(c)
      PROVE  Fades
  BY <1>2 DEF GetToResolve, Select
<1>3. ASSUME NEW c \in Client, PurgeLink(c)
      PROVE  Fades
  <2>1. row' = Gone \/ row' = row
    BY <1>3 DEF PurgeLink
  <2>2. c \in Purgers /\ client[c] \in [pc : {"purge", "prune"}, since : Nat]
    BY <1>1, <1>3 DEF PurgeLink, Busy, Idle, Purgers
  <2> DEFINE state == [client[c] EXCEPT !.pc = "prune"]
  <2>3. state.pc = "prune" /\ Goto(c, state)
    BY <1>3, <2>2 DEF PurgeLink
  <2> HIDE DEF state
  <2>4. ASSUME NEW d \in Client
        PROVE  \/ client'[d] = client[d]
               \/ d \in Purgers /\ client'[d].pc = "prune"
    <3>1. /\ client'[c] = state
          /\ d # c => client'[d] = client[d]
      BY <2>3, GotoMoves DEF IInv
    <3> QED
      BY <2>2, <2>3, <3>1
  <2> QED
    BY <1>3, <2>1, <2>4 DEF PurgeLink
<1>4. ASSUME NEW c \in Client, PurgeEvents(c) \/ Fail(c)
      PROVE  Fades
  BY <1>1, <1>4 DEF PurgeEvents, Fail, Goto
<1>5. CASE IncrClickBy
  <2>1. row' = row \/ (row # Gone /\ row' = [row EXCEPT !.clicks = @ + waiting])
    BY <1>5 DEF IncrClickBy
  <2> QED
    BY <1>5, <2>1, RowShape DEF IncrClickBy, IInv, Row
<1>6. CASE RecordEvents \/ Crash \/ UNCHANGED vars
  BY <1>6 DEF RecordEvents, Crash, vars
<1> QED
  BY <1>2, <1>3, <1>4, <1>5, <1>6

----------------------------------------------------------------------------
(* The invariant: reads. *)

(* No request in progress holds a copy of a link that is due by its         *)
(* deletion: a copy is not that old.                                        *)
LEMMA DueIsExpired ==
    ASSUME IInv, row # Gone, PurgeDue(row), NEW d \in Writers
    PROVE  client[d].payload.exp # Never /\ client[d].payload.exp <= now
<1>1. client[d].since \in Nat /\ d \in Client
  BY WriterShape DEF IInv, Writers
<1>2. ~(row.deleted_at # Never /\ now - row.deleted_at >= Grace)
  <2> SUFFICES ASSUME row.deleted_at # Never, now - row.deleted_at >= Grace
               PROVE  FALSE
    OBVIOUS
  <2>1. /\ now <= client[d].since + Patience
        /\ client[d].since < row.deleted_at + Patience + SecondLen
    BY DEF IInv, WritersSound
  <2>2. row.deleted_at \in Nat /\ now \in Nat
    BY RowShape DEF IInv, TypeOK, Time
  <2> QED
    BY <1>1, <2>1, <2>2
<1> QED
  BY <1>2 DEF IInv, ColumnsAgree, WritersSound, PurgeDue

LEMMA GetAndPurgeKeeps ==
    ASSUME IInv, NEW c \in Client, GetAndPurge(c)
    PROVE  ColumnsAgree' /\ WritersSound' /\ PurgesSound'
<1>1. /\ client'[c] = [pc |-> "purge", since |-> now]
      /\ \A d \in Client : d # c => client'[d] = client[d]
  BY GotoMoves DEF GetAndPurge, IInv
<1>2. Writers' = Writers /\ c \notin Writers
  BY <1>1 DEF GetAndPurge, Select, Writers, Idle
<1>3. UNCHANGED <<now, row, created>> /\ row # Gone /\ PurgeDue(row)
  BY DEF GetAndPurge, Select
<1>4. ColumnsAgree'
  BY <1>3 DEF IInv, ColumnsAgree
<1>5. \A d \in Writers : client'[d] = client[d]
  BY <1>1, <1>2 DEF Writers
<1>6. WritersSound'
  BY <1>2, <1>3, <1>5 DEF IInv, WritersSound
<1>7. PurgesSound'
  BY <1>2, <1>3, <1>5, DueIsExpired DEF PurgesSound, PurgeDue
<1> QED
  BY <1>4, <1>6, <1>7

(* A new copy of a link that is there and not due. *)
LEMMA ReadKeeps ==
    ASSUME IInv, NEW c \in Client, Select(c), Found,
           NEW state, Goto(c, state), UNCHANGED <<now, row, created>>,
           state.pc \in {"save", "mark"}, state.since = now,
           state.payload.exp = row.payload.exp,
           state.payload.deleted = IF state.pc = "save" THEN Never ELSE Stamp(now)
    PROVE  ColumnsAgree' /\ WritersSound' /\ PurgesSound'
<1>1. /\ client'[c] = state
      /\ \A d \in Client : d # c => client'[d] = client[d]
  BY GotoMoves DEF IInv
<1>2. Purgers = {} /\ row # Gone /\ row.deleted_at = Never /\ created
  BY DEF IInv, PurgesSound, WritersSound, ColumnsAgree, Select, Found
<1>3. Purgers' = {}
  BY <1>1, <1>2 DEF Purgers
<1>4. \A d \in Writers' : \/ d = c
                          \/ d \in Writers /\ client'[d] = client[d]
  <2> SUFFICES ASSUME NEW d \in Writers', d # c
               PROVE  d \in Writers /\ client'[d] = client[d]
    OBVIOUS
  <2>1. d \in Client /\ client'[d].pc \in {"save", "mark"}
    BY DEF Writers
  <2>2. client'[d] = client[d]
    BY <1>1, <2>1
  <2> QED
    BY <2>1, <2>2 DEF Writers
<1>5. ColumnsAgree'
  BY DEF IInv, ColumnsAgree
<1>6. now \in Nat /\ now <= now /\ now <= now + Patience
  BY DEF IInv, TypeOK
<1>7. \A d \in Writers' : client'[d].payload.exp = row.payload.exp
  BY <1>1, <1>2, <1>4 DEF IInv, WritersSound
<1>8. row'.payload.deleted # Given
      /\ \A d \in Writers' : client'[d].payload.deleted # Given
  <2>1. row.payload.deleted = Never /\ row' = row
    BY DEF Found
  <2>2. state.payload.deleted # Given
    BY StampBounds, <1>6
  <2> QED
    BY <1>1, <1>2, <1>4, <2>1, <2>2 DEF IInv, WritersSound
<1>9. WritersSound'
  BY <1>1, <1>2, <1>4, <1>6, <1>7, <1>8 DEF IInv, WritersSound, BodyDeletedAt
<1> QED
  BY <1>3, <1>5, <1>9 DEF PurgesSound

LEMMA CreateKeeps ==
    ASSUME IInv, NEW c \in Client, NEW exp \in {Never} \cup 1 .. MaxTime,
           NEW deleted \in BodyDeletedAt, Create(c, exp, deleted)
    PROVE  ColumnsAgree' /\ WritersSound' /\ PurgesSound'
<1> DEFINE payload == [exp |-> IF exp = Never THEN Never ELSE Stamp(exp),
                       deleted |-> deleted]
<1>1. /\ client'[c] = [pc |-> "save", since |-> now, payload |-> payload]
      /\ \A d \in Client : d # c => client'[d] = client[d]
  BY GotoMoves DEF Create, IInv
<1>2. row = Gone /\ \A d \in Client : client[d] = Idle
  BY DEF Create, IInv, WritersSound
<1>3. row' = Gone /\ now' = now /\ created'
  BY <1>2 DEF Create
<1>4. Purgers' = {} /\ Writers' = {c}
  BY <1>1, <1>2 DEF Purgers, Writers, Idle
<1>5. now \in Nat /\ now <= now /\ now <= now + Patience
  BY DEF IInv, TypeOK
<1> QED
  BY <1>1, <1>3, <1>4, <1>5 DEF ColumnsAgree, WritersSound, PurgesSound

----------------------------------------------------------------------------
(* The invariant: writes and time. *)

(* Save and Mark: the row has the payload of the writer, and what goes with *)
(* it; a mark sets a stamp that is younger than any copy, but for Patience. *)
LEMMA WriteKeeps ==
    ASSUME IInv, NEW c \in Writers, Goto(c, Idle),
           UNCHANGED <<now, created>>, row' # Gone,
           row'.payload = client[c].payload,
           row'.expires_at = row'.payload.exp,
           row'.deleted_at = IF row'.payload.deleted = Given THEN Never
                             ELSE row'.payload.deleted
    PROVE  ColumnsAgree' /\ WritersSound' /\ PurgesSound'
<1>1. /\ client'[c] = Idle
      /\ \A d \in Client : d # c => client'[d] = client[d]
  BY GotoMoves DEF IInv, Writers
<1>2. ColumnsAgree'
  BY DEF ColumnsAgree
<1>3. \A d \in Writers' : d \in Writers /\ client'[d] = client[d]
  BY <1>1 DEF Writers, Idle
<1>4. \A d \in Purgers' : d \in Purgers
  BY <1>1 DEF Purgers, Idle
<1>5. created'
  BY DEF IInv, WritersSound, Writers, Idle
<1>6. ASSUME NEW d \in Writers', row'.deleted_at # Never
      PROVE  client[d].since < row'.deleted_at + Patience + SecondLen
  <2>1. row'.deleted_at = Stamp(client[c].since)
    BY <1>6 DEF IInv, WritersSound, BodyDeletedAt
  <2>2. client[c].since \in Nat /\ client[d].since \in Nat /\ now \in Nat
    BY <1>3, WriterShape DEF IInv, TypeOK, Writers
  <2>3. client[d].since <= now /\ now <= client[c].since + Patience
    BY <1>3 DEF IInv, WritersSound
  <2>4. /\ Stamp(client[c].since) \in Nat
        /\ client[c].since < Stamp(client[c].since) + SecondLen
    BY <2>2, StampBounds
  <2> QED
    BY <2>1, <2>2, <2>3, <2>4
<1>7. ASSUME NEW d \in Writers'
      PROVE  client[d].payload.deleted # Given /\ row'.payload.deleted # Given
  <2>1. d \in Writers /\ d # c
    BY <1>1, <1>3 DEF Writers, Idle
  <2> QED
    BY <2>1 DEF IInv, WritersSound
<1>8. WritersSound'
  BY <1>3, <1>5, <1>6, <1>7 DEF IInv, WritersSound
<1>9. PurgesSound'
  <2> SUFFICES ASSUME NEW d \in Purgers'
               PROVE  /\ PurgeDue(row)'
                      /\ \A e \in Writers' : /\ client'[e].payload.exp # Never
                                             /\ client'[e].payload.exp <= now'
    BY DEF PurgesSound
  <2>1. client[c].payload.exp # Never /\ client[c].payload.exp <= now
    BY <1>4 DEF IInv, PurgesSound
  <2> QED
    BY <1>3, <1>4, <2>1 DEF IInv, PurgesSound, PurgeDue
<1> QED
  BY <1>2, <1>8, <1>9

LEMMA SaveKeeps ==
    ASSUME IInv, NEW c \in Client, Save(c)
    PROVE  ColumnsAgree' /\ WritersSound' /\ PurgesSound'
<1>1. c \in Writers /\ client[c].payload.deleted \in BodyDeletedAt
  BY DEF Save, Writers, IInv, WritersSound
<1>2. row # Gone => row \in Row
  BY RowShape DEF IInv
<1>3. /\ Upsert(client[c].payload).payload = client[c].payload
      /\ Upsert(client[c].payload).expires_at = client[c].payload.exp
      /\ Upsert(client[c].payload).deleted_at = Never
  BY <1>2 DEF Upsert, Row
<1>4. row' # Gone
  <2>1. Upsert(client[c].payload) \in Row
    BY <1>1, <1>2, WriterShape DEF Upsert, Row, Payload, Time, IInv, Writers
  <2> QED
    BY <2>1, GoneAssumption DEF Save
<1> QED
  BY <1>1, <1>3, <1>4, WriteKeeps DEF Save, BodyDeletedAt

LEMMA MarkKeeps ==
    ASSUME IInv, NEW c \in Client, Mark(c)
    PROVE  ColumnsAgree' /\ WritersSound' /\ PurgesSound'
<1>1. CASE row = Gone
  BY <1>1, FadesKeeps DEF Mark, Fades, Goto, IInv, TypeOK
<1>2. CASE row # Gone
  <2>1. c \in Writers /\ row \in Row
    BY <1>2, RowShape DEF Mark, Writers, IInv
  <2>2. /\ row'.payload = client[c].payload
        /\ row'.deleted_at = client[c].payload.deleted
        /\ row'.expires_at = row.expires_at
        /\ row' \in Row
    BY <1>2, <2>1, RowShape, WriterShape, MarkerShape
       DEF Mark, Row, IInv, Payload, Time
  <2>3. /\ row.expires_at = client[c].payload.exp
        /\ client[c].payload.deleted # Given
    BY <1>2, <2>1 DEF IInv, ColumnsAgree, WritersSound
  <2> QED
    BY <2>1, <2>2, <2>3, GoneAssumption, WriteKeeps DEF Mark
<1> QED
  BY <1>1, <1>2

LEMMA TickKeeps ==
    ASSUME IInv, Tick
    PROVE  ColumnsAgree' /\ WritersSound' /\ PurgesSound'
<1>1. Writers' = Writers /\ Purgers' = Purgers
  BY DEF Tick, Writers, Purgers
<1>2. now \in Nat /\ now' = now + 1 /\ UNCHANGED <<row, client, created>>
  BY DEF Tick, IInv, TypeOK
<1>3. ColumnsAgree'
  BY <1>2 DEF IInv, ColumnsAgree
<1>4. ASSUME NEW d \in Writers
      PROVE  client[d].since <= now' /\ now' <= client[d].since + Patience
  <2>1. client[d].since \in Nat /\ client[d] # Idle /\ d \in Client
    BY WriterShape DEF IInv, Writers, Idle
  <2>2. now - client[d].since < Patience /\ client[d].since <= now
    BY <2>1 DEF Tick, IInv, WritersSound
  <2> QED
    BY <1>2, <2>1, <2>2
<1>5. WritersSound'
  BY <1>1, <1>2, <1>4 DEF IInv, WritersSound
<1>6. PurgesSound'
  <2>1. ASSUME row # Gone, PurgeDue(row)
        PROVE  PurgeDue(row)'
    <3>1. row.expires_at \in Time /\ row.deleted_at \in Time
      BY <2>1, RowShape DEF IInv
    <3> QED
      BY <1>2, <2>1, <3>1 DEF PurgeDue, Time
  <2>2. ASSUME NEW d \in Writers, client[d].payload.exp # Never,
               client[d].payload.exp <= now
        PROVE  client[d].payload.exp <= now'
    <3>1. client[d].payload.exp \in Nat
      BY <2>2, WriterShape DEF IInv, Writers, Payload, Time
    <3> QED
      BY <1>2, <2>2, <3>1
  <2> QED
    BY <1>1, <1>2, <2>1, <2>2 DEF IInv, PurgesSound
<1> QED
  BY <1>3, <1>5, <1>6

----------------------------------------------------------------------------
LEMMA StepIInv ==
    ASSUME IInv, [Next]_vars
    PROVE  IInv'
<1>1. TypeOK'
  BY StepTypeOK DEF IInv
<1>2. ASSUME NEW c \in Client, GetForUpdate(c)
      PROVE  ColumnsAgree' /\ WritersSound' /\ PurgesSound'
  <2> DEFINE state == [pc |-> "save", payload |-> row.payload, since |-> now]
  <2>1. Select(c) /\ Found /\ Goto(c, state) /\ UNCHANGED <<now, row, created>>
    BY <1>2 DEF GetForUpdate
  <2>2. /\ state.pc = "save" /\ state.since = now
        /\ state.payload.exp = row.payload.exp /\ state.payload.deleted = Never
    BY <2>1 DEF Found
  <2> HIDE DEF state
  <2> QED
    BY <2>1, <2>2, ReadKeeps
<1>3. ASSUME NEW c \in Client, GetForDelete(c)
      PROVE  ColumnsAgree' /\ WritersSound' /\ PurgesSound'
  <2> DEFINE marked == [row.payload EXCEPT !.deleted = Stamp(now)]
             state == [pc |-> "mark", since |-> now, payload |-> marked]
  <2>1. Select(c) /\ Found /\ Goto(c, state) /\ UNCHANGED <<now, row, created>>
    BY <1>3 DEF GetForDelete
  <2>2. marked.exp = row.payload.exp /\ marked.deleted = Stamp(now)
    BY <2>1, RowShape DEF Select, Payload, IInv
  <2>3. state.pc = "mark" /\ state.since = now /\ state.payload = marked
    OBVIOUS
  <2> HIDE DEF state, marked
  <2> QED
    BY <2>1, <2>2, <2>3, ReadKeeps
<1>4. ASSUME NEW c \in Client,
             \/ GetAndPurge(c) \/ Save(c) \/ Mark(c)
             \/ \E exp \in {Never} \cup 1 .. MaxTime,
                   deleted \in BodyDeletedAt : Create(c, exp, deleted)
      PROVE  ColumnsAgree' /\ WritersSound' /\ PurgesSound'
  BY <1>4, GetAndPurgeKeeps, SaveKeeps, MarkKeeps, CreateKeeps
<1>5. CASE \/ \E c \in Client : \/ GetToResolve(c) \/ PurgeLink(c)
                                \/ PurgeEvents(c) \/ Fail(c)
           \/ IncrClickBy \/ RecordEvents \/ Crash \/ UNCHANGED vars
  BY <1>1, <1>5, FadingSteps, FadesKeeps DEF IInv
<1>6. CASE Tick
  BY <1>1, <1>6, TickKeeps DEF IInv
<1> QED
  BY <1>1, <1>2, <1>3, <1>4, <1>5, <1>6 DEF Next, IInv

LEMMA Inductive == Spec => []IInv
BY InitIInv, StepIInv, PTL DEF Spec

(* The tables and the requests keep their types. *)
THEOREM TypeCorrect == Spec => []TypeOK
<1>1. IInv => TypeOK
  BY DEF IInv
<1> QED
  BY <1>1, Inductive, PTL

(* What the columns say of a link and what its payload says agree, however  *)
(* the statements of any number of requests interleave, but for the NULL of *)
(* a link created as deleted.                                               *)
THEOREM ColumnsAndPayloadAgree == Spec => []ColumnsAgree
<1>1. IInv => ColumnsAgree
  BY DEF IInv
<1> QED
  BY <1>1, Inductive, PTL

----------------------------------------------------------------------------
(* What a step does to the row.                                             *)

LEMMA RowSteps ==
    ASSUME IInv, [Next]_vars
    PROVE  /\ \/ row' = row
              \/ row' = Gone /\ \E c \in Purgers : PurgeLink(c)
              \/ \E c \in Writers : Save(c)
              \/ row # Gone /\ \E c \in Writers : Mark(c)
              \/ row # Gone /\ row' = [row EXCEPT !.clicks = @ + waiting]
           /\ \/ events' = events
              \/ events' \in Nat /\ events' >= events
              \/ \E c \in Purgers : PurgeEvents(c)
           /\ now' \in {now, now + 1}
           /\ now' # now => row' = row
<1> USE DEF Purgers, Writers
<1>1. events \in Nat /\ waiting \in Nat /\ unrecorded \in Nat
  BY DEF IInv, TypeOK
<1>2. ASSUME NEW c \in Client, GetAndPurge(c) \/ GetToResolve(c)
               \/ GetForUpdate(c) \/ GetForDelete(c) \/ Fail(c)
               \/ \E exp \in {Never} \cup 1 .. MaxTime,
                     deleted \in BodyDeletedAt : Create(c, exp, deleted)
      PROVE  row' = row /\ events' = events /\ now' = now
  BY <1>2 DEF GetAndPurge, GetToResolve, GetForUpdate, GetForDelete, Fail, Create
<1>3. ASSUME NEW c \in Client, PurgeLink(c)
      PROVE  /\ c \in Purgers /\ row' \in {Gone, row}
             /\ events' = events /\ now' = now
  BY <1>3 DEF PurgeLink
<1>4. ASSUME NEW c \in Client, PurgeEvents(c)
      PROVE  c \in Purgers /\ row' = row /\ now' = now
  BY <1>4 DEF PurgeEvents
<1>5. ASSUME NEW c \in Client, Save(c) \/ Mark(c)
      PROVE  /\ c \in Writers /\ events' = events /\ now' = now
             /\ Mark(c) /\ row = Gone => row' = row
  BY <1>5 DEF Save, Mark
<1>6. CASE IncrClickBy
  BY <1>6 DEF IncrClickBy
<1>7. CASE RecordEvents
  BY <1>1, <1>7 DEF RecordEvents
<1>8. CASE Crash \/ Tick \/ UNCHANGED vars
  BY <1>8 DEF Crash, Tick, vars
<1> QED
  BY <1>2, <1>3, <1>4, <1>5, <1>6, <1>7, <1>8 DEF Next

(* No statement that leaves the row loses clicks: not a re-save, not a mark. *)
THEOREM ClicksAreKept == Spec => ClicksKept
<1>1. ASSUME IInv, [Next]_vars, row # Gone, row' # Gone
      PROVE  row'.clicks >= row.clicks
  <2>1. row \in Row /\ row.clicks \in Nat /\ waiting \in Nat
    BY <1>1, RowShape DEF IInv, TypeOK
  <2>2. ASSUME NEW c \in Writers, Save(c) \/ Mark(c)
        PROVE  row'.clicks = row.clicks
    BY <1>1, <2>1, <2>2 DEF Save, Mark, Upsert, Row
  <2>3. ASSUME row' = [row EXCEPT !.clicks = @ + waiting]
        PROVE  row'.clicks = row.clicks + waiting
    BY <2>1, <2>3 DEF Row
  <2> QED
    BY <1>1, <2>1, <2>2, <2>3, RowSteps
<1>2. IInv /\ [Next]_vars =>
        [row # Gone /\ row' # Gone => row'.clicks >= row.clicks]_vars
  BY <1>1
<1> QED
  BY <1>2, Inductive, PTL DEF Spec, ClicksKept

(* A link that is not due loses no event, although purge decides by a row   *)
(* it read before.                                                          *)
THEOREM EventsAreKept == Spec => EventsKept
<1>1. ASSUME IInv, [Next]_vars, row # Gone, ~PurgeDue(row)
      PROVE  events' >= events
  <2>1. Purgers = {} /\ events \in Nat
    BY <1>1 DEF IInv, PurgesSound, TypeOK
  <2> QED
    BY <1>1, <2>1, RowSteps
<1>2. IInv /\ [Next]_vars =>
        [row # Gone /\ ~PurgeDue(row) => events' >= events]_vars
  BY <1>1
<1> QED
  BY <1>2, Inductive, PTL DEF Spec, EventsKept

----------------------------------------------------------------------------
(* The refinement. *)

LEMMA PurgesWhatIsDue ==
    ASSUME IInv, row # Gone, PurgeDue(row)
    PROVE  Lifecycle!Due(row.payload, now)
<1>1. /\ row.payload.exp \in Time /\ row.payload.deleted \in Time \cup {Given}
      /\ now \in Nat
  BY RowShape DEF IInv, TypeOK
<1> QED
  BY <1>1 DEF IInv, ColumnsAgree, PurgeDue, Time, Lifecycle!Due,
     Lifecycle!Expired, Lifecycle!GraceOver

LEMMA StepsOfLife ==
    ASSUME IInv, [Next]_vars
    PROVE  Lifecycle!Next
<1> DEFINE before == IF row = Gone THEN Gone ELSE row.payload
           after == IF row' = Gone THEN Gone ELSE row'.payload
<1>1. now' \in {now, now + 1} /\ (now' # now => row' = row)
  BY RowSteps
<1>2. ASSUME \/ after = before
             \/ before = Gone /\ after # Gone
                /\ after.deleted \in {Never, Given}
             \/ /\ before # Gone /\ after # Gone /\ after.exp = before.exp
                /\ before.deleted # Given /\ after.deleted # Given
                /\ after.deleted \in Nat => after.deleted <= now
             \/ before # Gone /\ after = Gone /\ Lifecycle!Due(before, now')
      PROVE  Lifecycle!Next
  BY <1>1, <1>2 DEF Lifecycle!Next, Lifecycle!Appear, Lifecycle!Rewrite,
     Lifecycle!Purge
<1>3. row # Gone => row \in Row /\ before # Gone /\ before = row.payload
  BY RowShape, GoneAssumption DEF IInv
<1>4. CASE row' = row
  BY <1>2, <1>4
<1>5. ASSUME NEW c \in Purgers, PurgeLink(c), row' = Gone, row # Gone
      PROVE  Lifecycle!Next
  <2>1. now' = now /\ PurgeDue(row)
    BY <1>5 DEF PurgeLink, IInv, PurgesSound
  <2>2. Lifecycle!Due(before, now')
    BY <1>3, <1>5, <2>1, PurgesWhatIsDue
  <2> QED
    BY <1>2, <1>3, <1>5, <2>2
<1>6. ASSUME NEW c \in Writers, Save(c)
      PROVE  Lifecycle!Next
  <2>1. client[c].payload \in Payload /\ client[c].payload # Gone
    BY WriterShape DEF IInv, Writers
  <2>2. client[c].payload.deleted \in {Never, Given}
    BY <1>6 DEF Save, IInv, WritersSound, BodyDeletedAt
  <2>3. Upsert(client[c].payload) \in Row
    BY <1>3, <2>1 DEF Upsert, Row, Payload, Time
  <2>4. Upsert(client[c].payload).payload = client[c].payload
    BY <1>3 DEF Upsert, Row
  <2>5. row' # Gone /\ after = client[c].payload
    BY <1>6, <2>3, <2>4, GoneAssumption DEF Save
  <2>6. row # Gone => /\ before.exp = client[c].payload.exp
                      /\ before.deleted # Given
                      /\ client[c].payload.deleted # Given
    BY <1>3 DEF IInv, WritersSound
  <2> QED
    BY <1>2, <1>3, <2>1, <2>2, <2>5, <2>6
<1>7. ASSUME NEW c \in Writers, Mark(c), row # Gone
      PROVE  Lifecycle!Next
  <2>1. client[c].payload \in Payload /\ client[c].payload # Gone
        /\ client[c].since \in Nat
    BY WriterShape DEF IInv, Writers
  <2>2. row' \in Row /\ row'.payload = client[c].payload
    BY <1>3, <1>7, <2>1, MarkerShape DEF Mark, Row, Payload, Time, IInv, Writers
  <2>3. row' # Gone /\ after = client[c].payload
    BY <2>2, GoneAssumption
  <2>4. /\ before.exp = client[c].payload.exp
        /\ before.deleted # Given /\ client[c].payload.deleted # Given
    BY <1>3, <1>7 DEF IInv, WritersSound
  <2>5. client[c].payload.deleted = Stamp(client[c].since)
        /\ client[c].since <= now
    BY <1>7 DEF Mark, IInv, WritersSound
  <2>6. Stamp(client[c].since) \in Nat /\ Stamp(client[c].since) <= client[c].since
    BY <2>1, StampBounds
  <2>7. now \in Nat
    BY DEF IInv, TypeOK
  <2>8. client[c].payload.deleted <= now
    BY <2>1, <2>5, <2>6, <2>7
  <2> QED
    BY <1>2, <1>3, <1>7, <2>1, <2>3, <2>4, <2>8
<1>8. ASSUME row # Gone, row' = [row EXCEPT !.clicks = @ + waiting]
      PROVE  Lifecycle!Next
  <2>1. row' \in Row /\ row'.payload = row.payload
    BY <1>3, <1>8 DEF Row, IInv, TypeOK
  <2> QED
    BY <1>2, <1>3, <1>8, <2>1, GoneAssumption
<1> QED
  BY <1>4, <1>5, <1>6, <1>7, <1>8, RowSteps

(* The row implements LinkLifecycle: with a grace window longer than two    *)
(* requests and a rounded second, no link leaves the table before it is due.*)
THEOREM SqliteImplementsLifecycle == Spec => ImplementsLifecycle
<1>1. Init => Lifecycle!Init
  BY DEF Init, Lifecycle!Init
<1>2. IInv /\ [Next]_vars => [Lifecycle!Next]_(Lifecycle!vars)
  BY StepsOfLife
<1> QED
  BY <1>1, <1>2, Inductive, PTL DEF Spec, ImplementsLifecycle, Lifecycle!Spec

=============================================================================
