-------------------------- MODULE RedisStoreProofs --------------------------
(***************************************************************************)
(* Theorems about RedisStore, for any number of clients and any grace      *)
(* window of whole seconds, with or without failing commands and kills:    *)
(* a deleted link is temporary, the link's key implements the life of a    *)
(* link, and the counters do not vanish before an undisturbed link.        *)
(***************************************************************************)
EXTENDS RedisStore, TLAPS

USE RedisAssumption

----------------------------------------------------------------------------
(* What the commands and conversions return. *)

LEMMA StampBounds ==
    ASSUME NEW t \in Nat
    PROVE  Stamp(t) \in Nat /\ Stamp(t) <= t /\ t < Stamp(t) + SecondLen
<1>1. t % SecondLen \in 0 .. SecondLen - 1
  OBVIOUS
<1>2. t % SecondLen <= t
  OBVIOUS
<1> QED
  BY <1>1, <1>2 DEF Stamp

LEMMA TTLBounds ==
    ASSUME now \in Nat, NEW payload \in Payload
    PROVE  /\ payloadTTL(payload) \in Nat
           /\ payloadTTL(payload) = 0 =>
                payload.exp = Never \/ payload.exp <= now
           /\ payloadTTL(payload) > 0 =>
                payload.exp # Never /\ payload.exp = now + payloadTTL(payload)
BY DEF payloadTTL, Payload, Time

LEMMA SetShape ==
    ASSUME now \in Nat, NEW payload \in Payload, NEW ttl \in Nat
    PROVE  /\ SET(payload, ttl) \in Entry(Payload)
           /\ SET(payload, ttl) # Gone
           /\ SET(payload, ttl).val = payload
           /\ SET(payload, ttl).until = IF ttl = 0 THEN Never ELSE now + ttl
<1>1. SET(payload, ttl) \in Entry(Payload)
  BY DEF SET, Entry, Time
<1> QED
  BY <1>1, GoneAssumption DEF SET

LEMMA SideKeyShape ==
    ASSUME now \in Nat, NEW key \in Key(Nat), NEW ttl \in Nat
    PROVE  /\ SideKey(key, ttl) \in Key(Nat)
           /\ key # Gone <=> SideKey(key, ttl) # Gone
           /\ key # Gone =>
                /\ SideKey(key, ttl).val = key.val
                /\ ttl = 0 => SideKey(key, ttl).until = Never
                /\ ttl > 0 => /\ SideKey(key, ttl).until \in Nat
                              /\ SideKey(key, ttl).until > now + ttl - SecondLen
<1>1. CASE key = Gone
  BY <1>1 DEF SideKey, EXPIRE, PERSIST
<1>2. CASE key # Gone /\ ttl = 0
  <2>1. key \in Entry(Nat)
    BY <1>2 DEF Key
  <2>2. /\ SideKey(key, ttl) = [key EXCEPT !.until = Never]
        /\ SideKey(key, ttl) \in Entry(Nat)
        /\ SideKey(key, ttl).val = key.val
        /\ SideKey(key, ttl).until = Never
    BY <1>2, <2>1 DEF SideKey, PERSIST, Entry, Time
  <2> QED
    BY <1>2, <2>2, GoneAssumption DEF Key
<1>3. CASE key # Gone /\ ttl > 0
  <2> DEFINE until == now + IF ttl < SecondLen THEN SecondLen ELSE Stamp(ttl)
  <2>1. key \in Entry(Nat)
    BY <1>3 DEF Key
  <2>2. until \in Nat /\ until > now + ttl - SecondLen
    BY StampBounds
  <2>3. SideKey(key, ttl) = [key EXCEPT !.until = until]
    BY <1>3 DEF SideKey, EXPIRE
  <2> HIDE DEF until
  <2>4. /\ SideKey(key, ttl) \in Entry(Nat)
        /\ SideKey(key, ttl).val = key.val
        /\ SideKey(key, ttl).until = until
    BY <2>1, <2>2, <2>3 DEF Entry, Time
  <2> QED
    BY <1>3, <2>2, <2>4, GoneAssumption DEF Key
<1> QED
  BY <1>1, <1>2, <1>3

LEMMA IncrShape ==
    ASSUME NEW key \in Key(Nat), NEW n \in Nat
    PROVE  /\ INCRBY(key, n) \in Key(Nat)
           /\ n = 0 => INCRBY(key, n) = key
           /\ n > 0 =>
                /\ INCRBY(key, n) # Gone
                /\ INCRBY(key, n).val = IF key = Gone THEN n ELSE key.val + n
                /\ INCRBY(key, n).until = IF key = Gone THEN Never ELSE key.until
<1>0. CASE n = 0
  BY <1>0 DEF INCRBY
<1>1. CASE n > 0 /\ key = Gone
  <2>1. INCRBY(key, n) \in Entry(Nat)
    BY <1>1 DEF INCRBY, Entry, Time
  <2> QED
    BY <1>1, <2>1, GoneAssumption DEF INCRBY, Key
<1>2. CASE n > 0 /\ key # Gone
  <2>1. key \in Entry(Nat)
    BY <1>2 DEF Key
  <2>2. /\ INCRBY(key, n) \in Entry(Nat)
        /\ INCRBY(key, n).val = key.val + n
        /\ INCRBY(key, n).until = key.until
    BY <1>2, <2>1 DEF INCRBY, Entry
  <2> QED
    BY <1>2, <2>2, GoneAssumption DEF Key
<1> QED
  BY <1>0, <1>1, <1>2

----------------------------------------------------------------------------
(* What requests in progress look like. *)

LEMMA SetterShape ==
    ASSUME TypeOK, NEW c \in Client, client[c].pc = "set"
    PROVE  /\ client[c] # Idle /\ client[c].op \in {"save", "delete"}
           /\ client[c].payload \in Payload /\ client[c].payload # Gone
<1>1. client[c] \in Busy \cup {Idle}
  BY DEF TypeOK
<1>2. client[c] # Idle
  BY DEF Idle
<1>3. client[c] \in [pc : {"set"}, op : {"save", "delete"}, payload : Payload]
  BY <1>1, <1>2 DEF Busy
<1> QED
  BY <1>2, <1>3, GoneAssumption

LEMMA SiderShape ==
    ASSUME TypeOK, NEW c \in Client, client[c].pc \in {"clicks", "stats"}
    PROVE  /\ client[c] # Idle /\ client[c].op \in {"save", "delete"}
           /\ client[c].ttl \in Nat
           /\ [client[c] EXCEPT !.pc = "stats"] \in Busy
           /\ [client[c] EXCEPT !.pc = "stats"].pc = "stats"
           /\ [client[c] EXCEPT !.pc = "stats"].op = client[c].op
           /\ [client[c] EXCEPT !.pc = "stats"].ttl = client[c].ttl
<1>1. client[c] \in Busy \cup {Idle}
  BY DEF TypeOK
<1>2. client[c] # Idle
  BY DEF Idle
<1>3. client[c] \in [pc : {"clicks", "stats"}, op : {"save", "delete"}, ttl : Nat]
  BY <1>1, <1>2 DEF Busy
<1> QED
  BY <1>2, <1>3 DEF Busy

LEMMA GotoMoves ==
    ASSUME TypeOK, NEW c \in Client, NEW state, Goto(c, state)
    PROVE  /\ client'[c] = state
           /\ \A d \in Client : d # c => client'[d] = client[d]
           /\ disturbed' \in BOOLEAN
           /\ ~disturbed' => ~disturbed /\ ~Overlap(client')
BY DEF TypeOK, Goto, Overlap

----------------------------------------------------------------------------
(* Types. *)

LEMMA StepTypeOK ==
    ASSUME TypeOK, [Next]_vars
    PROVE  TypeOK'
<1> USE DEF keys, flusher, requests
<1>1. ASSUME NEW c \in Client, NEW exp \in {Never} \cup 1 .. MaxTime,
             NEW deleted \in BodyDeletedAt, Create(c, exp, deleted)
      PROVE  TypeOK'
  <2> DEFINE new == [exp |-> IF exp = Never THEN Never ELSE Stamp(exp),
                     deleted |-> deleted]
  <2>1. new \in Payload
    BY StampBounds DEF Payload, Time, BodyDeletedAt
  <2>2. [pc |-> "set", op |-> "save", payload |-> new] \in Busy
    BY <2>1 DEF Busy
  <2> QED
    BY <1>1, <2>2, GotoMoves DEF Create, Goto, TypeOK
<1>2. ASSUME NEW c \in Client, GetForUpdate(c)
      PROVE  TypeOK'
  <2>1. link.val \in Payload
    BY <1>2 DEF GetForUpdate, Live, TypeOK, Key, Entry
  <2> QED
    BY <1>2, <2>1, GotoMoves DEF GetForUpdate, Goto, TypeOK, Busy
<1>3. ASSUME NEW c \in Client, GetForDelete(c)
      PROVE  TypeOK'
  <2>1. link.val \in Payload
    BY <1>3 DEF GetForDelete, Live, TypeOK, Key, Entry
  <2>2. [link.val EXCEPT !.deleted = Stamp(now)] \in Payload
    BY <2>1, StampBounds DEF TypeOK, Payload, Time
  <2> QED
    BY <1>3, <2>2, GotoMoves DEF GetForDelete, Goto, TypeOK, Busy
<1>4. ASSUME NEW c \in Client, SaveSet(c)
      PROVE  TypeOK'
  <2>1. client[c].payload \in Payload /\ now \in Nat
    BY <1>4, SetterShape DEF SaveSet, TypeOK
  <2>2. payloadTTL(client[c].payload) \in Nat
    BY <2>1, TTLBounds
  <2>3. link' \in Key(Payload)
    BY <1>4, <2>1, <2>2, SetShape DEF SaveSet, Key
  <2> QED
    BY <1>4, <2>2, <2>3, GotoMoves DEF SaveSet, Goto, TypeOK, Busy
<1>5. ASSUME NEW c \in Client, DeleteSet(c)
      PROVE  TypeOK'
  <2>1. client[c].payload \in Payload /\ now \in Nat
    BY <1>5, SetterShape DEF DeleteSet, TypeOK
  <2>2. link' \in Key(Payload)
    BY <1>5, <2>1, SetShape DEF DeleteSet, Key
  <2> QED
    BY <1>5, <2>2, GotoMoves DEF DeleteSet, Goto, TypeOK, Busy
<1>6. ASSUME NEW c \in Client, SideClicks(c)
      PROVE  TypeOK'
  <2> DEFINE next == [client[c] EXCEPT !.pc = "stats"]
  <2>1. client[c].ttl \in Nat /\ next \in Busy /\ Goto(c, next)
    BY <1>6, SiderShape DEF SideClicks
  <2>2. clicks' \in Key(Nat)
    BY <1>6, <2>1, SideKeyShape DEF SideClicks, TypeOK
  <2> HIDE DEF next
  <2> QED
    BY <1>6, <2>1, <2>2, GotoMoves DEF SideClicks, Goto, TypeOK
<1>7. ASSUME NEW c \in Client, SideStats(c)
      PROVE  TypeOK'
  <2>1. client[c].ttl \in Nat
    BY <1>7, SiderShape DEF SideStats
  <2>2. stats' \in Key(Nat)
    BY <1>7, <2>1, SideKeyShape DEF SideStats, TypeOK
  <2> QED
    BY <1>7, <2>2, GotoMoves DEF SideStats, Goto, TypeOK
<1>8. ASSUME NEW c \in Client, Fail(c)
      PROVE  TypeOK'
  <2>1. link' \in Key(Payload)
    <3>1. CASE client[c].pc = "set"
      <4>1. client[c].payload \in Payload /\ now \in Nat
        BY <3>1, SetterShape DEF TypeOK
      <4> QED
        BY <1>8, <4>1, TTLBounds, SetShape DEF Fail, SaveGivesUp, DeleteSetRefused,
           SideKeyFails, PipelineBreaks, Key, TypeOK
    <3> QED
      BY <1>8, <3>1 DEF Fail, SaveGivesUp, DeleteSetRefused,
           SideKeyFails, PipelineBreaks, TypeOK
  <2>2. client' \in [Client -> Busy \cup {Idle}]
    <3>1. client[c].pc = "clicks" => [client[c] EXCEPT !.pc = "stats"] \in Busy
      BY SiderShape
    <3>2. [pc |-> "clicks", op |-> "delete", ttl |-> Grace] \in Busy
      BY DEF Busy
    <3> QED
      BY <1>8, <3>1, <3>2 DEF Fail, SaveGivesUp, DeleteSetRefused,
           SideKeyFails, PipelineBreaks, Goto, TypeOK
  <2>3. disturbed' \in BOOLEAN
    BY <1>8 DEF Fail, SaveGivesUp, DeleteSetRefused,
           SideKeyFails, PipelineBreaks, Goto, Overlap, TypeOK
  <2> QED
    BY <1>8, <2>1, <2>2, <2>3 DEF Fail, TypeOK
<1>9. CASE Resolve
  BY <1>9 DEF Resolve, TypeOK
<1>10. CASE IncrClickBy
  <2>1. PICK n \in {waiting, 0} :
          /\ clicks' = INCRBY(clicks, n)
          /\ counted' = IF link = Gone THEN 0 ELSE counted + n
    BY <1>10 DEF IncrClickBy
  <2>2. n \in Nat /\ clicks' \in Key(Nat)
    BY <2>1, IncrShape DEF TypeOK
  <2> QED
    BY <1>10, <2>1, <2>2 DEF IncrClickBy, TypeOK
<1>11. CASE RecordEvents
  <2>1. PICK n \in 0 .. unrecorded :
          /\ stats' = INCRBY(stats, n)
          /\ recorded' = IF link = Gone THEN 0 ELSE recorded + n
    BY <1>11 DEF RecordEvents, TypeOK
  <2>2. n \in Nat /\ stats' \in Key(Nat)
    BY <2>1, IncrShape DEF TypeOK
  <2> QED
    BY <1>11, <2>1, <2>2 DEF RecordEvents, TypeOK
<1>12. CASE Crash
  BY <1>12 DEF Crash, TypeOK
<1>13. CASE Tick
  BY <1>13 DEF Tick, At, TypeOK, Key
<1>14. CASE UNCHANGED vars
  BY <1>14 DEF vars, TypeOK
<1> QED
  BY <1>1, <1>2, <1>3, <1>4, <1>5, <1>6, <1>7, <1>8, <1>9, <1>10, <1>11,
     <1>12, <1>13, <1>14 DEF Next

----------------------------------------------------------------------------
(* The invariant: kinds of steps. *)

Expiries == {Never} \cup 0 .. MaxTime

\* What is proved of every step, beside the types.
Kept == DeletedIsTemporary /\ CopiesSound /\ LiveUntilExpiry

\* The link's key stays, and requests only get on with their side keys or end,
\* those of a DELETE perhaps although its SET was refused.
Calm ==
    /\ now' = now /\ created' = created /\ link' = link
    /\ ~created => Fresh'
    /\ \A c \in Client :
         \/ client'[c] = client[c]
         \/ client'[c] = Idle
         \/ /\ client[c].pc \in {"clicks", "stats"} /\ client'[c].pc = "stats"
            /\ client'[c].op = client[c].op /\ client'[c].ttl = client[c].ttl
         \/ /\ client[c] # Idle
            /\ client'[c] = [pc |-> "clicks", op |-> "delete", ttl |-> Grace]

LEMMA CalmKeeps ==
    ASSUME IInv, Calm
    PROVE  Kept'
<1>1. /\ \A c \in AtSet("save")' : c \in AtSet("save") /\ client'[c] = client[c]
      /\ \A c \in AtSet("delete")' : c \in AtSet("delete") /\ client'[c] = client[c]
  BY DEF Calm, AtSet, Idle
<1>2. \A c \in AtSideKeys("save")' :
         c \in AtSideKeys("save") /\ client'[c].ttl = client[c].ttl
  BY DEF Calm, AtSideKeys, Idle
<1>3. DeletedIsTemporary' /\ LiveUntilExpiry'
  BY DEF Calm, IInv, DeletedIsTemporary, LiveUntilExpiry, Live
<1>4. PICK e \in Expiries : OneExpiry(e)
  BY DEF IInv, CopiesSound, Expiries
<1>5. OneExpiry(e)'
  BY <1>1, <1>2, <1>4 DEF OneExpiry, Calm
<1>6. ~created' => Fresh' /\ \A c \in Client : client'[c] = Idle
  BY DEF Calm, IInv, CopiesSound, Idle
<1>7. CopiesSound'
  <2>1. \A c \in AtSet("save")' :
          \/ client'[c].payload.deleted = Never
          \/ /\ client'[c].payload.deleted = Given
             /\ link' = Gone /\ AtSet("save")' \cup AtSet("delete")' = {c}
    BY <1>1 DEF IInv, CopiesSound, Calm
  <2>2. link' # Gone /\ link'.val.deleted = Given =>
          AtSet("save")' \cup AtSet("delete")' = {}
    BY <1>1 DEF IInv, CopiesSound, Calm
  <2> QED
    BY <1>1, <1>4, <1>5, <1>6, <2>1, <2>2 DEF IInv, CopiesSound, Calm, Expiries
<1> QED
  BY <1>3, <1>7 DEF Kept

LEMMA CalmSteps ==
    ASSUME IInv,
           \/ \E c \in Client : \/ SideClicks(c) \/ SideStats(c)
                                \/ Fail(c) /\ link' = link
           \/ Resolve \/ IncrClickBy \/ RecordEvents \/ Crash \/ UNCHANGED vars
    PROVE  Calm
<1> USE DEF keys, flusher, requests
<1>1. TypeOK
  BY DEF IInv
<1>2. ~created => Fresh /\ \A c \in Client : client[c] = Idle
  BY DEF IInv, CopiesSound
<1>3. ASSUME NEW c \in Client, SideClicks(c)
      PROVE  Calm
  <2> DEFINE next == [client[c] EXCEPT !.pc = "stats"]
  <2>1. /\ Goto(c, next) /\ next.pc = "stats"
        /\ next.op = client[c].op /\ next.ttl = client[c].ttl
    BY <1>1, <1>3, SiderShape DEF SideClicks
  <2> HIDE DEF next
  <2>2. client'[c] = next /\ \A d \in Client : d # c => client'[d] = client[d]
    BY <1>1, <2>1, GotoMoves
  <2>3. created
    BY <1>2, <1>3 DEF SideClicks, Idle
  <2> QED
    BY <1>3, <2>1, <2>2, <2>3 DEF Calm, SideClicks
<1>4. ASSUME NEW c \in Client, SideStats(c)
      PROVE  Calm
  <2>1. client'[c] = Idle /\ \A d \in Client : d # c => client'[d] = client[d]
    BY <1>1, <1>4, GotoMoves DEF SideStats
  <2>2. created
    BY <1>2, <1>4 DEF SideStats, Idle
  <2> QED
    BY <1>4, <2>1, <2>2 DEF Calm, SideStats
<1>5. ASSUME NEW c \in Client, Fail(c), link' = link
      PROVE  Calm
  <2>1. \A d \in Client : d # c => client'[d] = client[d]
    BY <1>1, <1>5 DEF Fail, SaveGivesUp, DeleteSetRefused, SideKeyFails,
       PipelineBreaks, Goto, TypeOK
  <2>2. client[c] # Idle
    BY <1>5 DEF Fail, SaveGivesUp, DeleteSetRefused, SideKeyFails,
       PipelineBreaks, Idle
  <2>3. \/ client'[c] = Idle
        \/ client[c].pc = "clicks" /\ client'[c] = [client[c] EXCEPT !.pc = "stats"]
        \/ client'[c] = [pc |-> "clicks", op |-> "delete", ttl |-> Grace]
    BY <1>1, <1>5 DEF Fail, SaveGivesUp, DeleteSetRefused, SideKeyFails,
       PipelineBreaks, Goto, TypeOK
  <2>4. \/ client'[c] = Idle
        \/ /\ client[c].pc = "clicks" /\ client'[c].pc = "stats"
           /\ client'[c].op = client[c].op /\ client'[c].ttl = client[c].ttl
        \/ client'[c] = [pc |-> "clicks", op |-> "delete", ttl |-> Grace]
    BY <1>1, <2>3, SiderShape
  <2>5. created
    BY <1>2, <2>2
  <2> QED
    BY <1>5, <2>1, <2>2, <2>4, <2>5 DEF Calm, Fail
<1>6. CASE Resolve
  BY <1>2, <1>6 DEF Resolve, Calm, Live, Fresh
<1>7. CASE IncrClickBy \/ RecordEvents
  <2>1. created
    BY <1>2, <1>7 DEF IncrClickBy, RecordEvents, Fresh
  <2> QED
    BY <1>7, <2>1 DEF IncrClickBy, RecordEvents, Calm
<1>8. CASE Crash
  BY <1>2, <1>8 DEF Crash, Calm, Fresh
<1>9. CASE UNCHANGED vars
  BY <1>2, <1>9 DEF vars, Calm, Fresh
<1> QED
  BY <1>3, <1>4, <1>5, <1>6, <1>7, <1>8, <1>9

(* A copy is taken of a live link. *)
LEMMA ReadKeeps ==
    ASSUME IInv, NEW c \in Client, Live, client[c] = Idle,
           NEW state, client'[c] = state,
           \A d \in Client : d # c => client'[d] = client[d],
           UNCHANGED <<now, keys, created>>, state.pc = "set",
           state.payload.exp = link.val.exp,
           \/ state.op = "save" /\ state.payload.deleted = Never
           \/ state.op = "delete" /\ state.payload.deleted = Stamp(now)
    PROVE  Kept'
<1>1. \A op \in {"save", "delete"} : \A d \in AtSet(op)' :
         (d = c /\ state.op = op) \/ (d \in AtSet(op) /\ client'[d] = client[d])
  BY DEF AtSet
<1>2. \A d \in AtSideKeys("save")' :
         d \in AtSideKeys("save") /\ client'[d] = client[d]
  BY DEF AtSideKeys
<1>3. created /\ link # Gone /\ link' = link
  BY DEF IInv, CopiesSound, Live, keys, Fresh
<1>4. DeletedIsTemporary' /\ LiveUntilExpiry' /\ link'.val.deleted = Never
  BY <1>3 DEF IInv, DeletedIsTemporary, LiveUntilExpiry, Live
<1>5. PICK e \in Expiries : OneExpiry(e)
  BY DEF IInv, CopiesSound, Expiries
<1>6. OneExpiry(e)'
  BY <1>1, <1>2, <1>3, <1>5 DEF OneExpiry
<1>7. \A d \in AtSet("save")' : client'[d].payload.deleted = Never
  BY <1>1, <1>3 DEF IInv, CopiesSound
<1>8. ASSUME NEW d \in AtSet("delete")'
      PROVE  LET copy == client'[d].payload
                 DueAt(t) == \/ copy.exp # Never /\ copy.exp <= t
                             \/ copy.deleted + Grace <= t
             IN  /\ copy.deleted \in Nat /\ copy.deleted <= now'
                 /\ link' = Gone => DueAt(now')
                 /\ link' # Gone /\ link'.until # Never => DueAt(link'.until)
  <2>1. CASE d = c /\ state.op = "delete"
    <3>1. now \in Nat
      BY DEF IInv, TypeOK
    <3>2. client'[d].payload.deleted = Stamp(now)
      BY <2>1
    <3>3. Stamp(now) \in Nat /\ Stamp(now) <= now
      BY <3>1, StampBounds
    <3>4. link.until # Never => link.val.exp # Never /\ link.val.exp <= link.until
      BY DEF IInv, LiveUntilExpiry, Live
    <3> QED
      BY <1>3, <2>1, <3>2, <3>3, <3>4
  <2>2. CASE d \in AtSet("delete") /\ client'[d] = client[d]
    BY <1>3, <2>2 DEF IInv, CopiesSound
  <2> QED
    BY <1>1, <2>1, <2>2
<1>9. CopiesSound'
  BY <1>3, <1>4, <1>6, <1>7, <1>8 DEF CopiesSound, Expiries
<1> QED
  BY <1>4, <1>9 DEF Kept

LEMMA CreateKeeps ==
    ASSUME IInv, NEW c \in Client, NEW exp \in {Never} \cup 1 .. MaxTime,
           NEW deleted \in BodyDeletedAt, Create(c, exp, deleted)
    PROVE  Kept'
<1> DEFINE e == IF exp = Never THEN Never ELSE Stamp(exp)
           new == [exp |-> e, deleted |-> deleted]
           state == [pc |-> "set", op |-> "save", payload |-> new]
<1>1. /\ client'[c] = state
      /\ \A d \in Client : d # c => client'[d] = client[d]
  BY GotoMoves DEF Create, IInv
<1>2. link = Gone /\ \A d \in Client : client[d] = Idle
  BY DEF Create, IInv, CopiesSound, Fresh
<1>3. link' = Gone /\ created'
  BY <1>2 DEF Create, keys
<1>4. /\ AtSet("save")' = {c} /\ AtSet("delete")' = {}
      /\ AtSideKeys("save")' = {}
  BY <1>1, <1>2 DEF AtSet, AtSideKeys, Idle
<1>5. e \in Expiries
  <2>1. CASE exp = Never
    BY <2>1 DEF Expiries
  <2>2. CASE exp \in 1 .. MaxTime
    <3>1. Stamp(exp) \in Nat /\ Stamp(exp) <= exp /\ e = Stamp(exp)
      BY <2>2, StampBounds
    <3> QED
      BY <2>2, <3>1 DEF Expiries
  <2> QED
    BY <2>1, <2>2
<1>6. state.payload.exp = e /\ state.payload.deleted \in {Never, Given}
  BY DEF BodyDeletedAt
<1> HIDE DEF e, state
<1>7. OneExpiry(e)'
  BY <1>1, <1>3, <1>4, <1>6 DEF OneExpiry
<1> QED
  BY <1>1, <1>3, <1>4, <1>5, <1>6, <1>7
     DEF Kept, DeletedIsTemporary, LiveUntilExpiry, Live, CopiesSound, Expiries

(* Either SET, with the payload of request c; what becomes of c itself is   *)
(* not idle only if it is at the side keys next.                            *)
LEMMA SetKeeps ==
    ASSUME IInv, NEW c \in Client, NEW op \in {"save", "delete"}, c \in AtSet(op),
           NEW ttl \in Nat,
           ttl = IF op = "save" THEN payloadTTL(client[c].payload) ELSE Grace,
           link' = SET(client[c].payload, ttl), now' = now, created' = created,
           \A d \in Client : d # c => client'[d] = client[d],
           \/ client'[c] = Idle
           \/ client'[c] = [pc |-> "clicks", op |-> op, ttl |-> ttl]
    PROVE  Kept'
<1> DEFINE copy == client[c].payload
<1>1. copy \in Payload /\ client[c] # Idle /\ now \in Nat
  BY SetterShape DEF IInv, AtSet, TypeOK
<1>2. /\ link' # Gone /\ link'.val = copy
      /\ link'.until = IF ttl = 0 THEN Never ELSE now + ttl
  BY <1>1, SetShape
<1>3. \A o \in {"save", "delete"} : \A d \in AtSet(o)' :
         d \in AtSet(o) /\ client'[d] = client[d]
  BY DEF AtSet, Idle
<1>4. \A d \in AtSideKeys("save")' :
         \/ d \in AtSideKeys("save") /\ client'[d] = client[d]
         \/ op = "save" /\ client'[d].ttl = ttl
  BY DEF AtSideKeys, Idle
<1>5. created
  BY <1>1 DEF IInv, CopiesSound
<1>6. PICK e \in Expiries : OneExpiry(e)
  BY DEF IInv, CopiesSound, Expiries
<1>7. copy.exp = e
  BY <1>6 DEF OneExpiry
<1>8. op = "save" => /\ copy.deleted \in {Never, Given}
                     /\ ttl > 0 => e # Never /\ e = now + ttl
  BY <1>1, <1>7, TTLBounds DEF IInv, CopiesSound
<1>9. op = "delete" => copy.deleted \in Nat /\ copy.deleted <= now
  BY DEF IInv, CopiesSound
<1>10. OneExpiry(e)'
  <2>1. \A d \in AtSideKeys("save")' :
          client'[d].ttl > 0 => e # Never /\ e <= now + client'[d].ttl
    BY <1>1, <1>4, <1>6, <1>8 DEF OneExpiry
  <2> QED
    BY <1>2, <1>3, <1>6, <1>7, <2>1 DEF OneExpiry
<1>11. DeletedIsTemporary'
  BY <1>1, <1>2, <1>8, <1>9 DEF DeletedIsTemporary
<1>12. LiveUntilExpiry'
  BY <1>1, <1>2, <1>7, <1>8, <1>9 DEF LiveUntilExpiry, Live
<1>13. ASSUME NEW d \in AtSet("delete")'
       PROVE  LET other == client'[d].payload
                  DueAt(t) == \/ other.exp # Never /\ other.exp <= t
                              \/ other.deleted + Grace <= t
              IN  /\ other.deleted \in Nat /\ other.deleted <= now'
                  /\ link' = Gone => DueAt(now')
                  /\ link' # Gone /\ link'.until # Never => DueAt(link'.until)
  <2> DEFINE other == client[d].payload
  <2>1. d \in AtSet("delete") /\ client'[d] = client[d]
    BY <1>3
  <2>2. other.deleted \in Nat /\ other.deleted <= now
    BY <2>1 DEF IInv, CopiesSound
  <2>3. other.exp = e
    BY <1>6, <2>1 DEF OneExpiry
  <2>4. ASSUME link'.until # Never
        PROVE  \/ other.exp # Never /\ other.exp <= link'.until
               \/ other.deleted + Grace <= link'.until
    <3>1. CASE op = "save"
      BY <1>1, <1>2, <1>8, <2>3, <2>4, <3>1
    <3>2. CASE op = "delete"
      BY <1>1, <1>2, <2>2, <3>2
    <3> QED
      BY <3>1, <3>2
  <2> QED
    BY <1>2, <2>1, <2>2, <2>4
<1>14. /\ \A d \in AtSet("save")' : client'[d].payload.deleted = Never
       /\ link'.val.deleted = Given => AtSet("save")' \cup AtSet("delete")' = {}
  <2>1. c \in AtSet("save") \cup AtSet("delete")
    OBVIOUS
  <2>2. c \notin AtSet("save")' /\ c \notin AtSet("delete")'
    BY DEF AtSet, Idle
  <2>3. \A d \in AtSet("save")' : client'[d].payload.deleted = Never
    BY <1>3, <2>1, <2>2 DEF IInv, CopiesSound
  <2>4. ASSUME link'.val.deleted = Given
        PROVE  AtSet("save")' \cup AtSet("delete")' = {}
    <3>1. c \in AtSet("save") /\ copy.deleted = Given
      BY <1>2, <1>9, <2>4
    <3>2. AtSet("save") \cup AtSet("delete") = {c}
      BY <3>1 DEF IInv, CopiesSound
    <3> QED
      BY <1>3, <2>2, <3>2
  <2> QED
    BY <2>3, <2>4
<1>15. CopiesSound'
  BY <1>2, <1>5, <1>6, <1>10, <1>13, <1>14 DEF CopiesSound, Expiries
<1> QED
  BY <1>11, <1>12, <1>15 DEF Kept

(* Time passes: a key that goes was due by what its payload says.           *)
LEMMA GoesWhenDue ==
    ASSUME IInv, link # Gone, link.until # Never, NEW t \in Nat, link.until <= t
    PROVE  Lifecycle!Due(link.val, t)
<1>1. /\ link.until \in Nat /\ link.val.exp \in Time
      /\ link.val.deleted \in Time \cup {Given}
  BY DEF IInv, TypeOK, Key, Entry, Payload, Time
<1>2. CASE link.val.deleted \notin Nat
  BY <1>1, <1>2 DEF IInv, LiveUntilExpiry, Lifecycle!Due, Lifecycle!Expired, Time
<1>3. CASE link.val.deleted \in Nat
  BY <1>1, <1>3
     DEF IInv, DeletedIsTemporary, Lifecycle!Due, Lifecycle!GraceOver, Time
<1> QED
  BY <1>2, <1>3

LEMMA TickKeeps ==
    ASSUME IInv, Tick
    PROVE  Kept'
<1>1. now \in Nat /\ now' = now + 1 /\ client' = client /\ created' = created
  BY DEF Tick, IInv, TypeOK, requests
<1>2. \/ link' = link
      \/ /\ link # Gone /\ link' = Gone
         /\ link.until # Never /\ link.until <= now'
  BY DEF Tick, At
<1>3. DeletedIsTemporary' /\ LiveUntilExpiry'
  BY <1>2 DEF IInv, DeletedIsTemporary, LiveUntilExpiry, Live
<1>4. PICK e \in Expiries : OneExpiry(e)
  BY DEF IInv, CopiesSound, Expiries
<1>5. AtSet("save")' = AtSet("save") /\ AtSet("delete")' = AtSet("delete")
      /\ AtSideKeys("save")' = AtSideKeys("save")
  BY <1>1 DEF AtSet, AtSideKeys
<1>6. OneExpiry(e)'
  <2>1. ASSUME NEW c \in AtSideKeys("save"), client[c].ttl > 0
        PROVE  e # Never /\ e <= now' + client[c].ttl
    <3>1. client[c].ttl \in Nat
      BY SiderShape DEF IInv, AtSideKeys
    <3>2. e \in Time
      BY <1>4 DEF Expiries, Time
    <3> QED
      BY <1>1, <1>4, <2>1, <3>1, <3>2 DEF OneExpiry, Time
  <2> QED
    BY <1>1, <1>2, <1>4, <1>5, <2>1 DEF OneExpiry
<1>7. ~created => Fresh' /\ \A c \in Client : client'[c] = Idle
  BY <1>1 DEF Tick, At, IInv, CopiesSound, Fresh
<1>8. ASSUME NEW d \in AtSet("delete")
      PROVE  LET copy == client[d].payload
                 DueAt(t) == \/ copy.exp # Never /\ copy.exp <= t
                             \/ copy.deleted + Grace <= t
             IN  /\ copy.deleted \in Nat /\ copy.deleted <= now'
                 /\ link' = Gone => DueAt(now')
                 /\ link' # Gone /\ link'.until # Never => DueAt(link'.until)
  <2> DEFINE copy == client[d].payload
             DueAt(t) == \/ copy.exp # Never /\ copy.exp <= t
                         \/ copy.deleted + Grace <= t
  <2>1. /\ copy.deleted \in Nat /\ copy.deleted <= now
        /\ link = Gone => DueAt(now)
        /\ link # Gone /\ link.until # Never => DueAt(link.until)
    BY DEF IInv, CopiesSound
  <2>2. copy.exp \in Time
    BY SetterShape DEF IInv, AtSet, Payload
  <2>3. link # Gone => link.until \in Time
    BY DEF IInv, TypeOK, Key, Entry
  <2> QED
    BY <1>1, <1>2, <2>1, <2>2, <2>3 DEF Time
<1>9. CopiesSound'
  <2>1. \A d \in AtSet("save") :
          \/ client[d].payload.deleted = Never
          \/ /\ client[d].payload.deleted = Given
             /\ link' = Gone /\ AtSet("save") \cup AtSet("delete") = {d}
    BY <1>2 DEF IInv, CopiesSound
  <2>2. link' # Gone /\ link'.val.deleted = Given =>
          AtSet("save") \cup AtSet("delete") = {}
    BY <1>2 DEF IInv, CopiesSound
  <2> QED
    BY <1>1, <1>4, <1>5, <1>6, <1>7, <1>8, <2>1, <2>2 DEF CopiesSound, Expiries
<1> QED
  BY <1>3, <1>9 DEF Kept

LEMMA InitIInv == Init => IInv
<1> SUFFICES ASSUME Init
             PROVE  IInv
  OBVIOUS
<1>1. TypeOK
  BY DEF Init, TypeOK, Key
<1>2. \A op \in {"save", "delete"} : AtSet(op) = {} /\ AtSideKeys(op) = {}
  BY DEF Init, AtSet, AtSideKeys, Idle
<1>3. OneExpiry(Never) /\ Fresh /\ \A c \in Client : client[c] = Idle
  BY <1>2 DEF Init, OneExpiry, Fresh
<1> QED
  BY <1>1, <1>2, <1>3 DEF Init, IInv, DeletedIsTemporary, CopiesSound,
     LiveUntilExpiry, Live

(* The two writes of the link's key, by the commands or by one that is      *)
(* reported to have failed.                                                 *)
Writes(c, op) ==
    /\ c \in AtSet(op) /\ now' = now /\ created' = created
    /\ clicks' = clicks /\ stats' = stats /\ UNCHANGED flusher
    /\ link' = SET(client[c].payload,
                   IF op = "save" THEN payloadTTL(client[c].payload) ELSE Grace)

LEMMA WriteSteps ==
    ASSUME IInv, NEW c \in Client,
           SaveSet(c) \/ DeleteSet(c) \/ (Fail(c) /\ link' # link)
    PROVE  Kept' /\ \E op \in {"save", "delete"} : Writes(c, op)
<1>1. TypeOK /\ client \in [Client -> Busy \cup {Idle}] /\ now \in Nat
  BY DEF IInv, TypeOK
<1>2. ASSUME client[c].pc = "set"
      PROVE  payloadTTL(client[c].payload) \in Nat
  BY <1>1, <1>2, SetterShape, TTLBounds
<1>3. CASE SaveSet(c)
  <2> DEFINE ttl == payloadTTL(client[c].payload)
             state == [pc |-> "clicks", op |-> "save", ttl |-> ttl]
  <2>1. Goto(c, state) /\ c \in AtSet("save") /\ Writes(c, "save") /\ ttl \in Nat
    BY <1>2, <1>3 DEF SaveSet, AtSet, Writes
  <2>2. client'[c] = state /\ \A d \in Client : d # c => client'[d] = client[d]
    BY <1>1, <2>1, GotoMoves
  <2> HIDE DEF ttl
  <2>3. link' = SET(client[c].payload, ttl) /\ ttl = payloadTTL(client[c].payload)
    BY <2>1 DEF Writes, ttl
  <2> QED
    BY <2>1, <2>2, <2>3, SetKeeps DEF Writes
<1>4. CASE DeleteSet(c)
  <2> DEFINE state == [pc |-> "clicks", op |-> "delete", ttl |-> Grace]
  <2>1. Goto(c, state) /\ c \in AtSet("delete") /\ Writes(c, "delete")
    BY <1>4 DEF DeleteSet, AtSet, Writes
  <2>2. client'[c] = state /\ \A d \in Client : d # c => client'[d] = client[d]
    BY <1>1, <2>1, GotoMoves
  <2> QED
    BY <2>1, <2>2, SetKeeps DEF Writes
<1>5. CASE Fail(c) /\ link' # link
  <2>0. SaveGivesUp(c)
    BY <1>5 DEF Fail, DeleteSetRefused, SideKeyFails, PipelineBreaks
  <2>1. c \in AtSet("save") /\ Writes(c, "save")
    BY <1>5, <2>0 DEF Fail, SaveGivesUp, AtSet, Writes
  <2>2. client'[c] = Idle /\ \A d \in Client : d # c => client'[d] = client[d]
    BY <1>1, <2>0, GotoMoves DEF SaveGivesUp
  <2> DEFINE ttl == payloadTTL(client[c].payload)
  <2>3. ttl \in Nat
    BY <1>2, <2>1 DEF AtSet
  <2> HIDE DEF ttl
  <2>4. link' = SET(client[c].payload, ttl) /\ ttl = payloadTTL(client[c].payload)
    BY <2>1 DEF Writes, ttl
  <2> QED
    BY <2>1, <2>2, <2>3, <2>4, SetKeeps DEF Writes
<1> QED
  BY <1>3, <1>4, <1>5

LEMMA ReadSteps ==
    ASSUME IInv, NEW c \in Client, GetForUpdate(c) \/ GetForDelete(c)
    PROVE  Kept'
<1>1. TypeOK
  BY DEF IInv
<1>2. CASE GetForUpdate(c)
  <2> DEFINE state == [pc |-> "set", op |-> "save", payload |-> link.val]
  <2>1. Live /\ client[c] = Idle /\ Goto(c, state) /\ state.pc = "set"
        /\ UNCHANGED <<now, keys, created>>
    BY <1>2 DEF GetForUpdate
  <2>2. /\ state.op = "save" /\ state.payload.exp = link.val.exp
        /\ state.payload.deleted = Never
    BY <2>1 DEF Live
  <2> HIDE DEF state
  <2>3. client'[c] = state /\ \A d \in Client : d # c => client'[d] = client[d]
    BY <1>1, <2>1, GotoMoves
  <2> QED
    BY <2>1, <2>2, <2>3, ReadKeeps
<1>3. CASE GetForDelete(c)
  <2> DEFINE marked == [link.val EXCEPT !.deleted = Stamp(now)]
             state == [pc |-> "set", op |-> "delete", payload |-> marked]
  <2>1. Live /\ client[c] = Idle /\ Goto(c, state) /\ state.pc = "set"
        /\ UNCHANGED <<now, keys, created>>
    BY <1>3 DEF GetForDelete
  <2>2. marked.exp = link.val.exp /\ marked.deleted = Stamp(now)
    BY <1>1, <2>1 DEF Live, TypeOK, Key, Entry, Payload
  <2>3. state.op = "delete" /\ state.payload = marked
    OBVIOUS
  <2> HIDE DEF state, marked
  <2>4. client'[c] = state /\ \A d \in Client : d # c => client'[d] = client[d]
    BY <1>1, <2>1, GotoMoves
  <2> QED
    BY <2>1, <2>2, <2>3, <2>4, ReadKeeps
<1> QED
  BY <1>2, <1>3

LEMMA StepIInv ==
    ASSUME IInv, [Next]_vars
    PROVE  IInv'
<1>1. TypeOK'
  BY StepTypeOK DEF IInv
<1>2. ASSUME Kept'
      PROVE  IInv'
  BY <1>1, <1>2 DEF IInv, Kept
<1>3. ASSUME NEW c \in Client,
             \/ SaveSet(c) \/ DeleteSet(c) \/ GetForUpdate(c) \/ GetForDelete(c)
             \/ \E exp \in {Never} \cup 1 .. MaxTime,
                   deleted \in BodyDeletedAt : Create(c, exp, deleted)
             \/ (Fail(c) /\ link' # link)
      PROVE  Kept'
  BY <1>3, WriteSteps, ReadSteps, CreateKeeps
<1>4. ASSUME \/ \E c \in Client : \/ SideClicks(c) \/ SideStats(c)
                                  \/ Fail(c) /\ link' = link
             \/ Resolve \/ IncrClickBy \/ RecordEvents \/ Crash
             \/ UNCHANGED vars
      PROVE  Kept'
  BY <1>4, CalmSteps, CalmKeeps
<1>5. ASSUME Tick
      PROVE  Kept'
  BY <1>5, TickKeeps
<1>6. ASSUME NEW c \in Client, Fail(c)
      PROVE  Kept'
  BY <1>3, <1>4, <1>6
<1>7. Kept'
  <2>1. CASE \E c \in Client :
               \/ \E exp \in {Never} \cup 1 .. MaxTime,
                     deleted \in BodyDeletedAt : Create(c, exp, deleted)
               \/ GetForUpdate(c) \/ SaveSet(c) \/ GetForDelete(c) \/ DeleteSet(c)
               \/ SideClicks(c) \/ SideStats(c) \/ Fail(c)
    BY <1>3, <1>4, <1>6, <2>1
  <2>2. CASE Resolve \/ IncrClickBy \/ RecordEvents \/ Crash \/ UNCHANGED vars
    BY <1>4, <2>2
  <2> QED
    BY <1>5, <2>1, <2>2 DEF Next
<1> QED
  BY <1>2, <1>7

LEMMA Inductive == Spec => []IInv
BY InitIInv, StepIInv, PTL DEF Spec

(* The keys and the requests keep their types.                              *)
THEOREM TypeCorrect == Spec => []TypeOK
<1>1. IInv => TypeOK
  BY DEF IInv
<1> QED
  BY <1>1, Inductive, PTL

(* What a DELETE marked is never permanent, whatever raced and whatever     *)
(* failed.                                                                  *)
THEOREM DeletedGoes == Spec => []DeletedIsTemporary
<1>1. IInv => DeletedIsTemporary
  BY DEF IInv
<1> QED
  BY <1>1, Inductive, PTL

----------------------------------------------------------------------------
(* The refinement. *)

LEMMA LinkSteps ==
    ASSUME IInv, [Next]_vars
    PROVE  \/ link' = link /\ now' = now
           \/ \E c \in Client, op \in {"save", "delete"} : Writes(c, op)
           \/ Tick
<1> USE DEF keys
<1>1. ASSUME NEW c \in Client,
             SaveSet(c) \/ DeleteSet(c) \/ (Fail(c) /\ link' # link)
      PROVE  \E op \in {"save", "delete"} : Writes(c, op)
  BY <1>1, WriteSteps
<1>2. ASSUME NEW c \in Client,
             \/ GetForUpdate(c) \/ GetForDelete(c) \/ SideClicks(c) \/ SideStats(c)
             \/ (Fail(c) /\ link' = link)
             \/ \E exp \in {Never} \cup 1 .. MaxTime,
                   deleted \in BodyDeletedAt : Create(c, exp, deleted)
      PROVE  link' = link /\ now' = now
  BY <1>2 DEF GetForUpdate, GetForDelete, SideClicks, SideStats, Fail, Create
<1>3. ASSUME Resolve \/ IncrClickBy \/ RecordEvents \/ Crash \/ UNCHANGED vars
      PROVE  link' = link /\ now' = now
  BY <1>3 DEF Resolve, IncrClickBy, RecordEvents, Crash, vars
<1>4. ASSUME NEW c \in Client, Fail(c)
      PROVE  \/ link' = link /\ now' = now
             \/ \E op \in {"save", "delete"} : Writes(c, op)
  BY <1>1, <1>2, <1>4
<1> QED
  BY <1>1, <1>2, <1>3, <1>4 DEF Next

LEMMA StepsOfLife ==
    ASSUME IInv, [Next]_vars
    PROVE  Lifecycle!Next
<1> DEFINE before == IF link = Gone THEN Gone ELSE link.val
           after == IF link' = Gone THEN Gone ELSE link'.val
<1>1. now \in Nat /\ (link # Gone => link.val \in Payload /\ link.val # Gone)
  BY GoneAssumption DEF IInv, TypeOK, Key, Entry
<1>2. ASSUME now' \in {now, now + 1},
             \/ after = before
             \/ before = Gone /\ after # Gone
                /\ after.deleted \in {Never, Given}
             \/ /\ before = Gone /\ after # Gone
                /\ after.deleted \in Nat /\ Lifecycle!Due(after, now)
             \/ /\ before # Gone /\ after # Gone /\ after.exp = before.exp
                /\ before.deleted # Given /\ after.deleted # Given
                /\ after.deleted \in Nat => after.deleted <= now
             \/ before # Gone /\ after = Gone /\ Lifecycle!Due(before, now')
      PROVE  Lifecycle!Next
  BY <1>2 DEF Lifecycle!Next, Lifecycle!Appear, Lifecycle!Rewrite,
     Lifecycle!Bury, Lifecycle!Purge
<1>3. CASE link' = link /\ now' = now
  BY <1>2, <1>3
<1>4. ASSUME NEW c \in Client, NEW op \in {"save", "delete"}, Writes(c, op)
      PROVE  Lifecycle!Next
  <2> DEFINE copy == client[c].payload
  <2>1. copy \in Payload /\ copy # Gone
    BY <1>4, SetterShape DEF IInv, Writes, AtSet
  <2>2. link' # Gone /\ link'.val = copy
    BY <1>1, <1>4, <2>1, TTLBounds, SetShape DEF Writes
  <2>3. after = copy /\ now' = now
    BY <1>4, <2>2 DEF Writes
  <2>4. link # Gone => before.exp = copy.exp
    <3>1. PICK e \in Expiries : OneExpiry(e)
      BY DEF IInv, CopiesSound, Expiries
    <3> QED
      BY <1>4, <3>1 DEF OneExpiry, Writes
  <2>5. link # Gone => before.deleted # Given
    BY <1>4 DEF IInv, CopiesSound, Writes
  <2>6. CASE op = "save"
    <3>1. /\ copy.deleted \in {Never, Given}
          /\ link # Gone => copy.deleted = Never
      BY <1>4, <2>6 DEF IInv, CopiesSound, Writes
    <3> QED
      BY <1>1, <1>2, <2>1, <2>3, <2>4, <2>5, <3>1
  <2>7. CASE op = "delete"
    <3>1. copy.deleted \in Nat /\ copy.deleted <= now
      BY <1>4, <2>7 DEF IInv, CopiesSound, Writes
    <3>2. link = Gone => Lifecycle!Due(copy, now)
      BY <1>4, <2>7, <3>1 DEF IInv, CopiesSound, Writes, Lifecycle!Due,
         Lifecycle!Expired, Lifecycle!GraceOver
    <3> QED
      BY <1>1, <1>2, <2>1, <2>3, <2>4, <2>5, <3>1, <3>2
  <2> QED
    BY <2>6, <2>7
<1>5. CASE Tick
  <2>1. now' = now + 1 /\ now' \in Nat
    BY <1>1, <1>5 DEF Tick
  <2>2. CASE link' = link
    BY <1>2, <2>1, <2>2
  <2>3. CASE link # Gone /\ link.until # Never /\ link.until <= now' /\ link' = Gone
    <3>1. Lifecycle!Due(link.val, now')
      BY <2>1, <2>3, GoesWhenDue
    <3> QED
      BY <1>1, <1>2, <2>1, <2>3, <3>1
  <2> QED
    BY <1>5, <2>2, <2>3 DEF Tick, At
<1> QED
  BY <1>3, <1>4, <1>5, LinkSteps

(* The link's key implements LinkLifecycle, with failing commands and kills.*)
THEOREM RedisImplementsLifecycle == Spec => ImplementsLifecycle
<1>1. Init => Lifecycle!Init
  BY DEF Init, Lifecycle!Init
<1>2. IInv /\ [Next]_vars => [Lifecycle!Next]_(Lifecycle!vars)
  BY StepsOfLife
<1> QED
  BY <1>1, <1>2, Inductive, PTL DEF Spec, ImplementsLifecycle, Lifecycle!Spec

----------------------------------------------------------------------------
(* The counters of a link nobody disturbs. *)

LEMMA StaysUndisturbed ==
    ASSUME IInv, Undisturbed, [Next]_vars, ~disturbed'
    PROVE  ~disturbed /\ ~Overlap(client')
<1> USE DEF flusher, requests
<1>1. ASSUME ~disturbed, client' = client
      PROVE  ~Overlap(client')
  BY <1>1 DEF Undisturbed, Overlap
<1>2. ASSUME NEW c \in Client, NEW state, Goto(c, state)
      PROVE  ~disturbed /\ ~Overlap(client')
  BY <1>2 DEF Goto
<1>3. ASSUME NEW c \in Client,
             \/ \E exp \in {Never} \cup 1 .. MaxTime,
                   deleted \in BodyDeletedAt : Create(c, exp, deleted)
             \/ GetForUpdate(c) \/ SaveSet(c) \/ GetForDelete(c) \/ DeleteSet(c)
             \/ SideClicks(c) \/ SideStats(c)
      PROVE  ~disturbed /\ ~Overlap(client')
  BY <1>3 DEF Create, GetForUpdate, SaveSet, GetForDelete, DeleteSet,
     SideClicks, SideStats, Goto
<1>4. ASSUME NEW c \in Client, Fail(c)
      PROVE  ~disturbed /\ ~Overlap(client')
  BY <1>2, <1>4 DEF Fail, SaveGivesUp, DeleteSetRefused, SideKeyFails,
     PipelineBreaks
<1>5. CASE Crash
  BY <1>5 DEF Crash, Overlap
<1>6. CASE Resolve \/ IncrClickBy \/ RecordEvents \/ Tick \/ UNCHANGED vars
  BY <1>1, <1>6 DEF Resolve, IncrClickBy, RecordEvents, Tick, vars
<1> QED
  BY <1>3, <1>4, <1>5, <1>6 DEF Next

(* Without an overlap, a save in progress means that no delete is.          *)
LEMMA NoDeleteBeside ==
    ASSUME TypeOK, ~Overlap(client), NEW c \in Client, NEW d \in Client,
           client[c].pc \in {"set", "clicks", "stats"},
           client[d].pc \in {"set", "clicks", "stats"}
    PROVE  client[c].op = client[d].op
<1>1. client[c] # Idle /\ client[d] # Idle
  BY DEF Idle
<1> QED
  BY <1>1 DEF Overlap

(* The writes of the link's key. *)
LEMMA WriteUndisturbed ==
    ASSUME IInv, ~Overlap(client), StaysHidden, SideKeysSound, NEW c \in Client,
           NEW op \in {"save", "delete"}, Writes(c, op),
           \A d \in Client : d # c => client'[d] = client[d],
           \/ client'[c] = Idle
           \/ client'[c].op = op /\ client'[c].pc = "clicks"
    PROVE  StaysHidden' /\ SideKeysSound'
<1> DEFINE copy == client[c].payload
<1>1. TypeOK /\ now \in Nat /\ now' = now
  BY DEF IInv, TypeOK, Writes
<1>2. copy \in Payload /\ client[c].pc = "set" /\ client[c].op = op
  BY <1>1, SetterShape DEF Writes, AtSet
<1>3. link' # Gone /\ link'.val = copy
  BY <1>1, <1>2, TTLBounds, SetShape DEF Writes
<1>4. CASE op = "save" /\ copy.deleted = Given
  <2>1. AtSet("save") = {c}
    BY <1>4 DEF IInv, CopiesSound, Writes
  <2>2. AtSet("save")' = {}
    BY <1>2, <2>1 DEF AtSet, Idle
  <2>3. ~Live'
    BY <1>3, <1>4 DEF Live
  <2> QED
    BY <2>2, <2>3 DEF StaysHidden, SideKeysSound
<1>5. CASE op = "save" /\ copy.deleted # Given
  <2>1. copy.deleted = Never
    BY <1>5 DEF IInv, CopiesSound, Writes
  <2>2. Live'
    BY <1>3, <2>1 DEF Live
  <2>3. AtSideKeys("delete")' = {}
    <3> SUFFICES ASSUME NEW d \in AtSideKeys("delete")'
                 PROVE  FALSE
      OBVIOUS
    <3>1. d \in Client /\ client[d].op = "delete" /\ client[d].pc \in {"clicks", "stats"}
      BY <1>5 DEF AtSideKeys, Idle
    <3> QED
      BY <1>1, <1>2, <1>5, <3>1, NoDeleteBeside
  <2>4. StaysHidden'
    BY <1>3, <2>2, <2>3 DEF StaysHidden
  <2>5. SideKeysSound'
    <3> SUFFICES ASSUME ~LastSecond'
                 PROVE  (CountersThere /\ Outlives(clicks) /\ Outlives(stats))'
      BY DEF SideKeysSound
    <3>1. UNCHANGED <<clicks, stats, counted, recorded>>
      BY DEF Writes, flusher
    <3>2. CASE link # Gone
      <4>1. Live
        BY <1>5, <3>2 DEF StaysHidden, Writes
      <4>2. PICK e \in Expiries : OneExpiry(e)
        BY DEF IInv, CopiesSound, Expiries
      <4>3. link.val.exp = copy.exp
        BY <1>5, <3>2, <4>2 DEF OneExpiry, Writes
      <4>4. ~LastSecond
        BY <1>1, <1>3, <4>3 DEF LastSecond
      <4> QED
        BY <1>3, <3>1, <4>1, <4>3, <4>4 DEF SideKeysSound, CountersThere, Outlives
    <3>3. CASE link = Gone
      <4>1. \/ copy.exp # Never /\ copy.exp <= now
            \/ Fresh
        BY <1>5, <3>3 DEF StaysHidden, Writes
      <4>2. ~(copy.exp # Never /\ copy.exp <= now)
        BY <1>1, <1>2, <1>3 DEF LastSecond, Payload, Time
      <4> QED
        BY <3>1, <4>1, <4>2 DEF Fresh, CountersThere, Outlives
    <3> QED
      BY <3>2, <3>3
  <2> QED
    BY <2>4, <2>5
<1>6. CASE op = "delete"
  <2>1. copy.deleted \in Nat
    BY <1>6 DEF IInv, CopiesSound, Writes
  <2>2. ~Live'
    BY <1>3, <2>1 DEF Live
  <2>3. AtSet("save")' = {}
    <3> SUFFICES ASSUME NEW d \in AtSet("save")'
                 PROVE  FALSE
      OBVIOUS
    <3>1. d \in Client /\ client[d].op = "save" /\ client[d].pc = "set"
      BY <1>6 DEF AtSet, Idle
    <3> QED
      BY <1>1, <1>2, <1>6, <3>1, NoDeleteBeside
  <2> QED
    BY <2>2, <2>3 DEF StaysHidden, SideKeysSound
<1> QED
  BY <1>4, <1>5, <1>6

(* EXPIRE or PERSIST of a side key, by a save: it outlives the link.        *)
LEMMA SideKeyOutlives ==
    ASSUME IInv, Live, NEW c \in AtSideKeys("save"), NEW key \in Key(Nat),
           SideKey(key, client[c].ttl) # Gone,
           SideKey(key, client[c].ttl).until # Never
    PROVE  /\ link.val.exp # Never
           /\ SideKey(key, client[c].ttl).until > link.val.exp - SecondLen
<1>1. now \in Nat /\ client[c].ttl \in Nat /\ link.val.exp \in Time
  BY SiderShape DEF IInv, TypeOK, AtSideKeys, Live, Key, Entry, Payload
<1>2. /\ key # Gone /\ client[c].ttl > 0
      /\ SideKey(key, client[c].ttl).until \in Nat
      /\ SideKey(key, client[c].ttl).until > now + client[c].ttl - SecondLen
  <2> DEFINE ttl == client[c].ttl
  <2>1. ttl \in Nat
    BY <1>1
  <2> HIDE DEF ttl
  <2>2. key # Gone
    BY <1>1, <2>1, SideKeyShape DEF ttl
  <2>3. /\ ttl = 0 => SideKey(key, ttl).until = Never
        /\ ttl > 0 => /\ SideKey(key, ttl).until \in Nat
                      /\ SideKey(key, ttl).until > now + ttl - SecondLen
    BY <1>1, <2>1, <2>2, SideKeyShape
  <2> QED
    BY <2>1, <2>2, <2>3 DEF ttl
<1>3. PICK e \in Expiries : OneExpiry(e)
  BY DEF IInv, CopiesSound, Expiries
<1>4. link.val.exp # Never /\ link.val.exp <= now + client[c].ttl
  BY <1>2, <1>3 DEF OneExpiry, Live
<1> QED
  BY <1>1, <1>2, <1>4 DEF Time

(* SideClicks and SideStats: keys change their times to live, not values.   *)
LEMMA SideUndisturbed ==
    ASSUME IInv, StaysHidden, SideKeysSound, NEW c \in Client,
           SideClicks(c) \/ SideStats(c)
    PROVE  StaysHidden' /\ SideKeysSound'
<1> DEFINE ttl == client[c].ttl
<1> USE DEF keys, flusher
<1>1. /\ TypeOK /\ now \in Nat /\ now' = now /\ link' = link
      /\ clicks \in Key(Nat) /\ stats \in Key(Nat)
      /\ waiting' = waiting /\ unrecorded' = unrecorded
      /\ counted' = counted /\ recorded' = recorded
  BY DEF IInv, TypeOK, SideClicks, SideStats
<1>2. /\ client[c].pc \in {"clicks", "stats"} /\ ttl \in Nat
      /\ client[c].op \in {"save", "delete"}
  BY <1>1, SiderShape DEF SideClicks, SideStats
<1>3. /\ clicks' = clicks \/ clicks' = SideKey(clicks, ttl)
      /\ stats' = stats \/ stats' = SideKey(stats, ttl)
  BY DEF SideClicks, SideStats
<1>4. /\ \A d \in Client : d # c => client'[d] = client[d]
      /\ \/ client'[c] = Idle
         \/ client'[c].pc = "stats" /\ client'[c].op = client[c].op
  <2> DEFINE next == [client[c] EXCEPT !.pc = "stats"]
  <2>1. next.pc = "stats" /\ next.op = client[c].op
    BY <1>1, <1>2, SiderShape
  <2> HIDE DEF next
  <2>2. Goto(c, next) \/ Goto(c, Idle)
    BY DEF SideClicks, SideStats, next
  <2> QED
    BY <1>1, <2>1, <2>2, GotoMoves
<1>5. /\ \A d \in AtSet("save")' : d \in AtSet("save") /\ client'[d] = client[d]
      /\ \A d \in AtSideKeys("delete")' : d \in AtSideKeys("delete")
  BY <1>2, <1>4 DEF AtSet, AtSideKeys, Idle
<1>6. /\ clicks' = Gone <=> clicks = Gone
      /\ stats' = Gone <=> stats = Gone
      /\ clicks # Gone => clicks'.val = clicks.val
      /\ stats # Gone => stats'.val = stats.val
  BY <1>1, <1>2, <1>3, SideKeyShape
<1>7. StaysHidden'
  BY <1>1, <1>5, <1>6 DEF StaysHidden, Live, Fresh
<1>8. SideKeysSound'
  <2> SUFFICES ASSUME Live, ~LastSecond
               PROVE  (CountersThere /\ Outlives(clicks) /\ Outlives(stats))'
    BY <1>1 DEF SideKeysSound, Live, LastSecond
  <2>1. CountersThere /\ Outlives(clicks) /\ Outlives(stats)
    BY DEF SideKeysSound
  <2>2. c \in AtSideKeys("save")
    BY <1>2 DEF StaysHidden, AtSideKeys
  <2>3. Outlives(clicks)' /\ Outlives(stats)'
    BY <1>1, <1>3, <2>1, <2>2, SideKeyOutlives DEF Outlives
  <2> QED
    BY <1>1, <1>6, <2>1, <2>3 DEF CountersThere
<1> QED
  BY <1>7, <1>8

(* A flush writes to keys that are there or makes new ones.                 *)
LEMMA FlushUndisturbed ==
    ASSUME IInv, StaysHidden, SideKeysSound, IncrClickBy \/ RecordEvents
    PROVE  StaysHidden' /\ SideKeysSound'
<1>1. /\ clicks \in Key(Nat) /\ stats \in Key(Nat)
      /\ waiting \in Nat /\ unrecorded \in Nat
      /\ counted \in Nat /\ recorded \in Nat
  BY DEF IInv, TypeOK
<1>2. now' = now /\ link' = link /\ client' = client /\ ~Fresh
  BY <1>1 DEF IncrClickBy, RecordEvents, requests, Fresh
<1>3. StaysHidden'
  BY <1>2 DEF StaysHidden, AtSet, AtSideKeys, Live
<1>4. SideKeysSound'
  <2> SUFFICES ASSUME Live, ~LastSecond
               PROVE  (CountersThere /\ Outlives(clicks) /\ Outlives(stats))'
    BY <1>2 DEF SideKeysSound, Live, LastSecond
  <2>1. CountersThere /\ Outlives(clicks) /\ Outlives(stats) /\ link # Gone
    BY DEF SideKeysSound, Live
  <2>2. clicks # Gone => clicks.val \in Nat
    BY <1>1 DEF Key, Entry
  <2>3. stats # Gone => stats.val \in Nat
    BY <1>1 DEF Key, Entry
  <2>4. CASE IncrClickBy
    <3>1. PICK n \in {waiting, 0} :
            clicks' = INCRBY(clicks, n) /\ counted' = counted + n
      BY <2>1, <2>4 DEF IncrClickBy
    <3>2. stats' = stats /\ recorded' = recorded
      BY <2>4 DEF IncrClickBy
    <3>3. CASE n = 0
      BY <1>1, <1>2, <2>1, <3>1, <3>2, <3>3, IncrShape DEF CountersThere, Outlives
    <3>4. CASE n > 0
      <4>1. /\ clicks' # Gone
            /\ clicks'.val = IF clicks = Gone THEN n ELSE clicks.val + n
            /\ clicks'.until = IF clicks = Gone THEN Never ELSE clicks.until
        BY <1>1, <3>1, <3>4, IncrShape
      <4>2. clicks'.val >= counted'
        BY <1>1, <2>1, <2>2, <3>1, <4>1 DEF CountersThere
      <4> QED
        BY <1>2, <2>1, <3>2, <4>1, <4>2 DEF CountersThere, Outlives
    <3> QED
      BY <1>1, <3>3, <3>4
  <2>5. CASE RecordEvents
    <3>1. PICK n \in 0 .. unrecorded :
            stats' = INCRBY(stats, n) /\ recorded' = recorded + n
      BY <1>1, <2>1, <2>5 DEF RecordEvents
    <3>2. clicks' = clicks /\ counted' = counted
      BY <2>5 DEF RecordEvents
    <3>3. CASE n = 0
      BY <1>1, <1>2, <2>1, <3>1, <3>2, <3>3, IncrShape DEF CountersThere, Outlives
    <3>4. CASE n > 0
      <4>1. /\ stats' # Gone
            /\ stats'.val = IF stats = Gone THEN n ELSE stats.val + n
            /\ stats'.until = IF stats = Gone THEN Never ELSE stats.until
        BY <1>1, <3>1, <3>4, IncrShape
      <4>2. stats'.val >= recorded'
        BY <1>1, <2>1, <2>3, <3>1, <4>1 DEF CountersThere
      <4> QED
        BY <1>2, <2>1, <3>2, <4>1, <4>2 DEF CountersThere, Outlives
    <3> QED
      BY <1>1, <3>3, <3>4
  <2> QED
    BY <2>4, <2>5
<1> QED
  BY <1>3, <1>4

(* Time passes: a side key goes in the last second of the link, or later.   *)
LEMMA TickUndisturbed ==
    ASSUME IInv, StaysHidden, SideKeysSound, Tick
    PROVE  StaysHidden' /\ SideKeysSound'
<1>1. now \in Nat /\ now' = now + 1 /\ client' = client
  BY DEF Tick, IInv, TypeOK, requests
<1>2. \/ link' = link
      \/ /\ link # Gone /\ link' = Gone
         /\ link.until # Never /\ link.until <= now'
  BY DEF Tick, At
<1>3. Live' => Live /\ link' = link
  BY <1>2 DEF Live
<1>4. AtSet("save")' = AtSet("save") /\ AtSideKeys("delete")' = AtSideKeys("delete")
  BY <1>1 DEF AtSet, AtSideKeys
<1>5. ASSUME NEW c \in AtSet("save"), link' = Gone
      PROVE  \/ client[c].payload.exp # Never /\ client[c].payload.exp <= now'
             \/ Fresh'
  <2> DEFINE exp == client[c].payload.exp
  <2>1. exp \in Time
    BY SetterShape DEF IInv, AtSet, Payload
  <2>2. CASE link = Gone
    <3>1. (exp # Never /\ exp <= now) \/ Fresh
      BY <2>2 DEF StaysHidden
    <3>2. Fresh => Fresh'
      BY DEF Tick, At, Fresh
    <3> QED
      BY <1>1, <2>1, <3>1, <3>2 DEF Time
  <2>3. CASE link # Gone
    <3>1. Live
      BY <2>3 DEF StaysHidden
    <3>2. PICK e \in Expiries : OneExpiry(e)
      BY DEF IInv, CopiesSound, Expiries
    <3>3. exp = link.val.exp
      BY <2>3, <3>2 DEF OneExpiry
    <3>4. link.until # Never /\ link.until <= now' /\ link.until \in Time
      BY <1>2, <1>5, <2>3 DEF IInv, TypeOK, Key, Entry
    <3>5. link.val.exp # Never /\ link.val.exp <= link.until
      BY <3>1, <3>4 DEF IInv, LiveUntilExpiry, Live
    <3> QED
      BY <1>1, <2>1, <3>3, <3>4, <3>5 DEF Time
  <2> QED
    BY <2>2, <2>3
<1>6. StaysHidden'
  BY <1>1, <1>2, <1>3, <1>4, <1>5 DEF StaysHidden, Live
<1>7. SideKeysSound'
  <2> SUFFICES ASSUME Live', ~LastSecond'
               PROVE  (CountersThere /\ Outlives(clicks) /\ Outlives(stats))'
    BY DEF SideKeysSound
  <2>1. Live /\ link' = link /\ link # Gone /\ link.val.exp \in Time
    BY <1>3 DEF Live, IInv, TypeOK, Key, Entry, Payload
  <2>2. link.val.exp # Never => link.val.exp \in Nat /\ link.val.exp - now' >= SecondLen
    BY <1>1, <2>1 DEF LastSecond, Time
  <2>3. CountersThere /\ Outlives(clicks) /\ Outlives(stats)
    BY <1>1, <2>1, <2>2 DEF SideKeysSound, LastSecond
  <2>4. ASSUME NEW key \in Key(Nat), Outlives(key)
        PROVE  At(key, now') = key
    <3>1. CASE key # Gone /\ key.until # Never
      <4>1. key.until \in Nat
        BY <3>1 DEF Key, Entry, Time
      <4> QED
        BY <1>1, <2>2, <2>4, <3>1, <4>1 DEF Outlives, At
    <3> QED
      BY <3>1 DEF At
  <2>5. clicks' = clicks /\ stats' = stats
    BY <2>3, <2>4 DEF Tick, IInv, TypeOK
  <2>6. counted' = counted /\ recorded' = recorded
    BY <2>1 DEF Tick
  <2> QED
    BY <2>1, <2>3, <2>5, <2>6 DEF CountersThere, Outlives
<1> QED
  BY <1>6, <1>7

(* Steps that touch no key. *)
LEMMA OthersUndisturbed ==
    ASSUME IInv, StaysHidden, SideKeysSound, UNCHANGED <<now, keys>>,
           \/ \E c \in Client :
                \/ \E exp \in {Never} \cup 1 .. MaxTime,
                      deleted \in BodyDeletedAt : Create(c, exp, deleted)
                \/ GetForUpdate(c) \/ GetForDelete(c)
           \/ Resolve \/ Crash \/ UNCHANGED vars
    PROVE  StaysHidden' /\ SideKeysSound'
<1> USE DEF keys, flusher, requests
<1>1. UNCHANGED <<link, clicks, stats>> /\ now' = now
      /\ counted' = counted /\ recorded' = recorded
  BY DEF Create, GetForUpdate, GetForDelete, Resolve, Crash, vars
<1>2. SideKeysSound'
  BY <1>1 DEF SideKeysSound, Live, LastSecond, CountersThere, Outlives
<1>3. ASSUME NEW c \in Client, NEW exp \in {Never} \cup 1 .. MaxTime,
             NEW deleted \in BodyDeletedAt, Create(c, exp, deleted)
      PROVE  StaysHidden'
  <2>1. Fresh /\ \A d \in Client : client[d] = Idle
    BY <1>3 DEF Create, IInv, CopiesSound
  <2>2. /\ client'[c].pc = "set" /\ client'[c].op = "save"
        /\ \A d \in Client : d # c => client'[d] = Idle
    BY <1>3, <2>1, GotoMoves DEF Create, IInv
  <2>3. Fresh' /\ AtSideKeys("delete")' = {} /\ link' = Gone
    BY <1>1, <1>3, <2>1, <2>2 DEF Create, Fresh, AtSideKeys, Idle
  <2> QED
    BY <2>3 DEF StaysHidden, Live
<1>4. ASSUME NEW c \in Client, GetForUpdate(c) \/ GetForDelete(c)
      PROVE  StaysHidden'
  <2>1. Live /\ link # Gone
    BY <1>4 DEF GetForUpdate, GetForDelete, Live
  <2>2. AtSideKeys("delete")' \subseteq AtSideKeys("delete")
    <3>1. client'[c].pc = "set" /\ \A d \in Client : d # c => client'[d] = client[d]
      BY <1>4, GotoMoves DEF GetForUpdate, GetForDelete, IInv
    <3> QED
      BY <3>1 DEF AtSideKeys
  <2> QED
    BY <1>1, <2>1, <2>2 DEF StaysHidden, Live
<1>5. ASSUME Resolve
      PROVE  StaysHidden'
  BY <1>1, <1>5 DEF Resolve, StaysHidden, Live, AtSet, AtSideKeys
<1>6. ASSUME Crash
      PROVE  StaysHidden'
  <2>1. AtSet("save")' = {} /\ AtSideKeys("delete")' = {}
    BY <1>6 DEF Crash, AtSet, AtSideKeys, Idle
  <2> QED
    BY <1>1, <2>1 DEF StaysHidden
<1>7. ASSUME UNCHANGED vars
      PROVE  StaysHidden'
  BY <1>7 DEF vars, StaysHidden, Live, AtSet, AtSideKeys, Fresh
<1> QED
  BY <1>2, <1>3, <1>4, <1>5, <1>6, <1>7

(* A failure, but for the refusal of a DELETE's SET: a request ends or skips *)
(* a command, or a save gives up after its SET took effect.                 *)
LEMMA FailUndisturbed ==
    ASSUME IInv, ~Overlap(client), StaysHidden, SideKeysSound, ~disturbed',
           NEW c \in Client, Fail(c)
    PROVE  StaysHidden' /\ SideKeysSound'
<1> DEFINE next == [client[c] EXCEPT !.pc = "stats"]
<1>1. TypeOK /\ UNCHANGED <<now, clicks, stats, counted, recorded>>
      /\ UNCHANGED <<waiting, unrecorded>>
  BY DEF IInv, Fail, flusher
<1>2. client[c].pc = "clicks" => next.pc = "stats" /\ next.op = client[c].op
  BY <1>1, SiderShape
<1>3. \/ Goto(c, Idle)
      \/ client[c].pc = "clicks" /\ Goto(c, next)
  BY DEF Fail, SaveGivesUp, DeleteSetRefused, SideKeyFails, PipelineBreaks
<1> HIDE DEF next
<1>4. /\ \A d \in Client : d # c => client'[d] = client[d]
      /\ \/ client'[c] = Idle
         \/ /\ client[c].pc = "clicks" /\ client'[c].pc = "stats"
            /\ client'[c].op = client[c].op
  BY <1>1, <1>2, <1>3, GotoMoves
<1>5. CASE link' # link
  <2>1. SaveGivesUp(c) /\ Writes(c, "save")
    BY <1>5 DEF Fail, SaveGivesUp, DeleteSetRefused, SideKeyFails,
       PipelineBreaks, Writes, AtSet
  <2>2. client'[c] = Idle
    BY <1>1, <2>1, GotoMoves DEF SaveGivesUp
  <2> QED
    BY <1>4, <2>1, <2>2, WriteUndisturbed
<1>6. CASE link' = link
  <2>1. /\ \A d \in AtSet("save")' : d \in AtSet("save") /\ client'[d] = client[d]
        /\ \A d \in AtSideKeys("delete")' : d \in AtSideKeys("delete")
    BY <1>4 DEF AtSet, AtSideKeys, Idle
  <2>2. StaysHidden'
    BY <1>1, <1>6, <2>1 DEF StaysHidden, Live, Fresh
  <2> QED
    BY <1>1, <1>6, <2>2
       DEF SideKeysSound, Live, LastSecond, CountersThere, Outlives
<1> QED
  BY <1>5, <1>6

LEMMA StepUndisturbed ==
    ASSUME IInv, Undisturbed, [Next]_vars
    PROVE  Undisturbed'
<1> SUFFICES ASSUME ~disturbed'
             PROVE  ~Overlap(client') /\ StaysHidden' /\ SideKeysSound'
  BY DEF Undisturbed, Overlap
<1>1. ~disturbed /\ ~Overlap(client')
  BY StaysUndisturbed
<1>2. ~Overlap(client) /\ StaysHidden /\ SideKeysSound
  BY <1>1 DEF Undisturbed
<1>3. ASSUME NEW c \in Client, SaveSet(c) \/ DeleteSet(c)
      PROVE  StaysHidden' /\ SideKeysSound'
  <2>1. PICK op \in {"save", "delete"} :
          /\ Writes(c, op) /\ client'[c].op = op /\ client'[c].pc = "clicks"
          /\ \A d \in Client : d # c => client'[d] = client[d]
    <3>1. CASE SaveSet(c)
      BY <3>1, GotoMoves DEF SaveSet, Writes, AtSet, IInv
    <3>2. CASE DeleteSet(c)
      BY <3>2, GotoMoves DEF DeleteSet, Writes, AtSet, IInv
    <3> QED
      BY <1>3, <3>1, <3>2
  <2> QED
    BY <1>2, <2>1, WriteUndisturbed
<1>4. ASSUME NEW c \in Client, Fail(c)
      PROVE  StaysHidden' /\ SideKeysSound'
  BY <1>2, <1>4, FailUndisturbed
<1>5. CASE \/ \E c \in Client : SideClicks(c) \/ SideStats(c)
           \/ IncrClickBy \/ RecordEvents \/ Tick
  BY <1>1, <1>2, <1>5, SideUndisturbed, FlushUndisturbed, TickUndisturbed
<1>6. CASE \/ \E c \in Client :
                \/ \E exp \in {Never} \cup 1 .. MaxTime,
                      deleted \in BodyDeletedAt : Create(c, exp, deleted)
                \/ GetForUpdate(c) \/ GetForDelete(c)
           \/ Resolve \/ Crash \/ UNCHANGED vars
  <2>1. UNCHANGED <<now, keys>>
    BY <1>6 DEF Create, GetForUpdate, GetForDelete, Resolve, Crash, vars
  <2> QED
    BY <1>1, <1>2, <1>6, <2>1, OthersUndisturbed
<1>7. StaysHidden' /\ SideKeysSound'
  BY <1>3, <1>4, <1>5, <1>6 DEF Next
<1> QED
  BY <1>1, <1>7

(* However PATCHes overlap PATCHes and DELETEs overlap DELETEs, the side    *)
(* keys do not go before the last second of the link, also when commands    *)
(* fail or a kill cuts an operation off, and with any part of a flush lost. *)
THEOREM CountersAreKept == Spec => []CountersKept
<1>1. Init => Undisturbed
  <2> SUFFICES ASSUME Init
               PROVE  ~Overlap(client) /\ StaysHidden /\ SideKeysSound
    BY DEF Undisturbed
  <2>1. AtSet("save") = {} /\ AtSideKeys("delete") = {} /\ ~Live
    BY DEF Init, AtSet, AtSideKeys, Idle, Live
  <2> QED
    BY <2>1 DEF Init, Overlap, StaysHidden, SideKeysSound
<1>2. IInv /\ Undisturbed /\ [Next]_vars => Undisturbed'
  BY StepUndisturbed
<1>3. Undisturbed => CountersKept
  BY DEF Undisturbed, SideKeysSound, CountersKept
<1> QED
  BY <1>1, <1>2, <1>3, Inductive, PTL DEF Spec

=============================================================================
