------------------------- MODULE LinkServiceProofs -------------------------
(***************************************************************************)
(* Proofs about the link service over the memory store, for every set of   *)
(* IDs, requests and skip paths, every grace period and any number of      *)
(* interleaved requests.                                                   *)
(***************************************************************************)
EXTENDS LinkService, TLAPS

----------------------------------------------------------------------------
(* The store's operations keep its types and its two records of deletion.  *)

StoreInv == StoreTypeOK /\ DeletionRecordsAgree /\ now \in Nat

(* Removing entries from a map. *)
LEMMA WithoutMap ==
    ASSUME NEW f, NEW S
    PROVE  /\ DOMAIN Without(f, S) = DOMAIN f \ S
           /\ \A i \in DOMAIN f \ S : Without(f, S)[i] = f[i]
BY DEF Without, Restrict

(* A time written in whole seconds is a time. *)
LEMMA StampType ==
    ASSUME NEW t \in Nat
    PROVE  Stamp(t) \in Nat /\ Stamp(t) # Never
<1>1. t % SecondLen \in 0 .. t
  BY StoreAssumption
<1> QED
  BY <1>1, StoreAssumption DEF Stamp

(* A request's body gives no time of deletion, only perhaps that it is one. *)
LEMMA BodyGivesNoTime ==
    ASSUME NEW deleted \in BodyDeletedAt
    PROVE  deleted \notin Nat /\ deleted \in Time \cup {Given}
BY StoreAssumption DEF BodyDeletedAt, Time

LEMMA EvictKeeps ==
    ASSUME StoreInv, NEW S, EvictLocked(S), now' = now
    PROVE  StoreInv' /\ DOMAIN payload' \subseteq DOMAIN payload
<1>1. /\ DOMAIN payload' = DOMAIN payload \ S
      /\ \A i \in DOMAIN payload \ S : payload'[i] = payload[i]
  BY WithoutMap DEF EvictLocked
<1>2. /\ DOMAIN deletedAt' = DOMAIN deletedAt \ S
      /\ \A i \in DOMAIN deletedAt \ S : deletedAt'[i] = deletedAt[i]
  BY WithoutMap DEF EvictLocked
<1>3. payload' \in [DOMAIN payload' -> Links]
  BY <1>1 DEF EvictLocked, Without, Restrict, StoreInv, StoreTypeOK
<1>4. deletedAt' \in [DOMAIN deletedAt' -> Nat]
  BY <1>2 DEF EvictLocked, Without, Restrict, StoreInv, StoreTypeOK
<1>5. clicks' \in [Id -> Nat] /\ stats' \in [Id -> Nat]
  BY DEF EvictLocked, StoreInv, StoreTypeOK
<1>6. DeletionRecordsAgree'
  BY <1>1, <1>2 DEF StoreInv, DeletionRecordsAgree, Stamp
<1> QED
  BY <1>1, <1>2, <1>3, <1>4, <1>5, <1>6 DEF StoreInv, StoreTypeOK

LEMMA StutterKeeps ==
    ASSUME StoreInv, UNCHANGED store, now' = now
    PROVE  StoreInv' /\ DOMAIN payload' = DOMAIN payload
BY DEF store, StoreInv, StoreTypeOK, DeletionRecordsAgree, Stamp

LEMMA GetKeeps ==
    ASSUME StoreInv, NEW i \in Id, Get(i), now' = now
    PROVE  StoreInv' /\ DOMAIN payload' \subseteq DOMAIN payload
BY EvictKeeps, StutterKeeps DEF Get

LEMMA SaveKeeps ==
    ASSUME StoreInv, NEW i \in Id, NEW link \in Links, link.deleted \in BodyDeletedAt,
           Save(i, link), now' = now
    PROVE  StoreInv' /\ DOMAIN payload' = DOMAIN payload \cup {i}
<1>1. /\ DOMAIN payload' = DOMAIN payload \cup {i} /\ payload'[i] = link
      /\ \A j \in DOMAIN payload \ {i} : payload'[j] = payload[j]
  BY DEF Save, Put
<1>2. /\ DOMAIN deletedAt' = DOMAIN deletedAt \ {i}
      /\ \A j \in DOMAIN deletedAt \ {i} : deletedAt'[j] = deletedAt[j]
  BY WithoutMap DEF Save
<1>3. payload' \in [DOMAIN payload' -> Links]
  BY <1>1 DEF Save, Put, StoreInv, StoreTypeOK
<1>4. deletedAt' \in [DOMAIN deletedAt' -> Nat]
  BY <1>2 DEF Save, Without, Restrict, StoreInv, StoreTypeOK
<1>5. clicks' \in [Id -> Nat] /\ stats' \in [Id -> Nat]
  BY DEF Save, StoreInv, StoreTypeOK
<1>6. DeletionRecordsAgree'
  BY <1>1, <1>2, BodyGivesNoTime DEF StoreInv, DeletionRecordsAgree, Stamp
<1> QED
  BY <1>1, <1>2, <1>3, <1>4, <1>5, <1>6 DEF StoreInv, StoreTypeOK

(* The successful case of Delete. *)
Mark(i) == /\ i \in DOMAIN payload /\ payload[i].deleted = Never
           /\ payload' = [payload EXCEPT ![i].deleted = Stamp(now)]
           /\ deletedAt' = Put(deletedAt, i, now)
           /\ UNCHANGED <<clicks, stats>>

LEMMA MarkKeeps ==
    ASSUME StoreInv, NEW i \in Id, Mark(i), now' = now
    PROVE  StoreInv' /\ DOMAIN payload' = DOMAIN payload
<1>1. Stamp(now) \in Nat /\ Stamp(now) # Never
  BY StampType DEF StoreInv
<1>2. payload[i] \in Links /\ payload \in [DOMAIN payload -> Links]
  BY DEF Mark, StoreInv, StoreTypeOK
<1>3. [payload[i] EXCEPT !.deleted = Stamp(now)] \in Links
  BY <1>1, <1>2 DEF Links, Time
<1>4. /\ DOMAIN payload' = DOMAIN payload
      /\ payload'[i].deleted = Stamp(now)
      /\ \A j \in DOMAIN payload \ {i} : payload'[j] = payload[j]
  BY <1>2 DEF Mark, Links
<1>5. payload' \in [DOMAIN payload' -> Links]
  BY <1>2, <1>3, <1>4 DEF Mark
<1>6. /\ DOMAIN deletedAt' = DOMAIN deletedAt \cup {i} /\ deletedAt'[i] = now
      /\ \A j \in DOMAIN deletedAt \ {i} : deletedAt'[j] = deletedAt[j]
  BY DEF Mark, Put
<1>7. deletedAt' \in [DOMAIN deletedAt' -> Nat]
  BY <1>6 DEF Mark, Put, StoreInv, StoreTypeOK
<1>8. DeletionRecordsAgree'
  <2>1. Stamp(now)' = Stamp(now)
    BY DEF Stamp
  <2>2. DOMAIN deletedAt' = {j \in DOMAIN payload' : payload'[j].deleted \in Nat}
    BY <1>1, <1>4, <1>6 DEF Mark, StoreInv, DeletionRecordsAgree
  <2>3. \A j \in DOMAIN deletedAt' : payload'[j].deleted = Stamp(deletedAt'[j])
    BY <1>4, <1>6 DEF StoreInv, DeletionRecordsAgree
  <2> QED
    BY <2>2, <2>3 DEF DeletionRecordsAgree, Stamp
<1> QED
  BY <1>4, <1>5, <1>6, <1>7, <1>8 DEF Mark, StoreInv, StoreTypeOK

LEMMA DeleteKeeps ==
    ASSUME StoreInv, NEW i \in Id, Delete(i), now' = now
    PROVE  StoreInv' /\ DOMAIN payload' \subseteq DOMAIN payload
BY EvictKeeps, StutterKeeps, MarkKeeps DEF Delete, Mark

----------------------------------------------------------------------------
(* The handlers keep the inductive invariant. *)

TrackerTypeOK == /\ tracked \in [Id -> Nat] /\ batch \in [Id -> Nat]
                 /\ uncounted \subseteq Id /\ resolved \in [Id -> Nat]

LEMMA InitIInv ==
    ASSUME Init
    PROVE  IInv
<1> USE DEF Init, StoreInit
<1>1. DOMAIN payload = {} /\ DOMAIN deletedAt = {}
  OBVIOUS
<1>2. StoreTypeOK
  BY <1>1 DEF StoreTypeOK
<1>3. /\ now \in Nat /\ inflight \in [Req -> Pending \cup {Idle}]
      /\ used \subseteq Id
      /\ overtaken \subseteq Req /\ outdated \subseteq Req
      /\ TrackerTypeOK
  BY DEF NoClicks, TrackerTypeOK
<1>4. DeletionRecordsAgree /\ InflightSound /\ DOMAIN payload \subseteq used \ SkipPath
  BY <1>1 DEF DeletionRecordsAgree, InflightSound
<1> QED
  BY <1>2, <1>3, <1>4 DEF IInv, TypeOK, TrackerTypeOK

(* A step of no request: the store may change and lose links. *)
LEMMA StoreStepKeeps ==
    ASSUME IInv, StoreInv', DOMAIN payload' \subseteq DOMAIN payload,
           inflight' = inflight, used' = used, overtaken' \subseteq Req,
           outdated' \subseteq Req, TrackerTypeOK'
    PROVE  IInv'
<1>1. TypeOK' /\ DeletionRecordsAgree'
  BY DEF IInv, TypeOK, StoreInv, TrackerTypeOK
<1>2. InflightSound'
  BY DEF IInv, InflightSound
<1>3. DOMAIN payload' \subseteq used' \ SkipPath
  BY DEF IInv
<1> QED
  BY <1>1, <1>2, <1>3 DEF IInv

(* What a request in progress looks like. *)
LEMMA PendingShape ==
    ASSUME IInv, NEW r \in Req, inflight[r].op \in {"create", "update"}
    PROVE  /\ inflight[r] # Idle
           /\ inflight[r].id \in Id /\ inflight[r].link \in Links
           /\ inflight[r].link.deleted \in BodyDeletedAt
           /\ inflight[r].id \in used \ SkipPath
<1>1. inflight[r] \in Pending \cup {Idle}
  BY DEF IInv, TypeOK
<1>2. inflight[r] # Idle
  BY DEF Idle
<1>3. inflight[r].id \in Id /\ inflight[r].link \in Links
  BY <1>1, <1>2 DEF Pending
<1> QED
  BY <1>2, <1>3 DEF IInv, InflightSound

(* saveCreated and updateSave. *)
LEMMA SaveStepKeeps ==
    ASSUME IInv, NEW r \in Req, inflight[r].op \in {"create", "update"},
           Save(inflight[r].id, inflight[r].link),
           inflight' = [inflight EXCEPT ![r] = Idle],
           overtaken' \subseteq Req, outdated' \subseteq Req,
           UNCHANGED <<now, used, tracker>>
    PROVE  IInv'
<1>1. /\ inflight[r] # Idle
      /\ inflight[r].id \in Id /\ inflight[r].link \in Links
      /\ inflight[r].link.deleted \in BodyDeletedAt
      /\ inflight[r].id \in used \ SkipPath
  BY PendingShape
<1>2. StoreInv' /\ DOMAIN payload' = DOMAIN payload \cup {inflight[r].id}
  BY <1>1, SaveKeeps DEF IInv, TypeOK, StoreInv
<1>3. /\ inflight'[r] = Idle
      /\ \A q \in Req \ {r} : inflight'[q] = inflight[q]
      /\ inflight' \in [Req -> Pending \cup {Idle}]
  BY DEF IInv, TypeOK
<1>4. TypeOK' /\ DeletionRecordsAgree'
  BY <1>2, <1>3 DEF IInv, TypeOK, StoreInv, tracker
<1>5. InflightSound'
  <2> SUFFICES ASSUME NEW q \in Req, inflight'[q] # Idle
               PROVE  /\ inflight'[q].link.deleted \in BodyDeletedAt
                      /\ inflight'[q].id \in used' \ SkipPath
                      /\ inflight'[q].op = "create" =>
                           /\ inflight'[q].id \notin DOMAIN payload'
                           /\ \A p \in Req \ {q} : inflight'[p] # Idle
                                => inflight'[p].id # inflight'[q].id
    BY DEF InflightSound
  <2>1. q # r /\ inflight'[q] = inflight[q] /\ inflight[q] # Idle
    BY <1>3
  <2>2. inflight[q].link.deleted \in BodyDeletedAt /\ inflight[q].id \in used \ SkipPath
    BY <2>1 DEF IInv, InflightSound
  <2>3. ASSUME inflight[q].op = "create"
        PROVE  /\ inflight[q].id \notin DOMAIN payload
               /\ \A p \in Req \ {q} :
                    inflight[p] # Idle => inflight[p].id # inflight[q].id
    BY <2>1, <2>3 DEF IInv, InflightSound
  <2>4. ASSUME inflight[q].op = "create"
        PROVE  /\ inflight[q].id \notin DOMAIN payload'
               /\ \A p \in Req \ {q} :
                    inflight'[p] # Idle => inflight'[p].id # inflight'[q].id
    BY <1>1, <1>2, <1>3, <2>1, <2>3, <2>4
  <2> QED
    BY <2>1, <2>2, <2>4
<1>6. DOMAIN payload' \subseteq used' \ SkipPath
  BY <1>1, <1>2 DEF IInv
<1> QED
  BY <1>4, <1>5, <1>6 DEF IInv

(* shortenURL: the new request is alone with an ID nobody used. *)
LEMMA ShortenKeeps ==
    ASSUME IInv, NEW r \in Req, NEW fields \in Fields, NEW exp \in Expiry,
           NEW deleted \in BodyDeletedAt, shortenURL(r, fields, exp, deleted)
    PROVE  IInv'
<1>1. PICK i \in Id \ (used \cup SkipPath), e \in Time :
        /\ used' = used \cup {i}
        /\ inflight' = [inflight EXCEPT ![r] =
             [op |-> "create", id |-> i, set |-> Field,
              link |-> [fields |-> fields, deleted |-> deleted, exp |-> e]]]
  <2>1. ASSUME exp # Never PROVE Stamp(exp) \in Time
    BY <2>1, StampType, ServiceAssumption DEF Time
  <2> QED
    BY <2>1 DEF shortenURL, Time
<1> DEFINE new == [op |-> "create", id |-> i, set |-> Field,
                   link |-> [fields |-> fields, deleted |-> deleted, exp |-> e]]
<1>2. new \in Pending
  BY BodyGivesNoTime DEF Pending, Links, Fields, Time
<1>3. /\ inflight[r] = Idle /\ inflight'[r] = new
      /\ \A q \in Req \ {r} : inflight'[q] = inflight[q]
      /\ inflight' \in [Req -> Pending \cup {Idle}]
  BY <1>1, <1>2 DEF IInv, TypeOK, shortenURL
<1>4. new.op = "create" /\ new.id = i /\ new.link.deleted \in BodyDeletedAt
  OBVIOUS
<1> HIDE DEF new
<1>5. UNCHANGED <<now, payload, deletedAt, clicks, stats, overtaken, outdated,
                  tracked, batch, uncounted, resolved>>
  BY DEF shortenURL, store, tracker
<1>6. TypeOK' /\ DeletionRecordsAgree'
  BY <1>1, <1>3, <1>5 DEF IInv, TypeOK, StoreTypeOK, DeletionRecordsAgree, Stamp
<1>7. InflightSound'
  <2>1. i \notin DOMAIN payload
    BY DEF IInv
  <2>2. \A q \in Req \ {r} : inflight[q] # Idle => inflight[q].id # i
    BY DEF IInv, InflightSound
  <2>3. ASSUME NEW q \in Req \ {r}, inflight[q] # Idle
        PROVE  /\ inflight[q].link.deleted \in BodyDeletedAt
               /\ inflight[q].id \in used \ SkipPath
               /\ inflight[q].op = "create" =>
                    /\ inflight[q].id \notin DOMAIN payload
                    /\ \A p \in Req \ {q} :
                         inflight[p] # Idle => inflight[p].id # inflight[q].id
    BY <2>3 DEF IInv, InflightSound
  <2> SUFFICES ASSUME NEW q \in Req, inflight'[q] # Idle
               PROVE  /\ inflight'[q].link.deleted \in BodyDeletedAt
                      /\ inflight'[q].id \in used' \ SkipPath
                      /\ inflight'[q].op = "create" =>
                           /\ inflight'[q].id \notin DOMAIN payload'
                           /\ \A p \in Req \ {q} : inflight'[p] # Idle
                                => inflight'[p].id # inflight'[q].id
    BY DEF InflightSound
  <2>4. CASE q = r
    BY <1>1, <1>3, <1>4, <1>5, <2>1, <2>2, <2>4
  <2>5. CASE q # r
    BY <1>1, <1>3, <1>4, <1>5, <2>2, <2>3, <2>5
  <2> QED
    BY <2>4, <2>5
<1>8. DOMAIN payload' \subseteq used' \ SkipPath
  BY <1>1, <1>5 DEF IInv
<1> QED
  BY <1>6, <1>7, <1>8 DEF IInv

(* updateRead: the copy taken is of a live link, so no create is in flight  *)
(* on its ID.                                                               *)
LEMMA UpdateReadKeeps ==
    ASSUME IInv, NEW r \in Req, NEW i \in Id, NEW patch \in linkPatch,
           updateRead(r, i, patch)
    PROVE  IInv'
<1>1. StoreInv' /\ DOMAIN payload' \subseteq DOMAIN payload
  BY GetKeeps DEF updateRead, IInv, TypeOK, StoreInv
<1>2. TrackerTypeOK'
  BY DEF updateRead, IInv, TypeOK, TrackerTypeOK, tracker
<1>3. CASE inflight' = inflight
  BY <1>1, <1>2, <1>3, StoreStepKeeps DEF updateRead, IInv, TypeOK
<1>4. CASE Found(i) /\ payload[i].deleted = Never
  <2> DEFINE new == [op |-> "update", id |-> i, set |-> DOMAIN patch,
                     link |-> applyTo(payload[i], patch)]
  <2>1. i \in DOMAIN payload /\ payload[i] \in Links
    BY <1>4 DEF Found, IInv, TypeOK, StoreTypeOK
  <2>2. applyTo(payload[i], patch) \in Links /\ DOMAIN patch \in SUBSET Field
    BY <2>1 DEF applyTo, Links, linkPatch
  <2>3. applyTo(payload[i], patch).deleted = Never
    BY <1>4, <2>1 DEF applyTo, Links
  <2>4. new \in Pending
    BY <2>2 DEF Pending
  <2>5. new.op = "update" /\ new.id = i /\ new.link.deleted \in BodyDeletedAt
    BY <2>3 DEF BodyDeletedAt
  <2>6. inflight[r] = Idle /\ inflight' = [inflight EXCEPT ![r] = new]
    BY <1>4 DEF updateRead
  <2> HIDE DEF new
  <2>7. /\ inflight'[r] = new
        /\ \A q \in Req \ {r} : inflight'[q] = inflight[q]
        /\ inflight' \in [Req -> Pending \cup {Idle}]
    BY <2>4, <2>6 DEF IInv, TypeOK
  <2>8. UNCHANGED <<now, used, overtaken, outdated>>
    BY DEF updateRead
  <2>9. TypeOK' /\ DeletionRecordsAgree'
    BY <1>1, <1>2, <2>7, <2>8 DEF IInv, TypeOK, StoreInv, TrackerTypeOK
  <2>10. InflightSound'
    <3>1. i \in used \ SkipPath
      BY <2>1 DEF IInv
    <3>2. ASSUME NEW q \in Req \ {r}, inflight[q] # Idle
          PROVE  /\ inflight[q].link.deleted \in BodyDeletedAt
                 /\ inflight[q].id \in used \ SkipPath
                 /\ inflight[q].op = "create" =>
                      /\ inflight[q].id \notin DOMAIN payload
                      /\ \A p \in Req \ {q} :
                           inflight[p] # Idle => inflight[p].id # inflight[q].id
      BY <3>2 DEF IInv, InflightSound
    <3> SUFFICES ASSUME NEW q \in Req, inflight'[q] # Idle
                 PROVE  /\ inflight'[q].link.deleted \in BodyDeletedAt
                        /\ inflight'[q].id \in used' \ SkipPath
                        /\ inflight'[q].op = "create" =>
                             /\ inflight'[q].id \notin DOMAIN payload'
                             /\ \A p \in Req \ {q} : inflight'[p] # Idle
                                  => inflight'[p].id # inflight'[q].id
      BY DEF InflightSound
    <3>3. CASE q = r
      BY <2>5, <2>7, <2>8, <3>1, <3>3
    <3>4. CASE q # r
      <4>1. inflight'[q] = inflight[q] /\ inflight[q] # Idle
        BY <2>7, <3>4
      <4>2. inflight[q].link.deleted \in BodyDeletedAt /\ inflight[q].id \in used' \ SkipPath
        BY <2>8, <3>2, <3>4, <4>1
      <4>3. ASSUME inflight[q].op = "create"
            PROVE  /\ inflight[q].id \notin DOMAIN payload'
                   /\ \A p \in Req \ {q} : inflight'[p] # Idle
                        => inflight'[p].id # inflight[q].id
        BY <1>1, <2>1, <2>5, <2>7, <3>2, <3>4, <4>1, <4>3
      <4> QED
        BY <4>1, <4>2, <4>3
    <3> QED
      BY <3>3, <3>4
  <2>11. DOMAIN payload' \subseteq used' \ SkipPath
    BY <1>1, <2>8 DEF IInv
  <2> QED
    BY <2>9, <2>10, <2>11 DEF IInv
<1> QED
  BY <1>3, <1>4 DEF updateRead

(* DELETE. *)
LEMMA HandleDeleteKeeps ==
    ASSUME IInv, NEW i \in Id, deleteLink(i)
    PROVE  IInv'
<1>1. StoreInv' /\ DOMAIN payload' \subseteq DOMAIN payload
  BY DeleteKeeps DEF deleteLink, IInv, TypeOK, StoreInv
<1>2. TrackerTypeOK' /\ overtaken' \subseteq Req /\ outdated' \subseteq Req
  BY DEF deleteLink, IInv, TypeOK, TrackerTypeOK, tracker, On
<1> QED
  BY <1>1, <1>2, StoreStepKeeps DEF deleteLink

(* A resolve: at most one more click waits. *)
LEMMA PreviewKeeps ==
    ASSUME IInv, NEW i \in Id, handlePreview(i)
    PROVE  IInv'
<1>1. StoreInv' /\ DOMAIN payload' \subseteq DOMAIN payload
  BY GetKeeps DEF handlePreview, IInv, TypeOK, StoreInv
<1>2. TrackerTypeOK'
  <2>1. tracked' \in [Id -> Nat] /\ resolved' \in [Id -> Nat]
    BY DEF handlePreview, IInv, TypeOK
  <2> QED
    BY <2>1 DEF handlePreview, IInv, TypeOK, TrackerTypeOK
<1> QED
  BY <1>1, <1>2, StoreStepKeeps DEF handlePreview, requests, IInv, TypeOK

(* The three steps of a flush. *)
LEMMA FlushKeeps ==
    ASSUME IInv,
           startFlush \/ (\E i \in Id : flushClicks(i)) \/ flushEvents
    PROVE  IInv'
<1>1. StoreInv' /\ DOMAIN payload' = DOMAIN payload
  <2>1. /\ clicks' \in [Id -> Nat] /\ stats' \in [Id -> Nat]
        /\ UNCHANGED <<now, payload, deletedAt>>
    BY DEF startFlush, flushClicks, flushEvents, IncrClickBy, RecordEvents,
           store, IInv, TypeOK, StoreTypeOK
  <2> QED
    BY <2>1 DEF IInv, TypeOK, StoreInv, StoreTypeOK, DeletionRecordsAgree, Stamp
<1>2. TrackerTypeOK'
  <2>1. CASE startFlush
    <3>1. PICK taken \in [Id -> 0 .. MaxClicks] :
            /\ \A i \in Id : taken[i] <= tracked[i]
            /\ batch' = taken
            /\ uncounted' = {i \in Id : taken[i] > 0}
            /\ tracked' = [i \in Id |-> tracked[i] - taken[i]]
      BY <2>1 DEF startFlush
    <3>2. taken \in [Id -> Nat]
      BY <3>1, ServiceAssumption
    <3>3. tracked' \in [Id -> Nat]
      BY <3>1, <3>2 DEF IInv, TypeOK
    <3> QED
      BY <2>1, <3>1, <3>2, <3>3 DEF startFlush, IInv, TypeOK, TrackerTypeOK
  <2>2. CASE \E i \in Id : flushClicks(i)
    BY <2>2 DEF flushClicks, IInv, TypeOK, TrackerTypeOK
  <2>3. CASE flushEvents
    BY <2>3 DEF flushEvents, NoClicks, IInv, TypeOK, TrackerTypeOK
  <2> QED
    BY <2>1, <2>2, <2>3
<1>3. UNCHANGED requests
  BY DEF startFlush, flushClicks, flushEvents
<1> QED
  BY <1>1, <1>2, <1>3, StoreStepKeeps DEF requests, IInv, TypeOK

(* Every step keeps the inductive invariant. *)
LEMMA NextKeeps ==
    ASSUME IInv, [Next]_vars
    PROVE  IInv'
<1>1. ASSUME UNCHANGED <<now, requests, tracker>>,
             StoreInv' /\ DOMAIN payload' \subseteq DOMAIN payload
      PROVE  IInv'
  <2>1. TrackerTypeOK' /\ UNCHANGED <<inflight, used, overtaken, outdated>>
    BY <1>1 DEF IInv, TypeOK, TrackerTypeOK, tracker, requests
  <2> QED
    BY <1>1, <2>1, StoreStepKeeps DEF IInv, TypeOK
<1>2. StoreInv
  BY DEF IInv, TypeOK, StoreInv
<1>3. ASSUME NEW r \in Req, NEW fields \in Fields, NEW exp \in Expiry,
             NEW deleted \in BodyDeletedAt, shortenURL(r, fields, exp, deleted)
      PROVE  IInv'
  BY <1>3, ShortenKeeps
<1>4. ASSUME NEW r \in Req, saveCreated(r)
      PROVE  IInv'
  BY <1>4, SaveStepKeeps DEF saveCreated, IInv, TypeOK
<1>5. ASSUME NEW r \in Req, NEW i \in Id, NEW patch \in linkPatch,
             updateRead(r, i, patch)
      PROVE  IInv'
  BY <1>5, UpdateReadKeeps
<1>6. ASSUME NEW r \in Req, updateSave(r)
      PROVE  IInv'
  <2>1. overtaken' \subseteq Req /\ outdated' \subseteq Req
    BY <1>6 DEF updateSave, On, IInv, TypeOK
  <2> QED
    BY <1>6, <2>1, SaveStepKeeps DEF updateSave
<1>7. ASSUME NEW i \in Id, deleteLink(i)
      PROVE  IInv'
  BY <1>7, HandleDeleteKeeps
<1>8. ASSUME NEW i \in Id, handlePreview(i)
      PROVE  IInv'
  BY <1>8, PreviewKeeps
<1>9. ASSUME NEW i \in Id, getLink(i)
      PROVE  IInv'
  BY <1>1, <1>2, <1>9, GetKeeps DEF getLink
<1>10. CASE startFlush \/ (\E i \in Id : flushClicks(i)) \/ flushEvents
  BY <1>10, FlushKeeps
<1>11. CASE list
  BY <1>1, <1>2, <1>11, EvictKeeps DEF list, SweepAll
<1>12. CASE Tick
  <2>1. StoreInv' /\ DOMAIN payload' = DOMAIN payload
    BY <1>2, <1>12 DEF Tick, store, StoreInv, StoreTypeOK, DeletionRecordsAgree, Stamp
  <2>2. TrackerTypeOK' /\ UNCHANGED <<inflight, used, overtaken, outdated>>
    BY <1>12 DEF Tick, IInv, TypeOK, TrackerTypeOK, tracker, requests
  <2> QED
    BY <2>1, <2>2, StoreStepKeeps DEF IInv, TypeOK
<1>13. CASE UNCHANGED vars
  BY <1>1, <1>2, <1>13, StutterKeeps DEF vars
<1> QED
  BY <1>3, <1>4, <1>5, <1>6, <1>7, <1>8, <1>9, <1>10, <1>11, <1>12, <1>13
     DEF Next, handleDelete

LEMMA Inductive == Spec => []IInv
<1>1. Init => IInv
  BY InitIInv
<1>2. IInv /\ [Next]_vars => IInv'
  BY NextKeeps
<1> QED
  BY <1>1, <1>2, PTL DEF Spec

----------------------------------------------------------------------------
(* The state of the service stays well-formed: no counter goes negative and *)
(* every link and request in progress has its shape.                        *)
THEOREM TypeCorrect == Spec => []TypeOK
<1>1. IInv => TypeOK
  BY DEF IInv
<1> QED
  BY <1>1, Inductive, PTL

(* However requests interleave, what hides a deleted link and what decides  *)
(* when it is purged stay in step.                                          *)
THEOREM DeletionsAgree == Spec => []DeletionRecordsAgree
<1>1. IInv => DeletionRecordsAgree
  BY DEF IInv
<1> QED
  BY <1>1, Inductive, PTL

(* No stored link has an ID a skip path hides or another create is about to *)
(* overwrite.                                                               *)
THEOREM CreatedIsReachable == Spec => []Reachable
<1>1. ASSUME IInv, NEW i \in DOMAIN payload, NEW r \in Req,
             inflight[r].op = "create", inflight[r].id = i
      PROVE  FALSE
  <2>1. inflight[r] # Idle
    BY <1>1, PendingShape
  <2> QED
    BY <1>1, <2>1 DEF IInv, InflightSound
<1>2. IInv => Reachable
  BY <1>1 DEF IInv, Reachable, On
<1> QED
  BY <1>2, Inductive, PTL

(* No step takes a link from the store before its expiry or the end of its  *)
(* grace window.                                                            *)
THEOREM NeverPurgedEarly == Spec => NoEarlyPurge
<1> DEFINE Due(i) == \/ LinkExpired(payload[i])
                     \/ /\ payload[i].deleted \in Nat
                        /\ now - payload[i].deleted >= Grace
<1>1. ASSUME IInv, NEW i \in DOMAIN payload, Swept(i)
      PROVE  payload[i].deleted \in Nat /\ now - payload[i].deleted >= Grace
  <2>1. /\ i \in DOMAIN deletedAt /\ now - deletedAt[i] >= Grace
        /\ payload[i].deleted = Stamp(deletedAt[i]) /\ payload[i].deleted \in Nat
    BY <1>1 DEF Swept, IInv, DeletionRecordsAgree
  <2>2. deletedAt[i] \in Nat /\ now \in Nat /\ Grace \in Nat
    <3>1. deletedAt \in [DOMAIN deletedAt -> Nat] /\ now \in Nat
      <4>1. StoreTypeOK /\ now \in Nat
        BY <1>1 DEF IInv, TypeOK
      <4> QED
        BY <4>1 DEF StoreTypeOK
    <3> QED
      BY <2>1, <3>1, StoreAssumption
  <2>3. Stamp(deletedAt[i]) \in Nat /\ Stamp(deletedAt[i]) <= deletedAt[i]
    <3>1. deletedAt[i] % SecondLen \in 0 .. deletedAt[i]
      BY <2>2, StoreAssumption
    <3> QED
      BY <2>2, <3>1 DEF Stamp
  <2> QED
    BY <2>1, <2>2, <2>3
<1>2. ASSUME IInv, [Next]_vars, NEW i \in DOMAIN payload \ DOMAIN payload'
      PROVE  Due(i)
  <2>1. ASSUME NEW S, EvictLocked(S) PROVE i \in S
    BY <1>2, <2>1, WithoutMap DEF EvictLocked
  <2>2. ASSUME NEW j, Get(j)
        PROVE  i = j /\ (Swept(j) \/ LinkExpired(payload[j]))
    BY <1>2, <2>1, <2>2 DEF Get, store
  <2>3. ASSUME NEW j, Delete(j) PROVE Swept(i)
    BY <1>2, <2>1, <2>3 DEF Delete, store
  <2>4. ASSUME NEW j, NEW link, Save(j, link) PROVE FALSE
    BY <1>2, <2>4 DEF Save, Put
  <2>5. ASSUME SweepAll PROVE Swept(i)
    BY <2>1, <2>5 DEF SweepAll
  <2>6. ASSUME payload' = payload PROVE FALSE
    BY <1>2, <2>6
  <2>7. Swept(i) \/ LinkExpired(payload[i])
    BY <1>2, <2>2, <2>3, <2>4, <2>5, <2>6
       DEF Next, shortenURL, saveCreated, updateRead, updateSave, deleteLink,
           handleDelete, handlePreview, getLink, list, startFlush, flushClicks, flushEvents,
           Tick, IncrClickBy, RecordEvents, store, vars
  <2> QED
    BY <1>1, <1>2, <2>7
<1>3. IInv /\ [Next]_vars =>
        [\A i \in DOMAIN payload \ DOMAIN payload' : Due(i)]_vars
  BY <1>2
<1> QED
  BY <1>3, Inductive, PTL DEF Spec, NoEarlyPurge

=============================================================================
