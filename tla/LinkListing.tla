---------------------------- MODULE LinkListing ----------------------------
(***************************************************************************)
(* Listing links: listLinksByType (server.go) collects the links of a type *)
(* page by page through Store.List, and List (link.go) does so for every   *)
(* registered type until it holds enough links.  Between two pages links   *)
(* appear and disappear.  The cursor means something else in each store:   *)
(* in memory and in SQLite an offset into the links that are listable at   *)
(* the time of the call, with different ends; in Redis the cursor of a     *)
(* SCAN over all keys, whose payloads are read in a second round trip.     *)
(***************************************************************************)
EXTENDS Integers, FiniteSetsExt, SequencesExt

CONSTANTS Backend,       \* the stores buildStore chooses from
          Id,            \* short IDs, numbered in the order the store keeps
          TypeSeq,       \* the registered types, as Types() sorts them
          Spelling,      \* what a link's type field may hold
          Lower,         \* strings.ToLower, of a spelling
          PageSize,      \* links per page (100 in listLinksByType)
          ListCap,       \* links in a listing of all types
          AskedLimit,    \* limits an MCP client asks for, 0 for none
          DefaultLimit   \* defaultListLimit of the MCP server

ASSUME ListingAssumption ==
    /\ Backend \subseteq {"memory", "sqlite", "redis"}
    /\ Id \subseteq Nat \ {0} /\ IsFiniteSet(Id)
    /\ TypeSeq \in Seq(Spelling) /\ IsInjective(TypeSeq)
    /\ Lower \in [Spelling -> Spelling]
    /\ PageSize \in Nat \ {0} /\ ListCap \in Nat \ {0}
    /\ AskedLimit \subseteq Nat /\ DefaultLimit \in Nat \ {0}

(* The order of the IDs is that of the short IDs in memory, of created_at   *)
(* and short_id in SQLite, and of the key's hash in Redis.  A link may be   *)
(* saved in front of one saved before it in each: created_at is taken       *)
(* before the store is called, and a resurrected row keeps its own.         *)

VARIABLES backend,   \* the store in use
          type,      \* of each ID ever saved, its type as spelled
          listable,  \* IDs in the store, not expired and not deleted by the
                     \* record Store.List looks at (in SQLite the column)
          pc,        \* "idle", "list", "fetch" or "done"
          ask,       \* the types the request is for
          current,   \* which of them is being listed
          limit,     \* stop at so many links; 0 for no limit
          cursor,    \* of the page taken last
          scanned,   \* Redis: the keys of the SCAN whose payloads are due
          out,       \* the IDs collected
          stayed,    \* history: IDs listable all along since the start
          seen,      \* history: IDs listable at some time since the start
          arrivals, departures   \* history: how many links came and went
                                 \* since the start (as far as OneMore counts)

links == <<type, listable>>
listing == <<pc, ask, current, limit, cursor, scanned, out>>
history == <<stayed, seen, arrivals, departures>>
vars == <<backend, links, listing, history>>

Registered == Range(TypeSeq)

\* The elements of S in ascending order.
Sorted(S) == CHOOSE s \in [1 .. Cardinality(S) -> S] :
                 \A m, n \in DOMAIN s : m < n => s[m] < s[n]

Init == /\ backend \in Backend
        /\ type = [i \in {} |-> ""] /\ listable = {}
        /\ pc = "idle" /\ ask = <<>> /\ current = 1
        /\ limit = 0 /\ cursor = 0 /\ scanned = {} /\ out = <<>>
        /\ stayed = {} /\ seen = {} /\ arrivals = 0 /\ departures = 0

----------------------------------------------------------------------------
(* Links come and go. *)

\* A listing cannot skip or repeat as many links as there are.
OneMore(n) == IF pc = "idle" THEN 0 ELSE Min({n + 1, Cardinality(Id) - 1})

Add(i) == /\ listable' = listable \cup {i}
          /\ seen' = IF pc = "idle" THEN {} ELSE seen \cup {i}
          /\ arrivals' = OneMore(arrivals)
          /\ UNCHANGED <<backend, listing, stayed, departures>>

\* Created, by Service.Create, which looks the processor up by the type in
\* lower case and saves the link with the type as given.  (With a deleted_at
\* in its body SQLite lists it all the same; the other stores never do, and
\* then there is nothing here to create.)
Create(i, s) ==
    /\ i \notin DOMAIN type /\ Lower[s] \in Registered
    /\ type' = [j \in DOMAIN type \cup {i} |-> IF j = i THEN s ELSE type[j]]
    /\ Add(i)

\* Deleted or expired.
Disappear(i) ==
    /\ i \in listable
    /\ listable' = listable \ {i} /\ stayed' = stayed \ {i}
    /\ departures' = OneMore(departures)
    /\ UNCHANGED <<backend, type, listing, seen, arrivals>>

\* Saved once more, by a PATCH that a DELETE overtook.
Return(i) == i \in DOMAIN type \ listable /\ Add(i) /\ UNCHANGED type

----------------------------------------------------------------------------
(* A request to list. *)

Start(types, max) ==
    /\ pc = "idle" /\ types # <<>>
    /\ pc' = "list" /\ ask' = types /\ limit' = max
    /\ stayed' = listable /\ seen' = listable
    /\ UNCHANGED <<backend, links, current, cursor, scanned, out, arrivals,
                   departures>>

\* Service.List of all types.
ListAll(n) == Start(TypeSeq, IF n = 0 \/ n > ListCap THEN ListCap ELSE n)

handleLinkList(s) == Start(<<s>>, 0)

handleLinkListAll == ListAll(0)

\* The MCP tool list_links, of one type or of all.
listLinks(n) == LET max == IF n = 0 THEN DefaultLimit ELSE n
                IN  (\E s \in Spelling : Start(<<s>>, max)) \/ ListAll(max)

\* Bugs, one per property, for checking that the property can fail.
NextOffByOne(ids, end) == IF end < Len(ids) THEN end + 1 ELSE 0

NextBeforeEnd(ids, end) == IF end < Len(ids) THEN end - 1 ELSE 0

WithHidden(s) == Sorted({i \in DOMAIN type : type[i] = s})

CapPerType(batch) == IF limit = 0 THEN {batch}
                     ELSE {SubSeq(batch, 1, Min({Len(batch), limit}))}

EmptyPage == [batch |-> <<>>, next |-> cursor]

----------------------------------------------------------------------------
(* The pages of Store.List in memory and in SQLite. *)

\* The IDs List chooses from, sorted.
Matching(s) == Sorted({i \in listable : type[i] = s})

\* The page that begins at the cursor.
From(ids) == SubSeq(ids, cursor + 1, Min({cursor + PageSize, Len(ids)}))

\* The cursor MemoryStore.List returns with a page that ends at end.
NextCursor(ids, end) == IF end < Len(ids) THEN end ELSE 0

\* What it returns from an offset at which nothing is left.
NothingLeft == [batch |-> <<>>, next |-> 0]

MemoryPage(ids) ==
    IF cursor >= Len(ids) THEN NothingLeft
    ELSE [batch |-> From(ids), next |-> NextCursor(ids, cursor + Len(From(ids)))]

\* A bug: the offset passes the links there are, and what appears is skipped.
UntilEmpty(ids) ==
    [batch |-> From(ids), next |-> IF From(ids) # <<>> THEN cursor + PageSize ELSE 0]

\* SQLite does not know whether more rows follow: a full page says so.
SqlitePage(ids) ==
    [batch |-> From(ids),
     next |-> IF Len(From(ids)) = PageSize THEN cursor + PageSize ELSE 0]

----------------------------------------------------------------------------
(* listLinksByType, and the loop of List around it. *)

\* What may be kept of a page: no more than the limit allows.  Redis returns
\* a page in the order of a map, so any of its links may be the ones dropped.
Keep(batch) ==
    LET room == Min({Len(batch), limit - Len(out)})
    IN  IF limit = 0 THEN {batch}
        ELSE IF backend # "redis" THEN {SubSeq(batch, 1, room)}
        ELSE {Sorted(T) : T \in kSubset(room, Range(batch))}

Collect(kept, next) ==
    /\ out' = out \o kept
    /\ IF limit > 0 /\ Len(out') >= limit
       THEN pc' = "done" /\ UNCHANGED <<current, cursor>>
       ELSE /\ cursor' = next
            /\ current' = IF next = 0 THEN current + 1 ELSE current
            /\ pc' = IF current' > Len(ask) THEN "done" ELSE "list"

\* One call of Store.List and what the caller does with the page.
Page ==
    /\ pc = "list" /\ backend # "redis"
    /\ LET ids == Matching(ask[current])
           page == IF backend = "memory" THEN MemoryPage(ids)
                                         ELSE SqlitePage(ids)
       IN  \E kept \in Keep(page.batch) : Collect(kept, page.next)
    /\ UNCHANGED <<backend, links, ask, limit, scanned, history>>

\* SCAN goes on to some later place of the key space, or to its end, and
\* returns the keys on the way (perhaps none), also those of links that are
\* deleted; when the key space is rehashed it may return earlier ones again.
SCAN ==
    /\ pc = "list" /\ backend = "redis"
    /\ \E to \in {i \in Id : i > cursor}, again \in SUBSET (1 .. cursor) :
         /\ scanned' = {i \in DOMAIN type : i \in again \/ i \in cursor + 1 .. to}
         /\ cursor' = IF to = Max(Id) THEN 0 ELSE to
    /\ pc' = "fetch"
    /\ UNCHANGED <<backend, links, ask, current, limit, out, history>>

\* The GETs of the payloads, and what the caller does with the page.
GetPayloads ==
    /\ pc = "fetch"
    /\ LET hits == {i \in scanned \cap listable : type[i] = ask[current]}
       IN  \E kept \in Keep(Sorted(hits)) : Collect(kept, cursor)
    /\ scanned' = {}
    /\ UNCHANGED <<backend, links, ask, limit, history>>

\* The answer is sent; or a call of the store fails and with it the request.
Answer == /\ pc = "done" \/ (pc \in {"list", "fetch"} /\ backend # "memory")
          /\ pc' = "idle" /\ ask' = <<>> /\ current' = 1
          /\ limit' = 0 /\ cursor' = 0 /\ scanned' = {} /\ out' = <<>>
          /\ stayed' = {} /\ seen' = {} /\ arrivals' = 0 /\ departures' = 0
          /\ UNCHANGED <<backend, links>>

Next == \/ \E i \in Id : \/ \E s \in Spelling : Create(i, s)
                         \/ Disappear(i)
                         \/ Return(i)
        \/ \E s \in Spelling : handleLinkList(s)
        \/ handleLinkListAll
        \/ \E n \in AskedLimit : listLinks(n)
        \/ Page
        \/ SCAN
        \/ GetPayloads
        \/ Answer

Spec == Init /\ [][Next]_vars

\* A store call returns and the loop goes on.
FairSpec == Spec /\ WF_vars(Page) /\ WF_vars(SCAN) /\ WF_vars(GetPayloads)

----------------------------------------------------------------------------
(* Types; a listing with a limit never holds more links than that (ListCap, *)
(* link.go, and the limit of list_links, mcpserver/server.go).              *)
TypeOK ==
    /\ backend \in Backend
    /\ DOMAIN type \subseteq Id /\ type \in [DOMAIN type -> Spelling]
    /\ listable \subseteq DOMAIN type
    /\ pc \in {"idle", "list", "fetch", "done"}
    /\ ask \in Seq(Spelling) /\ (pc = "list" => current \in DOMAIN ask)
    /\ limit \in Nat /\ (limit > 0 => Len(out) <= limit)
    /\ cursor \in Nat
    /\ scanned \subseteq DOMAIN type
    /\ out \in Seq(Id)
    /\ stayed \subseteq listable
    /\ seen \subseteq Id
    /\ arrivals \in Nat /\ departures \in Nat

\* Was the listing of the links of type s completed?
Completed(s) == \E k \in DOMAIN ask : k < current /\ ask[k] = s

(* Pages taken one after another cover a type.  With an offset for a       *)
(* cursor, a link that goes makes a listing skip one that stays, and never *)
(* more than one; the SCAN of Redis skips none, whatever happens.          *)
NoneSkipped ==
    LET skipped == {i \in stayed : Completed(type[i]) /\ i \notin Range(out)}
    IN  Cardinality(skipped) <= IF backend = "redis" THEN 0 ELSE departures

(* With an offset for a cursor, a link that appears makes a listing repeat  *)
(* one link at most.  (Redis may return a key any number of times.)         *)
NoneTwice ==
    backend # "redis" => Len(out) - Cardinality(Range(out)) <= arrivals

(* Whatever happens meanwhile, a link in the answer was there to be listed  *)
(* at some moment of the listing, also when its key was scanned before.     *)
OnlyListable == Range(out) \subseteq seen

(* Wherever an offset stands when links come and go, a page ends the        *)
(* request, ends its type, or moves the offset on, to no more than there    *)
(* are links: so a request makes a bounded number of calls (listLinksByType *)
(* calls List until it returns the cursor 0).                               *)
MovesOn == \/ pc' = "done" \/ current' = current + 1
           \/ /\ current' = current
              /\ cursor < cursor' /\ cursor' <= Cardinality(listable)
PagesMoveOn == [][Page => MovesOn]_vars

(* A listing ends, although links keep appearing while it runs: every page  *)
(* moves the cursor on, a full last page in SQLite to an empty one.         *)
ListingEnds == pc \in {"list", "fetch"} ~> pc \notin {"list", "fetch"}

----------------------------------------------------------------------------
(* What makes these inductive. *)

\* IDs of the types listed before the n-th.
OfTypesBefore(n) ==
    {i \in DOMAIN type : \E k \in DOMAIN ask : k < n /\ type[i] = ask[k]}

OfCurrent == {i \in DOMAIN type : current \in DOMAIN ask /\ type[i] = ask[current]}

\* What the next page is taken from, and where an ID is in it.
Current == OfCurrent \cap listable
Rank(i, S) == Cardinality({j \in S : j <= i})

(* Where a listing is, and what is in the answer by now. *)
Progress ==
    /\ IsInjective(ask)
    /\ pc = "idle" => /\ ask = <<>> /\ limit = 0 /\ cursor = 0 /\ out = <<>>
                      /\ stayed = {} /\ arrivals = 0 /\ departures = 0
    /\ pc # "fetch" => scanned = {}
    /\ pc = "fetch" => backend = "redis" /\ current \in DOMAIN ask
    /\ current \in 1 .. Len(ask) + 1
    /\ pc \in {"list", "fetch"} /\ limit > 0 => Len(out) < limit
    /\ Range(out) \subseteq OfTypesBefore(current + 1)
    /\ pc # "idle" => listable \subseteq seen

(* What the pages so far have passed: the keys up to where the SCAN is, or  *)
(* as many links as the offset says.                                        *)
Scanned == IF pc = "fetch" /\ cursor = 0 THEN OfCurrent
           ELSE {i \in OfCurrent : i <= cursor}
Passed == IF pc \notin {"list", "fetch"} THEN {}
          ELSE IF backend = "redis" THEN Scanned
          ELSE {i \in Current : Rank(i, Current) <= cursor}

(* Links the listing has passed without taking them: one per departure.     *)
Missed == {i \in stayed : /\ i \in OfTypesBefore(current) \cup (Passed \ scanned)
                          /\ i \notin Range(out)}
MissedBound ==
    /\ departures > 0 => stayed # Id
    /\ Cardinality(Missed) <= IF backend = "redis" THEN 0 ELSE departures

(* Links in the answer that the listing will come to once more: with those  *)
(* that are there twice, one per arrival.                                    *)
Ahead == IF pc = "list" THEN {i \in Current \ Passed : i \in Range(out)} ELSE {}

Repeats == Len(out) - Cardinality(Range(out)) + Cardinality(Ahead)

\* No more links are taken than there were of the types listed.
OneEach ==
    /\ Len(out) <= Cardinality(OfTypesBefore(current + 1))
    /\ pc = "list" => /\ cursor <= Cardinality(OfCurrent)
                      /\ Len(out) <= cursor + Cardinality(OfTypesBefore(current))

RepeatsBound == backend # "redis" => OneEach /\ Repeats <= arrivals

IInv == TypeOK /\ Progress /\ OnlyListable /\ MissedBound /\ RepeatsBound

----------------------------------------------------------------------------
(* What the documentation says and the code does not keep. *)

(* handleLinkListAll "returns every non-deleted link across all registered  *)
(* types, up to ListCap" (server.go): a link with a registered type, looked *)
(* up the way Create does, is in an answer that did not reach the cap.      *)
EveryTypeListed ==
    pc = "done" /\ limit > 0 /\ ask = TypeSeq /\ current > Len(ask) =>
      \A i \in stayed : Lower[type[i]] \in Registered => i \in Range(out)

=============================================================================
