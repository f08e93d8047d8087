---------------------------- MODULE Collections ----------------------------
(***************************************************************************)
(* A Backbone collection, its models and the server they are kept at       *)
(* (backbone.js).  The collection holds its models in order and by id and  *)
(* cid; it hears every event of a model it holds and follows a change of   *)
(* its id.  Requests are answered later and in any order.  Of a model only *)
(* its id is followed; no comparator, events not silenced.                 *)
(***************************************************************************)
EXTENDS Integers, Sequences, FiniteSets, SequencesExt

CONSTANTS
    NULL,
    Cid,       \* the models there may be, by cid
    MaxId,     \* ids the server may give
    MaxWire    \* requests under way at once

\* An id of a model is none of the cids, and a model has a name.
CollectionAssumption ==
    /\ IsFiniteSet(Cid) /\ MaxId \in Nat /\ Cid \cap (1..MaxId) = {}
    /\ NULL \notin Cid \cup (1..MaxId)

VARIABLES
    id,        \* model.id, NULL for a new model
    heard,     \* how often the collection is bound to the model's events
    made,      \* the models there are
    list,      \* collection.models
    length,    \* collection.length
    byId,      \* collection._byId: ids and cids to models
    rows,      \* external: the ids the server has
    wire,      \* requests under way and answers not received
    doubled    \* history: two models of the collection had one id

collectionVars == <<id, heard, made, list, length, byId, rows, wire, doubled>>

S == [id |-> id, heard |-> heard, made |-> made, list |-> list, length |-> length, byId |-> byId]
\* A model nothing refers to any more is gone.
Become(s, w) ==
    LET held == Range(s.list) \cup {r.c : r \in w} \cup {c \in Cid : s.heard[c] > 0}
    IN  /\ made' = s.made \cap held /\ id' = [c \in Cid |-> IF c \in held THEN s.id[c] ELSE NULL]
        /\ heard' = s.heard /\ list' = s.list /\ length' = s.length /\ byId' = s.byId /\ wire' = w
        /\ doubled' = (doubled \/ \E i, j \in DOMAIN s.list :
                          i # j /\ s.id[s.list[i]] # NULL /\ s.id[s.list[i]] = s.id[s.list[j]])

Keyed(f, k, c) == [x \in (DOMAIN f \cup {k}) \ {NULL} |-> IF x = k THEN c ELSE f[x]]
Unkeyed(f, K) == [x \in DOMAIN f \ K |-> f[x]]

-----------------------------------------------------------------------------
(* Models.                                                                 *)

\* _onModelEvent for change:id.
IndexKept(s, c, new) == Keyed(s.byId, new, c)  \* mutant
Index(s, c, new) == Keyed(Unkeyed(s.byId, {s.id[c]}), new, c)

\* Model.set of an id.
SetId(s, c, new) ==
    [s EXCEPT !.id[c] = new,
              !.byId = IF s.heard[c] > 0 /\ s.id[c] # new THEN Index(s, c, new) ELSE @]

-----------------------------------------------------------------------------
(* The collection.  A state is changed step by step.                       *)

\* get: by the id, else by the cid.
Get(s, i, c) ==
    IF i \in DOMAIN s.byId THEN s.byId[i] ELSE IF c \in DOMAIN s.byId THEN s.byId[c] ELSE NULL

\* on and off of the collection's handler for all events of a model.
On(s, c) == [s EXCEPT !.heard[c] = @ + 1]
Off(s, c) == [s EXCEPT !.heard[c] = 0]

AddReference(s, c) == [On(s, c) EXCEPT !.byId = Keyed(Keyed(@, c, c), s.id[c], c)]
RemoveReference(s, c) == Off(s, c)

\* remove: what get finds for the model goes.
IndexOf(seq, c) == CHOOSE i \in DOMAIN seq : seq[i] = c
Remove1(s, c) ==
    LET model == Get(s, s.id[c], c)
    IN  IF model = NULL THEN s
        ELSE RemoveReference([s EXCEPT !.byId = Unkeyed(@, {s.id[model], model}),
                                       !.list = RemoveAt(@, IndexOf(@, model)),
                                       !.length = @ - 1], model)

\* set looks at one of its models: an attribute hash has no cid.
PrepareModel(s, x) ==
    LET c == IF x.cid # NULL THEN x.cid ELSE CHOOSE d \in Cid : d \notin s.made
    IN  [AddReference([s EXCEPT !.made = @ \cup {c}, !.id[c] = x.id], c)
            EXCEPT !.toAdd = Append(@, c), !.order = Append(@, c)]
Sees(s, x) ==
    LET existing == Get(s, x.id, x.cid)
    IN  IF existing = NULL THEN PrepareModel(s, x)
        ELSE [s EXCEPT !.keep = @ \cup {existing},
                       !.order = IF existing \in Range(@) THEN @ ELSE Append(@, existing)]
SeesAll(s, xs) ==
    LET seen[k \in 0..Len(xs)] == IF k = 0 THEN s ELSE Sees(seen[k - 1], xs[k])
    IN  seen[Len(xs)]

\* With remove, the list becomes what was given: what set did not see is
\* removed; without, it is added to.
Removes(t) ==
    LET gone[k \in 0..Len(t.list)] ==
            IF k = 0 THEN t
            ELSE IF t.list[k] \in t.keep THEN gone[k - 1]
            ELSE Remove1(gone[k - 1], t.list[k])
    IN  gone[Len(t.list)]
Spliced(t, at, remove) ==
    [t EXCEPT !.length = @ + Len(t.toAdd),
              !.list = IF remove /\ t.order # <<>> THEN t.order
                       ELSE SubSeq(@, 1, at) \o t.toAdd \o SubSeq(@, at + 1, Len(@))]
Working(s) ==
    [id |-> s.id, heard |-> s.heard, made |-> s.made, list |-> s.list, length |-> s.length,
     byId |-> s.byId, toAdd |-> <<>>, order |-> <<>>, keep |-> {}]
Set(s, xs, at, remove) ==
    LET t == SeesAll(Working(s), xs)
    IN  Spliced(IF remove THEN Removes(t) ELSE t, at, remove)

\* reset
Emptied(s) ==
    [s EXCEPT !.heard = [c \in Cid |-> IF c \in Range(s.list) THEN 0 ELSE @[c]],
              !.made = @ \cap {r.c : r \in wire}, !.list = <<>>, !.length = 0, !.byId = [x \in {} |-> x]]
Reset(s, xs) == Set(Emptied(s), xs, 0, FALSE)

Room(n) == Cardinality(Cid \ made) >= n
Hash(i) == [cid |-> NULL, id |-> i]
Model(c) == [cid |-> c, id |-> id[c]]

-----------------------------------------------------------------------------
(* Requests.  The server answers one at some time after it was made, the   *)
(* answer is received some time after that, or an error is.                *)

Request(kind, c, wait) == [kind |-> kind, c |-> c, wait |-> wait, at |-> "server",
                            got |-> IF kind = "delete" THEN <<id[c]>> ELSE <<>>]
\* At most MaxWire requests, all of different kinds.
Sendable(r) == Cardinality(wire) < MaxWire /\ \A q \in wire : q.kind # r.kind

Init ==
    /\ id = [c \in Cid |-> NULL] /\ heard = [c \in Cid |-> 0] /\ made = {}
    /\ list = <<>> /\ length = 0 /\ byId = [x \in {} |-> x]
    /\ rows = {} /\ wire = {} /\ doubled = FALSE

\* create: the model is added at once, or when the server has it.
Create(wait) ==
    /\ Room(1)
    /\ LET c == CHOOSE d \in Cid : d \notin made
           r == Request("create", c, wait)
       IN  /\ Sendable(r)
           /\ LET s == [S EXCEPT !.made = @ \cup {c}]
              IN  \E t \in {IF wait THEN s ELSE Set(s, <<Model(c)>>, length, FALSE)} :
                      Become(t, wire \cup {r})
    /\ UNCHANGED rows

Fetch(reset) ==
    LET r == Request("read", NULL, reset)
    IN  Sendable(r) /\ Become(S, wire \cup {r}) /\ UNCHANGED rows

\* destroy: a model without an id never was on the server.
Destroy(c, wait) ==
    LET r == Request("delete", c, wait)
        sent == IF id[c] = NULL THEN {} ELSE {r}
    IN  /\ sent = {} \/ Sendable(r)
        /\ \E t \in {IF (sent = {} \/ ~wait) /\ heard[c] > 0 THEN Remove1(S, c) ELSE S} :
               Become(t, wire \cup sent)
        /\ UNCHANGED rows

\* The server does what a request says.
Serve(r) ==
    /\ r.at = "server"
    /\ LET new == CHOOSE i \in 1..MaxId : i \notin rows /\ \A j \in 1..i - 1 : j \in rows
           Answer(got) == Become(S, (wire \ {r}) \cup {[r EXCEPT !.at = "answer", !.got = got]})
       IN  \/ r.kind = "create" /\ rows # 1..MaxId /\ rows' = rows \cup {new} /\ Answer(<<new>>)
           \/ /\ r.kind = "read" /\ UNCHANGED rows
              /\ \E got \in [1..Cardinality(rows) -> rows] :
                     (\A i, j \in DOMAIN got : i < j => got[i] < got[j]) /\ Answer(got)
           \/ r.kind = "delete" /\ rows' = rows \ Range(r.got) /\ Answer(<<>>)

\* success: what save, create, fetch and destroy do with the answer.
Received(r) ==
    CASE r.kind = "create" ->
            LET s == SetId(S, r.c, r.got[1])
            IN  IF r.wait THEN Set(s, <<[cid |-> r.c, id |-> r.got[1]]>>, length, FALSE) ELSE s
      [] r.kind = "read" ->
            IF r.wait THEN Reset(S, [k \in DOMAIN r.got |-> Hash(r.got[k])])
            ELSE Set(S, [k \in DOMAIN r.got |-> Hash(r.got[k])], 0, TRUE)
      [] r.kind = "delete" ->
            IF r.wait /\ heard[r.c] > 0 THEN Remove1(S, r.c) ELSE S
Fits(r) ==
    IF r.wait THEN Cardinality(Cid \ {q.c : q \in wire}) >= Len(r.got)
    ELSE Room(Cardinality(Range(r.got) \ DOMAIN byId))
Success(r) ==
    /\ r.at = "answer" /\ Fits(r)
    /\ \E t \in {Received(r)} : Become(t, wire \ {r})
    /\ UNCHANGED rows

\* error, of a request or of its answer: only an event.
Error(r) == Become(S, wire \ {r}) /\ UNCHANGED rows

-----------------------------------------------------------------------------
(* What a page does by itself.                                             *)

\* push and unshift of hashes.
Add(i, at) ==
    /\ Room(1) /\ \E t \in {Set(S, <<Hash(i)>>, at, FALSE)} : Become(t, wire)
    /\ UNCHANGED rows

RemoveModel(c) == \E t \in {Remove1(S, c)} : Become(t, wire) /\ UNCHANGED rows

\* set of a model's id, and unset.
SetModelId(c, i) ==
    /\ id[c] # i /\ \E t \in {SetId(S, c, i)} : Become(t, wire)
    /\ UNCHANGED rows

Next ==
    /\ ~doubled
    /\ \/ \E wait \in BOOLEAN : Create(wait) \/ Fetch(wait)
       \/ \E c \in made, wait \in BOOLEAN : c \in Range(list) /\ Destroy(c, wait)
       \/ \E r \in wire : Serve(r) \/ Success(r) \/ Error(r)
       \/ \E i \in 1..MaxId, at \in {0, length} : Add(i, at)
       \/ \E c \in Range(list) : RemoveModel(c)
       \/ \E c \in made, i \in (1..MaxId) \cup {NULL} : SetModelId(c, i)

Spec == Init /\ [][Next]_collectionVars

-----------------------------------------------------------------------------
\* "Collections maintain indexes of their models, both in order, and for
\* lookup by id": the index holds the models of the list by cid and id, and
\* nothing else ...
IndexSays ==
    /\ \A c \in Range(list) : \A k \in {c, id[c]} \ {NULL} : k \in DOMAIN byId /\ byId[k] = c
    /\ DOMAIN byId = (Range(list) \cup {id[c] : c \in Range(list)}) \ {NULL}
\* ... as long as no two of them have come to have one id.
IndexAgrees == ~doubled => IndexSays /\ length = Len(list)

\* The collection hears a model once while it holds it, and then no more.
ListensOnce == ~doubled => \A c \in Cid : heard[c] = (IF c \in Range(list) THEN 1 ELSE 0)

\* After an answer to fetch the collection is what the server answered, in its
\* order, whatever was added, removed or renumbered while it was under way.
Mirrors ==
    [][\A r \in wire : r.kind = "read" /\ Success(r) =>
        [k \in DOMAIN list' |-> id'[list'[k]]] = r.got]_collectionVars
=============================================================================
