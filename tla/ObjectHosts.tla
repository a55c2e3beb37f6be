----------------------------- MODULE ObjectHosts ----------------------------
(***************************************************************************)
(* The plugin-facing side of the ObjectStore: the write hosts of sources   *)
(* and parsers, which the streaming manager retargets between the primary  *)
(* and the secondary store on pause and resume, the toolbox hosts, which   *)
(* stay with the primary one, and the SDK views on top of them.            *)
(*                                                                         *)
(* A store operation is one step here (module ObjectStore shows what its   *)
(* locks are good for), except that a lazy entry is fetched with the       *)
(* locks held: meanwhile its series cannot be written and its store's      *)
(* topic list cannot change.  A host call on the stream thread is two      *)
(* steps, the load of the atomic target and the store operation.  The      *)
(* calls of the read host that ask the store twice are as many steps.      *)
(*                                                                         *)
(* A lazy payload is a fetch context, which the plugin allocates and which *)
(* is to be destroyed once.                                                *)
(***************************************************************************)
EXTENDS Integers, Sequences, FiniteSets, FiniteSetsExt, SequencesExt

CONSTANTS
    Primary, Secondary,
    Datasets,        \* dataset ids that callers pass
    EngineDatasets,  \* those the engine has
    SourceDataset,   \* dataset_id of the source's host
    Names,           \* topic names
    BoundName,       \* name of the parser's topic, registered in both stores
    Times,           \* timestamps callers pass
    Budgets,         \* budgets given to set_retention_budget
    Readers,         \* threads that read the primary store
    SdkView,         \* writes go through the SDK's views, not the raw vtable
    MaxCalls,        \* bound: calls of all parties
    MaxSeries,       \* bound: series created
    MaxPushes        \* bound: entries and fetch contexts made

ASSUME HostsAssumption ==
    /\ Primary # Secondary
    /\ SourceDataset \in Datasets /\ EngineDatasets \subseteq Datasets
    /\ BoundName \in Names
    /\ Times \subseteq Nat
    /\ Budgets \subseteq [window : Nat, bytes : Nat]
    /\ SdkView \in BOOLEAN
    /\ MaxCalls \in Nat /\ MaxSeries \in Nat \ {0, 1} /\ MaxPushes \in Nat

VARIABLES
    topics,     \* topics[s]: topics_ of store s, a sequence of series
    nextId,     \* nextId[s]: next_id_
    target,     \* target[h]: the store write host h has as its target
    call,       \* the write call the stream thread is in
    handles,    \* topic handles that register_topic returned
    boxes,      \* fetch contexts allocated, by entry number
    freed,      \* freed[b]: how often fetch context b was destroyed
    rd,         \* rd[r]: the read call reader r is in, or its outcome
    views,      \* bytes handles the readers hold, by entry number
    uids,       \* series created so far
    pushes,     \* entry numbers given
    calls

vars == <<topics, nextId, target, call, handles, boxes, freed, rd, views, uids, pushes,
          calls>>

Stores == {Primary, Secondary}
WriteHosts == {"source", "parser"}
Keys == [dataset : Datasets, name : Names]
NoBudget == [window |-> 0, bytes |-> 0]

(* A topic handle: the id register_topic returned, and what it stood for.  *)
Handle == [store : Stores, id : Nat, key : Keys]

(* bound_topic; the manager registers it in both stores, as the first.     *)
BoundKey == [dataset |-> SourceDataset, name |-> BoundName]
BoundTopic == [store |-> Primary, id |-> 1, key |-> BoundKey]

NewSeries(id, uid, key) ==
    [id |-> id, uid |-> uid, key |-> key, entries |-> <<>>, budget |-> NoBudget]

-----------------------------------------------------------------------------
(* Fetch contexts and series. *)

Boxes(entries) == {entries[i].n : i \in {j \in DOMAIN entries : entries[j].lazy}}
BoxesOf(s) == UNION {Boxes(topics[s][i].entries) : i \in DOMAIN topics[s]}

(* ~PluginFetchCtx runs for each of these, when the last closure goes.     *)
Destroy(gone) == [b \in DOMAIN freed |-> IF b \in gone THEN freed[b] + 1 ELSE freed[b]]

Memory(entries) == FoldSeq(LAMBDA e, sum : IF e.lazy THEN sum ELSE sum + 1, 0, entries)

Newest(entries) == entries[Len(entries)].ts

(* applyRetention: how many entries leave at the front.                    *)
applyRetention(entries, budget) ==
    Min({k \in 0 .. Len(entries) :
           k < Len(entries) =>
             /\ budget.window > 0 => entries[k + 1].ts >= Newest(entries) - budget.window
             /\ budget.bytes > 0 => Memory(SubSeq(entries, k + 1, Len(entries))) <= budget.bytes})

Trim(entries, k) == SubSeq(entries, k + 1, Len(entries))

(* findSeries, as the set of the index in topics_.                         *)
findSeries(s, id) == {i \in DOMAIN topics[s] : topics[s][i].id = id}
findTopic(s, key) == {i \in DOMAIN topics[s] : topics[s][i].key = key}

Live(s) == {topics[s][i].uid : i \in DOMAIN topics[s]}

(* Readers inside a fetch hold the primary store's mutex and the series'   *)
(* mutex, both shared.                                                     *)
Fetching == {r \in Readers : rd[r].at = "fetch"}
ListFree(s) == s = Primary => Fetching = {}

Unlocked(s, id) ==
    s = Primary => \A r \in Fetching, i \in findSeries(s, id) : rd[r].uid # topics[s][i].uid

-----------------------------------------------------------------------------
(* Store operations. *)

(* Slip: an id is taken again once its topic was removed.                  *)
freshId(s) == Len(topics[s]) + 1

idOfNewTopic(s) == nextId[s]

(* registerTopic: an error when the store has the key.                     *)
registerTopic(s, key) ==
    IF findTopic(s, key) # {}
    THEN UNCHANGED <<topics, nextId, uids, handles>>
    ELSE /\ uids < MaxSeries
         /\ topics' = [topics EXCEPT ![s] = Append(@, NewSeries(idOfNewTopic(s), uids + 1, key))]
         /\ nextId' = [nextId EXCEPT ![s] = @ + 1]
         /\ handles' = handles \cup {[store |-> s, id |-> idOfNewTopic(s), key |-> key]}
         /\ uids' = uids + 1

Accepts(s, handle, ts) ==
    \E i \in findSeries(s, handle.id) :
        LET entries == topics[s][i].entries
        IN  entries # <<>> => ts >= Newest(entries)

(* pushOwned, pushLazy: the entry, and what the budget then evicts.        *)
push(s, handle, ts, n, lazy) ==
    LET i == CHOOSE j \in findSeries(s, handle.id) : TRUE
        entry == [n |-> n, ts |-> ts, lazy |-> lazy, own |-> handle.store = s, key |-> handle.key]
        entries == Append(topics[s][i].entries, entry)
        k == applyRetention(entries, topics[s][i].budget)
    IN  /\ topics' = [topics EXCEPT ![s][i].entries = Trim(entries, k)]
        /\ freed' = Destroy(Boxes(SubSeq(entries, 1, k)))

-----------------------------------------------------------------------------
(* Write calls on the stream thread. *)

NoCall == [host |-> "none", op |-> "none", store |-> Primary, topic |-> BoundTopic, ts |-> 0,
           n |-> 0, budget |-> NoBudget]

(* The first step of a call: target.load(acquire).                         *)
Load(h, op, topic, ts, n, budget) ==
    /\ call = NoCall
    /\ calls < MaxCalls /\ calls' = calls + 1
    /\ call' = [host |-> h, op |-> op, store |-> target[h], topic |-> topic, ts |-> ts,
                n |-> n, budget |-> budget]
    /\ UNCHANGED <<topics, nextId, target, handles, rd, views, uids>>

(* The plugin allocates a context for a lazy push, under the entry's       *)
(* number.                                                                 *)
Numbered(lazy) ==
    /\ pushes < MaxPushes
    /\ pushes' = pushes + 1
    /\ boxes' = IF lazy THEN boxes \cup {pushes + 1} ELSE boxes
    /\ UNCHANGED freed

sourceObjectRegisterTopic(name) ==
    /\ Load("source", "register",
            [store |-> target["source"], id |-> 0, key |-> [dataset |-> SourceDataset, name |-> name]],
            0, 0, NoBudget)
    /\ UNCHANGED <<boxes, freed, pushes>>

sourceObjectPushOwned(topic, ts) ==
    Load("source", "owned", topic, ts, pushes + 1, NoBudget) /\ Numbered(FALSE)

sourceObjectPushLazy(topic, ts) ==
    Load("source", "lazy", topic, ts, pushes + 1, NoBudget) /\ Numbered(TRUE)

sourceObjectSetRetentionBudget(topic, budget) ==
    /\ Load("source", "budget", topic, 0, 0, budget)
    /\ UNCHANGED <<boxes, freed, pushes>>

parserObjectPushOwned(ts) ==
    Load("parser", "owned", BoundTopic, ts, pushes + 1, NoBudget) /\ Numbered(FALSE)

parserObjectPushLazy(ts) ==
    Load("parser", "lazy", BoundTopic, ts, pushes + 1, NoBudget) /\ Numbered(TRUE)

(* push_lazy with a null fetch_fn, which only raw callers can pass: the    *)
(* context is destroyed at once, and no target is loaded.                  *)
pushLazyWithoutFetch ==
    /\ call = NoCall /\ ~SdkView
    /\ calls < MaxCalls /\ calls' = calls + 1
    /\ pushes < MaxPushes /\ pushes' = pushes + 1
    /\ boxes' = boxes \cup {pushes + 1}
    /\ freed' = [freed EXCEPT ![pushes + 1] = 1]
    /\ UNCHANGED <<topics, nextId, target, call, handles, rd, views, uids>>

Returned == call' = NoCall /\ UNCHANGED <<target, boxes, rd, views, pushes, calls>>

registerReturns ==
    /\ call.op = "register"
    /\ ListFree(call.store)
    /\ registerTopic(call.store, call.topic.key)
    /\ Returned
    /\ UNCHANGED freed

pushOwnedReturns ==
    /\ call.op = "owned"
    /\ Unlocked(call.store, call.topic.id)
    /\ IF Accepts(call.store, call.topic, call.ts)
       THEN push(call.store, call.topic, call.ts, call.n, FALSE)
       ELSE UNCHANGED <<topics, freed>>
    /\ Returned
    /\ UNCHANGED <<nextId, handles, uids>>

(* delete box: what the SDK's pushLazy does when push_lazy returned false. *)
sdkDrop(box) == IF SdkView THEN 1 ELSE 0

(* A refused push drops the holder, whose destructor destroys the context; *)
(* then the SDK's view sees false.                                         *)
pushLazyReturns ==
    /\ call.op = "lazy"
    /\ Unlocked(call.store, call.topic.id)
    /\ IF Accepts(call.store, call.topic, call.ts)
       THEN push(call.store, call.topic, call.ts, call.n, TRUE)
       ELSE /\ freed' = [Destroy({call.n}) EXCEPT ![call.n] = @ + sdkDrop(call.n)]
            /\ UNCHANGED topics
    /\ Returned
    /\ UNCHANGED <<nextId, handles, uids>>

(* set_retention_budget evicts nothing itself; a bad handle is ignored.    *)
budgetReturns ==
    /\ call.op = "budget"
    /\ Unlocked(call.store, call.topic.id)
    /\ topics' = [topics EXCEPT ![call.store] =
           [i \in DOMAIN @ |-> IF i \in findSeries(call.store, call.topic.id)
                               THEN [@[i] EXCEPT !.budget = call.budget] ELSE @[i]]]
    /\ Returned
    /\ UNCHANGED <<nextId, handles, freed, uids>>

-----------------------------------------------------------------------------
(* The manager: retargets the hosts, and keeps the stores. *)

Called == calls < MaxCalls /\ calls' = calls + 1

(* "The bound topic id must exist in target".                              *)
setTarget(h, s) ==
    /\ Called
    /\ s # target[h]
    /\ h = "parser" => \E i \in findSeries(s, BoundTopic.id) : topics[s][i].key = BoundKey
    /\ target' = [target EXCEPT ![h] = s]
    /\ UNCHANGED <<topics, nextId, call, handles, boxes, freed, rd, views, uids, pushes>>

evictBefore(s, id, ts) ==
    /\ Called
    /\ Unlocked(s, id)
    /\ \E i \in findSeries(s, id) :
         LET entries == topics[s][i].entries
             k == Min({j \in 0 .. Len(entries) : j < Len(entries) => entries[j + 1].ts >= ts})
         IN  /\ k > 0
             /\ topics' = [topics EXCEPT ![s][i].entries = Trim(entries, k)]
             /\ freed' = Destroy(Boxes(SubSeq(entries, 1, k)))
    /\ UNCHANGED <<nextId, target, call, handles, boxes, rd, views, uids, pushes>>

removeTopic(s, id) ==
    /\ Called
    /\ ListFree(s)
    /\ \E i \in findSeries(s, id) :
         /\ topics' = [topics EXCEPT ![s] = RemoveAt(@, i)]
         /\ freed' = Destroy(Boxes(topics[s][i].entries))
    /\ UNCHANGED <<nextId, target, call, handles, boxes, rd, views, uids, pushes>>

(* clear restarts the ids, so it ends the sessions that hold handles: none *)
(* of them is in a call, and their handles go.                             *)
clear(s) ==
    /\ Called
    /\ ListFree(s)
    /\ call = NoCall /\ target["parser"] # s
    /\ topics' = [topics EXCEPT ![s] = <<>>]
    /\ nextId' = [nextId EXCEPT ![s] = 1]
    /\ freed' = Destroy(BoxesOf(s))
    /\ handles' = {h \in handles : h.store # s}
    /\ UNCHANGED <<target, call, boxes, rd, views, uids, pushes>>

Filled(s) == {i \in DOMAIN topics[s] : topics[s][i].entries # <<>>}

(* Slip: the entries are copied, so their closures are in both stores.     *)
MovedFromKept(series) == series

MovedFrom(series) == [series EXCEPT !.entries = <<>>]

MovedTo(s, d, j) ==
    LET from == {i \in Filled(s) : topics[s][i].key = topics[d][j].key}
        entries == topics[d][j].entries \o topics[s][CHOOSE i \in from : TRUE].entries
    IN  IF from = {} THEN topics[d][j].entries ELSE entries

(* flushTo: validated as a whole, then moved series by series.             *)
flushTo(s, d) ==
    LET valid == \A i \in Filled(s) : \E j \in findTopic(d, topics[s][i].key) :
                     topics[d][j].entries # <<>> =>
                         topics[s][i].entries[1].ts >= Newest(topics[d][j].entries)
        moved(j) == MovedTo(s, d, j)
        evicts(j) == IF moved(j) = topics[d][j].entries THEN 0
                     ELSE applyRetention(moved(j), topics[d][j].budget)
    IN  /\ Called
        /\ s # d /\ ListFree(s) /\ ListFree(d)
        /\ Filled(s) # {} /\ valid
        /\ topics' = [topics EXCEPT
               ![s] = [i \in DOMAIN @ |-> MovedFrom(@[i])],
               ![d] = [j \in DOMAIN @ |-> [@[j] EXCEPT !.entries = Trim(moved(j), evicts(j))]]]
        /\ freed' = Destroy(UNION {Boxes(SubSeq(moved(j), 1, evicts(j))) : j \in DOMAIN topics[d]})
        /\ UNCHANGED <<nextId, target, call, handles, boxes, rd, views, uids, pushes>>

-----------------------------------------------------------------------------
(* The toolbox writes the primary store. *)

toolboxRegisterObjectTopic(key) ==
    /\ Called
    /\ key.dataset \in EngineDatasets
    /\ ListFree(Primary)
    /\ findTopic(Primary, key) = {}
    /\ registerTopic(Primary, key)
    /\ UNCHANGED <<target, call, boxes, freed, rd, views, pushes>>

toolboxPushOwnedObject(topic, ts) ==
    /\ Called
    /\ Unlocked(Primary, topic.id)
    /\ Accepts(Primary, topic, ts)
    /\ pushes < MaxPushes /\ pushes' = pushes + 1
    /\ push(Primary, topic, ts, pushes + 1, FALSE)
    /\ UNCHANGED <<nextId, target, call, handles, boxes, rd, views, uids>>

-----------------------------------------------------------------------------
(* The toolbox's read host, and the SDK's view of it. *)

Idle == [at |-> "idle", name |-> BoundName, ids |-> <<>>, uid |-> 0, n |-> 0, had |-> {}]

listTopics == [i \in DOMAIN topics[Primary] |-> topics[Primary][i].id]

Enter(r, call1) == Called /\ rd[r].at \in {"idle", "found", "listed"} /\ rd' = [rd EXCEPT ![r] = call1]
Continue(r, call1) == rd' = [rd EXCEPT ![r] = call1] /\ UNCHANGED calls
ReadsOnly == UNCHANGED <<topics, nextId, target, call, handles, boxes, freed, uids, pushes>>

(* lookup_topic: the ids listTopics returns, to be tried one by one.  had  *)
(* is what had the name then, for the property.                            *)
lookupTopic(r, name) ==
    /\ Enter(r, [Idle EXCEPT !.at = "lookup", !.name = name, !.ids = listTopics,
                 !.had = {topics[Primary][i].uid :
                            i \in {j \in DOMAIN topics[Primary] : topics[Primary][j].key.name = name}}])
    /\ ReadsOnly /\ UNCHANGED views

(* Slip: the loop ends before the last id.                                 *)
lookupNextButLast(r) ==
    /\ rd[r].at = "lookup"
    /\ IF Len(rd[r].ids) < 2
       THEN Continue(r, [rd[r] EXCEPT !.at = "found", !.ids = <<>>])
       ELSE LET hit == findSeries(Primary, Head(rd[r].ids))
            IN  Continue(r, [rd[r] EXCEPT !.at = "compare",
                               !.uid = IF hit = {} THEN 0 ELSE topics[Primary][CHOOSE i \in hit : TRUE].uid])
    /\ ReadsOnly /\ UNCHANGED views

(* descriptor(id): a reference into the series, or to kEmpty (0).  No ids  *)
(* left: a miss.                                                           *)
lookupNext(r) ==
    /\ rd[r].at = "lookup"
    /\ IF rd[r].ids = <<>>
       THEN Continue(r, [rd[r] EXCEPT !.at = "found"])
       ELSE LET hit == findSeries(Primary, Head(rd[r].ids))
            IN  Continue(r, [rd[r] EXCEPT !.at = "compare",
                               !.uid = IF hit = {} THEN 0 ELSE topics[Primary][CHOOSE i \in hit : TRUE].uid])
    /\ ReadsOnly /\ UNCHANGED views

(* The name is compared through that reference, after the lock is gone: if *)
(* the series went too, with either outcome.                               *)
lookupCompare(r) ==
    LET same == {i \in DOMAIN topics[Primary] : topics[Primary][i].uid = rd[r].uid}
    IN  /\ rd[r].at = "compare"
        /\ \E equal \in BOOLEAN :
             /\ rd[r].uid = 0 => ~equal
             /\ \A i \in same : equal = (topics[Primary][i].key.name = rd[r].name)
             /\ Continue(r, IF equal
                            THEN [rd[r] EXCEPT !.at = "found", !.ids = <<Head(@)>>]
                            ELSE [rd[r] EXCEPT !.at = "lookup", !.ids = Tail(@)])
        /\ ReadsOnly /\ UNCHANGED views

(* The SDK's listTopics: list_topics for the count; then, unless it is 0,  *)
(* once more to fill a buffer of that many handles, which is then resized  *)
(* to the second count.  A handle nobody wrote is 0.                       *)
listTopicsCount(r) ==
    /\ Enter(r, [Idle EXCEPT !.at = IF listTopics = <<>> THEN "listed" ELSE "list",
                             !.n = Len(listTopics), !.had = Live(Primary)])
    /\ ReadsOnly /\ UNCHANGED views

toolboxObjectListTopics(capacity) ==
    [i \in DOMAIN listTopics |-> IF i > capacity THEN 0 ELSE listTopics[i]]

listTopicsFill(r) ==
    /\ rd[r].at = "list"
    /\ Continue(r, [rd[r] EXCEPT !.at = "listed", !.ids = toolboxObjectListTopics(rd[r].n)])
    /\ ReadsOnly /\ UNCHANGED views

(* upper_bound over the timestamps, minus one.                             *)
LatestAt(entries, ts) == Cardinality({j \in DOMAIN entries : entries[j].ts <= ts})

(* read_latest_at: an owned entry is a handle at once, a lazy one is       *)
(* fetched with the locks held.                                            *)
toolboxObjectReadLatestAt(r, id, ts) ==
    /\ \E i \in findSeries(Primary, id) :
         LET entries == topics[Primary][i].entries
             k == LatestAt(entries, ts)
         IN  /\ k > 0
             /\ IF entries[k].lazy
                THEN /\ Enter(r, [Idle EXCEPT !.at = "fetch", !.uid = topics[Primary][i].uid,
                                              !.n = entries[k].n])
                     /\ UNCHANGED views
                ELSE Enter(r, Idle) /\ views' = views \cup {entries[k].n}
    /\ ReadsOnly

(* The trampoline returned, and the host copied last_bytes.                *)
fetchReturns(r) ==
    /\ rd[r].at = "fetch"
    /\ Continue(r, Idle)
    /\ views' = views \cup {rd[r].n}
    /\ ReadsOnly

(* ~ObjectBytes: release_bytes.                                            *)
toolboxObjectReleaseBytes(n) ==
    /\ n \in views
    /\ views' = views \ {n}
    /\ ReadsOnly /\ UNCHANGED <<rd, calls>>

-----------------------------------------------------------------------------
Init ==
    /\ topics = [s \in Stores |-> <<NewSeries(1, IF s = Primary THEN 1 ELSE 2, BoundKey)>>]
    /\ nextId = [s \in Stores |-> 2]
    /\ target = [h \in WriteHosts |-> Primary]
    /\ call = NoCall
    /\ handles = {}
    /\ boxes = {}
    /\ freed = [b \in 1 .. MaxPushes |-> 0]
    /\ rd = [r \in Readers |-> Idle]
    /\ views = {}
    /\ uids = 2
    /\ pushes = 0
    /\ calls = 0

Next ==
    \/ \E name \in Names : sourceObjectRegisterTopic(name)
    \/ \E topic \in handles, ts \in Times : sourceObjectPushOwned(topic, ts)
    \/ \E topic \in handles, ts \in Times : sourceObjectPushLazy(topic, ts)
    \/ \E topic \in handles, budget \in Budgets : sourceObjectSetRetentionBudget(topic, budget)
    \/ \E ts \in Times : parserObjectPushOwned(ts)
    \/ \E ts \in Times : parserObjectPushLazy(ts)
    \/ pushLazyWithoutFetch
    \/ registerReturns
    \/ pushOwnedReturns
    \/ pushLazyReturns
    \/ budgetReturns
    \/ \E h \in WriteHosts, s \in Stores : setTarget(h, s)
    \/ \E s \in Stores, id \in 1 .. MaxSeries, ts \in Times : evictBefore(s, id, ts)
    \/ \E s \in Stores, id \in 1 .. MaxSeries : removeTopic(s, id)
    \/ \E s \in Stores : clear(s)
    \/ \E s, d \in Stores : flushTo(s, d)
    \/ \E key \in Keys : toolboxRegisterObjectTopic(key)
    \/ \E topic \in handles, ts \in Times : toolboxPushOwnedObject(topic, ts)
    \/ \E r \in Readers, name \in Names : lookupTopic(r, name)
    \/ \E r \in Readers : lookupNext(r)
    \/ \E r \in Readers : lookupCompare(r)
    \/ \E r \in Readers : listTopicsCount(r)
    \/ \E r \in Readers : listTopicsFill(r)
    \/ \E r \in Readers, id \in 1 .. MaxSeries, ts \in Times : toolboxObjectReadLatestAt(r, id, ts)
    \/ \E r \in Readers : fetchReturns(r)
    \/ \E n \in views : toolboxObjectReleaseBytes(n)

Spec == Init /\ [][Next]_vars

-----------------------------------------------------------------------------
(* Properties. *)

AnyBudget == Budgets \cup {NoBudget}
Entry == [n : 1 .. MaxPushes, ts : Times, lazy : BOOLEAN, own : BOOLEAN, key : Keys]
Series == [id : Nat, uid : 1 .. MaxSeries, key : Keys, entries : Seq(Entry), budget : AnyBudget]
WriteCall == [host : WriteHosts \cup {"none"}, op : {"none", "register", "owned", "lazy", "budget"},
              store : Stores, topic : Handle, ts : Times \cup {0}, n : 0 .. MaxPushes,
              budget : AnyBudget]
ReadCall == [at : {"idle", "lookup", "compare", "found", "list", "listed", "fetch"}, name : Names,
             ids : Seq(Nat), uid : 0 .. MaxSeries, n : Nat, had : SUBSET (1 .. MaxSeries)]

(* Type invariant: every variable holds what its declaration says, and no  *)
(* id of a topic is the invalid id 0.                                      *)
TypeOK ==
    /\ topics \in [Stores -> Seq(Series)]
    /\ \A s \in Stores : \A i \in DOMAIN topics[s] :
         topics[s][i].id \in 1 .. nextId[s] - 1 /\ topics[s][i].uid <= uids
    /\ nextId \in [Stores -> Nat \ {0}]
    /\ target \in [WriteHosts -> Stores]
    /\ call \in WriteCall /\ call.n <= pushes
    /\ handles \subseteq Handle
    /\ boxes \subseteq 1 .. pushes
    /\ freed \in [1 .. MaxPushes -> Nat]
    /\ rd \in [Readers -> ReadCall]
    /\ views \subseteq 1 .. MaxPushes
    /\ uids \in 0 .. MaxSeries /\ pushes \in 0 .. MaxPushes /\ calls \in 0 .. MaxCalls

(* Where a fetch context has an owner: the push it was passed to, or an    *)
(* entry of a store.                                                       *)
Owners(b) ==
    (IF call.op = "lazy" /\ call.n = b THEN {call} ELSE {})
    \cup UNION {{<<s, topics[s][i].uid>> : i \in {j \in DOMAIN topics[s] : b \in Boxes(topics[s][j].entries)}} :
                s \in Stores}

(* "the store invokes fetch_ctx_destroy(fetch_ctx) exactly once": a        *)
(* context is destroyed once, when its owner lets go of it and no earlier, *)
(* be that a refused push, an eviction, the removal of a topic or of all   *)
(* of them, or a flush that moved it between the stores first; and never   *)
(* under a reader that fetches from it, whose locks all of these wait for. *)
DestroyedExactlyOnce ==
    /\ \A b \in boxes :
          /\ freed[b] = IF Owners(b) = {} THEN 1 ELSE 0
          /\ Cardinality(Owners(b)) <= 1
    /\ \A r \in Fetching : freed[rd[r].n] = 0

(* A push through a handle of the store it goes to lands under the topic   *)
(* that handle was returned for, or nowhere: a handle kept past            *)
(* removeTopic never names a topic registered later, and flushTo moves     *)
(* entries to the topic of the same descriptor.                            *)
HandlesNameTheirTopic ==
    /\ TypeOK
    /\ \A s \in Stores : \A i \in DOMAIN topics[s] : \A j \in DOMAIN topics[s][i].entries :
          LET e == topics[s][i].entries[j]
          IN  e.own => e.key = topics[s][i].key

(* Reads of several steps miss nothing that was there all the time,        *)
(* however registrations and removals ran in between: a lookup that finds  *)
(* nothing is right about it, no topic had the name for the whole call;    *)
(* and what listTopics returns ("Enumerate all object topics"), asked for  *)
(* the count and then the list, has every topic that existed throughout.   *)
ReadsMissNothing ==
    \A r \in Readers :
        /\ rd[r].at = "found" /\ rd[r].ids = <<>> => rd[r].had \cap Live(Primary) = {}
        /\ rd[r].at = "listed" =>
              \A i \in DOMAIN topics[Primary] :
                 topics[Primary][i].uid \in rd[r].had => \E k \in DOMAIN rd[r].ids : rd[r].ids[k] = topics[Primary][i].id
=============================================================================
