----------------------------- MODULE ObjectStore ----------------------------
(***************************************************************************)
(* pj_datastore's ObjectStore: per-topic series of timestamped payloads,   *)
(* used by several threads.  One shared mutex guards a store's topic list, *)
(* one more guards each series.  A call takes its locks in separate steps, *)
(* then does its work and releases them in one; an EntryTimestampsView     *)
(* leaves its owner with the series mutex, shared.                         *)
(*                                                                         *)
(* An entry is its timestamp, the bytes it owns (0 for a lazy entry, whose *)
(* closure is external) and the number it was pushed under.  Series        *)
(* objects are numbered; a topic id is what registerTopic returned, and    *)
(* may outlive its series.  A mutex is named by what it guards.            *)
(***************************************************************************)
EXTENDS Integers, Sequences, FiniteSets, FiniteSetsExt

CONSTANTS
    Threads,
    Stores,
    Address,     \* addresses of the stores, the lock order of flushTo
    Keys,        \* (dataset_id, topic_name) of topics
    Setup,       \* Setup[s]: series of the topics store s has at the start
    SetupKeys,   \* SetupKeys[n]: the key of series n
    Ids,         \* topic ids callers pass
    Times,       \* timestamps callers pass
    Sizes,       \* payload sizes given to pushOwned
    Budgets,     \* budgets given to setRetentionBudget, 0 = no limit
    Ops,         \* the operations the threads call
    MaxSeries,   \* bound: series objects created
    MaxCalls,    \* bound: calls made
    MaxPushed    \* bound: entries pushed

ASSUME AddressAssumption ==
    /\ Address \in [Stores -> Nat]
    /\ \A s, d \in Stores : Address[s] = Address[d] => s = d
ASSUME BudgetAssumption == Budgets \subseteq [window : Nat, bytes : Nat]
ASSUME ObjectBoundAssumption ==
    MaxSeries \in Nat /\ MaxCalls \in Nat /\ MaxPushed \in Nat /\ IsFiniteSet(Threads)
ASSUME SetupAssumption ==
    /\ SetupKeys \in Seq(Keys) /\ Len(SetupKeys) <= MaxSeries
    /\ Setup \in [Stores -> Seq(DOMAIN SetupKeys)]
    /\ \A s, d \in Stores : \A i \in DOMAIN Setup[s], j \in DOMAIN Setup[d] :
          \/ Setup[s][i] = Setup[d][j]
          \/ s = d /\ SetupKeys[Setup[s][i]] = SetupKeys[Setup[d][j]]
          => s = d /\ i = j
ASSUME ValueAssumption == Times \subseteq Int /\ Sizes \subseteq Nat /\ Stores \cap Nat = {}

VARIABLES
    topics,      \* topics[s]: topics_, a sequence of [id, series]
    nextId,      \* nextId[s]: next_id_
    obj,         \* obj[n]: the series object n
    created,     \* series objects created so far
    shared,      \* shared[m]: threads that hold mutex m shared
    held,        \* held[m]: the thread that holds mutex m exclusively, as a set
    pc,          \* what a thread does next
    call,        \* the call a thread is in
    found,       \* the series pointers it has still to work on
    view,        \* series of the EntryTimestampsView it owns, or 0
    calls,       \* calls made
    pushed       \* entries pushed

data == <<topics, nextId, obj, created, pushed>>
vars == <<topics, nextId, obj, created, shared, held, pc, call, found, view, calls, pushed>>

Series == 1 .. MaxSeries
Mutexes == Stores \cup Series

-----------------------------------------------------------------------------
(* Series contents. *)

NoBudget == [window |-> 0, bytes |-> 0]

NewSeries(key) == [key |-> key, entries |-> <<>>, stamps |-> <<>>, mem |-> 0,
                   budget |-> NoBudget]

Bytes(entries) ==
    LET sum[i \in 0 .. Len(entries)] == IF i = 0 THEN 0 ELSE sum[i - 1] + entries[i].size
    IN  sum[Len(entries)]

(* evictFront, k times.                                                    *)
evictFront(o, k) ==
    [o EXCEPT !.entries = SubSeq(@, k + 1, Len(@)),
              !.stamps = SubSeq(@, k + 1, Len(@)),
              !.mem = @ - Bytes(SubSeq(o.entries, 1, k))]

(* The loops "while the front entry is older than threshold" and "while    *)
(* memory_bytes is over the cap".                                          *)
evictOlder(o, threshold) ==
    evictFront(o, Min({k \in 0 .. Len(o.entries) :
                         k < Len(o.entries) => o.stamps[k + 1] >= threshold}))

(* Slip: evict until memory is below the cap, not within it.               *)
evictToBelowCap(o) ==
    evictFront(o, Min({k \in 0 .. Len(o.entries) :
                         k < Len(o.entries) => evictFront(o, k).mem < o.budget.bytes}))

evictOverCap(o) ==
    evictFront(o, Min({k \in 0 .. Len(o.entries) :
                         k < Len(o.entries) => evictFront(o, k).mem <= o.budget.bytes}))

(* applyRetention: the time window first, then the memory cap.             *)
applyRetention(o, newest) ==
    LET inWindow == IF o.budget.window > 0 THEN evictOlder(o, newest - o.budget.window) ELSE o
    IN  IF o.budget.bytes > 0 THEN evictOverCap(inWindow) ELSE inWindow

InOrder(o, ts) == o.stamps = <<>> \/ ts >= o.stamps[Len(o.stamps)]

(* pushOwned and pushLazy once the timestamp was accepted.                 *)
push(o, ts, size) ==
    applyRetention([o EXCEPT !.entries = Append(@, [ts |-> ts, size |-> size, n |-> pushed + 1]),
                             !.stamps = Append(@, ts),
                             !.mem = @ + size], ts)

(* Slip: lower_bound for upper_bound.                                      *)
indexBefore(o, ts) ==
    Min({k \in 0 .. Len(o.stamps) : k < Len(o.stamps) => o.stamps[k + 1] >= ts})

(* upper_bound over entry_timestamps, minus one; 0 when there is none.     *)
indexAt(o, ts) ==
    Min({k \in 0 .. Len(o.stamps) : k < Len(o.stamps) => o.stamps[k + 1] > ts})

latestAt(o, ts) == IF indexAt(o, ts) = 0 THEN {} ELSE {o.entries[indexAt(o, ts)]}

-----------------------------------------------------------------------------
(* The topic list. *)

SeriesIn(s) == {topics[s][i].series : i \in DOMAIN topics[s]}

IdAt(s, id) == {i \in DOMAIN topics[s] : topics[s][i].id = id}

(* findSeries: the first with the id, as a sequence of at most one pointer.*)
findSeries(s, id) ==
    IF IdAt(s, id) = {} THEN <<>> ELSE <<topics[s][Min(IdAt(s, id))].series>>

Registered(s, key) == \E n \in SeriesIn(s) : obj[n].key = key

(* What flushTo moves, and where to.                                       *)
Filled(s) == {n \in SeriesIn(s) : obj[n].stamps # <<>>}

Match(d, n) == {m \in SeriesIn(d) : obj[m].key = obj[n].key}

(* Slip: a source series without a destination is not an error.            *)
FlushValidIfMatched(s, d) ==
    \A n \in Filled(s) : \A m \in Match(d, n) : InOrder(obj[m], obj[n].stamps[1])

(* First phase of flushTo: every series with entries has a destination     *)
(* series whose last timestamp is not after its first.                     *)
FlushValid(s, d) ==
    \A n \in Filled(s) : /\ Match(d, n) # {}
                         /\ \A m \in Match(d, n) : InOrder(obj[m], obj[n].stamps[1])

(* Slip: the moved bytes are not added to the destination's count.         *)
MergeEntries(m, n) ==
    applyRetention([obj[m] EXCEPT !.entries = @ \o obj[n].entries,
                                  !.stamps = @ \o obj[n].stamps],
                   obj[n].stamps[Len(obj[n].stamps)])

(* Second phase: the series m after the entries of n were moved into it.   *)
Merge(m, n) ==
    applyRetention([obj[m] EXCEPT !.entries = @ \o obj[n].entries,
                                  !.stamps = @ \o obj[n].stamps,
                                  !.mem = @ + obj[n].mem],
                   obj[n].stamps[Len(obj[n].stamps)])

Emptied(n) == [obj[n] EXCEPT !.entries = <<>>, !.stamps = <<>>, !.mem = 0]

flushTo(s, d) ==
    [x \in Series |->
        IF x \in Filled(s) THEN Emptied(x)
        ELSE IF \E n \in Filled(s) : x \in Match(d, n)
        THEN Merge(x, CHOOSE n \in Filled(s) : x \in Match(d, n))
        ELSE obj[x]]

-----------------------------------------------------------------------------
(* Calls. *)

Writers == {"pushOwned", "pushLazy", "evictBefore", "evictAllBefore", "setRetentionBudget"}
Readers == {"latestAt", "entryTimestamps"}
Owners == {"registerTopic", "removeTopic", "clear", "flushTo"}

SomeOf(S) == CHOOSE x \in S : TRUE

Call == [op : Ops, store : Stores, to : Stores, id : Ids, ts : Times,
         size : Sizes, key : Keys, budget : Budgets \cup {NoBudget}]

(* The arguments an operation has; the others are fixed.                   *)
Uses(c, fields) ==
    /\ "to" \notin fields => c.to = c.store
    /\ "id" \notin fields => c.id = SomeOf(Ids)
    /\ "ts" \notin fields => c.ts = SomeOf(Times)
    /\ "size" \notin fields => c.size = SomeOf(Sizes)
    /\ "key" \notin fields => c.key = SomeOf(Keys)
    /\ ("budget" \in fields) = (c.budget \in Budgets)

Fields(op) == CASE op = "pushOwned" -> {"id", "ts", "size"}
                [] op \in {"pushLazy", "evictBefore", "latestAt"} -> {"id", "ts"}
                [] op = "evictAllBefore" -> {"ts"}
                [] op = "setRetentionBudget" -> {"id", "budget"}
                [] op \in {"entryTimestamps", "removeTopic"} -> {"id"}
                [] op = "registerTopic" -> {"key"}
                [] op = "clear" -> {}
                [] op = "flushTo" -> {"to"}

Calls == {c \in Call : Uses(c, Fields(c.op))}

ASSUME CallAssumption == Ops \subseteq Writers \cup Readers \cup Owners /\ Calls # {}

(* A thread between calls.                                                 *)
NoCall == SomeOf(Calls)

Release(th) ==
    /\ shared' = [m \in Mutexes |-> shared[m] \ {th}]
    /\ held' = [m \in Mutexes |-> held[m] \ {th}]

Return(th) ==
    /\ pc' = [pc EXCEPT ![th] = "idle"]
    /\ found' = [found EXCEPT ![th] = <<>>]
    /\ call' = [call EXCEPT ![th] = NoCall]

LockShared(th, m) ==
    /\ held[m] = {}
    /\ shared' = [shared EXCEPT ![m] = @ \cup {th}]
    /\ UNCHANGED held

Lock(th, m) ==
    /\ held[m] = {} /\ shared[m] = {}
    /\ held' = [held EXCEPT ![m] = {th}]
    /\ UNCHANGED shared

-----------------------------------------------------------------------------
(* The topics of Setup were registered before the threads start.           *)
Init ==
    /\ topics = [s \in Stores |->
                   [j \in 1 .. Len(Setup[s]) |-> [id |-> j, series |-> Setup[s][j]]]]
    /\ nextId = [s \in Stores |-> Len(Setup[s]) + 1]
    /\ obj = [n \in Series |->
                NewSeries(IF n <= Len(SetupKeys) THEN SetupKeys[n] ELSE SomeOf(Keys))]
    /\ created = Len(SetupKeys)
    /\ shared = [m \in Mutexes |-> {}]
    /\ held = [m \in Mutexes |-> {}]
    /\ pc = [th \in Threads |-> "idle"]
    /\ call = [th \in Threads |-> NoCall]
    /\ found = [th \in Threads |-> <<>>]
    /\ view = [th \in Threads |-> 0]
    /\ calls = 0
    /\ pushed = 0

Registering(th) == pc[th] # "idle" /\ call[th].op = "registerTopic"

(* A thread starts a call.  The owner of a view drops it first: it holds a *)
(* mutex that is not recursive and that other calls wait for.  flushTo     *)
(* into the same store is an error before anything is locked.              *)
Start(th, c) ==
    /\ pc[th] = "idle" /\ view[th] = 0
    /\ calls < MaxCalls
    /\ c.op = "flushTo" => c.store # c.to
    /\ c.op \in {"pushOwned", "pushLazy"} => pushed < MaxPushed
    /\ c.op = "registerTopic" =>
          created + Cardinality({u \in Threads : Registering(u)}) < MaxSeries
    /\ calls' = calls + 1
    /\ call' = [call EXCEPT ![th] = c]
    /\ pc' = [pc EXCEPT ![th] = "store"]
    /\ UNCHANGED <<data, shared, held, found, view>>

(* The store mutex, shared, and the lookup under it.  An unknown id is an  *)
(* error or an empty answer.                                               *)
ShareStore(th) ==
    LET c == call[th]
        target == IF c.op = "evictAllBefore"
                  THEN [i \in DOMAIN topics[c.store] |-> topics[c.store][i].series]
                  ELSE findSeries(c.store, c.id)
    IN  /\ pc[th] = "store"
        /\ c.op \in Writers \cup Readers
        /\ IF target = <<>>
           THEN held[c.store] = {} /\ Return(th) /\ UNCHANGED <<shared, held>>
           ELSE /\ LockShared(th, c.store)
                /\ found' = [found EXCEPT ![th] = target]
                /\ pc' = [pc EXCEPT ![th] = "series"]
                /\ UNCHANGED call
        /\ UNCHANGED <<data, view, calls>>

(* Slip: the source is locked first whatever its address.                  *)
SourceFirst(c) == c.store

(* The store mutex, exclusively.  flushTo locks two stores, the one at the *)
(* lower address first.                                                    *)
FirstStore(c) == IF Address[c.store] < Address[c.to] THEN c.store ELSE c.to
SecondStore(c) == IF FirstStore(c) = c.store THEN c.to ELSE c.store

(* Slip: flushTo works under the first lock alone.                         *)
OwnOneStore(th) ==
    /\ call[th].op \in Owners
    /\ pc[th] = "store" /\ Lock(th, FirstStore(call[th]))
    /\ pc' = [pc EXCEPT ![th] = "body"]
    /\ UNCHANGED <<data, call, found, view, calls>>

OwnStore(th) ==
    LET c == call[th]
    IN  /\ c.op \in Owners
        /\ \/ /\ pc[th] = "store" /\ Lock(th, FirstStore(c))
              /\ pc' = [pc EXCEPT ![th] = IF c.op = "flushTo" THEN "second" ELSE "body"]
           \/ /\ pc[th] = "second" /\ Lock(th, SecondStore(c))
              /\ pc' = [pc EXCEPT ![th] = "body"]
        /\ UNCHANGED <<data, call, found, view, calls>>

(* Slip: a shared lock for writers too.                                    *)
ShareSeries(th) ==
    /\ pc[th] = "series"
    /\ LockShared(th, found[th][1])
    /\ pc' = [pc EXCEPT ![th] = "body"]
    /\ UNCHANGED <<data, call, found, view, calls>>

(* The mutex of the next series found, exclusively to write and shared to  *)
(* read.                                                                   *)
LockSeries(th) ==
    /\ pc[th] = "series"
    /\ IF call[th].op \in Readers THEN LockShared(th, found[th][1]) ELSE Lock(th, found[th][1])
    /\ pc' = [pc EXCEPT ![th] = "body"]
    /\ UNCHANGED <<data, call, found, view, calls>>

-----------------------------------------------------------------------------
(* The work of a call, with all its locks held. *)

(* pushOwned, pushLazy: a timestamp before the last one is an error.       *)
PushBody(th) ==
    LET c == call[th]
        n == found[th][1]
    IN  /\ c.op \in {"pushOwned", "pushLazy"}
        /\ IF InOrder(obj[n], c.ts)
           THEN /\ obj' = [obj EXCEPT ![n] =
                      push(@, c.ts, IF c.op = "pushOwned" THEN c.size ELSE 0)]
                /\ pushed' = pushed + 1
           ELSE UNCHANGED <<obj, pushed>>
        /\ Return(th) /\ Release(th)
        /\ UNCHANGED <<topics, nextId, created, view>>

(* evictBefore and setRetentionBudget; a new budget evicts nothing yet.    *)
TrimBody(th) ==
    LET c == call[th]
        n == found[th][1]
    IN  /\ c.op \in {"evictBefore", "setRetentionBudget"}
        /\ obj' = [obj EXCEPT ![n] = IF c.op = "evictBefore" THEN evictOlder(@, c.ts)
                                     ELSE [@ EXCEPT !.budget = c.budget]]
        /\ Return(th) /\ Release(th)
        /\ UNCHANGED <<topics, nextId, created, pushed, view>>

(* evictAllBefore: one series after the other, the store mutex kept.       *)
EvictAllBody(th) ==
    LET n == found[th][1]
    IN  /\ call[th].op = "evictAllBefore"
        /\ obj' = [obj EXCEPT ![n] = evictOlder(@, call[th].ts)]
        /\ IF Len(found[th]) = 1
           THEN Return(th) /\ Release(th)
           ELSE /\ found' = [found EXCEPT ![th] = Tail(@)]
                /\ pc' = [pc EXCEPT ![th] = "series"]
                /\ held' = [held EXCEPT ![n] = {}]
                /\ UNCHANGED <<shared, call>>
        /\ UNCHANGED <<topics, nextId, created, pushed, view>>

(* latestAt (and the other plain reads, which lock the same way).          *)
ReadBody(th) ==
    /\ call[th].op = "latestAt"
    /\ Return(th) /\ Release(th)
    /\ UNCHANGED <<data, view>>

(* entryTimestamps: the store mutex is released, the series mutex goes to  *)
(* the caller with the view.                                               *)
ViewBody(th) ==
    /\ call[th].op = "entryTimestamps"
    /\ shared' = [shared EXCEPT ![call[th].store] = @ \ {th}]
    /\ view' = [view EXCEPT ![th] = found[th][1]]
    /\ Return(th)
    /\ UNCHANGED <<data, held>>

(* registerTopic: a key the store already has is an error.                 *)
RegisterBody(th) ==
    LET c == call[th]
    IN  /\ c.op = "registerTopic"
        /\ IF Registered(c.store, c.key)
           THEN UNCHANGED <<topics, nextId, obj, created>>
           ELSE /\ topics' = [topics EXCEPT ![c.store] =
                      Append(@, [id |-> nextId[c.store], series |-> created + 1])]
                /\ nextId' = [nextId EXCEPT ![c.store] = @ + 1]
                /\ obj' = [obj EXCEPT ![created + 1] = NewSeries(c.key)]
                /\ created' = created + 1
        /\ Return(th) /\ Release(th)
        /\ UNCHANGED <<pushed, view>>

(* topics_.erase of the first entry with the id, if there is one.          *)
Erased(s, id) ==
    LET i == Min(IdAt(s, id))
    IN  IF IdAt(s, id) = {} THEN topics[s]
        ELSE SubSeq(topics[s], 1, i - 1) \o SubSeq(topics[s], i + 1, Len(topics[s]))

(* removeTopic and clear destroy series; clear restarts the ids at 1.      *)
RemoveBody(th) ==
    LET c == call[th]
        gone == IF c.op = "clear" THEN SeriesIn(c.store) ELSE Range(findSeries(c.store, c.id))
    IN  /\ c.op \in {"removeTopic", "clear"}
        /\ topics' = [topics EXCEPT ![c.store] =
               IF c.op = "clear" THEN <<>> ELSE Erased(c.store, c.id)]
        /\ nextId' = [nextId EXCEPT ![c.store] = IF c.op = "clear" THEN 1 ELSE @]
        /\ obj' = [n \in Series |-> IF n \in gone THEN NewSeries(SomeOf(Keys)) ELSE obj[n]]
        /\ Return(th) /\ Release(th)
        /\ UNCHANGED <<created, pushed, view>>

(* flushTo: all or nothing.                                                *)
FlushBody(th) ==
    LET c == call[th]
    IN  /\ c.op = "flushTo"
        /\ obj' = IF FlushValid(c.store, c.to) THEN flushTo(c.store, c.to) ELSE obj
        /\ Return(th) /\ Release(th)
        /\ UNCHANGED <<topics, nextId, created, pushed, view>>

Body(th) ==
    /\ pc[th] = "body"
    /\ \/ PushBody(th) \/ TrimBody(th) \/ EvictAllBody(th) \/ ReadBody(th)
       \/ ViewBody(th) \/ RegisterBody(th) \/ RemoveBody(th) \/ FlushBody(th)
    /\ UNCHANGED calls

(* Slip: the view's lock outlives the view.                                *)
DropViewOnly(th) ==
    /\ view[th] # 0 /\ pc[th] = "idle"
    /\ view' = [view EXCEPT ![th] = 0]
    /\ UNCHANGED <<data, shared, held, pc, call, found, calls>>

(* ~EntryTimestampsView.                                                   *)
DropView(th) ==
    /\ view[th] # 0 /\ pc[th] = "idle"
    /\ shared' = [shared EXCEPT ![view[th]] = @ \ {th}]
    /\ view' = [view EXCEPT ![th] = 0]
    /\ UNCHANGED <<data, held, pc, call, found, calls>>

Progress(th) ==
    ShareStore(th) \/ OwnStore(th) \/ LockSeries(th) \/ Body(th) \/ DropView(th)

Next == \E th \in Threads : Progress(th) \/ \E c \in Calls : Start(th, c)

Spec == Init /\ [][Next]_vars

FairSpec == Spec /\ \A th \in Threads : WF_vars(Progress(th))

-----------------------------------------------------------------------------
(* Properties. *)

Live == UNION {SeriesIn(s) : s \in Stores}
Entry == [ts : Times, size : Nat, n : Nat]
Numbers(entries) == {entries[i].n : i \in DOMAIN entries}

(* Type invariant: every variable holds what its declaration says.         *)
TypeOK ==
    /\ topics \in [Stores -> Seq([id : Nat, series : Series])]
    /\ nextId \in [Stores -> Nat \ {0}]
    /\ obj \in [Series -> [key : Keys, entries : Seq(Entry), stamps : Seq(Times),
                           mem : Nat, budget : [window : Nat, bytes : Nat]]]
    /\ created \in 0 .. MaxSeries
    /\ shared \in [Mutexes -> SUBSET Threads]
    /\ held \in [Mutexes -> SUBSET Threads]
    /\ pc \in [Threads -> {"idle", "store", "second", "series", "body"}]
    /\ call \in [Threads -> Calls]
    /\ found \in [Threads -> Seq(Series)]
    /\ view \in [Threads -> 0 .. MaxSeries]
    /\ calls \in 0 .. MaxCalls
    /\ pushed \in Nat

(* The state is well typed; of every series, entry_timestamps runs         *)
(* parallel to entries, in time order, and memory_bytes is what the owned  *)
(* payloads add up to, whatever pushes, evictions and flushes of several   *)
(* threads touched it; and no entry is in two places.                      *)
SeriesConsistent ==
    /\ TypeOK
    /\ \A n \in Live :
        /\ Len(obj[n].stamps) = Len(obj[n].entries)
        /\ \A i \in DOMAIN obj[n].entries : obj[n].stamps[i] = obj[n].entries[i].ts
        /\ \A i, j \in DOMAIN obj[n].stamps : i <= j => obj[n].stamps[i] <= obj[n].stamps[j]
        /\ obj[n].mem = Bytes(obj[n].entries)
        /\ Cardinality(Numbers(obj[n].entries)) = Len(obj[n].entries)
    /\ \A n, m \in Live :
        Numbers(obj[n].entries) \cap Numbers(obj[m].entries) # {} => n = m

(* latestAt answers with the last pushed of the entries with the greatest  *)
(* timestamp that is not after the one asked for.                          *)
LatestAtIsNewest ==
    \A n \in Live, ts \in Times :
        LET upTo == {e \in Range(obj[n].entries) : e.ts <= ts}
        IN  latestAt(obj[n], ts) =
                {e \in upTo : \A f \in upTo : f.ts < e.ts \/ (f.ts = e.ts /\ f.n <= e.n)}

(* The indexes of a series are consistent, and latestAt, which searches    *)
(* them, finds the newest entry, after any pushes, evictions and changes   *)
(* of the budget.                                                          *)
LookupsConsistent == SeriesConsistent /\ LatestAtIsNewest

(* What a thread is reading and writing: topic lists, by the name of the   *)
(* store, and series.                                                      *)
ReadsFrom(th) ==
    LET c == call[th]
    IN  (IF pc[th] \in {"series", "body"} /\ c.op \in Writers \cup Readers THEN {c.store} ELSE {})
        \cup (IF pc[th] = "body" /\ c.op \in Readers THEN {found[th][1]} ELSE {})
        \cup (IF pc[th] = "body" /\ c.op = "flushTo" THEN {c.store, c.to} ELSE {})
        \cup ({view[th]} \ {0})

WritesTo(th) ==
    LET c == call[th]
    IN  IF pc[th] # "body" THEN {}
        ELSE IF c.op \in Writers THEN {found[th][1]}
        ELSE IF c.op = "flushTo" THEN Filled(c.store) \cup UNION {Match(c.to, n) : n \in Filled(c.store)}
        ELSE IF c.op = "registerTopic" THEN {c.store}
        ELSE IF c.op = "removeTopic" THEN {c.store} \cup Range(findSeries(c.store, c.id))
        ELSE IF c.op = "clear" THEN {c.store} \cup SeriesIn(c.store)
        ELSE {}

(* "no other reader or writer can observe an intermediate state ... no     *)
(* concurrent access can occur": while a thread writes or destroys a topic *)
(* list or a series, no other thread is reading or writing it, be it in a  *)
(* call or through a view it still owns.                                   *)
NoRace ==
    \A th, u \in Threads :
        th # u => WritesTo(th) \cap (WritesTo(u) \cup ReadsFrom(u)) = {}

WithinBudget(entries, budget) ==
    /\ budget.window > 0 => entries[1].ts >= entries[Len(entries)].ts - budget.window
    /\ budget.bytes > 0 => Bytes(entries) <= budget.bytes

(* new is what retention leaves of all: its end, within the budget and     *)
(* with one more entry it would not be.                                    *)
Kept(all, new, budget) ==
    \E k \in 0 .. Len(all) - 1 :
        /\ new = SubSeq(all, k + 1, Len(all))
        /\ WithinBudget(new, budget)
        /\ k > 0 => ~WithinBudget(SubSeq(all, k, Len(all)), budget)

RetainedExactly(n) ==
    LET old == obj[n].entries
        new == obj'[n].entries
    IN  ~(Numbers(new) \subseteq Numbers(old)) =>
          \E added \in {<<new[Len(new)]>>} \cup {obj[m].entries : m \in Series} :
             Kept(old \o added, new, obj'[n].budget)

(* A series that gets an entry, or in a flush those of another series, is  *)
(* left within its budget: the oldest entries are evicted, whichever side  *)
(* they come from, and no more of them than it takes.                      *)
RetentionExact == [][\A n \in Live \cap Live' : RetainedExactly(n)]_vars

FlushOutcome(th) ==
    LET c == call[th]
    IN  pc[th] = "body" /\ c.op = "flushTo" /\ pc'[th] = "idle" /\ obj' # obj =>
          /\ \A n \in SeriesIn(c.store) : obj'[n].entries = <<>>
          /\ \A n \in Filled(c.store) : \E m \in SeriesIn(c.to) :
                /\ obj[m].key = obj[n].key
                /\ obj[m].budget = NoBudget =>
                     obj'[m].entries = obj[m].entries \o obj[n].entries

(* flushTo moves everything or, when any topic fails validation, nothing:  *)
(* afterwards the source is empty and a destination series that has no     *)
(* budget holds what both held, in that order.                             *)
FlushAllOrNothing == [][\A th \in Threads : FlushOutcome(th)]_vars

(* No combination of concurrent calls, flushes in opposite directions      *)
(* included, waits for locks forever.                                      *)
AllCallsFinish == \A th \in Threads : pc[th] # "idle" ~> pc[th] = "idle"
=============================================================================
