------------------------ MODULE VaultDirectory_proofs -------------------------
(***************************************************************************)
(* The readers of VaultDirectory, for any chain, indices, batches and       *)
(* tasks: what the chain said at a block it says for ever, so an answer     *)
(* stays true of the block it was given at, however late it is used, and a  *)
(* discovery, read at two heights, is one of the later height with versions *)
(* of the earlier.                                                          *)
(***************************************************************************)
EXTENDS VaultDirectory, Foundations

-----------------------------------------------------------------------------
(* The greatest block of a set.                                            *)

\* A non-empty set of blocks up to b has a greatest element.
LEMMA GreatestBlock ==
    ASSUME NEW b \in Nat, NEW S, S \subseteq 0 .. b, S # {}
    PROVE  Max(S) \in S /\ \A x \in S : x <= Max(S)
    BY GreatestNat DEF Max

-----------------------------------------------------------------------------
(* The chain only grows.                                                   *)

ChainOK == chain \in Seq(Events)

\* What an index is at a block where it exists: one of the baskets.
LEMMA AssetsExist ==
    ASSUME ChainOK, NEW b \in 0 .. Height, NEW i \in Created(b)
    PROVE  /\ VersionAt(i, b) \in Logs(i, {"created", "reweighted"}, 1, b)
           /\ AssetsAt(i, b) \in Baskets
<1> DEFINE L == Logs(i, {"created", "reweighted"}, 1, b)
<1>1. L \subseteq 0 .. b /\ L # {}
    BY DEF Created, Logs, Height, ChainOK
<1>2. VersionAt(i, b) \in L
  <2> HIDE DEF L
  <2>1. b \in Nat
      BY DEF Height, ChainOK
  <2>2. Max(L) \in L
      BY <1>1, <2>1, GreatestBlock
  <2> QED
      BY <2>2 DEF VersionAt, L
<1>3. chain[VersionAt(i, b)] \in Compositions
    BY <1>2 DEF Logs, ChainOK, Events, NoEvent, Quotes, Compositions
<1> QED
    BY <1>2, <1>3 DEF AssetsAt, Compositions

LEMMA CreatedGrows ==
    ASSUME ChainOK, NEW b \in 0 .. Height, NEW c \in b .. Height
    PROVE  Created(b) \subseteq Created(c)
BY DEF Created, Logs, Height, ChainOK

LEMMA LogsStay ==
    ASSUME ChainOK, NEW e \in Events, Mine(e),
           NEW i, NEW K, NEW a \in Nat, NEW b \in 0 .. Height
    PROVE  Logs(i, K, a, b)' = Logs(i, K, a, b)
<1>1. \A x \in a .. b : (x \in DOMAIN chain <=> x \in DOMAIN chain')
                      /\ (x \in DOMAIN chain => chain'[x] = chain[x])
    BY DEF ChainOK, Mine, Height
<1> QED
    BY <1>1 DEF Logs

\* A new block changes nothing about the blocks before it.
LEMMA PastStays ==
    ASSUME ChainOK, NEW e \in Events, Mine(e)
    PROVE  /\ ChainOK' /\ Height' = Height + 1
           /\ \A i \in Indices, b \in 0 .. Height :
                 /\ (i \in Created(b)) <=> (i \in Created(b)')
                 /\ VersionAt(i, b)' = VersionAt(i, b)
                 /\ i \in Created(b) => AssetsAt(i, b)' = AssetsAt(i, b)
<1>1. ChainOK' /\ Height' = Height + 1 /\ Height \in Nat
    BY DEF ChainOK, Mine, Height
<1>2. \A i, K : \A b \in 0 .. Height : Logs(i, K, 1, b)' = Logs(i, K, 1, b)
    BY LogsStay
<1>3. ASSUME NEW i \in Indices, NEW b \in 0 .. Height
      PROVE  /\ (i \in Created(b)) <=> (i \in Created(b)')
             /\ VersionAt(i, b)' = VersionAt(i, b)
             /\ i \in Created(b) => AssetsAt(i, b)' = AssetsAt(i, b)
  <2>1. (i \in Created(b)) <=> (i \in Created(b)')
      BY <1>2 DEF Created
  <2>2. VersionAt(i, b)' = VersionAt(i, b)
      BY <1>2 DEF VersionAt
  <2>3. ASSUME i \in Created(b) PROVE AssetsAt(i, b)' = AssetsAt(i, b)
    <3>1. VersionAt(i, b) \in 1 .. Height
        BY <2>3, <1>1, AssetsExist DEF Logs, Height, ChainOK
    <3>2. chain'[VersionAt(i, b)] = chain[VersionAt(i, b)]
        BY <3>1 DEF ChainOK, Mine, Height
    <3> QED
        BY <2>2, <3>2 DEF AssetsAt
  <2> QED
      BY <2>1, <2>2, <2>3
<1> QED
    BY <1>1, <1>3

-----------------------------------------------------------------------------
(* The assets of a batch                                                    *)

Assets == UNION Baskets

\* An entry as the cache and the tasks hold it: the list the chain had at some
\* block while it was asked for.
EntryOK(entry) ==
    /\ entry \in Entry
    /\ entry.asked <= entry.at /\ entry.at <= Height
    /\ entry.index \in Created(entry.asked)
    /\ Honest(entry)

Use == [entry : Entry, out : Nat]

TaskType ==
    [pc : {"idle", "next", "call", "insert", "sent", "failed"},
     batch : SUBSET Indices, todo : SUBSET Indices, cur : Nat, asked : Nat,
     answer : SUBSET Assets, all : SUBSET Assets, from : SUBSET Use, failed : SUBSET Indices]

Got(rec) == {f.entry.index : f \in rec.from}

\* What a task has of its batch, what failed and what is left are apart.
Accounted(rec) ==
    /\ Got(rec) \cup rec.failed \cup rec.todo = rec.batch
    /\ Got(rec) \cap rec.failed = {}
    /\ (Got(rec) \cup rec.failed) \cap rec.todo = {}
    /\ rec.all = UNION {f.entry.assets : f \in rec.from}

FreshUses(rec) ==
    \A f \in rec.from : EntryOK(f.entry) /\ f.out < f.entry.at + TTL

\* What a task knows of the index it asks the chain about.
Asking(rec) ==
    /\ rec.pc \in {"call", "insert"} =>
          rec.cur \in rec.todo /\ rec.asked <= Height /\ rec.cur \in Created(rec.asked)
    /\ rec.pc = "insert" =>
          \E b \in rec.asked .. Height : rec.answer = AssetsAt(rec.cur, b)

TaskOK(rec) ==
    /\ rec \in TaskType
    /\ rec.batch \subseteq Created(Height)
    /\ Accounted(rec)
    /\ FreshUses(rec)
    /\ Asking(rec)
    /\ rec.pc = "sent" => rec.todo = {}

Inv ==
    /\ ChainOK
    /\ \A entry \in assetCache : EntryOK(entry)
    /\ task = [t \in Tasks |-> task[t]]
    /\ \A t \in Tasks : TaskOK(task[t])

\* A live entry goes into the union of a batch.
LEMMA TakenOK ==
    ASSUME ChainOK, NEW rec, TaskOK(rec), NEW entry, EntryOK(entry),
           entry.index \in rec.todo, Height < entry.at + TTL
    PROVE  TaskOK(Taken(rec, entry))
<1> DEFINE new == Taken(rec, entry)
           use == [entry |-> entry, out |-> Height]
<1>0. Height \in Nat /\ entry.index \in Indices /\ entry.assets \in Baskets
    BY DEF ChainOK, Height, EntryOK, Entry
<1>1. /\ new.pc = "next" /\ new.batch = rec.batch /\ new.todo = rec.todo \ {entry.index}
      /\ new.cur = 0 /\ new.failed = rec.failed /\ new.answer = rec.answer
      /\ new.all = rec.all \cup entry.assets /\ new.from = rec.from \cup {use}
      /\ new.asked = rec.asked
    BY DEF Taken, TaskOK, TaskType
<1>2. use \in Use /\ use.entry = entry /\ use.out = Height
    BY <1>0 DEF Use, EntryOK
<1>3. new \in TaskType
  <2>1. entry.assets \subseteq Assets
      BY <1>0 DEF Assets
  <2>2. /\ rec.todo \ {entry.index} \in SUBSET Indices
        /\ rec.all \cup entry.assets \in SUBSET Assets
        /\ rec.from \cup {use} \in SUBSET Use
      BY <1>2, <2>1 DEF TaskOK, TaskType
  <2>3. rec \in TaskType
      BY DEF TaskOK
  <2> HIDE DEF use
  <2>4. new = [rec EXCEPT !.pc = "next", !.todo = rec.todo \ {entry.index}, !.cur = 0,
                          !.all = rec.all \cup entry.assets, !.from = rec.from \cup {use}]
      BY DEF Taken, use
  <2> HIDE DEF new
  <2> QED
      BY <2>2, <2>3, <2>4 DEF TaskType
<1> HIDE DEF new, use
<1>4. FreshUses(new)
    BY <1>1, <1>2 DEF FreshUses, TaskOK
<1>5. Got(new) = Got(rec) \cup {entry.index}
    BY <1>1, <1>2 DEF Got
<1>6. new.all = UNION {f.entry.assets : f \in new.from}
  <2>1. rec.all = UNION {f.entry.assets : f \in rec.from}
      BY DEF TaskOK, Accounted
  <2>2. {f.entry.assets : f \in new.from} = {f.entry.assets : f \in rec.from} \cup {entry.assets}
      BY <1>1, <1>2
  <2> QED
      BY <1>1, <2>1, <2>2
<1>7. Accounted(new)
  <2>1. entry.index \notin rec.failed /\ entry.index \notin Got(rec)
      BY DEF TaskOK, Accounted
  <2> QED
      BY <1>1, <1>5, <1>6, <2>1 DEF Accounted, TaskOK
<1> QED
    BY <1>1, <1>3, <1>4, <1>7 DEF TaskOK, Asking, new


-----------------------------------------------------------------------------
(* The steps                                                               *)

\* An index that cannot be asked for is accounted for as failed.
LEMMA LeftOutOK ==
    ASSUME NEW rec, TaskOK(rec), rec.pc = "call"
    PROVE  TaskOK(LeftOut(rec))
<1> DEFINE new == LeftOut(rec)
<1>1. rec \in TaskType /\ rec.cur \in rec.todo
    BY DEF TaskOK, Asking
<1>2. /\ new.pc = "next" /\ new.batch = rec.batch /\ new.todo = rec.todo \ {rec.cur}
      /\ new.failed = rec.failed \cup {rec.cur} /\ new.from = rec.from /\ new.all = rec.all
    BY <1>1 DEF TaskType, LeftOut
<1>3. new \in TaskType
    BY <1>1 DEF TaskType, LeftOut
<1> HIDE DEF new
<1>4. Accounted(new)
    BY <1>1, <1>2 DEF TaskOK, Accounted, Got
<1>5. TaskOK(new)
    BY <1>2, <1>3, <1>4 DEF TaskOK, FreshUses, Asking
<1> QED
    BY <1>5 DEF new

\* An entry stays true as the chain grows.
LEMMA EntryStays ==
    ASSUME ChainOK, NEW e \in Events, Mine(e), NEW entry, EntryOK(entry)
    PROVE  EntryOK(entry)'
<1>1. /\ entry \in Entry /\ entry.asked \in Nat /\ entry.at \in Nat
      /\ entry.asked <= entry.at /\ entry.at <= Height /\ Height \in Nat
      /\ entry.index \in Indices /\ entry.index \in Created(entry.asked)
    BY DEF EntryOK, Entry, ChainOK, Height
<1>2. Height' = Height + 1 /\ entry.index \in Created(entry.asked)'
    BY <1>1, PastStays
<1>3. PICK b \in entry.asked .. entry.at : entry.assets = AssetsAt(entry.index, b)
    BY DEF EntryOK, Honest
<1>4. b \in 0 .. Height /\ entry.index \in Created(b)
    BY <1>1, <1>3, CreatedGrows DEF Created, Logs
<1>5. AssetsAt(entry.index, b)' = AssetsAt(entry.index, b)
    BY <1>1, <1>4, PastStays
<1> QED
    BY <1>1, <1>2, <1>3, <1>5 DEF EntryOK, Honest

\* What a task holds stays true as the chain grows.
LEMMA TaskStays ==
    ASSUME ChainOK, NEW e \in Events, Mine(e), NEW rec, TaskOK(rec)
    PROVE  TaskOK(rec)'
<1>1. rec \in TaskType /\ Height \in Nat /\ Height' = Height + 1 /\ ChainOK'
    BY PastStays DEF TaskOK, ChainOK, Height
<1>2. rec.batch \subseteq Created(Height)'
  <2> SUFFICES ASSUME NEW i \in rec.batch PROVE i \in Created(Height)'
      OBVIOUS
  <2>1. i \in Indices /\ \E x \in 1 .. Height : 
            x \in DOMAIN chain /\ chain[x].kind \in {"created"} /\ chain[x].index = i
      BY DEF TaskOK, Created, Logs
  <2>2. \E x \in 1 .. Height' : 
            x \in DOMAIN chain' /\ chain'[x].kind \in {"created"} /\ chain'[x].index = i
      BY <1>1, <2>1 DEF Mine, ChainOK, Height
  <2> QED
      BY <2>1, <2>2 DEF Created, Logs
<1>3. FreshUses(rec)'
    BY EntryStays DEF FreshUses, TaskOK
<1>4. ASSUME rec.pc \in {"call", "insert"}
      PROVE  /\ rec.cur \in rec.todo /\ rec.asked \in Nat /\ rec.asked <= Height
             /\ rec.cur \in Indices
             /\ rec.cur \in Created(rec.asked) /\ rec.cur \in Created(rec.asked)'
  <2>1. /\ rec.cur \in rec.todo /\ rec.asked \in Nat /\ rec.asked <= Height
        /\ rec.cur \in Indices /\ rec.cur \in Created(rec.asked)
      BY <1>1, <1>4 DEF TaskOK, Asking, TaskType
  <2> QED
      BY <1>1, <2>1, PastStays
<1>5. ASSUME rec.pc = "insert"
      PROVE  \E b \in rec.asked .. Height' : rec.answer = AssetsAt(rec.cur, b)'
  <2>1. PICK b \in rec.asked .. Height : rec.answer = AssetsAt(rec.cur, b)
      BY <1>5 DEF TaskOK, Asking
  <2>2. b \in 0 .. Height /\ rec.cur \in Created(b) /\ rec.cur \in Indices
      BY <1>1, <1>4, <1>5, <2>1, CreatedGrows DEF Created
  <2>3. AssetsAt(rec.cur, b)' = AssetsAt(rec.cur, b)
      BY <2>2, PastStays
  <2>4. b \in rec.asked .. Height'
      BY <1>1, <1>4, <1>5, <2>1
  <2> QED
      BY <2>1, <2>3, <2>4
<1>6. Asking(rec)'
    BY <1>1, <1>4, <1>5 DEF Asking
<1> QED
    BY <1>1, <1>2, <1>3, <1>6 DEF TaskOK, Accounted, Got

\* What is said of an entry and of a task depends on nothing but the chain.
LEMMA SameChain ==
    ASSUME UNCHANGED chain, NEW x
    PROVE  (EntryOK(x)' <=> EntryOK(x)) /\ (TaskOK(x)' <=> TaskOK(x))
<1>1. EntryOK(x)' <=> EntryOK(x)
    BY DEF EntryOK, Honest, AssetsAt, VersionAt, Created, Logs, Height
<1>2. FreshUses(x)' <=> FreshUses(x)
    BY DEF FreshUses, EntryOK, Honest, AssetsAt, VersionAt, Created, Logs, Height
<1>3. Asking(x)' <=> Asking(x)
    BY DEF Asking, AssetsAt, VersionAt, Created, Logs, Height
<1>4. Created(Height)' = Created(Height)
    BY DEF Created, Logs, Height
<1> QED
    BY <1>1, <1>2, <1>3, <1>4 DEF TaskOK, Accounted, Got

\* One task moves, and the cache holds true entries.
LEMMA TaskMoves ==
    ASSUME Inv, UNCHANGED chain, NEW t \in Tasks, NEW rec, TaskOK(rec),
           task' = [task EXCEPT ![t] = rec],
           \A entry \in assetCache' : EntryOK(entry)
    PROVE  Inv'
<1>1. task' = [u \in Tasks |-> IF u = t THEN rec ELSE task[u]]
    BY DEF Inv
<1>2. \A u \in Tasks : TaskOK(task'[u])
    BY <1>1 DEF Inv
<1>3. \A u \in Tasks : TaskOK(task[u])'
    BY <1>2, SameChain
<1>4. \A entry \in assetCache' : EntryOK(entry)'
    BY SameChain
<1> QED
    BY <1>1, <1>3, <1>4 DEF Inv, ChainOK

LEMMA StartExtractionOK ==
    ASSUME Inv, UNCHANGED chain, NEW t \in Tasks, NEW S \in SUBSET Created(Height),
           StartExtraction(t, S)
    PROVE  Inv'
<1> DEFINE new == [NoTask EXCEPT !.pc = "next", !.batch = S, !.todo = S]
<1>1. /\ new.pc = "next" /\ new.batch = S /\ new.todo = S
      /\ new.all = {} /\ new.from = {} /\ new.failed = {}
    BY DEF NoTask
<1>2. task' = [task EXCEPT ![t] = new] /\ assetCache' = assetCache
    BY DEF StartExtraction
<1>3. new \in TaskType /\ new.batch \subseteq Created(Height)
  <2>1. NoTask \in TaskType
      BY DEF NoTask, TaskType
  <2>2. S \subseteq Indices
      BY DEF Created
  <2> QED
      BY <1>1, <2>1, <2>2 DEF TaskType
<1> HIDE DEF new
<1>4. TaskOK(new)
    BY <1>1, <1>3 DEF TaskOK, Accounted, Got, FreshUses, Asking
<1> QED
    BY <1>2, <1>4, TaskMoves DEF Inv

LEMMA CacheHitOK ==
    ASSUME Inv, UNCHANGED chain, NEW t \in Tasks, CacheHit(t)
    PROVE  Inv'
<1>1. PICK i \in Ahead(t) : \E entry \in Cached(i) :
          task' = [task EXCEPT ![t] = Taken(task[t], entry)]
    BY DEF CacheHit, Inv
<1>0. PICK entry \in Cached(i) : task' = [task EXCEPT ![t] = Taken(task[t], entry)]
    BY <1>1
<1>2. EntryOK(entry) /\ entry.index \in task[t].todo
    BY DEF Cached, Ahead, Inv
<1>3. Height < entry.at + TTL
  <2>1. entry.at \in Nat /\ entry.at <= Height /\ Height \in Nat /\ Height - entry.at < TTL
      BY <1>2 DEF EntryOK, Entry, Cached, Live, Inv, ChainOK, Height
  <2> QED
      BY <2>1, StewardAssumption
<1>4. TaskOK(Taken(task[t], entry))
    BY <1>2, <1>3, TakenOK DEF Inv
<1>5. assetCache' = assetCache
    BY DEF CacheHit
<1> QED
    BY <1>0, <1>4, <1>5, TaskMoves DEF Inv

LEMMA CacheMissOK ==
    ASSUME Inv, UNCHANGED chain, NEW t \in Tasks, CacheMiss(t)
    PROVE  Inv'
<1>1. PICK i \in Ahead(t) :
          task' = [task EXCEPT ![t] = [task[t] EXCEPT !.pc = "call", !.cur = i, !.asked = Height]]
    BY DEF CacheMiss, Inv
<1> DEFINE new == [task[t] EXCEPT !.pc = "call", !.cur = i, !.asked = Height]
<1>2. /\ TaskOK(task[t]) /\ task[t] \in TaskType /\ i \in task[t].todo /\ Height \in Nat
      /\ assetCache' = assetCache
    BY DEF Inv, TaskOK, Ahead, ChainOK, Height, CacheMiss
<1>3. i \in Nat /\ i \in Created(Height)
    BY <1>2, CastleAssumption DEF TaskOK, Accounted, TaskType
<1>4. /\ new \in TaskType /\ new.pc = "call" /\ new.cur = i /\ new.asked = Height
      /\ new.batch = task[t].batch /\ new.todo = task[t].todo /\ new.failed = task[t].failed
      /\ new.from = task[t].from /\ new.all = task[t].all
    BY <1>2, <1>3 DEF TaskType
<1> HIDE DEF new
<1>5. TaskOK(new)
    BY <1>2, <1>3, <1>4 DEF TaskOK, Accounted, Got, FreshUses, Asking
<1>6. task' = [task EXCEPT ![t] = new]
    BY <1>1 DEF new
<1> QED
    BY <1>2, <1>5, <1>6, TaskMoves DEF Inv

LEMMA AnswerOK ==
    ASSUME Inv, UNCHANGED chain, NEW t \in Tasks, Answer(t)
    PROVE  Inv'
<1> DEFINE assets == AssetsAt(task[t].cur, Height)
           new == [task[t] EXCEPT !.pc = "insert", !.answer = assets]
<1>1. /\ TaskOK(task[t]) /\ task[t] \in TaskType /\ task[t].pc = "call" /\ Height \in Nat
      /\ task' = [task EXCEPT ![t] = new] /\ assetCache' = assetCache /\ ChainOK
    BY DEF Inv, TaskOK, ChainOK, Height, Answer
<1>2. /\ task[t].cur \in task[t].todo /\ task[t].asked \in Nat /\ task[t].asked <= Height
      /\ task[t].cur \in Created(task[t].asked)
    BY <1>1 DEF TaskOK, Asking, TaskType
<1>3. assets \in Baskets
  <2>1. task[t].cur \in Created(Height)
      BY <1>1, <1>2, CreatedGrows
  <2> QED
      BY <1>1, <2>1, AssetsExist
<1> HIDE DEF assets
<1>4. assets \subseteq Assets
    BY <1>3 DEF Assets
<1>5. /\ new \in TaskType /\ new.pc = "insert" /\ new.cur = task[t].cur
      /\ new.asked = task[t].asked /\ new.answer = assets
      /\ new.batch = task[t].batch /\ new.todo = task[t].todo /\ new.failed = task[t].failed
      /\ new.from = task[t].from /\ new.all = task[t].all
    BY <1>1, <1>4 DEF TaskType
<1>6. \E b \in task[t].asked .. Height : assets = AssetsAt(task[t].cur, b)
    BY <1>1, <1>2 DEF assets
<1> HIDE DEF new
<1>7. TaskOK(new)
    BY <1>1, <1>2, <1>5, <1>6 DEF TaskOK, Accounted, Got, FreshUses, Asking
<1> QED
    BY <1>1, <1>7, TaskMoves DEF Inv

\* The answer is cached for all and taken by its own task: an asset list of some
\* block since the request, whatever blocks came in between.
LEMMA InsertOK ==
    ASSUME Inv, UNCHANGED chain, NEW t \in Tasks, Insert(t)
    PROVE  Inv'
<1> DEFINE entry == [index |-> task[t].cur, assets |-> task[t].answer,
                     asked |-> task[t].asked, at |-> Height]
           new == [Taken(task[t], entry) EXCEPT !.answer = {}]
<1>1. /\ TaskOK(task[t]) /\ task[t] \in TaskType /\ task[t].pc = "insert"
      /\ Height \in Nat /\ ChainOK
      /\ task' = [task EXCEPT ![t] = new]
      /\ assetCache' = {f \in assetCache : f.index # entry.index} \cup {entry}
    BY DEF Inv, TaskOK, ChainOK, Height, Insert
<1>2. /\ task[t].cur \in task[t].todo /\ task[t].asked \in Nat /\ task[t].asked <= Height
      /\ task[t].cur \in Created(task[t].asked) /\ task[t].cur \in Indices
    BY <1>1 DEF TaskOK, Asking, TaskType
<1>3. PICK b \in task[t].asked .. Height : task[t].answer = AssetsAt(task[t].cur, b)
    BY <1>1 DEF TaskOK, Asking
<1>4. task[t].answer \in Baskets
  <2>1. b \in 0 .. Height /\ task[t].cur \in Created(b)
      BY <1>1, <1>2, <1>3, CreatedGrows
  <2> QED
      BY <1>1, <1>3, <2>1, AssetsExist
<1>5. EntryOK(entry)
    BY <1>1, <1>2, <1>3, <1>4 DEF EntryOK, Entry, Honest
<1>6. entry.index \in task[t].todo /\ Height < entry.at + TTL
    BY <1>1, <1>2, StewardAssumption
<1> HIDE DEF entry
<1>7. TaskOK(Taken(task[t], entry)) /\ Taken(task[t], entry).pc = "next"
  <2>1. Taken(task[t], entry).pc = "next"
      BY <1>1 DEF Taken, TaskType
  <2> QED
      BY <1>1, <1>5, <1>6, <2>1, TakenOK
<1>8. TaskOK(new)
  <2> DEFINE old == Taken(task[t], entry)
  <2>1. TaskOK(old) /\ old \in TaskType /\ old.pc = "next"
      BY <1>7 DEF TaskOK
  <2> HIDE DEF old
  <2>2. /\ [old EXCEPT !.answer = {}] \in TaskType
        /\ [old EXCEPT !.answer = {}].pc = "next"
        /\ [old EXCEPT !.answer = {}].batch = old.batch
        /\ [old EXCEPT !.answer = {}].todo = old.todo
        /\ [old EXCEPT !.answer = {}].failed = old.failed
        /\ [old EXCEPT !.answer = {}].from = old.from
        /\ [old EXCEPT !.answer = {}].all = old.all
      BY <2>1 DEF TaskType
  <2>3. TaskOK([old EXCEPT !.answer = {}])
      BY <2>1, <2>2 DEF TaskOK, Accounted, Got, FreshUses, Asking
  <2> QED
      BY <2>3 DEF old
<1> HIDE DEF new
<1>9. \A f \in assetCache' : EntryOK(f)
    BY <1>1, <1>5 DEF Inv
<1> QED
    BY <1>1, <1>8, <1>9, TaskMoves

LEMMA CallFailsOK ==
    ASSUME Inv, UNCHANGED chain, NEW t \in Tasks, CallFails(t)
    PROVE  Inv'
<1>1. /\ TaskOK(task[t]) /\ task[t].pc = "call" /\ assetCache' = assetCache
      /\ task' = [task EXCEPT ![t] = LeftOut(task[t])]
    BY DEF Inv, CallFails
<1>2. TaskOK(LeftOut(task[t]))
    BY <1>1, LeftOutOK
<1> QED
    BY <1>1, <1>2, TaskMoves DEF Inv

LEMMA ExtractedOK ==
    ASSUME Inv, UNCHANGED chain, NEW t \in Tasks, Extracted(t)
    PROVE  Inv'
<1> DEFINE end == IF task[t].failed = task[t].batch THEN "failed" ELSE "sent"
           new == [task[t] EXCEPT !.pc = end]
<1>1. /\ TaskOK(task[t]) /\ task[t] \in TaskType /\ task[t].todo = {}
      /\ task' = [task EXCEPT ![t] = new] /\ assetCache' = assetCache
    BY DEF Inv, TaskOK, Extracted
<1>2. end \in {"failed", "sent"}
    OBVIOUS
<1> HIDE DEF end
<1>3. /\ new \in TaskType /\ new.pc = end
      /\ new.batch = task[t].batch /\ new.todo = task[t].todo /\ new.failed = task[t].failed
      /\ new.from = task[t].from /\ new.all = task[t].all
    BY <1>1, <1>2 DEF TaskType
<1> HIDE DEF new
<1>4. TaskOK(new)
    BY <1>1, <1>2, <1>3 DEF TaskOK, Accounted, Got, FreshUses, Asking
<1> QED
    BY <1>1, <1>4, TaskMoves DEF Inv

-----------------------------------------------------------------------------
(* The theorem                                                             *)

LEMMA InitInv == Init => Inv
<1> SUFFICES ASSUME Init PROVE Inv
    OBVIOUS
<1>1. ChainOK /\ assetCache = {} /\ task = [t \in Tasks |-> NoTask]
    BY DEF Init, ChainOK, StewardInit
<1>2. NoTask \in TaskType
    BY DEF NoTask, TaskType
<1>3. TaskOK(NoTask)
    BY <1>2 DEF TaskOK, NoTask, Accounted, Got, FreshUses, Asking
<1> QED
    BY <1>1, <1>3 DEF Inv

LEMMA BlockOK ==
    ASSUME Inv, NEW e \in Events, Block(e)
    PROVE  Inv'
<1>1. Mine(e) /\ task' = task /\ assetCache' = assetCache /\ ChainOK
    BY DEF Block, stewardVars, Inv
<1>2. \A entry \in assetCache : EntryOK(entry)'
    BY <1>1, EntryStays DEF Inv
<1>3. \A t \in Tasks : TaskOK(task[t])'
  <2>1. \A t \in Tasks : TaskOK(task[t])
      BY DEF Inv
  <2> QED
      BY <1>1, <2>1, TaskStays
<1> QED
    BY <1>1, <1>2, <1>3, PastStays DEF Inv

\* Steps that touch neither the chain, the cache nor the tasks.
LEMMA OthersOK ==
    ASSUME Inv, UNCHANGED <<chain, assetCache, task>>
    PROVE  Inv'
<1>1. \A t \in Tasks : TaskOK(task[t])'
  <2>1. \A t \in Tasks : TaskOK(task'[t])
      BY DEF Inv
  <2> QED
      BY <2>1, SameChain
<1>2. \A entry \in assetCache : EntryOK(entry)'
    BY SameChain DEF Inv
<1> QED
    BY <1>1, <1>2 DEF Inv, ChainOK

LEMMA NextInv == Inv /\ [Next]_vars => Inv'
<1> SUFFICES ASSUME Inv, [Next]_vars PROVE Inv'
    OBVIOUS
<1>1. CASE \E e \in Events : Block(e)
    BY <1>1, BlockOK
<1>2. CASE Scan
    BY <1>2, OthersOK DEF Scan, stewardVars
<1>3. CASE RegisterAccepted
    BY <1>3, OthersOK DEF RegisterAccepted, stewardVars
<1>4. CASE Quote
    BY <1>4, OthersOK DEF Quote, stewardVars
<1>5. CASE Extraction
  <2>1. UNCHANGED chain
      BY <1>5 DEF Extraction
  <2>2. PICK t \in Tasks :
            \/ \E S \in SUBSET Created(Height) \ {{}} : StartExtraction(t, S)
            \/ ExtractionStep(t)
      BY <1>5 DEF Extraction
  <2>3. CASE \E S \in SUBSET Created(Height) \ {{}} : StartExtraction(t, S)
      BY <2>1, <2>3, StartExtractionOK
  <2>4. CASE ExtractionStep(t)
      BY <2>1, <2>4, CacheHitOK, CacheMissOK, AnswerOK, InsertOK, CallFailsOK, ExtractedOK
      DEF ExtractionStep
  <2> QED
      BY <2>2, <2>3, <2>4
<1>6. CASE Refresh
    BY <1>6, OthersOK DEF Refresh, RefreshStep, RefreshLogs, RefreshFails, RefreshVault
<1>7. CASE FirstVaults
    BY <1>7, OthersOK DEF FirstVaults
<1>8. CASE AddVaults
    BY <1>8, OthersOK DEF AddVaults
<1>9. CASE UNCHANGED vars
    BY <1>9, OthersOK DEF vars, stewardVars
<1> QED
    BY <1>1, <1>2, <1>3, <1>4, <1>5, <1>6, <1>7, <1>8, <1>9 DEF Next

\* Whatever blocks arrive, whichever requests fail and however the tasks share
\* and overwrite the cache: a batch that goes to the Vendor covers every index it
\* does not list as failed, and each of its lists was the chain's own at a block
\* since its request, less than the TTL before it was used.
THEOREM SentFresh == Spec => []SentAssetsFresh
<1>1. Inv => SentAssetsFresh
  <2> SUFFICES ASSUME Inv, NEW t \in Tasks, task[t].pc = "sent"
               PROVE  /\ Got(task[t]) \cup task[t].failed = task[t].batch
                      /\ Got(task[t]) \cap task[t].failed = {}
                      /\ task[t].all = UNION {f.entry.assets : f \in task[t].from}
                      /\ \A f \in task[t].from : Honest(f.entry) /\ f.out < f.entry.at + TTL
      BY DEF SentAssetsFresh, Got
  <2>1. TaskOK(task[t]) /\ task[t].todo = {}
      BY DEF Inv, TaskOK
  <2> QED
      BY <2>1 DEF TaskOK, Accounted, FreshUses, EntryOK
<1> QED
    BY <1>1, InitInv, NextInv, PTL DEF Spec

-----------------------------------------------------------------------------
(* is_quote_stale()                                                         *)

Since(q) == IF q.head > Lookback THEN q.head - Lookback ELSE 0

Found(q) == Logs(q.index, {"quoted"}, Since(q), q.logged)

QuoteType ==
    [pc : {"idle", "logs", "age", "fresh", "stale", "failed"},
     index : Nat, head : Nat, last : Nat, logged : Nat, at : Nat]

\* What the logs read so far say, between the two heads.
QuoteOK(q) ==
    /\ q \in QuoteType
    /\ q.pc = "logs" => q.head <= Height
    /\ q.pc \in {"age", "fresh", "stale"} =>
          /\ q.head <= q.logged /\ q.logged <= Height
          /\ \/ q.last = 0 /\ Found(q) = {}
             \/ q.last \in Found(q) /\ \A x \in Found(q) : x <= q.last
    /\ q.pc \in {"fresh", "stale"} => q.logged <= q.at
    /\ q.pc = "fresh" => q.last # 0 /\ q.at <= q.last + MaxAge
    /\ q.pc = "stale" => q.last = 0 \/ q.at > q.last + MaxAge

QuoteInv == ChainOK /\ QuoteOK(quote)

LEMMA InitQuote == Init => QuoteInv
<1> SUFFICES ASSUME Init PROVE QuoteInv
    OBVIOUS
<1>1. ChainOK /\ quote = NoQuote
    BY DEF Init, SyncInit, ChainOK
<1>2. NoQuote \in QuoteType /\ NoQuote.pc = "idle"
    BY DEF NoQuote, QuoteType
<1> QED
    BY <1>1, <1>2 DEF QuoteInv, QuoteOK

LEMMA QuoteLogsOK ==
    ASSUME QuoteInv, UNCHANGED chain, QuoteLogs
    PROVE  QuoteInv'
<1> DEFINE found == Logs(quote.index, {"quoted"}, Since(quote), Height)
           last == IF found = {} THEN 0 ELSE Max(found)
           new == [quote EXCEPT !.pc = "age", !.logged = Height, !.last = last]
<1>0. Height \in Nat
    BY DEF QuoteInv, ChainOK, Height
<1>1. /\ quote \in QuoteType /\ quote.pc = "logs" /\ quote.head <= Height /\ Height \in Nat
      /\ quote' = new
    BY DEF QuoteInv, QuoteOK, ChainOK, Height, QuoteLogs, Since
<1>2. Since(quote) \in Nat
    BY <1>1, SyncAssumption DEF Since, QuoteType
<1>3. found \subseteq 0 .. Height
    BY <1>1, <1>2 DEF Logs
<1> HIDE DEF found
<1>4. /\ last \in Nat
      /\ \/ last = 0 /\ found = {}
         \/ last \in found /\ \A x \in found : x <= last
  <2>1. CASE found = {}
      BY <2>1
  <2>2. CASE found # {}
    <3>1. Max(found) \in found /\ \A x \in found : x <= Max(found)
        BY <1>1, <1>3, <2>2, GreatestBlock
    <3>2. last = Max(found)
        BY <2>2
    <3>3. \A x \in found : x \in Nat
        BY <1>0, <1>3
    <3> HIDE DEF last
    <3> QED
        BY <3>1, <3>2, <3>3
  <2> QED
      BY <2>1, <2>2
<1> HIDE DEF last
<1>5. /\ new \in QuoteType /\ new.pc = "age" /\ new.logged = Height /\ new.last = last
      /\ new.head = quote.head /\ new.index = quote.index
    BY <1>1, <1>4 DEF QuoteType
<1> HIDE DEF new
<1>6. Found(new) = found
    BY <1>5 DEF Found, Since, found
<1>7. QuoteOK(new)
    BY <1>1, <1>4, <1>5, <1>6 DEF QuoteOK
<1> QED
    BY <1>1, <1>7 DEF QuoteInv, QuoteOK, Found, Since, Logs, Height, ChainOK

LEMMA VerdictOK ==
    ASSUME QuoteInv, UNCHANGED chain, Verdict
    PROVE  QuoteInv'
<1> DEFINE stale == quote.last = 0 \/ Height > quote.last + MaxAge
           verdict == IF stale THEN "stale" ELSE "fresh"
           new == [quote EXCEPT !.pc = verdict, !.at = Height]
<1>1. /\ QuoteOK(quote) /\ quote \in QuoteType /\ quote.pc = "age" /\ Height \in Nat
      /\ quote' = new
    BY DEF QuoteInv, QuoteOK, ChainOK, Height, Verdict
<1>2. /\ verdict \in {"stale", "fresh"}
      /\ verdict = "stale" => quote.last = 0 \/ Height > quote.last + MaxAge
      /\ verdict = "fresh" => quote.last # 0 /\ Height <= quote.last + MaxAge
    BY <1>1, SyncAssumption DEF QuoteType
<1> HIDE DEF verdict
<1>3. /\ new \in QuoteType /\ new.pc = verdict /\ new.logged = quote.logged
      /\ new.last = quote.last /\ new.head = quote.head /\ new.index = quote.index
      /\ new.at = Height
    BY <1>1, <1>2 DEF QuoteType
<1> HIDE DEF new
<1>4. Found(new) = Found(quote)
    BY <1>3 DEF Found, Since
<1>5. QuoteOK(new)
    BY <1>1, <1>2, <1>3, <1>4 DEF QuoteOK
<1> QED
    BY <1>1, <1>5 DEF QuoteInv, QuoteOK, Found, Since, Logs, Height, ChainOK

\* A block after the logs were read changes nothing about them.
LEMMA QuoteStays ==
    ASSUME QuoteInv, NEW e \in Events, Mine(e), UNCHANGED quote
    PROVE  QuoteInv'
<1>1. QuoteOK(quote) /\ quote \in QuoteType /\ ChainOK /\ Height \in Nat
    BY DEF QuoteInv, QuoteOK, ChainOK, Height
<1>2. ChainOK' /\ Height' = Height + 1
    BY <1>1, PastStays
<1>3. Since(quote) \in Nat /\ Since(quote)' = Since(quote)
    BY <1>1, SyncAssumption DEF Since, QuoteType
<1>4. ASSUME quote.pc \in {"age", "fresh", "stale"}
      PROVE  Found(quote)' = Found(quote)
  <2>1. quote.logged \in 0 .. Height
      BY <1>1, <1>4 DEF QuoteOK, QuoteType
  <2>2. Logs(quote.index, {"quoted"}, Since(quote), quote.logged)'
            = Logs(quote.index, {"quoted"}, Since(quote), quote.logged)
      BY <1>1, <1>3, <2>1, LogsStay
  <2> QED
      BY <2>2 DEF Found
<1>5. QuoteOK(quote)'
    BY <1>1, <1>2, <1>4 DEF QuoteOK, QuoteType
<1> QED
    BY <1>2, <1>5 DEF QuoteInv

LEMMA NextQuote == QuoteInv /\ [Next]_vars => QuoteInv'
<1> SUFFICES ASSUME QuoteInv, [Next]_vars PROVE QuoteInv'
    OBVIOUS
<1>1. CASE \E e \in Events : Block(e)
    BY <1>1, QuoteStays DEF Block, syncVars
<1>2. CASE Quote
  <2>1. UNCHANGED chain
      BY <1>2 DEF Quote
  <2>2. CASE \E i \in Created(Height) : QuoteHead(i)
    <3>1. PICK i \in Created(Height) : QuoteHead(i)
        BY <2>2
    <3>2. i \in Nat /\ Height \in Nat /\ quote \in QuoteType /\ ChainOK
        BY CastleAssumption DEF Created, QuoteInv, QuoteOK, ChainOK, Height
    <3>3. quote' \in QuoteType /\ quote'.pc = "logs" /\ quote'.head = Height
        BY <3>1, <3>2 DEF QuoteHead, QuoteType
    <3> QED
        BY <2>1, <3>2, <3>3 DEF QuoteInv, QuoteOK, ChainOK, Height
  <2>3. CASE QuoteLogs
      BY <2>1, <2>3, QuoteLogsOK
  <2>4. CASE Verdict
      BY <2>1, <2>4, VerdictOK
  <2>5. CASE QuoteFails
    <3>1. quote' \in QuoteType /\ quote'.pc = "failed"
        BY <2>5 DEF QuoteFails, QuoteInv, QuoteOK, QuoteType
    <3> QED
        BY <2>1, <3>1 DEF QuoteInv, QuoteOK, ChainOK
  <2> QED
      BY <1>2, <2>2, <2>3, <2>4, <2>5 DEF Quote, QuoteStep
<1>3. CASE UNCHANGED <<chain, quote>>
    BY <1>3 DEF QuoteInv, QuoteOK, Found, Since, Logs, Height, ChainOK
<1>4. CASE Scan
    BY <1>3, <1>4 DEF Scan, ScanStep, ScanLogs, ScanLogsFail, ScanVault, ScanVaultFails,
       ScanAssets, ScanWeights, ScanCompositionFails, Classify
<1>5. CASE RegisterAccepted \/ Extraction \/ Refresh \/ FirstVaults \/ AddVaults \/ UNCHANGED vars
    BY <1>3, <1>5 DEF RegisterAccepted, Extraction, Refresh, FirstVaults, AddVaults, vars, syncVars
<1> QED
    BY <1>1, <1>2, <1>4, <1>5 DEF Next

\* However many blocks arrive between the reads of the newest block and of the
\* logs: a quote called fresh was updated within MaxAge blocks of the newest one,
\* one called stale was not, as far as the logs had come.
THEOREM VerdictsRight == Spec => []QuoteVerdictsRight
<1>1. QuoteInv => QuoteVerdictsRight
  <2> SUFFICES ASSUME QuoteInv,
                      NEW recent, recent = {b \in Logs(quote.index, {"quoted"}, 1, quote.logged) :
                                                b + MaxAge >= quote.at}
               PROVE  /\ quote.pc = "fresh" => recent # {}
                      /\ quote.pc = "stale" => recent = {}
      BY DEF QuoteVerdictsRight
  <2>1. QuoteOK(quote) /\ quote \in QuoteType /\ Height \in Nat
      BY DEF QuoteInv, QuoteOK, ChainOK, Height
  <2>2. Since(quote) \in Nat
      BY <2>1, SyncAssumption DEF Since, QuoteType
  <2>3. ASSUME quote.pc = "fresh" PROVE recent # {}
    <3>1. quote.last \in Found(quote) /\ quote.at <= quote.last + MaxAge
        BY <2>1, <2>3 DEF QuoteOK
    <3>2. quote.last \in Logs(quote.index, {"quoted"}, 1, quote.logged)
        BY <2>1, <2>2, <3>1 DEF Found, Logs, QuoteInv, ChainOK, QuoteType
    <3> QED
        BY <2>1, <3>1, <3>2, SyncAssumption DEF QuoteType, Logs
  <2>4. ASSUME quote.pc = "stale", NEW b \in recent PROVE FALSE
    <3>1. b \in Found(quote)
        BY <2>1, <2>4, SyncAssumption DEF Found, Since, Logs, QuoteOK, QuoteType
    <3>2. quote.last \in Found(quote) /\ b <= quote.last
        BY <2>1, <2>4, <3>1 DEF QuoteOK
    <3>3. quote.last # 0
        BY <3>2 DEF Found, Logs, QuoteInv, ChainOK
    <3>4. quote.at > quote.last + MaxAge
        BY <2>1, <2>4, <3>3 DEF QuoteOK
    <3>5. b + MaxAge >= quote.at /\ b \in Nat /\ quote.last \in Nat /\ quote.at \in Nat
        BY <2>1, <2>2, <2>4, <3>1 DEF Found, Logs, QuoteType
    <3> QED
        BY <3>2, <3>4, <3>5, SyncAssumption
  <2> QED
      BY <2>3, <2>4
<1> QED
    BY <1>1, InitQuote, NextQuote, PTL DEF Spec

-----------------------------------------------------------------------------
(* discover_accepted_itps()                                                 *)

\* An index is created once.
CreatedOnce ==
    \A x, y \in DOMAIN chain :
        chain[x].kind = "created" /\ chain[y].kind = "created" /\ chain[x].index = chain[y].index
            => x = y

ItpType == [index : Indices, composed : BOOLEAN, assets : SUBSET Assets, read : Nat, version : Nat]

ScanType ==
    [pc : {"idle", "next", "assets", "weights", "done", "failed"},
     todo : SUBSET Indices, cur : Nat, from : Nat, assets : SUBSET Assets, read : Nat,
     itps : SUBSET ItpType, dropped : SUBSET Indices,
     accepted : SUBSET ItpType, rejected : SUBSET ItpType]

Named(itps) == {itp.index : itp \in itps}
Asked(s) == IF s.pc \in {"assets", "weights"} THEN {s.cur} ELSE {}

\* The logs of the scan are those of the indices made, dropped, to be asked for and
\* asked for, each one of these.
Partitioned(s) ==
    /\ s.from <= Height
    /\ Named(s.itps) \cup s.dropped \cup s.todo \cup Asked(s) = Created(s.from)
    /\ Named(s.itps) \cap s.dropped = {}
    /\ (Named(s.itps) \cup s.dropped) \cap s.todo = {}
    /\ (Named(s.itps) \cup s.dropped \cup s.todo) \cap Asked(s) = {}
    /\ \A x, y \in s.itps : x.index = y.index => x = y

\* The assets are those of the block at which they were read; the weights are of
\* the same composition, or the rebalance history tells.
ItpOK(itp, from) ==
    itp.composed =>
        /\ from <= itp.read /\ itp.read <= Height
        /\ itp.assets = AssetsAt(itp.index, itp.read)
        /\ VersionAt(itp.index, itp.read) # itp.version
               => RebalanceHistory(itp.index, from + 1) # {}

ScanOK(s) ==
    /\ s \in ScanType
    /\ s.pc \in {"idle", "failed"} =>
          s.itps = {} /\ s.dropped = {} /\ s.accepted = {} /\ s.rejected = {}
    /\ s.pc \notin {"idle", "failed"} => Partitioned(s)
    /\ \A itp \in s.itps : ItpOK(itp, s.from)
    /\ s.pc = "weights" =>
          s.from <= s.read /\ s.read <= Height /\ s.assets = AssetsAt(s.cur, s.read)
    /\ s.pc = "done" =>
          /\ s.todo = {}
          /\ s.accepted = {itp \in s.itps : Supported(itp)}
          /\ s.rejected = s.itps \ s.accepted

ScanInv == ChainOK /\ CreatedOnce /\ ScanOK(scan)

\* The logs of an index that was created: its creation is one of them, and the
\* version at a later block is that one or a later one.
LEMMA LogsFound ==
    ASSUME ChainOK, NEW from \in 0 .. Height, NEW b \in from .. Height, NEW i \in Created(from)
    PROVE  /\ i \in Created(b) /\ i \in Indices
           /\ VersionAt(i, b) \in Logs(i, {"created", "reweighted"}, 1, b)
           /\ VersionAt(i, b) \in 1 .. b
           /\ \A x \in Logs(i, {"created", "reweighted"}, 1, b) : x <= VersionAt(i, b)
<1> DEFINE L == Logs(i, {"created", "reweighted"}, 1, b)
<1>1. Height \in Nat /\ b \in 0 .. Height
    BY DEF ChainOK, Height
<1>2. i \in Created(b) /\ i \in Indices
    BY <1>1, CreatedGrows DEF Created
<1>3. VersionAt(i, b) \in L
    BY <1>1, <1>2, AssetsExist
<1>4. L \subseteq 0 .. b /\ L # {} /\ b \in Nat
    BY <1>1, <1>3 DEF Logs
<1>5. VersionAt(i, b) = Max(L)
    BY DEF VersionAt
<1>7. VersionAt(i, b) \in 1 .. b
    BY <1>3 DEF Logs
<1> HIDE DEF L
<1>6. \A x \in L : x <= Max(L)
    BY <1>4, GreatestBlock
<1> QED
    BY <1>2, <1>3, <1>5, <1>6, <1>7 DEF L

\* A composition that changed between two blocks was reweighted in between.
LEMMA VersionChanged ==
    ASSUME ChainOK, CreatedOnce, NEW from \in 0 .. Height, NEW read \in from .. Height,
           NEW i \in Created(from), VersionAt(i, read) # VersionAt(i, Height)
    PROVE  RebalanceHistory(i, from + 1) # {}
<1> DEFINE v == VersionAt(i, read)
           w == VersionAt(i, Height)
<1>1. Height \in Nat /\ from \in Nat /\ read \in Nat /\ from <= read /\ read <= Height
      /\ Height \in from .. Height /\ DOMAIN chain = 1 .. Height
    BY DEF ChainOK, Height
<1>2. /\ v \in Logs(i, {"created", "reweighted"}, 1, read) /\ v \in 1 .. read
      /\ \A x \in Logs(i, {"created", "reweighted"}, 1, read) : x <= v
    BY LogsFound
<1>3. /\ w \in Logs(i, {"created", "reweighted"}, 1, Height) /\ w \in 1 .. Height
      /\ \A x \in Logs(i, {"created", "reweighted"}, 1, Height) : x <= w
    BY <1>1, LogsFound
<1>4. v <= w
  <2>1. v \in Logs(i, {"created", "reweighted"}, 1, Height)
      BY <1>1, <1>2 DEF Logs
  <2> QED
      BY <1>3, <2>1
<1>5. w > read
  <2> SUFFICES ASSUME w <= read PROVE FALSE
      BY <1>1, <1>3
  <2>1. w \in Logs(i, {"created", "reweighted"}, 1, read)
      BY <1>1, <1>3 DEF Logs
  <2>2. w <= v
      BY <1>2, <2>1
  <2> QED
      BY <1>2, <1>3, <1>4, <2>2
<1>6. w \in DOMAIN chain /\ chain[w].index = i /\ chain[w].kind \in {"created", "reweighted"}
    BY <1>3 DEF Logs
<1>7. chain[w].kind # "created"
  <2>1. PICK c \in 1 .. from : c \in DOMAIN chain /\ chain[c].kind = "created" /\ chain[c].index = i
      BY DEF Created, Logs
  <2>2. c # w
      BY <1>1, <1>3, <1>5, <2>1
  <2> QED
      BY <1>6, <2>1, <2>2 DEF CreatedOnce
<1>8. w \in Logs(i, {"reweighted"}, from + 1, Height)
    BY <1>1, <1>3, <1>5, <1>6, <1>7 DEF Logs
<1> QED
    BY <1>8 DEF RebalanceHistory

\* The next log is one of them.
LEMMA EarliestLog ==
    ASSUME ChainOK, NEW b \in 0 .. Height, NEW S, S \subseteq Created(b), S # {}
    PROVE  Earliest(S) \in S
<1> DEFINE L(i) == Logs(i, {"created"}, 1, Height)
           D == {Min(L(i)) : i \in S}
<1>1. Height \in Nat
    BY DEF ChainOK, Height
<1>2. ASSUME NEW i \in S
      PROVE  Min(L(i)) \in Nat
  <2>1. L(i) \subseteq Nat /\ L(i) # {}
      BY <1>1, CreatedGrows DEF Logs, Created
  <2> HIDE DEF L
  <2>2. \E m \in L(i) : \A x \in L(i) : m <= x
      BY <2>1, LeastNat
  <2>3. Min(L(i)) \in L(i)
      BY <2>2 DEF Min
  <2> QED
      BY <2>1, <2>3
<1>3. D \subseteq Nat /\ D # {}
    BY <1>2
<1>4. PICK m \in D : \A x \in D : m <= x
  <2> HIDE DEF D
  <2> QED
      BY <1>3, LeastNat
<1>5. \E i \in S : \A j \in S : Min(L(i)) <= Min(L(j))
    BY <1>4
<1> HIDE DEF D
<1> QED
    BY <1>5 DEF Earliest

\* A new block changes nothing of what the scan has read.
LEMMA ScanStays ==
    ASSUME ScanInv, NEW e \in Events, Mine(e), UNCHANGED scan
    PROVE  ScanInv'
<1>1. ChainOK' /\ Height' = Height + 1 /\ Height \in Nat /\ DOMAIN chain = 1 .. Height
      /\ DOMAIN chain' = 1 .. Height + 1 /\ chain'[Height + 1] = e
      /\ \A x \in 1 .. Height : chain'[x] = chain[x]
    BY PastStays DEF ScanInv, Mine, ChainOK, Height
<1>2. CreatedOnce'
  <2> SUFFICES ASSUME NEW x \in 1 .. Height + 1, NEW y \in 1 .. Height + 1,
                      chain'[x].kind = "created", chain'[y].kind = "created",
                      chain'[x].index = chain'[y].index, x # y
               PROVE  FALSE
      BY <1>1 DEF CreatedOnce
  <2>1. \A z \in 1 .. Height : ~ (e.kind = "created" /\ chain[z].kind = "created"
                                  /\ chain[z].index = e.index)
    <3> SUFFICES ASSUME NEW z \in 1 .. Height, e.kind = "created", chain[z].kind = "created",
                        chain[z].index = e.index
                 PROVE  FALSE
        OBVIOUS
    <3>1. e.index \in Indices
        BY DEF Events, NoEvent, Compositions, Quotes
    <3>2. z \in Logs(e.index, {"created"}, 1, Height)
        BY <1>1 DEF Logs
    <3>3. e.index \in Created(Height)
        BY <3>1, <3>2 DEF Created
    <3> QED
        BY <3>3 DEF Mine
  <2>2. CASE x \in 1 .. Height /\ y \in 1 .. Height
      BY <1>1, <2>2 DEF ScanInv, CreatedOnce
  <2>3. CASE x = Height + 1
    <3>1. y \in 1 .. Height
        BY <1>1, <2>3
    <3> QED
        BY <1>1, <2>1, <2>3, <3>1
  <2>4. CASE y = Height + 1
    <3>1. x \in 1 .. Height
        BY <1>1, <2>4
    <3> QED
        BY <1>1, <2>1, <2>4, <3>1
  <2> QED
      BY <1>1, <2>2, <2>3, <2>4
<1>3. ScanOK(scan) /\ scan \in ScanType /\ scan.from \in Nat /\ scan.read \in Nat
    BY DEF ScanInv, ScanOK, ScanType
<1>4. \A b \in 0 .. Height : Created(b)' = Created(b)
  <2> SUFFICES ASSUME NEW b \in 0 .. Height PROVE Created(b)' = Created(b)
      OBVIOUS
  <2>1. \A i \in Indices : (i \in Created(b)) <=> (i \in Created(b)')
      BY PastStays DEF ScanInv
  <2> QED
      BY <2>1 DEF Created
<1>5. scan.pc \notin {"idle", "failed"} => Partitioned(scan)'
    BY <1>1, <1>3, <1>4 DEF ScanOK, Partitioned, Named, Asked
<1>6. ASSUME NEW i \in Indices, scan.pc \notin {"idle", "failed"}, i \in Created(scan.from),
             NEW b \in Nat, scan.from <= b, b <= Height
      PROVE  AssetsAt(i, b)' = AssetsAt(i, b) /\ VersionAt(i, b)' = VersionAt(i, b)
  <2>1. b \in 0 .. Height /\ i \in Created(b)
      BY <1>1, <1>3, <1>6, CreatedGrows DEF ScanInv
  <2> QED
      BY <2>1, PastStays DEF ScanInv
<1>7. ASSUME NEW itp \in scan.itps
      PROVE  ItpOK(itp, scan.from)'
  <2>1. /\ scan.pc \notin {"idle", "failed"} /\ itp \in ItpType
        /\ itp.index \in Created(scan.from) /\ itp.index \in Indices /\ itp.read \in Nat
      BY <1>3 DEF ScanOK, Partitioned, Named, ScanType, ItpType
  <2> SUFFICES ASSUME itp.composed
               PROVE  /\ scan.from <= itp.read /\ itp.read <= Height'
                      /\ itp.assets = AssetsAt(itp.index, itp.read)'
                      /\ VersionAt(itp.index, itp.read)' # itp.version
                             => RebalanceHistory(itp.index, scan.from + 1)' # {}
      BY DEF ItpOK
  <2>2. /\ scan.from <= itp.read /\ itp.read <= Height
        /\ itp.assets = AssetsAt(itp.index, itp.read)
        /\ VersionAt(itp.index, itp.read) # itp.version
               => RebalanceHistory(itp.index, scan.from + 1) # {}
      BY <1>3 DEF ScanOK, ItpOK
  <2>3. /\ AssetsAt(itp.index, itp.read)' = AssetsAt(itp.index, itp.read)
        /\ VersionAt(itp.index, itp.read)' = VersionAt(itp.index, itp.read)
      BY <1>6, <2>1, <2>2
  <2>4. RebalanceHistory(itp.index, scan.from + 1) \subseteq RebalanceHistory(itp.index, scan.from + 1)'
      BY <1>1, <1>3 DEF RebalanceHistory, Logs
  <2> QED
      BY <1>1, <2>1, <2>2, <2>3, <2>4
<1>8. ASSUME scan.pc = "weights"
      PROVE  /\ scan.from <= scan.read /\ scan.read <= Height'
             /\ scan.assets = AssetsAt(scan.cur, scan.read)'
  <2>1. /\ scan.from <= scan.read /\ scan.read <= Height
        /\ scan.assets = AssetsAt(scan.cur, scan.read)
        /\ scan.cur \in Created(scan.from) /\ scan.cur \in Indices
      BY <1>3, <1>8 DEF ScanOK, Partitioned, Asked, Created
  <2>2. AssetsAt(scan.cur, scan.read)' = AssetsAt(scan.cur, scan.read)
      BY <1>3, <1>6, <1>8, <2>1
  <2> QED
      BY <1>1, <1>3, <2>1, <2>2
<1>9. ScanOK(scan)'
    BY <1>3, <1>5, <1>7, <1>8 DEF ScanOK
<1> QED
    BY <1>1, <1>2, <1>9 DEF ScanInv

\* The scan moves on.
LEMMA ScanMoves ==
    ASSUME ScanInv, UNCHANGED chain, NEW new, scan' = new, ScanOK(new)
    PROVE  ScanInv'
<1>1. Created(new.from)' = Created(new.from) /\ Height' = Height
    BY DEF Created, Logs, Height
<1>2. Partitioned(new)' <=> Partitioned(new)
    BY <1>1 DEF Partitioned, Named, Asked
<1>3. \A itp \in new.itps : ItpOK(itp, new.from)' <=> ItpOK(itp, new.from)
    BY <1>1 DEF ItpOK, RebalanceHistory, AssetsAt, VersionAt, Logs, Height
<1>4. AssetsAt(new.cur, new.read)' = AssetsAt(new.cur, new.read)
    BY DEF AssetsAt, VersionAt, Logs
<1>5. ScanOK(new)'
    BY <1>1, <1>2, <1>3, <1>4 DEF ScanOK
<1> QED
    BY <1>5 DEF ScanInv, ChainOK, CreatedOnce

\* The logs are read.
LEMMA ScanLogsOK ==
    ASSUME ScanInv, UNCHANGED chain, ScanLogs
    PROVE  ScanInv'
<1> DEFINE new == [scan EXCEPT !.pc = "next", !.todo = Created(Height), !.from = Height]
<1>1. /\ ScanOK(scan) /\ scan \in ScanType /\ scan.pc = "idle" /\ scan' = new /\ Height \in Nat
      /\ Created(Height) \in SUBSET Indices
    BY DEF ScanInv, ScanOK, ScanLogs, ChainOK, Height, Created
<1>2. scan.itps = {} /\ scan.dropped = {}
    BY <1>1 DEF ScanOK
<1>3. /\ new \in ScanType /\ new.pc = "next" /\ new.todo = Created(Height) /\ new.from = Height
      /\ new.itps = {} /\ new.dropped = {}
    BY <1>1, <1>2 DEF ScanType
<1> HIDE DEF new
<1>4. Partitioned(new)
    BY <1>1, <1>3 DEF Partitioned, Named, Asked
<1>5. ScanOK(new)
    BY <1>3, <1>4 DEF ScanOK
<1> QED
    BY <1>1, <1>5, ScanMoves

LEMMA ScanLogsFailOK ==
    ASSUME ScanInv, UNCHANGED chain, ScanLogsFail
    PROVE  ScanInv'
<1> DEFINE new == [scan EXCEPT !.pc = "failed"]
<1>1. ScanOK(scan) /\ scan \in ScanType /\ scan.pc = "idle" /\ scan' = new
    BY DEF ScanInv, ScanOK, ScanLogsFail
<1>2. /\ scan.itps = {} /\ scan.dropped = {} /\ scan.accepted = {} /\ scan.rejected = {}
    BY <1>1 DEF ScanOK
<1>3. /\ new \in ScanType /\ new.pc = "failed"
      /\ new.itps = {} /\ new.dropped = {} /\ new.accepted = {} /\ new.rejected = {}
    BY <1>1, <1>2 DEF ScanType
<1> HIDE DEF new
<1>4. ScanOK(new)
    BY <1>3 DEF ScanOK
<1> QED
    BY <1>1, <1>4, ScanMoves

\* The next log: its index is asked for, or dropped.
LEMMA NextLog ==
    ASSUME ScanInv, scan.pc = "next", scan.todo # {}
    PROVE  Earliest(scan.todo) \in scan.todo /\ Earliest(scan.todo) \in Indices
                                             /\ Earliest(scan.todo) \in Nat
<1>1. ScanOK(scan) /\ scan \in ScanType /\ Partitioned(scan) /\ ChainOK
    BY DEF ScanInv, ScanOK
<1>2. scan.from \in 0 .. Height /\ scan.todo \subseteq Created(scan.from) /\ scan.todo \subseteq Indices
    BY <1>1 DEF Partitioned, ScanType, ChainOK, Height
<1> QED
    BY <1>1, <1>2, EarliestLog, CastleAssumption

LEMMA ScanVaultOK ==
    ASSUME ScanInv, UNCHANGED chain, ScanVault
    PROVE  ScanInv'
<1> DEFINE i == Earliest(scan.todo)
           new == [scan EXCEPT !.pc = "assets", !.cur = i, !.todo = scan.todo \ {i}]
<1>1. /\ ScanOK(scan) /\ scan \in ScanType /\ scan.pc = "next" /\ scan' = new
      /\ i \in scan.todo /\ i \in Indices /\ i \in Nat
    BY NextLog DEF ScanInv, ScanOK, ScanVault
<1> HIDE DEF i
<1>2. /\ new \in ScanType /\ new.pc = "assets" /\ new.cur = i /\ new.todo = scan.todo \ {i}
      /\ new.from = scan.from /\ new.itps = scan.itps /\ new.dropped = scan.dropped
    BY <1>1 DEF ScanType
<1> HIDE DEF new
<1>3. Partitioned(new)
    BY <1>1, <1>2 DEF ScanOK, Partitioned, Named, Asked
<1>4. ScanOK(new)
    BY <1>1, <1>2, <1>3 DEF ScanOK
<1> QED
    BY <1>1, <1>4, ScanMoves

LEMMA ScanVaultFailsOK ==
    ASSUME ScanInv, UNCHANGED chain, ScanVaultFails
    PROVE  ScanInv'
<1> DEFINE i == Earliest(scan.todo)
           new == [scan EXCEPT !.todo = scan.todo \ {i}, !.dropped = scan.dropped \cup {i}]
<1>1. /\ ScanOK(scan) /\ scan \in ScanType /\ scan.pc = "next" /\ scan' = new
      /\ i \in scan.todo /\ i \in Indices /\ i \in Nat
    BY NextLog DEF ScanInv, ScanOK, ScanVaultFails
<1> HIDE DEF i
<1>2. /\ new \in ScanType /\ new.pc = "next" /\ new.dropped = scan.dropped \cup {i}
      /\ new.todo = scan.todo \ {i} /\ new.from = scan.from /\ new.itps = scan.itps
    BY <1>1 DEF ScanType
<1> HIDE DEF new
<1>3. Partitioned(new)
    BY <1>1, <1>2 DEF ScanOK, Partitioned, Named, Asked
<1>4. ScanOK(new)
    BY <1>1, <1>2, <1>3 DEF ScanOK
<1> QED
    BY <1>1, <1>4, ScanMoves

\* The index that is asked for.
LEMMA BeingAsked ==
    ASSUME ScanInv, scan.pc \in {"assets", "weights"}
    PROVE  /\ ScanOK(scan) /\ scan \in ScanType /\ Partitioned(scan) /\ Height \in Nat
           /\ scan.from \in 0 .. Height /\ Height \in scan.from .. Height
           /\ scan.cur \in Created(scan.from) /\ scan.cur \in Created(Height) /\ scan.cur \in Indices
<1>1. /\ ScanOK(scan) /\ scan \in ScanType /\ Partitioned(scan) /\ ChainOK /\ Height \in Nat
      /\ scan.from \in Nat /\ scan.from <= Height /\ scan.cur \in Created(scan.from)
    BY DEF ScanInv, ScanOK, ScanType, Partitioned, Asked, ChainOK, Height
<1>2. scan.from \in 0 .. Height /\ Height \in scan.from .. Height
    BY <1>1
<1> QED
    BY <1>1, <1>2, LogsFound

LEMMA ScanAssetsOK ==
    ASSUME ScanInv, UNCHANGED chain, ScanAssets
    PROVE  ScanInv'
<1> DEFINE assets == AssetsAt(scan.cur, Height)
           new == [scan EXCEPT !.pc = "weights", !.assets = assets, !.read = Height]
<1>1. /\ ScanOK(scan) /\ scan \in ScanType /\ Partitioned(scan) /\ Height \in Nat
      /\ scan.pc = "assets" /\ scan' = new
      /\ scan.from <= Height
    BY BeingAsked DEF ScanAssets
<1>2. assets \in SUBSET Assets
  <2>1. Height \in 0 .. Height /\ scan.cur \in Created(Height)
      BY <1>1, BeingAsked
  <2>2. assets \in Baskets
      BY <2>1, AssetsExist DEF ScanInv
  <2> QED
      BY <2>2 DEF Assets
<1> HIDE DEF assets
<1>3. /\ new \in ScanType /\ new.pc = "weights" /\ new.assets = assets /\ new.read = Height
      /\ new.cur = scan.cur /\ new.from = scan.from /\ new.todo = scan.todo
      /\ new.itps = scan.itps /\ new.dropped = scan.dropped
    BY <1>1, <1>2 DEF ScanType
<1> HIDE DEF new
<1>4. Partitioned(new)
    BY <1>1, <1>3 DEF Partitioned, Named, Asked
<1>5. ScanOK(new)
    BY <1>1, <1>3, <1>4 DEF ScanOK, assets
<1> QED
    BY <1>1, <1>5, ScanMoves

\* An ITP is made.
LEMMA DiscoveredOK ==
    ASSUME ScanInv, UNCHANGED chain, scan.pc \in {"assets", "weights"},
           NEW itp \in ItpType, itp.index = scan.cur, ItpOK(itp, scan.from), Discovered(itp)
    PROVE  ScanInv'
<1> DEFINE new == [scan EXCEPT !.pc = "next", !.itps = scan.itps \cup {itp}]
<1>1. ScanOK(scan) /\ scan \in ScanType /\ Partitioned(scan) /\ scan' = new
    BY BeingAsked DEF Discovered
<1>2. /\ new \in ScanType /\ new.pc = "next" /\ new.itps = scan.itps \cup {itp}
      /\ new.from = scan.from /\ new.todo = scan.todo /\ new.dropped = scan.dropped
    BY <1>1 DEF ScanType
<1> HIDE DEF new
<1>3. Named(new.itps) = Named(scan.itps) \cup {scan.cur}
    BY <1>2 DEF Named
<1>4. \A x, y \in new.itps : x.index = y.index => x = y
  <2>1. \A x \in scan.itps : x.index # scan.cur
      BY <1>1 DEF Partitioned, Asked, Named
  <2> QED
      BY <1>1, <1>2, <2>1 DEF Partitioned
<1>5. Partitioned(new)
    BY <1>1, <1>2, <1>3, <1>4 DEF Partitioned, Asked
<1>6. ScanOK(new)
    BY <1>1, <1>2, <1>5 DEF ScanOK
<1> QED
    BY <1>1, <1>6, ScanMoves

LEMMA ScanWeightsOK ==
    ASSUME ScanInv, UNCHANGED chain, ScanWeights
    PROVE  ScanInv'
<1> DEFINE version == VersionAt(scan.cur, Height)
           itp == Itp(scan.cur, scan.assets, scan.read, version)
<1>1. /\ ScanOK(scan) /\ scan \in ScanType /\ scan.pc = "weights" /\ Height \in Nat
      /\ scan.from \in 0 .. Height /\ scan.cur \in Created(scan.from) /\ scan.cur \in Indices
      /\ Discovered(itp)
    BY BeingAsked DEF ScanWeights
<1>2. /\ scan.from <= scan.read /\ scan.read <= Height /\ scan.read \in Nat
      /\ scan.assets = AssetsAt(scan.cur, scan.read) /\ scan.assets \in SUBSET Assets
    BY <1>1 DEF ScanOK, ScanType
<1>3. version \in Nat
  <2>1. Height \in scan.from .. Height
      BY <1>1
  <2>2. version \in 1 .. Height
      BY <1>1, <2>1, LogsFound DEF ScanInv
  <2> QED
      BY <2>2
<1>4. VersionAt(scan.cur, scan.read) # version => RebalanceHistory(scan.cur, scan.from + 1) # {}
  <2>1. scan.read \in scan.from .. Height
      BY <1>1, <1>2
  <2> QED
      BY <1>1, <2>1, VersionChanged DEF ScanInv
<1> HIDE DEF version
<1>5. /\ itp \in ItpType /\ itp.index = scan.cur /\ itp.composed /\ itp.assets = scan.assets
      /\ itp.read = scan.read /\ itp.version = version
    BY <1>1, <1>2, <1>3 DEF Itp, ItpType
<1> HIDE DEF itp
<1>6. ItpOK(itp, scan.from)
    BY <1>2, <1>4, <1>5 DEF ItpOK
<1> QED
    BY <1>1, <1>5, <1>6, DiscoveredOK

LEMMA ScanCompositionFailsOK ==
    ASSUME ScanInv, UNCHANGED chain, ScanCompositionFails
    PROVE  ScanInv'
<1> DEFINE itp == WithoutComposition(scan.cur)
<1>1. scan.pc \in {"assets", "weights"} /\ Discovered(itp) /\ scan.cur \in Indices
    BY BeingAsked DEF ScanCompositionFails
<1>2. itp \in ItpType /\ itp.index = scan.cur /\ ~ itp.composed
    BY <1>1 DEF WithoutComposition, NoBasket, ItpType
<1> HIDE DEF itp
<1>3. ItpOK(itp, scan.from)
    BY <1>2 DEF ItpOK
<1> QED
    BY <1>1, <1>2, <1>3, DiscoveredOK

LEMMA ClassifyOK ==
    ASSUME ScanInv, UNCHANGED chain, Classify
    PROVE  ScanInv'
<1> DEFINE ok == {itp \in scan.itps : Supported(itp)}
           new == [scan EXCEPT !.pc = "done", !.accepted = ok, !.rejected = scan.itps \ ok]
<1>1. /\ ScanOK(scan) /\ scan \in ScanType /\ scan.pc = "next" /\ scan.todo = {} /\ scan' = new
      /\ ok \subseteq scan.itps
    BY DEF ScanInv, ScanOK, Classify
<1> HIDE DEF ok
<1>2. /\ new \in ScanType /\ new.pc = "done" /\ new.accepted = ok /\ new.rejected = scan.itps \ ok
      /\ new.itps = scan.itps /\ new.from = scan.from /\ new.todo = scan.todo
      /\ new.dropped = scan.dropped
    BY <1>1 DEF ScanType
<1> HIDE DEF new
<1>3. Partitioned(new)
    BY <1>1, <1>2 DEF ScanOK, Partitioned, Asked
<1>4. ScanOK(new)
    BY <1>1, <1>2, <1>3 DEF ScanOK, ok
<1> QED
    BY <1>1, <1>4, ScanMoves

LEMMA InitScan == Init => ScanInv
<1> SUFFICES ASSUME Init PROVE ScanInv
    OBVIOUS
<1>1. chain = <<>> /\ scan = NoScan
    BY DEF Init, SyncInit
<1>2. ChainOK /\ CreatedOnce
    BY <1>1 DEF ChainOK, CreatedOnce
<1>3. NoScan \in ScanType
    BY DEF NoScan, NoBasket, ScanType
<1>4. ScanOK(NoScan)
    BY <1>3 DEF ScanOK, NoScan
<1> QED
    BY <1>1, <1>2, <1>4 DEF ScanInv

LEMMA NextScan == ScanInv /\ [Next]_vars => ScanInv'
<1> SUFFICES ASSUME ScanInv, [Next]_vars PROVE ScanInv'
    OBVIOUS
<1>1. CASE \E e \in Events : Block(e)
    BY <1>1, ScanStays DEF Block, syncVars
<1>2. CASE Scan
  <2>1. UNCHANGED chain /\ ScanStep
      BY <1>2 DEF Scan
  <2> QED
      BY <2>1, ScanLogsOK, ScanLogsFailOK, ScanVaultOK, ScanVaultFailsOK, ScanAssetsOK,
         ScanWeightsOK, ScanCompositionFailsOK, ClassifyOK DEF ScanStep
<1>3. CASE UNCHANGED <<chain, scan>>
    BY <1>3, ScanMoves DEF ScanInv
<1>4. CASE Quote
    BY <1>3, <1>4 DEF Quote, QuoteStep, QuoteHead, QuoteLogs, Verdict, QuoteFails
<1>5. CASE RegisterAccepted \/ Extraction \/ Refresh \/ FirstVaults \/ AddVaults \/ UNCHANGED vars
    BY <1>3, <1>5 DEF RegisterAccepted, Extraction, Refresh, FirstVaults, AddVaults, vars, syncVars
<1> QED
    BY <1>1, <1>2, <1>4, <1>5 DEF Next

\* Whatever the chain does while the scan reads it: every index created before it
\* began is accepted or rejected, or the question for its vault failed; what is
\* accepted had at some block of the scan only assets the service knows; and
\* weights of another composition than the assets show in the rebalance history.
THEOREM Discovery == Spec => []DiscoveryConsistent
<1>1. ScanInv => DiscoveryConsistent
  <2> SUFFICES ASSUME ScanInv PROVE DiscoveryConsistent
      OBVIOUS
  <2>1. ScanOK(scan) /\ scan \in ScanType /\ Height \in Nat
      BY DEF ScanInv, ScanOK, ChainOK, Height
  <2>2. \A itp \in scan.itps :
            itp.composed /\ VersionAt(itp.index, itp.read) # itp.version
                => RebalanceHistory(itp.index, scan.from + 1) # {}
      BY <2>1 DEF ScanOK, ItpOK
  <2>3. ASSUME scan.pc = "done"
        PROVE  /\ Named(scan.accepted) \cap Named(scan.rejected) = {}
               /\ Named(scan.accepted) \cup Named(scan.rejected) = Created(scan.from) \ scan.dropped
               /\ \A i \in Named(scan.accepted) :
                      \E b \in scan.from .. Height : AssetsAt(i, b) \subseteq Known
    <3>1. /\ Partitioned(scan) /\ scan.todo = {} /\ Asked(scan) = {}
          /\ scan.accepted = {itp \in scan.itps : Supported(itp)}
          /\ scan.rejected = scan.itps \ scan.accepted
        BY <2>1, <2>3 DEF ScanOK, Asked
    <3>2. Named(scan.accepted) \cap Named(scan.rejected) = {}
        BY <3>1 DEF Partitioned, Named
    <3>3. Named(scan.accepted) \cup Named(scan.rejected) = Named(scan.itps)
        BY <3>1 DEF Named
    <3>4. Named(scan.itps) = Created(scan.from) \ scan.dropped
        BY <3>1 DEF Partitioned
    <3>5. ASSUME NEW itp \in scan.accepted
          PROVE  \E b \in scan.from .. Height : AssetsAt(itp.index, b) \subseteq Known
      <4>1. itp \in scan.itps /\ itp.composed /\ itp.assets \subseteq Known
          BY <3>1, <3>5 DEF Supported, Unknown
      <4>2. /\ scan.from <= itp.read /\ itp.read <= Height
            /\ itp.assets = AssetsAt(itp.index, itp.read)
          BY <2>1, <4>1 DEF ScanOK, ItpOK
      <4>3. itp.read \in scan.from .. Height
          BY <2>1, <4>1, <4>2 DEF ScanType, ItpType
      <4> QED
          BY <4>1, <4>2, <4>3
    <3> QED
        BY <3>2, <3>3, <3>4, <3>5 DEF Named
  <2> QED
      BY <2>2, <2>3 DEF DiscoveryConsistent, Named
<1> QED
    BY <1>1, InitScan, NextScan, PTL DEF Spec

-----------------------------------------------------------------------------
(* Who knows which vault                                                    *)

RefreshType == [pc : {"idle", "vaults", "failed"}, todo : SUBSET Indices, found : SUBSET Indices]

DirectoryInv ==
    /\ Height <= MaxHeight
    /\ \A e, f \in assetCache : e.index = f.index => e = f
    /\ refresh \in RefreshType
    /\ refresh.found \subseteq known
    /\ known \subseteq Indices
    /\ registered \subseteq Indices \cup {Config}
    /\ watched \subseteq known \cup {Config}

LEMMA InitDirectory == Init => DirectoryInv
<1> SUFFICES ASSUME Init PROVE DirectoryInv
    OBVIOUS
<1>1. /\ chain = <<>> /\ assetCache = {} /\ known = {} /\ registered = {} /\ watched = {}
      /\ refresh = [pc |-> "idle", todo |-> {}, found |-> {}]
    BY DEF Init, StewardInit
<1>2. Height <= MaxHeight
    BY <1>1, CastleAssumption DEF Height
<1>3. refresh \in RefreshType /\ refresh.found = {}
    BY <1>1 DEF RefreshType
<1> QED
    BY <1>1, <1>2, <1>3 DEF DirectoryInv

\* Only an answer from the chain changes the cache: it takes the place of the entry
\* of its index.
LEMMA ExtractionDirectory ==
    ASSUME DirectoryInv, Extraction
    PROVE  DirectoryInv'
<1>1. UNCHANGED <<chain, mainVars>>
    BY DEF Extraction
<1>2. PICK t \in Tasks :
          \/ \E S \in SUBSET Created(Height) \ {{}} : StartExtraction(t, S)
          \/ ExtractionStep(t)
    BY DEF Extraction
<1>3. UNCHANGED <<refresh, known>>
    BY <1>2 DEF StartExtraction, ExtractionStep, CacheHit, CacheMiss, Answer, Insert, CallFails, Extracted
<1>4. \A e, f \in assetCache' : e.index = f.index => e = f
  <2>1. CASE Insert(t)
    <3>1. PICK new : assetCache' = {f \in assetCache : f.index # new.index} \cup {new}
        BY <2>1 DEF Insert
    <3> QED
        BY <3>1 DEF DirectoryInv
  <2>2. CASE ~ Insert(t)
    <3>1. assetCache' = assetCache
        BY <1>2, <2>2 DEF StartExtraction, ExtractionStep, CacheHit, CacheMiss, Answer, CallFails, Extracted
    <3> QED
        BY <3>1 DEF DirectoryInv
  <2> QED
      BY <2>1, <2>2
<1> QED
    BY <1>1, <1>3, <1>4 DEF DirectoryInv, mainVars, Height

\* What a refresh finds is known.
LEMMA RefreshDirectory ==
    ASSUME DirectoryInv, Refresh
    PROVE  DirectoryInv'
<1>1. UNCHANGED <<chain, assetCache, mainVars>> /\ refresh \in RefreshType
    BY DEF Refresh, RefreshStep, RefreshLogs, RefreshFails, RefreshVault, DirectoryInv
<1>2. CASE RefreshLogs
  <2>1. Created(Height) \subseteq Indices
      BY DEF Created
  <2>2. refresh' \in RefreshType /\ refresh'.found = {} /\ known' = known
      BY <1>2, <2>1 DEF RefreshLogs, RefreshType
  <2> QED
      BY <1>1, <2>2 DEF DirectoryInv, mainVars, Height
<1>3. CASE RefreshFails
  <2>1. refresh' \in RefreshType /\ refresh'.found = {} /\ known' = known
      BY <1>1, <1>3 DEF RefreshFails, RefreshType
  <2> QED
      BY <1>1, <2>1 DEF DirectoryInv, mainVars, Height
<1>4. CASE RefreshVault
  <2>1. PICK i \in refresh.todo :
            /\ refresh' = [refresh EXCEPT !.todo = refresh.todo \ {i}, !.found = refresh.found \cup {i}]
            /\ known' = known \cup {i}
      BY <1>4 DEF RefreshVault, QueriedVault, VaultFromLog
  <2>2. i \in Indices
      BY <1>1 DEF RefreshType
  <2>3. refresh' \in RefreshType /\ refresh'.found = refresh.found \cup {i}
      BY <1>1, <2>1, <2>2 DEF RefreshType
  <2> QED
      BY <1>1, <2>1, <2>2, <2>3 DEF DirectoryInv, mainVars, Height
<1> QED
    BY <1>2, <1>3, <1>4 DEF Refresh, RefreshStep

LEMMA NextDirectory ==
    ASSUME ScanInv, DirectoryInv, [Next]_vars
    PROVE  DirectoryInv'
<1>1. ASSUME NEW e \in Events, Block(e)
      PROVE  DirectoryInv'
  <2>1. Height < MaxHeight /\ Height' = Height + 1 /\ Height \in Nat /\ MaxHeight \in Nat
      BY <1>1, CastleAssumption, PastStays DEF Block, Mine, ScanInv, ChainOK, Height
  <2>2. UNCHANGED <<assetCache, refresh, known, registered, watched>>
      BY <1>1 DEF Block, stewardVars, mainVars
  <2> QED
      BY <2>1, <2>2 DEF DirectoryInv
<1>2. CASE RegisterAccepted
  <2>1. ScanOK(scan) /\ scan \in ScanType /\ scan.pc \in {"done", "failed"}
      BY <1>2 DEF ScanInv, ScanOK, RegisterAccepted
  <2>2. {itp.index : itp \in scan.accepted} \subseteq Indices
      BY <2>1 DEF ScanType, ItpType
  <2>3. registered' \subseteq Indices \cup {Config}
      BY <1>2, <2>2 DEF RegisterAccepted, Registered, DirectoryInv
  <2> QED
      BY <1>2, <2>3 DEF RegisterAccepted, DirectoryInv, stewardVars, Height
<1>3. CASE FirstVaults \/ AddVaults
  <2>1. refresh.found \subseteq known /\ watched \subseteq known \cup {Config}
      BY DEF DirectoryInv
  <2>2. watched' \subseteq known \cup {Config}
      BY <1>3, <2>1 DEF FirstVaults, AddVaults
  <2>3. AtRest \in RefreshType /\ AtRest.found = {}
      BY DEF AtRest, RefreshType
  <2> QED
      BY <1>3, <2>2, <2>3 DEF FirstVaults, AddVaults, DirectoryInv, Height
<1>4. CASE Scan \/ Quote \/ UNCHANGED vars
    BY <1>4 DEF Scan, Quote, vars, stewardVars, mainVars, DirectoryInv, Height
<1> QED
    BY <1>1, <1>2, <1>3, <1>4, ExtractionDirectory, RefreshDirectory DEF Next

\* Types; an index has one entry in the shared cache, and what the listener watches
\* is known to the client that found it, however the readers' steps and the blocks
\* of the chain alternate.
THEOREM DirectoryTypeCorrect == Spec => []DirectoryTypeOK
<1> DEFINE I == Inv /\ QuoteInv /\ ScanInv /\ DirectoryInv
<1>1. Init => I
    BY InitInv, InitQuote, InitScan, InitDirectory
<1>2. I /\ [Next]_vars => I'
    BY NextInv, NextQuote, NextScan, NextDirectory
<1>3. I => DirectoryTypeOK
  <2> SUFFICES ASSUME I PROVE DirectoryTypeOK
      OBVIOUS
  <2>1. chain \in Seq(Events) /\ Height <= MaxHeight
      BY DEF ScanInv, ChainOK, DirectoryInv
  <2>2. /\ scan.pc \in {"idle", "next", "assets", "weights", "done", "failed"}
        /\ quote.pc \in {"idle", "logs", "age", "fresh", "stale", "failed"}
        /\ refresh.pc \in {"idle", "vaults", "failed"}
      BY DEF ScanInv, ScanOK, ScanType, QuoteInv, QuoteOK, QuoteType, DirectoryInv, RefreshType
  <2>3. assetCache \subseteq Entry
      BY DEF Inv, EntryOK
  <2>4. \A t \in Tasks : task[t].pc \in {"idle", "next", "call", "insert", "sent", "failed"}
      BY DEF Inv, TaskOK, TaskType
  <2> QED
      BY <2>1, <2>2, <2>3, <2>4 DEF DirectoryTypeOK, DirectoryInv
<1> QED
    BY <1>1, <1>2, <1>3, PTL DEF Spec

\* What holds of EveryVaultWatched without fairness: a vault once watched stays so,
\* whatever later refreshes find or fail to find.
THEOREM WatchedForGood == Spec => [][watched \subseteq watched']_vars
<1>1. [Next]_vars => (watched \subseteq watched') \/ UNCHANGED vars
  <2> SUFFICES ASSUME Next
               PROVE  watched \subseteq watched'
      OBVIOUS
  <2>1. CASE FirstVaults \/ AddVaults
      BY <2>1 DEF FirstVaults, AddVaults
  <2>2. CASE ~ (FirstVaults \/ AddVaults)
      BY <2>2 DEF Next, Block, Scan, RegisterAccepted, Quote, Extraction, Refresh, mainVars
  <2> QED
      BY <2>1, <2>2
<1> QED
    BY <1>1, PTL DEF Spec

===============================================================================
