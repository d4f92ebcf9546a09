---------------------------- MODULE StewardClient ----------------------------
(***************************************************************************)
(* The Keeper's StewardClient (chain/steward_client.rs): the cache of asset *)
(* lists that concurrent batch tasks share through the AssetExtractor       *)
(* (assets/extractor.rs), and the refresh of the vault list.               *)
(***************************************************************************)
EXTENDS Castle

CONSTANTS
    Tasks,      \* bound: the batch tasks, each extracting one batch
    TTL         \* cache_ttl_secs, in blocks

ASSUME StewardAssumption == IsFiniteSet(Tasks) /\ TTL \in Nat \ {0}

VARIABLES
    assetCache,   \* asset_cache: the entries
    task,         \* extract_assets_for_batch() of each task
    refresh,      \* refresh_vault_list() in progress
    known         \* known_vaults

stewardVars == <<assetCache, task, refresh, known>>

\* asked: the block at which the call began that filled the entry.
Entry == [index : Indices, assets : Baskets, asked : Nat, at : Nat]

\* all: all_assets, the union so far; from: the entries it was made of, each with
\* the block at which it was handed out.
NoTask == [pc |-> "idle", batch |-> {}, todo |-> {}, cur |-> 0, asked |-> 0,
           answer |-> {}, all |-> {}, from |-> {}, failed |-> {}]

StewardInit ==
    /\ assetCache = {}
    /\ task = [t \in Tasks |-> NoTask]
    /\ refresh = [pc |-> "idle", todo |-> {}, found |-> {}]
    /\ known = {}

-----------------------------------------------------------------------------
(* get_index_assets(), query_assets_from_chain()                            *)

\* Mutant: the age of an entry is not looked at.
LiveEver(entry) == TRUE

Live(entry) == Height - entry.at < TTL

Cached(i) == {entry \in assetCache : entry.index = i /\ Live(entry)}

\* The list of an index goes into the union of its batch.
Taken(rec, entry) ==
    [rec EXCEPT !.pc = "next", !.todo = @ \ {entry.index}, !.cur = 0,
                !.all = @ \cup entry.assets,
                !.from = @ \cup {[entry |-> entry, out |-> Height]}]

\* An index that cannot be asked for is left out of the batch.
LeftOut(rec) ==
    [rec EXCEPT !.pc = "next", !.todo = @ \ {rec.cur}, !.cur = 0, !.failed = @ \cup {rec.cur}]

\* The indices of a batch are asked for in the order of their ids.
StartExtraction(t, S) ==
    /\ task[t].pc = "idle"
    /\ task' = [task EXCEPT ![t] = [NoTask EXCEPT !.pc = "next", !.batch = S, !.todo = S]]
    /\ UNCHANGED <<assetCache, refresh, known>>

Ahead(t) == {i \in task[t].todo : \A j \in task[t].todo : i <= j}

CacheHit(t) ==
    /\ task[t].pc = "next"
    /\ \E i \in Ahead(t) : \E entry \in Cached(i) : task' = [task EXCEPT ![t] = Taken(@, entry)]
    /\ UNCHANGED <<assetCache, refresh, known>>

\* The lock of the cache is released before the chain is asked.
CacheMiss(t) ==
    /\ task[t].pc = "next"
    /\ \E i \in Ahead(t) :
          /\ Cached(i) = {}
          /\ task' = [task EXCEPT ![t] = [@ EXCEPT !.pc = "call", !.cur = i, !.asked = Height]]
    /\ UNCHANGED <<assetCache, refresh, known>>

Answer(t) ==
    /\ task[t].pc = "call"
    /\ task' = [task EXCEPT ![t] = [@ EXCEPT !.pc = "insert",
                                             !.answer = AssetsAt(task[t].cur, Height)]]
    /\ UNCHANGED <<assetCache, refresh, known>>

\* The answer replaces whatever another task has cached by now.
Insert(t) ==
    /\ task[t].pc = "insert"
    /\ LET entry == [index |-> task[t].cur, assets |-> task[t].answer,
                     asked |-> task[t].asked, at |-> Height] IN
       /\ assetCache' = {f \in assetCache : f.index # entry.index} \cup {entry}
       /\ task' = [task EXCEPT ![t] = [Taken(@, entry) EXCEPT !.answer = {}]]
    /\ UNCHANGED <<refresh, known>>

CallFails(t) ==
    /\ task[t].pc = "call"
    /\ task' = [task EXCEPT ![t] = LeftOut(@)]
    /\ UNCHANGED <<assetCache, refresh, known>>

\* Every index has been asked: an error if all of them failed, otherwise the list
\* goes to the Vendor.
Extracted(t) ==
    /\ task[t].pc = "next" /\ task[t].todo = {}
    /\ task' = [task EXCEPT ![t].pc = IF task[t].failed = task[t].batch THEN "failed" ELSE "sent"]
    /\ UNCHANGED <<assetCache, refresh, known>>

ExtractionStep(t) ==
    \/ CacheHit(t) \/ CacheMiss(t) \/ Answer(t) \/ Insert(t) \/ CallFails(t)
    \/ Extracted(t)

-----------------------------------------------------------------------------
(* refresh_vault_list(): one caller at a time                               *)

RefreshLogs ==
    /\ refresh.pc = "idle"
    /\ refresh' = [pc |-> "vaults", todo |-> Created(Height), found |-> {}]
    /\ UNCHANGED <<assetCache, task, known>>

RefreshFails ==
    /\ refresh.pc = "idle"
    /\ refresh' = [refresh EXCEPT !.pc = "failed", !.found = {}]
    /\ UNCHANGED <<assetCache, task, known>>

\* query_vault_from_chain(): getVault() answers, and the vault becomes known.
QueriedVault(i) == known' = known \cup {i}

\* Mutant: the vault taken from the log is not noted.
VaultFromLogUnknown(i) == UNCHANGED known

\* getVault() fails: the vault named by the log is taken.
VaultFromLog(i) == known' = known \cup {i}

\* Mutant: the first vault that cannot be asked for ends the refresh.
RefreshVaultStops ==
    /\ refresh.pc = "vaults" /\ refresh.todo # {}
    /\ \E i \in refresh.todo :
           \/ /\ refresh' = [refresh EXCEPT !.todo = @ \ {i}, !.found = @ \cup {i}]
              /\ QueriedVault(i)
           \/ /\ refresh' = [refresh EXCEPT !.pc = "failed", !.todo = {}, !.found = {}]
              /\ UNCHANGED known
    /\ UNCHANGED <<assetCache, task>>

\* The next vault of the logs is found either way.
RefreshVault ==
    /\ refresh.pc = "vaults" /\ refresh.todo # {}
    /\ \E i \in refresh.todo :
           /\ refresh' = [refresh EXCEPT !.todo = @ \ {i}, !.found = @ \cup {i}]
           /\ QueriedVault(i) \/ VaultFromLog(i)
    /\ UNCHANGED <<assetCache, task>>

RefreshStep == RefreshLogs \/ RefreshFails \/ RefreshVault

RefreshOk == refresh.pc = "vaults" /\ refresh.todo = {}

-----------------------------------------------------------------------------
(* Properties                                                              *)

\* An entry was the chain's list at some block between its request and the block
\* at which it was cached.
Honest(entry) == \E b \in entry.asked .. entry.at : entry.assets = AssetsAt(entry.index, b)

\* What a batch sends to the Vendor covers every index it does not list as
\* failed, with nothing else; each list in it was the chain's at some block between
\* its request and the time it was cached, and was taken less than the TTL after
\* that time, although tasks share and overwrite the cache while their requests are
\* under way.
SentAssetsFresh ==
    \A t \in Tasks : task[t].pc = "sent" =>
        LET got == {f.entry.index : f \in task[t].from} IN
        /\ got \cup task[t].failed = task[t].batch
        /\ got \cap task[t].failed = {}
        /\ task[t].all = UNION {f.entry.assets : f \in task[t].from}
        /\ \A f \in task[t].from : Honest(f.entry) /\ f.out < f.entry.at + TTL

===============================================================================
