------------------------------ MODULE EventCache ------------------------------
(***************************************************************************)
(* The event cache of libs/common: EventWatcher, which syncs two kinds of   *)
(* events through EventIndexer, EventCacheManager, which saves them, and    *)
(* the readers of SharedEventCache.                                        *)
(*                                                                         *)
(* The chain is a sequence of blocks, a block the sequence of its events of *)
(* interest.  An event is identified by its place; an event cached is one   *)
(* of its fields' worth of data, which never changes.                       *)
(***************************************************************************)
EXTENDS Naturals, Sequences, FiniteSets, FiniteSetsExt

CONSTANTS
    Contents,     \* what a block may hold: sequences of [kind, tx]
    StartBlock,   \* IndexerConfig::start_block
    MaxHeight,    \* bound: length of the chain
    MaxCrashes    \* bound: how many times the process ends

Kinds == {"index", "pair"}

ASSUME CacheAssumption ==
    /\ \A c \in Contents : c \in Seq([kind : Kinds, tx : Nat])
    /\ {StartBlock, MaxHeight, MaxCrashes} \subseteq Nat

VARIABLES
    log,       \* the chain
    cache,     \* EventWatcher::cache: per kind its events and the last synced block
    pc,        \* where the watcher stands
    toSave,    \* this sync is initial_sync(), or it has found new events
    disk,      \* the cache file
    tmp,       \* the temporary file beside it
    reader,    \* a SharedEventCache of another service, loaded from the file
    crashes

worldVars == <<log, crashes>>
fileVars == <<disk, tmp>>
vars == <<worldVars, cache, pc, toSave, fileVars, reader>>

Blocks == DOMAIN log

EmptyCache == [k \in Kinds |-> [events |-> {}, last |-> 0]]
\* A file is missing, half written, or holds a cache.
File(c) == [state |-> "whole", cache |-> c]
NoFile == [state |-> "none", cache |-> EmptyCache]
TornFile == [state |-> "torn", cache |-> EmptyCache]

Init ==
    /\ log = <<>>
    /\ cache = EmptyCache
    /\ pc = "down" /\ toSave = FALSE
    /\ disk = NoFile /\ tmp = NoFile
    /\ reader = NoFile
    /\ crashes = 0

-----------------------------------------------------------------------------
(* The world                                                               *)

Mine(c) ==
    /\ Len(log) < MaxHeight
    /\ log' = Append(log, c)
    /\ UNCHANGED <<crashes, cache, pc, toSave, fileVars, reader>>

\* The process ends, wherever it stands; a file half written stays.
Crash ==
    /\ pc # "down"
    /\ crashes < MaxCrashes
    /\ crashes' = crashes + 1
    /\ pc' = "down" /\ cache' = EmptyCache
    /\ toSave' = FALSE
    /\ UNCHANGED <<log, fileVars, reader>>

-----------------------------------------------------------------------------
(* EventIndexer                                                            *)

\* The events of kind k in the blocks from .. to, as <<block, position>>.
Events(k, from, to) ==
    {e \in UNION {{b} \X DOMAIN log[b] : b \in Blocks \cap (from .. to)} : log[e[1]][e[2]].kind = k}

SameTx(e, f) == e[1] = f[1] /\ log[e[1]][e[2]].tx = log[f[1]][f[2]].tx

\* Mutant: the block that was the newest before the first sync is skipped too.
FromBlockNext(k, c) == IF c[k].last > 0 THEN c[k].last + 2 ELSE StartBlock

FromBlock(k, c) == IF c[k].last > 0 THEN c[k].last + 1 ELSE StartBlock

\* add_index(), add_pair(): of the events of one transaction only the first is
\* kept.
NotCached(k, c, found) ==
    {e \in found : /\ ~ \E f \in c[k].events : SameTx(e, f)
                   /\ ~ \E f \in found : SameTx(e, f) /\ f[2] < e[2]}

\* Mutant: the block to go on from is noted as the last one synced.
WithAddedNext(k, c, found) ==
    LET new == NotCached(k, c, found) IN
    [c EXCEPT ![k] = [events |-> @.events \cup new,
                      last |-> Max({@.last} \cup {e[1] + 1 : e \in new})]]

\* Mutant: the chain's head is noted as synced, whatever has been read.
WithAddedHead(k, c, found) ==
    LET new == NotCached(k, c, found) IN
    [c EXCEPT ![k] = [events |-> @.events \cup new, last |-> Max({@.last, Len(log)})]]

WithAdded(k, c, found) ==
    LET new == NotCached(k, c, found) IN
    [c EXCEPT ![k] = [events |-> @.events \cup new,
                      last |-> Max({@.last} \cup {e[1] : e \in new})]]

-----------------------------------------------------------------------------
(* EventWatcher                                                            *)

\* EventWatcher::new() with load_or_default(): whatever keeps the file from
\* being read, the cache is empty; then initial_sync().
StartWatcher ==
    /\ pc = "down"
    /\ cache' \in {EmptyCache} \cup (IF disk.state = "whole" THEN {disk.cache} ELSE {})
    /\ pc' = "index"
    /\ toSave' = TRUE
    /\ UNCHANGED <<worldVars, fileVars, reader>>

\* The loop's next poll_once().
Poll ==
    /\ pc = "idle"
    /\ pc' = "index"
    /\ toSave' = FALSE
    /\ UNCHANGED <<worldVars, cache, fileVars, reader>>

\* The node says what its newest block is, which may not be the chain's, and
\* answers with the events up to there.
Fetch(k) ==
    \E head \in 0 .. Len(log) :
        LET added == WithAdded(k, cache, Events(k, FromBlock(k, cache), head)) IN
        /\ cache' = added
        /\ toSave' = (toSave \/ added # cache)

SyncIndices ==
    /\ pc = "index"
    /\ Fetch("index")
    /\ pc' = "pair"
    /\ UNCHANGED <<worldVars, fileVars, reader>>

\* A poll saves only if it has found new events.
SyncPairs ==
    /\ pc = "pair"
    /\ Fetch("pair")
    /\ pc' = IF toSave' THEN "create" ELSE "idle"
    /\ UNCHANGED <<worldVars, fileVars, reader>>

\* An error ends the poll: what was added before it stays in the cache.
SyncFails ==
    /\ pc \in Kinds
    /\ pc' = "idle" /\ toSave' = FALSE
    /\ UNCHANGED <<worldVars, cache, fileVars, reader>>

-----------------------------------------------------------------------------
(* EventCacheManager::save() and the readers                               *)

CreateTemp ==
    /\ pc = "create"
    /\ tmp' = TornFile
    /\ pc' = "write"
    /\ UNCHANGED <<worldVars, cache, toSave, disk, reader>>

\* Everything is written and synced.
WriteTemp ==
    /\ pc = "write"
    /\ tmp' = File(cache)
    /\ pc' = "rename"
    /\ UNCHANGED <<worldVars, cache, toSave, disk, reader>>

Rename ==
    /\ pc = "rename"
    /\ disk' = tmp /\ tmp' = NoFile
    /\ pc' = "idle" /\ toSave' = FALSE
    /\ UNCHANGED <<worldVars, cache, reader>>

SaveFails ==
    /\ pc \in {"create", "write", "rename"}
    /\ pc' = "idle" /\ toSave' = FALSE
    /\ UNCHANGED <<worldVars, cache, fileVars, reader>>

\* SharedEventCache::from_file(): a missing file is an empty cache, an invalid
\* one an error.  A service may load the file again and replace what it has.
ReaderLoads ==
    /\ disk.state # "torn"
    /\ reader' = File(disk.cache)
    /\ UNCHANGED <<worldVars, cache, pc, toSave, fileVars>>

\* What the service's look-ups find, and the events of kind k they all read.
Served(k) == IF reader.state = "whole" THEN reader.cache[k].events ELSE {}

-----------------------------------------------------------------------------
Next ==
    \/ \E c \in Contents : Mine(c)
    \/ Crash
    \/ StartWatcher \/ Poll
    \/ SyncIndices \/ SyncPairs \/ SyncFails
    \/ CreateTemp \/ WriteTemp \/ Rename \/ SaveFails
    \/ ReaderLoads

Spec == Init /\ [][Next]_vars

\* The loop runs, and so does whoever restarts the process; a node that is asked
\* again and again answers again and again with its newest block.
NewestIndices == SyncIndices /\ cache'["index"] =
    WithAdded("index", cache, Events("index", FromBlock("index", cache), Len(log)))["index"]
NewestPairs == SyncPairs /\ cache'["pair"] =
    WithAdded("pair", cache, Events("pair", FromBlock("pair", cache), Len(log)))["pair"]

FairSpec ==
    /\ Spec
    /\ WF_vars(StartWatcher) /\ WF_vars(Poll)
    /\ WF_vars(SyncIndices \/ SyncPairs \/ SyncFails)
    /\ WF_vars(CreateTemp \/ WriteTemp \/ Rename \/ SaveFails)
    /\ SF_vars(NewestIndices) /\ SF_vars(NewestPairs)

-----------------------------------------------------------------------------
(* Properties                                                              *)

CacheType == [Kinds -> [events : SUBSET ((1 .. MaxHeight) \X Nat), last : 0 .. MaxHeight]]

\* Type invariant: caches hold places of the chain; a file half written holds
\* nothing.
CacheTypeOK ==
    /\ log \in Seq(Contents) /\ Len(log) <= MaxHeight
    /\ {cache, reader.cache, disk.cache, tmp.cache} \subseteq CacheType
    /\ pc \in Kinds \cup {"down", "idle", "create", "write", "rename"}
    /\ toSave \in BOOLEAN
    /\ {disk.state, tmp.state, reader.state} \subseteq {"none", "torn", "whole"}
    /\ crashes \in 0 .. MaxCrashes

\* Of the events of a transaction, the first of each kind.
Firsts(k, from, to) ==
    {e \in Events(k, from, to) : ~ \E f \in Events(k, from, to) : SameTx(e, f) /\ f[2] < e[2]}

\* A cache is complete up to the block it notes as the last synced one, and
\* holds nothing later: the next sync goes on after that block and never looks
\* back.
Complete(c) ==
    \A k \in Kinds : c[k].events = Firsts(k, StartBlock, c[k].last)

\* What the watcher holds in memory, what it saved, and what a service serves
\* from the file are complete up to the block they name, per kind, through polls
\* that failed between the kinds, a node that lags behind the chain, a save that
\* failed, and restarts from an old file; and wherever the process ends, the
\* file is never half written.
CachesComplete ==
    /\ Complete(cache)
    /\ disk.state # "torn"
    /\ disk.state = "whole" => Complete(disk.cache)
    /\ \A k \in Kinds :
          reader.state = "whole" => Served(k) = Firsts(k, StartBlock, reader.cache[k].last)

\* Whatever fails or crashes, each event that is the first of its transaction is
\* cached in the end.
EveryEventCached ==
    \A b \in 1 .. MaxHeight :
        b <= Len(log) ~> \A k \in Kinds : Firsts(k, StartBlock, b) \subseteq cache[k].events

=============================================================================
