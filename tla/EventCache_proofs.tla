--------------------------- MODULE EventCache_proofs ---------------------------
(***************************************************************************)
(* The event cache, for any chain, starting block and number of crashes:    *)
(* whatever is held, saved or served is complete up to the block it names.  *)
(***************************************************************************)
EXTENDS EventCache, Foundations

-----------------------------------------------------------------------------
(* The greatest block of a set.                                            *)

\* A non-empty set of blocks up to b has a greatest element.
LEMMA GreatestBlock ==
    ASSUME NEW b \in Nat, NEW S, S \subseteq 0 .. b, S # {}
    PROVE  Max(S) \in S /\ \A x \in S : x <= Max(S)
    BY GreatestNat DEF Max

-----------------------------------------------------------------------------
(* The events of a chain l, and the first ones of their transactions.       *)

Tx(l, e) == l[e[1]][e[2]].tx

Of(l, k) == {e \in UNION {{b} \X DOMAIN l[b] : b \in DOMAIN l} : l[e[1]][e[2]].kind = k}

FirstOf(l, k) ==
    {e \in Of(l, k) : ~ \E f \in Of(l, k) :
                          e[1] = f[1] /\ Tx(l, e) = Tx(l, f) /\ f[2] < e[2]}

Chains == {l \in Seq(Contents) : Len(l) <= MaxHeight}

\* An event is a block of the chain and a position in it.
LEMMA PlacesOf ==
    ASSUME NEW l \in Chains, NEW k \in Kinds, NEW e \in Of(l, k)
    PROVE  /\ e \in (1 .. Len(l)) \X Nat
           /\ e[1] \in 1 .. Len(l) /\ e[2] \in DOMAIN l[e[1]]
           /\ l[e[1]][e[2]].kind = k
<1>1. l \in Seq(Contents) /\ DOMAIN l = 1 .. Len(l)
    BY DEF Chains
<1>2. PICK b \in DOMAIN l : e \in {b} \X DOMAIN l[b]
    BY DEF Of
<1>3. l[b] \in Seq([kind : Kinds, tx : Nat])
    <2>1. l[b] \in Contents
        BY <1>1, <1>2
    <2>2. QED
        BY <2>1, CacheAssumption
<1>4. DOMAIN l[b] \subseteq Nat
    BY <1>3
<1>5. QED
    BY <1>1, <1>2, <1>4 DEF Of

LEMMA EventsBetween ==
    ASSUME log \in Chains, NEW k \in Kinds, NEW from \in Nat, NEW to \in Nat
    PROVE  Events(k, from, to) = {e \in Of(log, k) : from <= e[1] /\ e[1] <= to}
<1>1. log \in Seq(Contents) /\ DOMAIN log = 1 .. Len(log)
    BY DEF Chains
<1>2. ASSUME NEW e \in Events(k, from, to)
      PROVE  e \in Of(log, k) /\ from <= e[1] /\ e[1] <= to
    <2>1. PICK b \in Blocks \cap (from .. to) : e \in {b} \X DOMAIN log[b]
        BY DEF Events
    <2>2. QED
        BY <1>1, <2>1 DEF Events, Of, Blocks
<1>3. ASSUME NEW e \in Of(log, k), from <= e[1], e[1] <= to
      PROVE  e \in Events(k, from, to)
    <2>1. PICK b \in DOMAIN log : e \in {b} \X DOMAIN log[b]
        BY DEF Of
    <2>2. b \in Blocks \cap (from .. to)
        BY <1>1, <1>3, <2>1 DEF Blocks
    <2>3. QED
        BY <2>1, <2>2 DEF Events, Of
<1>4. QED
    BY <1>2, <1>3

\* Whether an event is the first of its transaction does not depend on the blocks
\* looked at: a transaction lies in one block.
LEMMA FirstsBetween ==
    ASSUME log \in Chains, NEW k \in Kinds, NEW from \in Nat, NEW to \in Nat
    PROVE  Firsts(k, from, to) = {e \in FirstOf(log, k) : from <= e[1] /\ e[1] <= to}
<1>1. Events(k, from, to) = {e \in Of(log, k) : from <= e[1] /\ e[1] <= to}
    BY EventsBetween
<1>2. QED
    BY <1>1 DEF Firsts, FirstOf, SameTx, Tx

\* The past does not change: a block more leaves the events before it alone.
LEMMA PastStays ==
    ASSUME NEW l \in Chains, NEW c \in Contents, Len(l) < MaxHeight, NEW k \in Kinds
    PROVE  /\ Append(l, c) \in Chains
           /\ FirstOf(l, k) = {e \in FirstOf(Append(l, c), k) : e[1] <= Len(l)}
<1> DEFINE m == Append(l, c)
<1>1. /\ l \in Seq(Contents) /\ DOMAIN l = 1 .. Len(l) /\ Len(l) \in Nat
      /\ m \in Seq(Contents) /\ Len(m) = Len(l) + 1 /\ DOMAIN m = 1 .. Len(l) + 1
      /\ \A b \in 1 .. Len(l) : m[b] = l[b]
    BY DEF Chains
<1>2. m \in Chains
    BY <1>1, CacheAssumption DEF Chains
<1> HIDE DEF m
<1>3. \A e \in Of(l, k) : e \in Of(m, k) /\ e[1] \in 1 .. Len(l)
    BY <1>1 DEF Of
<1>4. \A e \in Of(m, k) : e[1] <= Len(l) => e \in Of(l, k)
    BY <1>1 DEF Of
<1>5. \A e \in Of(l, k) : Tx(m, e) = Tx(l, e)
    BY <1>1, <1>3 DEF Tx
<1>6. FirstOf(l, k) = {e \in FirstOf(m, k) : e[1] <= Len(l)}
    BY <1>1, <1>3, <1>4, <1>5 DEF FirstOf
<1>7. QED
    BY <1>2, <1>6 DEF m

-----------------------------------------------------------------------------
(* Caches that are complete.                                               *)

\* c holds the first events of kind k up to the block it notes, which the chain
\* has reached and which is none before the first one of interest.
CompleteIn(l, k, c) ==
    /\ c.events = {e \in FirstOf(l, k) : StartBlock <= e[1] /\ e[1] <= c.last}
    /\ c.last <= Len(l)
    /\ c.last # 0 => StartBlock <= c.last

CacheOK(l, c) == c \in CacheType /\ \A k \in Kinds : CompleteIn(l, k, c[k])

\* An empty cache claims nothing.
LEMMA EmptyOK ==
    ASSUME NEW l \in Chains
    PROVE  CacheOK(l, EmptyCache)
<1>1. EmptyCache \in CacheType
    BY CacheAssumption DEF EmptyCache, CacheType
<1>2. ASSUME NEW k \in Kinds
      PROVE  CompleteIn(l, k, EmptyCache[k])
    <2>1. \A e \in FirstOf(l, k) : e[1] \in 1 .. Len(l)
        BY PlacesOf DEF FirstOf
    <2>2. Len(l) \in Nat
        BY DEF Chains
    <2>3. {e \in FirstOf(l, k) : StartBlock <= e[1] /\ e[1] <= 0} = {}
        BY <2>1, <2>2
    <2>4. EmptyCache[k].events = {} /\ EmptyCache[k].last = 0
        BY DEF EmptyCache
    <2>5. QED
        BY <2>2, <2>3, <2>4 DEF CompleteIn
<1>3. QED
    BY <1>1, <1>2 DEF CacheOK

\* A cache stays complete when the chain grows.
LEMMA GrowsOK ==
    ASSUME NEW l \in Chains, NEW b \in Contents, Len(l) < MaxHeight,
           NEW c, CacheOK(l, c)
    PROVE  CacheOK(Append(l, b), c)
<1>1. ASSUME NEW k \in Kinds
      PROVE  CompleteIn(Append(l, b), k, c[k])
    <2>1. FirstOf(l, k) = {e \in FirstOf(Append(l, b), k) : e[1] <= Len(l)}
        BY PastStays
    <2>2. /\ c[k].events = {e \in FirstOf(l, k) : StartBlock <= e[1] /\ e[1] <= c[k].last}
          /\ c[k].last <= Len(l) /\ (c[k].last # 0 => StartBlock <= c[k].last)
          /\ c[k].last \in Nat
        BY CacheAssumption DEF CacheOK, CompleteIn, CacheType
    <2>3. Len(Append(l, b)) = Len(l) + 1 /\ Len(l) \in Nat /\ Append(l, b) \in Chains
        BY PastStays DEF Chains
    <2>4. \A e \in FirstOf(Append(l, b), k) : e[1] \in Nat
        BY <2>3, PlacesOf DEF FirstOf
    <2>5. c[k].events = {e \in FirstOf(Append(l, b), k) : StartBlock <= e[1] /\ e[1] <= c[k].last}
        BY <2>1, <2>2, <2>3, <2>4
    <2>6. QED
        BY <2>2, <2>3, <2>5 DEF CompleteIn
<1>2. QED
    BY <1>1 DEF CacheOK

\* What NotCached() keeps of the events after the last synced block: the first
\* ones.
LEMMA NewEvents ==
    ASSUME log \in Chains, NEW c, CacheOK(log, c), NEW k \in Kinds, NEW head \in 0 .. Len(log)
    PROVE  NotCached(k, c, Events(k, FromBlock(k, c), head)) =
               {e \in FirstOf(log, k) : FromBlock(k, c) <= e[1] /\ e[1] <= head}
<1> DEFINE from == FromBlock(k, c)
<1> DEFINE found == Events(k, from, head)
<1>1. /\ c[k].last \in Nat /\ StartBlock \in Nat /\ head \in Nat
      /\ c[k].events = {e \in FirstOf(log, k) : StartBlock <= e[1] /\ e[1] <= c[k].last}
    BY CacheAssumption DEF CacheOK, CompleteIn, CacheType, Chains
<1>2. from \in Nat
    BY <1>1 DEF FromBlock
<1>3. found = {e \in Of(log, k) : from <= e[1] /\ e[1] <= head}
    BY <1>1, <1>2, EventsBetween
<1>4. \A e \in Of(log, k) : e[1] \in 1 .. Len(log) /\ e[1] \in Nat
    BY PlacesOf DEF Chains
<1>5. \A e \in found : \A f \in c[k].events : e[1] # f[1]
    <2>1. CASE c[k].last > 0
        BY <1>1, <1>3, <1>4, <2>1 DEF FromBlock, FirstOf
    <2>2. CASE c[k].last = 0
        BY <1>1, <1>4, <2>2 DEF FirstOf
    <2>3. QED
        BY <1>1, <2>1, <2>2
<1>6. NotCached(k, c, found) =
        {e \in found : ~ \E f \in found : SameTx(e, f) /\ f[2] < e[2]}
    BY <1>5 DEF NotCached, SameTx
<1> HIDE DEF from
<1>7. NotCached(k, c, found) = {e \in FirstOf(log, k) : from <= e[1] /\ e[1] <= head}
    BY <1>3, <1>6 DEF FirstOf, SameTx, Tx
<1>8. QED
    BY <1>7 DEF from

\* A sync of one kind leaves the cache complete, however far the node has come.
LEMMA AddedOK ==
    ASSUME log \in Chains, CacheOK(log, cache), NEW k \in Kinds, NEW head \in 0 .. Len(log)
    PROVE  CacheOK(log, WithAdded(k, cache, Events(k, FromBlock(k, cache), head)))
<1> DEFINE from == FromBlock(k, cache)
<1> DEFINE new == {e \in FirstOf(log, k) : from <= e[1] /\ e[1] <= head}
<1> DEFINE S == {cache[k].last} \cup {e[1] : e \in new}
<1> DEFINE entry == [events |-> cache[k].events \cup new, last |-> Max(S)]
<1> DEFINE old == {e \in FirstOf(log, k) : StartBlock <= e[1] /\ e[1] <= cache[k].last}
<1>1. /\ cache \in CacheType
      /\ cache[k].last \in 0 .. MaxHeight /\ cache[k].last \in 0 .. Len(log)
      /\ cache[k].last # 0 => StartBlock <= cache[k].last
      /\ cache[k].events = old
      /\ cache[k].events \subseteq (1 .. MaxHeight) \X Nat
    BY CacheAssumption DEF CacheOK, CompleteIn, CacheType
<1>2. Len(log) \in Nat /\ Len(log) <= MaxHeight /\ StartBlock \in Nat /\ MaxHeight \in Nat
    BY CacheAssumption DEF Chains
<1>3. \A e \in FirstOf(log, k) : e[1] \in 1 .. Len(log) /\ e \in (1 .. Len(log)) \X Nat
    BY PlacesOf DEF FirstOf
<1>4. WithAdded(k, cache, Events(k, from, head)) = [cache EXCEPT ![k] = entry]
    <2>1. NotCached(k, cache, Events(k, from, head)) = new
        BY NewEvents
    <2>2. QED
        BY <2>1 DEF WithAdded, CacheType
<1>5. Max(S) \in S /\ \A x \in S : x <= Max(S)
    <2>1. S \subseteq 0 .. Len(log) /\ S # {}
        BY <1>1, <1>2, <1>3
    <2>2. QED
        BY <1>2, <2>1, GreatestBlock
<1>6. from = IF cache[k].last > 0 THEN cache[k].last + 1 ELSE StartBlock
    BY DEF FromBlock
<1> HIDE DEF from
<1>7. Max(S) = cache[k].last \/ \E f \in new : Max(S) = f[1]
    BY <1>5
<1>8. /\ Max(S) \in 0 .. Len(log) /\ cache[k].last <= Max(S)
      /\ \A e \in new : e[1] <= Max(S)
    BY <1>1, <1>2, <1>3, <1>5, <1>7
<1> DEFINE max == Max(S)
<1> HIDE DEF max
<1>9. max \in 0 .. Len(log) /\ cache[k].last <= max /\ (\A e \in new : e[1] <= max)
      /\ (max = cache[k].last \/ \E f \in new : max = f[1])
    BY <1>7, <1>8 DEF max
<1>10. max # 0 => StartBlock <= max
    BY <1>1, <1>2, <1>6, <1>9
<1>11. old \cup new = {e \in FirstOf(log, k) : StartBlock <= e[1] /\ e[1] <= max}
    <2>1. ASSUME NEW e \in old
          PROVE  e \in FirstOf(log, k) /\ StartBlock <= e[1] /\ e[1] <= max
        BY <1>1, <1>2, <1>3, <1>9
    <2>2. ASSUME NEW e \in new
          PROVE  e \in FirstOf(log, k) /\ StartBlock <= e[1] /\ e[1] <= max
        BY <1>1, <1>2, <1>3, <1>6, <1>9
    <2>3. ASSUME NEW e \in FirstOf(log, k), StartBlock <= e[1], e[1] <= max, e \notin old
          PROVE  e \in new
        <3>1. cache[k].last < e[1] /\ from <= e[1]
            BY <1>1, <1>2, <1>3, <1>6, <2>3
        <3>2. PICK f \in new : max = f[1]
            BY <1>1, <1>2, <1>3, <1>9, <2>3, <3>1
        <3>3. e[1] <= head
            BY <1>2, <1>3, <2>3, <3>2
        <3>4. QED
            BY <3>1, <3>3
    <2>4. QED
        BY <2>1, <2>2, <2>3
<1>12. entry.events = old \cup new /\ entry.last = max
    BY <1>1 DEF max
<1>13. entry \in [events : SUBSET ((1 .. MaxHeight) \X Nat), last : 0 .. MaxHeight]
    <2>1. new \subseteq (1 .. MaxHeight) \X Nat
        BY <1>2, <1>3
    <2>2. Max(S) \in 0 .. MaxHeight
        BY <1>2, <1>8
    <2>3. QED
        BY <1>1, <2>1, <2>2
<1> HIDE DEF entry, old, new
<1>14. CompleteIn(log, k, entry)
    <2>1. entry.events = {e \in FirstOf(log, k) : StartBlock <= e[1] /\ e[1] <= entry.last}
        BY <1>11, <1>12
    <2>2. entry.last <= Len(log) /\ (entry.last # 0 => StartBlock <= entry.last)
        BY <1>2, <1>9, <1>10, <1>12
    <2>3. QED
        BY <2>1, <2>2 DEF CompleteIn
<1>15. [cache EXCEPT ![k] = entry] \in CacheType
    BY <1>1, <1>13 DEF CacheType
<1>16. \A j \in Kinds : CompleteIn(log, j, [cache EXCEPT ![k] = entry][j])
    BY <1>1, <1>14 DEF CacheOK, CacheType
<1>17. QED
    BY <1>4, <1>15, <1>16 DEF CacheOK, from

-----------------------------------------------------------------------------
(* The invariant.                                                          *)

\* Besides what is in memory: every cache in a file, the temporary one
\* included, is complete; the temporary file is whole when it is renamed.
IInv ==
    /\ log \in Chains
    /\ CacheOK(log, cache) /\ CacheOK(log, reader.cache)
    /\ CacheOK(log, disk.cache) /\ CacheOK(log, tmp.cache)
    /\ {disk.state, reader.state} \subseteq {"none", "whole"}
    /\ tmp.state \in {"none", "torn", "whole"}
    /\ pc = "rename" => tmp.state = "whole"
    /\ pc \in Kinds \cup {"down", "idle", "create", "write", "rename"}
    /\ toSave \in BOOLEAN
    /\ crashes \in 0 .. MaxCrashes

LEMMA InvInit == Init => IInv
<1> SUFFICES ASSUME Init PROVE IInv
    OBVIOUS
<1>1. log \in Chains
    BY CacheAssumption DEF Init, Chains
<1>2. CacheOK(log, EmptyCache)
    BY <1>1, EmptyOK
<1>3. crashes \in 0 .. MaxCrashes
    BY CacheAssumption DEF Init
<1>4. QED
    BY <1>1, <1>2, <1>3 DEF Init, IInv, NoFile, Kinds

\* What a request answers leaves the watcher's cache complete.
LEMMA FetchOK ==
    ASSUME IInv, NEW k \in Kinds, Fetch(k)
    PROVE  CacheOK(log, cache') /\ toSave' \in BOOLEAN
<1>1. PICK head \in 0 .. Len(log) :
          LET added == WithAdded(k, cache, Events(k, FromBlock(k, cache), head)) IN
          cache' = added /\ toSave' = (toSave \/ added # cache)
    BY DEF Fetch
<1>2. CacheOK(log, WithAdded(k, cache, Events(k, FromBlock(k, cache), head)))
    BY AddedOK DEF IInv
<1>3. QED
    BY <1>1, <1>2

LEMMA InvNext == IInv /\ [Next]_vars => IInv'
<1> SUFFICES ASSUME IInv, [Next]_vars PROVE IInv'
    OBVIOUS
<1> USE DEF worldVars, fileVars
<1>1. ASSUME NEW c \in Contents, Mine(c)
      PROVE  IInv'
    <2>1. /\ log' = Append(log, c) /\ Len(log) < MaxHeight
          /\ UNCHANGED <<crashes, cache, pc, toSave, disk, tmp, reader>>
        BY <1>1 DEF Mine
    <2>2. log' \in Chains
        <3>1. "index" \in Kinds
            BY DEF Kinds
        <3>2. QED
            BY <2>1, <3>1, PastStays DEF IInv
    <2>3. /\ CacheOK(log', cache) /\ CacheOK(log', reader.cache)
          /\ CacheOK(log', disk.cache) /\ CacheOK(log', tmp.cache)
        BY <2>1, GrowsOK DEF IInv
    <2>4. QED
        BY <2>1, <2>2, <2>3 DEF IInv
<1>2. ASSUME Crash
      PROVE  IInv'
    <2>1. CacheOK(log, EmptyCache)
        BY EmptyOK DEF IInv
    <2>2. crashes' \in 0 .. MaxCrashes
        BY <1>2, CacheAssumption DEF Crash, IInv
    <2>3. QED
        BY <1>2, <2>1, <2>2 DEF Crash, IInv, Kinds
<1>3. ASSUME StartWatcher
      PROVE  IInv'
    <2>1. cache' = EmptyCache \/ cache' = disk.cache
        BY <1>3 DEF StartWatcher
    <2>2. CacheOK(log, cache')
        BY <2>1, EmptyOK DEF IInv
    <2>3. QED
        BY <1>3, <2>2 DEF StartWatcher, IInv, Kinds
<1>4. ASSUME Poll
      PROVE  IInv'
    BY <1>4 DEF Poll, IInv, Kinds
<1>5. ASSUME SyncIndices
      PROVE  IInv'
    <2>1. Fetch("index") /\ "index" \in Kinds
        BY <1>5 DEF SyncIndices, Kinds
    <2>2. CacheOK(log, cache') /\ toSave' \in BOOLEAN
        BY <2>1, FetchOK
    <2>3. QED
        BY <1>5, <2>2 DEF SyncIndices, IInv, Kinds
<1>6. ASSUME SyncPairs
      PROVE  IInv'
    <2>1. Fetch("pair") /\ "pair" \in Kinds
        BY <1>6 DEF SyncPairs, Kinds
    <2>2. CacheOK(log, cache') /\ toSave' \in BOOLEAN
        BY <2>1, FetchOK
    <2>3. pc' \in {"create", "idle"}
        BY <1>6 DEF SyncPairs
    <2>4. QED
        BY <1>6, <2>2, <2>3 DEF SyncPairs, IInv, Kinds
<1>7. ASSUME SyncFails
      PROVE  IInv'
    BY <1>7 DEF SyncFails, IInv, Kinds
<1>8. ASSUME CreateTemp
      PROVE  IInv'
    <2>1. CacheOK(log, EmptyCache)
        BY EmptyOK DEF IInv
    <2>2. QED
        BY <1>8, <2>1 DEF CreateTemp, IInv, TornFile, Kinds
<1>9. ASSUME WriteTemp
      PROVE  IInv'
    BY <1>9 DEF WriteTemp, IInv, File, Kinds
<1>10. ASSUME Rename
       PROVE  IInv'
    <2>1. CacheOK(log, EmptyCache)
        BY EmptyOK DEF IInv
    <2>2. disk'.state = "whole" /\ disk'.cache = tmp.cache
        BY <1>10 DEF Rename, IInv
    <2>3. tmp'.state = "none" /\ tmp'.cache = EmptyCache
        BY <1>10 DEF Rename, NoFile
    <2>4. QED
        BY <1>10, <2>1, <2>2, <2>3 DEF Rename, IInv, Kinds
<1>11. ASSUME SaveFails
       PROVE  IInv'
    BY <1>11 DEF SaveFails, IInv, Kinds
<1>12. ASSUME ReaderLoads
       PROVE  IInv'
    BY <1>12 DEF ReaderLoads, IInv, File
<1>13. CASE UNCHANGED vars
    BY <1>13 DEF vars, IInv
<1>14. QED
    BY <1>1, <1>2, <1>3, <1>4, <1>5, <1>6, <1>7, <1>8, <1>9, <1>10, <1>11, <1>12, <1>13 DEF Next

LEMMA Invariant == Spec => []IInv
<1>1. Init => IInv
    BY InvInit
<1>2. IInv /\ [Next]_vars => IInv'
    BY InvNext
<1>3. QED
    BY <1>1, <1>2, PTL DEF Spec

-----------------------------------------------------------------------------
(* What it implies.                                                        *)

\* Caches hold places of the chain, whatever was read, saved or lost.
THEOREM TypeCorrect == Spec => []CacheTypeOK
<1>1. IInv => CacheTypeOK
    BY DEF IInv, CacheOK, Chains, CacheTypeOK
<1>2. QED
    BY <1>1, Invariant, PTL

LEMMA CompleteCache ==
    ASSUME log \in Chains, NEW c, CacheOK(log, c), NEW k \in Kinds
    PROVE  c[k].events = Firsts(k, StartBlock, c[k].last)
<1>1. /\ c[k].events = {e \in FirstOf(log, k) : StartBlock <= e[1] /\ e[1] <= c[k].last}
      /\ c[k].last \in Nat
    BY CacheAssumption DEF CacheOK, CompleteIn, CacheType
<1>2. StartBlock \in Nat
    BY CacheAssumption
<1>3. Firsts(k, StartBlock, c[k].last) =
          {e \in FirstOf(log, k) : StartBlock <= e[1] /\ e[1] <= c[k].last}
    BY <1>1, <1>2, FirstsBetween
<1>4. QED
    BY <1>1, <1>3

\* What the watcher holds, what it saved and what a service serves from the file
\* are complete up to the block they name, and the file is never half written:
\* on any chain, through failed polls and saves, lagging nodes and crashes.
THEOREM CachesAlwaysComplete == Spec => []CachesComplete
<1>1. ASSUME IInv
      PROVE  CachesComplete
    <2>1. Complete(cache) /\ Complete(disk.cache)
        BY <1>1, CompleteCache DEF IInv, Complete
    <2>2. \A k \in Kinds : reader.cache[k].events = Firsts(k, StartBlock, reader.cache[k].last)
        BY <1>1, CompleteCache DEF IInv
    <2>3. disk.state # "torn"
        BY <1>1 DEF IInv
    <2>4. QED
        BY <2>1, <2>2, <2>3 DEF CachesComplete, Served
<1>2. QED
    BY <1>1, Invariant, PTL
==============================================================================
