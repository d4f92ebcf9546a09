------------------------ MODULE EventListener_proofs -------------------------
(***************************************************************************)
(* The event listener, for any chain, vaults, look-back and threshold:     *)
(* through the backtrack, any number of subscriptions and the polling, the *)
(* events are delivered in the order of the chain, each once, and none is  *)
(* missing of the blocks that the listener has gone through.               *)
(***************************************************************************)
EXTENDS EventListener, Foundations, SequenceTheorems

Elements(s) == {s[i] : i \in DOMAIN s}
Increasing(s) == \A i, j \in DOMAIN s : i < j => s[i] < s[j]

\* Every element of the set A is smaller than every one of B.
Below(A, B) == \A a \in A, b \in B : a < b

\* What a subscription has pushed and the listener has not read comes after all
\* that was delivered; nothing is left of a subscription that has ended.
WireOK ==
    /\ Increasing(wire)
    /\ Elements(wire) \subseteq 1 .. Height
    /\ Below(Elements(sent), Elements(wire))
    /\ pc # "connected" => wire = <<>>

\* Nothing is delivered that the chain does not have yet, nothing before the
\* backtrack, and nothing beyond last_processed_block while polling.
SentOK ==
    /\ Increasing(sent)
    /\ Elements(sent) \subseteq 1 .. Height
    /\ pc \in {"start", "backtrack"} => sent = <<>> /\ last = 0
    /\ pc \in {"polling", "poll_logs"} => Elements(sent) \subseteq 1 .. last
    /\ pc = "poll_logs" => last <= upTo

\* CoverageComplete, in terms of the elements of the channel.
Covered ==
    \A v \in Watched : \A b \in from .. last :
        (b >= since[v] /\ chain[b] # NoEvent /\ chain[b].vault = v) => b \in Elements(sent)

IInv == ListenerTypeOK /\ WireOK /\ SentOK /\ Covered

-----------------------------------------------------------------------------
(* Sequences of blocks.                                                    *)

LEMMA EmptyBlocks ==
    ASSUME NEW s, s = <<>>
    PROVE  Increasing(s) /\ Elements(s) = {}
    BY DEF Increasing, Elements

\* A sequence followed by one of larger blocks.
LEMMA Joined ==
    ASSUME NEW s \in Seq(Blocks), NEW t \in Seq(Blocks), Increasing(s), Increasing(t),
           Below(Elements(s), Elements(t))
    PROVE  /\ s \o t \in Seq(Blocks) /\ Len(s) <= Len(s \o t)
           /\ Increasing(s \o t)
           /\ Elements(s \o t) = Elements(s) \cup Elements(t)
<1> DEFINE c == s \o t
<1>1. /\ c \in Seq(Blocks) /\ Len(c) = Len(s) + Len(t)
      /\ \A i \in 1 .. Len(s) + Len(t) : c[i] = IF i <= Len(s) THEN s[i] ELSE t[i - Len(s)]
    BY ConcatProperties
<1>2. /\ Len(s) \in Nat /\ Len(t) \in Nat /\ DOMAIN s = 1 .. Len(s) /\ DOMAIN t = 1 .. Len(t)
      /\ DOMAIN c = 1 .. Len(s) + Len(t)
    BY <1>1, LenProperties
<1> HIDE DEF c
<1>3. ASSUME NEW i \in DOMAIN c
      PROVE  \/ i \in DOMAIN s /\ c[i] = s[i]
             \/ ~ i <= Len(s) /\ i - Len(s) \in DOMAIN t /\ c[i] = t[i - Len(s)]
    BY <1>1, <1>2
<1>4. ASSUME NEW i \in DOMAIN s
      PROVE  i \in DOMAIN c /\ c[i] = s[i]
    BY <1>1, <1>2
<1>5. ASSUME NEW i \in DOMAIN t
      PROVE  i + Len(s) \in DOMAIN c /\ c[i + Len(s)] = t[i]
  <2>1. i + Len(s) \in 1 .. Len(s) + Len(t) /\ ~ i + Len(s) <= Len(s) /\ (i + Len(s)) - Len(s) = i
      BY <1>2
  <2> QED
      BY <1>1, <1>2, <2>1
<1>6. Elements(c) = Elements(s) \cup Elements(t)
  <2>1. \A x \in Elements(c) : x \in Elements(s) \cup Elements(t)
      BY <1>3 DEF Elements
  <2>2. \A x \in Elements(s) : x \in Elements(c)
      BY <1>4 DEF Elements
  <2>3. \A x \in Elements(t) : x \in Elements(c)
      BY <1>5 DEF Elements
  <2> QED
      BY <2>1, <2>2, <2>3
<1>7. Increasing(c)
  <2> SUFFICES ASSUME NEW i \in DOMAIN c, NEW j \in DOMAIN c, i < j
               PROVE  c[i] < c[j]
      BY DEF Increasing
  <2>1. i \in Int /\ j \in Int
      BY <1>2
  <2>2. CASE j <= Len(s)
    <3>1. i \in DOMAIN s /\ j \in DOMAIN s
        BY <1>2, <2>2
    <3> QED
        BY <1>4, <3>1 DEF Increasing
  <2>3. CASE ~ i <= Len(s)
    <3>1. ~ j <= Len(s) /\ i - Len(s) < j - Len(s)
        BY <1>2, <2>1, <2>3
    <3>2. /\ i - Len(s) \in DOMAIN t /\ c[i] = t[i - Len(s)]
          /\ j - Len(s) \in DOMAIN t /\ c[j] = t[j - Len(s)]
        BY <1>2, <1>3, <2>3, <3>1
    <3> QED
        BY <3>1, <3>2 DEF Increasing
  <2>4. CASE i <= Len(s) /\ ~ j <= Len(s)
    <3>1. i \in DOMAIN s /\ c[i] = s[i]
        BY <1>2, <1>4, <2>4
    <3>2. j - Len(s) \in DOMAIN t /\ c[j] = t[j - Len(s)]
        BY <1>2, <1>3, <2>4
    <3> QED
        BY <3>1, <3>2 DEF Below, Elements
  <2> QED
      BY <2>2, <2>3, <2>4
<1> QED
    BY <1>1, <1>2, <1>6, <1>7 DEF c

LEMMA OneBlock ==
    ASSUME NEW b \in Blocks
    PROVE  <<b>> \in Seq(Blocks) /\ Increasing(<<b>>) /\ Elements(<<b>>) = {b}
<1> DEFINE s == <<b>>
<1>1. DOMAIN s = 1 .. 1 /\ s[1] = b /\ s \in Seq(Blocks)
    OBVIOUS
<1> HIDE DEF s
<1>2. Increasing(s) /\ Elements(s) = {b}
    BY <1>1 DEF Increasing, Elements
<1> QED
    BY <1>1, <1>2 DEF s

\* A block more at the end.
LEMMA Extended ==
    ASSUME NEW s \in Seq(Blocks), Increasing(s), NEW b \in Blocks, Below(Elements(s), {b})
    PROVE  /\ Append(s, b) \in Seq(Blocks) /\ Len(s) <= Len(Append(s, b))
           /\ Increasing(Append(s, b))
           /\ Elements(Append(s, b)) = Elements(s) \cup {b}
<1>1. Append(s, b) = s \o <<b>>
    BY AppendIsConcat
<1> QED
    BY <1>1, OneBlock, Joined

\* The first block taken away.
LEMMA Shortened ==
    ASSUME NEW s \in Seq(Blocks), s # <<>>, Increasing(s)
    PROVE  /\ Head(s) \in Blocks /\ Head(s) \in Elements(s)
           /\ Tail(s) \in Seq(Blocks) /\ Increasing(Tail(s))
           /\ Elements(Tail(s)) \subseteq Elements(s)
           /\ Below({Head(s)}, Elements(Tail(s)))
<1> DEFINE t == Tail(s)
<1>1. /\ t \in Seq(Blocks) /\ Len(t) = Len(s) - 1 /\ Len(s) \in Nat
      /\ DOMAIN t = 1 .. Len(s) - 1 /\ DOMAIN s = 1 .. Len(s)
      /\ \A i \in 1 .. Len(s) - 1 : t[i] = s[i + 1]
    BY HeadTailProperties, LenProperties
<1>2. Head(s) \in Blocks /\ Head(s) = s[1] /\ 1 \in DOMAIN s
    BY <1>1, HeadTailProperties, EmptySeq
<1> HIDE DEF t
<1>3. \A i \in DOMAIN t : i \in Int /\ i + 1 \in DOMAIN s /\ t[i] = s[i + 1] /\ 1 < i + 1
    BY <1>1
<1>4. Increasing(t)
  <2> SUFFICES ASSUME NEW i \in DOMAIN t, NEW j \in DOMAIN t, i < j
               PROVE  t[i] < t[j]
      BY DEF Increasing
  <2>1. i + 1 < j + 1
      BY <1>3
  <2> QED
      BY <1>3, <2>1 DEF Increasing
<1>5. Elements(t) \subseteq Elements(s)
    BY <1>3 DEF Elements
<1>6. Below({Head(s)}, Elements(t))
  <2> SUFFICES ASSUME NEW i \in DOMAIN t
               PROVE  Head(s) < t[i]
      BY DEF Below, Elements
  <2> QED
      BY <1>2, <1>3 DEF Increasing
<1> QED
    BY <1>1, <1>2, <1>4, <1>5, <1>6 DEF t, Elements

-----------------------------------------------------------------------------
(* What a node returns.                                                    *)

\* Every finite set of blocks can be listed in the order of the chain.
LEMMA OrderExists ==
    ASSUME NEW n \in Nat, NEW B, B \subseteq 0 .. n
    PROVE  \E s \in [1 .. Cardinality(B) -> B] : Increasing(s)
<1> DEFINE G == {T \in SUBSET B : \E s \in [1 .. Cardinality(T) -> T] : Increasing(s)}
<1>1. IsFiniteSet(B)
  <2>1. IsFiniteSet(0 .. n) /\ B \in SUBSET (0 .. n)
      BY FS_Interval
  <2> QED
      BY <2>1, FS_Subset
<1>2. ASSUME NEW T \in SUBSET B, \A x \in T : T \ {x} \in G
      PROVE  T \in G
  <2>1. IsFiniteSet(T) /\ Cardinality(T) \in Nat
      BY <1>1, FS_Subset, FS_CardinalityType
  <2>2. CASE T = {}
    <3>1. Cardinality(T) = 0
        BY <2>2, FS_EmptySet
    <3>2. <<>> \in [1 .. 0 -> T] /\ Increasing(<<>>)
        BY EmptyBlocks
    <3> QED
        BY <3>1, <3>2
  <2>3. CASE T # {}
    <3>1. PICK m \in T : \A x \in T : x <= m
        BY <2>3, GreatestNat
    <3> DEFINE U == T \ {m}
               k == Cardinality(T)
    <3>2. Cardinality(U) = k - 1
        BY <2>1, FS_RemoveElement
    <3>3. PICK s \in [1 .. k - 1 -> U] : Increasing(s)
        BY <1>2, <3>2
    <3>4. k \in Nat /\ m \in Nat /\ T \subseteq Nat
        BY <2>1
    <3>5. \A x \in U : x < m /\ x \in T
        BY <3>1, <3>4
    <3> HIDE DEF U, k
    <3> DEFINE t == [i \in 1 .. k |-> IF i = k THEN m ELSE s[i]]
    <3>6. \A i \in 1 .. k : i # k => i \in 1 .. k - 1 /\ s[i] \in U
        BY <3>3, <3>4
    <3>7. t \in [1 .. k -> T]
        BY <3>1, <3>5, <3>6
    <3>8. Increasing(t)
      <4> SUFFICES ASSUME NEW i \in 1 .. k, NEW j \in 1 .. k, i < j
                   PROVE  t[i] < t[j]
          BY DEF Increasing
      <4>1. i # k /\ i \in 1 .. k - 1 /\ t[i] = s[i] /\ s[i] \in U
          BY <3>4, <3>6
      <4>2. CASE j = k
          BY <3>5, <4>1, <4>2
      <4>3. CASE j # k
        <5>1. j \in DOMAIN s /\ i \in DOMAIN s /\ t[j] = s[j]
            BY <3>6, <4>1, <4>3
        <5> QED
            BY <3>3, <4>1, <5>1 DEF Increasing
      <4> QED
          BY <4>2, <4>3
    <3> HIDE DEF t
    <3> QED
        BY <3>7, <3>8 DEF k
  <2> QED
      BY <2>2, <2>3
<1>3. SUBSET B \subseteq G
  <2> HIDE DEF G
  <2> QED
    BY <1>1, <1>2, AllSubsets
<1> QED
    BY <1>3

\* The list has every block of the set, and each only once.
LEMMA Listed ==
    ASSUME NEW B, B \subseteq Blocks
    PROVE  /\ OldestFirst(B) \in Seq(Blocks)
           /\ Increasing(OldestFirst(B))
           /\ Elements(OldestFirst(B)) = B
<1> DEFINE s == OldestFirst(B)
           k == Cardinality(B)
<1>1. MaxBlock \in Nat /\ B \subseteq 0 .. MaxBlock
    BY ListenerAssumption DEF Blocks
<1>2. s \in [1 .. k -> B] /\ Increasing(s)
    BY <1>1, OrderExists DEF OldestFirst, Increasing
<1>3. IsFiniteSet(B) /\ k \in Nat
  <2>1. IsFiniteSet(0 .. MaxBlock) /\ B \in SUBSET (0 .. MaxBlock)
      BY <1>1, FS_Interval
  <2>2. IsFiniteSet(B)
      BY <2>1, FS_Subset
  <2> QED
      BY <2>2, FS_CardinalityType
<1> HIDE DEF s, k
<1>4. s \in Seq(Blocks) /\ DOMAIN s = 1 .. k
  <2>1. s \in [1 .. k -> Blocks]
      BY <1>2
  <2> QED
      BY <1>3, <2>1
<1>5. s \in Injection(1 .. k, B)
  <2> SUFFICES ASSUME NEW i \in 1 .. k, NEW j \in 1 .. k, s[i] = s[j]
               PROVE  i = j
      BY <1>2 DEF Injection, IsInjective
  <2>1. s[i] \in B /\ s[j] \in B
      BY <1>2
  <2>2. s[i] \in 0 .. MaxBlock /\ s[j] \in 0 .. MaxBlock
      BY <1>1, <2>1, Zenon
  <2>3. ~ s[i] < s[j] /\ ~ s[j] < s[i]
      BY <1>1, <2>2
  <2>4. ~ i < j /\ ~ j < i
      BY <1>2, <1>4, <2>3 DEF Increasing
  <2> QED
      BY <1>3, <2>4
<1>6. IsFiniteSet(1 .. k) /\ Cardinality(1 .. k) = k
    BY <1>3, FS_Interval
<1>7. s \in Surjection(1 .. k, B)
    BY <1>3, <1>5, <1>6, FS_Injection DEF k
<1>8. Elements(s) = B
    BY <1>2, <1>4, <1>7 DEF Surjection, Elements
<1> QED
    BY <1>2, <1>4, <1>8 DEF s

\* The logs of a range of blocks that the chain has.
LEMMA LogsOf ==
    ASSUME NEW lo \in Nat \ {0}, NEW hi \in Nat, hi <= MaxBlock, NEW S
    PROVE  /\ Logs(lo, hi, S) \in Seq(Blocks)
           /\ Increasing(Logs(lo, hi, S))
           /\ Elements(Logs(lo, hi, S)) =
                {b \in lo .. hi : chain[b].kind # "none" /\ chain[b].vault \in S}
<1> DEFINE B == {b \in lo .. hi : chain[b].kind # "none" /\ chain[b].vault \in S}
<1>1. B \subseteq Blocks
    BY ListenerAssumption DEF Blocks
<1> HIDE DEF B
<1>2. /\ OldestFirst(B) \in Seq(Blocks)
      /\ Increasing(OldestFirst(B))
      /\ Elements(OldestFirst(B)) = B
    BY <1>1, Listed
<1> QED
    BY <1>2 DEF Logs, B

-----------------------------------------------------------------------------
(* The initial states, and what most steps leave alone.                    *)

LEMMA InitInv == Init => IInv
<1> SUFFICES ASSUME Init
             PROVE  IInv
    OBVIOUS
<1>1. /\ chain \in Seq(Event \cup {NoEvent}) /\ Height = StartBlock
      /\ StartBlock \in 0 .. MaxBlock /\ MaxBlock \in Nat
  <2>1. StartBlock \in Nat /\ chain \in [1 .. StartBlock -> Event \cup {NoEvent}]
      BY ListenerAssumption DEF Init
  <2>2. Len(chain) = StartBlock
      BY <2>1
  <2>3. chain \in Seq(Event \cup {NoEvent})
      BY <2>1
  <2> QED
      BY <2>2, <2>3, ListenerAssumption DEF Height
<1>2. Increasing(wire) /\ Elements(wire) = {} /\ Increasing(sent) /\ Elements(sent) = {}
    BY EmptyBlocks DEF Init
<1>3. ListenerTypeOK
    BY <1>1, ListenerAssumption DEF Init, ListenerTypeOK, NoClaim
<1>4. WireOK /\ SentOK
    BY <1>2 DEF Init, WireOK, SentOK, Below
<1>5. Covered
    BY DEF Init, Covered
<1> QED
    BY <1>3, <1>4, <1>5 DEF IInv

\* What the listener has gone through is still in the channel.
LEMMA CoveredKept ==
    ASSUME Covered, UNCHANGED <<chain, since, last, from>>, Elements(sent) \subseteq Elements(sent')
    PROVE  Covered'
    BY DEF Covered, Watched

\* The subscription's wire is left alone.
LEMMA WireKept ==
    ASSUME WireOK, UNCHANGED <<chain, wire, sent>>, pc = "connected" => pc' = "connected"
    PROVE  WireOK'
<1>1. Height' = Height
    BY DEF Height
<1>2. Increasing(wire)' /\ Elements(wire)' = Elements(wire) /\ Elements(sent)' = Elements(sent)
    BY DEF WireOK, Increasing, Elements
<1>3. pc' # "connected" => wire' = <<>>
    BY DEF WireOK
<1> QED
    BY <1>1, <1>2, <1>3 DEF WireOK, Below

LEMMA WireEmptied ==
    ASSUME wire' = <<>>
    PROVE  WireOK'
<1>1. Increasing(wire') /\ Elements(wire') = {}
    BY EmptyBlocks
<1> QED
    BY <1>1 DEF WireOK, Increasing, Elements, Below

\* Outside the backtrack, until polling starts, the channel is left alone.
LEMMA SentKept ==
    ASSUME SentOK, UNCHANGED <<chain, sent>>,
           pc' \notin {"start", "backtrack", "polling", "poll_logs"}
    PROVE  SentOK'
    BY DEF SentOK, Height, Increasing, Elements

-----------------------------------------------------------------------------
(* The chain and the vaults.                                               *)

LEMMA NewBlockInv ==
    ASSUME IInv, NEW e \in Event \cup {NoEvent}, NewBlock(e)
    PROVE  IInv'
<1> DEFINE n == Height + 1
<1>1. /\ chain \in Seq(Event \cup {NoEvent}) /\ Height \in Nat /\ MaxBlock \in Nat
      /\ Height < MaxBlock /\ StartBlock \in Nat /\ StartBlock <= Height
    BY ListenerAssumption DEF IInv, ListenerTypeOK, NewBlock
<1>2. /\ chain' \in Seq(Event \cup {NoEvent}) /\ Height' = n
      /\ \A b \in 1 .. Height : chain'[b] = chain[b]
    BY <1>1 DEF NewBlock, Height
<1>3. n \in Blocks /\ n \in 1 .. n
    BY <1>1 DEF Blocks
<1>4. wire \in Seq(Blocks) /\ Increasing(wire) /\ Elements(wire) \subseteq 1 .. Height
    BY DEF IInv, ListenerTypeOK, WireOK
<1>5. Below(Elements(wire), {n}) /\ Below(Elements(sent), {n})
    BY <1>1 DEF IInv, WireOK, SentOK, Below
<1>6. /\ wire' \in Seq(Blocks) /\ Increasing(wire')
      /\ Elements(wire') \subseteq Elements(wire) \cup {n}
      /\ pc' # "connected" => wire' = <<>>
  <2>1. CASE wire' = wire /\ pc' = pc
      BY <1>4, <2>1 DEF IInv, WireOK
  <2>2. CASE wire' = Append(wire, n) /\ pc' = pc /\ pc = "connected"
    <3> HIDE DEF n
    <3>1. /\ Append(wire, n) \in Seq(Blocks) /\ Increasing(Append(wire, n))
          /\ Elements(Append(wire, n)) = Elements(wire) \cup {n}
        BY <1>3, <1>4, <1>5, Extended
    <3> QED
        BY <2>2, <3>1
  <2> QED
      BY <2>1, <2>2 DEF NewBlock
<1>7. ListenerTypeOK'
  <2>1. /\ UNCHANGED <<since, pc, failures, subscribed, last, upTo, sent, from,
                       taken, claim, submitted, main>>
      BY DEF NewBlock, processorVars
  <2> QED
      BY <1>1, <1>2, <1>6, <2>1 DEF IInv, ListenerTypeOK, Watched, NoClaim
<1> HIDE DEF n
<1>8. UNCHANGED <<since, pc, last, upTo, sent, from>>
    BY DEF NewBlock
<1>9. Elements(sent') = Elements(sent) /\ Increasing(sent')
    BY <1>8 DEF IInv, SentOK
<1>10. WireOK'
  <2>1. Below(Elements(sent'), Elements(wire'))
      BY <1>5, <1>6, <1>9 DEF IInv, WireOK, Below
  <2>2. Elements(wire') \subseteq 1 .. n
      BY <1>1, <1>3, <1>4, <1>6 DEF n
  <2> QED
      BY <1>2, <1>6, <2>1, <2>2 DEF WireOK, Increasing, Elements
<1>11. SentOK'
  <2>1. Elements(sent') \subseteq 1 .. n
      BY <1>1, <1>9 DEF IInv, SentOK, n
  <2> QED
      BY <1>2, <1>8, <1>9, <2>1 DEF IInv, SentOK, Increasing, Elements
<1>12. Covered'
  <2>1. last \in Nat /\ from \in Nat /\ from >= 1 /\ last <= Height
      BY <1>1 DEF IInv, ListenerTypeOK
  <2>2. \A b \in from .. last : chain'[b] = chain[b]
      BY <1>1, <1>2, <2>1
  <2> QED
      BY <1>8, <2>2 DEF IInv, Covered, Watched, Elements
<1> QED
    BY <1>7, <1>10, <1>11, <1>12 DEF IInv

\* A new vault is watched from the next block on, which no one has gone through.
LEMMA AddVaultInv ==
    ASSUME IInv, NEW v \in Vaults, AddVault(v)
    PROVE  IInv'
<1>1. /\ UNCHANGED <<chain, pc, failures, subscribed, wire, last, upTo, sent, from,
                     taken, claim, submitted, main>>
      /\ since' = [since EXCEPT ![v] = Height + 1]
    BY DEF AddVault, listenerVars, processorVars
<1>2. Height \in Nat /\ Height <= MaxBlock /\ MaxBlock \in Nat /\ last <= Height /\ last \in Nat
      /\ from \in Nat /\ since \in [Vaults -> 0 .. MaxBlock + 1]
    BY ListenerAssumption DEF IInv, ListenerTypeOK
<1>3. /\ since' \in [Vaults -> 0 .. MaxBlock + 1] /\ since'[v] = Height + 1
      /\ \A u \in Vaults : u # v => since'[u] = since[u]
    BY <1>1, <1>2
<1>4. Watched \subseteq Watched'
    BY <1>2, <1>3 DEF Watched
<1>5. ListenerTypeOK'
  <2>1. subscribed' \subseteq Watched'
      BY <1>1, <1>4 DEF IInv, ListenerTypeOK
  <2>2. Height' = Height
      BY <1>1 DEF Height
  <2> QED
      BY <1>1, <1>3, <2>1, <2>2 DEF IInv, ListenerTypeOK
<1>6. WireOK'
    BY <1>1, WireKept DEF IInv
<1>7. SentOK'
    BY <1>1 DEF IInv, SentOK, Height, Increasing, Elements
<1>8. Covered'
  <2> SUFFICES ASSUME NEW u \in Watched', NEW b \in from .. last,
                      b >= since'[u], chain[b] # NoEvent, chain[b].vault = u
               PROVE  b \in Elements(sent)
      BY <1>1 DEF Covered, Elements
  <2>1. u \in Vaults
      BY DEF Watched
  <2>2. u # v
      BY <1>2, <1>3
  <2>3. u \in Watched /\ since'[u] = since[u]
      BY <1>3, <2>1, <2>2 DEF Watched
  <2> QED
      BY <2>3 DEF IInv, Covered
<1> QED
    BY <1>5, <1>6, <1>7, <1>8 DEF IInv

-----------------------------------------------------------------------------
(* The listener's steps.                                                   *)

\* What the types of the variables say of the blocks that are spoken of.
LEMMA Bounds ==
    ASSUME IInv
    PROVE  /\ Height \in Nat /\ MaxBlock \in Nat /\ Height <= MaxBlock
           /\ last \in Nat /\ last <= Height /\ upTo \in Nat /\ upTo <= Height
           /\ from \in Nat /\ from >= 1
           /\ sent \in Seq(Blocks) /\ wire \in Seq(Blocks)
           /\ Threshold \in Nat /\ failures \in Nat
           /\ chain \in [1 .. Height -> Event \cup {NoEvent}]
<1>1. chain \in Seq(Event \cup {NoEvent}) /\ Height = Len(chain)
    BY DEF IInv, ListenerTypeOK, Height
<1>2. chain \in [1 .. Height -> Event \cup {NoEvent}]
    BY <1>1
<1> QED
    BY <1>2, ListenerAssumption DEF IInv, ListenerTypeOK

LEMMA BacktrackHeadInv ==
    ASSUME IInv, BacktrackHead
    PROVE  IInv'
<1>1. /\ UNCHANGED <<chain, since, failures, subscribed, wire, last, sent,
                     taken, claim, submitted, main>>
      /\ upTo' = Height /\ pc = "start" /\ pc' = "backtrack"
    BY DEF BacktrackHead, processorVars
<1>2. from' \in 1 .. MaxBlock + 1
  <2>1. PICK head \in {0} \cup StartBlock .. Height :
            from' = IF head - BacktrackBlocks > 1 THEN head - BacktrackBlocks ELSE 1
      BY DEF BacktrackHead
  <2>2. head \in Nat /\ head <= MaxBlock
      BY <2>1, Bounds, ListenerAssumption
  <2>3. BacktrackBlocks \in Nat
      BY ListenerAssumption
  <2> QED
      BY <2>1, <2>2, <2>3, Bounds
<1>3. Height' = Height
    BY <1>1 DEF Height
<1>4. ListenerTypeOK'
    BY <1>1, <1>2, <1>3, Bounds DEF IInv, ListenerTypeOK, Watched
<1>5. WireOK'
    BY <1>1, WireKept DEF IInv
<1>6. SentOK' /\ sent = <<>>
    BY <1>1, <1>3 DEF IInv, SentOK, Increasing, Elements
<1>7. Covered'
  <2>1. last = 0
      BY <1>1 DEF IInv, SentOK
  <2>2. \A b : b \notin from' .. last'
      BY <1>1, <1>2, <2>1, Bounds
  <2> QED
      BY <2>2 DEF Covered
<1> QED
    BY <1>4, <1>5, <1>6, <1>7 DEF IInv

LEMMA BacktrackLogsInv ==
    ASSUME IInv, BacktrackLogs
    PROVE  IInv'
<1> DEFINE new == Logs(from, upTo, Watched)
<1>1. /\ UNCHANGED <<chain, since, failures, subscribed, wire, upTo, from,
                     taken, claim, submitted, main>>
      /\ sent' = sent \o new /\ last' = upTo /\ pc = "backtrack" /\ pc' = "loop"
    BY DEF BacktrackLogs, processorVars
<1>2. /\ new \in Seq(Blocks) /\ Increasing(new)
      /\ Elements(new) = {b \in from .. upTo : chain[b].kind # "none" /\ chain[b].vault \in Watched}
  <2>1. upTo <= MaxBlock
      BY Bounds
  <2> QED
      BY <2>1, Bounds, LogsOf
<1> HIDE DEF new
<1>3. sent = <<>> /\ wire = <<>> /\ wire' = <<>>
    BY <1>1 DEF IInv, SentOK, WireOK
<1>4. sent' = new
    BY <1>1, <1>2, <1>3
<1>5. Height' = Height
    BY <1>1 DEF Height
<1>6. Elements(new) \subseteq 1 .. Height
    BY <1>2, Bounds
<1>7. ListenerTypeOK'
  <2>1. taken' = 0 /\ Len(sent') \in Nat
      BY <1>1, <1>2, <1>3, <1>4 DEF IInv, ListenerTypeOK
  <2>2. taken' \in 0 .. Len(sent')
      BY <2>1
  <2> QED
      BY <1>1, <1>2, <1>4, <1>5, <2>2, Bounds DEF IInv, ListenerTypeOK, Watched
<1>8. WireOK'
    BY <1>3, WireEmptied
<1>9. SentOK'
    BY <1>1, <1>2, <1>4, <1>5, <1>6 DEF SentOK, Increasing, Elements
<1>10. Covered'
  <2> SUFFICES ASSUME NEW v \in Watched, NEW b \in from .. upTo,
                      chain[b] # NoEvent, chain[b].vault = v
               PROVE  b \in Elements(new)
      BY <1>1, <1>4 DEF Covered, Watched, Elements
  <2>1. b \in 1 .. Height
      BY Bounds
  <2>2. chain[b] \in Event
      BY <2>1, Bounds
  <2>3. chain[b].kind # "none"
      BY <2>2 DEF Event, Kinds, ClaimKinds
  <2> QED
      BY <1>2, <2>3
<1> QED
    BY <1>7, <1>8, <1>9, <1>10 DEF IInv

LEMMA BacktrackFailsInv ==
    ASSUME IInv, BacktrackFails
    PROVE  IInv'
<1>1. /\ UNCHANGED <<chain, since, failures, subscribed, wire, last, upTo, sent,
                     taken, claim, submitted, main>>
      /\ from' = last + 1 /\ pc = "backtrack" /\ pc' = "loop"
    BY DEF BacktrackFails, processorVars
<1>2. Height' = Height
    BY <1>1 DEF Height
<1>3. from' \in 1 .. MaxBlock + 1
    BY <1>1, Bounds
<1>4. ListenerTypeOK'
    BY <1>1, <1>2, <1>3 DEF IInv, ListenerTypeOK, Watched
<1>5. WireOK'
    BY <1>1, WireKept DEF IInv
<1>6. SentOK'
    BY <1>1, SentKept DEF IInv
<1>7. Covered'
  <2>1. \A b : b \notin from' .. last'
      BY <1>1, Bounds
  <2> QED
      BY <2>1 DEF Covered
<1> QED
    BY <1>4, <1>5, <1>6, <1>7 DEF IInv

\* A connection fails, or the listener turns to polling: only pc and failures change.
LEMMA LoopInv ==
    ASSUME IInv, GiveUpWebSocket \/ WsFails \/ PollStartFails
    PROVE  IInv'
<1>1. /\ UNCHANGED <<chain, since, subscribed, wire, last, upTo, sent, from,
                     taken, claim, submitted, main>>
      /\ pc' \in {"loop", "poll_start", "stopped"} /\ pc # "connected"
      /\ failures' = failures \/ (failures' = failures + 1 /\ failures < Threshold)
    BY DEF GiveUpWebSocket, WsFails, PollStartFails, processorVars
<1>2. Height' = Height
    BY <1>1 DEF Height
<1>3. failures' \in 0 .. Threshold
    BY <1>1, Bounds DEF IInv, ListenerTypeOK
<1>4. ListenerTypeOK'
    BY <1>1, <1>2, <1>3 DEF IInv, ListenerTypeOK, Watched
<1>5. WireOK'
    BY <1>1, WireKept DEF IInv
<1>6. SentOK'
    BY <1>1, SentKept DEF IInv
<1>7. Covered'
    BY <1>1, CoveredKept DEF IInv
<1> QED
    BY <1>4, <1>5, <1>6, <1>7 DEF IInv

\* A subscription begins or ends: its wire is empty.
LEMMA SubscriptionInv ==
    ASSUME IInv, WsSubscribes \/ WsEnds
    PROVE  IInv'
<1>1. /\ UNCHANGED <<chain, since, last, upTo, sent, from, taken, claim, submitted, main>>
      /\ pc' \in {"loop", "connected"} /\ wire' = <<>>
      /\ subscribed' \in {{}, Watched} /\ failures' \in {0, failures}
    BY DEF WsSubscribes, WsEnds, processorVars
<1>2. Height' = Height /\ Watched' = Watched
    BY <1>1 DEF Height, Watched
<1>3. failures' \in 0 .. Threshold
    BY <1>1, Bounds DEF IInv, ListenerTypeOK
<1>4. ListenerTypeOK'
    BY <1>1, <1>2, <1>3 DEF IInv, ListenerTypeOK
<1>5. WireOK'
    BY <1>1, WireEmptied
<1>6. SentOK'
    BY <1>1, SentKept DEF IInv
<1>7. Covered'
    BY <1>1, CoveredKept DEF IInv
<1> QED
    BY <1>4, <1>5, <1>6, <1>7 DEF IInv

\* The first event of the wire goes to the end of the channel.
LEMMA WsMessageInv ==
    ASSUME IInv, WsMessage
    PROVE  IInv'
<1> DEFINE b == Head(wire)
<1>1. /\ UNCHANGED <<chain, since, pc, failures, subscribed, last, upTo, from,
                     taken, claim, submitted, main>>
      /\ pc = "connected" /\ wire # <<>>
      /\ sent' = Append(sent, b) /\ wire' = Tail(wire)
    BY DEF WsMessage, processorVars
<1>2. /\ wire \in Seq(Blocks) /\ Increasing(wire) /\ Elements(wire) \subseteq 1 .. Height
      /\ sent \in Seq(Blocks) /\ Increasing(sent) /\ Elements(sent) \subseteq 1 .. Height
      /\ Below(Elements(sent), Elements(wire))
    BY Bounds DEF IInv, WireOK, SentOK
<1>3. /\ b \in Blocks /\ b \in Elements(wire)
      /\ Tail(wire) \in Seq(Blocks) /\ Increasing(Tail(wire))
      /\ Elements(Tail(wire)) \subseteq Elements(wire) /\ Below({b}, Elements(Tail(wire)))
    BY <1>1, <1>2, Shortened
<1> HIDE DEF b
<1>4. Below(Elements(sent), {b})
    BY <1>2, <1>3 DEF Below
<1>5. /\ sent' \in Seq(Blocks) /\ Len(sent) <= Len(sent') /\ Increasing(sent')
      /\ Elements(sent') = Elements(sent) \cup {b}
    BY <1>1, <1>2, <1>3, <1>4, Extended
<1>6. Height' = Height /\ Watched' = Watched
    BY <1>1 DEF Height, Watched
<1>7. ListenerTypeOK'
  <2>1. taken' \in 0 .. Len(sent')
    <3>1. Len(sent) \in Nat /\ Len(sent') \in Nat /\ taken \in 0 .. Len(sent)
        BY <1>2, <1>5 DEF IInv, ListenerTypeOK
    <3> QED
        BY <1>1, <1>5, <3>1
  <2> QED
      BY <1>1, <1>3, <1>5, <1>6, <2>1 DEF IInv, ListenerTypeOK
<1>8. WireOK'
  <2>1. Below(Elements(sent'), Elements(wire'))
      BY <1>1, <1>2, <1>3, <1>5 DEF Below
  <2>2. Increasing(wire') /\ Elements(wire') \subseteq 1 .. Height
      BY <1>1, <1>2, <1>3
  <2> QED
      BY <1>1, <1>6, <2>1, <2>2 DEF WireOK, Increasing, Elements
<1>9. SentOK'
  <2>1. Elements(sent') \subseteq 1 .. Height
      BY <1>2, <1>3, <1>5
  <2> QED
      BY <1>1, <1>5, <1>6, <2>1 DEF SentOK, Increasing, Elements
<1>10. Covered'
  <2>1. Elements(sent) \subseteq Elements(sent')
      BY <1>5
  <2> QED
      BY <1>1, <2>1, CoveredKept DEF IInv
<1> QED
    BY <1>7, <1>8, <1>9, <1>10 DEF IInv

\* Polling begins: the listener has gone through nothing yet.
LEMMA PollStartInv ==
    ASSUME IInv, PollStart
    PROVE  IInv'
<1>1. /\ UNCHANGED <<chain, since, failures, subscribed, wire, upTo, sent,
                     taken, claim, submitted, main>>
      /\ pc = "poll_start" /\ pc' = "polling"
      /\ last' = Height /\ from' = Height + 1
    BY DEF PollStart, processorVars
<1>2. Height' = Height /\ Watched' = Watched
    BY <1>1 DEF Height, Watched
<1>3. last' \in 0 .. Height /\ from' \in 1 .. MaxBlock + 1
    BY <1>1, Bounds
<1>4. ListenerTypeOK'
    BY <1>1, <1>2, <1>3 DEF IInv, ListenerTypeOK
<1>5. WireOK'
    BY <1>1, WireKept DEF IInv
<1>6. SentOK'
    BY <1>1, <1>2 DEF IInv, SentOK, Increasing, Elements
<1>7. Covered'
  <2>1. \A b : b \notin from' .. last'
      BY <1>1, Bounds
  <2> QED
      BY <2>1 DEF Covered
<1> QED
    BY <1>4, <1>5, <1>6, <1>7 DEF IInv

\* A tick reads the height, a poll fails, or polling stops.
LEMMA PollTurnInv ==
    ASSUME IInv, PollHead \/ PollFails \/ PollStops
    PROVE  IInv'
<1>1. /\ UNCHANGED <<chain, since, failures, subscribed, wire, last, sent, from,
                     taken, claim, submitted, main>>
      /\ pc \in {"polling", "poll_logs"}
      /\ \/ pc' = "poll_logs" /\ upTo' = Height /\ Height > last
         \/ pc' \in {"polling", "stopped"} /\ upTo' = upTo
    BY DEF PollHead, PollFails, PollStops, processorVars
<1>2. Height' = Height /\ Watched' = Watched
    BY <1>1 DEF Height, Watched
<1>3. upTo' \in 0 .. Height
    BY <1>1, Bounds
<1>4. ListenerTypeOK'
    BY <1>1, <1>2, <1>3 DEF IInv, ListenerTypeOK
<1>5. WireOK'
    BY <1>1, WireKept DEF IInv
<1>6. SentOK'
  <2>1. Elements(sent) \subseteq 1 .. last
      BY <1>1 DEF IInv, SentOK
  <2>2. pc' = "poll_logs" => last <= upTo'
      BY <1>1, Bounds
  <2> QED
      BY <1>1, <1>2, <2>1, <2>2 DEF IInv, SentOK, Increasing, Elements
<1>7. Covered'
    BY <1>1, CoveredKept DEF IInv
<1> QED
    BY <1>4, <1>5, <1>6, <1>7 DEF IInv

\* The logs of the blocks after last_processed_block join the channel.
LEMMA PollLogsInv ==
    ASSUME IInv, PollLogs
    PROVE  IInv'
<1> DEFINE new == Logs(last + 1, upTo, Watched)
<1>1. /\ UNCHANGED <<chain, since, failures, subscribed, wire, upTo, from,
                     taken, claim, submitted, main>>
      /\ sent' = sent \o new /\ last' = upTo /\ pc = "poll_logs" /\ pc' = "polling"
    BY DEF PollLogs, processorVars
<1>2. /\ new \in Seq(Blocks) /\ Increasing(new)
      /\ Elements(new) =
           {b \in last + 1 .. upTo : chain[b].kind # "none" /\ chain[b].vault \in Watched}
  <2>1. upTo <= MaxBlock /\ upTo \in Nat /\ last + 1 \in Nat \ {0}
      BY Bounds
  <2> QED
      BY <2>1, LogsOf
<1> HIDE DEF new
<1>3. /\ wire' = <<>> /\ Increasing(sent) /\ Elements(sent) \subseteq 1 .. last
      /\ last <= upTo
    BY <1>1 DEF IInv, SentOK, WireOK
<1>4. Elements(new) \subseteq last + 1 .. upTo
    BY <1>2
<1>5. Below(Elements(sent), Elements(new))
    BY <1>3, <1>4, Bounds DEF Below
<1>6. /\ sent' \in Seq(Blocks) /\ Len(sent) <= Len(sent') /\ Increasing(sent')
      /\ Elements(sent') = Elements(sent) \cup Elements(new)
    BY <1>1, <1>2, <1>3, <1>5, Bounds, Joined
<1>7. Height' = Height /\ Watched' = Watched
    BY <1>1 DEF Height, Watched
<1>8. ListenerTypeOK'
  <2>1. taken' \in 0 .. Len(sent')
    <3>1. Len(sent) \in Nat /\ Len(sent') \in Nat /\ taken \in 0 .. Len(sent)
        BY <1>6, Bounds DEF IInv, ListenerTypeOK
    <3> QED
        BY <1>1, <1>6, <3>1
  <2> QED
      BY <1>1, <1>6, <1>7, <2>1, Bounds DEF IInv, ListenerTypeOK
<1>9. WireOK'
    BY <1>3, WireEmptied
<1>10. SentOK'
  <2>1. Elements(sent') \subseteq 1 .. upTo
      BY <1>3, <1>4, <1>6, Bounds
  <2>2. Elements(sent') \subseteq 1 .. Height
      BY <2>1, Bounds
  <2> QED
      BY <1>1, <1>6, <1>7, <2>1, <2>2 DEF SentOK, Increasing, Elements
<1>11. Covered'
  <2> SUFFICES ASSUME NEW v \in Watched, NEW b \in from .. upTo,
                      b >= since[v], chain[b] # NoEvent, chain[b].vault = v
               PROVE  b \in Elements(sent) \cup Elements(new)
      BY <1>1, <1>6 DEF Covered, Watched, Elements
  <2>1. CASE b <= last
    <3>1. b \in from .. last
        BY <2>1, Bounds
    <3> QED
        BY <3>1 DEF IInv, Covered
  <2>2. CASE ~ b <= last
    <3>1. b \in last + 1 .. upTo /\ b \in 1 .. Height
        BY <2>2, Bounds
    <3>2. chain[b] \in Event
        BY <3>1, Bounds
    <3>3. chain[b].kind # "none"
        BY <3>2 DEF Event, Kinds, ClaimKinds
    <3> QED
        BY <1>2, <3>1, <3>3
  <2> QED
      BY <2>1, <2>2
<1> QED
    BY <1>8, <1>9, <1>10, <1>11 DEF IInv

-----------------------------------------------------------------------------
(* The event processor and the shutdown: the listener is left alone.       *)

LEMMA ListenerUntouched ==
    ASSUME IInv, UNCHANGED <<chain, since, listenerVars>>, ListenerTypeOK'
    PROVE  IInv'
<1>1. UNCHANGED <<chain, since, pc, wire, last, upTo, sent, from>>
    BY DEF listenerVars
<1>2. WireOK'
    BY <1>1, WireKept DEF IInv
<1>3. SentOK'
    BY <1>1 DEF IInv, SentOK, Height, Increasing, Elements
<1>4. Covered'
    BY <1>1, CoveredKept DEF IInv
<1> QED
    BY <1>2, <1>3, <1>4 DEF IInv

LEMMA ProcessEventInv ==
    ASSUME IInv, ProcessEvent
    PROVE  IInv'
<1> DEFINE b == sent[taken + 1]
<1>1. /\ UNCHANGED <<chain, since, listenerVars, main>>
      /\ taken < Len(sent) /\ taken' = taken + 1
      /\ submitted' \in {submitted, Append(submitted, b)}
      /\ claim' = Handled(chain[b].kind)
    BY DEF ProcessEvent
<1>2. UNCHANGED <<pc, failures, subscribed, wire, last, upTo, sent, from>>
    BY <1>1 DEF listenerVars
<1>3. b \in Blocks /\ taken' \in 0 .. Len(sent)
  <2>1. Len(sent) \in Nat /\ taken \in 0 .. Len(sent)
      BY Bounds DEF IInv, ListenerTypeOK
  <2>2. taken + 1 \in 1 .. Len(sent)
      BY <1>1, <2>1
  <2> QED
      BY <1>1, <2>1, <2>2, Bounds
<1> HIDE DEF b
<1>4. submitted' \in Seq(Blocks)
  <2>1. submitted \in Seq(Blocks)
      BY DEF IInv, ListenerTypeOK
  <2>2. Append(submitted, b) \in Seq(Blocks)
      BY <1>3, <2>1
  <2> QED
      BY <1>1, <2>1, <2>2
<1>5. claim' \in {NoClaim} \cup [kind : ClaimKinds, awaits : {"vendor", "tx"}]
    BY <1>1 DEF Handled
<1>6. ListenerTypeOK'
    BY <1>1, <1>2, <1>3, <1>4, <1>5 DEF IInv, ListenerTypeOK, Height, Watched
<1> QED
    BY <1>1, <1>6, ListenerUntouched

LEMMA ClaimInv ==
    ASSUME IInv, AcquisitionClaim \/ DisposalClaim
    PROVE  IInv'
<1> DEFINE Claims == [kind : ClaimKinds, awaits : {"vendor", "tx"}]
<1>1. /\ UNCHANGED <<chain, since, listenerVars, taken, submitted, main>>
      /\ ClaimCall /\ claim.kind \in ClaimKinds
    BY DEF AcquisitionClaim, DisposalClaim, ClaimKinds
<1>2. UNCHANGED <<pc, failures, subscribed, wire, last, upTo, sent, from>>
    BY <1>1 DEF listenerVars
<1>3. claim \in Claims
    BY <1>1 DEF IInv, ListenerTypeOK, NoClaim, ClaimKinds
<1>4. claim' \in {NoClaim} \cup Claims
    BY <1>1, <1>3 DEF ClaimCall
<1>5. ListenerTypeOK'
    BY <1>1, <1>2, <1>4 DEF IInv, ListenerTypeOK, Height, Watched
<1> QED
    BY <1>1, <1>5, ListenerUntouched

LEMMA ShutdownInv ==
    ASSUME IInv, CtrlC \/ ListenerJoined
    PROVE  IInv'
<1>1. /\ UNCHANGED <<chain, since, listenerVars, taken, claim, submitted>>
      /\ main' \in {"await_listener", "await_processor"}
    BY DEF CtrlC, ListenerJoined, processorVars
<1>2. UNCHANGED <<pc, failures, subscribed, wire, last, upTo, sent, from>>
    BY <1>1 DEF listenerVars
<1>3. ListenerTypeOK'
    BY <1>1, <1>2 DEF IInv, ListenerTypeOK, Height, Watched
<1> QED
    BY <1>1, <1>3, ListenerUntouched

LEMMA StutterInv ==
    ASSUME IInv, UNCHANGED vars
    PROVE  IInv'
<1>1. UNCHANGED <<chain, since, listenerVars, taken, claim, submitted, main>>
    BY DEF vars, processorVars
<1>2. UNCHANGED <<pc, failures, subscribed, wire, last, upTo, sent, from>>
    BY <1>1 DEF listenerVars
<1>3. ListenerTypeOK'
    BY <1>1, <1>2 DEF IInv, ListenerTypeOK, Height, Watched
<1> QED
    BY <1>1, <1>3, ListenerUntouched

-----------------------------------------------------------------------------

\* The inductive invariant of the event listener.
THEOREM ListenerInvariant == Spec => []IInv
<1>1. ASSUME IInv, [Next]_vars
      PROVE  IInv'
  <2>1. CASE \E e \in Event \cup {NoEvent} : NewBlock(e)
      BY <1>1, <2>1, NewBlockInv
  <2>2. CASE \E v \in Vaults : AddVault(v)
      BY <1>1, <2>2, AddVaultInv
  <2>3. CASE Listener
    <3>1. CASE BacktrackHead \/ BacktrackLogs \/ BacktrackFails
        BY <1>1, <3>1, BacktrackHeadInv, BacktrackLogsInv, BacktrackFailsInv
    <3>2. CASE GiveUpWebSocket \/ WsFails \/ PollStartFails
        BY <1>1, <3>2, LoopInv
    <3>3. CASE WsSubscribes \/ WsEnds
        BY <1>1, <3>3, SubscriptionInv
    <3>4. CASE WsMessage
        BY <1>1, <3>4, WsMessageInv
    <3>5. CASE PollStart \/ PollLogs
        BY <1>1, <3>5, PollStartInv, PollLogsInv
    <3>6. CASE PollHead \/ PollFails \/ PollStops
        BY <1>1, <3>6, PollTurnInv
    <3> QED
        BY <2>3, <3>1, <3>2, <3>3, <3>4, <3>5, <3>6 DEF Listener
  <2>4. CASE Processor
      BY <1>1, <2>4, ProcessEventInv, ClaimInv DEF Processor
  <2>5. CASE CtrlC \/ ListenerJoined
      BY <1>1, <2>5, ShutdownInv
  <2>6. CASE UNCHANGED vars
      BY <1>1, <2>6, StutterInv
  <2> QED
      BY <1>1, <2>1, <2>2, <2>3, <2>4, <2>5, <2>6 DEF Next
<1> QED
    BY <1>1, InitInv, PTL DEF Spec

\* Type correctness; in particular no block beyond the chain's end is ever
\* spoken of, and the failures in a row never exceed the threshold.
THEOREM ListenerTypeCorrect == Spec => []ListenerTypeOK
<1>1. IInv => ListenerTypeOK
    BY DEF IInv
<1> QED
    BY <1>1, ListenerInvariant, PTL

\* The channel holds the events in the order of the chain, each at most once:
\* backtrack, subscriptions and polling never overlap.
THEOREM ChainOrder == Spec => []DeliveredInChainOrder
<1>1. IInv => DeliveredInChainOrder
    BY DEF IInv, SentOK, Increasing, DeliveredInChainOrder
<1> QED
    BY <1>1, ListenerInvariant, PTL

\* From the start of the backtrack (or of the polling) up to last_processed_block
\* no event of a watched vault is missing, whatever calls failed meanwhile.
THEOREM Coverage == Spec => []CoverageComplete
<1>1. IInv => CoverageComplete
    BY DEF IInv, Covered, Elements, CoverageComplete
<1> QED
    BY <1>1, ListenerInvariant, PTL
=============================================================================
