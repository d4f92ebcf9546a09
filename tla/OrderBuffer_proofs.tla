--------------------------- MODULE OrderBuffer_proofs ---------------------------
(***************************************************************************)
(* The order buffer, for any symbols, quantities, sizes and numbers of      *)
(* orders and crashes.                                                     *)
(***************************************************************************)
EXTENDS OrderBuffer, SequenceTheorems, TLAPS

-----------------------------------------------------------------------------
(* The invariant.                                                          *)

Accepted == DOMAIN info

Increasing(s) == \A i, j \in DOMAIN s : i < j => s[i] < s[j]

\* Of the orders of one symbol, those of S were accepted before those of T; in
\* particular none is in both.
Before(S, T) == \A o \in S, p \in T : info[o].symbol = info[p].symbol => o < p

\* Accepted orders of one symbol.
Own(S, s) == S \subseteq Accepted /\ \A o \in S : info[o].symbol = s

Waiting(q) == q \in Seq(Orders) /\ InSeq(q) \subseteq Accepted /\ Increasing(q)

InPos(p) == UNION {p[s] : s \in DOMAIN p}

FileOK(f) ==
    \/ f \in {NoFile, Torn}
    \/ /\ IsCheckpoint(f)
       /\ Waiting(f.queue) /\ Len(f.queue) <= MaxSize
       /\ DOMAIN f.pos \subseteq Symbols /\ \A s \in DOMAIN f.pos : Own(f.pos[s], s)
       /\ Before(InPos(f.pos), InSeq(f.queue))
       /\ f.settled \subseteq Accepted /\ f.settled \cap InFile(f) = {}

FilesOK == FileOK(snap) /\ FileOK(tmp) /\ FileOK(disk) /\ disk # Torn

QueuesOK ==
    /\ Waiting(queue) /\ Len(queue) <= MaxSize
    /\ Waiting(batch)
    /\ \A o \in InSeq(batch), p \in InSeq(queue) : o < p

PositionsOK ==
    /\ pos = [s \in DOMAIN pos |-> pos[s]]
    /\ DOMAIN pos \subseteq Symbols
    /\ \A s \in DOMAIN pos : pos[s] \in Position /\ Own(pos[s].orders, s)

\* Messages are of one symbol each, and those of one run are in order.
MessagesOK(m) ==
    /\ m \in Seq(Message)
    /\ \A i \in DOMAIN m : Own(m[i].orders, m[i].symbol)
    /\ \A i, j \in DOMAIN m : i < j /\ m[i].run = m[j].run => Before(m[i].orders, m[j].orders)

\* What is further along was accepted earlier.
InOrder ==
    /\ Before(InPositions, InSeq(batch) \cup InSeq(queue))
    /\ Before(InMessages(ready), InPositions \cup InSeq(batch) \cup InSeq(queue))
    /\ Before(SentBy(crashes), InMemory)

Runs ==
    /\ \A i \in DOMAIN ready : ready[i].run = crashes
    /\ \A i \in DOMAIN sent : sent[i].run <= crashes
    /\ pc = "down" => \A i \in DOMAIN sent : sent[i].run < crashes

Saving == pc \in {"write", "writing", "rename"}

LoopOK ==
    /\ pc # "process" => batch = <<>> /\ ready = <<>>
    /\ pc = "down" => queue = <<>> /\ pos = <<>> /\ known = {}
    /\ Saving => IsCheckpoint(snap)
    /\ pc = "rename" => tmp = snap

Gone == InMessages(sent) \cup dropped

\* Wherever the process ends, what a checkpoint held is in the file or gone; what
\* the file holds is in the next checkpoint or gone.
Kept ==
    /\ durable \subseteq Gone \cup InFile(disk)
    /\ Up => InFile(disk) \subseteq InMemory \cup Gone
    /\ Saving => InFile(snap) \subseteq InMemory \cup Gone
    /\ Saving => InFile(disk) \subseteq Gone \cup InFile(snap)
    /\ known \subseteq InMemory \cup SentBy(crashes) \cup dropped

NotResent ==
    /\ Settled(disk) \cap InMemory = {}
    /\ Saving => Settled(snap) \cap InMemory = {}

Types ==
    /\ info \in Seq([symbol : Symbols, quantity : Quantities]) /\ Len(info) <= MaxOrders
    /\ pc \in {"select", "process", "flush", "snapshot", "write", "writing", "rename",
               "exited", "down"}
    /\ final \in BOOLEAN /\ executor \in BOOLEAN
    /\ dropped \subseteq Accepted /\ known \subseteq Accepted /\ durable \subseteq Accepted
    /\ crashes \in 0 .. MaxCrashes

IInv ==
    /\ Types /\ QueuesOK /\ PositionsOK /\ MessagesOK(ready) /\ MessagesOK(sent)
    /\ Runs /\ InOrder /\ LoopOK /\ FilesOK /\ Kept /\ NotResent

-----------------------------------------------------------------------------
(* Sequences of orders and of messages.                                    *)

LEMMA Appended ==
    ASSUME NEW S, NEW q \in Seq(S), NEW x \in S
    PROVE  InSeq(Append(q, x)) = InSeq(q) \cup {x}
<1> DEFINE a == Append(q, x)
<1>1. /\ Len(q) \in Nat /\ DOMAIN q = 1 .. Len(q) /\ DOMAIN a = 1 .. Len(q) + 1
      /\ \A i \in 1 .. Len(q) : a[i] = q[i]
      /\ a[Len(q) + 1] = x
    BY AppendProperties
<1> HIDE DEF a
<1>2. \A i \in DOMAIN a : i \in DOMAIN q \/ i = Len(q) + 1
    BY <1>1
<1>3. DOMAIN q \subseteq DOMAIN a /\ Len(q) + 1 \in DOMAIN a
    BY <1>1
<1>4. InSeq(a) = InSeq(q) \cup {x}
    BY <1>1, <1>2, <1>3 DEF InSeq
<1>5. QED
    BY <1>4 DEF a

\* An increasing sequence split in two.
LEMMA Split ==
    ASSUME NEW q \in Seq(Orders), Increasing(q), NEW n \in 0 .. Len(q)
    PROVE  LET a == SubSeq(q, 1, n)
               b == SubSeq(q, n + 1, Len(q)) IN
           /\ a \in Seq(Orders) /\ b \in Seq(Orders)
           /\ Len(a) = n /\ Len(b) = Len(q) - n
           /\ InSeq(q) = InSeq(a) \cup InSeq(b)
           /\ Increasing(a) /\ Increasing(b)
           /\ \A o \in InSeq(a), p \in InSeq(b) : o < p
<1> DEFINE a == SubSeq(q, 1, n)
<1> DEFINE b == SubSeq(q, n + 1, Len(q))
<1>1. /\ a \in Seq(Orders) /\ Len(a) = n /\ DOMAIN a = 1 .. n
      /\ \A i \in 1 .. n : a[i] = q[i]
    BY SubSeqProperties
<1>2. /\ b \in Seq(Orders) /\ Len(b) = Len(q) - n /\ DOMAIN b = 1 .. Len(q) - n
      /\ \A i \in 1 .. Len(q) - n : b[i] = q[n + i]
    BY SubSeqProperties
<1>3. Len(q) \in Nat /\ DOMAIN q = 1 .. Len(q)
    OBVIOUS
<1> HIDE DEF a, b
<1>4. InSeq(q) = InSeq(a) \cup InSeq(b)
    <2>1. \A i \in 1 .. Len(q) : i \in 1 .. n \/ (i - n \in 1 .. Len(q) - n /\ n + (i - n) = i)
        BY <1>3
    <2>2. ASSUME NEW i \in 1 .. Len(q)
          PROVE  q[i] \in InSeq(a) \cup InSeq(b)
        <3>1. CASE i \in 1 .. n
            BY <1>1, <3>1 DEF InSeq
        <3>2. CASE i \notin 1 .. n
            <4>1. i - n \in DOMAIN b /\ b[i - n] = q[n + (i - n)] /\ n + (i - n) = i
                BY <1>2, <2>1, <3>2
            <4>2. QED
                BY <4>1 DEF InSeq
        <3>3. QED
            BY <3>1, <3>2
    <2>3. InSeq(a) \subseteq InSeq(q)
        BY <1>1, <1>3 DEF InSeq
    <2>4. InSeq(b) \subseteq InSeq(q)
        BY <1>2, <1>3 DEF InSeq
    <2>5. QED
        BY <1>3, <2>2, <2>3, <2>4 DEF InSeq
<1>5. Increasing(a)
    BY <1>1, <1>3 DEF Increasing
<1>6. Increasing(b)
    <2>1. \A i, j \in 1 .. Len(q) - n :
              i < j => n + i < n + j /\ n + i \in DOMAIN q /\ n + j \in DOMAIN q
        BY <1>3
    <2>2. QED
        BY <1>2, <2>1 DEF Increasing
<1>7. \A o \in InSeq(a), p \in InSeq(b) : o < p
  <2> TAKE o \in InSeq(a), p \in InSeq(b)
  <2>1. PICK i \in 1 .. n : o = q[i]
      BY <1>1 DEF InSeq
  <2>2. PICK j \in 1 .. Len(q) - n : p = q[n + j]
      BY <1>2 DEF InSeq
  <2>3. i < n + j /\ i \in DOMAIN q /\ n + j \in DOMAIN q
      BY <1>3
  <2> QED
      BY <2>1, <2>2, <2>3 DEF Increasing
<1>8. QED
    BY <1>1, <1>2, <1>4, <1>5, <1>6, <1>7 DEF a, b

\* The first of an increasing sequence and the rest.
LEMMA Popped ==
    ASSUME NEW q \in Seq(Orders), Increasing(q), q # <<>>
    PROVE  /\ Tail(q) \in Seq(Orders) /\ Head(q) \in Orders
           /\ InSeq(q) = {Head(q)} \cup InSeq(Tail(q))
           /\ Increasing(Tail(q)) /\ \A p \in InSeq(Tail(q)) : Head(q) < p
<1>1. /\ Tail(q) \in Seq(Orders) /\ Head(q) = q[1] /\ Len(q) \in Nat \ {0}
      /\ DOMAIN q = 1 .. Len(q) /\ DOMAIN Tail(q) = 1 .. Len(q) - 1
      /\ \A i \in 1 .. Len(q) - 1 : Tail(q)[i] = q[i + 1]
    BY HeadTailProperties
<1>2. \A i \in 1 .. Len(q) : i = 1 \/ (i - 1 \in 1 .. Len(q) - 1 /\ (i - 1) + 1 = i)
    BY <1>1
<1>3. \A i \in 1 .. Len(q) - 1 : i + 1 \in 1 .. Len(q) /\ 1 < i + 1
    BY <1>1
<1>4. InSeq(q) = {Head(q)} \cup InSeq(Tail(q))
    <2>1. ASSUME NEW i \in 1 .. Len(q)
          PROVE  q[i] = Head(q) \/ q[i] \in InSeq(Tail(q))
        <3>1. CASE i # 1
            <4>1. i - 1 \in DOMAIN Tail(q) /\ Tail(q)[i - 1] = q[i]
                BY <1>1, <1>2, <3>1
            <4>2. QED
                BY <4>1 DEF InSeq
        <3>2. QED
            BY <1>1, <3>1
    <2>2. InSeq(Tail(q)) \subseteq InSeq(q) /\ Head(q) \in InSeq(q)
        BY <1>1, <1>3 DEF InSeq
    <2>3. QED
        BY <1>1, <2>1, <2>2 DEF InSeq
<1>5. Increasing(Tail(q))
    BY <1>1, <1>3 DEF Increasing
<1>6. \A p \in InSeq(Tail(q)) : Head(q) < p
    BY <1>1, <1>3 DEF Increasing, InSeq
<1>7. QED
    BY <1>1, <1>4, <1>5, <1>6

\* A later message in order.
LEMMA MessageAdded ==
    ASSUME NEW m, MessagesOK(m), NEW x \in Message, Own(x.orders, x.symbol),
           \A i \in DOMAIN m : m[i].run = x.run => Before(m[i].orders, x.orders)
    PROVE  /\ MessagesOK(Append(m, x))
           /\ InMessages(Append(m, x)) = InMessages(m) \cup x.orders
<1>1. /\ m \in Seq(Message) /\ Len(m) \in Nat /\ DOMAIN m = 1 .. Len(m)
      /\ Append(m, x) \in Seq(Message) /\ DOMAIN Append(m, x) = 1 .. Len(m) + 1
      /\ \A i \in 1 .. Len(m) : Append(m, x)[i] = m[i]
      /\ Append(m, x)[Len(m) + 1] = x
    BY AppendProperties DEF MessagesOK
<1>2. \A i \in 1 .. Len(m) + 1 : i \in 1 .. Len(m) \/ i = Len(m) + 1
    BY <1>1
<1>3. InMessages(Append(m, x)) = InMessages(m) \cup x.orders
    BY <1>1, <1>2 DEF InMessages
<1> DEFINE n == Append(m, x)
<1> HIDE DEF n
<1>4. \A i \in DOMAIN n : Own(n[i].orders, n[i].symbol)
    BY <1>1, <1>2 DEF MessagesOK, n
<1>5. ASSUME NEW i \in DOMAIN n, NEW j \in DOMAIN n, i < j, n[i].run = n[j].run
      PROVE  Before(n[i].orders, n[j].orders)
    <2>1. i \in 1 .. Len(m) /\ n[i] = m[i]
        BY <1>1, <1>5 DEF n
    <2>2. CASE j \in 1 .. Len(m)
        BY <1>1, <1>5, <2>1, <2>2 DEF MessagesOK, n
    <2>3. CASE j = Len(m) + 1
        BY <1>1, <1>5, <2>1, <2>3 DEF n
    <2>4. QED
        BY <1>1, <2>2, <2>3 DEF n
<1>6. QED
    BY <1>1, <1>3, <1>4, <1>5 DEF MessagesOK, n

LEMMA JoinedAt ==
    ASSUME NEW m \in Seq(Message), NEW r \in Seq(Message)
    PROVE  /\ \A i \in DOMAIN (m \o r) :
                \/ i \in DOMAIN m /\ (m \o r)[i] = m[i]
                \/ \E j \in DOMAIN r : (m \o r)[i] = r[j]
           /\ \A i \in DOMAIN m : i \in DOMAIN (m \o r) /\ (m \o r)[i] = m[i]
           /\ \A j \in DOMAIN r : \E i \in DOMAIN (m \o r) : (m \o r)[i] = r[j]
<1> DEFINE n == m \o r
<1>1. /\ Len(m) \in Nat /\ Len(r) \in Nat /\ DOMAIN m = 1 .. Len(m) /\ DOMAIN r = 1 .. Len(r)
      /\ DOMAIN n = 1 .. Len(m) + Len(r)
      /\ \A i \in 1 .. Len(m) + Len(r) : n[i] = IF i <= Len(m) THEN m[i] ELSE r[i - Len(m)]
    BY ConcatProperties
<1> HIDE DEF n
<1>2. \A i \in DOMAIN n : \/ i \in DOMAIN m /\ n[i] = m[i]
                          \/ i - Len(m) \in DOMAIN r /\ n[i] = r[i - Len(m)]
    BY <1>1
<1>3. \A i \in DOMAIN m : i \in DOMAIN n /\ n[i] = m[i]
    BY <1>1
<1>4. \A j \in DOMAIN r : Len(m) + j \in DOMAIN n /\ n[Len(m) + j] = r[j]
    <2> TAKE j \in DOMAIN r
    <2>1. Len(m) + j \in DOMAIN n /\ ~ Len(m) + j <= Len(m) /\ (Len(m) + j) - Len(m) = j
        BY <1>1
    <2> QED
        BY <1>1, <2>1
<1>5. QED
    BY <1>2, <1>3, <1>4 DEF n

\* Messages sent after others.
LEMMA MessagesJoined ==
    ASSUME NEW m, MessagesOK(m), NEW r, MessagesOK(r),
           \A i \in DOMAIN m, j \in DOMAIN r : m[i].run = r[j].run => Before(m[i].orders, r[j].orders)
    PROVE  /\ MessagesOK(m \o r)
           /\ InMessages(m \o r) = InMessages(m) \cup InMessages(r)
<1> DEFINE n == m \o r
<1>1. /\ m \in Seq(Message) /\ r \in Seq(Message)
      /\ Len(m) \in Nat /\ Len(r) \in Nat /\ DOMAIN m = 1 .. Len(m) /\ DOMAIN r = 1 .. Len(r)
      /\ n \in Seq(Message) /\ DOMAIN n = 1 .. Len(m) + Len(r)
      /\ \A i \in 1 .. Len(m) + Len(r) : n[i] = IF i <= Len(m) THEN m[i] ELSE r[i - Len(m)]
    BY ConcatProperties DEF MessagesOK
<1> HIDE DEF n
<1>2. \A i \in DOMAIN n : \/ i \in DOMAIN m /\ n[i] = m[i]
                          \/ i - Len(m) \in DOMAIN r /\ n[i] = r[i - Len(m)] /\ Len(m) < i
    BY <1>1
<1>3. \A i \in DOMAIN m : i \in DOMAIN n /\ n[i] = m[i]
    BY <1>1
<1>4. \A j \in DOMAIN r : Len(m) + j \in DOMAIN n /\ n[Len(m) + j] = r[j]
    <2> TAKE j \in DOMAIN r
    <2>1. Len(m) + j \in DOMAIN n /\ ~ Len(m) + j <= Len(m) /\ (Len(m) + j) - Len(m) = j
        BY <1>1
    <2> QED
        BY <1>1, <2>1
<1>5. InMessages(n) = InMessages(m) \cup InMessages(r)
    BY <1>2, <1>3, <1>4 DEF InMessages
<1>6. \A i \in DOMAIN n : Own(n[i].orders, n[i].symbol)
    BY <1>2 DEF MessagesOK
<1>7. ASSUME NEW i \in DOMAIN n, NEW j \in DOMAIN n, i < j, n[i].run = n[j].run
      PROVE  Before(n[i].orders, n[j].orders)
    <2>1. CASE j \in DOMAIN m
        <3>1. i \in DOMAIN m /\ n[i] = m[i] /\ n[j] = m[j]
            BY <1>1, <1>3, <1>7, <2>1
        <3>2. QED
            BY <1>7, <2>1, <3>1 DEF MessagesOK
    <2>2. CASE j \notin DOMAIN m /\ i \in DOMAIN m
        <3>1. j - Len(m) \in DOMAIN r /\ n[j] = r[j - Len(m)] /\ n[i] = m[i]
            BY <1>2, <1>3, <2>2
        <3>2. QED
            BY <1>7, <2>2, <3>1
    <2>3. CASE i \notin DOMAIN m /\ j \notin DOMAIN m
        <3>1. /\ j - Len(m) \in DOMAIN r /\ n[j] = r[j - Len(m)]
              /\ i - Len(m) \in DOMAIN r /\ n[i] = r[i - Len(m)]
            BY <1>2, <2>3
        <3>2. i - Len(m) < j - Len(m)
            BY <1>1, <1>7
        <3>3. QED
            BY <1>7, <3>1, <3>2 DEF MessagesOK
    <2>4. QED
        BY <2>1, <2>2, <2>3
<1>8. QED
    BY <1>1, <1>5, <1>6, <1>7 DEF MessagesOK, n

-----------------------------------------------------------------------------
(* What the invariant says of where orders are.                            *)

LEMMA AcceptedOrders ==
    ASSUME Types
    PROVE  /\ Accepted = 1 .. Len(info) /\ Len(info) \in Nat
           /\ Accepted \subseteq Orders /\ Orders \subseteq Nat
<1>1. Accepted = 1 .. Len(info) /\ Len(info) \in Nat /\ Len(info) <= MaxOrders
    BY DEF Types, Accepted
<1>2. QED
    BY <1>1, BufferAssumption DEF Orders

LEMMA SymbolKnown ==
    ASSUME Types, NEW o \in Accepted
    PROVE  info[o].symbol \in Symbols
<1> DEFINE R == [symbol : Symbols, quantity : Quantities]
<1>1. info \in Seq(R) /\ o \in 1 .. Len(info)
    BY AcceptedOrders DEF Types
<1>2. info[o] \in R
  <2> HIDE DEF R
  <2> QED
      BY <1>1, ElementOfSeq
<1>3. QED
    BY <1>2

LEMMA PlacesAccepted ==
    ASSUME IInv
    PROVE  /\ InSeq(queue) \subseteq Accepted /\ InSeq(batch) \subseteq Accepted
           /\ InPositions \subseteq Accepted
           /\ InMessages(ready) \subseteq Accepted /\ InMessages(sent) \subseteq Accepted
           /\ SentBy(crashes) \subseteq InMessages(sent)
<1>1. InSeq(queue) \subseteq Accepted /\ InSeq(batch) \subseteq Accepted
    BY DEF IInv, QueuesOK, Waiting
<1>2. InPositions \subseteq Accepted
    BY DEF IInv, PositionsOK, InPositions, Own
<1>3. InMessages(ready) \subseteq Accepted /\ InMessages(sent) \subseteq Accepted
    BY DEF IInv, MessagesOK, InMessages, Own
<1>4. SentBy(crashes) \subseteq InMessages(sent)
    BY DEF SentBy, InMessages
<1>5. QED
    BY <1>1, <1>2, <1>3, <1>4

LEMMA FileAccepted ==
    ASSUME Types, NEW f, FileOK(f)
    PROVE  InFile(f) \subseteq Accepted /\ Settled(f) \subseteq Accepted
<1>1. CASE f \in {NoFile, Torn}
    BY <1>1 DEF InFile, Settled, IsCheckpoint, NoFile, Torn
<1>2. CASE f \notin {NoFile, Torn}
    <2>1. /\ InSeq(f.queue) \subseteq Accepted /\ f.settled \subseteq Accepted
          /\ \A s \in DOMAIN f.pos : f.pos[s] \subseteq Accepted
        BY <1>2 DEF FileOK, Waiting, Own
    <2>2. QED
        BY <2>1 DEF InFile, Settled
<1>3. QED
    BY <1>1, <1>2

LEMMA RunNumbers ==
    ASSUME IInv
    PROVE  crashes \in Nat /\ \A i \in DOMAIN sent : sent[i] \in Message /\ sent[i].run \in Nat
<1>1. sent \in Seq(Message) /\ crashes \in 0 .. MaxCrashes /\ MaxCrashes \in Nat
    BY BufferAssumption DEF IInv, MessagesOK, Types
<1>2. \A i \in DOMAIN sent : sent[i] \in Message
    BY <1>1
<1>3. \A m \in Message : m.run \in Nat
    BY <1>1 DEF Message
<1>4. QED
    BY <1>1, <1>2, <1>3

\* Sets of orders one of which comes before the other are disjoint.
LEMMA BeforeDisjoint ==
    ASSUME Types, NEW S, NEW T, S \subseteq Accepted, Before(S, T)
    PROVE  S \cap T = {}
<1>1. \A o \in Accepted : ~ o < o
    BY AcceptedOrders
<1>2. QED
    BY <1>1 DEF Before

-----------------------------------------------------------------------------
(* The invariant implies the properties.                                   *)

LEMMA InvTypes == IInv => BufferTypeOK
<1> SUFFICES ASSUME IInv PROVE BufferTypeOK
    OBVIOUS
<1>1. Accepted \subseteq Orders
    BY AcceptedOrders DEF IInv
<1>2. ASSUME NEW f \in {snap, tmp, disk}
      PROVE  f \in {NoFile, Torn} \/ Checkpoint(f)
    <2>1. FileOK(f)
        BY DEF IInv, FilesOK
    <2>2. QED
        BY <1>1, <2>1 DEF FileOK, Checkpoint, Waiting, Own
<1>3. /\ info \in Seq([symbol : Symbols, quantity : Quantities]) /\ Len(info) <= MaxOrders
      /\ pc \in {"select", "process", "flush", "snapshot", "write", "writing", "rename",
                 "exited", "down"}
      /\ final \in BOOLEAN /\ executor \in BOOLEAN
      /\ dropped \subseteq Orders /\ known \subseteq Orders /\ durable \subseteq Orders
      /\ crashes \in 0 .. MaxCrashes
    BY <1>1 DEF IInv, Types
<1>4. /\ queue \in Seq(Orders) /\ Len(queue) <= MaxSize /\ batch \in Seq(Orders)
      /\ DOMAIN pos \subseteq Symbols /\ \A s \in DOMAIN pos : pos[s] \in Position
      /\ ready \in Seq(Message) /\ sent \in Seq(Message) /\ disk # Torn
    BY DEF IInv, QueuesOK, Waiting, PositionsOK, MessagesOK, FilesOK
<1>5. QED
    BY <1>2, <1>3, <1>4 DEF BufferTypeOK

LEMMA InvSomewhere == IInv => EveryOrderSomewhere
<1> SUFFICES ASSUME IInv PROVE EveryOrderSomewhere
    OBVIOUS
<1>1. Types
    BY DEF IInv
<1>2. known \subseteq InMemory \cup SentBy(crashes) \cup dropped
    BY DEF IInv, Kept
<1>3. InMemory \cap SentBy(crashes) = {}
    <2>1. Before(SentBy(crashes), InMemory) /\ SentBy(crashes) \subseteq Accepted
        BY PlacesAccepted DEF IInv, InOrder
    <2>2. QED
        BY <1>1, <2>1, BeforeDisjoint
<1>4. ASSUME NEW i \in DOMAIN sent, NEW j \in DOMAIN sent, i # j, sent[i].run = sent[j].run
      PROVE  sent[i].orders \cap sent[j].orders = {}
    <2>1. /\ sent[i].orders \subseteq Accepted /\ sent[j].orders \subseteq Accepted
          /\ i < j \/ j < i
        BY <1>4 DEF IInv, MessagesOK, Own
    <2>2. Before(sent[i].orders, sent[j].orders) \/ Before(sent[j].orders, sent[i].orders)
        BY <1>4, <2>1 DEF IInv, MessagesOK
    <2>3. QED
        BY <1>1, <2>1, <2>2, BeforeDisjoint
<1>5. QED
    BY <1>2, <1>3, <1>4 DEF EveryOrderSomewhere

LEMMA InvSymbolOrder == IInv => SymbolOrderKept
<1> SUFFICES ASSUME IInv,
                    NEW i \in DOMAIN sent, NEW j \in DOMAIN sent,
                    i < j, sent[i].run = sent[j].run, sent[i].symbol = sent[j].symbol,
                    NEW o \in sent[i].orders, NEW p \in sent[j].orders
             PROVE  o < p
    BY DEF SymbolOrderKept
<1>1. Before(sent[i].orders, sent[j].orders)
    BY DEF IInv, MessagesOK
<1>2. info[o].symbol = info[p].symbol
    BY DEF IInv, MessagesOK, Own
<1>3. QED
    BY <1>1, <1>2 DEF Before

LEMMA InvNeverLost == IInv => CheckpointedNeverLost
BY DEF IInv, Kept, Gone, CheckpointedNeverLost

LEMMA InvNotResent == IInv => SentBeforeCheckpointNotResent
<1> SUFFICES ASSUME IInv PROVE SentBeforeCheckpointNotResent
    OBVIOUS
<1>1. Settled(disk) \cap InMemory = {}
    BY DEF IInv, NotResent
<1>2. FileOK(disk)
    BY DEF IInv, FilesOK
<1>3. CASE disk \in {NoFile, Torn}
    BY <1>3 DEF Settled, IsCheckpoint, NoFile, Torn, SentBeforeCheckpointNotResent
<1>4. CASE disk \notin {NoFile, Torn}
    BY <1>1, <1>2, <1>4 DEF FileOK, Settled, SentBeforeCheckpointNotResent
<1>5. QED
    BY <1>3, <1>4

-----------------------------------------------------------------------------
(* The initial state, and the steps.                                       *)

LEMMA InvInit == Init => IInv
<1> SUFFICES ASSUME Init PROVE IInv
    OBVIOUS
<1>1. /\ info = <<>> /\ queue = <<>> /\ pos = <<>> /\ batch = <<>> /\ ready = <<>>
      /\ sent = <<>> /\ dropped = {} /\ crashes = 0 /\ known = {} /\ durable = {}
      /\ pc = "select" /\ snap = NoFile /\ tmp = NoFile /\ disk = NoFile
      /\ final = FALSE /\ executor = TRUE
    BY DEF Init
<1>2. DOMAIN <<>> = {} /\ Len(<<>>) = 0 /\ \A S : <<>> \in Seq(S)
    OBVIOUS
<1>3. Types
    <2>1. 0 <= MaxOrders /\ 0 \in 0 .. MaxCrashes
        BY BufferAssumption
    <2>2. info \in Seq([symbol : Symbols, quantity : Quantities]) /\ Len(info) <= MaxOrders
        BY <1>1, <1>2, <2>1
    <2>3. QED
        BY <1>1, <2>1, <2>2 DEF Types
<1>4. QueuesOK
    BY <1>1, <1>2, BufferAssumption DEF QueuesOK, Waiting, InSeq, Increasing
<1>5. PositionsOK
    BY <1>1, <1>2 DEF PositionsOK
<1>6. MessagesOK(ready) /\ MessagesOK(sent) /\ Runs
    BY <1>1, <1>2 DEF MessagesOK, Runs
<1>7. /\ InSeq(batch) = {} /\ InSeq(queue) = {} /\ InPositions = {}
      /\ InMessages(ready) = {} /\ InMessages(sent) = {} /\ SentBy(crashes) = {}
    BY <1>1, <1>2 DEF InSeq, InPositions, InMessages, SentBy
<1>8. InOrder
    BY <1>7 DEF InOrder, Before
<1>9. LoopOK /\ FilesOK /\ Kept /\ NotResent
    BY <1>1, <1>7 DEF LoopOK, Saving, FilesOK, FileOK, NoFile, Torn, Kept, InFile, Settled,
                      IsCheckpoint, NotResent
<1>10. QED
    BY <1>3, <1>4, <1>5, <1>6, <1>8, <1>9 DEF IInv

\* The part of the invariant about what is in memory and what was sent, and what
\* the rest says of it, where neither changes.
LEMMA MemoryStays ==
    ASSUME IInv, UNCHANGED <<info, queue, pos, batch, ready, sent, dropped, crashes>>
    PROVE  /\ QueuesOK' /\ PositionsOK' /\ MessagesOK(ready)' /\ MessagesOK(sent)' /\ InOrder'
           /\ (\A i \in DOMAIN ready : ready[i].run = crashes)'
           /\ (\A i \in DOMAIN sent : sent[i].run <= crashes)'
           /\ InMemory' = InMemory /\ Gone' = Gone /\ SentBy(crashes)' = SentBy(crashes)
           /\ Accepted' = Accepted
<1>1. Accepted' = Accepted
    BY DEF Accepted
<1>2. QueuesOK'
    BY <1>1 DEF IInv, QueuesOK, Waiting
<1>3. PositionsOK'
    BY <1>1 DEF IInv, PositionsOK, Own
<1>4. MessagesOK(ready)' /\ MessagesOK(sent)'
    BY <1>1 DEF IInv, MessagesOK, Own, Before
<1>5. InMemory' = InMemory /\ Gone' = Gone /\ SentBy(crashes)' = SentBy(crashes)
    BY DEF InMemory, Gone, SentBy, InPositions
<1>6. InOrder'
    BY <1>5 DEF IInv, InOrder, Before, InPositions
<1>7. QED
    BY <1>1, <1>2, <1>3, <1>4, <1>5, <1>6 DEF IInv, Runs

\* Orders are only added, at the end.
Grows == Accepted \subseteq Accepted' /\ \A x \in Accepted : info'[x] = info[x]

LEMMA SymbolsStay ==
    ASSUME Grows
    PROVE  /\ \A S, s : Own(S, s) => S \subseteq Accepted' /\ \A x \in S : info'[x].symbol = s
           /\ \A S, T \in SUBSET Accepted : Before(S, T) =>
                  \A x \in S, y \in T : info'[x].symbol = info'[y].symbol => x < y
BY DEF Grows, Own, Before

LEMMA MessagesStay ==
    ASSUME NEW m, MessagesOK(m), Grows
    PROVE  MessagesOK(m)'
<1>1. \A i \in DOMAIN m :
          /\ m[i].orders \in SUBSET Accepted /\ m[i].orders \subseteq Accepted'
          /\ \A x \in m[i].orders : info'[x].symbol = m[i].symbol
    <2>1. \A i \in DOMAIN m : Own(m[i].orders, m[i].symbol)
        BY DEF MessagesOK
    <2>2. \A S, s : Own(S, s) => /\ S \in SUBSET Accepted /\ S \subseteq Accepted'
                                 /\ \A x \in S : info'[x].symbol = s
        BY SymbolsStay DEF Own
    <2>3. QED
        BY <2>1, <2>2
<1>2. \A i, j \in DOMAIN m : i < j /\ m[i].run = m[j].run =>
          \A x \in m[i].orders, y \in m[j].orders : info'[x].symbol = info'[y].symbol => x < y
    BY <1>1, SymbolsStay DEF MessagesOK
<1>3. QED
    BY <1>1, <1>2 DEF MessagesOK, Own, Before

LEMMA FileGrows ==
    ASSUME NEW f, FileOK(f), Grows
    PROVE  FileOK(f)'
<1>1. CASE f \in {NoFile, Torn}
    BY <1>1 DEF FileOK
<1>2. CASE f \notin {NoFile, Torn}
    <2>1. /\ IsCheckpoint(f) /\ Waiting(f.queue) /\ Len(f.queue) <= MaxSize
          /\ DOMAIN f.pos \subseteq Symbols /\ \A s \in DOMAIN f.pos : Own(f.pos[s], s)
          /\ Before(InPos(f.pos), InSeq(f.queue))
          /\ f.settled \subseteq Accepted /\ f.settled \cap InFile(f) = {}
        BY <1>2 DEF FileOK
    <2>2. InSeq(f.queue) \in SUBSET Accepted /\ InPos(f.pos) \in SUBSET Accepted
        BY <2>1 DEF Waiting, InPos, Own
    <2>3. \A x \in InPos(f.pos), y \in InSeq(f.queue) : info'[x].symbol = info'[y].symbol => x < y
        BY <2>1, <2>2, SymbolsStay
    <2>4. \A s \in DOMAIN f.pos : f.pos[s] \subseteq Accepted' /\ \A x \in f.pos[s] : info'[x].symbol = s
        BY <2>1, SymbolsStay
    <2>5. InSeq(f.queue) \subseteq Accepted' /\ f.settled \subseteq Accepted'
        BY <2>1, <2>2 DEF Grows
    <2>6. QED
        BY <2>1, <2>3, <2>4, <2>5 DEF FileOK, Waiting, Own, Before
<1>3. QED
    BY <1>1, <1>2

LEMMA FileStays ==
    ASSUME NEW f, FileOK(f), UNCHANGED info
    PROVE  FileOK(f)'
BY FileGrows DEF Grows, Accepted

\* The loop between its passes, the writing of the file, the end of the executor.
LEMMA QuietSteps ==
    ASSUME IInv, ExecutorEnds \/ FlushDone \/ Cancel \/ BeginWrite \/ EndWrite
    PROVE  IInv'
<1> USE DEF loopVars, fileVars, execVars
<1>1. /\ UNCHANGED <<info, queue, pos, batch, ready, sent, dropped, crashes>>
      /\ UNCHANGED <<snap, disk, durable, known>>
    BY DEF ExecutorEnds, FlushDone, Cancel, BeginWrite, EndWrite
<1>2. /\ QueuesOK' /\ PositionsOK' /\ MessagesOK(ready)' /\ MessagesOK(sent)' /\ InOrder'
      /\ (\A i \in DOMAIN ready : ready[i].run = crashes)'
      /\ (\A i \in DOMAIN sent : sent[i].run <= crashes)'
      /\ InMemory' = InMemory /\ Gone' = Gone /\ SentBy(crashes)' = SentBy(crashes)
      /\ Accepted' = Accepted
    BY <1>1, MemoryStays
<1>3. Types'
    BY <1>2 DEF IInv, Types, ExecutorEnds, FlushDone, Cancel, BeginWrite, EndWrite
<1>4. Runs'
    BY <1>2 DEF IInv, Runs, ExecutorEnds, FlushDone, Cancel, BeginWrite, EndWrite
<1>5. LoopOK'
    BY DEF IInv, LoopOK, Saving, ExecutorEnds, FlushDone, Cancel, BeginWrite, EndWrite
<1>6. FilesOK'
    <2>1. tmp' \in {tmp, Torn, snap} /\ FileOK(Torn)
        BY DEF ExecutorEnds, FlushDone, Cancel, BeginWrite, EndWrite, FileOK
    <2>2. FileOK(tmp')
        BY <2>1 DEF IInv, FilesOK
    <2>3. /\ FileOK(snap)' /\ FileOK(disk)' /\ disk' # Torn
        BY <1>1, FileStays DEF IInv, FilesOK
    <2>4. FileOK(tmp)'
        BY <1>1, <2>2 DEF FileOK, Waiting, Accepted, Own, Before
    <2>5. QED
        BY <2>3, <2>4 DEF FilesOK
<1>7. Kept'
    BY <1>1, <1>2 DEF IInv, Kept, Up, Saving, ExecutorEnds, FlushDone, Cancel, BeginWrite, EndWrite
<1>8. NotResent'
    BY <1>1, <1>2 DEF IInv, NotResent, Saving, ExecutorEnds, FlushDone, Cancel, BeginWrite, EndWrite
<1>9. QED
    BY <1>2, <1>3, <1>4, <1>5, <1>6, <1>7, <1>8 DEF IInv

\* A position ages: only its age changes.
LEMMA AgesStep ==
    ASSUME IInv, NEW s \in Symbols, PositionAges(s)
    PROVE  IInv'
<1> USE DEF loopVars, fileVars, execVars
<1>1. /\ UNCHANGED <<info, queue, pc, batch, ready, final, snap, tmp, disk, durable>>
      /\ UNCHANGED <<sent, executor, dropped, crashes, known>>
      /\ s \in DOMAIN pos /\ pos' = [pos EXCEPT ![s].old = TRUE]
    BY DEF PositionAges
<1>2. /\ DOMAIN pos' = DOMAIN pos /\ pos' = [t \in DOMAIN pos' |-> pos'[t]]
      /\ \A t \in DOMAIN pos : pos'[t].orders = pos[t].orders /\ pos'[t] \in Position
    <2>1. pos = [t \in DOMAIN pos |-> pos[t]] /\ \A t \in DOMAIN pos : pos[t] \in Position
        BY DEF IInv, PositionsOK
    <2>2. [pos[s] EXCEPT !.old = TRUE] \in Position
          /\ [pos[s] EXCEPT !.old = TRUE].orders = pos[s].orders
        BY <1>1, <2>1 DEF Position
    <2>3. pos' = [t \in DOMAIN pos |-> IF t = s THEN [pos[s] EXCEPT !.old = TRUE] ELSE pos[t]]
        BY <1>1, <2>1
    <2>4. QED
        BY <2>1, <2>2, <2>3
<1>3. InPositions' = InPositions /\ Accepted' = Accepted
    BY <1>1, <1>2 DEF InPositions, Accepted
<1>4. InMemory' = InMemory /\ Gone' = Gone /\ SentBy(crashes)' = SentBy(crashes)
    BY <1>1, <1>3 DEF InMemory, Gone, SentBy
<1>5. PositionsOK'
    BY <1>1, <1>2, <1>3 DEF IInv, PositionsOK, Own
<1>6. QueuesOK' /\ MessagesOK(ready)' /\ MessagesOK(sent)' /\ Runs' /\ Types'
    BY <1>1, <1>3 DEF IInv, QueuesOK, Waiting, MessagesOK, Own, Before, Runs, Types
<1>7. InOrder'
    BY <1>1, <1>3, <1>4 DEF IInv, InOrder, Before
<1>8. LoopOK'
    <2>1. pc # "down"
        BY DEF PositionAges, Up
    <2>2. QED
        BY <1>1, <2>1 DEF IInv, LoopOK, Saving
<1>9. FilesOK'
    BY <1>1, FileStays DEF IInv, FilesOK
<1>10. Kept' /\ NotResent'
    BY <1>1, <1>4 DEF IInv, Kept, NotResent, Up, Saving
<1>11. QED
    BY <1>5, <1>6, <1>7, <1>8, <1>9, <1>10 DEF IInv

\* The snapshot holds all there is in memory, for nothing is in the loop's hands.
LEMMA SnapshotStep ==
    ASSUME IInv, Snapshot
    PROVE  IInv'
<1> USE DEF loopVars, fileVars, execVars
<1>1. /\ UNCHANGED <<info, queue, pos, batch, ready, sent, dropped, crashes>>
      /\ UNCHANGED <<final, tmp, disk, durable, executor, known>>
      /\ pc = "snapshot" /\ pc' = "write"
    BY DEF Snapshot
<1>2. /\ QueuesOK' /\ PositionsOK' /\ MessagesOK(ready)' /\ MessagesOK(sent)' /\ InOrder'
      /\ (\A i \in DOMAIN ready : ready[i].run = crashes)'
      /\ (\A i \in DOMAIN sent : sent[i].run <= crashes)'
      /\ InMemory' = InMemory /\ Gone' = Gone /\ SentBy(crashes)' = SentBy(crashes)
      /\ Accepted' = Accepted
    BY <1>1, MemoryStays
<1> DEFINE held == {s \in DOMAIN pos : pos[s].orders # {}}
<1> DEFINE part == [s \in held |-> pos[s].orders]
<1>3. /\ snap'.kind = "checkpoint" /\ snap'.queue = queue /\ snap'.pos = part
      /\ snap'.settled = Settled(disk) \cup SentBy(crashes)
    BY DEF Snapshot
<1>4. DOMAIN part \subseteq DOMAIN pos /\ InPos(part) = InPositions
    BY DEF InPos, InPositions
<1>5. \A s \in DOMAIN part : part[s] = pos[s].orders
    OBVIOUS
<1> HIDE DEF part
<1>6. InFile(snap') = InMemory
    <2>1. batch = <<>> /\ ready = <<>>
        BY <1>1 DEF IInv, LoopOK
    <2>2. InSeq(batch) = {} /\ InMessages(ready) = {}
        BY <2>1 DEF InSeq, InMessages
    <2>3. InFile(snap') = InSeq(queue) \cup InPos(part)
        BY <1>3 DEF InFile, IsCheckpoint, InPos
    <2>4. QED
        BY <1>4, <2>2, <2>3 DEF InMemory
<1>7. Settled(snap') \subseteq Accepted /\ Settled(snap') \cap InMemory = {}
    <2>1. Settled(snap') = Settled(disk) \cup SentBy(crashes)
        BY <1>3 DEF Settled, IsCheckpoint
    <2>2. Settled(disk) \subseteq Accepted
        BY FileAccepted DEF IInv, FilesOK
    <2>3. SentBy(crashes) \subseteq Accepted
        BY PlacesAccepted
    <2>4. SentBy(crashes) \cap InMemory = {}
        BY <2>3, BeforeDisjoint DEF IInv, InOrder
    <2>5. QED
        BY <2>1, <2>2, <2>3, <2>4 DEF IInv, NotResent
<1>8. FileOK(snap')
    <2>1. IsCheckpoint(snap')
        BY <1>3 DEF IsCheckpoint
    <2>2. Waiting(queue) /\ Len(queue) <= MaxSize
        BY DEF IInv, QueuesOK
    <2>3. DOMAIN part \subseteq Symbols /\ \A s \in DOMAIN part : Own(part[s], s)
        BY <1>4, <1>5 DEF IInv, PositionsOK
    <2>4. Before(InPos(part), InSeq(queue))
        BY <1>4 DEF IInv, InOrder, Before
    <2>5. snap'.settled = Settled(snap')
        BY <2>1 DEF Settled
    <2>6. QED
        BY <1>3, <1>6, <1>7, <2>1, <2>2, <2>3, <2>4, <2>5 DEF FileOK
<1>9. FilesOK'
    <2>1. FileOK(snap)'
        BY <1>1, <1>8 DEF FileOK, Waiting, Accepted, Own, Before
    <2>2. QED
        BY <1>1, <2>1, FileStays DEF IInv, FilesOK
<1>10. Types' /\ Runs'
    BY <1>1, <1>2 DEF IInv, Types, Runs
<1>11. LoopOK'
    BY <1>1, <1>3 DEF IInv, LoopOK, IsCheckpoint
<1>12. Kept' /\ NotResent'
    BY <1>1, <1>2, <1>6, <1>7 DEF IInv, Kept, NotResent, Up
<1>13. QED
    BY <1>2, <1>9, <1>10, <1>11, <1>12 DEF IInv

\* A checkpoint is in place, or was given up.
LEMMA AfterSteps ==
    ASSUME IInv, Rename \/ CheckpointFails
    PROVE  IInv'
<1> USE DEF loopVars, fileVars, execVars
<1>1. /\ UNCHANGED <<info, queue, pos, batch, ready, sent, dropped, crashes>>
      /\ UNCHANGED <<final, executor, known>>
      /\ Saving /\ pc' \in {"exited", "select"} /\ snap' = NoFile
    BY DEF Rename, CheckpointFails, AfterCheckpoint, Saving
<1>2. /\ QueuesOK' /\ PositionsOK' /\ MessagesOK(ready)' /\ MessagesOK(sent)' /\ InOrder'
      /\ (\A i \in DOMAIN ready : ready[i].run = crashes)'
      /\ (\A i \in DOMAIN sent : sent[i].run <= crashes)'
      /\ InMemory' = InMemory /\ Gone' = Gone /\ SentBy(crashes)' = SentBy(crashes)
      /\ Accepted' = Accepted
    BY <1>1, MemoryStays
<1>3. \/ disk' = snap /\ tmp' = NoFile /\ durable' = durable \cup InFile(snap)
      \/ UNCHANGED <<disk, tmp, durable>>
    BY DEF Rename, CheckpointFails, IInv, LoopOK
<1>4. FileOK(NoFile) /\ FileOK(disk') /\ FileOK(tmp') /\ disk' # Torn
    <2>1. snap # Torn
        BY <1>1 DEF IInv, LoopOK, IsCheckpoint, Torn
    <2>2. FileOK(NoFile)
        BY DEF FileOK
    <2>3. QED
        BY <1>3, <2>1, <2>2 DEF IInv, FilesOK
<1>5. FilesOK'
    <2>1. FileOK(snap)' /\ FileOK(disk)' /\ FileOK(tmp)'
        BY <1>1, <1>4 DEF FileOK, Waiting, Accepted, Own, Before
    <2>2. QED
        BY <1>4, <2>1 DEF FilesOK
<1>6. Types'
    <2>1. durable' \subseteq Accepted
        <3>1. InFile(snap) \subseteq Accepted
            BY FileAccepted DEF IInv, FilesOK
        <3>2. QED
            BY <1>3, <3>1 DEF IInv, Types
    <2>2. QED
        BY <1>1, <1>2, <2>1 DEF IInv, Types
<1>7. Runs' /\ LoopOK'
    BY <1>1, <1>2 DEF IInv, Runs, LoopOK, Saving
<1>8. Kept'
    <2>1. durable' \subseteq Gone \cup InFile(disk')
        BY <1>1, <1>3 DEF IInv, Kept
    <2>2. InFile(disk') \subseteq InMemory \cup Gone
        BY <1>1, <1>3 DEF IInv, Kept, Up, Saving
    <2>3. QED
        BY <1>1, <1>2, <2>1, <2>2 DEF IInv, Kept, Saving
<1>9. NotResent'
    BY <1>1, <1>2, <1>3 DEF IInv, NotResent, Saving
<1>10. QED
    BY <1>2, <1>5, <1>6, <1>7, <1>8, <1>9 DEF IInv

\* The process ends: what was in memory is forgotten, what a checkpoint held is in
\* the file or gone.
LEMMA EndsStep ==
    ASSUME IInv, ProcessEnds
    PROVE  IInv'
<1> USE DEF loopVars, fileVars, execVars
<1>1. /\ UNCHANGED <<info, tmp, disk, durable, sent, executor, dropped>>
      /\ crashes' = crashes + 1 /\ crashes < MaxCrashes /\ pc' = "down"
      /\ queue' = <<>> /\ pos' = <<>> /\ batch' = <<>> /\ ready' = <<>>
      /\ final' = FALSE /\ snap' = NoFile /\ known' = {}
    BY DEF ProcessEnds
<1>2. DOMAIN <<>> = {} /\ Len(<<>>) = 0 /\ \A S : <<>> \in Seq(S)
    OBVIOUS
<1>3. Accepted' = Accepted /\ Gone' = Gone
    BY <1>1 DEF Accepted, Gone
<1>4. Types'
    <2>1. crashes' \in 0 .. MaxCrashes
        BY <1>1, BufferAssumption DEF IInv, Types
    <2>2. QED
        BY <1>1, <1>3, <2>1 DEF IInv, Types
<1>5. QueuesOK'
    BY <1>1, <1>2, BufferAssumption DEF QueuesOK, Waiting, InSeq, Increasing
<1>6. PositionsOK'
    BY <1>1, <1>2 DEF PositionsOK
<1>7. MessagesOK(ready)' /\ MessagesOK(sent)'
    BY <1>1, <1>2 DEF IInv, MessagesOK, Own, Accepted, Before
<1>8. \A i \in DOMAIN sent : sent[i].run < crashes'
    <2>1. crashes \in Nat /\ \A i \in DOMAIN sent : sent[i].run \in Nat
        BY RunNumbers
    <2>2. QED
        BY <1>1, <2>1 DEF IInv, Runs
<1>9. Runs'
    <2>1. \A i \in DOMAIN sent : sent[i].run <= crashes'
        <3>1. crashes \in Nat /\ \A i \in DOMAIN sent : sent[i].run \in Nat
            BY RunNumbers
        <3>2. QED
            BY <1>1, <1>8, <3>1
    <2>2. QED
        BY <1>1, <1>2, <1>8, <2>1 DEF Runs
<1>10. /\ InSeq(batch)' = {} /\ InSeq(queue)' = {} /\ InPositions' = {}
       /\ InMessages(ready)' = {} /\ InMemory' = {}
    BY <1>1, <1>2 DEF InSeq, InPositions, InMessages, InMemory
<1>11. InOrder'
    BY <1>10 DEF InOrder, Before
<1>12. LoopOK' /\ Kept' /\ NotResent'
    BY <1>1, <1>3, <1>10 DEF IInv, LoopOK, Kept, NotResent, Up, Saving
<1>13. FilesOK'
    <2>1. FileOK(snap)'
        BY <1>1 DEF FileOK
    <2>2. QED
        BY <1>1, <2>1, FileStays DEF IInv, FilesOK
<1>14. QED
    BY <1>4, <1>5, <1>6, <1>7, <1>9, <1>11, <1>12, <1>13 DEF IInv

\* A restart brings back all the file holds, for it never holds more than the
\* queue's limit, and nothing was sent in the new run.
LEMMA RestartStep ==
    ASSUME IInv, Restart
    PROVE  IInv'
<1> USE DEF loopVars, fileVars, execVars
<1>1. /\ UNCHANGED <<info, batch, ready, final, snap, tmp, disk, durable>>
      /\ UNCHANGED <<sent, dropped, crashes>>
      /\ known' = InFile(disk) /\ executor' = TRUE /\ pc' = "select" /\ pc = "down"
    BY DEF Restart
<1>2. /\ queue = <<>> /\ pos = <<>> /\ batch = <<>> /\ ready = <<>>
    BY <1>1 DEF IInv, LoopOK
<1>3. Accepted' = Accepted /\ Gone' = Gone
    BY <1>1 DEF Accepted, Gone
<1>4. FileOK(disk) /\ InFile(disk) \subseteq Accepted
    BY FileAccepted DEF IInv, FilesOK
<1>5. /\ Waiting(queue') /\ Len(queue') <= MaxSize
      /\ pos' = [s \in DOMAIN pos' |-> pos'[s]] /\ DOMAIN pos' \subseteq Symbols
      /\ \A s \in DOMAIN pos' : pos'[s] \in Position /\ Own(pos'[s].orders, s)
      /\ Before(UNION {pos'[s].orders : s \in DOMAIN pos'}, InSeq(queue'))
      /\ InSeq(queue') \cup UNION {pos'[s].orders : s \in DOMAIN pos'} = InFile(disk)
    <2>1. CASE IsCheckpoint(disk)
        <3>1. /\ Waiting(disk.queue) /\ Len(disk.queue) <= MaxSize
              /\ DOMAIN disk.pos \subseteq Symbols
              /\ \A s \in DOMAIN disk.pos : Own(disk.pos[s], s)
              /\ Before(InPos(disk.pos), InSeq(disk.queue))
            BY <1>4, <2>1 DEF FileOK, NoFile, Torn, IsCheckpoint
        <3>2. queue' = disk.queue
            <4>1. disk.queue \in Seq(Orders) /\ Len(disk.queue) \in Nat /\ MaxSize \in Nat
                BY <3>1, BufferAssumption DEF Waiting
            <4>2. queue' = SubSeq(disk.queue, 1, Len(disk.queue))
                BY <2>1, <3>1, <4>1 DEF Restart
            <4>3. QED
                BY <4>1, <4>2
        <3>3. pos' = [s \in DOMAIN disk.pos |-> [NewPosition EXCEPT !.orders = disk.pos[s]]]
            BY <2>1 DEF Restart
        <3>4. /\ DOMAIN pos' = DOMAIN disk.pos /\ pos' = [s \in DOMAIN pos' |-> pos'[s]]
              /\ \A s \in DOMAIN pos' : pos'[s] = [orders |-> disk.pos[s], old |-> FALSE]
            BY <3>3 DEF NewPosition
        <3>5. \A s \in DOMAIN pos' : pos'[s] \in Position /\ pos'[s].orders = disk.pos[s]
            <4>1. \A s \in DOMAIN pos' : disk.pos[s] \subseteq Orders
                BY <3>1, <3>4, AcceptedOrders DEF Own, IInv
            <4>2. ASSUME NEW s \in DOMAIN pos'
                  PROVE  pos'[s] \in Position /\ pos'[s].orders = disk.pos[s]
                <5>1. pos'[s] = [orders |-> disk.pos[s], old |-> FALSE]
                    BY <3>4
                <5>2. disk.pos[s] \in SUBSET Orders
                    BY <4>1
                <5>3. QED
                    BY <5>1, <5>2 DEF Position
            <4>3. QED
                BY <4>2
        <3>6. UNION {pos'[s].orders : s \in DOMAIN pos'} = InPos(disk.pos)
            BY <3>4, <3>5 DEF InPos
        <3>7. InFile(disk) = InSeq(disk.queue) \cup InPos(disk.pos)
            BY <2>1 DEF InFile, InPos
        <3>8. QED
            BY <3>1, <3>2, <3>4, <3>5, <3>6, <3>7
    <2>2. CASE ~ IsCheckpoint(disk)
        <3>1. queue' = <<>> /\ pos' = <<>> /\ InFile(disk) = {}
            BY <1>2, <2>2 DEF Restart, InFile
        <3>2. DOMAIN <<>> = {} /\ Len(<<>>) = 0 /\ \A S : <<>> \in Seq(S)
            OBVIOUS
        <3>3. InSeq(queue') = {} /\ UNION {pos'[s].orders : s \in DOMAIN pos'} = {}
            BY <3>1, <3>2 DEF InSeq
        <3>4. Waiting(queue') /\ Len(queue') <= MaxSize
            BY <3>1, <3>2, <3>3, BufferAssumption DEF Waiting, Increasing
        <3>5. QED
            BY <3>1, <3>2, <3>3, <3>4 DEF Before
    <2>3. QED
        BY <2>1, <2>2
<1>6. /\ InSeq(batch)' = {} /\ InMessages(ready)' = {} /\ SentBy(crashes)' = {}
    <2>1. \A i \in DOMAIN sent : sent[i].run < crashes /\ sent[i].run \in Nat
        BY <1>1, RunNumbers DEF IInv, Runs
    <2>2. SentBy(crashes) = {}
        BY <2>1 DEF SentBy, IInv, Types
    <2>3. QED
        BY <1>1, <1>2, <2>2 DEF InSeq, InMessages, SentBy
<1>7. InPositions' = UNION {pos'[s].orders : s \in DOMAIN pos'} /\ InMemory' = InFile(disk)
    BY <1>5, <1>6 DEF InPositions, InMemory
<1>8. Types'
    BY <1>1, <1>3, <1>4 DEF IInv, Types
<1>9. QueuesOK'
    BY <1>1, <1>3, <1>5, <1>6 DEF IInv, QueuesOK, Waiting
<1>10. PositionsOK'
    BY <1>1, <1>3, <1>5 DEF PositionsOK, Own
<1>11. MessagesOK(ready)' /\ MessagesOK(sent)' /\ Runs'
    BY <1>1, <1>3 DEF IInv, MessagesOK, Own, Before, Runs
<1>12. InOrder'
    BY <1>1, <1>5, <1>6, <1>7 DEF InOrder, Before
<1>13. LoopOK'
    BY <1>1, <1>2 DEF LoopOK, Saving
<1>14. FilesOK'
    BY <1>1, FileStays DEF IInv, FilesOK
<1>15. Kept'
    BY <1>1, <1>3, <1>7 DEF IInv, Kept, Saving
<1>16. NotResent'
    <2>1. Settled(disk) \cap InFile(disk) = {}
        BY InvNotResent DEF SentBeforeCheckpointNotResent
    <2>2. QED
        BY <1>1, <1>7, <2>1 DEF NotResent, Saving
<1>17. QED
    BY <1>8, <1>9, <1>10, <1>11, <1>12, <1>13, <1>14, <1>15, <1>16 DEF IInv

\* Popped orders stay in order, and stay in memory.
LEMMA PopStep ==
    ASSUME IInv, PopBatch
    PROVE  IInv'
<1> USE DEF loopVars, fileVars, execVars
<1>1. /\ UNCHANGED <<info, pos, ready, final, snap, tmp, disk, durable>>
      /\ UNCHANGED <<sent, executor, dropped, crashes, known>>
      /\ pc = "select" /\ pc' = "process"
    BY DEF PopBatch
<1>2. PICK n \in 0 .. Len(queue) :
          batch' = SubSeq(queue, 1, n) /\ queue' = SubSeq(queue, n + 1, Len(queue))
    <2>1. queue \in Seq(Orders) /\ Len(queue) \in Nat /\ PopSize \in Nat
        BY BufferAssumption DEF IInv, QueuesOK, Waiting
    <2>2. CASE PopSize < Len(queue)
        <3>1. /\ PopSize \in 0 .. Len(queue)
              /\ batch' = SubSeq(queue, 1, PopSize)
              /\ queue' = SubSeq(queue, PopSize + 1, Len(queue))
            BY <2>1, <2>2 DEF PopBatch
        <3>2. QED
            BY <3>1
    <2>3. CASE ~ PopSize < Len(queue)
        <3>1. /\ Len(queue) \in 0 .. Len(queue)
              /\ batch' = SubSeq(queue, 1, Len(queue))
              /\ queue' = SubSeq(queue, Len(queue) + 1, Len(queue))
            BY <2>1, <2>3 DEF PopBatch
        <3>2. QED
            BY <3>1
    <2>4. QED
        BY <2>2, <2>3
<1>3. /\ Waiting(queue) /\ Len(queue) <= MaxSize /\ Len(queue) \in Nat
      /\ queue \in Seq(Orders) /\ Increasing(queue)
    BY DEF IInv, QueuesOK, Waiting
<1>4. /\ batch' \in Seq(Orders) /\ queue' \in Seq(Orders)
      /\ Len(batch') = n /\ Len(queue') = Len(queue) - n
      /\ InSeq(queue) = InSeq(batch') \cup InSeq(queue')
      /\ Increasing(batch') /\ Increasing(queue')
      /\ \A o \in InSeq(batch'), p \in InSeq(queue') : o < p
    BY <1>2, <1>3, Split
<1>5. batch = <<>> /\ ready = <<>> /\ InSeq(batch) = {}
    BY <1>1 DEF IInv, LoopOK, InSeq
<1>6. Accepted' = Accepted /\ Gone' = Gone /\ InPositions' = InPositions
      /\ SentBy(crashes)' = SentBy(crashes)
    BY <1>1 DEF Accepted, Gone, InPositions, SentBy
<1>7. InMemory' = InMemory
    BY <1>1, <1>4, <1>5, <1>6 DEF InMemory
<1>8. QueuesOK'
    <2>1. Len(queue') <= MaxSize
        BY <1>3, <1>4, BufferAssumption
    <2>2. QED
        BY <1>3, <1>4, <1>6, <2>1 DEF QueuesOK, Waiting
<1>9. PositionsOK' /\ MessagesOK(ready)' /\ MessagesOK(sent)' /\ Runs' /\ Types'
    BY <1>1, <1>6 DEF IInv, PositionsOK, MessagesOK, Own, Before, Runs, Types
<1>10. InOrder'
    BY <1>1, <1>4, <1>5, <1>6, <1>7 DEF IInv, InOrder, Before
<1>11. LoopOK'
    BY <1>1 DEF LoopOK, Saving
<1>12. FilesOK'
    BY <1>1, FileStays DEF IInv, FilesOK
<1>13. Kept' /\ NotResent'
    BY <1>1, <1>6, <1>7 DEF IInv, Kept, NotResent, Up, Saving
<1>14. QED
    BY <1>8, <1>9, <1>10, <1>11, <1>12, <1>13 DEF IInv

\* A new order is greater than all there are, and in none of the files.
LEMMA PushStep ==
    ASSUME IInv, NEW s \in Symbols, NEW q \in Quantities, Push(s, q)
    PROVE  IInv'
<1> USE DEF loopVars, fileVars, execVars
<1> DEFINE o == Len(info) + 1
<1>1. /\ UNCHANGED <<pos, pc, batch, ready, final, snap, tmp, disk, durable>>
      /\ UNCHANGED <<sent, executor, dropped, crashes>>
      /\ info' = Append(info, [symbol |-> s, quantity |-> q]) /\ queue' = Append(queue, o)
      /\ known' = known \cup {o}
      /\ pc # "down" /\ Len(info) < MaxOrders /\ Len(queue) < MaxSize
    BY DEF Push, Up
<1>2. /\ info' \in Seq([symbol : Symbols, quantity : Quantities]) /\ Len(info') <= MaxOrders
      /\ Accepted' = Accepted \cup {o} /\ o \in Orders /\ o \notin Accepted
      /\ \A x \in Accepted : info'[x] = info[x] /\ x < o /\ x \in Nat
    <2> DEFINE r == [symbol |-> s, quantity |-> q]
    <2>1. info \in Seq([symbol : Symbols, quantity : Quantities]) /\ MaxOrders \in Nat
        BY BufferAssumption DEF IInv, Types
    <2>2. r \in [symbol : Symbols, quantity : Quantities]
        OBVIOUS
    <2>3. /\ info' \in Seq([symbol : Symbols, quantity : Quantities])
          /\ Len(info') = Len(info) + 1 /\ DOMAIN info' = 1 .. Len(info) + 1
          /\ Len(info) \in Nat /\ Accepted = 1 .. Len(info)
          /\ \A x \in 1 .. Len(info) : info'[x] = info[x]
        BY <1>1, <2>1, <2>2, AppendProperties, AcceptedOrders DEF IInv
    <2>4. QED
        BY <1>1, <2>1, <2>3 DEF Accepted, Orders
<1> HIDE DEF o
<1>3. /\ InSeq(queue') = InSeq(queue) \cup {o} /\ queue' \in Seq(Orders)
      /\ Len(queue') <= MaxSize /\ Increasing(queue')
    <2>1. queue \in Seq(Orders) /\ Increasing(queue) /\ InSeq(queue) \subseteq Accepted
        BY DEF IInv, QueuesOK, Waiting
    <2>2. InSeq(queue') = InSeq(queue) \cup {o}
        BY <1>1, <1>2, <2>1, Appended
    <2>3. /\ queue' \in Seq(Orders) /\ Len(queue) \in Nat /\ DOMAIN queue = 1 .. Len(queue)
          /\ Len(queue') = Len(queue) + 1 /\ DOMAIN queue' = 1 .. Len(queue) + 1
          /\ \A i \in 1 .. Len(queue) : queue'[i] = queue[i] /\ queue[i] < o
          /\ queue'[Len(queue) + 1] = o
        <3>1. \A i \in 1 .. Len(queue) : queue[i] \in InSeq(queue)
            BY <2>1 DEF InSeq
        <3>2. QED
            BY <1>1, <1>2, <2>1, <3>1, AppendProperties
    <2>4. Increasing(queue')
        BY <2>1, <2>3 DEF Increasing
    <2>5. Len(queue') <= MaxSize
        BY <1>1, <2>3, BufferAssumption
    <2>6. QED
        BY <2>2, <2>3, <2>4, <2>5
<1>4. /\ InSeq(batch) \subseteq Accepted /\ InPositions \subseteq Accepted
      /\ InMessages(ready) \subseteq Accepted /\ InMessages(sent) \subseteq Accepted
      /\ InSeq(queue) \subseteq Accepted /\ SentBy(crashes) \subseteq Accepted
    BY PlacesAccepted
<1>5. /\ InMemory' = InMemory \cup {o} /\ Gone' = Gone /\ InPositions' = InPositions
      /\ SentBy(crashes)' = SentBy(crashes) /\ InMemory \subseteq Accepted
    BY <1>1, <1>3, <1>4 DEF InMemory, Gone, SentBy, InPositions
<1>6. Types'
    BY <1>1, <1>2 DEF IInv, Types
<1>7. QueuesOK'
    BY <1>1, <1>2, <1>3, <1>4 DEF IInv, QueuesOK, Waiting
<1>8. PositionsOK'
    BY <1>1, <1>2 DEF IInv, PositionsOK, Own
<1> Grows
    BY <1>2 DEF Grows
<1>9. MessagesOK(ready)' /\ MessagesOK(sent)' /\ Runs'
    <2>1. MessagesOK(ready)' /\ MessagesOK(sent)'
        BY <1>1, MessagesStay DEF IInv
    <2>2. QED
        BY <1>1, <2>1 DEF IInv, Runs
<1>10. InOrder'
    <2> DEFINE After(S, T) == \A x \in S, y \in T : info'[x].symbol = info'[y].symbol => x < y
    <2>1. ASSUME NEW S \in SUBSET Accepted, NEW T \in SUBSET Accepted, Before(S, T)
          PROVE  After(S, T) /\ After(S, T \cup {o})
        <3>1. After(S, T)
            BY <2>1, SymbolsStay
        <3>2. QED
            BY <1>2, <3>1
    <2>2. /\ Before(InPositions, InSeq(batch) \cup InSeq(queue))
          /\ Before(InMessages(ready), InPositions \cup InSeq(batch) \cup InSeq(queue))
          /\ Before(SentBy(crashes), InMemory)
        BY DEF IInv, InOrder
    <2> HIDE DEF After
    <2>3. After(InPositions, (InSeq(batch) \cup InSeq(queue)) \cup {o})
        BY <1>4, <2>1, <2>2
    <2>4. After(InMessages(ready), (InPositions \cup InSeq(batch) \cup InSeq(queue)) \cup {o})
        BY <1>4, <2>1, <2>2
    <2>5. After(SentBy(crashes), InMemory \cup {o})
        BY <1>4, <1>5, <2>1, <2>2
    <2>6. /\ (InSeq(batch) \cup InSeq(queue)) \cup {o} = InSeq(batch') \cup InSeq(queue')
          /\ (InPositions \cup InSeq(batch) \cup InSeq(queue)) \cup {o}
                 = InPositions' \cup InSeq(batch') \cup InSeq(queue')
        BY <1>1, <1>3, <1>5
    <2>7. /\ After(InPositions', InSeq(batch') \cup InSeq(queue'))
          /\ After(InMessages(ready'), InPositions' \cup InSeq(batch') \cup InSeq(queue'))
          /\ After(SentBy(crashes)', InMemory')
        BY <1>1, <1>5, <2>3, <2>4, <2>5, <2>6
    <2>8. QED
        BY <2>7 DEF InOrder, Before, After
<1>11. LoopOK'
    BY <1>1 DEF IInv, LoopOK, Saving
<1>12. FilesOK'
    BY <1>1, FileGrows DEF IInv, FilesOK
<1>13. Kept'
    BY <1>1, <1>5 DEF IInv, Kept, Up, Saving
<1>14. NotResent'
    <2>1. Settled(disk) \subseteq Accepted /\ Settled(snap) \subseteq Accepted
        BY FileAccepted DEF IInv, FilesOK
    <2>2. QED
        BY <1>1, <1>2, <1>5, <2>1 DEF IInv, NotResent, Saving
<1>15. QED
    BY <1>6, <1>7, <1>8, <1>9, <1>10, <1>11, <1>12, <1>13, <1>14 DEF IInv

\* Messages of the current run, made of what is in memory, go into the channel or
\* are dropped.
LEMMA Sends ==
    ASSUME IInv, NEW r, MessagesOK(r), \A j \in DOMAIN r : r[j].run = crashes,
           InMessages(r) \subseteq InMemory, Send(r), UNCHANGED <<info, crashes>>
    PROVE  /\ MessagesOK(sent)' /\ (\A i \in DOMAIN sent : sent[i].run <= crashes)'
           /\ Gone' = Gone \cup InMessages(r)
           /\ SentBy(crashes)' \subseteq SentBy(crashes) \cup InMessages(r)
           /\ SentBy(crashes)' \cup dropped' = SentBy(crashes) \cup dropped \cup InMessages(r)
           /\ dropped' \subseteq Accepted
<1>1. InMessages(r) \subseteq Accepted
    BY DEF MessagesOK, InMessages, Own
<1>2. MessagesOK(sent) /\ dropped \subseteq Accepted
    BY DEF IInv, Types
<1>3. CASE ~ executor
    <2>1. sent' = sent /\ dropped' = dropped \cup InMessages(r)
        BY <1>3 DEF Send
    <2>2. QED
        BY <1>1, <1>2, <2>1 DEF IInv, Runs, MessagesOK, Own, Before, Accepted, Gone, SentBy
<1>4. CASE executor
    <2>1. sent' = sent \o r /\ dropped' = dropped
        BY <1>4 DEF Send
    <2>2. ASSUME NEW i \in DOMAIN sent, NEW j \in DOMAIN r, sent[i].run = r[j].run
          PROVE  Before(sent[i].orders, r[j].orders)
        <3>1. sent[i].orders \subseteq SentBy(crashes)
            BY <2>2 DEF SentBy
        <3>2. r[j].orders \subseteq InMemory
            BY DEF InMessages
        <3>3. QED
            BY <3>1, <3>2 DEF IInv, InOrder, Before
    <2>3. MessagesOK(sent \o r) /\ InMessages(sent \o r) = InMessages(sent) \cup InMessages(r)
        BY <1>2, <2>2, MessagesJoined
    <2>4. /\ \A i \in DOMAIN (sent \o r) :
                \/ i \in DOMAIN sent /\ (sent \o r)[i] = sent[i]
                \/ \E j \in DOMAIN r : (sent \o r)[i] = r[j]
          /\ \A i \in DOMAIN sent : i \in DOMAIN (sent \o r) /\ (sent \o r)[i] = sent[i]
          /\ \A j \in DOMAIN r : \E i \in DOMAIN (sent \o r) : (sent \o r)[i] = r[j]
        BY <1>2, JoinedAt DEF MessagesOK
    <2> DEFINE n == sent \o r
    <2> HIDE DEF n
    <2>5. \A i \in DOMAIN n : n[i].run <= crashes
        BY <2>4, RunNumbers DEF IInv, Runs, n
    <2>6. UNION {n[i].orders : i \in {j \in DOMAIN n : n[j].run = crashes}}
              = SentBy(crashes) \cup InMessages(r)
        BY <2>4 DEF SentBy, InMessages, n
    <2>7. SentBy(crashes)' = SentBy(crashes) \cup InMessages(r)
        BY <2>1, <2>6 DEF SentBy, n
    <2>8. Gone' = Gone \cup InMessages(r)
        BY <2>1, <2>3 DEF Gone
    <2>9. MessagesOK(sent)'
        BY <2>1, <2>3 DEF MessagesOK, Own, Before, Accepted
    <2>10. QED
        BY <1>2, <2>1, <2>5, <2>7, <2>8, <2>9 DEF n
<1>5. QED
    BY <1>3, <1>4

\* An order taken from the batch joins the position of its symbol, all of which
\* may be ready.
LEMMA ProcessStep ==
    ASSUME IInv, ProcessOrder
    PROVE  IInv'
<1> USE DEF loopVars, fileVars, execVars
<1> DEFINE o == Head(batch)
<1> DEFINE s == info[o].symbol
<1> DEFINE p == IF s \in DOMAIN pos THEN pos[s] ELSE NewPosition
<1> DEFINE all == p.orders \cup {o}
<1> DEFINE m == [symbol |-> s, orders |-> all, run |-> crashes]
<1> DEFINE others == UNION {pos[t].orders : t \in DOMAIN pos \ {s}}
<1>1. /\ UNCHANGED <<info, queue, pc, final, snap, tmp, disk, durable>>
      /\ UNCHANGED <<sent, executor, dropped, crashes, known>>
      /\ pc = "process" /\ batch # <<>> /\ batch' = Tail(batch)
    BY DEF ProcessOrder
<1>2. \/ pos' = WithPosition(s, NewPosition) /\ ready' = Append(ready, m)
      \/ pos' = WithPosition(s, [p EXCEPT !.orders = all]) /\ ready' = ready
  <2> DEFINE full == Quantity(all) >= MinSize
  <2>1. /\ pos' = WithPosition(s, IF full THEN NewPosition ELSE [p EXCEPT !.orders = all])
        /\ ready' = IF full THEN Append(ready, m) ELSE ready
      BY DEF ProcessOrder
  <2> HIDE DEF full, all, m, p
  <2> QED
      BY <2>1
<1>3. /\ batch' \in Seq(Orders) /\ o \in Orders
      /\ InSeq(batch) = {o} \cup InSeq(batch')
      /\ Increasing(batch') /\ \A x \in InSeq(batch') : o < x
    BY <1>1, Popped DEF IInv, QueuesOK, Waiting
<1>4. o \in Accepted /\ s \in Symbols
    <2>1. o \in Accepted
        BY <1>3 DEF IInv, QueuesOK, Waiting
    <2>2. QED
        BY <2>1, SymbolKnown DEF IInv
<1>5. /\ p.orders \subseteq InPositions /\ Own(p.orders, s) /\ p \in Position
      /\ NewPosition \in Position /\ NewPosition.orders = {}
    <2>1. NewPosition \in Position /\ NewPosition.orders = {} /\ Own({}, s)
        BY DEF NewPosition, Position, Own
    <2>2. CASE s \in DOMAIN pos
        BY <2>1, <2>2 DEF IInv, PositionsOK, InPositions
    <2>3. CASE s \notin DOMAIN pos
        BY <2>1, <2>3
    <2>4. QED
        BY <2>2, <2>3
<1>6. InPositions = others \cup p.orders
    <2>1. CASE s \in DOMAIN pos
        BY <2>1 DEF InPositions
    <2>2. CASE s \notin DOMAIN pos
        BY <1>5, <2>2 DEF InPositions
    <2>3. QED
        BY <2>1, <2>2
<1>7. /\ Own(all, s) /\ all \subseteq Orders /\ all \subseteq Accepted
    BY <1>4, <1>5, AcceptedOrders DEF IInv, Own
<1>8. \A x \in others : x \in Accepted /\ info[x].symbol # s
    BY DEF IInv, PositionsOK, Own
<1>9. m \in Message /\ m.orders = all /\ m.symbol = s /\ m.run = crashes
    BY <1>4, <1>7 DEF Message, IInv, Types
<1>10. [p EXCEPT !.orders = all] \in Position /\ [p EXCEPT !.orders = all].orders = all
    BY <1>5, <1>7 DEF Position
<1> DEFINE new == [p EXCEPT !.orders = all]
<1> HIDE DEF o, s, p, all, m, others, new
<1>11. /\ Before(InPositions, InSeq(batch) \cup InSeq(queue))
       /\ Before(InMessages(ready), InPositions \cup InSeq(batch) \cup InSeq(queue))
       /\ Before(SentBy(crashes), InMemory)
    BY DEF IInv, InOrder
<1>12. ASSUME NEW u \in Position, u.orders \subseteq all, pos' = WithPosition(s, u)
       PROVE  PositionsOK' /\ InPositions' = others \cup u.orders
    <2>1. /\ DOMAIN pos' = DOMAIN pos \cup {s} /\ pos' = [t \in DOMAIN pos' |-> pos'[t]]
          /\ pos'[s] = u /\ \A t \in DOMAIN pos \ {s} : pos'[t] = pos[t]
        BY <1>12 DEF WithPosition
    <2>2. InPositions' = others \cup u.orders
        BY <2>1 DEF InPositions, others
    <2>3. \A t \in DOMAIN pos' : pos'[t] \in Position /\ Own(pos'[t].orders, t)
        <3>1. pos'[s] \in Position /\ Own(pos'[s].orders, s)
            BY <1>7, <1>12, <2>1 DEF Own
        <3>2. \A t \in DOMAIN pos \ {s} : pos'[t] \in Position /\ Own(pos'[t].orders, t)
            BY <2>1 DEF IInv, PositionsOK
        <3>3. QED
            BY <2>1, <3>1, <3>2
    <2>4. DOMAIN pos' \subseteq Symbols
        BY <1>4, <2>1 DEF IInv, PositionsOK
    <2>5. QED
        BY <1>1, <2>1, <2>2, <2>3, <2>4 DEF PositionsOK, Own, Accepted
<1>13. PositionsOK' /\ MessagesOK(ready') /\ (\A i \in DOMAIN ready' : ready'[i].run = crashes)
       /\ \/ InPositions' = others /\ InMessages(ready') = InMessages(ready) \cup all
          \/ InPositions' = others \cup all /\ InMessages(ready') = InMessages(ready)
    <2>1. CASE pos' = WithPosition(s, NewPosition) /\ ready' = Append(ready, m)
        <3>1. PositionsOK' /\ InPositions' = others
            BY <1>5, <1>12, <2>1
        <3>2. \A i \in DOMAIN ready : Before(ready[i].orders, all)
            <4>1. all \subseteq InPositions \cup InSeq(batch)
                BY <1>3, <1>5 DEF all
            <4>2. \A i \in DOMAIN ready : ready[i].orders \subseteq InMessages(ready)
                BY DEF InMessages
            <4>3. QED
                BY <1>11, <4>1, <4>2 DEF Before
        <3>3. /\ MessagesOK(ready') /\ InMessages(ready') = InMessages(ready) \cup all
            BY <1>7, <1>9, <2>1, <3>2, MessageAdded DEF IInv
        <3>4. \A i \in DOMAIN ready' : ready'[i].run = crashes
            <4>1. ready \in Seq(Message) /\ \A i \in DOMAIN ready : ready[i].run = crashes
                BY DEF IInv, MessagesOK, Runs
            <4>2. /\ DOMAIN ready = 1 .. Len(ready) /\ Len(ready) \in Nat
                  /\ DOMAIN ready' = 1 .. Len(ready) + 1
                  /\ \A i \in 1 .. Len(ready) : ready'[i] = ready[i]
                  /\ ready'[Len(ready) + 1] = m
                BY <1>9, <2>1, <4>1, AppendProperties
            <4>3. QED
                BY <1>9, <4>1, <4>2
        <3>5. QED
            BY <3>1, <3>3, <3>4
    <2>2. CASE pos' = WithPosition(s, new) /\ ready' = ready
        <3>1. PositionsOK' /\ InPositions' = others \cup all
            BY <1>10, <1>12, <2>2 DEF new
        <3>2. QED
            BY <2>2, <3>1 DEF IInv, Runs
    <2>3. QED
        BY <1>2, <2>1, <2>2 DEF new
<1>14. /\ InMemory' = InMemory /\ Gone' = Gone /\ SentBy(crashes)' = SentBy(crashes)
       /\ Accepted' = Accepted
    BY <1>1, <1>3, <1>6, <1>13 DEF InMemory, Gone, SentBy, Accepted, all
<1>15. MessagesOK(ready)' /\ MessagesOK(sent)' /\ Runs' /\ Types'
    <2>1. MessagesOK(ready)' /\ MessagesOK(sent)'
        BY <1>1, <1>13 DEF IInv, MessagesOK, Own, Before, Accepted
    <2>2. QED
        BY <1>1, <1>13, <1>14, <2>1 DEF IInv, Runs, Types
<1>16. QueuesOK'
    BY <1>1, <1>3, <1>14 DEF IInv, QueuesOK, Waiting
<1>17. InOrder'
    <2>1. /\ InSeq(batch') \cup InSeq(queue') \subseteq InSeq(batch) \cup InSeq(queue)
          /\ \A x \in InSeq(batch') \cup InSeq(queue') : o < x
        BY <1>1, <1>3 DEF IInv, QueuesOK
    <2>2. Before(others \cup all, InSeq(batch') \cup InSeq(queue'))
        BY <1>6, <1>11, <2>1 DEF Before, all
    <2>3. Before(all, others)
        BY <1>7, <1>8 DEF Before, Own
    <2>4. Before(InMessages(ready), others \cup all \cup InSeq(batch') \cup InSeq(queue'))
        BY <1>3, <1>6, <1>11, <2>1 DEF Before, all
    <2>5. Before(InPositions', InSeq(batch') \cup InSeq(queue'))
        BY <1>13, <2>2 DEF Before
    <2>6. Before(InMessages(ready'), InPositions' \cup InSeq(batch') \cup InSeq(queue'))
        BY <1>13, <2>2, <2>3, <2>4 DEF Before
    <2>7. Before(SentBy(crashes)', InMemory')
        BY <1>11, <1>14
    <2>8. QED
        BY <1>1, <2>5, <2>6, <2>7 DEF InOrder, Before
<1>18. LoopOK'
    BY <1>1 DEF LoopOK, Saving
<1>19. FilesOK'
    BY <1>1, FileStays DEF IInv, FilesOK
<1>20. Kept' /\ NotResent'
    BY <1>1, <1>14 DEF IInv, Kept, NotResent, Up, Saving
<1>21. QED
    BY <1>13, <1>15, <1>16, <1>17, <1>18, <1>19, <1>20 DEF IInv

\* What is ready was accepted before all that stays in memory.
LEMMA SendReadyStep ==
    ASSUME IInv, SendReady
    PROVE  IInv'
<1> USE DEF loopVars, fileVars, execVars
<1>1. /\ UNCHANGED <<info, queue, pos, batch, final, snap, tmp, disk, durable>>
      /\ UNCHANGED <<crashes, known, executor>>
      /\ pc = "process" /\ pc' = "flush" /\ batch = <<>> /\ ready' = <<>>
      /\ Send(ready)
    BY DEF SendReady, Send
<1>2. MessagesOK(ready) /\ InMessages(ready) \subseteq InMemory
    BY DEF IInv, InMemory
<1>3. /\ MessagesOK(sent)' /\ (\A i \in DOMAIN sent : sent[i].run <= crashes)'
      /\ Gone' = Gone \cup InMessages(ready)
      /\ SentBy(crashes)' \subseteq SentBy(crashes) \cup InMessages(ready)
      /\ SentBy(crashes)' \cup dropped' = SentBy(crashes) \cup dropped \cup InMessages(ready)
      /\ dropped' \subseteq Accepted
    BY <1>1, <1>2, Sends DEF IInv, Runs
<1>4. /\ InSeq(batch) = {} /\ InMessages(ready') = {} /\ DOMAIN ready' = {}
      /\ MessagesOK(ready')
    <2>1. DOMAIN <<>> = {} /\ \A S : <<>> \in Seq(S)
        OBVIOUS
    <2>2. QED
        BY <1>1, <2>1 DEF InSeq, InMessages, MessagesOK
<1>5. InPositions' = InPositions /\ Accepted' = Accepted
    BY <1>1 DEF InPositions, Accepted
<1>6. /\ InMemory' = InPositions \cup InSeq(queue)
      /\ InMemory = InMemory' \cup InMessages(ready)
    BY <1>1, <1>4, <1>5 DEF InMemory
<1>7. QueuesOK' /\ PositionsOK' /\ MessagesOK(ready)'
    BY <1>1, <1>4, <1>5 DEF IInv, QueuesOK, Waiting, PositionsOK, MessagesOK, Own, Before
<1>8. Types'
    BY <1>1, <1>3, <1>5 DEF IInv, Types
<1>9. Runs'
    BY <1>1, <1>3, <1>4 DEF Runs
<1>10. InOrder'
    <2>1. Before(InPositions, InSeq(batch) \cup InSeq(queue))
        BY DEF IInv, InOrder
    <2>2. Before(SentBy(crashes)', InMemory')
        BY <1>3, <1>4, <1>6 DEF IInv, InOrder, Before
    <2>3. QED
        BY <1>1, <1>4, <1>5, <2>1, <2>2 DEF InOrder, Before
<1>11. LoopOK'
    BY <1>1 DEF IInv, LoopOK, Saving
<1>12. FilesOK'
    BY <1>1, FileStays DEF IInv, FilesOK
<1>13. Kept' /\ NotResent'
    BY <1>1, <1>3, <1>6 DEF IInv, Kept, NotResent, Up, Saving
<1>14. QED
    BY <1>3, <1>7, <1>8, <1>9, <1>10, <1>11, <1>12, <1>13 DEF IInv

\* A stale position was accepted before what waits; other positions are of other
\* symbols.
LEMMA FlushStep ==
    ASSUME IInv, NEW s \in Symbols, FlushStale(s)
    PROVE  IInv'
<1> USE DEF loopVars, fileVars, execVars
<1> DEFINE m == [symbol |-> s, orders |-> pos[s].orders, run |-> crashes]
<1> DEFINE r == <<m>>
<1> DEFINE others == UNION {pos[t].orders : t \in DOMAIN pos \ {s}}
<1>1. /\ UNCHANGED <<info, queue, pc, batch, ready, final, snap, tmp, disk, durable>>
      /\ UNCHANGED <<crashes, known, executor>>
      /\ pc = "flush" /\ s \in DOMAIN pos
      /\ Send(r) /\ pos' = [pos EXCEPT ![s] = NewPosition]
    BY DEF FlushStale, Send
<1>2. pos[s] \in Position /\ Own(pos[s].orders, s)
    BY <1>1 DEF IInv, PositionsOK
<1>3. m \in Message /\ m.orders = pos[s].orders /\ m.symbol = s /\ m.run = crashes
    BY <1>2 DEF Message, Position, IInv, Types
<1> HIDE DEF m, others
<1>4. /\ MessagesOK(r) /\ InMessages(r) = pos[s].orders
      /\ \A j \in DOMAIN r : r[j].run = crashes
    <2>1. r \in Seq(Message) /\ DOMAIN r = {1} /\ r[1] = m
        BY <1>3
    <2> HIDE DEF r
    <2>2. InMessages(r) = pos[s].orders
        BY <1>3, <2>1 DEF InMessages
    <2>3. MessagesOK(r)
        BY <1>2, <1>3, <2>1 DEF MessagesOK
    <2>4. QED
        BY <1>3, <2>1, <2>2, <2>3
<1> HIDE DEF r
<1>5. InPositions = others \cup pos[s].orders
    BY <1>1 DEF InPositions, others
<1>6. InMessages(r) \subseteq InMemory
    BY <1>4, <1>5 DEF InMemory
<1>7. /\ MessagesOK(sent)' /\ (\A i \in DOMAIN sent : sent[i].run <= crashes)'
      /\ Gone' = Gone \cup pos[s].orders
      /\ SentBy(crashes)' \subseteq SentBy(crashes) \cup pos[s].orders
      /\ SentBy(crashes)' \cup dropped' = SentBy(crashes) \cup dropped \cup pos[s].orders
      /\ dropped' \subseteq Accepted
    BY <1>1, <1>4, <1>6, Sends
<1>8. NewPosition \in Position /\ NewPosition.orders = {}
    BY DEF NewPosition, Position
<1>9. /\ DOMAIN pos' = DOMAIN pos /\ pos' = [t \in DOMAIN pos' |-> pos'[t]]
      /\ pos'[s] = NewPosition /\ \A t \in DOMAIN pos \ {s} : pos'[t] = pos[t]
    <2>1. pos' = [t \in DOMAIN pos |-> IF t = s THEN NewPosition ELSE pos[t]]
        BY <1>1 DEF IInv, PositionsOK
    <2>2. QED
        BY <1>1, <2>1
<1>10. InPositions' = others /\ Accepted' = Accepted
    BY <1>1, <1>8, <1>9 DEF InPositions, others, Accepted
<1>11. /\ InMessages(ready) = {} /\ InSeq(batch) = {}
    BY <1>1 DEF IInv, LoopOK, InMessages, InSeq
<1>12. /\ InMemory' = others \cup InSeq(queue)
       /\ InMemory = InMemory' \cup pos[s].orders
    BY <1>1, <1>5, <1>10, <1>11 DEF InMemory
<1>13. PositionsOK'
    <2>1. \A t \in DOMAIN pos' : pos'[t] \in Position /\ Own(pos'[t].orders, t)
        <3>1. pos'[s] \in Position /\ Own(pos'[s].orders, s)
            BY <1>8, <1>9 DEF Own
        <3>2. \A t \in DOMAIN pos \ {s} : pos'[t] \in Position /\ Own(pos'[t].orders, t)
            BY <1>9 DEF IInv, PositionsOK
        <3>3. QED
            BY <1>9, <3>1, <3>2
    <2>2. DOMAIN pos' \subseteq Symbols
        BY <1>9 DEF IInv, PositionsOK
    <2>3. QED
        BY <1>1, <1>9, <2>1, <2>2 DEF PositionsOK, Own, Accepted
<1>14. QueuesOK' /\ MessagesOK(ready)'
    BY <1>1, <1>10 DEF IInv, QueuesOK, Waiting, MessagesOK, Own, Before
<1>15. Types' /\ Runs'
    BY <1>1, <1>7, <1>10 DEF IInv, Types, Runs
<1>16. InOrder'
    <2>1. /\ Before(InPositions, InSeq(batch) \cup InSeq(queue))
          /\ Before(SentBy(crashes), InMemory)
        BY DEF IInv, InOrder
    <2>2. Before(others, InSeq(batch) \cup InSeq(queue))
        BY <1>5, <2>1 DEF Before
    <2>3. Before(pos[s].orders, InMemory')
        <3>1. \A x \in others : info[x].symbol # s
            BY DEF others, IInv, PositionsOK, Own
        <3>2. QED
            BY <1>2, <1>5, <1>12, <2>1, <3>1 DEF Before, Own
    <2>4. Before(SentBy(crashes)', InMemory')
        BY <1>7, <1>12, <2>1, <2>3 DEF Before
    <2>5. QED
        BY <1>1, <1>10, <1>11, <2>2, <2>4 DEF InOrder, Before
<1>17. LoopOK'
    BY <1>1 DEF IInv, LoopOK, Saving
<1>18. FilesOK'
    BY <1>1, FileStays DEF IInv, FilesOK
<1>19. Kept' /\ NotResent'
    BY <1>1, <1>7, <1>12 DEF IInv, Kept, NotResent, Up, Saving
<1>20. QED
    BY <1>7, <1>13, <1>14, <1>15, <1>16, <1>17, <1>18, <1>19 DEF IInv

LEMMA InvNext == IInv /\ [Next]_vars => IInv'
<1> SUFFICES ASSUME IInv, [Next]_vars PROVE IInv'
    OBVIOUS
<1>1. CASE UNCHANGED vars
    <2>1. UNCHANGED <<info, queue, pos, batch, ready, sent, dropped, crashes>>
          /\ UNCHANGED <<pc, final, snap, tmp, disk, executor, known, durable>>
        BY <1>1 DEF vars, loopVars, fileVars, execVars
    <2>2. /\ QueuesOK' /\ PositionsOK' /\ MessagesOK(ready)' /\ MessagesOK(sent)' /\ InOrder'
          /\ InMemory' = InMemory /\ Gone' = Gone /\ SentBy(crashes)' = SentBy(crashes)
          /\ Accepted' = Accepted
        BY <2>1, MemoryStays
    <2>3. FilesOK'
        BY <2>1, FileStays DEF IInv, FilesOK
    <2>4. QED
        BY <2>1, <2>2, <2>3 DEF IInv, Types, Runs, LoopOK, Saving, Kept, NotResent, Up
<1>2. CASE Next
    BY <1>2, PushStep, AgesStep, QuietSteps, PopStep, ProcessStep, SendReadyStep, FlushStep,
       SnapshotStep, AfterSteps, EndsStep, RestartStep DEF Next, Loop
<1>3. QED
    BY <1>1, <1>2

LEMMA Invariant == Spec => []IInv
<1>1. Init => IInv
    BY InvInit
<1>2. IInv /\ [Next]_vars => IInv'
    BY InvNext
<1>3. QED
    BY <1>1, <1>2, PTL DEF Spec

-----------------------------------------------------------------------------
(* The theorems.                                                           *)

\* The buffer's state is well typed; neither the queue nor a file ever holds more
\* than max_size orders, and the checkpoint file is never a torn one.
THEOREM BufferTypeCorrect == Spec => []BufferTypeOK
BY Invariant, InvTypes, PTL

\* While the process runs, every order it has accepted or restored is waiting,
\* sent, or given to a closed channel, in one place and sent once.
THEOREM NoOrderVanishes == Spec => []EveryOrderSomewhere
BY Invariant, InvSomewhere, PTL

\* Of each symbol, orders reach the executor in the order of their acceptance.
THEOREM SymbolsInOrder == Spec => []SymbolOrderKept
BY Invariant, InvSymbolOrder, PTL

\* An order that was once in a completed checkpoint is never lost, wherever the
\* process ends.
THEOREM CheckpointsKeep == Spec => []CheckpointedNeverLost
BY Invariant, InvNeverLost, PTL

\* What a completed checkpoint knew to be sent is never sent again.
THEOREM NotSentAgain == Spec => []SentBeforeCheckpointNotResent
BY Invariant, InvNotResent, PTL
==============================================================================
