------------------------- MODULE FileTransfer_proofs -------------------------
(***************************************************************************)
(* Theorems about the file transfer, for any number of blocks and copies,  *)
(* any drop rules, and any number of packets that the network loses,       *)
(* duplicates or swaps.                                                    *)
(***************************************************************************)
EXTENDS FileTransfer, SequenceTheorems, FiniteSetTheorems,
        WellFoundedInduction, TLAPS

Packets == Blocks \cup {Control}

-----------------------------------------------------------------------------
(* Type correctness                                                        *)

\* r is q without its nth packet.
Shorter(r, q, n) ==
    /\ r \in Seq(Packets)
    /\ Len(r) = Len(q) - 1
    /\ \A i \in 1 .. Len(r) : r[i] = IF i < n THEN q[i] ELSE q[i + 1]

LEMMA WithoutShorter ==
  ASSUME NEW q \in Seq(Packets), NEW n \in DOMAIN q
  PROVE  Shorter(Without(q, n), q, n)
<1> DEFINE a == SubSeq(q, 1, n - 1)
           b == SubSeq(q, n + 1, Len(q))
<1>1. n \in 1 .. Len(q) /\ Len(q) \in Nat /\ \A i \in 1 .. Len(q) : q[i] \in Packets
  BY LenProperties, ElementOfSeq
<1>2. /\ a \in Seq(Packets) /\ Len(a) = n - 1
      /\ \A i \in 1 .. (n - 1) : a[i] = q[i]
  <2>1. 1 \in Int /\ n - 1 \in Int /\ \A i \in 1 .. (n - 1) : q[i] \in Packets
    BY <1>1
  <2>2. /\ SubSeq(q, 1, n - 1) \in Seq(Packets)
        /\ Len(SubSeq(q, 1, n - 1)) = IF 1 <= n - 1 THEN (n - 1) - 1 + 1 ELSE 0
        /\ \A i \in 1 .. ((n - 1) - 1 + 1) : SubSeq(q, 1, n - 1)[i] = q[1 + i - 1]
    BY ONLY <2>1, SubSeqProperties
  <2> QED
    BY <2>2, <1>1
<1>3. /\ b \in Seq(Packets) /\ Len(b) = Len(q) - n
      /\ \A i \in 1 .. (Len(q) - n) : b[i] = q[n + i]
  <2>1. n + 1 \in Int /\ Len(q) \in Int /\ \A i \in (n + 1) .. Len(q) : q[i] \in Packets
    BY <1>1
  <2>2. /\ SubSeq(q, n + 1, Len(q)) \in Seq(Packets)
        /\ Len(SubSeq(q, n + 1, Len(q)))
             = IF n + 1 <= Len(q) THEN Len(q) - (n + 1) + 1 ELSE 0
        /\ \A i \in 1 .. (Len(q) - (n + 1) + 1) :
             SubSeq(q, n + 1, Len(q))[i] = q[(n + 1) + i - 1]
    BY ONLY <2>1, SubSeqProperties
  <2> QED
    BY <2>2, <1>1
<1>4. /\ a \o b \in Seq(Packets) /\ Len(a \o b) = Len(a) + Len(b)
      /\ \A i \in 1 .. (Len(a) + Len(b)) :
           (a \o b)[i] = IF i <= Len(a) THEN a[i] ELSE b[i - Len(a)]
  BY <1>2, <1>3, ConcatProperties
<1> HIDE DEF a, b
<1>5. Shorter(a \o b, q, n)
  <2>1. Len(a \o b) = Len(q) - 1 /\ Len(a) = n - 1
    BY <1>1, <1>2, <1>3, <1>4
  <2>2. ASSUME NEW i \in 1 .. Len(a \o b)
        PROVE  (a \o b)[i] = IF i < n THEN q[i] ELSE q[i + 1]
    <3>1. (a \o b)[i] = IF i <= n - 1 THEN a[i] ELSE b[i - (n - 1)]
      BY <2>1, <1>3, <1>4, <1>1
    <3>2. CASE i < n
      BY <3>1, <3>2, <2>1, <1>2, <1>1
    <3>3. CASE ~(i < n)
      <4>1. i - (n - 1) \in 1 .. (Len(q) - n) /\ n + (i - (n - 1)) = i + 1
        BY <3>3, <2>1, <1>1
      <4>2. b[i - (n - 1)] = q[i + 1]
        BY <4>1, <1>3
      <4> QED
        BY <4>2, <3>1, <3>3, <1>1
    <3> QED
      BY <3>2, <3>3
  <2> QED
    BY <1>4, <2>1, <2>2 DEF Shorter
<1> QED
  BY <1>5 DEF Without, a, b

LEMMA TailShorter ==
  ASSUME NEW q \in Seq(Packets), q # <<>>
  PROVE  Shorter(Tail(q), q, 1) /\ Head(q) = q[1] /\ 1 \in DOMAIN q
BY HeadTailProperties, LenProperties, EmptySeq DEF Shorter

LEMMA TypesInit == Init => TypeOK
<1> SUFFICES ASSUME Init PROVE TypeOK
  OBVIOUS
<1> USE BlocksAssumption, CopiesAssumption, RulesAssumption DEF Init
<1>1. packselect \in [DOMAIN Rules -> Nat]
  <2>1. \A r \in DOMAIN Rules : Rules[r].count \in Nat
    <3> DEFINE R == [seq : Blocks, count : Nat]
    <3>1. Rules \in Seq(R) /\ \A x \in R : x.count \in Nat
      OBVIOUS
    <3> HIDE DEF R
    <3> QED
      BY ONLY <3>1, LenProperties, ElementOfSeq
  <2> QED
    BY <2>1 DEF InitSender
<1>2. <<>> \in Seq(Blocks \cup {Control})
  OBVIOUS
<1> QED
  BY <1>1, <1>2 DEF TypeOK, InitSender, InitReceiver, InitNetwork, Blocks, Off

\* dropornot() finds a rule with a drop left, and uses one up.
LEMMA FirstFiring ==
  ASSUME NEW k \in Blocks, Firing(k) # {}
  PROVE  \E m \in Firing(k) : AfterDrop(k) = [packselect EXCEPT ![m] = @ - 1]
<1>1. DOMAIN Rules \subseteq Nat
  BY RulesAssumption
<1>2. Firing(k) \subseteq Nat
  BY <1>1 DEF Firing
<1> DEFINE Less == OpToRel(<, Nat)
<1>w. IsWellFoundedOn(Less, Nat)
  BY NatLessThanWellFounded
<1>o. \A i, j \in Nat : i < j => <<i, j>> \in Less
  BY DEF OpToRel
<1> HIDE DEF Less
<1>3. PICK r \in Firing(k) : \A q \in Firing(k) : ~(<<q, r>> \in Less)
  BY <1>2, <1>w, WFMin
<1>4. \A q \in Firing(k) : r <= q
  <2> SUFFICES ASSUME NEW q \in Firing(k) PROVE r <= q
    OBVIOUS
  <2>1. q \in Nat /\ r \in Nat
    BY <1>2
  <2>2. ~(q < r)
    BY ONLY <1>3, <1>o, <2>1, q \in Firing(k), Zenon
  <2> QED
    BY <2>1, <2>2
<1>5. \E x \in Firing(k) : \A q \in Firing(k) : x <= q
  BY <1>4
<1> DEFINE m == CHOOSE x \in Firing(k) : \A q \in Firing(k) : x <= q
<1>6. m \in Firing(k)
  BY <1>5
<1>7. AfterDrop(k) = [packselect EXCEPT ![m] = @ - 1]
  BY DEF AfterDrop
<1> HIDE DEF m
<1> QED
  BY <1>6, <1>7

LEMMA AfterDropType ==
  ASSUME NEW k \in Blocks, packselect \in [DOMAIN Rules -> Nat], Firing(k) # {}
  PROVE  AfterDrop(k) \in [DOMAIN Rules -> Nat]
<1>1. PICK m \in Firing(k) : AfterDrop(k) = [packselect EXCEPT ![m] = @ - 1]
  BY FirstFiring
<1>2. m \in DOMAIN Rules /\ packselect[m] # 0
  BY DEF Firing
<1>3. packselect[m] \in Nat /\ packselect[m] - 1 \in Nat
  BY <1>2
<1> QED
  BY <1>1, <1>2, <1>3

\* What the network and the receiver leave of the packets in flight.
LEMMA QueueType ==
  ASSUME TypeOK, Next
  PROVE  toReceiver' \in Seq(Packets)
<1> USE DEF senderVars, receiverVars, netVars
<1>1. toReceiver \in Seq(Packets) /\ blk \in Packets /\ Control \in Packets
  BY DEF TypeOK, Packets
<1>2. CASE SendControl
  BY <1>1, <1>2, AppendProperties DEF SendControl
<1>3. CASE SendBlock
  BY <1>1, <1>3, AppendProperties DEF SendBlock
<1>4. CASE RecvControl \/ RecvBlock
  <2>1. toReceiver # <<>> /\ toReceiver' = Tail(toReceiver)
    BY <1>4 DEF RecvControl, RecvBlock
  <2> QED
    BY ONLY <1>1, <2>1, HeadTailProperties
<1>5. CASE Lose
  BY <1>1, <1>5, WithoutShorter DEF Lose, Shorter
<1>6. CASE Duplicate
  <2>1. PICK n \in DOMAIN toReceiver : toReceiver' = Append(toReceiver, toReceiver[n])
    BY <1>6 DEF Duplicate
  <2>2. toReceiver[n] \in Packets
    BY <1>1, LenProperties, ElementOfSeq
  <2> QED
    BY <1>1, <2>1, <2>2, AppendProperties
<1>7. CASE Swap
  <2>1. PICK n \in 2 .. Len(toReceiver) :
          toReceiver' = [toReceiver EXCEPT ![n] = toReceiver[n - 1],
                                           ![n - 1] = toReceiver[n]]
    BY <1>7 DEF Swap
  <2>2. /\ n \in 1 .. Len(toReceiver) /\ n - 1 \in 1 .. Len(toReceiver)
        /\ toReceiver[n] \in Packets /\ toReceiver[n - 1] \in Packets
    BY <1>1, LenProperties, ElementOfSeq
  <2>3. /\ [toReceiver EXCEPT ![n] = toReceiver[n - 1]] \in Seq(Packets)
        /\ Len([toReceiver EXCEPT ![n] = toReceiver[n - 1]]) = Len(toReceiver)
    BY <1>1, <2>2, ExceptSeq
  <2>4. [[toReceiver EXCEPT ![n] = toReceiver[n - 1]]
           EXCEPT ![n - 1] = toReceiver[n]] \in Seq(Packets)
    BY <2>2, <2>3, ExceptSeq
  <2> QED
    BY <2>1, <2>4
<1>8. CASE RecvAck \/ SenderAlarm \/ DropBlock \/ SendAck \/ ReceiverAlarm
             \/ Tick \/ LoseAck
  BY <1>1, <1>8 DEF RecvAck, SenderAlarm, DropBlock, SendAck, ReceiverAlarm,
                    Tick, LoseAck
<1> QED
  BY <1>2, <1>3, <1>4, <1>5, <1>6, <1>7, <1>8
  DEF Next, Sender, Receiver, Network

LEMMA TypesNext == TypeOK /\ [Next]_vars => TypeOK'
<1> SUFFICES ASSUME TypeOK, [Next]_vars PROVE TypeOK'
  OBVIOUS
<1> USE BlocksAssumption, CopiesAssumption, TimeoutAssumption,
        NetworkBoundsAssumption
    DEF TypeOK, senderVars, receiverVars, netVars
<1>a. ASSUME Next PROVE toReceiver' \in Seq(Blocks \cup {Control})
  BY ONLY <1>a, TypeOK, QueueType DEF Packets
<1>1. CASE SendControl
  <2>1. Next
    BY ONLY <1>1 DEF Next, Sender
  <2> QED
    BY <1>1, <1>a, <2>1 DEF SendControl, LastCopy
<1>2. CASE SenderAlarm \/ ReceiverAlarm
  BY <1>2 DEF SenderAlarm, ReceiverAlarm, Off
<1>15. CASE RecvAck
  BY <1>15 DEF RecvAck, Off
<1>14. CASE SendAck
  BY <1>14 DEF SendAck
<1>3. ASSUME Advance, spc = "data"
      PROVE  /\ copy' \in 0 .. (PINGS - 1) /\ blk' \in Blocks
             /\ spc' \in {"control", "ack", "data", "done", "gaveup"}
  BY <1>3 DEF Advance, LastCopy, Blocks, Last
<1>4. CASE SendBlock
  <2>1. Next
    BY ONLY <1>4 DEF Next, Sender
  <2> QED
    BY <1>4, <1>a, <2>1, <1>3 DEF SendBlock
<1>5. CASE DropBlock
  <2>1. packselect' \in [DOMAIN Rules -> Nat]
    BY <1>5, AfterDropType DEF DropBlock
  <2>2. dropped' \in [Blocks -> Nat] /\ gone' \in [Blocks -> Nat]
    BY <1>5 DEF DropBlock
  <2> QED
    BY <1>5, <2>1, <2>2, <1>3 DEF DropBlock
<1>6. CASE RecvControl
  <2>1. Next
    BY ONLY <1>6 DEF Next, Receiver
  <2> QED
    <3>1. /\ rpc' \in {"control", "refused", "ack"}
          /\ round' \in 0 .. (PINGS - 1) /\ ralarm' \in {Off} \cup Nat
      BY ONLY <1>6, TypeOK, CopiesAssumption, TimeoutAssumption
      DEF RecvControl, TypeOK, Off
    <3>2. UNCHANGED <<senderVars, datapack, file, first, reported, acks, lost,
                      dups, swaps, gone>>
      BY ONLY <1>6 DEF RecvControl
    <3> QED
      BY <1>a, <2>1, <3>1, <3>2
<1>7. CASE RecvBlock
  <2>1. Next
    BY ONLY <1>7 DEF Next, Receiver
  <2>2. Head(toReceiver) \in Blocks \cup {Control}
    BY <1>7, HeadTailProperties DEF RecvBlock
  <2>3. CASE Head(toReceiver) = Control
    BY <1>7, <1>a, <2>1, <2>3 DEF RecvBlock, Off
  <2>4. CASE Head(toReceiver) # Control
    <3> DEFINE k == Head(toReceiver)
    <3>1. k \in Blocks /\ datapack' = [datapack EXCEPT ![k] = @ + 1]
            /\ file' = FileAfter(k) /\ first' = FALSE
      BY ONLY <1>7, <2>2, <2>4 DEF RecvBlock
    <3>2. datapack' \in [Blocks -> Nat]
      BY ONLY TypeOK, <3>1 DEF TypeOK
    <3>3. file' \in SUBSET Blocks
      BY ONLY TypeOK, <3>1 DEF TypeOK, FileAfter
    <3>4. reported' \in SUBSET Blocks
      BY ONLY TypeOK, <1>7, <2>4 DEF TypeOK, RecvBlock, Missing
    <3>5. rpc' \in {"data", "written"} /\ ralarm' \in {Off} \cup Nat
      BY ONLY TypeOK, TimeoutAssumption, <1>7, <2>4
      DEF TypeOK, RecvBlock, AlarmAfterBlock, Off
    <3>6. UNCHANGED <<senderVars, round, acks, lost, dups, swaps, gone>>
      BY ONLY <1>7 DEF RecvBlock
    <3> QED
      BY <1>a, <2>1, <3>1, <3>2, <3>3, <3>4, <3>5, <3>6
  <2> QED
    BY <2>3, <2>4
<1>8. CASE Tick
  <2>1. salarm' \in {Off} \cup Nat /\ ralarm' \in {Off} \cup Nat
    BY <1>8 DEF Tick, Elapse, Off
  <2> QED
    BY <1>8, <2>1 DEF Tick
<1>9. CASE Lose
  <2>1. Next
    BY ONLY <1>9 DEF Next, Network
  <2> QED
    BY <1>9, <1>a, <2>1 DEF Lose
<1>10. CASE LoseAck
  BY <1>10 DEF LoseAck
<1>11. CASE Duplicate
  <2>1. Next
    BY ONLY <1>11 DEF Next, Network
  <2> QED
    BY <1>11, <1>a, <2>1 DEF Duplicate
<1>12. CASE Swap
  <2>1. Next
    BY ONLY <1>12 DEF Next, Network
  <2>2. swaps' = swaps + 1
          /\ UNCHANGED <<senderVars, receiverVars, acks, lost, dups, gone>>
    BY ONLY <1>12 DEF Swap
  <2>3. swaps' \in Nat
    BY <2>2
  <2> QED
    BY <2>2, <2>3, <1>a, <2>1
<1>13. CASE UNCHANGED vars
  BY <1>13 DEF vars
<1> QED
  BY <1>1, <1>2, <1>4, <1>5, <1>6, <1>7, <1>8, <1>9, <1>10, <1>11, <1>12, <1>13, <1>14,
     <1>15
  DEF Next, Sender, Receiver, Network

-----------------------------------------------------------------------------
(* The invariant of the transfer                                           *)

\* The places of packet v among the packets in flight, and those of block k
\* that the receiver reads before it has a copy of the last block.
At(q, v) == {n \in 1 .. Len(q) : q[n] = v}
Early(q, k) == {n \in 1 .. Len(q) : q[n] = k /\ \A m \in 1 .. n : q[m] # Last}

\* How many copies of block k, or control packets, the sender is through with.
Tried(k) ==
    IF k < blk THEN PINGS ELSE IF k = blk /\ spc = "data" THEN copy ELSE 0
ControlsSent == IF spc = "control" THEN copy ELSE PINGS

\* The sender's alarm and loop counters agree with where it is, and no block is
\* in flight that it has not come to.
SenderOK ==
    /\ salarm # Off => spc = "ack"
    /\ spc \in {"control", "ack", "gaveup"} => blk = 0
    /\ spc \in {"ack", "gaveup", "done"} => copy = 0
    /\ spc = "done" => blk = Last
    /\ \A n \in 1 .. Len(toReceiver) : toReceiver[n] # Control =>
         spc \in {"data", "done"} /\ toReceiver[n] <= blk

\* The receiver has stored the blocks it counted.
ReceiverOK ==
    /\ file = {k \in Blocks : datapack[k] # 0}
    /\ rpc = "written" => Last \in file /\ Blocks \ file \subseteq reported

\* Where the order is kept, a copy of a block that the receiver does not have
\* is gone or comes before the last block.
CopiesOK ==
    swaps = 0 => \A k \in Blocks \ file : k # Last =>
      /\ rpc \in {"control", "ack", "data"} =>
           Tried(k) <= gone[k] + Cardinality(Early(toReceiver, k))
      /\ rpc = "written" => PINGS <= gone[k]

\* Without duplicates there are as many control packets as were sent, so the
\* receiver has read the last of them when it acknowledges.
ControlsOK ==
    dups = 0 =>
      /\ rpc = "control" =>
           round + Cardinality(At(toReceiver, Control)) <= ControlsSent
      /\ rpc \in {"ack", "data"} =>
           spc # "control" /\ At(toReceiver, Control) = {}
      /\ rpc # "crashed"

\* A sender that waits sends no block before the receiver is ready for it.
WaitOK ==
    waits =>
      /\ rpc # "refused"
      /\ spc \in {"data", "done"} \/ acks > 0 => rpc # "control"

\* On a perfect network no control packet is behind a block.
OrderOK ==
    dups = 0 /\ lost = 0 /\ swaps = 0 =>
      /\ \A i, j \in 1 .. Len(toReceiver) :
           i < j /\ toReceiver[i] # Control => toReceiver[j] # Control
      /\ rpc = "control" =>
           round + Cardinality(At(toReceiver, Control)) = ControlsSent
      /\ rpc # "refused"

TransferInv ==
    /\ TypeOK /\ SenderOK /\ ReceiverOK
    /\ CopiesOK /\ ControlsOK /\ WaitOK /\ OrderOK

-----------------------------------------------------------------------------
(* Counting packets in flight                                              *)

LEMMA CountsFinite ==
  ASSUME NEW q \in Seq(Packets), NEW v
  PROVE  /\ IsFiniteSet(At(q, v)) /\ Cardinality(At(q, v)) \in Nat
         /\ IsFiniteSet(Early(q, v)) /\ Cardinality(Early(q, v)) \in Nat
<1>1. IsFiniteSet(1 .. Len(q))
  BY LenProperties, FS_Interval
<1>2. At(q, v) \in SUBSET (1 .. Len(q)) /\ Early(q, v) \in SUBSET (1 .. Len(q))
  BY DEF At, Early
<1> QED
  BY <1>1, <1>2, FS_Subset, FS_CardinalityType

\* A packet that is read or lost is one fewer of its kind.
LEMMA ShorterAt ==
  ASSUME NEW q \in Seq(Packets), NEW n \in 1 .. Len(q), NEW r, Shorter(r, q, n),
         NEW v
  PROVE  Cardinality(At(r, v))
           = IF q[n] = v THEN Cardinality(At(q, v)) - 1 ELSE Cardinality(At(q, v))
<1> DEFINE f == [i \in At(r, v) |-> IF i < n THEN i ELSE i + 1]
<1>1. Len(q) \in Nat /\ Len(r) = Len(q) - 1 /\ r \in Seq(Packets)
  BY LenProperties DEF Shorter
<1>2. f \in [At(r, v) -> At(q, v) \ {n}]
  BY <1>1 DEF At, Shorter
<1>3. \A i, j \in At(r, v) : f[i] = f[j] => i = j
  BY <1>1 DEF At
<1>4. \A k \in At(q, v) \ {n} : \E i \in At(r, v) : f[i] = k
  <2> SUFFICES ASSUME NEW k \in At(q, v) \ {n}
               PROVE  \E i \in At(r, v) : f[i] = k
    OBVIOUS
  <2>1. CASE k < n
    BY <1>1, <2>1 DEF At, Shorter
  <2>2. CASE k > n
    <3>1. k - 1 \in At(r, v) /\ f[k - 1] = k
      BY <1>1, <2>2 DEF At, Shorter
    <3> QED
      BY <3>1
  <2> QED
    BY <2>1, <2>2 DEF At
<1>5. ExistsBijection(At(r, v), At(q, v) \ {n})
  <2> HIDE DEF f
  <2>1. f \in Bijection(At(r, v), At(q, v) \ {n})
    BY <1>2, <1>3, <1>4 DEF Bijection, Injection, Surjection, IsInjective
  <2> QED
    BY <2>1 DEF ExistsBijection
<1>6. Cardinality(At(q, v) \ {n}) = Cardinality(At(r, v))
  BY <1>1, <1>5, CountsFinite, FS_Bijection
<1>7. n \in At(q, v) <=> q[n] = v
  BY DEF At
<1> QED
  BY <1>6, <1>7, CountsFinite, FS_RemoveElement

LEMMA ShorterEarly ==
  ASSUME NEW q \in Seq(Packets), NEW n \in 1 .. Len(q), NEW r, Shorter(r, q, n),
         NEW k
  PROVE  Cardinality(Early(q, k))
           <= Cardinality(Early(r, k)) + (IF q[n] = k THEN 1 ELSE 0)
<1> DEFINE S == Early(q, k) \ {n}
           g == [i \in S |-> IF i < n THEN i ELSE i - 1]
<1>1. Len(q) \in Nat /\ Len(r) = Len(q) - 1 /\ r \in Seq(Packets)
  BY LenProperties DEF Shorter
<1>2. ASSUME NEW i \in S PROVE g[i] \in Early(r, k)
  <2>1. i \in 1 .. Len(q) /\ q[i] = k /\ i # n /\ \A m \in 1 .. i : q[m] # Last
    BY DEF Early
  <2>2. CASE i < n
    <3>1. g[i] = i /\ i \in 1 .. Len(r) /\ r[i] = k
      BY <1>1, <2>1, <2>2 DEF Shorter
    <3>2. \A m \in 1 .. i : r[m] # Last
      BY <1>1, <2>1, <2>2, <3>1 DEF Shorter
    <3> QED
      BY <3>1, <3>2 DEF Early
  <2>3. CASE i > n
    <3>1. g[i] = i - 1 /\ i - 1 \in 1 .. Len(r) /\ r[i - 1] = k
      BY <1>1, <2>1, <2>3 DEF Shorter
    <3>2. \A m \in 1 .. (i - 1) : r[m] # Last
      BY <1>1, <2>1, <2>3 DEF Shorter
    <3> QED
      BY <3>1, <3>2 DEF Early
  <2> QED
    BY <2>1, <2>2, <2>3
<1>3. \A i, j \in S : g[i] = g[j] => i = j
  BY <1>1 DEF Early
<1>4. g \in Injection(S, Early(r, k))
  <2> HIDE DEF S
  <2>1. g \in [S -> Early(r, k)]
    BY <1>2
  <2> HIDE DEF g
  <2> QED
    BY <2>1, <1>3 DEF Injection, IsInjective
<1> HIDE DEF g
<1>5. Cardinality(S) <= Cardinality(Early(r, k))
  BY <1>1, <1>4, CountsFinite, FS_Injection
<1>6. n \in Early(q, k) => q[n] = k
  BY DEF Early
<1>7. Cardinality(S) = IF n \in Early(q, k) THEN Cardinality(Early(q, k)) - 1
                                           ELSE Cardinality(Early(q, k))
  BY CountsFinite, FS_RemoveElement
<1> QED
  BY <1>1, <1>5, <1>6, <1>7, CountsFinite

\* A packet that is sent or duplicated is one more of its kind.
LEMMA LongerAt ==
  ASSUME NEW q \in Seq(Packets), NEW p \in Packets, NEW v
  PROVE  Cardinality(At(Append(q, p), v))
           = IF p = v THEN Cardinality(At(q, v)) + 1 ELSE Cardinality(At(q, v))
<1> DEFINE r == Append(q, p)
<1>1. /\ Len(q) \in Nat /\ Len(r) = Len(q) + 1 /\ r[Len(q) + 1] = p
      /\ \A i \in 1 .. Len(q) : r[i] = q[i]
  BY LenProperties, AppendProperties
<1> HIDE DEF r
<1>2. CASE p = v
  <2>1. At(r, v) = At(q, v) \cup {Len(q) + 1}
    BY <1>1, <1>2 DEF At
  <2>2. Len(q) + 1 \notin At(q, v)
    BY <1>1 DEF At
  <2> QED
    BY <1>2, <2>1, <2>2, CountsFinite, FS_AddElement DEF r
<1>3. CASE p # v
  <2>1. At(r, v) = At(q, v)
    BY <1>1, <1>3 DEF At
  <2> QED
    BY <1>3, <2>1 DEF r
<1> QED
  BY <1>2, <1>3

LEMMA LongerEarly ==
  ASSUME NEW q \in Seq(Packets), NEW p \in Packets, NEW k
  PROVE  /\ Cardinality(Early(q, k)) <= Cardinality(Early(Append(q, p), k))
         /\ p = k /\ k # Last /\ (\A i \in 1 .. Len(q) : q[i] # Last) =>
              Cardinality(Early(q, k)) + 1 <= Cardinality(Early(Append(q, p), k))
<1> DEFINE r == Append(q, p)
<1>1. /\ Len(q) \in Nat /\ Len(r) = Len(q) + 1 /\ r[Len(q) + 1] = p
      /\ \A i \in 1 .. Len(q) : r[i] = q[i]
      /\ r \in Seq(Packets)
  BY LenProperties, AppendProperties
<1> HIDE DEF r
<1>2. Early(q, k) \in SUBSET Early(r, k)
  BY <1>1 DEF Early
<1>3. IsFiniteSet(Early(r, k)) /\ IsFiniteSet(Early(q, k))
        /\ Cardinality(Early(q, k)) \in Nat /\ Cardinality(Early(r, k)) \in Nat
  BY <1>1, CountsFinite
<1>4. Cardinality(Early(q, k)) <= Cardinality(Early(r, k))
  BY <1>2, <1>3, FS_Subset
<1>5. ASSUME p = k, k # Last, \A i \in 1 .. Len(q) : q[i] # Last
      PROVE  Cardinality(Early(q, k)) + 1 <= Cardinality(Early(r, k))
  <2>1. Len(q) + 1 \in Early(r, k)
    BY <1>1, <1>5 DEF Early
  <2>2. Len(q) + 1 \notin Early(q, k)
    BY <1>1 DEF Early
  <2>3. (Early(q, k) \cup {Len(q) + 1}) \in SUBSET Early(r, k)
    BY <1>2, <2>1
  <2>4. Cardinality(Early(q, k) \cup {Len(q) + 1}) = Cardinality(Early(q, k)) + 1
    BY <1>3, <2>2, FS_AddElement
  <2> QED
    BY <1>3, <2>3, <2>4, FS_Subset
<1> QED
  BY <1>4, <1>5 DEF r

\* Overtaking changes no count.
LEMMA SwappedAt ==
  ASSUME NEW q \in Seq(Packets), NEW n \in 2 .. Len(q), NEW v
  PROVE  Cardinality(At([q EXCEPT ![n] = q[n - 1], ![n - 1] = q[n]], v))
           = Cardinality(At(q, v))
<1> DEFINE r == [q EXCEPT ![n] = q[n - 1], ![n - 1] = q[n]]
           h(i) == IF i = n THEN n - 1 ELSE IF i = n - 1 THEN n ELSE i
           f == [i \in At(q, v) |-> h(i)]
<1>1. /\ Len(q) \in Nat /\ DOMAIN q = 1 .. Len(q) /\ DOMAIN r = 1 .. Len(q)
      /\ n - 1 \in 1 .. Len(q) /\ n \in 1 .. Len(q)
  BY LenProperties
<1>2. Len(r) = Len(q)
  BY <1>1
<1>3. \A i \in 1 .. Len(q) : r[i] = q[h(i)] /\ h(i) \in 1 .. Len(q) /\ h(h(i)) = i
  BY <1>1
<1> HIDE DEF r, h
<1>4. \A i \in At(q, v) : h(i) \in At(r, v)
  BY <1>2, <1>3 DEF At
<1>5. \A i \in At(r, v) : h(i) \in At(q, v)
  BY <1>2, <1>3 DEF At
<1>6. At(q, v) \subseteq 1 .. Len(q) /\ At(r, v) \subseteq 1 .. Len(q)
  BY <1>2 DEF At
<1>7. f \in [At(q, v) -> At(r, v)]
  BY <1>4
<1>8. \A i, j \in At(q, v) : f[i] = f[j] => i = j
  <2> SUFFICES ASSUME NEW i \in At(q, v), NEW j \in At(q, v), f[i] = f[j]
               PROVE  i = j
    OBVIOUS
  <2>1. h(i) = h(j)
    OBVIOUS
  <2>2. h(h(i)) = i /\ h(h(j)) = j
    BY <1>3, <1>6
  <2> QED
    BY <2>1, <2>2
<1>9. \A j \in At(r, v) : \E i \in At(q, v) : f[i] = j
  <2> SUFFICES ASSUME NEW j \in At(r, v) PROVE \E i \in At(q, v) : f[i] = j
    OBVIOUS
  <2>1. h(j) \in At(q, v) /\ h(h(j)) = j
    BY <1>3, <1>5, <1>6
  <2> QED
    BY <2>1
<1>10. ExistsBijection(At(q, v), At(r, v))
  <2> HIDE DEF f
  <2>1. f \in Bijection(At(q, v), At(r, v))
    BY <1>7, <1>8, <1>9 DEF Bijection, Injection, Surjection, IsInjective
  <2> QED
    BY <2>1 DEF ExistsBijection
<1> QED
  BY <1>10, CountsFinite, FS_Bijection DEF r

-----------------------------------------------------------------------------
(* The steps keep the invariant                                            *)

LEMMA InitTransfer == Init => TransferInv
<1> SUFFICES ASSUME Init PROVE TransferInv
  OBVIOUS
<1> USE BlocksAssumption, CopiesAssumption DEF Init
<1>1. toReceiver = <<>> /\ Len(toReceiver) = 0
  BY DEF InitNetwork
<1>2. At(toReceiver, Control) = {} /\ Cardinality(At(toReceiver, Control)) = 0
  BY <1>1, FS_EmptySet DEF At
<1>3. TypeOK
  BY TypesInit
<1>4. SenderOK /\ ReceiverOK
  BY <1>1 DEF InitSender, InitReceiver, SenderOK, ReceiverOK
<1>5. ControlsOK /\ WaitOK /\ OrderOK
  BY <1>1, <1>2
  DEF InitSender, InitReceiver, InitNetwork, ControlsOK, WaitOK, OrderOK,
      ControlsSent
<1>6. CopiesOK
  <2> SUFFICES ASSUME NEW k \in Blocks
               PROVE  Tried(k) <= gone[k] + Cardinality(Early(toReceiver, k))
    BY DEF CopiesOK, InitReceiver
  <2>1. Cardinality(Early(toReceiver, k)) = 0
    BY <1>1, FS_EmptySet DEF Early
  <2>2. Tried(k) = 0 /\ gone[k] = 0
    BY DEF Tried, InitSender, InitNetwork, Blocks
  <2> QED
    BY <2>1, <2>2
<1> QED
  BY <1>3, <1>4, <1>5, <1>6 DEF TransferInv

\* How each step that changes the packets in flight does so.
LEMMA QueueStep ==
  ASSUME TypeOK
  PROVE  /\ toReceiver \in Seq(Packets) /\ Len(toReceiver) \in Nat
         /\ DOMAIN toReceiver = 1 .. Len(toReceiver)
         /\ \A i \in 1 .. Len(toReceiver) : toReceiver[i] \in Packets
         /\ RecvControl \/ RecvBlock =>
              /\ Shorter(toReceiver', toReceiver, 1)
              /\ Head(toReceiver) = toReceiver[1]
              /\ 1 \in 1 .. Len(toReceiver)
         /\ Lose => \E n \in 1 .. Len(toReceiver) :
              /\ Shorter(toReceiver', toReceiver, n)
              /\ gone' = [k \in Blocks |->
                            IF k = toReceiver[n] THEN gone[k] + 1 ELSE gone[k]]
         /\ Duplicate => \E n \in 1 .. Len(toReceiver) :
              toReceiver' = Append(toReceiver, toReceiver[n])
<1>1. /\ toReceiver \in Seq(Packets) /\ Len(toReceiver) \in Nat
      /\ DOMAIN toReceiver = 1 .. Len(toReceiver)
      /\ \A i \in 1 .. Len(toReceiver) : toReceiver[i] \in Packets
  BY LenProperties, ElementOfSeq DEF TypeOK, Packets
<1>2. ASSUME RecvControl \/ RecvBlock
      PROVE  /\ Shorter(toReceiver', toReceiver, 1)
             /\ Head(toReceiver) = toReceiver[1]
             /\ 1 \in 1 .. Len(toReceiver)
  <2>1. toReceiver # <<>> /\ toReceiver' = Tail(toReceiver)
    BY <1>2 DEF RecvControl, RecvBlock
  <2> QED
    BY <1>1, <2>1, TailShorter
<1>3. ASSUME Lose
      PROVE  \E n \in 1 .. Len(toReceiver) :
               /\ Shorter(toReceiver', toReceiver, n)
               /\ gone' = [k \in Blocks |->
                             IF k = toReceiver[n] THEN gone[k] + 1 ELSE gone[k]]
  BY <1>1, <1>3, WithoutShorter DEF Lose
<1>4. ASSUME Duplicate
      PROVE  \E n \in 1 .. Len(toReceiver) :
               toReceiver' = Append(toReceiver, toReceiver[n])
  BY <1>1, <1>4 DEF Duplicate
<1> QED
  BY <1>1, <1>2, <1>3, <1>4

LEMMA SenderNext == TransferInv /\ Next => SenderOK'
<1> SUFFICES ASSUME TransferInv, Next PROVE SenderOK'
  OBVIOUS
<1> USE BlocksAssumption, CopiesAssumption
    DEF TransferInv, senderVars, receiverVars, netVars
<1>1. TypeOK /\ SenderOK
  OBVIOUS
<1>2. /\ toReceiver \in Seq(Packets) /\ Len(toReceiver) \in Nat
      /\ \A i \in 1 .. Len(toReceiver) : toReceiver[i] \in Packets
  BY QueueStep
<1>t. blk \in Int /\ copy \in Int /\ blk \in Packets /\ Control \in Packets
  BY DEF TypeOK, Blocks, Packets
<1>3. CASE SendControl
  <2>1. spc = "control" /\ toReceiver' = Append(toReceiver, Control)
          /\ spc' \in {"control", "ack", "data"} /\ blk' = blk
          /\ (spc' = "ack" => copy' = 0)
          /\ (salarm' = salarm \/ spc' = "ack")
    BY <1>3 DEF SendControl
  <2>2. \A i \in 1 .. Len(toReceiver) : toReceiver[i] = Control
    BY <1>1, <2>1 DEF SenderOK
  <2>3. \A i \in 1 .. Len(toReceiver') : toReceiver'[i] = Control
    BY <1>2, <1>t, <2>1, <2>2, AppendProperties
  <2> QED
    BY <1>1, <2>1, <2>3 DEF SenderOK
<1>4. CASE SendBlock \/ DropBlock
  <2>1. spc = "data" /\ Advance
    BY <1>4 DEF SendBlock, DropBlock
  <2>2. /\ spc' \in {"data", "done"} /\ blk' \in Int /\ blk <= blk'
        /\ spc' = "done" => copy' = 0 /\ blk' = Last
    BY <1>t, <2>1 DEF Advance
  <2>5. salarm' = salarm
    BY <1>4 DEF SendBlock, DropBlock
  <2>3. \A i \in 1 .. Len(toReceiver') : toReceiver'[i] # Control =>
          toReceiver'[i] <= blk
    <3>1. CASE SendBlock
      <4>1. toReceiver' = Append(toReceiver, blk)
        BY <3>1 DEF SendBlock
      <4>2. /\ Len(toReceiver') = Len(toReceiver) + 1
            /\ \A i \in 1 .. Len(toReceiver) : toReceiver'[i] = toReceiver[i]
            /\ toReceiver'[Len(toReceiver) + 1] = blk
        BY <4>1, <1>2, <1>t, AppendProperties
      <4> QED
        BY <1>1, <1>2, <1>t, <4>2 DEF SenderOK
    <3>2. CASE DropBlock
      BY <1>1, <3>2 DEF SenderOK, DropBlock
    <3> QED
      BY <1>4, <3>1, <3>2
  <2>4. \A i \in 1 .. Len(toReceiver') :
          toReceiver'[i] # Control => toReceiver'[i] \in Int
    <3>1. toReceiver' \in Seq(Packets)
      BY <1>1, QueueType
    <3>2. \A i \in 1 .. Len(toReceiver') : toReceiver'[i] \in Packets
      BY <3>1, ElementOfSeq
    <3> QED
      BY <3>2 DEF Packets, Blocks
  <2> QED
    BY <1>1, <1>t, <2>1, <2>2, <2>3, <2>4, <2>5 DEF SenderOK
<1>5. CASE RecvControl \/ RecvBlock \/ Lose
  <2>1. \E n \in 1 .. Len(toReceiver) : Shorter(toReceiver', toReceiver, n)
    BY <1>1, <1>5, QueueStep
  <2>2. \A i \in 1 .. Len(toReceiver') :
          \E j \in 1 .. Len(toReceiver) : toReceiver'[i] = toReceiver[j]
    BY <1>2, <2>1 DEF Shorter
  <2>3. UNCHANGED <<spc, blk, copy, salarm>>
    BY <1>5 DEF RecvControl, RecvBlock, Lose
  <2> QED
    BY <1>1, <2>2, <2>3 DEF SenderOK
<1>6. CASE Duplicate
  <2>1. \A i \in 1 .. Len(toReceiver') :
          \E j \in 1 .. Len(toReceiver) : toReceiver'[i] = toReceiver[j]
    <3>1. PICK n \in 1 .. Len(toReceiver) :
            toReceiver' = Append(toReceiver, toReceiver[n])
      BY <1>1, <1>6, QueueStep
    <3>2. /\ Len(toReceiver') = Len(toReceiver) + 1
          /\ \A i \in 1 .. Len(toReceiver) : toReceiver'[i] = toReceiver[i]
          /\ toReceiver'[Len(toReceiver) + 1] = toReceiver[n]
      BY <3>1, <1>2, AppendProperties
    <3> QED
      BY <3>2, <1>2
  <2>2. UNCHANGED <<spc, blk, copy, salarm>>
    BY <1>6 DEF Duplicate
  <2> QED
    BY <1>1, <2>1, <2>2 DEF SenderOK
<1>7. CASE Swap
  <2>1. \A i \in 1 .. Len(toReceiver') :
          \E j \in 1 .. Len(toReceiver) : toReceiver'[i] = toReceiver[j]
    <3>1. PICK n \in 2 .. Len(toReceiver) :
            toReceiver' = [toReceiver EXCEPT ![n] = toReceiver[n - 1],
                                             ![n - 1] = toReceiver[n]]
      BY <1>7 DEF Swap
    <3>2. DOMAIN toReceiver = 1 .. Len(toReceiver)
      BY <1>1, QueueStep
    <3>3. DOMAIN toReceiver' = DOMAIN toReceiver
      BY <3>1
    <3>4. Len(toReceiver') = Len(toReceiver)
      BY <3>2, <3>3, <1>2
    <3> QED
      BY <1>2, <3>1, <3>2, <3>4
  <2>2. UNCHANGED <<spc, blk, copy, salarm>>
    BY <1>7 DEF Swap
  <2> QED
    BY <1>1, <2>1, <2>2 DEF SenderOK
<1>8. CASE RecvAck
  BY <1>1, <1>8 DEF RecvAck, SenderOK
<1>9. CASE SenderAlarm
  <2>1. spc = "ack"
    BY <1>1, <1>9 DEF SenderAlarm, SenderOK, Off
  <2> QED
    BY <1>1, <1>9, <2>1 DEF SenderAlarm, SenderOK
<1>10. CASE SendAck \/ ReceiverAlarm \/ Tick \/ LoseAck
  BY <1>1, <1>10
  DEF SendAck, ReceiverAlarm, Tick, Elapse, LoseAck, SenderOK
<1> QED
  BY <1>3, <1>4, <1>5, <1>6, <1>7, <1>8, <1>9, <1>10
  DEF Next, Sender, Receiver, Network

LEMMA ReceiverNext == TransferInv /\ Next => ReceiverOK'
<1> SUFFICES ASSUME TransferInv, Next PROVE ReceiverOK'
  OBVIOUS
<1> USE DEF senderVars, receiverVars, netVars
<1>1. TypeOK /\ ReceiverOK
  BY DEF TransferInv
<1>t. /\ datapack \in [Blocks -> Nat] /\ file \in SUBSET Blocks
      /\ Last \in Blocks /\ PINGS \in Nat \ {0}
  BY <1>1, BlocksAssumption, CopiesAssumption DEF TypeOK, Last, Blocks
<1>2. CASE RecvBlock
  <2> DEFINE k == Head(toReceiver)
  <2>1. k \in Packets /\ rpc = "data"
    BY <1>1, <1>2, QueueStep DEF RecvBlock
  <2>2. CASE k = Control
    BY <1>1, <1>2, <2>1, <2>2 DEF RecvBlock, ReceiverOK
  <2>3. CASE k # Control
    <3>1. k \in Blocks
      BY <2>1, <2>3 DEF Packets
    <3>2. datapack' = [datapack EXCEPT ![k] = @ + 1] /\ file' = FileAfter(k)
      BY <1>2, <2>3 DEF RecvBlock
    <3>3. file' = {b \in Blocks : datapack'[b] # 0} /\ k \in file'
      BY <1>1, <1>t, <3>1, <3>2 DEF ReceiverOK, FileAfter
    <3>4. CASE k = Last
      <4>1. reported' = {b \in Blocks : datapack'[b] # PINGS}
        BY <1>2, <2>3, <3>4 DEF RecvBlock, Missing
      <4>2. Blocks \ file' \subseteq reported'
        BY <1>t, <3>3, <4>1
      <4> QED
        BY <3>3, <3>4, <4>2 DEF ReceiverOK
    <3>5. CASE k # Last
      <4>1. rpc' = "data"
        BY <1>2, <2>1, <2>3, <3>5 DEF RecvBlock
      <4> QED
        BY <3>3, <4>1 DEF ReceiverOK
    <3> QED
      BY <3>4, <3>5
  <2> QED
    BY <2>2, <2>3
<1>3. CASE RecvControl \/ SendAck \/ ReceiverAlarm
  <2>1. rpc' = rpc \/ rpc' # "written"
    BY <1>3 DEF RecvControl, SendAck, ReceiverAlarm
  <2>2. UNCHANGED <<file, datapack, reported>>
    BY <1>3 DEF RecvControl, SendAck, ReceiverAlarm
  <2> QED
    BY <1>1, <2>1, <2>2 DEF ReceiverOK
<1>4. CASE Sender \/ Tick \/ Network
  <2>1. UNCHANGED <<file, datapack, reported, rpc>>
    BY <1>4
    DEF Sender, SendControl, RecvAck, SenderAlarm, SendBlock, DropBlock, Tick,
        Network, Lose, LoseAck, Duplicate, Swap
  <2> QED
    BY <1>1, <2>1 DEF ReceiverOK
<1> QED
  BY <1>2, <1>3, <1>4 DEF Next, Receiver

LEMMA WaitNext == TransferInv /\ Next => WaitOK'
<1> SUFFICES ASSUME TransferInv, Next PROVE WaitOK'
  OBVIOUS
<1> USE DEF senderVars, receiverVars, netVars
<1>1. TypeOK /\ SenderOK /\ WaitOK
  BY DEF TransferInv
<1>t. acks \in Nat
  BY <1>1 DEF TypeOK
<1>2. CASE SendControl
  BY <1>1, <1>2 DEF SendControl, WaitOK
<1>3. CASE RecvAck
  BY <1>1, <1>3, <1>t DEF RecvAck, WaitOK
<1>4. CASE SendBlock \/ DropBlock
  <2>1. UNCHANGED <<waits, acks, rpc>> /\ spc = "data"
    BY <1>4 DEF SendBlock, DropBlock
  <2> QED
    BY <1>1, <2>1 DEF WaitOK
<1>5. CASE RecvControl
  <2>1. Head(toReceiver) # Control => spc \in {"data", "done"}
    BY <1>1, <1>5, QueueStep DEF SenderOK
  <2>2. rpc = "control" /\ UNCHANGED <<waits, acks, spc>>
          /\ (rpc' = "refused" => Head(toReceiver) # Control)
    BY <1>5 DEF RecvControl
  <2> QED
    BY <1>1, <1>t, <2>1, <2>2 DEF WaitOK
<1>6. CASE SendAck
  BY <1>1, <1>6, <1>t DEF SendAck, WaitOK
<1>7. CASE RecvBlock \/ ReceiverAlarm
  <2>1. rpc' \notin {"control", "refused"}
    BY <1>7 DEF RecvBlock, ReceiverAlarm
  <2> QED
    BY <2>1 DEF WaitOK
<1>8. CASE LoseAck
  BY <1>1, <1>8, <1>t DEF LoseAck, WaitOK
<1>9. CASE SenderAlarm \/ Tick \/ Lose \/ Duplicate \/ Swap
  <2>1. UNCHANGED <<waits, acks, rpc>> /\ (spc' = spc \/ spc' = "gaveup")
    BY <1>9 DEF SenderAlarm, Tick, Lose, Duplicate, Swap
  <2> QED
    BY <1>1, <2>1 DEF WaitOK
<1> QED
  BY <1>2, <1>3, <1>4, <1>5, <1>6, <1>7, <1>8, <1>9
  DEF Next, Sender, Receiver, Network

LEMMA ControlsNext == TransferInv /\ Next => ControlsOK'
<1> SUFFICES ASSUME TransferInv, Next PROVE ControlsOK'
  OBVIOUS
<1> USE DEF senderVars, receiverVars, netVars
<1> DEFINE q == toReceiver
           count == Cardinality(At(q, Control))
<1>1. TypeOK /\ SenderOK /\ ControlsOK
  BY DEF TransferInv
<1>t. /\ copy \in 0 .. (PINGS - 1) /\ round \in 0 .. (PINGS - 1)
      /\ PINGS \in Nat /\ dups \in Nat
      /\ blk \in Packets /\ Control \in Packets /\ blk # Control
  BY <1>1, BlocksAssumption, CopiesAssumption
  DEF TypeOK, Packets, Blocks, Control
<1>c. /\ q \in Seq(Packets) /\ IsFiniteSet(At(q, Control)) /\ count \in Nat
      /\ count = 0 <=> At(q, Control) = {}
  BY <1>1, QueueStep, CountsFinite, FS_EmptySet
<1>d. toReceiver' \in Seq(Packets) => IsFiniteSet(At(q, Control)')
  BY CountsFinite
<1>e. IsFiniteSet(At(q, Control)') =>
        (count' = 0 <=> At(q, Control)' = {})
  BY FS_EmptySet
<1>f. toReceiver' \in Seq(Packets) /\ count' \in Nat
        /\ (count' = 0 <=> At(q, Control)' = {})
  BY <1>1, <1>d, <1>e, QueueType, CountsFinite
<1> HIDE DEF count
<1>2. CASE SendControl
  <2>1. count' = count + 1
    BY <1>2, <1>c, <1>t, LongerAt DEF SendControl, count
  <2>2. /\ UNCHANGED <<rpc, round, dups>> /\ spc = "control"
        /\ ControlsSent' = ControlsSent + 1
    BY <1>2, <1>t DEF SendControl, ControlsSent, LastCopy
  <2> QED
    BY <1>1, <1>c, <1>f, <1>t, <2>1, <2>2 DEF ControlsOK, ControlsSent, count
<1>3. CASE SendBlock \/ DropBlock
  <2>1. count' = count
    <3>1. CASE SendBlock
      BY <3>1, <1>c, <1>t, LongerAt DEF SendBlock, count
    <3>2. CASE DropBlock
      BY <3>2 DEF DropBlock, count
    <3> QED
      BY <1>3, <3>1, <3>2
  <2>2. /\ UNCHANGED <<rpc, round, dups>> /\ spc = "data"
        /\ spc' \in {"data", "done"}
    BY <1>3 DEF SendBlock, DropBlock, Advance
  <2> QED
    BY <1>1, <1>c, <1>f, <2>1, <2>2 DEF ControlsOK, ControlsSent, count
<1>4. CASE RecvControl
  <2>1. rpc = "control" /\ UNCHANGED <<spc, copy, dups>>
    BY <1>4 DEF RecvControl
  <2>2. CASE Head(toReceiver) # Control
    BY <1>4, <2>1, <2>2 DEF RecvControl, ControlsOK
  <2>3. CASE Head(toReceiver) = Control
    <3>1. count' = count - 1
      BY <1>1, <1>4, <1>c, <2>3, QueueStep, ShorterAt DEF count
    <3>2. dups' = 0 => round + 1 + count' <= ControlsSent
      BY <1>1, <1>c, <1>t, <2>1, <3>1 DEF ControlsOK, count
    <3>3. ControlsSent' = ControlsSent
      BY <2>1 DEF ControlsSent
    <3>4. CASE round + 1 < PINGS
      <4>1. rpc' = "control" /\ round' = round + 1
        BY ONLY <1>4, <2>1, <2>3, <3>4, <1>t DEF RecvControl
      <4> QED
        BY <3>2, <3>3, <4>1 DEF ControlsOK, count
    <3>5. CASE round + 1 = PINGS
      <4>1. rpc' = "ack"
        BY <1>4, <2>3, <3>5, <1>t DEF RecvControl
      <4>2. dups' = 0 => spc # "control" /\ count' = 0
        BY <1>f, <1>t, <3>2, <3>5 DEF ControlsSent, count
      <4> QED
        BY <1>f, <2>1, <4>1, <4>2 DEF ControlsOK, count
    <3> QED
      BY <1>t, <3>4, <3>5
  <2> QED
    BY <2>2, <2>3
<1>5. CASE RecvBlock
  <2>1. rpc = "data" /\ UNCHANGED <<spc, dups>>
    BY <1>5 DEF RecvBlock
  <2>2. dups = 0 => Head(toReceiver) # Control
    BY <1>1, <1>5, <2>1, QueueStep DEF ControlsOK, At
  <2>3. dups = 0 => rpc' \in {"data", "written"}
    BY <1>5, <2>1, <2>2 DEF RecvBlock
  <2>4. count = 0 => count' = 0
    <3>1. Shorter(toReceiver', q, 1) /\ 1 \in 1 .. Len(q)
      BY <1>1, <1>5, QueueStep
    <3>2. At(q, Control) = {} => q[1] # Control
      BY <3>1 DEF At
    <3> QED
      BY <1>c, <3>1, <3>2, ShorterAt DEF count
  <2> QED
    BY <1>1, <1>c, <1>f, <2>1, <2>3, <2>4 DEF ControlsOK, count
<1>6. CASE SendAck \/ ReceiverAlarm
  <2>1. UNCHANGED <<spc, dups, toReceiver>>
          /\ rpc' \in {"ack", "data", "gaveup"} /\ (rpc' # "gaveup" => rpc = "ack")
    BY <1>1, <1>6 DEF SendAck, ReceiverAlarm
  <2> QED
    BY <1>1, <2>1 DEF ControlsOK
<1>7. CASE Lose
  <2>1. count' <= count
    BY <1>1, <1>7, <1>c, QueueStep, ShorterAt DEF count
  <2>2. UNCHANGED <<rpc, round, dups, spc, copy>>
    BY <1>7 DEF Lose
  <2> QED
    BY <1>1, <1>c, <1>f, <1>t, <2>1, <2>2 DEF ControlsOK, ControlsSent, count
<1>8. CASE Duplicate
  BY <1>8, <1>t DEF Duplicate, ControlsOK
<1>9. CASE Swap
  <2>1. count' = count
    <3>1. PICK n \in 2 .. Len(q) :
            toReceiver' = [q EXCEPT ![n] = q[n - 1], ![n - 1] = q[n]]
      BY <1>9 DEF Swap
    <3> QED
      BY <1>c, <3>1, SwappedAt DEF count
  <2>2. UNCHANGED <<rpc, round, dups, spc, copy>>
    BY <1>9 DEF Swap
  <2> QED
    BY <1>1, <1>c, <1>f, <2>1, <2>2 DEF ControlsOK, ControlsSent, count
<1>10. CASE RecvAck \/ SenderAlarm
  <2>1. /\ UNCHANGED <<rpc, round, dups, toReceiver, copy>>
        /\ spc = "ack" /\ spc' # "control"
    BY <1>1, <1>10 DEF RecvAck, SenderAlarm, SenderOK, Off
  <2> QED
    BY <1>1, <2>1 DEF ControlsOK, ControlsSent
<1>11. CASE Tick \/ LoseAck
  <2>1. UNCHANGED <<rpc, round, dups, toReceiver, copy, spc>>
    BY <1>11 DEF Tick, LoseAck
  <2> QED
    BY <1>1, <2>1 DEF ControlsOK, ControlsSent
<1> QED
  BY <1>2, <1>3, <1>4, <1>5, <1>6, <1>7, <1>8, <1>9, <1>10, <1>11
  DEF Next, Sender, Receiver, Network

\* The sender's progress, block by block.
LEMMA TriedNext ==
  ASSUME TransferInv, NEW k \in Blocks, k # Last
  PROVE  /\ SendBlock \/ DropBlock =>
              Tried(k)' = IF k = blk THEN Tried(k) + 1 ELSE Tried(k)
         /\ SendControl \/ RecvAck \/ SenderAlarm => Tried(k)' = 0
         /\ Tried(k) \in Nat
<1> USE BlocksAssumption, CopiesAssumption DEF TransferInv
<1>1. TypeOK /\ SenderOK
  OBVIOUS
<1>t. /\ copy \in 0 .. (PINGS - 1) /\ PINGS \in Nat /\ blk \in Nat /\ k \in Nat
      /\ k < Last /\ blk <= Last
  BY <1>1 DEF TypeOK, Blocks, Last
<1>2. ASSUME SendBlock \/ DropBlock
      PROVE  Tried(k)' = IF k = blk THEN Tried(k) + 1 ELSE Tried(k)
  <2>1. spc = "data" /\ Advance
    BY <1>2 DEF SendBlock, DropBlock
  <2>2. CASE LastCopy
    <3>1. /\ copy' = 0 /\ copy + 1 = PINGS
          /\ blk # Last => blk' = blk + 1 /\ spc' = "data"
          /\ blk = Last => blk' = blk
      BY <2>1, <2>2 DEF Advance, LastCopy
    <3> QED
      BY <1>t, <2>1, <3>1 DEF Tried
  <2>3. CASE ~LastCopy
    <3>1. copy' = copy + 1 /\ blk' = blk /\ spc' = "data"
      BY <2>1, <2>3 DEF Advance
    <3> QED
      BY <1>t, <2>1, <3>1 DEF Tried
  <2> QED
    BY <2>2, <2>3
<1>3. ASSUME SendControl \/ RecvAck \/ SenderAlarm
      PROVE  Tried(k)' = 0
  <2>1. spc \in {"control", "ack"}
    BY <1>1, <1>3 DEF SendControl, RecvAck, SenderAlarm, SenderOK, Off
  <2>2. blk' = blk /\ (spc' = "data" => copy' = 0)
    BY <1>1, <1>3 DEF SendControl, RecvAck, SenderAlarm, SenderOK
  <2> QED
    BY <1>1, <1>t, <2>1, <2>2 DEF Tried, SenderOK
<1>4. Tried(k) \in Nat
  BY <1>t DEF Tried
<1> QED
  BY <1>2, <1>3, <1>4

LEMMA CopiesNext == TransferInv /\ Next => CopiesOK'
<1> SUFFICES ASSUME TransferInv, Next, swaps' = 0, NEW k \in Blocks \ file',
                    k # Last
             PROVE  /\ rpc' \in {"control", "ack", "data"} =>
                         Tried(k)' <= gone'[k] + Cardinality(Early(toReceiver, k)')
                    /\ rpc' = "written" => PINGS <= gone'[k]
  BY DEF CopiesOK
<1> USE DEF senderVars, receiverVars, netVars
<1> DEFINE q == toReceiver
           early == Cardinality(Early(q, k))
<1>1. TypeOK /\ SenderOK /\ ReceiverOK /\ CopiesOK
  BY DEF TransferInv
<1>t. /\ k \in Blocks /\ k \in Packets /\ gone \in [Blocks -> Nat] /\ swaps \in Nat
      /\ PINGS \in Nat /\ Last \in Blocks /\ blk \in Blocks /\ blk \in Packets
      /\ k < Last /\ Blocks \subseteq Nat
      /\ Control \in Packets /\ Control \notin Blocks
  BY <1>1, BlocksAssumption, CopiesAssumption
  DEF TypeOK, Packets, Blocks, Last, Control
<1>q. q \in Seq(Packets) /\ q' \in Seq(Packets)
        /\ \A i \in 1 .. Len(q) : q[i] \in Packets
  BY <1>1, QueueType, QueueStep
<1>e. early \in Nat /\ early' \in Nat /\ gone[k] \in Nat /\ Tried(k) \in Nat
  BY <1>q, <1>t, CountsFinite, TriedNext
<1> HIDE DEF early
<1>f. file \subseteq file'
  <2>1. CASE RecvBlock
    BY <1>1, <2>1 DEF RecvBlock, FileAfter
  <2>2. CASE ~RecvBlock
    BY <2>2
    DEF Next, Sender, SendControl, RecvAck, SenderAlarm, SendBlock, DropBlock,
        Receiver, RecvControl, SendAck, ReceiverAlarm, Tick, Network, Lose,
        LoseAck, Duplicate, Swap
  <2> QED
    BY <2>1, <2>2
<1>h. swaps = 0
  BY <1>t
  DEF Next, Sender, SendControl, RecvAck, SenderAlarm, SendBlock, DropBlock,
      Receiver, RecvControl, RecvBlock, SendAck, ReceiverAlarm, Tick, Network,
      Lose, LoseAck, Duplicate, Swap
<1>2. /\ rpc \in {"control", "ack", "data"} => Tried(k) <= gone[k] + early
      /\ rpc = "written" => PINGS <= gone[k]
  BY <1>1, <1>f, <1>h, <1>t DEF CopiesOK, early
<1> SUFFICES /\ rpc' \in {"control", "ack", "data"} =>
                  Tried(k)' <= gone'[k] + early'
             /\ rpc' = "written" => PINGS <= gone'[k]
  BY DEF early
<1>3. CASE SendControl \/ RecvAck \/ SenderAlarm
  <2>1. Tried(k)' = 0
    BY <1>3, <1>t, TriedNext
  <2>2. UNCHANGED <<gone, rpc>>
    BY <1>3 DEF SendControl, RecvAck, SenderAlarm
  <2> QED
    BY <1>2, <1>e, <2>1, <2>2
<1>4. CASE SendBlock
  <2>1. q' = Append(q, blk) /\ UNCHANGED <<gone, rpc>>
    BY <1>4 DEF SendBlock
  <2>2. k = blk => \A i \in 1 .. Len(q) : q[i] # Last
    BY <1>1, <1>t DEF SenderOK
  <2>3. early <= early' /\ (k = blk => early + 1 <= early')
    BY <1>q, <1>t, <2>1, <2>2, LongerEarly DEF early
  <2>4. Tried(k)' = IF k = blk THEN Tried(k) + 1 ELSE Tried(k)
    BY <1>4, <1>t, TriedNext
  <2> QED
    BY <1>2, <1>e, <2>1, <2>3, <2>4
<1>5. CASE DropBlock
  <2>1. /\ UNCHANGED <<toReceiver, rpc>>
        /\ gone' = [gone EXCEPT ![blk] = @ + 1]
    BY <1>5 DEF DropBlock
  <2>2. gone'[k] = IF k = blk THEN gone[k] + 1 ELSE gone[k]
    BY <1>t, <2>1
  <2>3. early' = early
    BY <2>1 DEF early
  <2>4. Tried(k)' = IF k = blk THEN Tried(k) + 1 ELSE Tried(k)
    BY <1>5, <1>t, TriedNext
  <2> QED
    <3>1. rpc' = rpc
      BY <2>1
    <3>2. CASE k = blk
      BY ONLY <1>2, <1>e, <1>t, <2>2, <2>3, <2>4, <3>1, <3>2
    <3>3. CASE k # blk
      BY ONLY <1>2, <1>e, <1>t, <2>2, <2>3, <2>4, <3>1, <3>3
    <3> QED
      BY <3>2, <3>3
<1>6. CASE RecvControl
  <2>1. UNCHANGED <<gone, spc, blk, copy>> /\ rpc = "control"
          /\ rpc' # "written" /\ (Head(q) # Control => rpc' = "refused")
    BY <1>6 DEF RecvControl
  <2>2. Head(q) = Control => early <= early'
    BY <1>1, <1>6, <1>q, <1>e, <1>t, QueueStep, ShorterEarly DEF early
  <2>3. Tried(k)' = Tried(k)
    BY <2>1 DEF Tried
  <2> QED
    BY <1>2, <1>e, <2>1, <2>2, <2>3
<1>7. CASE RecvBlock
  <2>1. rpc = "data" /\ UNCHANGED <<gone, spc, blk, copy>>
    BY <1>7 DEF RecvBlock
  <2>2. Shorter(q', q, 1) /\ Head(q) = q[1] /\ 1 \in 1 .. Len(q)
    BY <1>1, <1>7, QueueStep
  <2>3. CASE q[1] = Last
    <3>1. Early(q, k) = {}
      BY <2>3 DEF Early
    <3>2. blk = Last
      BY <1>1, <1>t, <2>2, <2>3 DEF SenderOK, Blocks, Last
    <3>3. Tried(k) = PINGS
      BY <1>t, <3>2 DEF Tried
    <3>4. early = 0
      BY <3>1, FS_EmptySet DEF early
    <3>5. rpc' = "written"
      BY <1>7, <1>t, <2>2, <2>3 DEF RecvBlock
    <3> QED
      BY <1>2, <1>e, <1>t, <2>1, <3>3, <3>4, <3>5
  <2>4. CASE q[1] = Control
    <3>1. rpc' = "crashed"
      BY <1>7, <2>2, <2>4 DEF RecvBlock
    <3> QED
      BY <3>1
  <2>5. CASE q[1] \notin {Last, Control}
    <3>1. q[1] # k
      <4>1. Head(q) \in file'
        <5>1. q[1] \in Blocks
          BY <1>q, <2>2, <2>5 DEF Packets
        <5>2. file' = FileAfter(q[1])
          BY <1>7, <2>2, <2>5 DEF RecvBlock
        <5> QED
          BY <1>1, <2>2, <5>1, <5>2 DEF FileAfter, ReceiverOK
      <4> QED
        BY <4>1, <2>2
    <3>2. early <= early'
      BY <1>q, <1>e, <2>2, <3>1, ShorterEarly DEF early
    <3>3. rpc' = "data"
      BY <1>7, <2>1, <2>2, <2>5 DEF RecvBlock
    <3>4. Tried(k)' = Tried(k)
      BY <2>1 DEF Tried
    <3> QED
      BY <1>2, <1>e, <2>1, <3>2, <3>3, <3>4
  <2> QED
    BY <2>3, <2>4, <2>5
<1>8. CASE Lose
  <2>1. PICK n \in 1 .. Len(q) :
          /\ Shorter(q', q, n)
          /\ gone' = [b \in Blocks |-> IF b = q[n] THEN gone[b] + 1 ELSE gone[b]]
    BY <1>1, <1>8, QueueStep
  <2>2. UNCHANGED <<rpc, spc, blk, copy>>
    BY <1>8 DEF Lose
  <2>3. Tried(k)' = Tried(k)
    BY <2>2 DEF Tried
  <2>4. \/ gone'[k] = gone[k] + 1 /\ early <= early' + 1
        \/ gone'[k] = gone[k] /\ early <= early'
    <3>1. CASE k = q[n]
      <4>1. early <= early' + 1
        BY <1>q, <1>e, <2>1, <3>1, ShorterEarly DEF early
      <4>2. gone'[k] = gone[k] + 1
        BY <1>t, <2>1, <3>1
      <4> QED
        BY ONLY <4>1, <4>2
    <3>2. CASE k # q[n]
      <4>1. early <= early'
        BY <1>q, <1>e, <2>1, <3>2, ShorterEarly DEF early
      <4>2. gone'[k] = gone[k]
        BY <1>t, <2>1, <3>2
      <4> QED
        BY ONLY <4>1, <4>2
    <3> QED
      BY <3>1, <3>2
  <2>5. gone'[k] \in Nat
    BY <1>t, <2>1
  <2>6. \A t, g, e, h, f \in Nat :
          (h = g + 1 /\ e <= f + 1) \/ (h = g /\ e <= f) =>
            g <= h /\ (t <= g + e => t <= h + f)
    OBVIOUS
  <2>7. gone[k] <= gone'[k]
          /\ (Tried(k) <= gone[k] + early => Tried(k) <= gone'[k] + early')
    BY ONLY <1>e, <2>4, <2>5, <2>6
  <2>8. PINGS <= gone[k] => PINGS <= gone'[k]
    BY ONLY <1>e, <1>t, <2>5, <2>7
  <2> QED
    BY ONLY <1>2, <2>2, <2>3, <2>7, <2>8
<1>9. CASE Duplicate
  <2>1. early <= early'
    BY <1>1, <1>9, <1>q, QueueStep, LongerEarly DEF early
  <2>2. UNCHANGED <<gone, rpc, spc, blk, copy>>
    BY <1>9 DEF Duplicate
  <2>3. Tried(k)' = Tried(k)
    BY <2>2 DEF Tried
  <2> QED
    BY <1>2, <1>e, <2>1, <2>2, <2>3
<1>10. CASE SendAck \/ ReceiverAlarm
  <2>1. /\ UNCHANGED <<gone, spc, blk, copy, toReceiver>>
        /\ rpc' = "gaveup" \/ (rpc = "ack" /\ rpc' \in {"ack", "data"})
    BY <1>10 DEF SendAck, ReceiverAlarm
  <2>2. Tried(k)' = Tried(k) /\ early' = early
    BY <2>1 DEF Tried, early
  <2> QED
    BY <1>2, <2>1, <2>2
<1>11. CASE Tick \/ LoseAck
  <2>1. UNCHANGED <<gone, rpc, spc, blk, copy, toReceiver>>
    BY <1>11 DEF Tick, LoseAck
  <2>2. Tried(k)' = Tried(k) /\ early' = early
    BY <2>1 DEF Tried, early
  <2> QED
    BY <1>2, <2>1, <2>2
<1>12. CASE Swap
  BY <1>12, <1>t, <1>h DEF Swap
<1> QED
  BY <1>3, <1>4, <1>5, <1>6, <1>7, <1>8, <1>9, <1>10, <1>11, <1>12
  DEF Next, Sender, Receiver, Network

LEMMA OrderNext == TransferInv /\ Next => OrderOK'
<1> SUFFICES ASSUME TransferInv, Next, dups' = 0, lost' = 0, swaps' = 0
             PROVE  OrderOK'
  BY DEF OrderOK
<1> USE DEF senderVars, receiverVars, netVars
<1> DEFINE q == toReceiver
           count == Cardinality(At(q, Control))
           Ordered(r) == \A i, j \in 1 .. Len(r) :
                           i < j /\ r[i] # Control => r[j] # Control
<1>1. TypeOK /\ SenderOK /\ ControlsOK /\ OrderOK
  BY DEF TransferInv
<1>t. /\ copy \in 0 .. (PINGS - 1) /\ round \in 0 .. (PINGS - 1)
      /\ PINGS \in Nat /\ dups \in Nat /\ lost \in Nat /\ swaps \in Nat
      /\ blk \in Packets /\ Control \in Packets /\ blk # Control
  BY <1>1, BlocksAssumption, CopiesAssumption
  DEF TypeOK, Packets, Blocks, Control
<1>h. /\ dups = 0 /\ lost = 0 /\ swaps = 0
      /\ ~Lose /\ ~LoseAck /\ ~Duplicate /\ ~Swap
  BY <1>t
  DEF Next, Sender, SendControl, RecvAck, SenderAlarm, SendBlock, DropBlock,
      Receiver, RecvControl, RecvBlock, SendAck, ReceiverAlarm, Tick, Network,
      Lose, LoseAck, Duplicate, Swap
<1>2. /\ Ordered(q) /\ rpc # "refused"
      /\ rpc = "control" => round + count = ControlsSent
  BY <1>1, <1>h DEF OrderOK
<1>c. /\ q \in Seq(Packets) /\ Len(q) \in Nat /\ q' \in Seq(Packets)
      /\ count \in Nat /\ count' \in Nat
  BY <1>1, QueueStep, QueueType, CountsFinite
<1> HIDE DEF count
<1> SUFFICES /\ Ordered(q') /\ rpc' # "refused"
             /\ rpc' = "control" => round' + count' = ControlsSent'
  BY DEF OrderOK, count
<1>3. CASE SendControl
  <2>1. /\ q' = Append(q, Control) /\ spc = "control" /\ UNCHANGED <<rpc, round>>
        /\ ControlsSent' = ControlsSent + 1
    BY <1>3, <1>t DEF SendControl, ControlsSent, LastCopy
  <2>2. \A i \in 1 .. Len(q) : q[i] = Control
    BY <1>1, <2>1 DEF SenderOK
  <2>3. Ordered(q')
    BY <1>c, <1>t, <2>1, <2>2, AppendProperties
  <2>4. count' = count + 1
    BY <1>c, <1>t, <2>1, LongerAt DEF count
  <2> QED
    BY <1>2, <1>c, <1>t, <2>1, <2>3, <2>4 DEF ControlsSent
<1>4. CASE SendBlock
  <2>1. q' = Append(q, blk) /\ UNCHANGED <<rpc, round>>
          /\ ControlsSent' = ControlsSent
    BY <1>4 DEF SendBlock, Advance, ControlsSent
  <2>2. Ordered(q')
    BY <1>2, <1>c, <1>t, <2>1, AppendProperties
  <2>3. count' = count
    BY <1>c, <1>t, <2>1, LongerAt DEF count
  <2> QED
    BY <1>2, <2>1, <2>2, <2>3
<1>5. CASE RecvControl \/ RecvBlock
  <2>1. Shorter(q', q, 1) /\ Head(q) = q[1] /\ 1 \in 1 .. Len(q)
    BY <1>1, <1>5, QueueStep
  <2>2. Ordered(q')
    BY <1>2, <1>c, <2>1 DEF Shorter
  <2>3. CASE RecvBlock
    <3>1. rpc' \notin {"control", "refused"}
      BY <2>3 DEF RecvBlock
    <3> QED
      BY <2>2, <3>1
  <2>4. CASE RecvControl
    <3>1. rpc = "control" /\ ControlsSent' = ControlsSent
      BY <2>4 DEF RecvControl, ControlsSent
    <3>2. q[1] = Control
      <4> SUFFICES ASSUME q[1] # Control PROVE FALSE
        OBVIOUS
      <4>1. At(q, Control) = {}
        BY <1>2, <1>c, <2>1 DEF At
      <4>2. count = 0
        BY <4>1, FS_EmptySet DEF count
      <4>3. ControlsSent = PINGS
        BY <1>1, <2>1 DEF SenderOK, ControlsSent
      <4> QED
        BY <1>2, <1>t, <3>1, <4>2, <4>3
    <3>3. count' = count - 1
      BY <1>c, <2>1, <3>2, ShorterAt DEF count
    <3>4. rpc' # "refused" /\ (rpc' = "control" => round' = round + 1)
      BY <2>1, <2>4, <3>1, <3>2 DEF RecvControl
    <3> QED
      BY <1>2, <1>c, <1>t, <2>2, <3>1, <3>3, <3>4
  <2> QED
    BY <1>5, <2>3, <2>4
<1>6. CASE RecvAck \/ SenderAlarm \/ DropBlock
  <2>1. /\ UNCHANGED <<toReceiver, rpc, round>>
        /\ spc # "control" /\ spc' # "control"
    BY <1>1, <1>6 DEF RecvAck, SenderAlarm, DropBlock, Advance, SenderOK, Off
  <2>2. ControlsSent' = ControlsSent /\ count' = count
    BY <2>1 DEF ControlsSent, count
  <2> QED
    BY <1>2, <2>1, <2>2
<1>7. CASE SendAck \/ ReceiverAlarm
  <2>1. UNCHANGED toReceiver /\ rpc' \in {"ack", "data", "gaveup"}
    BY <1>7 DEF SendAck, ReceiverAlarm
  <2> QED
    BY <1>2, <2>1
<1>8. CASE Tick
  <2>1. UNCHANGED <<toReceiver, rpc, round, spc, copy>>
    BY <1>8 DEF Tick
  <2>2. ControlsSent' = ControlsSent /\ count' = count
    BY <2>1 DEF ControlsSent, count
  <2> QED
    BY <1>2, <2>1, <2>2
<1> QED
  BY <1>h, <1>3, <1>4, <1>5, <1>6, <1>7, <1>8 DEF Next, Sender, Receiver, Network

LEMMA TransferNext == TransferInv /\ [Next]_vars => TransferInv'
<1> SUFFICES ASSUME TransferInv, [Next]_vars PROVE TransferInv'
  OBVIOUS
<1>1. CASE Next
  <2>1. TypeOK'
    BY <1>1, TypesNext DEF TransferInv
  <2> QED
    BY <1>1, <2>1, SenderNext, ReceiverNext, CopiesNext, ControlsNext, WaitNext,
       OrderNext
    DEF TransferInv
<1>2. CASE UNCHANGED vars
  BY <1>2
  DEF TransferInv, TypeOK, SenderOK, ReceiverOK, CopiesOK, ControlsOK, WaitOK,
      OrderOK, Tried, ControlsSent, vars, senderVars, receiverVars, netVars
<1> QED
  BY <1>1, <1>2

-----------------------------------------------------------------------------
(* The theorems                                                            *)

\* tripfs.c and tripfr.c: no loop over blocks or copies runs past its end, and
\* every variable keeps its type.
THEOREM TransferTypes == Spec => []TypeOK
<1>1. Init => TransferInv
  BY InitTransfer
<1>2. TransferInv /\ [Next]_vars => TransferInv'
  BY TransferNext
<1>3. TransferInv => TypeOK
  BY DEF TransferInv
<1> QED
  BY <1>1, <1>2, <1>3, PTL DEF Spec

\* tripfr.c: a block that is not in the written file is always reported, however
\* packets were lost, duplicated and reordered.
THEOREM HolesCorrect == Spec => []HolesReported
<1>1. Init => TransferInv
  BY InitTransfer
<1>2. TransferInv /\ [Next]_vars => TransferInv'
  BY TransferNext
<1>3. TransferInv => HolesReported
  BY DEF TransferInv, ReceiverOK, HolesReported
<1> QED
  BY <1>1, <1>2, <1>3, PTL DEF Spec

\* tripfs.c and tripfr.c: where the network keeps the order, one copy of a block
\* that is neither dropped nor lost is enough, for any number of copies.
THEOREM SurvivalCorrect == Spec => []SurvivesLoss
<1>1. Init => TransferInv
  BY InitTransfer
<1>2. TransferInv /\ [Next]_vars => TransferInv'
  BY TransferNext
<1>3. TransferInv => SurvivesLoss
  <2> SUFFICES ASSUME TransferInv, rpc = "written", swaps = 0,
                      NEW k \in Blocks, gone[k] < PINGS
               PROVE  k \in file
    BY DEF SurvivesLoss
  <2>1. gone[k] \in Nat /\ PINGS \in Nat
    BY CopiesAssumption DEF TransferInv, TypeOK
  <2>2. k \notin file /\ k # Last => PINGS <= gone[k]
    BY DEF TransferInv, CopiesOK
  <2>3. Last \in file
    BY DEF TransferInv, ReceiverOK
  <2> QED
    BY <2>1, <2>2, <2>3
<1> QED
  BY <1>1, <1>2, <1>3, PTL DEF Spec

\* tripfs.c and tripfr.c: control packets and blocks, on one socket, are not
\* taken for each other.
THEOREM PhasesCorrect == Spec => []PhasesApart
<1>1. Init => TransferInv
  BY InitTransfer
<1>2. TransferInv /\ [Next]_vars => TransferInv'
  BY TransferNext
<1>3. TransferInv => PhasesApart
  BY DEF TransferInv, ControlsOK, WaitOK, OrderOK, PhasesApart
<1> QED
  BY <1>1, <1>2, <1>3, PTL DEF Spec
-----------------------------------------------------------------------------
(* The drops that param.dat asks for                                       *)

\* How many copies of block k the sender has sent or skipped.
Attempts(k) ==
    IF k < blk \/ spc = "done" THEN PINGS
    ELSE IF k = blk /\ spc = "data" THEN copy ELSE 0

\* Every drop uses up one that was configured, and a copy is sent only when no
\* rule for its block has a drop left.
DropOK(k) ==
    /\ dropped[k] + Cardinality(DropsOf(k, packselect)) = Configured(k)
    /\ dropped[k] <= Attempts(k)
    /\ dropped[k] < Attempts(k) => DropsOf(k, packselect) = {}

DropInv == TransferInv /\ \A k \in Blocks : DropOK(k)

LEMMA DropsOfMember ==
  ASSUME NEW k, NEW c
  PROVE  \A d : d \in DropsOf(k, c) <=>
           \E r \in DOMAIN Rules : \E i \in 1 .. c[r] :
             Rules[r].seq = k /\ d = <<r, i>>
BY DEF DropsOf

LEMMA DropsOfFinite ==
  ASSUME NEW k, NEW c \in [DOMAIN Rules -> Nat]
  PROVE  IsFiniteSet(DropsOf(k, c)) /\ Cardinality(DropsOf(k, c)) \in Nat
<1> DEFINE R == {q \in DOMAIN Rules : Rules[q].seq = k}
           Of(r) == {r} \X (1 .. c[r])
           f == [r \in R |-> Of(r)]
           T == {Of(r) : r \in R}
<1>1. IsFiniteSet(R)
  <2>1. DOMAIN Rules = 1 .. Len(Rules) /\ Len(Rules) \in Nat
    BY RulesAssumption, LenProperties
  <2>2. IsFiniteSet(DOMAIN Rules)
    BY <2>1, FS_Interval
  <2> QED
    BY <2>2, FS_Subset
<1>2. f \in Surjection(R, T)
  BY DEF Surjection
<1>3. IsFiniteSet(T)
  <2> HIDE DEF f, T, R
  <2> QED
    BY <1>1, <1>2, FS_Surjection
<1>4. ASSUME NEW r \in R PROVE IsFiniteSet(Of(r))
  <2>1. c[r] \in Nat
    BY <1>4
  <2>2. IsFiniteSet(1 .. c[r])
    BY <2>1, FS_Interval
  <2>3. IsFiniteSet({r})
    BY FS_Singleton
  <2> QED
    BY <2>2, <2>3, FS_Product
<1>5. IsFiniteSet(UNION T)
  <2>1. \A t \in T : IsFiniteSet(t)
    BY <1>4
  <2> HIDE DEF T
  <2> QED
    BY <1>3, <2>1, FS_UNION
<1>6. DropsOf(k, c) = UNION T
  BY DEF DropsOf
<1> QED
  BY <1>5, <1>6, FS_CardinalityType

\* A drop takes one away, of the block it is for.
LEMMA DropsAfterDrop ==
  ASSUME TypeOK, NEW b \in Blocks, Firing(b) # {}, NEW k \in Blocks
  PROVE  Cardinality(DropsOf(k, AfterDrop(b)))
           = IF k = b THEN Cardinality(DropsOf(k, packselect)) - 1
             ELSE Cardinality(DropsOf(k, packselect))
<1>1. PICK m \in Firing(b) : AfterDrop(b) = [packselect EXCEPT ![m] = @ - 1]
  BY FirstFiring
<1>2. packselect \in [DOMAIN Rules -> Nat]
  BY DEF TypeOK
<1>3. m \in DOMAIN Rules /\ Rules[m].seq = b /\ packselect[m] \in Nat \ {0}
  BY <1>2 DEF Firing
<1>4. \A r \in DOMAIN Rules :
        AfterDrop(b)[r] = IF r = m THEN packselect[m] - 1 ELSE packselect[r]
  BY <1>1, <1>2, <1>3
<1>5. CASE k = b
  <2> DEFINE d == <<m, packselect[m]>>
  <2>1. d \in DropsOf(k, packselect)
    BY <1>3, <1>5, DropsOfMember
  <2>2. ASSUME NEW r \in DOMAIN Rules
        PROVE  \A i : i \in 1 .. AfterDrop(b)[r] <=>
                        i \in 1 .. packselect[r] /\ <<r, i>> # d
    <3>1. CASE r = m
      <4>1. \A i : i \in 1 .. (packselect[m] - 1) <=>
                     i \in 1 .. packselect[m] /\ i # packselect[m]
        BY <1>3
      <4>2. \A i : <<m, i>> # d <=> i # packselect[m]
        OBVIOUS
      <4> QED
        BY <1>4, <3>1, <4>1, <4>2
    <3>2. CASE r # m
      BY <1>4, <3>2
    <3> QED
      BY <3>1, <3>2
  <2>3. DropsOf(k, AfterDrop(b)) = DropsOf(k, packselect) \ {d}
    <3> HIDE DEF d
    <3>1. \A x : x \in DropsOf(k, AfterDrop(b)) <=>
                   x \in DropsOf(k, packselect) /\ x # d
      BY <2>2, DropsOfMember
    <3> QED
      BY <3>1
  <2> HIDE DEF d
  <2>4. IsFiniteSet(DropsOf(k, packselect))
    BY <1>2, DropsOfFinite
  <2> QED
    BY <1>5, <2>1, <2>3, <2>4, FS_RemoveElement
<1>6. CASE k # b
  <2>1. \A x : x \in DropsOf(k, AfterDrop(b)) <=> x \in DropsOf(k, packselect)
    BY <1>3, <1>4, <1>6, DropsOfMember
  <2>2. DropsOf(k, AfterDrop(b)) = DropsOf(k, packselect)
    BY <2>1
  <2> QED
    BY <1>6, <2>2
<1> QED
  BY <1>5, <1>6

\* A block that has a rule that fires has a drop left, and the other way round.
LEMMA DropsFiring ==
  ASSUME TypeOK, NEW k \in Blocks
  PROVE  Firing(k) = {} <=> DropsOf(k, packselect) = {}
<1>1. \A r \in DOMAIN Rules : packselect[r] \in Nat
  BY DEF TypeOK
<1>2. \A r \in DOMAIN Rules : packselect[r] # 0 <=> \E i : i \in 1 .. packselect[r]
  <2> SUFFICES ASSUME NEW r \in DOMAIN Rules
               PROVE  packselect[r] # 0 <=> \E i : i \in 1 .. packselect[r]
    OBVIOUS
  <2>1. packselect[r] # 0 => 1 \in 1 .. packselect[r]
    BY <1>1
  <2>2. ASSUME NEW i, i \in 1 .. packselect[r] PROVE packselect[r] # 0
    BY <1>1, <2>2
  <2> QED
    BY <2>1, <2>2
<1>3. ASSUME NEW r \in Firing(k) PROVE DropsOf(k, packselect) # {}
  <2>1. r \in DOMAIN Rules /\ Rules[r].seq = k /\ packselect[r] # 0
    BY DEF Firing
  <2>2. PICK i : i \in 1 .. packselect[r]
    BY <1>2, <2>1
  <2>3. <<r, i>> \in DropsOf(k, packselect)
    BY <2>1, <2>2, DropsOfMember
  <2> QED
    BY <2>3
<1>4. ASSUME NEW d \in DropsOf(k, packselect) PROVE Firing(k) # {}
  <2>1. PICK r \in DOMAIN Rules :
          Rules[r].seq = k /\ \E i : i \in 1 .. packselect[r]
    BY DropsOfMember
  <2>2. r \in Firing(k)
    BY <1>2, <2>1 DEF Firing
  <2> QED
    BY <2>2
<1> QED
  BY <1>3, <1>4

\* Sending or skipping a copy is one attempt at the block being sent.
LEMMA AttemptsNext ==
  ASSUME TransferInv, Next, NEW k \in Blocks
  PROVE  /\ Attempts(k) \in Nat
         /\ Attempts(k)' = IF (SendBlock \/ DropBlock) /\ k = blk
                           THEN Attempts(k) + 1 ELSE Attempts(k)
<1> USE BlocksAssumption, CopiesAssumption
    DEF senderVars, receiverVars, netVars
<1>1. /\ copy \in 0 .. (PINGS - 1) /\ PINGS \in Nat /\ blk \in Nat /\ k \in Nat
      /\ k <= Last /\ blk <= Last
  BY DEF TransferInv, TypeOK, Blocks, Last
<1>2. TypeOK /\ SenderOK
  BY DEF TransferInv
<1>3. CASE SendBlock \/ DropBlock
  <2>1. spc = "data" /\ Advance
    BY <1>3 DEF SendBlock, DropBlock
  <2>2. CASE LastCopy /\ blk # Last
    <3>1. copy' = 0 /\ copy + 1 = PINGS /\ blk' = blk + 1 /\ spc' = "data"
      BY <2>1, <2>2 DEF Advance, LastCopy
    <3> QED
      BY <1>1, <1>3, <2>1, <3>1 DEF Attempts
  <2>3. CASE LastCopy /\ blk = Last
    <3>1. copy' = 0 /\ copy + 1 = PINGS /\ blk' = blk /\ spc' = "done"
      BY <2>1, <2>3 DEF Advance, LastCopy
    <3> QED
      BY <1>1, <1>3, <2>1, <2>3, <3>1 DEF Attempts
  <2>4. CASE ~LastCopy
    <3>1. copy' = copy + 1 /\ blk' = blk /\ spc' = "data"
      BY <2>1, <2>4 DEF Advance
    <3> QED
      BY <1>1, <1>3, <2>1, <3>1 DEF Attempts
  <2> QED
    BY <2>2, <2>3, <2>4
<1>4. CASE SendControl \/ RecvAck \/ SenderAlarm
  <2>1. spc \in {"control", "ack"} /\ blk = 0
    BY <1>2, <1>4 DEF SendControl, RecvAck, SenderAlarm, SenderOK, Off
  <2>2. blk' = blk /\ spc' # "done" /\ (spc' = "data" => copy' = 0)
    BY <1>2, <1>4, <2>1 DEF SendControl, RecvAck, SenderAlarm, SenderOK
  <2>3. ~(SendBlock \/ DropBlock)
    BY <2>1 DEF SendBlock, DropBlock
  <2> QED
    BY <1>1, <2>1, <2>2, <2>3 DEF Attempts
<1>5. CASE ~(Sender)
  <2>1. UNCHANGED <<spc, copy, blk>>
    BY <1>5 DEF Next, Receiver, Network, RecvControl, SendAck, RecvBlock,
       ReceiverAlarm, Tick, Lose, LoseAck, Duplicate, Swap
  <2> QED
    BY <1>1, <1>5, <2>1 DEF Sender, Attempts
<1> QED
  BY <1>3, <1>4, <1>5 DEF Sender

LEMMA DropInit == Init => DropInv
<1> SUFFICES ASSUME Init, NEW k \in Blocks PROVE DropOK(k)
  BY InitTransfer DEF DropInv
<1>1. packselect = [r \in DOMAIN Rules |-> Rules[r].count] /\ dropped[k] = 0
  BY DEF Init, InitSender
<1>2. packselect \in [DOMAIN Rules -> Nat]
  BY TypesInit DEF TypeOK
<1>3. Cardinality(DropsOf(k, packselect)) \in Nat
  BY <1>2, DropsOfFinite
<1>4. Attempts(k) = 0
  BY BlocksAssumption DEF Attempts, Init, InitSender, Blocks
<1> QED
  BY <1>1, <1>3, <1>4 DEF DropOK, Configured

LEMMA DropNext == DropInv /\ [Next]_vars => DropInv'
<1> SUFFICES ASSUME DropInv, [Next]_vars, NEW k \in Blocks PROVE DropOK(k)'
  BY TransferNext DEF DropInv
<1>1. TransferInv /\ TypeOK /\ DropOK(k)
  BY DEF DropInv, TransferInv
<1>2. /\ dropped \in [Blocks -> Nat] /\ packselect \in [DOMAIN Rules -> Nat]
      /\ blk \in Blocks
  BY <1>1 DEF TypeOK
<1>3. Cardinality(DropsOf(k, packselect)) \in Nat
  BY <1>2, DropsOfFinite
<1>4. CASE DropBlock
  <2>1. /\ Next /\ Firing(blk) # {} /\ packselect' = AfterDrop(blk)
        /\ dropped' = [dropped EXCEPT ![blk] = @ + 1]
    BY <1>4 DEF Next, Sender, DropBlock
  <2>2. Cardinality(DropsOf(k, packselect'))
          = IF k = blk THEN Cardinality(DropsOf(k, packselect)) - 1
            ELSE Cardinality(DropsOf(k, packselect))
    BY <1>1, <1>2, <2>1, DropsAfterDrop
  <2>3. /\ Attempts(k) \in Nat
        /\ Attempts(k)' = IF k = blk THEN Attempts(k) + 1 ELSE Attempts(k)
    BY <1>1, <1>4, <2>1, AttemptsNext
  <2>4. CASE k = blk
    <3>1. DropsOf(k, packselect) # {}
      BY <1>1, <2>1, <2>4, DropsFiring
    <3>2. dropped[k] = Attempts(k)
      BY <1>1, <1>2, <2>3, <3>1 DEF DropOK
    <3>3. dropped'[k] = dropped[k] + 1
      BY <1>2, <2>1, <2>4
    <3> QED
      BY <1>1, <1>2, <1>3, <2>2, <2>3, <2>4, <3>2, <3>3 DEF DropOK
  <2>5. CASE k # blk
    <3>1. dropped'[k] = dropped[k]
      BY <1>2, <2>1, <2>5
    <3>2. /\ Cardinality(DropsOf(k, packselect'))
               = Cardinality(DropsOf(k, packselect))
          /\ Attempts(k)' = Attempts(k)
      BY <2>2, <2>3, <2>5
    <3>3. DropsOf(k, packselect) = {} => DropsOf(k, packselect') = {}
      <4>1. packselect' \in [DOMAIN Rules -> Nat]
        BY <1>2, <2>1, AfterDropType
      <4>2. IsFiniteSet(DropsOf(k, packselect'))
        BY <4>1, DropsOfFinite
      <4> QED
        BY <3>2, <4>2, FS_EmptySet
    <3> QED
      BY <1>1, <3>1, <3>2, <3>3 DEF DropOK
  <2> QED
    BY <2>4, <2>5
<1>5. CASE SendBlock
  <2>1. Next /\ Firing(blk) = {} /\ UNCHANGED <<packselect, dropped>>
    BY <1>5 DEF Next, Sender, SendBlock
  <2>2. /\ Attempts(k) \in Nat
        /\ Attempts(k)' = IF k = blk THEN Attempts(k) + 1 ELSE Attempts(k)
    BY <1>1, <1>5, <2>1, AttemptsNext
  <2>3. k = blk => DropsOf(k, packselect) = {}
    BY <1>1, <2>1, DropsFiring
  <2>4. dropped[k] \in Nat
    BY <1>2
  <2> QED
    BY <1>1, <2>1, <2>2, <2>3, <2>4 DEF DropOK
<1>6. CASE ~(DropBlock \/ SendBlock)
  <2>1. UNCHANGED <<packselect, dropped>>
    BY <1>6 DEF Next, Sender, Receiver, Network, SendControl, RecvAck,
       SenderAlarm, RecvControl, SendAck, RecvBlock, ReceiverAlarm, Tick, Lose,
       LoseAck, Duplicate, Swap, vars, senderVars
  <2>2. Attempts(k)' = Attempts(k)
    <3>1. Next => Attempts(k)' = Attempts(k)
      BY <1>1, <1>6, AttemptsNext
    <3>2. UNCHANGED vars => Attempts(k)' = Attempts(k)
      BY DEF Attempts, vars, senderVars
    <3> QED
      BY <3>1, <3>2
  <2> QED
    BY <1>1, <2>1, <2>2 DEF DropOK
<1> QED
  BY <1>4, <1>5, <1>6

\* dropornot.c: for any rules, in any order and repeated or not, the copies of
\* a block that are skipped add up to what its rules say, as far as there are
\* copies to skip.
THEOREM DropsCorrect == Spec => []DropsAsConfigured
<1>1. DropInv => DropsAsConfigured
  <2> SUFFICES ASSUME DropInv, spc = "done", NEW k \in Blocks
               PROVE  dropped[k] = IF Configured(k) < PINGS THEN Configured(k)
                                   ELSE PINGS
    BY DEF DropsAsConfigured
  <2>1. DropOK(k) /\ Attempts(k) = PINGS
    BY DEF DropInv, Attempts
  <2>2. dropped[k] \in Nat /\ PINGS \in Nat
          /\ Cardinality(DropsOf(k, packselect)) \in Nat
    BY CopiesAssumption, DropsOfFinite DEF DropInv, TransferInv, TypeOK
  <2>3. dropped[k] < PINGS => Cardinality(DropsOf(k, packselect)) = 0
    BY <2>1, FS_EmptySet DEF DropOK
  <2> QED
    BY <2>1, <2>2, <2>3 DEF DropOK
<1> QED
  BY <1>1, DropInit, DropNext, PTL DEF Spec

-----------------------------------------------------------------------------
(* The alarms: the state part of the liveness properties.                  *)

\* The handler of alarmcb.c ends the process it interrupts, whatever that
\* process is doing: an alarm may be set only while its process waits for a
\* packet, and must be set all that time.
AlarmsMatchWaits ==
    /\ salarm # Off <=> spc = "ack"
    /\ ralarm # Off <=> rpc \in {"ack", "data"}

\* tripfs.c and tripfr.c: no wait is without an alarm, and no alarm is left set
\* that could end a sender among its blocks or a receiver with a complete file.
THEOREM AlarmsCorrect == Spec => []AlarmsMatchWaits
<1>1. Init => AlarmsMatchWaits
  BY DEF Init, InitSender, InitReceiver, AlarmsMatchWaits
<1>2. TypeOK /\ AlarmsMatchWaits /\ [Next]_vars => AlarmsMatchWaits'
  <2> SUFFICES ASSUME TypeOK, AlarmsMatchWaits, [Next]_vars
               PROVE  AlarmsMatchWaits'
    OBVIOUS
  <2> USE DEF AlarmsMatchWaits, Off
  <2>1. CASE SendControl
    BY <2>1, TimeoutAssumption DEF SendControl, receiverVars
  <2>2. CASE RecvAck \/ SenderAlarm \/ Lose \/ LoseAck \/ Duplicate \/ Swap
    BY <2>2
    DEF RecvAck, SenderAlarm, Lose, LoseAck, Duplicate, Swap, senderVars,
        receiverVars
  <2>3. CASE SendBlock \/ DropBlock
    BY <2>3 DEF SendBlock, DropBlock, Advance, receiverVars
  <2>4. CASE RecvControl \/ SendAck \/ ReceiverAlarm
    BY <2>4, TimeoutAssumption DEF RecvControl, SendAck, ReceiverAlarm, senderVars
  <2>5. CASE RecvBlock
    BY <2>5, TimeoutAssumption DEF RecvBlock, AlarmAfterBlock, senderVars
  <2>6. CASE Tick
    <3>1. \A timer \in {Off} \cup Nat :
            timer # 0 => (Elapse(timer) # Off <=> timer # Off)
      BY DEF Elapse
    <3> QED
      BY <2>6, <3>1 DEF Tick, TypeOK
  <2>7. CASE UNCHANGED vars
    BY <2>7 DEF vars, senderVars, receiverVars
  <2> QED
    BY <2>1, <2>2, <2>3, <2>4, <2>5, <2>6, <2>7
    DEF Next, Sender, Receiver, Network
<1> QED
  BY <1>1, <1>2, TransferTypes, PTL DEF Spec
=============================================================================
