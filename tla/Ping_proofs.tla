----------------------------- MODULE Ping_proofs -----------------------------
(***************************************************************************)
(* Theorems about the ping client, for every number of pings, every clock  *)
(* and every amount of duplication.                                        *)
(***************************************************************************)
EXTENDS Ping, TLAPS

\* Only the last ping is followed by the drain, the others by a sleep.
LoopInv ==
    /\ pc = "sleep" => i # PINGS - 1
    /\ pc \in {"drain", "close", "stats", "printed"} => i = PINGS - 1

SignalInv == TypeOK /\ LoopInv /\ SignalsMatchBuffer

\* At the start nothing is buffered and no signal is raised.
LEMMA InitSignal == Init => SignalInv
<1> SUFFICES ASSUME Init PROVE SignalInv
  OBVIOUS
<1>1. 0 \in Seqs /\ Seqs # {}
  BY PingsAssumption DEF Seqs
<1>2. MainTypeOK /\ SharedTypeOK
  BY <1>1, TimesAssumption DEF Init, MainTypeOK, SharedTypeOK
<1>3. SignalTypeOK
  BY <1>1 DEF Init, SignalTypeOK
<1>4. NetworkTypeOK
  BY <1>1 DEF Init, NetworkTypeOK
<1>5. LoopInv /\ SignalsMatchBuffer
  BY DEF Init, LoopInv, SignalsMatchBuffer, Flag
<1>6. QED
  BY <1>2, <1>3, <1>4, <1>5 DEF SignalInv, TypeOK

\* Every step of the client, the handler and the network keeps SignalInv.
LEMMA NextSignal == SignalInv /\ [Next]_vars => SignalInv'
<1> SUFFICES ASSUME SignalInv, [Next]_vars PROVE SignalInv'
  OBVIOUS
<1> USE DEF SignalInv, TypeOK
<1>a. Flag(TRUE) = 1 /\ Flag(FALSE) = 0
  BY DEF Flag
<1>b. /\ Len(buf) \in Nat /\ missed \in Nat
      /\ \A k \in Seqs : /\ Append(buf, k) \in Seq(Seqs)
                         /\ Len(Append(buf, k)) = Len(buf) + 1
      /\ buf # <<>> => /\ Head(buf) \in Seqs /\ Tail(buf) \in Seq(Seqs)
                       /\ Len(Tail(buf)) = Len(buf) - 1
  BY DEF SignalTypeOK
<1>1. ASSUME Stamp PROVE SignalInv'
  <2>1. SignalTypeOK' /\ NetworkTypeOK'
    BY <1>1 DEF Stamp, SignalTypeOK, NetworkTypeOK, handlerVars, netVars
  <2>2. MainTypeOK'
    BY <1>1, PingsAssumption, TimesAssumption
       DEF Stamp, MainTypeOK, LoopInv, Running, Seqs, mainVars
  <2>3. SharedTypeOK'
    BY <1>1
       DEF Stamp, SharedTypeOK, MainTypeOK, SignalTypeOK, sharedVars
  <2>4. LoopInv'
    BY <1>1 DEF Stamp, MainTypeOK, LoopInv, Running, mainVars
  <2>5. SignalsMatchBuffer'
    BY <1>1, <1>a, <1>b
       DEF Stamp, SignalsMatchBuffer, Open, Running, SignalTypeOK, mainVars,
           handlerVars
  <2>6. QED
    BY <2>1, <2>2, <2>3, <2>4, <2>5
<1>2. ASSUME Send PROVE SignalInv'
  <2>1. SharedTypeOK' /\ SignalTypeOK'
    BY <1>2 DEF Send, SharedTypeOK, SignalTypeOK, sharedVars, handlerVars
  <2>2. MainTypeOK'
    BY <1>2, PingsAssumption, TimesAssumption
       DEF Send, MainTypeOK, LoopInv, Running, Seqs, mainVars
  <2>3. NetworkTypeOK'
    BY <1>2
       DEF Send, NetworkTypeOK, MainTypeOK, netVars
  <2>4. LoopInv'
    BY <1>2 DEF Send, MainTypeOK, LoopInv, Running, mainVars
  <2>5. SignalsMatchBuffer'
    BY <1>2, <1>a, <1>b
       DEF Send, SignalsMatchBuffer, Open, Running, SignalTypeOK, mainVars,
           handlerVars
  <2>6. QED
    BY <2>1, <2>2, <2>3, <2>4, <2>5
<1>3. ASSUME Wake PROVE SignalInv'
  <2>1. SharedTypeOK' /\ SignalTypeOK' /\ NetworkTypeOK'
    BY <1>3
       DEF Wake, SharedTypeOK, SignalTypeOK, NetworkTypeOK, sharedVars,
           handlerVars, netVars
  <2>2. MainTypeOK'
    BY <1>3, PingsAssumption, TimesAssumption
       DEF Wake, MainTypeOK, LoopInv, Running, Seqs, mainVars
  <2>3. LoopInv'
    BY <1>3 DEF Wake, MainTypeOK, LoopInv, Running, mainVars
  <2>4. SignalsMatchBuffer'
    BY <1>3, <1>a, <1>b
       DEF Wake, SignalsMatchBuffer, Open, Running, SignalTypeOK, mainVars,
           handlerVars
  <2>5. QED
    BY <2>1, <2>2, <2>3, <2>4
<1>4. ASSUME Close PROVE SignalInv'
  <2>1. SharedTypeOK' /\ NetworkTypeOK'
    BY <1>4 DEF Close, SharedTypeOK, NetworkTypeOK, sharedVars, netVars
  <2>2. MainTypeOK'
    BY <1>4, PingsAssumption, TimesAssumption
       DEF Close, MainTypeOK, LoopInv, Running, Seqs, mainVars
  <2>3. SignalTypeOK'
    BY <1>4, <1>b, PingsAssumption
       DEF Close, SignalTypeOK, Seqs, handlerVars
  <2>4. LoopInv'
    BY <1>4 DEF Close, MainTypeOK, LoopInv, Running, mainVars
  <2>5. SignalsMatchBuffer'
    BY <1>4, <1>a, <1>b
       DEF Close, SignalsMatchBuffer, Open, Running, SignalTypeOK, mainVars,
           handlerVars
  <2>6. QED
    BY <2>1, <2>2, <2>3, <2>4, <2>5
<1>5. ASSUME Stats PROVE SignalInv'
  <2>1. SharedTypeOK' /\ SignalTypeOK' /\ NetworkTypeOK'
    BY <1>5
       DEF Stats, SharedTypeOK, SignalTypeOK, NetworkTypeOK, sharedVars,
           handlerVars, netVars
  <2>2. MainTypeOK'
    BY <1>5, PingsAssumption, TimesAssumption
       DEF Stats, MainTypeOK, LoopInv, Running, Seqs, mainVars
  <2>3. LoopInv'
    BY <1>5 DEF Stats, MainTypeOK, LoopInv, Running, mainVars
  <2>4. SignalsMatchBuffer'
    BY <1>5, <1>a, <1>b
       DEF Stats, SignalsMatchBuffer, Open, Running, SignalTypeOK, mainVars,
           handlerVars
  <2>5. QED
    BY <2>1, <2>2, <2>3, <2>4
<1>6. ASSUME Deliver PROVE SignalInv'
  <2>1. SharedTypeOK' /\ NetworkTypeOK'
    BY <1>6 DEF Deliver, SharedTypeOK, NetworkTypeOK, sharedVars, netVars
  <2>2. MainTypeOK'
    BY <1>6, PingsAssumption, TimesAssumption
       DEF Deliver, AfterInterrupt, MainTypeOK, LoopInv, Running, Seqs, mainVars
  <2>3. SignalTypeOK'
    BY <1>6, <1>b, PingsAssumption
       DEF Deliver, SignalTypeOK, Seqs, handlerVars
  <2>4. LoopInv'
    BY <1>6 DEF Deliver, MainTypeOK, LoopInv, Running, mainVars
  <2>5. SignalsMatchBuffer'
    <3>1. /\ pending = TRUE /\ pending' = FALSE
          /\ hpc = "idle" /\ hpc' = "recv" /\ buf' = buf /\ missed' = missed
      BY <1>6 DEF Deliver, SignalTypeOK
    <3>2. Open => Len(buf) = missed + 1
      <4>1. Flag(pending) = 1 /\ Flag(hpc = "recv") = 0
        BY <3>1 DEF Flag
      <4>2. QED
        BY <1>b, <4>1 DEF SignalsMatchBuffer
    <3>3. Open' = Open /\ buf' = buf /\ missed' = missed
      BY <1>6 DEF Deliver, Open
    <3>4. Flag(pending') = 0 /\ Flag(hpc' = "recv") = 1
      BY <3>1 DEF Flag
    <3>5. QED
      BY <1>b, <3>2, <3>3, <3>4 DEF SignalsMatchBuffer
  <2>6. QED
    BY <2>1, <2>2, <2>3, <2>4, <2>5
<1>7. ASSUME HandlerRecv PROVE SignalInv'
  <2>1. MainTypeOK' /\ SharedTypeOK' /\ NetworkTypeOK'
    BY <1>7
       DEF HandlerRecv, MainTypeOK, SharedTypeOK, NetworkTypeOK, mainVars,
           sharedVars, netVars
  <2>2. SignalTypeOK'
    <3>1. /\ hpc' = "mark"
          /\ pending' = pending /\ missed' = missed
      BY <1>7 DEF HandlerRecv
    <3>2. /\ buf \in Seq(Seqs) /\ got \in Seqs
          /\ pending \in BOOLEAN /\ missed \in Nat
      BY <1>b DEF SignalTypeOK
    <3>3. 0 \in Seqs
      BY PingsAssumption DEF Seqs
    <3>4. buf' \in Seq(Seqs) /\ got' \in Seqs
      <4>1. CASE buf' = buf /\ got' = 0
        BY <3>2, <3>3, <4>1
      <4>2. CASE buf # <<>> /\ got' = Head(buf) /\ buf' = Tail(buf)
        BY <3>2, <4>2
      <4>3. QED
        BY <1>7, <4>1, <4>2 DEF HandlerRecv
    <3>5. QED
      BY <3>1, <3>2, <3>4 DEF SignalTypeOK
  <2>3. LoopInv'
    BY <1>7 DEF HandlerRecv, MainTypeOK, LoopInv, Running, mainVars
  <2>4. SignalsMatchBuffer'
    <3>1. /\ hpc = "recv" /\ hpc' = "mark"
          /\ pending' = pending /\ missed' = missed
      BY <1>7 DEF HandlerRecv
    <3>2. Open' = Open
      BY <1>7 DEF HandlerRecv, Open, mainVars
    <3>3. Flag(hpc = "recv") = 1 /\ Flag(hpc' = "recv") = 0
          /\ Flag(pending) \in Nat /\ Flag(pending') = Flag(pending)
      BY <3>1 DEF Flag
    <3>4. Open => Len(buf') = Len(buf) - 1
      BY <1>7, <1>b DEF HandlerRecv
    <3>5. QED
      BY <1>b, <3>1, <3>2, <3>3, <3>4 DEF SignalsMatchBuffer
  <2>5. QED
    BY <2>1, <2>2, <2>3, <2>4
<1>8. ASSUME HandlerMark PROVE SignalInv'
  <2>1. MainTypeOK' /\ NetworkTypeOK'
    BY <1>8 DEF HandlerMark, MainTypeOK, NetworkTypeOK, mainVars, netVars
  <2>2. SharedTypeOK'
    BY <1>8
       DEF HandlerMark, SharedTypeOK, MainTypeOK, SignalTypeOK, sharedVars
  <2>3. SignalTypeOK'
    BY <1>8, <1>b, PingsAssumption
       DEF HandlerMark, SignalTypeOK, Seqs, handlerVars
  <2>4. LoopInv'
    BY <1>8 DEF HandlerMark, MainTypeOK, LoopInv, Running, mainVars
  <2>5. SignalsMatchBuffer'
    BY <1>8, <1>a, <1>b
       DEF HandlerMark, SignalsMatchBuffer, Open, Running, SignalTypeOK, mainVars,
           handlerVars
  <2>6. QED
    BY <2>1, <2>2, <2>3, <2>4, <2>5
<1>9. ASSUME SleepTick PROVE SignalInv'
  <2>1. SharedTypeOK' /\ SignalTypeOK' /\ NetworkTypeOK'
    BY <1>9
       DEF SleepTick, SharedTypeOK, SignalTypeOK, NetworkTypeOK, sharedVars,
           handlerVars, netVars
  <2>2. MainTypeOK'
    BY <1>9, PingsAssumption, TimesAssumption
       DEF SleepTick, MainTypeOK, LoopInv, Running, Seqs, mainVars
  <2>3. LoopInv'
    BY <1>9 DEF SleepTick, MainTypeOK, LoopInv, Running, mainVars
  <2>4. SignalsMatchBuffer'
    BY <1>9, <1>a, <1>b
       DEF SleepTick, SignalsMatchBuffer, Open, Running, SignalTypeOK, mainVars,
           handlerVars
  <2>5. QED
    BY <2>1, <2>2, <2>3, <2>4
<1>10. ASSUME IdleTick PROVE SignalInv'
  <2>1. SharedTypeOK' /\ SignalTypeOK' /\ NetworkTypeOK'
    BY <1>10
       DEF IdleTick, SharedTypeOK, SignalTypeOK, NetworkTypeOK, sharedVars,
           handlerVars, netVars
  <2>2. MainTypeOK'
    BY <1>10, PingsAssumption, TimesAssumption
       DEF IdleTick, MainTypeOK, LoopInv, Running, Seqs, mainVars
  <2>3. LoopInv'
    BY <1>10 DEF IdleTick, MainTypeOK, LoopInv, Running, mainVars
  <2>4. SignalsMatchBuffer'
    BY <1>10, <1>a, <1>b
       DEF IdleTick, SignalsMatchBuffer, Open, Running, SignalTypeOK, mainVars,
           handlerVars
  <2>5. QED
    BY <2>1, <2>2, <2>3, <2>4
<1>11. ASSUME NEW k \in Seqs, Echo(k) PROVE SignalInv'
  <2>1. MainTypeOK' /\ SharedTypeOK' /\ SignalTypeOK'
    BY <1>11
       DEF Echo, MainTypeOK, SharedTypeOK, SignalTypeOK, mainVars, sharedVars,
           handlerVars
  <2>2. NetworkTypeOK'
    BY <1>11
       DEF Echo, NetworkTypeOK, MainTypeOK, netVars
  <2>3. LoopInv'
    BY <1>11 DEF Echo, MainTypeOK, LoopInv, Running, mainVars
  <2>4. SignalsMatchBuffer'
    BY <1>11, <1>a, <1>b
       DEF Echo, SignalsMatchBuffer, Open, Running, SignalTypeOK, mainVars,
           handlerVars
  <2>5. QED
    BY <2>1, <2>2, <2>3, <2>4
<1>12. ASSUME NEW k \in Seqs, Arrive(k) PROVE SignalInv'
  <2>1. MainTypeOK' /\ SharedTypeOK'
    BY <1>12 DEF Arrive, MainTypeOK, SharedTypeOK, mainVars, sharedVars
  <2>2. SignalTypeOK'
    <3>1. CASE Open
      <4>1. /\ buf' \in Seq(Seqs) /\ pending' = TRUE /\ missed' \in Nat
        BY <1>12, <1>b, <3>1 DEF Arrive
      <4>2. QED
        BY <1>12, <4>1 DEF Arrive, SignalTypeOK, handlerVars
    <3>2. CASE ~Open
      BY <1>12, <3>2 DEF Arrive, SignalTypeOK, handlerVars
    <3>3. QED
      BY <3>1, <3>2
  <2>3. NetworkTypeOK'
    BY <1>12
       DEF Arrive, NetworkTypeOK, MainTypeOK, netVars
  <2>4. LoopInv'
    BY <1>12 DEF Arrive, MainTypeOK, LoopInv, Running, mainVars
  <2>5. SignalsMatchBuffer'
    <3>1. hpc' = hpc /\ Open' = Open
      BY <1>12 DEF Arrive, Open, mainVars, handlerVars
    <3>2. CASE ~Open
      BY <3>1, <3>2 DEF SignalsMatchBuffer
    <3>3. CASE Open
      <4>1. /\ pending' = TRUE /\ Len(buf') = Len(buf) + 1
            /\ missed' = IF pending THEN missed + 1 ELSE missed
        BY <1>12, <1>b, <3>3 DEF Arrive
      <4>2. Flag(hpc = "recv") \in Nat /\ Flag(hpc' = "recv") = Flag(hpc = "recv")
        BY <3>1 DEF Flag
      <4>3. Flag(pending') = 1
        BY <4>1 DEF Flag
      <4>4. CASE pending
        <5>1. Flag(pending) = 1 /\ missed' = missed + 1
          BY <4>1, <4>4 DEF Flag
        <5>2. Len(buf) = missed + 1 + Flag(hpc = "recv")
          BY <3>3, <5>1 DEF SignalsMatchBuffer
        <5>3. Len(buf') = missed' + 1 + Flag(hpc' = "recv")
          BY <1>b, <4>1, <4>2, <5>1, <5>2
        <5>4. QED
          BY <4>3, <5>3 DEF SignalsMatchBuffer
      <4>5. CASE ~pending
        <5>1. Flag(pending) = 0
          BY <4>5 DEF Flag
        <5>2. QED
          BY <1>b, <3>1, <3>3, <4>1, <4>2, <4>3, <4>5, <5>1
             DEF SignalsMatchBuffer
      <4>6. QED
        BY <4>4, <4>5
    <3>4. QED
      BY <3>2, <3>3
  <2>6. QED
    BY <2>1, <2>2, <2>3, <2>4, <2>5
<1>13. ASSUME NEW k \in Seqs, Duplicate(k) PROVE SignalInv'
  <2>1. MainTypeOK' /\ SharedTypeOK' /\ SignalTypeOK'
    BY <1>13
       DEF Duplicate, MainTypeOK, SharedTypeOK, SignalTypeOK, mainVars,
           sharedVars, handlerVars
  <2>2. NetworkTypeOK'
    BY <1>13
       DEF Duplicate, NetworkTypeOK, MainTypeOK, netVars
  <2>3. LoopInv'
    BY <1>13 DEF Duplicate, MainTypeOK, LoopInv, Running, mainVars
  <2>4. SignalsMatchBuffer'
    BY <1>13, <1>a, <1>b
       DEF Duplicate, SignalsMatchBuffer, Open, Running, SignalTypeOK, mainVars,
           handlerVars
  <2>5. QED
    BY <2>1, <2>2, <2>3, <2>4
<1>14. ASSUME UNCHANGED vars PROVE SignalInv'
  <2>1. MainTypeOK' /\ SharedTypeOK' /\ SignalTypeOK' /\ NetworkTypeOK'
    BY <1>14 DEF vars, MainTypeOK, SharedTypeOK, SignalTypeOK, NetworkTypeOK,
                 mainVars, sharedVars, handlerVars, netVars
  <2>2. LoopInv' /\ SignalsMatchBuffer'
    BY <1>14 DEF vars, LoopInv, SignalsMatchBuffer, Open, mainVars, handlerVars
  <2>3. QED
    BY <2>1, <2>2
<1>15. QED
  BY <1>1, <1>2, <1>3, <1>4, <1>5, <1>6, <1>7, <1>8, <1>9, <1>10, <1>11, <1>12,
     <1>13, <1>14 DEF Next, Client, Network

LEMMA SignalInvariant == Spec => []SignalInv
BY InitSignal, NextSignal, PTL DEF Spec

-----------------------------------------------------------------------------

\* Every variable keeps its type; in particular the arrays of PINGS entries
\* are never indexed past their end, by the main program or by the handler.
THEOREM PingTypes == Spec => []TypeOK
BY SignalInvariant, PTL DEF SignalInv

\* A signal always has a packet to read, and packets stay unread only because
\* arrivals were merged into one signal.
THEOREM SignalsCorrect == Spec => []SignalsMatchBuffer
BY SignalInvariant, PTL DEF SignalInv

\* The recvfrom() of the handler never blocks the client.
THEOREM HandlerNeverBlocks == Spec => [](hpc = "recv" /\ Open => buf # <<>>)
<1>1. SignalInv => (hpc = "recv" /\ Open => buf # <<>>)
  <2> SUFFICES ASSUME SignalInv, hpc = "recv", Open PROVE buf # <<>>
    OBVIOUS
  <2>1. Len(buf) >= 1
    BY DEF SignalInv, SignalsMatchBuffer, TypeOK, SignalTypeOK, Flag
  <2>2. QED
    BY <2>1
<1>2. QED
  BY <1>1, SignalInvariant, PTL
-----------------------------------------------------------------------------
(* Answers and spacing: PacketInv says of which pings there can be packets, *)
(* and how long ago the last one was stamped.                               *)

\* The pings that have been stamped.
Started(k) == k < i \/ (k = i /\ pc # "stamp")

StampOK ==
    /\ now # 0
    /\ \A k \in Seqs : pingstart[k] <= now /\ (pingstart[k] # 0 <=> Started(k))

FlightOK ==
    /\ \A k \in Seqs : toServer[k] > 0 \/ toClient[k] > 0 => Started(k)
    /\ \A n \in DOMAIN buf : Started(buf[n])
    /\ hpc = "mark" => Started(got)

AnswerOK ==
    \A k \in Seqs : responded[k] => Started(k) /\ pingstart[k] <= pingend[k]

SleepOK ==
    /\ pc = "sleep" => now - pingstart[i] + left >= Gap
    /\ pc = "stamp" /\ i # 0 => now - pingstart[i - 1] >= Gap

PacketInv == StampOK /\ FlightOK /\ AnswerOK /\ SleepOK /\ PingsSpaced

\* At the start no ping is stamped and no packet is anywhere.
LEMMA InitPacket == Init => PacketInv
<1> SUFFICES ASSUME Init PROVE PacketInv
  OBVIOUS
<1>1. now \in Nat \ {0} /\ i = 0 /\ pc = "stamp" /\ hpc = "idle" /\ buf = <<>>
  BY TimesAssumption DEF Init
<1>2. /\ pingstart = [k \in Seqs |-> 0]
      /\ responded = [k \in Seqs |-> FALSE]
      /\ toServer = [k \in Seqs |-> 0] /\ toClient = [k \in Seqs |-> 0]
  BY DEF Init
<1>3. Seqs \subseteq Nat /\ 1 .. (PINGS - 1) \subseteq Seqs
  BY PingsAssumption DEF Seqs
<1>4. \A k \in Seqs : ~Started(k)
  BY <1>1, <1>3 DEF Started
<1>5. StampOK
  BY <1>1, <1>2, <1>4 DEF StampOK
<1>6. FlightOK
  BY ONLY <1>1, <1>2 DEF FlightOK
<1>7. AnswerOK
  BY <1>2 DEF AnswerOK
<1>8. SleepOK
  BY <1>1 DEF SleepOK
<1>9. PingsSpaced
  BY ONLY <1>2, <1>3 DEF PingsSpaced
<1> QED
  BY <1>5, <1>6, <1>7, <1>8, <1>9 DEF PacketInv

\* The time since a stamp and what is left of the sleep never shrink together.
LEMMA SleepLeft ==
  \A n, m, l, r, p, g \in Nat :
    /\ n - p + l >= g
    /\ (m = n /\ r = l) \/ (m = n + 1 /\ r = l) \/ (m = n + 1 /\ r = l - 1)
    => m - p + r >= g
OBVIOUS

\* A step that stamps no ping and lets no sleep begin or end: what is left to
\* show is that packets are of started pings and answers not before them.
LEMMA KeepStamps ==
  ASSUME SignalInv, PacketInv, SignalInv',
         UNCHANGED <<pingstart, i>>,
         pc' = pc \/ (pc' \notin {"stamp", "sleep"} /\ pc # "stamp"),
         \/ UNCHANGED <<now, left>>
         \/ now' = now + 1 /\ left' = left
         \/ now' = now + 1 /\ left' = left - 1
  PROVE  /\ StampOK' /\ SleepOK' /\ PingsSpaced'
         /\ \A k \in Seqs : Started(k)' <=> Started(k)
<1>t. /\ now \in Nat /\ now' \in Nat /\ left \in Nat /\ left' \in Nat
      /\ i \in Seqs /\ pingstart \in [Seqs -> Nat]
  BY DEF SignalInv, TypeOK, MainTypeOK, SharedTypeOK
<1>s. Seqs \subseteq Nat /\ \A k \in Seqs : k # 0 => k - 1 \in Seqs
  BY PingsAssumption DEF Seqs
<1>e. \/ UNCHANGED <<now, left>>
      \/ now' = now + 1 /\ left' = left
      \/ now' = now + 1 /\ left' = left - 1
  OBVIOUS
<1>1. \A k \in Seqs : Started(k)' <=> Started(k)
  BY DEF Started
<1>2. now <= now' /\ now' # 0
  <2>1. now # 0
    BY DEF PacketInv, StampOK
  <2>2. now' = now \/ now' = now + 1
    BY ONLY <1>e
  <2> QED
    BY ONLY <1>t, <2>1, <2>2
<1>3. StampOK'
  <2> SUFFICES ASSUME NEW k \in Seqs
               PROVE  pingstart'[k] <= now' /\ (pingstart'[k] # 0 <=> Started(k)')
    BY <1>2 DEF StampOK
  <2>1. pingstart[k] \in Nat /\ pingstart[k] <= now
        /\ (pingstart[k] # 0 <=> Started(k))
    BY <1>t DEF PacketInv, StampOK
  <2>2. pingstart[k] <= now'
    BY ONLY <2>1, <1>2, <1>t
  <2> QED
    BY <1>1, <2>1, <2>2
<1>4. SleepOK'
  <2>1. pc' = "sleep" => now' - pingstart[i] + left' >= Gap
    <3> SUFFICES ASSUME pc' = "sleep" PROVE now' - pingstart[i] + left' >= Gap
      OBVIOUS
    <3>1. now - pingstart[i] + left >= Gap /\ pingstart[i] \in Nat
      BY <1>t DEF PacketInv, SleepOK
    <3>2. Gap \in Nat
      BY TimesAssumption
    <3> QED
      BY ONLY <3>1, <3>2, <1>e, <1>t, SleepLeft
  <2>2. pc' = "stamp" /\ i # 0 => now' - pingstart[i - 1] >= Gap
    <3> SUFFICES ASSUME pc' = "stamp", i # 0 PROVE now' - pingstart[i - 1] >= Gap
      OBVIOUS
    <3>1. now - pingstart[i - 1] >= Gap
      BY DEF PacketInv, SleepOK
    <3>2. pingstart[i - 1] \in Nat
      BY <1>t, <1>s
    <3> QED
      BY ONLY <3>1, <3>2, <1>2, <1>t, TimesAssumption
  <2> QED
    BY <2>1, <2>2 DEF SleepOK
<1>5. PingsSpaced'
  BY DEF PacketInv, PingsSpaced
<1> QED
  BY <1>1, <1>3, <1>4, <1>5

\* The client's own steps that stamp or send a ping, or wake from a sleep.
LEMMA StampPacket == SignalInv /\ PacketInv /\ SignalInv' /\ Stamp => PacketInv'
<1> SUFFICES ASSUME SignalInv, PacketInv, SignalInv', Stamp PROVE PacketInv'
  OBVIOUS
<1>t. now \in Nat /\ i \in Seqs /\ pingstart \in [Seqs -> Nat] /\ buf \in Seq(Seqs)
      /\ got \in Seqs
  BY DEF SignalInv, TypeOK, MainTypeOK, SharedTypeOK, SignalTypeOK
<1>s. /\ Seqs \subseteq Nat /\ \A k \in Seqs : k # 0 => k - 1 \in Seqs
      /\ \A k \in 1 .. (PINGS - 1) : k \in Seqs /\ k - 1 \in Seqs /\ k \in Nat \ {0}
  BY PingsAssumption DEF Seqs
<1>1. /\ pc = "stamp" /\ pc' = "send"
      /\ pingstart' = [pingstart EXCEPT ![i] = now]
      /\ UNCHANGED <<now, i, left, pingend, responded, toServer, toClient, buf,
                     hpc, got>>
  BY DEF Stamp, Running, handlerVars, netVars
<1>2. \A k \in Seqs : /\ Started(k) => Started(k)' /\ k # i
                      /\ Started(k)' <=> Started(k) \/ k = i
  BY <1>t, <1>s, <1>1 DEF Started
<1>3. \A k \in Seqs : pingstart'[k] = IF k = i THEN now ELSE pingstart[k]
  BY <1>t, <1>1
<1>4. StampOK'
  BY <1>t, <1>1, <1>2, <1>3 DEF PacketInv, StampOK
<1>5. FlightOK'
  <2>1. \A n \in DOMAIN buf : buf[n] \in Seqs
    BY <1>t
  <2> QED
    BY <1>t, <1>1, <1>2, <2>1 DEF PacketInv, FlightOK
<1>6. AnswerOK'
  BY <1>1, <1>2, <1>3 DEF PacketInv, AnswerOK
<1>7. SleepOK'
  BY <1>1 DEF SleepOK
<1>8. PingsSpaced'
  <2> SUFFICES ASSUME NEW k \in 1 .. (PINGS - 1), pingstart'[k] # 0
               PROVE  pingstart'[k] - pingstart'[k - 1] >= Gap
    BY DEF PingsSpaced
  <2>1. k \in Seqs /\ k - 1 \in Seqs /\ k \in Nat \ {0}
    BY <1>s
  <2>2. CASE k = i
    <3>1. pingstart'[k] = now /\ pingstart'[k - 1] = pingstart[i - 1] /\ i # 0
      BY <1>3, <2>1, <2>2
    <3>2. now - pingstart[i - 1] >= Gap
      BY <1>1, <3>1 DEF PacketInv, SleepOK
    <3> QED
      BY <3>1, <3>2
  <2>3. CASE k # i
    <3>1. Started(k)
      BY <1>2, <1>3, <2>1, <2>3 DEF PacketInv, StampOK
    <3>2. k < i
      BY <1>1, <3>1 DEF Started
    <3>3. k - 1 # i
      BY <1>t, <1>s, <2>1, <3>2
    <3>4. pingstart'[k] = pingstart[k] /\ pingstart'[k - 1] = pingstart[k - 1]
      BY <1>3, <2>1, <2>3, <3>3
    <3> QED
      BY <3>4 DEF PacketInv, PingsSpaced
  <2> QED
    BY <2>2, <2>3
<1> QED
  BY <1>4, <1>5, <1>6, <1>7, <1>8 DEF PacketInv

LEMMA SendPacket == SignalInv /\ PacketInv /\ SignalInv' /\ Send => PacketInv'
<1> SUFFICES ASSUME SignalInv, PacketInv, SignalInv', Send PROVE PacketInv'
  OBVIOUS
<1>t. now \in Nat /\ i \in Seqs /\ pingstart \in [Seqs -> Nat] /\ buf \in Seq(Seqs)
      /\ got \in Seqs /\ toServer \in [Seqs -> Nat]
  BY DEF SignalInv, TypeOK, MainTypeOK, SharedTypeOK, SignalTypeOK, NetworkTypeOK
<1>1. /\ pc = "send" /\ (pc' = "sleep" => left' = Gap) /\ pc' \in {"sleep", "drain"}
      /\ toServer' = [toServer EXCEPT ![i] = @ + 1]
      /\ UNCHANGED <<now, i, pingstart, pingend, responded, toClient, buf, hpc,
                     got>>
  BY DEF Send, Running, handlerVars, sharedVars
<1>2. \A k : Started(k)' <=> Started(k)
  BY <1>1 DEF Started
<1>3. StampOK' /\ AnswerOK' /\ PingsSpaced'
  BY <1>1, <1>2 DEF PacketInv, StampOK, AnswerOK, PingsSpaced
<1>4. FlightOK'
  <2>1. Started(i)
    BY <1>1 DEF Started
  <2>2. \A k \in Seqs : k # i => toServer'[k] = toServer[k]
    BY <1>t, <1>1
  <2> QED
    BY <1>1, <1>2, <2>1, <2>2 DEF PacketInv, FlightOK
<1>5. SleepOK'
  <2>1. pingstart[i] \in Nat /\ pingstart[i] <= now
    BY <1>t DEF PacketInv, StampOK
  <2>2. now - pingstart[i] + Gap >= Gap
    BY ONLY <2>1, <1>t, TimesAssumption
  <2> QED
    BY <1>1, <2>2 DEF SleepOK
<1> QED
  BY <1>3, <1>4, <1>5 DEF PacketInv

LEMMA WakePacket == SignalInv /\ PacketInv /\ SignalInv' /\ Wake => PacketInv'
<1> SUFFICES ASSUME SignalInv, PacketInv, SignalInv', Wake PROVE PacketInv'
  OBVIOUS
<1>t. now \in Nat /\ i \in Seqs /\ pingstart \in [Seqs -> Nat] /\ buf \in Seq(Seqs)
      /\ got \in Seqs /\ i' \in Seqs
  BY DEF SignalInv, TypeOK, MainTypeOK, SharedTypeOK, SignalTypeOK
<1>s. Seqs \subseteq Nat
  BY PingsAssumption DEF Seqs
<1>1. /\ left = 0
      /\ \/ pc = "sleep" /\ pc' = "stamp" /\ i' = i + 1
         \/ pc = "drain" /\ pc' = "close" /\ i' = i
      /\ UNCHANGED <<now, left, pingstart, pingend, responded, toServer, toClient,
                     buf, hpc, got>>
  BY DEF Wake, Running, handlerVars, sharedVars, netVars
<1>2. \A k \in Seqs : Started(k)' <=> Started(k)
  BY <1>t, <1>s, <1>1 DEF Started
<1>3. StampOK' /\ AnswerOK' /\ PingsSpaced'
  BY <1>1, <1>2 DEF PacketInv, StampOK, AnswerOK, PingsSpaced
<1>4. FlightOK'
  <2>1. \A n \in DOMAIN buf : buf[n] \in Seqs
    BY <1>t
  <2> QED
    BY <1>t, <1>1, <1>2, <2>1 DEF PacketInv, FlightOK
<1>5. SleepOK'
  <2>1. CASE pc = "sleep" /\ pc' = "stamp" /\ i' = i + 1
    <3>1. now - pingstart[i] + 0 >= Gap /\ pingstart[i] \in Nat
      BY <1>t, <1>1, <2>1 DEF PacketInv, SleepOK
    <3>2. now - pingstart[i] >= Gap
      BY ONLY <3>1, <1>t, TimesAssumption
    <3>3. i' - 1 = i
      BY ONLY <1>t, <1>s, <2>1
    <3> QED
      BY <1>1, <2>1, <3>2, <3>3 DEF SleepOK
  <2>2. CASE pc' = "close"
    BY <2>2 DEF SleepOK
  <2> QED
    BY <1>1, <2>1, <2>2
<1> QED
  BY <1>3, <1>4, <1>5 DEF PacketInv

\* The handler's two steps.
LEMMA HandlerPacket ==
  SignalInv /\ PacketInv /\ SignalInv' /\ (HandlerRecv \/ HandlerMark) => PacketInv'
<1> SUFFICES ASSUME SignalInv, PacketInv, SignalInv', HandlerRecv \/ HandlerMark
             PROVE  PacketInv'
  OBVIOUS
<1>t. /\ now \in Nat /\ i \in Seqs /\ buf \in Seq(Seqs) /\ got \in Seqs
      /\ pingend \in [Seqs -> Nat] /\ responded \in [Seqs -> BOOLEAN]
  BY DEF SignalInv, TypeOK, MainTypeOK, SharedTypeOK, SignalTypeOK
<1>1. UNCHANGED <<now, pc, i, left, pingstart, toServer, toClient>>
  BY DEF HandlerRecv, HandlerMark, mainVars, sharedVars, netVars
<1>2. /\ StampOK' /\ SleepOK' /\ PingsSpaced'
      /\ \A k \in Seqs : Started(k)' <=> Started(k)
  BY <1>1, KeepStamps
<1>3. CASE HandlerRecv
  <2>1. UNCHANGED <<pingstart, pingend, responded>> /\ hpc' = "mark"
    BY <1>3 DEF HandlerRecv, sharedVars
  <2>2. AnswerOK'
    BY <1>2, <2>1 DEF PacketInv, AnswerOK
  <2>3. CASE buf # <<>> /\ got' = Head(buf) /\ buf' = Tail(buf)
    <3>1. \A n \in DOMAIN buf' : buf'[n] = buf[n + 1] /\ n + 1 \in DOMAIN buf
      BY <1>t, <2>3
    <3>2. got' = buf[1] /\ 1 \in DOMAIN buf
      BY <1>t, <2>3
    <3>3. \A n \in DOMAIN buf : Started(buf[n]) /\ buf[n] \in Seqs
      BY <1>t DEF PacketInv, FlightOK
    <3>4. FlightOK'
      BY <1>1, <1>2, <3>1, <3>2, <3>3 DEF PacketInv, FlightOK
    <3> QED
      BY <1>2, <2>2, <3>4 DEF PacketInv
  <2>4. CASE ~Open /\ got' = 0 /\ buf' = buf
    <3>1. 0 \in Seqs /\ Seqs \subseteq Nat
      BY PingsAssumption DEF Seqs
    <3>2. pc \in {"stats", "printed"}
      BY <2>4 DEF Open
    <3>3. Started(0)
      BY <1>t, <3>1, <3>2 DEF Started
    <3>4. \A n \in DOMAIN buf : Started(buf[n]) /\ buf[n] \in Seqs
      BY <1>t DEF PacketInv, FlightOK
    <3>5. FlightOK'
      BY <1>1, <1>2, <2>4, <3>1, <3>3, <3>4 DEF PacketInv, FlightOK
    <3> QED
      BY <1>2, <2>2, <3>5 DEF PacketInv
  <2> QED
    BY <1>3, <2>3, <2>4 DEF HandlerRecv
<1>4. CASE HandlerMark
  <2>1. /\ hpc = "mark" /\ hpc' = "idle" /\ buf' = buf
        /\ pingend' = [pingend EXCEPT ![got] = now]
        /\ responded' = [responded EXCEPT ![got] = TRUE]
    BY <1>4 DEF HandlerMark
  <2>2. \A n \in DOMAIN buf : Started(buf[n]) /\ buf[n] \in Seqs
    BY <1>t DEF PacketInv, FlightOK
  <2>3. FlightOK'
    BY <1>1, <1>2, <2>1, <2>2 DEF PacketInv, FlightOK
  <2>4. AnswerOK'
    <3> SUFFICES ASSUME NEW k \in Seqs, responded'[k]
                 PROVE  Started(k)' /\ pingstart'[k] <= pingend'[k]
      BY DEF AnswerOK
    <3>1. CASE k = got
      BY <1>t, <1>1, <1>2, <2>1, <3>1 DEF PacketInv, FlightOK, StampOK
    <3>2. CASE k # got
      BY <1>t, <1>1, <1>2, <2>1, <3>2 DEF PacketInv, AnswerOK
    <3> QED
      BY <3>1, <3>2
  <2> QED
    BY <1>2, <2>3, <2>4 DEF PacketInv
<1> QED
  BY <1>3, <1>4

\* Time, the network and the rest of the main program.
LEMMA OtherPacket ==
  SignalInv /\ PacketInv /\ SignalInv'
    /\ (Close \/ Stats \/ Deliver \/ SleepTick \/ Network \/ UNCHANGED vars)
    => PacketInv'
<1> SUFFICES ASSUME SignalInv, PacketInv, SignalInv',
                    \/ Close \/ Stats \/ Deliver \/ SleepTick \/ Network
                    \/ UNCHANGED vars
             PROVE  PacketInv'
  OBVIOUS
<1>t. /\ buf \in Seq(Seqs) /\ got \in Seqs
      /\ toServer \in [Seqs -> Nat] /\ toClient \in [Seqs -> Nat]
  BY DEF SignalInv, TypeOK, SignalTypeOK, NetworkTypeOK
<1>1. UNCHANGED <<pingstart, pingend, responded, i, got>>
  BY DEF Close, Stats, Deliver, SleepTick, Network, IdleTick, Echo, Arrive,
         Duplicate, mainVars, sharedVars, handlerVars, vars
<1>2. pc' = pc \/ (pc' \notin {"stamp", "sleep"} /\ pc # "stamp")
  BY DEF Close, Stats, Deliver, SleepTick, Network, IdleTick, Echo, Arrive,
         Duplicate, mainVars, Running, vars
<1>3. \/ UNCHANGED <<now, left>>
      \/ now' = now + 1 /\ left' = left
      \/ now' = now + 1 /\ left' = left - 1
  BY DEF Close, Stats, Deliver, SleepTick, Network, IdleTick, Echo, Arrive,
         Duplicate, mainVars, AfterInterrupt, vars
<1>4. /\ StampOK' /\ SleepOK' /\ PingsSpaced'
      /\ \A k \in Seqs : Started(k)' <=> Started(k)
  BY <1>1, <1>2, <1>3, KeepStamps
<1>5. AnswerOK'
  BY <1>1, <1>4 DEF PacketInv, AnswerOK
<1>6. \A n \in DOMAIN buf : Started(buf[n]) /\ buf[n] \in Seqs
  BY <1>t DEF PacketInv, FlightOK
<1>7. hpc' = "mark" => hpc = "mark"
  BY DEF Close, Stats, Deliver, SleepTick, Network, IdleTick, Echo, Arrive,
         Duplicate, handlerVars, vars
<1>8. FlightOK'
  <2>1. CASE UNCHANGED <<toServer, toClient>> /\ (buf' = buf \/ buf' = <<>>)
    BY ONLY <1>1, <1>4, <1>6, <1>7, <1>t, <2>1, PacketInv DEF PacketInv, FlightOK
  <2>2. ASSUME NEW k \in Seqs, Echo(k) \/ Duplicate(k) PROVE FlightOK'
    <3>1. buf' = buf /\ Started(k)
      BY <2>2 DEF Echo, Duplicate, PacketInv, FlightOK
    <3>2. \A j \in Seqs : j # k => toServer'[j] = toServer[j]
                                   /\ toClient'[j] = toClient[j]
      BY <1>t, <2>2 DEF Echo, Duplicate
    <3> QED
      BY ONLY <1>1, <1>4, <1>6, <1>7, <1>t, <3>1, <3>2, PacketInv
      DEF PacketInv, FlightOK
  <2>3. ASSUME NEW k \in Seqs, Arrive(k) PROVE FlightOK'
    <3>1. Started(k)
      BY <2>3 DEF Arrive, PacketInv, FlightOK
    <3>2. toServer' = toServer /\ \A j \in Seqs : j # k => toClient'[j] = toClient[j]
      BY <1>t, <2>3 DEF Arrive
    <3>3. \A n \in DOMAIN buf' : Started(buf'[n]) /\ buf'[n] \in Seqs
      <4>1. CASE buf' = buf
        BY <1>6, <4>1
      <4>2. CASE buf' = Append(buf, k)
        <5>1. \A n \in DOMAIN buf' : buf'[n] = k \/ (n \in DOMAIN buf /\ buf'[n] = buf[n])
          BY <1>t, <4>2
        <5> QED
          BY <1>6, <3>1, <5>1
      <4> QED
        BY <2>3, <4>1, <4>2 DEF Arrive
    <3> QED
      BY ONLY <1>1, <1>4, <1>7, <1>t, <3>1, <3>2, <3>3, PacketInv
      DEF PacketInv, FlightOK
  <2>4. CASE Close \/ Stats \/ Deliver \/ SleepTick \/ IdleTick \/ UNCHANGED vars
    <3>1. UNCHANGED <<toServer, toClient>> /\ (buf' = buf \/ buf' = <<>>)
      BY <2>4 DEF Close, Stats, Deliver, SleepTick, IdleTick, netVars, vars
    <3> QED
      BY <2>1, <3>1
  <2> QED
    BY <2>2, <2>3, <2>4 DEF Network
<1> QED
  BY <1>4, <1>5, <1>8 DEF PacketInv

LEMMA PacketInvariant == Spec => []PacketInv
<1>1. SignalInv /\ PacketInv /\ SignalInv' /\ [Next]_vars => PacketInv'
  BY StampPacket, SendPacket, WakePacket, HandlerPacket, OtherPacket
  DEF Next, Client
<1> QED
  BY <1>1, InitPacket, SignalInvariant, PTL DEF Spec

\* pingrespcb.c: an answer is booked to a ping that was sent, at a time not
\* before it, also when packets are duplicated and overtake each other and when
\* the signal outlives the socket.
THEOREM AnswersCorrect == Spec => []AnswersFollowPings
<1>1. SignalInv /\ PacketInv => AnswersFollowPings
  <2> SUFFICES ASSUME SignalInv, PacketInv, NEW k \in Seqs, responded[k]
               PROVE  k <= i /\ Diff(k) >= 0
    BY DEF AnswersFollowPings
  <2>1. k \in Nat /\ i \in Nat /\ pingstart[k] \in Nat /\ pingend[k] \in Nat
    BY PingsAssumption DEF SignalInv, TypeOK, MainTypeOK, SharedTypeOK, Seqs
  <2>2. Started(k) /\ pingstart[k] <= pingend[k]
    BY DEF PacketInv, AnswerOK
  <2> QED
    BY <2>1, <2>2 DEF Started, Diff
<1> QED
  BY <1>1, SignalInvariant, PacketInvariant, PTL

\* inter_sleep.c: two pings are never closer than the gap, however many signals
\* interrupt the sleep between them.
THEOREM SpacingCorrect == Spec => []PingsSpaced
BY PacketInvariant, PTL DEF PacketInv
=============================================================================
