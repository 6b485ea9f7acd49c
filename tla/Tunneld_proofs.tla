--------------------------- MODULE Tunneld_proofs ---------------------------
(***************************************************************************)
(* Theorems about the load-balancing tunnel daemon, for every number of    *)
(* tunnelcli processes, sources, destinations, slots and packets.          *)
(***************************************************************************)
EXTENDS Tunneld, FiniteSetTheorems, WellFoundedInduction, TLAPS

-----------------------------------------------------------------------------
(* Type correctness                                                        *)

\* What TypeOK needs to be inductive: the hop being registered fits under the
\* bound, and the child that goes to the second half of an iteration of the
\* loop has a destination packet to read there.
StepInv ==
    /\ ppc = "count" => num_hops[slot] < MaxDests
    /\ \A s \in Slots :
         /\ cpc[s] = "dest" => sndq[s] > 0
         /\ cpc[s] = "send" /\ both[s] => sndq[s] > 0

TypeInv == TypeOK /\ StepInv

USE DEF TypeOK

LEMMA SlotsFacts ==
    /\ 0 \in Slots
    /\ 0 \in Hops
    /\ MaxDests \in Nat
    /\ Slots \subseteq Nat
    /\ Hops \subseteq Nat
  BY SessionsAssumption, BoundsAssumption DEF Slots, Hops

LEMMA InitTypeInv == Init => TypeInv
<1> SUFFICES ASSUME Init PROVE TypeInv
  OBVIOUS
<1>1. TableTypeOK
  BY SlotsFacts DEF Init, InitTable, TableTypeOK
<1>2. ProcessTypeOK
  BY SlotsFacts
  DEF Init, InitTable, InitParent, InitClients, InitChildren, ProcessTypeOK,
      CliStates, ChildStates
<1>3. NetworkTypeOK
  BY BoundsAssumption
  DEF Init, InitParent, InitNetwork, InitHistory, NetworkTypeOK
<1>4. StepInv
  BY DEF Init, InitParent, InitChildren, StepInv
<1> QED
  BY <1>1, <1>2, <1>3, <1>4 DEF TypeInv

LEMMA HandshakeCutType == TypeInv /\ HandshakeCut => TypeInv'
<1> SUFFICES ASSUME TypeInv, HandshakeCut PROVE TypeInv'
  OBVIOUS
<1> USE DEF HandshakeCut, routeVars, turnVars, childVars, netVars, outVars
<1>1. TableTypeOK'
  BY DEF TypeInv, TableTypeOK
<1>2. ProcessTypeOK'
  BY DEF TypeInv, ProcessTypeOK, CliStates
<1>3. NetworkTypeOK'
  BY DEF TypeInv, NetworkTypeOK
<1>4. StepInv'
  BY DEF TypeInv, StepInv, ProcessTypeOK, NetworkTypeOK
<1> QED
  BY <1>1, <1>2, <1>3, <1>4 DEF TypeInv

LEMMA TurnAwayType ==
    ASSUME NEW c \in Clients, TypeInv, backlog # <<>>, TurnAway(c)
    PROVE  TypeInv'
<1> USE DEF TurnAway, Answer, routeVars, turnVars, parentVars, childVars,
      netVars, outVars
<1>1. TableTypeOK'
  BY DEF TypeInv, TableTypeOK
<1>2. ProcessTypeOK'
  BY DEF TypeInv, ProcessTypeOK, CliStates
<1>3. NetworkTypeOK'
  BY DEF TypeInv, NetworkTypeOK
<1>4. StepInv'
  BY DEF TypeInv, StepInv, ProcessTypeOK, NetworkTypeOK
<1> QED
  BY <1>1, <1>2, <1>3, <1>4 DEF TypeInv

LEMMA HeadOfBacklog ==
    ASSUME TypeOK, backlog # <<>>
    PROVE  /\ Head(backlog) \in Clients
           /\ Tail(backlog) \in Seq(Clients)
           /\ request[Head(backlog)].kind = "good" =>
                request[Head(backlog)] \in GoodRequests
  BY DEF ProcessTypeOK, Requests, BadRequests, NoRequest

LEMMA RegisterType == TypeInv /\ Register => TypeInv'
<1> SUFFICES ASSUME TypeInv, Register PROVE TypeInv'
  OBVIOUS
<1> USE DEF Register, Accepts, turnVars, cliVars, childVars, netVars, outVars
<1> DEFINE c == Head(backlog)
<1>1. c \in Clients /\ Tail(backlog) \in Seq(Clients) /\ request[c] \in GoodRequests
  BY HeadOfBacklog DEF TypeInv
<1>2. PICK s \in Slots :
        /\ num_hops[s] < MaxDests
        /\ srcaddr' = [srcaddr EXCEPT ![s] = request[c].src]
        /\ dst' = [dst EXCEPT ![s] =
                     StoreHop(dst[s], num_hops[s], request[c].dst)]
        /\ conn' = c
        /\ slot' = s
  OBVIOUS
<1> HIDE DEF c
<1>3. TableTypeOK'
  <2>1. StoreHop(dst[s], num_hops[s], request[c].dst)
          \in [Hops -> Dests \cup {NoDst, BadDst}]
    BY <1>1 DEF StoreHop, TypeInv, TableTypeOK, GoodRequests
  <2>2. request[c].src \in Sources \cup {NoAddr}
    BY <1>1 DEF GoodRequests
  <2> QED
    BY <1>2, <2>1, <2>2 DEF TypeInv, TableTypeOK
<1>4. ProcessTypeOK'
  BY <1>1, <1>2 DEF TypeInv, ProcessTypeOK
<1>5. NetworkTypeOK'
  BY DEF TypeInv, NetworkTypeOK
<1>6. StepInv'
  BY <1>2 DEF TypeInv, StepInv, ProcessTypeOK, NetworkTypeOK
<1> QED
  BY <1>3, <1>4, <1>5, <1>6 DEF TypeInv

LEMMA AddHopType ==
    ASSUME TypeInv, AddHop
    PROVE  TypeInv'
<1> USE DEF AddHop, CountHop,
      routeVars, turnVars, parentVars, cliVars,
      childVars, netVars, outVars
<1>1. num_hops[slot] + 1 \in 0 .. MaxDests
  BY BoundsAssumption DEF TypeInv, StepInv, TableTypeOK, ProcessTypeOK
<1>2. slot \in Slots
  BY DEF TypeInv, ProcessTypeOK
<1>3. TableTypeOK'
  BY <1>1, <1>2 DEF TypeInv, TableTypeOK
<1>4. ProcessTypeOK'
  BY <1>1, <1>2 DEF TypeInv, ProcessTypeOK
<1>5. NetworkTypeOK'
  BY <1>1, <1>2 DEF TypeInv, NetworkTypeOK
<1>6. StepInv'
  BY <1>1, <1>2 DEF TypeInv, StepInv, ProcessTypeOK, NetworkTypeOK
<1> QED
  BY <1>3, <1>4, <1>5, <1>6 DEF TypeInv

LEMMA ReplyType ==
    ASSUME TypeInv, Reply
    PROVE  TypeInv'
<1> USE DEF Reply, Answer,
      routeVars, turnVars, parentVars, cliVars,
      childVars, netVars, outVars
<1>1. slot \in Slots /\ srcpt[slot] \in {NoPort} \cup Ports \cup SrcPorts
  BY DEF TypeInv, TableTypeOK, ProcessTypeOK
<1>2. TableTypeOK'
  BY <1>1 DEF TypeInv, TableTypeOK
<1>3. ProcessTypeOK'
  BY <1>1 DEF TypeInv, ProcessTypeOK, CliStates
<1>4. NetworkTypeOK'
  <2>1. rcvq' \in [Slots -> Seq(Packets)]
    BY DEF TypeInv, NetworkTypeOK
  <2>2. sendable' \in Nat
    BY DEF TypeInv, NetworkTypeOK
  <2> QED
    BY <2>1, <2>2 DEF TypeInv, NetworkTypeOK
<1>5. StepInv'
  BY <1>1 DEF TypeInv, StepInv, ProcessTypeOK, NetworkTypeOK
<1> QED
  BY <1>2, <1>3, <1>4, <1>5 DEF TypeInv

LEMMA ForkType ==
    ASSUME TypeInv, Fork
    PROVE  TypeInv'
<1> USE DEF Fork, CountHop,
      routeVars, turnVars, parentVars, cliVars,
      childVars, netVars, outVars
<1>1. num_hops[slot] + 1 \in 0 .. MaxDests
  BY BoundsAssumption DEF TypeInv, StepInv, TableTypeOK, ProcessTypeOK
<1>2. slot \in Slots
  BY DEF TypeInv, ProcessTypeOK
<1>3. TableTypeOK'
  BY <1>1, <1>2 DEF TypeInv, TableTypeOK
<1>4. ProcessTypeOK'
  BY <1>1, <1>2 DEF TypeInv, ProcessTypeOK, ChildStates
<1>5. NetworkTypeOK'
  BY <1>1, <1>2 DEF TypeInv, NetworkTypeOK
<1>6. StepInv'
  BY <1>1, <1>2 DEF TypeInv, StepInv, ProcessTypeOK, NetworkTypeOK
<1> QED
  BY <1>3, <1>4, <1>5, <1>6 DEF TypeInv

LEMMA ForkFailsType ==
    ASSUME TypeInv, ForkFails
    PROVE  TypeInv'
<1> USE DEF ForkFails, CountHop, Answer,
      routeVars, turnVars, parentVars, cliVars,
      childVars, netVars, outVars
<1>1. num_hops[slot] + 1 \in 0 .. MaxDests
  BY BoundsAssumption DEF TypeInv, StepInv, TableTypeOK, ProcessTypeOK
<1>2. slot \in Slots
  BY DEF TypeInv, ProcessTypeOK
<1>3. TableTypeOK'
  BY <1>1, <1>2 DEF TypeInv, TableTypeOK
<1>4. ProcessTypeOK'
  BY <1>1, <1>2 DEF TypeInv, ProcessTypeOK, CliStates
<1>5. NetworkTypeOK'
  BY <1>1, <1>2 DEF TypeInv, NetworkTypeOK
<1>6. StepInv'
  BY <1>1, <1>2 DEF TypeInv, StepInv, ProcessTypeOK, NetworkTypeOK
<1> QED
  BY <1>3, <1>4, <1>5, <1>6 DEF TypeInv

LEMMA BindType ==
    ASSUME TypeInv, NEW s \in Slots, Bind(s)
    PROVE  TypeInv'
<1> USE DEF Bind, Answer,
      routeVars, turnVars, parentVars, cliVars,
      childVars, netVars, outVars
<1>1. TableTypeOK'
  <2>1. SESSIONS \in Hops /\ EgressPort \in Nat
    BY SessionsAssumption DEF Hops, EgressPort
  <2>2. stats' \in [Slots -> [Hops -> Nat]]
    BY <2>1 DEF TypeInv, TableTypeOK
  <2> QED
    BY <2>2 DEF TypeInv, TableTypeOK
<1>2. ProcessTypeOK'
  <2>1. PICK p \in Ports : /\ port' = [port EXCEPT ![s] = p]
                           /\ cstate' = [cstate EXCEPT ![client[s]] = "done"]
                           /\ printed' = [printed EXCEPT ![client[s]] = p]
    OBVIOUS
  <2>2. cstate' \in [Clients -> CliStates]
    BY <2>1 DEF TypeInv, ProcessTypeOK, CliStates
  <2>3. printed' \in [Clients -> {NoPort} \cup Ports \cup SrcPorts]
    BY <2>1 DEF TypeInv, ProcessTypeOK
  <2>4. port' \in [Slots -> {NoPort} \cup Ports]
    BY <2>1 DEF TypeInv, ProcessTypeOK
  <2>5. cpc' \in [Slots -> ChildStates]
    BY DEF TypeInv, ProcessTypeOK, ChildStates
  <2>6. QED
    BY <2>2, <2>3, <2>4, <2>5 DEF TypeInv, ProcessTypeOK
<1>3. NetworkTypeOK'
  BY DEF TypeInv, NetworkTypeOK
<1>4. StepInv'
  BY DEF TypeInv, StepInv, ProcessTypeOK, NetworkTypeOK
<1> QED
  BY <1>1, <1>2, <1>3, <1>4 DEF TypeInv

LEMMA RecvSourceType ==
    ASSUME TypeInv, NEW s \in Slots, RecvSource(s)
    PROVE  TypeInv'
<1> USE DEF RecvSource,
      routeVars, turnVars, parentVars, cliVars,
      childVars, netVars, outVars
<1>1. Head(rcvq[s]) \in Packets /\ Tail(rcvq[s]) \in Seq(Packets)
  BY DEF TypeInv, NetworkTypeOK
<1>2. Head(rcvq[s]).pt \in SrcPorts
  BY <1>1 DEF Packets
<1>3. HopOf(s) \in Hops
  BY SlotsFacts DEF HopOf, TypeInv, TableTypeOK
<1>4. TableTypeOK'
  BY <1>1, <1>2, <1>3 DEF TypeInv, TableTypeOK
<1>5. ProcessTypeOK'
  <2>1. both' \in [Slots -> BOOLEAN]
    <3>1. both \in [Slots -> BOOLEAN]
      BY DEF TypeInv, ProcessTypeOK
    <3>2. \/ both' = [both EXCEPT ![s] = sndq[s] > 0]
          \/ both' = both
      OBVIOUS
    <3>3. (sndq[s] > 0) \in BOOLEAN
      OBVIOUS
    <3> QED
      BY <3>1, <3>2, <3>3, Zenon
  <2>2. cpc' \in [Slots -> ChildStates]
    BY DEF TypeInv, ProcessTypeOK, ChildStates
  <2>3. pkt' \in [Slots -> Packets \cup {NoPacket}]
    BY <1>1 DEF TypeInv, ProcessTypeOK
  <2>4. hop' \in [Slots -> Hops]
    BY <1>3 DEF TypeInv, ProcessTypeOK
  <2>5. first_packet_sent' \in [Slots -> BOOLEAN]
    BY DEF TypeInv, ProcessTypeOK
  <2> QED
    BY <2>1, <2>2, <2>3, <2>4, <2>5 DEF TypeInv, ProcessTypeOK
<1>6. NetworkTypeOK'
  BY <1>1, <1>2, <1>3 DEF TypeInv, NetworkTypeOK
<1>7. StepInv'
  BY <1>1, <1>2, <1>3 DEF TypeInv, StepInv, ProcessTypeOK, NetworkTypeOK
<1> QED
  BY <1>4, <1>5, <1>6, <1>7 DEF TypeInv

\* One packet more from a to d.
LEMMA OneMore ==
    ASSUME NEW f \in [Sources -> [Dests \cup {BadDst} -> Nat]], NEW a, NEW d
    PROVE  [f EXCEPT ![a][d] = @ + 1] \in [Sources -> [Dests \cup {BadDst} -> Nat]]
<1>1. [f EXCEPT ![a][d] = @ + 1]
        = [f EXCEPT ![a] = [f[a] EXCEPT ![d] = f[a][d] + 1]]
  BY Zenon
<1>2. ASSUME a \in Sources
      PROVE  [f[a] EXCEPT ![d] = f[a][d] + 1] \in [Dests \cup {BadDst} -> Nat]
  <2> DEFINE g == f[a]
  <2>1. g \in [Dests \cup {BadDst} -> Nat]
    BY <1>2
  <2> HIDE DEF g
  <2>2. [g EXCEPT ![d] = g[d] + 1] \in [Dests \cup {BadDst} -> Nat]
    <3>1. CASE d \in Dests \cup {BadDst}
      BY <2>1, <3>1
    <3>2. CASE d \notin Dests \cup {BadDst}
      BY <2>1, <3>2
    <3> QED
      BY <3>1, <3>2
  <2> QED
    BY <2>2 DEF g
<1>3. CASE a \in Sources
  BY <1>1, <1>2, <1>3
<1>4. CASE a \notin Sources
  BY <1>1, <1>4
<1> QED
  BY <1>3, <1>4

LEMMA ForwardType ==
    ASSUME TypeInv, NEW s \in Slots, Forward(s)
    PROVE  TypeInv'
<1> USE DEF Forward,
      routeVars, turnVars, parentVars, cliVars,
      childVars, netVars, outVars
<1>1. hop[s] \in Hops
  BY DEF TypeInv, ProcessTypeOK
<1>2. CountAfter(s) \in Nat
  BY DEF CountAfter, TypeInv, TableTypeOK
<1>3. BurstDone(s) => NextCurr(s) \in Hops
  BY BoundsAssumption, SessionsAssumption DEF BurstDone, NextCurr, Hops, TypeInv, TableTypeOK
<1>4. TableTypeOK'
  BY <1>1, <1>2, <1>3 DEF TypeInv, TableTypeOK
<1>5. ProcessTypeOK'
  BY <1>1, <1>2, <1>3 DEF TypeInv, ProcessTypeOK, ChildStates
<1>6. NetworkTypeOK'
  <2>1. /\ sent' \in [Sources -> [Dests \cup {BadDst} -> Nat]]
        /\ delivered' \in [Sources -> [Dests \cup {BadDst} -> Nat]]
    <3>1. /\ sent \in [Sources -> [Dests \cup {BadDst} -> Nat]]
          /\ delivered \in [Sources -> [Dests \cup {BadDst} -> Nat]]
      BY DEF TypeInv, NetworkTypeOK
    <3> DEFINE a == pkt[s].addr
               d == dst[s][hop[s]]
    <3>2. /\ sent' = [sent EXCEPT ![a][d] = @ + 1]
          /\ \/ delivered' = [delivered EXCEPT ![a][d] = @ + 1]
             \/ delivered' = delivered
      BY Zenon
    <3> HIDE DEF a, d
    <3>3. sent' \in [Sources -> [Dests \cup {BadDst} -> Nat]]
      BY ONLY <3>1, <3>2, OneMore, Zenon
    <3>4. delivered' \in [Sources -> [Dests \cup {BadDst} -> Nat]]
      <4>1. CASE delivered' = [delivered EXCEPT ![a][d] = @ + 1]
        BY ONLY <3>1, <4>1, OneMore, Zenon
      <4> QED
        BY ONLY <3>1, <3>2, <4>1
    <3> QED
      BY <3>3, <3>4
  <2>2. streak' \in [Slots -> Nat]
    BY DEF TypeInv, NetworkTypeOK
  <2> QED
    BY <2>1, <2>2 DEF TypeInv, NetworkTypeOK
<1>7. StepInv'
  BY <1>1, <1>2, <1>3 DEF TypeInv, StepInv, ProcessTypeOK, NetworkTypeOK
<1> QED
  BY <1>4, <1>5, <1>6, <1>7 DEF TypeInv

LEMMA RecvDestType ==
    ASSUME TypeInv, NEW s \in Slots, RecvDest(s)
    PROVE  TypeInv'
<1> USE DEF RecvDest,
      routeVars, turnVars, parentVars, cliVars,
      childVars, netVars, outVars
<1>1. sndq[s] > 0 /\ sndq[s] - 1 \in Nat
  BY DEF TypeInv, StepInv, NetworkTypeOK
<1>2. srcpt[s] \in {NoPort} \cup Ports \cup SrcPorts
  BY DEF TypeInv, TableTypeOK
<1>3. TableTypeOK'
  BY <1>1, <1>2 DEF TypeInv, TableTypeOK
<1>4. ProcessTypeOK'
  BY <1>1, <1>2 DEF TypeInv, ProcessTypeOK, ChildStates
<1>5. NetworkTypeOK'
  <2>1. bounced' \in [Slots -> SUBSET Bounces]
    <3>1. srcaddr[s] \in Sources \cup {NoAddr} /\ pkt[s] \in Packets \cup {NoPacket}
      BY DEF TypeInv, TableTypeOK, ProcessTypeOK
    <3>2. [to |-> [addr |-> srcaddr[s], pt |-> srcpt[s]], last |-> pkt[s]] \in Bounces
      BY <1>2, <3>1 DEF Bounces
    <3> QED
      BY <3>2 DEF TypeInv, NetworkTypeOK
  <2>2. sndq' \in [Slots -> Nat]
    BY <1>1 DEF TypeInv, NetworkTypeOK
  <2> QED
    BY <2>1, <2>2 DEF TypeInv, NetworkTypeOK
<1>6. StepInv'
  BY <1>1, <1>2 DEF TypeInv, StepInv, ProcessTypeOK, NetworkTypeOK
<1> QED
  BY <1>3, <1>4, <1>5, <1>6 DEF TypeInv

LEMMA TimeoutType ==
    ASSUME TypeInv, NEW s \in Slots, Timeout(s)
    PROVE  TypeInv'
<1> USE DEF Timeout,
      routeVars, turnVars, parentVars, cliVars,
      childVars, netVars, outVars
<1>1. TableTypeOK'
  BY DEF TypeInv, TableTypeOK
<1>2. ProcessTypeOK'
  BY DEF TypeInv, ProcessTypeOK, ChildStates
<1>3. NetworkTypeOK'
  BY DEF TypeInv, NetworkTypeOK
<1>4. StepInv'
  BY DEF TypeInv, StepInv, ProcessTypeOK, NetworkTypeOK
<1> QED
  BY <1>1, <1>2, <1>3, <1>4 DEF TypeInv

LEMMA ConnectType ==
    ASSUME TypeInv, NEW c \in Clients, NEW r \in Requests, Connect(c, r)
    PROVE  TypeInv'
<1> USE DEF Connect,
      routeVars, turnVars, parentVars, cliVars,
      childVars, netVars, outVars
<1>1. TableTypeOK'
  BY DEF TypeInv, TableTypeOK
<1>2. ProcessTypeOK'
  BY DEF TypeInv, ProcessTypeOK, CliStates
<1>3. NetworkTypeOK'
  BY DEF TypeInv, NetworkTypeOK
<1>4. StepInv'
  BY DEF TypeInv, StepInv, ProcessTypeOK, NetworkTypeOK
<1> QED
  BY <1>1, <1>2, <1>3, <1>4 DEF TypeInv

LEMMA SourceSendType ==
    ASSUME TypeInv, NEW s \in Slots, NEW p \in Packets, SourceSend(s, p)
    PROVE  TypeInv'
<1> USE DEF SourceSend,
      routeVars, turnVars, parentVars, cliVars,
      childVars, netVars, outVars
<1>1. p.pt \in SrcPorts
  BY DEF Packets
<1>2. TableTypeOK'
  BY <1>1 DEF TypeInv, TableTypeOK
<1>3. ProcessTypeOK'
  BY <1>1 DEF TypeInv, ProcessTypeOK
<1>4. NetworkTypeOK'
  <2>1. rcvq' \in [Slots -> Seq(Packets)]
    BY DEF TypeInv, NetworkTypeOK
  <2>2. sendable' \in Nat
    BY DEF TypeInv, NetworkTypeOK
  <2> QED
    BY <2>1, <2>2 DEF TypeInv, NetworkTypeOK
<1>5. StepInv'
  BY <1>1 DEF TypeInv, StepInv, ProcessTypeOK, NetworkTypeOK
<1> QED
  BY <1>2, <1>3, <1>4, <1>5 DEF TypeInv

LEMMA DestSendType ==
    ASSUME TypeInv, NEW s \in Slots, DestSend(s)
    PROVE  TypeInv'
<1> USE DEF DestSend,
      routeVars, turnVars, parentVars, cliVars,
      childVars, netVars, outVars
<1>1. TableTypeOK'
  BY DEF TypeInv, TableTypeOK
<1>2. ProcessTypeOK'
  BY DEF TypeInv, ProcessTypeOK
<1>3. NetworkTypeOK'
  <2>1. sndq' \in [Slots -> Nat] /\ repliable' \in Nat
    BY DEF TypeInv, NetworkTypeOK
  <2> QED
    BY <2>1 DEF TypeInv, NetworkTypeOK
<1>4. StepInv'
  BY DEF TypeInv, StepInv, ProcessTypeOK, NetworkTypeOK
<1> QED
  BY <1>1, <1>2, <1>3, <1>4 DEF TypeInv

LEMMA NextTypeInv == TypeInv /\ [Next]_vars => TypeInv'
<1> SUFFICES ASSUME TypeInv, [Next]_vars PROVE TypeInv'
  OBVIOUS
<1>1. CASE Parent
  <2>1. CASE HandshakeCut
    BY <2>1, HandshakeCutType
  <2>2. CASE Refuse \/ TableFull
    BY <2>2, HeadOfBacklog, TurnAwayType DEF Refuse, TableFull, Accepts, TypeInv
  <2>3. CASE Register
    BY <2>3, RegisterType
  <2>4. CASE AddHop \/ Reply
    BY <2>4, AddHopType, ReplyType
  <2>5. CASE Fork \/ ForkFails
    BY <2>5, ForkType, ForkFailsType
  <2> QED
    BY <1>1, <2>1, <2>2, <2>3, <2>4, <2>5 DEF Parent
<1>2. ASSUME NEW s \in Slots, Child(s) PROVE TypeInv'
  BY <1>2, BindType, RecvSourceType, ForwardType, RecvDestType, TimeoutType
  DEF Child
<1>3. CASE Environment
  BY <1>3, ConnectType, SourceSendType, DestSendType DEF Environment
<1>4. CASE UNCHANGED vars
  <2> USE <1>4 DEF vars, routeVars, turnVars, parentVars, cliVars, childVars,
        netVars, outVars
  <2>1. TableTypeOK'
    BY DEF TypeInv, TableTypeOK
  <2>2. ProcessTypeOK'
    BY DEF TypeInv, ProcessTypeOK
  <2>3. NetworkTypeOK'
    BY DEF TypeInv, NetworkTypeOK
  <2>4. StepInv'
    BY DEF TypeInv, StepInv
  <2> QED
    BY <2>1, <2>2, <2>3, <2>4 DEF TypeInv
<1> QED
  BY <1>1, <1>2, <1>3, <1>4 DEF Next

LEMMA TypeInvariant == Spec => []TypeInv
  BY InitTypeInv, NextTypeInv, PTL DEF Spec

\* Every variable keeps the values its C type and the control flow allow.
THEOREM TypeCorrect == Spec => []TypeOK
<1>1. TypeInv => TypeOK
  BY DEF TypeInv
<1> QED
  BY <1>1, TypeInvariant, PTL
-----------------------------------------------------------------------------
(* The slot table                                                          *)

\* Only Register writes a source address, and the parent's counter.
LEMMA WhoWritesSrcaddr ==
    ASSUME [Next]_vars
    PROVE  Register \/ UNCHANGED srcaddr
  BY DEF Next, Parent, Child, Environment, HandshakeCut, Refuse, TableFull,
      TurnAway, AddHop, Reply, Fork, ForkFails, CountHop, Bind, RecvSource,
      Forward, RecvDest, Timeout, Connect, SourceSend, DestSend, routeVars, vars

LEMMA RegisterOneSlot ==
    ASSUME TypeOK, OneSlotPerSource, Register
    PROVE  OneSlotPerSource'
<1> DEFINE c == Head(backlog)
<1>1. request[c].src \in Sources \cup {NoAddr}
  BY HeadOfBacklog DEF Register, Accepts, GoodRequests
<1>2. PICK s \in Slots :
        /\ FirstMatch(s, request[c].src)
        /\ srcaddr' = [srcaddr EXCEPT ![s] = request[c].src]
  BY DEF Register
<1>3. srcaddr \in [Slots -> Sources \cup {NoAddr}]
  BY DEF TableTypeOK
<1> HIDE DEF c
<1>4. \A t \in Slots : t # s => srcaddr'[t] = srcaddr[t]
  BY <1>2, <1>3
<1>5. srcaddr'[s] = request[c].src
  BY <1>2, <1>3
<1>6. CASE request[c].src = NoAddr
  <2>1. srcaddr[s] = NoAddr
    BY <1>2, <1>6 DEF FirstMatch, Matches
  <2>2. \A t \in Slots : srcaddr'[t] = srcaddr[t]
    BY <1>4, <1>5, <1>6, <2>1
  <2> QED
    BY <2>2 DEF OneSlotPerSource
<1>7. CASE request[c].src # NoAddr
  <2>1. \A t \in Slots : t < s => srcaddr[t] # NoAddr /\ srcaddr[t] # request[c].src
    BY <1>2 DEF FirstMatch, Matches
  <2>2. \A t \in Slots : s < t => srcaddr[t] # request[c].src
    <3> SUFFICES ASSUME NEW t \in Slots, s < t, srcaddr[t] = request[c].src
                 PROVE  FALSE
      OBVIOUS
    <3>1. srcaddr[s] # NoAddr
      BY <1>7 DEF OneSlotPerSource
    <3>2. srcaddr[s] = request[c].src
      BY <1>2, <3>1 DEF FirstMatch, Matches
    <3> QED
      BY <1>7, <3>2, SlotsFacts DEF OneSlotPerSource
  <2>3. \A t \in Slots : t = s \/ t < s \/ s < t
    BY SlotsFacts
  <2> QED
    BY <1>4, <1>5, <1>7, <2>1, <2>2, <2>3 DEF OneSlotPerSource
<1> QED
  BY <1>6, <1>7

\* The table never holds a source twice, and never has a hole: the search at
\* registration and the store keep it so whatever order requests arrive in.
THEOREM TableCorrect == Spec => []OneSlotPerSource
<1>1. Init => OneSlotPerSource
  BY DEF Init, InitTable, OneSlotPerSource
<1>2. TypeOK /\ OneSlotPerSource /\ [Next]_vars => OneSlotPerSource'
  <2> SUFFICES ASSUME TypeOK, OneSlotPerSource, [Next]_vars
               PROVE  OneSlotPerSource'
    OBVIOUS
  <2>1. CASE Register
    BY <2>1, RegisterOneSlot
  <2>2. CASE UNCHANGED srcaddr
    BY <2>2 DEF OneSlotPerSource
  <2> QED
    BY <2>1, <2>2, WhoWritesSrcaddr
<1> QED
  BY <1>1, <1>2, TypeCorrect, PTL DEF Spec

-----------------------------------------------------------------------------
(* The rotation                                                            *)

\* The part of a slot that the rotation reads and writes.
Turn(s) == <<num_hops[s], curr[s], pcount[s], stats[s], streak[s], cpc[s],
             hop[s], first_packet_sent[s], late[s], overrun[s]>>

\* Nothing has been counted before the first packet (past the arrays egresspt
\* is read for a count).
FreshInv(s) ==
    ~first_packet_sent[s] =>
      /\ curr[s] = 0 /\ pcount[s] = 0
      /\ \A h \in Hops \ {SESSIONS} : stats[s][h] = 0
      /\ cpc[s] \notin {"send", "dest"}

\* curr stays among the registered hops, the packet in flight goes to it, and
\* it is 0 as long as there is one hop.
CurrInv(s) ==
    /\ num_hops[s] = 0 => curr[s] = 0 /\ cpc[s] = "none"
    /\ num_hops[s] > 0 => curr[s] < num_hops[s]
    /\ cpc[s] = "send" => hop[s] = curr[s]

\* pcount stays below the rotation point once there are hops to rotate over,
\* unless it was past that point already: the test is for equality.
BurstInv(s) ==
    /\ num_hops[s] <= 1 => streak[s] = 0
    /\ num_hops[s] > 1 /\ ~overrun[s] =>
         pcount[s] < NUM_PACKS /\ streak[s] <= pcount[s]
    /\ overrun[s] => late[s]

BalancedAt(s, round) ==
    \A h \in 0 .. (num_hops[s] - 1) : stats[s][h] = NUM_PACKS * round + Share(s, h)

BalanceInv(s) ==
    num_hops[s] \in 2 .. SESSIONS /\ ~late[s] =>
      \E round \in Nat : BalancedAt(s, round)

TurnInv(s) == FreshInv(s) /\ CurrInv(s) /\ BurstInv(s) /\ BalanceInv(s)

LEMMA TurnFrame ==
    ASSUME NEW s \in Slots, TurnInv(s), Turn(s)' = Turn(s)
    PROVE  TurnInv(s)'
  BY DEF Turn, TurnInv, FreshInv, CurrInv, BurstInv, BalanceInv, BalancedAt, Share
\* The steps that touch no part of any turn.
LEMMA QuietSteps ==
    ASSUME HandshakeCut \/ Refuse \/ TableFull \/ Register \/ Reply \/
             Environment \/ UNCHANGED vars,
           NEW s \in Slots
    PROVE  Turn(s)' = Turn(s)
<1>1. UNCHANGED <<num_hops, late, overrun, turnVars, childVars>>
  BY DEF HandshakeCut, Refuse, TableFull, TurnAway, Register, Reply, Environment,
      Connect, SourceSend, DestSend, vars, routeVars
<1> QED
  BY <1>1 DEF Turn, turnVars, childVars

\* A published hop: the slot's other counters stay, and those of other slots.
LEMMA CountHopTurn ==
    ASSUME TypeInv, ppc = "count", AddHop \/ Fork \/ ForkFails,
           NEW s \in Slots, TurnInv(s)
    PROVE  TurnInv(s)'
<1>1. slot \in Slots
  BY DEF TypeInv, ProcessTypeOK
<1>2. UNCHANGED <<turnVars, hop, first_packet_sent>> /\ CountHop
  BY DEF AddHop, Fork, ForkFails, childVars
<1>3. \/ cpc' = cpc
      \/ num_hops[slot] = 0 /\ cpc' = [cpc EXCEPT ![slot] = "bind"]
  BY DEF AddHop, Fork, ForkFails, childVars
<1> USE DEF turnVars
<1>4. CASE s # slot
  <2>1. Turn(s)' = Turn(s)
    BY <1>1, <1>2, <1>3, <1>4 DEF CountHop, Turn, TypeInv, TableTypeOK,
        ProcessTypeOK, NetworkTypeOK
  <2> QED
    BY <2>1, TurnFrame
<1>5. CASE s = slot
  <2> DEFINE n == num_hops[s]
  <2>1. n \in Nat /\ num_hops'[s] = n + 1
    BY <1>2, <1>5, BoundsAssumption DEF CountHop, TypeInv, TableTypeOK
  <2>2. /\ late'[s] <=> (late[s] \/ first_packet_sent[s])
        /\ overrun'[s] <=> (overrun[s] \/ (n = 1 /\ pcount[s] >= NUM_PACKS))
    BY <1>2, <1>5, Zenon DEF CountHop, TypeInv, NetworkTypeOK
  <2>3. /\ cpc'[s] = cpc[s] \/ (n = 0 /\ cpc'[s] = "bind")
        /\ pcount[s] \in Nat /\ streak[s] \in Nat /\ curr[s] \in Nat
        /\ stats[s] \in [Hops -> Nat]
    BY <1>3, <1>5, SlotsFacts
    DEF TypeInv, TableTypeOK, ProcessTypeOK, NetworkTypeOK
  <2> HIDE DEF n
  <2>4. FreshInv(s)'
    BY <1>2, <2>3 DEF TurnInv, FreshInv
  <2>5. CurrInv(s)'
    BY <1>2, <2>1, <2>3 DEF TurnInv, CurrInv, n
  <2>6. BurstInv(s)'
    <3>1. num_hops'[s] <= 1 => streak'[s] = 0
      BY <1>2, <2>1 DEF TurnInv, BurstInv, n
    <3>2. num_hops'[s] > 1 /\ ~overrun'[s] =>
            pcount'[s] < NUM_PACKS /\ streak'[s] <= pcount'[s]
      <4>1. CASE n = 1
        BY <1>2, <2>1, <2>2, <2>3, <4>1, NumPacksAssumption
        DEF TurnInv, BurstInv, n
      <4>2. CASE n # 1
        BY <1>2, <2>1, <2>2, <2>3, <4>2 DEF TurnInv, BurstInv, n
      <4> QED
        BY <4>1, <4>2
    <3>3. overrun'[s] => late'[s]
      BY <2>2, <2>3, <1>2, NumPacksAssumption DEF TurnInv, BurstInv, FreshInv
    <3> QED
      BY <3>1, <3>2, <3>3 DEF BurstInv
  <2>7. BalanceInv(s)'
    <3> SUFFICES ASSUME num_hops'[s] \in 2 .. SESSIONS, ~late'[s]
                 PROVE  \E round \in Nat : BalancedAt(s, round)'
      BY DEF BalanceInv
    <3>1. ~first_packet_sent[s]
      BY <2>2
    <3>2. /\ curr[s] = 0 /\ pcount[s] = 0
          /\ \A h \in Hops \ {SESSIONS} : stats[s][h] = 0
      BY <3>1 DEF TurnInv, FreshInv
    <3>3. n + 1 <= SESSIONS
      BY <2>1
    <3>4. 0 .. n \subseteq Hops \ {SESSIONS}
      BY <3>3, <2>1, SessionsAssumption DEF Hops
    <3>5. BalancedAt(s, 0)'
      BY <1>2, <2>1, <3>2, <3>4, NumPacksAssumption DEF BalancedAt, Share
    <3> QED
      BY <3>5
  <2> QED
    BY <2>4, <2>5, <2>6, <2>7 DEF TurnInv
<1> QED
  BY <1>4, <1>5
\* The child of a slot leaves the turns of the other slots alone.
LEMMA OtherTurns ==
    ASSUME TypeOK, NEW s \in Slots, Child(s), NEW t \in Slots, t # s
    PROVE  Turn(t)' = Turn(t)
<1> USE DEF TableTypeOK, ProcessTypeOK, NetworkTypeOK, Turn, turnVars
<1>1. CASE Bind(s)
  BY <1>1 DEF Bind, routeVars
<1>2. CASE RecvSource(s)
  BY <1>2 DEF RecvSource, routeVars
<1>3. CASE Forward(s)
  <2>1. UNCHANGED <<routeVars, first_packet_sent, hop>>
    BY <1>3 DEF Forward
  <2>2. stats'[t] = stats[t] /\ pcount'[t] = pcount[t]
    BY <1>3 DEF Forward
  <2>3. curr'[t] = curr[t] /\ streak'[t] = streak[t]
    BY <1>3 DEF Forward
  <2>4. cpc'[t] = cpc[t] /\ both'[t] = both[t]
    BY <1>3 DEF Forward
  <2> QED
    BY <2>1, <2>2, <2>3, <2>4 DEF routeVars
<1>4. CASE RecvDest(s)
  BY <1>4 DEF RecvDest, routeVars
<1>5. CASE Timeout(s)
  BY <1>5 DEF Timeout, routeVars
<1> QED
  BY <1>1, <1>2, <1>3, <1>4, <1>5 DEF Child

LEMMA BindTurn ==
    ASSUME TypeOK, NEW s \in Slots, Bind(s), TurnInv(s)
    PROVE  TurnInv(s)'
<1>1. cpc[s] = "bind" /\ cpc'[s] = "select"
  BY DEF Bind, ProcessTypeOK
<1>2. UNCHANGED <<num_hops, late, overrun, curr, pcount, streak, hop,
                  first_packet_sent>>
  BY DEF Bind, routeVars
<1>3. \A h \in Hops \ {SESSIONS} : stats'[s][h] = stats[s][h]
  BY DEF Bind, TableTypeOK
<1>4. FreshInv(s)' /\ CurrInv(s)' /\ BurstInv(s)'
  BY <1>1, <1>2, <1>3 DEF TurnInv, FreshInv, CurrInv, BurstInv
<1>5. BalanceInv(s)'
  <2> SUFFICES ASSUME num_hops[s] \in 2 .. SESSIONS, ~late[s]
               PROVE  \E round \in Nat : BalancedAt(s, round)'
    BY <1>2 DEF BalanceInv
  <2>1. PICK round \in Nat : BalancedAt(s, round)
    BY DEF TurnInv, BalanceInv
  <2>2. \A h \in 0 .. (num_hops[s] - 1) : h \in Hops \ {SESSIONS}
    BY SessionsAssumption DEF Hops
  <2>3. BalancedAt(s, round)'
    BY <1>2, <1>3, <2>1, <2>2 DEF BalancedAt, Share
  <2> QED
    BY <2>3
<1> QED
  BY <1>4, <1>5 DEF TurnInv

\* RecvDest and Timeout move a child with a session past its first packet.
LEMMA LaterTurn ==
    ASSUME TypeOK, NEW s \in Slots, RecvDest(s) \/ Timeout(s), TurnInv(s)
    PROVE  TurnInv(s)'
<1>1. cpc[s] \in {"select", "dest"} /\ cpc'[s] \in {"select", "exited"}
  BY DEF RecvDest, Timeout, ProcessTypeOK
<1>2. UNCHANGED <<num_hops, late, overrun, turnVars, hop>>
  BY DEF RecvDest, Timeout, routeVars
<1>3. first_packet_sent'[s]
  BY DEF RecvDest, Timeout, TimeoutArmed, ProcessTypeOK
<1> QED
  BY <1>1, <1>2, <1>3
  DEF TurnInv, FreshInv, CurrInv, BurstInv, BalanceInv, BalancedAt, Share, turnVars

LEMMA CounterTypes ==
    ASSUME TypeOK, NEW s \in Slots
    PROVE  /\ num_hops[s] \in Nat /\ num_hops[s] <= SESSIONS + 1
           /\ curr[s] \in Nat /\ pcount[s] \in Nat /\ streak[s] \in Nat
           /\ stats[s] \in [Hops -> Nat] /\ hop[s] \in Hops
<1>1. num_hops[s] \in 0 .. MaxDests
  BY DEF TableTypeOK
<1>2. num_hops[s] \in Nat /\ num_hops[s] <= SESSIONS + 1
  BY <1>1, BoundsAssumption, SessionsAssumption
<1>3. curr[s] \in Hops
  BY DEF TableTypeOK
<1>4. curr[s] \in Nat
  BY <1>3, SlotsFacts
<1>5. /\ pcount[s] \in Nat /\ streak[s] \in Nat
      /\ stats[s] \in [Hops -> Nat] /\ hop[s] \in Hops
  BY DEF TableTypeOK, ProcessTypeOK, NetworkTypeOK
<1> QED
  BY <1>2, <1>4, <1>5

LEMMA RecvSourceTurn ==
    ASSUME TypeOK, NEW s \in Slots, RecvSource(s), TurnInv(s)
    PROVE  TurnInv(s)'
<1>1. cpc[s] = "select" /\ first_packet_sent'[s]
  BY DEF RecvSource, ProcessTypeOK
<1>2. UNCHANGED <<num_hops, late, overrun, turnVars>>
  BY DEF RecvSource, routeVars
<1>3. \/ cpc'[s] = "send" /\ hop'[s] = HopOf(s)
      \/ cpc'[s] = "select"
  BY DEF RecvSource, ProcessTypeOK
<1>4. num_hops[s] \in Nat /\ curr[s] \in Nat
  BY CounterTypes
<1>5. num_hops[s] > 0
  BY <1>1, <1>4 DEF TurnInv, CurrInv
<1>6. HopOf(s) = curr[s]
  BY <1>4, <1>5 DEF HopOf, TurnInv, CurrInv
<1>7. CurrInv(s)'
  BY <1>2, <1>3, <1>5, <1>6 DEF TurnInv, CurrInv, turnVars
<1> QED
  BY <1>1, <1>2, <1>7
  DEF TurnInv, FreshInv, BurstInv, BalanceInv, BalancedAt, Share, turnVars

\* The next index of the rotation.
LEMMA NextIndex ==
    ASSUME NEW n \in Nat, n > 0, NEW i \in Nat, i < n
    PROVE  /\ (i + 1) % n \in 0 .. (n - 1)
           /\ i + 1 < n => (i + 1) % n = i + 1
           /\ i + 1 = n => (i + 1) % n = 0
  OBVIOUS

LEMMA ForwardTurn ==
    ASSUME TypeOK, NEW s \in Slots, Forward(s), TurnInv(s)
    PROVE  TurnInv(s)'
<1> DEFINE n == num_hops[s]
           c == curr[s]
           k == pcount[s]
<1>1. /\ n \in Nat /\ c \in Nat /\ k \in Nat /\ streak[s] \in Nat
      /\ stats[s] \in [Hops -> Nat] /\ hop[s] \in Hops
      /\ n <= SESSIONS + 1
  BY CounterTypes
<1>2. cpc[s] = "send" /\ hop[s] = c /\ n > 0 /\ c < n /\ first_packet_sent[s]
  BY <1>1 DEF Forward, TurnInv, CurrInv, FreshInv
<1>3. UNCHANGED <<num_hops, late, overrun, hop, first_packet_sent>>
  BY DEF Forward, routeVars
<1>4. cpc'[s] \in {"dest", "select"}
  BY DEF Forward, ProcessTypeOK
<1>5. /\ stats'[s] = [stats[s] EXCEPT ![c] = stats[s][c] + 1]
      /\ pcount'[s] = CountAfter(s)
      /\ curr'[s] = IF BurstDone(s) THEN NextCurr(s) ELSE c
      /\ streak'[s] = IF n > 1 /\ ~BurstDone(s) THEN streak[s] + 1 ELSE 0
  BY <1>2 DEF Forward, TableTypeOK, NetworkTypeOK
<1>6. BurstDone(s) <=> n > 1 /\ k + 1 = NUM_PACKS
  BY DEF BurstDone
<1>7. NextCurr(s) = (c + 1) % n
  BY DEF NextCurr
<1>8. CountAfter(s) = IF BurstDone(s) THEN 0 ELSE k + 1
  BY DEF CountAfter
<1>9. FreshInv(s)'
  BY <1>2, <1>3 DEF FreshInv
<1>10. CurrInv(s)'
  BY <1>1, <1>2, <1>3, <1>4, <1>5, <1>7, NextIndex DEF CurrInv
<1>11. BurstInv(s)'
  <2>1. n <= 1 => streak'[s] = 0
    BY <1>1, <1>5
  <2>2. ASSUME n > 1, ~overrun[s]
        PROVE  pcount'[s] < NUM_PACKS /\ streak'[s] <= pcount'[s]
    <3>1. k < NUM_PACKS /\ streak[s] <= k
      BY <2>2 DEF TurnInv, BurstInv
    <3> QED
      BY <1>1, <1>5, <1>6, <1>8, <2>2, <3>1, NumPacksAssumption
  <2> QED
    BY <1>3, <2>1, <2>2 DEF TurnInv, BurstInv
<1>12. BalanceInv(s)'
  <2> SUFFICES ASSUME n \in 2 .. SESSIONS, ~late[s]
               PROVE  \E round \in Nat : BalancedAt(s, round)'
    BY <1>3 DEF BalanceInv
  <2>1. n > 1 /\ k < NUM_PACKS
    BY <1>1 DEF TurnInv, BurstInv
  <2>2. PICK round \in Nat : BalancedAt(s, round)
    BY DEF TurnInv, BalanceInv
  <2> DEFINE total == NUM_PACKS * round
  <2>3. total \in Nat /\ NUM_PACKS * (round + 1) = total + NUM_PACKS
    BY <2>2, NumPacksAssumption
  <2>4. \A h \in 0 .. (n - 1) :
          /\ h \in Hops
          /\ stats[s][h] = total + (IF h < c THEN NUM_PACKS
                                    ELSE IF h = c THEN k ELSE 0)
    BY <1>1, <2>2, SessionsAssumption DEF BalancedAt, Share, Hops
  <2> HIDE DEF total
  <2>5. \A h \in 0 .. (n - 1) :
          stats'[s][h] = IF h = c THEN total + k + 1 ELSE stats[s][h]
    BY <1>1, <1>2, <1>5, <2>3, <2>4
  <2>6. CASE ~BurstDone(s)
    <3>1. BalancedAt(s, round)'
      BY <1>1, <1>2, <1>3, <1>5, <1>8, <2>3, <2>4, <2>5, <2>6
      DEF BalancedAt, Share, total
    <3> QED
      BY <3>1, <2>2
  <2>7. CASE BurstDone(s) /\ c + 1 < n
    <3>1. curr'[s] = c + 1 /\ pcount'[s] = 0
      BY <1>1, <1>2, <1>5, <1>7, <1>8, <2>7, NextIndex
    <3>2. BalancedAt(s, round)'
      BY <1>1, <1>2, <1>3, <1>6, <2>3, <2>4, <2>5, <2>7, <3>1
      DEF BalancedAt, Share, total
    <3> QED
      BY <3>2, <2>2
  <2>8. CASE BurstDone(s) /\ c + 1 = n
    <3>1. curr'[s] = 0 /\ pcount'[s] = 0
      BY <1>1, <1>2, <1>5, <1>7, <1>8, <2>8, NextIndex
    <3>2. \A h \in 0 .. (n - 1) : stats'[s][h] = total + NUM_PACKS
      BY <1>1, <1>2, <1>6, <2>3, <2>4, <2>5, <2>8
    <3>3. num_hops'[s] = n
      BY <1>3
    <3>4. \A h \in 0 .. (n - 1) : Share(s, h)' = 0
      BY <1>1, <3>1 DEF Share
    <3>5. BalancedAt(s, round + 1)'
      <4> SUFFICES ASSUME NEW h \in 0 .. (n - 1)
                   PROVE  stats'[s][h] = NUM_PACKS * (round + 1) + Share(s, h)'
        BY <3>3 DEF BalancedAt
      <4>1. stats'[s][h] = total + NUM_PACKS /\ Share(s, h)' = 0
        BY <3>2, <3>4
      <4> QED
        BY <4>1, <2>3, NumPacksAssumption
    <3>6. round + 1 \in Nat
      BY <2>2
    <3> QED
      BY <3>5, <3>6
  <2> QED
    BY <1>1, <1>2, <2>6, <2>7, <2>8
<1> QED
  BY <1>9, <1>10, <1>11, <1>12 DEF TurnInv
AllTurns == \A s \in Slots : TurnInv(s)

LEMMA InitTurns == Init => AllTurns
<1> SUFFICES ASSUME Init, NEW s \in Slots PROVE TurnInv(s)
  BY DEF AllTurns
<1>1. /\ num_hops[s] = 0 /\ curr[s] = 0 /\ pcount[s] = 0 /\ streak[s] = 0
      /\ ~first_packet_sent[s] /\ ~overrun[s] /\ ~late[s] /\ cpc[s] = "none"
  BY DEF Init, InitTable, InitChildren, InitHistory
<1>2. \A h \in Hops : stats[s][h] = 0
  BY DEF Init, InitTable
<1> QED
  BY <1>1, <1>2 DEF TurnInv, FreshInv, CurrInv, BurstInv, BalanceInv

LEMMA NextTurns == TypeInv /\ AllTurns /\ [Next]_vars => AllTurns'
<1> SUFFICES ASSUME TypeInv, AllTurns, [Next]_vars, NEW s \in Slots
             PROVE  TurnInv(s)'
  BY DEF AllTurns
<1>1. TurnInv(s) /\ TypeOK
  BY DEF AllTurns, TypeInv
<1>2. CASE HandshakeCut \/ Refuse \/ TableFull \/ Register \/ Reply \/
             Environment \/ UNCHANGED vars
  BY <1>1, <1>2, QuietSteps, TurnFrame
<1>3. CASE AddHop \/ Fork \/ ForkFails
  <2>1. ppc = "count"
    BY <1>3 DEF AddHop, Fork, ForkFails
  <2> QED
    BY <1>1, <1>3, <2>1, CountHopTurn
<1>4. ASSUME NEW t \in Slots, Child(t) PROVE TurnInv(s)'
  <2>1. CASE t # s
    BY <1>1, <1>4, <2>1, OtherTurns, TurnFrame
  <2>2. CASE t = s
    BY <1>1, <1>4, <2>2, BindTurn, RecvSourceTurn, ForwardTurn, LaterTurn
    DEF Child
  <2> QED
    BY <2>1, <2>2
<1> QED
  BY <1>2, <1>3, <1>4 DEF Next, Parent

LEMMA TurnsInvariant == Spec => []AllTurns
  BY InitTurns, NextTurns, TypeInvariant, PTL DEF Spec

\* A burst to one hop is never longer than NUM_PACKS when the second hop came
\* in time, whatever the parent registers while the child relays.
THEOREM BurstCorrect == Spec => []BurstBounded
<1>1. TypeOK /\ AllTurns => BurstBounded
  <2> SUFFICES ASSUME TypeOK, AllTurns, NEW s \in Slots, ~overrun[s]
               PROVE  streak[s] < NUM_PACKS
    BY DEF BurstBounded
  <2>1. BurstInv(s)
    BY DEF AllTurns, TurnInv
  <2> QED
    BY <2>1, CounterTypes, NumPacksAssumption DEF BurstInv
<1> QED
  BY <1>1, TypeCorrect, TurnsInvariant, PTL

\* With every hop registered before the traffic, each has had the same number
\* of full bursts, up to the round in progress: for any number of hops.
THEOREM BalanceCorrect == Spec => []Balanced
<1>1. TypeOK /\ AllTurns => Balanced
  <2> SUFFICES ASSUME TypeOK, AllTurns, NEW s \in Slots,
                      num_hops[s] \in 2 .. SESSIONS, ~late[s]
               PROVE  \E round \in 0 .. stats[s][0] : BalancedAt(s, round)
    BY DEF Balanced, BalancedAt
  <2>1. PICK round \in Nat : BalancedAt(s, round)
    BY DEF AllTurns, TurnInv, BalanceInv
  <2> DEFINE total == NUM_PACKS * round
  <2>2. total \in Nat /\ total >= round
    BY NumPacksAssumption
  <2>3. Share(s, 0) \in Nat
    BY CounterTypes, NumPacksAssumption DEF Share
  <2>4. stats[s][0] = total + Share(s, 0)
    <3>1. 0 \in 0 .. (num_hops[s] - 1)
      BY CounterTypes
    <3> QED
      BY <2>1, <3>1 DEF BalancedAt
  <2> HIDE DEF total
  <2>5. round \in 0 .. stats[s][0]
    BY <2>2, <2>3, <2>4
  <2> QED
    BY <2>1, <2>5
<1> QED
  BY <1>1, TypeCorrect, TurnsInvariant, PTL

-----------------------------------------------------------------------------
(* The hops                                                                *)

\* Every published hop has been stored, and so has the one about to be.
StoredInv ==
    /\ \A s \in Slots : \A h \in 0 .. (num_hops[s] - 1) : dst[s][h] # NoDst
    /\ ppc = "count" => dst[slot][num_hops[slot]] # NoDst

\* Only Register stores a hop and only the steps after it publish one.
LEMMA WhoStores ==
    ASSUME [Next]_vars
    PROVE  \/ Register
           \/ AddHop \/ Fork \/ ForkFails
           \/ UNCHANGED <<dst, num_hops>> /\ (ppc' = "count" => UNCHANGED <<ppc, slot>>)
<1> USE DEF routeVars, parentVars
<1>1. CASE HandshakeCut \/ Refuse \/ TableFull \/ Reply
  BY <1>1 DEF HandshakeCut, Refuse, TableFull, TurnAway, Reply
<1>2. ASSUME NEW s \in Slots, Child(s)
      PROVE  UNCHANGED <<dst, num_hops, ppc, slot>>
  <2>1. CASE Bind(s) \/ RecvDest(s) \/ Timeout(s)
    BY <2>1 DEF Bind, RecvDest, Timeout
  <2>2. CASE RecvSource(s) \/ Forward(s)
    BY <2>2 DEF RecvSource, Forward
  <2>3. QED
    BY <1>2, <2>1, <2>2 DEF Child
<1>3. ASSUME Environment
      PROVE  UNCHANGED <<dst, num_hops, ppc, slot>>
  BY <1>3 DEF Environment, Connect, SourceSend, DestSend
<1>4. CASE UNCHANGED vars
  BY <1>4 DEF vars
<1>5. QED
  BY <1>1, <1>2, <1>3, <1>4 DEF Next, Parent

LEMMA RegisterStored ==
    ASSUME TypeOK, StoredInv, Register
    PROVE  StoredInv'
<1> DEFINE d == request[Head(backlog)].dst
<1>1. d \in Dests /\ d # NoDst /\ BadDst # NoDst
  BY HeadOfBacklog, AddressAssumption DEF Register, Accepts, GoodRequests
<1>2. PICK s \in Slots :
        /\ num_hops[s] < MaxDests
        /\ dst' = [dst EXCEPT ![s] = StoreHop(dst[s], num_hops[s], d)]
        /\ slot' = s
  BY DEF Register
<1> HIDE DEF d
<1>3. num_hops' = num_hops
  BY DEF Register
<1>4. \A t \in Slots : num_hops[t] \in 0 .. MaxDests
  BY DEF TableTypeOK
<1>5. num_hops[s] \in Hops
  BY <1>2, <1>4, SessionsAssumption, BoundsAssumption DEF Hops
<1>6. \A t \in Slots : t # s => dst'[t] = dst[t]
  BY <1>2 DEF TableTypeOK
<1>7. dst'[s] = StoreHop(dst[s], num_hops[s], d)
  BY <1>2 DEF TableTypeOK
<1>8. dst'[s][num_hops[s]] # NoDst
  BY <1>1, <1>5, <1>7 DEF StoreHop
<1>9. ASSUME NEW h \in 0 .. (num_hops[s] - 1)
      PROVE  dst'[s][h] # NoDst
  <2>1. h \in Hops
    BY <1>4, <1>9, SessionsAssumption, BoundsAssumption DEF Hops
  <2>2. dst[s][h] # NoDst
    BY <1>9 DEF StoredInv
  <2> QED
    BY <1>1, <1>7, <2>1, <2>2 DEF StoreHop
<1> QED
  BY <1>2, <1>3, <1>6, <1>8, <1>9 DEF StoredInv

LEMMA CountHopStored ==
    ASSUME TypeOK, StoredInv, AddHop \/ Fork \/ ForkFails
    PROVE  StoredInv'
<1>1. ppc = "count" /\ ppc' # "count" /\ dst' = dst /\ slot \in Slots
      /\ num_hops' = [num_hops EXCEPT ![slot] = num_hops[slot] + 1]
  BY DEF AddHop, Fork, ForkFails, CountHop, ProcessTypeOK
<1>2. ASSUME NEW s \in Slots, NEW h \in 0 .. (num_hops'[s] - 1)
      PROVE  dst[s][h] # NoDst
  <2>1. num_hops[s] \in Nat
    BY CounterTypes
  <2>2. CASE s = slot /\ h = num_hops[s]
    BY <1>1, <2>2 DEF StoredInv
  <2>3. CASE ~(s = slot /\ h = num_hops[s])
    <3>1. num_hops'[s] = IF s = slot THEN num_hops[s] + 1 ELSE num_hops[s]
      BY <1>1 DEF TableTypeOK
    <3>2. h \in 0 .. (num_hops[s] - 1)
      BY <1>2, <2>1, <2>3, <3>1
    <3> QED
      BY <3>2 DEF StoredInv
  <2> QED
    BY <2>2, <2>3
<1> QED
  BY <1>1, <1>2 DEF StoredInv

LEMMA StoredInvariant == Spec => []StoredInv
<1>1. Init => StoredInv
  BY DEF Init, InitTable, InitParent, StoredInv
<1>2. TypeOK /\ StoredInv /\ [Next]_vars => StoredInv'
  <2> SUFFICES ASSUME TypeOK, StoredInv, [Next]_vars PROVE StoredInv'
    OBVIOUS
  <2>1. CASE Register
    BY <2>1, RegisterStored
  <2>2. CASE AddHop \/ Fork \/ ForkFails
    BY <2>2, CountHopStored
  <2>3. CASE UNCHANGED <<dst, num_hops>> /\ (ppc' = "count" => UNCHANGED <<ppc, slot>>)
    BY <2>3 DEF StoredInv
  <2> QED
    BY <2>1, <2>2, <2>3, WhoStores
<1> QED
  BY <1>1, <1>2, TypeCorrect, PTL DEF Spec

\* The child never relays to a hop that is not stored, although the parent
\* stores and counts hops while the child reads them.
THEOREM HopsCorrect == Spec => []HopRegistered
<1>1. TypeOK /\ AllTurns /\ StoredInv => HopRegistered
  <2> SUFFICES ASSUME TypeOK, AllTurns, StoredInv, NEW s \in Slots
               PROVE  /\ num_hops[s] > 0 => curr[s] < num_hops[s]
                      /\ cpc[s] = "send" =>
                           hop[s] < num_hops[s] /\ dst[s][hop[s]] # NoDst
    BY DEF HopRegistered
  <2>1. CurrInv(s)
    BY DEF AllTurns, TurnInv
  <2>2. ASSUME cpc[s] = "send"
        PROVE  hop[s] < num_hops[s] /\ hop[s] \in 0 .. (num_hops[s] - 1)
    BY <2>1, <2>2, CounterTypes DEF CurrInv
  <2> QED
    BY <2>1, <2>2 DEF CurrInv, StoredInv
<1> QED
  BY <1>1, TypeCorrect, TurnsInvariant, StoredInvariant, PTL
-----------------------------------------------------------------------------
(* The daemon implements RelayService while no slot overflows              *)

\* A tunnelcli that has asked keeps its request and is not idle again.
LEMMA AsksOnce ==
    ASSUME TypeOK, [Next]_vars, NEW c \in Clients, cstate[c] # "idle"
    PROVE  cstate'[c] # "idle" /\ request'[c] = request[c]
<1> USE DEF ProcessTypeOK, cliVars
<1>1. CASE \E d \in Clients, r \in Requests : Connect(d, r)
  BY <1>1 DEF Connect
<1>2. CASE HandshakeCut
  BY <1>2 DEF HandshakeCut
<1>3. CASE Refuse \/ TableFull \/ Reply \/ ForkFails \/ \E s \in Slots : Bind(s)
  BY <1>3 DEF Refuse, TableFull, TurnAway, Answer, Reply, ForkFails, Bind
<1>4. CASE \/ Register \/ AddHop \/ Fork \/ UNCHANGED vars
           \/ \E s \in Slots : RecvSource(s) \/ Forward(s) \/ RecvDest(s) \/ Timeout(s)
           \/ \E s \in Slots, p \in Packets : SourceSend(s, p)
           \/ \E s \in Slots : DestSend(s)
  BY <1>4 DEF Register, AddHop, Fork, RecvSource, Forward, RecvDest, Timeout,
     SourceSend, DestSend, vars
<1> QED
  BY <1>1, <1>2, <1>3, <1>4 DEF Next, Parent, Child, Environment

\* A tunnelcli that has not connected has asked for nothing.
IdleInv == \A c \in Clients : cstate[c] = "idle" => request[c] = NoRequest

LEMMA WhoAsks ==
    ASSUME [Next]_vars
    PROVE  (\E c \in Clients, r \in Requests : Connect(c, r)) \/ UNCHANGED request
  BY DEF Next, Parent, Child, Environment, HandshakeCut, Refuse, TableFull, TurnAway,
     Register, AddHop, Reply, Fork, ForkFails, Bind, RecvSource, Forward, RecvDest,
     Timeout, SourceSend, DestSend, vars, cliVars

LEMMA IdleInvariant == Spec => []IdleInv
<1>1. Init => IdleInv
  BY DEF Init, InitClients, IdleInv
<1>2. TypeOK /\ IdleInv /\ [Next]_vars => IdleInv'
  <2> SUFFICES ASSUME TypeOK, IdleInv, [Next]_vars,
                      NEW c \in Clients, cstate'[c] = "idle"
               PROVE  request'[c] = NoRequest
    BY DEF IdleInv
  <2>1. cstate[c] = "idle" /\ request[c] = NoRequest
    BY AsksOnce DEF IdleInv
  <2>2. CASE \E d \in Clients, r \in Requests : Connect(d, r)
    BY <2>1, <2>2 DEF Connect, ProcessTypeOK
  <2> QED
    BY <2>1, <2>2, WhoAsks
<1> QED
  BY <1>1, <1>2, TypeCorrect, PTL DEF Spec

\* What has been asked for stays so, and changes by Connect alone.
LEMMA AskedMember ==
    ASSUME NEW a, NEW d
    PROVE  d \in AskedFor(a) <=>
             \E c \in Clients : /\ request[c].kind = "good" /\ request[c].src = a
                               /\ d = request[c].dst
  BY DEF AskedFor, Asking

LEMMA AskedStays ==
    ASSUME TypeOK, IdleInv, [Next]_vars, NEW a, NEW d, d \in AskedFor(a)
    PROVE  \E c \in Clients : /\ request'[c].kind = "good" /\ request'[c].src = a
                              /\ d = request'[c].dst
<1>1. PICK c \in Clients : /\ request[c].kind = "good" /\ request[c].src = a
                          /\ d = request[c].dst
  BY AskedMember
<1>2. cstate[c] # "idle"
  BY <1>1 DEF IdleInv, NoRequest
<1> QED
  BY <1>1, <1>2, AsksOnce

\* The part of RouteInv about one slot: a counted hop is a destination that was
\* asked for, without a source if the slot has none, and the packet in flight is
\* the slot's own.
RouteAt(s) ==
    /\ \A h \in 0 .. (num_hops[s] - 1) :
         /\ dst[s][h] \in Dests
         /\ srcaddr[s] = NoAddr => dst[s][h] \in AskedFor(NoAddr)
    /\ cpc[s] = "send" => pkt[s].addr = srcaddr[s] /\ srcaddr[s] # NoAddr
    /\ num_hops[s] = 0 => cpc[s] = "none"

\* And the hop about to be counted was asked for, for the slot's source.
RouteInv ==
    /\ \A s \in Slots : RouteAt(s)
    /\ ppc = "count" => /\ dst[slot][num_hops[slot]] \in Dests
                        /\ dst[slot][num_hops[slot]] \in AskedFor(srcaddr[slot])

Fits == MaxDests <= SESSIONS

\* Registration writes one entry that is not published and one source address
\* that is either the slot's already or goes to a slot that looks free.
LEMMA RegisterWrites ==
    ASSUME Fits, TypeOK, Register
    PROVE  \E s \in Slots, a \in Sources \cup {NoAddr}, d \in Dests :
             /\ slot' = s
             /\ d \in AskedFor(a)
             /\ srcaddr[s] \in {NoAddr, a} /\ srcaddr'[s] = a
             /\ dst'[s][num_hops[s]] = d
             /\ \A h \in 0 .. (num_hops[s] - 1) : dst'[s][h] = dst[s][h]
             /\ \A t \in Slots : t # s =>
                  srcaddr'[t] = srcaddr[t] /\ dst'[t] = dst[t]
<1> DEFINE c == Head(backlog)
           r == request[c]
<1>1. /\ c \in Clients /\ r.kind = "good"
      /\ r.src \in Sources \cup {NoAddr} /\ r.dst \in Dests
  BY HeadOfBacklog DEF Register, Accepts, GoodRequests
<1>2. r.dst \in AskedFor(r.src)
  BY <1>1, AskedMember
<1>3. PICK s \in Slots :
        /\ FirstMatch(s, r.src)
        /\ num_hops[s] < MaxDests
        /\ srcaddr' = [srcaddr EXCEPT ![s] = r.src]
        /\ dst' = [dst EXCEPT ![s] = StoreHop(dst[s], num_hops[s], r.dst)]
        /\ slot' = s
  BY DEF Register
<1> HIDE DEF c, r
<1>4. num_hops[s] \in 0 .. MaxDests
  BY DEF TableTypeOK
<1>5. num_hops[s] \in Hops /\ num_hops[s] # SESSIONS
  BY <1>3, <1>4, SessionsAssumption, BoundsAssumption DEF Hops, Fits
<1>6. dst'[s] = StoreHop(dst[s], num_hops[s], r.dst)
  BY <1>3 DEF TableTypeOK
<1>7. dst'[s][num_hops[s]] = r.dst
  BY <1>5, <1>6 DEF StoreHop
<1>8. \A h \in 0 .. (num_hops[s] - 1) : dst'[s][h] = dst[s][h]
  <2> SUFFICES ASSUME NEW h \in 0 .. (num_hops[s] - 1)
               PROVE  dst'[s][h] = dst[s][h]
    OBVIOUS
  <2>1. h \in Hops /\ h # num_hops[s]
    BY <1>3, <1>4, SessionsAssumption, BoundsAssumption DEF Hops, Fits
  <2> QED
    BY <1>5, <1>6, <2>1 DEF StoreHop
<1>9. srcaddr'[s] = r.src
  BY <1>3 DEF TableTypeOK
<1>10. srcaddr[s] \in {NoAddr, r.src}
  BY <1>3 DEF FirstMatch, Matches
<1>11. \A t \in Slots : t # s => srcaddr'[t] = srcaddr[t] /\ dst'[t] = dst[t]
  BY <1>3 DEF TableTypeOK
<1> QED
  BY <1>1, <1>2, <1>3, <1>7, <1>8, <1>9, <1>10, <1>11

\* How the steps outside the parent's registration change what RouteInv and
\* the refinement mapping read.
LEMMA ChildWrites ==
    ASSUME TypeOK, NEW s \in Slots, Child(s)
    PROVE  /\ UNCHANGED <<srcaddr, dst, num_hops, ppc, slot>>
           /\ \A t \in Slots : t # s => cpc'[t] = cpc[t] /\ pkt'[t] = pkt[t]
           /\ cpc'[s] = "send" => pkt'[s].addr = srcaddr[s] /\ srcaddr[s] # NoAddr
           /\ cpc[s] # "none" /\ cpc[s] # "exited"
<1> USE DEF ProcessTypeOK, routeVars, parentVars
<1>1. CASE Bind(s)
  BY <1>1 DEF Bind
<1>2. CASE RecvSource(s)
  <2>1. Head(rcvq[s]).addr # NoAddr
    <3>1. Head(rcvq[s]) \in Packets
      BY <1>2 DEF RecvSource, NetworkTypeOK
    <3> QED
      BY <3>1, AddressAssumption DEF Packets
  <2> QED
    BY <1>2, <2>1 DEF RecvSource, AddressMatches
<1>3. CASE Forward(s)
  BY <1>3 DEF Forward
<1>4. CASE RecvDest(s)
  BY <1>4 DEF RecvDest
<1>5. CASE Timeout(s)
  BY <1>5 DEF Timeout
<1> QED
  BY <1>1, <1>2, <1>3, <1>4, <1>5 DEF Child

LEMMA PublishWrites ==
    ASSUME TypeOK, AddHop \/ Fork \/ ForkFails
    PROVE  /\ ppc = "count" /\ ppc' # "count" /\ slot \in Slots
           /\ UNCHANGED <<srcaddr, dst, slot, pkt, request, sent, delivered>>
           /\ num_hops'[slot] = num_hops[slot] + 1
           /\ \A t \in Slots : t # slot =>
                num_hops'[t] = num_hops[t] /\ cpc'[t] = cpc[t]
           /\ cpc'[slot] = cpc[slot] \/ (num_hops[slot] = 0 /\ cpc'[slot] = "bind")
<1>1. slot \in Slots /\ num_hops' = [num_hops EXCEPT ![slot] = num_hops[slot] + 1]
  BY DEF AddHop, Fork, ForkFails, CountHop, ProcessTypeOK
<1>2. cpc' = cpc \/ (num_hops[slot] = 0 /\ cpc' = [cpc EXCEPT ![slot] = "bind"])
  BY DEF AddHop, Fork, ForkFails, childVars
<1>3. /\ ppc = "count" /\ ppc' # "count"
      /\ UNCHANGED <<srcaddr, dst, slot, pkt, request, sent, delivered>>
  BY DEF AddHop, Fork, ForkFails, CountHop, cliVars, childVars, outVars
<1> QED
  BY <1>1, <1>2, <1>3 DEF TableTypeOK, ProcessTypeOK

LEMMA OtherWrites ==
    ASSUME HandshakeCut \/ Refuse \/ TableFull \/ Reply \/ Environment \/
             UNCHANGED vars
    PROVE  /\ UNCHANGED <<srcaddr, dst, num_hops, cpc, pkt, slot, sent, delivered>>
           /\ ppc' = "count" => ppc = "count"
  BY DEF HandshakeCut, Refuse, TableFull, TurnAway, Reply, Environment, Connect,
      SourceSend, DestSend, routeVars, childVars, parentVars, outVars, vars
LEMMA NextRoute ==
    ASSUME Fits, TypeOK, AllTurns, IdleInv, RouteInv, [Next]_vars
    PROVE  RouteInv'
<1>a. \A a, d : d \in AskedFor(a) =>
        d \in {request'[c].dst : c \in {c \in Clients : request'[c].kind = "good"
                                                    /\ request'[c].src = a}}
  <2> SUFFICES ASSUME NEW a, NEW d, d \in AskedFor(a)
               PROVE  \E c \in Clients : /\ request'[c].kind = "good"
                                         /\ request'[c].src = a
                                         /\ d = request'[c].dst
    OBVIOUS
  <2> QED
    BY AskedStays
<1> USE DEF RouteInv, RouteAt, AskedFor, Asking
<1>1. CASE Register
  <2>1. PICK s \in Slots, a \in Sources \cup {NoAddr}, d \in Dests :
          /\ slot' = s
          /\ d \in AskedFor(a)
          /\ srcaddr[s] \in {NoAddr, a} /\ srcaddr'[s] = a
          /\ dst'[s][num_hops[s]] = d
          /\ \A h \in 0 .. (num_hops[s] - 1) : dst'[s][h] = dst[s][h]
          /\ \A t \in Slots : t # s =>
               srcaddr'[t] = srcaddr[t] /\ dst'[t] = dst[t]
    BY <1>1, RegisterWrites
  <2>2. UNCHANGED <<num_hops, cpc, pkt, request>>
    BY <1>1 DEF Register, cliVars, childVars
  <2>3. RouteAt(s)'
    BY <2>1, <2>2
  <2>4. \A t \in Slots : t # s => RouteAt(t)'
    BY <2>1, <2>2
  <2> QED
    BY <2>1, <2>2, <2>3, <2>4
<1>2. CASE AddHop \/ Fork \/ ForkFails
  <2>0. PICK s \in Slots : s = slot
    BY <1>2, PublishWrites
  <2>1. ppc' # "count" /\ UNCHANGED <<srcaddr, dst, pkt, request>>
    BY <1>2, PublishWrites
  <2>2. \A t \in Slots : t # s => num_hops'[t] = num_hops[t] /\ cpc'[t] = cpc[t]
    BY <1>2, <2>0, PublishWrites
  <2>3. /\ s \in Slots /\ num_hops'[s] = num_hops[s] + 1
        /\ cpc'[s] = "send" => cpc[s] = "send"
    BY <1>2, <2>0, PublishWrites
  <2>4. /\ dst[s][num_hops[s]] \in Dests
        /\ srcaddr[s] = NoAddr => dst[s][num_hops[s]] \in AskedFor(NoAddr)
    BY <1>2, <2>0, PublishWrites
  <2>5. num_hops[s] \in Nat
    BY <2>3, CounterTypes
  <2>6. \A h : h \in 0 .. (num_hops'[s] - 1) <=>
          h \in 0 .. (num_hops[s] - 1) \/ h = num_hops[s]
    BY <2>3, <2>5
  <2>7. RouteAt(s)'
    <3>1. \A h \in 0 .. (num_hops'[s] - 1) :
            /\ dst[s][h] \in Dests
            /\ srcaddr[s] = NoAddr => dst[s][h] \in AskedFor(NoAddr)
      BY <2>3, <2>4, <2>6
    <3>2. num_hops'[s] # 0
      BY <2>3, <2>5
    <3> QED
      BY <2>1, <2>3, <3>1, <3>2
  <2>8. \A t \in Slots : t # s => RouteAt(t)'
    BY <2>1, <2>2
  <2> QED
    BY <2>1, <2>7, <2>8
<1>3. ASSUME NEW s \in Slots, Child(s) PROVE RouteInv'
  <2>1. UNCHANGED request
    BY <1>3 DEF Child, Bind, RecvSource, Forward, RecvDest, Timeout, cliVars
  <2> QED
    BY <1>3, <2>1, ChildWrites
<1>4. CASE HandshakeCut \/ Refuse \/ TableFull \/ Reply \/ Environment \/
             UNCHANGED vars
  <2>1. /\ UNCHANGED <<srcaddr, dst, num_hops, cpc, pkt, slot>>
        /\ ppc' = "count" => ppc = "count"
    BY <1>4, OtherWrites
  <2>2. \A s \in Slots : RouteAt(s)'
    BY <1>a, <2>1
  <2>3. ppc' = "count" => /\ dst'[slot'][num_hops'[slot']] \in Dests
                          /\ dst'[slot'][num_hops'[slot']] \in AskedFor(srcaddr[slot])
    BY <2>1
  <2>4. ppc' = "count" =>
          dst'[slot'][num_hops'[slot']] \in
            {request'[c].dst : c \in {c \in Clients :
               request'[c].kind = "good" /\ request'[c].src = srcaddr[slot]}}
    BY <1>a, <2>3
  <2> QED
    BY <2>1, <2>2, <2>3, <2>4
<1> QED
  BY <1>1, <1>2, <1>3, <1>4 DEF Next, Parent

LEMMA InitRoute == Init => RouteInv
  BY DEF Init, InitTable, InitParent, InitChildren, RouteInv, RouteAt

LEMMA RouteInvariant == ASSUME Fits PROVE Spec => []RouteInv
<1>1. TypeOK /\ AllTurns /\ IdleInv /\ RouteInv /\ [Next]_vars => RouteInv'
  BY NextRoute
<1> QED
  BY InitRoute, <1>1, TypeCorrect, TurnsInvariant, IdleInvariant, PTL DEF Spec

LEMMA RouteOf ==
    ASSUME NEW a, NEW d
    PROVE  d \in RoutesOf(a) <=>
             \E s \in Slots : srcaddr[s] = a /\
               \E h \in 0 .. (num_hops[s] - 1) : d = dst[s][h]
  BY DEF RoutesOf

\* The state of RelayService that a state of the daemon stands for.
MappedAsked == [a \in Sources |-> AskedFor(a)]
Stray == AskedFor(NoAddr)
MappedRoutes == [a \in Sources |-> RoutesOf(a)]
mapped == <<MappedAsked, Stray, MappedRoutes, Carried, Ended>>

LEMMA SameAsked ==
    ASSUME UNCHANGED request
    PROVE  UNCHANGED <<MappedAsked, Stray>>
  BY DEF MappedAsked, Stray, AskedFor, Asking

\* A tunnelcli asks for a path, with a source, without one, or for none.
LEMMA ConnectAsks ==
    ASSUME TypeOK, IdleInv, NEW c \in Clients, NEW r \in Requests, Connect(c, r)
    PROVE  \/ \E a \in Sources, d \in Dests : Service!Ask(a, d)
           \/ \E d \in Dests : Service!AskStray(d)
           \/ UNCHANGED mapped
<1>1. request[c] = NoRequest
  BY DEF Connect, IdleInv
<1>2. \A b \in Clients : request'[b] = IF b = c THEN r ELSE request[b]
  BY DEF Connect, ProcessTypeOK
<1>3. UNCHANGED <<MappedRoutes, Carried, Ended>>
  BY DEF Connect, routeVars, childVars, outVars, MappedRoutes, RoutesOf, Carried, Ended
<1>4. ASSUME NEW a
      PROVE  {request'[b].dst : b \in {b \in Clients : request'[b].kind = "good"
                                                        /\ request'[b].src = a}}
               = IF r.kind = "good" /\ r.src = a THEN AskedFor(a) \cup {r.dst}
                                                  ELSE AskedFor(a)
  <2> DEFINE A == {request'[b].dst : b \in {b \in Clients :
                     request'[b].kind = "good" /\ request'[b].src = a}}
  <2>1. \A d : d \in A <=> \E b \in Clients :
          request'[b].kind = "good" /\ request'[b].src = a /\ d = request'[b].dst
    OBVIOUS
  <2> HIDE DEF A
  <2>2. request[c].kind # "good"
    BY <1>1 DEF NoRequest
  <2>3. \A d : d \in A <=>
          d \in AskedFor(a) \/ (r.kind = "good" /\ r.src = a /\ d = r.dst)
    BY <1>2, <2>1, <2>2, AskedMember
  <2>4. A = IF r.kind = "good" /\ r.src = a THEN AskedFor(a) \cup {r.dst}
                                            ELSE AskedFor(a)
    BY <2>3
  <2> QED
    BY <2>4 DEF A
<1>5. MappedAsked' = [a \in Sources |->
        IF r.kind = "good" /\ r.src = a THEN AskedFor(a) \cup {r.dst} ELSE AskedFor(a)]
  BY <1>4 DEF MappedAsked, AskedFor, Asking
<1>6. Stray' = IF r.kind = "good" /\ r.src = NoAddr THEN Stray \cup {r.dst} ELSE Stray
  BY <1>4 DEF Stray, AskedFor, Asking
<1>7. CASE r.kind = "good" /\ r.src \in Sources
  <2>1. r.src # NoAddr /\ r.dst \in Dests
    BY <1>7, AddressAssumption DEF Requests, GoodRequests, BadRequests
  <2>2. MappedAsked' = [MappedAsked EXCEPT ![r.src] = MappedAsked[r.src] \cup {r.dst}]
    BY <1>5, <1>7 DEF MappedAsked
  <2>3. UNCHANGED Stray
    BY <1>6, <2>1
  <2> QED
    BY <1>3, <1>7, <2>1, <2>2, <2>3 DEF Service!Ask, MappedAsked, MappedRoutes, Stray
<1>8. CASE r.kind = "good" /\ r.src \notin Sources
  <2>1. r.src = NoAddr /\ r.dst \in Dests
    BY <1>8 DEF Requests, GoodRequests, BadRequests
  <2>2. UNCHANGED MappedAsked /\ Stray' = Stray \cup {r.dst}
    BY <1>5, <1>6, <1>8, <2>1 DEF MappedAsked
  <2> QED
    BY <1>3, <2>1, <2>2 DEF Service!AskStray, MappedAsked, MappedRoutes, Stray
<1>9. CASE r.kind # "good"
  BY <1>3, <1>5, <1>6, <1>9 DEF mapped, MappedAsked
<1> QED
  BY <1>7, <1>8, <1>9

\* Registration keeps the published hops and the exited children: it is a stutter
\* unless the source takes over the hops of a slot without one.
LEMMA RegisterTakesOver ==
    ASSUME Fits, TypeOK, OneSlotPerSource', RouteInv, Register
    PROVE  \/ \E a \in Sources, D \in SUBSET Dests : Service!TakeOver(a, D)
           \/ UNCHANGED mapped
<1>1. PICK s \in Slots, b \in Sources \cup {NoAddr}, e \in Dests :
        /\ srcaddr[s] \in {NoAddr, b} /\ srcaddr'[s] = b
        /\ \A h \in 0 .. (num_hops[s] - 1) : dst'[s][h] = dst[s][h]
        /\ \A t \in Slots : t # s =>
             srcaddr'[t] = srcaddr[t] /\ dst'[t] = dst[t]
  BY RegisterWrites
<1>2. UNCHANGED <<num_hops, cpc, delivered, request>>
  BY DEF Register, cliVars, childVars, outVars
<1>3. UNCHANGED <<MappedAsked, Stray, Carried>>
  BY <1>2, SameAsked DEF Carried
<1>4. \A t \in Slots : \A h \in 0 .. (num_hops[t] - 1) : dst'[t][h] = dst[t][h]
  BY <1>1
<1>5. ASSUME NEW a
      PROVE  \A d : d \in RoutesOf(a)' <=>
               \E t \in Slots : srcaddr'[t] = a /\
                 \E h \in 0 .. (num_hops[t] - 1) : d = dst[t][h]
  <2>1. \A d : d \in RoutesOf(a)' <=>
          \E t \in Slots : srcaddr'[t] = a /\
            \E h \in 0 .. (num_hops[t] - 1) : d = dst'[t][h]
    BY <1>2 DEF RoutesOf
  <2> QED
    BY <1>4, <2>1
<1>6. \A a : a \in Ended' <=>
        a \in Sources /\ \E t \in Slots : srcaddr'[t] = a /\ cpc[t] = "exited"
  BY <1>2 DEF Ended
<1>7. \A a : a \in Ended <=>
        a \in Sources /\ \E t \in Slots : srcaddr[t] = a /\ cpc[t] = "exited"
  BY DEF Ended
<1>8. CASE srcaddr[s] = b
  <2>1. \A t \in Slots : srcaddr'[t] = srcaddr[t]
    BY <1>1, <1>8
  <2>2. ASSUME NEW a \in Sources PROVE RoutesOf(a)' = RoutesOf(a)
    <3>1. \A d : d \in RoutesOf(a)' <=> d \in RoutesOf(a)
      BY <1>5, <2>1, RouteOf
    <3> QED
      BY <3>1
  <2>3. Ended' = Ended
    BY <1>6, <1>7, <2>1
  <2> QED
    BY <1>3, <2>2, <2>3 DEF mapped, MappedRoutes
<1>9. CASE srcaddr[s] # b
  <2>1. srcaddr[s] = NoAddr /\ b \in Sources /\ b # NoAddr
    BY <1>1, <1>9
  <2>2. \A t \in Slots : srcaddr[t] # b
    <3> SUFFICES ASSUME NEW t \in Slots, srcaddr[t] = b PROVE FALSE
      OBVIOUS
    <3>1. t # s /\ srcaddr'[t] = b
      BY <1>1, <1>9
    <3> QED
      BY <1>1, <2>1, <3>1 DEF OneSlotPerSource
  <2> DEFINE D == {dst[s][h] : h \in 0 .. (num_hops[s] - 1)}
  <2>3. D \in SUBSET Dests /\ D \subseteq Stray
    BY <2>1 DEF RouteInv, RouteAt, Stray
  <2>4. RoutesOf(b) = {}
    BY <2>2, RouteOf
  <2>5. RoutesOf(b)' = D
    <3>1. \A d : d \in RoutesOf(b)' <=> d \in D
      BY <1>1, <1>5, <2>2
    <3> QED
      BY <3>1
  <2>6. ASSUME NEW a \in Sources, a # b PROVE RoutesOf(a)' = RoutesOf(a)
    <3>1. \A t \in Slots : srcaddr'[t] = a <=> srcaddr[t] = a
      BY <1>1, <2>1, <2>6, AddressAssumption
    <3>2. \A d : d \in RoutesOf(a)' <=> d \in RoutesOf(a)
      BY <1>5, <3>1, RouteOf
    <3> QED
      BY <3>2
  <2> HIDE DEF D
  <2>7. MappedRoutes' = [MappedRoutes EXCEPT ![b] = D]
    BY <2>1, <2>5, <2>6 DEF MappedRoutes
  <2>8. Ended' = IF cpc[s] = "exited" THEN Ended \cup {b} ELSE Ended
    <3>1. \A a \in Sources : \A t \in Slots :
            srcaddr'[t] = a <=> srcaddr[t] = a \/ (t = s /\ a = b)
      BY <1>1, <2>1, AddressAssumption
    <3>2. \A a : a \in Ended' <=> a \in Ended \/ (a = b /\ cpc[s] = "exited")
      BY <1>6, <1>7, <2>1, <3>1
    <3> QED
      BY <3>2
  <2>9. CASE num_hops[s] = 0
    <3>1. D = {} /\ cpc[s] = "none"
      BY <2>9 DEF D, RouteInv, RouteAt
    <3>2. MappedRoutes' = MappedRoutes
      BY <2>1, <2>4, <2>7, <3>1 DEF MappedRoutes
    <3> QED
      BY <1>3, <2>8, <3>1, <3>2 DEF mapped
  <2>10. CASE num_hops[s] # 0
    <3>1. D # {}
      <4>1. 0 \in 0 .. (num_hops[s] - 1)
        BY <2>10, CounterTypes
      <4> QED
        BY <4>1 DEF D
    <3>2. Ended' \in {Ended, Ended \cup {b}}
      BY <2>8
    <3>3. MappedRoutes[b] = {}
      BY <2>1, <2>4 DEF MappedRoutes
    <3>4. Service!TakeOver(b, D)
      BY <1>3, <2>3, <2>7, <3>1, <3>2, <3>3
      DEF Service!TakeOver, MappedRoutes, MappedAsked, Stray
    <3> QED
      BY <2>1, <2>3, <3>4
  <2> QED
    BY <2>9, <2>10
<1> QED
  BY <1>8, <1>9

\* Counting a hop registers its destination for the slot's source, if it has one.
LEMMA PublishAddsRoute ==
    ASSUME TypeOK, RouteInv, AddHop \/ Fork \/ ForkFails
    PROVE  \/ \E a \in Sources, d \in Dests : Service!AddRoute(a, d)
           \/ UNCHANGED mapped
<1> DEFINE s == slot
           a == srcaddr[s]
           d == dst[s][num_hops[s]]
<1>1. /\ s \in Slots /\ num_hops'[s] = num_hops[s] + 1
      /\ UNCHANGED <<srcaddr, dst, delivered, request>>
      /\ \A t \in Slots : t # s => num_hops'[t] = num_hops[t] /\ cpc'[t] = cpc[t]
      /\ cpc'[s] = cpc[s] \/ (cpc[s] = "none" /\ cpc'[s] = "bind")
  BY PublishWrites DEF RouteInv, RouteAt
<1>2. a \in Sources \cup {NoAddr} /\ d \in Dests /\ d \in AskedFor(a)
  BY PublishWrites DEF RouteInv, TableTypeOK
<1>3. num_hops[s] \in Nat
  BY <1>1, CounterTypes
<1> HIDE DEF s
<1>4. 0 .. (num_hops'[s] - 1) = (0 .. (num_hops[s] - 1)) \cup {num_hops[s]}
  BY <1>1, <1>3
<1>5. ASSUME NEW b \in Sources
      PROVE  RoutesOf(b)' = IF b = a THEN RoutesOf(b) \cup {d} ELSE RoutesOf(b)
  <2>1. \A e : e \in RoutesOf(b)' <=>
          \E t \in Slots : srcaddr[t] = b /\
            \E h \in 0 .. (num_hops'[t] - 1) : e = dst[t][h]
    BY <1>1 DEF RoutesOf
  <2>2. \A e : e \in RoutesOf(b)' <=> (e \in RoutesOf(b) \/ (b = a /\ e = d))
    BY <1>1, <1>4, <2>1, RouteOf
  <2> QED
    BY <2>2
<1>6. UNCHANGED <<MappedAsked, Stray, Carried, Ended>>
  BY <1>1, SameAsked DEF Carried, Ended
<1>7. CASE a \in Sources
  <2>1. MappedRoutes' = [MappedRoutes EXCEPT ![a] = MappedRoutes[a] \cup {d}]
    BY <1>5, <1>7 DEF MappedRoutes
  <2>2. d \in MappedAsked[a]
    BY <1>2, <1>7 DEF MappedAsked
  <2>3. Service!AddRoute(a, d)
    BY <1>6, <2>1, <2>2 DEF Service!AddRoute, MappedRoutes, MappedAsked, Stray
  <2> QED
    BY <1>2, <1>7, <2>3
<1>8. CASE a \notin Sources
  <2>1. MappedRoutes' = MappedRoutes
    BY <1>5, <1>8 DEF MappedRoutes
  <2> QED
    BY <1>6, <2>1 DEF mapped
<1> QED
  BY <1>7, <1>8

LEMMA ForwardCarries ==
    ASSUME TypeOK, OneSlotPerSource, AllTurns, RouteInv,
           NEW s \in Slots, Forward(s)
    PROVE  \/ \E a \in Sources, d \in Dests : Service!Carry(a, d)
           \/ UNCHANGED mapped
<1> DEFINE a == srcaddr[s]
           d == dst[s][hop[s]]
<1>1. cpc[s] = "send" /\ pkt[s].addr = a /\ a # NoAddr /\ num_hops[s] > 0
  <2>1. cpc[s] = "send"
    BY DEF Forward
  <2> QED
    BY <2>1, CounterTypes DEF RouteInv, RouteAt
<1>2. hop[s] \in 0 .. (num_hops[s] - 1)
  BY <1>1, CounterTypes DEF AllTurns, TurnInv, CurrInv
<1>3. a \in Sources /\ d \in Dests
  BY <1>1, <1>2 DEF RouteInv, RouteAt, TableTypeOK
<1>4. d \in RoutesOf(a)
  BY <1>2, RouteOf
<1>5. a \notin Ended
  <2> SUFFICES ASSUME NEW t \in Slots, cpc[t] = "exited", srcaddr[t] = a
               PROVE  FALSE
    BY DEF Ended
  <2>1. t = s
    BY <1>1 DEF OneSlotPerSource
  <2> QED
    BY <1>1, <2>1
<1>6. \/ delivered' = [delivered EXCEPT ![a] =
                         [delivered[a] EXCEPT ![d] = delivered[a][d] + 1]]
      \/ UNCHANGED delivered
  BY <1>1, Zenon DEF Forward
<1>7. UNCHANGED <<srcaddr, dst, num_hops, request>> /\ cpc' =
        [cpc EXCEPT ![s] = IF both[s] THEN "dest" ELSE "select"]
  BY DEF Forward, routeVars, cliVars
<1> HIDE DEF a, d
<1>8. UNCHANGED <<MappedAsked, Stray, MappedRoutes>>
  BY <1>7, SameAsked DEF MappedRoutes, RoutesOf
<1>9. Ended' = Ended
  <2>1. \A t \in Slots : cpc'[t] = "exited" <=> cpc[t] = "exited"
    BY <1>1, <1>7 DEF ProcessTypeOK
  <2> QED
    BY <1>7, <2>1 DEF Ended
<1>10. CASE UNCHANGED delivered
  BY <1>8, <1>9, <1>10 DEF mapped, Carried
<1>11. CASE delivered' = [delivered EXCEPT ![a] =
                           [delivered[a] EXCEPT ![d] = delivered[a][d] + 1]]
  <2>1. delivered \in [Sources -> [Dests \cup {BadDst} -> Nat]]
    BY DEF NetworkTypeOK
  <2>2. \A b \in Sources, e \in Dests :
          delivered'[b][e] = IF b = a /\ e = d THEN delivered[b][e] + 1
                                               ELSE delivered[b][e]
    BY <1>3, <1>11, <2>1
  <2>3. Carried \in [Sources -> [Dests -> Nat]]
    BY <2>1 DEF Carried
  <2>4. Carried' = [b \in Sources |-> [e \in Dests |-> delivered'[b][e]]]
    BY DEF Carried
  <2>5. [Carried EXCEPT ![a] = [Carried[a] EXCEPT ![d] = Carried[a][d] + 1]]
          = [b \in Sources |-> [e \in Dests |->
              IF b = a /\ e = d THEN Carried[b][e] + 1 ELSE Carried[b][e]]]
    BY <1>3, <2>3
  <2>6. \A b \in Sources, e \in Dests : Carried[b][e] = delivered[b][e]
    BY DEF Carried
  <2>7. Carried' = [Carried EXCEPT ![a] = [Carried[a] EXCEPT ![d] = Carried[a][d] + 1]]
    BY <2>2, <2>4, <2>5, <2>6
  <2>8. d \in MappedRoutes[a]
    BY <1>3, <1>4 DEF MappedRoutes
  <2> QED
    BY <1>3, <1>5, <1>8, <1>9, <2>7, <2>8
    DEF Service!Carry, MappedRoutes, MappedAsked, Stray
<1> QED
  BY <1>6, <1>10, <1>11

LEMMA TimeoutEnds ==
    ASSUME TypeOK, OneSlotPerSource, RouteInv, NEW s \in Slots, Timeout(s)
    PROVE  (\E a \in Sources : Service!End(a)) \/ UNCHANGED mapped
<1> DEFINE a == srcaddr[s]
<1>1. cpc[s] = "select" /\ num_hops[s] > 0
  <2>1. cpc[s] = "select"
    BY DEF Timeout
  <2> QED
    BY <2>1, CounterTypes DEF RouteInv, RouteAt
<1>2. a \in Sources \cup {NoAddr}
  BY DEF TableTypeOK
<1>3. UNCHANGED <<srcaddr, dst, num_hops, delivered, request>>
      /\ cpc' = [cpc EXCEPT ![s] = "exited"]
  BY DEF Timeout, routeVars, cliVars, outVars
<1>4. UNCHANGED <<MappedAsked, Stray, MappedRoutes, Carried>>
  BY <1>3, SameAsked DEF MappedRoutes, RoutesOf, Carried
<1>5. \A t \in Slots : cpc'[t] = "exited" <=> cpc[t] = "exited" \/ t = s
  BY <1>3 DEF ProcessTypeOK
<1>6. CASE a \in Sources
  <2>1. dst[s][0] \in RoutesOf(a)
    <3>1. 0 \in 0 .. (num_hops[s] - 1)
      BY <1>1, CounterTypes
    <3> QED
      BY <3>1, RouteOf
  <2>2. a \notin Ended
    <3> SUFFICES ASSUME NEW t \in Slots, cpc[t] = "exited", srcaddr[t] = a
                 PROVE  FALSE
      BY DEF Ended
    <3>1. t = s
      BY <1>6, AddressAssumption DEF OneSlotPerSource
    <3> QED
      BY <1>1, <3>1
  <2>3. Ended' = Ended \cup {a}
    BY <1>3, <1>5, <1>6 DEF Ended
  <2>4. MappedRoutes[a] # {}
    BY <1>6, <2>1 DEF MappedRoutes
  <2>5. Service!End(a)
    BY <1>4, <2>2, <2>3, <2>4 DEF Service!End, MappedRoutes, MappedAsked, Stray
  <2> QED
    BY <1>6, <2>5
<1>7. CASE a \notin Sources
  <2>1. Ended' = Ended
    BY <1>3, <1>5, <1>7 DEF Ended
  <2> QED
    BY <1>4, <2>1 DEF mapped
<1> QED
  BY <1>6, <1>7

LEMMA StutterSteps ==
    ASSUME TypeOK,
           \/ HandshakeCut \/ Refuse \/ TableFull \/ Reply \/ UNCHANGED vars
           \/ \E s \in Slots : Bind(s) \/ RecvSource(s) \/ RecvDest(s) \/ DestSend(s)
           \/ \E s \in Slots, p \in Packets : SourceSend(s, p)
    PROVE  UNCHANGED mapped
<1>1. UNCHANGED <<srcaddr, dst, num_hops, delivered, request>>
  BY DEF HandshakeCut, Refuse, TableFull, TurnAway, Reply, Bind, RecvSource, RecvDest,
     SourceSend, DestSend, vars, routeVars, cliVars, outVars
<1>2. \A t \in Slots : cpc'[t] = "exited" <=> cpc[t] = "exited"
  <2>1. CASE \E s \in Slots : Bind(s) \/ RecvSource(s) \/ RecvDest(s)
    BY <2>1 DEF Bind, RecvSource, RecvDest, ProcessTypeOK
  <2>2. CASE UNCHANGED cpc
    BY <2>2
  <2> QED
    BY <2>1, <2>2
    DEF HandshakeCut, Refuse, TableFull, TurnAway, Reply, SourceSend, DestSend, vars,
        childVars
<1>3. Ended' = Ended
  BY <1>1, <1>2 DEF Ended
<1> QED
  BY <1>1, <1>3, SameAsked DEF mapped, MappedRoutes, RoutesOf, Carried

\* While no source registers more destinations than a slot has room for, every
\* behaviour of the daemon is one of RelayService: nothing is carried to a host
\* that was not asked for, for the packet's source or for one that was mistyped,
\* nor after the session.
THEOREM ImplementsService == ASSUME Fits PROVE Spec => ServiceSpec
<1>1. Init => Service!Init
  <2> SUFFICES ASSUME Init PROVE Service!Init
    OBVIOUS
  <2>1. \A s \in Slots : num_hops[s] = 0 /\ cpc[s] = "none"
    BY DEF Init, InitTable, InitChildren
  <2>2. \A a \in Sources : RoutesOf(a) = {}
    BY <2>1 DEF RoutesOf
  <2>3. Ended = {}
    BY <2>1 DEF Ended
  <2>4. Carried = [a \in Sources |-> [d \in Dests |-> 0]]
    BY DEF Init, InitNetwork, Carried
  <2>5. \A a : AskedFor(a) = {}
    BY DEF Init, InitClients, NoRequest, AskedFor, Asking
  <2> QED
    BY <2>2, <2>3, <2>4, <2>5 DEF Service!Init
<1>2. TypeOK /\ OneSlotPerSource /\ OneSlotPerSource' /\ AllTurns /\ IdleInv
        /\ RouteInv /\ [Next]_vars
        => [Service!Next]_Service!vars
  <2> SUFFICES ASSUME TypeOK, OneSlotPerSource, OneSlotPerSource', AllTurns, IdleInv,
                      RouteInv, [Next]_vars
               PROVE  Service!Next \/ UNCHANGED mapped
    BY DEF Service!vars, mapped, MappedRoutes, MappedAsked, Stray
  <2>1. CASE Register
    BY <2>1, RegisterTakesOver DEF Service!Next
  <2>2. CASE AddHop \/ Fork \/ ForkFails
    BY <2>2, PublishAddsRoute DEF Service!Next
  <2>3. CASE \E s \in Slots : Forward(s)
    BY <2>3, ForwardCarries DEF Service!Next
  <2>4. CASE \E s \in Slots : Timeout(s)
    BY <2>4, TimeoutEnds DEF Service!Next
  <2>5. CASE \E c \in Clients, r \in Requests : Connect(c, r)
    BY <2>5, ConnectAsks DEF Service!Next
  <2>6. CASE \/ HandshakeCut \/ Refuse \/ TableFull \/ Reply \/ UNCHANGED vars
             \/ \E s \in Slots : \/ Bind(s) \/ RecvSource(s) \/ RecvDest(s)
                                 \/ DestSend(s)
             \/ \E s \in Slots, p \in Packets : SourceSend(s, p)
    BY <2>6, StutterSteps
  <2> QED
    BY <2>1, <2>2, <2>3, <2>4, <2>5, <2>6 DEF Next, Parent, Child, Environment
<1> QED
  BY <1>1, <1>2, TypeCorrect, TableCorrect, TurnsInvariant, IdleInvariant,
     RouteInvariant, PTL
  DEF Spec, ServiceSpec, Service!Spec
-----------------------------------------------------------------------------
(* The counts tell what was sent                                           *)

SentIsCounted ==
    \A s \in Slots : srcaddr[s] # NoAddr =>
      \A d \in Dests : sent[srcaddr[s]][d] = Cardinality(Counted(s, d))

\* A hop that is not published has not been counted, nor any hop of a slot
\* without a source, and nothing has been sent for a source without a slot.
StatsInv ==
    /\ SentIsCounted
    /\ \A s \in Slots : \A h \in Hops \ {SESSIONS} :
         h >= num_hops[s] \/ srcaddr[s] = NoAddr => stats[s][h] = 0
    /\ \A a \in Sources : (\A s \in Slots : srcaddr[s] # a) =>
         \A d \in Dests : sent[a][d] = 0
    /\ \A a \in Sources, d \in Dests : delivered[a][d] <= sent[a][d]

LEMMA CountedMember ==
    ASSUME NEW s, NEW d
    PROVE  \A x : x \in Counted(s, d) <=>
             \E h \in 0 .. (num_hops[s] - 1) : \E i \in 1 .. stats[s][h] :
               dst[s][h] = d /\ x = <<h, i>>
  BY DEF Counted

LEMMA CountedFinite ==
    ASSUME TypeOK, Fits, NEW s \in Slots, NEW d
    PROVE  IsFiniteSet(Counted(s, d))
<1> DEFINE H == {g \in 0 .. (num_hops[s] - 1) : dst[s][g] = d}
           Of(h) == {h} \X (1 .. stats[s][h])
           f == [h \in H |-> Of(h)]
           T == {Of(h) : h \in H}
<1>1. num_hops[s] \in Nat /\ num_hops[s] <= SESSIONS /\ stats[s] \in [Hops -> Nat]
  BY SessionsAssumption, BoundsAssumption DEF TypeOK, TableTypeOK, Fits
<1>2. IsFiniteSet(H)
  <2>1. IsFiniteSet(0 .. (num_hops[s] - 1))
    BY <1>1, FS_Interval
  <2> QED
    BY <2>1, FS_Subset
<1>3. f \in Surjection(H, T)
  BY DEF Surjection
<1>4. IsFiniteSet(T)
  <2> HIDE DEF f, T, H
  <2> QED
    BY <1>2, <1>3, FS_Surjection
<1>5. ASSUME NEW h \in H PROVE IsFiniteSet(Of(h))
  <2>1. stats[s][h] \in Nat
    BY <1>1, SessionsAssumption DEF Hops
  <2>2. IsFiniteSet(1 .. stats[s][h])
    <3>1. 1 \in Int /\ stats[s][h] \in Int
      BY <2>1
    <3> QED
      BY ONLY <3>1, FS_Interval
  <2>3. IsFiniteSet({h})
    BY FS_Singleton
  <2> QED
    BY <2>2, <2>3, FS_Product
<1>6. IsFiniteSet(UNION T)
  <2>1. \A t \in T : IsFiniteSet(t)
    BY <1>5
  <2> HIDE DEF T
  <2> QED
    BY <1>4, <2>1, FS_UNION
<1>7. Counted(s, d) = UNION T
  BY DEF Counted
<1> QED
  BY <1>6, <1>7

\* While no slot overflows, a published hop is not the entry past the arrays.
LEMMA HopInArray ==
    ASSUME Fits, TypeOK, NEW t \in Slots, NEW h \in 0 .. (num_hops[t] - 1)
    PROVE  h \in Hops \ {SESSIONS} /\ h < num_hops[t]
<1>1. num_hops[t] \in Nat /\ num_hops[t] <= SESSIONS
  BY SessionsAssumption, BoundsAssumption DEF TypeOK, TableTypeOK, Fits
<1> QED
  BY <1>1, SessionsAssumption DEF Hops

LEMMA SameCounted ==
    ASSUME Fits, TypeOK, NEW t \in Slots, NEW d,
           num_hops'[t] = num_hops[t],
           \A h \in Hops \ {SESSIONS} : stats'[t][h] = stats[t][h],
           \A h \in 0 .. (num_hops[t] - 1) : dst'[t][h] = dst[t][h]
    PROVE  Counted(t, d)' = Counted(t, d)
<1>1. \A h \in 0 .. (num_hops[t] - 1) : stats'[t][h] = stats[t][h]
  BY HopInArray
<1>2. \A x : x \in Counted(t, d)' <=>
        \E h \in 0 .. (num_hops[t] - 1) : \E i \in 1 .. stats'[t][h] :
          dst'[t][h] = d /\ x = <<h, i>>
  BY DEF Counted
<1>3. \A x : x \in Counted(t, d)' <=> x \in Counted(t, d)
  BY <1>1, <1>2, CountedMember
<1> QED
  BY <1>3

\* A registration changes no hop that is counted; a source that gets a slot,
\* with the hops of a mistyped one or without, has had nothing sent.
LEMMA RegisterStats ==
    ASSUME Fits, TypeOK, OneSlotPerSource', StatsInv, Register
    PROVE  StatsInv'
<1>1. PICK s \in Slots, a \in Sources \cup {NoAddr} :
        /\ srcaddr[s] \in {NoAddr, a} /\ srcaddr'[s] = a
        /\ \A h \in 0 .. (num_hops[s] - 1) : dst'[s][h] = dst[s][h]
        /\ \A t \in Slots : t # s =>
             srcaddr'[t] = srcaddr[t] /\ dst'[t] = dst[t]
  BY RegisterWrites
<1>2. UNCHANGED <<num_hops, stats, sent, delivered>>
  BY DEF Register, turnVars, outVars
<1>3. ASSUME NEW t \in Slots, NEW d \in Dests
      PROVE  Counted(t, d)' = Counted(t, d)
  BY <1>1, <1>2, SameCounted
<1>4. ASSUME NEW d \in Dests, a # NoAddr
      PROVE  sent[a][d] = Cardinality(Counted(s, d))
  <2>1. CASE srcaddr[s] = a
    BY <1>4, <2>1 DEF StatsInv, SentIsCounted
  <2>2. CASE srcaddr[s] # a
    <3>1. srcaddr[s] = NoAddr /\ a \in Sources
      BY <1>1, <1>4, <2>2
    <3>2. \A t \in Slots : srcaddr[t] # a
      <4> SUFFICES ASSUME NEW t \in Slots, srcaddr[t] = a PROVE FALSE
        OBVIOUS
      <4>1. t # s /\ srcaddr'[t] = a
        BY <1>1, <2>2
      <4> QED
        BY <1>1, <1>4, <4>1 DEF OneSlotPerSource
    <3>3. sent[a][d] = 0
      BY <3>1, <3>2 DEF StatsInv
    <3>4. \A h \in 0 .. (num_hops[s] - 1) : stats[s][h] = 0
      BY <3>1, HopInArray DEF StatsInv
    <3>5. Counted(s, d) = {}
      BY <3>4, CountedMember
    <3> QED
      BY <3>3, <3>5, FS_EmptySet
  <2> QED
    BY <2>1, <2>2
<1>5. SentIsCounted'
  <2> SUFFICES ASSUME NEW t \in Slots, srcaddr'[t] # NoAddr, NEW d \in Dests
               PROVE  sent[srcaddr'[t]][d] = Cardinality(Counted(t, d))
    BY <1>2, <1>3 DEF SentIsCounted
  <2>1. CASE t = s
    BY <1>1, <1>4, <2>1
  <2>2. CASE t # s
    BY <1>1, <2>2 DEF StatsInv, SentIsCounted
  <2> QED
    BY <2>1, <2>2
<1>6. ASSUME NEW b \in Sources, \A t \in Slots : srcaddr'[t] # b, NEW d \in Dests
      PROVE  sent[b][d] = 0
  <2>1. b # NoAddr /\ b # a
    BY <1>1, <1>6, AddressAssumption
  <2>2. \A t \in Slots : srcaddr[t] # b
    BY <1>1, <1>6, <2>1
  <2> QED
    BY <2>2 DEF StatsInv
<1>7. \A t \in Slots : srcaddr'[t] = NoAddr => srcaddr[t] = NoAddr
  BY <1>1
<1> QED
  BY <1>2, <1>5, <1>6, <1>7 DEF StatsInv

\* A hop that is published has not been counted yet.
LEMMA PublishStats ==
    ASSUME Fits, TypeInv, StatsInv, AddHop \/ Fork \/ ForkFails
    PROVE  StatsInv'
<1>1. /\ slot \in Slots /\ ppc = "count" /\ UNCHANGED <<srcaddr, dst, sent, delivered>>
      /\ num_hops'[slot] = num_hops[slot] + 1
      /\ \A t \in Slots : t # slot => num_hops'[t] = num_hops[t]
  BY PublishWrites DEF TypeInv
<1>2. stats' = stats
  BY DEF AddHop, Fork, ForkFails, turnVars
<1>3. \A t \in Slots : num_hops[t] \in Nat
  BY CounterTypes DEF TypeInv
<1>4. num_hops[slot] \in Hops \ {SESSIONS}
  <2>1. num_hops[slot] < SESSIONS
    BY <1>1, <1>3, SessionsAssumption, BoundsAssumption DEF TypeInv, StepInv, Fits
  <2> QED
    BY <1>1, <1>3, <2>1, SessionsAssumption DEF Hops
<1>5. stats[slot][num_hops[slot]] = 0
  BY <1>1, <1>3, <1>4 DEF StatsInv
<1>6. ASSUME NEW t \in Slots, NEW d \in Dests
      PROVE  Counted(t, d)' = Counted(t, d)
  <2>1. \A h : h \in 0 .. (num_hops'[t] - 1) <=>
          h \in 0 .. (num_hops[t] - 1) \/ (t = slot /\ h = num_hops[t])
    BY <1>1, <1>3
  <2>2. \A x : x \in Counted(t, d)' <=>
          \E h \in 0 .. (num_hops'[t] - 1) : \E i \in 1 .. stats[t][h] :
            dst[t][h] = d /\ x = <<h, i>>
    BY <1>1, <1>2 DEF Counted
  <2>3. t = slot => ~ \E i : i \in 1 .. stats[t][num_hops[t]]
    BY <1>5
  <2>4. \A x : x \in Counted(t, d)' <=> x \in Counted(t, d)
    BY <2>1, <2>2, <2>3, CountedMember
  <2> QED
    BY <2>4
<1>7. SentIsCounted'
  BY <1>1, <1>6 DEF StatsInv, SentIsCounted
<1>8. ASSUME NEW t \in Slots, NEW h \in Hops \ {SESSIONS},
             h >= num_hops'[t] \/ srcaddr[t] = NoAddr
      PROVE  stats[t][h] = 0
  <2>1. h \in Nat /\ (h >= num_hops[t] \/ srcaddr[t] = NoAddr)
    BY <1>1, <1>3, <1>8, SlotsFacts
  <2> QED
    BY <2>1 DEF StatsInv
<1> QED
  BY <1>1, <1>2, <1>7, <1>8 DEF StatsInv

\* A packet is counted at the hop it is sent to, for the slot's own source.
LEMMA ForwardStats ==
    ASSUME Fits, TypeOK, OneSlotPerSource, AllTurns, RouteInv, StatsInv,
           NEW s \in Slots, Forward(s)
    PROVE  StatsInv'
<1>1. cpc[s] = "send" /\ pkt[s].addr = srcaddr[s] /\ srcaddr[s] # NoAddr
        /\ num_hops[s] > 0
  <2>1. cpc[s] = "send"
    BY DEF Forward
  <2> QED
    BY <2>1, CounterTypes DEF RouteInv, RouteAt
<1>2. /\ hop[s] \in 0 .. (num_hops[s] - 1) /\ num_hops[s] \in Nat
      /\ hop[s] \in Hops \ {SESSIONS}
  <2>1. hop[s] \in 0 .. (num_hops[s] - 1) /\ num_hops[s] \in Nat
    BY <1>1, CounterTypes DEF AllTurns, TurnInv, CurrInv
  <2> QED
    BY <2>1, HopInArray
<1>3. srcaddr[s] \in Sources /\ dst[s][hop[s]] \in Dests
  BY <1>1, <1>2 DEF RouteInv, RouteAt, TableTypeOK
<1>4. PICK a \in Sources, k \in Hops \ {SESSIONS}, e \in Dests :
        a = srcaddr[s] /\ k = hop[s] /\ e = dst[s][k]
  BY <1>2, <1>3
<1> DEFINE x == <<k, stats[s][k] + 1>>
<1>5. UNCHANGED <<srcaddr, dst, num_hops>>
  BY DEF Forward, routeVars
<1>6. /\ stats \in [Slots -> [Hops -> Nat]]
      /\ stats' = [stats EXCEPT ![s] = [stats[s] EXCEPT ![k] = stats[s][k] + 1]]
  BY <1>4 DEF Forward, TableTypeOK
<1>7. /\ sent \in [Sources -> [Dests \cup {BadDst} -> Nat]]
      /\ delivered \in [Sources -> [Dests \cup {BadDst} -> Nat]]
  BY DEF NetworkTypeOK
<1>8. \A b \in Sources, d \in Dests :
        /\ sent'[b][d] = IF b = a /\ d = e THEN sent[b][d] + 1 ELSE sent[b][d]
        /\ \/ delivered'[b][d] = IF b = a /\ d = e THEN delivered[b][d] + 1
                                                    ELSE delivered[b][d]
           \/ delivered'[b][d] = delivered[b][d]
  <2>1. /\ sent' = [sent EXCEPT ![a] = [sent[a] EXCEPT ![e] = sent[a][e] + 1]]
        /\ \/ delivered' = [delivered EXCEPT ![a] =
                              [delivered[a] EXCEPT ![e] = delivered[a][e] + 1]]
           \/ delivered' = delivered
    BY <1>1, <1>4, Zenon DEF Forward
  <2> QED
    BY <2>1, <1>7
<1>9. \A t \in Slots, h \in Hops :
        stats'[t][h] = IF t = s /\ h = k THEN stats[t][h] + 1 ELSE stats[t][h]
  BY <1>6
<1>10. \A t \in Slots : \A h \in 0 .. (num_hops[t] - 1) : h \in Hops /\ h < num_hops[t]
  BY HopInArray
<1>11. ASSUME NEW t \in Slots, NEW d \in Dests, ~(t = s /\ d = e)
       PROVE  Counted(t, d)' = Counted(t, d)
  <2>1. \A h \in 0 .. (num_hops[t] - 1) : dst[t][h] = d => stats'[t][h] = stats[t][h]
    BY <1>4, <1>9, <1>10, <1>11
  <2>2. \A y : y \in Counted(t, d)' <=>
          \E h \in 0 .. (num_hops[t] - 1) : \E i \in 1 .. stats'[t][h] :
            dst[t][h] = d /\ y = <<h, i>>
    BY <1>5 DEF Counted
  <2>3. \A y : y \in Counted(t, d)' <=> y \in Counted(t, d)
    BY <2>1, <2>2, CountedMember
  <2> QED
    BY <2>3
<1>12. Counted(s, e)' = Counted(s, e) \cup {x} /\ x \notin Counted(s, e)
  <2>1. \A y : y \in Counted(s, e)' <=>
          \E h \in 0 .. (num_hops[s] - 1) : \E i \in 1 .. stats'[s][h] :
            dst[s][h] = e /\ y = <<h, i>>
    BY <1>5 DEF Counted
  <2>2. stats[s][k] \in Nat
    BY <1>6
  <2>3. \A h \in 0 .. (num_hops[s] - 1) : \A i :
          i \in 1 .. stats'[s][h] <=>
            i \in 1 .. stats[s][h] \/ (h = k /\ i = stats[s][k] + 1)
    BY <1>9, <1>10, <2>2
  <2>4. dst[s][k] = e /\ k \in 0 .. (num_hops[s] - 1)
    BY <1>2, <1>4
  <2>a. \A y : y \in Counted(s, e) <=>
          \E h \in 0 .. (num_hops[s] - 1) : \E i \in 1 .. stats[s][h] :
            dst[s][h] = e /\ y = <<h, i>>
    BY CountedMember
  <2>5. \A y : y \in Counted(s, e)' <=> y \in Counted(s, e) \/ y = x
    BY ONLY <2>1, <2>a, <2>3, <2>4
  <2>6. ~(stats[s][k] + 1 \in 1 .. stats[s][k])
    BY <2>2
  <2>7. x \notin Counted(s, e)
    BY <2>6, CountedMember
  <2> QED
    BY <2>5, <2>7
<1>13. Cardinality(Counted(s, e)') = Cardinality(Counted(s, e)) + 1
  BY <1>12, CountedFinite, FS_AddElement
<1>14. SentIsCounted'
  <2> SUFFICES ASSUME NEW t \in Slots, srcaddr[t] # NoAddr, NEW d \in Dests
               PROVE  sent'[srcaddr[t]][d] = Cardinality(Counted(t, d)')
    BY <1>5 DEF SentIsCounted
  <2>1. sent[srcaddr[t]][d] = Cardinality(Counted(t, d)) /\ srcaddr[t] \in Sources
    BY DEF StatsInv, SentIsCounted, TableTypeOK
  <2>2. CASE t = s /\ d = e
    BY <1>4, <1>8, <1>13, <2>1, <2>2
  <2>3. CASE ~(t = s /\ d = e)
    <3>1. srcaddr[t] = a => t = s
      BY <1>1, <1>4 DEF OneSlotPerSource
    <3> QED
      BY <1>8, <1>11, <2>1, <2>3, <3>1
  <2> QED
    BY <2>2, <2>3
<1>15. ASSUME NEW t \in Slots, NEW h \in Hops \ {SESSIONS},
              h >= num_hops[t] \/ srcaddr[t] = NoAddr
       PROVE  stats'[t][h] = 0
  <2>1. ~(t = s /\ h = k)
    BY <1>1, <1>2, <1>4, <1>15
  <2> QED
    BY <1>9, <1>15, <2>1 DEF StatsInv
<1>16. ASSUME NEW b \in Sources, \A t \in Slots : srcaddr[t] # b, NEW d \in Dests
       PROVE  sent'[b][d] = 0
  <2>1. b # a
    BY <1>4, <1>16
  <2> QED
    BY <1>8, <1>16, <2>1 DEF StatsInv
<1>17. ASSUME NEW b \in Sources, NEW d \in Dests
       PROVE  delivered'[b][d] <= sent'[b][d]
  <2>1. sent[b][d] \in Nat /\ delivered[b][d] \in Nat /\ delivered[b][d] <= sent[b][d]
    BY <1>7 DEF StatsInv
  <2>2. \/ sent'[b][d] = sent[b][d] + 1 /\
             delivered'[b][d] \in {delivered[b][d], delivered[b][d] + 1}
        \/ sent'[b][d] = sent[b][d] /\ delivered'[b][d] = delivered[b][d]
    BY <1>8
  <2> QED
    BY <2>1, <2>2
<1> QED
  BY <1>5, <1>14, <1>15, <1>16, <1>17 DEF StatsInv

\* The port of the send socket is stored over the entry past the counts.
LEMMA BindStats ==
    ASSUME Fits, TypeOK, StatsInv, NEW s \in Slots, Bind(s)
    PROVE  StatsInv'
<1>1. UNCHANGED <<srcaddr, dst, num_hops, sent, delivered>>
  BY DEF Bind, routeVars, outVars
<1>2. \A t \in Slots, h \in Hops \ {SESSIONS} : stats'[t][h] = stats[t][h]
  BY DEF Bind, TableTypeOK
<1>3. ASSUME NEW t \in Slots, NEW d \in Dests
      PROVE  Counted(t, d)' = Counted(t, d)
  BY <1>1, <1>2, SameCounted
<1> QED
  BY <1>1, <1>2, <1>3 DEF StatsInv, SentIsCounted

LEMMA OtherStats ==
    ASSUME StatsInv,
           \/ HandshakeCut \/ Refuse \/ TableFull \/ Reply \/ Environment
           \/ UNCHANGED vars
           \/ \E s \in Slots : RecvSource(s) \/ RecvDest(s) \/ Timeout(s)
    PROVE  StatsInv'
<1>1. UNCHANGED <<srcaddr, dst, num_hops, sent, delivered>>
  BY OtherWrites DEF RecvSource, RecvDest, Timeout, routeVars, outVars
<1>2. stats' = stats
  BY DEF HandshakeCut, Refuse, TableFull, TurnAway, Reply, Environment, Connect,
         SourceSend, DestSend, RecvSource, RecvDest, Timeout, vars, turnVars
<1> QED
  BY <1>1, <1>2 DEF StatsInv, SentIsCounted, Counted

\* While no slot overflows, the counts that a session prints are the packets
\* that were sent on to its destinations, and no fewer than they received,
\* however many hops lead to one of them and whenever they were registered.
THEOREM StatsCorrect == ASSUME Fits PROVE Spec => []StatsTellSent
<1>1. Init => StatsInv
  <2> SUFFICES ASSUME Init PROVE StatsInv
    OBVIOUS
  <2>1. /\ \A s \in Slots : srcaddr[s] = NoAddr
        /\ \A s \in Slots, h \in Hops : stats[s][h] = 0
        /\ \A a \in Sources, d \in Dests : sent[a][d] = 0 /\ delivered[a][d] = 0
    BY DEF Init, InitTable, InitNetwork
  <2> QED
    BY <2>1 DEF StatsInv, SentIsCounted
<1>2. TypeInv /\ OneSlotPerSource /\ OneSlotPerSource' /\ AllTurns /\ RouteInv
        /\ StatsInv /\ [Next]_vars => StatsInv'
  <2> SUFFICES ASSUME TypeInv, OneSlotPerSource, OneSlotPerSource', AllTurns,
                      RouteInv, StatsInv, [Next]_vars
               PROVE  StatsInv'
    OBVIOUS
  <2>0. TypeOK
    BY DEF TypeInv
  <2>1. CASE Register
    BY ONLY <2>0, <2>1, RegisterStats, Fits, OneSlotPerSource', StatsInv
  <2>2. CASE AddHop \/ Fork \/ ForkFails
    BY <2>2, PublishStats
  <2>3. CASE \E s \in Slots : Forward(s)
    BY ONLY <2>0, <2>3, ForwardStats, Fits, OneSlotPerSource, AllTurns, RouteInv, StatsInv
  <2>4. CASE \E s \in Slots : Bind(s)
    BY ONLY <2>0, <2>4, BindStats, Fits, StatsInv
  <2>5. CASE \/ HandshakeCut \/ Refuse \/ TableFull \/ Reply \/ Environment
             \/ UNCHANGED vars
             \/ \E s \in Slots : RecvSource(s) \/ RecvDest(s) \/ Timeout(s)
    BY <2>5, OtherStats
  <2> QED
    BY <2>1, <2>2, <2>3, <2>4, <2>5 DEF Next, Parent, Child
<1>3. TypeOK /\ StatsInv => StatsTellSent
  <2> SUFFICES ASSUME TypeOK, StatsInv, NEW s \in Slots, srcaddr[s] # NoAddr,
                      NEW d \in Dests
               PROVE  /\ sent[srcaddr[s]][d] = Cardinality(Counted(s, d))
                      /\ delivered[srcaddr[s]][d] <= sent[srcaddr[s]][d]
    BY DEF StatsTellSent
  <2>1. srcaddr[s] \in Sources
    BY DEF TableTypeOK
  <2> QED
    BY <2>1 DEF StatsInv, SentIsCounted
<1> QED
  BY <1>1, <1>2, <1>3, TypeInvariant, TypeCorrect, TableCorrect, TurnsInvariant,
     RouteInvariant, PTL DEF Spec
-----------------------------------------------------------------------------
(* The ports that are printed                                              *)

\* The request of c is for the source of slot s, or for none: a slot that c has
\* registered with a mistyped source may be taken over.  c will not change it.
Serves(c, s) ==
    /\ c \in Clients /\ cstate[c] # "idle"
    /\ request[c].src \in {NoAddr, srcaddr[s]}

AskOK ==
    /\ \A n \in DOMAIN backlog : cstate[backlog[n]] # "idle"
    /\ ppc \in {"count", "reply"} => Serves(conn, slot)
    /\ \A c \in Clients : cstate[c] = "idle" => printed[c] = NoPort

\* Until the first packet srcpt is the port of the child's socket.
PortAt(s) ==
    /\ cpc[s] \in {"none", "bind"} => port[s] = NoPort
    /\ ~first_packet_sent[s] => srcpt[s] = port[s]
    /\ cpc[s] = "bind" => Serves(client[s], s)

PrintedAt(c) ==
    calm[c] /\ printed[c] # NoPort =>
      \E s \in Slots : Serves(c, s) /\ printed[c] = port[s]

PortInv ==
    AskOK /\ (\A s \in Slots : PortAt(s)) /\ (\A c \in Clients : PrintedAt(c))

LEMMA InitPorts == Init => PortInv
  BY DEF Init, InitTable, InitParent, InitClients, InitChildren, InitHistory,
      PortInv, AskOK, PortAt, PrintedAt

\* What Register does to the parent and the table.
LEMMA RegisterFacts ==
    ASSUME TypeOK, Register
    PROVE  /\ Head(backlog) \in Clients /\ conn' = Head(backlog)
           /\ request[Head(backlog)].src \in Sources \cup {NoAddr}
           /\ slot' \in Slots /\ srcaddr'[slot'] = request[Head(backlog)].src
           /\ srcaddr[slot'] \in {NoAddr, request[Head(backlog)].src}
           /\ \A t \in Slots : t # slot' => srcaddr'[t] = srcaddr[t]
           /\ backlog # <<>> /\ backlog' = Tail(backlog) /\ ppc' = "count"
           /\ UNCHANGED <<num_hops, srcpt, turnVars, cliVars, childVars, netVars,
                          outVars>>
<1> DEFINE c == Head(backlog)
<1>1. c \in Clients /\ request[c].src \in Sources \cup {NoAddr}
  <2>1. backlog # <<>> /\ request[c].kind = "good"
    BY DEF Register, Accepts
  <2> QED
    BY <2>1, HeadOfBacklog DEF GoodRequests
<1>2. PICK s \in Slots :
        /\ FirstMatch(s, request[c].src)
        /\ srcaddr' = [srcaddr EXCEPT ![s] = request[c].src]
        /\ conn' = c /\ slot' = s
  BY DEF Register
<1>3. srcaddr[s] \in {NoAddr, request[c].src}
  BY <1>2 DEF FirstMatch, Matches
<1>4. srcaddr'[s] = request[c].src /\ \A t \in Slots : t # s => srcaddr'[t] = srcaddr[t]
  BY <1>2 DEF TableTypeOK
<1> QED
  BY <1>1, <1>2, <1>3, <1>4 DEF Register, Accepts

LEMMA KeepsServing ==
    ASSUME TypeOK, [Next]_vars, NEW s \in Slots, NEW c, Serves(c, s)
    PROVE  Serves(c, s)'
<1>1. c \in Clients /\ cstate'[c] # "idle" /\ request'[c] = request[c]
  BY AsksOnce DEF Serves
<1>2. srcaddr'[s] = srcaddr[s] \/ srcaddr[s] = NoAddr
  <2>1. CASE Register
    BY <2>1, RegisterFacts
  <2>2. CASE UNCHANGED srcaddr
    BY <2>2
  <2> QED
    BY <2>1, <2>2, WhoWritesSrcaddr
<1> QED
  BY <1>1, <1>2 DEF Serves

\* The listen queue holds only who has asked.
LEMMA NextAsked ==
    ASSUME TypeOK, PortInv, [Next]_vars
    PROVE  AskOK'
<1> USE DEF PortInv, AskOK, ProcessTypeOK
<1>b. backlog \in Seq(Clients) /\ \A n \in DOMAIN backlog : backlog[n] \in Clients
  OBVIOUS
<1>1. \A n \in DOMAIN backlog' : cstate'[backlog'[n]] # "idle"
  <2>1. CASE UNCHANGED backlog
    BY ONLY <1>b, <2>1, AsksOnce, AskOK, TypeOK, [Next]_vars
  <2>2. CASE backlog' = <<>>
    BY <2>2
  <2>3. CASE backlog # <<>> /\ backlog' = Tail(backlog)
    <3>1. \A n \in DOMAIN backlog' : n + 1 \in DOMAIN backlog /\ backlog'[n] = backlog[n + 1]
      BY <1>b, <2>3
    <3> QED
      BY ONLY <1>b, <3>1, AsksOnce, AskOK, TypeOK, [Next]_vars
  <2>4. ASSUME NEW c \in Clients, NEW r \in Requests, Connect(c, r)
        PROVE  \A n \in DOMAIN backlog' : cstate'[backlog'[n]] # "idle"
    <3>1. \A n \in DOMAIN backlog' :
            (n \in DOMAIN backlog /\ backlog'[n] = backlog[n]) \/ backlog'[n] = c
      BY <1>b, <2>4 DEF Connect
    <3>2. cstate'[c] = "waiting"
      BY <2>4 DEF Connect
    <3> QED
      BY ONLY <1>b, <3>1, <3>2, AsksOnce, AskOK, TypeOK, [Next]_vars
  <2>5. \/ UNCHANGED backlog \/ backlog' = <<>>
        \/ backlog # <<>> /\ backlog' = Tail(backlog)
        \/ \E c \in Clients, r \in Requests : Connect(c, r)
    BY DEF Next, Parent, Child, Environment, HandshakeCut, Refuse, TableFull,
       TurnAway, Accepts, Register, AddHop, Reply, Fork, ForkFails, Bind,
       RecvSource, Forward, RecvDest, Timeout, SourceSend, DestSend, vars
  <2> QED
    BY <2>1, <2>2, <2>3, <2>4, <2>5
<1>2. ppc' \in {"count", "reply"} => Serves(conn, slot)'
  <2>1. CASE Register
    <3>1. Head(backlog) = backlog[1] /\ 1 \in DOMAIN backlog
      BY <1>b, <2>1, RegisterFacts
    <3>2. cstate[Head(backlog)] # "idle"
      BY <3>1
    <3> QED
      BY <2>1, <3>2, RegisterFacts DEF Serves, cliVars
  <2>2. CASE ~Register
    <3>1. ppc' \in {"count", "reply"} =>
            ppc \in {"count", "reply"} /\ UNCHANGED <<conn, slot>>
      BY <2>2
      DEF Next, Parent, Child, Environment, HandshakeCut, Refuse, TableFull,
          TurnAway, AddHop, Reply, Fork, ForkFails, Bind, RecvSource, Forward,
          RecvDest, Timeout, SourceSend, DestSend, Connect, vars, parentVars
    <3>2. slot \in Slots
      OBVIOUS
    <3> QED
      BY <3>1, <3>2, KeepsServing DEF Serves
  <2> QED
    BY <2>1, <2>2
<1>3. \A c \in Clients : cstate'[c] = "idle" => printed'[c] = NoPort
  <2> SUFFICES ASSUME NEW c \in Clients, cstate'[c] = "idle" PROVE printed'[c] = NoPort
    OBVIOUS
  <2>1. cstate[c] = "idle"
    BY AsksOnce
  <2>2. printed[c] = NoPort
    BY <2>1
  <2>3. CASE Refuse \/ TableFull \/ Reply \/ ForkFails \/ \E s \in Slots : Bind(s)
    BY <2>2, <2>3
    DEF Refuse, TableFull, TurnAway, Answer, Reply, ForkFails, Bind
  <2>4. CASE UNCHANGED printed
    BY <2>2, <2>4
  <2> QED
    BY <2>3, <2>4
    DEF Next, Parent, Child, Environment, HandshakeCut, Register, AddHop, Fork,
        RecvSource, Forward, RecvDest, Timeout, SourceSend, DestSend, Connect,
        vars, cliVars
<1> QED
  BY <1>1, <1>2, <1>3

\* A child's port is chosen once, and srcpt leaves it at the first packet.
LEMMA NextPortAt ==
    ASSUME TypeOK, AllTurns, PortInv, [Next]_vars, NEW s \in Slots
    PROVE  PortAt(s)'
<1> USE DEF ProcessTypeOK, TableTypeOK
<1>1. PortAt(s) /\ AskOK
  BY DEF PortInv
<1>2. CASE UNCHANGED <<cpc[s], port[s], srcpt[s], first_packet_sent[s], client[s]>>
  BY <1>1, <1>2, KeepsServing DEF PortAt
<1>3. CASE Fork
  <2>1. CASE slot = s
    <3>1. cpc[s] = "none" /\ cpc'[s] = "bind" /\ client'[s] = conn
          /\ UNCHANGED <<port, srcpt, first_packet_sent>> /\ ppc = "count"
      BY <1>3, <2>1 DEF Fork, AllTurns, TurnInv, CurrInv
    <3>2. Serves(conn, s)
      BY <1>1, <2>1, <3>1 DEF AskOK
    <3>3. Serves(client[s], s)'
      BY <3>1, <3>2, KeepsServing DEF Serves
    <3> QED
      BY <1>1, <3>1, <3>3 DEF PortAt
  <2>2. CASE slot # s
    BY <1>2, <1>3, <2>2 DEF Fork
  <2> QED
    BY <2>1, <2>2
<1>4. ASSUME NEW t \in Slots, Child(t) PROVE PortAt(s)'
  <2>1. CASE t # s
    BY <1>2, <1>4, <2>1
    DEF Child, Bind, RecvSource, Forward, RecvDest, Timeout
  <2>2. CASE Bind(s)
    <3>1. cpc'[s] = "select" /\ port'[s] = srcpt'[s]
      BY <2>2 DEF Bind
    <3> QED
      BY <3>1 DEF PortAt
  <2>3. CASE RecvSource(s) \/ RecvDest(s)
    <3>1. first_packet_sent'[s] /\ cpc[s] \in {"select", "dest"}
          /\ cpc'[s] \in {"select", "send"}
      BY <2>3 DEF RecvSource, RecvDest
    <3> QED
      BY <3>1 DEF PortAt
  <2>4. CASE Forward(s) \/ Timeout(s)
    <3>1. cpc'[s] \in {"select", "dest", "exited"}
          /\ UNCHANGED <<port, srcpt, first_packet_sent>>
      BY <2>4 DEF Forward, Timeout
    <3> QED
      BY <1>1, <3>1 DEF PortAt
  <2> QED
    BY <1>4, <2>1, <2>2, <2>3, <2>4 DEF Child
<1>5. CASE \/ HandshakeCut \/ Refuse \/ TableFull \/ Register \/ AddHop \/ Reply
           \/ ForkFails \/ Environment \/ UNCHANGED vars
  BY <1>2, <1>5
  DEF HandshakeCut, Refuse, TableFull, TurnAway, Register, AddHop, Reply,
      ForkFails, Environment, Connect, SourceSend, DestSend, vars, childVars
<1> QED
  BY <1>3, <1>4, <1>5 DEF Next, Parent

\* Who prints a port prints that of the child of its source.
LEMMA NextPrinted ==
    ASSUME TypeOK, PortInv, [Next]_vars, NEW c \in Clients
    PROVE  PrintedAt(c)'
<1> USE DEF ProcessTypeOK, TableTypeOK, NetworkTypeOK
<1>1. PrintedAt(c) /\ AskOK
  BY DEF PortInv
<1>2. SUFFICES ASSUME calm'[c], printed'[c] # NoPort
               PROVE  \E s \in Slots : Serves(c, s)' /\ printed'[c] = port'[s]
  BY DEF PrintedAt
<1>3. CASE \E s \in Slots : Bind(s) /\ client[s] = c
  <2>1. PICK s \in Slots : Bind(s) /\ client[s] = c
    BY <1>3
  <2>2. cpc[s] = "bind" /\ printed'[c] = port'[s]
    BY <2>1 DEF Bind, Answer
  <2>3. Serves(c, s)
    BY <2>1, <2>2 DEF PortInv, PortAt
  <2> QED
    BY <2>2, <2>3, KeepsServing
<1>4. CASE Reply /\ conn = c
  <2>1. /\ slot \in Slots /\ printed'[c] = srcpt[slot] /\ ~first_packet_sent[slot]
        /\ ppc = "reply" /\ UNCHANGED port
    BY <1>2, <1>4 DEF Reply, Answer, childVars
  <2>2. srcpt[slot] = port[slot]
    BY <2>1 DEF PortInv, PortAt
  <2>3. Serves(c, slot)
    BY <1>1, <1>4, <2>1 DEF AskOK
  <2> QED
    BY <2>1, <2>2, <2>3, KeepsServing
<1>5. CASE /\ ~\E s \in Slots : Bind(s) /\ client[s] = c
           /\ ~(Reply /\ conn = c)
  <2>1. printed'[c] = printed[c]
    <3>1. CASE Refuse \/ TableFull \/ ForkFails
      BY <1>2, <3>1 DEF Refuse, TableFull, TurnAway, Answer, ForkFails
    <3>2. CASE Reply
      BY <1>5, <3>2 DEF Reply, Answer
    <3>3. ASSUME NEW s \in Slots, Bind(s) PROVE printed'[c] = printed[c]
      <4>1. client[s] # c
        BY <1>5, <3>3
      <4>2. \E p \in Ports : printed' = [printed EXCEPT ![client[s]] = p]
        BY <3>3 DEF Bind, Answer
      <4> QED
        BY ONLY <4>1, <4>2
    <3>4. CASE UNCHANGED printed
      BY <3>4
    <3> QED
      BY <3>1, <3>2, <3>3, <3>4
      DEF Next, Parent, Child, Environment, HandshakeCut, Register, AddHop, Fork,
          RecvSource, Forward, RecvDest, Timeout, SourceSend, DestSend, Connect,
          vars, cliVars
  <2>2. cstate[c] # "idle"
    BY <1>1, <1>2, <2>1 DEF AskOK
  <2>3. calm[c]
    <3>1. CASE \E d \in Clients, r \in Requests : Connect(d, r)
      BY <1>2, <2>2, <3>1 DEF Connect
    <3>2. CASE Reply
      BY <1>2, <1>5, <3>2 DEF Reply
    <3>3. CASE UNCHANGED calm
      BY <1>2, <3>3
    <3> QED
      BY <3>1, <3>2, <3>3
      DEF Next, Parent, Child, Environment, HandshakeCut, Refuse, TableFull,
          TurnAway, Register, AddHop, Fork, ForkFails, Bind, RecvSource, Forward,
          RecvDest, Timeout, SourceSend, DestSend, vars, cliVars
  <2>4. PICK s \in Slots : Serves(c, s) /\ printed[c] = port[s]
    BY <1>1, <1>2, <2>1, <2>3 DEF PrintedAt
  <2>5. port'[s] = port[s]
    <3>1. cpc[s] # "bind"
      BY <1>2, <2>1, <2>4 DEF PortInv, PortAt
    <3>2. CASE \E t \in Slots : Bind(t)
      BY <3>1, <3>2 DEF Bind
    <3>3. CASE UNCHANGED port
      BY <3>3
    <3> QED
      BY <3>2, <3>3
      DEF Next, Parent, Child, Environment, HandshakeCut, Refuse, TableFull,
          TurnAway, Register, AddHop, Reply, Fork, ForkFails, RecvSource, Forward,
          RecvDest, Timeout, SourceSend, DestSend, Connect, vars, childVars
  <2> QED
    BY <2>1, <2>4, <2>5, KeepsServing
<1> QED
  BY <1>3, <1>4, <1>5

LEMMA PortsInvariant == Spec => []PortInv
<1>1. TypeOK /\ AllTurns /\ PortInv /\ [Next]_vars => PortInv'
  <2> SUFFICES ASSUME TypeOK, AllTurns, PortInv, [Next]_vars PROVE PortInv'
    OBVIOUS
  <2> QED
    BY NextAsked, NextPortAt, NextPrinted DEF PortInv
<1> QED
  BY <1>1, InitPorts, TypeCorrect, TurnsInvariant, PTL DEF Spec

\* "Same source, same session": tunnelcli answered before the source's traffic
\* starts print one port, although the parent reads srcpt while the child it
\* forked is still looking for that port.
THEOREM SamePortCorrect == Spec => []SamePortWhenQuiet
<1>1. PortInv /\ OneSlotPerSource => SamePortWhenQuiet
  BY AddressAssumption
  DEF PortInv, PrintedAt, Serves, OneSlotPerSource, SamePortWhenQuiet
<1> QED
  BY <1>1, PortsInvariant, TableCorrect, PTL
-----------------------------------------------------------------------------
(* Where the replies go                                                    *)

\* srcpt is the child's own port until it has read a packet of its source, and
\* then the port of the last one; the slot keeps its source from then on.
ReplyAt(s) ==
    /\ cpc[s] \in {"none", "bind"} => pkt[s] = NoPacket /\ bounced[s] = {}
    /\ cpc[s] \notin {"none", "bind"} =>
         IF pkt[s] = NoPacket
           THEN srcpt[s] = port[s]
           ELSE /\ pkt[s] = [addr |-> srcaddr[s], pt |-> srcpt[s]]
                /\ srcaddr[s] # NoAddr
    /\ \A b \in bounced[s] :
         IF b.last = NoPacket THEN b.to.pt = port[s] ELSE b.to = b.last

ReplyInv == \A s \in Slots : ReplyAt(s)

Traffic(s) == <<srcaddr[s], cpc[s], pkt[s], srcpt[s], port[s], bounced[s]>>

LEMMA TrafficFrame ==
    ASSUME NEW s \in Slots, ReplyAt(s), Traffic(s)' = Traffic(s)
    PROVE  ReplyAt(s)'
  BY DEF Traffic, ReplyAt

LEMMA InitReplies == Init => ReplyInv
  BY DEF Init, InitChildren, InitNetwork, ReplyInv, ReplyAt

\* The parent's steps: a slot that gets a source has had no packet of one.
LEMMA ParentReplies ==
    ASSUME TypeOK, AllTurns, NEW s \in Slots, ReplyAt(s), Parent
    PROVE  ReplyAt(s)'
<1> USE DEF TableTypeOK, ProcessTypeOK, NetworkTypeOK
<1>1. CASE Register
  <2>1. UNCHANGED <<cpc, pkt, srcpt, port, bounced>>
    BY <1>1, RegisterFacts DEF childVars, outVars
  <2>2. srcaddr'[s] = srcaddr[s] \/ srcaddr[s] = NoAddr
    BY <1>1, RegisterFacts
  <2> QED
    BY <2>1, <2>2 DEF ReplyAt
<1>2. CASE AddHop \/ Fork \/ ForkFails
  <2>1. UNCHANGED <<srcaddr, pkt, srcpt, port, bounced>>
    BY <1>2 DEF AddHop, Fork, ForkFails, CountHop, childVars, outVars
  <2>2. cpc'[s] = cpc[s] \/ (cpc[s] = "none" /\ cpc'[s] = "bind")
    BY <1>2 DEF AddHop, Fork, ForkFails, childVars, AllTurns, TurnInv, CurrInv
  <2> QED
    BY <2>1, <2>2 DEF ReplyAt
<1>3. CASE HandshakeCut \/ Refuse \/ TableFull \/ Reply
  <2>1. Traffic(s)' = Traffic(s)
    BY <1>3
    DEF HandshakeCut, Refuse, TableFull, TurnAway, Reply, routeVars, childVars,
        outVars, Traffic
  <2> QED
    BY <2>1, TrafficFrame
<1> QED
  BY <1>1, <1>2, <1>3 DEF Parent

\* The child's steps: srcpt changes with the packet read.
LEMMA ChildReplies ==
    ASSUME TypeOK, NEW s \in Slots, ReplyAt(s), Child(s)
    PROVE  ReplyAt(s)'
<1> USE DEF TableTypeOK, ProcessTypeOK, NetworkTypeOK
<1>1. CASE Bind(s)
  <2>1. /\ cpc[s] = "bind" /\ cpc'[s] = "select" /\ srcpt'[s] = port'[s]
        /\ UNCHANGED <<pkt, bounced>>
    BY <1>1 DEF Bind, outVars
  <2> QED
    BY <2>1 DEF ReplyAt
<1>2. CASE RecvSource(s)
  <2> DEFINE p == Head(rcvq[s])
  <2>1. p \in Packets /\ cpc[s] = "select"
    BY <1>2 DEF RecvSource
  <2>2. UNCHANGED <<srcaddr, port, bounced>>
    BY <1>2 DEF RecvSource, routeVars, outVars
  <2>3. CASE AddressMatches(p, s)
    <3>1. cpc'[s] = "send" /\ pkt'[s] = p /\ srcpt'[s] = p.pt
      BY <1>2, <2>3 DEF RecvSource
    <3>2. p.addr = srcaddr[s]
      BY <2>3 DEF AddressMatches
    <3> HIDE DEF p
    <3>3. p = [addr |-> srcaddr[s], pt |-> p.pt] /\ srcaddr[s] # NoAddr /\ p # NoPacket
      BY <2>1, <3>2, AddressAssumption DEF Packets, NoPacket
    <3> QED
      BY <2>1, <2>2, <3>1, <3>3 DEF ReplyAt
  <2>4. CASE ~AddressMatches(p, s)
    <3>1. UNCHANGED <<srcpt, pkt, cpc>>
      BY <1>2, <2>4 DEF RecvSource
    <3> QED
      BY <2>2, <3>1 DEF ReplyAt
  <2> QED
    BY <2>3, <2>4
<1>3. CASE Forward(s) \/ Timeout(s)
  <2>1. /\ cpc[s] \in {"send", "select"} /\ cpc'[s] \in {"dest", "select", "exited"}
        /\ UNCHANGED <<srcaddr, pkt, srcpt, port, bounced>>
    BY <1>3 DEF Forward, Timeout, routeVars, outVars
  <2> QED
    BY <2>1 DEF ReplyAt
<1>4. CASE RecvDest(s)
  <2> DEFINE b == [to |-> [addr |-> srcaddr[s], pt |-> srcpt[s]], last |-> pkt[s]]
  <2>1. /\ cpc[s] \notin {"none", "bind"} /\ cpc'[s] = "select"
        /\ bounced'[s] = bounced[s] \cup {b}
        /\ UNCHANGED <<srcaddr, pkt, srcpt, port>>
    BY <1>4 DEF RecvDest, routeVars
  <2>2. IF b.last = NoPacket THEN b.to.pt = port[s] ELSE b.to = b.last
    BY <2>1 DEF ReplyAt
  <2> HIDE DEF b
  <2> QED
    BY <2>1, <2>2 DEF ReplyAt
<1> QED
  BY <1>1, <1>2, <1>3, <1>4 DEF Child

\* A step of another slot's child, or of the hosts and tunnelclis.
LEMMA OtherReplies ==
    ASSUME TypeOK, NEW s \in Slots,
           \/ UNCHANGED vars
           \/ Environment
           \/ \E t \in Slots : t # s /\ Child(t)
    PROVE  Traffic(s)' = Traffic(s)
<1>1. CASE UNCHANGED vars \/ Environment
  BY <1>1
  DEF vars, Environment, Connect, SourceSend, DestSend, Traffic, routeVars,
      childVars, outVars
<1>2. ASSUME NEW t \in Slots, t # s, Child(t) PROVE Traffic(s)' = Traffic(s)
  <2>1. srcaddr'[s] = srcaddr[s]
    BY <1>2 DEF Child, Bind, RecvSource, Forward, RecvDest, Timeout, routeVars
  <2>2. cpc'[s] = cpc[s] /\ pkt'[s] = pkt[s] /\ port'[s] = port[s]
    <3>1. \E x : cpc' = [cpc EXCEPT ![t] = x] \/ cpc' = cpc
      BY <1>2 DEF Child, Bind, RecvSource, Forward, RecvDest, Timeout
    <3>2. \E x : pkt' = [pkt EXCEPT ![t] = x] \/ pkt' = pkt
      BY <1>2 DEF Child, Bind, RecvSource, Forward, RecvDest, Timeout
    <3>3. \E x : port' = [port EXCEPT ![t] = x] \/ port' = port
      BY <1>2 DEF Child, Bind, RecvSource, Forward, RecvDest, Timeout
    <3> QED
      BY <1>2, <3>1, <3>2, <3>3 DEF ProcessTypeOK
  <2>3. srcpt'[s] = srcpt[s]
    BY <1>2
    DEF Child, Bind, RecvSource, Forward, RecvDest, Timeout, TableTypeOK
  <2>4. bounced'[s] = bounced[s]
    BY <1>2
    DEF Child, Bind, RecvSource, Forward, RecvDest, Timeout, outVars, NetworkTypeOK
  <2> QED
    BY <2>1, <2>2, <2>3, <2>4 DEF Traffic
<1> QED
  BY <1>1, <1>2

LEMMA NextReplies ==
    ASSUME TypeOK, AllTurns, ReplyInv, [Next]_vars
    PROVE  ReplyInv'
<1> SUFFICES ASSUME NEW s \in Slots PROVE ReplyAt(s)'
  BY DEF ReplyInv
<1>1. ReplyAt(s)
  BY DEF ReplyInv
<1>2. CASE Parent
  BY ONLY <1>1, <1>2, ParentReplies, TypeOK, AllTurns, s \in Slots
<1>3. CASE Child(s)
  BY ONLY <1>1, <1>3, ChildReplies, TypeOK, s \in Slots
<1>4. CASE \/ UNCHANGED vars
           \/ Environment
           \/ \E t \in Slots : t # s /\ Child(t)
  BY ONLY <1>1, <1>4, OtherReplies, TrafficFrame, TypeOK, s \in Slots
<1> QED
  BY <1>2, <1>3, <1>4 DEF Next

\* tunneld.c:283, 320-325: what reaches a session's send socket, from whomever
\* and whenever, goes to where the session's own source sent its last packet
\* from, and before the first of them to the child's own port: for any number
\* of ports the source changes to, and with the slot taken over or not.
THEOREM RepliesCorrect == Spec => []RepliesReachSource
<1>1. TypeOK /\ AllTurns /\ ReplyInv /\ [Next]_vars => ReplyInv'
  BY NextReplies
<1>2. ReplyInv => RepliesReachSource
  BY DEF ReplyInv, ReplyAt, RepliesReachSource
<1> QED
  BY <1>1, <1>2, InitReplies, TypeCorrect, TurnsInvariant, PTL DEF Spec

-----------------------------------------------------------------------------
(* The connections: the state part of Answered.                            *)

\* The places where the end of a connection is held that can still answer it:
\* the listen queue, the parent between accept() and close(), and a child that
\* has not found its port yet.
Queued == {backlog[n] : n \in DOMAIN backlog}
Serving(c) == ppc \in {"count", "reply"} /\ conn = c
Starting(c, s) == cpc[s] = "bind" /\ client[s] = c

\* A tunnelcli waits exactly as long as its connection is in one of these
\* places, and no connection is in two of them.
HeldOnce ==
    /\ \A c \in Clients :
         cstate[c] = "waiting" <=>
           c \in Queued \/ Serving(c) \/ \E s \in Slots : Starting(c, s)
    /\ \A c \in Clients : c \in Queued => ~Serving(c)
    /\ \A c \in Clients, s \in Slots :
         Starting(c, s) => c \notin Queued /\ ~Serving(c)
    /\ \A c \in Clients : \A s, t \in Slots : Starting(c, s) /\ Starting(c, t) => s = t
    /\ \A m, n \in DOMAIN backlog : backlog[m] = backlog[n] => m = n
    /\ ppc = "exited" => backlog = <<>>

\* A queue without repetition loses its head alone.
LEMMA QueueTail ==
    ASSUME NEW q \in Seq(Clients), q # <<>>,
           \A m, n \in DOMAIN q : q[m] = q[n] => m = n
    PROVE  /\ Head(q) \in {q[n] : n \in DOMAIN q}
           /\ {Tail(q)[n] : n \in DOMAIN Tail(q)} = {q[n] : n \in DOMAIN q} \ {Head(q)}
           /\ \A m, n \in DOMAIN Tail(q) : Tail(q)[m] = Tail(q)[n] => m = n
<1>1. /\ Head(q) = q[1] /\ 1 \in DOMAIN q /\ DOMAIN q = 1 .. Len(q) /\ Len(q) \in Nat
      /\ DOMAIN Tail(q) = 1 .. (Len(q) - 1)
  OBVIOUS
<1>2. \A n \in DOMAIN Tail(q) : n + 1 \in DOMAIN q /\ Tail(q)[n] = q[n + 1]
  OBVIOUS
<1>3. \A n \in DOMAIN q : n # 1 => n - 1 \in DOMAIN Tail(q) /\ Tail(q)[n - 1] = q[n]
  <2> SUFFICES ASSUME NEW n \in DOMAIN q, n # 1
               PROVE  n - 1 \in DOMAIN Tail(q) /\ Tail(q)[n - 1] = q[n]
    OBVIOUS
  <2>1. n \in Nat /\ n - 1 \in DOMAIN Tail(q) /\ (n - 1) + 1 = n
    BY <1>1
  <2> QED
    BY <1>2, <2>1
<1>4. \A m, n \in DOMAIN Tail(q) : Tail(q)[m] = Tail(q)[n] => m = n
  <2> SUFFICES ASSUME NEW m \in DOMAIN Tail(q), NEW n \in DOMAIN Tail(q),
                      Tail(q)[m] = Tail(q)[n]
               PROVE  m = n
    OBVIOUS
  <2>1. m + 1 = n + 1
    BY ONLY <1>2, Tail(q)[m] = Tail(q)[n], m \in DOMAIN Tail(q), n \in DOMAIN Tail(q),
            \A i, j \in DOMAIN q : q[i] = q[j] => i = j
  <2> QED
    BY <1>1, <2>1
<1>5. {Tail(q)[n] : n \in DOMAIN Tail(q)} = {q[n] : n \in DOMAIN q} \ {Head(q)}
  <2>1. ASSUME NEW n \in DOMAIN Tail(q) PROVE Tail(q)[n] # q[1]
    <3>1. n + 1 # 1
      BY <1>1
    <3> QED
      BY <1>1, <1>2, <3>1
  <2>2. ASSUME NEW x \in {q[n] : n \in DOMAIN q} \ {Head(q)}
        PROVE  x \in {Tail(q)[n] : n \in DOMAIN Tail(q)}
    <3>1. PICK n \in DOMAIN q : x = q[n]
      BY <2>2
    <3>2. n # 1
      BY <1>1, <3>1
    <3> QED
      BY <1>3, <3>1, <3>2
  <2> QED
    BY <1>1, <1>2, <2>1, <2>2
<1> QED
  BY <1>1, <1>4, <1>5

LEMMA QueueAppend ==
    ASSUME NEW q \in Seq(Clients), NEW c \in Clients
    PROVE  /\ {Append(q, c)[n] : n \in DOMAIN Append(q, c)}
                = {q[n] : n \in DOMAIN q} \cup {c}
           /\ /\ c \notin {q[n] : n \in DOMAIN q}
              /\ \A m, n \in DOMAIN q : q[m] = q[n] => m = n
              => \A m, n \in DOMAIN Append(q, c) :
                   Append(q, c)[m] = Append(q, c)[n] => m = n
<1>1. /\ DOMAIN Append(q, c) = DOMAIN q \cup {Len(q) + 1}
      /\ Len(q) + 1 \notin DOMAIN q
      /\ Append(q, c)[Len(q) + 1] = c
      /\ \A n \in DOMAIN q : Append(q, c)[n] = q[n]
  OBVIOUS
<1> QED
  BY <1>1

\* The steps of the relay change nothing of this.
LEMMA RelayHolds ==
    ASSUME TypeOK, HeldOnce,
           \/ \E s \in Slots : RecvSource(s) \/ Forward(s) \/ RecvDest(s) \/ Timeout(s)
           \/ \E s \in Slots, p \in Packets : SourceSend(s, p)
           \/ \E s \in Slots : DestSend(s)
           \/ UNCHANGED vars
    PROVE  HeldOnce'
<1>1. UNCHANGED <<backlog, parentVars, cstate, client>>
  BY DEF RecvSource, Forward, RecvDest, Timeout, SourceSend, DestSend, vars, cliVars,
     childVars
<1>2. \A s \in Slots : cpc'[s] = "bind" <=> cpc[s] = "bind"
  <2>1. cpc \in [Slots -> ChildStates]
    BY DEF ProcessTypeOK
  <2>2. ASSUME NEW s \in Slots, RecvSource(s) \/ Forward(s) \/ RecvDest(s) \/ Timeout(s)
        PROVE  /\ cpc[s] # "bind" /\ cpc'[s] # "bind"
               /\ \A t \in Slots : t # s => cpc'[t] = cpc[t]
    <3>1. CASE RecvSource(s)
      BY ONLY <2>1, <3>1, s \in Slots DEF RecvSource
    <3>2. CASE Forward(s)
      BY ONLY <2>1, <3>2, s \in Slots DEF Forward
    <3>3. CASE RecvDest(s) \/ Timeout(s)
      BY ONLY <2>1, <3>3, s \in Slots DEF RecvDest, Timeout
    <3> QED
      BY <2>2, <3>1, <3>2, <3>3
  <2>3. CASE UNCHANGED cpc
    BY <2>3
  <2> QED
    BY <2>2, <2>3 DEF SourceSend, DestSend, vars, childVars
<1> QED
  BY <1>1, <1>2 DEF HeldOnce, Queued, Serving, Starting, parentVars

LEMMA ConnectHolds ==
    ASSUME TypeOK, HeldOnce, NEW c \in Clients, NEW r \in Requests, Connect(c, r)
    PROVE  HeldOnce'
<1>1. /\ UNCHANGED <<ppc, conn, cpc, client>> /\ ppc # "exited"
      /\ cstate[c] = "idle" /\ cstate'[c] = "waiting"
      /\ \A d \in Clients : d # c => cstate'[d] = cstate[d]
      /\ backlog \in Seq(Clients) /\ backlog' = Append(backlog, c)
  BY DEF Connect, parentVars, childVars, ProcessTypeOK
<1>2. c \notin Queued /\ ~Serving(c) /\ \A s \in Slots : ~Starting(c, s)
  BY <1>1 DEF HeldOnce
<1>3. Queued' = Queued \cup {c}
        /\ \A m, n \in DOMAIN backlog' : backlog'[m] = backlog'[n] => m = n
  BY <1>1, <1>2, QueueAppend DEF HeldOnce, Queued
<1> QED
  BY <1>1, <1>2, <1>3 DEF HeldOnce, Serving, Starting

\* The steps that take the oldest connection from the queue.
LEMMA AcceptHolds ==
    ASSUME TypeOK, HeldOnce, HandshakeCut \/ Refuse \/ TableFull \/ Register
    PROVE  HeldOnce'
<1>1. UNCHANGED <<cpc, client>> /\ ppc = "accept" /\ backlog # <<>>
        /\ backlog \in Seq(Clients)
  BY DEF HandshakeCut, Refuse, TableFull, TurnAway, Register, Accepts, childVars,
     ProcessTypeOK
<1>2. /\ Head(backlog) \in Queued
      /\ backlog' = Tail(backlog) =>
           /\ Queued' = Queued \ {Head(backlog)}
           /\ \A m, n \in DOMAIN backlog' : backlog'[m] = backlog'[n] => m = n
  <2>1. \A m, n \in DOMAIN backlog : backlog[m] = backlog[n] => m = n
    BY DEF HeldOnce
  <2>2. /\ Head(backlog) \in {backlog[n] : n \in DOMAIN backlog}
        /\ {Tail(backlog)[n] : n \in DOMAIN Tail(backlog)}
             = {backlog[n] : n \in DOMAIN backlog} \ {Head(backlog)}
        /\ \A m, n \in DOMAIN Tail(backlog) :
             Tail(backlog)[m] = Tail(backlog)[n] => m = n
    BY ONLY <1>1, <2>1, QueueTail
  <2> QED
    BY ONLY <2>2 DEF Queued
<1>3. Head(backlog) \in Clients
  BY <1>1
<1>4. CASE HandshakeCut
  <2>1. /\ backlog' = <<>> /\ Queued' = {} /\ ppc' = "exited"
        /\ \A c \in Clients : cstate'[c] = IF c \in Queued THEN "done" ELSE cstate[c]
    BY <1>4 DEF HandshakeCut, Queued
  <2> QED
    BY <1>1, <2>1 DEF HeldOnce, Serving, Starting
<1>5. CASE Refuse \/ TableFull
  <2>1. /\ UNCHANGED <<ppc, conn>> /\ backlog' = Tail(backlog)
        /\ cstate'[Head(backlog)] = "done"
        /\ \A d \in Clients : d # Head(backlog) => cstate'[d] = cstate[d]
    BY <1>3, <1>5 DEF Refuse, TableFull, TurnAway, Answer, parentVars, ProcessTypeOK
  <2> QED
    BY <1>1, <1>2, <1>3, <2>1 DEF HeldOnce, Serving, Starting
<1>6. CASE Register
  <2>1. /\ ppc' = "count" /\ conn' = Head(backlog) /\ backlog' = Tail(backlog)
        /\ UNCHANGED cstate
    BY <1>6, RegisterFacts DEF cliVars
  <2> QED
    BY <1>1, <1>2, <1>3, <2>1 DEF HeldOnce, Serving, Starting
<1> QED
  BY <1>4, <1>5, <1>6

\* The steps of the parent after accept(): it hands the connection to the child
\* of a slot that has none, keeps it, or answers and closes it.
LEMMA ParentHolds ==
    ASSUME TypeOK, AllTurns, AskOK, HeldOnce, AddHop \/ Reply \/ Fork \/ ForkFails
    PROVE  HeldOnce'
<1>1. UNCHANGED <<backlog, conn>> /\ ppc \in {"count", "reply"} /\ slot \in Slots
  BY DEF AddHop, Reply, Fork, ForkFails, ProcessTypeOK, parentVars
<1>2. conn \in Clients /\ Serving(conn) /\ conn \notin Queued
        /\ \A s \in Slots : ~Starting(conn, s)
  BY <1>1 DEF AskOK, Serves, HeldOnce, Serving
<1>3. CASE AddHop
  <2>1. UNCHANGED <<cstate, cpc, client>> /\ ppc' = "reply"
    BY <1>3 DEF AddHop, cliVars, childVars
  <2> QED
    BY <1>1, <2>1 DEF HeldOnce, Queued, Serving, Starting
<1>4. CASE Reply \/ ForkFails
  <2>1. /\ UNCHANGED <<cpc, client>> /\ ppc' = "accept"
        /\ cstate'[conn] = "done"
        /\ \A d \in Clients : d # conn => cstate'[d] = cstate[d]
    BY <1>2, <1>4 DEF Reply, ForkFails, Answer, childVars, ProcessTypeOK
  <2> QED
    BY <1>1, <1>2, <2>1 DEF HeldOnce, Queued, Serving, Starting
<1>5. CASE Fork
  <2>1. cpc[slot] = "none"
    BY <1>1, <1>5 DEF Fork, AllTurns, TurnInv, CurrInv
  <2>2. /\ UNCHANGED cstate /\ ppc' = "accept"
        /\ cpc'[slot] = "bind" /\ client'[slot] = conn
        /\ \A s \in Slots : s # slot => cpc'[s] = cpc[s] /\ client'[s] = client[s]
    BY <1>1, <1>5 DEF Fork, cliVars, ProcessTypeOK
  <2>3. \A c \in Clients, s \in Slots :
          Starting(c, s)' <=> Starting(c, s) \/ (s = slot /\ c = conn)
    BY <1>1, <2>1, <2>2 DEF Starting
  <2>4. Queued' = Queued /\ \A c \in Clients : ~Serving(c)'
    BY <1>1, <2>2 DEF Queued, Serving
  <2>5. \A c \in Clients : Serving(c) <=> c = conn
    BY <1>1 DEF Serving
  <2> HIDE DEF TypeOK
  <2> QED
    BY ONLY <1>1, <1>2, <2>2, <2>3, <2>4, <2>5, HeldOnce DEF HeldOnce
<1> QED
  BY <1>3, <1>4, <1>5

\* The child answers the connection it has inherited.
LEMMA BindHolds ==
    ASSUME TypeOK, HeldOnce, NEW s \in Slots, Bind(s), client[s] \in Clients
    PROVE  HeldOnce'
<1>1. /\ UNCHANGED <<backlog, ppc, conn, client>>
      /\ cpc[s] = "bind" /\ cpc'[s] = "select"
      /\ \A t \in Slots : t # s => cpc'[t] = cpc[t]
      /\ cstate'[client[s]] = "done"
      /\ \A d \in Clients : d # client[s] => cstate'[d] = cstate[d]
  BY DEF Bind, Answer, parentVars, ProcessTypeOK
<1>2. Starting(client[s], s)
  BY <1>1 DEF Starting
<1>3. \A c \in Clients, t \in Slots : Starting(c, t)' <=> Starting(c, t) /\ t # s
  BY <1>1 DEF Starting
<1>4. \A t \in Slots : Starting(client[s], t) => t = s
  BY <1>2 DEF HeldOnce
<1> QED
  BY <1>1, <1>2, <1>3, <1>4 DEF HeldOnce, Queued, Serving, Starting

\* tunneld.c:97-339: whatever requests are refused, cut or turned away, whatever
\* forks fail and however parent and children interleave, no connection is
\* forgotten open and none is answered twice.
THEOREM ConnectionsCorrect == Spec => []HeldOnce
<1>1. Init => HeldOnce
  BY DEF Init, InitParent, InitClients, InitChildren, HeldOnce, Queued, Serving,
     Starting
<1>2. TypeOK /\ AllTurns /\ PortInv /\ HeldOnce /\ [Next]_vars => HeldOnce'
  <2> SUFFICES ASSUME TypeOK, AllTurns, PortInv, HeldOnce, [Next]_vars
               PROVE  HeldOnce'
    OBVIOUS
  <2>1. CASE Parent
    BY <2>1, AcceptHolds, ParentHolds DEF Parent, PortInv
  <2>2. CASE \E s \in Slots : Bind(s)
    <3>1. PICK s \in Slots : Bind(s)
      BY <2>2
    <3>2. client[s] \in Clients
      BY <3>1 DEF Bind, PortInv, PortAt, Serves
    <3> QED
      BY <3>1, <3>2, BindHolds
  <2>3. CASE \E c \in Clients, r \in Requests : Connect(c, r)
    BY <2>3, ConnectHolds
  <2>4. CASE \/ \E s \in Slots : RecvSource(s) \/ Forward(s) \/ RecvDest(s) \/ Timeout(s)
             \/ \E s \in Slots, p \in Packets : SourceSend(s, p)
             \/ \E s \in Slots : DestSend(s)
             \/ UNCHANGED vars
    BY <2>4, RelayHolds
  <2> QED
    BY <2>1, <2>2, <2>3, <2>4 DEF Next, Child, Environment
<1> QED
  BY <1>1, <1>2, TypeCorrect, TurnsInvariant, PortsInvariant, PTL DEF Spec

\* A child that looks for its port finds one.
PortLeft ==
    \A s \in Slots : cpc[s] = "bind" =>
      \E p \in Ports : PortFree(p) /\ \A q \in Ports : q < p => ~PortFree(q)

\* tunneld.c:180-193: the search of a port ends, however many children search at
\* the same time: there are as many ports from 56600 on as there are slots, and
\* a child that searches listens on none.
THEOREM SearchEnds == Spec => []PortLeft
<1>1. TypeOK => PortLeft
  <2> SUFFICES ASSUME TypeOK, NEW s \in Slots, cpc[s] = "bind"
               PROVE  \E p \in Ports : PortFree(p) /\ \A q \in Ports : q < p => ~PortFree(q)
    BY DEF PortLeft
  <2> DEFINE Left == {p \in Ports : PortFree(p)}
             Less == OpToRel(<, Nat)
  <2>1. Ports \subseteq Nat
    BY SessionsAssumption, FirstPortAssumption DEF Ports
  <2>2. Left # {}
    <3> SUFFICES ASSUME \A p \in Ports : ~PortFree(p) PROVE FALSE
      OBVIOUS
    <3> DEFINE f == [p \in Ports |-> CHOOSE t \in Slots : Listening(t) /\ port[t] = p]
               T == Slots \ {s}
    <3>1. \A p \in Ports : f[p] \in T /\ port[f[p]] = p
      <4> SUFFICES ASSUME NEW p \in Ports PROVE f[p] \in T /\ port[f[p]] = p
        OBVIOUS
      <4>1. \E t \in Slots : Listening(t) /\ port[t] = p
        BY DEF PortFree
      <4>2. f[p] \in Slots /\ Listening(f[p]) /\ port[f[p]] = p
        BY <4>1
      <4>3. ~Listening(s)
        BY DEF Listening
      <4> QED
        BY <4>2, <4>3
    <3>2. f \in [Ports -> T]
      BY <3>1
    <3>3. IsFiniteSet(Ports) /\ Cardinality(Ports) = SESSIONS
      <4>1. FirstPort \in Int /\ FirstPort + SESSIONS - 1 \in Int
        BY SessionsAssumption, FirstPortAssumption
      <4>2. /\ IsFiniteSet(FirstPort .. (FirstPort + SESSIONS - 1))
            /\ Cardinality(FirstPort .. (FirstPort + SESSIONS - 1))
                 = IF FirstPort > FirstPort + SESSIONS - 1 THEN 0
                   ELSE (FirstPort + SESSIONS - 1) - FirstPort + 1
        BY <4>1, FS_Interval
      <4> QED
        BY <4>2, SessionsAssumption, FirstPortAssumption DEF Ports
    <3>4. IsFiniteSet(Slots) /\ Cardinality(Slots) = SESSIONS
      <4>1. /\ IsFiniteSet(0 .. (SESSIONS - 1))
            /\ Cardinality(0 .. (SESSIONS - 1))
                 = IF 0 > SESSIONS - 1 THEN 0 ELSE (SESSIONS - 1) - 0 + 1
        BY SessionsAssumption, FS_Interval
      <4> QED
        BY <4>1, SessionsAssumption DEF Slots
    <3>5. IsFiniteSet(T) /\ Cardinality(T) = SESSIONS - 1
      BY <3>4, FS_RemoveElement
    <3> HIDE DEF f, T
    <3>6. Cardinality(T) < Cardinality(Ports)
      BY <3>3, <3>5, SessionsAssumption
    <3>7. PICK x \in Ports, y \in Ports : x # y /\ f[x] = f[y]
      BY ONLY <3>2, <3>3, <3>5, <3>6, FS_PigeonHole
    <3> QED
      BY <3>1, <3>7
  <2>3. IsWellFoundedOn(Less, Nat)
    BY NatLessThanWellFounded
  <2>4. \A i, j \in Nat : i < j => <<i, j>> \in Less
    BY DEF OpToRel
  <2> HIDE DEF Less
  <2>5. PICK p \in Left : \A q \in Left : ~(<<q, p>> \in Less)
    <3>1. Left \subseteq Nat
      BY <2>1
    <3> HIDE DEF Left
    <3> QED
      BY <2>2, <2>3, <3>1, WFMin
  <2>6. \A q \in Ports : q < p => ~PortFree(q)
    BY <2>1, <2>4, <2>5
  <2> QED
    BY <2>5, <2>6
<1> QED
  BY <1>1, TypeCorrect, PTL
=============================================================================
