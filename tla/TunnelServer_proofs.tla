------------------------- MODULE TunnelServer_proofs -------------------------
(***************************************************************************)
(* Theorems about the first tunnel daemon, for any number of clients,      *)
(* sources, destinations, slots and ports.                                 *)
(***************************************************************************)
EXTENDS TunnelServer, SequenceTheorems, FiniteSetTheorems, TLAPS

PathOf(c) == [src |-> request[c].src, dst |-> request[c].dst]

\* A tunnelcli is in one place: in the listen queue, or registered and about
\* to get a child, or with a child that has its path.
StageOK ==
    /\ \A i \in DOMAIN backlog :
         /\ cstate[backlog[i]] = "waiting" /\ cpc[backlog[i]] = "none"
         /\ backlog[i] \notin registered
    /\ \A i, j \in DOMAIN backlog : backlog[i] = backlog[j] => i = j
    /\ ppc = "fork" =>
         /\ conn \in registered /\ cstate[conn] = "waiting"
         /\ cpc[conn] = "none" /\ nexthoptab[sessionid] = PathOf(conn)
    /\ \A c \in Clients : cpc[c] = "bind" => cstate[c] = "waiting"
    /\ \A c \in Clients : cpc[c] # "none" => c \in registered /\ entry[c] = PathOf(c)
    /\ \A c \in registered : cstate[c] # "idle" /\ request[c] \in GoodRequests
    /\ \A c \in Clients : cstate[c] = "idle" => request[c] = NoRequest

\* The children listen on different ports and their clients know them.
PortsOK ==
    \A c \in Clients :
      /\ Listening(c) => port[c] \in Ports /\ printed[c] = port[c]
      /\ ~Listening(c) => printed[c] = NoPort
      /\ \A d \in Clients :
           Listening(c) /\ Listening(d) /\ c # d => port[c] # port[d]

\* Where a child has had a packet from, and sent those of its sendSocket to.
WrittenTo(c, l, to) == IF l = NoPacket THEN to.pt = port[c] ELSE to = l

\* A child knows where the last packet of its source came from, or its own port
\* when there was none, and sends there what it has on its sendSocket.
RepliesOK ==
    \A c \in Clients :
      /\ cpc[c] = "dest" => sndq[c] > 0
      /\ Listening(c) => WrittenTo(c, last[c], [addr |-> entry[c].src, pt |-> srcpt[c]])
      /\ ~Listening(c) => last[c] = NoPacket /\ bounced[c] = {}
      /\ \A b \in bounced[c] : WrittenTo(c, b.last, b.to)

SlotsOK == IsFiniteSet(registered) /\ SlotsAccounted

DaemonInv == TypeOK /\ StageOK /\ PortsOK /\ RepliesOK /\ SlotsOK

-----------------------------------------------------------------------------

\* NoPort is not a port to listen on, and there is a first slot.
LEMMA Constants ==
    /\ NoPort \notin Ports /\ Ports \subseteq Nat \ {0}
    /\ 0 \in Slots /\ Slots \subseteq Nat
    /\ NoRequest \notin GoodRequests
    /\ NoEntry \in Entries
<1>1. NoPort \notin Ports /\ Ports \subseteq Nat \ {0}
  BY PortsAssumption DEF NoPort, Ports
<1>2. 0 \in Slots /\ Slots \subseteq Nat
  BY SessionsAssumption DEF Slots
<1>3. NoRequest \notin GoodRequests /\ NoEntry \in Entries
  BY AddressAssumption DEF NoRequest, GoodRequests, NoEntry, Entries
<1>4. QED
  BY <1>1, <1>2, <1>3

\* A request that is not refused or cut has a destination.
LEMMA GoodRequest ==
    /\ \A r \in Requests \cup {NoRequest} : r.kind = "good" => r \in GoodRequests
    /\ \A r \in GoodRequests : r.src \in Sources \cup {NoAddr} /\ r.dst \in Dests
BY DEF Requests, GoodRequests, BadRequests, NoRequest

\* A child relays to the destination that was asked for.
LEMMA ChildPath ==
    ASSUME DaemonInv, NEW c \in Clients, cpc[c] # "none"
    PROVE  entry[c].dst \in Dests /\ entry[c].dst = request[c].dst
             /\ entry[c].src = request[c].src
<1>1. entry[c] = PathOf(c) /\ request[c] \in GoodRequests
  BY DEF DaemonInv, StageOK
<1>2. QED
  BY <1>1, GoodRequest DEF PathOf

LEMMA InitDaemon == Init => DaemonInv
<1> SUFFICES ASSUME Init PROVE DaemonInv
  OBVIOUS
<1>1. TypeOK
  BY Constants, BoundsAssumption DEF Init, TypeOK
<1>2. StageOK
  BY DEF Init, StageOK
<1>3. PortsOK
  BY DEF Init, PortsOK, Listening
<1>4. RepliesOK
  BY DEF Init, RepliesOK, Listening
<1>5. SlotsOK
  <2>1. registered = {} /\ \A s \in Slots : ~InUse(s)
    BY DEF Init, NoEntry, InUse
  <2>2. {s \in Slots : InUse(s)} = {}
          /\ {c \in registered : request[c].src # NoAddr} = {}
    BY <2>1
  <2> QED
    BY <2>1, <2>2, FS_EmptySet DEF SlotsOK, SlotsAccounted
<1>6. QED
  BY <1>1, <1>2, <1>3, <1>4, <1>5 DEF DaemonInv

-----------------------------------------------------------------------------
(* Type correctness                                                        *)

\* The steps of the parent and of a tunnelcli.
LEMMA ParentTypes ==
    ASSUME DaemonInv, Parent \/ \E c \in Clients, r \in Requests : Connect(c, r)
    PROVE  TypeOK'
<1> USE DEF DaemonInv, TypeOK, parentVars, cliVars, childVars, netVars
<1>1. CASE \E c \in Clients, r \in Requests : Connect(c, r)
  <2>1. PICK c \in Clients, r \in Requests : Connect(c, r)
    BY <1>1
  <2>2. backlog' \in Seq(Clients)
    BY <2>1, AppendProperties DEF Connect
  <2> QED
    BY <2>1, <2>2 DEF Connect
<1>2. ASSUME backlog # <<>>
      PROVE  Head(backlog) \in Clients /\ Tail(backlog) \in Seq(Clients)
  BY <1>2, HeadTailProperties
<1>3. CASE HandshakeCut
  <2>1. <<>> \in Seq(Clients)
    OBVIOUS
  <2> QED
    BY <1>3, <2>1 DEF HandshakeCut
<1>4. CASE Refuse \/ TableFull
  <2>1. backlog # <<>> /\ TurnAway
    BY <1>4 DEF Refuse, TableFull, Accepts
  <2> QED
    BY <1>2, <2>1 DEF TurnAway, Answer
<1>5. CASE Register
  <2>1. backlog # <<>> /\ request[Head(backlog)].kind = "good"
    BY <1>5 DEF Register, Accepts
  <2>2. request[Head(backlog)] \in GoodRequests
    BY <1>2, <2>1, GoodRequest
  <2>3. PathOf(Head(backlog)) \in Entries
    BY <2>2 DEF PathOf, GoodRequests, Entries
  <2>4. PICK s \in Slots : nexthoptab' = [nexthoptab EXCEPT ![s] = PathOf(Head(backlog))]
          /\ sessionid' = s
    BY <1>5 DEF Register, PathOf
  <2> QED
    BY <1>2, <1>5, <2>1, <2>3, <2>4 DEF Register
<1>6. CASE Fork
  <2>1. conn \in Clients /\ nexthoptab[sessionid] \in Entries
    BY <1>6 DEF Fork, StageOK
  <2> QED
    BY <1>6, <2>1 DEF Fork
<1>7. CASE ForkFails
  <2>1. conn \in Clients
    BY <1>7 DEF ForkFails, StageOK
  <2> QED
    BY <1>7, <2>1 DEF ForkFails, Answer
<1>8. QED
  BY <1>1, <1>3, <1>4, <1>5, <1>6, <1>7 DEF Parent

\* The steps of the children and of the hosts.
LEMMA RelayTypes ==
    ASSUME DaemonInv, NEW c \in Clients,
           Child(c) \/ DestSend(c) \/ \E p \in Packets : SourceSend(c, p)
    PROVE  TypeOK'
<1> USE DEF DaemonInv, TypeOK, parentVars, cliVars, childVars, netVars
<1>1. CASE Bind(c)
  BY <1>1 DEF Bind, Answer
<1>2. CASE RecvSource(c)
  <2>1. Head(rcvq[c]) \in Packets /\ Tail(rcvq[c]) \in Seq(Packets)
    BY <1>2, HeadTailProperties DEF RecvSource
  <2>2. rcvq' \in [Clients -> Seq(Packets)]
    BY <1>2, <2>1 DEF RecvSource
  <2>3. Head(rcvq[c]).pt \in SrcPorts /\ Head(rcvq[c]).addr \in Sources
    BY <2>1 DEF Packets
  <2>4. srcpt' \in [Clients -> {NoPort} \cup Ports \cup SrcPorts]
    BY <1>2, <2>3 DEF RecvSource, SrcptAfter
  <2>5. delivered' \in [Sources -> [Dests -> Nat]]
    <3>1. entry[c].dst \in Dests
      BY <1>2, ChildPath DEF RecvSource
    <3>2. \/ delivered' = delivered
          \/ \E a \in Sources, d \in Dests :
               delivered' = [delivered EXCEPT ![a][d] = @ + 1]
      BY <1>2, <2>3, <3>1 DEF RecvSource
    <3>3. ASSUME NEW a \in Sources, NEW d \in Dests
          PROVE  [delivered EXCEPT ![a][d] = @ + 1] \in [Sources -> [Dests -> Nat]]
      <4>1. delivered[a] \in [Dests -> Nat] /\ delivered[a][d] \in Nat
        OBVIOUS
      <4>2. [delivered[a] EXCEPT ![d] = @ + 1] \in [Dests -> Nat]
        BY <4>1
      <4> QED
        BY <4>2
    <3>4. CASE delivered' = delivered
      BY <3>4
    <3>5. CASE delivered' # delivered
      <4>1. PICK a \in Sources, d \in Dests :
              delivered' = [delivered EXCEPT ![a][d] = @ + 1]
        BY <3>2, <3>5
      <4> QED
        BY <3>3, <4>1
    <3> QED
      BY <3>4, <3>5
  <2>6. cpc' \in [Clients -> {"none", "bind", "select", "dest"}]
    BY <1>2 DEF RecvSource
  <2>7. last' \in [Clients -> Packets \cup {NoPacket}]
    <3>1. last' = last \/ last' = [last EXCEPT ![c] = Head(rcvq[c])]
      BY <1>2 DEF RecvSource
    <3>2. last \in [Clients -> Packets \cup {NoPacket}]
      OBVIOUS
    <3> QED
      BY ONLY <2>1, <3>1, <3>2
  <2> QED
    BY <1>2, <2>2, <2>4, <2>5, <2>6, <2>7 DEF RecvSource
<1>3. CASE RecvDest(c)
  <2>1. sndq[c] > 0
    BY <1>3 DEF RecvDest, RepliesOK
  <2>2. [to |-> [addr |-> entry[c].src, pt |-> srcpt[c]], last |-> last[c]] \in Bounces
    <3>1. /\ entry[c].src \in Sources \cup {NoAddr}
          /\ srcpt[c] \in {NoPort} \cup Ports \cup SrcPorts
          /\ last[c] \in Packets \cup {NoPacket}
      BY DEF Entries
    <3> QED
      BY ONLY <3>1 DEF Bounces
  <2>3. bounced' \in [Clients -> SUBSET Bounces]
    BY <1>3, <2>2 DEF RecvDest
  <2> QED
    BY <1>3, <2>1, <2>3 DEF RecvDest
<1>4. CASE DestSend(c)
  BY <1>4 DEF DestSend
<1>5. CASE \E p \in Packets : SourceSend(c, p)
  <2>1. PICK p \in Packets : SourceSend(c, p)
    BY <1>5
  <2>2. Append(rcvq[c], p) \in Seq(Packets) /\ p.pt \in SrcPorts
    BY AppendProperties DEF Packets
  <2> QED
    BY <2>1, <2>2 DEF SourceSend
<1>6. QED
  BY <1>1, <1>2, <1>3, <1>4, <1>5 DEF Child

-----------------------------------------------------------------------------
(* Where each tunnelcli is                                                 *)

LEMMA ConnectStage ==
    ASSUME DaemonInv, NEW c \in Clients, NEW r \in Requests, Connect(c, r)
    PROVE  StageOK'
<1> USE DEF DaemonInv, TypeOK
<1>1. /\ cstate[c] = "idle" /\ cstate' = [cstate EXCEPT ![c] = "waiting"]
      /\ request' = [request EXCEPT ![c] = r]
      /\ backlog' = Append(backlog, c)
      /\ UNCHANGED <<nexthoptab, ppc, conn, sessionid, registered, cpc, entry>>
  BY DEF Connect, parentVars, childVars
<1>2. c \notin registered /\ cpc[c] = "none"
  BY <1>1 DEF StageOK
<1>3. \A d \in registered : d # c /\ PathOf(d)' = PathOf(d)
  BY <1>1, <1>2 DEF PathOf
<1>4. /\ DOMAIN backlog = 1 .. Len(backlog) /\ Len(backlog) \in Nat
      /\ DOMAIN backlog' = 1 .. (Len(backlog) + 1)
      /\ \A i \in 1 .. Len(backlog) : backlog'[i] = backlog[i]
      /\ backlog'[Len(backlog) + 1] = c
  BY <1>1, AppendProperties
<1>5. \A i \in 1 .. Len(backlog) :
        /\ backlog[i] \in Clients /\ cstate[backlog[i]] = "waiting"
        /\ cpc[backlog[i]] = "none" /\ backlog[i] \notin registered
  <2>1. \A i \in DOMAIN backlog :
          /\ cstate[backlog[i]] = "waiting" /\ cpc[backlog[i]] = "none"
          /\ backlog[i] \notin registered
    BY DEF StageOK
  <2>2. \A i \in 1 .. Len(backlog) : backlog[i] \in Clients
    OBVIOUS
  <2> QED
    BY ONLY <1>4, <2>1, <2>2
<1>6. \A i \in 1 .. Len(backlog) : backlog[i] # c
  BY <1>1, <1>5
<1>7. \A d \in Clients : cstate'[d] = IF d = c THEN "waiting" ELSE cstate[d]
  BY <1>1
<1>8. \A i \in DOMAIN backlog' :
        /\ cstate'[backlog'[i]] = "waiting" /\ cpc'[backlog'[i]] = "none"
        /\ backlog'[i] \notin registered'
  <2>1. ASSUME NEW i \in DOMAIN backlog'
        PROVE  /\ cstate'[backlog'[i]] = "waiting" /\ cpc'[backlog'[i]] = "none"
               /\ backlog'[i] \notin registered'
    <3>1. CASE i \in 1 .. Len(backlog)
      BY <1>1, <1>4, <1>5, <1>6, <1>7, <3>1
    <3>2. CASE i = Len(backlog) + 1
      BY <1>1, <1>2, <1>4, <1>7, <3>2
    <3> QED
      BY <1>4, <3>1, <3>2
  <2> QED
    BY <2>1
<1>9. \A i, j \in DOMAIN backlog' : backlog'[i] = backlog'[j] => i = j
  <2>1. \A i, j \in 1 .. Len(backlog) : backlog[i] = backlog[j] => i = j
    BY <1>4 DEF StageOK
  <2>2. \A i \in DOMAIN backlog' : i \in 1 .. Len(backlog) \/ i = Len(backlog) + 1
    BY <1>4
  <2>3. \A i \in 1 .. Len(backlog) : backlog'[i] = backlog[i] /\ backlog'[i] # c
    BY <1>4, <1>6
  <2> QED
    BY ONLY <1>4, <2>1, <2>2, <2>3
<1>10. /\ ppc' = "fork" =>
            /\ conn' \in registered' /\ cstate'[conn'] = "waiting"
            /\ cpc'[conn'] = "none" /\ nexthoptab'[sessionid'] = PathOf(conn)'
       /\ \A d \in Clients : cpc'[d] = "bind" => cstate'[d] = "waiting"
       /\ \A d \in Clients : cpc'[d] # "none" => d \in registered' /\ entry'[d] = PathOf(d)'
       /\ \A d \in registered' : cstate'[d] # "idle" /\ request'[d] \in GoodRequests
       /\ \A d \in Clients : cstate'[d] = "idle" => request'[d] = NoRequest
  BY <1>1, <1>3, <1>7 DEF StageOK
<1>11. QED
  BY <1>8, <1>9, <1>10 DEF StageOK

\* The parent takes the head of the queue, and forks for what it registered.
LEMMA ParentStage ==
    ASSUME DaemonInv, Parent
    PROVE  StageOK'
<1> USE DEF DaemonInv, TypeOK, parentVars, cliVars, childVars, netVars
<1>1. ASSUME backlog # <<>>
      PROVE  /\ Head(backlog) = backlog[1] /\ 1 \in DOMAIN backlog
             /\ Head(backlog) \in Clients
             /\ \A i \in DOMAIN Tail(backlog) :
                  /\ i + 1 \in DOMAIN backlog /\ i + 1 # 1
                  /\ Tail(backlog)[i] = backlog[i + 1]
             /\ \A i, j \in DOMAIN Tail(backlog) : i + 1 = j + 1 => i = j
  BY <1>1
<1>2. ASSUME backlog # <<>>, backlog' = Tail(backlog)
      PROVE  /\ \A i \in DOMAIN backlog' :
                  /\ cstate[backlog'[i]] = "waiting" /\ cpc[backlog'[i]] = "none"
                  /\ backlog'[i] \notin registered /\ backlog'[i] # Head(backlog)
             /\ \A i, j \in DOMAIN backlog' : backlog'[i] = backlog'[j] => i = j
  BY <1>1, <1>2 DEF StageOK
<1>3. CASE HandshakeCut
  <2>1. /\ backlog' = <<>> /\ ppc' = "exited"
        /\ \A d \in Clients : cstate'[d] = cstate[d] \/
             (cstate'[d] = "done" /\ \E i \in DOMAIN backlog : backlog[i] = d)
        /\ UNCHANGED <<registered, request, cpc, entry>>
    BY <1>3 DEF HandshakeCut
  <2>2. \A d \in Clients : PathOf(d)' = PathOf(d)
    BY <2>1 DEF PathOf
  <2> QED
    BY <2>1, <2>2 DEF StageOK
<1>4. CASE Refuse \/ TableFull
  <2>1. /\ backlog # <<>> /\ backlog' = Tail(backlog) /\ ppc = "accept"
        /\ cstate' = [cstate EXCEPT ![Head(backlog)] = "done"]
        /\ UNCHANGED <<ppc, registered, request, cpc, entry>>
    BY <1>4 DEF Refuse, TableFull, Accepts, TurnAway, Answer
  <2>2. Head(backlog) \notin registered /\ cpc[Head(backlog)] = "none"
    BY <1>1, <2>1 DEF StageOK
  <2>3. \A d \in Clients : PathOf(d)' = PathOf(d)
    BY <2>1 DEF PathOf
  <2> QED
    BY <1>1, <1>2, <2>1, <2>2, <2>3 DEF StageOK
<1>5. CASE Register
  <2>1. PICK s \in Slots :
          /\ backlog # <<>> /\ backlog' = Tail(backlog) /\ ppc' = "fork"
          /\ conn' = Head(backlog) /\ sessionid' = s
          /\ nexthoptab' = [nexthoptab EXCEPT ![s] = PathOf(Head(backlog))]
          /\ registered' = registered \cup {Head(backlog)}
          /\ request[Head(backlog)].kind = "good"
          /\ UNCHANGED <<cstate, request, cpc, entry>>
    BY <1>5 DEF Register, Accepts, PathOf
  <2>2. /\ Head(backlog) \notin registered /\ cpc[Head(backlog)] = "none"
        /\ cstate[Head(backlog)] = "waiting"
    BY <1>1, <2>1 DEF StageOK
  <2>3. \A d \in Clients : PathOf(d)' = PathOf(d)
    BY <2>1 DEF PathOf
  <2>4. request[Head(backlog)] \in GoodRequests
    BY <1>1, <2>1, GoodRequest
  <2>5. nexthoptab'[s] = PathOf(Head(backlog))
    BY <2>1
  <2> QED
    BY <1>1, <1>2, <2>1, <2>2, <2>3, <2>4, <2>5 DEF StageOK
<1>6. CASE Fork \/ ForkFails
  <2>1. /\ ppc = "fork" /\ ppc' = "accept" /\ conn \in Clients
        /\ UNCHANGED <<backlog, registered, request>>
    BY <1>6 DEF Fork, ForkFails, Answer, StageOK
  <2>2. \/ /\ cpc' = [cpc EXCEPT ![conn] = "bind"]
           /\ entry' = [entry EXCEPT ![conn] = PathOf(conn)]
           /\ UNCHANGED cstate
        \/ /\ cstate' = [cstate EXCEPT ![conn] = "done"]
           /\ UNCHANGED <<cpc, entry>>
    BY <1>6 DEF Fork, ForkFails, Answer, StageOK
  <2>3. conn \in registered /\ cstate[conn] = "waiting" /\ cpc[conn] = "none"
    BY <2>1 DEF StageOK
  <2>4. \A d \in Clients : PathOf(d)' = PathOf(d)
    BY <2>1 DEF PathOf
  <2> QED
    BY <2>1, <2>2, <2>3, <2>4 DEF StageOK
<1>7. QED
  BY <1>3, <1>4, <1>5, <1>6 DEF Parent

\* A child leaves the parent alone.
LEMMA RelayStage ==
    ASSUME DaemonInv, NEW c \in Clients,
           Child(c) \/ DestSend(c) \/ \E p \in Packets : SourceSend(c, p)
    PROVE  StageOK'
<1> USE DEF DaemonInv, TypeOK, parentVars, cliVars, childVars, netVars
<1>1. UNCHANGED <<nexthoptab, ppc, conn, sessionid, registered, backlog, request, entry>>
  BY DEF Child, Bind, RecvSource, RecvDest, DestSend, SourceSend, Answer
<1>2. \/ UNCHANGED <<cstate, cpc>>
      \/ /\ cpc[c] = "bind" /\ cpc' = [cpc EXCEPT ![c] = "select"]
         /\ cstate' = [cstate EXCEPT ![c] = "done"]
      \/ /\ cpc[c] # "none" /\ UNCHANGED cstate
         /\ \E v \in {"select", "dest"} : cpc' = [cpc EXCEPT ![c] = v]
  BY DEF Child, Bind, RecvSource, RecvDest, DestSend, SourceSend, Answer
<1>3. \A d \in Clients : PathOf(d)' = PathOf(d)
  BY <1>1 DEF PathOf
<1>4. \A d \in Clients : /\ d # c => cstate'[d] = cstate[d] /\ cpc'[d] = cpc[d]
                         /\ cpc[d] = "none" => cstate'[d] = cstate[d] /\ cpc'[d] = "none"
                         /\ cpc'[d] = "bind" => cpc[d] = "bind" /\ cstate'[d] = cstate[d]
                         /\ cstate'[d] = "idle" => cstate[d] = "idle"
                         /\ cpc'[d] # "none" => cpc[d] # "none"
  BY <1>2
<1>5. \A i \in DOMAIN backlog : backlog[i] \in Clients
  OBVIOUS
<1>6. QED
  BY <1>1, <1>3, <1>4, <1>5 DEF StageOK

-----------------------------------------------------------------------------
(* The ports of the children                                               *)

\* Only a child that binds gets a port, and only its client is told one.
LEMMA NextPorts ==
    ASSUME DaemonInv, Next
    PROVE  PortsOK'
<1> USE DEF DaemonInv, TypeOK, parentVars, cliVars, childVars, netVars
<1>1. ASSUME NEW c \in Clients, Bind(c) PROVE PortsOK'
  <2>1. PICK p \in Ports :
          /\ PortFree(p)
          /\ port' = [port EXCEPT ![c] = p]
          /\ printed' = [printed EXCEPT ![c] = p]
          /\ cpc' = [cpc EXCEPT ![c] = "select"] /\ cpc[c] = "bind"
    BY <1>1 DEF Bind, Answer
  <2>2. \A d \in Clients : d # c => Listening(d)' = Listening(d)
          /\ port'[d] = port[d] /\ printed'[d] = printed[d]
    BY <2>1 DEF Listening
  <2>3. Listening(c)' /\ port'[c] = p /\ printed'[c] = p
    BY <2>1 DEF Listening
  <2>4. \A d \in Clients : d # c /\ Listening(d) => port[d] # p
    BY <2>1 DEF PortFree
  <2>5. ASSUME NEW d \in Clients
        PROVE  /\ Listening(d)' => port'[d] \in Ports /\ printed'[d] = port'[d]
               /\ ~Listening(d)' => printed'[d] = NoPort
    BY <2>2, <2>3 DEF PortsOK
  <2>6. ASSUME NEW d \in Clients, NEW e \in Clients, Listening(d)', Listening(e)', d # e
        PROVE  port'[d] # port'[e]
    <3>1. CASE d # c /\ e # c
      BY <2>2, <2>6, <3>1 DEF PortsOK
    <3>2. CASE d = c \/ e = c
      BY <2>2, <2>3, <2>4, <2>6, <3>2
    <3> QED
      BY <3>1, <3>2
  <2> QED
    BY <2>5, <2>6 DEF PortsOK
<1>2. ASSUME \A d \in Clients : Listening(d)' = Listening(d), port' = port,
             \/ printed' = printed
             \/ \E d \in Clients : ~Listening(d) /\ printed' = [printed EXCEPT ![d] = NoPort]
      PROVE  PortsOK'
  BY <1>2 DEF PortsOK
<1>3. CASE HandshakeCut
  BY <1>2, <1>3 DEF HandshakeCut, Listening
<1>4. CASE Refuse \/ TableFull
  <2>1. TurnAway /\ backlog # <<>>
    BY <1>4 DEF Refuse, TableFull, Accepts
  <2>2. Head(backlog) \in Clients /\ ~Listening(Head(backlog))
    <3>1. Head(backlog) = backlog[1] /\ 1 \in DOMAIN backlog /\ backlog[1] \in Clients
      BY <2>1
    <3> QED
      BY <3>1 DEF StageOK, Listening
  <2> QED
    BY <1>2, <2>1, <2>2 DEF TurnAway, Answer, Listening
<1>5. CASE Register
  BY <1>2, <1>5 DEF Register, Listening
<1>6. CASE Fork \/ ForkFails
  <2>1. conn \in Clients /\ ~Listening(conn) /\ port' = port
    BY <1>6 DEF Fork, ForkFails, StageOK, Listening
  <2>2. \A d \in Clients : Listening(d)' = Listening(d)
    BY <1>6, <2>1 DEF Fork, ForkFails, Listening
  <2>3. printed' = printed \/ printed' = [printed EXCEPT ![conn] = NoPort]
    BY <1>6 DEF Fork, ForkFails, Answer
  <2> QED
    BY <1>2, <2>1, <2>2, <2>3
<1>7. ASSUME NEW c \in Clients, RecvSource(c) \/ RecvDest(c) PROVE PortsOK'
  BY <1>2, <1>7 DEF RecvSource, RecvDest, Listening
<1>8. ASSUME Environment PROVE PortsOK'
  BY <1>2, <1>8 DEF Environment, Connect, SourceSend, DestSend, Listening
<1>9. QED
  BY <1>1, <1>3, <1>4, <1>5, <1>6, <1>7, <1>8 DEF Next, Parent, Child

-----------------------------------------------------------------------------
(* The packets of the children                                             *)

\* The parent and the tunnelcli touch no child that listens.
LEMMA ParentReplies ==
    ASSUME DaemonInv,
           Parent \/ \E c \in Clients, r \in Requests : Connect(c, r)
    PROVE  RepliesOK'
<1> USE DEF DaemonInv, TypeOK, parentVars, cliVars, childVars, netVars
<1>1. UNCHANGED <<sndq, bounced, last, srcpt, port>>
  BY DEF Parent, Connect, HandshakeCut, Refuse, TableFull, Register, Fork,
     ForkFails, TurnAway
<1>2. ASSUME NEW d \in Clients
      PROVE  /\ Listening(d)' = Listening(d)
             /\ Listening(d) => cpc'[d] = cpc[d] /\ entry'[d] = entry[d]
             /\ cpc'[d] = "dest" => cpc[d] = "dest"
  <2>1. ppc = "fork" => conn \in Clients /\ ~Listening(conn)
    BY DEF StageOK, Listening
  <2>2. CASE Fork
    BY <2>1, <2>2 DEF Fork, Listening
  <2>3. CASE ~Fork
    <3>1. UNCHANGED <<cpc, entry>>
      BY <2>3 DEF Parent, Connect, HandshakeCut, Refuse, TableFull, Register,
         ForkFails, TurnAway
    <3> QED
      BY <3>1 DEF Listening
  <2> QED
    BY <2>2, <2>3
<1>3. QED
  BY <1>1, <1>2 DEF RepliesOK, WrittenTo

\* A child that binds sends to its own port.
LEMMA BindReplies ==
    ASSUME DaemonInv, NEW c \in Clients, Bind(c)
    PROVE  RepliesOK'
<1> USE DEF DaemonInv, TypeOK
<1>1. PICK p \in Ports :
        /\ port' = [port EXCEPT ![c] = p] /\ srcpt' = [srcpt EXCEPT ![c] = p]
        /\ cpc' = [cpc EXCEPT ![c] = "select"] /\ cpc[c] = "bind"
        /\ UNCHANGED <<entry, sndq, bounced, last>>
  BY DEF Bind, netVars
<1>2. /\ Listening(c)' /\ ~Listening(c) /\ cpc'[c] = "select"
      /\ port'[c] = p /\ srcpt'[c] = p
  BY <1>1 DEF Listening
<1>3. ASSUME NEW d \in Clients, d # c
      PROVE  /\ Listening(d)' = Listening(d) /\ cpc'[d] = cpc[d]
             /\ srcpt'[d] = srcpt[d] /\ port'[d] = port[d]
  BY <1>1, <1>3 DEF Listening
<1>4. last[c] = NoPacket /\ bounced[c] = {}
  BY <1>2 DEF RepliesOK
<1>5. QED
  BY <1>1, <1>2, <1>3, <1>4 DEF RepliesOK, WrittenTo

\* A child that hears its source notes where the packet came from, and what its
\* sendSocket has goes there.
LEMMA ChildReplies ==
    ASSUME DaemonInv, NEW c \in Clients, RecvSource(c) \/ RecvDest(c)
    PROVE  RepliesOK'
<1> USE DEF DaemonInv, TypeOK, parentVars, cliVars, childVars, netVars
<1>1. UNCHANGED <<entry, port>> /\ Listening(c) /\ Listening(c)'
  BY DEF RecvSource, RecvDest, Listening
<1>2. ASSUME NEW d \in Clients, d # c
      PROVE  /\ Listening(d)' = Listening(d) /\ cpc'[d] = cpc[d]
             /\ srcpt'[d] = srcpt[d] /\ sndq'[d] = sndq[d]
             /\ bounced'[d] = bounced[d] /\ last'[d] = last[d]
  BY <1>2 DEF RecvSource, RecvDest, Listening
<1>3. CASE RecvSource(c)
  <2>1. Head(rcvq[c]) \in Packets
    BY <1>3, HeadTailProperties DEF RecvSource
  <2>2. /\ UNCHANGED <<sndq, bounced>>
        /\ cpc'[c] = "dest" => sndq[c] > 0
        /\ \/ /\ Head(rcvq[c]).addr = entry[c].src
              /\ srcpt'[c] = Head(rcvq[c]).pt /\ last'[c] = Head(rcvq[c])
           \/ srcpt'[c] = srcpt[c] /\ last'[c] = last[c]
    BY <1>3 DEF RecvSource, AddressMatches, SrcptAfter
  <2>3. ASSUME NEW q \in Packets
        PROVE  q # NoPacket /\ q = [addr |-> q.addr, pt |-> q.pt]
    BY AddressAssumption DEF Packets, NoPacket
  <2>4. WrittenTo(c, last[c], [addr |-> entry[c].src, pt |-> srcpt[c]])'
    BY <1>1, <2>1, <2>2, <2>3 DEF RepliesOK, WrittenTo
  <2> QED
    BY <1>1, <1>2, <2>2, <2>4 DEF RepliesOK, WrittenTo
<1>4. CASE RecvDest(c)
  <2>1. /\ UNCHANGED <<srcpt, last>> /\ cpc'[c] = "select"
        /\ bounced'[c] = bounced[c] \cup
             {[to |-> [addr |-> entry[c].src, pt |-> srcpt[c]], last |-> last[c]]}
    BY <1>4 DEF RecvDest
  <2>2. \A b \in bounced'[c] : WrittenTo(c, b.last, b.to)
    <3> DEFINE new == [to |-> [addr |-> entry[c].src, pt |-> srcpt[c]], last |-> last[c]]
    <3>1. new.last = last[c] /\ new.to = [addr |-> entry[c].src, pt |-> srcpt[c]]
      OBVIOUS
    <3>2. WrittenTo(c, new.last, new.to)
      BY <1>1, <3>1 DEF RepliesOK, WrittenTo
    <3>3. \A b \in bounced[c] : WrittenTo(c, b.last, b.to)
      BY DEF RepliesOK
    <3>4. \A b \in bounced'[c] : b \in bounced[c] \/ b = new
      BY <2>1
    <3> QED
      BY ONLY <3>2, <3>3, <3>4
  <2> QED
    BY <1>1, <1>2, <2>1, <2>2 DEF RepliesOK, WrittenTo
<1>5. QED
  BY <1>3, <1>4

\* A host only adds to what a child has to read.
LEMMA HostReplies ==
    ASSUME DaemonInv, NEW c \in Clients,
           DestSend(c) \/ \E p \in Packets : SourceSend(c, p)
    PROVE  RepliesOK'
<1>1. UNCHANGED <<cpc, entry, srcpt, port, last, bounced>>
  BY DEF DestSend, SourceSend, childVars
<1>2. \A d \in Clients : sndq[d] > 0 => sndq'[d] > 0
  <2>1. sndq' = sndq \/ sndq' = [sndq EXCEPT ![c] = sndq[c] + 1]
    BY DEF DestSend, SourceSend
  <2>2. sndq \in [Clients -> Nat]
    BY DEF DaemonInv, TypeOK
  <2> QED
    BY ONLY <2>1, <2>2
<1>3. QED
  BY <1>1, <1>2 DEF RepliesOK, WrittenTo, Listening, DaemonInv

-----------------------------------------------------------------------------
(* The slots                                                               *)

InUseSlots == {s \in Slots : InUse(s)}
Claims == {c \in registered : request[c].src # NoAddr}

LEMMA FiniteParts ==
    ASSUME DaemonInv
    PROVE  IsFiniteSet(InUseSlots) /\ IsFiniteSet(Claims)
<1>1. IsFiniteSet(Slots)
  BY SessionsAssumption, FS_Interval DEF Slots
<1>2. InUseSlots \subseteq Slots /\ Claims \subseteq registered
  BY DEF InUseSlots, Claims
<1>3. QED
  BY <1>1, <1>2, FS_Subset DEF DaemonInv, SlotsOK

\* A registration takes the first free slot, and none when its source was
\* mistyped.
LEMMA RegisterSlots ==
    ASSUME DaemonInv, Register
    PROVE  SlotsOK'
<1> USE DEF DaemonInv, TypeOK
<1>1. /\ backlog # <<>> /\ request[Head(backlog)].kind = "good"
      /\ registered' = registered \cup {Head(backlog)} /\ UNCHANGED request
  BY DEF Register, Accepts, cliVars
<1>2. PICK s \in Slots :
        /\ Free(s) /\ \A t \in Slots : t < s => ~Free(t)
        /\ nexthoptab' = [nexthoptab EXCEPT ![s] =
              [src |-> request[Head(backlog)].src, dst |-> request[Head(backlog)].dst]]
  BY DEF Register
<1>3. PICK c \in Clients : c = Head(backlog) /\ c \notin registered
  <2>1. Head(backlog) = backlog[1] /\ 1 \in DOMAIN backlog /\ backlog[1] \in Clients
    BY <1>1
  <2> QED
    BY <2>1 DEF StageOK
<1>4. IsFiniteSet(registered')
  BY <1>1, FS_AddElement DEF SlotsOK
<1>5. \A t \in Slots : InUse(t)' = IF t = s THEN request[c].src # NoAddr ELSE InUse(t)
  BY <1>2, <1>3 DEF InUse
<1>6. ~InUse(s) /\ \A t \in Slots : t < s => InUse(t)
  BY <1>2 DEF Free, InUse
<1>7. \A t, u \in Slots : t < u /\ InUse(u)' => InUse(t)'
  <2>1. ASSUME NEW t \in Slots, NEW u \in Slots, t < u, InUse(u)' PROVE InUse(t)'
    <3>1. CASE u = s
      BY <1>5, <1>6, <2>1, <3>1, Constants
    <3>2. CASE u # s
      <4>1. InUse(u) /\ InUse(t)
        BY <1>5, <2>1, <3>2 DEF SlotsOK, SlotsAccounted
      <4> QED
        BY <1>5, <1>6, <4>1
    <3> QED
      BY <3>1, <3>2
  <2> QED
    BY <2>1
<1>8. Cardinality(InUseSlots) = Cardinality(Claims)
  BY DEF SlotsOK, SlotsAccounted, InUseSlots, Claims
<1>9. CASE request[c].src = NoAddr
  <2>1. InUseSlots' = InUseSlots
    BY <1>5, <1>6, <1>9 DEF InUseSlots
  <2>2. Claims' = Claims
    BY <1>1, <1>3, <1>9 DEF Claims
  <2> QED
    BY <1>4, <1>7, <1>8, <2>1, <2>2 DEF SlotsOK, SlotsAccounted, InUseSlots, Claims
<1>10. CASE request[c].src # NoAddr
  <2>1. InUseSlots' = InUseSlots \cup {s} /\ s \notin InUseSlots
    BY <1>5, <1>6, <1>10 DEF InUseSlots
  <2>2. Claims' = Claims \cup {c} /\ c \notin Claims
    BY <1>1, <1>3, <1>10 DEF Claims
  <2>3. /\ Cardinality(InUseSlots') = Cardinality(InUseSlots) + 1
        /\ Cardinality(Claims') = Cardinality(Claims) + 1
    BY <2>1, <2>2, FiniteParts, FS_AddElement
  <2>4. Cardinality(InUseSlots') = Cardinality(Claims')
    BY <1>8, <2>3
  <2> QED
    BY <1>4, <1>7, <2>4 DEF SlotsOK, SlotsAccounted, InUseSlots, Claims
<1>11. QED
  BY <1>9, <1>10

\* Nothing else writes the table or registers.
LEMMA NextSlots ==
    ASSUME DaemonInv, Next
    PROVE  SlotsOK'
<1> USE DEF DaemonInv, parentVars, cliVars, childVars, netVars
<1>1. CASE Register
  BY <1>1, RegisterSlots
<1>2. CASE ~Register
  <2>1. UNCHANGED <<nexthoptab, registered>>
    BY <1>2 DEF Next, Parent, HandshakeCut, Refuse, TableFull, TurnAway, Fork,
       ForkFails, Child, Bind, RecvSource, RecvDest, Environment, Connect,
       SourceSend, DestSend
  <2>2. \A c \in registered : request'[c] = request[c]
    <3>1. CASE \E c \in Clients, r \in Requests : Connect(c, r)
      <4>1. PICK c \in Clients, r \in Requests : Connect(c, r)
        BY <3>1
      <4>2. c \notin registered
        BY <4>1 DEF Connect, StageOK
      <4>3. \A d \in registered : d \in Clients /\ d # c
        BY <4>2 DEF TypeOK
      <4> QED
        BY <4>1, <4>3 DEF Connect, TypeOK
    <3>2. CASE ~\E c \in Clients, r \in Requests : Connect(c, r)
      BY <1>2, <3>2 DEF Next, Parent, HandshakeCut, Refuse, TableFull, TurnAway,
         Fork, ForkFails, Child, Bind, RecvSource, RecvDest, Environment,
         SourceSend, DestSend, Answer
    <3> QED
      BY <3>1, <3>2
  <2>3. \A s : InUse(s)' = InUse(s)
    BY <2>1 DEF InUse
  <2>4. {s \in Slots : InUse(s)}' = {s \in Slots : InUse(s)}
    BY <2>3
  <2>5. {c \in registered : request[c].src # NoAddr}'
          = {c \in registered : request[c].src # NoAddr}
    BY <2>1, <2>2
  <2> QED
    BY <2>1, <2>3, <2>4, <2>5 DEF SlotsOK, SlotsAccounted
<1>3. QED
  BY <1>1, <1>2

-----------------------------------------------------------------------------

\* Every step keeps the invariant.
LEMMA NextDaemon == DaemonInv /\ [Next]_vars => DaemonInv'
<1> SUFFICES ASSUME DaemonInv, [Next]_vars PROVE DaemonInv'
  OBVIOUS
<1>1. CASE UNCHANGED vars
  BY <1>1 DEF vars, parentVars, cliVars, childVars, netVars, DaemonInv, TypeOK,
     StageOK, PortsOK, RepliesOK, WrittenTo, SlotsOK, SlotsAccounted, PathOf,
     Listening, InUse
<1>2. CASE Next
  <2>1. TypeOK'
    BY <1>2, ParentTypes, RelayTypes DEF Next, Environment
  <2>2. StageOK'
    BY <1>2, ConnectStage, ParentStage, RelayStage DEF Next, Environment
  <2>3. RepliesOK'
    BY <1>2, ParentReplies, BindReplies, ChildReplies, HostReplies DEF Next, Child, Environment
  <2> QED
    BY <1>2, <2>1, <2>2, <2>3, NextPorts, NextSlots DEF DaemonInv
<1>3. QED
  BY <1>1, <1>2

\* DaemonInv holds throughout.
THEOREM DaemonCorrect == Spec => []DaemonInv
BY InitDaemon, NextDaemon, PTL DEF Spec

\* Type correctness of the parent, its table, the children and their queues.
THEOREM DaemonTypes == Spec => []TypeOK
BY DaemonCorrect, PTL DEF DaemonInv

\* A port that a tunnelcli prints serves the path it asked for, and the slots
\* in use are the registrations: none is lost, shared or counted twice,
\* whatever was refused, cut or mistyped and whatever fork() failed.
THEOREM RegistrationsCorrect == Spec => []RegistrationsHonoured
<1>1. DaemonInv => RegistrationsHonoured
  <2> SUFFICES ASSUME DaemonInv PROVE PrintedPortServes
    BY DEF DaemonInv, SlotsOK, RegistrationsHonoured
  <2>1. ASSUME NEW c \in Clients, printed[c] # NoPort
        PROVE  /\ Listening(c) /\ port[c] = printed[c]
               /\ entry[c].src = request[c].src /\ entry[c].dst = request[c].dst
               /\ \A d \in Clients \ {c} : printed[d] # printed[c]
    <3>1. Listening(c) /\ port[c] = printed[c]
      BY <2>1 DEF DaemonInv, PortsOK
    <3>2. entry[c].src = request[c].src /\ entry[c].dst = request[c].dst
      BY <3>1, ChildPath DEF Listening
    <3>3. \A d \in Clients \ {c} : printed[d] # printed[c]
      BY <2>1, <3>1 DEF DaemonInv, PortsOK
    <3> QED
      BY <3>1, <3>2, <3>3
  <2> QED
    BY <2>1 DEF PrintedPortServes
<1>2. QED
  BY <1>1, DaemonCorrect, PTL

\* tunneld.c:232-237 of the first daemon: whoever sent it and whenever, a datagram
\* of a child's sendSocket goes to where the packet of its source came from that
\* the child read last, and before there was one to the port the child listens on.
THEOREM RepliesCorrect == Spec => []RepliesReachSource
<1>1. DaemonInv => RepliesReachSource
  BY DEF DaemonInv, RepliesOK, WrittenTo, RepliesReachSource
<1>2. QED
  BY <1>1, DaemonCorrect, PTL

-----------------------------------------------------------------------------
(* The daemon implements RelayService                                      *)

Routes == [a \in Sources |-> RoutesOf(a)]
Asked == [a \in Sources |-> AskedFor(a)]

\* A request asks for its path, unless its source was mistyped or it is refused.
LEMMA ConnectAsks ==
    ASSUME DaemonInv, NEW c \in Clients, NEW r \in Requests, Connect(c, r)
    PROVE  Service!Next \/ UNCHANGED Service!vars
<1>1. /\ request[c] = NoRequest /\ request' = [request EXCEPT ![c] = r]
      /\ UNCHANGED <<cpc, entry, delivered>>
  BY DEF Connect, DaemonInv, StageOK, childVars, netVars
<1>2. \A d \in Clients : request'[d] = IF d = c THEN r ELSE request[d]
  BY <1>1 DEF DaemonInv, TypeOK
<1>3. Routes' = Routes
  BY <1>1 DEF Routes, RoutesOf
<1>4. NoRequest.kind # "good"
  BY DEF NoRequest
<1>5. ASSUME NEW a \in Sources
      PROVE  AskedFor(a)' = IF r.kind = "good" /\ r.src = a
                            THEN AskedFor(a) \cup {r.dst} ELSE AskedFor(a)
  <2>1. ASSUME NEW d \in Clients, d # c
        PROVE  request'[d] = request[d]
    BY <1>2, <2>1
  <2>2. request'[c] = r /\ request[c].kind # "good"
    BY <1>1, <1>2, <1>4
  <2> QED
    BY ONLY <2>1, <2>2 DEF AskedFor
<1>6. CASE r.kind = "good" /\ r.src \in Sources
  <2>1. r.dst \in Dests
    BY <1>6, GoodRequest
  <2>2. Asked' = [Asked EXCEPT ![r.src] = @ \cup {r.dst}]
    BY <1>5, <1>6 DEF Asked
  <2>3. Service!Ask(r.src, r.dst)
    BY <1>1, <1>3, <2>2 DEF Service!Ask, Asked, Routes
  <2> QED
    BY <1>6, <2>1, <2>3 DEF Service!Next
<1>7. CASE ~(r.kind = "good" /\ r.src \in Sources)
  <2>1. Asked' = Asked
    BY <1>5, <1>7 DEF Asked
  <2> QED
    BY <1>1, <1>3, <2>1 DEF Service!vars, Asked, Routes
<1>8. QED
  BY <1>6, <1>7

\* A fork adds the path that was asked for, unless its source was mistyped.
LEMMA AddRouteStep ==
    ASSUME DaemonInv, Fork
    PROVE  Service!Next \/ UNCHANGED Service!vars
<1>1. /\ conn \in Clients /\ cpc[conn] = "none" /\ request[conn] \in GoodRequests
      /\ cpc' = [cpc EXCEPT ![conn] = "bind"]
      /\ entry' = [entry EXCEPT ![conn] = PathOf(conn)]
      /\ UNCHANGED <<delivered, request>>
  BY DEF Fork, DaemonInv, StageOK, TypeOK, netVars, cliVars
<1>2. /\ PathOf(conn).src \in Sources \cup {NoAddr} /\ PathOf(conn).dst \in Dests
      /\ PathOf(conn).src \in Sources =>
           PathOf(conn).dst \in AskedFor(PathOf(conn).src)
  BY <1>1, GoodRequest DEF PathOf, AskedFor, GoodRequests
<1>3. \A c \in Clients : /\ c # conn => cpc'[c] = cpc[c] /\ entry'[c] = entry[c]
                         /\ c = conn => cpc'[c] = "bind" /\ entry'[c] = PathOf(conn)
  BY <1>1 DEF DaemonInv, TypeOK
<1>4. ASSUME NEW a \in Sources
      PROVE  RoutesOf(a)' = IF a = PathOf(conn).src
                            THEN RoutesOf(a) \cup {PathOf(conn).dst} ELSE RoutesOf(a)
  BY <1>1, <1>3 DEF RoutesOf
<1>5. Asked' = Asked
  BY <1>1 DEF Asked, AskedFor
<1>6. CASE PathOf(conn).src \in Sources
  <2>1. Routes' = [Routes EXCEPT ![PathOf(conn).src] = @ \cup {PathOf(conn).dst}]
    BY <1>4, <1>6 DEF Routes
  <2>2. Service!AddRoute(PathOf(conn).src, PathOf(conn).dst)
    BY <1>1, <1>2, <1>5, <1>6, <2>1 DEF Service!AddRoute, Routes, Asked
  <2> QED
    BY <1>2, <1>6, <2>2 DEF Service!Next
<1>7. CASE PathOf(conn).src \notin Sources
  <2>1. Routes' = Routes
    BY <1>4, <1>7 DEF Routes
  <2> QED
    BY <1>1, <1>5, <2>1 DEF Service!vars, Routes, Asked
<1>8. QED
  BY <1>6, <1>7

\* Any other step leaves the routes as they are.
LEMMA RoutesKept ==
    ASSUME DaemonInv, [Next]_vars, ~Fork
    PROVE  Routes' = Routes
<1>1. entry' = entry
        /\ \A c \in Clients : (cpc'[c] # "none") = (cpc[c] # "none")
  <2>1. CASE \E c \in Clients : Child(c)
    BY <2>1 DEF Child, Bind, RecvSource, RecvDest, DaemonInv, TypeOK
  <2>2. CASE ~\E c \in Clients : Child(c)
    BY <2>2 DEF Next, Parent, HandshakeCut, Refuse, TableFull, TurnAway,
         Register, ForkFails, Environment, Connect, SourceSend, DestSend, vars, childVars
  <2> QED
    BY <2>1, <2>2
<1>2. \A a \in Sources : RoutesOf(a)' = RoutesOf(a)
  BY <1>1 DEF RoutesOf
<1>3. QED
  BY <1>2 DEF Routes

\* A child carries a packet on the path it has for the packet's source.
LEMMA CarryStep ==
    ASSUME DaemonInv, NEW c \in Clients, RecvSource(c)
    PROVE  Service!Next \/ UNCHANGED Service!vars
<1>1. Routes' = Routes
  BY RoutesKept DEF Next, Child, RecvSource, Fork, parentVars, DaemonInv
<1>2. Asked' = Asked
  BY DEF RecvSource, cliVars, Asked, AskedFor
<1>3. CASE delivered' = delivered
  BY <1>1, <1>2, <1>3 DEF Service!vars, Routes, Asked
<1>4. CASE delivered' # delivered
  <2>1. /\ cpc[c] # "none" /\ rcvq[c] # <<>>
        /\ Head(rcvq[c]).addr = entry[c].src
        /\ delivered' = [delivered EXCEPT ![Head(rcvq[c]).addr][entry[c].dst] = @ + 1]
    BY <1>4 DEF RecvSource, AddressMatches
  <2>2. Head(rcvq[c]).addr \in Sources
    <3>1. rcvq[c] \in Seq(Packets)
      BY DEF DaemonInv, TypeOK
    <3>2. Head(rcvq[c]) \in Packets
      BY <2>1, <3>1, HeadTailProperties
    <3> QED
      BY <3>2 DEF Packets
  <2>3. entry[c].dst \in Dests /\ entry[c].dst \in RoutesOf(Head(rcvq[c]).addr)
    BY <2>1, ChildPath DEF RoutesOf
  <2>4. Service!Carry(Head(rcvq[c]).addr, entry[c].dst)
    BY <1>1, <1>2, <2>1, <2>2, <2>3 DEF Service!Carry, Routes, Asked
  <2> QED
    BY <2>2, <2>3, <2>4 DEF Service!Next
<1>5. QED
  BY <1>3, <1>4

\* Every step of the daemon is a step or a stutter of RelayService: no packet
\* of a source goes anywhere but to a destination that was asked for it.
THEOREM ImplementsService == Spec => ServiceSpec
<1>1. Init => Service!Init
  BY DEF Init, Service!Init, RoutesOf, AskedFor, NoRequest
<1>2. DaemonInv /\ [Next]_vars => [Service!Next]_(Service!vars)
  <2> SUFFICES ASSUME DaemonInv, [Next]_vars
               PROVE  Service!Next \/ UNCHANGED Service!vars
    OBVIOUS
  <2>1. CASE \E c \in Clients, r \in Requests : Connect(c, r)
    BY <2>1, ConnectAsks
  <2>2. CASE Fork \/ \E c \in Clients : RecvSource(c)
    BY <2>2, AddRouteStep, CarryStep
  <2>3. CASE /\ ~Fork /\ ~\E c \in Clients : RecvSource(c)
             /\ ~\E c \in Clients, r \in Requests : Connect(c, r)
    <3>1. UNCHANGED <<delivered, request>>
      BY <2>3 DEF Next, Parent, HandshakeCut, Refuse, TableFull, TurnAway, Answer,
         Register, ForkFails, Child, Bind, RecvDest, Environment, SourceSend,
         DestSend, vars, netVars, cliVars
    <3>2. Asked' = Asked
      BY <3>1 DEF Asked, AskedFor
    <3> QED
      BY <2>3, <3>1, <3>2, RoutesKept DEF Service!vars, Routes, Asked
  <2> QED
    BY <2>1, <2>2, <2>3
<1>3. QED
  BY <1>1, <1>2, DaemonCorrect, PTL DEF Spec, ServiceSpec, Service!Spec

-----------------------------------------------------------------------------
(* The connections                                                         *)

\* A tunnelcli waits exactly as long as one process can still answer it: it is
\* in the listen queue, or the parent serves it, or its child looks for a port.
Queued == {backlog[i] : i \in DOMAIN backlog}
Serving(c) == ppc = "fork" /\ conn = c

HeldOnce ==
    /\ \A c \in Clients :
         /\ cstate[c] = "waiting" <=> c \in Queued \/ Serving(c) \/ cpc[c] = "bind"
         /\ c \in Queued => ~Serving(c) /\ cpc[c] # "bind"
         /\ Serving(c) => cpc[c] # "bind"
    /\ \A i, j \in DOMAIN backlog : backlog[i] = backlog[j] => i = j
    /\ ppc = "exited" => backlog = <<>>

\* What StageOK leaves open.
NotForgotten ==
    /\ \A c \in Clients :
         cstate[c] = "waiting" => c \in Queued \/ Serving(c) \/ cpc[c] = "bind"
    /\ ppc = "exited" => backlog = <<>>

LEMMA QueueHead ==
    ASSUME TypeOK, backlog # <<>>, backlog' = Tail(backlog)
    PROVE  /\ Head(backlog) \in Clients
           /\ Queued = Queued' \cup {Head(backlog)}
<1>1. /\ Head(backlog) = backlog[1] /\ 1 \in DOMAIN backlog /\ backlog[1] \in Clients
      /\ \A i \in DOMAIN backlog' : i + 1 \in DOMAIN backlog /\ backlog'[i] = backlog[i + 1]
      /\ \A i \in DOMAIN backlog : i # 1 => \E j \in DOMAIN backlog' : i = j + 1
  <2>1. /\ DOMAIN backlog = 1 .. Len(backlog) /\ Len(backlog) \in Nat \ {0}
        /\ DOMAIN Tail(backlog) = 1 .. (Len(backlog) - 1)
    BY DEF TypeOK
  <2>2. \A i \in DOMAIN backlog : i # 1 =>
          i - 1 \in DOMAIN Tail(backlog) /\ i = (i - 1) + 1
    BY <2>1
  <2> QED
    BY <2>1, <2>2 DEF TypeOK
<1>2. ASSUME NEW i \in DOMAIN backlog
      PROVE  backlog[i] = Head(backlog) \/ \E j \in DOMAIN backlog' : backlog'[j] = backlog[i]
  BY ONLY <1>1, i \in DOMAIN backlog
<1> QED
  BY ONLY <1>1, <1>2 DEF Queued

LEMMA NextNotForgotten ==
    ASSUME DaemonInv, NotForgotten, [Next]_vars
    PROVE  NotForgotten'
<1> USE DEF NotForgotten, Serving, DaemonInv
<1>1. ASSUME NEW c \in Clients, NEW r \in Requests, Connect(c, r)
      PROVE  NotForgotten'
  <2>1. /\ UNCHANGED <<ppc, conn, cpc>> /\ ppc # "exited"
        /\ backlog' = Append(backlog, c)
        /\ \A d \in Clients : d # c => cstate'[d] = cstate[d]
    BY <1>1 DEF Connect, parentVars, childVars, TypeOK
  <2>2. Queued' = Queued \cup {c}
    <3>1. /\ DOMAIN backlog' = DOMAIN backlog \cup {Len(backlog) + 1}
          /\ backlog'[Len(backlog) + 1] = c
          /\ \A i \in DOMAIN backlog : backlog'[i] = backlog[i]
      BY <2>1 DEF TypeOK
    <3> QED
      BY ONLY <3>1 DEF Queued
  <2> QED
    BY <2>1, <2>2
<1>2. CASE HandshakeCut
  <2>1. /\ \A c \in Clients : cstate'[c] = IF c \in Queued THEN "done" ELSE cstate[c]
        /\ UNCHANGED cpc /\ ppc = "accept" /\ backlog' = <<>>
    BY <1>2 DEF HandshakeCut, Accepts, Queued, childVars
  <2> QED
    BY <2>1
<1>3. CASE Refuse \/ TableFull \/ Register
  <2>1. backlog # <<>> /\ backlog' = Tail(backlog) /\ UNCHANGED cpc /\ ppc = "accept"
    BY <1>3 DEF Refuse, TableFull, TurnAway, Register, Accepts, childVars
  <2>2. Queued = Queued' \cup {Head(backlog)} /\ Head(backlog) \in Clients
    BY <2>1, QueueHead
  <2>3. CASE Register
    BY <2>1, <2>2, <2>3 DEF Register, cliVars
  <2>4. CASE Refuse \/ TableFull
    <3>1. /\ cstate'[Head(backlog)] = "done" /\ UNCHANGED <<ppc, conn>>
          /\ \A d \in Clients : d # Head(backlog) => cstate'[d] = cstate[d]
      BY <2>2, <2>4 DEF Refuse, TableFull, TurnAway, Answer, parentVars, TypeOK
    <3> QED
      BY <2>1, <2>2, <3>1
  <2> QED
    BY <1>3, <2>3, <2>4
<1>4. CASE Fork \/ ForkFails
  <2>1. /\ UNCHANGED <<backlog, conn>> /\ ppc = "fork" /\ ppc' = "accept"
        /\ conn \in Clients
    BY <1>4 DEF Fork, ForkFails, StageOK, TypeOK
  <2>2. CASE Fork
    BY <2>1, <2>2 DEF Fork, cliVars, TypeOK, Queued
  <2>3. CASE ForkFails
    BY <2>1, <2>3 DEF ForkFails, Answer, childVars, TypeOK, Queued
  <2> QED
    BY <1>4, <2>2, <2>3
<1>5. ASSUME NEW c \in Clients, Bind(c) PROVE NotForgotten'
  <2>1. /\ UNCHANGED <<backlog, ppc, conn>> /\ cstate'[c] = "done"
        /\ \A d \in Clients : d # c => cstate'[d] = cstate[d] /\ cpc'[d] = cpc[d]
    BY <1>5 DEF Bind, Answer, parentVars, TypeOK
  <2> QED
    BY <2>1 DEF Queued
<1>6. CASE \/ \E c \in Clients : RecvSource(c) \/ RecvDest(c) \/ DestSend(c)
           \/ \E c \in Clients, p \in Packets : SourceSend(c, p)
           \/ UNCHANGED vars
  <2>1. UNCHANGED <<backlog, ppc, conn, cstate>>
    BY <1>6 DEF RecvSource, RecvDest, DestSend, SourceSend, vars, parentVars, cliVars
  <2>2. \A d \in Clients : cpc[d] = "bind" => cpc'[d] = "bind"
    BY <1>6 DEF RecvSource, RecvDest, DestSend, SourceSend, vars, childVars, TypeOK
  <2> QED
    BY <2>1, <2>2 DEF Queued
<1> QED
  BY <1>1, <1>2, <1>3, <1>4, <1>5, <1>6 DEF Next, Parent, Child, Environment

\* tunneld.c:72-256 of the first daemon: no tunnelcli is forgotten and none
\* answered twice, whatever requests are refused or cut and whatever forks fail.
THEOREM ConnectionsCorrect == Spec => []HeldOnce
<1>1. Init => NotForgotten
  BY DEF Init, NotForgotten
<1>2. DaemonInv /\ NotForgotten /\ [Next]_vars => NotForgotten'
  BY NextNotForgotten
<1>3. DaemonInv /\ NotForgotten => HeldOnce
  <2> SUFFICES ASSUME DaemonInv, NotForgotten PROVE HeldOnce
    OBVIOUS
  <2>1. \A c \in Queued : cstate[c] = "waiting" /\ cpc[c] = "none" /\ c \notin registered
    BY DEF DaemonInv, StageOK, Queued
  <2>2. \A c \in Clients : Serving(c) =>
          c \in registered /\ cstate[c] = "waiting" /\ cpc[c] = "none"
    BY DEF DaemonInv, StageOK, Serving
  <2> QED
    BY <2>1, <2>2 DEF DaemonInv, StageOK, NotForgotten, HeldOnce
<1> QED
  BY <1>1, <1>2, <1>3, DaemonCorrect, PTL DEF Spec
=============================================================================
