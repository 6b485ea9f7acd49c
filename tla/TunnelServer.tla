---------------------------- MODULE TunnelServer ----------------------------
(***************************************************************************)
(* The first tunnel daemon (tunnel_server/tunneld.c), its tunnelcli        *)
(* (tunnelcli.c) and the hosts that use it.                                *)
(*                                                                         *)
(* The parent registers one path per tunnelcli in a table that is its own: *)
(* a child works on the copy it got at the fork, and relays for ever.  The *)
(* child, its port and its queues are known by the tunnelcli it was forked *)
(* for.                                                                    *)
(***************************************************************************)
EXTENDS Naturals, Sequences, FiniteSets

CONSTANTS
    Clients,     \* tunnelcli processes
    NoClient,    \* no connection accepted yet
    Sources,     \* IP addresses of source hosts
    Dests,       \* destinations (address and port together)
    SrcPorts,    \* ephemeral UDP ports of the source hosts
    NoAddr,      \* srcaddr of a free slot (0 in the code)
    NoDst,       \* dstaddr and destpt of a slot never written
    SESSIONS,    \* slots of nexthoptab (5)
    FirstPort,   \* first UDP port a child tries to listen on (56600)
    LastPort,    \* the last one there is
    MaxPackets,  \* bound: datagrams the source hosts send
    MaxReplies   \* bound: datagrams the destinations send

ASSUME SessionsAssumption == SESSIONS \in Nat \ {0}
ASSUME PortsAssumption ==
    /\ FirstPort \in Nat \ {0}
    /\ LastPort \in Nat
    /\ SrcPorts \subseteq Nat
ASSUME BoundsAssumption == MaxPackets \in Nat /\ MaxReplies \in Nat
ASSUME AddressAssumption ==
    NoAddr \notin Sources /\ NoDst \notin Dests /\ NoClient \notin Clients

Slots == 0 .. (SESSIONS - 1)
Ports == FirstPort .. LastPort
NoPort == 0                \* what tunnelcli prints when nothing was answered

Packets == [addr : Sources, pt : SrcPorts]
Entries == [src : Sources \cup {NoAddr}, dst : Dests \cup {NoDst}]

\* A mistyped source address is sent as 0.  A request that is refused has
\* another code or password; a cut one is from a tunnelcli that was killed.
GoodRequests == [src : Sources \cup {NoAddr}, dst : Dests, kind : {"good"}]
BadRequests == [src : {NoAddr}, dst : {NoDst}, kind : {"refused", "cut"}]
Requests == GoodRequests \cup BadRequests

NoRequest == [src |-> NoAddr, dst |-> NoDst, kind |-> "none"]
NoEntry == [src |-> NoAddr, dst |-> NoDst]
NoPacket == [addr |-> NoAddr, pt |-> NoPort]

VARIABLES
    \* the parent
    nexthoptab,  \* dstaddr, destpt and srcaddr of each slot
    ppc,         \* "accept", "fork" or "exited"
    conn, sessionid,
    backlog,     \* connections waiting in the listen queue
    \* the tunnelcli processes
    cstate, request, printed,
    \* the children
    cpc,         \* "none", "bind", "select" or "dest"
    entry,       \* the child's copy of its slot of nexthoptab
    srcpt,       \* the srcpt of that copy
    port,        \* UDP port of its receiveSocket
    rcvq, sndq,  \* what its two sockets hold
    delivered,   \* packets of a source that reached a destination
    bounced,     \* where a child sent the packets of its sendSocket, and the
                 \* last packet of its source at that time
    \* history
    sendable,    \* datagrams the sources may still send
    repliable,   \* datagrams the destinations may still send
    last,        \* the packet of its source that a child read last
    registered   \* the tunnelcli whose path was put in the table

parentVars == <<nexthoptab, ppc, conn, sessionid, registered>>
cliVars == <<cstate, request, printed>>
childVars == <<cpc, entry, srcpt, port>>
netVars == <<rcvq, sndq, delivered, bounced, sendable, repliable, last>>
vars == <<parentVars, backlog, cliVars, childVars, netVars>>

Init ==
    /\ nexthoptab = [s \in Slots |-> NoEntry]
    /\ ppc = "accept" /\ conn = NoClient /\ sessionid = 0
    /\ backlog = <<>>
    /\ cstate = [c \in Clients |-> "idle"]
    /\ request = [c \in Clients |-> NoRequest]
    /\ printed = [c \in Clients |-> NoPort]
    /\ cpc = [c \in Clients |-> "none"]
    /\ entry = [c \in Clients |-> NoEntry]
    /\ srcpt = [c \in Clients |-> NoPort]
    /\ port = [c \in Clients |-> NoPort]
    /\ rcvq = [c \in Clients |-> <<>>]
    /\ sndq = [c \in Clients |-> 0]
    /\ delivered = [a \in Sources |-> [d \in Dests |-> 0]]
    /\ bounced = [c \in Clients |-> {}]
    /\ sendable = MaxPackets
    /\ repliable = MaxReplies
    /\ last = [c \in Clients |-> NoPacket]
    /\ registered = {}

-----------------------------------------------------------------------------
(* tunnelcli                                                               *)

Connect(c, r) ==
    /\ cstate[c] = "idle"
    /\ ppc # "exited"
    /\ cstate' = [cstate EXCEPT ![c] = "waiting"]
    /\ request' = [request EXCEPT ![c] = r]
    /\ backlog' = Append(backlog, c)
    /\ UNCHANGED <<parentVars, printed, childVars, netVars>>

\* The blocked read returns: the port, or 0 at end of file.
Answer(c, p) ==
    /\ cstate' = [cstate EXCEPT ![c] = "done"]
    /\ printed' = [printed EXCEPT ![c] = p]
    /\ UNCHANGED request

-----------------------------------------------------------------------------
(* The parent                                                              *)

Accepts(kind) ==
    /\ ppc = "accept"
    /\ backlog # <<>>
    /\ request[Head(backlog)].kind = kind

\* A short read: error() exits the parent and every connection is reset.
HandshakeCut ==
    /\ Accepts("cut")
    /\ ppc' = "exited"
    /\ LET held == {backlog[i] : i \in DOMAIN backlog} IN
         cstate' = [c \in Clients |-> IF c \in held THEN "done" ELSE cstate[c]]
    /\ backlog' = <<>>
    /\ UNCHANGED <<nexthoptab, conn, sessionid, registered, request, printed,
                   childVars, netVars>>

TurnAway ==
    /\ Answer(Head(backlog), NoPort)
    /\ backlog' = Tail(backlog)
    /\ UNCHANGED <<parentVars, childVars, netVars>>

Refuse == Accepts("refused") /\ TurnAway

\* Faulty: a slot of the same source is taken for free.
FreeOrOwn(s) == nexthoptab[s].src \in {NoAddr, request[Head(backlog)].src}

\* A slot is free while its srcaddr is 0: one that was registered with a
\* mistyped source still is.
Free(s) == nexthoptab[s].src = NoAddr

\* The table is looked at before the path is read, so a request that was cut
\* after the password is turned away as well.
TableFull ==
    /\ Accepts("good") \/ Accepts("cut")
    /\ \A s \in Slots : ~Free(s)
    /\ TurnAway

Register ==
    /\ Accepts("good")
    /\ LET c == Head(backlog) IN
         \E s \in Slots :
           /\ Free(s) /\ \A t \in Slots : t < s => ~Free(t)
           /\ nexthoptab' = [nexthoptab EXCEPT ![s] =
                 [src |-> request[c].src, dst |-> request[c].dst]]
           /\ sessionid' = s
           /\ conn' = c
           /\ registered' = registered \cup {c}
    /\ backlog' = Tail(backlog)
    /\ ppc' = "fork"
    /\ UNCHANGED <<cliVars, childVars, netVars>>

\* The child inherits a copy of the table and the connection.
Fork ==
    /\ ppc = "fork"
    /\ cpc' = [cpc EXCEPT ![conn] = "bind"]
    /\ entry' = [entry EXCEPT ![conn] = nexthoptab[sessionid]]
    /\ ppc' = "accept"
    /\ UNCHANGED <<nexthoptab, conn, sessionid, registered, backlog, cliVars,
                   srcpt, port, netVars>>

\* fork() returns -1: the connection is closed, the slot stays as it is.
ForkFails ==
    /\ ppc = "fork"
    /\ Answer(conn, NoPort)
    /\ ppc' = "accept"
    /\ UNCHANGED <<nexthoptab, conn, sessionid, registered, backlog,
                   childVars, netVars>>

-----------------------------------------------------------------------------
(* The child forked for c                                                  *)

Listening(c) == cpc[c] \in {"select", "dest"}

PortFree(p) == \A c \in Clients : Listening(c) => port[c] # p

\* The lowest port that no other child listens on; the client is told it.
Bind(c) ==
    /\ cpc[c] = "bind"
    /\ \E p \in Ports :
         /\ PortFree(p) /\ \A q \in Ports : q < p => ~PortFree(q)
         /\ port' = [port EXCEPT ![c] = p]
         /\ srcpt' = [srcpt EXCEPT ![c] = p]
         /\ Answer(c, p)
    /\ cpc' = [cpc EXCEPT ![c] = "select"]
    /\ UNCHANGED <<parentVars, backlog, entry, netVars>>

\* Faulty: packets of any host are relayed.
AddressMatchesAny(p, c) == TRUE

AddressMatches(p, c) == p.addr = entry[c].src

\* Faulty: the source's port is not recorded.
SrcptAfterNone(p, c) == srcpt[c]

SrcptAfter(p, c) == p.pt

\* A packet from the source is sent on, and may be lost: the result of sendto()
\* is not looked at.  Then the send socket is looked at if select() had found it
\* readable too.  A packet of another host is dropped and select() called again.
RecvSource(c) ==
    /\ cpc[c] = "select"
    /\ rcvq[c] # <<>>
    /\ LET p == Head(rcvq[c]) IN
         \/ /\ AddressMatches(p, c)
            /\ srcpt' = [srcpt EXCEPT ![c] = SrcptAfter(p, c)]
            /\ \/ delivered' =
                     [delivered EXCEPT ![p.addr][entry[c].dst] = @ + 1]
               \/ UNCHANGED delivered
            /\ cpc' = [cpc EXCEPT ![c] = IF sndq[c] > 0 THEN "dest" ELSE @]
            /\ last' = [last EXCEPT ![c] = p]
         \/ /\ ~AddressMatches(p, c)
            /\ UNCHANGED <<srcpt, delivered, cpc, last>>
    /\ rcvq' = [rcvq EXCEPT ![c] = Tail(@)]
    /\ UNCHANGED <<parentVars, backlog, cliVars, entry, port, sndq, bounced,
                   sendable, repliable>>

\* A packet of the send socket goes to the source, at the port in srcpt, which
\* is the child's own until the source has sent one.
RecvDest(c) ==
    /\ \/ cpc[c] = "dest"
       \/ cpc[c] = "select" /\ rcvq[c] = <<>> /\ sndq[c] > 0
    /\ bounced' = [bounced EXCEPT ![c] =
          @ \cup {[to |-> [addr |-> entry[c].src, pt |-> srcpt[c]],
                   last |-> last[c]]}]
    /\ sndq' = [sndq EXCEPT ![c] = @ - 1]
    /\ cpc' = [cpc EXCEPT ![c] = "select"]
    /\ UNCHANGED <<parentVars, backlog, cliVars, entry, srcpt, port, rcvq,
                   delivered, sendable, repliable, last>>

-----------------------------------------------------------------------------
(* The hosts on the network                                                *)

SourceSend(c, p) ==
    /\ Listening(c)
    /\ sendable > 0
    /\ sendable' = sendable - 1
    /\ rcvq' = [rcvq EXCEPT ![c] = Append(@, p)]
    /\ UNCHANGED <<parentVars, backlog, cliVars, childVars, sndq, delivered,
                   bounced, repliable, last>>

\* A datagram from anyone reaches a child's sendSocket, also before the source
\* has sent one.
DestSend(c) ==
    /\ Listening(c)
    /\ repliable > 0
    /\ repliable' = repliable - 1
    /\ sndq' = [sndq EXCEPT ![c] = @ + 1]
    /\ UNCHANGED <<parentVars, backlog, cliVars, childVars, rcvq, delivered,
                   bounced, sendable, last>>

-----------------------------------------------------------------------------

Parent == HandshakeCut \/ Refuse \/ TableFull \/ Register \/ Fork \/ ForkFails

Child(c) == Bind(c) \/ RecvSource(c) \/ RecvDest(c)

Environment ==
    \E c \in Clients :
      \/ \E r \in Requests : Connect(c, r)
      \/ \E p \in Packets : SourceSend(c, p)
      \/ DestSend(c)

Next == Parent \/ (\E c \in Clients : Child(c)) \/ Environment

Spec == Init /\ [][Next]_vars

-----------------------------------------------------------------------------
(* Properties                                                              *)

Bounces == [to : [addr : Sources \cup {NoAddr},
                  pt : {NoPort} \cup Ports \cup SrcPorts],
            last : Packets \cup {NoPacket}]

\* Every variable has the values the C declarations and the control flow allow.
TypeOK ==
    /\ nexthoptab \in [Slots -> Entries]
    /\ ppc \in {"accept", "fork", "exited"}
    /\ conn \in Clients \cup {NoClient}
    /\ sessionid \in Slots
    /\ backlog \in Seq(Clients)
    /\ cstate \in [Clients -> {"idle", "waiting", "done"}]
    /\ request \in [Clients -> Requests \cup {NoRequest}]
    /\ printed \in [Clients -> {NoPort} \cup Ports]
    /\ cpc \in [Clients -> {"none", "bind", "select", "dest"}]
    /\ entry \in [Clients -> Entries]
    /\ srcpt \in [Clients -> {NoPort} \cup Ports \cup SrcPorts]
    /\ port \in [Clients -> {NoPort} \cup Ports]
    /\ rcvq \in [Clients -> Seq(Packets)]
    /\ sndq \in [Clients -> Nat]
    /\ delivered \in [Sources -> [Dests -> Nat]]
    /\ bounced \in [Clients -> SUBSET Bounces]
    /\ sendable \in Nat /\ repliable \in Nat
    /\ last \in [Clients -> Packets \cup {NoPacket}]
    /\ registered \subseteq Clients

\* A slot whose srcaddr is a source.
InUse(s) == nexthoptab[s].src # NoAddr

\* The port a tunnelcli prints is, from then on, the port of a child that
\* relays the path this tunnelcli asked for, and no other prints it.
PrintedPortServes ==
    \A c \in Clients : printed[c] # NoPort =>
      /\ Listening(c) /\ port[c] = printed[c]
      /\ entry[c].src = request[c].src /\ entry[c].dst = request[c].dst
      /\ \A d \in Clients \ {c} : printed[d] # printed[c]

\* Every slot in use is one registration of a source, first to last, whatever
\* was refused or mistyped and whatever fork() failed: no other tunnelcli is
\* turned away than those after the first SESSIONS.
SlotsAccounted ==
    /\ \A s, t \in Slots : t < s /\ InUse(s) => InUse(t)
    /\ Cardinality({s \in Slots : InUse(s)})
         = Cardinality({c \in registered : request[c].src # NoAddr})

\* A registration is worth what its tunnelcli was told, and costs one slot.
RegistrationsHonoured == PrintedPortServes /\ SlotsAccounted

\* What reaches a child's sendSocket is sent to where the packet of its source
\* came from that it read last, though the ports change; and before the first
\* of them to the port the child itself listens on.
RepliesReachSource ==
    \A c \in Clients : \A b \in bounced[c] :
      IF b.last = NoPacket THEN b.to.pt = port[c] ELSE b.to = b.last

\* The promise of RelayService, by sessions that never end and with no stray
\* path: nothing is carried for a source off the paths asked for that source.
RoutesOf(a) ==
    {entry[c].dst : c \in {k \in Clients : cpc[k] # "none" /\ entry[k].src = a}}

AskedFor(a) ==
    {request[c].dst : c \in {k \in Clients : request[k].kind = "good"
                                            /\ request[k].src = a}}

Service == INSTANCE RelayService WITH
    asked <- [a \in Sources |-> AskedFor(a)], stray <- {},
    routes <- [a \in Sources |-> RoutesOf(a)], carried <- delivered, ended <- {}

ServiceSpec == Service!Spec
=============================================================================
