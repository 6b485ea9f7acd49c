------------------------------- MODULE Tunneld -------------------------------
(***************************************************************************)
(* The load-balancing tunnel daemon (load_balancing_server/tunneld.c) with *)
(* the tunnelcli processes that register paths (tunnelcli.c), and the      *)
(* source and destination hosts as environment.                            *)
(*                                                                         *)
(* The parent process serves one TCP connection at a time: it reads the    *)
(* handshake, finds or opens the source's slot of nexthoptab (shared       *)
(* memory), appends the destination, and either answers with the slot's    *)
(* srcpt or forks the child that relays the session's UDP packets.  Parent *)
(* and children run concurrently on the shared table: a step here is the   *)
(* code between two accesses that another process can tell apart.          *)
(***************************************************************************)
EXTENDS Naturals, Sequences, FiniteSets

CONSTANTS
    Clients,     \* tunnelcli processes
    NoClient,    \* no connection accepted yet
    Sources,     \* IP addresses of source hosts
    Dests,       \* destinations (address and port together)
    SrcPorts,    \* ephemeral UDP ports of the source hosts
    NoAddr,      \* srcaddr of a free slot (0 in the code)
    NoDst,       \* dstaddr/destpt of a hop never written
    BadDst,      \* a destination whose port bytes were overwritten
    SESSIONS,    \* slots of nexthoptab, and hops each of them has room for
    NUM_PACKS,   \* packets sent to a hop before the next one's turn
    FirstPort,   \* first UDP port a child tries to listen on (56600)
    MaxDests,    \* bound: destinations registered for one slot
    MaxPackets,  \* bound: datagrams the source hosts send
    MaxReplies   \* bound: datagrams the destinations send

ASSUME SessionsAssumption == SESSIONS \in Nat \ {0}
ASSUME NumPacksAssumption == NUM_PACKS \in Nat \ {0}
ASSUME FirstPortAssumption == FirstPort \in Nat \ {0}
ASSUME BoundsAssumption ==
    /\ MaxDests \in 1 .. (SESSIONS + 1)
    /\ MaxPackets \in Nat
    /\ MaxReplies \in Nat
ASSUME AddressAssumption ==
    /\ NoAddr \notin Sources
    /\ NoDst \notin Dests
    /\ BadDst \notin Dests
    /\ NoDst # BadDst
    /\ NoClient \notin Clients
ASSUME SrcPortsAssumption ==
    /\ SrcPorts \subseteq Nat
    /\ \A p \in SrcPorts : p > FirstPort + SESSIONS

Slots == 0 .. (SESSIONS - 1)
Hops == 0 .. SESSIONS      \* SESSIONS itself: the entry past the end
Ports == FirstPort .. (FirstPort + SESSIONS - 1)
NoPort == 0                \* what tunnelcli prints when nothing was answered
EgressPort == 57500        \* first UDP port tried for a sendSocket

Packets == [addr : Sources, pt : SrcPorts]
\* What a tunnelcli asks for.  A source address that does not parse is sent as
\* 0.  A request that is refused or cut has no source or destination that the
\* daemon comes to read.
GoodRequests == [src : Sources \cup {NoAddr}, dst : Dests, kind : {"good"}]
BadRequests == [src : {NoAddr}, dst : {NoDst}, kind : {"refused", "cut"}]
Requests == GoodRequests \cup BadRequests

VARIABLES
    \* nexthoptab, in memory shared by the parent and every child
    srcaddr,     \* written by the parent
    dst,         \* dstaddr and destpt of each hop; written by the parent
    num_hops,    \* written by the parent
    srcpt,       \* written by the child, read by the parent
    curr, pcount, stats,             \* written by the child
    \* the parent process
    ppc,         \* "accept", "count", "reply" or "exited"
    conn,        \* the tunnelcli being served
    slot,        \* sessionid
    backlog,     \* connections waiting in the listen queue
    \* the tunnelcli processes
    cstate, request, printed,
    \* the children, one per slot
    cpc,         \* "none", "bind", "select", "send", "dest" or "exited"
    port,        \* UDP port of its receiveSocket
    client,      \* the connection it inherited
    first_packet_sent,
    pkt, hop,    \* the packet being relayed and the hop chosen for it
    both,        \* select() reported both sockets readable
    \* socket buffers and what reached the other hosts
    rcvq, sndq,  \* receiveSocket and sendSocket of each child
    delivered,   \* packets of a source that reached a destination
    bounced,     \* where a child sent the packets of its sendSocket, and the
                 \* last packet of its source at that time
    \* history, read by no action of the program
    sent,        \* packets of a source that were sent on to a destination
    sendable,    \* datagrams the sources may still send
    repliable,   \* datagrams the destinations may still send
    calm,        \* the tunnelcli was answered before the session's traffic
    late,        \* a hop was added to the slot after the first packet
    overrun,     \* the second hop was added at or past the rotation point
    streak       \* packets in a row to the same hop while it has others

routeVars == <<srcaddr, dst, num_hops, late, overrun>>
turnVars == <<curr, pcount, stats, streak>>
parentVars == <<ppc, conn, slot>>
cliVars == <<cstate, request, printed, calm>>
childVars == <<cpc, port, client, first_packet_sent, pkt, hop, both>>
netVars == <<rcvq, sndq, sendable, repliable>>
outVars == <<sent, delivered, bounced>>

vars == <<routeVars, srcpt, turnVars, parentVars, backlog, cliVars,
          childVars, netVars, outVars>>

-----------------------------------------------------------------------------
(* Initial state: mmap'ed memory is zero, no connection, no child.         *)

NoRequest == [src |-> NoAddr, dst |-> NoDst, kind |-> "none"]
NoPacket == [addr |-> NoAddr, pt |-> NoPort]

InitTable ==
    /\ srcaddr = [s \in Slots |-> NoAddr]
    /\ dst = [s \in Slots |-> [h \in Hops |-> NoDst]]
    /\ num_hops = [s \in Slots |-> 0]
    /\ srcpt = [s \in Slots |-> NoPort]
    /\ curr = [s \in Slots |-> 0]
    /\ pcount = [s \in Slots |-> 0]
    /\ stats = [s \in Slots |-> [h \in Hops |-> 0]]

InitParent ==
    /\ ppc = "accept"
    /\ conn = NoClient
    /\ slot = 0
    /\ backlog = <<>>

InitClients ==
    /\ cstate = [c \in Clients |-> "idle"]
    /\ request = [c \in Clients |-> NoRequest]
    /\ printed = [c \in Clients |-> NoPort]

InitChildren ==
    /\ cpc = [s \in Slots |-> "none"]
    /\ port = [s \in Slots |-> NoPort]
    /\ client = [s \in Slots |-> NoClient]
    /\ first_packet_sent = [s \in Slots |-> FALSE]
    /\ pkt = [s \in Slots |-> NoPacket]
    /\ hop = [s \in Slots |-> 0]
    /\ both = [s \in Slots |-> FALSE]

InitNetwork ==
    /\ rcvq = [s \in Slots |-> <<>>]
    /\ sndq = [s \in Slots |-> 0]
    /\ sent = [a \in Sources |-> [d \in Dests \cup {BadDst} |-> 0]]
    /\ delivered = [a \in Sources |-> [d \in Dests \cup {BadDst} |-> 0]]
    /\ bounced = [s \in Slots |-> {}]

InitHistory ==
    /\ sendable = MaxPackets
    /\ repliable = MaxReplies
    /\ calm = [c \in Clients |-> FALSE]
    /\ late = [s \in Slots |-> FALSE]
    /\ overrun = [s \in Slots |-> FALSE]
    /\ streak = [s \in Slots |-> 0]

Init == InitTable /\ InitParent /\ InitClients /\ InitChildren
          /\ InitNetwork /\ InitHistory

-----------------------------------------------------------------------------
(* tunnelcli                                                               *)

\* tunnelcli connects, writes the code, the password, the destination and the
\* source, and blocks reading the port.  A "refused" request has another code
\* or password; a "cut" one is from a tunnelcli killed between two writes.
Connect(c, r) ==
    /\ cstate[c] = "idle"
    /\ ppc # "exited"
    /\ cstate' = [cstate EXCEPT ![c] = "waiting"]
    /\ request' = [request EXCEPT ![c] = r]
    /\ calm' = [calm EXCEPT ![c] = TRUE]
    /\ backlog' = Append(backlog, c)
    /\ UNCHANGED <<routeVars, srcpt, turnVars, parentVars, printed, childVars,
                   netVars, outVars>>

\* The blocked read of tunnelcli returns: the port, or 0 at end of file.
Answer(c, p) ==
    /\ cstate' = [cstate EXCEPT ![c] = "done"]
    /\ printed' = [printed EXCEPT ![c] = p]

-----------------------------------------------------------------------------
(* The parent: the accept loop                                             *)

\* accept() returns the oldest connection and the handshake is read.
Accepts(kind) ==
    /\ ppc = "accept"
    /\ backlog # <<>>
    /\ request[Head(backlog)].kind = kind

\* A short read ends the whole daemon: error() exits the parent, and every
\* connection it holds is reset.  The children go on.
HandshakeCut ==
    /\ Accepts("cut")
    /\ ppc' = "exited"
    /\ LET held == {backlog[i] : i \in DOMAIN backlog} IN
         cstate' = [c \in Clients |-> IF c \in held THEN "done" ELSE cstate[c]]
    /\ backlog' = <<>>
    /\ UNCHANGED <<routeVars, srcpt, turnVars, conn, slot, request, printed,
                   calm, childVars, netVars, outVars>>

\* Faulty: the connection is left open.
TurnAwayUnclosed(c) ==
    /\ backlog' = Tail(backlog)
    /\ UNCHANGED <<routeVars, srcpt, turnVars, parentVars, cliVars, childVars,
                   netVars, outVars>>

\* The connection is closed and the parent returns to accept().
TurnAway(c) ==
    /\ Answer(c, NoPort)
    /\ backlog' = Tail(backlog)
    /\ UNCHANGED <<routeVars, srcpt, turnVars, parentVars, request, calm,
                   childVars, netVars, outVars>>

\* Another code than 200, or another password.
Refuse == Accepts("refused") /\ TurnAway(Head(backlog))

\* Faulty: the search looks for a free slot only.
MatchesFree(s, a) == srcaddr[s] = NoAddr

\* The search stops at the first slot that is free or already the source's.  A
\* slot registered with a mistyped source still looks free: the next source gets
\* it with its hops and its child.
Matches(s, a) == srcaddr[s] \in {NoAddr, a}

FirstMatch(s, a) == Matches(s, a) /\ \A t \in Slots : t < s => ~Matches(t, a)

\* Faulty: the result of the search is used without the test for none.
TableFullUnchecked ==
    /\ Accepts("good")
    /\ \A s \in Slots : ~Matches(s, request[Head(backlog)].src)
    /\ conn' = Head(backlog)
    /\ slot' = SESSIONS
    /\ backlog' = Tail(backlog)
    /\ ppc' = "count"
    /\ UNCHANGED <<routeVars, srcpt, turnVars, cliVars, childVars, netVars,
                   outVars>>

TableFull ==
    /\ Accepts("good")
    /\ LET c == Head(backlog) IN
         /\ \A s \in Slots : ~Matches(s, request[c].src)
         /\ TurnAway(c)

\* Faulty: the destination is stored for the earlier hops too.
StoreHopBelow(hops, n, d) == [h \in Hops |-> IF h <= n THEN d ELSE hops[h]]

\* The store at index n of dstaddr and destpt.  dstaddr[SESSIONS] lies over
\* the ports of the first four hops; destpt[SESSIONS] is in the padding.
StoreHop(hops, n, d) ==
    [h \in Hops |-> IF h = n THEN d
                    ELSE IF n = SESSIONS /\ h < 4 THEN BadDst
                    ELSE hops[h]]

Register ==
    /\ Accepts("good")
    /\ LET c == Head(backlog) IN
         \E s \in Slots :
           /\ FirstMatch(s, request[c].src)
           /\ num_hops[s] < MaxDests
           /\ srcaddr' = [srcaddr EXCEPT ![s] = request[c].src]
           /\ dst' = [dst EXCEPT ![s] =
                        StoreHop(dst[s], num_hops[s], request[c].dst)]
           /\ conn' = c
           /\ slot' = s
    /\ backlog' = Tail(backlog)
    /\ ppc' = "count"
    /\ UNCHANGED <<num_hops, late, overrun, srcpt, turnVars, cliVars,
                   childVars, netVars, outVars>>

\* num_hops++, which publishes the stored hop to the session's child.
CountHop ==
    /\ num_hops' = [num_hops EXCEPT ![slot] = @ + 1]
    /\ late' = [late EXCEPT ![slot] = @ \/ first_packet_sent[slot]]
    /\ overrun' = [overrun EXCEPT ![slot] =
                     @ \/ (num_hops[slot] = 1 /\ pcount[slot] >= NUM_PACKS)]
    /\ UNCHANGED <<srcaddr, dst>>

\* Not the first hop: the parent will answer with the slot's srcpt.
AddHop ==
    /\ ppc = "count"
    /\ num_hops[slot] > 0
    /\ CountHop
    /\ ppc' = "reply"
    /\ UNCHANGED <<srcpt, turnVars, conn, slot, backlog, cliVars, childVars,
                   netVars, outVars>>

Reply ==
    /\ ppc = "reply"
    /\ Answer(conn, srcpt[slot])
    /\ calm' = [calm EXCEPT ![conn] = @ /\ ~first_packet_sent[slot]]
    /\ ppc' = "accept"
    /\ UNCHANGED <<routeVars, srcpt, turnVars, conn, slot, backlog, request,
                   childVars, netVars, outVars>>

\* The first hop: fork the child, which inherits the connection; the parent
\* closes its own copy.
Fork ==
    /\ ppc = "count"
    /\ num_hops[slot] = 0
    /\ CountHop
    /\ cpc' = [cpc EXCEPT ![slot] = "bind"]
    /\ client' = [client EXCEPT ![slot] = conn]
    /\ ppc' = "accept"
    /\ UNCHANGED <<srcpt, turnVars, conn, slot, backlog, cliVars, port,
                   first_packet_sent, pkt, hop, both, netVars, outVars>>

\* fork() returns -1: the parent takes the branch of a parent, so the
\* connection is closed unanswered and the slot stays taken.
ForkFails ==
    /\ ppc = "count"
    /\ num_hops[slot] = 0
    /\ CountHop
    /\ Answer(conn, NoPort)
    /\ ppc' = "accept"
    /\ UNCHANGED <<srcpt, turnVars, conn, slot, backlog, request, calm,
                   childVars, netVars, outVars>>

-----------------------------------------------------------------------------
(* The child of a slot                                                     *)

Listening(s) == cpc[s] \notin {"none", "bind", "exited"}

\* bind() fails with the port of another live child.
PortFree(p) == \A t \in Slots : Listening(t) => port[t] # p

\* Faulty: the port recorded is the one the search started from.
BindFirstPort(s) ==
    /\ cpc[s] = "bind"
    /\ \E p \in Ports :
         /\ PortFree(p)
         /\ \A q \in Ports : q < p => ~PortFree(q)
         /\ port' = [port EXCEPT ![s] = p]
         /\ srcpt' = [srcpt EXCEPT ![s] = FirstPort]
         /\ Answer(client[s], p)
    /\ cpc' = [cpc EXCEPT ![s] = "select"]
    /\ stats' = [stats EXCEPT ![s][SESSIONS] = EgressPort]
    /\ UNCHANGED <<routeVars, curr, pcount, streak, parentVars, backlog,
                   request, calm, client, first_packet_sent, pkt, hop, both,
                   netVars, outVars>>

\* The receive socket gets the lowest free port, recorded in the shared srcpt,
\* and the inherited connection is answered with it.  The send socket's port is
\* stored in egresspt, which stats[SESSIONS] lies over (the search for that port
\* is left out).
Bind(s) ==
    /\ cpc[s] = "bind"
    /\ \E p \in Ports :
         /\ PortFree(p)
         /\ \A q \in Ports : q < p => ~PortFree(q)
         /\ port' = [port EXCEPT ![s] = p]
         /\ srcpt' = [srcpt EXCEPT ![s] = p]
         /\ Answer(client[s], p)
    /\ cpc' = [cpc EXCEPT ![s] = "select"]
    /\ stats' = [stats EXCEPT ![s][SESSIONS] = EgressPort]
    /\ UNCHANGED <<routeVars, curr, pcount, streak, parentVars, backlog,
                   request, calm, client, first_packet_sent, pkt, hop, both,
                   netVars, outVars>>

\* Faulty: packets of any host are relayed.
AddressMatchesAny(p, s) == TRUE

AddressMatches(p, s) == p.addr = srcaddr[s]

HopOf(s) == IF num_hops[s] > 1 THEN curr[s] ELSE 0

\* Faulty: the source's port is not recorded.
RecvSourcePortless(s) ==
    /\ cpc[s] = "select"
    /\ rcvq[s] # <<>>
    /\ LET p == Head(rcvq[s]) IN
         \/ /\ AddressMatches(p, s)
            /\ pkt' = [pkt EXCEPT ![s] = p]
            /\ hop' = [hop EXCEPT ![s] = HopOf(s)]
            /\ both' = [both EXCEPT ![s] = sndq[s] > 0]
            /\ cpc' = [cpc EXCEPT ![s] = "send"]
         \/ /\ ~AddressMatches(p, s)
            /\ UNCHANGED <<pkt, hop, both, cpc>>
    /\ first_packet_sent' = [first_packet_sent EXCEPT ![s] = TRUE]
    /\ rcvq' = [rcvq EXCEPT ![s] = Tail(@)]
    /\ UNCHANGED <<routeVars, srcpt, turnVars, parentVars, backlog, cliVars,
                   port, client, sndq, sendable, repliable, outVars>>

\* The receive socket is readable: one packet is read.  One of another host is
\* dropped and select() called again (continue), even when the other socket
\* was readable too.
RecvSource(s) ==
    /\ cpc[s] = "select"
    /\ rcvq[s] # <<>>
    /\ LET p == Head(rcvq[s]) IN
         \/ /\ AddressMatches(p, s)
            /\ srcpt' = [srcpt EXCEPT ![s] = p.pt]
            /\ pkt' = [pkt EXCEPT ![s] = p]
            /\ hop' = [hop EXCEPT ![s] = HopOf(s)]
            /\ both' = [both EXCEPT ![s] = sndq[s] > 0]
            /\ cpc' = [cpc EXCEPT ![s] = "send"]
         \/ /\ ~AddressMatches(p, s)
            /\ UNCHANGED <<srcpt, pkt, hop, both, cpc>>
    /\ first_packet_sent' = [first_packet_sent EXCEPT ![s] = TRUE]
    /\ rcvq' = [rcvq EXCEPT ![s] = Tail(@)]
    /\ UNCHANGED <<routeVars, turnVars, parentVars, backlog, cliVars, port,
                   client, sndq, sendable, repliable, outVars>>

\* Faulty: one packet more than NUM_PACKS.
BurstDoneLate(s) == num_hops[s] > 1 /\ pcount[s] = NUM_PACKS

\* The hop's burst is complete: more than one hop, and this packet is the
\* NUM_PACKS-th.
BurstDone(s) == num_hops[s] > 1 /\ pcount[s] + 1 = NUM_PACKS

\* Faulty: the turn does not come back to the first hop.
NextCurrOnly(s) == curr[s] + 1

NextCurr(s) == (curr[s] + 1) % num_hops[s]

\* Faulty: the count goes on after the burst.
CountAfterOn(s) == pcount[s] + 1

CountAfter(s) == IF BurstDone(s) THEN 0 ELSE pcount[s] + 1

\* sendto() the hop, then the statistics and the turn.  The result of sendto()
\* is not looked at, and UDP may lose the packet.
Forward(s) ==
    /\ cpc[s] = "send"
    /\ sent' = [sent EXCEPT ![pkt[s].addr][dst[s][hop[s]]] = @ + 1]
    /\ \/ delivered' =
            [delivered EXCEPT ![pkt[s].addr][dst[s][hop[s]]] = @ + 1]
       \/ UNCHANGED delivered
    /\ stats' = [stats EXCEPT ![s][hop[s]] = @ + 1]
    /\ pcount' = [pcount EXCEPT ![s] = CountAfter(s)]
    /\ curr' = [curr EXCEPT ![s] = IF BurstDone(s) THEN NextCurr(s) ELSE @]
    /\ streak' = [streak EXCEPT ![s] =
                    IF num_hops[s] > 1 /\ ~BurstDone(s) THEN @ + 1 ELSE 0]
    /\ cpc' = [cpc EXCEPT ![s] = IF both[s] THEN "dest" ELSE "select"]
    /\ both' = [both EXCEPT ![s] = FALSE]
    /\ UNCHANGED <<routeVars, srcpt, parentVars, backlog, cliVars, port,
                   client, first_packet_sent, pkt, hop, netVars, bounced>>

\* The send socket was readable: one packet goes back to the source, at the
\* port in srcpt, which is the child's own until the source has sent one.
RecvDest(s) ==
    /\ \/ cpc[s] = "dest"
       \/ cpc[s] = "select" /\ rcvq[s] = <<>> /\ sndq[s] > 0
    /\ first_packet_sent' = [first_packet_sent EXCEPT ![s] = TRUE]
    /\ sndq' = [sndq EXCEPT ![s] = @ - 1]
    /\ bounced' = [bounced EXCEPT ![s] =
          @ \cup {[to |-> [addr |-> srcaddr[s], pt |-> srcpt[s]],
                   last |-> pkt[s]]}]
    /\ cpc' = [cpc EXCEPT ![s] = "select"]
    /\ UNCHANGED <<routeVars, srcpt, turnVars, parentVars, backlog, cliVars,
                   port, client, pkt, hop, both, rcvq, sendable, repliable,
                   sent, delivered>>

\* Faulty: the timeout is armed once a packet was relayed.
TimeoutArmedRelayed(s) == pcount[s] > 0

\* select() is armed with 10 seconds only after a first packet.
TimeoutArmed(s) == first_packet_sent[s]

\* 10 s of silence: the child prints stats and exits.  The slot keeps the
\* session.
Timeout(s) ==
    /\ cpc[s] = "select"
    /\ TimeoutArmed(s)
    /\ rcvq[s] = <<>> /\ sndq[s] = 0
    /\ cpc' = [cpc EXCEPT ![s] = "exited"]
    /\ UNCHANGED <<routeVars, srcpt, turnVars, parentVars, backlog, cliVars,
                   port, client, first_packet_sent, pkt, hop, both, netVars,
                   outVars>>

-----------------------------------------------------------------------------
(* The hosts on the network                                                *)

\* A source host sends a datagram to the port some session listens on; a
\* datagram that is lost is one that is not sent.
SourceSend(s, p) ==
    /\ Listening(s)
    /\ sendable > 0
    /\ rcvq' = [rcvq EXCEPT ![s] = Append(@, p)]
    /\ sendable' = sendable - 1
    /\ UNCHANGED <<routeVars, srcpt, turnVars, parentVars, backlog, cliVars,
                   childVars, sndq, repliable, outVars>>

\* A datagram from anyone reaches a child's sendSocket, also before the source
\* has sent one: the port may have been another child's.
DestSend(s) ==
    /\ Listening(s)
    /\ repliable > 0
    /\ sndq' = [sndq EXCEPT ![s] = @ + 1]
    /\ repliable' = repliable - 1
    /\ UNCHANGED <<routeVars, srcpt, turnVars, parentVars, backlog, cliVars,
                   childVars, rcvq, sendable, outVars>>

-----------------------------------------------------------------------------

Parent == HandshakeCut \/ Refuse \/ TableFull \/ Register \/ AddHop \/ Reply
            \/ Fork \/ ForkFails

Child(s) == Bind(s) \/ RecvSource(s) \/ Forward(s) \/ RecvDest(s) \/ Timeout(s)

Environment ==
    \/ \E c \in Clients, r \in Requests : Connect(c, r)
    \/ \E s \in Slots, p \in Packets : SourceSend(s, p)
    \/ \E s \in Slots : DestSend(s)

Next == Parent \/ (\E s \in Slots : Child(s)) \/ Environment

Spec == Init /\ [][Next]_vars

\* The kernel runs the parent and every child; 10 seconds of silence pass.
\* Nothing is assumed of the other hosts or of who runs tunnelcli.
FairSpec == Spec /\ WF_vars(Parent) /\ \A s \in Slots : WF_vars(Child(s))

-----------------------------------------------------------------------------
(* Properties                                                              *)

Bounces == [to : [addr : Sources \cup {NoAddr},
                  pt : {NoPort} \cup Ports \cup SrcPorts],
            last : Packets \cup {NoPacket}]
CliStates == {"idle", "waiting", "done"}
ChildStates == {"none", "bind", "select", "send", "dest", "exited"}

TableTypeOK ==
    /\ srcaddr \in [Slots -> Sources \cup {NoAddr}]
    /\ dst \in [Slots -> [Hops -> Dests \cup {NoDst, BadDst}]]
    /\ num_hops \in [Slots -> 0 .. MaxDests]
    /\ srcpt \in [Slots -> {NoPort} \cup Ports \cup SrcPorts]
    /\ curr \in [Slots -> Hops]
    /\ pcount \in [Slots -> Nat]
    /\ stats \in [Slots -> [Hops -> Nat]]

ProcessTypeOK ==
    /\ ppc \in {"accept", "count", "reply", "exited"}
    /\ conn \in Clients \cup {NoClient}
    /\ slot \in Slots
    /\ backlog \in Seq(Clients)
    /\ cstate \in [Clients -> CliStates]
    /\ request \in [Clients -> Requests \cup {NoRequest}]
    /\ printed \in [Clients -> {NoPort} \cup Ports \cup SrcPorts]
    /\ cpc \in [Slots -> ChildStates]
    /\ port \in [Slots -> {NoPort} \cup Ports]
    /\ client \in [Slots -> Clients \cup {NoClient}]
    /\ first_packet_sent \in [Slots -> BOOLEAN]
    /\ pkt \in [Slots -> Packets \cup {NoPacket}]
    /\ hop \in [Slots -> Hops]
    /\ both \in [Slots -> BOOLEAN]

NetworkTypeOK ==
    /\ rcvq \in [Slots -> Seq(Packets)]
    /\ sndq \in [Slots -> Nat]
    /\ sent \in [Sources -> [Dests \cup {BadDst} -> Nat]]
    /\ delivered \in [Sources -> [Dests \cup {BadDst} -> Nat]]
    /\ bounced \in [Slots -> SUBSET Bounces]
    /\ sendable \in Nat
    /\ repliable \in Nat
    /\ calm \in [Clients -> BOOLEAN]
    /\ late \in [Slots -> BOOLEAN]
    /\ overrun \in [Slots -> BOOLEAN]
    /\ streak \in [Slots -> Nat]

\* Every variable has the values the C declarations and the code's control
\* flow allow.
TypeOK == TableTypeOK /\ ProcessTypeOK /\ NetworkTypeOK

\* The linear search of the table and the stores keep one slot per source and
\* the used slots a prefix: no session hides another, no slot is wasted.
OneSlotPerSource ==
    \A s, t \in Slots :
      /\ srcaddr[s] # NoAddr /\ srcaddr[s] = srcaddr[t] => s = t
      /\ t < s /\ srcaddr[s] # NoAddr => srcaddr[t] # NoAddr

\* The child never indexes a hop that the parent has not stored and published,
\* however the parent's registration and the relay loop interleave.
HopRegistered ==
    \A s \in Slots :
      /\ num_hops[s] > 0 => curr[s] < num_hops[s]
      /\ cpc[s] = "send" => hop[s] < num_hops[s] /\ dst[s][hop[s]] # NoDst

\* Registrations of one source that are answered before its traffic starts all
\* print the same port ("same source, same session"), whatever the parent read
\* while the child was starting, unless they print none, and whoever's slot it
\* was by a mistyped source before.
SamePortWhenQuiet ==
    \A c, d \in Clients :
      /\ request[c].src \in Sources /\ request[c].src = request[d].src
      /\ calm[c] /\ calm[d]
      /\ printed[c] # NoPort /\ printed[d] # NoPort
      => printed[c] = printed[d]

\* A path that is registered before the traffic takes part in the rotation as
\* promised: each hop has had NUM_PACKS packets per completed round, plus its
\* share of the round in progress.  Nothing is said of a hop past the arrays.
Share(s, h) == IF h < curr[s] THEN NUM_PACKS
               ELSE IF h = curr[s] THEN pcount[s] ELSE 0

Balanced ==
    \A s \in Slots :
      num_hops[s] \in 2 .. SESSIONS /\ ~late[s] =>
        \E round \in 0 .. stats[s][0] :
          \A h \in 0 .. (num_hops[s] - 1) :
            stats[s][h] = NUM_PACKS * round + Share(s, h)

\* A hop never gets more than NUM_PACKS packets in a row while the session has
\* another one, unless the second hop was registered when NUM_PACKS packets or
\* more had been counted.
BurstBounded == \A s \in Slots : ~overrun[s] => streak[s] < NUM_PACKS

\* What reaches a child's sendSocket is sent to where the packet of its source
\* came from that it read last, however the ports change and whoever takes the
\* slot over; and before the first of them to the port the child itself listens
\* on, never to one of an earlier session or to none.
RepliesReachSource ==
    \A s \in Slots : \A b \in bounced[s] :
      IF b.last = NoPacket THEN b.to.pt = port[s] ELSE b.to = b.last

\* The counts a child prints at its timeout ("sent %d packets to") tell what was
\* sent: for every source and destination, the packets sent on are those counted
\* at the hops of the source's slot that lead to the destination, and no more
\* than those arrive.
Counted(s, d) ==
    UNION {{h} \X (1 .. stats[s][h]) :
             h \in {g \in 0 .. (num_hops[s] - 1) : dst[s][g] = d}}

StatsTellSent ==
    \A s \in Slots : srcaddr[s] # NoAddr =>
      \A d \in Dests :
        /\ sent[srcaddr[s]][d] = Cardinality(Counted(s, d))
        /\ delivered[srcaddr[s]][d] <= sent[srcaddr[s]][d]

\* The promise of RelayService: nothing is carried off the paths of the source's
\* slot, which were asked for the source, or for a source that was mistyped.
Asking(a) == {c \in Clients : request[c].kind = "good" /\ request[c].src = a}

AskedFor(a) == {request[c].dst : c \in Asking(a)}

RoutesOf(a) ==
    UNION {{dst[s][h] : h \in 0 .. (num_hops[s] - 1)} :
             s \in {t \in Slots : srcaddr[t] = a}}

Carried == [a \in Sources |-> [d \in Dests |-> delivered[a][d]]]

Ended ==
    {srcaddr[s] : s \in {t \in Slots : cpc[t] = "exited"}} \cap Sources

Service == INSTANCE RelayService WITH
    asked <- [a \in Sources |-> AskedFor(a)], stray <- AskedFor(NoAddr),
    routes <- [a \in Sources |-> RoutesOf(a)], carried <- Carried, ended <- Ended

ServiceSpec == Service!Spec

\* Every tunnelcli that connects comes to an end, with a port or without.
Answered ==
    \A c \in Clients : (cstate[c] = "waiting") ~> (cstate[c] = "done")

\* A session that saw traffic ends after the last packet ("after 10 seconds of
\* inactivity, each tunneld child prints per-destination packet counts and
\* exits").
SessionEnds ==
    \A s \in Slots : first_packet_sent[s] ~> (cpc[s] = "exited")

-----------------------------------------------------------------------------
(* What the documentation says and the code does not do                    *)

\* README: [6] "prints the same port as P5 (same source, same session)".  A
\* registration that was given no port at all is not counted.
SamePort ==
    \A c, d \in Clients :
      /\ request[c].src \in Sources /\ request[c].src = request[d].src
      /\ printed[c] # NoPort /\ printed[d] # NoPort
      => printed[c] = printed[d]

\* README: "incoming packets are forwarded in round-robin fashion - 5 packets
\* per destination - across all registered next hops", new paths being "added
\* to a live session without restarting it".
BurstAtMostNumPacks == \A s \in Slots : streak[s] < NUM_PACKS
=============================================================================
