-------------------------------- MODULE Ping --------------------------------
(***************************************************************************)
(* The UDP ping client (transport_layer_servers/udp_ping_server/upingc.c,  *)
(* pingrespcb.c and inter_sleep.c), its echo server (upings.c) and the     *)
(* network between them.                                                   *)
(*                                                                         *)
(* The client sends PINGS numbered packets, sleeping in between.  Echoes   *)
(* are read by a SIGPOLL handler that runs between any two steps of the    *)
(* main program.  SIGPOLL is an ordinary signal: it is pending or it is    *)
(* not, however many packets arrived since it was last delivered.          *)
(***************************************************************************)
EXTENDS Integers, Sequences

CONSTANTS
    PINGS,       \* packets the client sends
    Gap,         \* inter-ping sleep, in ticks of the model's clock
    Drain,       \* the 750 ms sleep after the last ping, in ticks
    MICRO,       \* one second, in ticks
    Epoch,       \* wall-clock time when the client starts
    MaxDups,     \* bound: packets the network duplicates
    MaxIdle      \* bound: ticks that pass while the client is not asleep

ASSUME PingsAssumption == PINGS \in Nat \ {0}
ASSUME TimesAssumption ==
    /\ Gap \in Nat \ {0} /\ Drain \in Nat \ {0}
    /\ MICRO \in Nat \ {0} /\ Epoch \in Nat \ {0}
ASSUME PingBoundsAssumption == MaxDups \in Nat /\ MaxIdle \in Nat

Seqs == 0 .. (PINGS - 1)

VARIABLES
    now,         \* the wall clock
    \* the main program of the client
    pc,          \* "stamp", "send", "sleep", "drain", "close", "stats", "printed"
    i,           \* the ping being sent
    left,        \* what remains of the sleep
    counted,     \* the pings the statistics are over
    \* shared between the main program and the handler
    pingstart, pingend, responded,
    \* the handler
    pending,     \* SIGPOLL is pending
    hpc,         \* "idle", "recv" or "mark"
    got,         \* sequence number in the packet read
    \* the socket buffer and the network (packets of each number in flight)
    buf, toServer, toClient,
    secret,      \* the client was given the server's password
    \* history and bounds
    missed,      \* arrivals that found the signal already pending
    dups, idle

mainVars == <<pc, i, left, counted>>
sharedVars == <<pingstart, pingend, responded>>
handlerVars == <<hpc, got>>
netVars == <<toServer, toClient, secret, dups>>
vars == <<now, mainVars, sharedVars, pending, handlerVars, buf, netVars,
          missed, idle>>

Init ==
    /\ now = Epoch
    /\ pc = "stamp" /\ i = 0 /\ left = 0 /\ counted = {}
    /\ pingstart = [k \in Seqs |-> 0]
    /\ pingend = [k \in Seqs |-> 0]
    /\ responded = [k \in Seqs |-> FALSE]
    /\ pending = FALSE /\ hpc = "idle" /\ got = 0
    /\ buf = <<>>
    /\ toServer = [k \in Seqs |-> 0]
    /\ toClient = [k \in Seqs |-> 0]
    /\ secret \in BOOLEAN
    /\ missed = 0 /\ dups = 0 /\ idle = 0

-----------------------------------------------------------------------------
(* The main program, suspended while the handler runs                      *)

Running(p) == pc = p /\ hpc = "idle"

\* gettimeofday() just before the ping is sent.
Stamp ==
    /\ Running("stamp")
    /\ pingstart' = [pingstart EXCEPT ![i] = now]
    /\ pc' = "send"
    /\ UNCHANGED <<now, i, left, counted, pingend, responded, pending,
                   handlerVars, buf, netVars, missed, idle>>

\* Faulty: the loop has no last ping.
SendEndless ==
    /\ Running("send")
    /\ toServer' = [toServer EXCEPT ![i] = @ + 1]
    /\ \/ /\ i # PINGS
          /\ pc' = "sleep" /\ left' = Gap
       \/ /\ i = PINGS
          /\ pc' = "drain" /\ left' = Drain
    /\ UNCHANGED <<now, i, counted, sharedVars, pending, handlerVars, buf,
                   toClient, secret, dups, missed, idle>>

\* sendto(), then inter_sleep() for the gap, or for the drain after the last.
Send ==
    /\ Running("send")
    /\ toServer' = [toServer EXCEPT ![i] = @ + 1]
    /\ \/ /\ i # PINGS - 1
          /\ pc' = "sleep" /\ left' = Gap
       \/ /\ i = PINGS - 1
          /\ pc' = "drain" /\ left' = Drain
    /\ UNCHANGED <<now, i, counted, sharedVars, pending, handlerVars, buf,
                   toClient, secret, dups, missed, idle>>

\* Faulty: the next ping waits for the answer to this one.
WakeAnswered ==
    /\ left = 0 /\ responded[i]
    /\ \/ Running("sleep") /\ pc' = "stamp" /\ i' = i + 1
       \/ Running("drain") /\ pc' = "close" /\ i' = i
    /\ UNCHANGED <<now, left, counted, sharedVars, pending, handlerVars, buf,
                   netVars, missed, idle>>

\* nanosleep() has slept it all.
Wake ==
    /\ left = 0
    /\ \/ Running("sleep") /\ pc' = "stamp" /\ i' = i + 1
       \/ Running("drain") /\ pc' = "close" /\ i' = i
    /\ UNCHANGED <<now, left, counted, sharedVars, pending, handlerVars, buf,
                   netVars, missed, idle>>

\* close() throws away what is buffered, not the signal.
Close ==
    /\ Running("close")
    /\ pc' = "stats"
    /\ buf' = <<>>
    /\ UNCHANGED <<now, i, left, counted, sharedVars, pending, handlerVars,
                   netVars, missed, idle>>

Diff(k) == pingend[k] - pingstart[k]

\* The pings the loop over the results takes into account.
Counts(k) == Diff(k) <= MICRO \/ responded[k]

Stats ==
    /\ Running("stats")
    /\ pc' = "printed"
    /\ counted' = {k \in Seqs : Counts(k)}
    /\ UNCHANGED <<now, i, left, sharedVars, pending, handlerVars, buf,
                   netVars, missed, idle>>

-----------------------------------------------------------------------------
(* The SIGPOLL handler                                                     *)

\* Faulty: an interrupted sleep is over.
AfterInterruptNone(l) == 0

\* inter_sleep() sleeps again for what the interrupted nanosleep() left.
AfterInterrupt(l) == l

\* The pending signal is delivered between two steps of the main program.
Deliver ==
    /\ pending /\ hpc = "idle" /\ pc # "printed"
    /\ pending' = FALSE
    /\ hpc' = "recv"
    /\ left' = AfterInterrupt(left)
    /\ UNCHANGED <<now, pc, i, counted, sharedVars, got, buf, netVars, missed,
                   idle>>

Open == pc \notin {"stats", "printed"}

\* Faulty: the handler reads until one packet is left, with signals pending.
HandlerRecvAll ==
    /\ hpc = "recv"
    /\ \/ /\ Open
          /\ buf # <<>>
          /\ got' = Head(buf)
          /\ buf' = Tail(buf)
          /\ hpc' = IF Len(buf) > 1 THEN "recv" ELSE "mark"
       \/ /\ ~Open
          /\ got' = 0
          /\ hpc' = "mark"
          /\ UNCHANGED buf
    /\ UNCHANGED <<now, mainVars, sharedVars, pending, netVars, missed, idle>>

\* recvfrom() reads one packet and blocks when there is none.  On the closed
\* socket it fails, and the zeroed packet has sequence number 0.
HandlerRecv ==
    /\ hpc = "recv"
    /\ \/ /\ Open
          /\ buf # <<>>
          /\ got' = Head(buf)
          /\ buf' = Tail(buf)
       \/ /\ ~Open
          /\ got' = 0
          /\ UNCHANGED buf
    /\ hpc' = "mark"
    /\ UNCHANGED <<now, mainVars, sharedVars, pending, netVars, missed, idle>>

\* Faulty: the answer is booked to the ping the main program is at.
HandlerMarkCurrent ==
    /\ hpc = "mark"
    /\ pingend' = [pingend EXCEPT ![i] = now]
    /\ responded' = [responded EXCEPT ![i] = TRUE]
    /\ hpc' = "idle"
    /\ UNCHANGED <<now, mainVars, pingstart, pending, got, buf, netVars,
                   missed, idle>>

HandlerMark ==
    /\ hpc = "mark"
    /\ pingend' = [pingend EXCEPT ![got] = now]
    /\ responded' = [responded EXCEPT ![got] = TRUE]
    /\ hpc' = "idle"
    /\ UNCHANGED <<now, mainVars, pingstart, pending, got, buf, netVars,
                   missed, idle>>

-----------------------------------------------------------------------------
(* The server and the network, which loses, duplicates and reorders        *)

\* upings echoes a packet of the right length that starts with its password.
Echo(k) ==
    /\ toServer[k] > 0
    /\ toServer' = [toServer EXCEPT ![k] = @ - 1]
    /\ toClient' = IF secret THEN [toClient EXCEPT ![k] = @ + 1] ELSE toClient
    /\ UNCHANGED <<now, mainVars, sharedVars, pending, handlerVars, buf,
                   secret, dups, missed, idle>>

\* An echo arrives: it is buffered and SIGPOLL is raised.  Arriving after the
\* close it is dropped.
Arrive(k) ==
    /\ toClient[k] > 0
    /\ toClient' = [toClient EXCEPT ![k] = @ - 1]
    /\ \/ /\ Open
          /\ buf' = Append(buf, k)
          /\ pending' = TRUE
          /\ missed' = IF pending THEN missed + 1 ELSE missed
       \/ /\ ~Open
          /\ UNCHANGED <<buf, pending, missed>>
    /\ UNCHANGED <<now, mainVars, sharedVars, handlerVars, toServer, secret,
                   dups, idle>>

Duplicate(k) ==
    /\ dups < MaxDups
    /\ dups' = dups + 1
    /\ \/ toServer[k] > 0 /\ toServer' = [toServer EXCEPT ![k] = @ + 1]
          /\ UNCHANGED toClient
       \/ toClient[k] > 0 /\ toClient' = [toClient EXCEPT ![k] = @ + 1]
          /\ UNCHANGED toServer
    /\ UNCHANGED <<now, mainVars, sharedVars, pending, handlerVars, buf,
                   secret, missed, idle>>

\* Time passes in nanosleep(), which counts it, or elsewhere.
SleepTick ==
    /\ Running("sleep") \/ Running("drain")
    /\ left > 0
    /\ now' = now + 1
    /\ left' = left - 1
    /\ UNCHANGED <<pc, i, counted, sharedVars, pending, handlerVars, buf,
                   netVars, missed, idle>>

IdleTick ==
    /\ idle < MaxIdle
    /\ pc # "printed"
    /\ now' = now + 1
    /\ idle' = idle + 1
    /\ UNCHANGED <<mainVars, sharedVars, pending, handlerVars, buf, netVars,
                   missed>>

-----------------------------------------------------------------------------

Client == Stamp \/ Send \/ Wake \/ Close \/ Stats \/ Deliver \/ HandlerRecv
            \/ HandlerMark \/ SleepTick

Network == IdleTick \/ \E k \in Seqs : Echo(k) \/ Arrive(k) \/ Duplicate(k)

Next == Client \/ Network

Spec == Init /\ [][Next]_vars

\* The client process is scheduled and its sleeps end; the server and the
\* network need do nothing.
FairSpec == Spec /\ WF_vars(Client)

-----------------------------------------------------------------------------
(* Properties                                                              *)

MainTypeOK ==
    /\ now \in Nat /\ idle \in Nat
    /\ pc \in {"stamp", "send", "sleep", "drain", "close", "stats", "printed"}
    /\ i \in Seqs /\ left \in Nat
    /\ counted \in SUBSET Seqs

SharedTypeOK ==
    /\ pingstart \in [Seqs -> Nat] /\ pingend \in [Seqs -> Nat]
    /\ responded \in [Seqs -> BOOLEAN]

SignalTypeOK ==
    /\ pending \in BOOLEAN
    /\ hpc \in {"idle", "recv", "mark"} /\ got \in Seqs
    /\ buf \in Seq(Seqs)
    /\ missed \in Nat

NetworkTypeOK ==
    /\ toServer \in [Seqs -> Nat] /\ toClient \in [Seqs -> Nat]
    /\ secret \in BOOLEAN
    /\ dups \in Nat

\* Every variable has the values the C declarations and the control flow of
\* the client allow.
TypeOK == MainTypeOK /\ SharedTypeOK /\ SignalTypeOK /\ NetworkTypeOK

\* One packet is buffered for every signal pending or being handled, and one
\* more for every arrival that found the signal pending already.  So the
\* recvfrom() of the handler never blocks, and an echo stays unread only when
\* arrivals were merged into one signal.
Flag(b) == IF b THEN 1 ELSE 0
SignalsMatchBuffer ==
    Open => Len(buf) = missed + Flag(pending) + Flag(hpc = "recv")

\* A ping that has an answer was sent, and its round trip is not negative,
\* with packets duplicated and reordered and the signal outliving the socket.
AnswersFollowPings ==
    \A k \in Seqs : responded[k] => k <= i /\ Diff(k) >= 0

\* Interrupted by any number of signals, the sleep between two pings lasts.
PingsSpaced ==
    \A k \in 1 .. (PINGS - 1) :
      pingstart[k] # 0 => pingstart[k] - pingstart[k - 1] >= Gap

\* The client prints its statistics, whatever is lost.
Finishes == <>(pc = "printed")

-----------------------------------------------------------------------------
(* What the documentation says and the code does not do                    *)

\* README: "Only pings that received a response within 1 second (1 000 000 us)
\* are counted in the statistics."
CountedInTime ==
    pc = "printed" => \A k \in counted : responded[k] /\ Diff(k) <= MICRO
=============================================================================
