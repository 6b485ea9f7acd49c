--------------------------- MODULE TcpShell_proofs ---------------------------
(***************************************************************************)
(* Theorems about the shell over TCP, for any number of clients and        *)
(* connections and any length of the listen queue.                         *)
(***************************************************************************)
EXTENDS TcpShell, SequenceTheorems, TLAPS

Made(k) == k \in Conns /\ k[2] <= made[k[1]]

\* A connection is in one place: waiting once in the listen queue, or being
\* read from, or done with; and its command can only have started after that.
PlaceOK ==
    /\ \A i \in DOMAIN backlog : Made(backlog[i]) /\ backlog[i] \notin ran
    /\ \A i, j \in DOMAIN backlog : backlog[i] = backlog[j] => i = j
    /\ spc = "read" =>
         /\ Made(cur) /\ cur \notin ran
         /\ \A i \in DOMAIN backlog : backlog[i] # cur
    /\ \A k \in ran : Made(k)

\* Only the command of the connection being served runs.
ChildOK ==
    /\ children \subseteq {cur}
    /\ spc # "wait" => children = {}

\* Nothing has been sent on a connection that is not made yet, or whose client
\* is still at the prompt.
SentOK ==
    /\ \A k \in Conns : ~Made(k) => sent[k] = "none"
    /\ \A c \in Clients : cpc[c] = "prompt" =>
         Made(Sock(c)) /\ sent[Sock(c)] = "none"

ShellInv == TypeOK /\ PlaceOK /\ ChildOK /\ SentOK

-----------------------------------------------------------------------------

\* A connection is a client and a number up to the client's bound.
LEMMA ConnParts ==
    /\ \A k \in Conns : /\ k[1] \in Clients /\ k[2] \in Nat \ {0}
                        /\ k[2] <= MaxConns[k[1]]
                        /\ k = <<k[1], k[2]>>
    /\ \A c \in Clients, n \in Nat \ {0} :
         n <= MaxConns[c] => <<c, n>> \in Conns
<1>1. \A c \in Clients : MaxConns[c] \in Nat
  BY BoundsAssumption
<1>2. ASSUME NEW k \in Conns
      PROVE  /\ k[1] \in Clients /\ k[2] \in Nat \ {0}
             /\ k[2] <= MaxConns[k[1]] /\ k = <<k[1], k[2]>>
  <2>1. PICK c \in Clients : k \in {c} \X (1 .. MaxConns[c])
    BY <1>2 DEF Conns
  <2>2. QED
    BY <2>1, <1>1
<1>3. ASSUME NEW c \in Clients, NEW n \in Nat \ {0}, n <= MaxConns[c]
      PROVE  <<c, n>> \in Conns
  <2>1. <<c, n>> \in {c} \X (1 .. MaxConns[c])
    BY <1>1, <1>3
  <2>2. QED
    BY <2>1 DEF Conns
<1>4. QED
  BY <1>2, <1>3

LEMMA InitShell == Init => ShellInv
<1> SUFFICES ASSUME Init PROVE ShellInv
  OBVIOUS
<1>1. TypeOK
  BY BoundsAssumption DEF Init, TypeOK
<1>2. PlaceOK /\ ChildOK /\ SentOK
  BY DEF Init, PlaceOK, ChildOK, SentOK
<1>3. QED
  BY <1>1, <1>2 DEF ShellInv

-----------------------------------------------------------------------------
(* Type correctness                                                        *)

\* Every step keeps the types, when no connection is served but one that was
\* accepted.
LEMMA NextTypes == ShellInv /\ [Next]_vars => TypeOK'
<1> SUFFICES ASSUME ShellInv, [Next]_vars PROVE TypeOK'
  OBVIOUS
<1> USE DEF ShellInv, TypeOK, childVars, srvVars, cliVars
<1>1. ASSUME NEW c \in Clients, Connect(c) PROVE TypeOK'
  <2>0. made[c] \in Nat /\ MaxConns[c] \in Nat /\ made[c] < MaxConns[c]
    BY <1>1, BoundsAssumption DEF Connect
  <2>1. made[c] + 1 \in Nat \ {0} /\ made[c] + 1 <= MaxConns[c]
    BY <2>0
  <2>2. <<c, made[c] + 1>> \in Conns
    BY <2>1, ConnParts
  <2>3. made' \in [Clients -> Nat] /\ \A d \in Clients : made'[d] <= MaxConns[d]
    BY <1>1, <2>1 DEF Connect
  <2>4. backlog' \in Seq(Conns)
    BY <1>1, <2>2, AppendProperties DEF Connect
  <2>5. QED
    BY <1>1, <2>2, <2>3, <2>4 DEF Connect
<1>2. ASSUME NEW c \in Clients,
             ConnectFails(c) \/ ShowOutput(c) \/ Enter(c) \/ TypeCommand(c)
               \/ TypeQuit(c) \/ Killed(c)
      PROVE  TypeOK'
  BY <1>2 DEF ConnectFails, ShowOutput, Enter, TypeCommand, TypeQuit, Killed, Exit, Of
<1>3. CASE Accept
  <2>1. Head(backlog) \in Conns /\ Tail(backlog) \in Seq(Conns)
    BY <1>3, HeadTailProperties DEF Accept
  <2>2. QED
    BY <1>3, <2>1 DEF Accept
<1>4. CASE Empty \/ Refuse \/ ForkFails
  <2>1. TurnAway
    BY <1>4 DEF Empty, Refuse, ForkFails
  <2>2. QED
    BY <2>1 DEF TurnAway
<1>q. CASE Quit
  <2>1. <<>> \in Seq(Conns)
    OBVIOUS
  <2>2. QED
    BY <1>q, <2>1 DEF Quit
<1>5. CASE Fork
  BY <1>5 DEF Fork, Reads, PlaceOK, Made
<1>6. CASE Reap
  BY <1>6 DEF Reap
<1>7. ASSUME NEW k \in Conns, Command(k) PROVE TypeOK'
  BY <1>7 DEF Command, ChildWritesMuch, ChildEnds
<1>8. CASE UNCHANGED vars
  BY <1>8 DEF vars
<1>9. QED
  BY <1>1, <1>2, <1>3, <1>4, <1>q, <1>5, <1>6, <1>7, <1>8
     DEF Next, Client, User, Server

-----------------------------------------------------------------------------
(* The rest of the invariant                                               *)

\* A step of a client other than connecting leaves the queue and the server
\* alone, and sends nothing but on a connection at its prompt.
LEMMA ClientStep ==
    ASSUME ShellInv, NEW c \in Clients,
           ConnectFails(c) \/ ShowOutput(c) \/ Enter(c) \/ TypeCommand(c)
             \/ TypeQuit(c) \/ Killed(c)
    PROVE  PlaceOK' /\ ChildOK' /\ SentOK'
<1> USE DEF ShellInv, TypeOK
<1>1. UNCHANGED <<made, spc, cur, backlog, children, ran>>
  BY DEF ConnectFails, ShowOutput, Enter, TypeCommand, TypeQuit, Killed,
         srvVars, childVars
<1>2. PlaceOK' /\ ChildOK'
  BY <1>1 DEF PlaceOK, ChildOK, Made
<1>3. cpc' = [cpc EXCEPT ![c] = cpc'[c]] /\ cpc'[c] # "prompt"
  BY DEF ConnectFails, ShowOutput, Enter, TypeCommand, TypeQuit, Killed, Exit
<1>4. \/ sent' = sent
      \/ cpc[c] = "prompt" /\ sent' = [sent EXCEPT ![Sock(c)] = sent'[Sock(c)]]
  BY DEF ConnectFails, ShowOutput, Enter, TypeCommand, TypeQuit, Killed
<1>5. \A k : Made(k)' = Made(k)
  BY <1>1 DEF Made
<1>6. \A d \in Clients : Sock(d)' = Sock(d) /\ (d # c => Sock(d) # Sock(c))
  BY <1>1 DEF Sock
<1>7. SentOK'
  <2>1. CASE sent' = sent
    BY <1>3, <1>5, <1>6, <2>1 DEF SentOK
  <2>2. CASE cpc[c] = "prompt" /\ sent' = [sent EXCEPT ![Sock(c)] = sent'[Sock(c)]]
    <3>1. Made(Sock(c)) /\ Sock(c) \in Conns
      BY <2>2 DEF SentOK, Made
    <3>2. \A k \in Conns : k # Sock(c) => sent'[k] = sent[k]
      BY <2>2
    <3>3. \A k \in Conns : ~Made(k)' => sent'[k] = "none"
      BY <1>5, <3>1, <3>2 DEF SentOK
    <3>4. ASSUME NEW d \in Clients, cpc'[d] = "prompt"
          PROVE  Made(Sock(d))' /\ sent'[Sock(d)'] = "none"
      <4>1. d # c /\ cpc[d] = "prompt"
        BY <1>3, <3>4
      <4>2. Made(Sock(d)) /\ sent[Sock(d)] = "none" /\ Sock(d) \in Conns
        BY <4>1 DEF SentOK, Made
      <4>3. sent'[Sock(d)] = "none"
        BY <1>6, <3>2, <4>1, <4>2
      <4> QED
        BY <1>1, <1>6, <4>2, <4>3 DEF Made
    <3> QED
      BY <3>3, <3>4 DEF SentOK
  <2> QED
    BY <1>4, <2>1, <2>2
<1>8. QED
  BY <1>2, <1>7

\* The connection that is queued is new.
LEMMA ConnectStep ==
    ASSUME ShellInv, NEW c \in Clients, Connect(c)
    PROVE  PlaceOK' /\ ChildOK' /\ SentOK'
<1> USE DEF ShellInv, TypeOK
<1>0. made[c] \in Nat /\ MaxConns[c] \in Nat /\ made[c] < MaxConns[c]
  BY BoundsAssumption DEF Connect
<1>1. PICK k \in Conns : k = <<c, made[c] + 1>>
  <2>1. made[c] + 1 \in Nat \ {0} /\ made[c] + 1 <= MaxConns[c]
    BY <1>0
  <2> QED
    BY <2>1, ConnParts
<1>2. ~Made(k) /\ Made(k)' /\ k \notin ran
  BY <1>1 DEF Made, Connect, PlaceOK
<1>3. \A j \in Conns : Made(j)' <=> Made(j) \/ j = k
  BY <1>1, ConnParts DEF Connect, Made
<1>4. /\ DOMAIN backlog' = 1 .. (Len(backlog) + 1)
      /\ DOMAIN backlog = 1 .. Len(backlog) /\ Len(backlog) \in Nat
      /\ \A i \in 1 .. Len(backlog) : backlog'[i] = backlog[i]
      /\ backlog'[Len(backlog) + 1] = k
  BY <1>1 DEF Connect
<1>5. \A i \in 1 .. Len(backlog) : backlog[i] # k
  BY <1>2, <1>4 DEF PlaceOK
<1>6. UNCHANGED <<sent, spc, cur, children, ran>>
  BY DEF Connect, childVars
<1>7. spc = "read" => cur # k
  BY <1>2 DEF PlaceOK
<1>8. \A j : Made(j) => Made(j)'
  BY <1>3 DEF Made
<1>9. PlaceOK'
  <2>1. \A i \in DOMAIN backlog' : Made(backlog[i])' /\ backlog'[i] \notin ran'
    BY <1>2, <1>4, <1>6, <1>8 DEF PlaceOK
  <2>2. \A i, j \in DOMAIN backlog' : backlog'[i] = backlog'[j] => i = j
    BY <1>4, <1>5 DEF PlaceOK
  <2>3. spc' = "read" =>
           /\ Made(cur)' /\ cur' \notin ran'
           /\ \A i \in DOMAIN backlog' : backlog'[i] # cur'
    BY <1>4, <1>6, <1>7, <1>8 DEF PlaceOK
  <2>4. \A j \in ran' : Made(j)'
    BY <1>6, <1>8 DEF PlaceOK
  <2> QED
    BY <2>1, <2>2, <2>3, <2>4 DEF PlaceOK
<1>10. ChildOK'
  BY <1>6 DEF ChildOK
<1>11. SentOK'
  <2>1. \A j \in Conns : ~Made(j)' => sent'[j] = "none"
    BY <1>3, <1>6 DEF SentOK
  <2>2. \A d \in Clients : Sock(d)' = IF d = c THEN k ELSE Sock(d)
    BY <1>1 DEF Connect, Sock
  <2>3. sent'[k] = "none"
    BY <1>1, <1>2, <1>6 DEF SentOK
  <2>4. \A d \in Clients : cpc'[d] = "prompt" =>
          Made(Sock(d))' /\ sent[Sock(d)]' = "none"
    BY <1>2, <1>6, <1>8, <2>2, <2>3 DEF SentOK, Connect
  <2> QED
    BY <2>1, <2>4 DEF SentOK
<1>12. QED
  BY <1>9, <1>10, <1>11

\* The server and its child leave the clients alone.
LEMMA ServerStep ==
    ASSUME ShellInv, Server \/ \E k \in Conns : Command(k)
    PROVE  PlaceOK' /\ ChildOK' /\ SentOK'
<1> USE DEF ShellInv, TypeOK
<1>1. UNCHANGED <<cpc, made, sent>>
  BY DEF Server, Command, Accept, Empty, Refuse, Quit, Fork, ForkFails, Reap,
         TurnAway, ChildWritesMuch, ChildEnds, cliVars
<1>2. SentOK' /\ \A k : Made(k)' = Made(k)
  BY <1>1 DEF SentOK, Made, Sock
<1>3. CASE Accept
  <2>1. backlog # <<>> /\ cur' = Head(backlog) /\ backlog' = Tail(backlog)
          /\ UNCHANGED <<children, ran>> /\ spc = "accept" /\ spc' = "read"
    BY <1>3 DEF Accept, childVars
  <2>2. /\ cur' = backlog[1] /\ 1 \in DOMAIN backlog
        /\ \A i \in DOMAIN backlog' :
             i + 1 \in DOMAIN backlog /\ backlog'[i] = backlog[i + 1] /\ i # 0
    BY <2>1
  <2>3. PlaceOK'
    BY <1>2, <2>1, <2>2 DEF PlaceOK
  <2>4. ChildOK'
    BY <2>1 DEF ChildOK
  <2> QED
    BY <1>2, <2>3, <2>4
<1>4. CASE Empty \/ Refuse \/ ForkFails
  <2>1. UNCHANGED <<cur, backlog, children, ran>> /\ spc = "read" /\ spc' = "accept"
    BY <1>4 DEF Empty, Refuse, ForkFails, TurnAway, Reads, childVars
  <2> QED
    BY <1>2, <2>1 DEF PlaceOK, ChildOK
<1>5. CASE Quit
  <2>1. UNCHANGED <<cur, children, ran>> /\ spc = "read" /\ spc' = "exited"
          /\ backlog' = <<>>
    BY <1>5 DEF Quit, Reads, childVars
  <2> QED
    BY <1>2, <2>1 DEF PlaceOK, ChildOK
<1>6. CASE Fork
  <2>1. /\ UNCHANGED <<cur, backlog>> /\ spc = "read" /\ spc' = "wait"
        /\ children' = children \cup {cur} /\ ran' = ran \cup {cur}
    BY <1>6 DEF Fork, Reads
  <2>2. PlaceOK'
    BY <1>2, <2>1 DEF PlaceOK
  <2>3. ChildOK'
    BY <2>1 DEF ChildOK
  <2> QED
    BY <1>2, <2>2, <2>3
<1>7. CASE Reap
  <2>1. UNCHANGED <<cur, backlog, children, ran>> /\ spc' = "accept"
          /\ cur \notin children
    BY <1>7 DEF Reap, childVars
  <2> QED
    BY <1>2, <2>1 DEF PlaceOK, ChildOK
<1>8. CASE \E k \in Conns : Command(k)
  <2>1. UNCHANGED <<spc, cur, backlog, ran>> /\ children' \subseteq children
    BY <1>8 DEF Command, ChildWritesMuch, ChildEnds, srvVars
  <2> QED
    BY <1>2, <2>1 DEF PlaceOK, ChildOK
<1>9. QED
  BY <1>3, <1>4, <1>5, <1>6, <1>7, <1>8 DEF Server

\* Every step keeps the invariant.
LEMMA NextShell == ShellInv /\ [Next]_vars => ShellInv'
<1> SUFFICES ASSUME ShellInv, [Next]_vars PROVE ShellInv'
  OBVIOUS
<1>1. TypeOK'
  BY NextTypes
<1>2. CASE UNCHANGED vars
  BY <1>1, <1>2 DEF vars, cliVars, srvVars, childVars, ShellInv, PlaceOK,
     ChildOK, SentOK, Made, Sock
<1>3. CASE Next
  BY <1>1, <1>3, ClientStep, ConnectStep, ServerStep
     DEF Next, Client, User, ShellInv
<1>4. QED
  BY <1>2, <1>3

\* ShellInv holds throughout.
THEOREM ShellCorrect == Spec => []ShellInv
BY InitShell, NextShell, PTL DEF Spec

\* Type correctness of clients, listen queue, server and commands, for every
\* number of connections.
THEOREM ShellTypes == Spec => []TypeOK
BY ShellCorrect, PTL DEF ShellInv

-----------------------------------------------------------------------------
(* The shell implements ShellService                                       *)

\* A typed command is one more request, if the client has the password.
LEMMA AskStep ==
    ASSUME ShellInv, NEW c \in Clients, TypeCommand(c)
    PROVE  Service!Next \/ UNCHANGED Service!vars
<1>1. /\ Sock(c) \in Conns /\ sent[Sock(c)] = "none"
      /\ sent' = [sent EXCEPT ![Sock(c)] = "cmd"]
      /\ UNCHANGED <<children, ran>>
  BY DEF ShellInv, SentOK, Made, TypeCommand, childVars
<1>2. CASE Authorised(Sock(c))
  <2>1. Asked' = Asked \cup {Sock(c)} /\ Sock(c) \notin Asked
    BY <1>1, <1>2 DEF Asked, ShellInv, TypeOK, Authorised
  <2>2. Service!Ask(Sock(c))
    BY <1>1, <2>1 DEF Service!Ask
  <2> QED
    BY <1>1, <2>2 DEF Service!Next
<1>3. CASE ~Authorised(Sock(c))
  <2>1. Asked' = Asked
    BY <1>1, <1>3 DEF Asked, ShellInv, TypeOK, Authorised
  <2> QED
    BY <1>1, <2>1 DEF Service!vars
<1>4. QED
  BY <1>2, <1>3

\* A fork runs a request that was made and not run before, with none running.
LEMMA RunStep ==
    ASSUME ShellInv, Fork
    PROVE  Service!Next
<1>1. /\ cur \in Conns /\ cur \notin ran /\ sent[cur] = "cmd"
      /\ Authorised(cur) /\ children = {}
  BY DEF ShellInv, PlaceOK, ChildOK, Made, Fork, Reads
<1>2. cur \in Asked /\ Asked' = Asked
  BY <1>1 DEF Fork, cliVars, Asked, Authorised
<1>3. Service!Run(cur)
  BY <1>1, <1>2 DEF Fork, Service!Run
<1>4. QED
  BY <1>1, <1>3 DEF Service!Next

\* The command that ends was the only one.
LEMMA EndStep ==
    ASSUME ShellInv, NEW k \in Conns, ChildEnds(k)
    PROVE  Service!Next
<1>1. children # {} /\ children' = {} /\ UNCHANGED <<sent, ran>>
  BY DEF ShellInv, ChildOK, ChildEnds, cliVars
<1>2. Asked' = Asked
  BY <1>1 DEF Asked, Authorised
<1>3. QED
  BY <1>1, <1>2 DEF Service!Next, Service!End

\* Nothing else starts or ends a command, or asks for one.
LEMMA OtherStep ==
    ASSUME ShellInv,
           \/ \E c \in Clients : Client(c) \/ Enter(c) \/ TypeQuit(c) \/ Killed(c)
           \/ Accept \/ Empty \/ Refuse \/ Quit \/ ForkFails \/ Reap
           \/ \E k \in Conns : ChildWritesMuch(k)
           \/ UNCHANGED vars
    PROVE  UNCHANGED Service!vars
<1>1. UNCHANGED <<children, ran>>
  BY DEF Client, Connect, ConnectFails, ShowOutput, Enter, TypeQuit, Killed, Accept,
         Empty, Refuse, Quit, ForkFails, Reap, TurnAway, ChildWritesMuch, vars,
         childVars
<1>2. CASE \E c \in Clients : TypeQuit(c)
  <2>1. PICK c \in Clients : TypeQuit(c)
    BY <1>2
  <2>2. Sock(c) \in Conns /\ sent[Sock(c)] = "none"
          /\ sent' = [sent EXCEPT ![Sock(c)] = "quit"]
    BY <2>1 DEF ShellInv, SentOK, Made, TypeQuit
  <2>3. Asked' = Asked
    BY <2>2 DEF Asked, ShellInv, TypeOK, Authorised
  <2> QED
    BY <1>1, <2>3 DEF Service!vars
<1>3. CASE ~\E c \in Clients : TypeQuit(c)
  <2>1. sent' = sent
    BY <1>3 DEF Client, Connect, ConnectFails, ShowOutput, Enter, Killed, Accept,
         Empty, Refuse, Quit, ForkFails, Reap, TurnAway, ChildWritesMuch, vars,
         cliVars
  <2>2. Asked' = Asked
    BY <2>1 DEF Asked, Authorised
  <2> QED
    BY <1>1, <2>2 DEF Service!vars
<1>4. QED
  BY <1>2, <1>3

\* However many clients connect, type, stop reading and die: a command is run
\* at most once, alone, and only for a client with the password that sent it.
THEOREM ImplementsShell == Spec => ServiceSpec
<1>1. Init => Service!Init
  BY DEF Init, Service!Init, Asked
<1>2. ShellInv /\ [Next]_vars => [Service!Next]_Service!vars
  <2> SUFFICES ASSUME ShellInv, [Next]_vars
               PROVE  Service!Next \/ UNCHANGED Service!vars
    OBVIOUS
  <2> QED
    BY AskStep, RunStep, EndStep, OtherStep DEF Next, User, Server, Command
<1>3. QED
  BY <1>1, <1>2, ShellCorrect, PTL DEF Spec, ServiceSpec, Service!Spec

-----------------------------------------------------------------------------
(* The connections: the state part of Answered.                            *)

Queued == {backlog[i] : i \in DOMAIN backlog}

\* The server's side of a connection is open exactly as long as the server has
\* the connection in its queue or reads from it, or its command runs; and who
\* waits for output has sent a command.  So nobody waits at a connection that
\* nobody will close.
OpenServed ==
    /\ \A k \in Conns :
         k \in sopen <=> k \in Queued \/ (spc = "read" /\ k = cur) \/ k \in children
    /\ \A c \in Clients : cpc[c] = "read" => sent[Sock(c)] = "cmd"
    /\ spc = "exited" => backlog = <<>>

\* With what makes it inductive: a command that runs has been started, and who
\* waits has made a connection.
OpenInv ==
    /\ ShellInv /\ OpenServed
    /\ children \subseteq ran
    /\ \A c \in Clients : cpc[c] = "read" => Sock(c) \in Conns

LEMMA OpenClient ==
    ASSUME OpenInv, NEW c \in Clients,
           ConnectFails(c) \/ ShowOutput(c) \/ Enter(c) \/ TypeCommand(c)
             \/ TypeQuit(c) \/ Killed(c)
    PROVE  OpenServed'
<1> USE DEF OpenInv, ShellInv, TypeOK
<1>1. UNCHANGED <<made, spc, cur, backlog, sopen, children>>
  BY DEF ConnectFails, ShowOutput, Enter, TypeCommand, TypeQuit, Killed,
         srvVars, childVars
<1>2. \A d \in Clients : Sock(d)' = Sock(d) /\ (d # c => Sock(d) # Sock(c))
  BY <1>1 DEF Sock
<1>3. \A d \in Clients : d # c => cpc'[d] = cpc[d]
  BY DEF ConnectFails, ShowOutput, Enter, TypeCommand, TypeQuit, Killed, Exit
<1>4. \A d \in Clients : d # c /\ cpc[d] = "read" => sent'[Sock(d)] = sent[Sock(d)]
  <2>1. sent' = sent \/ sent' = [sent EXCEPT ![Sock(c)] = sent'[Sock(c)]]
    BY DEF ConnectFails, ShowOutput, Enter, TypeCommand, TypeQuit, Killed
  <2>2. \A k : k # Sock(c) /\ k \in Conns => sent'[k] = sent[k]
    BY ONLY <2>1, sent \in [Conns -> {"none", "cmd", "quit"}]
  <2> QED
    BY <1>2, <2>2
<1>5. cpc'[c] = "read" => sent'[Sock(c)] = "cmd"
  <2>1. CASE TypeCommand(c)
    <3>1. Sock(c) \in Conns
      BY <2>1 DEF TypeCommand, SentOK, Made
    <3> QED
      BY <2>1, <3>1 DEF TypeCommand
  <2>2. CASE ConnectFails(c) \/ ShowOutput(c) \/ Enter(c) \/ TypeQuit(c) \/ Killed(c)
    BY <2>2 DEF ConnectFails, ShowOutput, Enter, TypeQuit, Killed, Exit
  <2> QED
    BY <2>1, <2>2
<1> QED
  BY <1>1, <1>2, <1>3, <1>4, <1>5 DEF OpenServed, Queued

LEMMA OpenConnect ==
    ASSUME OpenInv, NEW c \in Clients, Connect(c)
    PROVE  OpenServed'
<1> USE DEF OpenInv, ShellInv, TypeOK
<1>1. PICK k \in Conns : k = <<c, made[c] + 1>>
  <2>1. made[c] + 1 \in Nat \ {0} /\ made[c] + 1 <= MaxConns[c]
    <3>1. made[c] \in Nat /\ MaxConns[c] \in Nat /\ made[c] < MaxConns[c]
      BY BoundsAssumption DEF Connect
    <3> QED
      BY ONLY <3>1
  <2> QED
    BY <2>1, ConnParts
<1>2. /\ sopen' = sopen \cup {k} /\ UNCHANGED <<spc, cur, children, sent>>
      /\ spc # "exited"
      /\ backlog' = Append(backlog, k)
      /\ cpc'[c] = "prompt"
      /\ \A d \in Clients : d # c => cpc'[d] = cpc[d] /\ Sock(d)' = Sock(d)
  BY <1>1 DEF Connect, childVars, Sock
<1>3. Queued' = Queued \cup {k}
  <2>1. /\ DOMAIN backlog' = DOMAIN backlog \cup {Len(backlog) + 1}
        /\ backlog'[Len(backlog) + 1] = k
        /\ \A i \in DOMAIN backlog : backlog'[i] = backlog[i]
    BY <1>2
  <2> QED
    BY ONLY <2>1 DEF Queued
<1> QED
  BY <1>2, <1>3 DEF OpenServed

LEMMA OpenServer ==
    ASSUME OpenInv, Server \/ \E k \in Conns : Command(k)
    PROVE  OpenServed'
<1> USE DEF OpenInv, ShellInv, TypeOK
<1>1. UNCHANGED <<cpc, made, sent>>
  BY DEF Server, Command, Accept, Empty, Refuse, Quit, Fork, ForkFails, Reap,
         TurnAway, ChildWritesMuch, ChildEnds, cliVars
<1>2. \A c \in Clients : cpc'[c] = "read" => sent'[Sock(c)'] = "cmd"
  BY <1>1 DEF OpenServed, Sock
<1>3. CASE Accept
  <2>1. /\ backlog # <<>> /\ cur' = Head(backlog) /\ backlog' = Tail(backlog)
        /\ UNCHANGED <<sopen, children>> /\ spc = "accept" /\ spc' = "read"
    BY <1>3 DEF Accept, childVars
  <2>2. /\ cur' = backlog[1] /\ 1 \in DOMAIN backlog
        /\ \A i \in DOMAIN backlog' : i + 1 \in DOMAIN backlog /\ backlog'[i] = backlog[i + 1]
        /\ \A i \in DOMAIN backlog : i # 1 => \E j \in DOMAIN backlog' : i = j + 1
    <3>1. DOMAIN backlog = 1 .. Len(backlog) /\ DOMAIN Tail(backlog) = 1 .. (Len(backlog) - 1)
            /\ Len(backlog) \in Nat
      BY <2>1
    <3>2. \A i \in DOMAIN backlog : i # 1 =>
            i - 1 \in DOMAIN Tail(backlog) /\ i = (i - 1) + 1
      BY <3>1
    <3> QED
      BY <2>1, <3>2
  <2>3. Queued = Queued' \cup {cur'}
    <3>1. ASSUME NEW i \in DOMAIN backlog
          PROVE  backlog[i] = cur' \/ \E j \in DOMAIN backlog' : backlog'[j] = backlog[i]
      BY ONLY <2>2, i \in DOMAIN backlog
    <3> QED
      BY ONLY <2>2, <3>1 DEF Queued
  <2> QED
    BY <1>2, <2>1, <2>3 DEF OpenServed
<1>4. CASE Empty \/ Refuse \/ ForkFails
  <2>1. /\ UNCHANGED <<cur, backlog, children>> /\ spc = "read" /\ spc' = "accept"
        /\ sopen' = sopen \ {cur}
    BY <1>4 DEF Empty, Refuse, ForkFails, TurnAway, Reads, childVars
  <2>2. cur \notin Queued /\ children = {}
    BY <2>1 DEF PlaceOK, ChildOK, Queued
  <2> QED
    BY <1>2, <2>1, <2>2 DEF OpenServed, Queued
<1>5. CASE Quit
  <2>1. /\ UNCHANGED children /\ spc = "read" /\ spc' = "exited"
        /\ backlog' = <<>> /\ sopen' = {}
    BY <1>5 DEF Quit, Reads, childVars
  <2>2. children = {} /\ Queued' = {}
    BY <2>1 DEF ChildOK, Queued
  <2> QED
    BY <1>2, <2>1, <2>2 DEF OpenServed
<1>6. CASE Fork
  <2>1. /\ UNCHANGED <<cur, backlog, sopen>> /\ spc = "read" /\ spc' = "wait"
        /\ children' = children \cup {cur}
    BY <1>6 DEF Fork, Reads
  <2> QED
    BY <1>2, <2>1 DEF OpenServed, Queued
<1>7. CASE Reap
  <2>1. UNCHANGED <<cur, backlog, sopen, children>> /\ spc = "wait" /\ spc' = "accept"
    BY <1>7 DEF Reap, childVars
  <2> QED
    BY <1>2, <2>1 DEF OpenServed, Queued
<1>8. CASE \E k \in Conns : ChildWritesMuch(k)
  <2>1. UNCHANGED <<spc, cur, backlog, sopen, children>>
    BY <1>8 DEF ChildWritesMuch, srvVars
  <2> QED
    BY <1>2, <2>1 DEF OpenServed, Queued
<1>9. ASSUME NEW k \in Conns, ChildEnds(k) PROVE OpenServed'
  <2>1. /\ UNCHANGED <<spc, cur, backlog>> /\ k \in children
        /\ children' = children \ {k} /\ sopen' = sopen \ {k}
    BY <1>9 DEF ChildEnds, srvVars
  <2>2. k = cur /\ spc # "read" /\ k \in ran
    BY <2>1 DEF ChildOK
  <2>3. k \notin Queued
    BY <2>2 DEF PlaceOK, Queued
  <2> QED
    BY <1>2, <2>1, <2>2, <2>3 DEF OpenServed, Queued
<1> QED
  BY <1>3, <1>4, <1>5, <1>6, <1>7, <1>8, <1>9 DEF Server, Command

\* mysh_v4.c:61-171: however clients connect, are refused, die or type q, the
\* server holds exactly the connections that wait in its queue, that it reads, or
\* whose command runs: it neither forgets one nor closes one too early.
THEOREM ConnectionsCorrect == Spec => []OpenServed
<1>1. Init => OpenInv
  BY InitShell DEF Init, OpenInv, OpenServed, Queued
<1>2. OpenInv /\ [Next]_vars => OpenInv'
  <2> SUFFICES ASSUME OpenInv, [Next]_vars PROVE OpenInv'
    OBVIOUS
  <2>1. OpenServed'
    <3>1. CASE UNCHANGED vars
      BY <3>1 DEF vars, cliVars, srvVars, childVars, OpenInv, OpenServed, Queued, Sock
    <3>2. CASE Next
      BY <3>2, OpenClient, OpenConnect, OpenServer DEF Next, Client, User
    <3> QED
      BY <3>1, <3>2
  <2>2. (children \subseteq ran)'
    BY DEF OpenInv, Next, Client, User, Server, Command, Connect, ConnectFails,
       ShowOutput, Enter, TypeCommand, TypeQuit, Killed, Accept, Empty, Refuse,
       Quit, Fork, ForkFails, Reap, TurnAway, ChildWritesMuch, ChildEnds, vars,
       childVars
  <2>3. ASSUME NEW c \in Clients, cpc'[c] = "read" PROVE Sock(c)' \in Conns
    <3>1. \/ cpc[c] = "read" /\ made'[c] = made[c]
          \/ TypeCommand(c)
      BY <2>3 DEF OpenInv, ShellInv, TypeOK, Next, Client, User, Server, Command,
         Connect, ConnectFails, ShowOutput, Enter, TypeCommand, TypeQuit, Killed,
         Exit, Accept, Empty, Refuse, Quit, Fork, ForkFails, Reap, TurnAway,
         ChildWritesMuch, ChildEnds, vars, cliVars
    <3>2. CASE TypeCommand(c)
      BY <3>2 DEF TypeCommand, OpenInv, ShellInv, SentOK, Made, Sock
    <3> QED
      BY <3>1, <3>2 DEF OpenInv, Sock
  <2> QED
    BY <2>1, <2>2, <2>3, NextShell DEF OpenInv
<1>3. OpenInv => OpenServed
  BY DEF OpenInv
<1> QED
  BY <1>1, <1>2, <1>3, PTL DEF Spec
=============================================================================
