------------------------------ MODULE TcpShell ------------------------------
(***************************************************************************)
(* The shell over TCP: the server mysh4 (tcp_server/mysh_v4.c), the mycl   *)
(* clients (mycl.c) and the people who type at them.                       *)
(*                                                                         *)
(* A client connects before it prompts, sends at most one command on a     *)
(* connection, and connects anew for the next one; after an empty line it  *)
(* does so with the old connection still open.  The server serves one      *)
(* connection at a time, from accept() until the command's process ends.   *)
(* A connection is known by its client and its number, and so is the       *)
(* command sent on it.                                                     *)
(***************************************************************************)
EXTENDS Naturals, Sequences

CONSTANTS
    Clients,   \* mycl processes
    Wrong,     \* those started with another password than the server
    NoConn,    \* no connection accepted yet
    BACKLOG,   \* connections the listen queue holds
    MaxConns   \* bound: for each client, the connections it makes

ASSUME WrongAssumption == Wrong \subseteq Clients
ASSUME BoundsAssumption ==
    BACKLOG \in Nat \ {0} /\ MaxConns \in [Clients -> Nat \ {0}]

Conns == UNION {{c} \X (1 .. MaxConns[c]) : c \in Clients}

ASSUME NoConnAssumption == NoConn \notin Conns

VARIABLES
    \* the clients
    cpc,       \* "connect", "prompt", "read" or "exited"
    made,      \* number of the connection in clientSocket
    copen,     \* the connections that clients hold open
    sent,      \* on each connection: "none", "cmd" or "quit"
    \* the server
    spc,       \* "accept", "read", "wait" or "exited"
    cur,       \* slaveSocket
    backlog,   \* connections in the listen queue
    sopen,     \* the connections open on the server's side
    children,  \* the connections whose command is running
    much,      \* those on which more was written than a client reads
    \* history
    ran        \* the connections whose command was started

cliVars == <<cpc, made, copen, sent>>
srvVars == <<spc, cur, backlog>>
childVars == <<children, much, ran>>
vars == <<cliVars, srvVars, sopen, childVars>>

Init ==
    /\ cpc = [c \in Clients |-> "connect"]
    /\ made = [c \in Clients |-> 0]
    /\ copen = {}
    /\ sent = [k \in Conns |-> "none"]
    /\ spc = "accept"
    /\ cur = NoConn
    /\ backlog = <<>>
    /\ sopen = {}
    /\ children = {}
    /\ much = {}
    /\ ran = {}

-----------------------------------------------------------------------------
(* mycl                                                                    *)

Sock(c) == <<c, made[c]>>
Of(c) == {k \in Conns : k[1] = c}

\* connect() returns when the kernel has queued the connection, whatever the
\* server is doing; it blocks while the queue is full.
Connect(c) ==
    /\ cpc[c] = "connect"
    /\ spc # "exited"
    /\ Len(backlog) < BACKLOG
    /\ made[c] < MaxConns[c]
    /\ LET k == <<c, made[c] + 1>> IN
         /\ backlog' = Append(backlog, k)
         /\ copen' = copen \cup {k}
         /\ sopen' = sopen \cup {k}
    /\ made' = [made EXCEPT ![c] = @ + 1]
    /\ cpc' = [cpc EXCEPT ![c] = "prompt"]
    /\ UNCHANGED <<sent, spc, cur, childVars>>

\* The process ends and the kernel closes what it had open.
Exit(c) ==
    /\ cpc' = [cpc EXCEPT ![c] = "exited"]
    /\ copen' = copen \ Of(c)

\* connect() fails and error() exits.
ConnectFails(c) ==
    /\ cpc[c] = "connect"
    /\ spc = "exited"
    /\ Exit(c)
    /\ UNCHANGED <<made, sent, srvVars, sopen, childVars>>

\* An empty line: back to the top of the loop without close().
Enter(c) ==
    /\ cpc[c] = "prompt"
    /\ cpc' = [cpc EXCEPT ![c] = "connect"]
    /\ UNCHANGED <<made, copen, sent, srvVars, sopen, childVars>>

\* Any other line is written with the password in front; after q the client
\* ends.
TypeCommand(c) ==
    /\ cpc[c] = "prompt"
    /\ sent' = [sent EXCEPT ![Sock(c)] = "cmd"]
    /\ cpc' = [cpc EXCEPT ![c] = "read"]
    /\ UNCHANGED <<made, copen, srvVars, sopen, childVars>>

TypeQuit(c) ==
    /\ cpc[c] = "prompt"
    /\ sent' = [sent EXCEPT ![Sock(c)] = "quit"]
    /\ Exit(c)
    /\ UNCHANGED <<made, srvVars, sopen, childVars>>

\* The reads end at end of file or when the output fills the buffer.
ShowOutput(c) ==
    /\ cpc[c] = "read"
    /\ Sock(c) \notin sopen \/ Sock(c) \in much
    /\ copen' = copen \ {Sock(c)}
    /\ cpc' = [cpc EXCEPT ![c] = "connect"]
    /\ UNCHANGED <<made, sent, srvVars, sopen, childVars>>

\* The client is killed (not by Ctrl-C or Ctrl-\, which it handles).
Killed(c) ==
    /\ cpc[c] # "exited"
    /\ Exit(c)
    /\ UNCHANGED <<made, sent, srvVars, sopen, childVars>>

-----------------------------------------------------------------------------
(* mysh4                                                                   *)

Accept ==
    /\ spc = "accept"
    /\ backlog # <<>>
    /\ cur' = Head(backlog)
    /\ backlog' = Tail(backlog)
    /\ spc' = "read"
    /\ UNCHANGED <<cliVars, sopen, childVars>>

\* The request that has come on the connection being served.
Reads(kind) == spc = "read" /\ sent[cur] = kind

Authorised(k) == k[1] \notin Wrong

\* close(slaveSocket) and continue.
TurnAway ==
    /\ sopen' = sopen \ {cur}
    /\ spc' = "accept"
    /\ UNCHANGED <<cliVars, cur, backlog, childVars>>

\* The client has gone without a request: read() returns no byte.
Empty == Reads("none") /\ cur \notin copen /\ TurnAway

Refuse == (Reads("cmd") \/ Reads("quit")) /\ ~Authorised(cur) /\ TurnAway

\* exit(0) closes the listening socket too, and the kernel resets what is
\* still in its queue.
Quit ==
    /\ Reads("quit")
    /\ Authorised(cur)
    /\ spc' = "exited"
    /\ sopen' = {}
    /\ backlog' = <<>>
    /\ UNCHANGED <<cliVars, cur, childVars>>

\* Faulty: the parent does not wait for the command.
ForkOn ==
    /\ Reads("cmd")
    /\ Authorised(cur)
    /\ children' = children \cup {cur}
    /\ ran' = ran \cup {cur}
    /\ spc' = "accept"
    /\ UNCHANGED <<cliVars, cur, backlog, sopen, much>>

\* The child keeps the connection as its standard output and error; the
\* parent closes its own copy and waits.
Fork ==
    /\ Reads("cmd")
    /\ Authorised(cur)
    /\ children' = children \cup {cur}
    /\ ran' = ran \cup {cur}
    /\ spc' = "wait"
    /\ UNCHANGED <<cliVars, cur, backlog, sopen, much>>

\* fork() returns -1: the parent's branch is taken, the connection closed and
\* waitpid(-1) returns at once, there being no child.
ForkFails == Reads("cmd") /\ Authorised(cur) /\ TurnAway

\* waitpid() returns when the command's process has ended.
Reap ==
    /\ spc = "wait"
    /\ cur \notin children
    /\ spc' = "accept"
    /\ UNCHANGED <<cliVars, cur, backlog, sopen, childVars>>

\* The command writes more than the client's buffer holds.
ChildWritesMuch(k) ==
    /\ k \in children
    /\ much' = much \cup {k}
    /\ UNCHANGED <<cliVars, srvVars, sopen, children, ran>>

\* Faulty: the parent has kept its copy of the connection open.
ChildEndsUnclosed(k) ==
    /\ k \in children
    /\ children' = children \ {k}
    /\ UNCHANGED <<cliVars, srvVars, sopen, much, ran>>

\* The command ends, or exec fails, or writing to a closed connection kills
\* it; its end of the connection is closed.
ChildEnds(k) ==
    /\ k \in children
    /\ children' = children \ {k}
    /\ sopen' = sopen \ {k}
    /\ UNCHANGED <<cliVars, srvVars, much, ran>>

-----------------------------------------------------------------------------

Client(c) == Connect(c) \/ ConnectFails(c) \/ ShowOutput(c)

User(c) == Enter(c) \/ TypeCommand(c) \/ TypeQuit(c) \/ Killed(c)

Server == Accept \/ Empty \/ Refuse \/ Quit \/ Fork \/ ForkFails \/ Reap

Command(k) == ChildWritesMuch(k) \/ ChildEnds(k)

Next ==
    \/ \E c \in Clients : Client(c) \/ User(c)
    \/ Server
    \/ \E k \in Conns : Command(k)

Spec == Init /\ [][Next]_vars

\* The kernel runs clients and server, and the commands that are run end.
\* Nobody has to type anything.
FairSpec ==
    /\ Spec
    /\ WF_vars(Server)
    /\ \A c \in Clients : WF_vars(Client(c))
    /\ \A k \in Conns : WF_vars(ChildEnds(k))

-----------------------------------------------------------------------------
(* Properties                                                              *)

TypeOK ==
    /\ cpc \in [Clients -> {"connect", "prompt", "read", "exited"}]
    /\ made \in [Clients -> Nat] /\ \A c \in Clients : made[c] <= MaxConns[c]
    /\ copen \subseteq Conns
    /\ sent \in [Conns -> {"none", "cmd", "quit"}]
    /\ spc \in {"accept", "read", "wait", "exited"}
    /\ cur \in Conns \cup {NoConn}
    /\ backlog \in Seq(Conns)
    /\ sopen \subseteq Conns
    /\ children \subseteq Conns
    /\ much \subseteq Conns
    /\ ran \subseteq Conns

\* The promise of ShellService: however clients connect, type, stop reading
\* and die, a command is run once, alone, and for who has the password.
Asked == {k \in Conns : sent[k] = "cmd" /\ Authorised(k)}

Service == INSTANCE ShellService WITH
    Requests <- Conns, asked <- Asked, ran <- ran, running <- children

ServiceSpec == Service!Spec

\* The server waits for somebody to type: it reads from a connection whose
\* client has sent nothing and still has it open.
Held == spc = "read" /\ sent[cur] = "none" /\ cur \in copen

\* Unless the server is held by an open connection for good, every client that
\* sent a command gets to the end of the output; also when the server exits,
\* and when other clients are killed, refused or stop reading.
Answered ==
    []<>~Held => \A c \in Clients : (cpc[c] = "read") ~> (cpc[c] # "read")
=============================================================================
