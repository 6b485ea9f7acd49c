---------------------------- MODULE MusicSessions ----------------------------
(***************************************************************************)
(* The sessions of the audio server (music_playing_server/musas.c): the    *)
(* parent that admits musac clients, at most two at a time, and the        *)
(* children it forks, seen from birth to waitpid().  What a child streams  *)
(* is the subject of MusicStream.                                          *)
(*                                                                         *)
(* The parent counts its sessions in active_sessions, which goes up after  *)
(* fork() and down when the loop, at its top and only there, reaps the     *)
(* children that have ended.                                               *)
(***************************************************************************)
EXTENDS Naturals, Sequences, FiniteSets

CONSTANTS
    Clients,        \* musac processes
    NoClient,       \* no connection accepted yet
    MAX_SESSIONS    \* sessions admitted at a time (2)

ASSUME MaxSessionsAssumption == MAX_SESSIONS \in Nat \ {0}
ASSUME ClientsAssumption == IsFiniteSet(Clients) /\ NoClient \notin Clients

VARIABLES
    \* the parent
    ppc,                \* "reap", "accept", "decide", "fork" or "count"
    active_sessions,
    session_counter,
    conn,               \* the client being served
    backlog,            \* connections not accepted yet
    \* the musac processes
    cstate,             \* "idle", "waiting", "refused" or "admitted"
    valid,              \* the file name it asks for passes invalid_filename()
    \* the child forked for each client
    child,              \* "none", "running", "zombie" or "reaped"
    number,             \* its copy of session_counter, part of its log's name
    \* history
    unborn              \* sessions counted whose fork() had failed

vars == <<ppc, active_sessions, session_counter, conn, backlog, cstate, valid,
          child, number, unborn>>

Init ==
    /\ ppc = "reap" /\ active_sessions = 0 /\ session_counter = 0
    /\ conn = NoClient /\ backlog = <<>>
    /\ cstate = [c \in Clients |-> "idle"]
    /\ valid = [c \in Clients |-> FALSE]
    /\ child = [c \in Clients |-> "none"]
    /\ number = [c \in Clients |-> 0]
    /\ unborn = 0

Sessions(st) == {c \in Clients : child[c] = st}

-----------------------------------------------------------------------------
(* The clients                                                             *)

\* musac connects and writes the file name.
Connect(c, ok) ==
    /\ cstate[c] = "idle"
    /\ cstate' = [cstate EXCEPT ![c] = "waiting"]
    /\ valid' = [valid EXCEPT ![c] = ok]
    /\ backlog' = Append(backlog, c)
    /\ UNCHANGED <<ppc, active_sessions, session_counter, conn, child, number,
                   unborn>>

-----------------------------------------------------------------------------
(* The parent                                                              *)

\* Faulty: the child is not taken off the count.
ReapUncounted ==
    /\ ppc = "reap"
    /\ \E c \in Sessions("zombie") : child' = [child EXCEPT ![c] = "reaped"]
    /\ UNCHANGED <<ppc, active_sessions, session_counter, conn, backlog,
                   cstate, valid, number, unborn>>

\* waitpid(WNOHANG) returns a child that has ended.
Reap ==
    /\ ppc = "reap"
    /\ \E c \in Sessions("zombie") : child' = [child EXCEPT ![c] = "reaped"]
    /\ active_sessions' = active_sessions - 1
    /\ UNCHANGED <<ppc, session_counter, conn, backlog, cstate, valid, number,
                   unborn>>

\* waitpid(WNOHANG) returns none, and the parent blocks in accept().
ReapDone ==
    /\ ppc = "reap"
    /\ Sessions("zombie") = {}
    /\ ppc' = "accept"
    /\ UNCHANGED <<active_sessions, session_counter, conn, backlog, cstate,
                   valid, child, number, unborn>>

\* accept() and the reads of the file name, byte by byte.
Accept ==
    /\ ppc = "accept"
    /\ backlog # <<>>
    /\ conn' = Head(backlog)
    /\ backlog' = Tail(backlog)
    /\ ppc' = "decide"
    /\ UNCHANGED <<active_sessions, session_counter, cstate, valid, child,
                   number, unborn>>

\* Faulty: one session more.
AdmissibleOneMore == valid[conn] /\ ~(active_sessions > MAX_SESSIONS)

Admissible == valid[conn] /\ ~(active_sessions >= MAX_SESSIONS)

\* Faulty: the connection is neither answered nor closed.
RefuseSilently ==
    /\ ppc = "decide"
    /\ ~Admissible
    /\ ppc' = "reap"
    /\ UNCHANGED <<active_sessions, session_counter, conn, backlog, cstate,
                   valid, child, number, unborn>>

\* 'q' is written and the connection closed.
Refuse ==
    /\ ppc = "decide"
    /\ ~Admissible
    /\ cstate' = [cstate EXCEPT ![conn] = "refused"]
    /\ ppc' = "reap"
    /\ UNCHANGED <<active_sessions, session_counter, conn, backlog, valid,
                   child, number, unborn>>

\* session_counter++ before the fork, so that the child has its own number.
NumberSession ==
    /\ ppc = "decide"
    /\ Admissible
    /\ session_counter' = session_counter + 1
    /\ ppc' = "fork"
    /\ UNCHANGED <<active_sessions, conn, backlog, cstate, valid, child,
                   number, unborn>>

\* The new child has a copy of the parent's memory.
Fork ==
    /\ ppc = "fork"
    /\ child' = [child EXCEPT ![conn] = "running"]
    /\ number' = [number EXCEPT ![conn] = session_counter]
    /\ ppc' = "count"
    /\ UNCHANGED <<active_sessions, session_counter, conn, backlog, cstate,
                   valid, unborn>>

\* fork() returns -1, which is not 0: the parent goes on as after a success.
ForkFails ==
    /\ ppc = "fork"
    /\ unborn' = unborn + 1
    /\ ppc' = "count"
    /\ UNCHANGED <<active_sessions, session_counter, conn, backlog, cstate,
                   valid, child, number>>

\* Faulty: the session is not counted.
CountNone ==
    /\ ppc = "count"
    /\ cstate' = [cstate EXCEPT ![conn] = "admitted"]
    /\ ppc' = "reap"
    /\ UNCHANGED <<active_sessions, session_counter, conn, backlog, valid,
                   child, number, unborn>>

\* active_sessions++ and 'K' to the client.
Count ==
    /\ ppc = "count"
    /\ active_sessions' = active_sessions + 1
    /\ cstate' = [cstate EXCEPT ![conn] = "admitted"]
    /\ ppc' = "reap"
    /\ UNCHANGED <<session_counter, conn, backlog, valid, child, number,
                   unborn>>

-----------------------------------------------------------------------------
(* The children                                                            *)

\* The child has streamed the file, or failed at any point of it; it may be
\* over before the parent has counted it.
Exit(c) ==
    /\ child[c] = "running"
    /\ child' = [child EXCEPT ![c] = "zombie"]
    /\ UNCHANGED <<ppc, active_sessions, session_counter, conn, backlog,
                   cstate, valid, number, unborn>>

-----------------------------------------------------------------------------

Parent == Reap \/ ReapDone \/ Accept \/ Refuse \/ NumberSession \/ Fork
            \/ ForkFails \/ Count

Next ==
    \/ Parent
    \/ \E c \in Clients, ok \in BOOLEAN : Connect(c, ok)
    \/ \E c \in Clients : Exit(c)

Spec == Init /\ [][Next]_vars

\* The kernel runs the parent; a session may last for ever.
FairSpec == Spec /\ WF_vars(Parent)

-----------------------------------------------------------------------------
(* Properties                                                              *)

\* Every variable has the values the C declarations and the control flow allow:
\* the count of active sessions never falls below zero.
TypeOK ==
    /\ ppc \in {"reap", "accept", "decide", "fork", "count"}
    /\ active_sessions \in Nat
    /\ session_counter \in Nat
    /\ conn \in Clients \cup {NoClient}
    /\ backlog \in Seq(Clients)
    /\ cstate \in [Clients -> {"idle", "waiting", "refused", "admitted"}]
    /\ valid \in [Clients -> BOOLEAN]
    /\ child \in [Clients -> {"none", "running", "zombie", "reaped"}]
    /\ number \in [Clients -> Nat]
    /\ unborn \in Nat

\* "Up to 2 concurrent streaming sessions": never more children run than
\* that, whenever they end and whenever the parent comes to reap them.
AtMostMaxSessions == Cardinality(Sessions("running")) <= MAX_SESSIONS

\* active_sessions is the number of children not reaped, plus one for every
\* fork that failed, which no waitpid() will ever take off again; between the
\* fork and the increment it is one short.
CountMatchesChildren ==
    active_sessions + (IF ppc = "count" THEN 1 ELSE 0) =
      Cardinality(Sessions("running") \cup Sessions("zombie")) + unborn

\* No two sessions write the same log file ("each session prepends its
\* session number"), also after failed forks and reaped sessions.
LogsDistinct ==
    \A c, d \in Clients :
      child[c] # "none" /\ child[d] # "none" /\ number[c] = number[d] => c = d

\* Every musac that connects is told 'K' or 'q', however long sessions last.
Answered ==
    \A c \in Clients :
      (cstate[c] = "waiting") ~> (cstate[c] \in {"refused", "admitted"})
=============================================================================
