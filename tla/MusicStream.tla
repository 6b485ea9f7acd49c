----------------------------- MODULE MusicStream -----------------------------
(***************************************************************************)
(* One session of the audio streaming service: the musas child             *)
(* (music_playing_server/musas.c) that sends the file chunk by chunk, the  *)
(* musac client (musac.c) that buffers and plays it, and the network.      *)
(*                                                                         *)
(* Chunks go to the client over UDP, new send intervals (ilambda) come     *)
(* back over UDP and are read by the child's SIGPOLL handler, and the TCP  *)
(* connection tells the client of the end of the file.  The arithmetic of  *)
(* the control law is left out: an interval is known by the playback it    *)
(* was computed after.                                                     *)
(***************************************************************************)
EXTENDS Integers, Sequences, FiniteSets

CONSTANTS
    BUFSIZE,     \* bytes of a chunk and of a playback (4096)
    bufsize,     \* bytes of the client's circular buffer
    targetbf,    \* bytes buffered before playback begins
    LOG_LEN,     \* entries of the child's log
    MaxSize      \* bound: bytes of the audio file

ASSUME BlockAssumption == BUFSIZE \in Nat \ {0}
\* musac exits when its arguments say otherwise.
ASSUME BufferAssumption ==
    /\ bufsize \in Nat \ {0} /\ bufsize % BUFSIZE = 0
    /\ targetbf \in 0 .. bufsize /\ targetbf % BUFSIZE = 0
ASSUME LogAssumption == LOG_LEN \in Nat \ {0}
ASSUME SizeAssumption == MaxSize \in Nat

Initial == 0               \* the send interval on musas's command line
Zero == -1                 \* interval 0.0, from a recvfrom() that read nothing
Cells == 0 .. (bufsize - 1)
Bytes == 1 .. MaxSize
Garbage == 0               \* what malloc() left in a cell

VARIABLES
    size,             \* bytes of the file
    \* the child of musas
    spc,              \* "open", "send", "note", "sec", "nsec", "asleep",
                      \* "reset", "print", "done" or "failed"
    sent,             \* bytes read from the file and sent
    ilambda_log,      \* entry 0 is the current interval
    entries,          \* num_entries of the child
    tv_sec, tv_nsec,  \* the interval each half of `sleep' was taken from
    pending,          \* SIGPOLL is pending
    sbuf,             \* intervals in its socket buffer
    logged,           \* first line of the log file
    \* musac
    cpc,              \* "select", "recv", "play", "closed" or "failed"
    is_streaming, started, ready,
    audio_buffer, curr_ptr, playback_ptr, Q,
    due,              \* igamma has passed since last_playback
    playbacks,        \* intervals computed and sent
    \* the network
    tcp,              \* unread on the TCP connection: "", "Q" or "eof"
    flight,           \* chunks in flight, known by their first byte
    rcvq,             \* chunks in the client's socket buffer
    rates,            \* intervals in flight
    \* history
    played,           \* bytes given to the audio device, without padding
    padded            \* a block with padding was given to the audio device

sleepVars == <<tv_sec, tv_nsec>>
childVars == <<spc, sent, ilambda_log, entries, logged, sleepVars>>
signalVars == <<pending, sbuf>>
bufferVars == <<audio_buffer, curr_ptr, playback_ptr, Q>>
clientVars == <<cpc, is_streaming, started, ready, bufferVars, due, playbacks>>
netVars == <<tcp, flight, rcvq, rates>>
histVars == <<played, padded>>
vars == <<size, childVars, signalVars, clientVars, netVars, histVars>>

InitServer ==
    /\ size \in 0 .. MaxSize
    /\ spc = "open" /\ sent = 0 /\ entries = 0 /\ logged = Initial
    /\ ilambda_log = [e \in 0 .. (LOG_LEN - 1) |-> Initial]
    /\ tv_sec = Initial /\ tv_nsec = Initial
    /\ pending = FALSE /\ sbuf = <<>>

InitClient ==
    /\ cpc = "select" /\ is_streaming = TRUE /\ started = FALSE /\ ready = FALSE
    /\ audio_buffer = [b \in Cells |-> Garbage]
    /\ curr_ptr = 0 /\ playback_ptr = 0 /\ Q = 0
    /\ due = FALSE /\ playbacks = 0

InitNetwork ==
    /\ tcp = "" /\ flight = {} /\ rcvq = <<>> /\ rates = {}
    /\ played = <<>> /\ padded = FALSE

Init == InitServer /\ InitClient /\ InitNetwork

-----------------------------------------------------------------------------
(* The child: reads a chunk, sends it, logs the interval, sleeps           *)

Lesser(m, n) == IF m < n THEN m ELSE n

\* The bytes of the chunk that starts after byte n of the file.
Chunk(n) == [k \in 1 .. Lesser(BUFSIZE, size - n) |-> n + k]

\* The file name is well formed, but there may be no such file.
Open ==
    /\ spc = "open"
    /\ \/ spc' = "send" /\ UNCHANGED tcp
       \/ spc' = "failed" /\ tcp' = "eof"
    /\ UNCHANGED <<size, sent, ilambda_log, entries, logged, sleepVars,
                   signalVars, clientVars, flight, rcvq, rates, histVars>>

Send ==
    /\ spc = "send"
    /\ sent < size
    /\ flight' = flight \cup {sent}
    /\ sent' = sent + Len(Chunk(sent))
    /\ spc' = "note"
    /\ UNCHANGED <<size, ilambda_log, entries, logged, sleepVars, signalVars,
                   clientVars, tcp, rcvq, rates, histVars>>

\* Faulty: one entry past the end.
LogHasRoomPast == entries < LOG_LEN

LogHasRoom == entries < LOG_LEN - 1

\* The interval in force is logged, up to the last entry of the log.
Note ==
    /\ spc = "note"
    /\ \/ /\ LogHasRoom
          /\ entries' = entries + 1
          /\ ilambda_log' = [ilambda_log EXCEPT ![entries + 1] = ilambda_log[0]]
       \/ ~LogHasRoom /\ UNCHANGED <<entries, ilambda_log>>
    /\ spc' = "sec"
    /\ UNCHANGED <<size, sent, logged, sleepVars, signalVars, clientVars,
                   netVars, histVars>>

\* The seconds of the interval, then its nanoseconds: two reads of entry 0,
\* which the signal handler may change in between.
ReadSec ==
    /\ spc = "sec"
    /\ tv_sec' = ilambda_log[0]
    /\ spc' = "nsec"
    /\ UNCHANGED <<size, sent, ilambda_log, entries, logged, tv_nsec,
                   signalVars, clientVars, netVars, histVars>>

ReadNsec ==
    /\ spc = "nsec"
    /\ tv_nsec' = ilambda_log[0]
    /\ spc' = "asleep"
    /\ UNCHANGED <<size, sent, ilambda_log, entries, logged, tv_sec,
                   signalVars, clientVars, netVars, histVars>>

\* nanosleep() returns, after the interval or because a signal cut it short;
\* `sleep' is a variable of the loop's body and gone.
Wake ==
    /\ spc = "asleep"
    /\ spc' = "send"
    /\ tv_sec' = Initial /\ tv_nsec' = Initial
    /\ UNCHANGED <<size, sent, ilambda_log, entries, logged, signalVars,
                   clientVars, netVars, histVars>>

\* fread() returns 0: 'Q' is written and the TCP connection closed.
EndOfFile ==
    /\ spc = "send"
    /\ sent = size
    /\ tcp' = "Q"
    /\ spc' = "reset"
    /\ UNCHANGED <<size, sent, ilambda_log, entries, logged, sleepVars,
                   signalVars, clientVars, flight, rcvq, rates, histVars>>

\* Entry 0 gets the initial interval back before the log is written.
ResetLog ==
    /\ spc = "reset"
    /\ ilambda_log' = [ilambda_log EXCEPT ![0] = Initial]
    /\ spc' = "print"
    /\ UNCHANGED <<size, sent, entries, logged, sleepVars, signalVars,
                   clientVars, netVars, histVars>>

\* The log is written; then the UDP socket is closed and the child exits.
PrintLog ==
    /\ spc = "print"
    /\ logged' = ilambda_log[0]
    /\ spc' = "done"
    /\ UNCHANGED <<size, sent, ilambda_log, entries, sleepVars, signalVars,
                   clientVars, netVars, histVars>>

HasSocket == spc \notin {"open", "done", "failed"}

\* Faulty: two packets are read at each signal, the first one for nothing.
HandlerSkips ==
    /\ pending
    /\ HasSocket
    /\ pending' = FALSE
    /\ ilambda_log' = [ilambda_log EXCEPT ![0] =
                         IF Len(sbuf) > 1 THEN sbuf[2] ELSE Zero]
    /\ sbuf' = IF Len(sbuf) > 1 THEN Tail(Tail(sbuf)) ELSE <<>>
    /\ UNCHANGED <<size, spc, sent, entries, logged, sleepVars, clientVars,
                   netVars, histVars>>

\* rcvpacket(), between two steps of the child: one recvfrom() that does not
\* block, into a variable that was set to 0.0.
Handler ==
    /\ pending
    /\ HasSocket
    /\ pending' = FALSE
    /\ ilambda_log' = [ilambda_log EXCEPT ![0] =
                         IF sbuf # <<>> THEN Head(sbuf) ELSE Zero]
    /\ sbuf' = IF sbuf # <<>> THEN Tail(sbuf) ELSE sbuf
    /\ UNCHANGED <<size, spc, sent, entries, logged, sleepVars, clientVars,
                   netVars, histVars>>

Child == Open \/ Send \/ Note \/ ReadSec \/ ReadNsec \/ Wake \/ EndOfFile
           \/ ResetLog \/ PrintLog \/ Handler

-----------------------------------------------------------------------------
(* musac: the select() loop                                                *)

\* select() returns, for a readable socket or at its timer, and the TCP
\* connection is read as long as the stream goes on.
Select ==
    /\ cpc = "select"
    /\ is_streaming \/ Q > 0
    /\ \/ /\ is_streaming /\ tcp = "Q"
          /\ is_streaming' = FALSE
          /\ cpc' = "recv"
          /\ tcp' = "eof"
       \/ /\ is_streaming /\ tcp = "eof"
          /\ cpc' = "failed"
          /\ UNCHANGED <<is_streaming, tcp>>
       \/ /\ ~(is_streaming /\ tcp # "")
          /\ cpc' = "recv"
          /\ UNCHANGED <<is_streaming, tcp>>
    /\ ready' = (rcvq # <<>>)
    /\ UNCHANGED <<size, childVars, signalVars, started, bufferVars, due,
                   playbacks, flight, rcvq, rates, histVars>>

Memcpy(mem, at, bytes) ==
    [b \in DOMAIN mem |-> IF b \in at .. (at + Len(bytes) - 1)
                          THEN bytes[b - at + 1] ELSE mem[b]]

\* Faulty: the part past the end of the buffer is not stored at its start.
StoredUnwrapped(chunk) == Memcpy(audio_buffer, curr_ptr, chunk)

\* A chunk is stored from curr_ptr on, in two parts when it passes the end.
Stored(chunk) ==
    LET room == bufsize - curr_ptr IN
      IF Len(chunk) + curr_ptr <= bufsize
      THEN Memcpy(audio_buffer, curr_ptr, chunk)
      ELSE Memcpy(Memcpy(audio_buffer, curr_ptr, SubSeq(chunk, 1, room)),
                  0, SubSeq(chunk, room + 1, Len(chunk)))

Fits(chunk) == Q + Len(chunk) <= bufsize

\* The UDP socket was readable: the chunk is kept if there is room for it.
Recv ==
    /\ cpc = "recv"
    /\ \/ /\ ready
          /\ LET chunk == Chunk(Head(rcvq)) IN
               \/ /\ Fits(chunk)
                  /\ audio_buffer' = Stored(chunk)
                  /\ curr_ptr' = (curr_ptr + Len(chunk)) % bufsize
                  /\ Q' = Q + Len(chunk)
               \/ ~Fits(chunk) /\ UNCHANGED <<audio_buffer, curr_ptr, Q>>
          /\ rcvq' = Tail(rcvq)
       \/ ~ready /\ UNCHANGED <<rcvq, audio_buffer, curr_ptr, Q>>
    /\ started' = (started \/ Q' >= targetbf)
    /\ cpc' = "play"
    /\ UNCHANGED <<size, childVars, signalVars, is_streaming, ready,
                   playback_ptr, due, playbacks, tcp, flight, rates, histVars>>

\* n bytes of the circular buffer from cell `at' on.
Contents(at, n) ==
    LET room == bufsize - at IN
      [k \in 1 .. n |-> IF at + n <= bufsize \/ k <= room
                        THEN audio_buffer[at + k - 1]
                        ELSE audio_buffer[k - room - 1]]

\* Faulty: the bytes left at the end wait for a full block.
MayPlayFull == started /\ due /\ Q >= BUFSIZE

MayPlay == started /\ due /\ (IF is_streaming THEN Q >= BUFSIZE ELSE Q > 0)

\* A full block, or the bytes that are left and padding; then the new interval
\* goes to the server.
Play ==
    /\ cpc = "play"
    /\ \/ /\ MayPlay
          /\ LET n == Lesser(Q, BUFSIZE) IN
               /\ played' = played \o Contents(playback_ptr, n)
               /\ padded' = (padded \/ n < BUFSIZE)
               /\ playback_ptr' = (playback_ptr + n) % bufsize
               /\ Q' = Q - n
          /\ due' = FALSE
          /\ playbacks' = playbacks + 1
          /\ rates' = rates \cup {playbacks + 1}
       \/ /\ ~MayPlay
          /\ UNCHANGED <<played, padded, playback_ptr, Q, due, playbacks,
                         rates>>
    /\ cpc' = "select"
    /\ UNCHANGED <<size, childVars, signalVars, is_streaming, started, ready,
                   audio_buffer, curr_ptr, tcp, flight, rcvq>>

Quit ==
    /\ cpc = "select"
    /\ ~is_streaming /\ Q = 0
    /\ cpc' = "closed"
    /\ UNCHANGED <<size, childVars, signalVars, is_streaming, started, ready,
                   bufferVars, due, playbacks, netVars, histVars>>

Client == Select \/ Recv \/ Play \/ Quit

-----------------------------------------------------------------------------
(* Time and the network, which loses and reorders                          *)

Elapse ==
    /\ ~due
    /\ due' = TRUE
    /\ UNCHANGED <<size, childVars, signalVars, cpc, is_streaming, started,
                   ready, bufferVars, playbacks, netVars, histVars>>

ChunkArrives(n) ==
    /\ n \in flight
    /\ flight' = flight \ {n}
    /\ rcvq' = IF cpc \in {"closed", "failed"} THEN rcvq ELSE Append(rcvq, n)
    /\ UNCHANGED <<size, childVars, signalVars, clientVars, tcp, rates,
                   histVars>>

\* An interval reaches the child's socket, which raises SIGPOLL.
RateArrives(r) ==
    /\ r \in rates
    /\ HasSocket
    /\ rates' = rates \ {r}
    /\ sbuf' = Append(sbuf, r)
    /\ pending' = TRUE
    /\ UNCHANGED <<size, childVars, clientVars, tcp, flight, rcvq, histVars>>

Lose ==
    /\ \/ \E n \in flight : flight' = flight \ {n} /\ UNCHANGED rates
       \/ \E r \in rates : rates' = rates \ {r} /\ UNCHANGED flight
    /\ UNCHANGED <<size, childVars, signalVars, clientVars, tcp, rcvq,
                   histVars>>

Network ==
    \/ \E n \in flight : ChunkArrives(n)
    \/ \E r \in rates : RateArrives(r)
    \/ Lose

-----------------------------------------------------------------------------

Next == Child \/ Client \/ Elapse \/ Network

Spec == Init /\ [][Next]_vars

\* Both processes are scheduled and time passes; the network need deliver
\* nothing over UDP.
FairSpec == Spec /\ WF_vars(Child) /\ WF_vars(Client) /\ WF_vars(Elapse)

-----------------------------------------------------------------------------
(* Properties                                                              *)

Intervals == Nat

\* Every variable has the values the C declarations and the control flow allow:
\* both pointers stay in the buffer, Q within its size, the log within its end.
TypeOK ==
    /\ size \in 0 .. MaxSize
    /\ spc \in {"open", "send", "note", "sec", "nsec", "asleep", "reset",
                "print", "done", "failed"}
    /\ sent \in 0 .. size
    /\ ilambda_log \in [0 .. (LOG_LEN - 1) -> Intervals \cup {Zero}]
    /\ entries \in 0 .. (LOG_LEN - 1)
    /\ {tv_sec, tv_nsec} \subseteq Intervals \cup {Zero}
    /\ pending \in BOOLEAN
    /\ sbuf \in Seq(Intervals)
    /\ logged \in Intervals \cup {Zero}
    /\ cpc \in {"select", "recv", "play", "closed", "failed"}
    /\ is_streaming \in BOOLEAN /\ started \in BOOLEAN /\ ready \in BOOLEAN
    /\ audio_buffer \in [Cells -> Bytes \cup {Garbage}]
    /\ curr_ptr \in Cells /\ playback_ptr \in Cells /\ Q \in 0 .. bufsize
    /\ due \in BOOLEAN /\ playbacks \in Nat
    /\ tcp \in {"", "Q", "eof"}
    /\ flight \subseteq 0 .. MaxSize /\ rcvq \in Seq(0 .. MaxSize)
    /\ rates \subseteq Intervals
    /\ played \in Seq(Bytes \cup {Garbage})
    /\ padded \in BOOLEAN

\* The circular buffer is the first-in first-out queue of PlaybackQueue, with
\* short chunks that arrive out of turn and chunks that pass its end: what is
\* played is what was kept, in that order, each byte once, never what malloc()
\* or an earlier lap left; and nothing follows a padded block.
Queue == INSTANCE PlaybackQueue WITH
    Block <- BUFSIZE,
    Capacity <- bufsize,
    Chunks <- {[k \in 1 .. l |-> n + k] : l \in 1 .. BUFSIZE, n \in 0 .. MaxSize},
    queue <- Contents(playback_ptr, Q),
    over <- ~is_streaming,
    finished <- padded

QueueSpec == Queue!Spec

\* Each SIGPOLL finds an interval to read, although signals are merged: what
\* the child paces by, and each half of what it sleeps by, is of an interval
\* that was sent (or the first one).  The two halves need not be of the same.
RateIsSent ==
    \A i \in {ilambda_log[0], tv_sec, tv_nsec} : i # Zero /\ i <= playbacks

\* Once playback has begun the client ends, after the last byte or when the
\* child is gone.
EndsOnceStarted == started ~> (cpc \in {"closed", "failed"})
=============================================================================
