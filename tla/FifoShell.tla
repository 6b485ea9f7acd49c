------------------------------ MODULE FifoShell ------------------------------
(***************************************************************************)
(* The shell over two FIFOs: the server mysh4 (v4/mysh_v4.c), the client   *)
(* mycl (v4/mycl.c) and the person who types at it, quits it, kills it and *)
(* starts it again.                                                        *)
(*                                                                         *)
(* The client writes a line to FIFO A in two writes and then opens FIFO B  *)
(* for the answer; the server runs a command at a time in a child process, *)
(* which opens FIFO B for its output.  Nothing in either FIFO tells one    *)
(* command, or one answer, from another.  Commands are known by the number *)
(* of the line they were typed as, and so are the bytes of their output.   *)
(***************************************************************************)
EXTENDS Naturals, Sequences

CONSTANTS
    LEN,        \* the client's buffer: it shows LEN - 1 bytes of an answer
    NL, Q,      \* what is in FIFO A besides lines: a newline, "q\0"
    MaxLines,   \* bound: lines typed
    MaxOut,     \* bound: bytes a command writes
    MaxKills,   \* bound: how often the client is killed
    MaxStarts   \* bound: how often it is started again

ASSUME LenAssumption == LEN \in Nat \ {0, 1}
ASSUME BoundsAssumption ==
    /\ MaxLines \in Nat \ {0}
    /\ MaxOut \in Nat
    /\ MaxKills \in Nat
    /\ MaxStarts \in Nat

Lines == 1 .. MaxLines

ASSUME TokenAssumption == NL \notin Lines /\ Q \notin Lines /\ NL # Q

VARIABLES
    \* the client
    kpc,       \* "open", "prompt", "newline", "answer", "read" or "exited"
    line,      \* the number of the last line typed
    output,    \* what has been read of the answer
    \* the server and its child
    spc,       \* "open", "read", "wait" or "exited"
    command,   \* the pieces read of the command, kept while it runs
    child,     \* "none", "open" or "run"
    \* the FIFOs
    fifoA, fifoB,
    \* history
    ran,       \* the lines that were run
    out,       \* how many bytes the command of each line has written
    failed,    \* a line without a command was typed, or a fork() failed
    kills, starts,
    cuts       \* answers of which the client threw the rest away

cliVars == <<kpc, line, output>>
srvVars == <<spc, command>>
countVars == <<kills, starts, cuts>>
vars == <<cliVars, srvVars, child, fifoA, fifoB, ran, out, failed, countVars>>

\* The FIFOs exist, from an earlier run or because the server was first.
Init ==
    /\ kpc = "open" /\ line = 0 /\ output = <<>>
    /\ spc = "open" /\ command = <<>> /\ child = "none"
    /\ fifoA = <<>> /\ fifoB = <<>>
    /\ ran = {}
    /\ out = [n \in Lines |-> 0]
    /\ failed = FALSE
    /\ kills = 0 /\ starts = 0 /\ cuts = 0

-----------------------------------------------------------------------------
(* The ends of the FIFOs                                                   *)

WritesA == kpc \notin {"open", "exited"}
ReadsA == spc \in {"read", "wait"}

\* What a FIFO holds is lost when its last end is closed.
KeptB(writing, reading, bytes) == IF writing \/ reading THEN bytes ELSE <<>>

-----------------------------------------------------------------------------
(* mycl                                                                    *)

\* open() of FIFO A returns when the server has opened it too.
OpenA ==
    /\ kpc = "open"
    /\ spc # "exited"
    /\ kpc' = "prompt"
    /\ spc' = IF spc = "open" THEN "read" ELSE spc
    /\ UNCHANGED <<line, output, command, child, fifoA, fifoB, ran, out,
                   failed, countVars>>

\* A write to FIFO A without a reader kills the client (SIGPIPE).
BrokenPipe ==
    /\ kpc \in {"prompt", "newline"}
    /\ ~ReadsA
    /\ kpc' = "exited"
    /\ UNCHANGED <<line, output, srvVars, child, fifoA, fifoB, ran, out,
                   failed, countVars>>

\* The first of the two writes of a line.
TypeCommand ==
    /\ kpc = "prompt" /\ ReadsA
    /\ line < MaxLines
    /\ line' = line + 1
    /\ fifoA' = Append(fifoA, line + 1)
    /\ kpc' = "newline"
    /\ UNCHANGED <<output, srvVars, child, fifoB, ran, out, failed, countVars>>

\* A line of spaces: nothing is left to write before the newline.
TypeSpaces ==
    /\ kpc = "prompt" /\ ReadsA
    /\ line < MaxLines
    /\ line' = line + 1
    /\ failed' = TRUE
    /\ kpc' = "newline"
    /\ UNCHANGED <<output, srvVars, child, fifoA, fifoB, ran, out, countVars>>

\* A line that begins with a q.
TypeQuit ==
    /\ kpc = "prompt" /\ ReadsA
    /\ fifoA' = Append(fifoA, Q)
    /\ kpc' = "exited"
    /\ UNCHANGED <<line, output, srvVars, child, fifoB, ran, out, failed,
                   countVars>>

WriteNewline ==
    /\ kpc = "newline" /\ ReadsA
    /\ fifoA' = Append(fifoA, NL)
    /\ kpc' = "answer"
    /\ UNCHANGED <<line, output, srvVars, child, fifoB, ran, out, failed,
                   countVars>>

\* Faulty: num_bytes is not reset.
OpenBOn ==
    /\ kpc = "answer"
    /\ child # "none"
    /\ kpc' = "read"
    /\ child' = "run"
    /\ UNCHANGED <<line, output, srvVars, fifoA, fifoB, ran, out, failed,
                   countVars>>

\* open() of FIFO B returns when a child opens it too, or has it open still.
OpenB ==
    /\ kpc = "answer"
    /\ child # "none"
    /\ kpc' = "read"
    /\ output' = <<>>
    /\ child' = "run"
    /\ UNCHANGED <<line, srvVars, fifoA, fifoB, ran, out, failed, countVars>>

\* The reads: the one that finds the buffer full is thrown away, and the
\* client closes FIFO B with the command still writing.
ReadOutput ==
    /\ kpc = "read"
    /\ fifoB # <<>>
    /\ Len(output) < LEN - 1
    /\ output' = Append(output, Head(fifoB))
    /\ fifoB' = Tail(fifoB)
    /\ UNCHANGED <<kpc, line, srvVars, child, fifoA, ran, out, failed,
                   countVars>>

OutputFull ==
    /\ kpc = "read"
    /\ fifoB # <<>>
    /\ Len(output) >= LEN - 1
    /\ kpc' = "prompt"
    /\ fifoB' = KeptB(child = "run", FALSE, Tail(fifoB))
    /\ cuts' = cuts + 1
    /\ UNCHANGED <<line, output, srvVars, child, fifoA, ran, out, failed, kills,
                   starts>>

\* End of file: nothing to read and nobody to write it.
OutputEnds ==
    /\ kpc = "read"
    /\ fifoB = <<>>
    /\ child # "run"
    /\ kpc' = "prompt"
    /\ UNCHANGED <<line, output, srvVars, child, fifoA, fifoB, ran, out,
                   failed, countVars>>

\* The client is killed at any point; Ctrl-C and Ctrl-\ it handles.
Killed ==
    /\ kpc # "exited"
    /\ kills < MaxKills
    /\ kills' = kills + 1
    /\ kpc' = "exited"
    /\ fifoB' = KeptB(child = "run", FALSE, fifoB)
    /\ UNCHANGED <<line, output, srvVars, child, fifoA, ran, out, failed,
                   starts, cuts>>

Start ==
    /\ kpc = "exited"
    /\ starts < MaxStarts
    /\ starts' = starts + 1
    /\ kpc' = "open"
    /\ UNCHANGED <<line, output, srvVars, child, fifoA, fifoB, ran, out,
                   failed, kills, cuts>>

-----------------------------------------------------------------------------
(* mysh4                                                                   *)

ReadPiece ==
    /\ spc = "read"
    /\ fifoA # <<>>
    /\ Head(fifoA) # NL
    /\ command' = Append(command, Head(fifoA))
    /\ fifoA' = Tail(fifoA)
    /\ UNCHANGED <<cliVars, spc, child, fifoB, ran, out, failed, countVars>>

\* Faulty: only the end of file ends a command.
CommandReadAtEof ==
    /\ spc = "read"
    /\ fifoA = <<>> /\ ~WritesA
    /\ UNCHANGED fifoA

\* The reads of a command end at a newline or at the end of file.
CommandRead ==
    /\ spc = "read"
    /\ \/ /\ fifoA # <<>> /\ Head(fifoA) = NL
          /\ fifoA' = Tail(fifoA)
       \/ /\ fifoA = <<>> /\ ~WritesA
          /\ UNCHANGED fifoA

\* An empty line is passed over.
ReadNothing ==
    /\ CommandRead
    /\ command = <<>>
    /\ UNCHANGED <<cliVars, srvVars, child, fifoB, ran, out, failed, countVars>>

\* strcmp() sees the \0 that came with the q, whatever was read after it.
ReadQuit ==
    /\ CommandRead
    /\ command # <<>> /\ Head(command) = Q
    /\ spc' = "exited"
    /\ UNCHANGED <<cliVars, command, child, fifoB, ran, out, failed, countVars>>

\* A command is known by its first piece: a client killed between its two
\* writes leaves a line to which the next client's line may be added.
IsCommand == CommandRead /\ command # <<>> /\ Head(command) # Q

Fork ==
    /\ IsCommand
    /\ child' = "open"
    /\ spc' = "wait"
    /\ ran' = ran \cup {Head(command)}
    /\ UNCHANGED <<cliVars, command, fifoB, out, failed, countVars>>

\* fork() returns -1 and waitpid(-1) at once, there being no child.
ForkFails ==
    /\ IsCommand
    /\ command' = <<>>
    /\ failed' = TRUE
    /\ UNCHANGED <<cliVars, spc, child, fifoB, ran, out, countVars>>

\* Faulty: num_bytes is not set to 0 for the next command.
ReapOn ==
    /\ spc = "wait"
    /\ child = "none"
    /\ spc' = "read"
    /\ UNCHANGED <<cliVars, command, child, fifoA, fifoB, ran, out, failed,
                   countVars>>

\* waitpid() returns; num_bytes = 0.
Reap ==
    /\ spc = "wait"
    /\ child = "none"
    /\ spc' = "read"
    /\ command' = <<>>
    /\ UNCHANGED <<cliVars, child, fifoA, fifoB, ran, out, failed, countVars>>

\* The child's open() of FIFO B meets a client that is already reading, from
\* an earlier child.
ChildOpens ==
    /\ child = "open"
    /\ kpc = "read"
    /\ child' = "run"
    /\ UNCHANGED <<cliVars, srvVars, fifoA, fifoB, ran, out, failed, countVars>>

\* A byte of output; without a reader the write kills the command (SIGPIPE).
ChildWrites ==
    /\ child = "run"
    /\ out[Head(command)] < MaxOut
    /\ out' = [out EXCEPT ![Head(command)] = @ + 1]
    /\ child' = IF kpc = "read" THEN "run" ELSE "none"
    /\ fifoB' = IF kpc = "read" THEN Append(fifoB, Head(command)) ELSE <<>>
    /\ UNCHANGED <<cliVars, srvVars, fifoA, ran, failed, countVars>>

\* The command ends, or there was no such program.
ChildEnds ==
    /\ child = "run"
    /\ child' = "none"
    /\ fifoB' = KeptB(FALSE, kpc = "read", fifoB)
    /\ UNCHANGED <<cliVars, srvVars, fifoA, ran, out, failed, countVars>>

-----------------------------------------------------------------------------

Client == OpenA \/ BrokenPipe \/ WriteNewline \/ OpenB \/ ReadOutput
            \/ OutputFull \/ OutputEnds

Person == TypeCommand \/ TypeSpaces \/ TypeQuit \/ Killed \/ Start

Server == ReadPiece \/ ReadNothing \/ ReadQuit \/ Fork \/ ForkFails \/ Reap

Child == ChildOpens \/ ChildWrites \/ ChildEnds

Next == Client \/ Person \/ Server \/ Child

Spec == Init /\ [][Next]_vars

\* The kernel runs the client and the server, and commands end.  Nothing is
\* assumed of the person.
FairSpec ==
    /\ Spec
    /\ WF_vars(Client)
    /\ WF_vars(Server)
    /\ WF_vars(ChildOpens \/ ChildEnds)

-----------------------------------------------------------------------------
(* Properties                                                              *)

Pieces == Lines \cup {NL, Q}

TypeOK ==
    /\ kpc \in {"open", "prompt", "newline", "answer", "read", "exited"}
    /\ line \in 0 .. MaxLines
    /\ output \in Seq(Lines)
    /\ spc \in {"open", "read", "wait", "exited"}
    /\ command \in Seq(Lines \cup {Q})
    /\ child \in {"none", "open", "run"}
    /\ fifoA \in Seq(Pieces)
    /\ fifoB \in Seq(Lines)
    /\ ran \subseteq Lines
    /\ out \in [Lines -> 0 .. MaxOut]
    /\ failed \in BOOLEAN
    /\ kills \in 0 .. MaxKills
    /\ starts \in 0 .. MaxStarts
    /\ cuts \in Nat

\* While the client has not been killed and has cut no answer short, what it is
\* reading is the whole output of the line it sent last, although nothing in
\* FIFO B says so.
OwnAnswer ==
    kills = 0 /\ cuts = 0 /\ kpc = "read" =>
      /\ line \in ran
      /\ output \o fifoB = [i \in 1 .. out[line] |-> line]

\* Every killed client, and every answer cut short, leaves the answers at most
\* one line further behind the lines they are shown for; an output that is long
\* enough is cut by one line after the other.
AnswersLag ==
    kpc = "read" =>
      \A i \in DOMAIN (output \o fifoB) :
        line <= (output \o fifoB)[i] + kills + cuts

\* The promise of ShellService: however the client is killed and started
\* again, a line is run at most once and alone.
Running == IF child # "none" THEN {Head(command)} ELSE {}

Service == INSTANCE ShellService WITH
    Requests <- Lines, asked <- 1 .. line, ran <- ran, running <- Running

ServiceSpec == Service!Spec

\* A client that waits for an answer gets one, unless the server has exited or
\* a line had no command or none that could be forked.
Answered ==
    kpc \in {"answer", "read"}
      ~> kpc \notin {"answer", "read"} \/ spc = "exited" \/ failed
=============================================================================
