-------------------------- MODULE FifoShell_proofs --------------------------
(***************************************************************************)
(* Theorems about the shell over FIFOs, for any number of lines, any       *)
(* output, and any number of times the client is killed and started.       *)
(***************************************************************************)
EXTENDS FifoShell, SequenceTheorems, TLAPS

\* A child exists only while the server waits for it, for a line it has run.
ChildOK ==
    /\ child # "none" => spc = "wait"
    /\ spc = "wait" => command # <<>> /\ Head(command) \in ran
    /\ \A n \in Lines : n \notin ran => out[n] = 0

\* A line that has not been run yet is unread or part of the command being
\* read, once, and was typed.
LinesOK ==
    /\ \A n \in ran : n <= line
    /\ \A i \in DOMAIN fifoA : fifoA[i] \in Lines =>
         /\ fifoA[i] <= line /\ fifoA[i] \notin ran
         /\ spc # "wait" => \A j \in DOMAIN command : command[j] # fifoA[i]
         /\ \A j \in DOMAIN fifoA : fifoA[j] = fifoA[i] => j = i
    /\ spc # "wait" =>
         \A j \in DOMAIN command : command[j] \in Lines =>
           command[j] <= line /\ command[j] \notin ran

ShellInv == TypeOK /\ ChildOK /\ LinesOK

-----------------------------------------------------------------------------

LEMMA InitShell == Init => ShellInv
<1> SUFFICES ASSUME Init PROVE ShellInv
  OBVIOUS
<1>1. <<>> \in Seq(Lines) /\ <<>> \in Seq(Lines \cup {Q}) /\ <<>> \in Seq(Pieces)
  OBVIOUS
<1>2. out \in [Lines -> 0 .. MaxOut] /\ line \in 0 .. MaxLines
        /\ kills \in 0 .. MaxKills /\ starts \in 0 .. MaxStarts /\ cuts \in Nat
  BY BoundsAssumption DEF Init
<1>t. TypeOK
  BY <1>1, <1>2 DEF Init, TypeOK
<1>3. ChildOK /\ LinesOK
  BY DEF Init, ChildOK, LinesOK
<1>4. QED
  BY <1>t, <1>3 DEF ShellInv

-----------------------------------------------------------------------------
(* Type correctness                                                        *)

\* The client's steps and the person's.
LEMMA ClientTypes == ShellInv /\ (Client \/ Person) => TypeOK'
<1> SUFFICES ASSUME ShellInv, Client \/ Person PROVE TypeOK'
  OBVIOUS
<1> USE BoundsAssumption DEF ShellInv, TypeOK, cliVars, srvVars, countVars
<1>1. CASE OpenA \/ BrokenPipe \/ OutputEnds \/ Start
  <2>1. CASE OpenA
    BY <2>1 DEF OpenA
  <2>2. CASE BrokenPipe \/ OutputEnds
    BY <2>2 DEF BrokenPipe, OutputEnds
  <2>3. CASE Start
    <3>1. starts' \in 0 .. MaxStarts
      BY <2>3 DEF Start
    <3> QED
      BY <2>3, <3>1 DEF Start
  <2> QED
    BY <1>1, <2>1, <2>2, <2>3
<1>2. CASE TypeCommand \/ TypeSpaces
  <2>1. line + 1 \in Lines /\ line' = line + 1 /\ line' \in 0 .. MaxLines
    BY <1>2 DEF TypeCommand, TypeSpaces, Lines
  <2>2. Append(fifoA, line + 1) \in Seq(Pieces)
    BY <2>1, AppendProperties DEF Pieces
  <2> QED
    BY <1>2, <2>1, <2>2 DEF TypeCommand, TypeSpaces
<1>3. CASE TypeQuit \/ WriteNewline
  <2>1. Append(fifoA, Q) \in Seq(Pieces) /\ Append(fifoA, NL) \in Seq(Pieces)
    BY AppendProperties DEF Pieces
  <2> QED
    BY <1>3, <2>1 DEF TypeQuit, WriteNewline
<1>4. CASE OpenB
  <2>1. <<>> \in Seq(Lines)
    OBVIOUS
  <2> QED
    BY <1>4, <2>1 DEF OpenB
<1>5. CASE ReadOutput
  <2>1. Head(fifoB) \in Lines /\ Tail(fifoB) \in Seq(Lines)
    BY <1>5, HeadTailProperties DEF ReadOutput
  <2>2. Append(output, Head(fifoB)) \in Seq(Lines)
    BY <2>1, AppendProperties
  <2> QED
    BY <1>5, <2>1, <2>2 DEF ReadOutput
<1>6. CASE OutputFull
  <2>1. Tail(fifoB) \in Seq(Lines) /\ <<>> \in Seq(Lines)
    BY <1>6, HeadTailProperties DEF OutputFull
  <2> QED
    BY <1>6, <2>1 DEF OutputFull, KeptB
<1>7. CASE Killed
  <2>1. <<>> \in Seq(Lines)
    OBVIOUS
  <2> QED
    BY <1>7, <2>1 DEF Killed, KeptB
<1>8. QED
  BY <1>1, <1>2, <1>3, <1>4, <1>5, <1>6, <1>7 DEF Client, Person

\* The server's steps and its child's.
LEMMA ServerTypes == ShellInv /\ (Server \/ Child) => TypeOK'
<1> SUFFICES ASSUME ShellInv, Server \/ Child PROVE TypeOK'
  OBVIOUS
<1> USE BoundsAssumption DEF ShellInv, TypeOK, cliVars, srvVars, countVars
<1>0. <<>> \in Seq(Lines) /\ <<>> \in Seq(Lines \cup {Q})
  OBVIOUS
<1>1. CASE ReadPiece
  <2>1. Head(fifoA) \in Lines \cup {Q} /\ Tail(fifoA) \in Seq(Pieces)
    BY <1>1, HeadTailProperties DEF ReadPiece, Pieces
  <2>2. Append(command, Head(fifoA)) \in Seq(Lines \cup {Q})
    BY <2>1, AppendProperties
  <2> QED
    BY <1>1, <2>1, <2>2 DEF ReadPiece
<1>2. ASSUME CommandRead PROVE fifoA' \in Seq(Pieces)
  BY <1>2, HeadTailProperties DEF CommandRead
<1>3. CASE ReadNothing \/ ReadQuit
  BY <1>2, <1>3 DEF ReadNothing, ReadQuit
<1>4. CASE Fork \/ ForkFails
  <2>1. CommandRead /\ Head(command) \in Lines
    BY <1>4, HeadTailProperties DEF Fork, ForkFails, IsCommand
  <2> QED
    BY <1>0, <1>2, <1>4, <2>1 DEF Fork, ForkFails
<1>5. CASE Reap
  BY <1>0, <1>5 DEF Reap
<1>6. CASE ChildOpens
  BY <1>6 DEF ChildOpens
<1>7. CASE ChildWrites
  <2>1. Head(command) \in Lines
    BY <1>7 DEF ChildWrites, ChildOK
  <2>2. Append(fifoB, Head(command)) \in Seq(Lines)
    BY <2>1, AppendProperties
  <2>3. out' \in [Lines -> 0 .. MaxOut]
    BY <1>7, <2>1 DEF ChildWrites
  <2> QED
    BY <1>0, <1>7, <2>2, <2>3 DEF ChildWrites
<1>8. CASE ChildEnds
  BY <1>0, <1>8 DEF ChildEnds, KeptB
<1>9. QED
  BY <1>1, <1>3, <1>4, <1>5, <1>6, <1>7, <1>8 DEF Server, Child

-----------------------------------------------------------------------------
(* The child and the lines                                                 *)

\* The child's steps change neither FIFO A nor the server.
LEMMA ChildStep ==
    ASSUME ShellInv, Child \/ OpenB
    PROVE  ChildOK' /\ LinesOK'
<1> USE DEF ShellInv, TypeOK
<1>1. UNCHANGED <<spc, command, fifoA, ran, line>> /\ child # "none"
  BY DEF Child, ChildOpens, ChildWrites, ChildEnds, OpenB, cliVars, srvVars
<1>2. LinesOK'
  BY <1>1 DEF LinesOK
<1>3. \/ out' = out
      \/ Head(command) \in ran
           /\ out' = [out EXCEPT ![Head(command)] = out[Head(command)] + 1]
  BY DEF Child, ChildOpens, ChildWrites, ChildEnds, OpenB, ChildOK
<1>4. ChildOK'
  BY <1>1, <1>3 DEF ChildOK
<1>5. QED
  BY <1>2, <1>4

\* The client only appends to FIFO A, and a line only when it is typed.
LEMMA ClientStep ==
    ASSUME ShellInv, (Client /\ ~OpenB) \/ Person
    PROVE  ChildOK' /\ LinesOK'
<1>1. UNCHANGED <<command, child, ran, out>>
  BY DEF Client, Person, OpenA, BrokenPipe, TypeCommand, TypeSpaces, TypeQuit,
         WriteNewline, ReadOutput, OutputFull, OutputEnds, Killed, Start, srvVars
<1>2. spc' = "wait" <=> spc = "wait"
  BY DEF Client, Person, OpenA, BrokenPipe, TypeCommand, TypeSpaces, TypeQuit,
         WriteNewline, ReadOutput, OutputFull, OutputEnds, Killed, Start, srvVars
<1>3. ChildOK'
  BY <1>1, <1>2 DEF ShellInv, ChildOK
<1>4. /\ ran \subseteq Lines /\ line \in Nat /\ Lines \subseteq Nat
      /\ fifoA \in Seq(Pieces) /\ LinesOK
  BY DEF ShellInv, TypeOK, Lines
<1>5. ASSUME fifoA' = fifoA, line' \in Nat, line <= line' PROVE LinesOK'
  <2>1. \A n \in Lines : n <= line => n <= line'
    BY <1>4, <1>5
  <2> QED
    BY <1>1, <1>2, <1>4, <1>5, <2>1 DEF LinesOK
<1>6. ASSUME NEW p \in Pieces, fifoA' = Append(fifoA, p),
             \/ p \notin Lines /\ line' = line
             \/ p = line + 1 /\ line' = line + 1
      PROVE  LinesOK'
  <2>1. /\ DOMAIN fifoA = 1 .. Len(fifoA) /\ Len(fifoA) \in Nat
        /\ DOMAIN fifoA' = 1 .. (Len(fifoA) + 1)
        /\ \A i \in 1 .. Len(fifoA) : fifoA'[i] = fifoA[i]
        /\ fifoA'[Len(fifoA) + 1] = p
    BY <1>4, <1>6, AppendProperties
  <2>2. line' \in Nat /\ line <= line' /\ (p \in Lines => p = line' /\ p > line)
    BY <1>4, <1>6
  <2>3. \A n \in ran' : n <= line'
    BY <1>1, <1>4, <2>2 DEF LinesOK
  <2>4. ASSUME NEW i \in DOMAIN fifoA', fifoA'[i] \in Lines
        PROVE  /\ fifoA'[i] <= line' /\ fifoA'[i] \notin ran
               /\ spc # "wait" => \A j \in DOMAIN command : command[j] # fifoA'[i]
               /\ \A j \in DOMAIN fifoA' : fifoA'[j] = fifoA'[i] => j = i
    <3>1. CASE i \in 1 .. Len(fifoA)
      <4>1. fifoA'[i] = fifoA[i] /\ fifoA[i] \in Lines /\ fifoA[i] <= line
        BY <1>4, <2>1, <2>4, <3>1 DEF LinesOK
      <4>2. fifoA[i] # p
        BY <1>4, <2>2, <4>1
      <4>3. /\ fifoA[i] \notin ran
            /\ spc # "wait" => \A j \in DOMAIN command : command[j] # fifoA[i]
        BY <1>4, <2>1, <3>1, <4>1 DEF LinesOK
      <4>6. fifoA[i] \in Nat /\ line \in Nat /\ line' \in Nat
        BY <1>4, <2>2, <4>1
      <4>5. fifoA[i] <= line'
        BY <2>2, <4>1, <4>6
      <4>4. \A j \in 1 .. Len(fifoA) : fifoA[j] = fifoA[i] => j = i
        BY <1>4, <2>1, <3>1, <4>1 DEF LinesOK
      <4> QED
        BY <2>1, <3>1, <4>1, <4>2, <4>3, <4>4, <4>5
    <3>2. CASE i = Len(fifoA) + 1
      <4>1. fifoA'[i] = p /\ p = line' /\ p \in Nat /\ p > line /\ p \in Lines
        BY <2>1, <2>2, <2>4, <3>2
      <4>5. ~(p <= line)
        BY <1>4, <4>1
      <4>2. \A j \in 1 .. Len(fifoA) : fifoA[j] # p
        BY <1>4, <2>1, <4>1, <4>5 DEF LinesOK
      <4>3. spc # "wait" => \A j \in DOMAIN command : command[j] # p
        BY <1>4, <4>1, <4>5 DEF LinesOK
      <4>4. p \notin ran
        BY <1>4, <4>1, <4>5 DEF LinesOK
      <4> QED
        BY <2>1, <2>2, <3>2, <4>1, <4>2, <4>3, <4>4
    <3> QED
      BY <2>1, <3>1, <3>2
  <2>5. spc' # "wait" =>
         \A j \in DOMAIN command : command[j] \in Lines =>
           command[j] <= line' /\ command[j] \notin ran
    <3>1. \A n \in Lines : n <= line => n <= line'
      BY <1>4, <2>2
    <3> QED
      BY <1>2, <1>4, <3>1 DEF LinesOK
  <2> QED
    BY <1>1, <1>2, <2>3, <2>4, <2>5 DEF LinesOK
<1>7. CASE TypeCommand
  <2>1. line + 1 \in Lines
    BY <1>4, <1>7, BoundsAssumption DEF TypeCommand, Lines
  <2> QED
    BY <1>3, <1>6, <1>7, <2>1 DEF TypeCommand, Pieces
<1>8. CASE TypeQuit \/ WriteNewline
  BY <1>3, <1>6, <1>8, TokenAssumption DEF TypeQuit, WriteNewline, Pieces
<1>9. CASE ~(TypeCommand \/ TypeQuit \/ WriteNewline)
  <2>1. fifoA' = fifoA /\ (line' = line \/ line' = line + 1)
    BY <1>9 DEF Client, Person, OpenA, BrokenPipe, TypeSpaces, ReadOutput,
       OutputFull, OutputEnds, Killed, Start, cliVars
  <2> QED
    BY <1>3, <1>4, <1>5, <2>1
<1>10. QED
  BY <1>7, <1>8, <1>9

\* What the server reads goes from FIFO A to the command, and a command to ran.
LEMMA ServerStep ==
    ASSUME ShellInv, Server
    PROVE  ChildOK' /\ LinesOK'
<1>1. UNCHANGED <<line, child, out>> \/ Fork
  BY DEF Server, ReadPiece, ReadNothing, ReadQuit, ForkFails, Reap, cliVars
<1>2. /\ ran \subseteq Lines /\ line \in Nat /\ LinesOK /\ ChildOK
      /\ fifoA \in Seq(Pieces) /\ command \in Seq(Lines \cup {Q})
  BY DEF ShellInv, TypeOK, Lines
<1>3. ASSUME fifoA # <<>>
      PROVE  /\ Head(fifoA) = fifoA[1] /\ 1 \in DOMAIN fifoA
             /\ \A i \in DOMAIN Tail(fifoA) :
                  /\ i + 1 \in DOMAIN fifoA /\ i + 1 # 1
                  /\ Tail(fifoA)[i] = fifoA[i + 1]
             /\ \A i, j \in DOMAIN Tail(fifoA) : i + 1 = j + 1 => i = j
  BY <1>2, <1>3
<1>4. CASE ReadPiece
  <2>1. /\ fifoA # <<>> /\ fifoA' = Tail(fifoA) /\ spc = "read"
        /\ command' = Append(command, fifoA[1])
        /\ UNCHANGED <<spc, child, ran, out, line>>
    BY <1>3, <1>4 DEF ReadPiece, cliVars
  <2>2. \A j \in DOMAIN command' : \/ command'[j] = fifoA[1]
                                   \/ j \in DOMAIN command /\ command'[j] = command[j]
    BY <1>2, <2>1
  <2>3. \A i \in DOMAIN fifoA' :
          /\ i + 1 \in DOMAIN fifoA /\ i + 1 # 1 /\ fifoA'[i] = fifoA[i + 1]
          /\ \A j \in DOMAIN fifoA' : j + 1 = i + 1 => j = i
    BY <1>3, <2>1
  <2>4. ASSUME NEW i \in DOMAIN fifoA', fifoA'[i] \in Lines
        PROVE  /\ fifoA'[i] <= line /\ fifoA'[i] \notin ran
               /\ \A j \in DOMAIN command' : command'[j] # fifoA'[i]
               /\ \A j \in DOMAIN fifoA' : fifoA'[j] = fifoA'[i] => j = i
    <3>1. /\ fifoA[i + 1] <= line /\ fifoA[i + 1] \notin ran
          /\ \A j \in DOMAIN command : command[j] # fifoA[i + 1]
          /\ \A j \in DOMAIN fifoA : fifoA[j] = fifoA[i + 1] => j = i + 1
      BY <1>2, <2>1, <2>3, <2>4 DEF LinesOK
    <3>2. fifoA[1] # fifoA[i + 1]
      BY <1>3, <2>1, <2>3, <3>1
    <3> QED
      BY <2>2, <2>3, <3>1, <3>2
  <2>5. ASSUME NEW j \in DOMAIN command', command'[j] \in Lines
        PROVE  command'[j] <= line /\ command'[j] \notin ran
    BY <1>2, <1>3, <2>1, <2>2, <2>5 DEF LinesOK
  <2> QED
    BY <1>2, <2>1, <2>4, <2>5 DEF LinesOK, ChildOK
<1>5. ASSUME CommandRead, UNCHANGED <<line, ran>>,
             \A j \in DOMAIN command' :
               j \in DOMAIN command /\ command'[j] = command[j],
             spc = "read", spc' # "wait"
      PROVE  LinesOK'
  <2>1. \A i \in DOMAIN fifoA' : \E k \in DOMAIN fifoA :
          /\ fifoA'[i] = fifoA[k]
          /\ \A j \in DOMAIN fifoA' :
               fifoA'[j] = fifoA[k] /\ j # i
                 => \E l \in DOMAIN fifoA : fifoA[l] = fifoA[k] /\ l # k
    <3>1. CASE fifoA' = fifoA
      BY <3>1
    <3>2. CASE fifoA # <<>> /\ fifoA' = Tail(fifoA)
      BY <1>3, <3>2
    <3> QED
      BY <1>5, <3>1, <3>2 DEF CommandRead
  <2>2. ASSUME NEW i \in DOMAIN fifoA', fifoA'[i] \in Lines
        PROVE  /\ fifoA'[i] <= line /\ fifoA'[i] \notin ran
               /\ \A j \in DOMAIN command' : command'[j] # fifoA'[i]
               /\ \A j \in DOMAIN fifoA' : fifoA'[j] = fifoA'[i] => j = i
    BY <1>2, <1>5, <2>1, <2>2 DEF LinesOK
  <2> QED
    BY <1>2, <1>5, <2>2 DEF LinesOK
<1>6. CASE ReadNothing \/ ReadQuit \/ ForkFails
  <2>1. /\ CommandRead /\ UNCHANGED <<line, ran, child, out>>
        /\ spc = "read" /\ spc' # "wait"
        /\ command' = command \/ command' = <<>>
    BY <1>6 DEF ReadNothing, ReadQuit, ForkFails, IsCommand, CommandRead,
                cliVars, srvVars
  <2>2. LinesOK'
    BY <1>5, <2>1
  <2> QED
    BY <1>2, <2>1, <2>2 DEF ChildOK
<1>7. CASE Fork
  <2>1. /\ CommandRead /\ UNCHANGED <<line, command, out>> /\ spc = "read"
        /\ spc' = "wait" /\ ran' = ran \cup {Head(command)}
        /\ command # <<>> /\ Head(command) # Q
    BY <1>7 DEF Fork, IsCommand, CommandRead, cliVars
  <2>2. 1 \in DOMAIN command /\ Head(command) = command[1] /\ command[1] \in Lines
    BY <1>2, <2>1
  <2>3. command[1] <= line
    BY <1>2, <2>1, <2>2 DEF LinesOK
  <2>4. \A i \in DOMAIN fifoA' : \E k \in DOMAIN fifoA :
          /\ fifoA'[i] = fifoA[k]
          /\ \A j \in DOMAIN fifoA' :
               fifoA'[j] = fifoA[k] /\ j # i
                 => \E l \in DOMAIN fifoA : fifoA[l] = fifoA[k] /\ l # k
    <3>1. CASE fifoA' = fifoA
      BY <3>1
    <3>2. CASE fifoA # <<>> /\ fifoA' = Tail(fifoA)
      BY <1>3, <3>2
    <3> QED
      BY <2>1, <3>1, <3>2 DEF CommandRead
  <2>5. ASSUME NEW i \in DOMAIN fifoA', fifoA'[i] \in Lines
        PROVE  /\ fifoA'[i] <= line /\ fifoA'[i] \notin ran'
               /\ \A j \in DOMAIN fifoA' : fifoA'[j] = fifoA'[i] => j = i
    BY <1>2, <2>1, <2>2, <2>4, <2>5 DEF LinesOK
  <2>6. LinesOK'
    BY <1>2, <2>1, <2>2, <2>3, <2>5 DEF LinesOK
  <2>7. ChildOK'
    BY <1>2, <1>7, <2>1 DEF ChildOK, Fork
  <2> QED
    BY <2>6, <2>7
<1>8. CASE Reap
  <2>1. /\ spc' = "read" /\ child = "none" /\ command' = <<>>
        /\ UNCHANGED <<line, child, ran, out, fifoA>>
    BY <1>8 DEF Reap, cliVars
  <2> QED
    BY <1>2, <2>1 DEF ChildOK, LinesOK
<1>9. QED
  BY <1>4, <1>6, <1>7, <1>8 DEF Server

\* Every step keeps the invariant.
LEMMA NextShell == ShellInv /\ [Next]_vars => ShellInv'
<1> SUFFICES ASSUME ShellInv, [Next]_vars PROVE ShellInv'
  OBVIOUS
<1>1. CASE UNCHANGED vars
  BY <1>1 DEF vars, cliVars, srvVars, countVars, ShellInv, TypeOK, ChildOK, LinesOK
<1>2. CASE Next
  <2>1. TypeOK'
    BY <1>2, ClientTypes, ServerTypes DEF Next
  <2>2. ChildOK' /\ LinesOK'
    BY <1>2, ChildStep, ClientStep, ServerStep DEF Next
  <2> QED
    BY <2>1, <2>2 DEF ShellInv
<1>3. QED
  BY <1>1, <1>2

\* ShellInv holds throughout.
THEOREM ShellCorrect == Spec => []ShellInv
BY InitShell, NextShell, PTL DEF Spec

\* Type correctness of the client, the server, its child and both FIFOs.
THEOREM ShellTypes == Spec => []TypeOK
BY ShellCorrect, PTL DEF ShellInv

-----------------------------------------------------------------------------
(* The shell implements ShellService                                       *)

\* A typed line is one more request.
LEMMA AskStep ==
    ASSUME ShellInv, TypeCommand \/ TypeSpaces
    PROVE  Service!Next
<1>1. line' = line + 1 /\ line \in Nat /\ line < MaxLines
        /\ UNCHANGED <<ran, child, command>>
  BY DEF ShellInv, TypeOK, TypeCommand, TypeSpaces, srvVars
<1>2. /\ line + 1 \in Lines /\ line + 1 \notin 1 .. line
      /\ 1 .. (line + 1) = (1 .. line) \cup {line + 1}
  BY <1>1, BoundsAssumption DEF Lines
<1>3. Running' = Running
  BY <1>1 DEF Running
<1>4. Service!Ask(line + 1)
  BY <1>1, <1>2, <1>3 DEF Service!Ask
<1>5. QED
  BY <1>2, <1>4 DEF Service!Next

\* A fork runs a line that was typed and not run before, with none running.
LEMMA RunStep ==
    ASSUME ShellInv, Fork
    PROVE  Service!Next
<1>1. /\ spc = "read" /\ command # <<>> /\ Head(command) # Q
      /\ child' = "open" /\ ran' = ran \cup {Head(command)}
      /\ UNCHANGED <<command, line>>
  BY DEF Fork, IsCommand, CommandRead, cliVars
<1>2. 1 \in DOMAIN command /\ Head(command) = command[1] /\ command[1] \in Lines
  BY <1>1 DEF ShellInv, TypeOK
<1>3. command[1] <= line /\ command[1] \notin ran
  BY <1>1, <1>2 DEF ShellInv, LinesOK
<1>4. command[1] \in 1 .. line
  BY <1>2, <1>3 DEF ShellInv, TypeOK, Lines
<1>5. Running = {} /\ Running' = {command[1]}
  BY <1>1, <1>2 DEF ShellInv, ChildOK, Running
<1>6. Service!Run(command[1])
  BY <1>1, <1>2, <1>3, <1>4, <1>5 DEF Service!Run
<1>7. QED
  BY <1>2, <1>6 DEF Service!Next

\* When the child goes, the only command running ends.
LEMMA EndStep ==
    ASSUME ShellInv, Child \/ OpenB
    PROVE  Service!Next \/ UNCHANGED Service!vars
<1>1. child # "none" /\ UNCHANGED <<ran, command, line>>
  BY DEF Child, ChildOpens, ChildWrites, ChildEnds, OpenB, cliVars, srvVars
<1>2. CASE child' = "none"
  <2>1. Running # {} /\ Running' = {}
    BY <1>1, <1>2 DEF Running
  <2>2. Service!End
    BY <1>1, <2>1 DEF Service!End
  <2> QED
    BY <2>2 DEF Service!Next
<1>3. CASE child' # "none"
  BY <1>1, <1>3 DEF Running, Service!vars
<1>4. QED
  BY <1>2, <1>3

\* Nothing else starts or ends a command, or asks for one; the command being
\* read changes only while none runs.
LEMMA OtherStep ==
    ASSUME ShellInv,
           \/ Client /\ ~OpenB
           \/ TypeQuit \/ Killed \/ Start
           \/ Server /\ ~Fork
           \/ UNCHANGED vars
    PROVE  UNCHANGED Service!vars
<1>1. UNCHANGED <<ran, child, line>>
  BY DEF Client, OpenA, BrokenPipe, TypeQuit, WriteNewline, ReadOutput,
         OutputFull, OutputEnds, Killed, Start, Server, ReadPiece, ReadNothing,
         ReadQuit, ForkFails, Reap, vars, cliVars, srvVars
<1>2. command' = command \/ child = "none"
  BY DEF Client, OpenA, BrokenPipe, TypeQuit, WriteNewline, ReadOutput,
         OutputFull, OutputEnds, Killed, Start, Server, ReadPiece, ReadNothing,
         ReadQuit, ForkFails, IsCommand, CommandRead, Reap, vars, srvVars,
         ShellInv, ChildOK
<1>3. Running' = Running
  BY <1>1, <1>2 DEF Running
<1>4. QED
  BY <1>1, <1>3 DEF Service!vars

\* Every step of the shell is a step or a stutter of ShellService: a line is
\* run at most once, after it was typed and while no other runs, however the
\* client is killed between its writes and started again.
THEOREM ImplementsShell == Spec => ServiceSpec
<1>1. Init => Service!Init
  BY DEF Init, Service!Init, Running
<1>2. ShellInv /\ [Next]_vars => [Service!Next]_(Service!vars)
  BY AskStep, RunStep, EndStep, OtherStep DEF Next, Client, Person, Server
<1>3. QED
  BY <1>1, <1>2, ShellCorrect, PTL DEF Spec, ServiceSpec, Service!Spec

-----------------------------------------------------------------------------
(* The answer that is shown is the answer to the line sent last            *)

\* A q is on its way to the server, or has stopped it: nothing will run.
Doomed ==
    /\ child = "none" /\ kpc # "read"
    /\ \/ spc = "exited"
       \/ spc = "read" /\ command # <<>> /\ Head(command) = Q
       \/ /\ fifoA # <<>> /\ Head(fifoA) = Q
          /\ spc = "wait" \/ (spc = "read" /\ command = <<>>)

\* The server has read c of what the client sent, a is still in FIFO A, and no
\* command runs.
Unread(c, a) ==
    /\ child = "none" /\ fifoB = <<>> /\ fifoA = a
    /\ IF spc = "wait" THEN c = <<>> ELSE command = c
    /\ spc \in {"wait", "read"} \/ (spc = "open" /\ kpc = "open")

\* The command of the last line waits for the client to open FIFO B.
Forked ==
    /\ spc = "wait" /\ child = "open" /\ command = <<line>>
    /\ fifoA = <<>> /\ fifoB = <<>>
    /\ line \in ran /\ out[line] = 0

\* What was read and what is left to read is the output of the last line.
Reading ==
    /\ fifoA = <<>>
    /\ line \in ran
    /\ output \o fifoB = [i \in 1 .. out[line] |-> line]
    /\ \/ child = "run" /\ spc = "wait" /\ command = <<line>>
       \/ child = "none" /\ spc = "wait"
       \/ child = "none" /\ spc = "read" /\ command = <<>>

\* Client and server go through one line together.
InStep ==
    /\ kpc # "exited"
    /\ kpc \in {"open", "prompt"} => Unread(<<>>, <<>>)
    /\ kpc \in {"newline", "answer", "read"} => line \in Lines
    /\ kpc = "newline" => \/ Unread(<<>>, <<line>>)
                          \/ Unread(<<line>>, <<>>)
                          \/ Unread(<<>>, <<>>)
    /\ kpc = "answer" => \/ Unread(<<>>, <<line, NL>>)
                         \/ Unread(<<line>>, <<NL>>)
                         \/ Unread(<<>>, <<NL>>)
                         \/ Unread(<<>>, <<>>)
                         \/ Forked
    /\ kpc = "read" => Reading

Calm == kills = 0 /\ cuts = 0

CalmInv == ShellInv /\ (Calm => Doomed \/ InStep)

\* Kills and cuts are counted and never forgotten.
LEMMA CalmBefore ==
    ASSUME ShellInv, [Next]_vars, Calm'
    PROVE  Calm
<1>1. kills' = kills \/ kills' = kills + 1
  BY DEF Next, Client, Person, Server, Child, OpenA, BrokenPipe, TypeCommand,
     TypeSpaces, TypeQuit, WriteNewline, OpenB, ReadOutput, OutputFull,
     OutputEnds, Killed, Start, ReadPiece, ReadNothing, ReadQuit, Fork,
     ForkFails, Reap, ChildOpens, ChildWrites, ChildEnds, vars, countVars
<1>2. cuts' = cuts \/ cuts' = cuts + 1
  BY DEF Next, Client, Person, Server, Child, OpenA, BrokenPipe, TypeCommand,
     TypeSpaces, TypeQuit, WriteNewline, OpenB, ReadOutput, OutputFull,
     OutputEnds, Killed, Start, ReadPiece, ReadNothing, ReadQuit, Fork,
     ForkFails, Reap, ChildOpens, ChildWrites, ChildEnds, vars, countVars
<1>3. kills \in Nat /\ cuts \in Nat
  BY BoundsAssumption DEF ShellInv, TypeOK
<1>4. QED
  BY <1>1, <1>2, <1>3 DEF Calm

\* Sequences, at one end.
LEMMA HeadOfAppend ==
    ASSUME NEW S, NEW s \in Seq(S), NEW p \in S
    PROVE  /\ s # <<>> => Append(s, p) # <<>> /\ Head(Append(s, p)) = Head(s)
           /\ s = <<>> => Append(s, p) # <<>> /\ Head(Append(s, p)) = p
BY AppendProperties

LEMMA AppendToOne ==
    ASSUME NEW x, NEW y
    PROVE  Append(<<x>>, y) = <<x, y>> /\ Append(<<>>, y) = <<y>>
<1>1. /\ <<x>> \in Seq({x, y}) /\ <<>> \in Seq({x, y})
      /\ <<x, y>> \in Seq({x, y}) /\ <<y>> \in Seq({x, y})
      /\ Len(<<x>>) = 1 /\ Len(<<>>) = 0 /\ Len(<<x, y>>) = 2 /\ Len(<<y>>) = 1
  OBVIOUS
<1>2. /\ Append(<<x>>, y) \in Seq({x, y}) /\ Len(Append(<<x>>, y)) = 2
      /\ Append(<<x>>, y)[1] = x /\ Append(<<x>>, y)[2] = y
      /\ Append(<<>>, y) \in Seq({x, y}) /\ Len(Append(<<>>, y)) = 1
      /\ Append(<<>>, y)[1] = y
  BY <1>1, AppendProperties
<1>3. Append(<<x>>, y) = <<x, y>>
  <2>1. <<x, y>>[1] = x /\ <<x, y>>[2] = y
    OBVIOUS
  <2>2. \A i \in 1 .. Len(Append(<<x>>, y)) : Append(<<x>>, y)[i] = <<x, y>>[i]
    BY <1>2, <2>1
  <2> QED
    BY <1>1, <1>2, <2>2, SeqEqual
<1>4. Append(<<>>, y) = <<y>>
  BY <1>1, <1>2, SeqEqual
<1>5. QED
  BY <1>3, <1>4

LEMMA HeadMoves ==
    ASSUME NEW S, NEW s \in Seq(S), NEW t \in Seq(S), t # <<>>
    PROVE  Append(s, Head(t)) \o Tail(t) = s \o t
<1>1. Head(t) = t[1] /\ Head(t) \in S /\ Tail(t) \in Seq(S) /\ Len(t) \in Nat \ {0}
        /\ Len(Tail(t)) = Len(t) - 1
        /\ \A i \in 1 .. Len(Tail(t)) : Tail(t)[i] = t[i + 1]
  BY HeadTailProperties
<1>2. /\ Append(s, Head(t)) \in Seq(S) /\ Len(Append(s, Head(t))) = Len(s) + 1
      /\ \A i \in 1 .. Len(s) : Append(s, Head(t))[i] = s[i]
      /\ Append(s, Head(t))[Len(s) + 1] = t[1]
      /\ Len(s) \in Nat
  BY <1>1, AppendProperties
<1>3. /\ Append(s, Head(t)) \o Tail(t) \in Seq(S) /\ s \o t \in Seq(S)
      /\ Len(Append(s, Head(t)) \o Tail(t)) = Len(s \o t)
      /\ \A i \in 1 .. Len(s \o t) :
           (Append(s, Head(t)) \o Tail(t))[i] = (s \o t)[i]
  BY <1>1, <1>2
<1>4. QED
  BY <1>3, SeqEqual

LEMMA AppendMoves ==
    ASSUME NEW S, NEW s \in Seq(S), NEW t \in Seq(S), NEW p \in S
    PROVE  s \o Append(t, p) = Append(s \o t, p)
<1>1. /\ s \o Append(t, p) \in Seq(S) /\ Append(s \o t, p) \in Seq(S)
      /\ Len(s \o Append(t, p)) = Len(Append(s \o t, p))
      /\ \A i \in 1 .. Len(s \o Append(t, p)) :
           (s \o Append(t, p))[i] = Append(s \o t, p)[i]
  OBVIOUS
<1>2. QED
  BY <1>1, SeqEqual

\* A q is followed by nothing but the end of the server.
LEMMA DoomedStays ==
    ASSUME ShellInv, [Next]_vars, Doomed
    PROVE  Doomed'
<1> USE DEF ShellInv, TypeOK, Doomed, cliVars, srvVars, countVars
<1>1. CASE OpenA \/ BrokenPipe \/ OutputEnds \/ Start \/ TypeSpaces \/ Killed
  BY <1>1 DEF OpenA, BrokenPipe, OutputEnds, Start, TypeSpaces, Killed
<1>2. CASE TypeCommand \/ TypeQuit \/ WriteNewline
  <2>1. PICK p \in Pieces : fifoA' = Append(fifoA, p)
    <3>1. TypeCommand => line + 1 \in Lines
      BY BoundsAssumption DEF TypeCommand, Lines
    <3> QED
      BY <1>2, <3>1 DEF TypeCommand, TypeQuit, WriteNewline, Pieces
  <2>3. UNCHANGED <<spc, command, child>> /\ kpc' # "read"
    BY <1>2 DEF TypeCommand, TypeQuit, WriteNewline
  <2>2. fifoA # <<>> => fifoA' # <<>> /\ Head(fifoA') = Head(fifoA)
    BY <2>1, HeadOfAppend
  <2> QED
    BY <2>2, <2>3
<1>3. CASE OpenB \/ ReadOutput \/ OutputFull \/ Child
  BY <1>3 DEF OpenB, ReadOutput, OutputFull, Child, ChildOpens, ChildWrites, ChildEnds
<1>4. CASE ReadPiece
  <2>3. Head(fifoA) \in Lines \cup {Q} /\ command' = Append(command, Head(fifoA))
    BY <1>4, HeadTailProperties DEF ReadPiece, Pieces
  <2>4. command \in Seq(Lines \cup {Q})
    OBVIOUS
  <2>1. command # <<>> => command' # <<>> /\ Head(command') = Head(command)
    BY ONLY <2>3, <2>4, HeadOfAppend
  <2>2. command = <<>> => command' # <<>> /\ Head(command') = Head(fifoA)
    BY ONLY <2>3, <2>4, HeadOfAppend
  <2> QED
    BY <1>4, <2>1, <2>2 DEF ReadPiece
<1>5. CASE ReadNothing \/ ReadQuit \/ Fork \/ ForkFails \/ Reap
  BY <1>5, TokenAssumption
     DEF ReadNothing, ReadQuit, Fork, ForkFails, IsCommand, CommandRead, Reap
<1>6. CASE UNCHANGED vars
  BY <1>6 DEF vars
<1>7. QED
  BY <1>1, <1>2, <1>3, <1>4, <1>5, <1>6 DEF Next, Client, Person, Server

\* The client's and the person's steps, from one phase to the next.
LEMMA InStepClient ==
    ASSUME ShellInv, Client \/ Person, InStep, Calm, Calm'
    PROVE  Doomed' \/ InStep'
<1> USE DEF ShellInv, TypeOK, cliVars, srvVars, countVars
<1>1. CASE OpenA
  BY <1>1 DEF OpenA, InStep, Unread
<1>2. CASE BrokenPipe
  BY <1>2 DEF BrokenPipe, InStep, Unread, ReadsA
<1>3. CASE TypeCommand
  BY <1>3, BoundsAssumption DEF TypeCommand, InStep, Unread, Lines
<1>4. CASE TypeSpaces
  BY <1>4, BoundsAssumption DEF TypeSpaces, InStep, Unread, Lines
<1>5. CASE TypeQuit
  BY <1>5 DEF TypeQuit, InStep, Unread, Doomed
<1>6. CASE WriteNewline
  <2>1. fifoA = <<line>> => Append(fifoA, NL) = <<line, NL>>
    BY AppendToOne
  <2>2. fifoA = <<>> => Append(fifoA, NL) = <<NL>>
    BY AppendToOne
  <2> QED
    BY <1>6, <2>1, <2>2 DEF WriteNewline, InStep, Unread
<1>7. CASE OpenB
  BY <1>7 DEF OpenB, InStep, Unread, Forked, Reading
<1>8. CASE ReadOutput
  <2>1. Append(output, Head(fifoB)) \o Tail(fifoB) = output \o fifoB
    BY <1>8, HeadMoves DEF ReadOutput
  <2> QED
    BY <1>8, <2>1 DEF ReadOutput, InStep, Reading
<1>9. CASE OutputFull
  BY <1>9 DEF OutputFull, Calm
<1>10. CASE OutputEnds
  BY <1>10 DEF OutputEnds, InStep, Reading, Unread
<1>11. CASE Killed
  BY <1>11 DEF Killed, Calm
<1>12. CASE Start
  BY <1>12 DEF Start, InStep
<1>13. QED
  BY <1>1, <1>2, <1>3, <1>4, <1>5, <1>6, <1>7, <1>8, <1>9, <1>10, <1>11, <1>12
     DEF Client, Person

\* The server's and the child's steps, within a phase.
LEMMA InStepServer ==
    ASSUME ShellInv, Server \/ Child, InStep
    PROVE  InStep'
<1> USE DEF ShellInv, TypeOK, cliVars, srvVars, countVars
<1>0. UNCHANGED <<kpc, line, output>>
  BY DEF Server, Child, ReadPiece, ReadNothing, ReadQuit, Fork, ForkFails, Reap,
     ChildOpens, ChildWrites, ChildEnds
<1>1. CASE ReadPiece
  <2>1. /\ spc = "read" /\ fifoA # <<>> /\ Head(fifoA) # NL
        /\ command' = Append(command, Head(fifoA)) /\ fifoA' = Tail(fifoA)
        /\ UNCHANGED <<spc, child, fifoB, ran, out>>
    BY <1>1 DEF ReadPiece
  <2>2. \/ kpc = "newline" /\ Unread(<<>>, <<line>>)
        \/ kpc = "answer" /\ Unread(<<>>, <<line, NL>>)
    <3>1. Head(<<NL>>) = NL
      OBVIOUS
    <3> QED
      BY <2>1, <3>1 DEF InStep, Unread, Forked, Reading
  <2>3. line \in Lines
    BY <2>2 DEF InStep
  <2>4. CASE kpc = "newline" /\ Unread(<<>>, <<line>>)
    <3>1. Head(fifoA) = line /\ Tail(fifoA) = <<>> /\ command' = <<line>>
      BY <2>1, <2>4, AppendToOne DEF Unread
    <3> QED
      BY <1>0, <2>1, <2>3, <2>4, <3>1 DEF InStep, Unread
  <2>5. CASE kpc = "answer" /\ Unread(<<>>, <<line, NL>>)
    <3>1. Head(fifoA) = line /\ Tail(fifoA) = <<NL>> /\ command' = <<line>>
      BY <2>1, <2>5, AppendToOne DEF Unread
    <3>2. Unread(<<line>>, <<NL>>)'
      BY <1>0, <2>1, <2>5, <3>1 DEF Unread
    <3> QED
      BY <1>0, <2>3, <2>5, <3>2 DEF InStep
  <2> QED
    BY <2>2, <2>4, <2>5
<1>2. CASE ReadNothing \/ ReadQuit \/ ForkFails
  <2>1. CASE ReadNothing
    BY <1>0, <2>1, TokenAssumption DEF ReadNothing, CommandRead, WritesA,
       InStep, Unread, Forked, Reading
  <2>2. CASE ReadQuit
    BY <1>0, <2>2, TokenAssumption DEF ReadQuit, CommandRead, WritesA,
       InStep, Unread, Forked, Reading
  <2>3. CASE ForkFails
    BY <1>0, <2>3, TokenAssumption DEF ForkFails, IsCommand, CommandRead,
       WritesA, InStep, Unread, Forked, Reading
  <2> QED
    BY <1>2, <2>1, <2>2, <2>3
<1>3. CASE Fork
  <2>1. kpc = "answer" /\ command = <<line>> /\ fifoA' = <<>> /\ fifoB = <<>>
          /\ line \in Lines /\ spc = "read"
    <3>1. /\ spc = "read" /\ command # <<>> /\ Head(command) # Q
          /\ \/ fifoA # <<>> /\ Head(fifoA) = NL /\ fifoA' = Tail(fifoA)
             \/ kpc \in {"open", "exited"}
          /\ UNCHANGED fifoB
      BY <1>3 DEF Fork, IsCommand, CommandRead, WritesA
    <3>2. kpc = "answer" /\ Unread(<<line>>, <<NL>>) /\ line \in Lines
      <4>1. Head(<<line>>) = line /\ Head(<<line, NL>>) = line
        OBVIOUS
      <4>2. kpc = "newline" => line # NL
        BY TokenAssumption DEF InStep
      <4> QED
        BY <3>1, <4>1, <4>2, TokenAssumption DEF InStep, Unread, Forked, Reading
    <3>3. Tail(<<NL>>) = <<>>
      OBVIOUS
    <3> QED
      BY <3>1, <3>2, <3>3 DEF Unread
  <2>2. line \notin ran /\ Head(command) = line
    BY <2>1 DEF LinesOK
  <2>3. out[line] = 0
    BY <2>1, <2>2 DEF ChildOK
  <2>4. Forked'
    BY <1>3, <2>1, <2>2, <2>3 DEF Fork, Forked
  <2> QED
    BY <1>0, <2>1, <2>4 DEF InStep
<1>4. CASE Reap
  BY <1>0, <1>4 DEF Reap, InStep, Unread, Forked, Reading
<1>5. CASE ChildOpens
  BY <1>0, <1>5 DEF ChildOpens, InStep, Unread, Forked, Reading
<1>6. CASE ChildWrites
  <2>0. child = "run" /\ kpc = "read" /\ Reading /\ line \in Lines
    BY <1>6 DEF ChildWrites, InStep, Unread, Forked
  <2>a. Head(command) = line
    BY <2>0 DEF Reading
  <2>1. /\ child' = "run" /\ fifoB' = Append(fifoB, line)
        /\ out' = [out EXCEPT ![line] = out[line] + 1]
        /\ UNCHANGED <<spc, command, fifoA, ran>>
    BY <1>6, <2>0, <2>a DEF ChildWrites
  <2>2. out[line] \in Nat /\ out'[line] = out[line] + 1
    BY <2>0, <2>1, BoundsAssumption
  <2>3. output \o Append(fifoB, line) = Append(output \o fifoB, line)
    BY <2>0, AppendMoves
  <2>4. Append([i \in 1 .. out[line] |-> line], line)
          = [i \in 1 .. (out[line] + 1) |-> line]
    BY <2>2
  <2>5. (output \o fifoB)' = [i \in 1 .. out'[line] |-> line]
    BY <1>0, <2>0, <2>1, <2>2, <2>3, <2>4 DEF Reading
  <2> QED
    BY <1>0, <2>0, <2>1, <2>5 DEF InStep, Reading
<1>7. CASE ChildEnds
  BY <1>0, <1>7 DEF ChildEnds, KeptB, InStep, Unread, Forked, Reading
<1>8. QED
  BY <1>1, <1>2, <1>3, <1>4, <1>5, <1>6, <1>7 DEF Server, Child

LEMMA NextCalm == CalmInv /\ [Next]_vars => CalmInv'
<1> SUFFICES ASSUME CalmInv, [Next]_vars, Calm' PROVE Doomed' \/ InStep'
  BY NextShell DEF CalmInv
<1>1. ShellInv /\ Calm /\ (Doomed \/ InStep)
  BY CalmBefore DEF CalmInv
<1>2. CASE Doomed
  BY <1>1, <1>2, DoomedStays
<1>3. CASE InStep /\ Next
  BY <1>1, <1>3, InStepClient, InStepServer DEF Next
<1>4. CASE InStep /\ UNCHANGED vars
  BY <1>4 DEF vars, cliVars, srvVars, countVars, InStep, Unread, Forked, Reading
<1>5. QED
  BY <1>1, <1>2, <1>3, <1>4

\* Until the client is killed or cuts an answer short, what it shows is the
\* output of the last line and all of it, although the answers in FIFO B carry
\* no mark and the client does not know what the server reads.
THEOREM AnswersCorrect == Spec => []OwnAnswer
<1>1. Init => CalmInv
  <2>1. Init => InStep
    BY DEF Init, InStep, Unread
  <2> QED
    BY <2>1, InitShell DEF CalmInv
<1>2. CalmInv => OwnAnswer
  BY DEF CalmInv, Calm, Doomed, InStep, Reading, OwnAnswer
<1>3. QED
  BY <1>1, <1>2, NextCalm, PTL DEF Spec
-----------------------------------------------------------------------------
(* How far the answers fall behind                                         *)

LinesIn(s) == {s[i] : i \in DOMAIN s} \cap Lines

\* The lines whose output the client may yet be shown: those that no client
\* has opened FIFO B for, and those that write, or wrote, into it.
Ahead == LinesIn(fifoA)
           \cup (IF spc = "read" THEN LinesIn(command) ELSE {})
           \cup (IF child = "open" THEN {Head(command)} ELSE {})

Served == LinesIn(fifoB) \cup (IF child = "run" THEN {Head(command)} ELSE {})

\* Lines come through FIFO A in the order they were typed in.
OrderOK ==
    /\ \A p \in LinesIn(command) : p <= line /\ \A q \in LinesIn(fifoA) : p < q
    /\ \A i, j \in DOMAIN fifoA :
         i < j /\ fifoA[i] \in Lines /\ fifoA[j] \in Lines => fifoA[i] < fifoA[j]

\* The server has nothing before a client opens FIFO A, and FIFO B holds
\* nothing between two answers.
EndsOK ==
    /\ spc = "open" => kpc \in {"open", "exited"} /\ command = <<>>
    /\ kpc # "read" /\ child # "run" => fifoB = <<>>

Late == kills + cuts

\* A line that is still to be answered is ahead of the last line but for the
\* kills and cuts: by one while a line is waited for, for the next line that
\* is typed may be shown the next answer.
LagOK ==
    /\ spc # "exited" =>
         /\ kpc \in {"open", "prompt", "exited"} =>
              \A p \in Ahead \cup Served : line < p + Late
         /\ kpc \in {"newline", "answer"} =>
              \A p \in Ahead \cup Served : line <= p + Late
         /\ kpc = "read" => \A p \in Ahead : line < p + Late
    /\ kpc = "read" => \A p \in Served \cup LinesIn(output) : line <= p + Late

LagInv == ShellInv /\ OrderOK /\ EndsOK /\ LagOK

\* What the sequence operators do to the lines in a sequence.
LEMMA LinesInSeq ==
    ASSUME NEW S, NEW s \in Seq(S), NEW p \in S
    PROVE  /\ LinesIn(<<>>) = {}
           /\ LinesIn(Append(s, p)) = LinesIn(s) \cup ({p} \cap Lines)
           /\ s # <<>> => /\ LinesIn(s) = LinesIn(Tail(s)) \cup ({Head(s)} \cap Lines)
                          /\ Head(s) \in S /\ Tail(s) \in Seq(S)
<1>1. LinesIn(<<>>) = {}
  BY DEF LinesIn
<1>2. LinesIn(Append(s, p)) = LinesIn(s) \cup ({p} \cap Lines)
  <2>1. /\ DOMAIN s = 1 .. Len(s) /\ Len(s) \in Nat
        /\ DOMAIN Append(s, p) = 1 .. (Len(s) + 1)
        /\ \A i \in 1 .. Len(s) : Append(s, p)[i] = s[i]
        /\ Append(s, p)[Len(s) + 1] = p
    BY AppendProperties
  <2> QED
    BY <2>1 DEF LinesIn
<1>3. ASSUME s # <<>>
      PROVE  /\ LinesIn(s) = LinesIn(Tail(s)) \cup ({Head(s)} \cap Lines)
             /\ Head(s) \in S /\ Tail(s) \in Seq(S)
  <2>1. /\ Head(s) = s[1] /\ Head(s) \in S /\ Tail(s) \in Seq(S)
        /\ Len(s) \in Nat \ {0} /\ Len(Tail(s)) = Len(s) - 1
        /\ \A i \in 1 .. Len(Tail(s)) : Tail(s)[i] = s[i + 1]
    BY <1>3, HeadTailProperties
  <2>2. DOMAIN s = 1 .. Len(s) /\ DOMAIN Tail(s) = 1 .. (Len(s) - 1)
    BY <2>1
  <2>3. \A i \in 2 .. Len(s) : i - 1 \in DOMAIN Tail(s) /\ Tail(s)[i - 1] = s[i]
    BY <2>1, <2>2
  <2>4. \A i \in DOMAIN s : i = 1 \/ i \in 2 .. Len(s)
    BY <2>1, <2>2
  <2>5. \A i \in DOMAIN Tail(s) : i + 1 \in DOMAIN s /\ Tail(s)[i] = s[i + 1]
    BY <2>1, <2>2
  <2>6. ASSUME NEW q \in LinesIn(s)
        PROVE  q \in LinesIn(Tail(s)) \cup ({Head(s)} \cap Lines)
    <3>1. PICK i \in DOMAIN s : q = s[i] /\ q \in Lines
      BY <2>6 DEF LinesIn
    <3>2. CASE i = 1
      BY <2>1, <3>1, <3>2
    <3>3. CASE i # 1
      <4>1. i - 1 \in DOMAIN Tail(s) /\ Tail(s)[i - 1] = s[i]
        BY <2>3, <2>4, <3>1, <3>3
      <4> QED
        BY <3>1, <4>1 DEF LinesIn
    <3> QED
      BY <3>2, <3>3
  <2>7. LinesIn(Tail(s)) \cup ({Head(s)} \cap Lines) \subseteq LinesIn(s)
    BY <2>1, <2>2, <2>5 DEF LinesIn
  <2> QED
    BY <2>1, <2>6, <2>7
<1>4. QED
  BY <1>1, <1>2, <1>3

\* FIFO A keeps its order when its first piece is taken.
LEMMA TailInOrder ==
    ASSUME ShellInv, OrderOK, fifoA # <<>>
    PROVE  /\ \A q \in LinesIn(Tail(fifoA)) : Head(fifoA) \in Lines => Head(fifoA) < q
           /\ \A i, j \in DOMAIN Tail(fifoA) :
                i < j /\ Tail(fifoA)[i] \in Lines /\ Tail(fifoA)[j] \in Lines
                  => Tail(fifoA)[i] < Tail(fifoA)[j]
<1>1. fifoA \in Seq(Pieces)
  BY DEF ShellInv, TypeOK
<1>2. /\ Head(fifoA) = fifoA[1] /\ 1 \in DOMAIN fifoA
      /\ \A i \in DOMAIN Tail(fifoA) :
           i \in Nat /\ 1 < i + 1 /\ i + 1 \in DOMAIN fifoA
             /\ Tail(fifoA)[i] = fifoA[i + 1]
  BY <1>1
<1>3. \A i, j \in DOMAIN Tail(fifoA) : i < j => i + 1 < j + 1
  BY <1>2
<1>4. QED
  BY <1>2, <1>3 DEF OrderOK, LinesIn

-----------------------------------------------------------------------------

\* The client's and the person's steps: what is typed goes to the end.
LEMMA OrderClient ==
    ASSUME LagInv, Client \/ Person
    PROVE  OrderOK'
<1>1. UNCHANGED command /\ ShellInv /\ OrderOK
  BY DEF LagInv, Client, Person, OpenA, BrokenPipe, TypeCommand, TypeSpaces,
         TypeQuit, WriteNewline, OpenB, ReadOutput, OutputFull, OutputEnds,
         Killed, Start, srvVars
<1>2. /\ line \in Nat /\ Lines \subseteq Nat
      /\ fifoA \in Seq(Pieces) /\ command \in Seq(Lines \cup {Q})
      /\ \A q \in LinesIn(fifoA) : q <= line
  BY <1>1 DEF ShellInv, TypeOK, Lines, LinesOK, LinesIn
<1>3. \/ fifoA' = fifoA /\ (line' = line \/ line' = line + 1)
      \/ \E p \in Pieces :
           /\ fifoA' = Append(fifoA, p)
           /\ \/ p \notin Lines /\ line' = line
              \/ p = line + 1 /\ line' = line + 1
  <2>1. CASE TypeCommand
    <3>1. line + 1 \in Lines
      BY <1>2, <2>1, BoundsAssumption DEF TypeCommand, Lines
    <3> QED
      BY <2>1, <3>1 DEF TypeCommand, Pieces
  <2>2. CASE TypeQuit \/ WriteNewline
    BY <2>2, TokenAssumption DEF TypeQuit, WriteNewline, Pieces
  <2>3. CASE ~(TypeCommand \/ TypeQuit \/ WriteNewline)
    BY <2>3 DEF Client, Person, OpenA, BrokenPipe, TypeSpaces, OpenB,
       ReadOutput, OutputFull, OutputEnds, Killed, Start, cliVars
  <2> QED
    BY <2>1, <2>2, <2>3
<1>4. \A p \in LinesIn(command) \cup LinesIn(fifoA) :
        p \in Nat /\ p <= line /\ p <= line' /\ p < line + 1
  <2>1. line' \in Nat /\ line <= line'
    BY <1>2, <1>3
  <2>2. \A p \in LinesIn(command) \cup LinesIn(fifoA) : p \in Nat /\ p <= line
    BY <1>1, <1>2 DEF OrderOK, LinesIn
  <2> QED
    BY <1>2, <2>1, <2>2
<1>5. CASE fifoA' = fifoA
  BY <1>1, <1>4, <1>5 DEF OrderOK
<1>6. CASE \E p \in Pieces :
             /\ fifoA' = Append(fifoA, p)
             /\ \/ p \notin Lines /\ line' = line
                \/ p = line + 1 /\ line' = line + 1
  <2>1. PICK p \in Pieces : /\ fifoA' = Append(fifoA, p)
                            /\ p \notin Lines \/ p = line + 1
    BY <1>6
  <2>2. LinesIn(fifoA') = LinesIn(fifoA) \cup ({p} \cap Lines)
    BY <1>2, <2>1, LinesInSeq
  <2>3. \A c \in LinesIn(command') :
          c <= line' /\ \A q \in LinesIn(fifoA') : c < q
    BY <1>1, <1>4, <2>1, <2>2 DEF OrderOK
  <2>4. /\ DOMAIN fifoA = 1 .. Len(fifoA) /\ Len(fifoA) \in Nat
        /\ DOMAIN fifoA' = 1 .. (Len(fifoA) + 1)
        /\ \A i \in 1 .. Len(fifoA) : fifoA'[i] = fifoA[i]
        /\ fifoA'[Len(fifoA) + 1] = p
    BY <1>2, <2>1, AppendProperties
  <2>5. ASSUME NEW i \in DOMAIN fifoA', NEW j \in DOMAIN fifoA', i < j,
               fifoA'[i] \in Lines, fifoA'[j] \in Lines
        PROVE  fifoA'[i] < fifoA'[j]
    <3>1. i \in DOMAIN fifoA /\ fifoA'[i] = fifoA[i]
      BY <2>4, <2>5
    <3>2. CASE j \in DOMAIN fifoA
      BY <1>1, <2>4, <2>5, <3>1, <3>2 DEF OrderOK
    <3>3. CASE j = Len(fifoA) + 1
      <4>1. fifoA'[j] = line + 1
        BY <2>1, <2>4, <2>5, <3>3
      <4>2. fifoA[i] \in LinesIn(fifoA)
        BY <2>5, <3>1 DEF LinesIn
      <4> QED
        BY <1>4, <3>1, <4>1, <4>2
    <3> QED
      BY <2>4, <3>2, <3>3
  <2> QED
    BY <2>3, <2>5 DEF OrderOK
<1>7. QED
  BY <1>3, <1>5, <1>6

\* The server's and the child's steps: a command is read from the front.
LEMMA OrderServer ==
    ASSUME LagInv, Server \/ Child
    PROVE  OrderOK'
<1>1. UNCHANGED line /\ ShellInv /\ OrderOK
  BY DEF LagInv, Server, Child, ReadPiece, ReadNothing, ReadQuit, Fork,
         ForkFails, Reap, ChildOpens, ChildWrites, ChildEnds, cliVars
<1>2. /\ line \in Nat /\ Lines \subseteq Nat /\ fifoA \in Seq(Pieces)
      /\ command \in Seq(Lines \cup {Q})
      /\ \A q \in LinesIn(fifoA) : q <= line
  BY <1>1 DEF ShellInv, TypeOK, Lines, LinesOK, LinesIn
<1>3. CASE ReadPiece
  <2>1. /\ fifoA # <<>> /\ fifoA' = Tail(fifoA) /\ Head(fifoA) # NL
        /\ command' = Append(command, Head(fifoA))
    BY <1>3 DEF ReadPiece
  <2>2. LinesIn(fifoA) = LinesIn(Tail(fifoA)) \cup ({Head(fifoA)} \cap Lines)
          /\ Head(fifoA) \in Lines \cup {Q}
    <3>1. /\ LinesIn(fifoA) = LinesIn(Tail(fifoA)) \cup ({Head(fifoA)} \cap Lines)
          /\ Head(fifoA) \in Pieces
      BY <1>2, <2>1, LinesInSeq DEF Pieces
    <3> QED
      BY <2>1, <3>1 DEF Pieces
  <2>3. LinesIn(command') = LinesIn(command) \cup ({Head(fifoA)} \cap Lines)
    BY <1>2, <2>1, <2>2, LinesInSeq
  <2>4. \A c \in LinesIn(command') :
          c <= line' /\ \A q \in LinesIn(fifoA') : c < q
    BY <1>1, <1>2, <2>1, <2>2, <2>3, TailInOrder DEF OrderOK
  <2> QED
    BY <1>1, <2>1, <2>4, TailInOrder DEF OrderOK
<1>4. CASE ReadNothing \/ ReadQuit \/ Fork \/ ForkFails
  <2>1. /\ fifoA' = fifoA \/ (fifoA # <<>> /\ fifoA' = Tail(fifoA))
        /\ command' = command \/ command' = <<>>
    BY <1>4 DEF ReadNothing, ReadQuit, Fork, ForkFails, IsCommand, CommandRead, srvVars
  <2>2. LinesIn(fifoA') \subseteq LinesIn(fifoA)
          /\ LinesIn(command') \subseteq LinesIn(command)
    <3>1. fifoA # <<>> => LinesIn(Tail(fifoA)) \subseteq LinesIn(fifoA)
      BY <1>2, LinesInSeq DEF Pieces
    <3>2. LinesIn(<<>>) = {}
      BY DEF LinesIn
    <3> QED
      BY <2>1, <3>1, <3>2
  <2>3. \A i, j \in DOMAIN fifoA' :
          i < j /\ fifoA'[i] \in Lines /\ fifoA'[j] \in Lines
            => fifoA'[i] < fifoA'[j]
    BY <1>1, <2>1, TailInOrder DEF OrderOK
  <2>4. \A c \in LinesIn(command') :
          c <= line' /\ \A q \in LinesIn(fifoA') : c < q
    BY <1>1, <2>2 DEF OrderOK
  <2> QED
    BY <2>3, <2>4 DEF OrderOK
<1>5. CASE Reap
  <2>1. LinesIn(command') = {} /\ fifoA' = fifoA
    BY <1>5 DEF Reap, LinesIn
  <2> QED
    BY <1>1, <2>1 DEF OrderOK
<1>6. CASE Child
  BY <1>1, <1>6 DEF Child, ChildOpens, ChildWrites, ChildEnds, srvVars, OrderOK
<1>7. QED
  BY <1>3, <1>4, <1>5, <1>6 DEF Server

\* FIFO B is emptied when the last of the client and the child closes it.
LEMMA NextEnds ==
    ASSUME LagInv, Next
    PROVE  EndsOK'
<1> USE DEF LagInv, EndsOK, cliVars, srvVars, countVars
<1>1. CASE Client \/ Person
  BY <1>1 DEF Client, Person, OpenA, BrokenPipe, TypeCommand, TypeSpaces,
     TypeQuit, WriteNewline, OpenB, ReadOutput, OutputFull, OutputEnds, Killed,
     Start, KeptB, ReadsA
<1>2. CASE Server
  BY <1>2 DEF Server, ReadPiece, ReadNothing, ReadQuit, Fork, ForkFails, Reap,
     IsCommand, CommandRead, ShellInv, ChildOK
<1>3. CASE Child
  BY <1>3 DEF Child, ChildOpens, ChildWrites, ChildEnds, KeptB, ShellInv, ChildOK
<1>4. QED
  BY <1>1, <1>2, <1>3 DEF Next

-----------------------------------------------------------------------------

\* The numbers the lag is made of.
LEMMA LagTypes ==
    ASSUME LagInv
    PROVE  /\ kills \in Nat /\ cuts \in Nat /\ Late \in Nat /\ line \in Nat
           /\ Ahead \cup Served \cup LinesIn(output) \subseteq Nat
           /\ child # "none" => Head(command) \in LinesIn(command)
<1>1. /\ kills \in Nat /\ cuts \in Nat /\ line \in Nat /\ Lines \subseteq Nat
      /\ command \in Seq(Lines \cup {Q}) /\ ran \subseteq Lines
  BY BoundsAssumption DEF LagInv, ShellInv, TypeOK, Lines
<1>2. child # "none" => command # <<>> /\ Head(command) \in Lines
  BY <1>1 DEF LagInv, ShellInv, ChildOK
<1>3. child # "none" => Head(command) \in LinesIn(command)
  BY <1>1, <1>2 DEF LinesIn
<1>4. Late \in Nat
  BY <1>1 DEF Late
<1>5. Ahead \cup Served \cup LinesIn(output) \subseteq Lines
  BY <1>2 DEF Ahead, Served, LinesIn
<1>6. QED
  BY <1>1, <1>3, <1>4, <1>5

\* The client's steps.  Opening FIFO B serves the line the child runs, and the
\* others are later lines; a kill and a cut count.
LEMMA LagClient ==
    ASSUME LagInv, Client
    PROVE  LagOK'
<1> USE DEF LagInv, EndsOK, cliVars, srvVars, countVars
<1>1. CASE OpenA
  <2>1. Ahead' = Ahead /\ Served' = Served /\ Late' = Late /\ line' = line
    <3>1. LinesIn(<<>>) = {}
      BY DEF LinesIn
    <3> QED
      BY <1>1, <3>1 DEF OpenA, Ahead, Served, Late
  <2> QED
    BY <1>1, <2>1 DEF OpenA, LagOK
<1>2. CASE BrokenPipe
  <2>1. Ahead' = Ahead /\ Served' = Served /\ Late' = Late /\ line' = line
    BY <1>2 DEF BrokenPipe, Ahead, Served, Late
  <2> QED
    BY <1>2, <2>1 DEF BrokenPipe, ReadsA, LagOK, ShellInv, TypeOK
<1>3. CASE WriteNewline
  <2>1. LinesIn(fifoA') = LinesIn(fifoA)
    <3>1. fifoA \in Seq(Pieces) /\ NL \in Pieces /\ NL \notin Lines
      BY TokenAssumption DEF ShellInv, TypeOK, Pieces
    <3>2. LinesIn(Append(fifoA, NL)) = LinesIn(fifoA) \cup ({NL} \cap Lines)
      BY <3>1, LinesInSeq
    <3> QED
      BY <1>3, <3>1, <3>2 DEF WriteNewline
  <2>2. Ahead' = Ahead /\ Served' = Served /\ Late' = Late /\ line' = line
    BY <1>3, <2>1 DEF WriteNewline, Ahead, Served, Late
  <2> QED
    BY <1>3, <2>2 DEF WriteNewline, LagOK
<1>4. CASE OpenB
  <2>1. /\ child # "none" /\ spc = "wait" /\ kpc = "answer" /\ kpc' = "read"
        /\ child' = "run" /\ output' = <<>>
        /\ UNCHANGED <<line, spc, command, fifoA, fifoB, kills, cuts>>
    BY <1>4 DEF OpenB, ShellInv, ChildOK
  <2>2. Ahead' = LinesIn(fifoA) /\ Served' = LinesIn(fifoB) \cup {Head(command)}
          /\ Late' = Late /\ LinesIn(output') = {}
    BY <2>1 DEF Ahead, Served, Late, LinesIn
  <2>3. \A p \in Served' : line <= p + Late
    BY <2>1, <2>2 DEF LagOK, Ahead, Served, ShellInv, TypeOK
  <2>4. \A q \in LinesIn(fifoA) : Head(command) < q /\ q \in Nat
    BY <2>1, LagTypes DEF OrderOK, Ahead
  <2>5. \A q \in LinesIn(fifoA) : line < q + Late
    <3>1. line <= Head(command) + Late
      BY <2>2, <2>3
    <3>2. Head(command) \in Nat /\ Late \in Nat /\ line \in Nat
      BY <2>1, LagTypes DEF Ahead, Served, ShellInv, TypeOK
    <3> QED
      BY <2>4, <3>1, <3>2
  <2> QED
    BY <2>1, <2>2, <2>3, <2>5 DEF LagOK
<1>5. CASE ReadOutput
  <2>1. LinesIn(fifoB) = LinesIn(fifoB') \cup ({Head(fifoB)} \cap Lines)
          /\ LinesIn(output') = LinesIn(output) \cup ({Head(fifoB)} \cap Lines)
    BY <1>5, LinesInSeq DEF ReadOutput, ShellInv, TypeOK
  <2>2. /\ Ahead' = Ahead /\ Late' = Late /\ line' = line
        /\ Served' \cup LinesIn(output)' = Served \cup LinesIn(output)
    BY <1>5, <2>1 DEF ReadOutput, Ahead, Served, Late
  <2> QED
    BY <1>5, <2>2 DEF ReadOutput, LagOK
<1>6. CASE OutputFull
  <2>1. LinesIn(fifoB') \subseteq LinesIn(fifoB)
    <3>1. LinesIn(Tail(fifoB)) \subseteq LinesIn(fifoB) /\ LinesIn(<<>>) = {}
      BY <1>6, LinesInSeq DEF OutputFull, ShellInv, TypeOK
    <3> QED
      BY <1>6, <3>1 DEF OutputFull, KeptB
  <2>2. /\ Ahead' = Ahead /\ Served' \subseteq Served /\ line' = line
        /\ Late' = Late + 1 /\ spc' = spc /\ kpc = "read" /\ kpc' = "prompt"
    <3>1. Late' = Late + 1
      <4>1. kills \in Nat /\ cuts \in Nat
        BY LagTypes
      <4> QED
        BY <1>6, <4>1 DEF OutputFull, Late
    <3> QED
      BY <1>6, <2>1, <3>1 DEF OutputFull, Ahead, Served
  <2>3. spc # "exited" => \A p \in Ahead \cup Served : line <= p + Late
    <3>1. \A p \in Ahead : line < p + Late => line <= p + Late
      BY LagTypes
    <3> QED
      BY <2>2, <3>1 DEF LagOK
  <2>4. spc # "exited" => \A p \in Ahead' \cup Served' : line' < p + Late'
    BY <2>2, <2>3, LagTypes
  <2> QED
    BY <2>2, <2>4 DEF LagOK
<1>7. CASE OutputEnds
  <2>1. Ahead' = Ahead /\ Served' = {} /\ Late' = Late /\ line' = line
    <3>1. LinesIn(<<>>) = {}
      BY DEF LinesIn
    <3> QED
      BY <1>7, <3>1 DEF OutputEnds, Ahead, Served, Late
  <2> QED
    BY <1>7, <2>1 DEF OutputEnds, LagOK
<1>8. QED
  BY <1>1, <1>2, <1>3, <1>4, <1>5, <1>6, <1>7 DEF Client

\* The person's steps.
LEMMA LagPerson ==
    ASSUME LagInv, Person
    PROVE  LagOK'
<1> USE DEF LagInv, EndsOK, cliVars, srvVars, countVars
<1>1. CASE TypeCommand \/ TypeSpaces
  <2>1. LinesIn(fifoA') \subseteq LinesIn(fifoA) \cup {line + 1}
    <3>1. line + 1 \in Pieces
      BY <1>1, BoundsAssumption DEF TypeCommand, TypeSpaces, ShellInv, TypeOK,
         Pieces, Lines
    <3>2. fifoA \in Seq(Pieces)
      BY DEF ShellInv, TypeOK
    <3>3. LinesIn(Append(fifoA, line + 1)) \subseteq LinesIn(fifoA) \cup {line + 1}
      BY <3>1, <3>2, LinesInSeq
    <3> QED
      BY <1>1, <3>3 DEF TypeCommand, TypeSpaces
  <2>2. /\ Ahead' \subseteq Ahead \cup {line + 1} /\ Served' = Served
        /\ Late' = Late /\ line' = line + 1 /\ kpc = "prompt" /\ kpc' = "newline"
        /\ spc # "exited"
    BY <1>1, <2>1 DEF TypeCommand, TypeSpaces, ReadsA, Ahead, Served, Late
  <2>3. \A p \in Ahead \cup Served : line < p + Late
    BY <2>2 DEF LagOK
  <2>4. \A p \in Ahead' \cup Served' : line' <= p + Late'
    BY <2>2, <2>3, LagTypes
  <2> QED
    BY <2>2, <2>4 DEF LagOK
<1>2. CASE TypeQuit
  <2>1. LinesIn(fifoA') = LinesIn(fifoA)
    <3>1. fifoA \in Seq(Pieces) /\ Q \in Pieces /\ Q \notin Lines
      BY TokenAssumption DEF ShellInv, TypeOK, Pieces
    <3>2. LinesIn(Append(fifoA, Q)) = LinesIn(fifoA) \cup ({Q} \cap Lines)
      BY <3>1, LinesInSeq
    <3> QED
      BY <1>2, <3>1, <3>2 DEF TypeQuit
  <2>2. Ahead' = Ahead /\ Served' = Served /\ Late' = Late /\ line' = line
    BY <1>2, <2>1 DEF TypeQuit, Ahead, Served, Late
  <2> QED
    BY <1>2, <2>2 DEF TypeQuit, LagOK
<1>3. CASE Killed
  <2>1. LinesIn(fifoB') \subseteq LinesIn(fifoB)
    <3>1. LinesIn(<<>>) = {}
      BY DEF LinesIn
    <3> QED
      BY <1>3, <3>1 DEF Killed, KeptB
  <2>2. /\ Ahead' = Ahead /\ Served' \subseteq Served /\ line' = line
        /\ Late' = Late + 1 /\ spc' = spc /\ kpc' = "exited"
    <3>1. Late' = Late + 1
      <4>1. kills \in Nat /\ cuts \in Nat
        BY LagTypes
      <4> QED
        BY <1>3, <4>1 DEF Killed, Late
    <3> QED
      BY <1>3, <2>1, <3>1 DEF Killed, Ahead, Served
  <2>3. spc # "exited" => \A p \in Ahead \cup Served : line <= p + Late
    <3>1. \A p \in Ahead \cup Served : line < p + Late => line <= p + Late
      BY LagTypes
    <3> QED
      BY <1>3, <3>1 DEF LagOK, ShellInv, TypeOK
  <2>4. spc # "exited" => \A p \in Ahead' \cup Served' : line' < p + Late'
    BY <2>2, <2>3, LagTypes
  <2> QED
    BY <2>2, <2>4 DEF LagOK
<1>4. CASE Start
  <2>1. Ahead' = Ahead /\ Served' = Served /\ Late' = Late /\ line' = line
    BY <1>4 DEF Start, Ahead, Served, Late
  <2> QED
    BY <1>4, <2>1 DEF Start, LagOK
<1>5. QED
  BY <1>1, <1>2, <1>3, <1>4 DEF Person

\* The server's and the child's steps serve lines that were ahead, or drop
\* them; the client stays where it is.
LEMMA LagServer ==
    ASSUME LagInv, Server \/ Child
    PROVE  LagOK'
<1> USE DEF LagInv, EndsOK, cliVars, srvVars, countVars
<1>0. UNCHANGED <<kpc, line, output, Late>>
  BY DEF Server, Child, ReadPiece, ReadNothing, ReadQuit, Fork, ForkFails, Reap,
     ChildOpens, ChildWrites, ChildEnds, Late
<1>t. /\ fifoA \in Seq(Pieces) /\ command \in Seq(Lines \cup {Q})
      /\ fifoB \in Seq(Lines) /\ child \in {"none", "open", "run"}
      /\ child # "none" => spc = "wait"
  BY DEF ShellInv, TypeOK, ChildOK
<1>1. ASSUME Ahead' \subseteq Ahead, Served' \subseteq Served,
             spc' # "exited" => spc # "exited"
      PROVE  LagOK'
  BY <1>0, <1>1 DEF LagOK
<1>2. ASSUME fifoA # <<>>
      PROVE  LinesIn(fifoA) = LinesIn(Tail(fifoA)) \cup ({Head(fifoA)} \cap Lines)
               /\ Head(fifoA) \in Pieces
  BY <1>t, <1>2, LinesInSeq DEF Pieces
<1>3. CASE ReadPiece
  <2>1. Head(fifoA) \in Lines \cup {Q}
    BY <1>2, <1>3 DEF ReadPiece, Pieces
  <2>2. LinesIn(command') = LinesIn(command) \cup ({Head(fifoA)} \cap Lines)
    BY <1>t, <1>3, <2>1, LinesInSeq DEF ReadPiece
  <2>3. Ahead' = Ahead /\ Served' = Served
    BY <1>2, <1>3, <1>t, <2>2 DEF ReadPiece, Ahead, Served
  <2> QED
    BY <1>1, <1>3, <2>3 DEF ReadPiece
<1>4. CASE ReadNothing \/ ReadQuit \/ ForkFails
  <2>1. /\ LinesIn(fifoA') \subseteq LinesIn(fifoA)
        /\ command' = command \/ command' = <<>>
        /\ spc = "read" /\ child = "none" /\ UNCHANGED <<child, fifoB>>
    BY <1>2, <1>4, <1>t DEF ReadNothing, ReadQuit, ForkFails, IsCommand, CommandRead
  <2>2. LinesIn(<<>>) = {}
    BY DEF LinesIn
  <2>3. Ahead' \subseteq Ahead /\ Served' = Served
    BY <2>1, <2>2 DEF Ahead, Served
  <2> QED
    BY <1>1, <2>1, <2>3
<1>5. CASE Fork
  <2>1. /\ LinesIn(fifoA') \subseteq LinesIn(fifoA)
        /\ spc = "read" /\ spc' = "wait" /\ child' = "open" /\ child = "none"
        /\ UNCHANGED <<command, fifoB>> /\ Head(command) \in LinesIn(command)
    <3>1. Head(command) = command[1] /\ 1 \in DOMAIN command /\ command[1] \in Lines
      BY <1>5, <1>t DEF Fork, IsCommand
    <3> QED
      BY <1>2, <1>5, <1>t, <3>1 DEF Fork, IsCommand, CommandRead, LinesIn
  <2>2. Ahead' \subseteq Ahead /\ Served' = Served
    BY <2>1 DEF Ahead, Served
  <2> QED
    BY <1>1, <2>1, <2>2
<1>6. CASE Reap
  <2>1. LinesIn(command') = {}
    BY <1>6 DEF Reap, LinesIn
  <2>2. Ahead' = Ahead /\ Served' = Served
    BY <1>6, <2>1 DEF Reap, Ahead, Served
  <2> QED
    BY <1>1, <1>6, <2>2 DEF Reap
<1>7. CASE ChildOpens
  <2>1. /\ kpc = "read" /\ child = "open" /\ child' = "run" /\ spc = "wait"
        /\ UNCHANGED <<spc, command, fifoA, fifoB>>
    BY <1>7, <1>t DEF ChildOpens
  <2>2. Ahead' \subseteq Ahead /\ Served' = Served \cup {Head(command)}
          /\ Head(command) \in Ahead
    BY <2>1 DEF Ahead, Served
  <2>3. \A p \in Ahead : line <= p + Late
    <3>1. \A p \in Ahead : line < p + Late
      BY <2>1 DEF LagOK
    <3> QED
      BY <3>1, LagTypes
  <2> QED
    BY <1>0, <2>1, <2>2, <2>3 DEF LagOK
<1>8. CASE ChildWrites \/ ChildEnds
  <2>1. Head(command) \in Lines
    BY <1>8, <1>t, LagTypes DEF ChildWrites, ChildEnds, LinesIn
  <2>2. LinesIn(fifoB') \subseteq LinesIn(fifoB) \cup {Head(command)}
    <3>1. LinesIn(Append(fifoB, Head(command))) = LinesIn(fifoB) \cup {Head(command)}
      BY <1>t, <2>1, LinesInSeq
    <3>2. LinesIn(<<>>) = {}
      BY DEF LinesIn
    <3> QED
      BY <1>8, <3>1, <3>2 DEF ChildWrites, ChildEnds, KeptB
  <2>3. child = "run" /\ child' \in {"run", "none"} /\ UNCHANGED <<spc, command, fifoA>>
    BY <1>8 DEF ChildWrites, ChildEnds
  <2>4. Ahead' = Ahead /\ Served' \subseteq Served
    BY <2>2, <2>3 DEF Ahead, Served
  <2> QED
    BY <1>1, <2>3, <2>4
<1>9. QED
  BY <1>3, <1>4, <1>5, <1>6, <1>7, <1>8 DEF Server, Child

LEMMA NextLag == LagInv /\ [Next]_vars => LagInv'
<1> SUFFICES ASSUME LagInv, [Next]_vars PROVE LagInv'
  OBVIOUS
<1>1. ShellInv'
  BY NextShell DEF LagInv
<1>2. CASE Next
  <2>1. OrderOK' /\ EndsOK'
    BY <1>2, OrderClient, OrderServer, NextEnds DEF Next
  <2>2. LagOK'
    BY <1>2, LagClient, LagPerson, LagServer DEF Next
  <2> QED
    BY <1>1, <2>1, <2>2 DEF LagInv
<1>3. CASE UNCHANGED vars
  BY <1>1, <1>3 DEF vars, cliVars, srvVars, countVars, LagInv, OrderOK, EndsOK,
     LagOK, Ahead, Served, Late, LinesIn
<1>4. QED
  BY <1>2, <1>3

\* However often the client is killed and started again and whatever it cuts
\* short, the answers it shows are behind by at most one line for each.
THEOREM LagCorrect == Spec => []AnswersLag
<1>1. Init => LagInv
  <2>1. Init => OrderOK /\ EndsOK /\ LagOK
    BY DEF Init, OrderOK, EndsOK, LagOK, Ahead, Served, LinesIn
  <2> QED
    BY <2>1, InitShell DEF LagInv
<1>2. LagInv => AnswersLag
  <2> SUFFICES ASSUME LagInv, kpc = "read", NEW i \in DOMAIN (output \o fifoB)
               PROVE  line <= (output \o fifoB)[i] + kills + cuts
    BY DEF AnswersLag
  <2>1. output \in Seq(Lines) /\ fifoB \in Seq(Lines)
    BY DEF LagInv, ShellInv, TypeOK
  <2>2. (output \o fifoB)[i] \in LinesIn(output) \cup LinesIn(fifoB)
    <3>1. CASE i \in 1 .. Len(output)
      <4>1. (output \o fifoB)[i] = output[i] /\ output[i] \in Lines /\ i \in DOMAIN output
        BY <2>1, <3>1
      <4> QED
        BY <4>1 DEF LinesIn
    <3>2. CASE i \notin 1 .. Len(output)
      <4>1. (output \o fifoB)[i] = fifoB[i - Len(output)]
              /\ i - Len(output) \in DOMAIN fifoB /\ fifoB[i - Len(output)] \in Lines
        BY <2>1, <3>2
      <4> QED
        BY <4>1 DEF LinesIn
    <3> QED
      BY <3>1, <3>2
  <2>3. line <= (output \o fifoB)[i] + Late
    BY <2>2 DEF LagInv, LagOK, Served
  <2>4. (output \o fifoB)[i] \in Nat
    BY <2>2, LagTypes DEF Served
  <2> QED
    BY <2>3, <2>4, LagTypes DEF Late
<1>3. QED
  BY <1>1, <1>2, NextLag, PTL DEF Spec

-----------------------------------------------------------------------------
(* The client that waits: the state part of Answered.                      *)

\* The n-th piece of FIFO A is the end of a line that has begun; before the
\* first piece is what the server has read of a command.
InLine(n) == IF n = 0 THEN spc = "read" /\ command # <<>> ELSE fifoA[n] # NL

\* What a client in open() of FIFO B waits for is under way: its line lies in
\* FIFO A to its newline, or has been taken out and its child opens FIFO B from
\* the other side.  Excepted are the line of spaces and the failed fork, which
\* do leave client and server waiting for each other, and a q read before.
UnderWay ==
    spc # "exited" /\ ~failed =>
      /\ kpc = "newline" => InLine(Len(fifoA))
      /\ kpc = "answer" =>
           IF fifoA = <<>> THEN child = "open"
                           ELSE fifoA[Len(fifoA)] = NL /\ InLine(Len(fifoA) - 1)

LEMMA NextUnderWay ==
    ASSUME ShellInv, UnderWay, [Next]_vars
    PROVE  UnderWay'
<1> USE DEF UnderWay, InLine, cliVars, srvVars, countVars
<1>1. /\ fifoA \in Seq(Pieces) /\ command \in Seq(Lines \cup {Q})
      /\ NL \notin Lines /\ NL \in Pieces
      /\ child # "none" => spc = "wait"
  BY TokenAssumption DEF ShellInv, TypeOK, ChildOK, Pieces
<1>2. /\ Len(fifoA) \in Nat /\ (fifoA = <<>> <=> Len(fifoA) = 0)
      /\ fifoA # <<>> => /\ Head(fifoA) = fifoA[1] /\ Head(fifoA) \in Pieces
                         /\ Len(Tail(fifoA)) = Len(fifoA) - 1
                         /\ (Tail(fifoA) = <<>> <=> Len(fifoA) = 1)
                         /\ \A n \in 1 .. (Len(fifoA) - 1) : Tail(fifoA)[n] = fifoA[n + 1]
  <2>1. Len(fifoA) \in Nat /\ (fifoA = <<>> <=> Len(fifoA) = 0)
    BY <1>1, EmptySeq
  <2>2. fifoA # <<>> => /\ Head(fifoA) = fifoA[1] /\ Head(fifoA) \in Pieces
                        /\ Tail(fifoA) \in Seq(Pieces)
                        /\ Len(Tail(fifoA)) = Len(fifoA) - 1
                        /\ \A n \in 1 .. Len(Tail(fifoA)) : Tail(fifoA)[n] = fifoA[n + 1]
    BY <1>1, HeadTailProperties
  <2>3. fifoA # <<>> => (Tail(fifoA) = <<>> <=> Len(Tail(fifoA)) = 0)
    BY <2>2, EmptySeq
  <2> QED
    BY <2>1, <2>2, <2>3
<1>t. ASSUME fifoA # <<>>, fifoA' = Tail(fifoA)
      PROVE  /\ Len(fifoA') = Len(fifoA) - 1
             /\ fifoA' = <<>> <=> Len(fifoA) = 1
             /\ Len(fifoA) > 1 => fifoA'[Len(fifoA')] = fifoA[Len(fifoA)]
             /\ Len(fifoA) > 2 => fifoA'[Len(fifoA') - 1] = fifoA[Len(fifoA) - 1]
             /\ Len(fifoA) > 0
  BY <1>2, <1>t
<1>3. CASE OpenA \/ BrokenPipe \/ OpenB \/ ReadOutput \/ OutputFull \/ OutputEnds
             \/ TypeSpaces \/ TypeQuit \/ Killed \/ Start
  BY <1>3 DEF OpenA, BrokenPipe, OpenB, ReadOutput, OutputFull, OutputEnds,
     TypeSpaces, TypeQuit, Killed, Start
<1>4. ASSUME NEW p \in Pieces, fifoA' = Append(fifoA, p)
      PROVE  /\ Len(fifoA') = Len(fifoA) + 1 /\ fifoA' # <<>>
             /\ fifoA'[Len(fifoA) + 1] = p
             /\ \A n \in 1 .. Len(fifoA) : fifoA'[n] = fifoA[n]
  BY <1>1, <1>4, AppendProperties
<1>5. CASE TypeCommand
  <2>1. line + 1 \in Lines
    BY <1>5, BoundsAssumption DEF TypeCommand, ShellInv, TypeOK, Lines
  <2>2. /\ fifoA' = Append(fifoA, line + 1) /\ kpc' = "newline"
        /\ line + 1 \in Pieces /\ line + 1 # NL
    BY <1>1, <1>5, <2>1 DEF TypeCommand, Pieces
  <2> QED
    BY <1>2, <1>4, <2>2
<1>6. CASE WriteNewline
  <2>1. /\ fifoA' = Append(fifoA, NL) /\ kpc = "newline" /\ kpc' = "answer"
        /\ UNCHANGED <<spc, command, failed>>
    BY <1>6 DEF WriteNewline
  <2> QED
    BY <1>1, <1>2, <1>4, <2>1
<1>7. CASE ReadPiece
  <2>1. /\ fifoA # <<>> /\ Head(fifoA) # NL /\ fifoA' = Tail(fifoA)
        /\ spc = "read" /\ UNCHANGED <<kpc, spc, child, failed>>
        /\ command' = Append(command, Head(fifoA))
    BY <1>7 DEF ReadPiece
  <2>2. command' # <<>>
    <3>1. Head(fifoA) \in Lines \cup {Q}
      BY <1>2, <2>1 DEF Pieces
    <3> QED
      BY <1>1, <2>1, <3>1, AppendProperties
  <2>3. CASE kpc = "newline"
    BY <1>2, <1>t, <2>1, <2>2, <2>3
  <2>4. CASE kpc = "answer"
    <3>1. CASE spc = "exited" \/ failed
      BY <2>1, <3>1
    <3>2. CASE ~failed
      <4>1. fifoA[Len(fifoA)] = NL /\ InLine(Len(fifoA) - 1) /\ Len(fifoA) > 1
        BY <1>2, <2>1, <2>4, <3>2
      <4>2. /\ Len(fifoA') = Len(fifoA) - 1 /\ fifoA' # <<>>
            /\ fifoA'[Len(fifoA')] = NL
            /\ Len(fifoA) > 2 => fifoA'[Len(fifoA') - 1] = fifoA[Len(fifoA) - 1]
        BY <1>2, <1>t, <2>1, <4>1
      <4>3. CASE Len(fifoA) = 2
        <5>1. Len(fifoA') - 1 = 0
          BY <4>2, <4>3
        <5> QED
          BY <2>1, <2>2, <4>2, <5>1
      <4>4. CASE Len(fifoA) > 2
        <5>1. Len(fifoA') - 1 # 0 /\ Len(fifoA) - 1 # 0
          BY <1>2, <4>2, <4>4
        <5>2. fifoA'[Len(fifoA') - 1] # NL
          BY <4>1, <4>2, <4>4, <5>1
        <5> QED
          BY <2>1, <2>4, <4>2, <5>1, <5>2
      <4>5. Len(fifoA) = 2 \/ Len(fifoA) > 2
        <5>1. Len(fifoA) \in Nat /\ Len(fifoA) > 1
          BY <1>2, <4>1
        <5>2. \A n \in Nat : n > 1 => n = 2 \/ n > 2
          OBVIOUS
        <5> QED
          BY <5>1, <5>2
      <4> QED
        BY <4>3, <4>4, <4>5
    <3> QED
      BY <3>1, <3>2
  <2> QED
    BY <2>1, <2>3, <2>4
<1>8. CASE ReadNothing \/ ReadQuit \/ Fork \/ ForkFails
  <2>1. /\ UNCHANGED kpc
        /\ kpc \in {"newline", "answer"} =>
             fifoA # <<>> /\ Head(fifoA) = NL /\ fifoA' = Tail(fifoA)
        /\ \/ command = <<>> /\ UNCHANGED <<spc, command, child, failed>>
           \/ spc' = "exited"
           \/ command # <<>> /\ child' = "open" /\ UNCHANGED failed
           \/ failed'
    BY <1>8 DEF ReadNothing, ReadQuit, Fork, ForkFails, IsCommand, CommandRead, WritesA
  <2>2. spc = "read"
    BY <1>8 DEF ReadNothing, ReadQuit, Fork, ForkFails, IsCommand, CommandRead
  <2>3. CASE kpc = "newline"
    BY <1>2, <1>t, <2>1, <2>2, <2>3
  <2>4. CASE kpc = "answer"
    BY <1>2, <1>t, <2>1, <2>2, <2>4
  <2> QED
    BY <2>1, <2>3, <2>4
<1>9. CASE Reap \/ Child \/ UNCHANGED vars
  BY <1>1, <1>9 DEF Reap, Child, ChildOpens, ChildWrites, ChildEnds, vars
<1> QED
  BY <1>3, <1>5, <1>6, <1>7, <1>8, <1>9 DEF Next, Client, Person, Server

\* mycl.c:95-110 and mysh_v4.c:60-92: however often a client is killed between
\* its two writes or at any other point, the next one that opens FIFO B to read
\* an answer waits for a line that the server can read to its end.
THEOREM WaitersCorrect == Spec => []UnderWay
<1>1. Init => UnderWay
  BY DEF Init, UnderWay
<1>2. ShellInv /\ UnderWay /\ [Next]_vars => UnderWay'
  BY NextUnderWay
<1> QED
  BY <1>1, <1>2, InitShell, NextShell, PTL DEF Spec
=============================================================================
