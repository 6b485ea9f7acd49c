---------------------------- MODULE FileTransfer ----------------------------
(***************************************************************************)
(* The UDP file transfer (file_transfer_server/send/tripfs.c, dropornot.c, *)
(* receive/tripfr.c and the two alarmcb.c), with the network in between.   *)
(*                                                                         *)
(* One sender transfers one file to one receiver: control packets, an      *)
(* acknowledgement, then every block several times.  alarm() is the only   *)
(* timeout on both sides and its handler exits the process.  The sender of *)
(* load_balancing_server is the same program with the wait for the         *)
(* acknowledgement commented out.                                          *)
(***************************************************************************)
EXTENDS Integers, Sequences, FiniteSets

CONSTANTS
    BLOCKS,        \* blocks of the file (block_count)
    PINGS,         \* copies of each packet (3)
    Rules,         \* param.dat: a sequence of [seq, count]
    SenderTimeout, \* ticks of alarm(3) in the sender
    FirstTimeout,  \* ticks of alarm(1) in the receiver
    DataTimeout,   \* ticks of alarm(7) in the receiver
    MaxLost,       \* bound: packets the network loses
    MaxDups,       \* bound: packets the network duplicates
    MaxSwaps       \* bound: packets that overtake another

Blocks == 0 .. (BLOCKS - 1)

ASSUME BlocksAssumption == BLOCKS \in Nat \ {0}
ASSUME CopiesAssumption == PINGS \in Nat \ {0}
\* packselect has room for five rules.
ASSUME RulesAssumption ==
    Rules \in Seq([seq : Blocks, count : Nat]) /\ Len(Rules) <= 5
ASSUME TimeoutAssumption ==
    /\ SenderTimeout \in Nat /\ FirstTimeout \in Nat /\ DataTimeout \in Nat
ASSUME NetworkBoundsAssumption ==
    /\ MaxLost \in Nat /\ MaxDups \in Nat /\ MaxSwaps \in Nat

Control == BLOCKS          \* a control packet among the packets in flight
Last == BLOCKS - 1
Off == -1                  \* no alarm is set

VARIABLES
    \* the sender
    waits,       \* it waits for the acknowledgement
    spc,         \* "control", "ack", "data", "done" or "gaveup"
    copy,        \* copies sent or skipped of the current packet
    blk,         \* block_count, the block being sent
    packselect,  \* the drop counts left, one per rule
    salarm,
    \* the receiver
    rpc,         \* "control", "ack", "data", "written", "gaveup", "refused"
                 \* or "crashed"
    round,       \* control packets read, then acknowledgements sent
    datapack,    \* copies received of each block
    file,        \* the blocks that were copied into the file
    first,       \* no block received yet
    ralarm,
    reported,    \* the blocks reported as missing copies
    \* the network
    toReceiver,  \* packets in flight, in order
    acks,        \* acknowledgements in flight
    \* history and bounds
    gone,        \* copies of each block dropped on purpose or lost
    dropped,     \* copies of each block dropped on purpose
    lost, dups, swaps

senderVars == <<waits, spc, copy, blk, packselect, salarm, dropped>>
receiverVars == <<rpc, round, datapack, file, first, ralarm, reported>>
netVars == <<toReceiver, acks, lost, dups, swaps>>
vars == <<senderVars, receiverVars, netVars, gone>>

InitSender ==
    /\ waits \in BOOLEAN
    /\ spc = "control" /\ copy = 0 /\ blk = 0 /\ salarm = Off
    /\ packselect = [r \in DOMAIN Rules |-> Rules[r].count]
    /\ dropped = [k \in Blocks |-> 0]

InitReceiver ==
    /\ rpc = "control" /\ round = 0 /\ first = TRUE /\ ralarm = Off
    /\ datapack = [k \in Blocks |-> 0]
    /\ file = {} /\ reported = {}

InitNetwork ==
    /\ toReceiver = <<>> /\ acks = 0
    /\ gone = [k \in Blocks |-> 0]
    /\ lost = 0 /\ dups = 0 /\ swaps = 0

Init == InitSender /\ InitReceiver /\ InitNetwork

-----------------------------------------------------------------------------
(* The sender                                                              *)

\* Faulty: one copy too many.
LastCopyLate == copy = PINGS

\* The copy being sent is the last one.
LastCopy == copy + 1 = PINGS

\* Faulty: no alarm is set for the wait.
SendControlAlarmless ==
    /\ spc = "control"
    /\ toReceiver' = Append(toReceiver, Control)
    /\ \/ /\ ~LastCopy
          /\ copy' = copy + 1
          /\ UNCHANGED spc
       \/ /\ LastCopy
          /\ copy' = 0
          /\ spc' = IF waits THEN "ack" ELSE "data"
    /\ UNCHANGED <<waits, blk, packselect, salarm, dropped, receiverVars, acks,
                   lost, dups, swaps, gone>>

\* One of the control packets; after the last one alarm(3) is set for the
\* wait, or the blocks follow at once.
SendControl ==
    /\ spc = "control"
    /\ toReceiver' = Append(toReceiver, Control)
    /\ \/ /\ ~LastCopy
          /\ copy' = copy + 1
          /\ UNCHANGED <<spc, salarm>>
       \/ /\ LastCopy
          /\ copy' = 0
          /\ \/ waits /\ spc' = "ack" /\ salarm' = SenderTimeout
             \/ ~waits /\ spc' = "data" /\ UNCHANGED salarm
    /\ UNCHANGED <<waits, blk, packselect, dropped, receiverVars, acks, lost,
                   dups, swaps, gone>>

\* The acknowledgement is read and alarm(0) cancels the alarm.
RecvAck ==
    /\ spc = "ack"
    /\ acks > 0
    /\ acks' = acks - 1
    /\ spc' = "data"
    /\ salarm' = Off
    /\ UNCHANGED <<waits, copy, blk, packselect, dropped, receiverVars,
                   toReceiver, lost, dups, swaps, gone>>

SenderAlarm ==
    /\ salarm = 0
    /\ spc' = "gaveup"
    /\ salarm' = Off
    /\ UNCHANGED <<waits, copy, blk, packselect, dropped, receiverVars,
                   netVars, gone>>

\* The rules for block k that have drops left; dropornot() fires the first.
Firing(k) == {r \in DOMAIN Rules : Rules[r].seq = k /\ packselect[r] # 0}

\* Faulty: the drop is not counted.
AfterDropKept(k) == packselect

\* What dropornot() leaves of the drop counts after a drop of block k.
AfterDrop(k) ==
    LET r == CHOOSE r \in Firing(k) : \A q \in Firing(k) : r <= q IN
      [packselect EXCEPT ![r] = @ - 1]

\* Faulty: one block past the last.
AdvancePast ==
    /\ copy' = IF LastCopy THEN 0 ELSE copy + 1
    /\ blk' = IF LastCopy /\ blk # BLOCKS THEN blk + 1 ELSE blk
    /\ spc' = IF LastCopy /\ blk = BLOCKS THEN "done" ELSE spc

\* The loops over the blocks and their copies go on.
Advance ==
    /\ copy' = IF LastCopy THEN 0 ELSE copy + 1
    /\ blk' = IF LastCopy /\ blk # Last THEN blk + 1 ELSE blk
    /\ spc' = IF LastCopy /\ blk = Last THEN "done" ELSE spc

SendBlock ==
    /\ spc = "data"
    /\ Firing(blk) = {}
    /\ toReceiver' = Append(toReceiver, blk)
    /\ Advance
    /\ UNCHANGED <<waits, packselect, salarm, dropped, receiverVars, acks,
                   lost, dups, swaps, gone>>

DropBlock ==
    /\ spc = "data"
    /\ Firing(blk) # {}
    /\ packselect' = AfterDrop(blk)
    /\ dropped' = [dropped EXCEPT ![blk] = @ + 1]
    /\ gone' = [gone EXCEPT ![blk] = @ + 1]
    /\ Advance
    /\ UNCHANGED <<waits, salarm, receiverVars, netVars>>

-----------------------------------------------------------------------------
(* The receiver                                                            *)

\* It reads PINGS packets, each of which must be a control packet, with no
\* alarm set; then alarm(1) covers the acknowledgements and the first block.
RecvControl ==
    /\ rpc = "control"
    /\ toReceiver # <<>>
    /\ toReceiver' = Tail(toReceiver)
    /\ \/ /\ Head(toReceiver) # Control
          /\ rpc' = "refused"
          /\ UNCHANGED <<round, ralarm>>
       \/ /\ Head(toReceiver) = Control
          /\ round + 1 < PINGS
          /\ round' = round + 1
          /\ UNCHANGED <<rpc, ralarm>>
       \/ /\ Head(toReceiver) = Control
          /\ round + 1 = PINGS
          /\ round' = 0
          /\ rpc' = "ack"
          /\ ralarm' = FirstTimeout
    /\ UNCHANGED <<senderVars, datapack, file, first, reported, acks, lost,
                   dups, swaps, gone>>

SendAck ==
    /\ rpc = "ack"
    /\ acks' = acks + 1
    /\ \/ round + 1 < PINGS /\ round' = round + 1 /\ UNCHANGED rpc
       \/ round + 1 = PINGS /\ round' = 0 /\ rpc' = "data"
    /\ UNCHANGED <<senderVars, datapack, file, first, ralarm, reported,
                   toReceiver, lost, dups, swaps, gone>>

\* Faulty: the alarm is cancelled and no other set.
AlarmAfterBlockOff == Off

\* The alarm after a block has been read: the first one sets alarm(7).
AlarmAfterBlock == IF first THEN DataTimeout ELSE ralarm

\* Faulty: the count is tested after the increment.
FileAfterSecond(k) == IF datapack[k] = 1 THEN file \cup {k} ELSE file

\* The first copy of block k is copied into the file.
FileAfter(k) == IF datapack[k] = 0 THEN file \cup {k} ELSE file

\* Faulty: a block that never came is not reported.
MissingSome(pack) == {k \in Blocks : pack[k] \in 1 .. (PINGS - 1)}

\* The blocks the final loop prints.
Missing(pack) == {k \in Blocks : pack[k] # PINGS}

\* One packet of the data phase.  The loop ends, and the file is written, once
\* the last block is there.  A control packet makes a sequence number far past
\* the arrays.
RecvBlock ==
    /\ rpc = "data"
    /\ toReceiver # <<>>
    /\ LET k == Head(toReceiver)
           pack == [datapack EXCEPT ![k] = @ + 1] IN
         \/ /\ k = Control
            /\ rpc' = "crashed" /\ ralarm' = Off
            /\ UNCHANGED <<datapack, file, first, reported>>
         \/ /\ k # Control
            /\ datapack' = pack
            /\ file' = FileAfter(k)
            /\ first' = FALSE
            /\ \/ /\ k # Last
                  /\ ralarm' = AlarmAfterBlock
                  /\ UNCHANGED <<rpc, reported>>
               \/ /\ k = Last
                  /\ ralarm' = Off
                  /\ rpc' = "written"
                  /\ reported' = Missing(pack)
    /\ toReceiver' = Tail(toReceiver)
    /\ UNCHANGED <<senderVars, round, acks, lost, dups, swaps, gone>>

ReceiverAlarm ==
    /\ ralarm = 0
    /\ rpc' = "gaveup"
    /\ ralarm' = Off
    /\ UNCHANGED <<senderVars, round, datapack, file, first, reported, netVars,
                   gone>>

-----------------------------------------------------------------------------
(* Time and the network                                                    *)

Elapse(timer) == IF timer = Off THEN Off ELSE timer - 1

\* An alarm that is due goes off before time goes on.
Tick ==
    /\ salarm # 0 /\ ralarm # 0
    /\ salarm > 0 \/ ralarm > 0
    /\ salarm' = Elapse(salarm)
    /\ ralarm' = Elapse(ralarm)
    /\ UNCHANGED <<waits, spc, copy, blk, packselect, dropped, rpc, round,
                   datapack, file, first, reported, netVars, gone>>

Without(s, n) == SubSeq(s, 1, n - 1) \o SubSeq(s, n + 1, Len(s))

Lose ==
    /\ lost < MaxLost
    /\ \E n \in DOMAIN toReceiver :
         /\ toReceiver' = Without(toReceiver, n)
         /\ gone' = [k \in Blocks |->
                       IF k = toReceiver[n] THEN gone[k] + 1 ELSE gone[k]]
    /\ lost' = lost + 1
    /\ UNCHANGED <<senderVars, receiverVars, acks, dups, swaps>>

LoseAck ==
    /\ lost < MaxLost
    /\ acks > 0
    /\ acks' = acks - 1
    /\ lost' = lost + 1
    /\ UNCHANGED <<senderVars, receiverVars, toReceiver, dups, swaps, gone>>

Duplicate ==
    /\ dups < MaxDups
    /\ \E n \in DOMAIN toReceiver :
         toReceiver' = Append(toReceiver, toReceiver[n])
    /\ dups' = dups + 1
    /\ UNCHANGED <<senderVars, receiverVars, acks, lost, swaps, gone>>

\* A packet overtakes the one before it.
Swap ==
    /\ swaps < MaxSwaps
    /\ \E n \in 2 .. Len(toReceiver) :
         /\ toReceiver[n] # toReceiver[n - 1]
         /\ toReceiver' = [toReceiver EXCEPT ![n] = toReceiver[n - 1],
                                             ![n - 1] = toReceiver[n]]
    /\ swaps' = swaps + 1
    /\ UNCHANGED <<senderVars, receiverVars, acks, lost, dups, gone>>

-----------------------------------------------------------------------------

Sender == SendControl \/ RecvAck \/ SenderAlarm \/ SendBlock \/ DropBlock

Receiver == RecvControl \/ SendAck \/ RecvBlock \/ ReceiverAlarm

Network == Lose \/ LoseAck \/ Duplicate \/ Swap

Next == Sender \/ Receiver \/ Tick \/ Network

Spec == Init /\ [][Next]_vars

\* Both processes are scheduled and time passes; the network delivers what it
\* likes.
FairSpec == Spec /\ WF_vars(Sender) /\ WF_vars(Receiver) /\ WF_vars(Tick)

-----------------------------------------------------------------------------
(* Properties                                                              *)

\* Every variable has the values the C declarations and the control flow allow:
\* no block number and no copy goes past the end.
TypeOK ==
    /\ waits \in BOOLEAN
    /\ spc \in {"control", "ack", "data", "done", "gaveup"}
    /\ copy \in 0 .. (PINGS - 1) /\ blk \in Blocks
    /\ packselect \in [DOMAIN Rules -> Nat]
    /\ salarm \in {Off} \cup Nat
    /\ rpc \in {"control", "ack", "data", "written", "gaveup", "refused",
                "crashed"}
    /\ round \in 0 .. (PINGS - 1)
    /\ datapack \in [Blocks -> Nat]
    /\ file \in SUBSET Blocks /\ reported \in SUBSET Blocks
    /\ first \in BOOLEAN
    /\ ralarm \in {Off} \cup Nat
    /\ toReceiver \in Seq(Blocks \cup {Control})
    /\ acks \in Nat
    /\ gone \in [Blocks -> Nat] /\ dropped \in [Blocks -> Nat]
    /\ lost \in Nat /\ dups \in Nat /\ swaps \in Nat

\* On a network that keeps the order, a block is in the written file as long
\* as one of its copies was neither dropped nor lost.
SurvivesLoss ==
    rpc = "written" /\ swaps = 0 =>
      \A k \in Blocks : gone[k] < PINGS => k \in file

\* A file with a hole is never written without a report of that block, also
\* when blocks are reordered or duplicated.
HolesReported == rpc = "written" => Blocks \ file \subseteq reported

\* A control packet is never taken for a block, nor a block for a control
\* packet, unless the network duplicated a packet; without the wait for the
\* acknowledgement it must not have lost or reordered one either.
PhasesApart ==
    dups = 0 /\ (waits \/ (lost = 0 /\ swaps = 0)) =>
      rpc \notin {"crashed", "refused"}

\* When all blocks are sent, dropornot() has skipped as many copies of each
\* block as all its rules in param.dat say, up to the number of copies.
DropsOf(k, counts) ==
    UNION {{r} \X (1 .. counts[r]) : r \in {q \in DOMAIN Rules : Rules[q].seq = k}}

Configured(k) == Cardinality(DropsOf(k, [r \in DOMAIN Rules |-> Rules[r].count]))

DropsAsConfigured ==
    spc = "done" =>
      \A k \in Blocks :
        dropped[k] = IF Configured(k) < PINGS THEN Configured(k) ELSE PINGS

\* The sender ends whatever the receiver and the network do.
SenderEnds == <>(spc \in {"done", "gaveup"})

\* So does the receiver once it has the control packets: there is an alarm set
\* whenever it waits.
ReceiverEnds ==
    (rpc \in {"ack", "data"}) ~> (rpc \in {"written", "gaveup", "crashed"})
=============================================================================
