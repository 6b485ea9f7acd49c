------------------------- MODULE MusicStream_proofs -------------------------
(***************************************************************************)
(* Theorems about a streaming session, for any size of the file, of its    *)
(* chunks and of the circular buffer.                                      *)
(***************************************************************************)
EXTENDS MusicStream, SequenceTheorems, TLAPS

Values == Bytes \cup {Garbage}

\* The kth cell of the circular buffer from cell `at' on.
Cell(at, k) == IF at + k - 1 < bufsize THEN at + k - 1 ELSE at + k - 1 - bufsize

\* n bytes of the buffer mem from cell `at' on.
Ring(mem, at, n) == [k \in 1 .. n |-> mem[Cell(at, k)]]

\* What the variables of one process say about each other: the place after the
\* last byte kept, the chunks that are on their way, and the end of playback.
ClientOK ==
    /\ curr_ptr = Cell(playback_ptr, Q + 1)
    /\ flight \subseteq 0 .. (size - 1)
    /\ \A i \in DOMAIN rcvq : rcvq[i] < size
    /\ cpc = "recv" /\ ready => rcvq # <<>>
    /\ padded => ~is_streaming /\ Q = 0 /\ cpc \in {"select", "closed"}

\* Intervals on their way back were computed, and a signal has one to read.
RatesOK ==
    /\ pending => sbuf # <<>>
    /\ \A r \in rates : r <= playbacks
    /\ \A i \in DOMAIN sbuf : sbuf[i] <= playbacks
    /\ RateIsSent

StreamInv == TypeOK /\ ClientOK /\ RatesOK

-----------------------------------------------------------------------------
(* The circular buffer                                                     *)

LEMMA Wraps ==
  ASSUME NEW at \in Cells, NEW n \in 0 .. bufsize
  PROVE  (at + n) % bufsize = Cell(at, n + 1) /\ Cell(at, n + 1) \in Cells
<1>1. bufsize \in Nat \ {0} /\ at \in 0 .. (bufsize - 1)
  BY BufferAssumption DEF Cells
<1>2. CASE at + n < bufsize
  BY <1>1, <1>2 DEF Cell, Cells
<1>3. CASE ~(at + n < bufsize)
  <2>1. /\ at + n - bufsize \in 0 .. (bufsize - 1)
        /\ at + n = bufsize + (at + n - bufsize)
    BY <1>1, <1>3
  <2>2. (at + n) % bufsize = at + n - bufsize
    BY <1>1, <2>1
  <2> QED
    BY <1>1, <1>3, <2>1, <2>2 DEF Cell, Cells
<1> QED
  BY <1>2, <1>3

\* Contents() is the ring of cells, though it is written in two parts.
LEMMA RingOf ==
  ASSUME NEW mem \in [Cells -> Values], NEW at \in Cells, NEW n \in 0 .. bufsize
  PROVE  /\ Ring(mem, at, n) \in Seq(Values) /\ Len(Ring(mem, at, n)) = n
         /\ \A k \in 1 .. n :
              Ring(mem, at, n)[k] = mem[Cell(at, k)] /\ Cell(at, k) \in Cells
<1>1. bufsize \in Nat \ {0} /\ at \in 0 .. (bufsize - 1) /\ n \in Nat
  BY BufferAssumption DEF Cells
<1>2. \A k \in 1 .. n : Cell(at, k) \in Cells
  BY <1>1 DEF Cell, Cells
<1>3. \A k \in 1 .. n : mem[Cell(at, k)] \in Values
  BY <1>2
<1> QED
  BY <1>1, <1>2, <1>3 DEF Ring

LEMMA ContentsRing ==
  ASSUME TypeOK
  PROVE  \A at \in Cells, n \in 0 .. bufsize :
           Contents(at, n) = Ring(audio_buffer, at, n)
<1> SUFFICES ASSUME NEW at \in Cells, NEW n \in 0 .. bufsize
             PROVE  Contents(at, n) = Ring(audio_buffer, at, n)
  OBVIOUS
<1>1. bufsize \in Nat \ {0} /\ at \in 0 .. (bufsize - 1) /\ n \in Nat
  BY BufferAssumption DEF Cells
<1>2. \A k \in 1 .. n :
        (IF at + n <= bufsize \/ k <= bufsize - at
         THEN audio_buffer[at + k - 1]
         ELSE audio_buffer[k - (bufsize - at) - 1]) = audio_buffer[Cell(at, k)]
  <2> SUFFICES ASSUME NEW k \in 1 .. n
               PROVE  (IF at + n <= bufsize \/ k <= bufsize - at
                       THEN at + k - 1 ELSE k - (bufsize - at) - 1) = Cell(at, k)
    OBVIOUS
  <2> QED
    BY <1>1 DEF Cell
<1> QED
  BY <1>2 DEF Contents, Ring

LEMMA ContentsRingNext ==
  ASSUME TypeOK'
  PROVE  \A at \in Cells, n \in 0 .. bufsize :
           Contents(at, n)' = Ring(audio_buffer', at, n)
<1> SUFFICES ASSUME NEW at \in Cells, NEW n \in 0 .. bufsize
             PROVE  Contents(at, n)' = Ring(audio_buffer', at, n)
  OBVIOUS
<1>1. bufsize \in Nat \ {0} /\ at \in 0 .. (bufsize - 1) /\ n \in Nat
  BY BufferAssumption DEF Cells
<1>2. \A k \in 1 .. n :
        (IF at + n <= bufsize \/ k <= bufsize - at
         THEN audio_buffer'[at + k - 1]
         ELSE audio_buffer'[k - (bufsize - at) - 1]) = audio_buffer'[Cell(at, k)]
  BY <1>1 DEF Cell
<1> QED
  BY <1>2 DEF Contents, Ring

\* Going on from a cell further on; no two of bufsize cells in turn are one.
LEMMA Cells2 ==
  ASSUME NEW at \in Cells
  PROVE  /\ \A m \in 0 .. bufsize : \A j \in 1 .. bufsize :
              m + j <= bufsize => Cell(Cell(at, m + 1), j) = Cell(at, m + j)
         /\ \A j, k \in 1 .. bufsize : Cell(at, j) = Cell(at, k) => j = k
BY BufferAssumption DEF Cells, Cell

\* A chunk is stored, in one part or in two, in the cells that follow the last
\* byte kept, and in no other.
LEMMA StoredRing ==
  ASSUME TypeOK, NEW chunk \in Seq(Bytes), Len(chunk) <= bufsize
  PROVE  /\ Stored(chunk) \in [Cells -> Values]
         /\ \A k \in 1 .. Len(chunk) : Stored(chunk)[Cell(curr_ptr, k)] = chunk[k]
         /\ \A b \in Cells :
              (\A k \in 1 .. Len(chunk) : b # Cell(curr_ptr, k)) =>
                Stored(chunk)[b] = audio_buffer[b]
<1> DEFINE room == bufsize - curr_ptr
           len == Len(chunk)
           at(b) == IF b >= curr_ptr THEN b - curr_ptr + 1 ELSE b + room + 1
<1>1. /\ bufsize \in Nat \ {0} /\ curr_ptr \in 0 .. (bufsize - 1)
      /\ len \in 0 .. bufsize /\ audio_buffer \in [Cells -> Values]
      /\ Cells = 0 .. (bufsize - 1)
  <2>1. Len(chunk) \in Nat
    BY LenProperties
  <2>2. audio_buffer \in [Cells -> Values]
    BY DEF TypeOK, Values
  <2>3. curr_ptr \in Cells
    BY DEF TypeOK
  <2>4. Cells = 0 .. (bufsize - 1)
    BY DEF Cells
  <2> QED
    BY ONLY BufferAssumption, Len(chunk) <= bufsize, <2>1, <2>2, <2>3, <2>4
<1>2. \A i \in 1 .. len : chunk[i] \in Bytes
  BY ElementOfSeq
<1>3. /\ DOMAIN Stored(chunk) = Cells
      /\ \A b \in Cells :
           Stored(chunk)[b] = IF at(b) <= len THEN chunk[at(b)] ELSE audio_buffer[b]
  <2>1. CASE len + curr_ptr <= bufsize
    <3>1. Stored(chunk) = [b \in Cells |->
            IF b \in curr_ptr .. (curr_ptr + len - 1)
            THEN chunk[b - curr_ptr + 1] ELSE audio_buffer[b]]
      BY <1>1, <2>1 DEF Stored, Memcpy
    <3>2. ASSUME NEW b \in Cells
          PROVE  /\ b \in curr_ptr .. (curr_ptr + len - 1) <=> at(b) <= len
                 /\ at(b) <= len => at(b) = b - curr_ptr + 1
      BY <1>1, <2>1
    <3> HIDE DEF at
    <3> QED
      BY <3>1, <3>2
  <2>2. CASE ~(len + curr_ptr <= bufsize)
    <3> DEFINE one == SubSeq(chunk, 1, room)
               two == SubSeq(chunk, room + 1, len)
    <3>1. /\ Len(one) = room
          /\ \A i \in 1 .. room : one[i] = chunk[i]
      <4>1. 1 \in Int /\ room \in Int /\ 1 <= room
              /\ \A i \in 1 .. room : chunk[i] \in Bytes
        BY <1>1, <1>2, <2>2
      <4>2. /\ Len(one) = IF 1 <= room THEN room - 1 + 1 ELSE 0
            /\ \A i \in 1 .. (room - 1 + 1) : one[i] = chunk[1 + i - 1]
        BY ONLY <4>1, SubSeqProperties
      <4> QED
        BY <4>1, <4>2, <1>1
    <3>2. /\ Len(two) = len - room
          /\ \A i \in 1 .. (len - room) : two[i] = chunk[room + i]
      <4>1. room + 1 \in Int /\ len \in Int /\ room + 1 <= len
              /\ \A i \in (room + 1) .. len : chunk[i] \in Bytes
        BY <1>1, <1>2, <2>2
      <4>2. /\ Len(two) = IF room + 1 <= len THEN len - (room + 1) + 1 ELSE 0
            /\ \A i \in 1 .. (len - (room + 1) + 1) :
                 two[i] = chunk[(room + 1) + i - 1]
        BY ONLY <4>1, SubSeqProperties
      <4> QED
        BY <4>1, <4>2, <1>1
    <3>3. Stored(chunk) = Memcpy(Memcpy(audio_buffer, curr_ptr, one), 0, two)
      BY <2>2 DEF Stored
    <3> HIDE DEF one, two
    <3>4. Stored(chunk) = [b \in Cells |->
            IF b \in 0 .. (len - room - 1) THEN two[b + 1]
            ELSE IF b \in curr_ptr .. (curr_ptr + room - 1)
                 THEN one[b - curr_ptr + 1] ELSE audio_buffer[b]]
      BY <1>1, <3>1, <3>2, <3>3 DEF Memcpy
    <3>5. ASSUME NEW b \in Cells
          PROVE  Stored(chunk)[b]
                   = IF at(b) <= len THEN chunk[at(b)] ELSE audio_buffer[b]
      <4>1. CASE b < len - room
        <5>1. b < curr_ptr /\ b + 1 \in 1 .. (len - room) /\ b \in 0 .. (len - room - 1)
          BY <1>1, <4>1
        <5>2. Stored(chunk)[b] = chunk[room + (b + 1)]
          BY <3>2, <3>4, <5>1
        <5>3. at(b) = room + (b + 1) /\ at(b) <= len
          BY <1>1, <4>1, <5>1
        <5> QED
          BY <5>2, <5>3
      <4>2. CASE b >= len - room /\ b >= curr_ptr
        <5>1. b - curr_ptr + 1 \in 1 .. room /\ b \in curr_ptr .. (curr_ptr + room - 1)
                /\ b \notin 0 .. (len - room - 1)
          BY <1>1, <4>2
        <5>2. Stored(chunk)[b] = chunk[b - curr_ptr + 1]
          BY <3>1, <3>4, <5>1
        <5>3. at(b) = b - curr_ptr + 1 /\ at(b) <= len
          BY <1>1, <2>2, <4>2
        <5> QED
          BY <5>2, <5>3
      <4>3. CASE b >= len - room /\ b < curr_ptr
        <5>1. b \notin curr_ptr .. (curr_ptr + room - 1)
                /\ b \notin 0 .. (len - room - 1)
          BY <1>1, <4>3
        <5>2. Stored(chunk)[b] = audio_buffer[b]
          BY <3>4, <5>1
        <5>3. ~(at(b) <= len)
          BY <1>1, <4>3
        <5> QED
          BY <5>2, <5>3
      <4> QED
        BY <1>1, <4>1, <4>2, <4>3
    <3> QED
      BY <3>4, <3>5
  <2> QED
    BY <2>1, <2>2
<1>4. \A k \in 1 .. len : Cell(curr_ptr, k) \in Cells /\ at(Cell(curr_ptr, k)) = k
  BY <1>1 DEF Cell
<1>5. \A b \in Cells : at(b) \in 1 .. bufsize /\ Cell(curr_ptr, at(b)) = b
  BY <1>1 DEF Cell
<1> HIDE DEF at
<1>6. \A b \in Cells : Stored(chunk)[b] \in Values
  <2> SUFFICES ASSUME NEW b \in Cells PROVE Stored(chunk)[b] \in Values
    OBVIOUS
  <2>1. CASE at(b) <= len
    <3>1. at(b) \in 1 .. len
      BY <1>1, <1>5, <2>1
    <3> QED
      BY <1>2, <1>3, <2>1, <3>1 DEF Values
  <2>2. CASE ~(at(b) <= len)
    BY <1>1, <1>3, <2>2
  <2> QED
    BY <2>1, <2>2
<1>7. Stored(chunk) \in [Cells -> Values]
  <2>1. Stored(chunk) = [b \in Cells |-> Stored(chunk)[b]]
    <3>1. CASE len + curr_ptr <= bufsize
      BY <1>1, <3>1 DEF Stored, Memcpy
    <3>2. CASE ~(len + curr_ptr <= bufsize)
      BY <1>1, <3>2 DEF Stored, Memcpy
    <3> QED
      BY <3>1, <3>2
  <2> QED
    BY <1>6, <2>1
<1>8. \A k \in 1 .. len : Stored(chunk)[Cell(curr_ptr, k)] = chunk[k]
  BY <1>1, <1>3, <1>4
<1>9. ASSUME NEW b \in Cells, \A k \in 1 .. len : b # Cell(curr_ptr, k)
      PROVE  Stored(chunk)[b] = audio_buffer[b]
  <2>1. ~(at(b) <= len)
    BY <1>1, <1>5, <1>9
  <2> QED
    BY <1>3, <2>1
<1> QED
  BY <1>7, <1>8, <1>9

\* What is kept after a chunk was stored is what was kept before, and the chunk.
LEMMA StoredContents ==
  ASSUME TypeOK, ClientOK, NEW chunk \in Seq(Bytes), Q + Len(chunk) <= bufsize
  PROVE  Ring(Stored(chunk), playback_ptr, Q + Len(chunk))
           = Ring(audio_buffer, playback_ptr, Q) \o chunk
<1> DEFINE len == Len(chunk)
           new == Ring(Stored(chunk), playback_ptr, Q + len)
           old == Ring(audio_buffer, playback_ptr, Q)
<1>1. /\ bufsize \in Nat \ {0} /\ Q \in 0 .. bufsize /\ len \in Nat
      /\ playback_ptr \in Cells /\ audio_buffer \in [Cells -> Values]
      /\ len <= bufsize /\ Q + len \in 0 .. bufsize
  <2>1. Len(chunk) \in Nat
    BY LenProperties
  <2>2. audio_buffer \in [Cells -> Values]
    BY DEF TypeOK, Values
  <2>3. playback_ptr \in Cells /\ Q \in 0 .. bufsize
    BY DEF TypeOK
  <2> QED
    BY ONLY BufferAssumption, Q + Len(chunk) <= bufsize, <2>1, <2>2, <2>3
<1>2. /\ Stored(chunk) \in [Cells -> Values]
      /\ \A k \in 1 .. len : Stored(chunk)[Cell(curr_ptr, k)] = chunk[k]
      /\ \A b \in Cells :
           (\A k \in 1 .. len : b # Cell(curr_ptr, k)) =>
             Stored(chunk)[b] = audio_buffer[b]
  BY <1>1, StoredRing
<1>3. /\ new \in Seq(Values) /\ Len(new) = Q + len
      /\ \A k \in 1 .. (Q + len) :
           /\ new[k] = Stored(chunk)[Cell(playback_ptr, k)]
           /\ Cell(playback_ptr, k) \in Cells
  BY <1>1, <1>2, RingOf
<1>4. /\ old \in Seq(Values) /\ Len(old) = Q
      /\ \A k \in 1 .. Q : old[k] = audio_buffer[Cell(playback_ptr, k)]
  BY <1>1, RingOf
<1>5. chunk \in Seq(Values)
  BY DEF Values
<1> HIDE DEF new, old
<1>6. /\ old \o chunk \in Seq(Values) /\ Len(old \o chunk) = Q + len
      /\ \A k \in 1 .. (Q + len) :
           (old \o chunk)[k] = IF k <= Q THEN old[k] ELSE chunk[k - Q]
  BY <1>4, <1>5, ConcatProperties
<1>7. \A j \in 1 .. len : Cell(curr_ptr, j) = Cell(playback_ptr, Q + j)
  BY <1>1, Cells2 DEF ClientOK
<1>8. ASSUME NEW k \in 1 .. (Q + len)
      PROVE  new[k] = (old \o chunk)[k]
  <2>1. CASE k <= Q
    <3>1. \A j \in 1 .. len : Cell(playback_ptr, k) # Cell(curr_ptr, j)
      <4> SUFFICES ASSUME NEW j \in 1 .. len
                   PROVE  Cell(playback_ptr, k) # Cell(playback_ptr, Q + j)
        BY <1>7
      <4>1. k \in 1 .. bufsize /\ Q + j \in 1 .. bufsize /\ k # Q + j
        BY <1>1, <2>1
      <4> QED
        BY <1>1, <4>1, Cells2
    <3>2. new[k] = audio_buffer[Cell(playback_ptr, k)]
      BY <1>2, <1>3, <3>1
    <3>3. k \in 1 .. Q
      BY <1>1, <2>1
    <3> QED
      BY <1>4, <1>6, <2>1, <3>2, <3>3
  <2>2. CASE ~(k <= Q)
    <3>1. k - Q \in 1 .. len /\ Q + (k - Q) = k
      BY <1>1, <2>2
    <3>2. Stored(chunk)[Cell(playback_ptr, k)] = chunk[k - Q]
      BY <1>2, <1>7, <3>1
    <3> QED
      BY <1>3, <1>6, <2>2, <3>2
  <2> QED
    BY <2>1, <2>2
<1>9. new = old \o chunk
  BY <1>3, <1>6, <1>8, SeqEqual
<1> QED
  BY <1>9 DEF new, old

\* What is left after n bytes were played.
LEMMA RestContents ==
  ASSUME NEW mem \in [Cells -> Values], NEW at \in Cells,
         NEW q \in 0 .. bufsize, NEW n \in 0 .. q
  PROVE  /\ Ring(mem, at, n) = SubSeq(Ring(mem, at, q), 1, n)
         /\ Ring(mem, Cell(at, n + 1), q - n)
              = SubSeq(Ring(mem, at, q), n + 1, Len(Ring(mem, at, q)))
<1> DEFINE all == Ring(mem, at, q)
           taken == SubSeq(all, 1, n)
           left == SubSeq(all, n + 1, q)
           rest == Ring(mem, Cell(at, n + 1), q - n)
<1>1. bufsize \in Nat \ {0} /\ q \in Nat /\ n \in Nat /\ q - n \in 0 .. bufsize
        /\ n \in 0 .. bufsize
  BY BufferAssumption
<1>2. Cell(at, n + 1) \in Cells
  BY <1>1, Wraps
<1>3. /\ all \in Seq(Values) /\ Len(all) = q
      /\ \A k \in 1 .. q : all[k] = mem[Cell(at, k)]
  BY RingOf
<1>4. /\ rest \in Seq(Values) /\ Len(rest) = q - n
      /\ \A k \in 1 .. (q - n) : rest[k] = mem[Cell(Cell(at, n + 1), k)]
  BY <1>1, <1>2, RingOf
<1>5. /\ Ring(mem, at, n) \in Seq(Values) /\ Len(Ring(mem, at, n)) = n
      /\ \A k \in 1 .. n : Ring(mem, at, n)[k] = mem[Cell(at, k)]
  BY <1>1, RingOf
<1>6. \A k \in 1 .. q : all[k] \in Values
  BY <1>3, ElementOfSeq
<1> HIDE DEF all, rest
<1>7. /\ taken \in Seq(Values) /\ Len(taken) = n
      /\ \A k \in 1 .. n : taken[k] = all[k]
  <2>1. 1 \in Int /\ n \in Int /\ \A k \in 1 .. n : all[k] \in Values
    BY <1>1, <1>6
  <2>2. /\ taken \in Seq(Values) /\ Len(taken) = IF 1 <= n THEN n - 1 + 1 ELSE 0
        /\ \A k \in 1 .. (n - 1 + 1) : taken[k] = all[1 + k - 1]
    BY ONLY <2>1, SubSeqProperties
  <2> QED
    BY <1>1, <2>2
<1>8. /\ left \in Seq(Values) /\ Len(left) = q - n
      /\ \A k \in 1 .. (q - n) : left[k] = all[n + k]
  <2>1. n + 1 \in Int /\ q \in Int /\ \A k \in (n + 1) .. q : all[k] \in Values
    BY <1>1, <1>6
  <2>2. /\ left \in Seq(Values)
        /\ Len(left) = IF n + 1 <= q THEN q - (n + 1) + 1 ELSE 0
        /\ \A k \in 1 .. (q - (n + 1) + 1) : left[k] = all[(n + 1) + k - 1]
    BY ONLY <2>1, SubSeqProperties
  <2> QED
    BY <1>1, <2>2
<1> HIDE DEF taken, left
<1>9. Ring(mem, at, n) = taken
  <2>1. \A k \in 1 .. n : Ring(mem, at, n)[k] = taken[k]
    BY <1>1, <1>3, <1>5, <1>7
  <2> QED
    BY <1>5, <1>7, <2>1, SeqEqual
<1>10. rest = left
  <2>1. \A k \in 1 .. (q - n) : Cell(Cell(at, n + 1), k) = Cell(at, n + k)
    BY <1>1, Cells2
  <2>2. \A k \in 1 .. (q - n) : rest[k] = left[k]
    BY <1>1, <1>3, <1>4, <1>8, <2>1
  <2> QED
    BY <1>4, <1>8, <2>2, SeqEqual
<1> QED
  BY <1>3, <1>9, <1>10 DEF all, taken, left, rest

-----------------------------------------------------------------------------
(* Type correctness                                                        *)

\* TypeOK, a process at a time.
ChildTypeOK ==
    /\ size \in 0 .. MaxSize
    /\ spc \in {"open", "send", "note", "sec", "nsec", "asleep", "reset",
                "print", "done", "failed"}
    /\ sent \in 0 .. size
    /\ ilambda_log \in [0 .. (LOG_LEN - 1) -> Intervals \cup {Zero}]
    /\ entries \in 0 .. (LOG_LEN - 1)
    /\ {tv_sec, tv_nsec} \subseteq Intervals \cup {Zero}
    /\ pending \in BOOLEAN
    /\ sbuf \in Seq(Intervals)
    /\ logged \in Intervals \cup {Zero}

ClientTypeOK ==
    /\ cpc \in {"select", "recv", "play", "closed", "failed"}
    /\ is_streaming \in BOOLEAN /\ started \in BOOLEAN /\ ready \in BOOLEAN
    /\ audio_buffer \in [Cells -> Bytes \cup {Garbage}]
    /\ curr_ptr \in Cells /\ playback_ptr \in Cells /\ Q \in 0 .. bufsize
    /\ due \in BOOLEAN /\ playbacks \in Nat

NetTypeOK ==
    /\ tcp \in {"", "Q", "eof"}
    /\ flight \subseteq 0 .. MaxSize /\ rcvq \in Seq(0 .. MaxSize)
    /\ rates \subseteq Intervals
    /\ played \in Seq(Bytes \cup {Garbage})
    /\ padded \in BOOLEAN

LEMMA TypesSplit == TypeOK <=> ChildTypeOK /\ ClientTypeOK /\ NetTypeOK
BY Zenon DEF TypeOK, ChildTypeOK, ClientTypeOK, NetTypeOK

LEMMA TypesSplitNext ==
  TypeOK' <=> ChildTypeOK' /\ ClientTypeOK' /\ NetTypeOK'
BY Zenon DEF TypeOK, ChildTypeOK, ClientTypeOK, NetTypeOK

LEMMA InitStream == Init => StreamInv
<1> SUFFICES ASSUME Init PROVE StreamInv
  OBVIOUS
<1> DEFINE log == [e \in 0 .. (LOG_LEN - 1) |-> Initial]
<1>1. /\ 0 \in Cells /\ 0 \in 0 .. bufsize /\ Cell(0, 0 + 1) = 0
      /\ 0 \in 0 .. (LOG_LEN - 1) /\ Initial \in Intervals
      /\ Initial # Zero /\ Initial <= 0
  BY BufferAssumption, LogAssumption
  DEF Cells, Cell, Intervals, Initial, Zero
<1>2. log \in [0 .. (LOG_LEN - 1) -> Intervals \cup {Zero}] /\ log[0] = Initial
  BY ONLY <1>1
<1>e. /\ <<>> \in Seq(Intervals) /\ <<>> \in Seq(0 .. MaxSize)
      /\ <<>> \in Seq(Bytes \cup {Garbage})
      /\ \A i \in DOMAIN <<>> : FALSE
  BY ONLY EmptySeq
<1>3. ChildTypeOK
  <2>1. /\ size \in 0 .. MaxSize /\ spc = "open" /\ sent = 0 /\ entries = 0
        /\ logged = Initial /\ ilambda_log = log /\ pending = FALSE
        /\ tv_sec = Initial /\ tv_nsec = Initial /\ sbuf = <<>>
    BY DEF Init, InitServer
  <2>2. 0 \in 0 .. size
    BY ONLY <2>1, SizeAssumption
  <2> HIDE DEF log
  <2> QED
    BY ONLY <1>1, <1>2, <1>e, <2>1, <2>2 DEF ChildTypeOK
<1>4. ClientTypeOK
  <2>1. [b \in Cells |-> Garbage] \in [Cells -> Bytes \cup {Garbage}]
    OBVIOUS
  <2> QED
    BY <1>1, <2>1 DEF Init, InitClient, ClientTypeOK
<1>f. tcp = "" /\ flight = {} /\ rcvq = <<>> /\ rates = {} /\ played = <<>>
        /\ padded = FALSE
  BY DEF Init, InitNetwork
<1>5. NetTypeOK
  BY ONLY <1>e, <1>f DEF NetTypeOK
<1>6. ClientOK
  <2>1. cpc = "select" /\ playback_ptr = 0 /\ curr_ptr = 0 /\ Q = 0
    BY DEF Init, InitClient
  <2> QED
    BY ONLY <1>1, <1>e, <1>f, <2>1 DEF ClientOK
<1>7. RatesOK
  <2>1. pending = FALSE /\ sbuf = <<>> /\ rates = {} /\ playbacks = 0
          /\ ilambda_log[0] = Initial /\ tv_sec = Initial /\ tv_nsec = Initial
    BY <1>2 DEF Init, InitServer, InitClient, InitNetwork
  <2> QED
    BY ONLY <1>1, <2>1 DEF RatesOK, RateIsSent
<1> QED
  BY <1>3, <1>4, <1>5, <1>6, <1>7, TypesSplit DEF StreamInv

\* The bytes of a chunk are bytes of the file.
LEMMA ChunkType ==
  ASSUME TypeOK, NEW n \in 0 .. MaxSize, n < size
  PROVE  /\ Chunk(n) \in Seq(Bytes)
         /\ Len(Chunk(n)) = Lesser(BUFSIZE, size - n)
         /\ Len(Chunk(n)) \in 1 .. BUFSIZE /\ n + Len(Chunk(n)) <= size
         /\ Chunk(n) = [k \in 1 .. Len(Chunk(n)) |-> n + k]
<1>1. size \in 0 .. MaxSize /\ BUFSIZE \in Nat \ {0} /\ MaxSize \in Nat
  BY BlockAssumption, SizeAssumption DEF TypeOK
<1> DEFINE l == Lesser(BUFSIZE, size - n)
<1>2. l \in 1 .. BUFSIZE /\ n + l <= size
  BY <1>1 DEF Lesser
<1> HIDE DEF l
<1>3. \A k \in 1 .. l : n + k \in Bytes
  BY <1>1, <1>2 DEF Bytes
<1>4. [k \in 1 .. l |-> n + k] \in Seq(Bytes) /\ Len([k \in 1 .. l |-> n + k]) = l
  BY <1>2, <1>3
<1> QED
  BY <1>2, <1>4 DEF Chunk, l

\* The child's steps.
LEMMA ChildTypes == StreamInv /\ Child => TypeOK'
<1> SUFFICES ASSUME StreamInv, Child PROVE TypeOK'
  OBVIOUS
<1> USE DEF childVars, sleepVars, signalVars, bufferVars, clientVars, netVars,
        histVars
<1>1. TypeOK /\ ChildTypeOK /\ ClientTypeOK /\ NetTypeOK
  BY TypesSplit DEF StreamInv
<1>2. ClientTypeOK'
  <2>1. UNCHANGED clientVars
    BY DEF Child, Open, Send, Note, ReadSec, ReadNsec, Wake, EndOfFile,
       ResetLog, PrintLog, Handler
  <2> QED
    BY ONLY <1>1, <2>1 DEF ClientTypeOK, clientVars, bufferVars
<1>3. CASE Open \/ ReadSec \/ ReadNsec \/ Wake \/ EndOfFile
  <2>1. /\ spc' \in {"open", "send", "nsec", "asleep", "reset", "failed"}
        /\ UNCHANGED <<size, sent, ilambda_log, entries, logged, signalVars>>
        /\ {tv_sec', tv_nsec'} \subseteq {tv_sec, tv_nsec, ilambda_log[0], Initial}
    BY <1>3 DEF Open, ReadSec, ReadNsec, Wake, EndOfFile
  <2>2. tcp' \in {tcp, "Q", "eof"} /\ UNCHANGED <<flight, rcvq, rates, histVars>>
    BY <1>3 DEF Open, ReadSec, ReadNsec, Wake, EndOfFile
  <2>e. ilambda_log[0] \in Intervals \cup {Zero} /\ Initial \in Intervals
    BY ONLY <1>1, LogAssumption DEF ChildTypeOK, Intervals, Initial
  <2>3. ChildTypeOK'
    BY ONLY <1>1, <2>1, <2>e DEF ChildTypeOK, signalVars
  <2>4. NetTypeOK'
    BY ONLY <1>1, <2>2 DEF NetTypeOK, histVars
  <2> QED
    BY <1>2, <2>3, <2>4, TypesSplitNext
<1>4. CASE Send
  <2>1. sent \in 0 .. MaxSize /\ sent < size /\ size \in 0 .. MaxSize
    BY ONLY <1>1, <1>4, SizeAssumption DEF Send, ChildTypeOK
  <2>2. sent' \in 0 .. size
    <3>1. Len(Chunk(sent)) \in 1 .. BUFSIZE /\ sent + Len(Chunk(sent)) <= size
      BY <1>1, <2>1, ChunkType
    <3>2. sent' = sent + Len(Chunk(sent))
      BY <1>4 DEF Send
    <3> QED
      BY ONLY <2>1, <3>1, <3>2, SizeAssumption, BlockAssumption
  <2>3. ChildTypeOK'
    <3>1. /\ spc' = "note"
          /\ UNCHANGED <<size, ilambda_log, entries, logged, tv_sec, tv_nsec,
                         signalVars>>
      BY <1>4 DEF Send
    <3> QED
      BY ONLY <1>1, <2>2, <3>1 DEF ChildTypeOK, signalVars
  <2>4. NetTypeOK'
    <3>1. flight' = flight \cup {sent} /\ UNCHANGED <<tcp, rcvq, rates, histVars>>
      BY <1>4 DEF Send
    <3> QED
      BY ONLY <1>1, <2>1, <3>1 DEF NetTypeOK, histVars
  <2> QED
    BY <1>2, <2>3, <2>4, TypesSplitNext
<1>5. CASE Note \/ ResetLog \/ PrintLog \/ Handler
  <2>1. /\ LOG_LEN \in Nat \ {0} /\ entries \in 0 .. (LOG_LEN - 1)
        /\ ilambda_log \in [0 .. (LOG_LEN - 1) -> Intervals \cup {Zero}]
        /\ sbuf \in Seq(Intervals) /\ Initial \in Intervals
    BY ONLY <1>1, LogAssumption DEF ChildTypeOK, Intervals, Initial
  <2>2. entries' \in 0 .. (LOG_LEN - 1)
    <3>1. \/ entries' = entries
          \/ entries < LOG_LEN - 1 /\ entries' = entries + 1
      BY <1>5 DEF Note, ResetLog, PrintLog, Handler, LogHasRoom
    <3> QED
      BY ONLY <2>1, <3>1
  <2>3. sbuf' \in Seq(Intervals)
            /\ (IF sbuf # <<>> THEN Head(sbuf) ELSE Zero) \in Intervals \cup {Zero}
    <3>1. sbuf' = sbuf \/ (sbuf # <<>> /\ sbuf' = Tail(sbuf))
      BY <1>5 DEF Note, ResetLog, PrintLog, Handler
    <3> QED
      BY ONLY <2>1, <3>1, HeadTailProperties
  <2>4. ilambda_log' \in [0 .. (LOG_LEN - 1) -> Intervals \cup {Zero}]
    <3>1. ilambda_log[0] \in Intervals \cup {Zero}
      BY ONLY <2>1
    <3>2. \E e \in Nat, i \in Intervals \cup {Zero} :
            ilambda_log' = ilambda_log \/ ilambda_log' = [ilambda_log EXCEPT ![e] = i]
      <4>1. CASE Note
        <5>1. entries + 1 \in Nat
          BY ONLY <2>1
        <5>2. ilambda_log' = ilambda_log
                \/ ilambda_log' = [ilambda_log EXCEPT ![entries + 1] = ilambda_log[0]]
          BY <4>1 DEF Note
        <5> QED
          BY ONLY <3>1, <5>1, <5>2
      <4>2. CASE ResetLog
        BY ONLY <2>1, <4>2 DEF ResetLog
      <4>3. CASE PrintLog
        BY ONLY <2>1, <3>1, <4>3 DEF PrintLog
      <4>4. CASE Handler
        BY ONLY <2>3, <4>4 DEF Handler
      <4> QED
        BY ONLY <1>5, <4>1, <4>2, <4>3, <4>4
    <3> QED
      BY ONLY <2>1, <3>2
  <2>5. ChildTypeOK'
    <3>1. /\ spc' \in {"sec", "print", "done", spc}
          /\ logged' \in {logged, ilambda_log[0]}
          /\ pending' \in {pending, FALSE}
          /\ UNCHANGED <<size, sent, tv_sec, tv_nsec>>
      BY <1>5 DEF Note, ResetLog, PrintLog, Handler
    <3>2. logged' \in Intervals \cup {Zero}
      BY ONLY <1>1, <2>1, <3>1 DEF ChildTypeOK
    <3> QED
      BY ONLY <1>1, <2>2, <2>3, <2>4, <3>1, <3>2 DEF ChildTypeOK
  <2>6. NetTypeOK'
    <3>1. UNCHANGED <<netVars, histVars>>
      BY <1>5 DEF Note, ResetLog, PrintLog, Handler
    <3> QED
      BY ONLY <1>1, <3>1 DEF NetTypeOK, netVars, histVars
  <2> QED
    BY <1>2, <2>5, <2>6, TypesSplitNext
<1> QED
  BY <1>3, <1>4, <1>5 DEF Child

\* The client keeps a chunk: both pointers stay in the buffer.
LEMMA KeepFacts ==
  ASSUME StreamInv, Recv, ready, Fits(Chunk(Head(rcvq)))
  PROVE  LET chunk == Chunk(Head(rcvq)) IN
           /\ Head(rcvq) \in 0 .. MaxSize
           /\ chunk \in Seq(Bytes) /\ Len(chunk) \in 1 .. BUFSIZE
           /\ chunk = [k \in 1 .. Len(chunk) |-> Head(rcvq) + k]
           /\ Q + Len(chunk) \in 0 .. bufsize
           /\ Q' = Q + Len(chunk) /\ audio_buffer' = Stored(chunk)
           /\ audio_buffer' \in [Cells -> Values]
           /\ curr_ptr' \in Cells /\ curr_ptr' = Cell(playback_ptr, Q' + 1)
<1> DEFINE n == Head(rcvq)
           chunk == Chunk(n)
<1>1. TypeOK /\ ClientOK
  BY DEF StreamInv
<1>2. rcvq # <<>>
  BY <1>1 DEF Recv, ClientOK
<1>3. rcvq \in Seq(0 .. MaxSize)
  BY <1>1 DEF TypeOK
<1>4. n \in 0 .. MaxSize /\ n < size
  <2>1. Len(rcvq) \in Nat \ {0} /\ DOMAIN rcvq = 1 .. Len(rcvq)
    BY <1>2, <1>3, EmptySeq, LenProperties
  <2>2. n = rcvq[1]
    BY <1>2, <1>3
  <2>3. 1 \in 1 .. Len(rcvq)
    BY ONLY <2>1
  <2>4. 1 \in DOMAIN rcvq /\ rcvq[1] \in 0 .. MaxSize
    BY ONLY <1>3, <2>1, <2>3, ElementOfSeq
  <2> QED
    BY <1>1, <2>2, <2>4 DEF ClientOK
<1>5. /\ chunk \in Seq(Bytes) /\ Len(chunk) \in 1 .. BUFSIZE
      /\ chunk = [k \in 1 .. Len(chunk) |-> n + k]
  BY <1>1, <1>4, ChunkType
<1>6. /\ audio_buffer' = Stored(chunk)
      /\ curr_ptr' = (curr_ptr + Len(chunk)) % bufsize
      /\ Q' = Q + Len(chunk)
  BY DEF Recv
<1>7. Q + Len(chunk) <= bufsize
  BY DEF Fits
<1> HIDE DEF n, chunk
<1>8. /\ bufsize \in Nat \ {0} /\ BUFSIZE \in Nat /\ Q \in 0 .. bufsize
      /\ curr_ptr \in Cells /\ playback_ptr \in Cells
  BY <1>1, BufferAssumption, BlockAssumption DEF TypeOK
<1>9. Len(chunk) \in 0 .. bufsize /\ Len(chunk) \in Nat /\ Q + Len(chunk) \in 0 .. bufsize
  BY <1>5, <1>7, <1>8
<1>10. audio_buffer' \in [Cells -> Values]
  BY <1>1, <1>5, <1>6, <1>9, StoredRing
<1>11. curr_ptr' = Cell(curr_ptr, Len(chunk) + 1) /\ curr_ptr' \in Cells
  BY <1>6, <1>8, <1>9, Wraps
<1>12. curr_ptr' = Cell(playback_ptr, Q' + 1)
  <2>1. curr_ptr = Cell(playback_ptr, Q + 1)
    BY <1>1 DEF ClientOK
  <2>2. curr_ptr \in 0 .. (bufsize - 1) /\ playback_ptr \in 0 .. (bufsize - 1)
    BY <1>8 DEF Cells
  <2>3. Q \in Nat /\ Q' = Q + Len(chunk) /\ Len(chunk) \in Nat /\ Q' <= bufsize
    BY ONLY <1>6, <1>8, <1>9
  <2> QED
    BY ONLY <1>8, <1>11, <2>1, <2>2, <2>3 DEF Cell
<1> QED
  BY <1>4, <1>5, <1>6, <1>9, <1>10, <1>11, <1>12 DEF n, chunk

\* The client plays: what is left follows what was played.
LEMMA PlayFacts ==
  ASSUME StreamInv, Play, MayPlay
  PROVE  LET n == Lesser(Q, BUFSIZE) IN
           /\ n \in 1 .. BUFSIZE /\ n \in 0 .. Q
           /\ n = BUFSIZE \/ (~is_streaming /\ n = Q /\ n < BUFSIZE)
           /\ Q' = Q - n /\ Q' \in 0 .. bufsize
           /\ playback_ptr' = Cell(playback_ptr, n + 1) /\ playback_ptr' \in Cells
           /\ curr_ptr = Cell(playback_ptr', Q' + 1)
           /\ played' = played \o Ring(audio_buffer, playback_ptr, n)
           /\ padded' = (padded \/ n < BUFSIZE)
           /\ ~padded
<1> DEFINE n == Lesser(Q, BUFSIZE)
<1>1. TypeOK /\ ClientOK
  BY DEF StreamInv
<1>2. /\ bufsize \in Nat \ {0} /\ BUFSIZE \in Nat \ {0} /\ Q \in 0 .. bufsize
      /\ curr_ptr \in Cells /\ playback_ptr \in Cells
  BY <1>1, BufferAssumption, BlockAssumption DEF TypeOK
<1>3. /\ n \in 1 .. BUFSIZE /\ n \in 0 .. Q /\ n \in 0 .. bufsize
      /\ n = BUFSIZE \/ (~is_streaming /\ n = Q /\ n < BUFSIZE)
  BY <1>2 DEF MayPlay, Lesser
<1>4. /\ played' = played \o Contents(playback_ptr, n)
      /\ padded' = (padded \/ n < BUFSIZE)
      /\ playback_ptr' = (playback_ptr + n) % bufsize
      /\ Q' = Q - n
  BY DEF Play
<1>5. ~padded
  BY <1>1 DEF Play, ClientOK
<1> HIDE DEF n
<1>6. Q' \in 0 .. bufsize
  BY <1>2, <1>3, <1>4
<1>7. playback_ptr' = Cell(playback_ptr, n + 1) /\ playback_ptr' \in Cells
  BY <1>2, <1>3, <1>4, Wraps
<1>8. curr_ptr = Cell(playback_ptr', Q' + 1)
  <2>1. curr_ptr = Cell(playback_ptr, Q + 1)
    BY <1>1 DEF ClientOK
  <2>2. curr_ptr \in 0 .. (bufsize - 1) /\ playback_ptr \in 0 .. (bufsize - 1)
    BY <1>2 DEF Cells
  <2>3. Q \in Nat /\ n \in Nat /\ Q' = Q - n /\ Q' \in Nat /\ Q <= bufsize
    BY ONLY <1>2, <1>3, <1>4
  <2> QED
    BY ONLY <1>2, <1>7, <2>1, <2>2, <2>3 DEF Cell
<1>9. Contents(playback_ptr, n) = Ring(audio_buffer, playback_ptr, n)
  BY <1>1, <1>2, <1>3, ContentsRing
<1> QED
  BY <1>3, <1>4, <1>5, <1>6, <1>7, <1>8, <1>9 DEF n

\* The client's steps.
LEMMA ClientTypes == StreamInv /\ Client => TypeOK'
<1> SUFFICES ASSUME StreamInv, Client PROVE TypeOK'
  OBVIOUS
<1> USE DEF childVars, sleepVars, signalVars, bufferVars, clientVars, netVars,
        histVars
<1>1. TypeOK /\ ChildTypeOK /\ ClientTypeOK /\ NetTypeOK
  BY TypesSplit DEF StreamInv
<1>2. ChildTypeOK'
  <2>1. UNCHANGED <<size, childVars, signalVars>>
    BY DEF Client, Select, Recv, Play, Quit
  <2> QED
    BY ONLY <1>1, <2>1 DEF ChildTypeOK, childVars, signalVars
<1>3. CASE Select \/ Quit
  <2>1. /\ cpc' \in {"recv", "failed", "closed"}
        /\ is_streaming' \in {is_streaming, FALSE} /\ ready' \in BOOLEAN
        /\ tcp' \in {tcp, "eof"}
    BY ONLY <1>1, <1>3 DEF Select, Quit, ClientTypeOK
  <2>2. UNCHANGED <<started, bufferVars, due, playbacks, flight, rcvq, rates,
                    histVars>>
    BY <1>3 DEF Select, Quit
  <2>3. ClientTypeOK'
    BY ONLY <1>1, <2>1, <2>2 DEF ClientTypeOK, bufferVars
  <2>4. NetTypeOK'
    BY ONLY <1>1, <2>1, <2>2 DEF NetTypeOK, histVars
  <2> QED
    BY <1>2, <2>3, <2>4, TypesSplitNext
<1>4. CASE Recv
  <2>1. audio_buffer' \in [Cells -> Bytes \cup {Garbage}]
          /\ curr_ptr' \in Cells /\ Q' \in 0 .. bufsize
    <3>1. CASE ready /\ Fits(Chunk(Head(rcvq)))
      BY <1>4, <3>1, KeepFacts DEF Values
    <3>2. CASE ~(ready /\ Fits(Chunk(Head(rcvq))))
      <4>1. UNCHANGED <<audio_buffer, curr_ptr, Q>>
        BY <1>4, <3>2 DEF Recv
      <4> QED
        BY ONLY <1>1, <4>1 DEF ClientTypeOK
    <3> QED
      BY <3>1, <3>2
  <2>2. rcvq' \in Seq(0 .. MaxSize)
    <3>1. rcvq' = rcvq \/ (rcvq # <<>> /\ rcvq' = Tail(rcvq))
      BY <1>1, <1>4 DEF Recv, StreamInv, ClientOK
    <3> QED
      BY ONLY <1>1, <3>1, HeadTailProperties DEF NetTypeOK
  <2>3. cpc' = "play" /\ started' \in BOOLEAN
          /\ UNCHANGED <<is_streaming, ready, playback_ptr, due, playbacks, tcp,
                         flight, rates, histVars>>
    BY <1>4 DEF Recv
  <2>4. ClientTypeOK'
    BY ONLY <1>1, <2>1, <2>3 DEF ClientTypeOK
  <2>5. NetTypeOK'
    BY ONLY <1>1, <2>2, <2>3 DEF NetTypeOK, histVars
  <2> QED
    BY <1>2, <2>4, <2>5, TypesSplitNext
<1>5. CASE Play
  <2>1. /\ playback_ptr' \in Cells /\ Q' \in 0 .. bufsize
        /\ played' \in Seq(Bytes \cup {Garbage}) /\ padded' \in BOOLEAN
        /\ due' \in BOOLEAN /\ playbacks' \in Nat /\ rates' \subseteq Intervals
    <3>1. CASE MayPlay
      <4> DEFINE block == Ring(audio_buffer, playback_ptr, Lesser(Q, BUFSIZE))
      <4>1. /\ playback_ptr' \in Cells /\ Q' \in 0 .. bufsize
            /\ played' = played \o block
            /\ padded' = (padded \/ Lesser(Q, BUFSIZE) < BUFSIZE)
            /\ Lesser(Q, BUFSIZE) \in 0 .. Q
        BY <1>5, <3>1, PlayFacts
      <4>2. /\ audio_buffer \in [Cells -> Values] /\ playback_ptr \in Cells
            /\ bufsize \in Nat /\ Q \in 0 .. bufsize
        BY ONLY <1>1, BufferAssumption DEF ClientTypeOK, Values
      <4>3. Lesser(Q, BUFSIZE) \in 0 .. bufsize
        BY ONLY <4>1, <4>2
      <4>4. block \in Seq(Values)
        BY ONLY <4>2, <4>3, RingOf
      <4> HIDE DEF block
      <4>5. played' \in Seq(Values)
        BY ONLY <1>1, <4>1, <4>4, ConcatProperties DEF NetTypeOK, Values
      <4>6. due' = FALSE /\ playbacks' = playbacks + 1
              /\ rates' = rates \cup {playbacks + 1}
        BY <1>5, <3>1 DEF Play
      <4>7. playbacks' \in Nat /\ rates' \subseteq Intervals
        <5>1. playbacks \in Nat /\ rates \subseteq Nat
          BY ONLY <1>1 DEF ClientTypeOK, NetTypeOK, Intervals
        <5> QED
          BY ONLY <4>6, <5>1 DEF Intervals
      <4> QED
        BY <4>1, <4>5, <4>6, <4>7 DEF Values
    <3>2. CASE ~MayPlay
      <4>1. UNCHANGED <<played, padded, playback_ptr, Q, due, playbacks, rates>>
        BY <1>5, <3>2 DEF Play
      <4> QED
        BY ONLY <1>1, <4>1 DEF ClientTypeOK, NetTypeOK
    <3> QED
      BY <3>1, <3>2
  <2>2. cpc' = "select"
          /\ UNCHANGED <<is_streaming, started, ready, audio_buffer, curr_ptr, tcp,
                         flight, rcvq>>
    BY <1>5 DEF Play
  <2>3. ClientTypeOK'
    BY ONLY <1>1, <2>1, <2>2 DEF ClientTypeOK
  <2>4. NetTypeOK'
    BY ONLY <1>1, <2>1, <2>2 DEF NetTypeOK
  <2> QED
    BY <1>2, <2>3, <2>4, TypesSplitNext
<1> QED
  BY <1>3, <1>4, <1>5 DEF Client

\* Time and the network.
LEMMA NetTypes == StreamInv /\ (Elapse \/ Network) => TypeOK'
<1> SUFFICES ASSUME StreamInv, Elapse \/ Network PROVE TypeOK'
  OBVIOUS
<1> USE DEF childVars, sleepVars, signalVars, bufferVars, clientVars, netVars,
        histVars
<1>1. TypeOK /\ ChildTypeOK /\ ClientTypeOK /\ NetTypeOK
  BY TypesSplit DEF StreamInv
<1>2. ClientTypeOK'
  <2>1. /\ due' \in {due, TRUE}
        /\ UNCHANGED <<cpc, is_streaming, started, ready, bufferVars, playbacks>>
    BY DEF Elapse, Network, ChunkArrives, RateArrives, Lose
  <2> QED
    BY ONLY <1>1, <2>1 DEF ClientTypeOK, bufferVars
<1>3. ChildTypeOK'
  <2>1. CASE \E r \in rates : RateArrives(r)
    <3>1. PICK r \in rates : sbuf' = Append(sbuf, r) /\ pending' = TRUE
                               /\ UNCHANGED <<size, childVars>>
      BY <2>1 DEF RateArrives
    <3>2. r \in Intervals
      BY ONLY <1>1, r \in rates DEF NetTypeOK
    <3>3. sbuf' \in Seq(Intervals)
      BY ONLY <1>1, <3>1, <3>2, AppendProperties DEF ChildTypeOK
    <3> QED
      BY ONLY <1>1, <3>1, <3>3 DEF ChildTypeOK, childVars
  <2>2. CASE ~\E r \in rates : RateArrives(r)
    <3>1. UNCHANGED <<size, childVars, signalVars>>
      BY <2>2 DEF Elapse, Network, ChunkArrives, Lose
    <3> QED
      BY ONLY <1>1, <3>1 DEF ChildTypeOK, childVars, signalVars
  <2> QED
    BY <2>1, <2>2
<1>4. NetTypeOK'
  <2>1. rcvq' \in Seq(0 .. MaxSize)
    <3>1. rcvq' = rcvq \/ \E n \in flight : rcvq' = Append(rcvq, n)
      BY DEF Elapse, Network, ChunkArrives, RateArrives, Lose
    <3>2. rcvq \in Seq(0 .. MaxSize) /\ flight \subseteq 0 .. MaxSize
      BY ONLY <1>1 DEF NetTypeOK
    <3>3. \A n \in flight : Append(rcvq, n) \in Seq(0 .. MaxSize)
      BY ONLY <3>2, AppendProperties
    <3> QED
      BY ONLY <3>1, <3>2, <3>3
  <2>2. flight' \subseteq flight /\ rates' \subseteq rates /\ UNCHANGED <<tcp, histVars>>
    BY DEF Elapse, Network, ChunkArrives, RateArrives, Lose
  <2> QED
    BY ONLY <1>1, <2>1, <2>2 DEF NetTypeOK, histVars
<1> QED
  BY <1>2, <1>3, <1>4, TypesSplitNext

-----------------------------------------------------------------------------
(* The rest of the invariant                                               *)

LEMMA ClientNext == StreamInv /\ Next => ClientOK'
<1> SUFFICES ASSUME StreamInv, Next PROVE ClientOK'
  OBVIOUS
<1> USE DEF childVars, sleepVars, signalVars, bufferVars, clientVars, netVars,
        histVars
<1>1. TypeOK /\ ClientOK
  BY DEF StreamInv
<1>t. /\ rcvq \in Seq(0 .. MaxSize) /\ size \in 0 .. MaxSize /\ sent \in 0 .. size
      /\ MaxSize \in Nat
  BY <1>1, SizeAssumption DEF TypeOK
<1>q. bufsize \in Nat /\ Q \in 0 .. bufsize /\ BUFSIZE \in Nat
  <2>1. Q \in 0 .. bufsize
    BY ONLY <1>1 DEF TypeOK
  <2> QED
    BY ONLY <2>1, BufferAssumption, BlockAssumption
<1>2. CASE Child
  <2>1. UNCHANGED <<clientVars, rcvq, histVars, size>>
    BY <1>2
    DEF Child, Open, Send, Note, ReadSec, ReadNsec, Wake, EndOfFile,
       ResetLog, PrintLog, Handler
  <2>2. flight' \subseteq 0 .. (size - 1)
    <3>1. flight' = flight \/ (sent < size /\ flight' = flight \cup {sent})
      BY <1>2
      DEF Child, Open, Send, Note, ReadSec, ReadNsec, Wake, EndOfFile,
         ResetLog, PrintLog, Handler
    <3>2. flight \subseteq 0 .. (size - 1)
      BY ONLY <1>1 DEF ClientOK
    <3>3. sent < size => sent \in 0 .. (size - 1)
      BY ONLY <1>t
    <3> QED
      BY ONLY <3>1, <3>2, <3>3
  <2> QED
    BY ONLY <1>1, <2>1, <2>2 DEF ClientOK, clientVars, bufferVars, histVars, Cell
<1>3. CASE Select \/ Quit
  <2>1. UNCHANGED <<bufferVars, size, flight, rcvq, histVars>>
    BY ONLY <1>3 DEF Select, Quit
  <2>2. cpc' = "recv" /\ ready' => rcvq # <<>>
    BY ONLY <1>3 DEF Select, Quit
  <2>3. padded => cpc' = "closed" /\ ~is_streaming'
    <3>1. CASE Select
      <4>1. is_streaming \/ Q > 0
        BY ONLY <3>1 DEF Select
      <4>2. Q > 0 => Q # 0
        BY ONLY <1>q
      <4> QED
        BY ONLY <1>1, <4>1, <4>2 DEF ClientOK
    <3>2. CASE Quit
      BY ONLY <3>2 DEF Quit
    <3> QED
      BY ONLY <1>3, <3>1, <3>2
  <2> QED
    BY ONLY <1>1, <2>1, <2>2, <2>3 DEF ClientOK, bufferVars, histVars, Cell
<1>4. CASE Recv
  <2>1. cpc' = "play" /\ ~padded' /\ UNCHANGED <<size, flight, playback_ptr>>
    BY <1>1, <1>4 DEF Recv, ClientOK
  <2>2. curr_ptr' = Cell(playback_ptr', Q' + 1)
    <3>1. CASE ready /\ Fits(Chunk(Head(rcvq)))
      BY <1>4, <2>1, <3>1, KeepFacts
    <3>2. CASE ~(ready /\ Fits(Chunk(Head(rcvq))))
      <4>1. UNCHANGED <<curr_ptr, Q>>
        BY <1>4, <3>2 DEF Recv
      <4> QED
        BY ONLY <1>1, <2>1, <4>1 DEF ClientOK
    <3> QED
      BY <3>1, <3>2
  <2>3. \A i \in DOMAIN rcvq' : rcvq'[i] < size
    <3>1. rcvq' = rcvq \/ (rcvq # <<>> /\ rcvq' = Tail(rcvq))
      BY <1>1, <1>4 DEF Recv, ClientOK
    <3>2. CASE rcvq' = rcvq
      BY ONLY <1>1, <3>2 DEF ClientOK
    <3>3. CASE rcvq # <<>> /\ rcvq' = Tail(rcvq)
      <4>1. /\ rcvq' \in Seq(0 .. MaxSize) /\ Len(rcvq') = Len(rcvq) - 1
            /\ \A i \in 1 .. Len(rcvq') : rcvq'[i] = rcvq[i + 1]
        BY ONLY <1>t, <3>3, HeadTailProperties
      <4>2. DOMAIN rcvq' = 1 .. Len(rcvq') /\ DOMAIN rcvq = 1 .. Len(rcvq)
              /\ Len(rcvq) \in Nat
        BY ONLY <1>t, <4>1, LenProperties
      <4>3. \A i \in DOMAIN rcvq' : i + 1 \in DOMAIN rcvq
        BY ONLY <4>1, <4>2
      <4> QED
        BY ONLY <1>1, <4>1, <4>2, <4>3 DEF ClientOK
    <3> QED
      BY <3>1, <3>2, <3>3
  <2> QED
    BY ONLY <1>1, <2>1, <2>2, <2>3 DEF ClientOK
<1>5. CASE Play
  <2>1. cpc' = "select" /\ UNCHANGED <<is_streaming, curr_ptr, size, flight, rcvq>>
    BY <1>5 DEF Play
  <2>2. curr_ptr' = Cell(playback_ptr', Q' + 1)
          /\ (padded' => ~is_streaming' /\ Q' = 0)
    <3>1. CASE MayPlay
      <4> DEFINE n == Lesser(Q, BUFSIZE)
      <4>1. /\ n \in 1 .. BUFSIZE
            /\ n = BUFSIZE \/ (~is_streaming /\ n = Q /\ n < BUFSIZE)
            /\ Q' = Q - n /\ curr_ptr = Cell(playback_ptr', Q' + 1)
            /\ padded' = (padded \/ n < BUFSIZE) /\ ~padded
        BY <1>5, <3>1, PlayFacts
      <4> HIDE DEF n
      <4>n. n \in Nat /\ Q \in Nat
        BY ONLY <1>q, <4>1, BlockAssumption
      <4>2. padded' => ~is_streaming /\ Q' = 0
        <5>1. CASE n = BUFSIZE
          <6>1. ~(n < BUFSIZE)
            BY ONLY <5>1, <4>n
          <6>2. padded' = FALSE
            BY ONLY <6>1, <4>1
          <6> QED
            BY ONLY <6>2
        <5>2. CASE ~is_streaming /\ n = Q
          <6>1. Q' = Q - Q
            BY ONLY <5>2, <4>1
          <6>2. Q' = 0
            BY ONLY <6>1, <4>n
          <6> QED
            BY ONLY <5>2, <6>2
        <5> QED
          BY ONLY <4>1, <5>1, <5>2
      <4> QED
        BY ONLY <2>1, <4>1, <4>2
    <3>2. CASE ~MayPlay
      <4>1. UNCHANGED <<playback_ptr, Q, padded>>
        BY <1>5, <3>2 DEF Play
      <4> QED
        BY ONLY <1>1, <2>1, <4>1 DEF ClientOK
    <3> QED
      BY <3>1, <3>2
  <2> QED
    BY ONLY <1>1, <2>1, <2>2 DEF ClientOK
<1>6. CASE Elapse \/ Network
  <2>1. /\ UNCHANGED <<cpc, is_streaming, ready, bufferVars, size, histVars>>
        /\ flight' \subseteq flight
        /\ rcvq' = rcvq \/ \E n \in flight : rcvq' = Append(rcvq, n)
    BY <1>6 DEF Elapse, Network, ChunkArrives, RateArrives, Lose
  <2>2. (\A i \in DOMAIN rcvq' : rcvq'[i] < size) /\ (rcvq # <<>> => rcvq' # <<>>)
    <3>1. CASE rcvq' = rcvq
      BY ONLY <1>1, <3>1 DEF ClientOK
    <3>2. CASE \E n \in flight : rcvq' = Append(rcvq, n)
      <4>1. PICK n \in flight : rcvq' = Append(rcvq, n)
        BY <3>2
      <4>2. n \in 0 .. MaxSize /\ n < size
        BY ONLY <1>1, <1>t, n \in flight DEF ClientOK
      <4>3. /\ rcvq' \in Seq(0 .. MaxSize) /\ rcvq' # <<>>
            /\ Len(rcvq') = Len(rcvq) + 1
            /\ \A i \in 1 .. Len(rcvq) : rcvq'[i] = rcvq[i]
            /\ rcvq'[Len(rcvq) + 1] = n
        BY ONLY <1>t, <4>1, <4>2, AppendProperties
      <4>4. DOMAIN rcvq' = 1 .. Len(rcvq') /\ DOMAIN rcvq = 1 .. Len(rcvq)
              /\ Len(rcvq) \in Nat
        BY ONLY <1>t, <4>3, LenProperties
      <4>5. \A i \in DOMAIN rcvq' : i \in DOMAIN rcvq \/ i = Len(rcvq) + 1
        BY ONLY <4>3, <4>4
      <4> QED
        BY ONLY <1>1, <4>2, <4>3, <4>4, <4>5 DEF ClientOK
    <3> QED
      BY <2>1, <3>1, <3>2
  <2> QED
    BY ONLY <1>1, <2>1, <2>2 DEF ClientOK, bufferVars, histVars
<1> QED
  BY <1>2, <1>3, <1>4, <1>5, <1>6 DEF Next, Client

\* Every signal finds an interval: one is added before it is raised, and the
\* handler takes one only when it is.
LEMMA RatesNext == StreamInv /\ Next => RatesOK'
<1> SUFFICES ASSUME StreamInv, Next PROVE RatesOK'
  OBVIOUS
<1> USE DEF childVars, sleepVars, signalVars, bufferVars, clientVars, netVars,
        histVars
<1>1. TypeOK /\ RatesOK
  BY DEF StreamInv
<1>t. /\ sbuf \in Seq(Nat) /\ rates \subseteq Nat /\ playbacks \in Nat
      /\ LOG_LEN \in Nat \ {0} /\ entries \in 0 .. (LOG_LEN - 1)
      /\ ilambda_log \in [0 .. (LOG_LEN - 1) -> Nat \cup {Zero}]
  BY <1>1, LogAssumption DEF TypeOK, Intervals
<1>2. CASE Handler
  <2>1. /\ pending /\ pending' = FALSE /\ sbuf' = IF sbuf # <<>> THEN Tail(sbuf) ELSE sbuf
        /\ ilambda_log' = [ilambda_log EXCEPT ![0] =
                             IF sbuf # <<>> THEN Head(sbuf) ELSE Zero]
        /\ UNCHANGED <<tv_sec, tv_nsec, rates, playbacks>>
    BY <1>2 DEF Handler
  <2>2. sbuf # <<>>
    BY <1>1, <2>1 DEF RatesOK
  <2>3. /\ Head(sbuf) = sbuf[1] /\ sbuf' \in Seq(Nat) /\ Len(sbuf') = Len(sbuf) - 1
        /\ Head(sbuf) \in Nat
        /\ \A i \in 1 .. Len(sbuf') : sbuf'[i] = sbuf[i + 1]
    BY ONLY <1>t, <2>1, <2>2, HeadTailProperties
  <2>4. /\ DOMAIN sbuf = 1 .. Len(sbuf) /\ DOMAIN sbuf' = 1 .. Len(sbuf')
        /\ Len(sbuf) \in Nat /\ Len(sbuf) # 0
    BY ONLY <1>t, <2>2, <2>3, LenProperties, EmptySeq
  <2>5. 1 \in DOMAIN sbuf /\ \A i \in DOMAIN sbuf' : i + 1 \in DOMAIN sbuf
    BY ONLY <2>3, <2>4
  <2>6. ilambda_log'[0] = Head(sbuf)
    BY ONLY <1>t, <2>1, <2>2
  <2>7. Head(sbuf) # Zero /\ Head(sbuf) <= playbacks
    BY ONLY <1>1, <2>3, <2>5 DEF RatesOK, Zero
  <2>8. \A i \in DOMAIN sbuf' : sbuf'[i] <= playbacks
    BY ONLY <1>1, <2>3, <2>4, <2>5 DEF RatesOK
  <2> QED
    BY ONLY <1>1, <2>1, <2>6, <2>7, <2>8 DEF RatesOK, RateIsSent
<1>3. CASE Child /\ ~Handler
  <2>1. UNCHANGED <<signalVars, rates, playbacks>>
    BY <1>3 DEF Child, Open, Send, Note, ReadSec, ReadNsec, Wake, EndOfFile,
       ResetLog, PrintLog
  <2>h. {tv_sec', tv_nsec'} \subseteq {tv_sec, tv_nsec, ilambda_log[0], Initial}
    BY <1>3 DEF Child, Open, Send, Note, ReadSec, ReadNsec, Wake, EndOfFile,
       ResetLog, PrintLog
  <2>2. ilambda_log'[0] \in {ilambda_log[0], Initial}
    <3>1. \/ ilambda_log' = ilambda_log
          \/ ilambda_log' = [ilambda_log EXCEPT ![entries + 1] = ilambda_log[0]]
          \/ ilambda_log' = [ilambda_log EXCEPT ![0] = Initial]
      BY <1>3 DEF Child, Open, Send, Note, ReadSec, ReadNsec, Wake, EndOfFile,
         ResetLog, PrintLog
    <3>2. entries + 1 # 0 /\ 0 \in 0 .. (LOG_LEN - 1)
      BY ONLY <1>t
    <3> QED
      BY ONLY <1>t, <3>1, <3>2
  <2> QED
    BY ONLY <1>1, <1>t, <2>1, <2>2, <2>h
    DEF RatesOK, RateIsSent, signalVars, Initial, Zero
<1>4. CASE Play
  <2>1. /\ UNCHANGED <<signalVars, childVars>>
        /\ \/ playbacks' = playbacks + 1 /\ rates' = rates \cup {playbacks + 1}
           \/ UNCHANGED <<playbacks, rates>>
    BY <1>4 DEF Play
  <2>2. playbacks' \in Nat /\ playbacks <= playbacks'
    BY ONLY <1>t, <2>1
  <2>3. \A i \in DOMAIN sbuf : sbuf[i] \in Nat
    BY ONLY <1>t, LenProperties, ElementOfSeq
  <2>4. /\ {ilambda_log[0], tv_sec, tv_nsec} \subseteq Nat \cup {Zero}
        /\ Zero \in Int
    <3>1. {tv_sec, tv_nsec} \subseteq Nat \cup {Zero}
      BY ONLY <1>1 DEF TypeOK, Intervals
    <3> QED
      BY ONLY <1>t, <3>1 DEF Zero
  <2>5. \A i \in DOMAIN sbuf : sbuf[i] <= playbacks'
    BY ONLY <1>1, <1>t, <2>2, <2>3 DEF RatesOK
  <2>6. \A r \in rates' : r <= playbacks'
    <3> SUFFICES ASSUME NEW r \in rates'
                 PROVE  r <= playbacks'
      OBVIOUS
    <3>1. playbacks \in Nat /\ rates \subseteq Nat
      BY ONLY <1>t
    <3>2. CASE r \in rates
      <4>1. r \in Nat /\ r <= playbacks
        BY ONLY <1>1, <3>1, <3>2 DEF RatesOK
      <4> QED
        BY ONLY <4>1, <3>1, <2>2
    <3>3. CASE r = playbacks + 1 /\ playbacks' = playbacks + 1
      BY ONLY <3>1, <3>3
    <3> QED
      BY ONLY <2>1, <3>2, <3>3
  <2>7. \A i \in {ilambda_log[0], tv_sec, tv_nsec} : i # Zero /\ i <= playbacks'
    BY ONLY <1>1, <1>t, <2>2, <2>4 DEF RatesOK, RateIsSent, Zero
  <2> QED
    BY ONLY <1>1, <2>1, <2>5, <2>6, <2>7
    DEF RatesOK, RateIsSent, childVars, sleepVars, signalVars
<1>5. CASE Select \/ Recv \/ Quit \/ Elapse \/ \E n \in flight : ChunkArrives(n)
  <2>1. UNCHANGED <<childVars, signalVars, rates, playbacks>>
    BY <1>5 DEF Select, Recv, Quit, Elapse, ChunkArrives
  <2> QED
    BY ONLY <1>1, <2>1 DEF RatesOK, RateIsSent, childVars, sleepVars, signalVars
<1>6. CASE Lose
  <2>1. rates' \subseteq rates /\ UNCHANGED <<childVars, signalVars, playbacks>>
    BY <1>6 DEF Lose
  <2> QED
    BY ONLY <1>1, <2>1 DEF RatesOK, RateIsSent, childVars, sleepVars, signalVars
<1>7. CASE \E r \in rates : RateArrives(r)
  <2>1. PICK r \in rates : /\ rates' = rates \ {r} /\ sbuf' = Append(sbuf, r)
                           /\ UNCHANGED <<childVars, playbacks>>
    BY <1>7 DEF RateArrives
  <2>2. /\ sbuf' \in Seq(Nat) /\ sbuf' # <<>> /\ Len(sbuf') = Len(sbuf) + 1
        /\ \A i \in 1 .. Len(sbuf) : sbuf'[i] = sbuf[i]
        /\ sbuf'[Len(sbuf) + 1] = r
    BY ONLY <1>t, <2>1, AppendProperties
  <2>3. DOMAIN sbuf = 1 .. Len(sbuf) /\ DOMAIN sbuf' = 1 .. Len(sbuf')
          /\ Len(sbuf) \in Nat
    BY ONLY <1>t, <2>2, LenProperties
  <2>4. \A i \in DOMAIN sbuf' : i \in DOMAIN sbuf \/ i = Len(sbuf) + 1
    BY ONLY <2>2, <2>3
  <2>5. \A i \in DOMAIN sbuf' : sbuf'[i] <= playbacks
    BY ONLY <1>1, <2>1, <2>2, <2>3, <2>4 DEF RatesOK
  <2> QED
    BY ONLY <1>1, <2>1, <2>2, <2>5 DEF RatesOK, RateIsSent, childVars, sleepVars
<1> QED
  BY <1>2, <1>3, <1>4, <1>5, <1>6, <1>7 DEF Next, Client, Network

LEMMA StreamNext == StreamInv /\ [Next]_vars => StreamInv'
<1> SUFFICES ASSUME StreamInv, [Next]_vars PROVE StreamInv'
  OBVIOUS
<1>1. CASE Next
  BY <1>1, ChildTypes, ClientTypes, NetTypes, ClientNext, RatesNext
  DEF Next, StreamInv
<1>2. CASE UNCHANGED vars
  <2>1. UNCHANGED <<size, spc, sent, ilambda_log, entries, tv_sec, tv_nsec, pending,
                    sbuf, logged>>
          /\ UNCHANGED <<cpc, is_streaming, started, ready, audio_buffer, curr_ptr,
                         playback_ptr, Q, due, playbacks>>
          /\ UNCHANGED <<tcp, flight, rcvq, rates, played, padded>>
    BY ONLY <1>2
    DEF vars, childVars, sleepVars, signalVars, bufferVars, clientVars, netVars,
        histVars
  <2>2. TypeOK /\ ClientOK /\ RatesOK
    BY DEF StreamInv
  <2>3. ChildTypeOK /\ ClientTypeOK /\ NetTypeOK
    BY <2>2, TypesSplit
  <2>4. ChildTypeOK'
    BY ONLY <2>1, <2>3 DEF ChildTypeOK
  <2>5. ClientTypeOK'
    BY ONLY <2>1, <2>3 DEF ClientTypeOK
  <2>6. NetTypeOK'
    BY ONLY <2>1, <2>3 DEF NetTypeOK
  <2>7. ClientOK' /\ RatesOK'
    BY ONLY <2>1, <2>2 DEF ClientOK, RatesOK, RateIsSent
  <2> QED
    BY <2>4, <2>5, <2>6, <2>7, TypesSplitNext DEF StreamInv
<1> QED
  BY <1>1, <1>2

-----------------------------------------------------------------------------
(* The refinement                                                          *)

LEMMA QueueInit == Init => Queue!Init
<1> SUFFICES ASSUME Init PROVE Queue!Init
  OBVIOUS
<1>1. played = <<>> /\ padded = FALSE /\ is_streaming = TRUE /\ Q = 0
        /\ playback_ptr = 0
  BY DEF Init, InitClient, InitNetwork
<1>2. TypeOK
  BY InitStream DEF StreamInv
<1>3. 0 \in Cells /\ 0 \in 0 .. bufsize
  BY BufferAssumption DEF Cells
<1>4. Contents(playback_ptr, Q) = Ring(audio_buffer, 0, 0)
  BY <1>1, <1>2, <1>3, ContentsRing
<1>5. audio_buffer \in [Cells -> Values]
  BY <1>2 DEF TypeOK, Values
<1>6. Ring(audio_buffer, 0, 0) \in Seq(Values) /\ Len(Ring(audio_buffer, 0, 0)) = 0
  BY <1>3, <1>5, RingOf
<1>7. Ring(audio_buffer, 0, 0) = <<>>
  BY ONLY <1>6, EmptySeq
<1> QED
  BY <1>1, <1>4, <1>7 DEF Queue!Init

\* A kept chunk, a playback and the end of the stream are steps of the queue;
\* every other step leaves it alone.
LEMMA QueueNext ==
  StreamInv /\ StreamInv' /\ [Next]_vars => [Queue!Next]_(Queue!vars)
<1> SUFFICES ASSUME StreamInv, StreamInv', [Next]_vars
             PROVE  [Queue!Next]_(Queue!vars)
  OBVIOUS
<1> USE DEF childVars, sleepVars, signalVars, bufferVars, clientVars, netVars,
        histVars
<1> DEFINE queue == Contents(playback_ptr, Q)
<1>1. TypeOK /\ ClientOK
  BY DEF StreamInv
<1>2. TypeOK'
  BY DEF StreamInv
<1>t. /\ audio_buffer \in [Cells -> Values] /\ playback_ptr \in Cells
      /\ Q \in 0 .. bufsize /\ bufsize \in Nat
  <2>1. /\ audio_buffer \in [Cells -> Values] /\ playback_ptr \in Cells
        /\ Q \in 0 .. bufsize
    BY ONLY <1>1 DEF TypeOK, Values
  <2> QED
    BY ONLY <2>1, BufferAssumption
<1>q. queue = Ring(audio_buffer, playback_ptr, Q)
  BY <1>1, <1>t, ContentsRing
<1>p. queue' = Ring(audio_buffer', playback_ptr', Q')
  <2>1. playback_ptr' \in Cells /\ Q' \in 0 .. bufsize
    BY ONLY <1>2 DEF TypeOK
  <2> QED
    BY <1>2, <2>1, ContentsRingNext
<1>s. Queue!vars = <<queue, played, ~is_streaming, padded>>
        /\ Queue!vars' = <<queue', played', ~is_streaming', padded'>>
  BY DEF Queue!vars
<1>l. queue \in Seq(Values) /\ Len(queue) = Q
  BY <1>q, <1>t, RingOf
<1> HIDE DEF queue
<1>3. ASSUME UNCHANGED bufferVars, UNCHANGED <<is_streaming, histVars>>
      PROVE  UNCHANGED Queue!vars
  BY ONLY <1>q, <1>p, <1>s, <1>3 DEF bufferVars, histVars
<1>4. CASE Child \/ Quit \/ Elapse \/ Network
  <2>1. UNCHANGED bufferVars /\ UNCHANGED <<is_streaming, histVars>>
    BY <1>4
    DEF Child, Open, Send, Note, ReadSec, ReadNsec, Wake, EndOfFile,
       ResetLog, PrintLog, Handler,
        Quit, Elapse, Network, ChunkArrives, RateArrives, Lose
  <2> QED
    BY <1>3, <2>1
<1>5. CASE Select
  <2>1. CASE UNCHANGED is_streaming
    BY <1>3, <1>5, <2>1 DEF Select
  <2>2. CASE ~(UNCHANGED is_streaming)
    <3>1. is_streaming /\ ~is_streaming' /\ UNCHANGED <<bufferVars, histVars>>
      BY <1>5, <2>2 DEF Select
    <3>2. queue' = queue
      BY ONLY <1>q, <1>p, <3>1 DEF bufferVars
    <3>3. Queue!End
      BY <3>1, <3>2 DEF Queue!End, queue
    <3> QED
      BY <3>3 DEF Queue!Next
  <2> QED
    BY <2>1, <2>2
<1>6. CASE Recv
  <2>1. CASE ready /\ Fits(Chunk(Head(rcvq)))
    <3> DEFINE n == Head(rcvq)
               chunk == Chunk(n)
    <3>1. /\ n \in 0 .. MaxSize
          /\ chunk \in Seq(Bytes) /\ Len(chunk) \in 1 .. BUFSIZE
          /\ chunk = [k \in 1 .. Len(chunk) |-> n + k]
          /\ Q + Len(chunk) \in 0 .. bufsize
          /\ Q' = Q + Len(chunk) /\ audio_buffer' = Stored(chunk)
      BY <1>6, <2>1, KeepFacts
    <3> HIDE DEF n, chunk
    <3>2. UNCHANGED <<playback_ptr, is_streaming, histVars>> /\ ~padded
      BY <1>1, <1>6 DEF Recv, ClientOK
    <3>3. Q + Len(chunk) <= bufsize
      BY ONLY <1>t, <3>1
    <3>4. queue' = queue \o chunk
      BY <1>1, <1>q, <1>p, <3>1, <3>2, <3>3, StoredContents
    <3>5. chunk \in {[k \in 1 .. l |-> m + k] : l \in 1 .. BUFSIZE, m \in 0 .. MaxSize}
      <4> DEFINE Run(l, m) == [k \in 1 .. l |-> m + k]
      <4>1. Len(chunk) \in 1 .. BUFSIZE /\ n \in 0 .. MaxSize
        BY ONLY <3>1
      <4>2. chunk = Run(Len(chunk), n)
        BY ONLY <3>1
      <4>3. chunk \in {Run(l, m) : l \in 1 .. BUFSIZE, m \in 0 .. MaxSize}
        <5> HIDE DEF Run
        <5> QED
          BY ONLY <4>1, <4>2
      <4> QED
        BY ONLY <4>3
    <3>6. Queue!Keep(chunk)
      BY <1>l, <3>2, <3>3, <3>4 DEF Queue!Keep, queue
    <3> QED
      BY <3>5, <3>6 DEF Queue!Next
  <2>2. CASE ~(ready /\ Fits(Chunk(Head(rcvq))))
    <3>1. UNCHANGED bufferVars /\ UNCHANGED <<is_streaming, histVars>>
      BY <1>6, <2>2 DEF Recv
    <3> QED
      BY <1>3, <3>1
  <2> QED
    BY <2>1, <2>2
<1>7. CASE Play
  <2>1. CASE MayPlay
    <3> DEFINE n == Lesser(Q, BUFSIZE)
    <3>1. /\ n \in 1 .. BUFSIZE /\ n \in 0 .. Q
          /\ n = BUFSIZE \/ (~is_streaming /\ n = Q /\ n < BUFSIZE)
          /\ Q' = Q - n
          /\ playback_ptr' = Cell(playback_ptr, n + 1)
          /\ played' = played \o Ring(audio_buffer, playback_ptr, n)
          /\ padded' = (padded \/ n < BUFSIZE)
          /\ ~padded
      BY <1>7, <2>1, PlayFacts
    <3> HIDE DEF n
    <3>2. UNCHANGED <<is_streaming, audio_buffer>>
      BY <1>7 DEF Play
    <3>3. /\ Ring(audio_buffer, playback_ptr, n) = SubSeq(queue, 1, n)
          /\ queue' = SubSeq(queue, n + 1, Len(queue))
      BY <1>q, <1>p, <1>t, <3>1, <3>2, RestContents
    <3>4. /\ n = BUFSIZE \/ (~is_streaming /\ n = Len(queue) /\ 0 < n /\ n < BUFSIZE)
          /\ n <= Len(queue) /\ padded' = (n < BUFSIZE)
      BY ONLY <1>l, <1>t, <3>1
    <3>5. Queue!Play(n)
      BY <3>1, <3>2, <3>3, <3>4 DEF Queue!Play, queue
    <3> QED
      BY <3>1, <3>5 DEF Queue!Next
  <2>2. CASE ~MayPlay
    <3>1. UNCHANGED bufferVars /\ UNCHANGED <<is_streaming, histVars>>
      BY <1>7, <2>2 DEF Play
    <3> QED
      BY <1>3, <3>1
  <2> QED
    BY <2>1, <2>2
<1>8. CASE UNCHANGED vars
  BY <1>3, <1>8 DEF vars
<1> QED
  BY <1>4, <1>5, <1>6, <1>7, <1>8 DEF Next, Client

-----------------------------------------------------------------------------
(* The theorems                                                            *)

\* musas.c and musac.c: both pointers stay in the circular buffer, Q within its
\* size and the log within its end, for every size of each.
THEOREM StreamTypes == Spec => []TypeOK
<1>1. Init => StreamInv
  BY InitStream
<1>2. StreamInv /\ [Next]_vars => StreamInv'
  BY StreamNext
<1>3. StreamInv => TypeOK
  BY DEF StreamInv
<1> QED
  BY <1>1, <1>2, <1>3, PTL DEF Spec

\* musas.c:37-41 and 181-197: neither half of what the child sleeps by is of the
\* 0.0 of a recvfrom() that read nothing, nor of an interval that was not sent,
\* though signals merge and come between the reads of the two halves.
THEOREM RateCorrect == Spec => []RateIsSent
<1>1. Init => StreamInv
  BY InitStream
<1>2. StreamInv /\ [Next]_vars => StreamInv'
  BY StreamNext
<1>3. StreamInv => RateIsSent
  BY DEF StreamInv, RatesOK
<1> QED
  BY <1>1, <1>2, <1>3, PTL DEF Spec

\* musac.c: the circular buffer is a first-in first-out queue, for every size of
\* the buffer, of the chunks and of the file.
THEOREM ImplementsQueue == Spec => QueueSpec
<1>1. Init => StreamInv
  BY InitStream
<1>2. StreamInv /\ [Next]_vars => StreamInv'
  BY StreamNext
<1>3. Init => Queue!Init
  BY QueueInit
<1>4. StreamInv /\ StreamInv' /\ [Next]_vars => [Queue!Next]_(Queue!vars)
  BY QueueNext
<1> QED
  BY <1>1, <1>2, <1>3, <1>4, PTL DEF Spec, QueueSpec, Queue!Spec

-----------------------------------------------------------------------------
(* The end of the stream: the state part of EndsOnceStarted.               *)

\* The child has told the client that the file is at its end.
Finished == spc \in {"reset", "print", "done"}

\* The client always has the word that it needs to stop: 'Q' or the end of the
\* connection is there to be read as soon as the child is through, and not
\* before.  It leaves the loop only when the whole file has been sent and all
\* that it kept has been played, and reports a failure only of a child that
\* failed.
EndTold ==
    /\ is_streaming =>
         tcp = IF Finished THEN "Q" ELSE IF spc = "failed" THEN "eof" ELSE ""
    /\ ~is_streaming => Finished
    /\ Finished => sent = size
    /\ cpc = "failed" => spc = "failed"
    /\ cpc = "closed" => ~is_streaming /\ Q = 0

LEMMA NextEndTold == StreamInv /\ EndTold /\ [Next]_vars => EndTold'
<1> SUFFICES ASSUME StreamInv, EndTold, [Next]_vars PROVE EndTold'
  OBVIOUS
<1> USE DEF EndTold, Finished
<1>1. CASE Open \/ Send \/ Note \/ ReadSec \/ ReadNsec \/ Wake \/ EndOfFile
            \/ ResetLog \/ PrintLog
  <2>1. UNCHANGED <<size, cpc, is_streaming, Q>>
    BY <1>1 DEF Open, Send, Note, ReadSec, ReadNsec, Wake, EndOfFile, ResetLog,
       PrintLog, clientVars, bufferVars
  <2>2. CASE Open
    BY <2>1, <2>2 DEF Open
  <2>3. CASE Send \/ Note \/ ReadSec \/ ReadNsec \/ Wake
    BY <2>1, <2>3 DEF Send, Note, ReadSec, ReadNsec, Wake, netVars
  <2>4. CASE EndOfFile
    BY <2>1, <2>4 DEF EndOfFile
  <2>5. CASE ResetLog \/ PrintLog
    BY <2>1, <2>5 DEF ResetLog, PrintLog, netVars
  <2> QED
    BY <1>1, <2>2, <2>3, <2>4, <2>5
<1>2. CASE Select
  <2>1. UNCHANGED <<size, spc, sent, Q>> /\ cpc = "select"
    BY <1>2 DEF Select, childVars, bufferVars
  <2>2. CASE is_streaming /\ tcp = "Q" /\ is_streaming' = FALSE /\ cpc' = "recv"
    BY <2>1, <2>2
  <2>3. CASE is_streaming /\ tcp = "eof" /\ cpc' = "failed" /\ UNCHANGED <<is_streaming, tcp>>
    BY <2>1, <2>3
  <2>4. CASE cpc' = "recv" /\ UNCHANGED <<is_streaming, tcp>>
    BY <2>1, <2>4
  <2> QED
    BY <1>2, <2>2, <2>3, <2>4 DEF Select
<1>3. CASE Recv \/ Play
  <2>1. /\ UNCHANGED <<size, spc, sent, tcp, is_streaming>>
        /\ cpc' \in {"play", "select"}
    BY <1>3 DEF Recv, Play, childVars
  <2> QED
    BY <2>1
<1>4. CASE Quit
  BY <1>4 DEF Quit, childVars, bufferVars, netVars
<1>5. CASE Handler \/ Elapse \/ Network \/ UNCHANGED vars
  <2>1. UNCHANGED <<size, spc, sent, tcp, is_streaming, cpc, Q>>
    BY <1>5 DEF Handler, Elapse, Network, ChunkArrives, RateArrives, Lose, vars,
       childVars, clientVars, bufferVars, netVars
  <2> QED
    BY <2>1
<1> QED
  BY <1>1, <1>2, <1>3, <1>4, <1>5 DEF Next, Child, Client

\* musas.c:142-213 and the select() loop of musac.c:165-287: for every size of file and
\* buffer and whatever the network loses, the client neither waits for a word
\* that will not come nor stops before it.
THEOREM EndCorrect == Spec => []EndTold
<1>1. Init => StreamInv /\ EndTold
  BY InitStream
  DEF Init, InitServer, InitClient, InitNetwork, EndTold, Finished
<1>2. StreamInv /\ EndTold /\ [Next]_vars => (StreamInv /\ EndTold)'
  BY NextEndTold, StreamNext
<1> QED
  BY <1>1, <1>2, PTL DEF Spec
=============================================================================
