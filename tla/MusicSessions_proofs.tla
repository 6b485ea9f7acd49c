------------------------ MODULE MusicSessions_proofs ------------------------
(***************************************************************************)
(* Theorems about the sessions of the audio server, for every number of    *)
(* clients and every limit.                                                *)
(***************************************************************************)
EXTENDS MusicSessions, FiniteSetTheorems, TLAPS

Unreaped == Sessions("running") \cup Sessions("zombie")

\* The count is right, and leaves room for the session being admitted.
CountOK ==
    /\ CountMatchesChildren
    /\ active_sessions + (IF ppc \in {"fork", "count"} THEN 1 ELSE 0)
         <= MAX_SESSIONS

\* A client is in one place: it has not connected, or it waits once in the
\* backlog, or it is being served; and a child is forked only once for it.
PlaceOK ==
    /\ \A c \in Clients : cstate[c] = "idle" => child[c] = "none"
    /\ \A k \in DOMAIN backlog :
         cstate[backlog[k]] = "waiting" /\ child[backlog[k]] = "none"
    /\ \A k, l \in DOMAIN backlog : backlog[k] = backlog[l] => k = l
    /\ ppc \in {"decide", "fork", "count"} =>
         /\ conn \in Clients /\ cstate[conn] = "waiting"
         /\ \A k \in DOMAIN backlog : backlog[k] # conn
    /\ ppc \in {"decide", "fork"} => child[conn] = "none"

\* Numbers are given out in order, and the one a fork is about to give is new.
NumberOK ==
    /\ LogsDistinct
    /\ \A c \in Clients : child[c] # "none" =>
         /\ number[c] <= session_counter
         /\ ppc = "fork" => number[c] < session_counter

SessionInv == TypeOK /\ CountOK /\ PlaceOK /\ NumberOK

-----------------------------------------------------------------------------
(* The children not reaped yet, counted                                    *)

\* The set of children not reaped is finite, so counting it makes sense.
LEMMA UnreapedFinite ==
    /\ IsFiniteSet(Unreaped)
    /\ Cardinality(Unreaped) \in Nat
    /\ Cardinality(Sessions("running")) <= Cardinality(Unreaped)
<1>1. Unreaped \subseteq Clients /\ Sessions("running") \subseteq Unreaped
  BY DEF Unreaped, Sessions
<1>2. IsFiniteSet(Unreaped)
  BY <1>1, FS_Subset, ClientsAssumption
<1>3. Cardinality(Sessions("running")) <= Cardinality(Unreaped)
  BY <1>1, <1>2, FS_Subset
<1>4. QED
  BY <1>2, <1>3, FS_CardinalityType

\* A fork adds one child to those not reaped.
LEMMA ForkAddsOne ==
    ASSUME child \in [Clients -> {"none", "running", "zombie", "reaped"}],
           NEW c \in Clients, child[c] = "none",
           child' = [child EXCEPT ![c] = "running"]
    PROVE  Cardinality(Unreaped') = Cardinality(Unreaped) + 1
<1>1. Unreaped' = Unreaped \cup {c} /\ c \notin Unreaped
  BY DEF Unreaped, Sessions
<1>2. QED
  BY <1>1, UnreapedFinite, FS_AddElement

\* waitpid() takes one child off those not reaped.
LEMMA ReapTakesOne ==
    ASSUME child \in [Clients -> {"none", "running", "zombie", "reaped"}],
           NEW c \in Sessions("zombie"),
           child' = [child EXCEPT ![c] = "reaped"]
    PROVE  /\ Cardinality(Unreaped') = Cardinality(Unreaped) - 1
           /\ Cardinality(Unreaped) >= 1
<1>1. Unreaped' = Unreaped \ {c} /\ c \in Unreaped
  BY DEF Unreaped, Sessions
<1>2. Cardinality(Unreaped \ {c}) = Cardinality(Unreaped) - 1
  BY <1>1, UnreapedFinite, FS_RemoveElement
<1>3. Cardinality(Unreaped \ {c}) \in Nat
  BY UnreapedFinite, FS_RemoveElement, FS_CardinalityType
<1>4. QED
  BY <1>1, <1>2, <1>3, UnreapedFinite

\* A child that ends is still to be reaped.
LEMMA ExitKeepsCount ==
    ASSUME child \in [Clients -> {"none", "running", "zombie", "reaped"}],
           NEW c \in Clients, child[c] = "running",
           child' = [child EXCEPT ![c] = "zombie"]
    PROVE  Unreaped' = Unreaped
BY DEF Unreaped, Sessions

-----------------------------------------------------------------------------
(* SessionInv is inductive                                                 *)

\* The initial state: no child, no connection, and a count of 0.
LEMMA InitSession == Init => SessionInv
<1> SUFFICES ASSUME Init PROVE SessionInv
  OBVIOUS
<1>1. TypeOK
  BY DEF Init, TypeOK
<1>2. Unreaped = {}
  BY DEF Init, Unreaped, Sessions
<1>3. CountOK
  BY <1>2, FS_EmptySet, MaxSessionsAssumption
     DEF Init, CountOK, CountMatchesChildren, Unreaped
<1>4. PlaceOK /\ NumberOK
  BY DEF Init, PlaceOK, NumberOK, LogsDistinct
<1>5. QED
  BY <1>1, <1>3, <1>4 DEF SessionInv

\* Every step of the parent, of a client or of a child keeps SessionInv.
LEMMA NextSession == SessionInv /\ [Next]_vars => SessionInv'
<1> SUFFICES ASSUME SessionInv, [Next]_vars PROVE SessionInv'
  OBVIOUS
<1> USE DEF SessionInv
<1>0. CountOK <=>
        /\ active_sessions + (IF ppc = "count" THEN 1 ELSE 0)
             = Cardinality(Unreaped) + unborn
        /\ active_sessions + (IF ppc \in {"fork", "count"} THEN 1 ELSE 0)
             <= MAX_SESSIONS
  BY DEF CountOK, CountMatchesChildren, Unreaped
<1>c. CountOK' <=>
        /\ active_sessions' + (IF ppc' = "count" THEN 1 ELSE 0)
             = Cardinality(Unreaped') + unborn'
        /\ active_sessions' + (IF ppc' \in {"fork", "count"} THEN 1 ELSE 0)
             <= MAX_SESSIONS
  BY DEF CountOK, CountMatchesChildren, Unreaped
<1>u. ASSUME child' = child PROVE Unreaped' = Unreaped
  BY <1>u DEF Unreaped, Sessions
<1> USE UnreapedFinite, MaxSessionsAssumption
<1>1. ASSUME NEW c \in Clients, NEW ok \in BOOLEAN, Connect(c, ok)
      PROVE  SessionInv'
  <2>1. TypeOK'
    BY <1>1 DEF Connect, TypeOK
  <2>2. CountOK'
    BY <1>1, <1>0, <1>c, <1>u DEF Connect
  <2>3. /\ DOMAIN backlog' = 1 .. (Len(backlog) + 1)
        /\ \A k \in DOMAIN backlog' :
             backlog'[k] = IF k = Len(backlog) + 1 THEN c ELSE backlog[k]
        /\ DOMAIN backlog = 1 .. Len(backlog) /\ Len(backlog) \in Nat
    BY <1>1 DEF Connect, TypeOK
  <2>4. \A k \in DOMAIN backlog : backlog[k] # c
    BY <1>1 DEF Connect, PlaceOK
  <2>5. PlaceOK'
    <3>1. /\ ppc' = ppc /\ conn' = conn /\ child' = child
          /\ cstate[c] = "idle" /\ child[c] = "none"
          /\ \A d \in Clients : cstate'[d] = IF d = c THEN "waiting" ELSE cstate[d]
      BY <1>1 DEF Connect, PlaceOK, TypeOK
    <3>2. \A k \in DOMAIN backlog : backlog[k] \in Clients
      BY DEF TypeOK
    <3>3. \A k \in DOMAIN backlog' :
            cstate'[backlog'[k]] = "waiting" /\ child'[backlog'[k]] = "none"
      BY <2>3, <2>4, <3>1, <3>2 DEF PlaceOK
    <3>4. \A k, l \in DOMAIN backlog' : backlog'[k] = backlog'[l] => k = l
      BY <2>3, <2>4 DEF PlaceOK
    <3>5. ppc \in {"decide", "fork", "count"} =>
            /\ conn \in Clients
            /\ \A k \in DOMAIN backlog' : backlog'[k] # conn
      BY <2>3, <3>1 DEF PlaceOK
    <3>6. QED
      BY <3>1, <3>3, <3>4, <3>5 DEF PlaceOK
  <2>6. NumberOK'
    BY <1>1 DEF Connect, NumberOK, LogsDistinct
  <2>7. QED
    BY <2>1, <2>2, <2>5, <2>6
<1>2. ASSUME Reap PROVE SessionInv'
  <2>1. PICK c \in Sessions("zombie") : child' = [child EXCEPT ![c] = "reaped"]
    BY <1>2 DEF Reap
  <2>2. /\ Cardinality(Unreaped') = Cardinality(Unreaped) - 1
        /\ Cardinality(Unreaped) >= 1
    BY <2>1, ReapTakesOne DEF TypeOK
  <2>3. active_sessions >= 1
    BY <1>2, <1>0, <2>2 DEF Reap, TypeOK
  <2>4. TypeOK'
    BY <1>2, <2>1, <2>3 DEF Reap, TypeOK, Sessions
  <2>5. CountOK'
    BY <1>2, <1>0, <1>c, <2>2 DEF Reap, TypeOK
  <2>c. /\ c \in Clients /\ child[c] = "zombie"
        /\ \A d \in Clients : child'[d] = IF d = c THEN "reaped" ELSE child[d]
    BY <2>1 DEF Sessions, TypeOK
  <2>6. PlaceOK'
    <3>1. \A k \in DOMAIN backlog : backlog[k] \in Clients
      BY DEF TypeOK
    <3>2. /\ ppc' = "reap" /\ backlog' = backlog /\ cstate' = cstate
      BY <1>2 DEF Reap
    <3>3. QED
      BY <2>c, <3>1, <3>2 DEF PlaceOK
  <2>7. NumberOK'
    BY <1>2, <2>1 DEF Reap, NumberOK, LogsDistinct, TypeOK, Sessions
  <2>8. QED
    BY <2>4, <2>5, <2>6, <2>7
<1>3. ASSUME ReapDone PROVE SessionInv'
  <2>1. TypeOK'
    BY <1>3 DEF ReapDone, TypeOK
  <2>2. CountOK'
    BY <1>3, <1>0, <1>c, <1>u DEF ReapDone
  <2>3. PlaceOK' /\ NumberOK'
    BY <1>3 DEF ReapDone, PlaceOK, NumberOK, LogsDistinct
  <2>4. QED
    BY <2>1, <2>2, <2>3
<1>4. ASSUME Accept PROVE SessionInv'
  <2>1. /\ Head(backlog) = backlog[1] /\ 1 \in DOMAIN backlog
        /\ Head(backlog) \in Clients
        /\ DOMAIN backlog' = 1 .. (Len(backlog) - 1)
        /\ DOMAIN backlog = 1 .. Len(backlog) /\ Len(backlog) \in Nat
        /\ \A k \in DOMAIN backlog' : backlog'[k] = backlog[k + 1]
    BY <1>4 DEF Accept, TypeOK
  <2>2. TypeOK'
    BY <1>4, <2>1 DEF Accept, TypeOK
  <2>3. CountOK'
    BY <1>4, <1>0, <1>c, <1>u DEF Accept
  <2>4. PlaceOK'
    <3>1. \A k \in DOMAIN backlog' : k + 1 \in DOMAIN backlog /\ k + 1 # 1
      BY <2>1
    <3>2. /\ conn' = backlog[1] /\ ppc' = "decide"
          /\ cstate' = cstate /\ child' = child
      BY <1>4, <2>1 DEF Accept
    <3>3. \A k, l \in DOMAIN backlog' : backlog'[k] = backlog'[l] => k = l
      <4> TAKE k, l \in DOMAIN backlog'
      <4>1. backlog'[k] = backlog'[l] => k + 1 = l + 1
        BY <2>1, <3>1 DEF PlaceOK
      <4>2. QED
        BY <2>1, <4>1
    <3>4. \A k \in DOMAIN backlog' : backlog'[k] # conn'
      BY <2>1, <3>1, <3>2 DEF PlaceOK
    <3>5. QED
      BY <2>1, <3>1, <3>2, <3>3, <3>4 DEF PlaceOK
  <2>5. NumberOK'
    BY <1>4 DEF Accept, NumberOK, LogsDistinct
  <2>6. QED
    BY <2>2, <2>3, <2>4, <2>5
<1>5. ASSUME Refuse PROVE SessionInv'
  <2>1. TypeOK'
    BY <1>5 DEF Refuse, TypeOK, PlaceOK
  <2>2. CountOK'
    BY <1>5, <1>0, <1>c, <1>u DEF Refuse
  <2>3. PlaceOK' /\ NumberOK'
    BY <1>5 DEF Refuse, PlaceOK, NumberOK, LogsDistinct, TypeOK
  <2>4. QED
    BY <2>1, <2>2, <2>3
<1>6. ASSUME NumberSession PROVE SessionInv'
  <2>1. TypeOK'
    BY <1>6 DEF NumberSession, TypeOK
  <2>2. CountOK'
    BY <1>6, <1>0, <1>c, <1>u DEF NumberSession, Admissible, TypeOK
  <2>3. PlaceOK'
    BY <1>6 DEF NumberSession, PlaceOK
  <2>4. NumberOK'
    BY <1>6 DEF NumberSession, NumberOK, LogsDistinct, TypeOK
  <2>5. QED
    BY <2>1, <2>2, <2>3, <2>4
<1>7. ASSUME Fork PROVE SessionInv'
  <2>1. /\ conn \in Clients /\ child[conn] = "none"
        /\ \A k \in DOMAIN backlog : backlog[k] # conn
    BY <1>7 DEF Fork, PlaceOK
  <2>2. Cardinality(Unreaped') = Cardinality(Unreaped) + 1
    BY <1>7, <2>1, ForkAddsOne DEF Fork, TypeOK
  <2>3. TypeOK'
    BY <1>7, <2>1 DEF Fork, TypeOK
  <2>4. CountOK'
    BY <1>7, <1>0, <1>c, <2>2 DEF Fork, TypeOK
  <2>5. PlaceOK'
    BY <1>7, <2>1 DEF Fork, PlaceOK, TypeOK
  <2>6. NumberOK'
    BY <1>7, <2>1 DEF Fork, NumberOK, LogsDistinct, TypeOK
  <2>7. QED
    BY <2>3, <2>4, <2>5, <2>6
<1>8. ASSUME ForkFails PROVE SessionInv'
  <2>1. TypeOK'
    BY <1>8 DEF ForkFails, TypeOK
  <2>2. CountOK'
    BY <1>8, <1>0, <1>c, <1>u DEF ForkFails, TypeOK
  <2>3. PlaceOK' /\ NumberOK'
    BY <1>8 DEF ForkFails, PlaceOK, NumberOK, LogsDistinct
  <2>4. QED
    BY <2>1, <2>2, <2>3
<1>9. ASSUME Count PROVE SessionInv'
  <2>1. TypeOK'
    BY <1>9 DEF Count, TypeOK, PlaceOK
  <2>2. CountOK'
    BY <1>9, <1>0, <1>c, <1>u DEF Count, TypeOK
  <2>3. PlaceOK' /\ NumberOK'
    BY <1>9 DEF Count, PlaceOK, NumberOK, LogsDistinct, TypeOK
  <2>4. QED
    BY <2>1, <2>2, <2>3
<1>10. ASSUME NEW c \in Clients, Exit(c) PROVE SessionInv'
  <2>1. TypeOK'
    BY <1>10 DEF Exit, TypeOK
  <2>2. Unreaped' = Unreaped
    BY <1>10, ExitKeepsCount DEF Exit, TypeOK
  <2>3. CountOK'
    BY <1>10, <1>0, <1>c, <2>2 DEF Exit
  <2>c. /\ child[c] = "running"
        /\ \A d \in Clients : child'[d] = IF d = c THEN "zombie" ELSE child[d]
    BY <1>10 DEF Exit, TypeOK
  <2>4. PlaceOK' /\ NumberOK'
    BY <1>10, <2>c DEF Exit, PlaceOK, NumberOK, LogsDistinct, TypeOK
  <2>5. QED
    BY <2>1, <2>3, <2>4
<1>11. ASSUME UNCHANGED vars PROVE SessionInv'
  <2>1. TypeOK'
    BY <1>11 DEF vars, TypeOK
  <2>2. CountOK'
    BY <1>11, <1>0, <1>c, <1>u DEF vars
  <2>3. PlaceOK' /\ NumberOK'
    BY <1>11 DEF vars, PlaceOK, NumberOK, LogsDistinct
  <2>4. QED
    BY <2>1, <2>2, <2>3
<1>12. QED
  BY <1>1, <1>2, <1>3, <1>4, <1>5, <1>6, <1>7, <1>8, <1>9, <1>10, <1>11
     DEF Next, Parent

LEMMA SessionInvariant == Spec => []SessionInv
BY InitSession, NextSession, PTL DEF Spec

-----------------------------------------------------------------------------
(* Theorems                                                                *)

\* Every variable of musas, its clients and its children keeps its type; in
\* particular active_sessions never becomes negative.
THEOREM SessionTypes == Spec => []TypeOK
BY SessionInvariant, PTL DEF SessionInv

\* active_sessions agrees with the children that are not reaped.
THEOREM CountCorrect == Spec => []CountMatchesChildren
<1>1. SessionInv => CountMatchesChildren
  BY DEF SessionInv, CountOK
<1>2. QED
  BY <1>1, SessionInvariant, PTL

\* Never more children run than musas admits at a time, however their ends
\* interleave with the parent's loop.
THEOREM SessionsBounded == Spec => []AtMostMaxSessions
<1>1. SessionInv => AtMostMaxSessions
  <2> SUFFICES ASSUME SessionInv PROVE AtMostMaxSessions
    OBVIOUS
  <2>1. active_sessions + (IF ppc = "count" THEN 1 ELSE 0)
          = Cardinality(Unreaped) + unborn
    BY DEF SessionInv, CountOK, CountMatchesChildren, Unreaped
  <2>2. Cardinality(Unreaped) <= MAX_SESSIONS
    BY <2>1, UnreapedFinite, MaxSessionsAssumption
       DEF SessionInv, CountOK, TypeOK
  <2>3. Cardinality(Sessions("running")) \in Nat
    <3>1. Sessions("running") \subseteq Clients
      BY DEF Sessions
    <3>2. QED
      BY <3>1, ClientsAssumption, FS_Subset, FS_CardinalityType
  <2>4. QED
    BY <2>2, <2>3, UnreapedFinite, MaxSessionsAssumption
       DEF AtMostMaxSessions
<1>2. QED
  BY <1>1, SessionInvariant, PTL

\* Two sessions never write the same log file.
THEOREM LogsCorrect == Spec => []LogsDistinct
<1>1. SessionInv => LogsDistinct
  BY DEF SessionInv, NumberOK
<1>2. QED
  BY <1>1, SessionInvariant, PTL

\* musas.c:131-227: a fork() that fails takes a place for good, since what it
\* added to active_sessions no waitpid() takes off again.
PlacesLost == Cardinality(Sessions("running")) + unborn <= MAX_SESSIONS

\* The sessions that run and the forks that have failed together are never more
\* than musas admits: after MAX_SESSIONS failures it refuses everybody.
THEOREM FailedForksCost == Spec => []PlacesLost
<1>1. SessionInv => PlacesLost
  <2> SUFFICES ASSUME SessionInv PROVE PlacesLost
    OBVIOUS
  <2>1. active_sessions + (IF ppc = "count" THEN 1 ELSE 0)
          = Cardinality(Unreaped) + unborn
    BY DEF SessionInv, CountOK, CountMatchesChildren, Unreaped
  <2>2. Cardinality(Unreaped) + unborn <= MAX_SESSIONS
    BY <2>1, UnreapedFinite, MaxSessionsAssumption
       DEF SessionInv, CountOK, TypeOK
  <2>3. Cardinality(Sessions("running")) \in Nat
    <3>1. Sessions("running") \subseteq Clients
      BY DEF Sessions
    <3>2. QED
      BY <3>1, ClientsAssumption, FS_Subset, FS_CardinalityType
  <2>4. QED
    BY <2>2, <2>3, UnreapedFinite, MaxSessionsAssumption
       DEF PlacesLost, SessionInv, TypeOK
<1>2. QED
  BY <1>1, SessionInvariant, PTL

-----------------------------------------------------------------------------
(* The connections: the state part of Answered.                            *)

Queued == {backlog[k] : k \in DOMAIN backlog}
Serving(c) == ppc \in {"decide", "fork", "count"} /\ conn = c

\* A client waits exactly as long as its connection is in the listen queue or
\* served by the parent, and it is in one place.
HeldOnce ==
    /\ \A c \in Clients :
         /\ cstate[c] = "waiting" <=> c \in Queued \/ Serving(c)
         /\ c \in Queued => ~Serving(c)
    /\ \A k, l \in DOMAIN backlog : backlog[k] = backlog[l] => k = l

\* What PlaceOK leaves open.
NotForgotten ==
    \A c \in Clients : cstate[c] = "waiting" => c \in Queued \/ Serving(c)

LEMMA NextNotForgotten ==
    ASSUME SessionInv, NotForgotten, [Next]_vars
    PROVE  NotForgotten'
<1> USE DEF NotForgotten, Serving, SessionInv, TypeOK
<1>1. ASSUME NEW c \in Clients, NEW ok \in BOOLEAN, Connect(c, ok)
      PROVE  NotForgotten'
  <2>1. /\ UNCHANGED <<ppc, conn>> /\ backlog' = Append(backlog, c)
        /\ \A d \in Clients : d # c => cstate'[d] = cstate[d]
    BY <1>1 DEF Connect
  <2>2. Queued' = Queued \cup {c}
    <3>1. /\ DOMAIN backlog' = DOMAIN backlog \cup {Len(backlog) + 1}
          /\ backlog'[Len(backlog) + 1] = c
          /\ \A i \in DOMAIN backlog : backlog'[i] = backlog[i]
      BY <2>1
    <3> QED
      BY ONLY <3>1 DEF Queued
  <2> QED
    BY <2>1, <2>2
<1>2. CASE Accept
  <2>1. /\ backlog # <<>> /\ backlog' = Tail(backlog) /\ conn' = Head(backlog)
        /\ ppc = "accept" /\ ppc' = "decide" /\ UNCHANGED cstate
    BY <1>2 DEF Accept
  <2>2. /\ DOMAIN backlog = 1 .. Len(backlog) /\ Len(backlog) \in Nat \ {0}
        /\ DOMAIN backlog' = 1 .. (Len(backlog) - 1) /\ conn' = backlog[1]
        /\ \A j \in DOMAIN backlog' : backlog'[j] = backlog[j + 1]
    BY <2>1
  <2>3. ASSUME NEW i \in DOMAIN backlog PROVE backlog[i] = conn' \/ backlog[i] \in Queued'
    <3>1. CASE i = 1
      BY <2>2, <3>1
    <3>2. CASE i # 1
      <4>1. i - 1 \in DOMAIN backlog' /\ (i - 1) + 1 = i
        BY <2>2, <3>2
      <4>2. backlog'[i - 1] = backlog[i]
        BY <2>2, <4>1
      <4> QED
        BY <4>1, <4>2 DEF Queued
    <3> QED
      BY <3>1, <3>2
  <2>4. \A c \in Queued : c = conn' \/ c \in Queued'
    BY ONLY <2>3 DEF Queued
  <2>5. \A c \in Clients : cstate[c] = "waiting" => c \in Queued
    BY <2>1
  <2> QED
    BY ONLY <2>1, <2>4, <2>5 DEF NotForgotten, Serving
<1>3. CASE Refuse \/ Count
  <2>1. /\ UNCHANGED <<backlog, conn>> /\ ppc \in {"decide", "count"}
        /\ cstate'[conn] # "waiting"
        /\ \A d \in Clients : d # conn => cstate'[d] = cstate[d]
    BY <1>3 DEF Refuse, Count, PlaceOK
  <2> QED
    BY <2>1 DEF Queued
<1>4. CASE Reap \/ ReapDone \/ NumberSession \/ Fork \/ ForkFails
  BY <1>4 DEF Reap, ReapDone, NumberSession, Fork, ForkFails, Queued
<1>5. CASE (\E c \in Clients : Exit(c)) \/ UNCHANGED vars
  BY <1>5 DEF Exit, vars, Queued
<1> QED
  BY <1>1, <1>2, <1>3, <1>4, <1>5 DEF Next, Parent

\* musas.c:96-230: whatever is refused, whatever forks fail and however sessions
\* end meanwhile, no musac is forgotten and none is answered twice.
THEOREM ConnectionsCorrect == Spec => []HeldOnce
<1>1. Init => NotForgotten
  BY DEF Init, NotForgotten
<1>2. SessionInv /\ NotForgotten /\ [Next]_vars => NotForgotten'
  BY NextNotForgotten
<1>3. SessionInv /\ NotForgotten => HeldOnce
  BY DEF SessionInv, PlaceOK, NotForgotten, HeldOnce, Queued, Serving
<1> QED
  BY <1>1, <1>2, <1>3, SessionInvariant, PTL DEF Spec
=============================================================================
