---------------------------- MODULE RelayService ----------------------------
(***************************************************************************)
(* What a tunnel daemon promises its users: datagrams of a source are      *)
(* carried only along paths that somebody asked for, for that source, and  *)
(* not at all once the source's session has ended.  Nothing is promised    *)
(* about how many datagrams are carried, nor on which of the paths.        *)
(*                                                                         *)
(* A path asked for with a source that does not parse is stray: a source   *)
(* may come to have it, and with it a session that is over already.        *)
(***************************************************************************)
EXTENDS Naturals

CONSTANTS
    Sources,   \* IP addresses of source hosts
    Dests      \* destinations

VARIABLES
    asked,     \* the destinations asked for, for each source
    stray,     \* the destinations asked for without a source
    routes,    \* the destinations each source's session has
    carried,   \* datagrams carried from each source to each destination
    ended      \* the sources whose session is over

vars == <<asked, stray, routes, carried, ended>>

Init ==
    /\ asked = [a \in Sources |-> {}]
    /\ stray = {}
    /\ routes = [a \in Sources |-> {}]
    /\ carried = [a \in Sources |-> [d \in Dests |-> 0]]
    /\ ended = {}

Ask(a, d) ==
    /\ asked' = [asked EXCEPT ![a] = @ \cup {d}]
    /\ UNCHANGED <<stray, routes, carried, ended>>

AskStray(d) ==
    /\ stray' = stray \cup {d}
    /\ UNCHANGED <<asked, routes, carried, ended>>

\* The session of a source gets a path that was asked for it; the daemon may do
\* so even when the session is over.
AddRoute(a, d) ==
    /\ d \in asked[a]
    /\ routes' = [routes EXCEPT ![a] = @ \cup {d}]
    /\ UNCHANGED <<asked, stray, carried, ended>>

\* A source without a path takes over a session of stray ones, over or not.
TakeOver(a, D) ==
    /\ routes[a] = {}
    /\ D # {} /\ D \subseteq stray
    /\ routes' = [routes EXCEPT ![a] = D]
    /\ ended' \in {ended, ended \cup {a}}
    /\ UNCHANGED <<asked, stray, carried>>

Carry(a, d) ==
    /\ a \notin ended
    /\ d \in routes[a]
    /\ carried' = [carried EXCEPT ![a][d] = @ + 1]
    /\ UNCHANGED <<asked, stray, routes, ended>>

End(a) ==
    /\ a \notin ended
    /\ routes[a] # {}
    /\ ended' = ended \cup {a}
    /\ UNCHANGED <<asked, stray, routes, carried>>

Next ==
    \/ \E d \in Dests : AskStray(d)
    \/ \E a \in Sources :
         \/ \E d \in Dests : Ask(a, d) \/ AddRoute(a, d) \/ Carry(a, d)
         \/ \E D \in SUBSET Dests : TakeOver(a, D)
         \/ End(a)

Spec == Init /\ [][Next]_vars
=============================================================================
