---------------------------- MODULE ShellService ----------------------------
(***************************************************************************)
(* What a remote shell promises: a command is run only if a user who may   *)
(* ask for it did, at most once, and while no other command runs.  Nothing *)
(* is promised about which of the commands waiting is run next, nor that   *)
(* each of them is.                                                        *)
(***************************************************************************)
CONSTANT Requests   \* the commands users can ask for, each one time

VARIABLES
    asked,    \* the requests that have been made
    ran,      \* the requests whose command was started
    running   \* the requests whose command is running

vars == <<asked, ran, running>>

Init == asked = {} /\ ran = {} /\ running = {}

Ask(r) ==
    /\ r \notin asked
    /\ asked' = asked \cup {r}
    /\ UNCHANGED <<ran, running>>

Run(r) ==
    /\ running = {}
    /\ r \in asked \ ran
    /\ ran' = ran \cup {r}
    /\ running' = {r}
    /\ UNCHANGED asked

End ==
    /\ running # {}
    /\ running' = {}
    /\ UNCHANGED <<asked, ran>>

Next == (\E r \in Requests : Ask(r) \/ Run(r)) \/ End

Spec == Init /\ [][Next]_vars
=============================================================================
