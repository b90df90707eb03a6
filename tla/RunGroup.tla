------------------------------ MODULE RunGroup ------------------------------
(***************************************************************************)
(* What dag-runner promises of a group of nodes, without processes,        *)
(* signals, pipes or records: when a node may begin, what its dependents   *)
(* are told and when, and what bringing the group down means.              *)
(***************************************************************************)
EXTENDS Naturals

CONSTANTS
    Nodes,
    Services,
    Needs         \* node -> the set of nodes it depends on

VARIABLES
    phase,        \* a node is pending, up or over
    verdict,      \* what its dependents have been told
    stopping      \* the group is coming down

vars == <<phase, verdict, stopping>>

Init ==
    /\ phase = [n \in Nodes |-> "pending"]
    /\ verdict = [n \in Nodes |-> "none"]
    /\ stopping = FALSE

\* A node may begin once every node it needs is ready, and never after the
\* group started to come down.
MayBegin(n) ==
    /\ phase[n] = "pending"
    /\ \A d \in Needs[n] : verdict[d] = "ready"
    /\ ~stopping

Begin(n) ==
    /\ MayBegin(n)
    /\ phase' = [phase EXCEPT ![n] = "up"]
    /\ UNCHANGED <<verdict, stopping>>

\* Only a service can bring the group down by its own failure.
FailureOf(n) == stopping' \in IF n \in Services THEN {stopping, TRUE} ELSE {stopping}

\* A node that could begin fails before its command runs.
Fizzle(n) ==
    /\ MayBegin(n)
    /\ phase' = [phase EXCEPT ![n] = "over"]
    /\ verdict' = [verdict EXCEPT ![n] = "unavailable"]
    /\ FailureOf(n)

\* A node that can no longer begin is given up.
Skip(n) ==
    /\ phase[n] = "pending"
    /\ stopping \/ \E d \in Needs[n] : verdict[d] = "unavailable"
    /\ phase' = [phase EXCEPT ![n] = "over"]
    /\ verdict' = [verdict EXCEPT ![n] = "unavailable"]
    /\ UNCHANGED stopping

\* A service is offered to its dependents while it is up.
Offer(n) ==
    /\ n \in Services
    /\ phase[n] = "up"
    /\ verdict[n] = "none"
    /\ ~stopping
    /\ verdict' = [verdict EXCEPT ![n] = "ready"]
    /\ UNCHANGED <<phase, stopping>>

\* A service that is up is refused to its dependents for good.
Refuse(n) ==
    /\ n \in Services
    /\ phase[n] = "up"
    /\ verdict[n] = "none"
    /\ verdict' = [verdict EXCEPT ![n] = "unavailable"]
    /\ stopping' = TRUE
    /\ UNCHANGED phase

\* A service that was offered fails while it is up.
Fail(n) ==
    /\ n \in Services
    /\ phase[n] = "up"
    /\ verdict[n] = "ready"
    /\ stopping' = TRUE
    /\ UNCHANGED <<phase, verdict>>

\* A node is over: it has told its dependents, at the latest now, and a task
\* is the only node that can be ready by being over.
End(n) ==
    /\ phase[n] = "up"
    /\ phase' = [phase EXCEPT ![n] = "over"]
    /\ \E v \in IF verdict[n] # "none" THEN {verdict[n]}
                ELSE IF n \in Services THEN {"unavailable"}
                ELSE {"ready", "unavailable"} :
          verdict' = [verdict EXCEPT ![n] = v]
    /\ FailureOf(n)

\* The operator stops the group, or nothing is left for it to serve.
Stop ==
    /\ stopping' = TRUE
    /\ UNCHANGED <<phase, verdict>>

NodeNext(n) ==
    Begin(n) \/ Fizzle(n) \/ Skip(n) \/ Offer(n) \/ Refuse(n) \/ Fail(n) \/ End(n)

Next == Stop \/ \E n \in Nodes : NodeNext(n)

Spec == Init /\ [][Next]_vars
=============================================================================
