---------------------------- MODULE MCDagRunner ----------------------------
(***************************************************************************)
(* Small graphs for DagRunner: a service, its client and a report that     *)
(* waits for both, and smaller ones.                                       *)
(***************************************************************************)
EXTENDS DagRunner, TLC

CONSTANTS api, client, report

\* A client that waits for a service, and a report for both.
ClientServer ==
    (api :> <<>>) @@ (client :> <<api>>) @@ (report :> <<client, api>>)

\* The service and its client alone.
Pair == (api :> <<>>) @@ (client :> <<api>>)

\* One node.
Alone == [n \in Nodes |-> <<>>]
=============================================================================
