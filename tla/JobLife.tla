------------------------------ MODULE JobLife ------------------------------
(***************************************************************************)
(* What IxMcp.Jobs promises of a job to those who read its record or hear  *)
(* of its end, without messages, retries, buffers or subscribers: when a   *)
(* record may be opened and closed, by whom and how often, and what must   *)
(* have happened before anybody is told.                                   *)
(***************************************************************************)
CONSTANTS
    Ids,          \* the jobs
    Ends          \* the ways a job can end

VARIABLES
    ends,         \* the ends a job came to of its own: a cancelled one may
                  \* still hear of its result
    gone,         \* the jobs whose process is dead
    record,       \* what the ledger says of a job
    news,         \* whether its end is still to be announced
    told,         \* how its end has been told, "dead" being to nobody
    carried       \* the jobs whose result is in a reply not yet sent

vars == <<ends, gone, record, news, told, carried>>

Init ==
    /\ ends = [j \in Ids |-> {}] /\ gone = {} /\ carried = {}
    /\ record = [j \in Ids |-> "none"]
    /\ news = [j \in Ids |-> "none"]
    /\ told = [j \in Ids |-> {}]

Closed(j) == record[j] \in Ends

\* A job comes to an end only while its process lives.
End(j, how) ==
    /\ j \notin gone
    /\ ends' = [ends EXCEPT ![j] = @ \cup {how}]
    /\ UNCHANGED <<gone, record, news, told, carried>>

Vanish(j) ==
    /\ j \notin gone
    /\ gone' = gone \cup {j}
    /\ UNCHANGED <<ends, record, news, told, carried>>

\* The ledger may come to a job's request after its death.
Open(j) ==
    /\ record[j] = "none"
    /\ record' = [record EXCEPT ![j] = "running"]
    /\ UNCHANGED <<ends, gone, news, told, carried>>

\* A record is closed once, together with its announcement: with an end that
\* the job did come to, or as killed when it is gone.  Only a clean end can be
\* no news.
Close(j, end, silent) ==
    /\ ~Closed(j)
    /\ \/ end \in ends[j] /\ (silent => end = "done")
       \/ j \in gone /\ end = "killed" /\ ~silent
    /\ record' = [record EXCEPT ![j] = end]
    /\ news' = [news EXCEPT ![j] = IF silent THEN "acked" ELSE "unacked"]
    /\ UNCHANGED <<ends, gone, told, carried>>

\* What is still to be announced is told, and then perhaps marked as told.
Tell(rows, way, marked) ==
    /\ \A j \in rows : news[j] = "unacked"
    /\ told' = [j \in Ids |-> IF j \in rows THEN told[j] \cup {way} ELSE told[j]]
    /\ news' = [j \in Ids |-> IF j \in rows /\ marked THEN "acked" ELSE news[j]]
    /\ UNCHANGED <<ends, gone, record, carried>>

\* A result, which there must be, is put into the reply to whoever started
\* the job.  Only then may its announcement be withdrawn untold.
Render(j, marked) ==
    /\ ends[j] # {} \/ Closed(j)
    /\ carried' = carried \cup {j}
    /\ news' = [news EXCEPT ![j] =
                  IF marked /\ @ = "unacked" THEN "acked" ELSE @]
    /\ UNCHANGED <<ends, gone, record, told>>

Hand(j, way) ==
    /\ j \in carried
    /\ carried' = carried \ {j}
    /\ told' = [told EXCEPT ![j] = @ \cup {way}]
    /\ UNCHANGED <<ends, gone, record, news>>

Next ==
    \/ \E j \in Ids : Vanish(j) \/ Open(j)
    \/ \E j \in Ids, how \in Ends : End(j, how)
    \/ \E j \in Ids, end \in Ends, silent \in BOOLEAN : Close(j, end, silent)
    \/ \E rows \in SUBSET Ids, way \in {"channel", "dead"},
          marked \in BOOLEAN : Tell(rows, way, marked)
    \/ \E j \in Ids, marked \in BOOLEAN : Render(j, marked)
    \/ \E j \in Ids, way \in {"reply", "dead"} : Hand(j, way)

Spec == Init /\ [][Next]_vars

=============================================================================
