------------------------------ MODULE HandOff ------------------------------
(***************************************************************************)
(* What the line worker promises the thread that renders engine A: a       *)
(* dispatched job runs once, and the caller has its data back only after   *)
(* that.  The job's data (the line buffers, the journal) has one owner.    *)
(***************************************************************************)
VARIABLE owner   \* "caller", or the job: "given", "running", "finished".

Init == owner = "caller"

Give == owner = "caller" /\ owner' = "given"

Begin == owner = "given" /\ owner' = "running"

End == owner = "running" /\ owner' = "finished"

\* wait() returns, or stop() finds the job done.
TakeBack == owner = "finished" /\ owner' = "caller"

\* stop() returns: the worker is gone, a job it had not begun is dropped.
Drop == owner = "given" /\ owner' = "caller"

Next == Give \/ Begin \/ End \/ TakeBack \/ Drop

Spec == Init /\ [][Next]_owner
=============================================================================
