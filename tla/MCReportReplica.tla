--------------------------- MODULE MCReportReplica ---------------------------
(* Small terminals: what may happen in one behaviour is one of a few       *)
(* scenarios, each bounding the events that nothing else bounds.           *)
EXTENDS ReportReplica, TLC

Quiet == [b \in Bounded \cup {"legacy"} |-> 0]

(* A database built from nothing and a core that replaces it, with two of  *)
(* an outage, a new run, a restart of the terminal and a delete; and a     *)
(* writer that stops.                                                      *)
Replaced(one, other) ==
    ("changes" :> 2 @@ one :> 1 @@ other :> 1 @@ "recreations" :> 1) @@ Quiet
MCStopped == ("changes" :> 2 @@ "recreations" :> 1 @@ "failures" :> 1
              @@ "crashes" :> 1) @@ Quiet
(* An upgraded terminal whose user deletes the core's data.                *)
MCDeleted == ("changes" :> 2 @@ "flaps" :> 1 @@ "deletes" :> 1
              @@ "crashes" :> 1 @@ "legacy" :> 1) @@ Quiet

MCScenarios ==
    {Replaced("flaps", "stops"), Replaced("flaps", "crashes"), Replaced("stops", "crashes"),
     Replaced("stops", "deletes"), MCStopped, MCDeleted}

MCRace == {("changes" :> 2 @@ "flaps" :> 1 @@ "deletes" :> 1 @@ "legacy" :> 1) @@ Quiet}
=============================================================================
