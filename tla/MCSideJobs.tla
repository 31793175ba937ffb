----------------------------- MODULE MCSideJobs -----------------------------
(***************************************************************************)
(* Seven components beside the books that share no state: trade alerts and *)
(* price levels in the ingestor; checks, digests and price snapshots in    *)
(* the worker; the research tools' event clusters and point-in-time        *)
(* scores.  part says which of them a behaviour is about; the others rest. *)
(*                                                                         *)
(* A tick of the trade alerts is 7.5 minutes: marks live for 15 minutes,   *)
(* the buckets of engine, cluster and unwind are 15, 30 and 60 minutes     *)
(* long.                                                                   *)
(***************************************************************************)
EXTENDS AlertDispatch, PriceLevels, WorkerChecks, AlertDigests, PriceSnapshots,
        EventClusters, PointInTimeScores

VARIABLE part

AlertWindow == [digest |-> 2, engine |-> 2, cluster |-> 4, unwind |-> 8]

UpDown    == {"up", "down"}
LevelTwo  == [r \in Rows |-> 2]
Upward    == [r \in Rows |-> r = "up"]
Limits    == [s \in Sources |-> IF s = "trades" THEN 2 ELSE 3]
Intervals == [c \in Checks |-> IF c = "canary" THEN 2 ELSE 1]

(* Market rows of one group, of two games under one title, of no group.    *)
GroupRow  == [neg |-> "n", title |-> "t", end |-> 1]
PlainRow  == [neg |-> Absent, title |-> Absent, end |-> 2]
MarketRows == {GroupRow, PlainRow} \cup [neg : {Absent}, title : {"t"}, end : {1, 2}]

WinOrLoss == {-20, 40}

MCInit == /\ part \in {"alerts", "levels", "checks", "digests",
                       "snapshots", "clusters", "scores"}
          /\ Init /\ LevelsInit /\ ChecksInit /\ DigestInit
          /\ SnapshotInit /\ ClusterInit /\ ScoresInit
          /\ part # "snapshots" => market.volume = "unknown"
          /\ part # "clusters" => \A m \in Markets : fields[m] = PlainRow

(* Nobody moves but the part v that a behaviour is about.                  *)
Rest(v) ==
  /\ UNCHANGED part
  /\ v # "alerts" => UNCHANGED vars
  /\ v # "levels" => UNCHANGED levelVars
  /\ v # "checks" => UNCHANGED checkVars
  /\ v # "digests" => UNCHANGED digestVars
  /\ v # "snapshots" => UNCHANGED snapVars
  /\ v # "clusters" => UNCHANGED clusterVars
  /\ v # "scores" => UNCHANGED scoreVars

MCNext ==
  \/ part = "alerts" /\ Next /\ Rest("alerts")
  \/ part = "levels" /\ LevelsNext /\ Rest("levels")
  \/ part = "checks" /\ ChecksNext /\ Rest("checks")
  \/ part = "digests" /\ DigestNext /\ Rest("digests")
  \/ part = "snapshots" /\ SnapshotNext /\ Rest("snapshots")
  \/ part = "clusters" /\ ClusterNext /\ Rest("clusters")
  \/ part = "scores" /\ ScoresNext /\ Rest("scores")

MCSpec == MCInit /\ [][MCNext]_<<part, vars, levelVars, checkVars, digestVars,
                                 snapVars, clusterVars, scoreVars>>

(* The type invariants of the parts, in one: a time, a lag, a balance or a *)
(* price never leaves its range.                                           *)
SideTypes == /\ TypeOK /\ LevelsTypeOK /\ ChecksTypeOK
             /\ DigestTypeOK /\ SnapshotTypeOK
=============================================================================
