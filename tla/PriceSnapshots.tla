--------------------------- MODULE PriceSnapshots ---------------------------
(***************************************************************************)
(* The price snapshots of one market: at most one row per bucket, captured *)
(* by two jobs while the market trades, settled by whichever of the        *)
(* resolution sync and the market resolver resolves it, made up afterwards *)
(* when there was none, and cleaned up by hand.  Each of them reads first  *)
(* and writes later in a transaction of its own.                           *)
(*                                                                         *)
(* The clock counts days.  A job that resolves the market holds its row    *)
(* from the autoflush before it reads the snapshots up to its commit.      *)
(***************************************************************************)
EXTENDS Naturals, FiniteSets

CONSTANTS
  Labels,      \* outcomes of the market
  Winner,      \* the outcome Polymarket settles on
  NoLabel,     \* no outcome known
  NoSnapshot,  \* a bucket without a row
  Close,       \* day of end_date
  LastDay      \* bound of the clock

ASSUME SnapshotAssumption ==
  /\ Winner \in Labels /\ NoLabel \notin Labels
  /\ Close \in Nat /\ LastDay \in Nat /\ Close + 2 <= LastDay

Passes    == {24, 48}                  \* the two capture jobs, by their window
Resolvers == {"sync", "resolver"}
Buckets   == {"T24", "T48"}
Volumes   == {"unknown", "low", "high"}

VARIABLES
  day,       \* the clock
  market,    \* the row: its resolution, whether it is active, its volume
  snapshot,  \* snapshot[b]: the row of bucket b
  pass,      \* pass[w]: the next step of a capture job and what it has read
  job,       \* job[j]: the next step of a resolving job and what it has read
  fill,      \* the retroactive backfill's candidate: an outcome
  settler,   \* history: who resolved the market
  late       \* history: the buckets written once its resolution was under way

snapVars == <<day, market, snapshot, pass, job, fill, settler, late>>

IdlePass == [next |-> "scan", asked |-> 0, side |-> NoLabel]
IdleJob  == [next |-> "scan", answer |-> NoLabel, loaded |-> {}, made |-> FALSE]

SnapshotInit ==
  /\ day = 0
  /\ market \in [resolution : {NoLabel}, active : {TRUE}, volume : Volumes]
  /\ snapshot = [b \in Buckets |-> NoSnapshot]
  /\ pass = [w \in Passes |-> IdlePass] /\ job = [j \in Resolvers |-> IdleJob]
  /\ fill = NoLabel
  /\ settler = "nobody" /\ late = {}

Resolved   == market.resolution # NoLabel
Taken(b)   == snapshot[b] # NoSnapshot
Open(b)    == Taken(b) /\ snapshot[b].resolution = NoLabel
Settled(b) == Taken(b) /\ snapshot[b].resolution # NoLabel

(* The market's row is locked between a resolving job's flush and commit.  *)
Locked == \E j \in Resolvers : job[j].next = "commit"

Row(side, resolution) == [side |-> side, resolution |-> resolution]

-----------------------------------------------------------------------------
(* Capturing: a scan, a fetch without a session, then one insert.          *)

Bucket(asked) == IF Close - asked <= 1 THEN "T24" ELSE "T48"

PassScan(w) ==
  /\ pass[w].next = "scan"
  /\ ~Resolved /\ market.active /\ market.volume # "low"
  /\ day < Close /\ Close <= day + (w \div 24)
  /\ pass' = [pass EXCEPT ![w] = [next |-> "price", asked |-> day, side |-> NoLabel]]
  /\ UNCHANGED <<day, market, snapshot, job, fill, settler, late>>

(* The batch answers with a volume and a favourite, or without either; the *)
(* live volume is stored, and one under the floor drops the market.        *)
PassPrice(w, volume, side) ==
  /\ pass[w].next = "price"
  /\ volume = "unknown" \/ ~Locked
  /\ market' = IF volume = "unknown" THEN market
                                     ELSE [market EXCEPT !.volume = volume]
  /\ pass' = [pass EXCEPT ![w] =
       IF volume = "low" \/ side = NoLabel THEN IdlePass
       ELSE [@ EXCEPT !.next = "write", !.side = side]]
  /\ UNCHANGED <<day, snapshot, job, fill, settler, late>>

(* The unique key makes the insert a no-op when the bucket has its row.    *)
PassWrite(w) ==
  /\ pass[w].next = "write"
  /\ LET b == Bucket(pass[w].asked)
     IN /\ ~ (b = "T24" /\ \E j \in Resolvers : job[j].made)
        /\ IF Taken(b) THEN UNCHANGED <<snapshot, late>>
           ELSE /\ snapshot' = [snapshot EXCEPT ![b] = Row(pass[w].side, NoLabel)]
                /\ late' = IF Resolved \/ Locked THEN late \cup {b} ELSE late \ {b}
  /\ pass' = [pass EXCEPT ![w] = IdlePass]
  /\ UNCHANGED <<day, market, job, fill, settler>>

-----------------------------------------------------------------------------
(* Resolving.  The answer is read without a lock, and neither job looks    *)
(* again at what the other did before it applies its own.                  *)

Due(j) ==
  /\ ~Resolved
  /\ IF j = "sync" THEN market.active \/ day >= Close ELSE day > Close

JobScan(j) ==
  /\ job[j].next = "scan" /\ Due(j)
  /\ job' = [job EXCEPT ![j].next = "ask"]
  /\ UNCHANGED <<day, market, snapshot, pass, fill, settler, late>>

(* Gamma and the CLOB name the winner or nobody.  The last resort of the   *)
(* resolver is what the books show at a price of 0.99: any outcome.        *)
GammaSays == {NoLabel, Winner}
ClobSays  == {NoLabel, Winner}
BooksShow == {NoLabel} \cup Labels
Answers(j) == IF j = "sync" THEN GammaSays ELSE GammaSays \cup ClobSays \cup BooksShow

(* The sync skips a market that has been resolved since its scan; the      *)
(* resolver does not look.                                                 *)
JobAsk(j, answer) ==
  /\ job[j].next = "ask" /\ answer # NoLabel
  /\ job' = [job EXCEPT ![j] =
       IF j = "sync" /\ Resolved THEN IdleJob
       ELSE [IdleJob EXCEPT !.next = "apply", !.answer = answer]]
  /\ UNCHANGED <<day, market, snapshot, pass, fill, settler, late>>

(* Nobody knows: two days past its end the resolver gives the market up.   *)
JobRests(j) ==
  /\ job[j].next = "ask" /\ ~Locked
  /\ market' = IF j = "resolver" /\ day > Close + 1
               THEN [market EXCEPT !.active = FALSE] ELSE market
  /\ job' = [job EXCEPT ![j] = IdleJob]
  /\ UNCHANGED <<day, snapshot, pass, fill, settler, late>>

(* The average entry of the resolved closed positions stands in for the    *)
(* price before the close: at least 0.80 or not.                           *)
EntryFavours == BOOLEAN

Unsettled == {b \in Buckets : Open(b)}

(* Mutant of CanFlush: the snapshots are read before the market is locked. *)
CanFlushUnlocked(j) == job[j].next = "apply"

CanFlush(j) == job[j].next = "apply" /\ ~Locked

(* The market's update is flushed, which takes its lock, and the open rows *)
(* are read.  Without any the resolver makes a T24 row up, and when there  *)
(* is one already the rollback of the insert ends the market's turn.       *)
JobFlush(j, favours) ==
  /\ CanFlush(j)
  /\ LET makes == j = "resolver" /\ Unsettled = {} /\ favours
     IN job' = [job EXCEPT ![j] =
          IF makes /\ Taken("T24") THEN IdleJob
          ELSE [@ EXCEPT !.next = "commit", !.loaded = Unsettled, !.made = makes]]
  /\ UNCHANGED <<day, market, snapshot, pass, fill, settler, late>>

SettleLoaded(j) ==
  [b \in Buckets |->
    IF b \in job[j].loaded THEN Row(snapshot[b].side, job[j].answer)
    ELSE IF b = "T24" /\ job[j].made THEN Row(job[j].answer, job[j].answer)
    ELSE snapshot[b]]

(* Mutant of Settle: the rows of the bucket that closes last are settled.  *)
SettleLast(j) ==
  [b \in Buckets |-> IF b = "T24" THEN SettleLoaded(j)[b] ELSE snapshot[b]]

Settle(j) == SettleLoaded(j)

JobCommit(j) ==
  /\ job[j].next = "commit"
  /\ snapshot' = Settle(j)
  /\ market' = [market EXCEPT !.resolution = job[j].answer, !.active = FALSE]
  /\ settler' = j
  /\ job' = [job EXCEPT ![j] = IdleJob]
  /\ UNCHANGED <<day, pass, fill, late>>

(* A row the job loaded was deleted under it: the flush fails.             *)
JobFails(j) ==
  /\ job[j].next = "doomed"
  /\ job' = [job EXCEPT ![j] = IdleJob]
  /\ UNCHANGED <<day, market, snapshot, pass, fill, settler, late>>

-----------------------------------------------------------------------------
(* By hand: the backfill of resolved markets without a row, the clean-up   *)
(* of markets with little volume.                                          *)

FillScan ==
  /\ fill = NoLabel
  /\ Resolved /\ market.volume = "high" /\ \A b \in Buckets : ~Taken(b)
  /\ fill' = market.resolution
  /\ UNCHANGED <<day, market, snapshot, pass, job, settler, late>>

FillWrite(favours) ==
  /\ fill # NoLabel /\ \A j \in Resolvers : ~job[j].made
  /\ snapshot' = IF favours /\ ~Taken("T24")
                 THEN [snapshot EXCEPT !["T24"] = Row(fill, fill)]
                 ELSE snapshot
  /\ fill' = NoLabel
  /\ UNCHANGED <<day, market, pass, job, settler, late>>

(* Mutant of Disposable: the clean-up takes settled rows too.              *)
DisposableAll(b) == Taken(b)

Disposable(b) == Open(b)

Cleanup ==
  /\ market.volume # "high" /\ \E b \in Buckets : Disposable(b)
  /\ snapshot' = [b \in Buckets |-> IF Disposable(b) THEN NoSnapshot ELSE snapshot[b]]
  /\ job' = [j \in Resolvers |->
       IF \E b \in job[j].loaded : Disposable(b)
       THEN [IdleJob EXCEPT !.next = "doomed"] ELSE job[j]]
  /\ UNCHANGED <<day, market, pass, fill, settler, late>>

-----------------------------------------------------------------------------
(* What the rest of the system does to the market's row and to the jobs.   *)

(* Discovery writes the activity, the volume it is given and a settlement  *)
(* it happens to see first; it leaves the snapshots alone.                 *)
Upsert(volume, active, label) ==
  /\ ~Locked
  /\ LET resolution == IF Resolved THEN market.resolution ELSE label
     IN /\ market' = [resolution |-> resolution,
                      active |-> active /\ resolution = NoLabel,
                      volume |-> IF volume = "unknown" THEN market.volume ELSE volume]
        /\ settler' = IF resolution = market.resolution THEN settler ELSE "catalog"
  /\ UNCHANGED <<day, snapshot, pass, job, fill, late>>

(* The worker restarts: its jobs are gone, what they held is rolled back.  *)
JobsDie ==
  /\ pass' = [w \in Passes |-> IdlePass] /\ job' = [j \in Resolvers |-> IdleJob]
  /\ fill' = NoLabel
  /\ <<pass, job, fill>>' # <<pass, job, fill>>
  /\ UNCHANGED <<day, market, snapshot, settler, late>>

(* A capture takes less than a day.                                        *)
NextDay ==
  /\ day < LastDay /\ \A w \in Passes : pass[w].next = "scan" \/ pass[w].asked = day
  /\ day' = day + 1
  /\ UNCHANGED <<market, snapshot, pass, job, fill, settler, late>>

SnapshotNext ==
  \/ \E w \in Passes :
       \/ PassScan(w) \/ PassWrite(w)
       \/ \E volume \in Volumes, side \in Labels \cup {NoLabel} : PassPrice(w, volume, side)
  \/ \E j \in Resolvers :
       \/ JobScan(j) \/ JobRests(j) \/ JobCommit(j) \/ JobFails(j)
       \/ \E answer \in Answers(j) : JobAsk(j, answer)
       \/ \E favours \in EntryFavours : JobFlush(j, favours)
  \/ FillScan \/ (\E favours \in EntryFavours : FillWrite(favours)) \/ Cleanup
  \/ \E volume \in Volumes, active \in BOOLEAN, label \in GammaSays :
       Upsert(volume, active, label)
  \/ JobsDie \/ NextDay

SnapshotSpec == SnapshotInit /\ [][SnapshotNext]_snapVars

-----------------------------------------------------------------------------
(* Every row has its sides, a resolved market is not active, and one       *)
(* resolving job at most is between its flush and its commit               *)
(* (market_price_snapshot.py, the row lock of run_market_resolver.py).     *)
SnapshotTypeOK ==
  /\ day \in 0 .. LastDay
  /\ market \in [resolution : Labels \cup {NoLabel}, active : BOOLEAN, volume : Volumes]
  /\ \A b \in Buckets : Taken(b) =>
       snapshot[b] \in [side : Labels, resolution : Labels \cup {NoLabel}]
  /\ \A w \in Passes : pass[w].next \in {"scan", "price", "write"}
  /\ \A j \in Resolvers : job[j].next \in {"scan", "ask", "apply", "commit", "doomed"}
  /\ Resolved => ~market.active
  /\ Cardinality({j \in Resolvers : job[j].next = "commit"}) <= 1
  /\ late \subseteq Buckets

(* A row that has been settled stays as it is: no other answer, no capture *)
(* and no clean-up touches it (run_price_snapshot.py:224-228 "Resolved     *)
(* snapshots are always preserved").                                       *)
SettledRowsKept ==
  [][\A b \in Buckets : Settled(b) => snapshot'[b] = snapshot[b]]_snapVars

(* A job that resolves the market settles all of its rows: one that stays  *)
(* open was captured from a candidate list older than the resolution       *)
(* (_update_snapshots, _update_snapshots_on_resolution).                   *)
OnlyLateRowsOpen ==
  settler \in Resolvers => \A b \in Buckets : Open(b) => b \in late
=============================================================================
