---------------------------- MODULE MarketCatalog ----------------------------
(***************************************************************************)
(* How markets and tokens get into the database.  Three discovery jobs and *)
(* the lookup of single markets fetch from Gamma first and upsert later,   *)
(* market after market in one transaction per list, while the resolution   *)
(* and status jobs write the same rows.                                    *)
(*                                                                         *)
(* A market is its id; it has one token.  A row's closed and resolved      *)
(* columns are one status, since the database checks that a resolved       *)
(* market is closed.  A row a transaction has written is held by it: other *)
(* writers wait.  The jobs work in the order of ids; deadlocks of jobs     *)
(* that work in different orders are among the faults.                     *)
(***************************************************************************)
EXTENDS Integers, FiniteSets

CONSTANTS
  Markets,      \* ids
  Jobs,         \* which of JobNames run
  Categorised,  \* markets whose text yields a subcategory
  Sports,       \* markets under one of the sports tags
  InHorizon,    \* markets that close within 30 days or are on the watchlist
  Reach,        \* how many markets the general listing serves (5,000)
  MaxFaults     \* bound: failing requests and statements

JobNames == {"general", "sports", "genre", "single"}

ASSUME ConstantsAssumption ==
  /\ Markets \subseteq Nat \ {0} /\ IsFiniteSet(Markets)
  /\ Categorised \subseteq Markets
  /\ Sports \subseteq Markets
  /\ InHorizon \subseteq Markets
  /\ Jobs \subseteq JobNames
  /\ Reach \in Nat /\ MaxFaults \in Nat

VARIABLES
  gamma,   \* gamma[m]: what Gamma says of the market
  row,     \* row[m]: the markets row
  token,   \* markets whose token has a row
  job,     \* job[j]: the answers it still has and its open transaction
  faults   \* faults so far

vars == <<gamma, row, token, job, faults>>

Status == {"none", "open", "closed", "resolved"}

Nothing == [m \in Markets |-> "none"]
Idle == [at |-> "idle", answer |-> Nothing, cur |-> 0, seen |-> "none",
         writes |-> Nothing, tokens |-> {}]

Init ==
  /\ gamma  = Nothing
  /\ row    = Nothing
  /\ token  = {}
  /\ job    = [j \in Jobs |-> Idle]
  /\ faults = 0

-----------------------------------------------------------------------------
(* Transactions.                                                           *)

(* The rows another transaction than that of j has written.                *)
HeldFrom(j) == {m \in Markets : \E i \in Jobs \ {j} : job[i].writes[m] # "none"}
Held        == {m \in Markets : \E i \in Jobs : job[i].writes[m] # "none"}

(* Mutant of Upserted: the row becomes what Gamma's list said.             *)
UpsertedRegress(seen, answer) == answer

(* _upsert_market: what a row seen as such becomes; a resolved one stays.  *)
Upserted(seen, answer) ==
  IF seen = "resolved" THEN seen ELSE answer

(* The flush writes only the columns that changed against what was read,   *)
(* over a row that may have changed since.                                 *)
Flushed(seen, answer, now) ==
  IF Upserted(seen, answer) = seen THEN now
  ELSE IF now = "resolved" /\ seen # "resolved" THEN now
  ELSE Upserted(seen, answer)

(* Inserting a market that meanwhile exists, or reopening one that is      *)
(* meanwhile resolved, violates a constraint of the table.                 *)
Violates(seen, answer, now) ==
  \/ seen = "none" /\ now # "none"
  \/ seen = "closed" /\ answer = "open" /\ now = "resolved"

(* Mutant of WritesToken: uncategorised markets get tokens, others do not. *)
WritesTokenReversed(j, m) == j = "sports" \/ (j = "general" /\ m \notin Categorised)

(* The general listing stores uncategorised markets without tokens, the    *)
(* genre listing and single lookups store none.                            *)
WritesToken(j, m) == j = "sports" \/ (j = "general" /\ m \in Categorised)

-----------------------------------------------------------------------------
(* Fetching.                                                               *)

Open == {m \in Markets : gamma[m] = "open"}

FirstOpen == {m \in Open : Cardinality({n \in Open : n < m}) < Reach}

(* Mutant of Listing: what the database has is not asked for again.        *)
ListingNew(j) ==
  {m \in IF j = "general" THEN FirstOpen
         ELSE {n \in Markets : gamma[n] # "none" /\ (n \in Sports <=> j = "sports")} :
     row[m] = "none"}

(* What a job is served.  The general listing has open markets only; a tag *)
(* lists open events, some markets of which may be closed or resolved.     *)
Listing(j) ==
  IF j = "general" THEN FirstOpen
  ELSE {m \in Markets : gamma[m] # "none" /\ (m \in Sports <=> j = "sports")}

(* Resolved markets are kept whatever their end date.                      *)
Wanted(j) ==
  {m \in Listing(j) : m \in InHorizon \/ gamma[m] = "resolved"}

Begin(j, markets) ==
  job' = [job EXCEPT ![j] =
    [at |-> "upsert",
     answer |-> [m \in Markets |-> IF m \in markets THEN gamma[m] ELSE "none"],
     cur |-> 0, seen |-> "none", writes |-> Nothing, tokens |-> {}]]

FetchList(j) ==
  /\ j # "single" /\ job[j].at = "idle"
  /\ Begin(j, Wanted(j))
  /\ UNCHANGED <<gamma, row, token, faults>>

(* A page that fails after its retries ends the list early.                *)
FetchPart(j, last) ==
  /\ j # "single" /\ job[j].at = "idle"
  /\ faults < MaxFaults
  /\ faults' = faults + 1
  /\ Begin(j, {m \in Wanted(j) : m < last})
  /\ UNCHANGED <<gamma, row, token>>

(* _ensure_market_exists and the market backfill look up one market that   *)
(* has no row; a lookup that finds nothing changes nothing.                *)
Unknown(m) == row[m] = "none"
Found(m)   == gamma[m] # "none"

FetchSingle(j, m) ==
  /\ j = "single" /\ job[j].at = "idle"
  /\ Unknown(m) /\ Found(m)
  /\ Begin(j, {m})
  /\ UNCHANGED <<gamma, row, token, faults>>

-----------------------------------------------------------------------------
(* Upserting.                                                              *)

(* The markets of the list that are still to be upserted.                  *)
Todo(j) == {m \in Markets : job[j].answer[m] # "none"} \ {job[j].cur}

NextUp(j) == {m \in Todo(j) : \A n \in Todo(j) : m <= n}

Select(j) ==
  /\ job[j].at = "upsert"
  /\ \E m \in NextUp(j) :
       job' = [job EXCEPT ![j] =
         [at |-> "flush", answer |-> job[j].answer, cur |-> m, seen |-> row[m],
          writes |-> job[j].writes, tokens |-> job[j].tokens]]
  /\ UNCHANGED <<gamma, row, token, faults>>

(* The flush comes with the next statement: that of the token, the next    *)
(* market's select, or the commit.                                         *)
Flush(j) ==
  LET m == job[j].cur
      answer == job[j].answer[m]
  IN /\ job[j].at = "flush" /\ m \notin HeldFrom(j)
     /\ ~Violates(job[j].seen, answer, row[m])
     /\ job' = [job EXCEPT ![j] =
          [at |-> "upsert", answer |-> [job[j].answer EXCEPT ![m] = "none"],
           cur |-> 0, seen |-> "none",
           writes |-> [job[j].writes EXCEPT
                         ![m] = Flushed(job[j].seen, answer, row[m])],
           tokens |-> IF WritesToken(j, m) THEN job[j].tokens \cup {m}
                      ELSE job[j].tokens]]
     /\ UNCHANGED <<gamma, row, token, faults>>

(* The failing statement is that of the token, or else the select of the   *)
(* next market, which is then given up as well.                            *)
GivenUp(j) ==
  {job[j].cur} \cup IF WritesToken(j, job[j].cur) THEN {} ELSE NextUp(j)

(* The rollback discards every upsert of the list so far; the job goes on  *)
(* with the markets after the failing one.                                 *)
RollBack(j) ==
  job' = [job EXCEPT ![j] =
    [at |-> "upsert",
     answer |-> [m \in Markets |-> IF m \in GivenUp(j) THEN "none"
                                  ELSE job[j].answer[m]],
     cur |-> 0, seen |-> "none", writes |-> Nothing, tokens |-> {}]]

FlushViolates(j) ==
  LET m == job[j].cur
  IN /\ job[j].at = "flush" /\ m \notin HeldFrom(j)
     /\ Violates(job[j].seen, job[j].answer[m], row[m])
     /\ RollBack(j)
     /\ UNCHANGED <<gamma, row, token, faults>>

FlushFails(j) ==
  /\ job[j].at = "flush"
  /\ faults < MaxFaults
  /\ faults' = faults + 1
  /\ RollBack(j)
  /\ UNCHANGED <<gamma, row, token>>

Commit(j) ==
  /\ job[j].at = "upsert" /\ Todo(j) = {}
  /\ row'   = [m \in Markets |-> IF job[j].writes[m] = "none" THEN row[m]
                                 ELSE job[j].writes[m]]
  /\ token' = token \cup job[j].tokens
  /\ job'   = [job EXCEPT ![j] = Idle]
  /\ UNCHANGED <<gamma, faults>>

(* A commit that fails, or the end of the process.                         *)
Dies(j) ==
  /\ job[j].at # "idle"
  /\ faults < MaxFaults
  /\ faults' = faults + 1
  /\ job' = [job EXCEPT ![j] = Idle]
  /\ UNCHANGED <<gamma, row, token>>

-----------------------------------------------------------------------------
(* Gamma lists, closes and settles markets; the status refresh and the     *)
(* resolution jobs write what it says.                                     *)

GammaMoves(m) ==
  /\ \/ gamma[m] = "none"   /\ gamma' = [gamma EXCEPT ![m] = "open"]
     \/ gamma[m] = "open"   /\ gamma' = [gamma EXCEPT ![m] = "closed"]
     \/ gamma[m] = "closed" /\ gamma' = [gamma EXCEPT ![m] = "resolved"]
  /\ UNCHANGED <<row, token, job, faults>>

Refresh(m) ==
  /\ m \notin Held
  /\ row[m] \in {"open", "closed"} /\ gamma[m] \in {"closed", "resolved"}
  /\ row' = [row EXCEPT ![m] = gamma[m]]
  /\ UNCHANGED <<gamma, token, job, faults>>

Step(j) ==
  \/ FetchList(j) \/ \E m \in Markets : FetchPart(j, m) \/ FetchSingle(j, m)
  \/ Select(j) \/ Flush(j) \/ FlushViolates(j) \/ FlushFails(j)
  \/ Commit(j) \/ Dies(j)

Next ==
  \/ \E j \in Jobs : Step(j)
  \/ \E m \in Markets : GammaMoves(m) \/ Refresh(m)

Spec == Init /\ [][Next]_vars

(* The worker and the ingestor start the list jobs again and again, and    *)
(* PostgreSQL lets a waiting statement continue.                           *)
Fairness ==
  \A j \in Jobs :
    /\ WF_vars(FetchList(j)) /\ WF_vars(Select(j)) /\ SF_vars(Flush(j))
    /\ SF_vars(FlushViolates(j)) /\ WF_vars(Commit(j))

FairSpec == Spec /\ Fairness

-----------------------------------------------------------------------------
(* Properties.                                                             *)

(* The type invariant: a token is inserted with its market or after it,    *)
(* whichever upserts of its list were rolled back.                         *)
TypeOK ==
  /\ gamma \in [Markets -> Status]
  /\ row \in [Markets -> Status]
  /\ token \in SUBSET {m \in Markets : row[m] # "none"}
  /\ job \in [Jobs -> [at : {"idle", "upsert", "flush"}, answer : [Markets -> Status],
                       cur : Markets \cup {0}, seen : Status,
                       writes : [Markets -> Status], tokens : SUBSET Markets]]
  /\ \A j \in Jobs :
       /\ job[j].at = "flush" => job[j].cur \in Markets
       /\ \A m \in job[j].tokens : job[j].writes[m] # "none"
  /\ faults \in 0..MaxFaults

(* However old the list a job works off: once a market is resolved in the  *)
(* database no discovery takes that back.                                  *)
ResolvedStays ==
  [][\A m \in Markets : row[m] = "resolved" => row'[m] = "resolved"]_vars

(* A market within reach of the listings is stored while it is open, with  *)
(* its token if it is categorised or a sports market, though single        *)
(* markets fail, roll back the batch, or were stored without their token.  *)
EventuallyCatalogued ==
  \A m \in InHorizon :
    (m \in FirstOpen)
      ~> \/ row[m] # "none" /\ (m \in Categorised => m \in token)
         \/ m \notin FirstOpen
=============================================================================
