---------------------------- MODULE EventClusters ---------------------------
(***************************************************************************)
(* Which markets are one real-world event (event_clusters): a heuristic    *)
(* seeding that reads the markets, reads the manual rows and upserts its   *)
(* groups chunk by chunk, each in a transaction of its own, beside people  *)
(* who assign markets by hand and a discovery that changes the fields the  *)
(* groups are made from.                                                   *)
(***************************************************************************)
EXTENDS Naturals, FiniteSets

CONSTANTS
  Markets,
  Fields,      \* what a market row says: neg (neg_risk_market_id), title, end
  Absent,      \* SQL NULL, and a market without a row in event_clusters
  ByHand,      \* cluster ids people assign
  Chunk,       \* _UPSERT_CHUNK_SIZE
  MaxChanges   \* bound of the changes to the markets

VARIABLES
  fields,    \* the markets table
  cluster,   \* cluster[m]: the row of event_clusters
  seeding,   \* the seeding: its next step, the fields it read, what is left
  changes,   \* changes so far
  seeded,    \* history: the last seeding that read the markets has ended
  altered,   \* history: markets that have changed since it read them
  placed     \* history, placed[m]: what m said when a seeding last wrote it

clusterVars == <<fields, cluster, seeding, changes, seeded, altered, placed>>

NoSeeding == [next |-> "none", read |-> <<>>, left |-> {}]

ClusterInit ==
  /\ fields \in [Markets -> Fields]
  /\ cluster = [m \in Markets |-> Absent]
  /\ seeding = NoSeeding
  /\ changes = 0
  /\ seeded = FALSE /\ altered = {} /\ placed = fields

Manual(m)    == cluster[m] # Absent /\ cluster[m].source = "manual"
Heuristic(m) == cluster[m] # Absent /\ cluster[m].source = "heuristic"

(* Mutant of Key: the end date does not tell two events apart.             *)
KeyByTitle(f) ==
  CASE f.neg # Absent -> <<"negrisk", f.neg>>
    [] f.neg = Absent /\ f.title # Absent -> <<"title", f.title>>
    [] OTHER -> Absent

(* The cluster id is a function of the protocol's group id, or without one *)
(* of title and end date.                                                  *)
Key(f) ==
  CASE f.neg # Absent -> <<"negrisk", f.neg>>
    [] f.neg = Absent /\ f.title # Absent -> <<"title", f.title, f.end>>
    [] OTHER -> Absent

(* NULL is no cluster id and no row.                                       *)
ASSUME ClusterAssumption ==
  /\ Chunk \in Nat \ {0} /\ MaxChanges \in Nat
  /\ \A f \in Fields :
       <<"negrisk", f.neg>> # Absent /\ <<"title", f.title, f.end>> # Absent
  /\ \A id \in ByHand : [id |-> id, source |-> "manual"] # Absent
  /\ \A f \in Fields : [id |-> Key(f), source |-> "heuristic"] # Absent

(* What a seeding writes: groups of two markets or more without an         *)
(* assignment by hand.                                                     *)
Assignments(read) ==
  LET open == {m \in Markets : ~Manual(m) /\ Key(read[m]) # Absent}
  IN {m \in open : \E n \in open \ {m} : Key(read[n]) = Key(read[m])}

SeedRead ==
  /\ seeding.next = "none"
  /\ seeding' = [next |-> "plan", read |-> fields, left |-> {}]
  /\ seeded' = FALSE /\ altered' = {}
  /\ UNCHANGED <<fields, cluster, changes, placed>>

SeedPlan ==
  /\ seeding.next = "plan"
  /\ seeding' = [seeding EXCEPT !.next = "write", !.left = Assignments(seeding.read)]
  /\ UNCHANGED <<fields, cluster, changes, seeded, altered, placed>>

(* Mutant of Overwritable: the upsert has no WHERE.                        *)
OverwritableAlways(m) == TRUE

Overwritable(m) == ~Manual(m)

SeedChunk(chunk) ==
  /\ seeding.next = "write"
  /\ chunk # {} /\ chunk \subseteq seeding.left
  /\ Cardinality(chunk) = Chunk \/ chunk = seeding.left
  /\ LET written == {m \in chunk : Overwritable(m)}
     IN /\ cluster' = [m \in Markets |-> IF m \in written
              THEN [id |-> Key(seeding.read[m]), source |-> "heuristic"] ELSE cluster[m]]
        /\ placed' = [m \in Markets |->
                        IF m \in written THEN seeding.read[m] ELSE placed[m]]
  /\ seeding' = [seeding EXCEPT !.left = @ \ chunk]
  /\ UNCHANGED <<fields, changes, seeded, altered>>

SeedEnds ==
  /\ seeding.next = "write" /\ seeding.left = {}
  /\ seeding' = NoSeeding /\ seeded' = TRUE
  /\ UNCHANGED <<fields, cluster, changes, altered, placed>>

(* The command is killed: the chunks it has committed stay.                *)
SeedDies ==
  /\ seeding.next # "none"
  /\ seeding' = NoSeeding
  /\ UNCHANGED <<fields, cluster, changes, seeded, altered, placed>>

Assign(m, id) ==
  /\ changes < MaxChanges /\ changes' = changes + 1
  /\ cluster' = [cluster EXCEPT ![m] = [id |-> id, source |-> "manual"]]
  /\ UNCHANGED <<fields, seeding, seeded, altered, placed>>

(* Discovery refreshes a market's row.                                     *)
MarketChanges(m, f) ==
  /\ changes < MaxChanges /\ changes' = changes + 1
  /\ f # fields[m]
  /\ fields' = [fields EXCEPT ![m] = f]
  /\ altered' = altered \cup {m}
  /\ UNCHANGED <<cluster, seeding, seeded, placed>>

ClusterNext ==
  \/ SeedRead \/ SeedPlan \/ SeedEnds \/ SeedDies
  \/ \E chunk \in SUBSET Markets : SeedChunk(chunk)
  \/ \E m \in Markets, id \in ByHand : Assign(m, id)
  \/ \E m \in Markets, f \in Fields : MarketChanges(m, f)

ClusterSpec == ClusterInit /\ [][ClusterNext]_clusterVars

-----------------------------------------------------------------------------
(* An assignment by hand is replaced by another one only, whatever a       *)
(* seeding read before it (heuristics.py:22-25 "manual always wins").      *)
ManualWins ==
  [][\A m \in Markets : Manual(m) => Manual(m)']_clusterVars

(* Two rows say the same event: the protocol's group in common, or without *)
(* one the same title and end.                                             *)
OneEvent(f, g) ==
  \/ f.neg # Absent /\ f.neg = g.neg
  \/ f.neg = Absent /\ g.neg = Absent /\ f.title # Absent /\ f.title = g.title /\ f.end = g.end

(* Markets that are in a group now, as they were when the seeding read.    *)
Grouped ==
  LET steady == {m \in Markets : m \notin altered /\ ~Manual(m)}
  IN {m \in steady : \E n \in steady \ {m} : OneEvent(fields[m], fields[n])}

(* What a market's row of event_clusters stands for.                       *)
Standing(m) == IF m \in Grouped THEN fields[m] ELSE placed[m]

(* After a seeding, whatever was assigned or changed while it ran and      *)
(* whatever earlier and killed ones had left, every market of a group has  *)
(* a row, and two heuristic rows share a cluster exactly if they stand for *)
(* one event.  A market that is in no group any more stands for the group  *)
(* it was last written with, as seed_heuristic_clusters deletes no row     *)
(* (heuristics.py:98-146): it is not left unclustered, as the module's     *)
(* head says of such a market (heuristics.py:15-20), but stays with its    *)
(* former group and with others that left it.                              *)
EventsApart ==
  seeded =>
    /\ \A m \in Grouped : Heuristic(m)
    /\ \A m, n \in {k \in Markets : Heuristic(k)} :
         cluster[m].id = cluster[n].id <=> OneEvent(Standing(m), Standing(n))
=============================================================================
