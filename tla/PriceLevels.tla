---------------------------- MODULE PriceLevels -----------------------------
(***************************************************************************)
(* Price-level alerts: rows that the API creates and deletes, evaluated by *)
(* the ingestor for every print of the asset.  A print that crosses a      *)
(* level sends a Telegram message first and commits the rows afterwards,   *)
(* so a failed commit leaves a message that no row remembers.              *)
(*                                                                         *)
(* Time is the prints' own ts: a print lags behind the newest one by up to *)
(* LevelLag, and ages are distances from the newest.                       *)
(***************************************************************************)
EXTENDS Integers

CONSTANTS
  Rows,           \* ids of price_level_alerts rows of one asset
  Prices,         \* prices of a print
  NoPrice,        \* SQL NULL
  Level,          \* Level[r]: the row's level
  Above,          \* Above[r]: direction is "above"
  LevelCooldown,  \* cooldown_seconds
  LevelLag        \* bound: how late a print may be

ASSUME LevelsAssumption ==
  /\ Prices \subseteq Nat /\ NoPrice \notin Prices
  /\ Level \in [Rows -> Nat] /\ Above \in [Rows -> BOOLEAN]
  /\ LevelCooldown \in Nat /\ LevelLag \in Nat

VARIABLES
  row,     \* row[r]: the table row: set or not, last_price, time since fired
  said,    \* history, said[r]: time since the last message, whether a row
           \*   remembers it, whether a price on the near side came since
  spoken   \* history: the rows the last step sent a message for

levelVars == <<row, said, spoken>>

Old     == LevelCooldown + LevelLag      \* bound of ages
Silent  == [age |-> Old, kept |-> TRUE, back |-> TRUE]
NoLevel == [set |-> FALSE, last |-> NoPrice, fired |-> Old]

LevelsInit ==
  /\ row = [r \in Rows |-> NoLevel]
  /\ said = [r \in Rows |-> Silent]
  /\ spoken = {}

(* _direction_satisfied *)
Satisfied(r, price) == IF Above[r] THEN price >= Level[r] ELSE price <= Level[r]

(* check_crossing; a row that never fired has fired = Old.                 *)
Crosses(r, price, lag) ==
  /\ row[r].set
  /\ Satisfied(r, price)
  /\ row[r].last # NoPrice /\ ~Satisfied(r, row[r].last)
  /\ row[r].fired - lag >= LevelCooldown

(* Mutant of Observed: last_fired_at is only set with the first message.   *)
ObservedOnce(r, price, lag) ==
  [set |-> row[r].set, last |-> IF row[r].set THEN price ELSE NoPrice,
   fired |-> IF Crosses(r, price, lag) /\ row[r].fired = Old THEN lag
             ELSE row[r].fired]

(* The row after a print: a crossing stamps it, every print moves its      *)
(* last_price.                                                             *)
Observed(r, price, lag) ==
  [set |-> row[r].set, last |-> IF row[r].set THEN price ELSE NoPrice,
   fired |-> IF Crosses(r, price, lag) THEN lag ELSE row[r].fired]

Remembers(price, lag, kept) ==
  /\ spoken' = {r \in Rows : Crosses(r, price, lag)}
  /\ said' = [r \in Rows |->
       IF Crosses(r, price, lag) THEN [age |-> lag, kept |-> kept, back |-> FALSE]
       ELSE [said[r] EXCEPT !.back = @ \/ ~Satisfied(r, price)]]

Prints(price, lag) ==
  /\ Remembers(price, lag, TRUE)
  /\ row' = [r \in Rows |-> Observed(r, price, lag)]

(* The commit fails: the database, or a row of the evaluation was deleted  *)
(* meanwhile.  The ingestor logs it and goes on.                           *)
PrintFails(price, lag, gone) ==
  /\ \E r \in Rows : row[r].set
  /\ Remembers(price, lag, FALSE)
  /\ row' = [r \in Rows |-> IF r \in gone THEN NoLevel ELSE row[r]]

CreateLevel(r) ==
  /\ ~row[r].set
  /\ row' = [row EXCEPT ![r].set = TRUE]
  /\ said' = [said EXCEPT ![r] = Silent]
  /\ spoken' = {}

DeleteLevel(r) ==
  /\ row[r].set
  /\ row' = [row EXCEPT ![r] = NoLevel]
  /\ spoken' = {}
  /\ UNCHANGED said

Aged(n) == IF n < Old THEN n + 1 ELSE Old

LevelsTick ==
  /\ row' = [r \in Rows |-> [row[r] EXCEPT !.fired = Aged(@)]]
  /\ said' = [r \in Rows |-> [said[r] EXCEPT !.age = Aged(@)]]
  /\ spoken' = {}

LevelsNext ==
  \/ \E price \in Prices, lag \in 0..LevelLag :
       \/ Prints(price, lag)
       \/ \E gone \in SUBSET {r \in Rows : row[r].set} :
            PrintFails(price, lag, gone)
  \/ \E r \in Rows : CreateLevel(r) \/ DeleteLevel(r)
  \/ LevelsTick

LevelsSpec == LevelsInit /\ [][LevelsNext]_levelVars

(* The type invariant: a row that is not set has no state.                 *)
LevelsTypeOK ==
  /\ \A r \in Rows :
       /\ row[r] \in [set : BOOLEAN, last : Prices \cup {NoPrice}, fired : 0..Old]
       /\ said[r] \in [age : 0..Old, kept : BOOLEAN, back : BOOLEAN]
       /\ ~row[r].set => row[r] = NoLevel
  /\ spoken \subseteq Rows

(* One message per crossing: a message follows the previous one of its row *)
(* by the cooldown at least, in the prints' time, and a price on the near  *)
(* side was seen in between; unless the previous one's commit failed.      *)
OneMessagePerCrossing ==
  [][\A r \in spoken' :
       said[r].kept => /\ said[r].age - said'[r].age >= LevelCooldown
                       /\ said[r].back]_levelVars
=============================================================================
