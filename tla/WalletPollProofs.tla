--------------------------- MODULE WalletPollProofs ---------------------------
(***************************************************************************)
(* Proofs about WalletPoll, for any page size, page limit and drift.       *)
(*                                                                         *)
(* While the poller pages, fills move away from it: fill i stands at       *)
(* position hist[wallet] - i, which only grows.  So nothing before offset  *)
(* that was there at the start can be missing (NoGap), and what was        *)
(* fetched has no hole above the page to come (Contiguous).                *)
(***************************************************************************)
EXTENDS WalletPoll, TLAPS

(* What the pages so far must have shown of the fills up to i.             *)
Passed(i) == i > hist[wallet] - offset

Fetching ==
  at = "fetch" =>
    /\ start <= hist[wallet]
    /\ \A i \in 1..start : Passed(i) => i \in got
    /\ \A j \in got, i \in Fills : i < j /\ Passed(i) => i \in got

(* The fetch is over and complete: no recent fill is missing up to start,  *)
(* or below any fill that was fetched.                                     *)
Fetched ==
  at \in {"load", "ingest"} /\ ~truncated =>
    /\ \A i \in 1..start : Recent(i) => i \in got
    /\ \A j \in got, i \in Fills : i < j /\ Recent(i) => i \in got

Listed ==
  /\ \A i \in Fills : copies[i] > 0 => i \in got
  /\ at = "ingest" => \A i \in Fills : copies[i] > 0 => Recent(i)

PollInv == TypeOK /\ Fetching /\ Fetched /\ Listed /\ OldestFirst

USE PollAssumption

LEMMA InitPoll == Init => PollInv
<1> SUFFICES ASSUME Init PROVE PollInv
  OBVIOUS
<1> USE DEF Init
<1>1. TypeOK
  <2>1. /\ hist \in [Wallets -> 0..MaxFills]
        /\ offset \in Nat /\ start \in 0..MaxFills /\ faults \in 0..MaxFaults
    OBVIOUS
  <2>2. rows \in [Wallets -> Seq(Fills)] /\ batch \in Seq(Fills)
    OBVIOUS
  <2>3. copies \in [Fills -> Nat]
    BY DEF NoCopies
  <2>4. truncated \in BOOLEAN
    BY Zenon
  <2> QED
    BY <2>1, <2>2, <2>3, <2>4 DEF TypeOK
<1>2. Fetching /\ Fetched /\ Listed /\ OldestFirst
  BY DEF Fetching, Fetched, Listed, OldestFirst, NoCopies
<1> QED
  BY <1>1, <1>2 DEF PollInv

-----------------------------------------------------------------------------
(* The outside.                                                            *)

(* Any wallet's history only grows.                                        *)
LEMMA OneMore ==
  ASSUME MaxFills \in Nat, hist \in [Wallets -> 0..MaxFills], wallet \in Wallets,
         NEW w \in Wallets, hist[w] < MaxFills,
         hist' = [hist EXCEPT ![w] = @ + 1]
  PROVE  /\ hist' \in [Wallets -> 0..MaxFills]
         /\ hist[wallet] \in Int /\ hist'[wallet] \in Int
         /\ hist[wallet] <= hist'[wallet]
OBVIOUS

LEMMA FillStep == ASSUME PollInv, NEW w \in Wallets, Fill(w) PROVE PollInv'
<1>0. /\ hist \in [Wallets -> 0..MaxFills] /\ wallet \in Wallets
      /\ hist[w] < MaxFills /\ hist' = [hist EXCEPT ![w] = @ + 1]
  BY DEF PollInv, TypeOK, Fill
<1> USE DEF PollInv, Fill, fetch, ingest
<1>1. /\ hist' \in [Wallets -> 0..MaxFills]
      /\ hist[wallet] \in Int /\ hist'[wallet] \in Int
      /\ hist[wallet] <= hist'[wallet]
  <2> HIDE DEF PollInv, Fill
  <2> QED
    BY <1>0, PollAssumption, OneMore
<1>2. TypeOK'
  BY <1>1 DEF TypeOK
<1>3. \A i \in Fills : Passed(i)' => Passed(i)
  BY <1>1 DEF Passed, TypeOK, Fills
<1>4. 1..start \subseteq Fills
  BY DEF TypeOK, Fills
<1>5. Fetching'
  BY <1>1, <1>3, <1>4 DEF Fetching, TypeOK
<1>6. Fetched' /\ Listed' /\ OldestFirst'
  BY DEF Fetched, Listed, OldestFirst, Recent, Time
<1> QED
  BY <1>2, <1>5, <1>6

LEMMA WsStep ==
  ASSUME PollInv, NEW w \in Wallets, NEW i \in Fills, WsCapture(w, i)
  PROVE  PollInv'
<1> USE DEF PollInv, WsCapture, fetch, ingest
<1>1. rows' \in [Wallets -> Seq(Fills)]
  BY DEF TypeOK
<1>2. streamed' \in SUBSET (Wallets \X Fills)
  BY DEF TypeOK
<1>3. UNCHANGED <<hist, polled, at, fetch, copies, ingest, faults>>
  OBVIOUS
<1> HIDE DEF WsCapture
<1>4. TypeOK'
  BY <1>1, <1>2, <1>3 DEF TypeOK
<1>5. Fetching' /\ Fetched' /\ Listed' /\ OldestFirst'
  BY <1>3 DEF Fetching, Fetched, Listed, OldestFirst, Passed, Recent, Time
<1> QED
  BY <1>4, <1>5

LEMMA StartStep ==
  ASSUME PollInv, NEW w \in Wallets, NEW c \in Cutoffs, PollStart(w, c)
  PROVE  PollInv'
<1> USE DEF PollInv, PollStart, table, ingest
<1>1. TypeOK'
  BY DEF TypeOK, NoCopies
<1>2. \A i \in 1..start' : ~Passed(i)'
  BY DEF Passed, TypeOK
<1>3. Fetching' /\ Fetched' /\ Listed' /\ OldestFirst'
  BY <1>2 DEF Fetching, Fetched, Listed, OldestFirst, NoCopies, TypeOK
<1> QED
  BY <1>1, <1>3

-----------------------------------------------------------------------------
(* Fetching.                                                               *)

(* One more page leaves no hole: all a page reaches, or an earlier one     *)
(* did, is there.                                                          *)
LEMMA PageCloses ==
  ASSUME PollInv, at = "fetch", NEW i \in Fills,
         i > hist[wallet] - offset - Limit,
         \/ i <= start
         \/ offset = 0 /\ i <= hist[wallet]
         \/ \E j \in got \cup Page : i < j
  PROVE  i \in got \cup Page
<1> USE DEF PollInv
<1>0. /\ hist[wallet] \in Int /\ offset \in Int /\ Limit \in Int /\ i \in Int
      /\ start \in Int /\ i >= 1
  BY DEF TypeOK, Fills
<1>1. CASE i <= hist[wallet] - offset
  BY <1>0, <1>1 DEF Page
<1>2. CASE i > hist[wallet] - offset
  <2>1. Passed(i)
    BY <1>2 DEF Passed
  <2>2. CASE i <= start
    <3>1. i \in 1..start
      BY <1>0, <2>2
    <3> QED
      BY <2>1, <3>1 DEF Fetching
  <2>3. CASE offset = 0 /\ i <= hist[wallet]
    BY <1>0, <1>2, <2>3
  <2>4. CASE \E j \in got \cup Page : i < j
    <3> PICK j \in got \cup Page : i < j
      BY <2>4
    <3>1. j \notin Page
      BY <1>0, <1>2 DEF Page, Fills
    <3> QED
      BY <2>1, <3>1 DEF Fetching
  <2> QED
    BY <2>2, <2>3, <2>4
<1> QED
  BY <1>0, <1>1, <1>2

LEMMA FetchStep == ASSUME PollInv, FetchPage PROVE PollInv'
<1> USE DEF PollInv
<1>0. /\ at = "fetch"
      /\ got' = got \cup Page
      /\ copies' = [i \in Fills |-> IF i \in Page THEN copies[i] + 1
                                                  ELSE copies[i]]
      /\ start' = IF offset = 0 THEN hist[wallet] ELSE start
      /\ UNCHANGED <<hist, rows, polled, streamed, wallet, cutoff>>
      /\ UNCHANGED <<captured, seen, batch, faults>>
  BY DEF FetchPage, table, ingest
<1>1. /\ hist[wallet] \in Int /\ offset \in Int /\ Limit \in Int
      /\ start \in 0..MaxFills /\ hist[wallet] \in 0..MaxFills
      /\ start <= hist[wallet]
  BY <1>0 DEF TypeOK, Fetching
<1>2. Page \subseteq Fills
  BY DEF Page
<1>3. /\ copies' \in [Fills -> Nat]
      /\ got' \in SUBSET Fills
      /\ start' \in 0..MaxFills
      /\ at' \in {"fetch", "load"}
      /\ offset' \in Nat
      /\ truncated' \in BOOLEAN
  <2>1. copies' \in [Fills -> Nat]
    BY <1>0 DEF TypeOK
  <2>2. got' \in SUBSET Fills /\ start' \in 0..MaxFills
    BY <1>0, <1>1, <1>2 DEF TypeOK
  <2>3. at' \in {"fetch", "load"}
    BY <1>0 DEF FetchPage
  <2>4. offset' \in Nat
    BY DEF FetchPage, NextOffset, TypeOK
  <2>5. truncated' \in {truncated, TRUE}
    BY Zenon DEF FetchPage
  <2>6. truncated' \in BOOLEAN
    BY <2>5, Zenon DEF TypeOK
  <2> QED
    BY <2>1, <2>2, <2>3, <2>4, <2>6
<1>4. TypeOK'
  BY <1>0, <1>3 DEF TypeOK
<1>5. 1..start' \subseteq Fills
  BY <1>3 DEF Fills
<1>6. \A i \in 1..start' : i <= start \/ (offset = 0 /\ i <= hist[wallet])
  BY <1>0, <1>1
<1>7. ASSUME NEW i \in Fills, i > hist[wallet] - offset - Limit,
             i \in 1..start' \/ \E j \in got' : i < j
      PROVE  i \in got'
  BY <1>0, <1>6, <1>7, PageCloses
<1>8. Fetching'
  <2> SUFFICES ASSUME at' = "fetch" PROVE Fetching'
    BY DEF Fetching
  <2>1. offset' = offset + Limit
    BY <1>0 DEF FetchPage, NextOffset
  <2>2. \A i \in Fills : Passed(i)' => i > hist[wallet] - offset - Limit
    BY <1>0, <1>1, <2>1 DEF Passed, Fills
  <2>3. start' <= hist'[wallet']
    BY <1>0, <1>1
  <2> QED
    BY <1>5, <1>7, <2>2, <2>3 DEF Fetching
<1>9. Fetched'
  <2> SUFFICES ASSUME at' = "load", ~truncated' PROVE Fetched'
    BY <1>3 DEF Fetched
  <2>1. LastPage
    BY <1>0 DEF FetchPage
  <2>2. ASSUME NEW i \in Fills, Recent(i)
        PROVE  i > hist[wallet] - offset - Limit
    <3>1. CASE hist[wallet] - offset < Limit
      BY <1>1, <3>1 DEF Fills
    <3>2. CASE \E p \in Page : ~Recent(p)
      <4> PICK p \in Page : ~Recent(p)
        BY <3>2
      <4>1. /\ Time(p) \in Nat /\ Time(i) \in Nat /\ cutoff \in Nat
            /\ p \in Fills
        BY <1>2 DEF Time, TypeOK
      <4>2. Time(p) < Time(i)
        BY <2>2, <4>1 DEF Recent
      <4>3. ~(i < p) /\ i # p
        BY <4>1, <4>2 DEF Time, TypeOK
      <4> QED
        BY <1>1, <4>1, <4>3 DEF Page, Fills
    <3> QED
      BY <2>1, <3>1, <3>2 DEF LastPage
  <2>3. \A i \in Fills : Recent(i)' => Recent(i)
    BY <1>0 DEF Recent, Time
  <2> QED
    BY <1>5, <1>7, <2>2, <2>3 DEF Fetched
<1>10. Listed' /\ OldestFirst'
  <2>1. \A i \in Fills : copies'[i] > 0 => i \in got'
    BY <1>0 DEF Listed
  <2> QED
    BY <1>3, <2>1 DEF Listed, OldestFirst
<1> QED
  BY <1>4, <1>8, <1>9, <1>10

LEMMA FetchFailsStep == ASSUME PollInv, FetchFails PROVE PollInv'
<1> USE DEF PollInv, FetchFails, Fault, table, ingest
<1>a. faults' \in 0..MaxFaults
  BY DEF TypeOK
<1>b. truncated' \in BOOLEAN /\ at' \in {"idle", "fetch", "load", "ingest"}
  BY Zenon
<1>c. /\ UNCHANGED <<table, wallet, cutoff, offset, got, copies, start, ingest>>
      /\ truncated' = TRUE /\ at' = "load"
  OBVIOUS
<1>1. TypeOK'
  BY <1>a, <1>b, <1>c DEF TypeOK
<1>2. Fetching' /\ Fetched' /\ Listed' /\ OldestFirst'
  BY DEF Fetching, Fetched, Listed, OldestFirst
<1> QED
  BY <1>1, <1>2

-----------------------------------------------------------------------------
(* Ingesting.                                                              *)

LEMMA LoadStep == ASSUME PollInv, LoadKeys PROVE PollInv'
<1> USE DEF PollInv, LoadKeys, table, fetch
<1>1. /\ copies' \in [Fills -> Nat]
      /\ captured' \in SUBSET Fills
      /\ batch' \in Seq(Fills)
  BY DEF TypeOK, Elements
<1>2. TypeOK'
  BY <1>1 DEF TypeOK
<1>3. \A i \in Fills : Recent(i)' <=> Recent(i)
  BY DEF Recent, Time
<1>4. Fetching' /\ Fetched' /\ OldestFirst'
  BY <1>3 DEF Fetching, Fetched, OldestFirst, TypeOK, Fills
<1>5. Listed'
  BY <1>3 DEF Listed
<1> QED
  BY <1>2, <1>4, <1>5

(* The API lists fills in order of time.                                   *)
LEMMA EarlierSecond ==
  ASSUME TypeOK, NEW i \in Fills, NEW j \in Fills, Time(i) < Time(j)
  PROVE  i < j
<1>1. /\ TimeOf[wallet][i] \in Nat /\ TimeOf[wallet][j] \in Nat
      /\ TimeOf[wallet][i] < TimeOf[wallet][j]
      /\ wallet \in Wallets
  BY DEF TypeOK, Time
<1>2. i \in Int /\ j \in Int
  BY DEF Fills
<1>3. j < i => TimeOf[wallet][j] <= TimeOf[wallet][i]
  BY <1>1
<1> QED
  BY <1>1, <1>2, <1>3

(* A step that takes one copy of the next fill i off the list, and may     *)
(* have inserted i.                                                        *)
LEMMA TakeStep ==
  ASSUME PollInv, at = "ingest", NEW i \in Fills, IsNext(i), Taken(i),
         UNCHANGED <<at, fetch>>, seen' \in {seen, seen \cup {i}}
  PROVE  /\ copies' \in [Fills -> Nat]
         /\ Fetching' /\ Fetched' /\ Listed' /\ OldestFirst'
<1> USE DEF PollInv
<1>1. /\ copies' \in [Fills -> Nat]
      /\ \A j \in Fills : copies'[j] > 0 => copies[j] > 0
      /\ \A j \in Fills : copies[j] = 0 => copies'[j] = 0
  BY DEF TypeOK, Taken, IsNext
<1>2. \A j \in Fills : Recent(j)' = Recent(j) /\ Time(j)' = Time(j)
  BY DEF Recent, Time, fetch
<1>3. Fetching' /\ Fetched'
  <2>1. 1..start \subseteq Fills
    BY DEF TypeOK, Fills
  <2>2. Fetching'
    BY DEF Fetching
  <2> QED
    BY <1>2, <2>1, <2>2 DEF Fetched, fetch
<1>4. Listed'
  BY <1>1, <1>2 DEF Listed, fetch
<1>5. ASSUME ~truncated, NEW j \in Fills, Recent(j), Time(j) < Time(i)
      PROVE  j \in got /\ copies[j] = 0
  <2>0. Time(j) \in Nat /\ Time(i) \in Nat
    BY DEF Time, TypeOK
  <2>1. i \in got
    BY DEF IsNext, Listed
  <2>2. j < i
    BY <1>5, EarlierSecond
  <2>3. j \in got
    BY <1>5, <2>1, <2>2 DEF Fetched
  <2>4. ~(copies[j] > 0)
    BY <1>5, <2>0 DEF IsNext
  <2>5. copies[j] \in Nat
    BY DEF TypeOK
  <2> QED
    BY <2>3, <2>4, <2>5
<1>6. OldestFirst'
  <2> SUFFICES ASSUME ~truncated, NEW k \in seen \cup {i}, NEW j \in Fills,
                      Recent(j), Time(j) < Time(k)
               PROVE  j \in got /\ copies'[j] = 0
    BY <1>2 DEF OldestFirst, fetch, TypeOK
  <2> QED
    BY <1>1, <1>5 DEF OldestFirst
<1> QED
  BY <1>1, <1>3, <1>4, <1>6

LEMMA SkipStep ==
  ASSUME PollInv, NEW i \in Fills, SkipNext(i) \/ Unresolved(i) PROVE PollInv'
<1>1. /\ at = "ingest" /\ IsNext(i) /\ Taken(i)
      /\ UNCHANGED <<table, at, fetch, ingest>>
      /\ faults' \in {faults, faults + 1}
      /\ faults' # faults => faults < MaxFaults
  BY DEF SkipNext, Unresolved, Fault
<1>2. seen' = seen
  BY <1>1 DEF ingest
<1>3. /\ copies' \in [Fills -> Nat]
      /\ Fetching' /\ Fetched' /\ Listed' /\ OldestFirst'
  BY <1>1, <1>2, TakeStep
<1>4. faults' \in 0..MaxFaults
  BY <1>1 DEF PollInv, TypeOK
<1>5. TypeOK'
  BY <1>1, <1>3, <1>4 DEF PollInv, TypeOK, table, fetch, ingest
<1> QED
  BY <1>3, <1>5 DEF PollInv

LEMMA CommitTypes ==
  ASSUME TypeOK, NEW b \in Seq(Fills), Commit(b)
  PROVE  /\ rows' \in [Wallets -> Seq(Fills)]
         /\ polled' \in SUBSET (Wallets \X Fills)
         /\ batch' \in Seq(Fills)
         /\ UNCHANGED <<hist, streamed>>
<1>1. Elements(b) \subseteq Fills
  BY DEF Elements
<1>2. rows[wallet] \o b \in Seq(Fills)
  BY DEF TypeOK
<1>3. rows' \in [Wallets -> Seq(Fills)]
  BY <1>2 DEF Commit, TypeOK
<1>4. polled' \in SUBSET (Wallets \X Fills)
  BY <1>1 DEF Commit, TypeOK
<1> QED
  BY <1>3, <1>4 DEF Commit

LEMMA IngestStep ==
  ASSUME PollInv, NEW i \in Fills, IngestNext(i) PROVE PollInv'
<1>1. /\ at = "ingest" /\ IsNext(i) /\ Taken(i)
      /\ seen' = seen \cup {i}
      /\ UNCHANGED <<at, fetch, captured, faults>>
  BY DEF IngestNext
<1>2. /\ copies' \in [Fills -> Nat]
      /\ Fetching' /\ Fetched' /\ Listed' /\ OldestFirst'
  BY <1>1, TakeStep
<1>3. Append(batch, i) \in Seq(Fills)
  BY DEF PollInv, TypeOK
<1>4. /\ rows' \in [Wallets -> Seq(Fills)]
      /\ polled' \in SUBSET (Wallets \X Fills)
      /\ batch' \in Seq(Fills)
      /\ UNCHANGED <<hist, streamed>>
  <2>1. CASE Commit(Append(batch, i))
    BY <1>3, <2>1, CommitTypes DEF PollInv
  <2>2. CASE batch' = Append(batch, i) /\ UNCHANGED table
    BY <1>3, <2>2 DEF PollInv, TypeOK, table
  <2> QED
    BY <2>1, <2>2 DEF IngestNext
<1>5. TypeOK'
  BY <1>1, <1>2, <1>4 DEF PollInv, TypeOK, fetch
<1> QED
  BY <1>2, <1>5 DEF PollInv

LEMMA AbortStep ==
  ASSUME PollInv, Abort, faults' \in 0..MaxFaults PROVE PollInv'
<1>1. TypeOK'
  <2>1. UNCHANGED <<hist, rows, polled, streamed, wallet, cutoff, offset, got, copies,
                    truncated, start, captured, seen>>
    BY DEF Abort, table, fetch
  <2>2. at' = "idle" /\ batch' = <<>>
    BY DEF Abort
  <2>3. batch' \in Seq(Fills)
    BY <2>2
  <2> QED
    BY <2>1, <2>2, <2>3 DEF PollInv, TypeOK
<1> USE DEF PollInv, Abort, table, fetch
<1>2. Fetching' /\ Fetched' /\ Listed' /\ OldestFirst'
  BY DEF Fetching, Fetched, Listed, OldestFirst
<1> QED
  BY <1>1, <1>2

LEMMA FinishStep == ASSUME PollInv, Finish PROVE PollInv'
<1> USE DEF PollInv, Finish, fetch
<1>1. batch \in Seq(Fills)
  BY DEF TypeOK
<1>2. /\ rows' \in [Wallets -> Seq(Fills)]
      /\ polled' \in SUBSET (Wallets \X Fills)
      /\ batch' \in Seq(Fills)
      /\ UNCHANGED <<hist, streamed>>
  BY <1>1, CommitTypes
<1>3. TypeOK'
  BY <1>2 DEF TypeOK
<1>4. Fetching' /\ Fetched' /\ Listed' /\ OldestFirst'
  BY DEF Fetching, Fetched, Listed, OldestFirst
<1> QED
  BY <1>3, <1>4

-----------------------------------------------------------------------------
LEMMA PollStep == PollInv /\ [Next]_vars => PollInv'
<1> SUFFICES ASSUME PollInv, [Next]_vars PROVE PollInv'
  OBVIOUS
<1>1. CASE \E w \in Wallets : Fill(w)
  BY <1>1, FillStep
<1>2. CASE \E w \in Wallets : \E i \in Fills : WsCapture(w, i)
  BY <1>2, WsStep
<1>3. CASE \E w \in Wallets : \E c \in Cutoffs : PollStart(w, c)
  BY <1>3, StartStep
<1>4. CASE FetchPage
  BY <1>4, FetchStep
<1>5. CASE FetchFails
  BY <1>5, FetchFailsStep
<1>6. CASE LoadKeys
  BY <1>6, LoadStep
<1>7. CASE \E i \in Fills : SkipNext(i) \/ Unresolved(i)
  BY <1>7, SkipStep
<1>8. CASE \E i \in Fills : IngestNext(i)
  BY <1>8, IngestStep
<1>9. CASE (\E i \in Fills : HitsConflict(i)) \/ Fails
  <2>1. Abort
    BY <1>9 DEF HitsConflict, Fails
  <2>2. faults' \in 0..MaxFaults
    BY <1>9 DEF HitsConflict, Fails, Fault, PollInv, TypeOK
  <2> QED
    BY <2>1, <2>2, AbortStep
<1>10. CASE Finish
  BY <1>10, FinishStep
<1>11. CASE UNCHANGED vars
  <2>1. TypeOK'
    BY <1>11 DEF vars, PollInv, TypeOK
  <2>2. Fetching' /\ Fetched' /\ Listed' /\ OldestFirst'
    BY <1>11 DEF vars, PollInv, Fetching, Fetched, Listed, OldestFirst,
                 Passed, Recent, Time
  <2> QED
    BY <2>1, <2>2 DEF PollInv
<1> QED
  BY <1>1, <1>2, <1>3, <1>4, <1>5, <1>6, <1>7, <1>8, <1>9, <1>10, <1>11 DEF Next

LEMMA PollInvariant == Spec => []PollInv
  BY InitPoll, PollStep, PTL DEF Spec

(* The poller's variables keep their types.                                *)
THEOREM PollTypes == Spec => []TypeOK
<1>1. PollInv => TypeOK
  BY DEF PollInv
<1> QED
  BY <1>1, PollInvariant, PTL

(* Drift repeats rows and never skips one, for every page size, page limit *)
(* and trading rate.                                                       *)
THEOREM DriftNeverSkips == Spec => []NeverSkips
<1>1. PollInv => NeverSkips
  BY DEF PollInv, Fetched, NeverSkips
<1> QED
  BY <1>1, PollInvariant, PTL

(* A complete poll inserts strictly oldest second first.                   *)
THEOREM InsertsOldestFirst == Spec => []OldestFirst
<1>1. PollInv => OldestFirst
  BY DEF PollInv
<1> QED
  BY <1>1, PollInvariant, PTL
-----------------------------------------------------------------------------
(* Repeats.  While a run ingests, every row of its wallet was there when   *)
(* it loaded the keys, or the run has seen it, or the stream brought it.   *)
Origin ==
  at = "ingest" =>
    \A j \in Elements(rows[wallet]) :
      j \in captured \/ j \in seen \/ <<wallet, j>> \in streamed

(* What waits for the commit has been seen, and has the key of no row but  *)
(* one that the stream brought since.                                      *)
Waiting ==
  at = "ingest" =>
    \A i \in Elements(batch) :
      /\ i \in seen
      /\ \A j \in captured : ~SameKey(wallet, i, j)
      /\ \A j \in Elements(rows[wallet]) :
           SameKey(wallet, i, j) => <<wallet, j>> \in streamed

RaceInv == TypeOK /\ Origin /\ Waiting

LEMMA ElementsAppend ==
  ASSUME NEW s \in Seq(Fills), NEW i \in Fills
  PROVE  Elements(Append(s, i)) = Elements(s) \cup {i}
<1> DEFINE t == Append(s, i)
<1>1. /\ DOMAIN s = 1..Len(s) /\ DOMAIN t = 1..Len(s) + 1 /\ Len(s) \in Nat
      /\ \A n \in 1..Len(s) : t[n] = s[n]
      /\ t[Len(s) + 1] = i
  OBVIOUS
<1>2. Elements(t) = {t[n] : n \in 1..Len(s) + 1} /\ Elements(s) = {s[n] : n \in 1..Len(s)}
  BY <1>1 DEF Elements
<1>3. 1..Len(s) + 1 = 1..Len(s) \cup {Len(s) + 1}
  BY <1>1
<1> HIDE DEF t
<1>4. {t[n] : n \in 1..Len(s) + 1} \subseteq {s[n] : n \in 1..Len(s)} \cup {i}
  BY <1>1, <1>3
<1>5. {s[n] : n \in 1..Len(s)} \subseteq {t[n] : n \in 1..Len(s) + 1}
  BY <1>1, <1>3
<1>6. i \in {t[n] : n \in 1..Len(s) + 1}
  BY <1>1
<1> QED
  BY <1>2, <1>4, <1>5, <1>6 DEF t

LEMMA ElementsConcat ==
  ASSUME NEW s \in Seq(Fills), NEW b \in Seq(Fills)
  PROVE  Elements(s \o b) \subseteq Elements(s) \cup Elements(b)
<1> SUFFICES ASSUME NEW n \in DOMAIN (s \o b)
             PROVE  (s \o b)[n] \in Elements(s) \cup Elements(b)
  BY DEF Elements
<1>1. /\ DOMAIN s = 1..Len(s) /\ DOMAIN b = 1..Len(b)
      /\ n \in 1..Len(s) + Len(b) /\ Len(s) \in Nat /\ Len(b) \in Nat
      /\ (s \o b)[n] = IF n <= Len(s) THEN s[n] ELSE b[n - Len(s)]
  OBVIOUS
<1>2. CASE n <= Len(s)
  BY <1>1, <1>2 DEF Elements
<1>3. CASE ~(n <= Len(s))
  <2>1. n - Len(s) \in 1..Len(b)
    BY <1>1, <1>3
  <2> QED
    BY <1>1, <1>3, <2>1 DEF Elements
<1> QED
  BY <1>2, <1>3

(* What IngestNext holds back is fit to wait with the rest of the batch.   *)
LEMMA NextFits ==
  ASSUME RaceInv, at = "ingest", NEW i \in Fills, ~Known(i),
         NEW k \in Elements(batch) \cup {i}
  PROVE  /\ k \in seen \cup {i}
         /\ \A j \in captured : ~SameKey(wallet, k, j)
         /\ \A j \in Elements(rows[wallet]) :
              SameKey(wallet, k, j) => <<wallet, j>> \in streamed
<1>1. CASE k = i
  BY <1>1 DEF RaceInv, Origin, Known
<1>2. CASE k \in Elements(batch)
  BY <1>2 DEF RaceInv, Waiting
<1> QED
  BY <1>1, <1>2

(* After a commit nothing waits, and the new rows were seen.               *)
LEMMA CommitRace ==
  ASSUME RaceInv, at = "ingest", NEW b \in Seq(Fills), Commit(b), UNCHANGED wallet,
         UNCHANGED captured, seen \subseteq seen', Elements(b) \subseteq seen'
  PROVE  Origin' /\ Waiting'
<1> USE DEF RaceInv
<1>1. rows[wallet] \in Seq(Fills) /\ rows'[wallet] = rows[wallet] \o b
  BY DEF TypeOK, Commit
<1>2. Elements(rows'[wallet]) \subseteq Elements(rows[wallet]) \cup Elements(b)
  BY <1>1, ElementsConcat
<1>3. Origin'
  BY <1>2 DEF Origin, Commit
<1>4. Elements(batch') = {}
  BY DEF Commit, Elements
<1> QED
  BY <1>3, <1>4 DEF Waiting

LEMMA WsRace ==
  ASSUME RaceInv, NEW w \in Wallets, NEW i \in Fills, WsCapture(w, i)
  PROVE  Origin' /\ Waiting'
<1> USE DEF RaceInv, WsCapture, fetch, ingest
<1>1. /\ rows \in [Wallets -> Seq(Fills)] /\ wallet \in Wallets
      /\ rows' = [rows EXCEPT ![w] = Append(@, i)]
      /\ streamed' = streamed \cup {<<w, i>>}
      /\ UNCHANGED <<at, wallet, captured, seen, batch>>
  BY DEF TypeOK
<1> HIDE DEF WsCapture
<1>2. ASSUME NEW j \in Elements(rows'[wallet])
      PROVE  j \in Elements(rows[wallet]) \/ <<wallet, j>> \in streamed'
  <2>1. CASE w = wallet
    <3>1. rows'[wallet] = Append(rows[wallet], i) /\ rows[wallet] \in Seq(Fills)
      BY <1>1, <2>1
    <3>2. j = i \/ j \in Elements(rows[wallet])
      BY <1>2, <3>1, ElementsAppend
    <3> QED
      BY <1>1, <2>1, <3>2
  <2>2. CASE w # wallet
    BY <1>1, <1>2, <2>2
  <2> QED
    BY <2>1, <2>2
<1>3. Origin'
  BY <1>1, <1>2 DEF Origin
<1>4. Waiting'
  BY <1>1, <1>2 DEF Waiting, SameKey
<1> QED
  BY <1>3, <1>4

LEMMA IngestRace ==
  ASSUME RaceInv, NEW i \in Fills, IngestNext(i)
  PROVE  Origin' /\ Waiting'
<1>1. /\ at = "ingest" /\ at' = at /\ ~Known(i)
      /\ seen' = seen \cup {i}
      /\ UNCHANGED <<wallet, captured>>
  BY DEF IngestNext, fetch
<1>2. batch \in Seq(Fills) /\ Append(batch, i) \in Seq(Fills)
  BY DEF RaceInv, TypeOK
<1>3. Elements(Append(batch, i)) = Elements(batch) \cup {i}
  BY <1>2, ElementsAppend
<1>4. CASE Commit(Append(batch, i))
  <2>1. Elements(Append(batch, i)) \subseteq seen'
    BY <1>1, <1>3, NextFits
  <2> QED
    BY <1>1, <1>2, <1>4, <2>1, CommitRace
<1>5. CASE batch' = Append(batch, i) /\ UNCHANGED table
  <2>1. UNCHANGED <<rows, streamed>>
    BY <1>5 DEF table
  <2>2. Origin'
    BY <1>1, <2>1 DEF RaceInv, Origin
  <2>3. Waiting'
    BY <1>1, <1>3, <1>5, <2>1, NextFits DEF Waiting, SameKey
  <2> QED
    BY <2>2, <2>3
<1> QED
  BY <1>4, <1>5 DEF IngestNext

LEMMA RaceStep == PollInv /\ RaceInv /\ [Next]_vars => RaceInv'
<1> SUFFICES ASSUME PollInv, RaceInv, [Next]_vars PROVE RaceInv'
  OBVIOUS
<1>0. TypeOK'
  BY PollStep DEF PollInv
<1>1. CASE \E w \in Wallets : \E i \in Fills : WsCapture(w, i)
  BY <1>0, <1>1, WsRace DEF RaceInv
<1>2. CASE \E i \in Fills : IngestNext(i)
  BY <1>0, <1>2, IngestRace DEF RaceInv
<1>3. CASE LoadKeys
  <2>1. /\ captured' = Elements(rows[wallet]) /\ batch' = <<>>
        /\ UNCHANGED <<rows, wallet, streamed>>
    BY <1>3 DEF LoadKeys, table, fetch
  <2>2. Elements(batch') = {} /\ Elements(rows'[wallet']) = captured'
    BY <2>1 DEF Elements
  <2> QED
    BY <1>0, <2>2 DEF RaceInv, Origin, Waiting
<1>4. CASE \/ \E w \in Wallets : Fill(w)
           \/ \E i \in Fills : SkipNext(i) \/ Unresolved(i)
           \/ UNCHANGED vars
  <2>1. UNCHANGED <<at, rows, streamed, wallet, captured, seen, batch>>
    BY <1>4 DEF Fill, SkipNext, Unresolved, vars, table, fetch, ingest
  <2> QED
    BY <1>0, <2>1 DEF RaceInv, Origin, Waiting, SameKey
<1>5. CASE \/ \E w \in Wallets : \E c \in Cutoffs : PollStart(w, c)
           \/ FetchPage \/ FetchFails
           \/ (\E i \in Fills : HitsConflict(i)) \/ Fails \/ Finish
  <2>1. at' # "ingest"
    BY <1>5 DEF PollStart, FetchPage, FetchFails, HitsConflict, Fails, Abort, Finish
  <2> QED
    BY <1>0, <2>1 DEF RaceInv, Origin, Waiting
<1> QED
  BY <1>1, <1>2, <1>3, <1>4, <1>5 DEF Next

(* What a commit adds was in the batch, or is the fill just ingested.      *)
LEMMA CommitNamed ==
  ASSUME NEW b, Commit(b), NEW i \in Fills, <<wallet, i>> \in polled' \ polled
  PROVE  i \in Elements(b)
BY DEF Commit

LEMMA RaceAction ==
  ASSUME RaceInv, [Next]_vars, NEW i \in Fills, <<wallet, i>> \in polled' \ polled,
         NEW j \in Elements(rows[wallet]), SameKey(wallet, i, j)
  PROVE  j \notin captured /\ <<wallet, j>> \in streamed
<1>1. CASE Finish
  <2>1. at = "ingest" /\ Commit(batch)
    BY <1>1 DEF Finish
  <2>2. i \in Elements(batch)
    BY <2>1, CommitNamed
  <2> QED
    BY <2>1, <2>2 DEF RaceInv, Waiting
<1>2. CASE \E k \in Fills : IngestNext(k)
  <2>1. PICK k \in Fills : IngestNext(k)
    BY <1>2
  <2>2. at = "ingest" /\ ~Known(k) /\ Commit(Append(batch, k))
    BY <2>1 DEF IngestNext, table
  <2>3. i \in Elements(batch) \cup {k}
    BY <2>2, CommitNamed, ElementsAppend DEF RaceInv, TypeOK
  <2> QED
    BY <2>2, <2>3, NextFits
<1>3. CASE ~Finish /\ ~\E k \in Fills : IngestNext(k)
  <2>1. polled' = polled
    BY <1>3 DEF Next, vars, Fill, WsCapture, PollStart, FetchPage, FetchFails,
         LoadKeys, SkipNext, Unresolved, HitsConflict, Fails, Abort, table
  <2> QED
    BY <2>1
<1> QED
  BY <1>1, <1>2, <1>3

(* For every history, batch size and number of faults a poll repeats a key *)
(* only of a row that the stream inserted after the keys were loaded.      *)
THEOREM RepeatsAreRaces == Spec => RepeatsOnlyRaces
<1>1. Init => RaceInv
  BY InitPoll DEF PollInv, RaceInv, Init, Origin, Waiting
<1>2. RaceInv /\ [Next]_vars
      => [\A i \in Fills :
            <<wallet, i>> \in polled' \ polled =>
              \A j \in Elements(rows[wallet]) :
                SameKey(wallet, i, j) =>
                  j \notin captured /\ <<wallet, j>> \in streamed]_vars
  BY RaceAction
<1> QED
  BY <1>1, <1>2, RaceStep, PollInvariant, PTL DEF Spec, RepeatsOnlyRaces
=============================================================================
