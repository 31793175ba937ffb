------------------------ MODULE PositionLedgerProofs ------------------------
(***************************************************************************)
(* Theorems about the position ledger and the tasks that rewrite it, for   *)
(* every set of keys, labels, sizes and prices and every choice of jobs.   *)
(* The second half, on the tasks, begins with what a fold over a sequence  *)
(* of trades of any length adds up to.                                     *)
(***************************************************************************)
EXTENDS LedgerRebuild, WellFoundedInduction, SequenceTheorems, TLAPS

(* The helpers compute P&L as an integer, whatever the token's label.      *)
LEMMA GainType ==
  ASSUME NEW k \in Keys, NEW exit \in Nat, NEW n \in Nat
  PROVE  Gain(k, exit, n) \in Int
<1>1. EntryPrice[k] \in Int BY ConstantsAssumption
<1>2. exit - EntryPrice[k] \in Int BY <1>1
<1>3. \A a, b \in Int : a * b \in Int BY SMT
<1> QED BY <1>2, <1>3 DEF Gain

LEMMA SettlementType ==
  ASSUME NEW k \in Keys, NEW l, NEW n \in Nat
  PROVE  Settlement(k, l, n) \in Int
<1>1. Payout \in Nat /\ 0 \in Nat BY ConstantsAssumption
<1>2. CASE token[k] = l BY <1>1, <1>2, GainType DEF Settlement
<1>3. CASE token[k] # l BY <1>1, <1>3, GainType DEF Settlement
<1> QED BY <1>2, <1>3

(* A positions row on which the status agrees with the shares and nothing  *)
(* is oversold; every row operation of the code leaves such a row.         *)
Sound(p) == /\ p \in Row
            /\ p.status = "Open" <=> p.remaining > 0
            /\ p.sold + p.remaining <= p.bought

LEMMA SoundAfterBuy ==
  ASSUME NEW p, Sound(p), NEW n \in Nat \ {0}
  PROVE  Sound(AfterBuy(p, n))
BY DEF Sound, Row, AfterBuy

LEMMA SoundAfterSell ==
  ASSUME NEW p, Sound(p), NEW n \in Nat, NEW g \in Int
  PROVE  Sound(AfterSell(p, n, g))
BY DEF Sound, Row, AfterSell, NoRow, Greatest

LEMMA SoundAfterSettlement ==
  ASSUME NEW p, Sound(p), NEW n \in Nat, NEW g \in Int
  PROVE  Sound(AfterSettlement(p, n, g))
BY DEF Sound, Row, AfterSettlement, Greatest

LEMMA SoundAfterCloseOut ==
  ASSUME NEW p, Sound(p), NEW g \in Int
  PROVE  Sound(AfterCloseOut(p, g))
BY DEF Sound, Row, AfterCloseOut

LEMMA SoundAfterOrphan ==
  ASSUME NEW p, Sound(p), NEW g \in Int
  PROVE  Sound(AfterOrphan(p, g))
BY DEF Sound, Row, AfterOrphan

LEMMA WcpRowsType ==
  ASSUME NEW w \in WcpRows, NEW n \in Nat, NEW g \in Int
  PROVE  /\ WithExit(w, n, g) \in WcpRows
         /\ WithResolution(w, n, g) \in WcpRows
         /\ WithResidual(w, n, g) \in WcpRows
BY DEF WcpRows, WithExit, WithResolution, WithResidual

-----------------------------------------------------------------------------
(* The inductive invariant: types, and the soundness of every row.         *)
LedgerInv == TypeOK /\ \A k \in Keys : Sound(pos[k])

(* A step on the three tables alone preserves it if each row it writes is  *)
(* of its type and sound.                                                  *)
TablesOK == /\ cb \in [Keys -> Nat]
            /\ wcp \in [Keys -> WcpRows]
            /\ pos \in [Keys -> Row]
            /\ \A k \in Keys : Sound(pos[k])

RestOK ==
  /\ market \in [resolution : Outcome, stamped : Outcome]
  /\ phase \in {"trading", "due", "dead"}
  /\ token \in [Keys -> Outcome]
  /\ trades \in [unstamped : SUBSET Keys, count : 0..MaxTrades]
  /\ bought \in [Keys -> Nat]
  /\ queued \in BOOLEAN
  /\ resolver \in [busy : BOOLEAN, answer : Outcome, late : BOOLEAN]
  /\ epsilon \in SUBSET Keys
  /\ stranded \in [pass : {"idle", "cost_basis", "orphans"},
                   todo : SUBSET Keys]

LEMMA LedgerInvParts == LedgerInv <=> TablesOK /\ RestOK
BY DEF LedgerInv, TypeOK, TablesOK, RestOK

LEMMA LedgerInvPartsNext == LedgerInv' <=> TablesOK' /\ RestOK'
BY DEF LedgerInv, TypeOK, TablesOK, RestOK, Sound

(* One row of each table is written.                                       *)
LEMMA OneRow ==
  ASSUME TablesOK, NEW k \in Keys,
         NEW c \in Nat, NEW w \in WcpRows, NEW p, Sound(p),
         cb'  = cb  \/ cb'  = [cb EXCEPT ![k] = c],
         wcp' = wcp \/ wcp' = [wcp EXCEPT ![k] = w],
         pos' = pos \/ pos' = [pos EXCEPT ![k] = p]
  PROVE  TablesOK'
<1>1. p \in Row BY DEF Sound
<1>2. cb' \in [Keys -> Nat] BY DEF TablesOK
<1>3. wcp' \in [Keys -> WcpRows] BY DEF TablesOK
<1>4. pos' \in [Keys -> Row] BY <1>1 DEF TablesOK
<1>5. ASSUME NEW j \in Keys PROVE Sound(pos'[j])
  <2>1. pos'[j] = pos[j] \/ pos'[j] = p BY DEF TablesOK
  <2> QED BY <2>1 DEF TablesOK
<1> QED BY <1>2, <1>3, <1>4, <1>5 DEF TablesOK, Sound

-----------------------------------------------------------------------------
(* One lemma per action that writes the tables.                            *)

LEMMA IngestBuyRest ==
  ASSUME RestOK, NEW k \in Keys, NEW n \in Sizes, IngestBuy(k, n)
  PROVE  RestOK'
<1>1. n \in Nat BY ConstantsAssumption
<1>2. trades' \in [unstamped : SUBSET Keys, count : 0..MaxTrades]
  BY ConstantsAssumption DEF RestOK, IngestBuy, Arrives
<1>3. bought' \in [Keys -> Nat] BY <1>1 DEF RestOK, IngestBuy
<1> QED BY <1>2, <1>3 DEF RestOK, IngestBuy, Arrives, world, jobs

LEMMA WsBuyInv ==
  ASSUME LedgerInv, NEW k \in Keys, NEW n \in Sizes, WsBuy(k, n)
  PROVE  LedgerInv'
<1> USE LedgerInvParts
<1>1. n \in Nat \ {0} BY ConstantsAssumption
<1> DEFINE size == cb[k] + n
           p == AfterBuy(pos[k], n)
           g == Settlement(k, market.resolution, size)
<1>2. size \in Nat BY <1>1 DEF TablesOK
<1>3. Sound(p) BY <1>1, SoundAfterBuy DEF TablesOK
<1>4. g \in Int BY <1>2, SettlementType
<1>5. Sound(AfterSettlement(p, size, g))
  BY <1>2, <1>3, <1>4, SoundAfterSettlement
<1>6. WithResolution(wcp[k], size, g) \in WcpRows
  BY <1>2, <1>4, WcpRowsType DEF TablesOK
<1>7. wcp[k] \in WcpRows BY DEF TablesOK
<1>8. CloseIfResolved(k, size, p) BY DEF WsBuy
<1> HIDE DEF size, p, g
<1>9. TablesOK'
  <2>1. CASE /\ wcp' = [wcp EXCEPT ![k] = WithResolution(wcp[k], size, g)]
             /\ pos' = [pos EXCEPT ![k] = AfterSettlement(p, size, g)]
             /\ cb' = [cb EXCEPT ![k] = 0]
    <3>1. 0 \in Nat OBVIOUS
    <3> QED BY <2>1, <3>1, <1>5, <1>6, OneRow
  <2>2. CASE UNCHANGED wcp /\ pos' = [pos EXCEPT ![k] = p]
             /\ cb' = [cb EXCEPT ![k] = 0]
    <3>1. 0 \in Nat OBVIOUS
    <3> QED BY <2>2, <3>1, <1>3, <1>7, OneRow
  <2>3. CASE UNCHANGED wcp /\ pos' = [pos EXCEPT ![k] = p]
             /\ cb' = [cb EXCEPT ![k] = size]
    BY <2>3, <1>2, <1>3, <1>7, OneRow
  <2> QED BY <2>1, <2>2, <2>3, <1>8 DEF CloseIfResolved, g
<1>10. RestOK' BY IngestBuyRest DEF WsBuy
<1> QED BY <1>9, <1>10, LedgerInvPartsNext

LEMMA PollBuyInv ==
  ASSUME LedgerInv, NEW k \in Keys, NEW n \in Sizes, PollBuy(k, n)
  PROVE  LedgerInv'
<1> USE LedgerInvParts
<1>1. n \in Nat \ {0} BY ConstantsAssumption
<1>2. cb[k] + n \in Nat BY <1>1 DEF TablesOK
<1>3. Sound(AfterBuy(pos[k], n)) BY <1>1, SoundAfterBuy DEF TablesOK
<1>4. wcp[k] \in WcpRows BY DEF TablesOK
<1>5. TablesOK' BY <1>2, <1>3, <1>4, OneRow DEF PollBuy
<1>6. RestOK' BY IngestBuyRest DEF PollBuy
<1> QED BY <1>5, <1>6, LedgerInvPartsNext

LEMMA SellInv ==
  ASSUME LedgerInv, NEW k \in Keys, NEW n \in Sizes,
         NEW price \in SellPrices, Sell(k, n, price)
  PROVE  LedgerInv'
<1> USE LedgerInvParts
<1>1. n \in Nat /\ price \in Nat /\ cb[k] \in Nat
  BY ConstantsAssumption DEF TablesOK
<1> DEFINE size == IF cb[k] = 0 THEN 0 ELSE Closable(k, n)
           gain == Gain(k, price, size)
<1>2. size \in Nat BY <1>1 DEF Closable, Least
<1>3. gain \in Int BY <1>1, <1>2, GainType
<1>4. WithExit(wcp[k], size, gain) \in WcpRows
  BY <1>2, <1>3, WcpRowsType DEF TablesOK
<1>5. Sound(AfterSell(pos[k], n, gain))
  BY <1>1, <1>3, SoundAfterSell DEF TablesOK
<1>6. Reduced(cb[k], n) \in Nat BY <1>1 DEF Reduced, Greatest
<1>7. /\ wcp' = [wcp EXCEPT ![k] = WithExit(wcp[k], size, gain)]
      /\ cb'  = [cb EXCEPT ![k] = Reduced(cb[k], n)]
      /\ pos' = [pos EXCEPT ![k] = AfterSell(pos[k], n, gain)]
  BY DEF Sell
<1> HIDE DEF size, gain
<1>8. TablesOK' BY <1>4, <1>5, <1>6, <1>7, OneRow
<1>9. RestOK'
  <2>1. trades' \in [unstamped : SUBSET Keys, count : 0..MaxTrades]
    BY ConstantsAssumption DEF RestOK, Sell, Arrives
  <2> QED BY <2>1 DEF RestOK, Sell, Arrives, world, jobs
<1> QED BY <1>8, <1>9, LedgerInvPartsNext

LEMMA ProcessMarketInv ==
  ASSUME LedgerInv, NEW blank, ProcessMarket(blank)
  PROVE  LedgerInv'
<1> USE LedgerInvParts
<1> DEFINE g(k) == Settlement(k, market.resolution, cb[k])
<1>1. \A k \in Keys : cb[k] \in Nat /\ g(k) \in Int
  BY SettlementType DEF TablesOK
<1>2. \A k \in Keys : wcp[k] \in WcpRows /\ Sound(pos[k]) BY DEF TablesOK
<1>3. \A k \in Keys : WithResolution(wcp[k], cb[k], g(k)) \in WcpRows
  BY <1>1, <1>2, WcpRowsType
<1>4. \A k \in Keys : Sound(AfterSettlement(pos[k], cb[k], g(k)))
  BY <1>1, <1>2, SoundAfterSettlement
<1>5. /\ wcp' = [k \in Keys |-> IF Settles(k)
                   THEN WithResolution(wcp[k], cb[k], g(k)) ELSE wcp[k]]
      /\ pos' = [k \in Keys |-> IF Settles(k)
                   THEN AfterSettlement(pos[k], cb[k], g(k)) ELSE pos[k]]
      /\ cb' = [k \in Keys |-> 0]
  BY DEF ProcessMarket
<1> HIDE DEF g
<1>6. \A k \in Keys : wcp'[k] \in WcpRows /\ Sound(pos'[k])
  BY <1>2, <1>3, <1>4, <1>5
<1>7. TablesOK' BY <1>5, <1>6 DEF TablesOK, Sound
<1>8. RestOK'
  <2>1. market' \in [resolution : Outcome, stamped : Outcome]
    BY DEF RestOK, ProcessMarket
  <2>2. trades' \in [unstamped : SUBSET Keys, count : 0..MaxTrades]
    BY DEF RestOK, ProcessMarket
  <2> QED BY <2>1, <2>2 DEF RestOK, ProcessMarket
<1> QED BY <1>7, <1>8, LedgerInvPartsNext

LEMMA ResolverApplyInv ==
  ASSUME LedgerInv, ResolverApply
  PROVE  LedgerInv'
<1> USE LedgerInvParts
<1> DEFINE l == resolver.answer
           g(k) == Settlement(k, l, pos[k].remaining)
<1>1. \A k \in Keys : cb[k] \in Nat /\ wcp[k] \in WcpRows /\ Sound(pos[k])
  BY DEF TablesOK
<1>2. \A k \in Keys : pos[k].remaining \in Nat BY <1>1 DEF Sound, Row
<1>3. \A k \in Keys : g(k) \in Int BY <1>2, SettlementType
<1>4. \A k \in Keys :
        /\ WithResolution(wcp[k], pos[k].remaining, g(k)) \in WcpRows
        /\ Sound(AfterCloseOut(pos[k], g(k)))
  BY <1>1, <1>2, <1>3, WcpRowsType, SoundAfterCloseOut
<1>5. /\ wcp' = [k \in Keys |-> ResolverRow(k, l)]
      /\ pos' = [k \in Keys |-> IF pos[k].remaining > 0
                   THEN AfterCloseOut(pos[k], g(k)) ELSE pos[k]]
      /\ cb' = [k \in Keys |-> BasisAfterResolver(k)]
      /\ l # None /\ market' = [market EXCEPT !.resolution = l]
  BY DEF ResolverApply
<1>6. \A k \in Keys : ResolverRow(k, l) \in WcpRows
  BY <1>1, <1>4 DEF ResolverRow
<1>7. \A k \in Keys : BasisAfterResolver(k) \in Nat
  BY <1>1 DEF BasisAfterResolver
<1>8. TablesOK'
  <2> HIDE DEF g, l
  <2>1. \A k \in Keys : Sound(pos'[k]) BY <1>1, <1>4, <1>5
  <2> QED BY <2>1, <1>5, <1>6, <1>7 DEF TablesOK, Sound
<1>9. RestOK'
  <2>1. l \in Outcome BY DEF RestOK
  <2>2. market' \in [resolution : Outcome, stamped : Outcome]
    BY <1>5, <2>1 DEF RestOK
  <2>3. None \in Outcome BY DEF Outcome
  <2> QED BY <2>2, <2>3 DEF RestOK, ResolverApply, ResolverRests, flow
<1> QED BY <1>8, <1>9, LedgerInvPartsNext

LEMMA ResolverGivesUpInv ==
  ASSUME LedgerInv, ResolverGivesUp
  PROVE  LedgerInv'
<1> USE LedgerInvParts
<1>1. \A k \in Keys : Sound(pos[k]) BY DEF TablesOK
<1>2. \A k \in Keys : Sound(AfterCloseOut(pos[k], 0))
  BY <1>1, SoundAfterCloseOut
<1>3. pos' = [k \in Keys |-> IF pos[k].remaining > 0
                THEN AfterCloseOut(pos[k], 0) ELSE pos[k]]
  BY DEF ResolverGivesUp
<1>4. \A k \in Keys : Sound(pos'[k]) BY <1>1, <1>2, <1>3
<1>5. TablesOK' BY <1>3, <1>4 DEF TablesOK, ResolverGivesUp, Sound
<1>6. None \in Outcome BY DEF Outcome
<1>7. RestOK'
  BY <1>6 DEF RestOK, ResolverGivesUp, ResolverRests, world, flow
<1> QED BY <1>5, <1>7, LedgerInvPartsNext

LEMMA EpsilonCloseInv ==
  ASSUME LedgerInv, NEW k \in Keys,
         NEW price \in SellPrices \cup {EntryPrice[k]},
         EpsilonClose(k, price)
  PROVE  LedgerInv'
<1> USE LedgerInvParts
<1> DEFINE g == Gain(k, price, pos[k].remaining)
<1>1. price \in Nat BY ConstantsAssumption
<1>2. Sound(pos[k]) /\ wcp[k] \in WcpRows /\ cb[k] \in Nat BY DEF TablesOK
<1>3. pos[k].remaining \in Nat BY <1>2 DEF Sound, Row
<1>4. g \in Int BY <1>1, <1>3, GainType
<1>5. WithResidual(wcp[k], pos[k].remaining, g) \in WcpRows
  BY <1>2, <1>3, <1>4, WcpRowsType
<1>6. Sound(AfterCloseOut(pos[k], g)) BY <1>2, <1>4, SoundAfterCloseOut
<1>7. /\ wcp' = [wcp EXCEPT ![k] = WithResidual(wcp[k], pos[k].remaining, g)]
      /\ pos' = [pos EXCEPT ![k] = AfterCloseOut(pos[k], g)]
      /\ cb' = cb
  BY DEF EpsilonClose
<1> HIDE DEF g
<1>8. TablesOK' BY <1>2, <1>5, <1>6, <1>7, OneRow
<1>9. RestOK' BY DEF RestOK, EpsilonClose, world, flow
<1> QED BY <1>8, <1>9, LedgerInvPartsNext

LEMMA StrandedCloseInv ==
  ASSUME LedgerInv, NEW k \in Keys, StrandedClose(k)
  PROVE  LedgerInv'
<1> USE LedgerInvParts
<1> DEFINE g == Settlement(k, market.resolution, cb[k])
<1>1. Sound(pos[k]) /\ wcp[k] \in WcpRows /\ cb[k] \in Nat BY DEF TablesOK
<1>2. g \in Int BY <1>1, SettlementType
<1>3. WithResolution(wcp[k], cb[k], g) \in WcpRows
  BY <1>1, <1>2, WcpRowsType
<1>4. /\ \/ wcp' = wcp
         \/ wcp' = [wcp EXCEPT ![k] = WithResolution(wcp[k], cb[k], g)]
      /\ cb' = cb \/ cb' = [cb EXCEPT ![k] = 0]
      /\ pos' = pos
  BY DEF StrandedClose
<1> HIDE DEF g
<1>5. 0 \in Nat OBVIOUS
<1>6. TablesOK' BY <1>1, <1>3, <1>4, <1>5, OneRow
<1>7. RestOK' BY DEF RestOK, StrandedClose, Visited, world, flow
<1> QED BY <1>6, <1>7, LedgerInvPartsNext

LEMMA OrphanCloseInv ==
  ASSUME LedgerInv, NEW k \in Keys, OrphanClose(k)
  PROVE  LedgerInv'
<1> USE LedgerInvParts
<1> DEFINE n == pos[k].remaining
           g == Settlement(k, market.resolution, n)
<1>1. Sound(pos[k]) /\ wcp[k] \in WcpRows /\ cb[k] \in Nat BY DEF TablesOK
<1>2. n \in Nat BY <1>1 DEF Sound, Row
<1>3. WithResolution(wcp[k], n, g) \in WcpRows
  BY <1>1, <1>2, SettlementType, WcpRowsType
<1>4. OrphanRows(k) \in WcpRows BY <1>1, <1>3 DEF OrphanRows
<1>5. OrphanRows(k).pnl \in Int BY <1>4 DEF WcpRows
<1>6. Sound(AfterOrphan(pos[k], OrphanRows(k).pnl))
  BY <1>1, <1>5, SoundAfterOrphan
<1>7. /\ wcp' = wcp \/ wcp' = [wcp EXCEPT ![k] = OrphanRows(k)]
      /\ \/ pos' = pos
         \/ pos' = [pos EXCEPT ![k] = AfterOrphan(pos[k], OrphanRows(k).pnl)]
      /\ cb' = cb
  BY DEF OrphanClose
<1>8. TablesOK' BY <1>1, <1>4, <1>6, <1>7, OneRow
<1>9. RestOK' BY DEF RestOK, OrphanClose, Visited, world, flow
<1> QED BY <1>8, <1>9, LedgerInvPartsNext

(* A step that leaves the tables alone has only the rest to answer for.    *)
LEMMA IdleTables ==
  ASSUME LedgerInv, UNCHANGED tables, RestOK'
  PROVE  LedgerInv'
<1>1. TablesOK BY LedgerInvParts
<1>2. TablesOK' BY <1>1 DEF TablesOK, tables, Sound
<1> QED BY <1>2, LedgerInvPartsNext

-----------------------------------------------------------------------------
LEMMA LedgerInit == Init => LedgerInv
<1> SUFFICES ASSUME Init PROVE LedgerInv
  OBVIOUS
<1>1. Sound(NoRow) BY DEF Sound, NoRow, Row
<1>2. NoWcp \in WcpRows BY DEF NoWcp, WcpRows
<1>3. TablesOK BY <1>1, <1>2 DEF Init, TablesOK, Sound
<1>4. RestOK
  <2>1. market \in [resolution : Outcome, stamped : Outcome]
    BY DEF Init, Outcome
  <2>2. trades \in [unstamped : SUBSET Keys, count : 0..MaxTrades]
    <3>1. 0 \in 0..MaxTrades BY ConstantsAssumption
    <3> QED BY <3>1 DEF Init
  <2>3. resolver \in [busy : BOOLEAN, answer : Outcome, late : BOOLEAN]
    BY DEF Init, Outcome
  <2>4. stranded \in [pass : {"idle", "cost_basis", "orphans"},
                     todo : SUBSET Keys]
    BY DEF Init
  <2>5. bought \in [Keys -> Nat] /\ token \in [Keys -> Outcome]
    BY DEF Init, Outcome
  <2>6. phase \in {"trading", "due", "dead"} /\ queued \in BOOLEAN
        /\ epsilon \in SUBSET Keys
    BY DEF Init
  <2> QED BY <2>1, <2>2, <2>3, <2>4, <2>5, <2>6 DEF RestOK
<1> QED BY <1>3, <1>4, LedgerInvParts

LEMMA LedgerStep == LedgerInv /\ [Next]_vars => LedgerInv'
<1> SUFFICES ASSUME LedgerInv, [Next]_vars PROVE LedgerInv'
  OBVIOUS
<1>0. RestOK BY LedgerInvParts
<1>1. ASSUME NEW l \in Labels, Sync(l) PROVE LedgerInv'
  <2>1. RestOK' BY <1>0, <1>1 DEF RestOK, Sync, Outcome, flow, jobs
  <2> QED BY <2>1, <1>1, IdleTables DEF Sync
<1>2. ASSUME FindMarkets PROVE LedgerInv'
  <2>1. RestOK' BY <1>0, <1>2 DEF RestOK, FindMarkets, world, flow
  <2> QED BY <2>1, <1>2, IdleTables DEF FindMarkets
<1>3. ASSUME NEW a \in Outcome, ResolverFetch(a) PROVE LedgerInv'
  <2>1. (phase = "dead") \in BOOLEAN OBVIOUS
  <2>2. resolver' \in [busy : BOOLEAN, answer : Outcome, late : BOOLEAN]
    BY <2>1, <1>3 DEF ResolverFetch
  <2>3. RestOK' BY <2>2, <1>0, <1>3 DEF RestOK, ResolverFetch, world, flow
  <2> QED BY <2>3, <1>3, IdleTables DEF ResolverFetch
<1>4. ASSUME ResolverLeaves PROVE LedgerInv'
  <2>1. RestOK'
    BY <1>0, <1>4 DEF RestOK, ResolverLeaves, ResolverRests, Outcome,
                      world, flow
  <2> QED BY <2>1, <1>4, IdleTables DEF ResolverLeaves
<1>5. ASSUME NEW idle \in SUBSET Keys, EpsilonScan(idle) PROVE LedgerInv'
  <2>1. RestOK' BY <1>0, <1>5 DEF RestOK, EpsilonScan, world, flow
  <2> QED BY <2>1, <1>5, IdleTables DEF EpsilonScan
<1>6. ASSUME NEW k \in Keys, EpsilonSkip(k) PROVE LedgerInv'
  <2>1. RestOK' BY <1>0, <1>6 DEF RestOK, EpsilonSkip, world, flow
  <2> QED BY <2>1, <1>6, IdleTables DEF EpsilonSkip
<1>7. ASSUME StrandedScan \/ OrphanScan \/ StrandedDone PROVE LedgerInv'
  <2>1. RestOK'
    BY <1>0, <1>7 DEF RestOK, StrandedScan, OrphanScan, StrandedDone,
                      Orphans, world, flow
  <2> QED BY <2>1, <1>7, IdleTables DEF StrandedScan, OrphanScan, StrandedDone
<1>8. ASSUME Age PROVE LedgerInv'
  <2>1. RestOK' BY <1>0, <1>8 DEF RestOK, Age, flow, jobs
  <2> QED BY <2>1, <1>8, IdleTables DEF Age
<1>9. ASSUME NEW k \in Keys, NEW l \in Labels, UpsertToken(k, l)
      PROVE  LedgerInv'
  <2>1. RestOK' BY <1>0, <1>9 DEF RestOK, UpsertToken, Outcome, flow, jobs
  <2> QED BY <2>1, <1>9, IdleTables DEF UpsertToken
<1>10. ASSUME UNCHANGED vars PROVE LedgerInv'
  <2>1. RestOK' BY <1>0, <1>10 DEF RestOK, vars
  <2> QED BY <2>1, <1>10, IdleTables DEF vars, tables
<1>11. CASE Trading BY <1>11, WsBuyInv, PollBuyInv, SellInv DEF Trading
<1>12. CASE ResolutionJob
  BY <1>12, <1>1, <1>2, ProcessMarketInv DEF ResolutionJob
<1>13. CASE ResolverJob
  BY <1>13, <1>3, <1>4, ResolverApplyInv, ResolverGivesUpInv
  DEF ResolverJob, Outcome
<1>14. CASE EpsilonJob
  BY <1>14, <1>5, <1>6, EpsilonCloseInv DEF EpsilonJob
<1>15. CASE StrandedJob
  BY <1>15, <1>7, StrandedCloseInv, OrphanCloseInv DEF StrandedJob
<1> QED BY <1>8, <1>9, <1>10, <1>11, <1>12, <1>13, <1>14, <1>15 DEF Next

(* Whichever jobs run and however they interleave, the variables keep      *)
(* their types: no size, balance or counter of the ledger goes negative.   *)
THEOREM LedgerTypes == Spec => []TypeOK
<1>1. LedgerInv => TypeOK BY DEF LedgerInv
<1> QED BY <1>1, LedgerInit, LedgerStep, PTL DEF Spec

(* Whichever jobs run and however they interleave, a positions row is Open *)
(* exactly when it has remaining shares.                                   *)
THEOREM StatusAgrees == Spec => []StatusMatchesShares
<1>1. LedgerInv => StatusMatchesShares
  BY DEF LedgerInv, Sound, StatusMatchesShares
<1> QED BY <1>1, LedgerInit, LedgerStep, PTL DEF Spec

(* Whichever jobs run and however they interleave, total_shares_bought     *)
(* covers what was sold and what remains.                                  *)
THEOREM Covered == Spec => []NeverOversold
<1>1. LedgerInv => NeverOversold BY DEF LedgerInv, Sound, NeverOversold
<1> QED BY <1>1, LedgerInit, LedgerStep, PTL DEF Spec

-----------------------------------------------------------------------------
(* Shares are closed once.  Of a single key: its accounts move the way     *)
(* ShareAccounts allows, and while no resolution row was written its       *)
(* remaining shares have not been booked either.  The second part is what  *)
(* makes the first inductive: the resolver books remaining_shares, not the *)
(* cost basis.                                                             *)
Unbooked(w, p, b) == w.resolved = {} => w.sold + p.remaining <= b

OnceInv == LedgerInv /\ NoDoubleClose
           /\ \A k \in Keys : Unbooked(wcp[k], pos[k], bought[k])

Moves(k) == /\ bought'[k] >= bought[k]
            /\ wcp'[k].sold >= wcp[k].sold
            /\ cb'[k] + (wcp'[k].sold - wcp[k].sold)
                 <= cb[k] + (bought'[k] - bought[k])

LEMMA KeyTypes ==
  ASSUME LedgerInv, NEW k \in Keys
  PROVE  /\ cb[k] \in Nat /\ bought[k] \in Nat
         /\ wcp[k].sold \in Nat /\ wcp[k].resolved \in SUBSET Nat
         /\ pos[k].remaining \in Nat
<1>1. wcp[k] \in WcpRows /\ pos[k] \in Row BY DEF LedgerInv, TypeOK
<1> QED BY <1>1 DEF LedgerInv, TypeOK, WcpRows, Row

LEMMA KeyTypesNext ==
  ASSUME LedgerInv', NEW k \in Keys
  PROVE  /\ cb'[k] \in Nat /\ bought'[k] \in Nat
         /\ wcp'[k].sold \in Nat /\ wcp'[k].resolved \in SUBSET Nat
         /\ pos'[k].remaining \in Nat
<1>1. wcp'[k] \in WcpRows /\ pos'[k] \in Row BY DEF LedgerInv, TypeOK
<1> QED BY <1>1 DEF LedgerInv, TypeOK, WcpRows, Row

LEMMA WsBuyMoves ==
  ASSUME LedgerInv, NEW k \in Keys, NEW n \in Sizes, WsBuy(k, n),
         NEW j \in Keys
  PROVE  /\ Moves(j)
         /\ Unbooked(wcp[j], pos[j], bought[j])
              => Unbooked(wcp'[j], pos'[j], bought'[j])
<1>1. n \in Nat BY ConstantsAssumption
<1>2. /\ cb \in [Keys -> Nat] /\ bought \in [Keys -> Nat]
      /\ wcp \in [Keys -> WcpRows] /\ pos \in [Keys -> Row]
  BY DEF LedgerInv, TypeOK
<1>3. bought' = [bought EXCEPT ![k] = @ + n] BY DEF WsBuy, IngestBuy
<1> DEFINE size == cb[k] + n
           p == AfterBuy(pos[k], n)
           g == Settlement(k, market.resolution, size)
<1>4. p.remaining = pos[k].remaining + n BY DEF AfterBuy
<1>5. \/ /\ wcp' = [wcp EXCEPT ![k] = WithResolution(wcp[k], size, g)]
         /\ pos' = [pos EXCEPT ![k] = AfterSettlement(p, size, g)]
         /\ cb' = [cb EXCEPT ![k] = 0]
      \/ /\ wcp' = wcp /\ pos' = [pos EXCEPT ![k] = p]
         /\ \/ cb' = [cb EXCEPT ![k] = 0]
            \/ cb' = [cb EXCEPT ![k] = size]
  BY DEF WsBuy, CloseIfResolved
<1>6. /\ WithResolution(wcp[k], size, g).sold = wcp[k].sold + size
      /\ WithResolution(wcp[k], size, g).resolved # {}
  BY DEF WithResolution
<1>8. CASE j # k
  <2>1. /\ cb'[j] = cb[j] /\ wcp'[j] = wcp[j] /\ pos'[j] = pos[j]
        /\ bought'[j] = bought[j]
    BY <1>2, <1>3, <1>5, <1>8
  <2> QED BY <2>1, KeyTypes DEF Moves, Unbooked
<1>9. CASE j = k
  <2>1. bought'[k] = bought[k] + n BY <1>2, <1>3
  <2>2. \/ /\ wcp'[k] = WithResolution(wcp[k], size, g) /\ cb'[k] = 0
        \/ /\ wcp'[k] = wcp[k] /\ pos'[k] = p
           /\ cb'[k] = 0 \/ cb'[k] = size
    BY <1>2, <1>5
  <2> DEFINE w == WithResolution(wcp[k], size, g)
  <2>3. w.sold = wcp[k].sold + cb[k] + n /\ w.resolved # {}
    BY <1>1, <1>6, KeyTypes
  <2> HIDE DEF p, g, w
  <2>4. CASE wcp'[k] = w /\ cb'[k] = 0
    BY <1>1, <1>9, <2>1, <2>3, <2>4, KeyTypes DEF Moves, Unbooked
  <2>5. CASE wcp'[k] = wcp[k] /\ pos'[k] = p /\ (cb'[k] = 0 \/ cb'[k] = size)
    BY <1>1, <1>4, <1>9, <2>1, <2>5, KeyTypes DEF Moves, Unbooked
  <2> QED BY <2>2, <2>4, <2>5 DEF w
<1> QED BY <1>8, <1>9

LEMMA PollBuyMoves ==
  ASSUME LedgerInv, NEW k \in Keys, NEW n \in Sizes, PollBuy(k, n),
         NEW j \in Keys
  PROVE  /\ Moves(j)
         /\ Unbooked(wcp[j], pos[j], bought[j])
              => Unbooked(wcp'[j], pos'[j], bought'[j])
<1>1. n \in Nat BY ConstantsAssumption
<1>2. /\ cb \in [Keys -> Nat] /\ bought \in [Keys -> Nat]
      /\ pos \in [Keys -> Row]
  BY DEF LedgerInv, TypeOK
<1>3. /\ bought' = [bought EXCEPT ![k] = @ + n]
      /\ cb' = [cb EXCEPT ![k] = @ + n]
      /\ pos' = [pos EXCEPT ![k] = AfterBuy(@, n)]
      /\ wcp' = wcp
  BY DEF PollBuy, IngestBuy
<1>4. AfterBuy(pos[k], n).remaining = pos[k].remaining + n BY DEF AfterBuy
<1> QED BY <1>1, <1>2, <1>3, <1>4, KeyTypes DEF Moves, Unbooked

LEMMA SellMoves ==
  ASSUME LedgerInv, NEW k \in Keys, NEW n \in Sizes,
         NEW price \in SellPrices, Sell(k, n, price), NEW j \in Keys,
         wcp[j].sold + cb[j] <= bought[j]
  PROVE  /\ Moves(j)
         /\ Unbooked(wcp[j], pos[j], bought[j])
              => Unbooked(wcp'[j], pos'[j], bought'[j])
<1>1. n \in Nat BY ConstantsAssumption
<1>2. /\ cb \in [Keys -> Nat] /\ bought \in [Keys -> Nat]
      /\ wcp \in [Keys -> WcpRows] /\ pos \in [Keys -> Row]
  BY DEF LedgerInv, TypeOK
<1> DEFINE size == IF cb[k] = 0 THEN 0 ELSE Closable(k, n)
           gain == Gain(k, price, size)
<1>3. /\ wcp' = [wcp EXCEPT ![k] = WithExit(@, size, gain)]
      /\ cb'  = [cb EXCEPT ![k] = Reduced(@, n)]
      /\ pos' = [pos EXCEPT ![k] = AfterSell(@, n, gain)]
      /\ bought' = bought
  BY DEF Sell
<1>4. /\ WithExit(wcp[k], size, gain).sold = wcp[k].sold + size
      /\ WithExit(wcp[k], size, gain).resolved = wcp[k].resolved
  BY DEF WithExit
<1>5. /\ size \in Nat /\ size <= n /\ size <= cb[k]
      /\ Reduced(cb[k], n) = cb[k] - size
  BY <1>1, KeyTypes DEF Closable, Least, Reduced, Greatest
<1>6. pos[k].status = "none" => pos[k].remaining = 0
  BY DEF LedgerInv, Sound, Row
<1>7. AfterSell(pos[k], n, gain).remaining
        = Greatest(0, pos[k].remaining - n)
  <2>1. CASE pos[k].status = "none"
    BY <2>1, <1>1, <1>6 DEF AfterSell, Greatest
  <2>2. CASE pos[k].status # "none" BY <2>2 DEF AfterSell
  <2> QED BY <2>1, <2>2
<1> HIDE DEF size, gain
<1>8. CASE j # k
  <2>1. /\ cb'[j] = cb[j] /\ wcp'[j] = wcp[j] /\ pos'[j] = pos[j]
        /\ bought'[j] = bought[j]
    BY <1>2, <1>3, <1>8
  <2> QED BY <2>1, KeyTypes DEF Moves, Unbooked
<1>9. CASE j = k
  <2>1. /\ cb'[k] = cb[k] - size /\ wcp'[k].sold = wcp[k].sold + size
        /\ wcp'[k].resolved = wcp[k].resolved /\ bought'[k] = bought[k]
        /\ pos'[k].remaining = Greatest(0, pos[k].remaining - n)
    BY <1>2, <1>3, <1>4, <1>5, <1>7
  <2> QED BY <1>1, <1>5, <1>9, <2>1, KeyTypes DEF Moves, Unbooked, Greatest
<1> QED BY <1>8, <1>9

LEMMA ProcessMarketMoves ==
  ASSUME LedgerInv, NEW blank, ProcessMarket(blank), NEW j \in Keys
  PROVE  /\ Moves(j)
         /\ Unbooked(wcp[j], pos[j], bought[j])
              => Unbooked(wcp'[j], pos'[j], bought'[j])
<1> DEFINE g == Settlement(j, market.resolution, cb[j])
<1>1. /\ wcp'[j] = IF Settles(j) THEN WithResolution(wcp[j], cb[j], g)
                                 ELSE wcp[j]
      /\ pos'[j] = IF Settles(j) THEN AfterSettlement(pos[j], cb[j], g)
                                 ELSE pos[j]
      /\ cb'[j] = 0 /\ bought' = bought
  BY DEF ProcessMarket
<1>2. /\ WithResolution(wcp[j], cb[j], g).sold = wcp[j].sold + cb[j]
      /\ WithResolution(wcp[j], cb[j], g).resolved # {}
  BY DEF WithResolution
<1> HIDE DEF g
<1>3. CASE Settles(j) BY <1>1, <1>2, <1>3, KeyTypes DEF Moves, Unbooked
<1>4. CASE ~Settles(j) BY <1>1, <1>4, KeyTypes DEF Moves, Unbooked
<1> QED BY <1>3, <1>4

(* The resolver books remaining_shares; that they were not booked before   *)
(* is the strengthening.                                                   *)
LEMMA ResolverApplyOnce ==
  ASSUME OnceInv, ResolverApply, NEW j \in Keys
  PROVE  /\ wcp'[j].sold + cb'[j] <= bought'[j]
         /\ Unbooked(wcp'[j], pos'[j], bought'[j])
<1> DEFINE l == resolver.answer
           n == pos[j].remaining
           g == Settlement(j, l, n)
           w == WithResolution(wcp[j], n, g)
<1>1. LedgerInv /\ wcp[j].sold + cb[j] <= bought[j]
      /\ Unbooked(wcp[j], pos[j], bought[j])
  BY DEF OnceInv, NoDoubleClose
<1>2. /\ wcp'[j] = ResolverRow(j, l)
      /\ pos'[j] = IF n > 0 THEN AfterCloseOut(pos[j], g) ELSE pos[j]
      /\ cb'[j] = BasisAfterResolver(j)
      /\ bought' = bought
  BY DEF ResolverApply, flow
<1>3. AfterCloseOut(pos[j], g).remaining = 0 BY DEF AfterCloseOut
<1>4. w.sold = wcp[j].sold + n /\ w.resolved # {} BY DEF WithResolution
<1>5. CASE n > 0 /\ wcp[j].resolved = {}
  <2>1. wcp'[j] = w /\ cb'[j] = 0
    BY <1>2, <1>5 DEF ResolverRow, BasisAfterResolver
  <2> HIDE DEF w
  <2> QED BY <2>1, <1>1, <1>2, <1>4, <1>5, KeyTypes DEF Unbooked
<1>6. CASE n > 0 /\ wcp[j].resolved # {}
  <2>1. wcp'[j] = wcp[j] /\ cb'[j] = 0
    BY <1>2, <1>6 DEF ResolverRow, BasisAfterResolver
  <2>2. Unbooked(wcp'[j], pos'[j], bought'[j])
    BY <2>1, <1>6 DEF Unbooked
  <2>3. wcp[j].sold <= bought[j] BY <1>1, KeyTypes
  <2>4. wcp[j].sold \in Nat /\ bought'[j] = bought[j]
    BY <1>1, <1>2, KeyTypes
  <2>5. wcp'[j].sold + cb'[j] <= bought'[j]
    <3> HIDE DEF n, l
    <3> QED BY <2>1, <2>3, <2>4
  <2> QED BY <2>2, <2>5
<1>7. CASE ~(n > 0)
  <2>1. wcp'[j] = wcp[j] /\ cb'[j] = cb[j] /\ pos'[j] = pos[j]
    BY <1>2, <1>7 DEF ResolverRow, BasisAfterResolver
  <2> QED BY <2>1, <1>1, <1>2
<1> QED BY <1>5, <1>6, <1>7

(* Giving up on the outcome only takes remaining shares away.              *)
LEMMA ResolverGivesUpOnce ==
  ASSUME LedgerInv, ResolverGivesUp, NEW j \in Keys
  PROVE  /\ Moves(j)
         /\ Unbooked(wcp[j], pos[j], bought[j])
              => Unbooked(wcp'[j], pos'[j], bought'[j])
<1>1. /\ wcp' = wcp /\ cb' = cb /\ bought' = bought
      /\ pos'[j] = IF pos[j].remaining > 0
                   THEN AfterCloseOut(pos[j], 0) ELSE pos[j]
  BY DEF ResolverGivesUp, flow
<1>2. AfterCloseOut(pos[j], 0).remaining = 0 BY DEF AfterCloseOut
<1> QED BY <1>1, <1>2, KeyTypes DEF Moves, Unbooked

(* Every other step of the worker's settlement jobs leaves the accounts.   *)
LEMMA IdleAccounts ==
  ASSUME LedgerInv, UNCHANGED <<tables, bought>>, NEW j \in Keys
  PROVE  /\ Moves(j)
         /\ Unbooked(wcp[j], pos[j], bought[j])
              => Unbooked(wcp'[j], pos'[j], bought'[j])
BY KeyTypes DEF Moves, Unbooked, tables

LEMMA IdleSteps ==
  ASSUME \/ \E l \in Labels : Sync(l)
         \/ FindMarkets
         \/ \E a \in Outcome : ResolverFetch(a)
         \/ ResolverLeaves
         \/ Age
         \/ \E k \in Keys, l \in Labels : UpsertToken(k, l)
         \/ UNCHANGED vars
  PROVE  UNCHANGED <<tables, bought>>
BY DEF Sync, FindMarkets, ResolverFetch, ResolverLeaves, Age, UpsertToken,
       vars, tables, flow

CoreOnly == Jobs \subseteq {"resolution", "resolver", "unknown"}

LEMMA OnceStep ==
  ASSUME CoreOnly, OnceInv, [Next]_vars
  PROVE  OnceInv'
<1>0. LedgerInv /\ LedgerInv' BY LedgerStep DEF OnceInv
<1> DEFINE Good(j) == /\ wcp'[j].sold + cb'[j] <= bought'[j]
                      /\ Unbooked(wcp'[j], pos'[j], bought'[j])
<1>1. ASSUME NEW j \in Keys, Moves(j),
             Unbooked(wcp[j], pos[j], bought[j])
                => Unbooked(wcp'[j], pos'[j], bought'[j])
      PROVE  Good(j)
  <2>1. wcp[j].sold + cb[j] <= bought[j]
        /\ Unbooked(wcp[j], pos[j], bought[j])
    BY DEF OnceInv, NoDoubleClose
  <2> QED BY <2>1, <1>0, <1>1, KeyTypes, KeyTypesNext DEF Moves
<1>2. \A j \in Keys : Good(j)
  <2> TAKE j \in Keys
  <2> HIDE DEF Good
  <2>1. wcp[j].sold + cb[j] <= bought[j] BY DEF OnceInv, NoDoubleClose
  <2>2. CASE Trading
    BY <2>1, <2>2, <1>0, <1>1, WsBuyMoves, PollBuyMoves, SellMoves
    DEF Trading
  <2>3. CASE ResolutionJob
    <3>1. CASE \E blank : ProcessMarket(blank)
      BY <3>1, <1>0, <1>1, ProcessMarketMoves
    <3>2. CASE (\E l \in Labels : Sync(l)) \/ FindMarkets
      BY <3>2, <1>0, <1>1, IdleSteps, IdleAccounts
    <3> QED BY <2>3, <3>1, <3>2 DEF ResolutionJob
  <2>4. CASE ResolverJob
    <3>1. CASE ResolverApply BY <3>1, ResolverApplyOnce DEF Good
    <3>2. CASE ResolverGivesUp BY <3>2, <1>0, <1>1, ResolverGivesUpOnce
    <3>3. CASE (\E a \in Outcome : ResolverFetch(a)) \/ ResolverLeaves
      BY <3>3, <1>0, <1>1, IdleSteps, IdleAccounts
    <3> QED BY <2>4, <3>1, <3>2, <3>3 DEF ResolverJob, Outcome
  <2>5. CASE EpsilonJob \/ StrandedJob
    BY <2>5 DEF EpsilonJob, StrandedJob, CoreOnly
  <2>6. CASE Age \/ (\E k \in Keys, l \in Labels : UpsertToken(k, l))
             \/ UNCHANGED vars
    BY <2>6, <1>0, <1>1, IdleSteps, IdleAccounts
  <2> QED BY <2>2, <2>3, <2>4, <2>5, <2>6 DEF Next
<1> QED BY <1>0, <1>2 DEF OnceInv, NoDoubleClose, Unbooked

(* As long as neither the epsilon close nor the stranded check runs, the   *)
(* ingestor, the poller, the resolution job and the market resolver -- its *)
(* stale answers and unknown closings included -- never book a bought      *)
(* share as closed twice.                                                  *)
THEOREM ClosedOnce ==
  ASSUME CoreOnly
  PROVE  Spec => []NoDoubleClose
<1>1. Init => OnceInv
  <2> SUFFICES ASSUME Init PROVE OnceInv
    OBVIOUS
  <2>1. \A k \in Keys : wcp[k].sold = 0 /\ cb[k] = 0 /\ bought[k] = 0
                        /\ pos[k].remaining = 0
    BY DEF Init, NoRow, NoWcp
  <2> QED BY <2>1, LedgerInit DEF OnceInv, NoDoubleClose, Unbooked
<1>2. OnceInv /\ [Next]_vars => OnceInv' BY OnceStep
<1>3. OnceInv => NoDoubleClose BY DEF OnceInv
<1> QED BY <1>1, <1>2, <1>3, PTL DEF Spec

-----------------------------------------------------------------------------
(* Refinement: with the resolution job and the unknown-outcome closing     *)
(* beside the trades, each step is a step of the share accounts.           *)
AccountingOnly == Jobs \subseteq {"resolution", "unknown"}

LEMMA AccountsStep ==
  ASSUME AccountingOnly, OnceInv, [Next]_vars
  PROVE  Accounts!Next
<1>0. LedgerInv BY DEF OnceInv
<1>1. \A j \in Keys : Moves(j)
  <2> TAKE j \in Keys
  <2>1. wcp[j].sold + cb[j] <= bought[j] BY DEF OnceInv, NoDoubleClose
  <2>2. CASE Trading
    BY <2>1, <2>2, <1>0, WsBuyMoves, PollBuyMoves, SellMoves DEF Trading
  <2>3. CASE ResolutionJob
    <3>1. CASE \E blank : ProcessMarket(blank)
      BY <3>1, <1>0, ProcessMarketMoves
    <3>2. CASE (\E l \in Labels : Sync(l)) \/ FindMarkets
      BY <3>2, <1>0, IdleSteps, IdleAccounts
    <3> QED BY <2>3, <3>1, <3>2 DEF ResolutionJob
  <2>4. CASE ResolverJob
    <3>1. CASE ResolverGivesUp BY <3>1, <1>0, ResolverGivesUpOnce
    <3>2. CASE (\E a \in Outcome : ResolverFetch(a)) \/ ResolverLeaves
      BY <3>2, <1>0, IdleSteps, IdleAccounts
    <3> QED BY <2>4, <3>1, <3>2 DEF ResolverJob, AccountingOnly, Outcome
  <2>5. CASE EpsilonJob \/ StrandedJob
    BY <2>5 DEF EpsilonJob, StrandedJob, AccountingOnly
  <2>6. CASE Age \/ (\E k \in Keys, l \in Labels : UpsertToken(k, l))
             \/ UNCHANGED vars
    BY <2>6, <1>0, IdleSteps, IdleAccounts
  <2> QED BY <2>2, <2>3, <2>4, <2>5, <2>6 DEF Next
<1> QED BY <1>1 DEF Accounts!Next, Accounts!Move, Moves

(* The ledger implements the share accounts: a share enters by a BUY,      *)
(* leaves by one booked closing or by being written off, and stays out.    *)
THEOREM LedgerImplementsAccounts ==
  ASSUME AccountingOnly
  PROVE  Spec => ImplementsAccounts
<1>1. Init => OnceInv /\ Accounts!Init
  <2> SUFFICES ASSUME Init PROVE OnceInv /\ Accounts!Init
    OBVIOUS
  <2>1. \A k \in Keys : wcp[k].sold = 0 /\ cb[k] = 0 /\ bought[k] = 0
                        /\ pos[k].remaining = 0
    BY DEF Init, NoRow, NoWcp
  <2>2. OnceInv BY <2>1, LedgerInit DEF OnceInv, NoDoubleClose, Unbooked
  <2>3. Accounts!Init BY <2>1 DEF Init, Accounts!Init
  <2> QED BY <2>2, <2>3
<1>2. OnceInv /\ [Next]_vars => OnceInv'
  BY OnceStep DEF AccountingOnly, CoreOnly
<1>3. OnceInv /\ [Next]_vars => [Accounts!Next]_(Accounts!accounts)
  BY AccountsStep
<1> QED BY <1>1, <1>2, <1>3, PTL DEF Spec, ImplementsAccounts, Accounts!Spec
-----------------------------------------------------------------------------
(* Reconciliation.  Of a single key: both P&Ls agree, and a key without a  *)
(* positions row has neither P&L nor cost basis.  The second part is needed*)
(* because the handlers skip the P&L of a row that does not exist.         *)
Even(p, w, c) == /\ p.pnl = w.pnl
                 /\ p.status = "none" => p.pnl = 0 /\ c = 0

PnlInv == LedgerInv /\ \A k \in Keys : Even(pos[k], wcp[k], cb[k])

LEMMA KeyPnl ==
  ASSUME LedgerInv, NEW k \in Keys
  PROVE  pos[k].pnl \in Int /\ wcp[k].pnl \in Int /\ cb[k] \in Nat
<1>1. wcp[k] \in WcpRows /\ pos[k] \in Row BY DEF LedgerInv, TypeOK
<1> QED BY <1>1 DEF LedgerInv, TypeOK, WcpRows, Row

LEMMA WsBuyEven ==
  ASSUME LedgerInv, NEW k \in Keys, NEW n \in Sizes, WsBuy(k, n),
         NEW j \in Keys, Even(pos[j], wcp[j], cb[j])
  PROVE  Even(pos'[j], wcp'[j], cb'[j])
<1>1. /\ cb \in [Keys -> Nat]
      /\ wcp \in [Keys -> WcpRows] /\ pos \in [Keys -> Row]
  BY DEF LedgerInv, TypeOK
<1> DEFINE size == cb[k] + n
           p == AfterBuy(pos[k], n)
           g == Settlement(k, market.resolution, size)
           q == AfterSettlement(p, size, g)
           w == WithResolution(wcp[k], size, g)
<1>2. p.status = "Open" /\ p.pnl = pos[k].pnl BY DEF AfterBuy
<1>3. q.status = "Closed" /\ q.pnl = p.pnl + g
  BY <1>2 DEF AfterSettlement
<1>4. w.pnl = wcp[k].pnl + g BY DEF WithResolution
<1>5. \/ /\ wcp' = [wcp EXCEPT ![k] = w] /\ pos' = [pos EXCEPT ![k] = q]
         /\ cb' = [cb EXCEPT ![k] = 0]
      \/ /\ wcp' = wcp /\ pos' = [pos EXCEPT ![k] = p]
         /\ \/ cb' = [cb EXCEPT ![k] = 0]
            \/ cb' = [cb EXCEPT ![k] = size]
  BY DEF WsBuy, CloseIfResolved
<1> HIDE DEF p, q, w, g, size
<1>6. CASE j # k
  BY <1>1, <1>5, <1>6
<1>7. CASE j = k
  <2>1. \/ pos'[k] = q /\ wcp'[k] = w
        \/ pos'[k] = p /\ wcp'[k] = wcp[k]
    BY <1>1, <1>5
  <2> QED BY <2>1, <1>2, <1>3, <1>4, <1>7 DEF Even
<1> QED BY <1>6, <1>7

LEMMA PollBuyEven ==
  ASSUME LedgerInv, NEW k \in Keys, NEW n \in Sizes, PollBuy(k, n),
         NEW j \in Keys, Even(pos[j], wcp[j], cb[j])
  PROVE  Even(pos'[j], wcp'[j], cb'[j])
<1>1. cb \in [Keys -> Nat] /\ pos \in [Keys -> Row]
  BY DEF LedgerInv, TypeOK
<1>2. /\ cb' = [cb EXCEPT ![k] = @ + n]
      /\ pos' = [pos EXCEPT ![k] = AfterBuy(@, n)]
      /\ wcp' = wcp
  BY DEF PollBuy
<1>3. /\ AfterBuy(pos[k], n).status = "Open"
      /\ AfterBuy(pos[k], n).pnl = pos[k].pnl
  BY DEF AfterBuy
<1> QED BY <1>1, <1>2, <1>3 DEF Even

LEMMA SellEven ==
  ASSUME LedgerInv, NEW k \in Keys, NEW n \in Sizes,
         NEW price \in SellPrices, Sell(k, n, price), NEW j \in Keys,
         Even(pos[j], wcp[j], cb[j])
  PROVE  Even(pos'[j], wcp'[j], cb'[j])
<1>1. /\ cb \in [Keys -> Nat]
      /\ wcp \in [Keys -> WcpRows] /\ pos \in [Keys -> Row]
  BY DEF LedgerInv, TypeOK
<1> DEFINE size == IF cb[k] = 0 THEN 0 ELSE Closable(k, n)
           gain == Gain(k, price, size)
           p == AfterSell(pos[k], n, gain)
           w == WithExit(wcp[k], size, gain)
<1>2. /\ wcp' = [wcp EXCEPT ![k] = w]
      /\ cb'  = [cb EXCEPT ![k] = Reduced(@, n)]
      /\ pos' = [pos EXCEPT ![k] = p]
  BY DEF Sell
<1>3. w.pnl = wcp[k].pnl + gain BY DEF WithExit
<1>4. CASE j # k BY <1>1, <1>2, <1>4
<1>5. CASE j = k
  <2>1. pos'[k] = p /\ wcp'[k] = w BY <1>1, <1>2
  <2>2. CASE pos[k].status = "none"
    <3>1. cb[k] = 0 /\ wcp[k].pnl = 0 BY <1>5, <2>2 DEF Even
    <3>2. gain = (price - EntryPrice[k]) * 0 BY <3>1 DEF Gain
    <3>3. gain = 0 BY <3>2, ConstantsAssumption
    <3>4. p.status = "Closed" /\ p.pnl = 0 BY <2>2 DEF AfterSell
    <3> HIDE DEF p, w, gain
    <3> QED BY <1>3, <1>5, <2>1, <3>1, <3>3, <3>4 DEF Even
  <2>3. CASE pos[k].status # "none"
    <3>1. p.status # "none" /\ p.pnl = pos[k].pnl + gain
      BY <2>3 DEF AfterSell
    <3> HIDE DEF p, w, gain
    <3> QED BY <1>3, <1>5, <2>1, <3>1 DEF Even
  <2> QED BY <2>2, <2>3
<1> QED BY <1>4, <1>5

LEMMA ProcessMarketEven ==
  ASSUME LedgerInv, NEW blank, ProcessMarket(blank), NEW j \in Keys,
         Even(pos[j], wcp[j], cb[j])
  PROVE  Even(pos'[j], wcp'[j], cb'[j])
<1> DEFINE g == Settlement(j, market.resolution, cb[j])
<1>1. /\ wcp'[j] = IF Settles(j) THEN WithResolution(wcp[j], cb[j], g)
                                 ELSE wcp[j]
      /\ pos'[j] = IF Settles(j) THEN AfterSettlement(pos[j], cb[j], g)
                                 ELSE pos[j]
      /\ cb'[j] = 0
  BY DEF ProcessMarket
<1>2. CASE Settles(j)
  <2>1. pos[j].status # "none" BY <1>2, KeyPnl DEF Even, Settles
  <2>2. WithResolution(wcp[j], cb[j], g).pnl = wcp[j].pnl + g
    BY DEF WithResolution
  <2>3. /\ AfterSettlement(pos[j], cb[j], g).pnl = pos[j].pnl + g
        /\ AfterSettlement(pos[j], cb[j], g).status = "Closed"
    BY <2>1 DEF AfterSettlement
  <2> HIDE DEF g
  <2> QED BY <1>1, <1>2, <2>2, <2>3 DEF Even
<1>3. CASE ~Settles(j) BY <1>1, <1>3 DEF Even
<1> QED BY <1>2, <1>3

LEMMA ResolverGivesUpEven ==
  ASSUME LedgerInv, ResolverGivesUp, NEW j \in Keys,
         Even(pos[j], wcp[j], cb[j])
  PROVE  Even(pos'[j], wcp'[j], cb'[j])
<1>1. /\ wcp' = wcp /\ cb' = cb
      /\ pos'[j] = IF pos[j].remaining > 0
                   THEN AfterCloseOut(pos[j], 0) ELSE pos[j]
  BY DEF ResolverGivesUp
<1>2. /\ AfterCloseOut(pos[j], 0).status = "Closed"
      /\ AfterCloseOut(pos[j], 0).pnl = pos[j].pnl
  BY KeyPnl DEF AfterCloseOut
<1> QED BY <1>1, <1>2 DEF Even

LEMMA PnlStep ==
  ASSUME AccountingOnly, PnlInv, [Next]_vars
  PROVE  PnlInv'
<1>0. LedgerInv /\ LedgerInv' BY LedgerStep DEF PnlInv
<1>1. ASSUME UNCHANGED tables, NEW j \in Keys, Even(pos[j], wcp[j], cb[j])
      PROVE  Even(pos'[j], wcp'[j], cb'[j])
  BY <1>1 DEF tables
<1>2. ASSUME NEW j \in Keys
      PROVE  Even(pos'[j], wcp'[j], cb'[j])
  <2>1. Even(pos[j], wcp[j], cb[j]) BY DEF PnlInv
  <2>2. CASE Trading
    BY <2>1, <2>2, <1>0, WsBuyEven, PollBuyEven, SellEven DEF Trading
  <2>3. CASE ResolutionJob
    <3>1. CASE \E blank : ProcessMarket(blank)
      BY <3>1, <2>1, <1>0, ProcessMarketEven
    <3>2. CASE (\E l \in Labels : Sync(l)) \/ FindMarkets
      BY <3>2, <2>1, <1>1, IdleSteps
    <3> QED BY <2>3, <3>1, <3>2 DEF ResolutionJob
  <2>4. CASE ResolverJob
    <3>1. CASE ResolverGivesUp BY <3>1, <2>1, <1>0, ResolverGivesUpEven
    <3>2. CASE (\E a \in Outcome : ResolverFetch(a)) \/ ResolverLeaves
      BY <3>2, <2>1, <1>1, IdleSteps
    <3> QED BY <2>4, <3>1, <3>2 DEF ResolverJob, AccountingOnly, Outcome
  <2>5. CASE EpsilonJob \/ StrandedJob
    BY <2>5 DEF EpsilonJob, StrandedJob, AccountingOnly
  <2>6. CASE Age \/ (\E k \in Keys, l \in Labels : UpsertToken(k, l))
             \/ UNCHANGED vars
    BY <2>6, <2>1, <1>1, IdleSteps
  <2> QED BY <2>2, <2>3, <2>4, <2>5, <2>6 DEF Next
<1> QED BY <1>0, <1>2 DEF PnlInv

(* With the resolution job and the unknown-outcome closing beside stream   *)
(* and poller, the P&L of a positions row is at all times the sum of its   *)
(* closed-position rows, oversized SELLs and late purchases included.      *)
THEOREM PnlAgrees ==
  ASSUME AccountingOnly
  PROVE  Spec => []PnlReconciles
<1>1. Init => PnlInv
  <2> SUFFICES ASSUME Init PROVE PnlInv
    OBVIOUS
  <2>1. \A k \in Keys : Even(pos[k], wcp[k], cb[k])
    BY DEF Init, NoRow, NoWcp, Even
  <2> QED BY <2>1, LedgerInit DEF PnlInv
<1>2. PnlInv /\ [Next]_vars => PnlInv' BY PnlStep
<1>3. PnlInv => PnlReconciles BY DEF PnlInv, PnlReconciles, Even
<1> QED BY <1>1, <1>2, <1>3, PTL DEF Spec

-----------------------------------------------------------------------------
(* The least element of a set of naturals: a property of every natural is  *)
(* proved from the least number that would not have it.                    *)
NatOrder == {p \in Nat \X Nat : p[1] < p[2]}

LEMMA LeastElement ==
  ASSUME NEW T, T \subseteq Nat, T # {}
  PROVE  \E n \in T : \A m \in T : n <= m
<1>1. IsWellFoundedOn(NatOrder, Nat)
  BY NatLessThanWellFounded, Zenon DEF NatOrder, OpToRel
<1>2. PICK n \in T : \A m \in T : <<m, n>> \notin NatOrder
  BY <1>1, WFMin
<1>3. ASSUME NEW m \in T PROVE n <= m
  <2>1. n \in Nat /\ m \in Nat OBVIOUS
  <2>2. ~(m < n) BY <1>2, <2>1 DEF NatOrder
  <2> QED BY <2>1, <2>2
<1> QED BY <1>3

(* The largest index of a non-empty set of indices.                        *)
LEMMA MaxIndex ==
  ASSUME NEW n \in Nat, NEW S \in SUBSET (1..n), S # {}
  PROVE  Max(S) \in S /\ \A i \in S : i <= Max(S)
<1> DEFINE Bounds == {m \in Nat : \A i \in S : i <= m}
<1>1. n \in Bounds OBVIOUS
<1>2. PICK m \in Bounds : \A l \in Bounds : m <= l BY <1>1, LeastElement
<1>3. m \in S
  <2>1. SUFFICES ASSUME m \notin S PROVE FALSE OBVIOUS
  <2>2. m > 0
    <3>1. PICK i \in S : TRUE OBVIOUS
    <3>2. i \in 1..n /\ i <= m /\ m \in Nat BY <1>2, <3>1
    <3> QED BY <3>2
  <2>3. m - 1 \in Bounds BY <2>1, <2>2
  <2> QED BY <1>2, <2>3
<1>4. \A i \in S : m >= i
  <2> TAKE i \in S
  <2>1. i \in 1..n /\ i <= m /\ m \in Nat BY <1>2
  <2> QED BY <2>1
<1>5. \E x \in S : \A i \in S : x >= i BY <1>3, <1>4
<1>6. Max(S) \in S /\ \A i \in S : Max(S) >= i BY <1>5, Zenon DEF Max
<1>7. \A i \in S : i \in Nat OBVIOUS
<1> HIDE DEF Bounds
<1>8. ASSUME NEW i \in S PROVE i <= Max(S)
  <2>1. i \in Nat /\ Max(S) \in Nat /\ Max(S) >= i BY <1>6, <1>7
  <2> QED BY <2>1
<1> QED BY <1>6, <1>8

LEMMA MaxOfAll ==
  ASSUME NEW n \in Nat \ {0}
  PROVE  Max(1..n) = n /\ (1..n) \ {Max(1..n)} = 1..(n - 1)
<1>1. n \in 1..n /\ 1..n # {} OBVIOUS
<1>2. Max(1..n) \in 1..n /\ \A i \in 1..n : i <= Max(1..n) BY <1>1, MaxIndex
<1>3. Max(1..n) = n BY <1>1, <1>2
<1> QED BY <1>3

(* A fold over the first n indices exists, whatever its step.              *)
Folds(f, n, base, step) ==
  \A S \in SUBSET (1..n) :
    f[S] = IF S = {} THEN base ELSE step[<<f[S \ {Max(S)}], Max(S)>>]

LEMMA FoldExists ==
  ASSUME NEW A, NEW base \in A, NEW n \in Nat, NEW step \in [A \X (1..n) -> A]
  PROVE  \E f \in [SUBSET (1..n) -> A] : Folds(f, n, base, step)
<1> DEFINE Has(m) == \E f \in [SUBSET (1..m) -> A] : Folds(f, m, base, step)
           T == {m \in 0..n : ~Has(m)}
<1> HIDE DEF Has
<1>1. SUFFICES ASSUME T # {} PROVE FALSE
  <2>1. T = {} => Has(n) OBVIOUS
  <2> QED BY <1>1, <2>1 DEF Has
<1>2. PICK m \in T : \A l \in T : m <= l
  <2>1. T \subseteq Nat OBVIOUS
  <2> HIDE DEF T
  <2> QED BY <1>1, <2>1, LeastElement
<1>3. m # 0
  <2> SUFFICES Has(0) BY <1>2
  <2> USE DEF Has
  <2> DEFINE f == [S \in SUBSET (1..0) |-> base]
  <2>1. f \in [SUBSET (1..0) -> A] OBVIOUS
  <2>2. \A S \in SUBSET (1..0) : S = {} OBVIOUS
  <2>3. Folds(f, 0, base, step) BY <2>2 DEF Folds
  <2> QED BY <2>1, <2>3
<1>4. Has(m - 1)
  <2>1. m \in 0..n /\ m - 1 \in 0..n BY <1>2, <1>3
  <2>2. ~(m <= m - 1) BY <2>1
  <2>3. m - 1 \notin T BY <2>2, <1>2
  <2> QED BY <2>1, <2>3
<1>5. PICK f \in [SUBSET (1..(m - 1)) -> A] : Folds(f, m - 1, base, step)
  BY <1>4 DEF Has
<1> DEFINE g == [S \in SUBSET (1..m) |->
                   IF m \in S THEN step[<<f[S \ {m}], m>>] ELSE f[S]]
<1>6. m \in 1..n BY <1>2, <1>3
<1>7. ASSUME NEW S \in SUBSET (1..m), m \in S
      PROVE  /\ S \ {m} \in SUBSET (1..(m - 1)) /\ m \notin S \ {m}
             /\ Max(S) = m
  <2>1. m \in Nat /\ S # {} BY <1>6, <1>7
  <2>2. Max(S) \in S /\ \A i \in S : i <= Max(S) BY <2>1, MaxIndex
  <2>3. Max(S) \in 1..m /\ m <= Max(S) BY <1>7, <2>2
  <2>4. Max(S) = m BY <2>1, <2>3
  <2>5. ASSUME NEW i \in S, i # m PROVE i \in 1..(m - 1) BY <2>1, <2>5
  <2> QED BY <2>4, <2>5
<1>8. ASSUME NEW S \in SUBSET (1..m), m \notin S, S # {}
      PROVE  /\ S \in SUBSET (1..(m - 1))
             /\ Max(S) \in 1..(m - 1)
             /\ S \ {Max(S)} \in SUBSET (1..(m - 1)) /\ m \notin S \ {Max(S)}
  <2>1. m \in Nat BY <1>6
  <2>2. Max(S) \in S BY <2>1, <1>8, MaxIndex
  <2>3. ASSUME NEW i \in S PROVE i \in 1..(m - 1)
    <3>1. i \in 1..m /\ i # m BY <1>8
    <3> QED BY <2>1, <3>1
  <2> QED BY <1>8, <2>2, <2>3
<1>9. g \in [SUBSET (1..m) -> A]
  <2>1. ASSUME NEW S \in SUBSET (1..m), m \in S PROVE g[S] \in A
    <3>1. f[S \ {m}] \in A BY <1>5, <1>7, <2>1
    <3> QED BY <3>1, <1>6, <2>1
  <2>2. ASSUME NEW S \in SUBSET (1..m), m \notin S PROVE g[S] \in A
    <3>1. S \in SUBSET (1..(m - 1)) BY <1>6, <2>2
    <3> QED BY <3>1, <1>5, <2>2
  <2> QED BY <2>1, <2>2
<1>10. Folds(g, m, base, step)
  <2>1. ASSUME NEW S \in SUBSET (1..m), m \in S
        PROVE  g[S] = IF S = {} THEN base ELSE step[<<g[S \ {Max(S)}], Max(S)>>]
    <3>1. S \ {m} \in SUBSET (1..m) OBVIOUS
    <3>2. g[S \ {m}] = f[S \ {m}] BY <3>1
    <3>3. g[S] = step[<<f[S \ {m}], m>>] BY <2>1
    <3> HIDE DEF g
    <3> QED BY <3>2, <3>3, <1>7, <2>1
  <2>2. ASSUME NEW S \in SUBSET (1..m), m \notin S
        PROVE  g[S] = IF S = {} THEN base ELSE step[<<g[S \ {Max(S)}], Max(S)>>]
    <3>1. S \in SUBSET (1..(m - 1)) BY <1>6, <2>2
    <3>2. g[S] = f[S] BY <2>2
    <3>3. CASE S = {} BY <3>1, <3>2, <3>3, <1>5 DEF Folds
    <3>4. CASE S # {}
      <4>1. g[S \ {Max(S)}] = f[S \ {Max(S)}] BY <1>8, <2>2, <3>4
      <4> HIDE DEF g
      <4> QED BY <3>1, <3>2, <3>4, <4>1, <1>5 DEF Folds
    <3> QED BY <3>3, <3>4
  <2> HIDE DEF g
  <2> QED BY <2>1, <2>2 DEF Folds
<1> QED BY <1>2, <1>9, <1>10 DEF Has
(* h adds up the first elements of s, of which there are n.                *)
Adds(h, s, n) == /\ h \in [0..n -> Int]
                 /\ h[0] = 0
                 /\ \A i \in 1..n : h[i] = h[i - 1] + s[i]

LEMMA TotalAdds ==
  ASSUME NEW n \in Nat, NEW s \in [1..n -> Int]
  PROVE  \E h : Adds(h, s, n) /\ Total(s) = h[n]
<1> DEFINE Def(f) == [S \in SUBSET (DOMAIN s) |->
                        IF S = {} THEN 0 ELSE f[S \ {Max(S)}] + s[Max(S)]]
           iter == CHOOSE f : f = Def(f)
           step == [p \in Int \X (1..n) |-> p[1] + s[p[2]]]
<1>1. DOMAIN s = 1..n OBVIOUS
<1>2. step \in [Int \X (1..n) -> Int] OBVIOUS
<1>3. PICK f \in [SUBSET (1..n) -> Int] : Folds(f, n, 0, step)
  <2>1. 0 \in Int OBVIOUS
  <2> HIDE DEF step
  <2> QED BY <1>2, <2>1, FoldExists
<1>4. ASSUME NEW S \in SUBSET (1..n), S # {}
      PROVE  Max(S) \in 1..n /\ S \ {Max(S)} \in SUBSET (1..n)
  <2>1. Max(S) \in S BY <1>4, MaxIndex
  <2> QED BY <2>1
<1>5. f = Def(f)
  <2>1. ASSUME NEW S \in SUBSET (1..n)
        PROVE  f[S] = IF S = {} THEN 0 ELSE f[S \ {Max(S)}] + s[Max(S)]
    <3>1. CASE S = {} BY <1>3, <3>1 DEF Folds
    <3>2. CASE S # {}
      <4>1. f[S] = step[<<f[S \ {Max(S)}], Max(S)>>] BY <1>3, <3>2 DEF Folds
      <4>2. f[S \ {Max(S)}] \in Int BY <1>3, <1>4, <3>2
      <4> QED BY <1>4, <3>2, <4>1, <4>2
    <3> QED BY <3>1, <3>2
  <2> HIDE DEF step
  <2> QED BY <1>1, <1>3, <2>1
<1>6. iter = Def(iter)
  <2> HIDE DEF Def
  <2> QED BY <1>5
<1>7. Total(s) = iter[1..n] BY <1>1 DEF Total, FoldLeft, MapThenFoldSet
<1> DEFINE h == [i \in 0..n |-> iter[1..i]]
<1>8. iter[1..0] = 0
  <2>1. 1..0 = {} OBVIOUS
  <2>2. {} \in SUBSET (DOMAIN s) OBVIOUS
  <2> HIDE DEF iter
  <2> QED BY <1>6, <2>1, <2>2
<1>9. ASSUME NEW i \in 1..n PROVE iter[1..i] = iter[1..(i - 1)] + s[i]
  <2>1. Max(1..i) = i /\ (1..i) \ {Max(1..i)} = 1..(i - 1) BY MaxOfAll
  <2>2. 1..i \in SUBSET (DOMAIN s) /\ 1..i # {}
    <3> HIDE DEF iter
    <3>1. 1..i \subseteq 1..n /\ i \in 1..i OBVIOUS
    <3> QED BY <1>1, <3>1
  <2> HIDE DEF iter
  <2> QED BY <1>6, <2>1, <2>2
<1> HIDE DEF iter
<1>10. h[0] = 0 /\ \A i \in 1..n : h[i] = h[i - 1] + s[i] BY <1>8, <1>9
<1>11. h \in [0..n -> Int]
  <2> DEFINE T == {i \in 0..n : h[i] \notin Int}
  <2>1. SUFFICES ASSUME T # {} PROVE FALSE OBVIOUS
  <2>2. T \subseteq Nat OBVIOUS
  <2>3. PICK i \in T : \A j \in T : i <= j
    <3> HIDE DEF T
    <3> QED BY <2>1, <2>2, LeastElement
  <2>4. i \in 0..n /\ i # 0 BY <2>3, <1>10
  <2>5. i \in 1..n /\ i - 1 \in 0..n /\ ~(i <= i - 1) BY <2>4
  <2>6. i - 1 \notin T BY <2>3, <2>5
  <2>7. h[i - 1] \in Int BY <2>5, <2>6
  <2>8. s[i] \in Int BY <2>5
  <2>9. h[i] = h[i - 1] + s[i] BY <1>10, <2>5
  <2> HIDE DEF h
  <2>10. h[i] \in Int BY <2>7, <2>8, <2>9
  <2> QED BY <2>3, <2>10
<1>12. h[n] = Total(s) BY <1>7
<1> QED BY <1>10, <1>11, <1>12 DEF Adds

(* There is one sum.                                                       *)
LEMMA AddsOnce ==
  ASSUME NEW n \in Nat, NEW s, NEW h, NEW g, Adds(h, s, n), Adds(g, s, n)
  PROVE  h[n] = g[n]
<1> DEFINE T == {i \in 0..n : h[i] # g[i]}
<1>1. SUFFICES ASSUME T # {} PROVE FALSE BY DEF Adds
<1>2. T \subseteq Nat OBVIOUS
<1>3. PICK i \in T : \A j \in T : i <= j
  <2> HIDE DEF T
  <2> QED BY <1>1, <1>2, LeastElement
<1>4. i \in 0..n /\ i # 0 BY <1>3 DEF Adds
<1>5. i \in 1..n /\ i - 1 \in 0..n /\ ~(i <= i - 1) BY <1>4
<1>6. i - 1 \notin T BY <1>3, <1>5
<1>7. h[i - 1] = g[i - 1] BY <1>5, <1>6
<1>8. h[i] = g[i] BY <1>5, <1>7 DEF Adds
<1> QED BY <1>3, <1>8

(* What adds up s ends in its total.                                       *)
LEMMA TotalIs ==
  ASSUME NEW n \in Nat, NEW s \in [1..n -> Int], NEW g, Adds(g, s, n)
  PROVE  Total(s) = g[n]
<1>1. PICK h : Adds(h, s, n) /\ Total(s) = h[n] BY TotalAdds
<1> QED BY <1>1, AddsOnce
LEMMA TotalInt ==
  ASSUME NEW n \in Nat, NEW s \in [1..n -> Int]
  PROVE  Total(s) \in Int
<1>1. PICK h : Adds(h, s, n) /\ Total(s) = h[n] BY TotalAdds
<1> QED BY <1>1 DEF Adds

(* One element more, anywhere.                                             *)
LEMMA TotalInsert ==
  ASSUME NEW n \in Nat, NEW s \in [1..n -> Int], NEW t \in [1..(n + 1) -> Int],
         NEW i \in 1..(n + 1),
         \A j \in 1..n : t[IF j < i THEN j ELSE j + 1] = s[j]
  PROVE  Total(t) = Total(s) + t[i]
<1>1. PICK h : Adds(h, s, n) /\ Total(s) = h[n] BY TotalAdds
<1> DEFINE g == [j \in 0..(n + 1) |-> IF j < i THEN h[j] ELSE h[j - 1] + t[i]]
<1>2. g \in [0..(n + 1) -> Int]
  <2>1. ASSUME NEW j \in 0..(n + 1), j < i PROVE h[j] \in Int
    <3>1. j \in 0..n BY <2>1
    <3> QED BY <1>1, <3>1 DEF Adds
  <2>2. ASSUME NEW j \in 0..(n + 1), ~(j < i) PROVE h[j - 1] + t[i] \in Int
    <3>1. j - 1 \in 0..n /\ t[i] \in Int BY <2>2
    <3> QED BY <1>1, <3>1 DEF Adds
  <2> QED BY <2>1, <2>2
<1>3. g[0] = 0 BY <1>1 DEF Adds
<1>4. ASSUME NEW j \in 1..(n + 1) PROVE g[j] = g[j - 1] + t[j]
  <2>1. CASE j < i
    <3>1. j \in 1..n /\ t[j] = s[j] BY <2>1
    <3>2. h[j] = h[j - 1] + s[j] BY <1>1, <3>1 DEF Adds
    <3> QED BY <2>1, <3>1, <3>2
  <2>2. CASE j = i
    <3>1. h[j - 1] \in Int BY <1>1 DEF Adds
    <3> QED BY <2>2, <3>1
  <2>3. CASE j > i
    <3>1. j - 1 \in 1..n /\ ~(j - 1 < i) /\ ~(j < i) BY <2>3
    <3>2. t[(j - 1) + 1] = s[j - 1] BY <3>1
    <3>3. t[j] = s[j - 1] /\ (j - 1) - 1 = j - 2 BY <3>2
    <3>4. h[j - 1] = h[j - 2] + s[j - 1] BY <1>1, <3>1, <3>3 DEF Adds
    <3>5. h[j - 2] \in Int /\ s[j - 1] \in Int /\ t[i] \in Int
      BY <1>1, <3>1 DEF Adds
    <3>6. g[j] = h[j - 1] + t[i] /\ g[j - 1] = h[j - 2] + t[i] BY <3>1
    <3> HIDE DEF g
    <3> QED BY <3>3, <3>4, <3>5, <3>6
  <2> QED BY <2>1, <2>2, <2>3
<1>5. Adds(g, t, n + 1)
  <2> HIDE DEF g
  <2> QED BY <1>2, <1>3, <1>4 DEF Adds
<1>6. Total(t) = g[n + 1]
  <2> HIDE DEF g
  <2>1. n + 1 \in Nat OBVIOUS
  <2> QED BY <1>5, <2>1, TotalIs
<1>7. g[n + 1] = h[n] + t[i] BY <1>1 DEF Adds
<1> QED BY <1>1, <1>6, <1>7

(* The first element less.                                                 *)
LEMMA TotalTail ==
  ASSUME NEW n \in Nat \ {0}, NEW s \in [1..n -> Int],
         NEW t \in [1..(n - 1) -> Int],
         \A j \in 1..(n - 1) : t[j] = s[j + 1]
  PROVE  Total(s) = Total(t) + s[1]
<1>1. n - 1 \in Nat /\ (n - 1) + 1 = n /\ 1 \in 1..n OBVIOUS
<1> DEFINE m == n - 1
<1>2. \A j \in 1..m : s[IF j < 1 THEN j ELSE j + 1] = t[j] OBVIOUS
<1>3. m \in Nat /\ t \in [1..m -> Int] /\ s \in [1..(m + 1) -> Int]
      /\ 1 \in 1..(m + 1) BY <1>1
<1> HIDE DEF m
<1> QED BY <1>2, <1>3, TotalInsert

(* No element exceeds the total of naturals.                               *)
LEMMA TotalNat ==
  ASSUME NEW n \in Nat, NEW s \in [1..n -> Nat]
  PROVE  /\ Total(s) \in Nat
         /\ \A i \in 1..n : s[i] <= Total(s)
<1>1. s \in [1..n -> Int] OBVIOUS
<1>2. PICK h : Adds(h, s, n) /\ Total(s) = h[n] BY <1>1, TotalAdds
<1> DEFINE Below(i) == h[i] >= 0 /\ \A j \in 1..i : s[j] <= h[i]
           T == {i \in 0..n : ~Below(i)}
<1> HIDE DEF Below
<1>3. T = {}
  <2>1. SUFFICES ASSUME T # {} PROVE FALSE OBVIOUS
  <2>2. T \subseteq Nat OBVIOUS
  <2>3. PICK i \in T : \A j \in T : i <= j
    <3> HIDE DEF T
    <3> QED BY <2>1, <2>2, LeastElement
  <2>4. i # 0 BY <1>2, <2>3 DEF Adds, Below
  <2>5. i \in 1..n /\ i - 1 \in 0..n /\ ~(i <= i - 1) BY <2>3, <2>4
  <2>6. Below(i - 1)
    <3>1. i - 1 \notin T BY <2>3, <2>5
    <3> QED BY <2>5, <3>1
  <2>7. h[i] = h[i - 1] + s[i] /\ h[i - 1] \in Int /\ s[i] \in Nat
    BY <1>2, <2>5 DEF Adds
  <2>8. ASSUME NEW j \in 1..i PROVE s[j] <= h[i]
    <3>1. CASE j = i BY <2>6, <2>7, <3>1 DEF Below
    <3>2. CASE j # i
      <4>1. j \in 1..(i - 1) /\ s[j] \in Nat BY <2>5, <3>2
      <4>2. s[j] <= h[i - 1] BY <2>6, <4>1 DEF Below
      <4> QED BY <2>7, <4>1, <4>2
    <3> QED BY <3>1, <3>2
  <2>9. Below(i) BY <2>6, <2>7, <2>8 DEF Below
  <2> QED BY <2>3, <2>9
<1>4. Below(n) BY <1>3
<1> QED BY <1>2, <1>4 DEF Below, Adds

-----------------------------------------------------------------------------
(* A row of trades, with the P&L column of the rows it left.               *)
Trade == [side : {"BUY", "SELL"}, size : Nat \ {0}, price : Nat, closed : Nat,
          gain : Int, stamped : BOOLEAN]
Gains(h) == [i \in DOMAIN h |-> h[i].gain]

LEMMA Columns ==
  ASSUME NEW h \in Seq(Trade)
  PROVE  /\ Len(h) \in Nat /\ DOMAIN h = 1..Len(h)
         /\ BuySizes(h) \in [1..Len(h) -> Nat]
         /\ SellSizes(h) \in [1..Len(h) -> Nat]
         /\ Closings(h) \in [1..Len(h) -> Nat]
         /\ Gains(h) \in [1..Len(h) -> Int]
<1>1. Len(h) \in Nat /\ DOMAIN h = 1..Len(h) OBVIOUS
<1>2. \A i \in 1..Len(h) : h[i] \in Trade OBVIOUS
<1> QED BY <1>1, <1>2 DEF Trade, BuySizes, SellSizes, Closings, Gains

LEMMA IntColumns ==
  ASSUME NEW h \in Seq(Trade), NEW n, n = Len(h)
  PROVE  /\ BuySizes(h) \in [1..n -> Int]
         /\ Closings(h) \in [1..n -> Int]
         /\ Gains(h) \in [1..n -> Int]
BY Columns

LEMMA InsertShape ==
  ASSUME NEW S, NEW h \in Seq(S), NEW i \in 1..(Len(h) + 1), NEW t \in S
  PROVE  /\ InsertAt(h, i, t) \in Seq(S)
         /\ Len(InsertAt(h, i, t)) = Len(h) + 1
         /\ InsertAt(h, i, t)[i] = t
         /\ \A j \in 1..Len(h) :
              InsertAt(h, i, t)[IF j < i THEN j ELSE j + 1] = h[j]
<1> DEFINE p == SubSeq(h, 1, i - 1)
           q == SubSeq(h, i, Len(h))
<1>1. p \in Seq(S) /\ Len(p) = i - 1 /\ \A j \in 1..(i - 1) : p[j] = h[j] OBVIOUS
<1>2. /\ q \in Seq(S) /\ Len(q) = Len(h) - i + 1
      /\ \A j \in 1..(Len(h) - i + 1) : q[j] = h[i + j - 1] OBVIOUS
<1>3. <<t>> \in Seq(S) /\ Len(<<t>>) = 1 /\ <<t>>[1] = t OBVIOUS
<1>4. InsertAt(h, i, t) = p \o <<t>> \o q BY DEF InsertAt
<1> HIDE DEF p, q
<1> DEFINE u == p \o <<t>>
<1>5. /\ u \in Seq(S) /\ Len(u) = i /\ u[i] = t
      /\ \A j \in 1..(i - 1) : u[j] = h[j] BY <1>1, <1>3
<1> HIDE DEF u
<1> DEFINE v == u \o q
<1>6. /\ v \in Seq(S) /\ Len(v) = Len(h) + 1 /\ v[i] = t
      /\ \A j \in 1..(i - 1) : v[j] = h[j]
      /\ \A j \in (i + 1)..(Len(h) + 1) : v[j] = q[j - i]
  <2>1. /\ v \in Seq(S) /\ Len(v) = i + (Len(h) - i + 1)
        /\ \A j \in 1..(i + (Len(h) - i + 1)) :
             v[j] = IF j <= i THEN u[j] ELSE q[j - i]
    BY <1>2, <1>5, ConcatProperties
  <2>2. i + (Len(h) - i + 1) = Len(h) + 1 /\ i \in Nat /\ Len(h) \in Nat OBVIOUS
  <2>3. i \in 1..(Len(h) + 1) /\ i <= i OBVIOUS
  <2> HIDE DEF v
  <2>4. v[i] = t BY <1>5, <2>1, <2>2, <2>3
  <2>5. ASSUME NEW j \in 1..(i - 1) PROVE v[j] = h[j]
    <3>1. j \in 1..(Len(h) + 1) /\ j <= i BY <2>2, <2>3
    <3> QED BY <1>5, <2>1, <2>2, <3>1
  <2>6. ASSUME NEW j \in (i + 1)..(Len(h) + 1) PROVE v[j] = q[j - i]
    <3>1. j \in 1..(Len(h) + 1) /\ ~(j <= i) BY <2>2, <2>3
    <3> QED BY <2>1, <2>2, <3>1
  <2> QED BY <2>1, <2>2, <2>4, <2>5, <2>6
<1>7. \A j \in i..Len(h) : v[j + 1] = h[j]
  <2> TAKE j \in i..Len(h)
  <2>1. v[j + 1] = q[(j + 1) - i] BY <1>6
  <2>2. (j + 1) - i \in 1..(Len(h) - i + 1) /\ i + ((j + 1) - i) - 1 = j OBVIOUS
  <2>3. q[(j + 1) - i] = h[i + ((j + 1) - i) - 1] BY <1>2, <2>2
  <2> QED BY <2>1, <2>2, <2>3
<1>8. InsertAt(h, i, t) = v BY <1>4 DEF u
<1> HIDE DEF v
<1> QED BY <1>6, <1>7, <1>8

(* What one more row adds to the columns.                                  *)
LEMMA InsertTotals ==
  ASSUME NEW h \in Seq(Trade), NEW i \in 1..(Len(h) + 1), NEW t \in Trade,
         NEW g, g = InsertAt(h, i, t)
  PROVE  /\ g \in Seq(Trade)
         /\ \A j \in DOMAIN g : g[j] = t \/ \E l \in DOMAIN h : g[j] = h[l]
         /\ Total(BuySizes(g)) =
              Total(BuySizes(h)) + (IF t.side = "BUY" THEN t.size ELSE 0)
         /\ Total(Closings(g)) = Total(Closings(h)) + t.closed
         /\ Total(Gains(g)) = Total(Gains(h)) + t.gain
<1> DEFINE n == Len(h)
           At(j) == IF j < i THEN j ELSE j + 1
<1>1. /\ g \in Seq(Trade) /\ Len(g) = n + 1 /\ g[i] = t
      /\ \A j \in 1..n : g[At(j)] = h[j] /\ At(j) \in 1..(n + 1)
  <2>1. /\ InsertAt(h, i, t) \in Seq(Trade) /\ Len(g) = n + 1 /\ g[i] = t
        /\ \A j \in 1..Len(h) : g[IF j < i THEN j ELSE j + 1] = h[j]
    BY InsertShape
  <2>2. n \in Nat OBVIOUS
  <2> QED BY <2>1, <2>2
<1>2. /\ n \in Nat /\ DOMAIN h = 1..n /\ DOMAIN g = 1..(n + 1) /\ i \in 1..(n + 1)
  BY <1>1
<1>3. \A j \in DOMAIN g : g[j] = t \/ \E l \in DOMAIN h : g[j] = h[l]
  <2> TAKE j \in DOMAIN g
  <2>1. CASE j = i BY <1>1, <2>1
  <2>2. CASE j < i
    <3>1. j \in 1..n /\ At(j) = j BY <1>2, <2>2
    <3> QED BY <1>1, <1>2, <3>1
  <2>3. CASE j > i
    <3>1. j - 1 \in 1..n /\ At(j - 1) = j BY <1>2, <2>3
    <3> QED BY <1>1, <1>2, <3>1
  <2> QED BY <1>2, <2>1, <2>2, <2>3
<1>8. n = Len(h) OBVIOUS
<1> HIDE DEF n
<1>4. Total(BuySizes(g)) = Total(BuySizes(h)) + BuySizes(g)[i]
  <2>1. BuySizes(h) \in [1..n -> Int] /\ BuySizes(g) \in [1..(n + 1) -> Int]
    BY <1>1, <1>8, IntColumns
  <2>2. \A j \in 1..n : BuySizes(g)[At(j)] = BuySizes(h)[j]
    BY <1>1, <1>2 DEF BuySizes
  <2> QED BY <1>2, <2>1, <2>2, TotalInsert
<1>5. Total(Closings(g)) = Total(Closings(h)) + Closings(g)[i]
  <2>1. Closings(h) \in [1..n -> Int] /\ Closings(g) \in [1..(n + 1) -> Int]
    BY <1>1, <1>8, IntColumns
  <2>2. \A j \in 1..n : Closings(g)[At(j)] = Closings(h)[j]
    BY <1>1, <1>2 DEF Closings
  <2> QED BY <1>2, <2>1, <2>2, TotalInsert
<1>6. Total(Gains(g)) = Total(Gains(h)) + Gains(g)[i]
  <2>1. Gains(h) \in [1..n -> Int] /\ Gains(g) \in [1..(n + 1) -> Int]
    BY <1>1, <1>8, IntColumns
  <2>2. \A j \in 1..n : Gains(g)[At(j)] = Gains(h)[j]
    BY <1>1, <1>2 DEF Gains
  <2> QED BY <1>2, <2>1, <2>2, TotalInsert
<1>7. /\ BuySizes(g)[i] = IF t.side = "BUY" THEN t.size ELSE 0
      /\ Closings(g)[i] = t.closed /\ Gains(g)[i] = t.gain
  BY <1>1, <1>2 DEF BuySizes, Closings, Gains
<1> QED BY <1>1, <1>3, <1>4, <1>5, <1>6, <1>7

(* What the oldest row takes from them.                                    *)
OneLess(h, g) ==
  /\ g \in Seq(Trade) /\ h[1] \in Trade
  /\ \A j \in DOMAIN g : \E l \in DOMAIN h : g[j] = h[l]
  /\ \E l \in DOMAIN h : h[l] = h[1]
  /\ Total(BuySizes(h)) = Total(BuySizes(g)) + BuySizes(h)[1]
  /\ BuySizes(h)[1] \in Nat
  /\ Total(Closings(h)) = Total(Closings(g)) + h[1].closed
  /\ Total(Gains(h)) = Total(Gains(g)) + h[1].gain

LEMMA TailTotals ==
  ASSUME NEW h \in Seq(Trade), h # <<>>, NEW g, g = Tail(h)
  PROVE  OneLess(h, g)
<1> DEFINE n == Len(h)
<1>1. /\ n \in Nat \ {0} /\ DOMAIN h = 1..n /\ 1 \in 1..n
      /\ g \in Seq(Trade) /\ Len(g) = n - 1 /\ DOMAIN g = 1..(n - 1)
      /\ \A j \in 1..(n - 1) : g[j] = h[j + 1] /\ j + 1 \in 1..n
  OBVIOUS
<1>2. h[1] \in Trade BY <1>1
<1>8. n = Len(h) OBVIOUS
<1> HIDE DEF n
<1>3. Total(BuySizes(h)) = Total(BuySizes(g)) + BuySizes(h)[1]
  <2>1. BuySizes(h) \in [1..n -> Int] /\ BuySizes(g) \in [1..(n - 1) -> Int]
    BY <1>1, <1>8, IntColumns
  <2>2. \A j \in 1..(n - 1) : BuySizes(g)[j] = BuySizes(h)[j + 1]
    BY <1>1 DEF BuySizes
  <2> QED BY <1>1, <2>1, <2>2, TotalTail
<1>4. Total(Closings(h)) = Total(Closings(g)) + Closings(h)[1]
  <2>1. Closings(h) \in [1..n -> Int] /\ Closings(g) \in [1..(n - 1) -> Int]
    BY <1>1, <1>8, IntColumns
  <2>2. \A j \in 1..(n - 1) : Closings(g)[j] = Closings(h)[j + 1]
    BY <1>1 DEF Closings
  <2> QED BY <1>1, <2>1, <2>2, TotalTail
<1>5. Total(Gains(h)) = Total(Gains(g)) + Gains(h)[1]
  <2>1. Gains(h) \in [1..n -> Int] /\ Gains(g) \in [1..(n - 1) -> Int]
    BY <1>1, <1>8, IntColumns
  <2>2. \A j \in 1..(n - 1) : Gains(g)[j] = Gains(h)[j + 1]
    BY <1>1 DEF Gains
  <2> QED BY <1>1, <2>1, <2>2, TotalTail
<1>6. Closings(h)[1] = h[1].closed /\ Gains(h)[1] = h[1].gain
  BY <1>1 DEF Closings, Gains
<1>7. BuySizes(h)[1] \in Nat BY <1>1, <1>8, Columns
<1> QED BY <1>1, <1>2, <1>3, <1>4, <1>5, <1>6, <1>7 DEF OneLess

(* Stamping changes no column that is added up.                            *)
WithStamps(h) == [i \in DOMAIN h |-> [h[i] EXCEPT !.stamped = TRUE]]

SameTotals(h, g) ==
  /\ g \in Seq(Trade)
  /\ DOMAIN g = DOMAIN h
  /\ \A i \in DOMAIN g : /\ g[i].side = h[i].side
                         /\ g[i].closed = h[i].closed
                         /\ g[i].gain = h[i].gain
  /\ BuySizes(g) = BuySizes(h)
  /\ Closings(g) = Closings(h)
  /\ Gains(g) = Gains(h)

LEMMA StampTotals ==
  ASSUME NEW h \in Seq(Trade), NEW g, g = WithStamps(h)
  PROVE  SameTotals(h, g)
<1>1. DOMAIN h = 1..Len(h) /\ Len(h) \in Nat OBVIOUS
<1>2. \A i \in DOMAIN h : h[i] \in Trade BY <1>1
<1>3. \A i \in DOMAIN h : [h[i] EXCEPT !.stamped = TRUE] \in Trade
  BY <1>2 DEF Trade
<1>4. g \in [1..Len(h) -> Trade] BY <1>1, <1>3 DEF WithStamps
<1>5. g \in Seq(Trade) BY <1>1, <1>4
<1>6. DOMAIN g = DOMAIN h BY DEF WithStamps
<1>7. \A i \in DOMAIN g : /\ g[i].side = h[i].side
                          /\ g[i].size = h[i].size
                          /\ g[i].closed = h[i].closed
                          /\ g[i].gain = h[i].gain
  BY <1>2 DEF Trade, WithStamps
<1>8. /\ BuySizes(g) = BuySizes(h) /\ Closings(g) = Closings(h)
      /\ Gains(g) = Gains(h)
  BY <1>6, <1>7 DEF BuySizes, Closings, Gains
<1> QED BY <1>5, <1>6, <1>7, <1>8 DEF SameTotals

(* What the replay carries from trade to trade.                            *)
Carried == [bought : Nat, sold : Nat, remaining : Nat, pnl : Int, avg : Nat]

LEMMA CarriedTyped ==
  ASSUME NEW r \in Carried, NEW a \in Nat, NEW b \in Nat, NEW c \in Nat,
         NEW g \in Int
  PROVE  /\ [r EXCEPT !.bought = a, !.remaining = b, !.avg = c] \in Carried
         /\ [r EXCEPT !.sold = a, !.remaining = b, !.pnl = g] \in Carried
BY DEF Carried

LEMMA ReplayStepFields ==
  ASSUME NEW k \in Keys, NEW r \in Carried, NEW t \in Trade
  PROVE  LET q == ReplayStep(k, r, t)
         IN /\ q \in Carried
            /\ q.bought = r.bought + (IF t.side = "BUY" THEN t.size ELSE 0)
            /\ q.sold = r.sold + (IF t.side = "SELL" THEN t.size ELSE 0)
            /\ q.remaining = IF t.side = "BUY" THEN r.remaining + t.size
                             ELSE Greatest(0, r.remaining - t.size)
            /\ t.side = "BUY" => q.pnl = r.pnl
            /\ t.side = "SELL" /\ t.closed > 0 => q.pnl = r.pnl + t.gain
<1> DEFINE q == ReplayStep(k, r, t)
<1>1. /\ r.bought \in Nat /\ r.sold \in Nat /\ r.remaining \in Nat
      /\ r.pnl \in Int /\ r.avg \in Nat /\ EntryPrice[k] \in Nat
      /\ t.size \in Nat /\ t.gain \in Int /\ t.price \in Nat /\ t.closed \in Nat
      /\ t.side \in {"BUY", "SELL"}
  BY ConstantsAssumption DEF Carried, Trade
<1>2. CASE t.side = "BUY"
  <2>1. q = [r EXCEPT !.bought = @ + t.size, !.remaining = @ + t.size,
                      !.avg = EntryPrice[k]]
    BY <1>2 DEF ReplayStep
  <2> HIDE DEF q
  <2>2. /\ q.bought = r.bought + t.size /\ q.remaining = r.remaining + t.size
        /\ q.sold = r.sold /\ q.pnl = r.pnl
    BY <2>1 DEF Carried
  <2>3. q \in Carried
    <3>1. r.bought + t.size \in Nat /\ r.remaining + t.size \in Nat BY <1>1
    <3> QED BY <1>1, <2>1, <3>1, CarriedTyped
  <2> QED BY <1>1, <1>2, <2>2, <2>3 DEF q
<1>3. CASE t.side = "SELL"
  <2> DEFINE p == IF t.closed > 0 THEN t.gain ELSE (t.price - r.avg) * t.size
  <2>1. q = [r EXCEPT !.sold = @ + t.size, !.remaining = Greatest(0, @ - t.size),
                      !.pnl = @ + p]
    BY <1>3 DEF ReplayStep
  <2>2. p \in Int
    <3>1. t.price - r.avg \in Int BY <1>1
    <3>2. \A a, b \in Int : a * b \in Int BY SMT
    <3>3. (t.price - r.avg) * t.size \in Int BY <1>1, <3>1, <3>2
    <3> QED BY <1>1, <3>3
  <2>3. Greatest(0, r.remaining - t.size) \in Nat BY <1>1 DEF Greatest
  <2>4. t.closed > 0 => p = t.gain OBVIOUS
  <2> HIDE DEF p, q
  <2>5. /\ q.bought = r.bought /\ q.remaining = Greatest(0, r.remaining - t.size)
        /\ q.sold = r.sold + t.size /\ q.pnl = r.pnl + p
    BY <2>1 DEF Carried
  <2>6. q \in Carried
    <3>1. r.sold + t.size \in Nat /\ r.pnl + p \in Int BY <1>1, <2>2
    <3> QED BY <2>1, <2>3, <3>1, CarriedTyped
  <2> QED BY <1>1, <1>3, <2>4, <2>5, <2>6 DEF q
<1> QED BY <1>1, <1>2, <1>3

(* The replay as the course it takes through the trades.                   *)
Course(r, k, h) ==
  /\ r \in [0..Len(h) -> Carried]
  /\ r[0] = NothingReplayed
  /\ \A i \in 1..Len(h) : r[i] = ReplayStep(k, r[i - 1], h[i])

LEMMA ReplayCourse ==
  ASSUME NEW k \in Keys, hist[k] \in Seq(Trade)
  PROVE  \E r : Course(r, k, hist[k]) /\ Replayed(k) = r[Len(hist[k])]
<1> DEFINE h == hist[k]
           n == Len(h)
           Def(f) == [S \in SUBSET (DOMAIN h) |->
                        IF S = {} THEN NothingReplayed
                        ELSE ReplayStep(k, f[S \ {Max(S)}], h[Max(S)])]
           iter == CHOOSE f : f = Def(f)
           step == [p \in Carried \X (1..n) |-> ReplayStep(k, p[1], h[p[2]])]
<1>1. n \in Nat /\ DOMAIN h = 1..n /\ \A i \in 1..n : h[i] \in Trade OBVIOUS
<1>2. Replayed(k) = iter[1..n]
  BY <1>1 DEF Replayed, FoldLeft, MapThenFoldSet
<1> HIDE DEF h, n
<1>3. step \in [Carried \X (1..n) -> Carried] BY <1>1, ReplayStepFields
<1>4. NothingReplayed \in Carried BY DEF NothingReplayed, Carried
<1>5. PICK f \in [SUBSET (1..n) -> Carried] : Folds(f, n, NothingReplayed, step)
  <2> HIDE DEF step
  <2> QED BY <1>1, <1>3, <1>4, FoldExists
<1>6. ASSUME NEW S \in SUBSET (1..n), S # {}
      PROVE  Max(S) \in 1..n /\ S \ {Max(S)} \in SUBSET (1..n)
  <2>1. Max(S) \in S BY <1>1, <1>6, MaxIndex
  <2> QED BY <2>1
<1>7. f = Def(f)
  <2>1. ASSUME NEW S \in SUBSET (1..n)
        PROVE  f[S] = IF S = {} THEN NothingReplayed
                      ELSE ReplayStep(k, f[S \ {Max(S)}], h[Max(S)])
    <3>1. CASE S = {} BY <1>5, <3>1 DEF Folds
    <3>2. CASE S # {}
      <4>1. f[S] = step[<<f[S \ {Max(S)}], Max(S)>>] BY <1>5, <3>2 DEF Folds
      <4>2. f[S \ {Max(S)}] \in Carried BY <1>5, <1>6, <3>2
      <4> QED BY <1>6, <3>2, <4>1, <4>2
    <3> QED BY <3>1, <3>2
  <2> HIDE DEF step
  <2> QED BY <1>1, <1>5, <2>1
<1>8. iter = Def(iter)
  <2> HIDE DEF Def
  <2> QED BY <1>7
<1> DEFINE r == [i \in 0..n |-> iter[1..i]]
<1>9. iter[1..0] = NothingReplayed
  <2>1. 1..0 = {} OBVIOUS
  <2>2. {} \in SUBSET (DOMAIN h) OBVIOUS
  <2> HIDE DEF iter
  <2> QED BY <1>8, <2>1, <2>2
<1>10. ASSUME NEW i \in 1..n
       PROVE  iter[1..i] = ReplayStep(k, iter[1..(i - 1)], h[i])
  <2>1. Max(1..i) = i /\ (1..i) \ {Max(1..i)} = 1..(i - 1) BY <1>1, MaxOfAll
  <2>2. 1..i \in SUBSET (DOMAIN h) /\ 1..i # {}
    <3>1. i \in Nat /\ i <= n /\ 1 \in 1..i BY <1>1
    <3>2. 1..i \subseteq 1..n BY <1>1, <3>1
    <3> QED BY <1>1, <3>1, <3>2
  <2> HIDE DEF iter
  <2> QED BY <1>8, <2>1, <2>2
<1> HIDE DEF iter
<1>11. r[0] = NothingReplayed /\ \A i \in 1..n : r[i] = ReplayStep(k, r[i - 1], h[i])
  BY <1>1, <1>9, <1>10
<1>12. r \in [0..n -> Carried]
  <2> DEFINE T == {i \in 0..n : r[i] \notin Carried}
  <2>1. SUFFICES ASSUME T # {} PROVE FALSE OBVIOUS
  <2>2. T \subseteq Nat OBVIOUS
  <2>3. PICK i \in T : \A j \in T : i <= j
    <3> HIDE DEF T
    <3> QED BY <2>1, <2>2, LeastElement
  <2>4. i \in 0..n /\ i # 0 BY <1>4, <1>11, <2>3
  <2>5. i \in 1..n /\ i - 1 \in 0..n /\ ~(i <= i - 1) BY <1>1, <2>4
  <2>6. r[i - 1] \in Carried
    <3>1. i - 1 \notin T BY <2>3, <2>5
    <3> QED BY <2>5, <3>1
  <2>7. r[i] = ReplayStep(k, r[i - 1], h[i]) /\ h[i] \in Trade BY <1>1, <1>11, <2>5
  <2> HIDE DEF r
  <2>8. r[i] \in Carried BY <2>6, <2>7, ReplayStepFields
  <2> QED BY <2>3, <2>8
<1>13. r[n] = Replayed(k) BY <1>1, <1>2
<1> HIDE DEF r
<1> QED BY <1>11, <1>12, <1>13 DEF Course, h, n

(* The sum up to i is the total of the first i elements.                   *)
LEMMA PrefixTotal ==
  ASSUME NEW n \in Nat, NEW s \in [1..n -> Int], NEW h, Adds(h, s, n),
         NEW i \in 0..n, NEW t \in [1..i -> Int], \A j \in 1..i : t[j] = s[j]
  PROVE  Total(t) = h[i]
<1> DEFINE g == [j \in 0..i |-> h[j]]
<1>1. i \in Nat /\ \A j \in 0..i : j \in 0..n OBVIOUS
<1>2. \A j \in 1..i : j \in 1..n /\ j - 1 \in 0..i /\ j \in 0..i OBVIOUS
<1>3. Adds(g, t, i)
  <2>1. g \in [0..i -> Int] BY <1>1 DEF Adds
  <2>2. g[0] = 0 BY <1>1 DEF Adds
  <2>3. \A j \in 1..i : g[j] = g[j - 1] + t[j] BY <1>2 DEF Adds
  <2> HIDE DEF g
  <2> QED BY <2>1, <2>2, <2>3 DEF Adds
<1>4. Total(t) = g[i]
  <2> HIDE DEF g
  <2> QED BY <1>1, <1>3, TotalIs
<1> QED BY <1>1, <1>4

(* What the trades say, row by row: a BUY left no closed-position row, and *)
(* where no share was closed there is no P&L.                              *)
Plain(t) == (t.side = "BUY" => t.closed = 0) /\ (t.closed = 0 => t.gain = 0)

(* A replay ends with the sums of its columns: shares always, what remains *)
(* if no SELL precedes its BUYs, and the P&L if every SELL has a WCP row.  *)
LEMMA ReplayedColumns ==
  ASSUME NEW k \in Keys, hist[k] \in Seq(Trade),
         \A i \in DOMAIN hist[k] : Plain(hist[k][i])
  PROVE  /\ Replayed(k) \in Carried
         /\ Replayed(k).bought = Purchased(k)
         /\ Replayed(k).sold = Total(SellSizes(hist[k]))
         /\ InOrder(k) =>
              Replayed(k).remaining = Purchased(k) - Total(SellSizes(hist[k]))
         /\ (\A t \in Of(k, "SELL") : t.closed > 0) =>
              Replayed(k).pnl = Total(Gains(hist[k]))
<1> DEFINE h == hist[k]
           n == Len(h)
           Closed == \A t \in Of(k, "SELL") : t.closed > 0
<1>1. PICK r : Course(r, k, h) /\ Replayed(k) = r[n] BY ReplayCourse
<1>2. /\ n \in Nat /\ DOMAIN h = 1..n /\ \A i \in 1..n : h[i] \in Trade
      /\ BuySizes(h) \in [1..n -> Int] /\ SellSizes(h) \in [1..n -> Int]
      /\ Gains(h) \in [1..n -> Int]
  <2>1. BuySizes(h) \in [1..n -> Nat] /\ SellSizes(h) \in [1..n -> Nat]
    BY Columns
  <2>2. n \in Nat /\ DOMAIN h = 1..n /\ Gains(h) \in [1..n -> Int] BY Columns
  <2>3. \A i \in 1..n : h[i] \in Trade OBVIOUS
  <2> HIDE DEF n, h
  <2> QED BY <2>1, <2>2, <2>3
<1>3. PICK b : Adds(b, BuySizes(h), n) /\ Total(BuySizes(h)) = b[n]
  <2> HIDE DEF n, h
  <2> QED BY <1>2, TotalAdds
<1>4. PICK s : Adds(s, SellSizes(h), n) /\ Total(SellSizes(h)) = s[n]
  <2> HIDE DEF n, h
  <2> QED BY <1>2, TotalAdds
<1>5. PICK g : Adds(g, Gains(h), n) /\ Total(Gains(h)) = g[n]
  <2> HIDE DEF n, h
  <2> QED BY <1>2, TotalAdds
<1>6. \A i \in 1..n : Plain(h[i]) BY <1>2
<1>7. Closed => \A i \in 1..n : h[i].side = "SELL" => h[i].closed > 0
  BY <1>2 DEF Of, ToSet
<1>8. InOrder(k) => \A i \in 1..n : s[i] <= b[i]
  <2> SUFFICES ASSUME InOrder(k), NEW i \in 1..n PROVE s[i] <= b[i] OBVIOUS
  <2> DEFINE past == SubSeq(h, 1, i)
  <2>1. Total(SellSizes(past)) <= Total(BuySizes(past))
    BY <1>2 DEF InOrder
  <2>2. /\ past \in Seq(Trade) /\ Len(past) = i /\ DOMAIN past = 1..i
        /\ \A j \in 1..i : past[j] = h[j] /\ j \in 1..n
    BY <1>2
  <2> HIDE DEF past
  <2>3. BuySizes(past) \in [1..i -> Int] /\ SellSizes(past) \in [1..i -> Int]
    <3>1. BuySizes(past) \in [1..i -> Nat] /\ SellSizes(past) \in [1..i -> Nat]
      BY <2>2, Columns
    <3> QED BY <3>1
  <2>4. \A j \in 1..i : /\ BuySizes(past)[j] = BuySizes(h)[j]
                        /\ SellSizes(past)[j] = SellSizes(h)[j]
    BY <1>2, <2>2 DEF BuySizes, SellSizes
  <2>5. i \in 0..n BY <1>2
  <2> HIDE DEF h, n
  <2>6. Total(BuySizes(past)) = b[i] BY <1>2, <1>3, <2>3, <2>4, <2>5, PrefixTotal
  <2>7. Total(SellSizes(past)) = s[i] BY <1>2, <1>4, <2>3, <2>4, <2>5, PrefixTotal
  <2> QED BY <2>1, <2>6, <2>7
<1> HIDE DEF h, n, Closed
<1> DEFINE Follows(i) == /\ r[i].bought = b[i] /\ r[i].sold = s[i]
                         /\ InOrder(k) => r[i].remaining = b[i] - s[i]
                         /\ Closed => r[i].pnl = g[i]
           T == {i \in 0..n : ~Follows(i)}
<1>9. Follows(0)
  BY <1>1, <1>3, <1>4, <1>5 DEF Adds, Course, NothingReplayed, n
<1> HIDE DEF Follows
<1>10. T = {}
  <2>1. SUFFICES ASSUME T # {} PROVE FALSE OBVIOUS
  <2>2. T \subseteq Nat BY <1>2
  <2>3. PICK i \in T : \A j \in T : i <= j
    <3> HIDE DEF T
    <3> QED BY <2>1, <2>2, LeastElement
  <2>4. i # 0 BY <1>9, <2>3
  <2>5. i \in 1..n /\ i - 1 \in 0..n /\ ~(i <= i - 1) BY <1>2, <2>3, <2>4
  <2>6. Follows(i - 1)
    <3>1. i - 1 \notin T BY <2>3, <2>5
    <3> QED BY <2>5, <3>1
  <2>7. /\ b[i] = b[i - 1] + BuySizes(h)[i] /\ s[i] = s[i - 1] + SellSizes(h)[i]
        /\ g[i] = g[i - 1] + Gains(h)[i]
        /\ b[i] \in Int /\ s[i] \in Int /\ g[i] \in Int
        /\ b[i - 1] \in Int /\ s[i - 1] \in Int /\ g[i - 1] \in Int
    BY <1>2, <1>3, <1>4, <1>5, <2>5 DEF Adds
  <2>8. /\ BuySizes(h)[i] = IF h[i].side = "BUY" THEN h[i].size ELSE 0
        /\ SellSizes(h)[i] = IF h[i].side = "SELL" THEN h[i].size ELSE 0
        /\ Gains(h)[i] = h[i].gain
    BY <1>2, <2>5 DEF BuySizes, SellSizes, Gains
  <2>9. r[i - 1] \in Carried /\ h[i] \in Trade /\ r[i] = ReplayStep(k, r[i - 1], h[i])
    BY <1>1, <1>2, <2>5 DEF Course, n
  <2> DEFINE q == r[i - 1]
             t == h[i]
  <2>10. /\ r[i].bought = q.bought + (IF t.side = "BUY" THEN t.size ELSE 0)
         /\ r[i].sold = q.sold + (IF t.side = "SELL" THEN t.size ELSE 0)
         /\ r[i].remaining = IF t.side = "BUY" THEN q.remaining + t.size
                             ELSE Greatest(0, q.remaining - t.size)
         /\ t.side = "BUY" => r[i].pnl = q.pnl
         /\ t.side = "SELL" /\ t.closed > 0 => r[i].pnl = q.pnl + t.gain
    BY <2>9, ReplayStepFields
  <2>11. /\ t.side \in {"BUY", "SELL"} /\ t.size \in Nat /\ t.gain \in Int
         /\ q.bought \in Nat /\ q.sold \in Nat /\ q.remaining \in Nat
         /\ q.pnl \in Int
    BY <2>9 DEF Trade, Carried
  <2>12. /\ q.bought = b[i - 1] /\ q.sold = s[i - 1]
         /\ InOrder(k) => q.remaining = b[i - 1] - s[i - 1]
         /\ Closed => q.pnl = g[i - 1]
    BY <2>6 DEF Follows
  <2>13. InOrder(k) => s[i] <= b[i] BY <1>8, <2>5
  <2>14. (Closed /\ t.side = "SELL" => t.closed > 0) /\ (t.side = "BUY" => t.gain = 0)
    BY <1>6, <1>7, <2>5 DEF Plain
  <2> HIDE DEF q, t
  <2>15. r[i].bought = b[i] /\ r[i].sold = s[i]
    BY <2>7, <2>8, <2>10, <2>12 DEF t
  <2>16. ASSUME InOrder(k) PROVE r[i].remaining = b[i] - s[i]
    <3>1. CASE t.side = "BUY"
      <4>1. b[i] = b[i - 1] + t.size /\ s[i] = s[i - 1]
        BY <2>7, <2>8, <2>11, <3>1 DEF t
      <4>2. r[i].remaining = q.remaining + t.size BY <2>10, <3>1
      <4>3. q.remaining = b[i - 1] - s[i - 1] BY <2>12, <2>16
      <4>4. b[i - 1] \in Int /\ s[i - 1] \in Int BY <2>7
      <4>5. t.size \in Nat BY <2>11
      <4> QED BY <4>1, <4>2, <4>3, <4>4, <4>5
    <3>2. CASE t.side = "SELL"
      <4>1. b[i] = b[i - 1] /\ s[i] = s[i - 1] + t.size
        BY <2>7, <2>8, <2>11, <3>2 DEF t
      <4>2. r[i].remaining = Greatest(0, q.remaining - t.size)
        BY <2>10, <3>2
      <4>3. q.remaining - t.size = b[i] - s[i] /\ b[i] - s[i] >= 0
        BY <2>7, <2>11, <2>12, <2>13, <2>16, <4>1
      <4> QED BY <2>7, <2>11, <4>2, <4>3 DEF Greatest
    <3> QED BY <2>11, <3>1, <3>2
  <2>17. ASSUME Closed PROVE r[i].pnl = g[i]
    <3>1. CASE t.side = "BUY"
      BY <2>7, <2>8, <2>10, <2>11, <2>12, <2>14, <2>17, <3>1 DEF t
    <3>2. CASE t.side = "SELL"
      BY <2>7, <2>8, <2>10, <2>11, <2>12, <2>14, <2>17, <3>2 DEF t
    <3> QED BY <2>11, <3>1, <3>2
  <2>18. Follows(i) BY <2>15, <2>16, <2>17 DEF Follows
  <2> QED BY <2>3, <2>18
<1>11. Follows(n)
  <2>1. n \in Nat BY <1>2
  <2>2. n \in 0..n BY <2>1
  <2>3. n \notin T BY <1>10
  <2> QED BY <2>2, <2>3
<1>12. r[n] \in Carried BY <1>1, <1>2 DEF Course, n
<1> QED BY <1>1, <1>3, <1>4, <1>5, <1>11, <1>12 DEF Follows, Purchased, h, n, Closed

-----------------------------------------------------------------------------
(* The inductive invariant of the tasks.  Every key keeps four promises:   *)
(* what its closed-position rows say of resolutions and exits adds up, the *)
(* trades that are left tell no more than the exits, a row without status  *)
(* is empty, and once recovered the rows cover the purchases.              *)
Exits == [sold : Nat, pnl : Int]
TaskNames == {"none", "backfill", "replay", "recovery", "status", "basis"}

TaskOK == task \in [name : TaskNames, todo : SUBSET Keys,
                    label : [Keys -> Outcome]]

(* The rows that are resolved hold what the SELLs' rows do not, each of    *)
(* its size; without one there are only the SELLs' rows.                   *)
Booked(w, e) ==
  /\ e.sold <= w.sold
  /\ \A n \in w.resolved : e.sold + n <= w.sold
  /\ w.resolved = {} => w.sold = e.sold /\ w.pnl = e.pnl

(* What is left of the trades tells no more than was booked, and if it     *)
(* tells all shares that were closed, it tells their P&L.                  *)
Told(h, e) ==
  /\ \A i \in DOMAIN h : Plain(h[i])
  /\ Total(Closings(h)) <= e.sold
  /\ Total(Closings(h)) = e.sold => Total(Gains(h)) = e.pnl

Rowed(p) == p.status = "none" => p = NoRow

KeyOK(k) == /\ Booked(wcp[k], exits[k])
            /\ Told(hist[k], exits[k])
            /\ Rowed(pos[k]) /\ Rowed(former[k])
            /\ k \in recovered => Purchased(k) <= wcp[k].sold

BookTypes == /\ cb \in [Keys -> Nat]
             /\ wcp \in [Keys -> WcpRows]
             /\ pos \in [Keys -> Row]
             /\ hist \in [Keys -> Seq(Trade)]
             /\ exits \in [Keys -> Exits]
             /\ former \in [Keys -> Row]
             /\ recovered \in SUBSET Keys

BooksOK == BookTypes /\ \A k \in Keys : KeyOK(k)

RebuildInv == RestOK /\ TaskOK /\ BooksOK

(* A step that touches one key.                                            *)
Others(k) ==
  \A j \in Keys \ {k} :
    /\ wcp'[j] = wcp[j] /\ pos'[j] = pos[j] /\ hist'[j] = hist[j]
    /\ exits'[j] = exits[j] /\ former'[j] = former[j]
    /\ j \in recovered' => j \in recovered

LEMMA OneKeyStep ==
  ASSUME BooksOK, NEW k \in Keys, BookTypes', Others(k), KeyOK(k)'
  PROVE  BooksOK'
<1>1. ASSUME NEW j \in Keys, j # k PROVE KeyOK(j)'
  <2>1. KeyOK(j) BY DEF BooksOK
  <2>2. /\ wcp'[j] = wcp[j] /\ pos'[j] = pos[j] /\ hist'[j] = hist[j]
        /\ exits'[j] = exits[j] /\ former'[j] = former[j]
        /\ j \in recovered' => j \in recovered
    BY <1>1 DEF Others
  <2> QED BY <2>1, <2>2 DEF KeyOK, Purchased
<1> QED BY <1>1 DEF BooksOK

LEMMA BooksRest == BooksOK /\ UNCHANGED <<cb, wcp, pos, books, notes>> => BooksOK'
BY DEF BooksOK, BookTypes, KeyOK, Purchased, books, notes

(* The row operations.                                                     *)
LEMMA RowsAfter ==
  ASSUME NEW p \in Row, NEW n \in Nat, NEW g \in Int
  PROVE  /\ AfterBuy(p, n) \in Row /\ Rowed(AfterBuy(p, n))
         /\ AfterSell(p, n, g) \in Row /\ Rowed(AfterSell(p, n, g))
         /\ Rowed(p) => /\ AfterSettlement(p, n, g) \in Row
                        /\ Rowed(AfterSettlement(p, n, g))
BY DEF Row, Rowed, AfterBuy, AfterSell, AfterSettlement, Greatest, NoRow

(* The rows stay or get a resolved one.                                    *)
Grown(w, v) == \/ v = w
               \/ \E n \in Nat, g \in Int : v = WithResolution(w, n, g)

LEMMA GrownBooked ==
  ASSUME NEW w \in WcpRows, NEW e \in Exits, NEW v, Booked(w, e), Grown(w, v)
  PROVE  v \in WcpRows /\ Booked(v, e) /\ w.sold <= v.sold
<1>1. CASE v = w BY <1>1 DEF WcpRows
<1>2. CASE \E n \in Nat, g \in Int : v = WithResolution(w, n, g)
  <2>1. PICK n \in Nat, g \in Int : v = WithResolution(w, n, g) BY <1>2
  <2>2. v \in WcpRows BY <2>1, WcpRowsType
  <2>3. v.sold = w.sold + n /\ v.resolved = w.resolved \cup {n}
    BY <2>1 DEF WithResolution
  <2>4. w.sold \in Nat /\ e.sold \in Nat /\ w.resolved \subseteq Nat
    BY DEF WcpRows, Exits
  <2>5. \A m \in v.resolved : e.sold + m <= v.sold
    BY <2>3, <2>4 DEF Booked
  <2>6. e.sold <= v.sold /\ w.sold <= v.sold /\ v.resolved # {}
    BY <2>3, <2>4 DEF Booked
  <2> QED BY <2>2, <2>5, <2>6 DEF Booked
<1> QED BY <1>1, <1>2 DEF Grown

LEMMA RebuildStart == RebuildInit => RebuildInv
<1> SUFFICES ASSUME RebuildInit PROVE RebuildInv OBVIOUS
<1>1. LedgerInv BY LedgerInit DEF RebuildInit
<1>2. RestOK /\ TablesOK BY <1>1, LedgerInvParts
<1>3. TaskOK
  BY DEF TaskOK, TaskNames, RebuildInit, Idle, NoLabels, Outcome
<1>4. NoRow \in Row BY DEF NoRow, Row
<1>5. BookTypes
  BY <1>2, <1>4 DEF BookTypes, TablesOK, RebuildInit, Exits, NoRows
<1>6. Total(Closings(<<>>)) = 0 /\ Total(Gains(<<>>)) = 0
  <2>1. <<>> \in Seq(Trade) /\ Len(<<>>) = 0 OBVIOUS
  <2>2. /\ Closings(<<>>) \in [1..0 -> Int] /\ Gains(<<>>) \in [1..0 -> Int]
    BY <2>1, IntColumns
  <2> DEFINE z == [i \in 0..0 |-> 0]
  <2>3. Adds(z, Closings(<<>>), 0) /\ Adds(z, Gains(<<>>), 0) BY DEF Adds
  <2>4. z[0] = 0 OBVIOUS
  <2> HIDE DEF z
  <2> QED BY <2>2, <2>3, <2>4, TotalIs
<1>7. ASSUME NEW k \in Keys PROVE KeyOK(k)
  <2>1. hist[k] = <<>> /\ exits[k] = [sold |-> 0, pnl |-> 0] BY DEF RebuildInit
  <2>2. Told(hist[k], exits[k]) BY <1>6, <2>1 DEF Told
  <2>3. wcp[k] = NoWcp BY DEF RebuildInit, Init
  <2>4. Booked(wcp[k], exits[k]) BY <2>1, <2>3 DEF Booked, NoWcp
  <2>5. Rowed(pos[k]) /\ Rowed(former[k]) /\ k \notin recovered
    BY DEF RebuildInit, Init, Rowed, NoRows
  <2> QED BY <2>2, <2>4, <2>5 DEF KeyOK
<1> QED BY <1>2, <1>3, <1>5, <1>7 DEF RebuildInv, BooksOK
(* A BUY: the row it leaves and the resolved row it may settle with.       *)
LEMMA BuyRows ==
  ASSUME BooksOK, NEW k \in Keys, NEW n \in Sizes, WsBuy(k, n) \/ PollBuy(k, n)
  PROVE  \E c \in Nat, p \in Row, w \in WcpRows :
           /\ Rowed(p) /\ Grown(wcp[k], w)
           /\ cb' = [cb EXCEPT ![k] = c] /\ pos' = [pos EXCEPT ![k] = p]
           /\ wcp' = [wcp EXCEPT ![k] = w]
<1>1. n \in Nat BY ConstantsAssumption
<1>2. /\ cb[k] \in Nat /\ pos[k] \in Row /\ wcp[k] \in WcpRows
      /\ wcp = [wcp EXCEPT ![k] = wcp[k]]
  BY DEF BooksOK, BookTypes
<1> DEFINE p   == AfterBuy(pos[k], n)
           sum == cb[k] + n
           g   == Settlement(k, market.resolution, sum)
<1>3. p \in Row /\ Rowed(p)
  <2>1. 0 \in Int OBVIOUS
  <2> HIDE DEF p
  <2> QED BY <1>1, <1>2, <2>1, RowsAfter DEF p
<1>4. sum \in Nat BY <1>1, <1>2
<1>5. g \in Int BY <1>4, SettlementType
<1>6. AfterSettlement(p, sum, g) \in Row /\ Rowed(AfterSettlement(p, sum, g))
  BY <1>3, <1>4, <1>5, RowsAfter
<1>7. Grown(wcp[k], wcp[k]) BY DEF Grown
<1>8. /\ WithResolution(wcp[k], sum, g) \in WcpRows
      /\ Grown(wcp[k], WithResolution(wcp[k], sum, g))
  BY <1>2, <1>4, <1>5, WcpRowsType DEF Grown
<1>9. CASE PollBuy(k, n)
  <2>1. /\ cb' = [cb EXCEPT ![k] = sum] /\ pos' = [pos EXCEPT ![k] = p]
        /\ wcp' = wcp
    BY <1>9 DEF PollBuy
  <2> HIDE DEF p, sum
  <2> QED BY <1>2, <1>3, <1>4, <1>7, <2>1
<1>10. CASE WsBuy(k, n)
  <2>1. CloseIfResolved(k, sum, p) BY <1>10 DEF WsBuy
  <2> HIDE DEF p, sum
  <2>2. CASE /\ wcp' = [wcp EXCEPT ![k] = WithResolution(@, sum, g)]
             /\ pos' = [pos EXCEPT ![k] = AfterSettlement(p, sum, g)]
             /\ cb' = [cb EXCEPT ![k] = 0]
    <3>1. 0 \in Nat OBVIOUS
    <3> HIDE DEF g
    <3> QED BY <1>6, <1>8, <2>2, <3>1
  <2>3. CASE /\ cb' = [cb EXCEPT ![k] = 0] \/ cb' = [cb EXCEPT ![k] = sum]
             /\ pos' = [pos EXCEPT ![k] = p]
             /\ wcp' = wcp
    <3>1. 0 \in Nat OBVIOUS
    <3> QED BY <1>2, <1>3, <1>4, <1>7, <2>3, <3>1
  <2> QED BY <2>1, <2>2, <2>3 DEF CloseIfResolved
<1> QED BY <1>9, <1>10

LEMMA StoredShape ==
  ASSUME BookTypes, NEW k \in Keys, NEW t \in Trade, Stored(k, t)
  PROVE  /\ hist' \in [Keys -> Seq(Trade)]
         /\ \A j \in Keys \ {k} : hist'[j] = hist[j]
         /\ \A i \in DOMAIN hist'[k] :
              hist'[k][i] = t \/ \E l \in DOMAIN hist[k] : hist'[k][i] = hist[k][l]
         /\ Total(BuySizes(hist'[k])) =
              Total(BuySizes(hist[k])) + (IF t.side = "BUY" THEN t.size ELSE 0)
         /\ Total(Closings(hist'[k])) = Total(Closings(hist[k])) + t.closed
         /\ Total(Gains(hist'[k])) = Total(Gains(hist[k])) + t.gain
<1> DEFINE h == hist[k]
<1>1. h \in Seq(Trade) BY DEF BookTypes
<1>2. PICK i \in 1..(Len(h) + 1) : hist' = [hist EXCEPT ![k] = InsertAt(h, i, t)]
  BY DEF Stored
<1> DEFINE g == InsertAt(h, i, t)
<1>3. /\ g \in Seq(Trade)
      /\ \A j \in DOMAIN g : g[j] = t \/ \E l \in DOMAIN h : g[j] = h[l]
      /\ Total(BuySizes(g)) =
           Total(BuySizes(h)) + (IF t.side = "BUY" THEN t.size ELSE 0)
      /\ Total(Closings(g)) = Total(Closings(h)) + t.closed
      /\ Total(Gains(g)) = Total(Gains(h)) + t.gain
  <2> HIDE DEF h
  <2> QED BY <1>1, InsertTotals
<1> HIDE DEF g
<1>4. hist'[k] = g BY <1>2 DEF BookTypes, g
<1>5. hist' \in [Keys -> Seq(Trade)] /\ \A j \in Keys \ {k} : hist'[j] = hist[j]
  BY <1>2, <1>3 DEF BookTypes, g
<1> QED BY <1>3, <1>4, <1>5

(* What was booked for a key, told by its trades.                          *)
LEMMA TotalsInt ==
  ASSUME NEW h \in Seq(Trade)
  PROVE  /\ Total(BuySizes(h)) \in Nat
         /\ Total(Closings(h)) \in Nat
         /\ Total(Gains(h)) \in Int
BY Columns, TotalNat, TotalInt

LEMMA LiveBuyStep ==
  ASSUME RebuildInv, NEW k \in Keys, NEW n \in Sizes, LiveBuy(k, n)
  PROVE  RebuildInv'
<1>1. n \in Nat \ {0} /\ EntryPrice[k] \in Nat BY ConstantsAssumption
<1>2. WsBuy(k, n) \/ PollBuy(k, n) BY DEF LiveBuy
<1>3. BooksOK /\ BookTypes /\ KeyOK(k) BY DEF RebuildInv, BooksOK
<1>4. PICK c \in Nat, p \in Row, w \in WcpRows :
           /\ Rowed(p) /\ Grown(wcp[k], w)
           /\ cb' = [cb EXCEPT ![k] = c] /\ pos' = [pos EXCEPT ![k] = p]
           /\ wcp' = [wcp EXCEPT ![k] = w]
  BY <1>2, <1>3, BuyRows
<1> DEFINE t == [side |-> "BUY", size |-> n, price |-> EntryPrice[k],
                 closed |-> 0, gain |-> 0, stamped |-> FALSE]
<1>5. /\ t \in Trade /\ t.side = "BUY" /\ t.closed = 0 /\ t.gain = 0 /\ Plain(t)
  BY <1>1 DEF Trade, Plain
<1>6. Stored(k, t) BY DEF LiveBuy
<1> HIDE DEF t
<1>7. /\ hist' \in [Keys -> Seq(Trade)]
      /\ \A j \in Keys \ {k} : hist'[j] = hist[j]
      /\ \A i \in DOMAIN hist'[k] :
           hist'[k][i] = t \/ \E l \in DOMAIN hist[k] : hist'[k][i] = hist[k][l]
      /\ Total(Closings(hist'[k])) = Total(Closings(hist[k])) + t.closed
      /\ Total(Gains(hist'[k])) = Total(Gains(hist[k])) + t.gain
  BY <1>3, <1>5, <1>6, StoredShape
<1>8. exits' = exits /\ former' = former /\ task' = task /\ recovered' = recovered \ {k}
  BY DEF LiveBuy
<1>9. BookTypes'
  BY <1>3, <1>4, <1>7, <1>8 DEF BookTypes
<1>10. wcp'[k] = w /\ pos'[k] = p BY <1>3, <1>4 DEF BookTypes
<1>11. KeyOK(k)'
  <2>1. wcp[k] \in WcpRows /\ exits[k] \in Exits /\ hist[k] \in Seq(Trade)
    BY <1>3 DEF BookTypes
  <2>2. Booked(wcp[k], exits[k]) /\ Told(hist[k], exits[k]) /\ Rowed(former[k])
    BY <1>3 DEF KeyOK
  <2>3. Booked(w, exits[k]) BY <1>4, <2>1, <2>2, GrownBooked
  <2>4. Told(hist'[k], exits[k])
    <3>1. \A i \in DOMAIN hist'[k] : Plain(hist'[k][i])
      BY <1>5, <1>7, <2>2 DEF Told
    <3>2. /\ Total(Closings(hist[k])) \in Nat /\ Total(Gains(hist[k])) \in Int
      BY <2>1, TotalsInt
    <3>3. /\ Total(Closings(hist'[k])) = Total(Closings(hist[k]))
          /\ Total(Gains(hist'[k])) = Total(Gains(hist[k]))
      BY <1>5, <1>7, <3>2
    <3> QED BY <2>2, <3>1, <3>3 DEF Told
  <2> QED BY <1>4, <1>8, <1>10, <2>2, <2>3, <2>4 DEF KeyOK
<1>12. Others(k) BY <1>3, <1>4, <1>7, <1>8 DEF Others, BookTypes
<1>13. BooksOK' BY <1>3, <1>9, <1>11, <1>12, OneKeyStep
<1>14. RestOK'
  <2>1. IngestBuy(k, n) BY <1>2 DEF WsBuy, PollBuy
  <2> QED BY <2>1, IngestBuyRest DEF RebuildInv
<1>15. TaskOK' BY <1>8 DEF TaskOK, RebuildInv, Outcome
<1> QED BY <1>13, <1>14, <1>15 DEF RebuildInv

LEMMA SellRest ==
  ASSUME RestOK, NEW k \in Keys, NEW n \in Sizes, NEW price \in SellPrices,
         Sell(k, n, price)
  PROVE  RestOK'
<1>1. trades' \in [unstamped : SUBSET Keys, count : 0..MaxTrades]
  BY ConstantsAssumption DEF RestOK, Sell, Arrives
<1> QED BY <1>1 DEF RestOK, Sell, Arrives, world, jobs

LEMMA LiveSellStep ==
  ASSUME RebuildInv, NEW k \in Keys, NEW n \in Sizes, NEW price \in SellPrices,
         LiveSell(k, n, price)
  PROVE  RebuildInv'
<1>1. n \in Nat \ {0} /\ price \in Nat /\ EntryPrice[k] \in Nat
  BY ConstantsAssumption
<1>2. BooksOK /\ BookTypes /\ KeyOK(k) /\ RestOK /\ TaskOK
  BY DEF RebuildInv, BooksOK
<1>3. /\ cb[k] \in Nat /\ pos[k] \in Row /\ wcp[k] \in WcpRows /\ exits[k] \in Exits
      /\ hist[k] \in Seq(Trade)
  BY <1>2 DEF BookTypes
<1>4. Sell(k, n, price) BY DEF LiveSell
<1> DEFINE m == IF cb[k] = 0 THEN 0 ELSE Closable(k, n)
           g == Gain(k, price, m)
           w == WithExit(wcp[k], m, g)
           p == AfterSell(pos[k], n, g)
<1>5. m \in Nat BY <1>1, <1>3 DEF Closable, Least
<1>6. g \in Int /\ (m = 0 => g = 0)
  <2>1. g \in Int BY <1>1, <1>5, GainType
  <2>2. ASSUME m = 0 PROVE g = 0
    <3>1. \A a \in Int : a * 0 = 0 BY SMT
    <3>2. price - EntryPrice[k] \in Int BY <1>1
    <3>3. g = (price - EntryPrice[k]) * 0 BY <2>2 DEF Gain
    <3> QED BY <3>1, <3>2, <3>3
  <2> QED BY <2>1, <2>2
<1>7. /\ wcp' = [wcp EXCEPT ![k] = w] /\ pos' = [pos EXCEPT ![k] = p]
      /\ cb' = [cb EXCEPT ![k] = Reduced(cb[k], n)]
  BY <1>4 DEF Sell
<1> HIDE DEF m, g
<1>8. w \in WcpRows /\ w.sold = wcp[k].sold + m /\ w.pnl = wcp[k].pnl + g
      /\ w.resolved = wcp[k].resolved
  BY <1>3, <1>5, <1>6, WcpRowsType DEF WithExit
<1>9. p \in Row /\ Rowed(p) BY <1>1, <1>3, <1>6, RowsAfter
<1> HIDE DEF w, p
<1>10. Reduced(cb[k], n) \in Nat BY <1>1, <1>3 DEF Reduced, Greatest
<1>11. wcp'[k] = w /\ pos'[k] = p BY <1>2, <1>7 DEF BookTypes
<1>12. wcp[k].sold \in Nat /\ wcp[k].pnl \in Int /\ exits[k].sold \in Nat
       /\ exits[k].pnl \in Int /\ wcp[k].resolved \subseteq Nat
  BY <1>3 DEF WcpRows, Exits
<1>13. wcp'[k].sold - wcp[k].sold = m /\ wcp'[k].pnl - wcp[k].pnl = g
  BY <1>5, <1>6, <1>8, <1>11, <1>12
<1> DEFINE t == [side |-> "SELL", size |-> n, price |-> price,
                 closed |-> m, gain |-> g, stamped |-> FALSE]
           e == [sold |-> exits[k].sold + m, pnl |-> exits[k].pnl + g]
<1>14. /\ t \in Trade /\ t.side = "SELL" /\ t.closed = m /\ t.gain = g /\ Plain(t)
  BY <1>1, <1>5, <1>6 DEF Trade, Plain
<1>15. e \in Exits /\ e.sold = exits[k].sold + m /\ e.pnl = exits[k].pnl + g
  BY <1>5, <1>6, <1>12 DEF Exits
<1>16. Stored(k, t) /\ exits' = [exits EXCEPT ![k] = e] /\ task' = task
       /\ former' = former /\ recovered' = recovered
  BY <1>13 DEF LiveSell, notes
<1> HIDE DEF t, e
<1>17. /\ hist' \in [Keys -> Seq(Trade)]
       /\ \A j \in Keys \ {k} : hist'[j] = hist[j]
       /\ \A i \in DOMAIN hist'[k] :
            hist'[k][i] = t \/ \E l \in DOMAIN hist[k] : hist'[k][i] = hist[k][l]
       /\ Total(BuySizes(hist'[k])) =
            Total(BuySizes(hist[k])) + (IF t.side = "BUY" THEN t.size ELSE 0)
       /\ Total(Closings(hist'[k])) = Total(Closings(hist[k])) + t.closed
       /\ Total(Gains(hist'[k])) = Total(Gains(hist[k])) + t.gain
  BY <1>2, <1>14, <1>16, StoredShape
<1>18. exits'[k] = e BY <1>2, <1>16 DEF BookTypes
<1>19. BookTypes'
  BY <1>2, <1>7, <1>8, <1>9, <1>10, <1>15, <1>16, <1>17 DEF BookTypes
<1>20. Others(k) BY <1>2, <1>7, <1>16, <1>17 DEF Others, BookTypes
<1>21. KeyOK(k)'
  <2>1. Booked(wcp[k], exits[k]) /\ Told(hist[k], exits[k]) /\ Rowed(former[k])
    BY <1>2 DEF KeyOK
  <2>2. Booked(w, e)
    <3>1. e.sold <= w.sold BY <1>5, <1>8, <1>12, <1>15, <2>1 DEF Booked
    <3>2. \A i \in w.resolved : e.sold + i <= w.sold
      BY <1>5, <1>8, <1>12, <1>15, <2>1 DEF Booked
    <3>3. w.resolved = {} => w.sold = e.sold /\ w.pnl = e.pnl
      BY <1>8, <1>15, <2>1 DEF Booked
    <3> QED BY <3>1, <3>2, <3>3 DEF Booked
  <2>3. Told(hist'[k], e)
    <3>1. \A i \in DOMAIN hist'[k] : Plain(hist'[k][i])
      BY <1>14, <1>17, <2>1 DEF Told
    <3>2. /\ Total(Closings(hist[k])) \in Nat /\ Total(Gains(hist[k])) \in Int
      BY <1>3, TotalsInt
    <3> QED BY <1>5, <1>6, <1>12, <1>14, <1>15, <1>17, <2>1, <3>1, <3>2 DEF Told
  <2>4. k \in recovered' => Total(BuySizes(hist'[k])) <= w.sold
    <3>1. Total(BuySizes(hist[k])) \in Nat BY <1>3, TotalsInt
    <3>2. Total(BuySizes(hist'[k])) = Total(BuySizes(hist[k]))
      BY <1>14, <1>17, <3>1
    <3>3. k \in recovered => Total(BuySizes(hist[k])) <= wcp[k].sold
      BY <1>2 DEF KeyOK, Purchased
    <3> QED BY <1>5, <1>8, <1>12, <1>16, <3>1, <3>2, <3>3
  <2> QED BY <1>9, <1>11, <1>16, <1>18, <2>1, <2>2, <2>3, <2>4 DEF KeyOK, Purchased
<1>22. BooksOK' BY <1>2, <1>19, <1>20, <1>21, OneKeyStep
<1>23. RestOK' BY <1>2, <1>4, SellRest
<1>24. TaskOK' BY <1>2, <1>16 DEF TaskOK, Outcome
<1> QED BY <1>22, <1>23, <1>24 DEF RebuildInv
(* Stamping tells nothing else.                                            *)
LEMMA StampedTold ==
  ASSUME NEW h \in Seq(Trade), NEW e, Told(h, e), NEW g, g = WithStamps(h)
  PROVE  g \in Seq(Trade) /\ Told(g, e) /\ BuySizes(g) = BuySizes(h)
<1>1. SameTotals(h, g) BY StampTotals
<1>2. \A i \in DOMAIN g : Plain(g[i]) BY <1>1 DEF Told, Plain, SameTotals
<1>3. /\ g \in Seq(Trade) /\ BuySizes(g) = BuySizes(h)
      /\ Closings(g) = Closings(h) /\ Gains(g) = Gains(h)
  BY <1>1 DEF SameTotals
<1> QED BY <1>2, <1>3 DEF Told

LEMMA LiveProcessStep ==
  ASSUME RebuildInv, NEW blank \in SUBSET {k \in Keys : token[k] = None},
         LiveProcess(blank)
  PROVE  RebuildInv'
<1>1. BooksOK /\ BookTypes /\ RestOK /\ TaskOK BY DEF RebuildInv, BooksOK
<1>2. ProcessMarket(blank) /\ exits' = exits /\ task' = task /\ former' = former
      /\ recovered' = recovered
  BY DEF LiveProcess, notes
<1> DEFINE g(k) == Settlement(k, market.resolution, cb[k])
<1>3. ASSUME NEW k \in Keys
      PROVE  /\ cb[k] \in Nat /\ pos[k] \in Row /\ wcp[k] \in WcpRows /\ g(k) \in Int
             /\ exits[k] \in Exits /\ hist[k] \in Seq(Trade)
  <2>1. /\ cb[k] \in Nat /\ pos[k] \in Row /\ wcp[k] \in WcpRows
        /\ exits[k] \in Exits /\ hist[k] \in Seq(Trade)
    BY <1>1 DEF BookTypes
  <2> QED BY <2>1, SettlementType
<1>4. /\ wcp' = [k \in Keys |-> IF Settles(k) THEN WithResolution(wcp[k], cb[k], g(k))
                                ELSE wcp[k]]
      /\ pos' = [k \in Keys |-> IF Settles(k) THEN AfterSettlement(pos[k], cb[k], g(k))
                                ELSE pos[k]]
      /\ cb' = [k \in Keys |-> 0]
  BY <1>2 DEF ProcessMarket
<1> HIDE DEF g
<1>5. ASSUME NEW k \in Keys
      PROVE  /\ wcp'[k] \in WcpRows /\ Booked(wcp'[k], exits[k])
             /\ wcp[k].sold <= wcp'[k].sold
  <2>1. Grown(wcp[k], wcp'[k]) BY <1>3, <1>4 DEF Grown
  <2>2. Booked(wcp[k], exits[k]) BY <1>1 DEF BooksOK, KeyOK
  <2> QED BY <1>3, <2>1, <2>2, GrownBooked
<1>6. ASSUME NEW k \in Keys PROVE pos'[k] \in Row /\ Rowed(pos'[k])
  <2>1. Rowed(pos[k]) BY <1>1 DEF BooksOK, KeyOK
  <2>2. CASE Settles(k)
    <3>1. pos'[k] = AfterSettlement(pos[k], cb[k], g(k)) BY <1>4, <2>2
    <3> QED BY <1>3, <2>1, <3>1, RowsAfter
  <2>3. CASE ~Settles(k)
    <3>1. pos'[k] = pos[k] BY <1>4, <2>3
    <3> QED BY <1>3, <2>1, <3>1
  <2> QED BY <2>2, <2>3
<1>7. ASSUME NEW k \in Keys
      PROVE  /\ hist'[k] \in Seq(Trade) /\ Told(hist'[k], exits[k])
             /\ BuySizes(hist'[k]) = BuySizes(hist[k])
  <2>1. Told(hist[k], exits[k]) BY <1>1 DEF BooksOK, KeyOK
  <2>2. CASE k \in blank
    <3>1. hist'[k] = hist[k] BY <2>2 DEF LiveProcess
    <3> QED BY <1>3, <2>1, <3>1
  <2>3. CASE k \notin blank
    <3>1. hist'[k] = WithStamps(hist[k]) BY <2>3 DEF LiveProcess, WithStamps
    <3> QED BY <1>3, <2>1, <3>1, StampedTold
  <2> QED BY <2>2, <2>3
<1>8. hist' \in [Keys -> Seq(Trade)]
  <2>1. hist' = [k \in Keys |-> hist'[k]] BY DEF LiveProcess
  <2> QED BY <1>7, <2>1
<1>9. wcp' \in [Keys -> WcpRows] /\ pos' \in [Keys -> Row] /\ cb' \in [Keys -> Nat]
  <2>1. wcp' = [k \in Keys |-> wcp'[k]] /\ pos' = [k \in Keys |-> pos'[k]] BY <1>4
  <2> QED BY <1>4, <1>5, <1>6, <2>1
<1>10. BookTypes' BY <1>1, <1>2, <1>8, <1>9 DEF BookTypes
<1>11. ASSUME NEW k \in Keys PROVE KeyOK(k)'
  <2>1. KeyOK(k) BY <1>1 DEF BooksOK
  <2>2. Rowed(former[k]) BY <2>1 DEF KeyOK
  <2>3. k \in recovered' => Total(BuySizes(hist'[k])) <= wcp'[k].sold
    <3>1. Total(BuySizes(hist[k])) \in Nat BY <1>3, TotalsInt
    <3>2. wcp[k].sold \in Nat /\ wcp'[k].sold \in Nat BY <1>3, <1>5 DEF WcpRows
    <3>3. k \in recovered => Total(BuySizes(hist[k])) <= wcp[k].sold
      BY <2>1 DEF KeyOK, Purchased
    <3> QED BY <1>2, <1>5, <1>7, <3>1, <3>2, <3>3
  <2> QED BY <1>2, <1>5, <1>6, <1>7, <2>2, <2>3 DEF KeyOK, Purchased
<1>12. RestOK'
  <2>1. trades' \in [unstamped : SUBSET Keys, count : 0..MaxTrades]
    BY <1>1, <1>2 DEF RestOK, ProcessMarket
  <2>2. market' \in [resolution : Outcome, stamped : Outcome]
    BY <1>1, <1>2 DEF RestOK, ProcessMarket
  <2> QED BY <1>1, <1>2, <2>1, <2>2 DEF RestOK, ProcessMarket, Outcome
<1>13. TaskOK' BY <1>1, <1>2 DEF TaskOK, Outcome
<1> QED BY <1>10, <1>11, <1>12, <1>13 DEF RebuildInv, BooksOK

(* An archived trade takes with it what it told.                           *)
LEMMA ArchiveStep ==
  ASSUME RebuildInv, NEW k \in Keys, Archive(k) PROVE RebuildInv'
<1>1. BooksOK /\ BookTypes /\ KeyOK(k) /\ RestOK /\ TaskOK
  BY DEF RebuildInv, BooksOK
<1>2. /\ UNCHANGED vars /\ exits' = exits /\ task' = task /\ former' = former
      /\ recovered' = recovered
      /\ hist' = [hist EXCEPT ![k] = Tail(hist[k])] /\ hist[k] # <<>>
  BY DEF Archive, notes
<1> DEFINE h == hist[k]
<1>3. h \in Seq(Trade) /\ h # <<>> BY <1>1, <1>2 DEF BookTypes
<1> HIDE DEF h
<1> DEFINE g == Tail(h)
<1>4. /\ g \in Seq(Trade) /\ h[1] \in Trade
      /\ \A j \in DOMAIN g : \E l \in DOMAIN h : g[j] = h[l]
      /\ \E l \in DOMAIN h : h[l] = h[1]
      /\ Total(BuySizes(h)) = Total(BuySizes(g)) + BuySizes(h)[1]
      /\ BuySizes(h)[1] \in Nat
      /\ Total(Closings(h)) = Total(Closings(g)) + h[1].closed
      /\ Total(Gains(h)) = Total(Gains(g)) + h[1].gain
  <2>1. g = Tail(h) OBVIOUS
  <2> HIDE DEF g
  <2>2. OneLess(h, g) BY <1>3, <2>1, TailTotals
  <2> QED BY <2>2 DEF OneLess
<1>5. hist'[k] = g /\ hist' \in [Keys -> Seq(Trade)]
      /\ \A j \in Keys \ {k} : hist'[j] = hist[j]
  BY <1>1, <1>2, <1>4 DEF BookTypes, h
<1> HIDE DEF g
<1>6. /\ Total(BuySizes(h)) \in Nat /\ Total(BuySizes(g)) \in Nat
      /\ Total(Closings(h)) \in Nat /\ Total(Closings(g)) \in Nat
      /\ Total(Gains(h)) \in Int /\ Total(Gains(g)) \in Int
  BY <1>3, <1>4, TotalsInt
<1>7. BookTypes' BY <1>1, <1>2, <1>5 DEF BookTypes, vars
<1>8. Others(k) BY <1>2, <1>5 DEF Others, vars
<1>9. KeyOK(k)'
  <2>1. /\ Booked(wcp[k], exits[k]) /\ Told(h, exits[k]) /\ Rowed(former[k])
        /\ Rowed(pos[k])
        /\ k \in recovered => Total(BuySizes(h)) <= wcp[k].sold
    BY <1>1 DEF KeyOK, Purchased, h
  <2>2. exits[k].sold \in Nat /\ wcp[k].sold \in Nat
    BY <1>1 DEF BookTypes, Exits, WcpRows
  <2>3. Told(g, exits[k])
    <3>1. \A i \in DOMAIN g : Plain(g[i]) BY <1>4, <2>1 DEF Told
    <3>2. Plain(h[1]) BY <1>4, <2>1 DEF Told
    <3>3. h[1].closed \in Nat /\ h[1].gain \in Int BY <1>4 DEF Trade
    <3>4. Total(Closings(h)) <= exits[k].sold
          /\ (Total(Closings(h)) = exits[k].sold => Total(Gains(h)) = exits[k].pnl)
      BY <2>1 DEF Told
    <3>5. /\ Total(Closings(h)) = Total(Closings(g)) + h[1].closed
          /\ Total(Gains(h)) = Total(Gains(g)) + h[1].gain
      BY <1>4
    <3>6. Total(Closings(g)) <= exits[k].sold BY <1>6, <2>2, <3>3, <3>4, <3>5
    <3>7. ASSUME Total(Closings(g)) = exits[k].sold
          PROVE  Total(Gains(g)) = exits[k].pnl
      <4>1. h[1].closed = 0 /\ Total(Closings(h)) = exits[k].sold
        BY <1>6, <2>2, <3>3, <3>4, <3>7, <3>5
      <4>2. h[1].gain = 0 BY <3>2, <4>1 DEF Plain
      <4> QED BY <1>6, <3>4, <3>5, <4>1, <4>2
    <3> QED BY <3>1, <3>6, <3>7 DEF Told
  <2>4. k \in recovered => Total(BuySizes(g)) <= wcp[k].sold
    BY <1>4, <1>6, <2>1, <2>2
  <2> QED BY <1>2, <1>5, <2>1, <2>3, <2>4 DEF KeyOK, Purchased, vars
<1>10. BooksOK' BY <1>1, <1>7, <1>8, <1>9, OneKeyStep
<1>11. RestOK' /\ TaskOK' BY <1>1, <1>2 DEF RestOK, TaskOK, Outcome, vars
<1> QED BY <1>10, <1>11 DEF RebuildInv

(* The market job's and discovery's steps beside the books.                *)
LEMMA OtherLiveStep ==
  ASSUME RebuildInv, UNCHANGED <<books, task, notes>>,
         \/ \E l \in Labels : Sync(l)
         \/ FindMarkets
         \/ \E k \in Keys, l \in Labels : UpsertToken(k, l)
  PROVE  RebuildInv'
<1>1. BooksOK /\ RestOK /\ TaskOK BY DEF RebuildInv
<1>2. TaskOK' BY <1>1 DEF TaskOK, Outcome
<1>3. CASE \E l \in Labels : Sync(l)
  <2>1. PICK l \in Labels : Sync(l) BY <1>3
  <2>2. UNCHANGED <<cb, wcp, pos>> BY <2>1 DEF Sync, tables
  <2>3. BooksOK' BY <1>1, <2>2, BooksRest DEF books, notes
  <2>4. RestOK'
    BY <1>1, <2>1 DEF RestOK, Sync, flow, jobs, tables, Outcome
  <2> QED BY <1>2, <2>3, <2>4 DEF RebuildInv
<1>4. CASE FindMarkets
  <2>1. UNCHANGED <<cb, wcp, pos>> BY <1>4 DEF FindMarkets, tables
  <2>2. BooksOK' BY <1>1, <2>1, BooksRest DEF books, notes
  <2>3. RestOK'
    BY <1>1, <1>4 DEF RestOK, FindMarkets, world, flow, tables, Outcome
  <2> QED BY <1>2, <2>2, <2>3 DEF RebuildInv
<1>5. CASE \E k \in Keys, l \in Labels : UpsertToken(k, l)
  <2>1. PICK k \in Keys, l \in Labels : UpsertToken(k, l) BY <1>5
  <2>2. UNCHANGED <<cb, wcp, pos>> BY <2>1 DEF UpsertToken, tables
  <2>3. BooksOK' BY <1>1, <2>2, BooksRest DEF books, notes
  <2>4. RestOK'
    BY <1>1, <2>1 DEF RestOK, UpsertToken, flow, jobs, tables, Outcome
  <2> QED BY <1>2, <2>3, <2>4 DEF RebuildInv
<1> QED BY <1>3, <1>4, <1>5

LEMMA LiveStep == ASSUME RebuildInv, Live PROVE RebuildInv'
<1>1. CASE \E k \in Keys, n \in Sizes : LiveBuy(k, n)
  BY <1>1, LiveBuyStep
<1>2. CASE \E k \in Keys, n \in Sizes, price \in SellPrices : LiveSell(k, n, price)
  BY <1>2, LiveSellStep
<1>3. CASE \E blank \in SUBSET {k \in Keys : token[k] = None} : LiveProcess(blank)
  BY <1>3, LiveProcessStep
<1>4. CASE \E k \in Keys : Archive(k) BY <1>4, ArchiveStep
<1>5. CASE /\ \/ \E l \in Labels : Sync(l)
              \/ FindMarkets
              \/ \E k \in Keys, l \in Labels : UpsertToken(k, l)
           /\ UNCHANGED <<books, task, notes>>
  BY <1>5, OtherLiveStep
<1> QED BY <1>1, <1>2, <1>3, <1>4, <1>5, Zenon DEF Live
-----------------------------------------------------------------------------
(* The tasks.                                                              *)
LEMMA RestKept == RestOK /\ UNCHANGED <<world, flow, jobs>> => RestOK'
BY DEF RestOK, world, flow, jobs, Outcome

LEMMA StartsTyped ==
  ASSUME NEW name \in TaskNames, NEW todo \in SUBSET Keys,
         NEW label \in [Keys -> Outcome], Starts(name, todo, label)
  PROVE  TaskOK'
<1>1. task' = [name |-> name, todo |-> todo, label |-> label] BY DEF Starts
<1>2. task' \in [name : TaskNames, todo : SUBSET Keys, label : [Keys -> Outcome]]
  BY <1>1
<1> QED BY <1>2 DEF TaskOK, Outcome

LEMMA IdleTyped == ASSUME task' = Idle PROVE TaskOK'
<1>1. "none" \in TaskNames BY DEF TaskNames
<1>2. NoLabels \in [Keys -> Outcome] BY DEF NoLabels, Outcome
<1>3. Idle \in [name : TaskNames, todo : SUBSET Keys, label : [Keys -> Outcome]]
  BY <1>1, <1>2 DEF Idle
<1> QED BY <1>3 DEF TaskOK, Outcome

LEMMA VisitsTyped ==
  ASSUME TaskOK, NEW name, NEW k, Visits(name, k) PROVE TaskOK'
<1>1. CASE task' = Idle BY <1>1, IdleTyped
<1>2. CASE task' = [task EXCEPT !.todo = @ \ {k}]
  BY <1>2 DEF TaskOK, Outcome
<1> QED BY <1>1, <1>2 DEF Visits

(* A scan and a stop change no table.                                      *)
LEMMA ScanStep ==
  ASSUME RebuildInv, BackfillScan \/ RecoveryScan \/ StatusScan \/ BasisScan
  PROVE  RebuildInv'
<1>1. UNCHANGED <<vars, books, notes>>
  BY DEF BackfillScan, RecoveryScan, StatusScan, BasisScan
<1>2. BooksOK' BY <1>1, BooksRest DEF RebuildInv, vars
<1>3. RestOK' BY <1>1, RestKept DEF RebuildInv, vars, world, flow, jobs
<1>4. /\ NoLabels \in [Keys -> Outcome]
      /\ token \in [Keys -> Outcome]
      /\ {"backfill", "recovery", "status", "basis"} \subseteq TaskNames
  BY DEF NoLabels, Outcome, TaskNames, RebuildInv, RestOK
<1>5. /\ WithBuys \in SUBSET Keys /\ Orphans \in SUBSET Keys
      /\ {k \in Keys : pos[k].sold > pos[k].bought} \in SUBSET Keys
  BY DEF WithBuys, Orphans
<1>6. TaskOK'
  BY <1>4, <1>5, StartsTyped DEF BackfillScan, RecoveryScan, StatusScan, BasisScan
<1> QED BY <1>2, <1>3, <1>6 DEF RebuildInv

LEMMA KilledStep == ASSUME RebuildInv, Killed PROVE RebuildInv'
<1>1. BooksOK /\ BookTypes /\ RestOK BY DEF RebuildInv, BooksOK
<1>2. TaskOK' BY IdleTyped DEF Killed
<1>3. RestOK' BY <1>1, RestKept DEF Killed, vars, world, flow, jobs
<1>4. NoRow \in Row /\ Rowed(NoRow) BY DEF NoRow, Row, Rowed
<1>5. former' = NoRows /\ UNCHANGED <<cb, wcp, pos, hist, exits, recovered>>
  BY DEF Killed, vars, books
<1>6. BookTypes' BY <1>1, <1>4, <1>5 DEF BookTypes, NoRows
<1>7. ASSUME NEW k \in Keys PROVE KeyOK(k)'
  <2>1. KeyOK(k) BY <1>1 DEF BooksOK
  <2>2. former'[k] = NoRow BY <1>5 DEF NoRows
  <2> QED BY <1>4, <1>5, <2>1, <2>2 DEF KeyOK, Purchased
<1> QED BY <1>2, <1>3, <1>6, <1>7 DEF RebuildInv, BooksOK

LEMMA TruncateStep == ASSUME RebuildInv, Truncate PROVE RebuildInv'
<1>1. BooksOK /\ BookTypes /\ RestOK /\ TaskOK BY DEF RebuildInv, BooksOK
<1>2. TaskOK' BY <1>1 DEF Truncate, TaskOK, TaskNames, Outcome
<1>3. RestOK' BY <1>1, RestKept DEF Truncate
<1>4. NoRow \in Row /\ Rowed(NoRow) BY DEF NoRow, Row, Rowed
<1>5. /\ former' = [k \in Keys |-> IF k \in task.todo THEN pos[k] ELSE NoRow]
      /\ pos' = NoRows /\ UNCHANGED <<cb, wcp, hist, exits, recovered>>
  BY DEF Truncate, books
<1>6. BookTypes' BY <1>1, <1>4, <1>5 DEF BookTypes, NoRows
<1>7. ASSUME NEW k \in Keys PROVE KeyOK(k)'
  <2>1. KeyOK(k) BY <1>1 DEF BooksOK
  <2>2. former'[k] \in {pos[k], NoRow} /\ pos'[k] = NoRow BY <1>5 DEF NoRows
  <2>3. Rowed(former'[k]) /\ Rowed(pos'[k]) BY <1>4, <2>1, <2>2 DEF KeyOK
  <2> QED BY <1>5, <2>1, <2>3 DEF KeyOK, Purchased
<1> QED BY <1>2, <1>3, <1>6, <1>7 DEF RebuildInv, BooksOK

(* A task writes the positions row of one key.                             *)
LEMMA PosStep ==
  ASSUME BooksOK, NEW k \in Keys, NEW p \in Row, Rowed(p), NEW f \in Row, Rowed(f),
         pos' = pos \/ pos' = [pos EXCEPT ![k] = p],
         former' = former \/ former' = [former EXCEPT ![k] = f],
         UNCHANGED <<cb, wcp, hist, exits, recovered>>
  PROVE  BooksOK'
<1>1. BookTypes /\ KeyOK(k) BY DEF BooksOK
<1>2. BookTypes' BY <1>1 DEF BookTypes
<1>3. Others(k) BY <1>1 DEF BookTypes, Others
<1>4. KeyOK(k)'
  <2>1. pos'[k] \in {pos[k], p} /\ former'[k] \in {former[k], f}
    BY <1>1 DEF BookTypes
  <2>2. Rowed(pos'[k]) /\ Rowed(former'[k]) BY <1>1, <2>1 DEF KeyOK
  <2> QED BY <1>1, <2>2 DEF KeyOK, Purchased
<1> QED BY <1>2, <1>3, <1>4, OneKeyStep

(* What the backfill writes is a row.                                      *)
LEMMA RebuiltRow ==
  ASSUME BooksOK, NEW k \in Keys
  PROVE  Rebuilt(k) \in Row /\ Rowed(Rebuilt(k))
<1>1. /\ wcp[k] \in WcpRows /\ exits[k] \in Exits /\ hist[k] \in Seq(Trade)
      /\ KeyOK(k)
  BY DEF BooksOK, BookTypes
<1>2. Replayed(k) \in Carried BY <1>1, ReplayedColumns DEF KeyOK, Told
<1> DEFINE r == Replayed(k)
<1>3. /\ r.bought \in Nat /\ r.sold \in Nat /\ r.remaining \in Nat /\ r.pnl \in Int
  BY <1>2 DEF Carried
<1> HIDE DEF r
<1>4. /\ wcp[k].sold \in Nat /\ exits[k].sold \in Nat
      /\ wcp[k].pnl \in Int /\ exits[k].pnl \in Int
      /\ exits[k].sold <= wcp[k].sold
  BY <1>1 DEF WcpRows, Exits, KeyOK, Booked
<1> DEFINE sold == r.sold + Settled(k)
           left == IF wcp[k].resolved # {} THEN Unclosed(r.bought, sold)
                   ELSE r.remaining
<1>5. sold \in Nat BY <1>3, <1>4 DEF Settled
<1>6. left \in Nat BY <1>3, <1>5 DEF Unclosed, Greatest
<1>7. r.pnl + SettledPnl(k) \in Int BY <1>3, <1>4 DEF SettledPnl
<1>8. Rebuilt(k) = [status |-> IF left = 0 THEN "Closed" ELSE "Open",
                    bought |-> r.bought, sold |-> sold, remaining |-> left,
                    pnl |-> r.pnl + SettledPnl(k)]
  BY DEF Rebuilt, r
<1> HIDE DEF sold, left
<1> QED BY <1>3, <1>5, <1>6, <1>7, <1>8 DEF Row, Rowed

LEMMA RebuildKeyStep ==
  ASSUME RebuildInv, NEW k \in Keys, RebuildKey(k) PROVE RebuildInv'
<1>1. BooksOK /\ RestOK /\ TaskOK BY DEF RebuildInv
<1>2. TaskOK' BY <1>1, VisitsTyped DEF RebuildKey
<1>3. UNCHANGED <<world, flow, jobs>>
  BY DEF RebuildKey, OnlyPos, vars, world, flow, jobs
<1>4. RestOK' BY <1>1, <1>3, RestKept
<1>5. NoRow \in Row /\ Rowed(NoRow) BY DEF NoRow, Row, Rowed
<1>6. /\ pos' = pos \/ pos' = [pos EXCEPT ![k] = Rebuilt(k)]
      /\ former' = [former EXCEPT ![k] = NoRow]
      /\ UNCHANGED <<cb, wcp, hist, exits, recovered>>
  BY DEF RebuildKey, OnlyPos, vars, books
<1>7. Rebuilt(k) \in Row /\ Rowed(Rebuilt(k)) BY <1>1, RebuiltRow
<1>8. BooksOK' BY <1>1, <1>5, <1>6, <1>7, PosStep
<1> QED BY <1>2, <1>4, <1>8 DEF RebuildInv

LEMMA StatusFixStep ==
  ASSUME RebuildInv, NEW k \in Keys, StatusFix(k) PROVE RebuildInv'
<1>1. BooksOK /\ RestOK /\ TaskOK BY DEF RebuildInv
<1>2. TaskOK' BY <1>1, VisitsTyped DEF StatusFix
<1>3. UNCHANGED <<world, flow, jobs>>
  BY DEF StatusFix, OnlyPos, vars, world, flow, jobs
<1>4. RestOK' BY <1>1, <1>3, RestKept
<1> DEFINE p == [status |-> "Closed", bought |-> pos[k].bought,
                 sold |-> wcp[k].sold,
                 remaining |-> Unclosed(pos[k].bought, wcp[k].sold),
                 pnl |-> wcp[k].pnl]
<1>5. p \in Row /\ Rowed(p)
  <2>1. pos[k] \in Row /\ wcp[k] \in WcpRows BY <1>1 DEF BooksOK, BookTypes
  <2> QED BY <2>1 DEF Row, WcpRows, Rowed, Unclosed, Greatest
<1>6. /\ pos' = pos \/ pos' = [pos EXCEPT ![k] = p]
      /\ former' = former
      /\ UNCHANGED <<cb, wcp, hist, exits, recovered>>
  BY DEF StatusFix, OnlyPos, vars, books, notes
<1> HIDE DEF p
<1>7. BooksOK' BY <1>1, <1>5, <1>6, PosStep
<1> QED BY <1>2, <1>4, <1>7 DEF RebuildInv

LEMMA BasisFixStep ==
  ASSUME RebuildInv, NEW k \in Keys, BasisFix(k) PROVE RebuildInv'
<1>1. BooksOK /\ RestOK /\ TaskOK BY DEF RebuildInv
<1>2. TaskOK' BY <1>1, VisitsTyped DEF BasisFix
<1>3. UNCHANGED <<world, flow, jobs>>
  BY DEF BasisFix, OnlyPos, vars, world, flow, jobs
<1>4. RestOK' BY <1>1, <1>3, RestKept
<1>5. UNCHANGED <<cb, wcp, hist, exits, former, recovered>>
  BY DEF BasisFix, OnlyPos, vars, books, notes
<1>6. CASE pos[k].status # "none"
  <2> DEFINE p == [pos[k] EXCEPT !.bought = pos[k].sold]
  <2>1. pos[k] \in Row BY <1>1 DEF BooksOK, BookTypes
  <2>2. p \in Row /\ Rowed(p) BY <1>6, <2>1 DEF Row, Rowed
  <2>3. pos' = [pos EXCEPT ![k] = p] BY <1>6 DEF BasisFix, OnlyPos
  <2> HIDE DEF p
  <2>4. BooksOK' BY <1>1, <1>5, <2>2, <2>3, PosStep
  <2> QED BY <1>2, <1>4, <2>4 DEF RebuildInv
<1>7. CASE pos[k].status = "none"
  <2>1. UNCHANGED <<cb, wcp, pos, books, notes>>
    BY <1>7 DEF BasisFix, vars
  <2> QED BY <1>1, <1>2, <1>4, <2>1, BooksRest DEF RebuildInv
<1> QED BY <1>6, <1>7

(* The recovery books what is missing, or nothing is.                      *)
LEMMA RecoverKeyStep ==
  ASSUME RebuildInv, NEW k \in Keys, RecoverKey(k) PROVE RebuildInv'
<1>1. BooksOK /\ BookTypes /\ KeyOK(k) /\ RestOK /\ TaskOK
  BY DEF RebuildInv, BooksOK
<1>2. TaskOK' BY <1>1, VisitsTyped DEF RecoverKey
<1> DEFINE net == Purchased(k) - exits[k].sold
           exit == IF task.label[k] = market.resolution THEN Payout ELSE 0
           g == Gain(k, exit, net)
<1>3. /\ wcp[k] \in WcpRows /\ exits[k] \in Exits /\ hist[k] \in Seq(Trade)
      /\ wcp[k].sold \in Nat /\ exits[k].sold \in Nat
      /\ wcp[k].resolved \subseteq Nat
  BY <1>1 DEF BookTypes, WcpRows, Exits
<1>4. Purchased(k) \in Nat BY <1>3, TotalsInt DEF Purchased
<1>5. Booked(wcp[k], exits[k]) /\ Told(hist[k], exits[k]) BY <1>1 DEF KeyOK
<1>6. UNCHANGED <<cb, pos, exits, former>>
      /\ \/ recovered' = recovered \cup {k}
         \/ recovered' = recovered /\ task.label[k] = None
  BY DEF RecoverKey, books
<1>7. CASE /\ task.label[k] # None /\ net > 0 /\ ~AlreadyBooked(k, net)
           /\ wcp' = [wcp EXCEPT ![k] = WithResolution(@, net, g)]
           /\ hist' = [hist EXCEPT ![k] =
                         [i \in DOMAIN @ |-> [@[i] EXCEPT !.stamped = TRUE]]]
           /\ trades' = [trades EXCEPT !.unstamped = @ \ {k}]
  <2>1. net \in Nat BY <1>3, <1>4, <1>7
  <2>2. exit \in Nat BY ConstantsAssumption
  <2> HIDE DEF exit
  <2>3. g \in Int BY <2>1, <2>2, GainType
  <2>4. net = Purchased(k) - exits[k].sold OBVIOUS
  <2> HIDE DEF net, g
  <2> DEFINE w == WithResolution(wcp[k], net, g)
             h == WithStamps(hist[k])
  <2>5. Grown(wcp[k], w) BY <2>1, <2>3 DEF Grown
  <2>6. w.sold = wcp[k].sold + net BY DEF WithResolution
  <2>7. wcp' = [wcp EXCEPT ![k] = w] BY <1>7
  <2>8. hist' = [hist EXCEPT ![k] = h] BY <1>7 DEF WithStamps
  <2> HIDE DEF w, h
  <2>9. w \in WcpRows /\ Booked(w, exits[k]) BY <1>3, <1>5, <2>5, GrownBooked
  <2>10. h \in Seq(Trade) /\ Told(h, exits[k]) /\ BuySizes(h) = BuySizes(hist[k])
    BY <1>3, <1>5, StampedTold DEF h
  <2>11. Purchased(k) <= w.sold
    BY <1>3, <1>4, <1>5, <2>1, <2>4, <2>6 DEF Booked
  <2>12. wcp'[k] = w /\ hist'[k] = h BY <1>1, <2>7, <2>8 DEF BookTypes
  <2>13. BookTypes'
    BY <1>1, <1>6, <2>7, <2>8, <2>9, <2>10 DEF BookTypes
  <2>14. Others(k) BY <1>1, <1>6, <2>7, <2>8 DEF BookTypes, Others
  <2>15. Total(BuySizes(h)) <= w.sold BY <2>10, <2>11 DEF Purchased
  <2>16. KeyOK(k)'
    BY <1>1, <1>6, <2>9, <2>10, <2>12, <2>15 DEF KeyOK, Purchased
  <2>17. BooksOK' BY <1>1, <2>13, <2>14, <2>16, OneKeyStep
  <2>18. RestOK' BY <1>1, <1>7 DEF RecoverKey, RestOK, world, jobs, Outcome
  <2> QED BY <1>2, <2>17, <2>18 DEF RebuildInv
<1>8. CASE /\ task.label[k] = None \/ net <= 0 \/ AlreadyBooked(k, net)
           /\ UNCHANGED <<wcp, pos, trades, books>>
  <2>1. UNCHANGED <<cb, wcp, pos, hist, exits, former>> BY <1>6, <1>8 DEF books
  <2>2. BookTypes' BY <1>1, <1>6, <2>1 DEF BookTypes
  <2>3. Others(k) BY <1>6, <2>1 DEF Others
  <2>4. k \in recovered' => Purchased(k) <= wcp[k].sold
    <3>1. CASE task.label[k] = None
      BY <1>1, <1>6, <3>1 DEF KeyOK, RecoverKey
    <3>2. CASE net <= 0 BY <1>3, <1>4, <1>5, <3>2 DEF Booked
    <3>3. CASE AlreadyBooked(k, net)
      <4>1. exits[k].sold + net <= wcp[k].sold
        BY <1>5, <3>3 DEF AlreadyBooked, Booked
      <4> QED BY <1>3, <1>4, <4>1
    <3> QED BY <1>8, <3>1, <3>2, <3>3
  <2>5. KeyOK(k)' BY <1>1, <2>1, <2>4 DEF KeyOK, Purchased
  <2>6. BooksOK' BY <1>1, <2>2, <2>3, <2>5, OneKeyStep
  <2>7. RestOK' BY <1>1, <1>8 DEF RecoverKey, RestOK, world, jobs, Outcome
  <2> QED BY <1>2, <2>6, <2>7 DEF RebuildInv
<1> QED BY <1>7, <1>8 DEF RecoverKey

LEMMA ScoringBackfillStep ==
  ASSUME RebuildInv, NEW size \in [Scorable -> Sizes], NEW won \in SUBSET Keys,
         ScoringBackfill(size, won)
  PROVE  RebuildInv'
<1>1. BooksOK /\ BookTypes /\ RestOK /\ TaskOK BY DEF RebuildInv, BooksOK
<1>2. /\ UNCHANGED <<cb, pos, hist, exits, former, recovered, task>>
      /\ UNCHANGED <<world, flow, jobs>>
  BY DEF ScoringBackfill, books, notes
<1>3. TaskOK' /\ RestOK'
  <2>1. TaskOK' BY <1>1, <1>2 DEF TaskOK, Outcome
  <2>2. RestOK' BY <1>1, <1>2, RestKept
  <2> QED BY <2>1, <2>2
<1> DEFINE g(k) == Gain(k, IF k \in won THEN Payout ELSE 0, size[k])
<1>4. wcp' = [k \in Keys |-> IF k \in Scorable
                THEN WithResolution(wcp[k], size[k], g(k)) ELSE wcp[k]]
  BY DEF ScoringBackfill
<1>5. ASSUME NEW k \in Scorable PROVE size[k] \in Nat /\ g(k) \in Int
  <2>1. k \in Keys /\ size[k] \in Nat BY ConstantsAssumption DEF Scorable
  <2>2. (IF k \in won THEN Payout ELSE 0) \in Nat BY ConstantsAssumption
  <2> QED BY <2>1, <2>2, GainType
<1> HIDE DEF g
<1>6. ASSUME NEW k \in Keys
      PROVE  /\ wcp'[k] \in WcpRows /\ Booked(wcp'[k], exits[k])
             /\ wcp[k].sold <= wcp'[k].sold
  <2>1. Grown(wcp[k], wcp'[k]) BY <1>4, <1>5 DEF Grown
  <2>2. Booked(wcp[k], exits[k]) /\ wcp[k] \in WcpRows /\ exits[k] \in Exits
    BY <1>1 DEF BooksOK, KeyOK, BookTypes
  <2> QED BY <2>1, <2>2, GrownBooked
<1>7. wcp' \in [Keys -> WcpRows]
  <2>1. wcp' = [k \in Keys |-> wcp'[k]] BY <1>4
  <2> QED BY <1>6, <2>1
<1>8. BookTypes' BY <1>1, <1>2, <1>7 DEF BookTypes
<1>9. ASSUME NEW k \in Keys PROVE KeyOK(k)'
  <2>1. KeyOK(k) BY <1>1 DEF BooksOK
  <2>2. wcp[k].sold \in Nat /\ wcp'[k].sold \in Nat /\ hist[k] \in Seq(Trade)
    BY <1>1, <1>6 DEF BookTypes, WcpRows
  <2>3. Purchased(k) \in Nat BY <2>2, TotalsInt DEF Purchased
  <2>4. k \in recovered => Purchased(k) <= wcp'[k].sold
    BY <1>6, <2>1, <2>2, <2>3 DEF KeyOK
  <2> QED BY <1>2, <1>6, <2>1, <2>4 DEF KeyOK, Purchased
<1> QED BY <1>3, <1>8, <1>9 DEF RebuildInv, BooksOK

LEMMA TasksStep == ASSUME RebuildInv, Tasks PROVE RebuildInv'
<1>1. CASE BackfillScan \/ RecoveryScan \/ StatusScan \/ BasisScan
  BY <1>1, ScanStep
<1>2. CASE Truncate BY <1>2, TruncateStep
<1>3. CASE \E k \in Keys : \/ RebuildKey(k) \/ RecoverKey(k)
                           \/ StatusFix(k)  \/ BasisFix(k)
  BY <1>3, RebuildKeyStep, RecoverKeyStep, StatusFixStep, BasisFixStep
<1>4. CASE \E size \in [Scorable -> Sizes], won \in SUBSET Keys :
             ScoringBackfill(size, won)
  BY <1>4, ScoringBackfillStep
<1>5. CASE Killed BY <1>5, KilledStep
<1> QED BY <1>1, <1>2, <1>3, <1>4, <1>5, Zenon DEF Tasks

LEMMA RebuildStep == RebuildInv /\ [RebuildNext]_allvars => RebuildInv'
<1> SUFFICES ASSUME RebuildInv, [RebuildNext]_allvars PROVE RebuildInv' OBVIOUS
<1>1. CASE Live BY <1>1, LiveStep
<1>2. CASE Tasks BY <1>2, TasksStep
<1>3. CASE UNCHANGED allvars
  <2>1. BooksOK' BY <1>3, BooksRest DEF RebuildInv, allvars, vars, books, notes
  <2>2. RestOK' BY <1>3, RestKept DEF RebuildInv, allvars, vars, world, flow, jobs
  <2>3. TaskOK' BY <1>3 DEF RebuildInv, allvars, TaskOK, Outcome
  <2> QED BY <2>1, <2>2, <2>3 DEF RebuildInv
<1> QED BY <1>1, <1>2, <1>3 DEF RebuildNext

LEMMA RebuildStays == RebuildSpec => []RebuildInv
BY RebuildStart, RebuildStep, PTL DEF RebuildSpec

(* With the tasks beside the live writers every table keeps its type: no   *)
(* rebuilt, recovered or fixed row holds a negative size, though the       *)
(* rebuild adds and subtracts what rows, trades and exits say.             *)
THEOREM RebuildTypes == RebuildSpec => []TypeOK
<1>1. RebuildInv => TypeOK
  BY DEF RebuildInv, RestOK, BooksOK, BookTypes, TypeOK
<1> QED BY <1>1, RebuildStays, PTL

(* Once the late-BUY recovery has visited a key of known outcome, its      *)
(* closed-position rows cover every purchase left in trades until the      *)
(* next BUY, whatever SELL, settlement, archiving, replay or backfill      *)
(* comes in between, and for any sizes.                                    *)
THEOREM NothingUnbookedHolds == RebuildSpec => []NothingUnbooked
<1>1. RebuildInv => NothingUnbooked
  <2> SUFFICES ASSUME RebuildInv, NEW k \in recovered
               PROVE  wcp[k].sold >= Purchased(k)
    BY DEF NothingUnbooked
  <2>1. k \in Keys /\ KeyOK(k) /\ wcp[k].sold \in Nat /\ hist[k] \in Seq(Trade)
    BY DEF RebuildInv, BooksOK, BookTypes, WcpRows
  <2>2. Purchased(k) \in Nat BY <2>1, TotalsInt DEF Purchased
  <2> QED BY <2>1, <2>2 DEF KeyOK
<1> QED BY <1>1, RebuildStays, PTL

(* Only the backfill's visit puts a row where the backfill left none.      *)
LEMMA RebuildsIs ==
  ASSUME RebuildInv, [RebuildNext]_allvars, NEW k \in Keys, Rebuilds(k)
  PROVE  k \in WithBuys /\ pos'[k] = Rebuilt(k)
<1>1. /\ task.name = "replay" /\ k \in task.todo /\ pos[k] # pos'[k]
      /\ k \notin task'.todo
  BY DEF Rebuilds
<1>2. CASE Live
  <2>1. task' = task
    BY <1>2 DEF Live, LiveBuy, LiveSell, LiveProcess, Archive
  <2> QED BY <1>1, <2>1
<1>3. CASE Tasks
  <2>1. CASE BackfillScan \/ RecoveryScan \/ StatusScan \/ BasisScan \/ Truncate
    BY <1>1, <2>1
    DEF BackfillScan, RecoveryScan, StatusScan, BasisScan, Truncate, Starts
  <2>2. CASE Killed BY <1>1, <2>2 DEF Killed, vars
  <2>3. CASE \E size \in [Scorable -> Sizes], won \in SUBSET Keys :
               ScoringBackfill(size, won)
    BY <1>1, <2>3 DEF ScoringBackfill
  <2>4. ASSUME NEW j \in Keys, RecoverKey(j) \/ StatusFix(j) \/ BasisFix(j)
        PROVE  FALSE
    BY <1>1, <2>4 DEF RecoverKey, StatusFix, BasisFix, Visits
  <2>5. ASSUME NEW j \in Keys, RebuildKey(j)
        PROVE  k \in WithBuys /\ pos'[k] = Rebuilt(k)
    <3>1. Visits("replay", j) BY <2>5 DEF RebuildKey
    <3>2. j = k
      <4>1. SUFFICES ASSUME j # k PROVE FALSE OBVIOUS
      <4>2. task' = [task EXCEPT !.todo = @ \ {j}]
        BY <1>1, <3>1, <4>1 DEF Visits
      <4>3. task'.todo = task.todo \ {j}
        BY <4>2 DEF RebuildInv, TaskOK
      <4> QED BY <1>1, <4>1, <4>3
    <3>3. k \in WithBuys /\ pos' = [pos EXCEPT ![k] = Rebuilt(k)]
      BY <1>1, <2>5, <3>2 DEF RebuildKey, OnlyPos, vars
    <3>4. pos \in [Keys -> Row] BY DEF RebuildInv, BooksOK, BookTypes
    <3> QED BY <3>3, <3>4
  <2> QED BY <1>3, <2>1, <2>2, <2>3, <2>4, <2>5, Zenon DEF Tasks
<1>4. CASE UNCHANGED allvars BY <1>1, <1>4 DEF allvars
<1> QED BY <1>2, <1>3, <1>4 DEF RebuildNext

(* The fields of a rebuilt row.                                            *)
LEMMA RebuiltFields ==
  ASSUME RebuildInv, NEW k \in Keys
  PROVE  /\ KeyOK(k)
         /\ wcp[k] \in WcpRows /\ exits[k] \in Exits /\ former[k] \in Row
         /\ hist[k] \in Seq(Trade) /\ \A i \in DOMAIN hist[k] : Plain(hist[k][i])
         /\ Purchased(k) \in Nat
         /\ Rebuilt(k) \in Row
         /\ Rebuilt(k).bought = Purchased(k)
         /\ Rebuilt(k).sold =
              Total(SellSizes(hist[k])) + wcp[k].sold - exits[k].sold
         /\ (\A t \in Of(k, "SELL") : t.closed > 0) =>
              Rebuilt(k).pnl = Total(Gains(hist[k])) + wcp[k].pnl - exits[k].pnl
<1>1. BooksOK /\ BookTypes /\ KeyOK(k) BY DEF RebuildInv, BooksOK
<1>2. /\ wcp[k] \in WcpRows /\ exits[k] \in Exits /\ former[k] \in Row
      /\ hist[k] \in Seq(Trade)
  BY <1>1 DEF BookTypes
<1>3. \A i \in DOMAIN hist[k] : Plain(hist[k][i]) BY <1>1 DEF KeyOK, Told
<1>4. /\ Replayed(k) \in Carried
      /\ Replayed(k).bought = Purchased(k)
      /\ Replayed(k).sold = Total(SellSizes(hist[k]))
      /\ (\A t \in Of(k, "SELL") : t.closed > 0) =>
           Replayed(k).pnl = Total(Gains(hist[k]))
  BY <1>2, <1>3, ReplayedColumns
<1>5. Rebuilt(k) \in Row BY <1>1, RebuiltRow
<1>6. /\ Rebuilt(k).bought = Replayed(k).bought
      /\ Rebuilt(k).sold = Replayed(k).sold + (wcp[k].sold - exits[k].sold)
      /\ Rebuilt(k).pnl = Replayed(k).pnl + (wcp[k].pnl - exits[k].pnl)
  BY DEF Rebuilt, Settled, SettledPnl
<1>7. /\ Replayed(k).sold \in Nat /\ Replayed(k).pnl \in Int
      /\ wcp[k].sold \in Nat /\ exits[k].sold \in Nat
      /\ wcp[k].pnl \in Int /\ exits[k].pnl \in Int
  BY <1>2, <1>4 DEF Carried, WcpRows, Exits
<1>8. Purchased(k) \in Nat BY <1>2, TotalsInt DEF Purchased
<1>9. Rebuilt(k).sold = Total(SellSizes(hist[k])) + wcp[k].sold - exits[k].sold
  BY <1>4, <1>6, <1>7
<1>10. (\A t \in Of(k, "SELL") : t.closed > 0) =>
         Rebuilt(k).pnl = Total(Gains(hist[k])) + wcp[k].pnl - exits[k].pnl
  BY <1>4, <1>6, <1>7
<1> QED BY <1>1, <1>2, <1>3, <1>4, <1>5, <1>6, <1>8, <1>9, <1>10

(* A row the backfill writes has the P&L of the key's closed-position      *)
(* rows whenever the trades are all there and every SELL has left such a   *)
(* row: the fold over the trades finds what the handlers booked one by     *)
(* one, for histories of any length and in any order of delivery.          *)
THEOREM RebuiltReconcilesHolds == RebuildSpec => RebuiltReconciles
<1>1. RebuildInv /\ [RebuildNext]_allvars =>
        \A k \in Keys :
          /\ Rebuilds(k) /\ AllPresent(k)
          /\ \A t \in Of(k, "SELL") : t.closed > 0
          => pos'[k].pnl = wcp[k].pnl
  <2> SUFFICES ASSUME RebuildInv, [RebuildNext]_allvars, NEW k \in Keys,
                      Rebuilds(k), AllPresent(k),
                      \A t \in Of(k, "SELL") : t.closed > 0
               PROVE  pos'[k].pnl = wcp[k].pnl
    OBVIOUS
  <2>1. pos'[k] = Rebuilt(k) BY RebuildsIs
  <2>2. /\ KeyOK(k) /\ wcp[k] \in WcpRows /\ exits[k] \in Exits
        /\ Rebuilt(k).pnl = Total(Gains(hist[k])) + wcp[k].pnl - exits[k].pnl
    BY RebuiltFields
  <2>3. Total(Gains(hist[k])) = exits[k].pnl BY <2>2 DEF KeyOK, Told, AllPresent
  <2>4. wcp[k].pnl \in Int /\ exits[k].pnl \in Int BY <2>2 DEF WcpRows, Exits
  <2> QED BY <2>1, <2>2, <2>3, <2>4
<1> QED BY <1>1, RebuildStays, PTL DEF RebuildSpec, RebuiltReconciles

(* Two rows that differ at most in their P&L.                              *)
LEMMA SameButPnl ==
  ASSUME NEW p \in Row, NEW q \in Row,
         p.status = q.status, p.bought = q.bought, p.sold = q.sold,
         p.remaining = q.remaining
  PROVE  [p EXCEPT !.pnl = 0] = [q EXCEPT !.pnl = 0]
BY DEF Row

(* A booked SELL's shares are its WCP row's.                               *)
LEMMA BookedSells ==
  ASSUME NEW k \in Keys, hist[k] \in Seq(Trade),
         \A i \in DOMAIN hist[k] : Plain(hist[k][i]), AllBooked(k)
  PROVE  SellSizes(hist[k]) = Closings(hist[k])
<1> DEFINE h == hist[k]
<1>1. ASSUME NEW i \in DOMAIN h
      PROVE  (IF h[i].side = "SELL" THEN h[i].size ELSE 0) = h[i].closed
  <2>1. h[i] \in Trade /\ h[i] \in ToSet(h) BY DEF ToSet
  <2>2. CASE h[i].side = "SELL" BY <2>1, <2>2 DEF AllBooked, Of
  <2>3. CASE h[i].side # "SELL" BY <2>1, <2>3 DEF Plain, Trade
  <2> QED BY <2>2, <2>3
<1> HIDE DEF h
<1>2. SellSizes(h) = Closings(h) BY <1>1 DEF SellSizes, Closings
<1> QED BY <1>2 DEF h

LEMMA SomethingPurchased ==
  ASSUME NEW k \in WithBuys, hist[k] \in Seq(Trade) PROVE Purchased(k) # 0
<1> DEFINE h == hist[k]
<1>1. PICK i \in DOMAIN h : h[i].side = "BUY" BY DEF WithBuys, Of, ToSet
<1>2. Len(h) \in Nat /\ DOMAIN h = 1..Len(h) /\ BuySizes(h) \in [1..Len(h) -> Nat]
  BY Columns
<1>3. Total(BuySizes(h)) \in Nat /\ BuySizes(h)[i] <= Total(BuySizes(h))
  BY <1>1, <1>2, TotalNat
<1>4. h[i] \in Trade OBVIOUS
<1> HIDE DEF h
<1>5. BuySizes(h)[i] = h[i].size BY <1>1 DEF BuySizes
<1>6. h[i].size \in Nat \ {0} BY <1>4 DEF Trade
<1>7. Total(BuySizes(h)) # 0 BY <1>3, <1>5, <1>6
<1> QED BY <1>7 DEF Purchased, h

(* Where the trades are all there, in order and fully booked, the          *)
(* backfill writes back the very shares and status it deleted, for         *)
(* histories of any length; so nothing a trade, a settlement or retention  *)
(* did between truncation and visit is lost.                               *)
THEOREM RebuiltAsBookedHolds == RebuildSpec => RebuiltAsBooked
<1>1. RebuildInv /\ [RebuildNext]_allvars =>
        \A k \in Keys :
          Rebuilds(k) /\ AllBooked(k) /\ AllPresent(k) /\ InOrder(k)
            /\ TrueRow(k)
          => [pos'[k] EXCEPT !.pnl = 0] = [former[k] EXCEPT !.pnl = 0]
  <2> SUFFICES ASSUME RebuildInv, [RebuildNext]_allvars, NEW k \in Keys,
                      Rebuilds(k), AllBooked(k), AllPresent(k), InOrder(k),
                      TrueRow(k)
               PROVE  [pos'[k] EXCEPT !.pnl = 0] = [former[k] EXCEPT !.pnl = 0]
    OBVIOUS
  <2> DEFINE p == Rebuilt(k)
             f == former[k]
  <2>1. k \in WithBuys /\ pos'[k] = p BY RebuildsIs
  <2>2. /\ KeyOK(k) /\ wcp[k] \in WcpRows /\ exits[k] \in Exits
        /\ hist[k] \in Seq(Trade) /\ \A i \in DOMAIN hist[k] : Plain(hist[k][i])
        /\ Purchased(k) \in Nat
        /\ p \in Row /\ f \in Row /\ p.bought = Purchased(k)
        /\ p.sold = Total(SellSizes(hist[k])) + wcp[k].sold - exits[k].sold
    BY RebuiltFields
  <2>3. Total(SellSizes(hist[k])) = exits[k].sold /\ Purchased(k) = bought[k]
    BY <2>2, BookedSells DEF AllPresent
  <2>4. wcp[k].sold \in Nat /\ exits[k].sold \in Nat
    BY <2>2 DEF WcpRows, Exits
  <2>5. p.bought = f.bought /\ p.sold = f.sold
    BY <2>2, <2>3, <2>4 DEF TrueRow
  <2>6. f.remaining = Purchased(k) - wcp[k].sold /\ f.remaining \in Nat
    <3>1. f.remaining \in Nat /\ f.sold \in Nat /\ f.bought \in Nat
      BY <2>2 DEF Row
    <3> QED BY <2>3, <3>1 DEF TrueRow
  <2>7. p.remaining = f.remaining
    <3>1. CASE wcp[k].resolved # {}
      <4>1. p.remaining = Unclosed(Purchased(k), p.sold)
        BY <3>1, <2>2, ReplayedColumns DEF Rebuilt
      <4>2. p.sold = wcp[k].sold BY <2>2, <2>3, <2>4
      <4> QED BY <2>2, <2>4, <2>6, <4>1, <4>2 DEF Unclosed, Greatest
    <3>2. CASE wcp[k].resolved = {}
      <4>1. p.remaining = Replayed(k).remaining BY <3>2 DEF Rebuilt
      <4>2. Replayed(k).remaining = Purchased(k) - Total(SellSizes(hist[k]))
        BY <2>2, ReplayedColumns
      <4>3. wcp[k].sold = exits[k].sold BY <2>2, <3>2 DEF KeyOK, Booked
      <4> QED BY <2>3, <2>6, <4>1, <4>2, <4>3
    <3> QED BY <3>1, <3>2
  <2>8. p.status = f.status
    <3>1. p.status = IF p.remaining = 0 THEN "Closed" ELSE "Open"
      BY DEF Rebuilt
    <3>2. Purchased(k) # 0 BY <2>1, <2>2, SomethingPurchased
    <3>3. f.status # "none"
      BY <2>2, <2>5, <3>2 DEF KeyOK, Rowed, NoRow
    <3>4. f.status \in {"none", "Open", "Closed"} BY <2>2 DEF Row
    <3>5. f.status = "Open" <=> f.remaining > 0 BY DEF TrueRow
    <3> HIDE DEF p, f
    <3> QED BY <2>6, <2>7, <3>1, <3>3, <3>4, <3>5
  <2> HIDE DEF p, f
  <2>9. [p EXCEPT !.pnl = 0] = [f EXCEPT !.pnl = 0]
    BY <2>2, <2>5, <2>7, <2>8, SameButPnl
  <2> QED BY <2>1, <2>9 DEF f
<1> QED BY <1>1, RebuildStays, PTL DEF RebuildSpec, RebuiltAsBooked
=============================================================================
