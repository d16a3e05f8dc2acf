------------------------------ MODULE AppSteps ------------------------------
(***************************************************************************)
(* Every action of App preserves the inductive invariant: one lemma per    *)
(* action, with one step per conjunct of IInv.                             *)
(***************************************************************************)
EXTENDS LedgerProofs

LEMMA BeginBlockStep == ASSUME IInv, BeginBlock PROVE IInv'
<1> USE DEF stores, blockVars
<1>1. /\ UNCHANGED <<chain, stores, trunk, mtx, collected, lastProposer, gas, sigMap,
                     lastMinGasPrice, blockInfo, crashes>>
      /\ pc = "idle" /\ pc' = "deliver" /\ world.height < Len(chain)
      /\ block' = [number |-> world.height + 1, miner |-> current.miner]
      /\ lastVoters' = lastVoters \cup current.votes
      /\ slashValidators' = slashValidators \cup current.evidence
      /\ reorderSeed' = current.seed /\ pending' = current.txs
  BY Zenon DEF BeginBlock, current
<1>2. /\ Executed' = Executed /\ ExecutedGas' = ExecutedGas /\ current' = current
      /\ Settled' = Settled /\ WorldInv'
  BY <1>1, Frame DEF IInv
<1>3. /\ current.miner \in Validators /\ current.txs \subseteq Txs /\ current.seed \in Seeds
      /\ current.votes \subseteq Validators /\ current.evidence \subseteq Validators
      /\ world.height + 1 \in 0..MaxHeight
  BY <1>1, SettledFacts DEF IInv
<1>4. TypeOK'
  BY <1>1, <1>3, SMTT(30) DEF IInv, TypeOK
<1>5. ControlInv'
  BY <1>1, <1>2 DEF IInv, ControlInv, AtBlock, Locked
<1>6. DeliveryInv'
  BY <1>1, <1>2, SMTT(30) DEF IInv, DeliveryInv, AtBlock
<1>7. TrunkInv'
  BY <1>1, <1>2, SMTT(30) DEF IInv, TrunkInv, AtBlock
<1>8. StoreInv'
  BY <1>1, <1>2 DEF IInv, StoreInv, HistoryIsExecution, PriceIsCommitted
<1>9. QED
  BY <1>2, <1>4, <1>5, <1>6, <1>7, <1>8 DEF IInv

LEMMA DeliverTxStep == ASSUME IInv, NEW tx \in Txs, DeliverTx(tx) PROVE IInv'
<1> USE DEF stores, blockVars
<1>1. /\ UNCHANGED <<chain, stores, trunk, pc, mtx, blockVars, gas, lastMinGasPrice, blockInfo, crashes>>
      /\ pc = "deliver" /\ tx \in pending
      /\ pending' = pending \ {tx} /\ collected' = collected \cup ({tx} \cap Decodes)
      /\ sigMap' = sigMap \cup ({tx} \cap Decodes)
  BY Zenon DEF DeliverTx
<1>2. /\ Executed' = Executed /\ ExecutedGas' = ExecutedGas /\ current' = current
      /\ Settled' = Settled /\ WorldInv'
  BY <1>1, Frame DEF IInv
<1>4. TypeOK'
  BY <1>1 DEF IInv, TypeOK
<1>5. ControlInv'
  BY <1>1, <1>2 DEF IInv, ControlInv, AtBlock, Locked
<1>6. DeliveryInv'
  <2>1. /\ pending' \subseteq current.txs
        /\ collected' = (current.txs \ pending') \cap Decodes
    BY <1>1 DEF IInv, DeliveryInv
  <2>2. QED
    BY <1>1, <1>2, <2>1 DEF IInv, DeliveryInv, AtBlock
<1>7. TrunkInv'
  BY <1>1, <1>2, SMTT(30) DEF IInv, TrunkInv, AtBlock
<1>8. StoreInv'
  BY <1>1, <1>2 DEF IInv, StoreInv, HistoryIsExecution, PriceIsCommitted
<1>9. QED
  BY <1>2, <1>4, <1>5, <1>6, <1>7, <1>8 DEF IInv
LEMMA EndBlockStep == ASSUME IInv, EndBlock PROVE IInv'
<1> USE DEF stores, blockVars
<1>1. /\ UNCHANGED <<chain, stores, trunk, mtx, pending, collected, blockVars, gas, sigMap,
                     lastMinGasPrice, blockInfo, crashes>>
      /\ pc = "deliver" /\ pending = {} /\ pc' = "ended"
  BY Zenon DEF EndBlock
<1>2. /\ Executed' = Executed /\ ExecutedGas' = ExecutedGas /\ current' = current
      /\ Settled' = Settled /\ WorldInv'
  BY <1>1, Frame DEF IInv
<1>4. TypeOK'
  BY <1>1 DEF IInv, TypeOK
<1>5. ControlInv'
  BY <1>1, <1>2 DEF IInv, ControlInv, AtBlock, Locked
<1>6. DeliveryInv'
  BY <1>1, <1>2, SMTT(30) DEF IInv, DeliveryInv, AtBlock
<1>7. TrunkInv'
  BY <1>1, <1>2, SMTT(30) DEF IInv, TrunkInv, AtBlock
<1>8. StoreInv'
  BY <1>1, <1>2 DEF IInv, StoreInv, HistoryIsExecution, PriceIsCommitted
<1>9. QED
  BY <1>2, <1>4, <1>5, <1>6, <1>7, <1>8 DEF IInv

LEMMA CommitLockStep == ASSUME IInv, CommitLock PROVE IInv'
<1> USE DEF stores, blockVars
<1>1. /\ UNCHANGED <<chain, stores, trunk, pending, collected, blockVars, gas, sigMap,
                     lastMinGasPrice, blockInfo, crashes>>
      /\ pc = "ended" /\ mtx = "free" /\ mtx' = "commit" /\ pc' = "update"
  BY Zenon DEF CommitLock
<1>2. /\ Executed' = Executed /\ ExecutedGas' = ExecutedGas /\ current' = current
      /\ Settled' = Settled /\ WorldInv'
  BY <1>1, Frame DEF IInv
<1>4. TypeOK'
  BY <1>1 DEF IInv, TypeOK
<1>5. ControlInv'
  BY <1>1, <1>2 DEF IInv, ControlInv, AtBlock, Locked
<1>6. DeliveryInv'
  BY <1>1, <1>2, SMTT(30) DEF IInv, DeliveryInv, AtBlock
<1>7. TrunkInv'
  BY <1>1, <1>2, SMTT(30) DEF IInv, TrunkInv, AtBlock
<1>8. StoreInv'
  BY <1>1, <1>2 DEF IInv, StoreInv, HistoryIsExecution, PriceIsCommitted
<1>9. QED
  BY <1>2, <1>4, <1>5, <1>6, <1>7, <1>8 DEF IInv

LEMMA CommitPrepareStep == ASSUME IInv, CommitPrepare PROVE IInv'
<1> USE DEF stores, blockVars
<1>1. /\ UNCHANGED <<chain, stores, mtx, pending, blockVars, gas, sigMap,
                     lastMinGasPrice, blockInfo, crashes>>
      /\ pc = "prepare" /\ trunk' = Prepare(trunk, collected, reorderSeed)
      /\ collected' = {} /\ pc' = "refresh"
  BY Zenon DEF CommitPrepare
<1>2. /\ Executed' = Executed /\ ExecutedGas' = ExecutedGas /\ current' = current
      /\ Settled' = Settled /\ WorldInv'
  BY <1>1, Frame DEF IInv
<1>3. trunk' = Prepared /\ Prepared \in LedgerType
  BY <1>1, CommittedFacts, Zenon DEF IInv, ControlInv, DeliveryInv, TrunkInv, AtBlock, Prepared
<1>4. TypeOK'
  BY <1>1, <1>3, SMTT(30) DEF IInv, TypeOK
<1>5. ControlInv'
  BY <1>1, <1>2 DEF IInv, ControlInv, AtBlock, Locked
<1>6. DeliveryInv'
  BY <1>1, <1>2, SMTT(30) DEF IInv, DeliveryInv, AtBlock
<1>7. TrunkInv'
  <2>1. trunk' = Prepare(Settled', current'.txs \cap Decodes, current'.seed)
    BY <1>2, <1>3, Zenon DEF Prepared
  <2>2. QED
    BY <1>1, <1>2, <2>1 DEF IInv, TrunkInv, AtBlock, ControlInv, Locked
<1>8. StoreInv'
  BY <1>1, <1>2 DEF IInv, StoreInv, HistoryIsExecution, PriceIsCommitted
<1>9. QED
  BY <1>2, <1>4, <1>5, <1>6, <1>7, <1>8 DEF IInv

LEMMA CommitReturnStep == ASSUME IInv, CommitReturn PROVE IInv'
<1> USE DEF stores, blockVars
<1>1. /\ UNCHANGED <<chain, stores, trunk, pending, collected, blockVars, gas, sigMap,
                     lastMinGasPrice, crashes>>
      /\ pc = "spawn" /\ blockInfo' = block.number /\ mtx' = "execute" /\ pc' = "idle"
  BY Zenon DEF CommitReturn
<1>2. /\ Executed' = Executed /\ ExecutedGas' = ExecutedGas /\ current' = current
      /\ Settled' = Settled /\ WorldInv'
  BY <1>1, Frame, SMTT(30) DEF IInv
<1>3. block.number = world.height /\ world.height > 0 /\ world.height \in 0..MaxHeight
  BY <1>1 DEF IInv, ControlInv, TypeOK, LedgerType
<1>4. TypeOK'
  BY <1>1, <1>3, SMTT(30) DEF IInv, TypeOK
<1>5. ControlInv'
  BY <1>1, <1>2 DEF IInv, ControlInv, AtBlock, Locked
<1>6. DeliveryInv'
  BY <1>1, <1>2, SMTT(30) DEF IInv, DeliveryInv, AtBlock
<1>7. TrunkInv'
  BY <1>1, <1>2, <1>3, SMTT(30) DEF IInv, TrunkInv, AtBlock
<1>8. StoreInv'
  BY <1>1, <1>2, <1>3 DEF IInv, StoreInv, HistoryIsExecution, PriceIsCommitted
<1>9. QED
  BY <1>2, <1>4, <1>5, <1>6, <1>7, <1>8 DEF IInv

LEMMA postCommitExecuteStep == ASSUME IInv, postCommitExecute PROVE IInv'
<1> USE DEF stores, blockVars
<1>1. /\ UNCHANGED <<chain, stores, pc, pending, collected, blockVars, sigMap,
                     lastMinGasPrice, blockInfo, crashes>>
      /\ mtx = "execute" /\ mtx' = "unlock"
      /\ trunk' = Execute(trunk) /\ gas' = GasUsedInfo(trunk)
  BY Zenon DEF postCommitExecute
<1>2. /\ Executed' = Executed /\ ExecutedGas' = ExecutedGas /\ current' = current
      /\ Settled' = Settled /\ WorldInv'
  BY <1>1, Frame DEF IInv
<1>3. trunk' = Executed /\ gas' = ExecutedGas /\ Executed \in LedgerType /\ ExecutedGas \in GasType
  <2>1. trunk = world /\ world.height > 0
    BY <1>1 DEF IInv, TrunkInv
  <2>2. world.height # 0
    BY <2>1 DEF IInv, TypeOK, LedgerType
  <2>3. trunk' = Executed /\ gas' = ExecutedGas
    BY <1>1, <2>1, <2>2, Zenon DEF Executed, ExecutedGas
  <2>4. QED
    BY <2>3, ExecutedFacts, Zenon DEF IInv, TypeOK
<1>4. TypeOK'
  BY <1>1, <1>3, SMTT(30) DEF IInv, TypeOK
<1>5. ControlInv'
  BY <1>1, <1>2 DEF IInv, ControlInv, AtBlock, Locked
<1>6. DeliveryInv'
  BY <1>1, <1>2, SMTT(30) DEF IInv, DeliveryInv, AtBlock
<1>7. TrunkInv'
  BY <1>1, <1>2, <1>3, SMTT(30) DEF IInv, TrunkInv, AtBlock, ControlInv, Locked
<1>8. StoreInv'
  BY <1>1, <1>2, ZenonT(30) DEF IInv, StoreInv, HistoryIsExecution, PriceIsCommitted
<1>9. QED
  BY <1>2, <1>4, <1>5, <1>6, <1>7, <1>8 DEF IInv

LEMMA postCommitUnlockStep == ASSUME IInv, postCommitUnlock PROVE IInv'
<1> USE DEF stores, blockVars
<1>1. /\ UNCHANGED <<chain, stores, trunk, pc, pending, collected, blockVars, gas, sigMap,
                     lastMinGasPrice, blockInfo, crashes>>
      /\ mtx = "unlock" /\ mtx' = "free"
  BY Zenon DEF postCommitUnlock
<1>2. /\ Executed' = Executed /\ ExecutedGas' = ExecutedGas /\ current' = current
      /\ Settled' = Settled /\ WorldInv'
  BY <1>1, Frame DEF IInv
<1>4. TypeOK'
  BY <1>1 DEF IInv, TypeOK
<1>5. ControlInv'
  BY <1>1, <1>2 DEF IInv, ControlInv, AtBlock, Locked
<1>6. DeliveryInv'
  BY <1>1, <1>2, SMTT(30) DEF IInv, DeliveryInv, AtBlock
<1>7. TrunkInv'
  BY <1>1, <1>2, SMTT(30) DEF IInv, TrunkInv, AtBlock
<1>8. StoreInv'
  BY <1>1, <1>2 DEF IInv, StoreInv, HistoryIsExecution, PriceIsCommitted
<1>9. QED
  BY <1>2, <1>4, <1>5, <1>6, <1>7, <1>8 DEF IInv
\* The process dies, by a crash or a panic.
LEMMA DieStep == ASSUME IInv, Die, crashes' \in 0..MaxCrashes PROVE IInv'
<1> USE DEF stores
<1>1. /\ UNCHANGED <<chain, world, history, sigStore>>
      /\ pc' = "down" /\ trunk' = world /\ lastMinGasPrice' = 0 /\ mtx' = "free"
      /\ pending' = {} /\ collected' = {} /\ block' = NoBlock /\ lastProposer' = NoValidator
      /\ lastVoters' = {} /\ slashValidators' = {} /\ reorderSeed' = NoSeed
      /\ gas' = NoGas /\ sigMap' = {} /\ blockInfo' = 0
  BY Zenon DEF Die
<1>2. /\ Executed' = Executed /\ ExecutedGas' = ExecutedGas /\ current' = current
      /\ Settled' = Settled /\ WorldInv'
  BY <1>1, Frame DEF IInv
<1>3. /\ NoGas \in GasType /\ NoSeed \in Seeds /\ 0 \in Prices /\ 0 \in 0..MaxHeight
      /\ NoBlock \in [number : 0..MaxHeight, miner : Validators \cup {NoValidator}]
  BY NoGasType, LedgerAssumption DEF NoSeed, NoBlock
<1>4. TypeOK'
  BY <1>1, <1>3, SMTT(30) DEF IInv, TypeOK
<1>5. ControlInv'
  BY <1>1, <1>2 DEF ControlInv, AtBlock, Locked
<1>6. DeliveryInv'
  BY <1>1, <1>2 DEF DeliveryInv, AtBlock
<1>7. TrunkInv'
  BY <1>1, <1>2 DEF TrunkInv, AtBlock
<1>8. StoreInv'
  <2>1. \A h \in DOMAIN history : h > 0 /\ h < world.height
    <3>1. world.height \in Int /\ DOMAIN history \subseteq Int
      BY SMTT(30) DEF IInv, TypeOK, LedgerType
    <3>2. QED
      BY <3>1 DEF IInv, StoreInv
  <2>2. QED
    BY <1>1, <1>2, <2>1 DEF IInv, StoreInv, HistoryIsExecution, PriceIsCommitted
<1>9. QED
  BY <1>2, <1>4, <1>5, <1>6, <1>7, <1>8 DEF IInv

LEMMA CrashStep == ASSUME IInv, Crash PROVE IInv'
<1>1. crashes' \in 0..MaxCrashes
  BY AppAssumption DEF Crash, IInv, TypeOK
<1>2. QED
  BY <1>1, DieStep DEF Crash

LEMMA CommitUpdateStep == ASSUME IInv, CommitUpdate PROVE IInv'
<1> USE DEF stores
<1>0. pc = "update" /\ crashes' = crashes
  BY DEF CommitUpdate
<1>1. /\ world.height < Len(chain) /\ block.number = world.height + 1 /\ block.miner = current.miner
      /\ lastProposer = world.miner /\ lastVoters = current.votes /\ slashValidators = current.evidence
      /\ trunk = Executed /\ gas = ExecutedGas
  BY <1>0, SMTT(30) DEF IInv, ControlInv, DeliveryInv, TrunkInv, AtBlock, Locked
<1>2. Settled \in LedgerType /\ FundsSuffice(trunk, gas)
  BY <1>1, SettledFacts DEF IInv
<1>3. /\ trunk' = Settled /\ slashValidators' = {} /\ pc' = "prepare"
      /\ UNCHANGED <<chain, stores, mtx, pending, collected, block, lastProposer, lastVoters,
                     reorderSeed, gas, sigMap, lastMinGasPrice, blockInfo>>
  BY <1>1, <1>2, Zenon DEF CommitUpdate, Settled
<1>4. /\ Executed' = Executed /\ ExecutedGas' = ExecutedGas /\ current' = current
      /\ Settled' = Settled /\ WorldInv'
  BY <1>3, Frame DEF IInv
<1>5. TypeOK'
  BY <1>0, <1>2, <1>3 DEF IInv, TypeOK
<1>6. ControlInv'
  BY <1>0, <1>3, <1>4 DEF IInv, ControlInv, AtBlock, Locked
<1>7. DeliveryInv'
  BY <1>0, <1>3, <1>4, SMTT(30) DEF IInv, DeliveryInv, AtBlock
<1>8. TrunkInv'
  BY <1>0, <1>3, <1>4 DEF IInv, TrunkInv, AtBlock, ControlInv, Locked
<1>9. StoreInv'
  BY <1>0, <1>3, <1>4 DEF IInv, StoreInv, HistoryIsExecution, PriceIsCommitted
<1>10. QED
  BY <1>4, <1>5, <1>6, <1>7, <1>8, <1>9 DEF IInv
\* Another block of the chain does not change the block at hand.
LEMMA DecideFrame ==
    ASSUME IInv, NEW b \in Blocks, Decide(b)
    PROVE  /\ chain' \in Seq(Blocks) /\ Len(chain') = Len(chain) + 1 /\ Len(chain') <= MaxHeight
           /\ Executed' = Executed /\ ExecutedGas' = ExecutedGas
           /\ world.height < Len(chain) => current' = current /\ Settled' = Settled
           /\ WorldInv'
<1>1. /\ chain \in Seq(Blocks) /\ Len(chain) < MaxHeight /\ MaxHeight \in Nat
      /\ chain' = Append(chain, b) /\ world' = world /\ world.height \in 0..MaxHeight
  BY LedgerAssumption, ZenonT(30) DEF IInv, TypeOK, LedgerType, Decide, stores
<1>2. chain' \in Seq(Blocks) /\ Len(chain') = Len(chain) + 1 /\ Len(chain') <= MaxHeight
  BY <1>1
<1>3. Executed' = Executed /\ ExecutedGas' = ExecutedGas
  BY <1>1, Zenon DEF Executed, ExecutedGas
<1>4. ASSUME world.height < Len(chain) PROVE current' = current /\ Settled' = Settled
  <2>1. current' = current
    BY <1>1, <1>4 DEF current
  <2>2. QED
    BY <1>1, <1>3, <2>1, Zenon DEF Settled
<1>5. WorldInv'
  <2>1. world.height <= Len(chain')
    BY <1>1, <1>2 DEF IInv, WorldInv
  <2>2. QED
    BY <1>1, <2>1, Zenon DEF IInv, WorldInv
<1>6. QED
  BY <1>2, <1>3, <1>4, <1>5, SMTT(30)

LEMMA DecideStep == ASSUME IInv, NEW b \in Blocks, Decide(b) PROVE IInv'
<1> USE DEF stores, blockVars
<1>1. /\ UNCHANGED <<stores, trunk, pc, mtx, pending, collected, blockVars, gas, sigMap,
                     lastMinGasPrice, blockInfo, crashes>>
  BY Zenon DEF Decide
<1>2. /\ chain' \in Seq(Blocks) /\ Len(chain') = Len(chain) + 1 /\ Len(chain') <= MaxHeight
      /\ Executed' = Executed /\ ExecutedGas' = ExecutedGas
      /\ world.height < Len(chain) => current' = current /\ Settled' = Settled
      /\ WorldInv'
  BY DecideFrame
<1>3. pc \in AtBlock => current' = current /\ Settled' = Settled
  BY <1>2 DEF IInv, ControlInv
<1>4. TypeOK'
  BY <1>1, <1>2 DEF IInv, TypeOK
<1>5. ControlInv'
  <2>1. pc \in AtBlock => world.height < Len(chain')
    <3>1. world.height \in Int /\ Len(chain) \in Int
      BY SMTT(30) DEF IInv, TypeOK, LedgerType
    <3>2. pc \in AtBlock => world.height < Len(chain)
      BY Zenon DEF IInv, ControlInv
    <3>3. QED
      BY <1>2, <3>1, <3>2
  <2>2. QED
    BY <1>1, <1>3, <2>1, ZenonT(30) DEF IInv, ControlInv
<1>6. DeliveryInv'
  BY <1>1, <1>2, <1>3, SMTT(30) DEF IInv, DeliveryInv, AtBlock
<1>7. TrunkInv'
  BY <1>1, <1>2, <1>3, ZenonT(30) DEF IInv, TrunkInv, AtBlock
<1>8. StoreInv'
  BY <1>1, <1>2, ZenonT(30) DEF IInv, StoreInv, HistoryIsExecution, PriceIsCommitted
<1>9. QED
  BY <1>2, <1>4, <1>5, <1>6, <1>7, <1>8, SMTT(30) DEF IInv

LEMMA NewAppStep == ASSUME IInv, NewApp PROVE IInv'
<1> USE DEF stores, blockVars
<1>1. /\ UNCHANGED <<chain, stores, pending, collected, lastVoters, slashValidators, reorderSeed, sigMap, crashes>>
      /\ pc = "down" /\ pc' = "idle" /\ mtx' = "free" /\ blockInfo' = world.height
      /\ block' = [number |-> world.height, miner |-> world.miner]
      /\ lastProposer' = world.miner /\ lastMinGasPrice' = world.lastGP
  BY Zenon DEF NewApp, mtxAtStart, priceAtStart
<1>2. /\ Executed' = Executed /\ ExecutedGas' = ExecutedGas /\ current' = current
      /\ Settled' = Settled /\ WorldInv'
  BY <1>1, Frame DEF IInv
<1>3. trunk' = Executed /\ gas' = ExecutedGas
  <2>1. trunk = world /\ gas = NoGas /\ world.height \in 0..MaxHeight
    BY <1>1, ZenonT(30) DEF IInv, TrunkInv, TypeOK, LedgerType
  <2>2. CASE executesAgain
    BY <2>1, <2>2 DEF NewApp, executesAgain, Executed, ExecutedGas
  <2>3. CASE ~executesAgain
    BY <2>1, <2>3 DEF NewApp, executesAgain, Executed, ExecutedGas
  <2>4. QED
    BY <2>2, <2>3, SMTT(30)
<1>4. TypeOK'
  <2>1. Executed \in LedgerType /\ ExecutedGas \in GasType
    BY ExecutedFacts DEF IInv, TypeOK
  <2>2. world.height \in 0..MaxHeight /\ world.miner \in Validators \cup {NoValidator} /\ world.lastGP \in Prices
    BY SMTT(30) DEF IInv, TypeOK, LedgerType
  <2>3. QED
    BY <1>1, <1>3, <2>1, <2>2, SMTT(30) DEF IInv, TypeOK
<1>5. ControlInv'
  BY <1>1, <1>2, ZenonT(30) DEF ControlInv, AtBlock, Locked
<1>6. DeliveryInv'
  <2>1. collected = {} /\ lastVoters = {} /\ slashValidators = {}
    BY <1>1, Zenon DEF IInv, DeliveryInv
  <2>2. QED
    BY <1>1, <2>1, ZenonT(30) DEF DeliveryInv, AtBlock
<1>7. TrunkInv'
  BY <1>1, <1>2, <1>3 DEF TrunkInv, AtBlock
<1>8. StoreInv'
  BY <1>1, <1>2 DEF IInv, StoreInv, HistoryIsExecution, PriceIsCommitted
<1>9. QED
  BY <1>2, <1>4, <1>5, <1>6, <1>7, <1>8 DEF IInv
\* The step that writes the world state.
LEMMA refreshWriteFrame ==
    ASSUME IInv, refreshWrite
    PROVE  /\ world.height < Len(chain) /\ trunk = Prepared /\ world' = Committed /\ trunk' = Committed
           /\ lastMinGasPrice' = Committed.lastGP /\ pc = "refresh" /\ pc' = "publish" /\ mtx = "commit"
           /\ block = [number |-> world.height + 1, miner |-> current.miner]
           /\ gas = ExecutedGas
<1>1. /\ pc = "refresh" /\ world' = SetCurrBlock(trunk, block.number, block.miner) /\ trunk' = world'
      /\ lastMinGasPrice' = world'.lastGP /\ pc' = "publish"
  BY SMTT(30) DEF refreshWrite
<1>2. /\ world.height < Len(chain) /\ mtx = "commit" /\ gas = ExecutedGas /\ trunk = Prepared
      /\ block = [number |-> world.height + 1, miner |-> current.miner]
  BY <1>1 DEF IInv, ControlInv, TrunkInv, AtBlock, Locked, Prepared
<1>3. world' = Committed
  BY <1>1, <1>2 DEF Committed
<1>4. QED
  BY <1>1, <1>2, <1>3, Zenon

LEMMA refreshWriteStep == ASSUME IInv, refreshWrite PROVE IInv'
<1>1. /\ world.height < Len(chain) /\ world' = Committed /\ trunk' = Committed
      /\ lastMinGasPrice' = Committed.lastGP /\ pc = "refresh" /\ pc' = "publish" /\ mtx = "commit"
      /\ block = [number |-> world.height + 1, miner |-> current.miner]
      /\ gas = ExecutedGas
  BY refreshWriteFrame
<1>2. UNCHANGED <<chain, history, sigStore, mtx, pending, collected, blockVars, gas, sigMap, blockInfo, crashes>>
  BY SMTT(30) DEF refreshWrite
<1> USE DEF blockVars
<1>3. /\ Committed \in LedgerType /\ Sound(Committed) /\ Committed.lastGP \in Prices
      /\ Committed.height = world.height + 1 /\ Committed.miner = current.miner
      /\ Committed.done = Executed.done
  BY <1>1, CommittedFacts DEF IInv
<1>4. /\ Len(Executed.done) = world.height /\ world.height \in Nat
      /\ \A h \in DOMAIN world.done : h \in DOMAIN Executed.done /\ Executed.done[h] = world.done[h]
      /\ world.height > 0 => ExecutedGas.txs = Executed.done[world.height]
  <2>1. world \in LedgerType /\ WorldInv
    BY DEF IInv, TypeOK
  <2>2. world.height \in Nat
    BY <2>1, SMTT(30) DEF LedgerType
  <2>3. QED
    BY <2>1, <2>2, ExecutedFacts, Zenon
<1>5. TypeOK'
  BY <1>1, <1>2, <1>3, ZenonT(30) DEF IInv, TypeOK
<1>6. WorldInv'
  <2>1. Len(Committed.done) = Committed.height - 1 /\ Committed.height # 0 /\ Committed.height <= Len(chain)
    <3>1. Len(chain) \in Nat
      BY DEF IInv, TypeOK
    <3>2. QED
      BY <1>1, <1>3, <1>4, <3>1
  <2>2. QED
    BY <1>1, <1>2, <1>3, <2>1, ZenonT(30) DEF WorldInv
<1>7. ControlInv'
  BY <1>1, <1>2, <1>3, <1>4 DEF ControlInv, AtBlock, Locked
<1>8. DeliveryInv'
  BY <1>1, <1>2, SMTT(30) DEF IInv, DeliveryInv, AtBlock
<1>9. TrunkInv'
  <2>1. Committed.height > 1 => gas.txs = Committed.done[Committed.height - 1]
    BY <1>1, <1>3, <1>4
  <2>2. QED
    BY <1>1, <1>2, <2>1, ZenonT(30) DEF TrunkInv, AtBlock
<1>10. StoreInv'
  <2>1. HistoryIsExecution'
    <3>1. HistoryIsExecution /\ history' = history /\ world'.done = Executed.done
      BY <1>1, <1>2, <1>3, Zenon DEF IInv, StoreInv
    <3>2. QED
      BY <1>4, <3>1, Zenon DEF HistoryIsExecution
  <2>2. \A h \in DOMAIN history : h > 0 /\ h + 1 < Committed.height
    <3>1. DOMAIN history \subseteq Int
      BY SMTT(30) DEF IInv, TypeOK
    <3>2. \A h \in DOMAIN history : h > 0 /\ h < world.height
      BY <1>1, Zenon DEF IInv, StoreInv
    <3>3. QED
      BY <1>3, <1>4, <3>1, <3>2
  <2>3. blockInfo = Committed.height - 1
    <3>1. blockInfo = world.height
      BY <1>1, Zenon DEF IInv, StoreInv
    <3>2. QED
      BY <1>3, <1>4, <3>1
  <2>4. QED
    BY <1>1, <1>2, <2>1, <2>2, <2>3, ZenonT(30) DEF StoreInv, PriceIsCommitted
<1>11. QED
  BY <1>5, <1>6, <1>7, <1>8, <1>9, <1>10 DEF IInv

\* The step that publishes the block before.
LEMMA refreshPublishStep == ASSUME IInv, refreshPublish PROVE IInv'
<1>1. /\ UNCHANGED <<chain, world, trunk, mtx, pending, collected, block, slashValidators, reorderSeed,
                     gas, lastMinGasPrice, blockInfo, crashes>>
      /\ pc = "publish" /\ pc' = "spawn" /\ lastProposer' = block.miner /\ lastVoters' = {}
  BY DEF refreshPublish
<1>2. /\ Executed' = Executed /\ ExecutedGas' = ExecutedGas /\ current' = current
      /\ Settled' = Settled /\ WorldInv'
  BY <1>1, Frame, SMTT(30) DEF IInv
<1>3. /\ world.height \in 1..MaxHeight /\ block = [number |-> world.height, miner |-> world.miner]
      /\ world.miner \in Validators \cup {NoValidator} /\ gas.txs \in Seq(Txs) /\ MaxHeight \in Nat
      /\ Len(world.done) = world.height - 1 /\ DOMAIN history \subseteq Int
      /\ world.done \in Seq(Seq(Txs))
  <2>1. world.height > 0 /\ block = [number |-> world.height, miner |-> world.miner]
    BY <1>1 DEF IInv, ControlInv
  <2>2. /\ world.height \in 0..MaxHeight /\ world.miner \in Validators \cup {NoValidator}
        /\ world.done \in Seq(Seq(Txs)) /\ gas.txs \in Seq(Txs) /\ DOMAIN history \subseteq Int
    BY DEF IInv, TypeOK, LedgerType, GasType
  <2>3. QED
    BY <2>1, <2>2, LedgerAssumption DEF IInv, WorldInv
<1>4. /\ sigStore' \subseteq Txs /\ sigMap' \subseteq Txs
      /\ DOMAIN history' \subseteq 1..MaxHeight
      /\ \A h \in DOMAIN history' : /\ history'[h] \in Seq(Txs) /\ h > 0 /\ h < world.height
                                    /\ h \in DOMAIN world.done /\ history'[h] = world.done[h]
  <2>0. /\ \A h \in DOMAIN history : /\ history[h] \in Seq(Txs) /\ h \in 1..MaxHeight /\ h > 0 /\ h < world.height
                                      /\ h \in DOMAIN world.done /\ history[h] = world.done[h]
        /\ sigStore \subseteq Txs /\ sigMap \subseteq Txs
    <3>1. /\ \A h \in DOMAIN history : /\ history[h] \in Seq(Txs) /\ h \in 1..MaxHeight /\ h > 0 /\ h + 1 < world.height
                                        /\ h \in DOMAIN world.done /\ history[h] = world.done[h]
          /\ sigStore \subseteq Txs /\ sigMap \subseteq Txs
      BY <1>1, ZenonT(30) DEF IInv, TypeOK, StoreInv, HistoryIsExecution
    <3>2. \A h \in 1..MaxHeight : h + 1 < world.height => h < world.height
      BY <1>3
    <3>3. QED
      BY <3>1, <3>2, Zenon
  <2>1. CASE publishes
    <3>1. /\ history' = [k \in DOMAIN history \cup {prevBlock} |-> IF k = prevBlock THEN gas.txs ELSE history[k]]
          /\ sigStore' = sigStore \cup sigMap /\ sigMap' = {}
      BY <2>1, SMTT(30) DEF refreshPublish, AddBlock, signatures
    <3>2. prevBlock = world.height - 1 /\ prevBlock > 0 /\ gas.txs = world.done[prevBlock]
      BY <1>1, <1>3, <2>1 DEF publishes, prevBlock, IInv, TrunkInv
    <3>3. prevBlock \in DOMAIN world.done /\ prevBlock \in 1..MaxHeight
      BY <1>3, <3>2
    <3>4. sigStore' \subseteq Txs /\ sigMap' \subseteq Txs
      BY <2>0, <3>1
    <3>5. QED
      BY <1>3, <2>0, <3>1, <3>2, <3>3, <3>4
  <2>2. CASE ~publishes
    <3>1. history' = history /\ sigStore' = sigStore /\ sigMap' = sigMap
      BY <2>2 DEF refreshPublish
    <3>2. QED
      BY <2>0, <3>1, Zenon
  <2>3. QED
    BY <2>1, <2>2, SMTT(30)
<1>5. TypeOK'
  BY <1>1, <1>3, <1>4, SMTT(30) DEF IInv, TypeOK
<1>6. ControlInv'
  BY <1>1, <1>2, ZenonT(30) DEF IInv, ControlInv, AtBlock, Locked
<1>7. DeliveryInv'
  BY <1>1, <1>2, <1>3, SMTT(30) DEF IInv, DeliveryInv, AtBlock
<1>8. TrunkInv'
  BY <1>1, <1>2, ZenonT(30) DEF IInv, TrunkInv, AtBlock, ControlInv, Locked
<1>9. StoreInv'
  BY <1>1, <1>3, <1>4, ZenonT(30) DEF IInv, StoreInv, HistoryIsExecution, PriceIsCommitted
<1>10. QED
  BY <1>2, <1>5, <1>6, <1>7, <1>8, <1>9 DEF IInv
=============================================================================
