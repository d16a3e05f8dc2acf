----------------------------- MODULE AppProofs ------------------------------
(***************************************************************************)
(* Proofs about App for every set of transactions, validators and blocks,  *)
(* every capacity of the engine, and every number of blocks and crashes.   *)
(***************************************************************************)
EXTENDS AppSteps

LEMMA InitIInv == ASSUME Init PROVE IInv
<1> USE DEF Init
<1>1. Genesis \in LedgerType
  <2>1. /\ 0 \in 0..MaxHeight /\ <<>> \in Seq(Txs) /\ {} \in SUBSET Txs /\ GenesisCoins \in Int
        /\ 0 \in Int /\ 0 \in Nat /\ GenesisPrice \in Prices /\ <<>> \in Seq(RewardType)
        /\ <<>> \in Seq(Seq(Txs)) /\ NoValidator \in Validators \cup {NoValidator}
    BY LedgerAssumption
  <2>2. QED
    BY <2>1, Zenon DEF Genesis, LedgerType
<1>2. /\ Genesis.height = 0 /\ Genesis.standby = <<>> /\ Genesis.seen = {} /\ Genesis.users = GenesisCoins
      /\ Genesis.sys = 0 /\ Genesis.staking = 0 /\ Genesis.minted = 0 /\ Genesis.done = <<>>
      /\ Genesis.miner = NoValidator /\ Genesis.lastGP = GenesisPrice
  BY Zenon DEF Genesis
<1>3. TypeOK
  <2>1. /\ NoGas \in GasType /\ NoSeed \in Seeds /\ 0 \in 0..MaxHeight /\ 0 \in 0..MaxCrashes
        /\ NoBlock \in [number : 0..MaxHeight, miner : Validators \cup {NoValidator}]
        /\ GenesisPrice \in Prices
    BY NoGasType, LedgerAssumption, AppAssumption DEF NoSeed, NoBlock
  <2>2. chain \in Seq(Blocks) /\ Len(chain) <= MaxHeight /\ DOMAIN history = {}
    BY LedgerAssumption
  <2>3. QED
    BY <1>1, <2>1, <2>2 DEF TypeOK
<1>4. WorldInv
  <2>1. Range(Genesis.standby) = {} /\ DOMAIN Genesis.standby = {}
    BY <1>2 DEF Range
  <2>2. Prepaid(Range(Genesis.standby)) = 0
    BY <2>1, NothingPrepaid
  <2>3. Coins(Genesis) = GenesisCoins + Genesis.minted
    BY <1>2, GenesisNat, SMTT(30) DEF Coins
  <2>4. Sound(Genesis)
    BY <1>2, <2>1, <2>2, <2>3 DEF Sound
  <2>5. QED
    BY <1>2, <2>4 DEF WorldInv
<1>5. Executed = Genesis /\ ExecutedGas = NoGas
  BY <1>2, SMTT(30) DEF Executed, ExecutedGas
<1>6. ControlInv /\ DeliveryInv
  BY <1>2, ZenonT(30) DEF ControlInv, DeliveryInv, AtBlock, Locked
<1>7. TrunkInv
  BY <1>5, ZenonT(30) DEF TrunkInv, AtBlock
<1>8. StoreInv
  BY <1>2 DEF StoreInv, HistoryIsExecution, PriceIsCommitted
<1>9. QED
  BY <1>3, <1>4, <1>6, <1>7, <1>8 DEF IInv

LEMMA NextIInv == ASSUME IInv, [Next]_vars PROVE IInv'
<1>1. CASE UNCHANGED vars
  <2>1. /\ UNCHANGED <<chain, world, history, sigStore, trunk, pc, mtx, pending, collected, block,
                       lastProposer, lastVoters, slashValidators, reorderSeed, gas, sigMap,
                       lastMinGasPrice, blockInfo, crashes>>
    BY <1>1, Zenon DEF vars
  <2>2. /\ Executed' = Executed /\ ExecutedGas' = ExecutedGas /\ current' = current
        /\ Settled' = Settled /\ WorldInv'
    BY <2>1, Frame DEF IInv
  <2>3. TypeOK'
    BY <2>1, Zenon DEF IInv, TypeOK
  <2>4. ControlInv' /\ DeliveryInv'
    BY <2>1, <2>2, Zenon DEF IInv, ControlInv, DeliveryInv
  <2>5. TrunkInv'
    BY <2>1, <2>2, Zenon DEF IInv, TrunkInv
  <2>6. StoreInv'
    BY <2>1, Zenon DEF IInv, StoreInv, HistoryIsExecution, PriceIsCommitted
  <2>7. QED
    BY <2>2, <2>3, <2>4, <2>5, <2>6, Zenon DEF IInv
<1>2. CASE \E b \in Blocks : Decide(b)
  BY <1>2, DecideStep
<1>3. CASE Abci
  BY <1>3, BeginBlockStep, DeliverTxStep, EndBlockStep, CommitLockStep, CommitUpdateStep,
     CommitPrepareStep, refreshWriteStep, refreshPublishStep, CommitReturnStep, Zenon DEF Abci
<1>4. CASE postCommit
  BY <1>4, postCommitExecuteStep, postCommitUnlockStep, Zenon DEF postCommit
<1>5. CASE Crash
  BY <1>5, CrashStep
<1>6. CASE NewApp
  BY <1>6, NewAppStep
<1>7. QED
  BY <1>1, <1>2, <1>3, <1>4, <1>5, <1>6 DEF Next

\* The memory of the node is at every step what the stored world state, the block at hand and the
\* position in its life determine, whatever the goroutine and the crashes do.
THEOREM Inductive == Spec => []IInv
<1>1. Init => IInv
  BY InitIInv
<1>2. IInv /\ [Next]_vars => IInv'
  BY NextIInv
<1>3. QED
  BY <1>1, <1>2, PTL DEF Spec

\* The variables of App keep their types.
THEOREM TypeCorrect == Spec => []TypeOK
BY Inductive, PTL DEF IInv

\* No Commit panics in getBlockRewardAndUpdateSysAcc: the system account always covers the refunds
\* and the fee of the last execution, beside the gas prepaid for the transactions still queued.
THEOREM FundsAreSafe == Spec => []FundsSafe
<1>1. IInv => FundsSafe
  <2>1. SUFFICES ASSUME IInv, pc = "update" PROVE FundsSuffice(trunk, gas)
    BY Zenon DEF FundsSafe
  <2>2. world.height < Len(chain) /\ trunk = Executed /\ gas = ExecutedGas
    BY <2>1, SMTT(30) DEF IInv, ControlInv, TrunkInv, AtBlock, Locked
  <2>3. QED
    BY <2>1, <2>2, SettledFacts, Zenon DEF IInv
<1>2. QED
  BY <1>1, Inductive, PTL

\* Every written world state holds the genesis coins and the credits, no more and no less.
THEOREM CoinsAreConserved == Spec => []CoinsConserved
<1>1. IInv => CoinsConserved
  BY DEF IInv, WorldInv, Sound, CoinsConserved
<1>2. QED
  BY <1>1, Inductive, PTL

\* publish stores with every height the transactions which that block's execution ran.
THEOREM HistoryIsCorrect == Spec => []HistoryIsExecution
<1>1. IInv => HistoryIsExecution
  BY DEF IInv, StoreInv
<1>2. QED
  BY <1>1, Inductive, PTL

\* CheckTx reads the minimum gas price of the last Commit, after a restart too.
THEOREM PriceIsRight == Spec => []PriceIsCommitted
<1>1. IInv => PriceIsCommitted
  BY DEF IInv, StoreInv
<1>2. QED
  BY <1>1, Inductive, PTL

\* eth_call's height is never behind the history store and never ahead of the world state.
THEOREM EthCallIsNotBehind == Spec => []EthCallNotBehind
<1>1. IInv => EthCallNotBehind
  <2>1. ASSUME IInv PROVE world.height \in Int /\ DOMAIN history \subseteq Int
    BY <2>1 DEF IInv, TypeOK, LedgerType
  <2>2. QED
    BY <2>1 DEF IInv, StoreInv, EthCallNotBehind
<1>2. QED
  BY <1>1, Inductive, PTL

\* Coins are conserved and the system account always covers what it owes.
THEOREM MoneyIsSafe == Spec => []MoneySafe
BY FundsAreSafe, CoinsAreConserved, PTL DEF MoneySafe

\* The height that eth_call sees and the price that CheckTx uses are those of the last Commit.
THEOREM SeenIsRight == Spec => []SeenIsCommitted
BY PriceIsRight, EthCallIsNotBehind, PTL DEF SeenIsCommitted

----------------------------------------------------------------------------
\* The operators of Ledger are the same in the abstract node.
LEMMA SameLedger ==
    ASSUME NEW l, NEW g, NEW b
    PROVE  /\ Sequential!Execute(l) = Execute(l)
           /\ Sequential!GasUsedInfo(l) = GasUsedInfo(l)
           /\ Sequential!Genesis = Genesis /\ Sequential!NoGas = NoGas
           /\ Sequential!CommitBlock(l, g, b) =
                 SetCurrBlock(Prepare(updateValidatorsAndStakingInfo(ProcessCCRPC(l, l.height + 1), g, b.miner,
                                          l.miner, b.votes, b.evidence),
                                      b.txs \cap Decodes, b.seed), l.height + 1, b.miner)
<1>1. /\ Sequential!Execute(l) = Execute(l) /\ Sequential!GasUsedInfo(l) = GasUsedInfo(l)
  <2>0. Sequential!Range(running(l)) = Range(running(l))
    BY Zenon DEF Sequential!Range, Range
  <2>1. Sequential!runLen(l) = runLen(l)
    BY Zenon DEF Sequential!runLen, runLen
  <2>2. Sequential!running(l) = running(l)
    BY <2>1, Zenon DEF Sequential!running, running
  <2>3. Sequential!Refund(Range(running(l))) = Refund(Range(running(l)))
    BY Zenon DEF Sequential!Refund, Refund
  <2>4. Sequential!Execute(l) = Execute(l)
    BY <2>0, <2>1, <2>2, <2>3, Zenon DEF Sequential!Execute, Execute
  <2>5. Sequential!GasUsedInfo(l) = GasUsedInfo(l)
    BY <2>0, <2>2, <2>3, Zenon DEF Sequential!GasUsedInfo, GasUsedInfo
  <2>6. QED
    BY <2>4, <2>5
<1>2. Sequential!Genesis = Genesis /\ Sequential!NoGas = NoGas
  BY Zenon DEF Sequential!Genesis, Sequential!NoGas, Genesis, NoGas
<1>3. \A x, h : Sequential!ProcessCCRPC(x, h) = ProcessCCRPC(x, h)
  BY Zenon DEF Sequential!ProcessCCRPC, ProcessCCRPC
<1>4. \A x, c, p, v, e : Sequential!updateValidatorsAndStakingInfo(x, g, c, p, v, e) =
                            updateValidatorsAndStakingInfo(x, g, c, p, v, e)
  BY ZenonT(30) DEF Sequential!updateValidatorsAndStakingInfo, Sequential!SlashAndReward, Sequential!blockReward,
         Sequential!getBlockRewardAndUpdateSysAcc, updateValidatorsAndStakingInfo, SlashAndReward,
         getBlockRewardAndUpdateSysAcc, blockReward
<1>5. \A x, c, s : Sequential!Prepare(x, c, s) = Prepare(x, c, s)
  BY Zenon DEF Sequential!Prepare, Prepare
<1>6. \A x, h, m : Sequential!SetCurrBlock(x, h, m) = SetCurrBlock(x, h, m)
  BY Zenon DEF Sequential!SetCurrBlock, SetCurrBlock
<1>7. QED
  BY <1>1, <1>2, <1>3, <1>4, <1>5, <1>6, Zenon DEF Sequential!CommitBlock

\* Writing the world state is taking a block; deciding a block is deciding a block; every other step
\* leaves the executed state as it is.
LEMMA StepRefines ==
    ASSUME IInv, IInv', [Next]_vars
    PROVE  [Sequential!Next]_<<chain, Executed, ExecutedGas>>
<1>1. CASE world' = world /\ chain' = chain
  BY <1>1, Frame
<1>2. CASE \E b \in Blocks : Decide(b)
  <2>1. PICK b \in Blocks : Decide(b)
    BY <1>2
  <2>2. Executed' = Executed /\ ExecutedGas' = ExecutedGas
    BY <2>1, DecideFrame
  <2>3. Sequential!Decide(b)
    BY <2>1, <2>2 DEF Decide, Sequential!Decide
  <2>4. QED
    BY <2>3 DEF Sequential!Next
<1>3. CASE refreshWrite
  <2>1. /\ world.height < Len(chain) /\ world' = Committed /\ chain' = chain
    BY <1>3, refreshWriteFrame, SMTT(30) DEF refreshWrite
  <2>2. Executed.height = world.height /\ Executed.miner = world.miner
    BY ExecutedFacts DEF IInv, TypeOK
  <2>3. Sequential!CommitBlock(Executed, ExecutedGas, chain[Executed.height + 1]) = Committed
    BY <2>2, SameLedger, ZenonT(30) DEF Committed, Prepared, Settled, current
  <2>4. Committed.height # 0
    <3>1. world.height \in Nat
      BY SMTT(30) DEF IInv, TypeOK, LedgerType
    <3>2. Committed.height = world.height + 1
      BY <2>1, CommittedFacts, Zenon DEF IInv
    <3>3. QED
      BY <3>1, <3>2
  <2>5. Executed' = Execute(Committed) /\ ExecutedGas' = GasUsedInfo(Committed)
    BY <2>1, <2>4, Zenon DEF Executed, ExecutedGas
  <2>6. Sequential!TakeBlock
    BY <2>1, <2>2, <2>3, <2>5, SameLedger, Zenon DEF Sequential!TakeBlock
  <2>7. QED
    BY <2>6 DEF Sequential!Next
<1>4. ASSUME [Next]_vars PROVE \/ world' = world /\ chain' = chain
                               \/ \E b \in Blocks : Decide(b)
                               \/ refreshWrite
  BY <1>4, Zenon DEF Next, vars, Abci, postCommit, BeginBlock, DeliverTx, EndBlock, CommitLock, CommitUpdate,
     CommitPrepare, refreshPublish, CommitReturn, postCommitExecute, postCommitUnlock, Crash, Die, NewApp, stores
<1>5. QED
  BY <1>1, <1>2, <1>3, <1>4

\* The life cycle with its goroutine, caches and crashes implements the node that takes the decided
\* blocks one by one.
THEOREM Refinement == Spec => RefinesSequential
<1>1. Init => Sequential!Init
  <2>1. Genesis.height = 0
    BY DEF Genesis
  <2>2. QED
    BY <2>1, SameLedger, Zenon DEF Init, Sequential!Init, Executed, ExecutedGas
<1>2. IInv /\ IInv' /\ [Next]_vars => [Sequential!Next]_<<chain, Executed, ExecutedGas>>
  BY StepRefines
<1>3. QED
  BY <1>1, <1>2, Inductive, PTL DEF Spec, RefinesSequential, Sequential!Spec
=============================================================================
