-------------------------------- MODULE App ---------------------------------
(***************************************************************************)
(* The life of a block in one node: the ABCI calls of Tendermint, the      *)
(* post-commit goroutine that executes a block while the next one is being *)
(* delivered, the mutex they hand over, the two stores, and crashes.       *)
(*                                                                         *)
(* A block is executed only after its Commit has written the world state.  *)
(* What the execution changes is in the trunk, a cache in memory, until    *)
(* the next Commit writes it; a node that dies loses it and executes the   *)
(* last block again when it starts.                                        *)
(***************************************************************************)
EXTENDS Ledger

CONSTANTS
    Blocks,      \* the blocks Tendermint may decide
    TornCommit,  \* may a crash fall between the world state write and the history write?
    MaxCrashes   \* bound: crashes

ASSUME AppAssumption ==
    Blocks \subseteq BlockType /\ TornCommit \in BOOLEAN /\ MaxCrashes \in Nat

VARIABLES
    chain,           \* the blocks Tendermint has decided
    world,           \* the world state in app.root
    history,         \* the history store: executed transactions by height
    sigStore,        \* ... and the transactions whose signatures it has
    trunk,           \* app.trunk: the world state with the changes since the last write
    pc,              \* where the ABCI connection is in the life of a block
    mtx,             \* app.mtx: "free", or who holds it and how far that one is
    pending,         \* transactions of the block not delivered yet
    collected,       \* transactions collected by the engine
    block,           \* app.block: number and miner
    lastProposer,
    lastVoters,
    slashValidators,
    reorderSeed,
    gas,             \* lastGasRefund, lastGasFee and the engine's committed transactions
    sigMap,          \* txid2sigMap
    lastMinGasPrice,
    blockInfo,       \* number in app.blockInfo, 0 for none
    crashes          \* crashes so far

stores == <<world, history, sigStore>>
blockVars == <<block, lastProposer, lastVoters, slashValidators, reorderSeed>>
vars == <<chain, world, history, sigStore, trunk, pc, mtx, pending, collected, block,
          lastProposer, lastVoters, slashValidators, reorderSeed, gas, sigMap,
          lastMinGasPrice, blockInfo, crashes>>

NoBlock == [number |-> 0, miner |-> NoValidator]
NoSeed == CHOOSE seed \in Seeds : TRUE

Init ==
    /\ chain = <<>>
    /\ world = Genesis
    /\ history = <<>>
    /\ sigStore = {}
    /\ trunk = Genesis
    /\ pc = "idle"
    /\ lastMinGasPrice = GenesisPrice
    /\ crashes = 0
    /\ mtx = "free"
    /\ pending = {}
    /\ collected = {}
    /\ block = NoBlock
    /\ lastProposer = NoValidator
    /\ lastVoters = {}
    /\ slashValidators = {}
    /\ reorderSeed = NoSeed
    /\ gas = NoGas
    /\ sigMap = {}
    /\ blockInfo = 0
----------------------------------------------------------------------------
\* Tendermint (external) decides another block.  Nobody has signed a block before the first one.
Decide(b) ==
    /\ Len(chain) < MaxHeight
    /\ chain = <<>> => b.votes = {}
    /\ chain' = Append(chain, b)
    /\ UNCHANGED <<stores, trunk, pc, mtx, pending, collected, blockVars, gas, sigMap,
                   lastMinGasPrice, blockInfo, crashes>>

BeginBlock ==
    /\ pc = "idle"
    /\ world.height < Len(chain)
    /\ LET b == chain[world.height + 1]
       IN  /\ block' = [number |-> world.height + 1, miner |-> b.miner]
           /\ lastVoters' = lastVoters \cup b.votes
           /\ slashValidators' = slashValidators \cup b.evidence
           /\ reorderSeed' = b.seed
           /\ pending' = b.txs
    /\ pc' = "deliver"
    /\ UNCHANGED <<chain, stores, trunk, mtx, collected, lastProposer, gas, sigMap,
                   lastMinGasPrice, blockInfo, crashes>>

\* Bytes that do not decode are passed over.
DeliverTx(tx) ==
    /\ pc = "deliver"
    /\ tx \in pending
    /\ pending' = pending \ {tx}
    /\ collected' = collected \cup ({tx} \cap Decodes)
    /\ sigMap' = sigMap \cup ({tx} \cap Decodes)
    /\ UNCHANGED <<chain, stores, trunk, pc, mtx, blockVars, gas, lastMinGasPrice, blockInfo, crashes>>

EndBlock ==
    /\ pc = "deliver"
    /\ pending = {}
    /\ pc' = "ended"
    /\ UNCHANGED <<chain, stores, trunk, mtx, pending, collected, blockVars, gas, sigMap,
                   lastMinGasPrice, blockInfo, crashes>>

CommitWithoutLock ==
    /\ pc = "ended"
    /\ mtx' = "commit"
    /\ pc' = "update"
    /\ UNCHANGED <<chain, stores, trunk, pending, collected, blockVars, gas, sigMap,
                   lastMinGasPrice, blockInfo, crashes>>

\* Commit waits for the execution of the block before.
CommitLock ==
    /\ pc = "ended"
    /\ mtx = "free"
    /\ mtx' = "commit"
    /\ pc' = "update"
    /\ UNCHANGED <<chain, stores, trunk, pending, collected, blockVars, gas, sigMap,
                   lastMinGasPrice, blockInfo, crashes>>

\* The process dies.  What is in the stores stays.
Die ==
    /\ pc' = "down"
    /\ trunk' = world
    /\ lastMinGasPrice' = 0
    /\ mtx' = "free"
    /\ pending' = {}
    /\ collected' = {}
    /\ block' = NoBlock
    /\ lastProposer' = NoValidator
    /\ lastVoters' = {}
    /\ slashValidators' = {}
    /\ reorderSeed' = NoSeed
    /\ gas' = NoGas
    /\ sigMap' = {}
    /\ blockInfo' = 0
    /\ UNCHANGED <<chain, stores>>

\* The credits of the cross-chain feature and the staking information, in one context.  A system
\* account that cannot pay the refunds and the fee is a panic.
CommitUpdate ==
    /\ pc = "update"
    /\ UNCHANGED crashes
    /\ IF FundsSuffice(trunk, gas)
       THEN /\ trunk' = updateValidatorsAndStakingInfo(ProcessCCRPC(trunk, block.number), gas,
                            block.miner, lastProposer, lastVoters, slashValidators)
            /\ slashValidators' = {}
            /\ pc' = "prepare"
            /\ UNCHANGED <<chain, stores, mtx, pending, collected, block, lastProposer, lastVoters,
                           reorderSeed, gas, sigMap, lastMinGasPrice, blockInfo>>
       ELSE Die

CommitPrepare ==
    /\ pc = "prepare"
    /\ trunk' = Prepare(trunk, collected, reorderSeed)
    /\ collected' = {}
    /\ pc' = "refresh"
    /\ UNCHANGED <<chain, stores, mtx, pending, blockVars, gas, sigMap,
                   lastMinGasPrice, blockInfo, crashes>>

\* The first half of refresh: the block's record and the gas price, then the trunk is written to
\* the world state in one go.
refreshWrite ==
    /\ pc = "refresh"
    /\ world' = SetCurrBlock(trunk, block.number, block.miner)
    /\ trunk' = world'
    /\ lastMinGasPrice' = world'.lastGP
    /\ pc' = "publish"
    /\ UNCHANGED <<chain, history, sigStore, mtx, pending, collected, blockVars, gas, sigMap,
                   blockInfo, crashes>>

\* GetCurrBlockBasicInfo before it is overwritten.
prevBlock == world.height - 1

publishesNonEmpty == prevBlock > 0 /\ gas.txs # <<>>

\* Before the first block there is none to publish.
publishes == prevBlock > 0

signaturesOfBlock == sigMap \cap chain[prevBlock].txs

\* The signatures that go to the history store with a block: all that were collected.
signatures == sigMap

AddBlock(h, txs) == history' = [k \in DOMAIN history \cup {h} |-> IF k = h THEN txs ELSE history[k]]

\* The second half: the block before this one, executed meanwhile, is published with the signatures
\* collected since the last time.
refreshPublish ==
    /\ pc = "publish"
    /\ IF publishes
       THEN /\ AddBlock(prevBlock, gas.txs)
            /\ sigStore' = sigStore \cup signatures
            /\ sigMap' = {}
       ELSE UNCHANGED <<history, sigStore, sigMap>>
    /\ lastProposer' = block.miner
    /\ lastVoters' = {}
    /\ pc' = "spawn"
    /\ UNCHANGED <<chain, world, trunk, mtx, pending, collected, block, slashValidators, reorderSeed,
                   gas, lastMinGasPrice, blockInfo, crashes>>

\* syncBlockInfo, and the mutex is handed to the new goroutine; Commit returns.
CommitReturn ==
    /\ pc = "spawn"
    /\ blockInfo' = block.number
    /\ mtx' = "execute"
    /\ pc' = "idle"
    /\ UNCHANGED <<chain, stores, trunk, pending, collected, blockVars, gas, sigMap,
                   lastMinGasPrice, crashes>>

\* The goroutine executes the block that was committed last ...
postCommitExecute ==
    /\ mtx = "execute"
    /\ trunk' = Execute(trunk)
    /\ gas' = GasUsedInfo(trunk)
    /\ mtx' = "unlock"
    /\ UNCHANGED <<chain, stores, pc, pending, collected, blockVars, sigMap,
                   lastMinGasPrice, blockInfo, crashes>>

\* ... and then unlocks the mutex.
postCommitUnlock ==
    /\ mtx = "unlock"
    /\ mtx' = "free"
    /\ UNCHANGED <<chain, stores, trunk, pc, pending, collected, blockVars, gas, sigMap,
                   lastMinGasPrice, blockInfo, crashes>>

\* The node is killed, at any step or, unless TornCommit, not between the two writes of refresh.
Crash ==
    /\ pc # "down"
    /\ pc = "publish" => TornCommit
    /\ crashes < MaxCrashes
    /\ crashes' = crashes + 1
    /\ Die

executesAgainNever == FALSE

\* With no block yet there is nothing to execute, and Tendermint repeats InitChain.
executesAgain == world.height > 0

priceAtStartCurrent == Execute(world).gp

\* LoadMinGasPrice of the last block's price.
priceAtStart == world.lastGP

mtxAtStartHeld == "commit"

\* postCommit unlocks what NewApp has locked.
mtxAtStart == "free"

\* NewApp on the stores of an earlier process: the last block is executed again before the first
\* ABCI call.
NewApp ==
    /\ pc = "down"
    /\ block' = [number |-> world.height, miner |-> world.miner]
    /\ lastProposer' = world.miner
    /\ IF executesAgain
       THEN trunk' = Execute(world) /\ gas' = GasUsedInfo(world)
       ELSE UNCHANGED <<trunk, gas>>
    /\ blockInfo' = world.height
    /\ lastMinGasPrice' = priceAtStart
    /\ mtx' = mtxAtStart
    /\ pc' = "idle"
    /\ UNCHANGED <<chain, stores, pending, collected, lastVoters, slashValidators, reorderSeed,
                   sigMap, crashes>>

Abci ==
    \/ BeginBlock
    \/ \E tx \in Txs : DeliverTx(tx)
    \/ EndBlock
    \/ CommitLock
    \/ CommitUpdate
    \/ CommitPrepare
    \/ refreshWrite
    \/ refreshPublish
    \/ CommitReturn

postCommit == postCommitExecute \/ postCommitUnlock

Next ==
    \/ \E b \in Blocks : Decide(b)
    \/ Abci
    \/ postCommit
    \/ Crash
    \/ NewApp

Spec == Init /\ [][Next]_vars

\* Tendermint goes on with the block it is at and replays decided blocks, the goroutine runs, and a
\* node that died is started again.
FairSpec == Spec /\ WF_vars(Abci) /\ WF_vars(postCommit) /\ WF_vars(NewApp)

----------------------------------------------------------------------------
LedgerType ==
    [height : 0..MaxHeight, miner : Validators \cup {NoValidator},
     standby : Seq(Txs), seen : SUBSET Txs, users : Int, sys : Int, staking : Int, minted : Nat,
     gp : Prices, lastGP : Prices, rewards : Seq(RewardType), done : Seq(Seq(Txs))]

GasType == [refund : Int, fee : Int, txs : Seq(Txs)]

\* Every variable keeps its type; in particular refresh publishes only heights from 1 on.
TypeOK ==
    /\ chain \in Seq(Blocks) /\ Len(chain) <= MaxHeight
    /\ world \in LedgerType /\ trunk \in LedgerType
    /\ DOMAIN history \subseteq 1..MaxHeight
    /\ \A h \in DOMAIN history : history[h] \in Seq(Txs)
    /\ sigStore \subseteq Txs /\ sigMap \subseteq Txs
    /\ pc \in {"idle", "deliver", "ended", "update", "prepare", "refresh", "publish", "spawn", "down"}
    /\ mtx \in {"free", "commit", "execute", "unlock"}
    /\ pending \subseteq Txs /\ collected \subseteq Txs
    /\ block \in [number : 0..MaxHeight, miner : Validators \cup {NoValidator}]
    /\ lastProposer \in Validators \cup {NoValidator}
    /\ lastVoters \subseteq Validators /\ slashValidators \subseteq Validators
    /\ reorderSeed \in Seeds
    /\ gas \in GasType
    /\ lastMinGasPrice \in Prices
    /\ blockInfo \in 0..MaxHeight
    /\ crashes \in 0..MaxCrashes

Coins(l) == l.users + l.sys + l.staking

\* Every world state that is written holds the coins of the genesis file and the credits from the
\* main chain, no more and no less.  Refunds are paid by one block's execution and taken from the
\* system account by the next Commit, in another process if the node died in between.
CoinsConserved == Coins(world) = GenesisCoins + world.minted

\* getBlockRewardAndUpdateSysAcc never panics with "system balance not enough!" or because it cannot
\* take the refunds from the system account.
FundsSafe == pc = "update" => FundsSuffice(trunk, gas)

\* No coin is made or lost and the system account can always pay: the two statements about money that
\* Commit relies on, with refunds that are paid in one step and accounted for in another.
MoneySafe == CoinsConserved /\ FundsSafe

\* publish stores with each height the transactions that the execution of that very block ran,
\* although it runs during the Commit of the next block and takes them from the engine's memory.
HistoryIsExecution ==
    \A h \in DOMAIN history : h \in DOMAIN world.done /\ history[h] = world.done[h]

\* The signature of a published transaction is in the history store, unless the node died before it
\* could publish the block before the one that brought the transaction (block 1 has none before it).
SignaturesKept ==
    \A h \in DOMAIN history : \A tx \in Range(history[h]) \ sigStore :
        \E d \in DOMAIN chain : tx \in chain[d].txs /\ d - 1 \notin DOMAIN history

\* refresh publishes every block once its successor is committed; a crash between its two writes
\* loses at most one.
GapsAreTorn ==
    LET expected == 1..(IF pc = "publish" THEN world.height - 2 ELSE world.height - 1)
    IN  Cardinality(expected \ DOMAIN history) <= IF TornCommit THEN crashes ELSE 0

\* What is lost of the history store is what torn commits lose, in blocks and in signatures.
StoreComplete == SignaturesKept /\ GapsAreTorn

\* The comment on blockInfo: eth_call sees a new block's height no later than eth_blockNumber, which
\* reads the history store; and it never sees a height whose state is not written.
EthCallNotBehind ==
    pc # "down" => blockInfo <= world.height /\ \A h \in DOMAIN history : h <= blockInfo

\* CheckTx uses the minimum gas price that the last Commit recorded, also after a restart has
\* executed transactions that change the current one.
PriceIsCommitted == pc # "down" => lastMinGasPrice = world.lastGP

\* What RPC and CheckTx see is the last Commit, not the execution or the restart under way.
SeenIsCommitted == EthCallNotBehind /\ PriceIsCommitted

Executed == IF world.height = 0 THEN world ELSE Execute(world)
ExecutedGas == IF world.height = 0 THEN NoGas ELSE GasUsedInfo(world)

Sequential == INSTANCE SequentialNode WITH ledger <- Executed, gas <- ExecutedGas

\* Whatever the interleaving and the crashes, the stored world states are those of a node that takes
\* the decided blocks one by one: who is rewarded and slashed, what is queued, executed and paid.
RefinesSequential == Sequential!Spec

\* Every decided block is committed and executed sooner or later: the mutex that Commit locks and
\* another goroutine unlocks never stays locked, whatever process took it.
EveryBlockTaken ==
    \A h \in 1..MaxHeight : Len(chain) >= h ~> world.height >= h /\ mtx = "free"

\* A block that has a committed successor is found in the history store sooner or later.
EveryBlockPublished ==
    \A h \in 1..MaxHeight : world.height > h ~> h \in DOMAIN history

----------------------------------------------------------------------------
(***************************************************************************)
(* The inductive invariant.  Between two steps everything in memory is a   *)
(* function of the stored world state, the block at hand and the position  *)
(* in its life.                                                            *)
(***************************************************************************)
AtBlock == {"deliver", "ended", "update", "prepare", "refresh"}
Locked == {"update", "prepare", "refresh", "publish", "spawn"}

current == chain[world.height + 1]

\* No coin is missing; the system account holds the prepaid gas of every queued transaction; a
\* transaction is queued once.
Sound(l) ==
    /\ Range(l.standby) \subseteq l.seen
    /\ \A i, j \in DOMAIN l.standby : l.standby[i] = l.standby[j] => i = j
    /\ Prepaid(Range(l.standby)) <= l.sys
    /\ Coins(l) = GenesisCoins + l.minted

\* The same after an execution, whose refunds and fee the system account still has to give up.
Owing(l, g) ==
    /\ Range(l.standby) \subseteq l.seen
    /\ \A i, j \in DOMAIN l.standby : l.standby[i] = l.standby[j] => i = j
    /\ g.refund \in Nat /\ g.fee \in Nat
    /\ Prepaid(Range(l.standby)) + g.refund + g.fee <= l.sys
    /\ Coins(l) = GenesisCoins + l.minted + g.refund

Settled ==
    updateValidatorsAndStakingInfo(ProcessCCRPC(Executed, world.height + 1), ExecutedGas,
                                   current.miner, world.miner, current.votes, current.evidence)

WorldInv ==
    /\ world.height <= Len(chain)
    /\ Sound(world)
    /\ Len(world.done) = IF world.height = 0 THEN 0 ELSE world.height - 1
    /\ world.height = 0 => world = Genesis

ControlInv ==
    /\ mtx = "commit" <=> pc \in Locked
    /\ pc = "down" => mtx = "free"
    /\ pc \in AtBlock => /\ world.height < Len(chain)
                         /\ block = [number |-> world.height + 1, miner |-> current.miner]
                         /\ reorderSeed = current.seed
    /\ pc \in {"publish", "spawn"} => /\ world.height > 0
                                      /\ block = [number |-> world.height, miner |-> world.miner]

DeliveryInv ==
    /\ pc = "deliver" => /\ pending \subseteq current.txs
                         /\ collected = (current.txs \ pending) \cap Decodes
    /\ pc \in {"ended", "update", "prepare"} => collected = current.txs \cap Decodes
    /\ pc \in {"refresh", "publish", "spawn", "idle", "down"} => collected = {}
    /\ pc \in {"idle"} \cup AtBlock => lastProposer = world.miner
    /\ pc \in {"deliver", "ended", "update"} =>
          lastVoters = current.votes /\ slashValidators = current.evidence
    /\ pc \in {"spawn", "idle", "down"} => lastVoters = {}
    /\ pc \notin {"deliver", "ended", "update"} => slashValidators = {}
    /\ pc = "spawn" => lastProposer = world.miner

TrunkInv ==
    /\ mtx = "execute" => world.height > 0 /\ trunk = world
    /\ pc \in {"publish", "spawn", "down"} => trunk = world
    /\ pc \in {"idle", "deliver", "ended", "update"} /\ mtx # "execute" => trunk = Executed
    /\ pc = "prepare" => trunk = Settled
    /\ pc = "refresh" => trunk = Prepare(Settled, current.txs \cap Decodes, current.seed)
    /\ pc \in {"idle"} \cup AtBlock /\ mtx # "execute" => gas = ExecutedGas
    /\ pc = "publish" /\ world.height > 1 => gas.txs = world.done[world.height - 1]
    /\ pc = "down" => gas = NoGas

StoreInv ==
    /\ HistoryIsExecution
    /\ \A h \in DOMAIN history : h > 0 /\ (IF pc = "publish" THEN h + 1 ELSE h) < world.height
    /\ pc # "down" => blockInfo = IF pc \in {"publish", "spawn"} THEN world.height - 1 ELSE world.height
    /\ pc = "down" => blockInfo = 0
    /\ PriceIsCommitted

IInv == TypeOK /\ WorldInv /\ ControlInv /\ DeliveryInv /\ TrunkInv /\ StoreInv
=============================================================================
