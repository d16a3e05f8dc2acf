---------------------------- MODULE MCChainRules ----------------------------
(***************************************************************************)
(* The rules of the chain that share no state, checked in one run: `part`  *)
(* says which of them a behaviour is about, and the variables of the       *)
(* others keep one initial value.  The admission of transactions is        *)
(* extended, so that the theorems of CheckTxProofs are about the very      *)
(* definitions that the run checks; the other parts are instances.         *)
(***************************************************************************)
EXTENDS CheckTx, TLC

VARIABLES
    part,
    sBal, sInfo, allBurnt, readonly, root, sVotes, update, tendermint, sPhase, blocks, calls,
    price, last, target, deadline, voters, gVotes, power, now, xhedge, switches,
    cBal, utxo, mainnetBurnt, CurrEpochNum, switched, next, short,
    T, mode, obj, val, cut, res, cPhase,
    table, status, revision

stakeVars == <<sBal, sInfo, allBurnt, readonly, root, sVotes, update, tendermint, sPhase, blocks, calls>>
gasVars == <<price, last, target, deadline, voters, gVotes, power, now, xhedge, switches>>
ccVars == <<cBal, utxo, mainnetBurnt, CurrEpochNum, switched, next, short>>
codecVars == <<T, mode, obj, val, cut, res, cPhase>>
revVars == <<table, status, revision>>

-----------------------------------------------------------------------------
\* Two senders: one with a chain of transactions, cheap and dear, one with a single one.
Tx(i, s, n, g, p, v) == [id |-> i, sender |-> s, nonce |-> n, gas |-> g, price |-> p, value |-> v]
MCTxs == {Tx(1, "s", 0, 2, 1, 1), Tx(2, "s", 1, 2, 9, 0), Tx(3, "s", 1, 1, 1, 4), Tx(4, "s", 2, 2, 1, 0),
          Tx(5, "s", 2, 5, 1, 0), Tx(6, "t", 0, 1, 2, 1)}
MCAccounts == {[nonce |-> 0, bal |-> 9], [nonce |-> 1, bal |-> 5]}

-----------------------------------------------------------------------------
\* Staking: two genesis validators, one more key and account.
Staker(a, k, p, s) == [addr |-> a, pk |-> k, rewardTo |-> a, power |-> p, staked |-> s, retiring |-> FALSE]
MCGenesis == <<Staker("u1", 1, 1, 2), Staker("u2", 2, 1, 0)>>
MCGenesisBalance == ("u1" :> 1) @@ ("u2" :> 0) @@ ("u3" :> 1) @@ ("staking" :> 2) @@ ("system" :> 80)
Block(s, v, p, l) == [slashed |-> s, voters |-> v, proposer |-> p, last |-> l]
MCBlocks == {Block({}, {1, 2}, 1, 2), Block({2}, {1, 2}, 1, 0), Block({1}, {2}, 2, 1), Block({}, {2, 3}, 3, 2)}
QuietBlocks == {b \in MCBlocks : b.slashed = {}}
Nobody == [k \in {} |-> 0]
MCNominations == {Nobody, 1 :> 2, (2 :> 1) @@ (3 :> 2)}

Stake == INSTANCE Staking WITH
    Users <- {"u1", "u2", "u3"}, RpcUsers <- {}, Pubkeys <- {1, 2, 3}, RewardTargets <- {"staking"},
    Genesis <- MCGenesis, GenesisBalance <- MCGenesisBalance, Values <- {0, 1}, Rewards <- {19},
    Nominations <- MCNominations, Blocks <- MCBlocks, MaxBlocks <- 4, MaxCalls <- 1,
    InitialStakingAmount <- 0, MinimumStakingAmount <- 0, SlashedStakingAmount <- 1, MinVotes <- 1,
    MinPubkeysPercent <- 34, ProposerPercent <- 15, CollectorPercent <- 15, MaxActive <- 2,
    EpochCount <- 4, CoindayUnit <- 2, Word <- 4096,
    bal <- sBal, info <- sInfo, votes <- sVotes, phase <- sPhase

\* The same contract with eth_call among the calls, and blocks and epochs that change less.
StakeRpc == INSTANCE Staking WITH
    Users <- {"u1", "u2", "u3"}, RpcUsers <- {"u1", "u3"}, Pubkeys <- {1, 2, 3}, RewardTargets <- {"staking"},
    Genesis <- MCGenesis, GenesisBalance <- MCGenesisBalance, Values <- {0, 1}, Rewards <- {19},
    Nominations <- {Nobody}, Blocks <- QuietBlocks, MaxBlocks <- 3, MaxCalls <- 2,
    InitialStakingAmount <- 0, MinimumStakingAmount <- 0, SlashedStakingAmount <- 1, MinVotes <- 1,
    MinPubkeysPercent <- 34, ProposerPercent <- 15, CollectorPercent <- 15, MaxActive <- 2,
    EpochCount <- 4, CoindayUnit <- 2, Word <- 4096,
    bal <- sBal, info <- sInfo, votes <- sVotes, phase <- sPhase

Gas == INSTANCE MinGasPrice WITH
    Validators <- {"v1", "v2", "v3"}, Targets <- {0, 19, 20, 500, 3300}, Word <- 16384,
    DefaultMinGasPrice <- 100, MinGasPriceDeltaRate <- 5, MinGasPriceDeltaRateInBlock <- 16,
    MinGasPriceUpperBound <- 505, MinGasPriceLowerBoundOld <- 90, MinGasPriceLowerBound <- 20,
    DefaultProposalDuration <- 2, MaxTime <- 3, MaxSwitches <- 1, votes <- gVotes

\* Two outputs of a main chain of three coins, locked in different epochs.
MCEpochs == (0 :> {[utxo |-> "u", amount |-> 1, to |-> "a"]}) @@ (1 :> {})
            @@ (2 :> {[utxo |-> "v", amount |-> 2, to |-> "b"]})
CC == INSTANCE CrossChain WITH
    Users <- {"a", "b"}, Utxos <- {"u", "v"}, Epochs <- MCEpochs, BlocksInCCEpoch <- 7, FirstHeight <- 0,
    Funds <- 30, Purse <- 1, bal <- cBal

-----------------------------------------------------------------------------
\* Codec: objects of every type with small, negative and wide integers, strings of each header
\* size, nil elements and slices of different lengths.
NilCell == [nil |-> TRUE]    \* that of Codec
N1 == [Pubkey |-> "p", NominatedCount |-> 300]
N2 == [Pubkey |-> "q", NominatedCount |-> -1]
P1 == [Address |-> "a", EpochNum |-> 128, Amount |-> "m"]
P2 == [Address |-> "b", EpochNum |-> 0, Amount |-> "n"]
V1 == [Address |-> "a", Pubkey |-> "p", RewardTo |-> "b", VotingPower |-> 1, Introduction |-> 31,
       StakedCoins |-> "c", IsRetiring |-> TRUE]
V2 == [Address |-> "b", Pubkey |-> "q", RewardTo |-> "a", VotingPower |-> 70000, Introduction |-> 66000,
       StakedCoins |-> "d", IsRetiring |-> FALSE]
C1 == [UTXO |-> "u", Amount |-> 2147483647, SenderPubkey |-> "s"]
C2 == [UTXO |-> "w", Amount |-> 0, SenderPubkey |-> "r"]
Slice(s) == [n |-> Len(s), mem |-> s]
Epochs(field, a, b) ==
    {[Number |-> 1, StartHeight |-> 200, EndTime |-> 1600000000] @@ (field :> Slice(s)) :
        s \in {<<>>, <<a>>, <<b, a>>, <<NilCell, b>>}}
Info(vs, us, ps) ==
    [GenesisMainnetBlockHeight |-> -40000, CurrEpochNum |-> 2, Validators |-> Slice(vs),
     ValidatorsUpdate |-> Slice(us), PendingRewards |-> Slice(ps)]
MCValues ==
    [Nomination |-> {N1, N2}, PendingReward |-> {P1, P2}, Validator |-> {V1, V2}, CCTransferInfo |-> {C1, C2},
     CCInfo |-> {[GenesisMainnetBlockHeight |-> 1, CurrEpochNum |-> 2],
                 [GenesisMainnetBlockHeight |-> -200, CurrEpochNum |-> 100000]},
     Epoch |-> Epochs("Nominations", N1, N2), CCEpoch |-> Epochs("TransferInfos", C1, C2),
     StakingInfo |-> {Info(<<V1>>, <<>>, <<P1, P2>>), Info(<<V2, V1>>, <<V1>>, <<>>), Info(<<>>, <<NilCell>>, <<P2>>)},
     NominationHeap |-> {("" :> Slice(s)) : s \in {<<>>, <<N1>>, <<N2, NilCell>>, <<N2, N1, N1>>}}]

NoBytes == "zero"
MCZero ==
    [Nomination |-> [Pubkey |-> NoBytes, NominatedCount |-> 0],
     PendingReward |-> [Address |-> NoBytes, EpochNum |-> 0, Amount |-> NoBytes],
     Validator |-> [Address |-> NoBytes, Pubkey |-> NoBytes, RewardTo |-> NoBytes, VotingPower |-> 0,
                    Introduction |-> 0, StakedCoins |-> NoBytes, IsRetiring |-> FALSE],
     CCTransferInfo |-> [UTXO |-> NoBytes, Amount |-> 0, SenderPubkey |-> NoBytes],
     CCInfo |-> [GenesisMainnetBlockHeight |-> 0, CurrEpochNum |-> 0],
     Epoch |-> [Number |-> 0, StartHeight |-> 0, EndTime |-> 0, Nominations |-> Slice(<<>>)],
     CCEpoch |-> [Number |-> 0, StartHeight |-> 0, EndTime |-> 0, TransferInfos |-> Slice(<<>>)],
     StakingInfo |-> [GenesisMainnetBlockHeight |-> 0, CurrEpochNum |-> 0, Validators |-> Slice(<<>>),
                      ValidatorsUpdate |-> Slice(<<>>), PendingRewards |-> Slice(<<>>)],
     NominationHeap |-> ("" :> Slice(<<>>))]

Msg == INSTANCE Codec WITH Values <- MCValues, Zero <- MCZero, phase <- cPhase

\* Every table of revisions of up to three entries over five heights and three revisions.
Fork == 14444444
MCEntries == {0, 5, Fork - 1, Fork, Fork + 9} \X {6, 7, 11}
MCTables == UNION {[1..n -> MCEntries] : n \in 0..3}
Rev == INSTANCE Revisions WITH Tables <- MCTables, Heights <- {4, 5, Fork - 1, Fork, Fork + 9}

-----------------------------------------------------------------------------
\* A part that a behaviour is not about has one initial state.
PartsInit ==
    /\ part \in {"mempool", "staking", "staking_rpc", "gas_price", "crosschain", "codec", "revisions"}
    /\ Stake!Init /\ Gas!Init /\ CC!Init
    /\ IF part = "codec" THEN Msg!Init
       ELSE Msg!Init /\ T = "CCInfo" /\ mode = Msg!Stream /\ val.CurrEpochNum = 2
    /\ IF part = "revisions" THEN Rev!Init ELSE Rev!Init /\ table = <<>>
    /\ IF part = "mempool" THEN Init
       ELSE Init /\ (\A s \in Senders : acc[s].nonce = 0) /\ lastMinGasPrice = 1

PartsNext ==
    \/ part = "mempool" /\ Next /\ UNCHANGED <<part, stakeVars, gasVars, ccVars, codecVars, revVars>>
    \/ part = "staking" /\ Stake!Next /\ UNCHANGED <<part, vars, gasVars, ccVars, codecVars, revVars>>
    \/ part = "staking_rpc" /\ StakeRpc!Next /\ UNCHANGED <<part, vars, gasVars, ccVars, codecVars, revVars>>
    \/ part = "gas_price" /\ Gas!Next /\ UNCHANGED <<part, vars, stakeVars, ccVars, codecVars, revVars>>
    \/ part = "crosschain" /\ CC!Next /\ UNCHANGED <<part, vars, stakeVars, gasVars, codecVars, revVars>>
    \/ part = "codec" /\ Msg!Next /\ UNCHANGED <<part, vars, stakeVars, gasVars, ccVars, revVars>>
    \/ part = "revisions" /\ Rev!Next /\ UNCHANGED <<part, vars, stakeVars, gasVars, ccVars, codecVars>>

PartsSpec == PartsInit /\ [][PartsNext]_<<part, vars, stakeVars, gasVars, ccVars, codecVars, revVars>>

-----------------------------------------------------------------------------
\* The staking contract can pay all it owes to whom it owes it, although two copies of its account are
\* written back late (SlashAndReward) or never (SwitchEpoch): stakes and pending rewards are covered,
\* every reward belongs to a listed validator, and the parts of a fee add up to the fee.
Payable == part = "staking" => Stake!Payable

\* No coin is made beyond what a slash takes and what mature rewards pay, and none is lost unless the
\* contract itself is named as RewardTo; what is slashed is burnt, and a validator that leaves is paid.
CoinsAccounted == Stake!CoinsAccounted

\* After EndBlock Tendermint has every active validator with its power, across restarts between the
\* Commit that elects and the EndBlock that reports.
TendermintKnowsActive == part = "staking" => Stake!TendermintKnowsActive

\* Calls that fail, and calls run for an RPC, leave the voting powers in readonlyStakingInfo equal to
\* those of the world state.
ReadonlyPowersCurrent == part = "staking_rpc" => StakeRpc!ReadonlyPowersCurrent

\* The votes that executeProposal counts are those of the open proposal, each with power; the price they
\* lead to lies between them and within the bounds, although checkTarget multiplies numbers that may
\* wrap around.
PriceSound == part = "gas_price" => Gas!PriceSound

\* An epoch that is fetched again is applied once by SwitchCCEpoch, what burnBch releases is burnt, and
\* what the contract holds, what is out in outputs and what was released add up to its funds.
BooksRight == part = "crosschain" => CC!BooksRight

\* What is loaded is what was saved, whatever the object held before; a message that ends too early is
\* refused; and the estimate that MarshalMsg reserves covers the message.
RecordsSafe == part = "codec" => Msg!RecordsSafe

\* A node that starts executes every block with the revision of the last entry of the table whose
\* height the block has reached.
LastReachedApplies == part = "revisions" => Rev!LastReachedApplies

==============================================================================
