------------------------------- MODULE Ledger -------------------------------
(***************************************************************************)
(* The world state as the block life cycle sees it, and what the steps of  *)
(* a block do to it: the credits of the cross-chain feature, the fees of   *)
(* the block before, the queueing of the new transactions (Prepare), the   *)
(* block's own record, and the execution of queued transactions.           *)
(*                                                                         *)
(* The transaction engine is a library: Prepare and Execute are taken from *)
(* the way the application uses them.  What single transactions pay is     *)
(* given by constants that are additive over sets of transactions.         *)
(***************************************************************************)
EXTENDS Integers, Sequences, FiniteSets, Functions

CONSTANTS
    Txs,             \* transactions, the bytes DecodeTx rejects included
    Decodes,         \* those that DecodeTx accepts
    Validators,      \* consensus addresses
    NoValidator,     \* the zero address
    Seeds,           \* values of reorderSeed
    Order(_, _),     \* the order in which Prepare queues a set of transactions, by seed
    Prepaid(_),      \* gas limit times price, over a set of transactions
    GasFee(_),       \* the part of it that execution uses
    Gift(_),         \* coins they send to the system account
    Prices,          \* minimum gas prices
    NewPrice(_, _),  \* the minimum gas price after they ran, from the one before
    Capacity,        \* how many queued transactions one Execute gets through
    Credited,        \* coins that ProcessCCRPC credits, by height
    GenesisCoins,
    GenesisPrice,
    MaxHeight        \* bound: number of blocks

ASSUME LedgerAssumption ==
    /\ IsFiniteSet(Txs) /\ Decodes \subseteq Txs
    /\ NoValidator \notin Validators /\ Seeds # {}
    /\ Capacity \in Nat /\ GenesisCoins \in Nat /\ MaxHeight \in Nat
    /\ 0 \in Prices /\ GenesisPrice \in Prices
    /\ Credited \in [1..MaxHeight -> Nat]

\* Prepare queues exactly the transactions it accepts, each once.
ASSUME OrderAssumption ==
    \A seed \in Seeds, S \in SUBSET Txs :
        /\ Order(seed, S) \in Seq(S)
        /\ Range(Order(seed, S)) = S
        /\ \A i, j \in DOMAIN Order(seed, S) : Order(seed, S)[i] = Order(seed, S)[j] => i = j

\* A transaction uses at most the gas it has paid for; totals add up.
ASSUME GasAssumption ==
    /\ \A S \in SUBSET Txs :
          Prepaid(S) \in Nat /\ GasFee(S) \in Nat /\ Gift(S) \in Nat /\ GasFee(S) <= Prepaid(S)
    /\ \A S, T \in SUBSET Txs : S \cap T = {} =>
          /\ Prepaid(S \cup T) = Prepaid(S) + Prepaid(T)
          /\ GasFee(S \cup T) = GasFee(S) + GasFee(T)
          /\ Gift(S \cup T) = Gift(S) + Gift(T)
    /\ \A gp \in Prices, S \in SUBSET Txs : NewPrice(gp, S) \in Prices

\* A block as Tendermint hands it over: its transactions, the seed taken from its data hash, its
\* proposer, the signers of the block before it and the evidence of double signing.
BlockType == [txs : SUBSET Txs, seed : Seeds, miner : Validators,
              votes : SUBSET Validators, evidence : SUBSET Validators]

\* The distribution of one block reward by SlashAndReward.
RewardType == [collector : Validators, proposer : Validators \cup {NoValidator},
               voters : SUBSET Validators, slashed : SUBSET Validators, amount : Int]
----------------------------------------------------------------------------
\* After InitChain: no block yet, all coins with the accounts of the genesis file.
\*   height, miner: the current block's basic info        standby: the engine's queue
\*   seen: transactions whose nonce is used up            users, sys, staking: balances of the
\*   ordinary accounts, of the system account, of the staking account with the black hole
\*   minted: credits from the main chain so far           gp, lastGP: minimum gas prices
\*   rewards: by height                                   done: what each block executed
Genesis ==
    [height |-> 0, miner |-> NoValidator, standby |-> <<>>, seen |-> {},
     users |-> GenesisCoins, sys |-> 0, staking |-> 0, minted |-> 0,
     gp |-> GenesisPrice, lastGP |-> GenesisPrice, rewards |-> <<>>, done |-> <<>>]

Refund(S) == Prepaid(S) - GasFee(S)

\* ProcessCCRPC adds coins to the receivers of main chain transfers.
ProcessCCRPC(l, h) == [l EXCEPT !.users = @ + Credited[h], !.minted = @ + Credited[h]]

\* The invariant check for fund safe of getBlockRewardAndUpdateSysAcc, and the SubSystemAccBalance
\* before it, which panics too.
FundsSuffice(l, gas) == gas.refund <= l.sys /\ gas.fee <= l.sys - gas.refund

\* The fee of the last block, or all of the system account if no transaction waits in standbyQ.
blockReward(l, gas) == IF l.standby = <<>> THEN l.sys - gas.refund ELSE gas.fee

getBlockRewardNoRefund(l, gas) == [l EXCEPT !.sys = l.sys - blockReward(l, gas)]

\* The system account after the refunds and the reward are taken from it.
getBlockRewardAndUpdateSysAcc(l, gas) ==
    [l EXCEPT !.sys = l.sys - gas.refund - blockReward(l, gas)]

\* SlashAndReward books the reward on the staking account, burns half of it, and divides the rest
\* among the collector (proposer of this block), the last proposer and the last voters.
\* The black hole counts as part of the staking account: how the coins, slashed ones included, move
\* between the two and the validators' rewards is not told apart here.
SlashAndReward(l, amount, collector, proposer, voters, slashed) ==
    [l EXCEPT !.staking = @ + amount,
              !.rewards = Append(@, [collector |-> collector, proposer |-> proposer,
                                     voters |-> voters, slashed |-> slashed, amount |-> amount])]

updateValidatorsAndStakingInfo(l, gas, collector, proposer, voters, slashed) ==
    SlashAndReward(getBlockRewardAndUpdateSysAcc(l, gas), blockReward(l, gas),
                   collector, proposer, voters, slashed)

\* Prepare takes the collected transactions whose nonce is not used up, charges their senders for
\* all the gas they may use, and queues them.
Prepare(l, collected, seed) ==
    LET accepted == collected \ l.seen
    IN  [l EXCEPT !.standby = @ \o Order(seed, accepted),
                  !.seen = @ \cup accepted,
                  !.users = @ - Prepaid(accepted),
                  !.sys = @ + Prepaid(accepted)]

\* refresh records the block and makes the current minimum gas price the last one.
SetCurrBlock(l, h, miner) ==
    [l EXCEPT !.height = h, !.miner = miner, !.lastGP = l.gp]

NoGas == [refund |-> 0, fee |-> 0, txs |-> <<>>]

runLen(l) == IF Len(l.standby) <= Capacity THEN Len(l.standby) ELSE Capacity
running(l) == SubSeq(l.standby, 1, runLen(l))

\* Execute runs the head of the queue.  Unused gas goes back to the senders at once, while
\* the system account gives it up only in the next Commit.
Execute(l) ==
    [l EXCEPT !.standby = SubSeq(@, runLen(l) + 1, Len(@)),
              !.users = @ + Refund(Range(running(l))) - Gift(Range(running(l))),
              !.sys = @ + Gift(Range(running(l))),
              !.gp = NewPrice(@, Range(running(l))),
              !.done = Append(@, running(l))]

\* GasUsedInfo and CommittedTxs of the engine after Execute.
GasUsedInfo(l) ==
    [refund |-> Refund(Range(running(l))), fee |-> GasFee(Range(running(l))), txs |-> running(l)]
=============================================================================
