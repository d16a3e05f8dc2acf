--------------------------- MODULE SequentialNode ---------------------------
(***************************************************************************)
(* What the block life cycle promises: a node that takes the decided       *)
(* blocks one by one and does all the work of a block in one step, without *)
(* goroutines, caches, mutex or crashes.  Its state is the world state     *)
(* after the last block was executed and what that execution left for the  *)
(* next block to settle.                                                   *)
(***************************************************************************)
EXTENDS Ledger

CONSTANT Blocks  \* the blocks Tendermint may decide

VARIABLES
    chain,  \* the blocks decided so far
    ledger, \* world state after the execution of the last block taken
    gas     \* refund, fee and transactions of that execution

\* The work of block b: Commit from the state l that the last execution left, with its gas totals.
CommitBlock(l, g, b) ==
    LET h       == l.height + 1
        settled == updateValidatorsAndStakingInfo(ProcessCCRPC(l, h), g, b.miner, l.miner,
                                                  b.votes, b.evidence)
    IN  SetCurrBlock(Prepare(settled, b.txs \cap Decodes, b.seed), h, b.miner)

Init ==
    /\ chain = <<>>
    /\ ledger = Genesis
    /\ gas = NoGas

\* Nobody has signed a block before the first one.
Decide(b) ==
    /\ Len(chain) < MaxHeight
    /\ chain = <<>> => b.votes = {}
    /\ chain' = Append(chain, b)
    /\ UNCHANGED <<ledger, gas>>

TakeBlock ==
    /\ ledger.height < Len(chain)
    /\ LET committed == CommitBlock(ledger, gas, chain[ledger.height + 1])
       IN  /\ ledger' = Execute(committed)
           /\ gas' = GasUsedInfo(committed)
    /\ UNCHANGED chain

Next == TakeBlock \/ \E b \in Blocks : Decide(b)

Spec == Init /\ [][Next]_<<chain, ledger, gas>>
=============================================================================
