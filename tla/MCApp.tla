------------------------------- MODULE MCApp --------------------------------
(***************************************************************************)
(* Instances of App for TLC: three transactions and bytes that do not      *)
(* decode, two validators, blocks that overlap in their transactions.      *)
(***************************************************************************)
EXTENDS App, SequencesExt

CONSTANTS t1, t2, t3, bad, v1, v2

MCTxs == {t1, t2, t3, bad}
MCDecodes == {t1, t2, t3}
MCOrder(seed, S) == IF seed = 0 THEN SetToSeq(S) ELSE Reverse(SetToSeq(S))

\* t1 uses half its gas, t2 all of it, t3 none; t2 sends a coin to the system account and t3 raises
\* the minimum gas price.
MCPrepaid(S) == SumFunctionOnSet([tx \in S |-> 2], S)
MCGasFee(S) == SumFunctionOnSet([tx \in S |-> IF tx = t1 THEN 1 ELSE IF tx = t2 THEN 2 ELSE 0], S)
MCGift(S) == IF t2 \in S THEN 1 ELSE 0
MCNewPrice(gp, S) == IF t3 \in S THEN 2 ELSE gp

MCCredited == [h \in 1..MaxHeight |-> IF h = 2 THEN 5 ELSE 0]

Block(txs, seed, miner, votes, evidence) ==
    [txs |-> txs, seed |-> seed, miner |-> miner, votes |-> votes, evidence |-> evidence]

MCBlocks == {Block({t1, t2}, 0, v1, {}, {}),
             Block({t2, t3, bad}, 1, v2, {}, {}),
             Block({t3}, 1, v2, {v1, v2}, {v1}),
             Block({t1, t2, t3}, 1, v1, {v1}, {}),
             Block({}, 0, v1, {v2}, {})}

\* Fewer blocks, for the liveness properties.
LiveBlocks == {Block({t1, t2}, 0, v1, {}, {}), Block({t3, bad}, 1, v2, {}, {}), Block({}, 0, v1, {}, {})}
=============================================================================
