------------------------------- MODULE CheckTx -------------------------------
(***************************************************************************)
(* Admission of transactions to the mempool: CheckTx with its signature     *)
(* cache and the frontier of nonces, balances and gas that Commit hands     *)
(* over, the rechecks that Tendermint asks for after a block, restarts.     *)
(***************************************************************************)
EXTENDS Integers, Sequences, FiniteSets

CONSTANTS
    Senders,
    Txs,                \* [id, sender, nonce, gas, price, value]
    Accounts,           \* accounts a block may leave a sender with: [nonce, bal]
    MaxGasPrice, MaxTxGasLimit, IntrinsicGas, FrontierGasLimit, MinPrices,
    SigCacheSize, EvictSteps, RecheckThreshold,
    MaxHeight           \* bound: blocks

ASSUME TxsAssumption ==
    \A tx \in Txs : tx.sender \in Senders /\ {tx.nonce, tx.gas, tx.price, tx.value} \subseteq Nat
ASSUME AccountsAssumption == \A a \in Accounts : a.nonce \in Nat /\ a.bal \in Nat
ASSUME LimitsAssumption ==
    {MaxGasPrice, MaxTxGasLimit, IntrinsicGas, FrontierGasLimit, SigCacheSize, EvictSteps} \subseteq Nat

VARIABLES
    acc,                \* accounts as of the last Commit
    frontier,           \* what Prepare and CheckTx have recorded, [on, nonce, bal, gas]
    start,              \* the frontier that Commit handed over
    tally,              \* what was admitted since then: [n, fees, gas] per sender
    mempool, recheck,   \* the mempool, and how many of its transactions are still to be rechecked
    recheckCounter, sigCache, currHeight, lastMinGasPrice

vars == <<acc, frontier, start, tally, mempool, recheck, recheckCounter, sigCache, currHeight, lastMinGasPrice>>

Nothing == [s \in Senders |-> [n |-> 0, fees |-> 0, gas |-> 0]]
Unknown == [on |-> FALSE, nonce |-> 0, bal |-> 0, gas |-> 0]

\* The caches that may result: of the first entries of the iteration the oldest one goes.
sigCacheAdd(cache, tx) ==
    LET seen == {S \in SUBSET cache : Cardinality(S) = IF Cardinality(cache) < EvictSteps
                                                       THEN Cardinality(cache) ELSE EvictSteps}
        evicted == IF Cardinality(cache) > SigCacheSize
                   THEN {cache \ {e} : e \in {e \in cache : \E S \in seen : e \in S /\ \A f \in S : e.height <= f.height}}
                   ELSE {cache}
    IN  {c \cup {[id |-> tx.id, height |-> currHeight]} : c \in evicted}

Least(a, b) == IF a < b THEN a ELSE b
Fee(tx) == Least(tx.price, MaxGasPrice) * tx.gas

\* What checkTxWithContext finds before it decides: the sender's record, made from the account if
\* there is none.
Known(tx) ==
    LET f == frontier[tx.sender]
    IN  IF f.on THEN f ELSE [f EXCEPT !.nonce = acc[tx.sender].nonce, !.bal = acc[tx.sender].bal]

\* Gas of the first transaction found since the block does not count.
GasWith(tx) == frontier[tx.sender].gas + (IF frontier[tx.sender].on THEN tx.gas ELSE 0)

checkGasLimit(tx) == tx.gas >= IntrinsicGas /\ tx.gas <= MaxTxGasLimit

Accepts(tx) ==
    /\ checkGasLimit(tx) /\ tx.nonce = Known(tx).nonce
    /\ Least(tx.price, MaxGasPrice) >= lastMinGasPrice
    /\ Known(tx).bal >= Fee(tx) /\ GasWith(tx) <= FrontierGasLimit

\* A slip: the value is taken from the balance, the fee is not.
AdvancedFree(tx) ==
    [on |-> TRUE, nonce |-> tx.nonce + 1, gas |-> GasWith(tx),
     bal |-> IF Known(tx).bal < tx.value THEN 0 ELSE Known(tx).bal - tx.value]

\* A slip: the gas is not recorded.
AdvancedNoGas(tx) ==
    LET left == Known(tx).bal - Fee(tx)
    IN  [on |-> TRUE, nonce |-> tx.nonce + 1, gas |-> frontier[tx.sender].gas,
         bal |-> IF left < tx.value THEN 0 ELSE left - tx.value]

\* The record after an admission.
Advanced(tx) ==
    LET left == Known(tx).bal - Fee(tx)
    IN  [on |-> TRUE, nonce |-> tx.nonce + 1, gas |-> GasWith(tx),
         bal |-> IF left < tx.value THEN 0 ELSE left - tx.value]

checkTxWithContext(tx) ==
    IF Accepts(tx) THEN /\ frontier' = [frontier EXCEPT ![tx.sender] = Advanced(tx)]
                        /\ tally' = [tally EXCEPT ![tx.sender] =
                                [n |-> @.n + 1, fees |-> @.fees + Fee(tx), gas |-> @.gas + tx.gas]]
    ELSE UNCHANGED <<frontier, tally>>

RecoverSender(tx) ==
    IF \E e \in sigCache : e.id = tx.id THEN UNCHANGED sigCache ELSE sigCache' \in sigCacheAdd(sigCache, tx)

-----------------------------------------------------------------------------
Init ==
    /\ acc \in [Senders -> Accounts] /\ frontier = [s \in Senders |-> Unknown] /\ start = frontier
    /\ tally = Nothing /\ mempool = <<>> /\ recheck = 0 /\ recheckCounter = 0 /\ sigCache = {}
    /\ currHeight = 1 /\ lastMinGasPrice \in MinPrices

\* A new transaction; the mempool does not pass on one that it holds.
CheckNewTx(tx) ==
    /\ recheck = 0 /\ \A i \in DOMAIN mempool : mempool[i] # tx
    /\ recheckCounter <= RecheckThreshold
    /\ RecoverSender(tx) /\ checkTxWithContext(tx)
    /\ mempool' = IF Accepts(tx) THEN Append(mempool, tx) ELSE mempool
    /\ UNCHANGED <<acc, start, recheck, recheckCounter, currHeight, lastMinGasPrice>>

\* A slip: a transaction is kept whatever its recheck says.
RecheckKeeps ==
    /\ recheck > 0
    /\ LET tx == mempool[Len(mempool) - recheck + 1] IN RecoverSender(tx) /\ checkTxWithContext(tx)
    /\ mempool' = mempool /\ recheck' = recheck - 1 /\ recheckCounter' = recheckCounter + 1
    /\ UNCHANGED <<acc, start, currHeight, lastMinGasPrice>>

\* Tendermint asks again for what is left in the mempool, in order, and drops what is refused.
RecheckTx ==
    /\ recheck > 0
    /\ LET at == Len(mempool) - recheck + 1
           tx == mempool[at]
       IN  /\ RecoverSender(tx) /\ checkTxWithContext(tx)
           /\ mempool' = IF Accepts(tx) THEN mempool
                         ELSE SubSeq(mempool, 1, at - 1) \o SubSeq(mempool, at + 1, Len(mempool))
    /\ recheck' = recheck - 1 /\ recheckCounter' = recheckCounter + 1
    /\ UNCHANGED <<acc, start, currHeight, lastMinGasPrice>>

\* Prepare's record for senders of waiting transactions: at or past the account's nonce.
Handed == {Unknown} \cup {[on |-> TRUE, nonce |-> a.nonce, bal |-> a.bal, gas |-> 1] : a \in Accounts}

\* A block is committed: it takes a first part of the mempool, and leaves the accounts, the record of
\* Prepare and the gas price as whatever the transactions in it and those of other nodes make of them.
Commit ==
    /\ recheck = 0 /\ currHeight < MaxHeight /\ currHeight' = currHeight + 1
    /\ \E k \in 0..Len(mempool) : mempool' = SubSeq(mempool, k + 1, Len(mempool)) /\ recheck' = Len(mempool) - k
    /\ acc' \in [Senders -> Accounts] /\ frontier' \in [Senders -> Handed]
    /\ \A s \in Senders : acc'[s].nonce >= acc[s].nonce
                             /\ (frontier'[s].on => frontier'[s].nonce >= acc'[s].nonce)
    /\ start' = frontier' /\ tally' = Nothing /\ recheckCounter' = 0
    /\ lastMinGasPrice' \in MinPrices /\ UNCHANGED sigCache

\* The process is started again: mempool, cache and frontier are those of NewApp.
Restart ==
    /\ frontier' = [s \in Senders |-> Unknown] /\ start' = frontier' /\ tally' = Nothing
    /\ mempool' = <<>> /\ recheck' = 0 /\ recheckCounter' = 0 /\ sigCache' = {}
    /\ UNCHANGED <<acc, currHeight, lastMinGasPrice>>

Next == (\E tx \in Txs : CheckNewTx(tx)) \/ RecheckTx \/ Commit \/ Restart

Spec == Init /\ [][Next]_vars

-----------------------------------------------------------------------------
Of(s, txs) == SelectSeq(txs, LAMBDA tx : tx.sender = s)
First(s) == IF start[s].on THEN start[s] ELSE [Unknown EXCEPT !.nonce = acc[s].nonce, !.bal = acc[s].bal]

\* When no recheck is pending, the transactions of a sender in the mempool have consecutive nonces from
\* the one that the next block expects: blocks that took others in between leave no gap and no double.
MempoolContiguous ==
    recheck = 0 => \A s \in Senders : LET mine == Of(s, mempool)
                                      IN  \A i \in DOMAIN mine : mine[i].nonce = First(s).nonce + i - 1

\* The fees of all that a sender got admitted since a block can be paid from its balance at that
\* block, whatever was refused in between ("failed to deduct tx fee").
FeesCovered == \A s \in Senders : tally[s].fees <= First(s).bal

\* The gas that a sender gets admitted between two blocks is limited, but for the first transaction of
\* a sender that has none waiting ("We do not count in the gas of the first tx found during CheckTx").
GasLimited ==
    \A s \in Senders : tally[s].n > 0 =>
       start[s].gas + tally[s].gas <= FrontierGasLimit + (IF start[s].on THEN 0 ELSE MaxTxGasLimit)

\* The cache stays within one entry of its size, at any order of hits, misses and evictions.
SigCacheBounded == Cardinality(sigCache) <= SigCacheSize + 1

\* What CheckTx takes on between two blocks is limited, in gas per sender and in cached signatures.
Limited == GasLimited /\ SigCacheBounded

==============================================================================
