----------------------------- MODULE CrossChain -----------------------------
(***************************************************************************)
(* The contract of the first cross-chain scheme (crosschain/cc.go): coins  *)
(* locked in outputs of the main chain are paid out of the contract's      *)
(* account, and outputs are redeemed by paying back, or released against   *)
(* coins burnt.  Amounts are counted in units of 10^10 wei, the satoshi of *)
(* the main chain.                                                         *)
(***************************************************************************)
EXTENDS Integers, FiniteSets

CONSTANTS
    Users, Utxos,
    Epochs,             \* the epochs of the main chain, by number from 0: sets of [utxo, amount, to]
    BlocksInCCEpoch, FirstHeight,   \* blocks of an epoch; main chain height of the first
    Funds,              \* what the contract's account is funded with
    Purse               \* what every user has at first

Contract == "cc"
Hole == "hole"          \* ebp's account of burnt coins

VARIABLES
    bal, utxo,          \* balances; amounts in the UTXO slots, 0 where there is none
    mainnetBurnt,       \* SlotBCHAlreadyBurnt
    CurrEpochNum,       \* of CCInfo
    switched,           \* numbers of the epochs applied, in order: 0, 1, ... or a repeat
    next,               \* the watcher's next epoch
    short               \* a payment of SwitchCCEpoch has failed

vars == <<bal, utxo, mainnetBurnt, CurrEpochNum, switched, next, short>>

Init ==
    /\ bal = [a \in Users \cup {Contract, Hole} |-> IF a = Contract THEN Funds ELSE IF a = Hole THEN 0 ELSE Purse]
    /\ utxo = [u \in Utxos |-> 0] /\ mainnetBurnt = 0 /\ CurrEpochNum = 0 /\ switched = {} /\ next = 0
    /\ short = FALSE

\* transferBch, in a record of balances.
transferBch(b, from, to, value) ==
    IF value > 0 THEN [b EXCEPT ![from] = @ - value, ![to] = @ + value] ELSE b

\* An output is redeemed with its amount and forgotten.
consumeUTXO(u, value) == utxo[u] = value /\ utxo' = [utxo EXCEPT ![u] = 0]

\* A call that fails leaves nothing behind.
transferBchToMainnet(from, u, value) ==
    /\ consumeUTXO(u, value) /\ bal[from] >= value /\ bal' = transferBch(bal, from, Contract, value)
    /\ UNCHANGED <<mainnetBurnt, CurrEpochNum, switched, next, short>>

UpdateBchBurnt(amount) == bal[Hole] >= mainnetBurnt + amount /\ mainnetBurnt' = mainnetBurnt + amount

\* A slip: the output stays.
burnBchKeeps(u) ==
    /\ UpdateBchBurnt(utxo[u])
    /\ UNCHANGED <<bal, utxo, CurrEpochNum, switched, next, short>>

burnBch(u) ==
    /\ UpdateBchBurnt(utxo[u]) /\ utxo' = [utxo EXCEPT ![u] = 0]
    /\ UNCHANGED <<bal, CurrEpochNum, switched, next, short>>

\* Coins are sent to the account of burnt coins.
BurnCoins(from) ==
    /\ bal[from] > 0 /\ bal' = transferBch(bal, from, Hole, 1)
    /\ UNCHANGED <<utxo, mainnetBurnt, CurrEpochNum, switched, next, short>>

\* "convert BCH decimals from 8 to 18": 10e10 wei for a satoshi of 10^10.
Value(amount) == amount * 10

StartHeight(e) == FirstHeight + e * BlocksInCCEpoch

\* CCInfo's GenesisMainnetBlockHeight, which nothing sets.
GenesisMainnetBlockHeight == 0

Skips(e) == StartHeight(e) < GenesisMainnetBlockHeight + CurrEpochNum * BlocksInCCEpoch

\* SwitchCCEpoch with an epoch of at most one transfer; the output is saved even if the contract
\* cannot pay.
SwitchCCEpoch(e) ==
    IF Skips(e) THEN UNCHANGED <<bal, utxo, CurrEpochNum, switched, short>>
    ELSE /\ \A t \in Epochs[e] :
              LET v == Value(t.amount)
              IN  /\ utxo' = [utxo EXCEPT ![t.utxo] = v]
                  /\ IF bal[Contract] < v THEN short' = TRUE /\ bal' = bal
                     ELSE short' = short /\ bal' = transferBch(bal, Contract, t.to, v)
         /\ Epochs[e] = {} => UNCHANGED <<bal, utxo, short>>
         /\ CurrEpochNum' = CurrEpochNum + 1 /\ switched' = switched \cup {<<CurrEpochNum, e>>}

\* The watcher hands over the next epoch, or one that it has fetched again.
NewEpoch ==
    \E e \in {next, next - 1} \cap DOMAIN Epochs :
       SwitchCCEpoch(e) /\ next' = (IF e = next THEN next + 1 ELSE next) /\ UNCHANGED mainnetBurnt

Next ==
    \/ \E from \in Users, u \in Utxos : transferBchToMainnet(from, u, utxo[u])
    \/ \E u \in Utxos : burnBch(u)
    \/ \E from \in Users : BurnCoins(from)
    \/ NewEpoch

Spec == Init /\ [][Next]_vars

-----------------------------------------------------------------------------
\* The outputs released against burnt coins never exceed the coins burnt ("burn more bch than reality").
BurntCovered == mainnetBurnt <= bal[Hole]

\* Every output that can be redeemed or released is backed: what the contract holds, what is out in
\* outputs and what was released add up to its funds, over any order of epochs, redemptions and burns.
RECURSIVE Outstanding(_)
Outstanding(S) == IF S = {} THEN 0 ELSE LET u == CHOOSE u \in S : TRUE IN utxo[u] + Outstanding(S \ {u})
Backed == ~ short => bal[Contract] + Outstanding(Utxos) + mainnetBurnt = Funds

\* An epoch that is fetched again is applied once ("so filter these cc epochs here").
EpochsOnce == \A p \in switched : p[1] = p[2]

\* The books of the contract are right, whatever is fetched again, redeemed or burnt in between.
BooksRight == Backed /\ EpochsOnce /\ BurntCovered

\* "never in here if mainnet is honest": a contract funded with all coins of the main chain can pay
\* every epoch.
NeverShort == ~ short

==============================================================================
