------------------------------- MODULE Staking -------------------------------
(***************************************************************************)
(* The staking contract: the validators and their stakes, the fees of the  *)
(* blocks as pending rewards, slashing, the switch of an epoch, and what   *)
(* Tendermint is told of the validator set.                                *)
(*                                                                         *)
(* The accounts are read and written through a context: GetAccount gives a *)
(* copy, SetAccount stores one.  The order in which the code reads, writes *)
(* and drops such copies is kept, because it decides where coins go.  A    *)
(* system contract call that reports failure leaves no change in the world *)
(* state (the engine's business), but what it did to a global stays.       *)
(***************************************************************************)
EXTENDS Integers, Sequences, FiniteSets, SequencesExt, FiniteSetsExt, Functions, TLC

CONSTANTS
    Users,          \* accounts that call the contract; an account is a string
    RpcUsers,       \* those among them that also call it by eth_call
    Pubkeys,        \* consensus keys, numbered in the order of their bytes
    RewardTargets,  \* accounts a validator may name as RewardTo
    Genesis,        \* the genesis validators, a sequence
    GenesisBalance, \* balances at genesis, of Users and of the contract, which holds what Genesis lists as staked
    Values,         \* coins sent along with a call
    Blocks,         \* what a block may report: slashed, voters, its and the last proposer
    Rewards,        \* what getBlockRewardAndUpdateSysAcc may hand out at a Commit
    Nominations,    \* what an epoch may carry: functions from keys to counts
    InitialStakingAmount, MinimumStakingAmount, SlashedStakingAmount,
    MinVotes,       \* StakingNumBlocksInEpoch * StakingMinVotingPercentPerEpoch / 100
    MinPubkeysPercent, ProposerPercent, CollectorPercent,
    MaxActive,      \* MaxActiveValidatorCount
    EpochCount,     \* len(mainEndTimes): no epochs are switched afterwards
    CoindayUnit,
    Word,           \* 2^256
    MaxBlocks,      \* bound: blocks
    MaxCalls        \* bound: contract calls and votes

Contract == "staking"
BlackHole == "blackhole"
System == "system"
Zero == "zero"      \* the zero address, and the zero key of no proposer
NoKey == 0

Holders == Users \cup RewardTargets \cup {Contract, BlackHole, System, Zero}

VARIABLES
    bal,        \* balances
    info,       \* the StakingInfo of the world state
    allBurnt,   \* SlotAllBurnt
    readonly,   \* readonlyStakingInfo, the global that sumVotingPower reads
    root,       \* the StakingInfo of the last Commit, which RPC contexts read
    votes,      \* the xHedge contract's votes, key -> coindays times CoindayUnit
    update,     \* app.validatorUpdate
    tendermint, \* Tendermint's validator set, key -> power
    phase, blocks, calls

vars == <<bal, info, allBurnt, readonly, root, votes, update, tendermint, phase, blocks, calls>>

-----------------------------------------------------------------------------
\* uint256 arithmetic: Sub wraps around, a division by zero gives zero.
Sub(a, b) == (a - b) % Word
Div(a, b) == IF b = 0 THEN 0 ELSE a \div b

SumOf(s, Val(_)) == FoldLeft(LAMBDA acc, e : acc + Val(e), 0, s)
Empty == [x \in {} |-> 0]

ByAddr(inf, a) == SelectInSeq(inf.vals, LAMBDA v : v.addr = a)
ByPubkey(inf, k) == SelectInSeq(inf.vals, LAMBDA v : v.pk = k)
Listed(inf) == {inf.vals[i].pk : i \in DOMAIN inf.vals}
PowerOf(inf, k) == inf.vals[ByPubkey(inf, k)].power

GetActiveValidators(vals) ==
    LET res == SelectSeq(vals, LAMBDA v :
                   v.staked >= MinimumStakingAmount /\ ~v.retiring /\ v.power > 0)
        Before(i, j) == res[i].power > res[j].power \/ (res[i].power = res[j].power /\ i < j)
        At(n) == CHOOSE i \in DOMAIN res : Cardinality({j \in DOMAIN res : Before(j, i)}) = n - 1
    IN  [n \in 1..Min({Len(res), MaxActive}) |-> res[At(n)]]

\* What has to change so that curr becomes new: key -> power, 0 for a removal.
GetUpdateValidatorSet(curr, new) ==
    LET gone == {v \in Range(curr) : \A u \in Range(new) : u.addr # v.addr}
        changed == {v \in Range(new) : \A u \in Range(curr) : u.addr = v.addr => u.power # v.power}
    IN  [k \in {v.pk : v \in gone \cup changed} |->
            IF \E v \in gone : v.pk = k THEN 0 ELSE (CHOOSE v \in changed : v.pk = k).power]

-----------------------------------------------------------------------------
\* ebp.TransferFromSenderAccToBlackHoleAcc from the contract; its error is not looked at.
Burn(b, amount) ==
    IF b[Contract] < amount THEN b
    ELSE [b EXCEPT ![Contract] = @ - amount, ![BlackHole] = @ + amount]

RewardsOf(inf, a) == SelectSeq(inf.pend, LAMBDA r : r.addr = a)

ClearRewardsOf(inf, a) ==
    LET kept == SelectSeq(inf.pend, LAMBDA r : r.addr # a \/ r.epoch = inf.epoch)
    IN  [i \in DOMAIN kept |-> IF kept[i].addr = a THEN [kept[i] EXCEPT !.amount = 0] ELSE kept[i]]

\* w is the part of the world state that a Commit works on: balances, info and burnt.
Slash(w, pk) ==
    LET i == ByPubkey(w.info, pk)
        val == w.info.vals[i]
        taken == Min({val.staked, SlashedStakingAmount})
        total == taken + SumOf(RewardsOf(w.info, val.addr), LAMBDA r : r.amount)
    IN  [bal   |-> Burn(w.bal, total),
         info  |-> [w.info EXCEPT !.vals[i].staked = @ - taken,
                                  !.pend = ClearRewardsOf(w.info, val.addr)],
         burnt |-> w.burnt + total]

\* How a fee is cut up: half of it burnt, then the proposer's base and the collector's share, if
\* there is a proposer, and the rest by voting power; what rounding leaves goes to the proposer.
FeeShares(inf, fee, proposer, voters) ==
    LET half == fee \div 2
        kept == fee - half
        total == SumOf(GetActiveValidators(inf.vals), LAMBDA v : v.power)
        voted == FoldSet(LAMBDA k, acc : acc + PowerOf(inf, k), 0, voters)
        base == IF proposer = NoKey THEN 0 ELSE (kept * ProposerPercent) \div 100
        coll == IF proposer = NoKey THEN 0
                ELSE Div((kept - base) * CollectorPercent * voted, 100 * total)
        shared == Sub(kept - base, coll)
        share == [k \in voters \ {proposer} |-> Div(shared * PowerOf(inf, k), voted)]
        rest == Sub(shared, FoldSet(LAMBDA k, acc : acc + share[k], 0, DOMAIN share))
    IN  [half |-> half, base |-> base, coll |-> coll, share |-> share, rest |-> rest]

\* The reward entry of the current epoch is looked up among the first n entries: the map of entries
\* is built before the distribution and not extended by it.
distributeToValidator(inf, n, coins, pk) ==
    LET a == inf.vals[ByPubkey(inf, pk)].addr
        entries == {i \in 1..n : inf.pend[i].addr = a /\ inf.pend[i].epoch = inf.epoch}
    IN  IF entries = {}
        THEN [inf EXCEPT !.pend = Append(@, [addr |-> a, epoch |-> inf.epoch, amount |-> coins])]
        ELSE [inf EXCEPT !.pend[Max(entries)].amount = @ + coins]

\* before is the balance in the copy of the contract's account that was read before the slashing.
DistributeFee(w, before, fee, collector, proposer, voters) ==
    LET s == FeeShares(w.info, fee, proposer, voters)
        n == Len(w.info.pend)
        pay(inf, k, coins) == IF k = NoKey THEN inf ELSE distributeToValidator(inf, n, coins, k)
        shared == FoldSet(LAMBDA k, inf : pay(inf, k, s.share[k]), w.info, DOMAIN s.share)
        burnt1 == Burn([w.bal EXCEPT ![Contract] = before + fee], s.half)
        burnt2 == IF proposer = NoKey THEN Burn(burnt1, s.rest) ELSE burnt1
    IN  [w EXCEPT
           !.info = pay(pay(shared, proposer, s.base + s.rest), collector, s.coll),
           !.bal = IF collector = NoKey THEN Burn(burnt2, s.coll) ELSE burnt2]

Known(inf, k) == IF k \in Listed(inf) THEN k ELSE NoKey

SlashAndReward(w, slashed, curr, last, voters, fee) ==
    LET slashedW == FoldSet(LAMBDA k, x : Slash(x, k), w, slashed \cap Listed(w.info))
    IN  DistributeFee(slashedW, w.bal[Contract], fee, Known(w.info, curr), Known(w.info, last),
                      voters \cap Listed(w.info))

-----------------------------------------------------------------------------
\* The coins that go to each account when the rewards in mature are paid, or stakes paid back.
Credit(b, s, To(_), Amount(_)) ==
    [a \in DOMAIN b |-> b[a] + SumOf(SelectSeq(s, LAMBDA e : To(e) = a), Amount)]

Mature(inf, r) == r.epoch < inf.epoch - 1

\* A slip: rewards paid stay on the list.
deliverKeepingRewards(b, inf) ==
    LET mature == SelectSeq(inf.pend, LAMBDA r : Mature(inf, r))
        To(r) == inf.vals[ByAddr(inf, r.addr)].rewardTo
        Amount(r) == r.amount
    IN  [bal |-> Credit(b, mature, To, Amount), acc |-> Sub(b[Contract], SumOf(mature, Amount)), info |-> inf]

\* The result's bal has the credits; acc is what the contract's account, a copy, then holds.
deliverMintRewardInEpoch(b, inf) ==
    LET mature == SelectSeq(inf.pend, LAMBDA r : Mature(inf, r))
        To(r) == inf.vals[ByAddr(inf, r.addr)].rewardTo
        Amount(r) == r.amount
    IN  [bal  |-> Credit(b, mature, To, Amount),
         acc  |-> Sub(b[Contract], SumOf(mature, Amount)),
         info |-> [inf EXCEPT !.pend = SelectSeq(@, LAMBDA r : ~Mature(inf, r))]]

\* The keys elected: proof-of-work nominations, scaled to the coindays of the votes, plus votes.
getPubkey2Power(inf, noms, posVotes) ==
    LET eligible == {v.pk : v \in {u \in Range(inf.vals) : ~u.retiring}}
        pow == [k \in DOMAIN noms \cap eligible |-> noms[k]]
        pos == [k \in DOMAIN posVotes \cap eligible |-> posVotes[k]]
        Total(f) == FoldFunction(LAMBDA x, y : x + y, 0, f)
        Scaled(k) == IF Total(pos) > 0 THEN (Total(pos) * pow[k]) \div Total(pow) ELSE pow[k]
        At(f, k, Val(_)) == IF k \in DOMAIN f THEN Val(k) ELSE 0
        sum == [k \in DOMAIN pow \cup DOMAIN pos |-> At(pos, k, LAMBDA x : pos[x]) + At(pow, k, Scaled)]
        Better(i, j) == sum[i] > sum[j] \/ (sum[i] = sum[j] /\ i < j)
    IN  [total   |-> Total(pow),
         elected |-> {k \in DOMAIN sum : Cardinality({j \in DOMAIN sum : Better(j, k)}) < MaxActive}]

checkEpoch(inf, votedFor) ==
    /\ votedFor.total >= MinVotes
    /\ Cardinality(votedFor.elected)
          >= (Len(GetActiveValidators(inf.vals)) * MinPubkeysPercent) \div 100

updatePendingRewardsInNewEpoch(active, inf) ==
    [inf EXCEPT !.pend = @ \o [i \in DOMAIN active |->
                                  [addr |-> active[i].addr, epoch |-> inf.epoch, amount |-> 0]]]

updateVotingPower(inf, elected) ==
    LET power(v) == IF v.pk \in elected /\ ~v.retiring /\ v.staked >= MinimumStakingAmount
                    THEN 1 ELSE 0
    IN  [inf EXCEPT !.vals = [i \in DOMAIN inf.vals |->
                                 [inf.vals[i] EXCEPT !.power = power(inf.vals[i])]]]

Useless(inf, v) == v.power = 0 /\ RewardsOf(inf, v.addr) = <<>>

\* A slip: the stakes paid back stay in the contract's account.
clearUselessUnpaid(d) ==
    LET useless == SelectSeq(d.info.vals, LAMBDA v : Useless(d.info, v))
        Staked(v) == v.staked
    IN  [bal  |-> [Credit(d.bal, useless, LAMBDA v : v.rewardTo, Staked) EXCEPT ![Contract] = d.acc],
         info |-> [d.info EXCEPT !.vals = SelectSeq(@, LAMBDA v : ~Useless(d.info, v))]]

\* d is what deliverMintRewardInEpoch left: the credits, the account's copy and the info.
clearUselessValidators(d) ==
    LET useless == SelectSeq(d.info.vals, LAMBDA v : Useless(d.info, v))
        Staked(v) == v.staked
    IN  [bal  |-> [Credit(d.bal, useless, LAMBDA v : v.rewardTo, Staked)
                      EXCEPT ![Contract] = Sub(d.acc, SumOf(useless, Staked))],
         info |-> [d.info EXCEPT !.vals = SelectSeq(@, LAMBDA v : ~Useless(d.info, v))]]

\* An epoch that is not valid keeps the validators: new is then nil, and the copy of the contract's
\* account, from which the rewards were subtracted, is dropped.
SwitchEpoch(w, noms, posVotes) ==
    LET d == deliverMintRewardInEpoch(w.bal, [w.info EXCEPT !.epoch = @ + 1])
        votedFor == getPubkey2Power(d.info, noms, posVotes)
        old == GetActiveValidators(d.info.vals)
        c == clearUselessValidators([d EXCEPT !.info = updateVotingPower(d.info, votedFor.elected)])
        active == GetActiveValidators(c.info.vals)
    IN  IF checkEpoch(d.info, votedFor)
        THEN [bal |-> c.bal, info |-> updatePendingRewardsInNewEpoch(active, c.info),
              valid |-> TRUE, new |-> active]
        ELSE [bal |-> d.bal, info |-> updatePendingRewardsInNewEpoch(old, d.info),
              valid |-> FALSE, new |-> <<>>]

\* Votes of less than one coinday are not counted.
GetAndClearPosVotes(vt) ==
    [k \in {j \in DOMAIN vt : vt[j] \div CoindayUnit > 0} |-> vt[k] \div CoindayUnit]

CreateInitVotes(active) == [k \in {v.pk : v \in Range(active)} |-> 1]

-----------------------------------------------------------------------------
InitInfo == [epoch |-> 0, vals |-> Genesis, update |-> Empty,
             pend |-> [i \in DOMAIN Genesis |-> [addr |-> Genesis[i].addr, epoch |-> 0, amount |-> 0]]]

\* InitChain: the genesis validators and their reward entries; Tendermint gets the active ones.
Init ==
    /\ bal = [a \in Holders |-> IF a \in DOMAIN GenesisBalance THEN GenesisBalance[a] ELSE 0]
    /\ info = InitInfo /\ readonly = InitInfo /\ root = InitInfo
    /\ allBurnt = 0 /\ votes = Empty /\ update = Empty
    /\ tendermint = GetUpdateValidatorSet(<<>>, GetActiveValidators(Genesis))
    /\ phase = "open" /\ blocks = 0 /\ calls = 0

\* sumVotingPower: the power of the validators named by their address or their RewardTo, and of all.
SumVotingPower(inf, addrs) ==
    LET named == SelectSeq(inf.vals, LAMBDA v : v.addr \in addrs \/ v.rewardTo \in addrs)
    IN  <<SumOf(named, LAMBDA v : v.power), SumOf(inf.vals, LAMBDA v : v.power)>>

\* The three handlers as functions: the new info, or the same if the call is refused.
createValidator(inf, u, pk, to, value) ==
    IF value <= InitialStakingAmount \/ ByAddr(inf, u) # 0 \/ ByPubkey(inf, pk) # 0 THEN inf
    ELSE [inf EXCEPT !.vals = Append(@, [addr |-> u, pk |-> pk, rewardTo |-> to, power |-> 0,
                                         staked |-> value, retiring |-> FALSE])]

editValidator(inf, u, to, value) ==
    LET i == ByAddr(inf, u)
    IN  IF i = 0 THEN inf
        ELSE [inf EXCEPT !.vals[i].rewardTo = IF to = Zero THEN @ ELSE to,
                         !.vals[i].staked = @ + value]

\* A slip: retiring takes the power at once.
retirePowerless(inf, u) ==
    LET i == ByAddr(inf, u)
    IN  IF i = 0 THEN inf ELSE [inf EXCEPT !.vals[i].retiring = TRUE, !.vals[i].power = 0]

retire(inf, u) ==
    LET i == ByAddr(inf, u) IN IF i = 0 THEN inf ELSE [inf EXCEPT !.vals[i].retiring = TRUE]

\* A handler has saved the info, in the context and in the global, before transferStakedCoins finds
\* that the sender cannot pay: then the call fails and the context's change is undone.
Save(new, u, value) ==
    /\ readonly' = new
    /\ IF bal[u] < value THEN UNCHANGED <<bal, info>>
       ELSE /\ info' = new
            /\ bal' = [bal EXCEPT ![u] = @ - value, ![Contract] = @ + value]

\* A transaction in a block calls the contract.
Call(u) ==
    /\ phase = "open" /\ calls < MaxCalls
    /\ \E value \in Values, to \in RewardTargets \cup {Zero}, pk \in Pubkeys :
          LET new(c) == CASE c = "create" -> createValidator(info, u, pk, to, value)
                          [] c = "edit" -> editValidator(info, u, to, value)
                          [] c = "retire" -> retire(info, u)
          IN  \E c \in {"create", "edit", "retire"} :
                 /\ new(c) # info
                 /\ Save(new(c), u, IF c = "retire" THEN 0 ELSE value)
    /\ calls' = calls + 1
    /\ UNCHANGED <<allBurnt, root, votes, update, tendermint, phase, blocks>>

\* eth_call or eth_estimateGas runs a handler in a context of the last Commit and throws the
\* context away; the global stays written.
RpcCall(u) ==
    /\ \E new \in {retire(root, u)} \cup {editValidator(root, u, to, 0) : to \in RewardTargets \cup {Zero}} :
          new # readonly /\ readonly' = new
    /\ ByAddr(root, u) # 0 /\ calls < MaxCalls /\ calls' = calls + 1
    /\ UNCHANGED <<bal, info, allBurnt, root, votes, update, tendermint, phase, blocks>>

\* The xHedge contract, an ordinary contract, books the coindays of a vote.
XHedgeVote(k) ==
    /\ phase = "open" /\ calls < MaxCalls /\ calls' = calls + 1
    /\ votes' = (k :> CoindayUnit + (IF k \in DOMAIN votes THEN votes[k] ELSE 0)) @@ votes
    /\ UNCHANGED <<bal, info, allBurnt, readonly, root, update, tendermint, phase, blocks>>

\* EndBlock reports the update that the Commit before has computed.
EndBlock ==
    /\ phase = "open" /\ blocks < MaxBlocks /\ phase' = "ended"
    /\ tendermint' = LET told == update @@ tendermint
                     IN  [k \in {j \in DOMAIN told : told[j] > 0} |-> told[k]]
    /\ UNCHANGED <<bal, info, allBurnt, readonly, root, votes, update, blocks, calls>>

\* updateValidatorsAndStakingInfo, in Commit.  Signers, proposers and double signers are members of
\* Tendermint's set.  An epoch is due when the block's time has passed its end.
Commit ==
    /\ phase = "ended" /\ phase' = "open" /\ blocks' = blocks + 1
    /\ \E b \in Blocks, fee \in Rewards :
       \E w \in {SlashAndReward([bal |-> [bal EXCEPT ![System] = @ - fee], info |-> info,
                                burnt |-> allBurnt], b.slashed, b.proposer, b.last, b.voters, fee)} :
           /\ b.slashed \cup b.voters \cup {b.proposer} \cup ({b.last} \ {NoKey}) \subseteq DOMAIN tendermint
           /\ fee <= bal[System] /\ allBurnt' = w.burnt
           /\ \/ /\ update' = GetUpdateValidatorSet(GetActiveValidators(info.vals),
                                                   GetActiveValidators(w.info.vals))
                 /\ bal' = w.bal /\ info' = [w.info EXCEPT !.update = update']
                 /\ UNCHANGED votes
              \/ /\ info.epoch < EpochCount
                 /\ \E noms \in Nominations : \E e \in {SwitchEpoch(w, noms, GetAndClearPosVotes(votes))} :
                       /\ update' = IF e.valid THEN GetUpdateValidatorSet(GetActiveValidators(info.vals), e.new)
                                    ELSE Empty
                       /\ bal' = e.bal /\ info' = [e.info EXCEPT !.update = update']
                       /\ votes' = CreateInitVotes(e.new)
    /\ readonly' = info' /\ root' = info'
    /\ UNCHANGED <<tendermint, calls>>

\* A slip: the update is not taken from the world state.
RestartForgetting ==
    /\ update' = Empty /\ readonly' = info /\ phase' = "open"
    /\ UNCHANGED <<bal, info, allBurnt, root, votes, tendermint, blocks, calls>>

\* NewApp takes the update from the world state, and Init reads the info again.  Tendermint hands
\* over a block that was not committed a second time.
Restart ==
    /\ update' = info.update /\ readonly' = info /\ phase' = "open"
    /\ UNCHANGED <<bal, info, allBurnt, root, votes, tendermint, blocks, calls>>

Next ==
    \/ \E u \in Users : Call(u)
    \/ \E u \in RpcUsers : RpcCall(u)
    \/ \E k \in Pubkeys : XHedgeVote(k)
    \/ EndBlock \/ Commit \/ Restart

Spec == Init /\ [][Next]_vars

-----------------------------------------------------------------------------
ValidatorType == [addr : Users, pk : Pubkeys, rewardTo : Holders, power : Nat,
                  staked : Nat, retiring : BOOLEAN]

\* Types; no address and no key is listed twice (AddValidator's "must be unique").
TypeOK ==
    /\ bal \in [Holders -> 0..Word-1]
    /\ \A inf \in {info, readonly, root} :
          /\ Range(inf.vals) \subseteq ValidatorType
          /\ \A i, j \in DOMAIN inf.vals : i # j =>
                inf.vals[i].addr # inf.vals[j].addr /\ inf.vals[i].pk # inf.vals[j].pk
    /\ DOMAIN votes \subseteq Pubkeys /\ DOMAIN tendermint \subseteq Pubkeys
    /\ phase \in {"open", "ended"} /\ blocks \in 0..MaxBlocks /\ calls \in 0..MaxCalls

\* The contract can always pay what it owes, the stakes and the pending rewards together, although
\* two copies of its account are written back late (SlashAndReward) or never (SwitchEpoch).
Solvent ==
    bal[Contract] >= SumOf(info.vals, LAMBDA v : v.staked) + SumOf(info.pend, LAMBDA r : r.amount)

\* deliverMintRewardInEpoch looks up the validator of a mature reward and uses it without a test:
\* through slashing, retiring and removal, every pending reward belongs to a listed validator.
RewardsOfListed ==
    \A r \in Range(info.pend) : ByAddr(info, r.addr) # 0

\* Once EndBlock has reported, Tendermint's set has every active validator with its power, across
\* restarts between the Commit that elects and the EndBlock that reports.
TendermintKnowsActive ==
    phase = "ended" => \A v \in Range(GetActiveValidators(root.vals)) :
                           v.pk \in DOMAIN tendermint /\ tendermint[v.pk] = v.power

\* Calls that fail, and calls run for an RPC, leave the voting powers in the global equal to those of
\* the world state ("voting powers are unchanged").
ReadonlyPowersCurrent ==
    LET Powers(inf) == {<<v.addr, v.power>> : v \in {u \in Range(inf.vals) : u.power > 0}}
    IN  Powers(readonly) = Powers(info)

\* sumVotingPower, which other contracts call while a block is executed, computes from the world state
\* ("readonlyStakingInfo is unchanged because voting powers are unchanged").
SumVotingPowerCurrent ==
    \A addrs \in SUBSET (RewardTargets \cup Users) :
        SumVotingPower(readonly, addrs) = SumVotingPower(info, addrs)

\* No coin is made or lost ("increase rewardTo's balance and decrease stakingAcc's balance").
CoinsConserved ==
    FoldFunction(LAMBDA x, y : x + y, 0, bal) = FoldFunction(LAMBDA x, y : x + y, 0, GenesisBalance)

\* The coins that the mature rewards of a new epoch pay out, at most.
Matured(inf) == SumOf(SelectSeq(inf.pend, LAMBDA r : r.epoch < inf.epoch), LAMBDA r : r.amount)

\* What incrAllBurnt books as burnt by slashing really reaches the black hole, on top of half the fee:
\* the transfer, whose error Slash drops ("must no error, not check"), does not fail.
SlashedIsBurnt ==
    phase = "ended" => bal'[BlackHole] - bal[BlackHole]
                         >= (allBurnt' - allBurnt) + (bal[System] - bal'[System]) \div 2

\* A validator leaves the list only with its stake credited to its RewardTo, but for what a slash in
\* the same block takes.
StakePaidBack ==
    \A v \in Range(info.vals) :
       ByAddr(info', v.addr) = 0 /\ v.rewardTo # Contract
          => bal'[v.rewardTo] >= bal[v.rewardTo] + v.staked
                - (IF allBurnt' = allBurnt THEN 0 ELSE SlashedStakingAmount)

\* Where coins are made and lost: the account's copy that DistributeFee writes back undoes what a
\* slash took from it, and the one that SwitchEpoch drops makes the rewards just paid; beyond these
\* two amounts no coin is made, and none is lost unless the contract itself is named as RewardTo.
\* What is slashed is burnt, and the stake of a validator that leaves is paid.
CoinsAccounted ==
    [][/\ SlashedIsBurnt
       /\ StakePaidBack
       /\ bal' # bal =>
          LET made == FoldFunction(LAMBDA x, y : x + y, 0, bal') - FoldFunction(LAMBDA x, y : x + y, 0, bal)
          IN  /\ made <= (allBurnt' - allBurnt) + (IF info'.epoch = info.epoch THEN 0 ELSE Matured(info))
              /\ (\A v \in Range(info.vals) : v.rewardTo # Contract) => made >= 0]_vars

\* After an epoch for which it had announced to retire, a validator is none for Tendermint
\* ("at the next epoch it will not be elected as a validator").
RetiredLeaves ==
    \A v \in Range(root.vals) :
        phase = "ended" /\ v.retiring /\ v.power = 0 => v.pk \notin DOMAIN tendermint

\* The parts into which DistributeFee cuts a fee add up to the fee ("distribute the collected gas fee
\* to validators who voted for current block, half fee burnt").
FeeAddsUp ==
    \A b \in Blocks, fee \in Rewards :
        b.voters \subseteq DOMAIN tendermint =>
        LET s == FeeShares(info, fee, Known(info, b.last), b.voters \cap Listed(info))
        IN  s.half + s.base + s.coll + s.rest + FoldFunction(LAMBDA x, y : x + y, 0, s.share) = fee

\* The contract can pay all it owes to whom it owes it: stakes and pending rewards are covered, every
\* reward has its validator, and no fee is cut into more or less than itself.
Payable == TypeOK /\ Solvent /\ RewardsOfListed /\ FeeAddsUp

==============================================================================
