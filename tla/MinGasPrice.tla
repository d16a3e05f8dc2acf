----------------------------- MODULE MinGasPrice -----------------------------
(***************************************************************************)
(* The minimum gas price in the staking contract: steps of active          *)
(* validators before the xHedge fork; a proposal, votes until a deadline   *)
(* and an execution by anybody after it.  A refused call changes nothing   *)
(* and is not a step.                                                      *)
(***************************************************************************)
EXTENDS Integers, FiniteSets, FiniteSetsExt, Functions

CONSTANTS
    Validators,
    Targets,                     \* what the callers name: unsigned 64-bit numbers
    Word,                        \* 2^64
    DefaultMinGasPrice, MinGasPriceDeltaRate, MinGasPriceDeltaRateInBlock,
    MinGasPriceUpperBound, MinGasPriceLowerBoundOld, MinGasPriceLowerBound,
    DefaultProposalDuration,
    MaxTime,                     \* bound: the last block's time
    MaxSwitches                  \* bound: changes of a validator's power

VARIABLES
    price, last,        \* SlotMinGasPrice, SlotLastMinGasPrice
    target, deadline,   \* SlotMinGasPriceProposalTarget; target 0: no proposal
    voters, votes,      \* SlotVoters; the votes' slots, voter -> [target, power]
    power,              \* the validators' voting powers
    now, xhedge,        \* the block's timestamp; is the xHedge fork reached
    switches

vars == <<price, last, target, deadline, voters, votes, power, now, xhedge, switches>>

NoVotes == [v \in {} |-> 0]

Init ==
    /\ price = DefaultMinGasPrice /\ last = DefaultMinGasPrice
    /\ target = 0 /\ deadline = 0 /\ voters = {} /\ votes = NoVotes
    /\ power = [v \in Validators |-> 1] /\ now = 0 /\ xhedge = FALSE /\ switches = 0

Mul(a, b) == (a * b) % Word

checkTarget(lastPrice, t) ==
    /\ lastPrice # 0 => /\ t <= Mul(lastPrice, MinGasPriceDeltaRate)
                        /\ lastPrice <= Mul(t, MinGasPriceDeltaRate)
    /\ t <= MinGasPriceUpperBound
    /\ t >= MinGasPriceLowerBound

\* SaveVote and AddVoters.
SaveVote(v, t) ==
    /\ votes' = [w \in DOMAIN votes \cup {v} |->
                    IF w = v THEN [target |-> t, power |-> power[v]] ELSE votes[w]]
    /\ voters' = voters \cup {v}

createProposal(v, t) ==
    /\ xhedge /\ power[v] # 0 /\ target = 0 /\ checkTarget(last, t)
    /\ target' = t /\ deadline' = now + DefaultProposalDuration
    /\ SaveVote(v, t)
    /\ UNCHANGED <<price, last, power, now, xhedge, switches>>

vote(v, t) ==
    /\ xhedge /\ power[v] # 0 /\ target # 0 /\ now < deadline
    /\ LET chosen == IF t = 0 THEN last ELSE t
       IN  checkTarget(last, chosen) /\ SaveVote(v, chosen)
    /\ UNCHANGED <<price, last, target, deadline, power, now, xhedge, switches>>

\* The n-th smallest of the targets voted for.
NthTarget(n) ==
    CHOOSE x \in {votes[v].target : v \in voters} :
        /\ Cardinality({v \in voters : votes[v].target < x}) < n
        /\ n <= Cardinality({v \in voters : votes[v].target <= x})

CalcMedian ==
    LET index == Cardinality(voters) \div 2
    IN  IF 2 * index = Cardinality(voters)
        THEN (NthTarget(index) + NthTarget(index + 1)) \div 2
        ELSE NthTarget(index + 1)

TotalPower == FoldSet(LAMBDA v, acc : acc + votes[v].power, 0, voters)
TotalTarget == FoldSet(LAMBDA v, acc : acc + votes[v].power * votes[v].target, 0, voters)

CalculateTarget == (CalcMedian + TotalTarget \div TotalPower) \div 2

\* A slip: the votes stay.
DeleteProposalOnly == target' = 0 /\ deadline' = 0 /\ UNCHANGED <<voters, votes>>

DeleteProposalInfos == target' = 0 /\ deadline' = 0 /\ voters' = {} /\ votes' = NoVotes

executeProposal ==
    /\ xhedge /\ target # 0 /\ now >= deadline
    /\ price' = CalculateTarget
    /\ DeleteProposalInfos
    /\ UNCHANGED <<last, power, now, xhedge, switches>>

\* Before the fork an active validator moves the price by some percent.
handleMinGasPrice(v, isIncrease) ==
    LET delta == (MinGasPriceDeltaRate * price) \div 100
        mGP == IF isIncrease THEN price + delta ELSE price - delta
        Far(a, b) == 100 * (a - b) > MinGasPriceDeltaRateInBlock * last
    IN  /\ ~xhedge /\ power[v] # 0
        /\ mGP >= MinGasPriceLowerBoundOld /\ mGP <= MinGasPriceUpperBound
        /\ ~(mGP > last /\ Far(mGP, last)) /\ ~(mGP < last /\ Far(last, mGP))
        /\ price' = mGP
        /\ UNCHANGED <<last, target, deadline, voters, votes, power, now, xhedge, switches>>

\* Commit: refresh copies the price, then the next block's transactions run at its time; the fork
\* may be reached.
NextBlock ==
    /\ now < MaxTime /\ now' = now + 1 /\ last' = price
    /\ xhedge' \in {xhedge, TRUE}
    /\ UNCHANGED <<price, target, deadline, voters, votes, power, switches>>

\* An epoch changes the power of a validator.
SwitchEpoch(v) ==
    /\ switches < MaxSwitches /\ switches' = switches + 1
    /\ \E p \in 0..2 : power' = [power EXCEPT ![v] = p]
    /\ UNCHANGED <<price, last, target, deadline, voters, votes, now, xhedge>>

Next ==
    \/ \E v \in Validators, t \in Targets : createProposal(v, t) \/ vote(v, t)
    \/ executeProposal \/ NextBlock
    \/ \E v \in Validators, b \in BOOLEAN : handleMinGasPrice(v, b)
    \/ \E v \in Validators : SwitchEpoch(v)

Spec == Init /\ [][Next]_vars

-----------------------------------------------------------------------------
\* While a proposal is open every listed voter has a vote with power, so that CalculateTarget divides
\* by a positive number; without one no vote of an earlier proposal is left to be counted.
VotesOfProposal ==
    /\ DOMAIN votes = voters
    /\ (voters = {}) <=> (target = 0)
    /\ \A v \in voters : votes[v].power > 0

\* The price, and every vote that may become it, stays within the bounds whatever is called in
\* whatever order, although checkTarget multiplies numbers that may wrap around.
PriceInBounds ==
    /\ price \in MinGasPriceLowerBound..MinGasPriceUpperBound
    /\ \A v \in DOMAIN votes : votes[v].target \in MinGasPriceLowerBound..MinGasPriceUpperBound

\* The price that an execution sets lies between the lowest and the highest vote, median, weighting
\* and rounding included.
PriceWithinVotes ==
    target # 0 => /\ \E v \in voters : votes[v].target <= CalculateTarget
                  /\ \E v \in voters : CalculateTarget <= votes[v].target

\* The votes counted are those of the open proposal, and the price they lead to is one between them
\* and within the bounds of the contract.
PriceSound == VotesOfProposal /\ PriceInBounds /\ PriceWithinVotes

\* One proposal changes the price by at most the factor MinGasPriceDeltaRate ("gas delta rate every
\* proposal can change").
ProposalDelta ==
    [][xhedge /\ price' # price =>
          price' <= MinGasPriceDeltaRate * price /\ price <= MinGasPriceDeltaRate * price']_vars

==============================================================================
