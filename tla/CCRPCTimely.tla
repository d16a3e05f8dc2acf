---------------------------- MODULE CCRPCTimely -----------------------------
(***************************************************************************)
(* The cross-chain feature of a node whose surroundings behave as the      *)
(* configuration comments ask: the main node answers, no smart block is    *)
(* decided at the application height of an epoch before that epoch is in   *)
(* the queue, and the end times of two epochs do not fall on the same or   *)
(* on adjacent smart blocks.  Then a node never panics and its committed   *)
(* state is a function of the two chains alone.                            *)
(***************************************************************************)
EXTENDS CCRPC

\* The epochs of the main chain in order, by their first heights.
EpochFirst[i \in 0..MaxMain] == IF i = 0 THEN FirstMain ELSE nextLast(EpochFirst[i - 1]) + 1
EpochLast(i) == nextLast(EpochFirst[i])

Ended == {i \in 0..MaxMain : EpochLast(i) <= Len(mainTime)}
Mapped(i) == {f \in 2..Len(blockTime) : MapsTo(blockTime, Len(blockTime), f, mainTime[EpochLast(i)])}
Due(i) == DueHeights(EpochFirst[i], EpochLast(i))

\* The epoch is queued, and more than the margin has passed, when its application height comes.
InTime ==
    \A i \in Ended : \A d \in Due(i) :
        d <= Len(blockTime) =>
            /\ EpochLast(i) \in DOMAIN db
            /\ blockTime[d] > mainTime[EpochLast(i)] + Margin

\* Epochs end after the start of the feature and at least two smart blocks apart.
Spread ==
    /\ \A i \in Ended : \A g \in 1..Len(blockTime) :
          g <= ForkBlock + 2 \/ g <= 3 => blockTime[g] < mainTime[EpochLast(i)]
    /\ \A i, j \in Ended : i < j =>
          \A f \in Mapped(i) : f + 1 <= Len(blockTime) => blockTime[f + 1] < mainTime[EpochLast(j)]

TimelyMine == \E t \in 0..MaxTime : MineMain(t) /\ InTime' /\ Spread'
TimelyBegin == \E t \in 0..MaxTime : BeginBlock(t) /\ InTime' /\ Spread'
TimelyNext == TimelyMine \/ TimelyBegin \/ Node \/ Fetcher \/ Crash \/ Restart

\* The block that was decided already is begun again.
Replay == Len(blockTime) > world.height /\ \E t \in 0..MaxTime : BeginBlock(t)

\* A goroutine that can run eventually does, a stopped node is started again, and Tendermint replays
\* the block a started node has missed.
Fairness == WF_vars(Node) /\ WF_vars(Fetcher) /\ WF_vars(Restart) /\ WF_vars(Replay)

TimelySpec == Init /\ [][TimelyNext]_vars /\ Fairness
----------------------------------------------------------------------------
\* The committed state holds the credit of an epoch from its application height on, and not before:
\* nodes that are at the same height have made the same credits.
CommittedIsDetermined ==
    \A i \in Ended : \A d \in Due(i) :
        d <= world.height <=>
            \E c \in DOMAIN world.ledger :
                world.ledger[c] = [first |-> EpochFirst[i], last |-> EpochLast(i), at |-> d]

\* None of the panics of processOne and blockAfterTime is met: the process only goes down in Crash.
NoPanic == [][pc # "down" /\ pc' = "down" => crashes' > crashes]_vars

\* A block whose processing has begun is committed, through crashes and replays.
BlockCompletes ==
    \A h \in 1..MaxHeight : (pc = "begun" /\ currHeight = h) ~> (world.height >= h)

\* Once the main chain is an epoch length past the end of an epoch the epoch is queued, unless no
\* block comes after a restart: the fetcher only runs from the first commit of a process on.
EpochArrives ==
    \A i \in 0..MaxMain :
        (startFetching(EpochFirst[i]) <= Len(mainTime))
            ~> (EpochLast(i) \in DOMAIN db \/ ~running)
=============================================================================
