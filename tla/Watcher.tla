------------------------------- MODULE Watcher -------------------------------
(* The main chain watcher (watcher/watcher.go, watcher/rpcclient.go): the     *)
(* goroutine WatcherMain follows the main chain, keeps the blocks that are    *)
(* deep enough, and sends an epoch of nominations for each NumBlocksInEpoch   *)
(* of them.  Every request to the main chain node or to the peer is a step of *)
(* its own, because the main chain moves between two requests.                *)
EXTENDS Integers, Sequences, SequencesExt, FiniteSets, FiniteSetsExt, TLC

CONSTANTS
    NumBlocksInEpoch,  \* param.StakingNumBlocksInEpoch
    Depth,             \* a block is final with this many blocks on top: 9
    CCRPCStart,        \* CCRPCEpochs[0][0], where the watcher leaves
    Speedup,           \* AppConfig.Speedup
    PeerFails,         \* whether a request to the peer may fail
    MainnetErrors,     \* whether the main chain node may answer with an error
    MaxHeight,         \* bound: the main chain's height
    MaxReorgs,         \* bound: the number of reorganisations
    Contents,          \* the blocks [time, nom] the main chain may have at a height
    None               \* no nomination in a coinbase transaction

VARIABLES
    chain,    \* the main chain: a sequence of blocks
    reorgs,   \* the reorganisations so far
    watches,  \* a client is configured and CCRPCForkBlock is not 0
    pc,       \* where WatcherMain is
    fin,      \* its local latestFinalizedHeight
    main,     \* its local latestMainnetHeight
    erred,    \* the last height came with an error
    catchup,  \* the signal on catchupChan has been given
    w,        \* latestFinalizedHeight, lastEpochEndHeight, heightToFinalizedBlock, epochList
    sent      \* what went into EpochChan

local == <<pc, fin, main, erred, catchup>>
vars == <<chain, reorgs, watches, pc, fin, main, erred, catchup, w, sent>>

-----------------------------------------------------------------------------
(* Epochs.                                                                   *)

Nominators(b, lo, hi, pk) == {h \in lo..hi : b[h].nom = pk}

\* The first nomination of a key becomes its entry, and is then added to itself.
NominatedCount(b, lo, hi, pk) == Cardinality(Nominators(b, lo, hi, pk)) + 1

\* More nominations first; the smaller key where they are equal.
sortEpochNominations(noms) ==
    SetToSortSeq(noms, LAMBDA x, y : \/ x.count > y.count
                                     \/ x.count = y.count /\ x.pubkey < y.pubkey)

EpochOf(b, lo, hi) ==
    [StartHeight |-> lo, EndTime |-> Max({0} \cup {b[h].time : h \in lo..hi}),
     Nominations |-> sortEpochNominations(
        {[pubkey |-> pk, count |-> NominatedCount(b, lo, hi, pk)] :
            pk \in {b[h].nom : h \in lo..hi} \ {None}})]

\* The heights it reads; one that is not recorded is the panic "Missing Block".
EpochHeights(v) == v.lastEpochEndHeight + 1 .. v.latestFinalizedHeight
buildNewEpoch(v) == EpochOf(v.blocks, v.lastEpochEndHeight + 1, v.latestFinalizedHeight)

\* From five epochs before the last one downwards, to the first gap.
ClearOldData(v) ==
    LET top == Last(v.epochList).StartHeight - 5 * NumBlocksInEpoch
        old == {h \in DOMAIN v.blocks : h <= top /\ h..top \subseteq DOMAIN v.blocks}
        n == Len(v.epochList)
    IN  [v EXCEPT !.blocks = [h \in DOMAIN v.blocks \ old |-> v.blocks[h]],
                  !.epochList = IF n > 5 THEN SubSeq(@, n - 4, n) ELSE @]

-----------------------------------------------------------------------------
(* The main chain, and what its node answers.                                *)

Mine ==
    /\ Len(chain) < MaxHeight
    /\ \E b \in Contents[Len(chain) + 1] : chain' = Append(chain, b)
    /\ UNCHANGED <<reorgs, watches, local, w, sent>>

\* The last blocks, no more than Depth, are replaced.
Reorg ==
    /\ reorgs < MaxReorgs /\ reorgs' = reorgs + 1
    /\ \E d \in 1..Depth :
        /\ d <= Len(chain)
        /\ \E bs \in [1..d -> UNION {Contents[h] : h \in 1..MaxHeight}] :
            /\ \A i \in 1..d : bs[i] \in Contents[Len(chain) - d + i]
            /\ chain' = SubSeq(chain, 1, Len(chain) - d) \o bs
    /\ UNCHANGED <<watches, local, w, sent>>

\* A request that fails is made again after a while.  An answer with an error
\* code is not: its result is taken, and that is 0.
GetMainnetHeight(h, e) ==
    \/ h = Len(chain) /\ e = FALSE
    \/ MainnetErrors /\ h = 0 /\ e = TRUE

\* Asked for until it is there: first the hash, then the block.
GetBlockByHeight(h) == chain[h]

\* The peer's epochs from one number on: those of the blocks it has finalized.
PeerEpochs(start) ==
    {[i \in 1..k |-> EpochOf(chain, (start + i - 2) * NumBlocksInEpoch + 1,
                                    (start + i - 1) * NumBlocksInEpoch)] :
        k \in {j \in 0..100 : (start + j - 1) * NumBlocksInEpoch + Depth <= Len(chain)}}

-----------------------------------------------------------------------------
(* WatcherMain.                                                              *)

Init ==
    /\ chain = <<>> /\ reorgs = 0 /\ watches \in BOOLEAN
    /\ pc = "main" /\ fin = 0 /\ main = 0 /\ erred = FALSE /\ catchup = FALSE
    /\ w = [latestFinalizedHeight |-> 0, lastEpochEndHeight |-> 0,
            blocks |-> <<>>, epochList |-> <<>>]
    /\ sent = <<>>

Read(label) ==
    \E h \in 0..Len(chain), e \in BOOLEAN :
        GetMainnetHeight(h, e) /\ main' = h /\ erred' = e /\ pc' = label

WatcherMain ==
    /\ pc = "main"
    /\ IF watches
       THEN Read(IF Speedup THEN "speedup" ELSE "top") /\ UNCHANGED catchup
       ELSE pc' = "left" /\ catchup' = TRUE /\ UNCHANGED <<main, erred>>
    /\ UNCHANGED <<chain, reorgs, watches, fin, w, sent>>

\* The heights the next epochs start from are set when the loop is left.
SpeedupDone ==
    /\ w' = [w EXCEPT !.latestFinalizedHeight = fin, !.lastEpochEndHeight = fin]
    /\ pc' = "top" /\ UNCHANGED <<fin, sent>>

epochSpeedup ==
    /\ pc = "speedup"
    /\ \/ main < fin + NumBlocksInEpoch /\ SpeedupDone
       \/ /\ main >= fin + NumBlocksInEpoch /\ PeerFails
          /\ fin' = main /\ pc' = "top" /\ UNCHANGED <<w, sent>>
       \/ /\ main >= fin + NumBlocksInEpoch
          /\ \E epochs \in PeerEpochs(fin \div NumBlocksInEpoch + 1) :
                IF epochs = <<>> THEN SpeedupDone
                ELSE /\ w' = [w EXCEPT !.epochList = @ \o epochs]
                     /\ sent' = sent \o SelectSeq(epochs, LAMBDA e : e.EndTime # 0)
                     /\ fin' = fin + Len(epochs) * NumBlocksInEpoch
                     /\ UNCHANGED pc
    /\ UNCHANGED <<chain, reorgs, watches, main, erred, catchup>>

\* A slip: the height read before is believed.
fetchTopStale ==
    /\ pc = "top" /\ pc' = "next"
    /\ catchup' = (catchup \/ main <= fin + Depth)
    /\ UNCHANGED <<chain, reorgs, watches, fin, main, erred, w, sent>>

\* The top of fetchBlocks: once nothing more is final, the signal is given.
fetchTop ==
    /\ pc = "top"
    /\ IF ~catchup /\ main <= fin + Depth
       THEN Read("next") /\ catchup' = (main' <= fin + Depth)
       ELSE pc' = "next" /\ UNCHANGED <<main, erred, catchup>>
    /\ UNCHANGED <<chain, reorgs, watches, fin, w, sent>>

\* Waits for the next block to be final.
fetchNext ==
    /\ pc = "next"
    /\ \E label \in {"top", "fetch"} :
        /\ Read(label)
        /\ label = IF main' < fin + 1 + Depth THEN "top" ELSE "fetch"
        /\ fin' = IF label = "fetch" THEN fin + 1 ELSE fin
    /\ UNCHANGED <<chain, reorgs, watches, catchup, w, sent>>

\* Recorded under its own height; the heights are counted apart.
addFinalizedBlock(h, blk) ==
    LET v == [w EXCEPT !.blocks = (h :> blk) @@ @, !.latestFinalizedHeight = @ + 1]
        epoch == buildNewEpoch(v)
        v2 == [v EXCEPT !.epochList = Append(@, epoch)]
    IN  IF v.latestFinalizedHeight - v.lastEpochEndHeight # NumBlocksInEpoch
        THEN w' = v /\ UNCHANGED <<sent, pc>>
        ELSE IF ~(EpochHeights(v) \subseteq DOMAIN v.blocks)
        THEN w' = v /\ pc' = "panic" /\ UNCHANGED sent
        ELSE /\ sent' = Append(sent, epoch)
             /\ w' = ClearOldData([v2 EXCEPT !.lastEpochEndHeight = v.latestFinalizedHeight])
             /\ UNCHANGED pc

\* A slip: one confirmation too few.
fetchBlocksShallow ==
    /\ pc = "fetch"
    /\ IF fin + Depth - 1 > main
       THEN pc' = "top" /\ fin' = fin - 1 /\ UNCHANGED <<catchup, w, sent>>
       ELSE IF fin >= CCRPCStart
       THEN pc' = "left" /\ catchup' = TRUE /\ UNCHANGED <<fin, w, sent>>
       ELSE addFinalizedBlock(fin, GetBlockByHeight(fin)) /\ fin' = fin + 1 /\ UNCHANGED catchup
    /\ UNCHANGED <<chain, reorgs, watches, main, erred>>

\* A slip: leaves one block too late.
fetchBlocksLate ==
    /\ pc = "fetch"
    /\ IF fin + Depth > main
       THEN pc' = "top" /\ fin' = fin - 1 /\ UNCHANGED <<catchup, w, sent>>
       ELSE IF fin > CCRPCStart
       THEN pc' = "left" /\ catchup' = TRUE /\ UNCHANGED <<fin, w, sent>>
       ELSE addFinalizedBlock(fin, GetBlockByHeight(fin)) /\ fin' = fin + 1 /\ UNCHANGED catchup
    /\ UNCHANGED <<chain, reorgs, watches, main, erred>>

\* A block is fetched for every round of the inner loop.
fetchBlocks ==
    /\ pc = "fetch"
    /\ IF fin + Depth > main
       THEN pc' = "top" /\ fin' = fin - 1 /\ UNCHANGED <<catchup, w, sent>>
       ELSE IF fin >= CCRPCStart
       THEN pc' = "left" /\ catchup' = TRUE /\ UNCHANGED <<fin, w, sent>>
       ELSE addFinalizedBlock(fin, GetBlockByHeight(fin)) /\ fin' = fin + 1 /\ UNCHANGED catchup
    /\ UNCHANGED <<chain, reorgs, watches, main, erred>>

Watch == WatcherMain \/ epochSpeedup \/ fetchTop \/ fetchNext \/ fetchBlocks
Next == Mine \/ Reorg \/ Watch
Spec == Init /\ [][Next]_vars

\* The goroutine runs, a request is answered in the end, and blocks are mined.
FairSpec == Spec /\ WF_vars(Watch) /\ WF_vars(Mine)

-----------------------------------------------------------------------------
(* Properties.                                                               *)

\* The heights kept by the watcher and by its loop stay in step, and the map
\* holds blocks under real heights.
TypeOK ==
    /\ pc \in {"main", "speedup", "top", "next", "fetch", "left", "panic"}
    /\ DOMAIN w.blocks \subseteq 1..MaxHeight
    /\ w.lastEpochEndHeight <= w.latestFinalizedHeight
    /\ catchup \in BOOLEAN /\ erred \in BOOLEAN /\ fin \in Nat /\ main \in Nat

\* The blocks of the epoch under way are all recorded, so that neither
\* generateNewEpoch nor GetCurrEpoch, which another goroutine may call at any
\* time, runs into "Missing Block".
NoMissingBlock == pc # "panic" /\ EpochHeights(w) \subseteq DOMAIN w.blocks

\* A block recorded as final is the one the main chain has for good: no
\* reorganisation that 10 confirmations guard against changes it.
FinalForGood == \A h \in DOMAIN w.blocks : h <= Len(chain) /\ w.blocks[h] = chain[h]

\* The epochs sent tile the main chain from its first block on; each has the
\* greatest time of its blocks, and ranks the keys they nominate by the number
\* of nominating blocks, the smaller key first where these are equal.
EpochsOfChain ==
    \A i \in DOMAIN sent :
        LET lo == (i - 1) * NumBlocksInEpoch + 1
            hi == i * NumBlocksInEpoch
            ns == sent[i].Nominations
            Of(k) == Cardinality(Nominators(chain, lo, hi, ns[k].pubkey))
        IN  /\ sent[i].StartHeight = lo
            /\ \A h \in lo..hi : chain[h].time <= sent[i].EndTime
            /\ \E h \in lo..hi : chain[h].time = sent[i].EndTime
            /\ {ns[k].pubkey : k \in DOMAIN ns} = {chain[h].nom : h \in lo..hi} \ {None}
            /\ \A j, k \in DOMAIN ns : j < k =>
                \/ Of(j) > Of(k)
                \/ Of(j) = Of(k) /\ ns[j].pubkey < ns[k].pubkey

\* Blocks and epochs that are no longer needed are let go: what is kept is
\* bounded by the epoch length, however long the watcher runs.
MemoryBounded ==
    /\ Cardinality(DOMAIN w.blocks) <= 7 * NumBlocksInEpoch - 1
    /\ ~Speedup => Len(w.epochList) <= 5

\* The signal that lets the node start is given when every final block has been
\* recorded or handed over in an epoch, unless the main chain node had answered
\* with an error.
CatchupIsTrue ==
    [][catchup' /\ ~catchup /\ watches =>
        \/ erred' \/ fin' >= CCRPCStart
        \/ ~\E h \in fin' + 1 .. Len(chain') : h + Depth <= Len(chain')]_vars

\* The watcher reaches the height where cross chain transfers take over, and
\* leaves there with the signal given.
LeavesAtStart == <>[](pc = "left" /\ catchup)

\* One coinbase transaction counts as one vote.
VotesCounted ==
    \A i \in DOMAIN sent : \A k \in DOMAIN sent[i].Nominations :
        sent[i].Nominations[k].count =
            Cardinality(Nominators(chain, (i - 1) * NumBlocksInEpoch + 1,
                                   i * NumBlocksInEpoch, sent[i].Nominations[k].pubkey))

\* What the watcher records and sends is the final part of the main chain: all of it, for good, in
\* epochs that tile it, and no more of it is kept than it needs.
FinalEpochs == TypeOK /\ NoMissingBlock /\ FinalForGood /\ EpochsOfChain /\ MemoryBounded
=============================================================================
