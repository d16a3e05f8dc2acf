----------------------------- MODULE MCServices -----------------------------
(***************************************************************************)
(* What runs beside the consensus and shares no state with each other,     *)
(* checked in one run: `part` says which of them a behaviour is about, and *)
(* the variables of the others keep one initial value.  The filters and    *)
(* the reads of RPC clients are extended, so that the theorems of          *)
(* FiltersProofs and RpcReadsProofs are about the very definitions that    *)
(* the run checks; the other parts are instances.                          *)
(***************************************************************************)
EXTENDS Filters, RpcReads, TLC

VARIABLES
    part,
    logChain, crit, since, changes, answer,
    calls, returns, frames, retOf, up,
    mainChain, reorgs, watches, wPc, fin, main, erred, catchup, w, wSent

logVars == <<logChain, crit, since, changes, answer>>
callVars == <<calls, returns, frames, retOf, up>>
watcherVars == <<mainChain, reorgs, watches, wPc, fin, main, erred, catchup, w, wSent>>

-----------------------------------------------------------------------------
\* A filter of logs beside a filter of transactions.
TwoKind == ("l" :> "logs") @@ ("t" :> "txs")

\* Reads: every operation, for the latest, the pending and every other block.
MCRequests ==
    {[op |-> "blockNumber", by |-> "number", n |-> Latest]} \union
    [op : {"getBalance", "call", "zeniqCall"} \union BlockOps,
     by : {"number"}, n : {Pending, Latest} \union 0..MaxHeight + 1] \union
    [op : {"getBalance", "call", "getFullBlock"}, by : {"hash"}, n : 1..MaxHeight + 1]

\* Logs: two addresses, two topics, blocks of up to two logs.
MCBlocks ==
    {{}, {[address |-> "x", topics |-> <<>>]},
     {[address |-> "x", topics |-> <<"A", "B">>], [address |-> "y", topics |-> <<"B">>]},
     {[address |-> "y", topics |-> <<"B", "B">>]}}
NoNumber == -100    \* LogFilter's None
MCCriteria ==
    {[from |-> f, to |-> t, addresses |-> a, topics |-> p, on |-> FALSE] :
        f \in {NoNumber, 0, 2, 6}, t \in {NoNumber, 0, 2, 6}, a \in {{}, {"x"}},
        p \in {<<>>, <<{"A", "B"}>>, <<{}, {"B"}>>}}
Logs == INSTANCE LogFilter WITH
    Blocks <- MCBlocks, Criteria <- MCCriteria, Height <- 3, Width <- 3, chain <- logChain

Trace == INSTANCE InternalCalls WITH MaxDepth <- 4, MaxCalls <- 6, GasLimit <- {1}

\* Some blocks nominate one of two keys, or nobody, and times are not monotone; the rest only make
\* the main chain long.
Blk(t, v) == [time |-> t, nom |-> v]
MCContents ==
    [h \in 1..16 |->
        CASE h = 1 -> {Blk(2, 1), Blk(2, 2)}
          [] h = 2 -> {Blk(1, 1), Blk(3, 2)}
          [] h = 3 -> {Blk(4, 2)}
          [] h = 4 -> {Blk(4, 0), Blk(3, 1)}
          [] OTHER -> {Blk(h, 0)}]
Main == INSTANCE Watcher WITH
    NumBlocksInEpoch <- 2, Depth <- 2, CCRPCStart <- 13, Speedup <- FALSE, PeerFails <- FALSE,
    MainnetErrors <- TRUE, MaxHeight <- 16, MaxReorgs <- 1, Contents <- MCContents, None <- 0,
    chain <- mainChain, sent <- wSent, pc <- wPc

\* The same watcher, helped by a peer, over epochs of three blocks and another start.
MainPeer == INSTANCE Watcher WITH
    NumBlocksInEpoch <- 3, Depth <- 2, CCRPCStart <- 7, Speedup <- TRUE, PeerFails <- FALSE,
    MainnetErrors <- FALSE, MaxHeight <- 9, MaxReorgs <- 1, Contents <- MCContents, None <- 0,
    chain <- mainChain, sent <- wSent, pc <- wPc

-----------------------------------------------------------------------------
\* A part that a behaviour is not about has one initial state.
PartsInit ==
    /\ part \in {"filters", "archive", "logs", "trace", "watcher", "watcher_peer"}
    /\ Init /\ ReadsInit /\ Logs!Init /\ Trace!Init
    /\ Main!Init /\ (part \notin {"watcher", "watcher_peer"} => ~watches)

PartsNext ==
    \/ /\ part = "filters" /\ Next
       /\ UNCHANGED <<part, readsVars, logVars, callVars, watcherVars>>
    \/ /\ part = "archive" /\ ReadsNext
       /\ UNCHANGED <<part, vars, logVars, callVars, watcherVars>>
    \/ /\ part = "logs" /\ Logs!Next
       /\ UNCHANGED <<part, vars, readsVars, callVars, watcherVars>>
    \/ /\ part = "trace" /\ Trace!Next
       /\ UNCHANGED <<part, vars, readsVars, logVars, watcherVars>>
    \/ /\ part = "watcher" /\ Main!Next
       /\ UNCHANGED <<part, vars, readsVars, logVars, callVars>>
    \/ /\ part = "watcher_peer" /\ MainPeer!Next
       /\ UNCHANGED <<part, vars, readsVars, logVars, callVars>>

PartsSpec ==
    PartsInit /\ [][PartsNext]_<<part, vars, readsVars, logVars, callVars, watcherVars>>

-----------------------------------------------------------------------------
\* A query over a range gives the matching logs of its blocks, missing and negative bounds included, and
\* what a filter has returned by polls is what GetFilterLogs finds in the blocks since it was made.
LogsAgree == part = "logs" => Logs!LogsAgree

\* Every entry of buildInternalCallList carries the return of its own call, the gas that this call used
\* and its place in the tree of calls, however calls nest and follow each other.
CallTree == part = "trace" => Trace!CallTree

\* Blocks recorded as final stay the main chain's across reorganisations, none of the epoch under way is
\* missing, the epochs sent, those of the peer among them, tile the chain and rank the keys they
\* nominate, and what is kept is bounded by the epoch length.
FinalEpochs ==
    /\ part = "watcher" => Main!FinalEpochs
    /\ part = "watcher_peer" => MainPeer!FinalEpochs

\* The signal that lets the node start is given when every final block has been recorded or handed over
\* in an epoch, unless the main chain node had answered with an error.
CatchupIsTrue == Main!CatchupIsTrue

=============================================================================
