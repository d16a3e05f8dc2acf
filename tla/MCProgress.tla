----------------------------- MODULE MCProgress -----------------------------
(***************************************************************************)
(* The progress of the filters and of the watcher, which share no state,   *)
(* in one run: `part` says which of them a behaviour is about, and the     *)
(* variables of the other keep one initial value.                          *)
(***************************************************************************)
EXTENDS Integers, TLC

VARIABLES
    part,
    stage, filters, index, closed, reader, unsub, timer, buf, sent, taken, loop, chan, events, mu, scan,
    ticks, polls,
    mainChain, reorgs, watches, pc, fin, main, erred, catchup, w, wSent

filterVars == <<stage, filters, index, closed, reader, unsub, timer, buf, sent, taken, loop, chan, events,
                mu, scan, ticks, polls>>
watcherVars == <<mainChain, reorgs, watches, pc, fin, main, erred, catchup, w, wSent>>

-----------------------------------------------------------------------------
\* A filter of transactions beside a websocket subscription to heads.
Subs == INSTANCE Filters WITH
    Filters <- {"t", "h"}, Kind <- ("t" :> "txs") @@ ("h" :> "heads"), Ws <- {"h"},
    MaxEvents <- 2, MaxTicks <- 0, MaxPolls <- 0

\* Epochs of three blocks, which name keys an unequal number of times; a peer helps to catch up.
Blk(t, v) == [time |-> t, nom |-> v]
MCContents ==
    [h \in 1..9 |->
        CASE h \in 1..2 -> {Blk(4 - h, 1), Blk(4 - h, 2)}
          [] h = 3 -> {Blk(1, 1)}
          [] h = 4 -> {Blk(5, 0), Blk(1, 2)}
          [] OTHER -> {Blk(h, 2)}]
Main == INSTANCE Watcher WITH
    NumBlocksInEpoch <- 3, Depth <- 2, CCRPCStart <- 7, Speedup <- TRUE, PeerFails <- FALSE,
    MainnetErrors <- FALSE, MaxHeight <- 9, MaxReorgs <- 1, Contents <- MCContents, None <- 0,
    chain <- mainChain, sent <- wSent

-----------------------------------------------------------------------------
\* A part that a behaviour is not about has one initial state.
PartsInit ==
    /\ part \in {"filters", "watcher"}
    /\ Subs!Init /\ Main!Init /\ (part # "watcher" => ~watches)

PartsNext ==
    \/ part = "filters" /\ Subs!Next /\ UNCHANGED <<part, watcherVars>>
    \/ part = "watcher" /\ Main!Next /\ UNCHANGED <<part, filterVars>>

\* The fairness of Filters, whose actions are disabled in its initial state, and that of Watcher.
PartsSpec ==
    /\ PartsInit /\ [][PartsNext]_<<part, filterVars, watcherVars>>
    /\ Subs!Fairness
    /\ WF_watcherVars(part = "watcher" /\ Main!Watch) /\ WF_watcherVars(part = "watcher" /\ Main!Mine)

-----------------------------------------------------------------------------
\* A client's Unsubscribe returns although the event loop broadcasts to its subscription, a broadcast
\* comes to its end whichever readers leave meanwhile ("This prevents the eventLoop broadcast method to
\* deadlock when writing to the filter event channel"), and every event published is taken.
FiltersGoOn == Subs!UnsubscribeReturns /\ Subs!BroadcastEnds /\ Subs!EventsTaken

\* The watcher reaches the height where cross chain transfers take over, and leaves there with the
\* signal given.
LeavesAtStart == <>[](part = "watcher" => pc = "left" /\ catchup)

=============================================================================
