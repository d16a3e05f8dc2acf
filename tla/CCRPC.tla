------------------------------- MODULE CCRPC --------------------------------
(***************************************************************************)
(* The cross-chain feature of one node.  A fetcher goroutine copies epochs *)
(* of main chain transfers into a leveldb queue (fifo); every Commit of    *)
(* the application serves that queue, maps the end time of each epoch to   *)
(* a smart height and credits the epoch exactly nn blocks after it.        *)
(*                                                                         *)
(* Two chains are given from outside and only grow: the main chain and the *)
(* sequence of smart blocks that Tendermint decides.  The node may crash   *)
(* at every step; a panic of the code is a crash that it does to itself.   *)
(***************************************************************************)
EXTENDS CCRPCMap

CONSTANTS
    Margin,       \* the 10 seconds processOne lets pass after the EEBT
    MaxLag,       \* maxLagMain of BeginBlock
    EscapeHeight, \* above this height (24000000) enough peers replace the lag rule
    Replies,      \* how the main node may answer: a subset of {"ok", "down", "error"}
    TornCommit,   \* may a crash fall between the world state write and the history write?
    MaxCrashes,   \* bound: crashes, the panics of the serving code not counted
    MaxHeight,    \* bound: number of smart blocks
    MaxMain,      \* bound: number of main blocks
    MaxTime       \* bound: largest time stamp

ASSUME BoundsAssumption ==
    /\ Margin \in Nat /\ MaxLag \in Nat /\ EscapeHeight \in Nat
    /\ Replies \subseteq {"ok", "down", "error"}
    /\ TornCommit \in BOOLEAN
    /\ MaxCrashes \in Nat /\ MaxHeight \in Nat /\ MaxMain \in Nat /\ MaxTime \in Nat

\* A delay must outlast the two blocks the history store is behind.  Without history above the fork
\* block an epoch keeps EEBTSmartHeight 0 and would be due at height nn; that takes one of the first
\* two blocks after the fork, or one torn commit for every block since.
ASSUME DelayAssumption ==
    \A i \in DOMAIN Epochs :
        /\ Epochs[i].nn > 2
        /\ Epochs[i].nn \notin (ForkBlock + 1)..(ForkBlock + 2 + IF TornCommit THEN MaxCrashes ELSE 0)

VARIABLES
    mainTime,   \* the main chain: block times by height
    blockTime,  \* the smart blocks decided so far: header times by height
    db,         \* the leveldb of the fifo: CCrpcEpoch by LastHeight
    history,    \* heights in the history store
    world,      \* the committed world state: last block, done epoch, credits made
    trunk,      \* the world state being written by the block in progress
    pc,         \* where the node is in the life of a block
    searchTo,   \* ccrpcSearchTo
    running,    \* has the fetcher been started?
    doneFetch,  \* fetcher: last main height fetched
    mainHeight, \* fetcher: main height as last polled
    serve,      \* the locals of ProcessCCRPC and Serve
    crosschain, \* epochs reported to ebp.AddCrosschain since the process started
    crashes     \* crashes so far

chains == <<mainTime, blockTime>>
fetcherVars == <<doneFetch, mainHeight>>
vars == <<mainTime, blockTime, db, history, world, trunk, pc, searchTo, running,
          doneFetch, mainHeight, serve, crosschain, crashes>>

currHeight == world.height + 1
currTime == blockTime[currHeight]

\* CCrpcEpoch; smart is its EEBTSmartHeight, app the ApplicationHeight of its transfers.
Cce(first, last, eebt) == [first |-> first, last |-> last, eebt |-> eebt, smart |-> 0, app |-> 0]

\* One credit of a whole epoch (AccountCcrpc for each of its transfers) at a smart height.
Credit(cce, h) == [first |-> cce.first, last |-> cce.last, at |-> h]

NoServe == [iter |-> 0, done |-> 0, nextSearchTo |-> 0, update |-> <<>>]

\* f with the value of g wherever g is defined.
Override(f, g) == [k \in DOMAIN f \cup DOMAIN g |-> IF k \in DOMAIN g THEN g[k] ELSE f[k]]

Greatest(S) == CHOOSE x \in S : \A y \in S : y <= x

LastServed == world.doneMain
LastFetched == IF DOMAIN db = {} THEN 0 ELSE Greatest(DOMAIN db)

\* Where a fetcher that starts takes up the main chain: behind the queue, or at the first epoch.
ResumeAt == IF LastFetched > 0 THEN LastFetched ELSE FirstMain - 1

Init ==
    /\ mainTime = [m \in 1..(FirstMain - 1) |-> 0]
    /\ blockTime = <<>>
    /\ db = <<>>
    /\ history = {}
    /\ world = [height |-> 0, doneMain |-> 0, ledger |-> <<>>]
    /\ trunk = world
    /\ pc = "idle"
    /\ searchTo = ForkBlock
    /\ running = FALSE
    /\ doneFetch = 0
    /\ mainHeight = 0
    /\ serve = NoServe
    /\ crosschain = {}
    /\ crashes = 0
----------------------------------------------------------------------------
\* The main chain (external): a new block, not older than the one before it.
MineMain(t) ==
    /\ Len(mainTime) < MaxMain
    /\ Len(mainTime) > 0 => mainTime[Len(mainTime)] <= t
    /\ mainTime' = Append(mainTime, t)
    /\ UNCHANGED <<blockTime, db, history, world, trunk, pc, searchTo, running,
                   doneFetch, mainHeight, serve, crosschain, crashes>>

DieKeepingTrunk ==
    /\ pc' = "down"
    /\ trunk' = trunk
    /\ searchTo' = ForkBlock
    /\ running' = FALSE
    /\ doneFetch' = 0
    /\ mainHeight' = 0
    /\ serve' = NoServe
    /\ crosschain' = {}

\* The process dies.  What it had in memory is gone; db, history and world stay.
Die ==
    /\ pc' = "down"
    /\ trunk' = world
    /\ searchTo' = ForkBlock
    /\ running' = FALSE
    /\ doneFetch' = 0
    /\ mainHeight' = 0
    /\ serve' = NoServe
    /\ crosschain' = {}

Crash ==
    /\ pc # "down"
    /\ pc = "written" => TornCommit
    /\ crashes < MaxCrashes
    /\ crashes' = crashes + 1
    /\ Die
    /\ UNCHANGED <<mainTime, blockTime, db, history, world>>

Panic == Die /\ UNCHANGED <<mainTime, blockTime, db, history, world, crashes>>

\* NewApp and Newccrpc.
Restart ==
    /\ pc = "down"
    /\ pc' = "idle"
    /\ UNCHANGED <<mainTime, blockTime, db, history, world, trunk, searchTo, running,
                   doneFetch, mainHeight, serve, crosschain, crashes>>
----------------------------------------------------------------------------
nextFirst == doneFetch + 1

\* Come needs the write lock of the fifo and Serve holds the read lock from its first to its last step.
FifoFree == pc \notin {"serve", "flush"}

FetcherPollOnce ==
    /\ running
    /\ mainHeight = 0
    /\ mainHeight' = Len(mainTime)
    /\ UNCHANGED <<mainTime, blockTime, db, history, world, trunk, pc, searchTo, running,
                   doneFetch, serve, crosschain, crashes>>

\* One round of the polling loop.  A reply with an error code yields its Result, 0.
FetcherPoll ==
    /\ running
    /\ mainHeight < startFetching(nextFirst)
    /\ \/ "ok" \in Replies /\ mainHeight' = Len(mainTime)
       \/ "error" \in Replies /\ mainHeight' = 0
    /\ UNCHANGED <<mainTime, blockTime, db, history, world, trunk, pc, searchTo, running,
                   doneFetch, serve, crosschain, crashes>>

\* What DO_GetCrosschain makes of a reply with a result: the end time is that of block last.
GetCrosschain(first, last) == Cce(first, last, mainTime[last])

\* FetchCrosschain and Come.  DO_GetCrosschain makes an error reply an epoch without end time.
FetcherFetch ==
    /\ running
    /\ FifoFree
    /\ mainHeight >= startFetching(nextFirst)
    /\ LET last == nextLast(nextFirst)
       IN  \/ /\ "ok" \in Replies
              /\ db' = Override(db, [k \in {last} |-> GetCrosschain(nextFirst, last)])
              /\ doneFetch' = last
           \/ /\ "error" \in Replies
              /\ db' = Override(db, [k \in {last} |-> Cce(nextFirst, last, 0)])
              /\ doneFetch' = last
    /\ UNCHANGED <<mainTime, blockTime, history, world, trunk, pc, searchTo, running,
                   mainHeight, serve, crosschain, crashes>>

\* FetchCrosschain returns nil: the fetcher panics, which takes the process down wherever it is.
FetcherFail ==
    /\ running
    /\ mainHeight >= startFetching(nextFirst)
    /\ "down" \in Replies
    /\ Crash
----------------------------------------------------------------------------
\* The header of the next block: one that was decided before the crash is replayed, a new one may
\* have any time that is not before its predecessor's.
HeaderTime(t) ==
    IF Len(blockTime) > world.height THEN t = blockTime[currHeight]
    ELSE Len(blockTime) > 0 => blockTime[Len(blockTime)] <= t

\* BeginBlock waits while the main chain lags behind the previous block.  When the main node is
\* unreachable MainTime answers with that block's own time, and an error reply has time 0.
MainLagOK ==
    LET prev == IF world.height = 0 THEN 0 ELSE blockTime[world.height]
        tip  == IF mainTime = <<>> THEN 0 ELSE mainTime[Len(mainTime)]
    IN  \/ "ok" \in Replies /\ prev - MaxLag <= tip
        \/ "down" \in Replies
        \/ "error" \in Replies /\ prev - MaxLag <= 0
        \/ currHeight > EscapeHeight

BeginBlock(t) ==
    /\ pc = "idle"
    /\ world.height < MaxHeight
    /\ HeaderTime(t)
    /\ MainLagOK
    /\ blockTime' = IF Len(blockTime) > world.height THEN blockTime ELSE Append(blockTime, t)
    /\ pc' = "begun"
    /\ UNCHANGED <<mainTime, db, history, world, trunk, searchTo, running,
                   doneFetch, mainHeight, serve, crosschain, crashes>>

\* Commit below the fork block, or with nothing to search yet, leaves the queue alone.
SkipCCRPC ==
    /\ pc = "begun"
    /\ currHeight < ForkBlock \/ searchTo > currHeight
    /\ pc' = "served"
    /\ UNCHANGED <<mainTime, blockTime, db, history, world, trunk, searchTo, running,
                   doneFetch, mainHeight, serve, crosschain, crashes>>

\* ProcessCCRPC up to the call of Serve: the first call starts the fetcher and waits until it has
\* read LastFetched.
ProcessCCRPC ==
    /\ pc = "begun"
    /\ currHeight >= ForkBlock
    /\ searchTo <= currHeight
    /\ running' = TRUE
    /\ IF running THEN UNCHANGED fetcherVars
       ELSE /\ doneFetch' = ResumeAt
            /\ mainHeight' = 0
    /\ pc' = "process"
    /\ UNCHANGED <<mainTime, blockTime, db, history, world, trunk, searchTo, serve, crosschain, crashes>>

\* Serve takes the read lock and opens its iterator after the last epoch done.
Serve ==
    /\ pc = "process"
    /\ serve' = [iter |-> world.doneMain, done |-> world.doneMain,
                 nextSearchTo |-> searchTo, update |-> <<>>]
    /\ pc' = "serve"
    /\ UNCHANGED <<mainTime, blockTime, db, history, world, trunk, searchTo, running,
                   doneFetch, mainHeight, crosschain, crashes>>

\* The keys the iterator of Serve has still to visit, and the epoch it is at (none at the end).
Unserved == {k \in DOMAIN db : k > serve.iter}
AtIter == {db[k] : k \in {j \in Unserved : \A i \in Unserved : j <= i}}

\* processOne returned 0, or the iterator is exhausted: Serve closes the iterator.
StopServing == pc' = "flush" /\ UNCHANGED trunk

SettleLate(cce, update, nextSearchTo, reported) ==
    LET due == cce.smart + getEpoch(cce.first).nn = currHeight
    IN  /\ trunk' = [trunk EXCEPT !.ledger = IF due THEN Append(@, Credit(cce, currHeight)) ELSE @]
        /\ serve' = [iter |-> IF due THEN cce.last ELSE serve.iter,
                     done |-> IF due THEN cce.last ELSE serve.done,
                     nextSearchTo |-> nextSearchTo, update |-> update]
        /\ pc' = IF due THEN pc ELSE "flush"
        /\ crosschain' = reported
        /\ UNCHANGED <<mainTime, blockTime, db, history, world, searchTo, running,
                       doneFetch, mainHeight, crashes>>

\* processOne from line 285 on, for an epoch with a (possibly just found) EEBTSmartHeight: an epoch
\* that is overdue panics, one that is due is credited, one that is early waits.
Settle(cce, update, nextSearchTo, reported) ==
    LET nn == getEpoch(cce.first).nn
    IN  \/ /\ cce.smart + nn < currHeight
           /\ Panic
        \/ /\ cce.smart + nn = currHeight
           /\ trunk' = [trunk EXCEPT !.ledger = Append(@, Credit(cce, currHeight))]
           /\ serve' = [iter |-> cce.last, done |-> cce.last,
                        nextSearchTo |-> nextSearchTo, update |-> update]
           /\ crosschain' = reported
           /\ UNCHANGED <<mainTime, blockTime, db, history, world, pc, searchTo, running,
                          doneFetch, mainHeight, crashes>>
        \/ /\ cce.smart + nn > currHeight
           /\ StopServing
           /\ serve' = [iter |-> serve.iter, done |-> serve.done,
                        nextSearchTo |-> nextSearchTo, update |-> update]
           /\ crosschain' = reported
           /\ UNCHANGED <<mainTime, blockTime, db, history, world, searchTo, running,
                          doneFetch, mainHeight, crashes>>

TooEarlyByOne(cce) == currTime <= cce.eebt + Margin + 1 \/ currHeight <= 1

\* Too early to look at the epoch at all.
TooEarly(cce) == currTime <= cce.eebt + Margin \/ currHeight <= 1

BackStartTip(backTo) == currHeight - 1

\* The highest block at or below currHeight - 1 that the history store has, but not below backTo.
BackStart(backTo) ==
    IF currHeight - 1 <= backTo THEN currHeight - 1
    ELSE Greatest({b \in backTo..(currHeight - 1) : b = backTo \/ b \in history})

ServeTooEarly ==
    /\ pc = "serve"
    /\ \E cce \in AtIter : TooEarly(cce)
    /\ StopServing
    /\ UNCHANGED <<mainTime, blockTime, db, history, world, searchTo, running,
                   doneFetch, mainHeight, serve, crosschain, crashes>>

\* An epoch whose EEBTSmartHeight is stored already.
ServeMapped ==
    /\ pc = "serve"
    /\ \E cce \in AtIter :
           /\ ~TooEarly(cce)
           /\ cce.smart # 0
           /\ Settle(cce, serve.update, serve.nextSearchTo, crosschain)

\* An epoch to be mapped now.  Missing history and an EEBT outside the searched range panic, an EEBT
\* above the tip waits; otherwise the height found is stored with the epoch and used at once.
SearchOne(cce, backStart, r) ==
    LET searchBack == backStart - searchTo
        walked     == WalkedHeights(blockTime, backStart, searchBack, cce.eebt)
        searched   == SearchedHeights(backStart, searchBack)
        app        == r.ok + getEpoch(cce.first).nn
        mapped     == [cce EXCEPT !.smart = r.ok, !.app = app]
    IN  \/ /\ ~(walked \cup searched \subseteq history)
           /\ Panic
        \/ /\ walked \subseteq history
           /\ r.above > 0
           /\ StopServing
           /\ UNCHANGED <<mainTime, blockTime, db, history, world, searchTo, running,
                          doneFetch, mainHeight, serve, crosschain, crashes>>
        \/ /\ walked \subseteq history
           /\ r.above = 0 /\ r.ok = 0 /\ searchBack > 0
           /\ Panic
        \/ /\ walked \subseteq history
           /\ r.above = 0
           /\ r.ok > 0 \/ searchBack <= 0
           /\ Settle(mapped,
                     IF r.ok = 0 THEN serve.update
                     ELSE Override(serve.update, [k \in {cce.last} |-> mapped]),
                     IF r.ok > serve.nextSearchTo THEN r.ok ELSE serve.nextSearchTo,
                     IF app <= currHeight THEN crosschain \cup {cce.last} ELSE crosschain)

ServeSearch ==
    /\ pc = "serve"
    /\ \E cce \in AtIter :
          /\ ~TooEarly(cce)
          /\ cce.smart = 0
          /\ \E backStart \in {BackStart(searchTo)} :
             \E r \in {blockAfterTime(blockTime, backStart, backStart - searchTo, cce.eebt)} :
                SearchOne(cce, backStart, r)

ServeExhausted ==
    /\ pc = "serve"
    /\ Unserved = {}
    /\ StopServing
    /\ UNCHANGED <<mainTime, blockTime, db, history, world, searchTo, running,
                   doneFetch, mainHeight, serve, crosschain, crashes>>

\* Serve writes the epochs it mapped back, one db.Set at a time, in the order of a Go map.
FlushOne ==
    /\ pc = "flush"
    /\ \E k \in DOMAIN serve.update :
          /\ db' = Override(db, [j \in {k} |-> serve.update[k]])
          /\ serve' = [iter |-> serve.iter, done |-> serve.done, nextSearchTo |-> serve.nextSearchTo,
                       update |-> [j \in DOMAIN serve.update \ {k} |-> serve.update[j]]]
    /\ UNCHANGED <<mainTime, blockTime, history, world, trunk, pc, searchTo, running,
                   doneFetch, mainHeight, crosschain, crashes>>

\* The rest of ProcessCCRPC after Serve: the new search limit and the done epoch.
FinishCCRPC ==
    /\ pc = "flush"
    /\ DOMAIN serve.update = {}
    /\ searchTo' = serve.nextSearchTo
    /\ trunk' = [trunk EXCEPT !.doneMain = IF serve.done > world.doneMain THEN serve.done ELSE @]
    /\ serve' = NoServe
    /\ pc' = "served"
    /\ UNCHANGED <<mainTime, blockTime, db, history, world, running,
                   doneFetch, mainHeight, crosschain, crashes>>

\* The rest of Commit: refresh writes the trunk and the block's number to the world state ...
WriteWorld ==
    /\ pc = "served"
    /\ world' = [trunk EXCEPT !.height = currHeight]
    /\ trunk' = world'
    /\ pc' = "written"
    /\ UNCHANGED <<mainTime, blockTime, db, history, searchTo, running,
                   doneFetch, mainHeight, serve, crosschain, crashes>>

\* ... and then publishes the block before it to the history store.
PublishPrev ==
    /\ pc = "written"
    /\ history' = history \cup (IF world.height > 1 THEN {world.height - 1} ELSE {})
    /\ pc' = "idle"
    /\ UNCHANGED <<mainTime, blockTime, db, world, trunk, searchTo, running,
                   doneFetch, mainHeight, serve, crosschain, crashes>>
----------------------------------------------------------------------------
Node ==
    \/ SkipCCRPC \/ ProcessCCRPC \/ Serve
    \/ ServeTooEarly \/ ServeMapped \/ ServeSearch \/ ServeExhausted
    \/ FlushOne \/ FinishCCRPC \/ WriteWorld \/ PublishPrev
Fetcher == FetcherPoll \/ FetcherFetch \/ FetcherFail

Next ==
    \/ \E t \in 0..MaxTime : MineMain(t) \/ BeginBlock(t)
    \/ Node \/ Fetcher
    \/ Crash \/ Restart

Spec == Init /\ [][Next]_vars
----------------------------------------------------------------------------
EpochType == [first : Nat, last : Nat, eebt : Nat, smart : Nat, app : Nat]
WorldType == [height : Nat, doneMain : Nat, ledger : Seq([first : Nat, last : Nat, at : Nat])]

\* The types, and what is in memory while the process is down or between two blocks.
TypeOK ==
    /\ mainTime \in Seq(Nat) /\ blockTime \in Seq(Nat)
    /\ DOMAIN db \subseteq Nat /\ \A k \in DOMAIN db : db[k] \in EpochType
    /\ history \subseteq 1..world.height
    /\ world \in WorldType /\ trunk \in WorldType
    /\ pc \in {"down", "idle", "begun", "process", "serve", "flush", "served", "written"}
    /\ searchTo \in Nat /\ running \in BOOLEAN
    /\ doneFetch \in Nat /\ mainHeight \in Nat
    /\ serve.iter \in Nat /\ serve.done \in Nat /\ serve.nextSearchTo \in Nat
    /\ DOMAIN serve.update \subseteq Nat
    /\ \A k \in DOMAIN serve.update : serve.update[k] \in EpochType
    /\ crosschain \subseteq Nat
    /\ crashes \in Nat

\* The smart heights at which the epoch from first to last is due: nn blocks after the first block
\* that is not older than the last main block of the epoch.  One height, or none so far.
DueHeights(first, last) ==
    {f + getEpoch(first).nn : f \in {g \in 2..Len(blockTime) :
                                        MapsTo(blockTime, Len(blockTime), g, mainTime[last])}}

\* What blockAfterTime, the search limit, the stored EEBTSmartHeight and the equality test of
\* processOne add up to: every credit in the committed state was made at the height that the two
\* chains alone determine, whatever was fetched when, and whatever crashed.
AppliedAtMapping ==
    \A i \in DOMAIN world.ledger :
        LET c == world.ledger[i] IN c.last <= Len(mainTime) /\ c.at \in DueHeights(c.first, c.last)

Contiguous(ledger, done) ==
    /\ \A i \in DOMAIN ledger :
          ledger[i].first = IF i = 1 THEN FirstMain ELSE ledger[i - 1].last + 1
    /\ done = IF ledger = <<>> THEN 0 ELSE ledger[Len(ledger)].last

\* Each epoch is credited at most once, in order and without a gap, and DoneMain is the last one:
\* a block that is replayed after a crash does not credit an epoch again.
LedgerContiguous == Contiguous(world.ledger, world.doneMain)

\* The queue holds consecutive epochs from the first one on, under their last height, with the time
\* of their last main block: a restarted fetcher neither skips nor repeats a main block.
QueueContiguous ==
    \A k \in DOMAIN db :
        /\ db[k].last = k
        /\ db[k].first = FirstMain \/ db[k].first - 1 \in DOMAIN db
        /\ FirstMain <= db[k].first /\ db[k].first <= k
        /\ \A j \in DOMAIN db : j < k => j < db[k].first

\* Epochs are queued and credited in order, each once: what a crash, a replayed block and a restarted
\* fetcher leave in the leveldb and in the world state are two stretches of the main chain without gap
\* or overlap.
EpochsInOrder == QueueContiguous /\ LedgerContiguous

\* DO_GetCrosschain hands out what the main chain says: the end time of a queued epoch is the time
\* of its last main block.
QueueFaithful ==
    \A k \in DOMAIN db : k <= Len(mainTime) /\ db[k].eebt = mainTime[k]

\* No committed block passes the application height of a queued and mapped epoch without crediting
\* it (the "missed epoch" panic comes before the commit).
NoneOverdue ==
    pc \in {"served", "written"} =>
        \A k \in DOMAIN db :
            k > trunk.doneMain /\ db[k].smart # 0 =>
                db[k].smart + getEpoch(db[k].first).nn > (IF pc = "served" THEN currHeight ELSE world.height)

\* A stored EEBTSmartHeight is final and no epoch leaves the queue: neither a fetch nor a second
\* search after a restart, with another search limit, changes the height nodes agreed on.
MappingStable ==
    [][\A k \in DOMAIN db :
          /\ k \in DOMAIN db'
          /\ db[k].smart # 0 => db'[k] = db[k]]_vars

----------------------------------------------------------------------------
\* The strengthening of the safety invariants that is inductive.  Block times do not decrease and
\* the node is at most one block behind the chain.
ChainInv ==
    /\ \A a, b \in 1..Len(blockTime) : a <= b => blockTime[a] <= blockTime[b]
    /\ world.height <= Len(blockTime) /\ Len(blockTime) <= world.height + 1
    /\ pc \in {"begun", "process", "serve", "flush", "served"} => Len(blockTime) = world.height + 1

\* A stored height is the mapping of the stored end time (an error reply left 0, which maps nowhere).
QueueInv ==
    /\ QueueContiguous
    /\ \A k \in DOMAIN db :
          /\ k <= Len(mainTime)
          /\ db[k].eebt \in {0, mainTime[k]}
          /\ db[k].smart # 0 => MapsTo(blockTime, Len(blockTime), db[k].smart, db[k].eebt)

FetchInv ==
    /\ mainHeight <= Len(mainTime)
    /\ running => \/ DOMAIN db = {} /\ doneFetch = FirstMain - 1
                  \/ doneFetch \in DOMAIN db /\ \A k \in DOMAIN db : k <= doneFetch

\* What Serve is about to write back are mappings of entries that have none.
ServeInv ==
    /\ pc \notin {"serve", "flush"} => serve = NoServe
    /\ serve.iter = serve.done
    /\ \A k \in DOMAIN serve.update :
          LET u == serve.update[k]
          IN  /\ k \in DOMAIN db
              /\ db[k].smart = 0 /\ u.smart # 0
              /\ u.first = db[k].first /\ u.last = k /\ u.eebt = db[k].eebt
              /\ MapsTo(blockTime, Len(blockTime), u.smart, u.eebt)
    /\ pc \in {"serve", "flush"} =>
          /\ serve.done \in DOMAIN db \cup {0}
          /\ serve.done >= world.doneMain
          /\ serve.nextSearchTo = searchTo \/ serve.nextSearchTo \in history

CreditsDue(ledger) ==
    \A i \in DOMAIN ledger :
        /\ ledger[i].last \in 1..Len(mainTime)
        /\ ledger[i].at \in DueHeights(ledger[i].first, ledger[i].last)

LedgerInv ==
    /\ world.doneMain \in DOMAIN db \cup {0}
    /\ trunk.doneMain \in DOMAIN db \cup {0}
    /\ LedgerContiguous
    /\ pc \in {"serve", "flush"} =>
          Contiguous(trunk.ledger, serve.done) /\ trunk.doneMain = world.doneMain
    /\ pc = "served" => Contiguous(trunk.ledger, trunk.doneMain)
    /\ pc \notin {"serve", "flush", "served"} => trunk = world
    /\ trunk.height = world.height
    /\ CreditsDue(world.ledger)
    /\ CreditsDue(trunk.ledger)

\* The search limit stays below the top of the history store, except at the fork block; and the
\* store is only empty above the fork block when every commit since was torn.
SearchInv ==
    /\ history \subseteq 1..(world.height - 1)
    /\ crashes <= MaxCrashes
    /\ searchTo # ForkBlock =>
          /\ pc = "served" => searchTo < world.height
          /\ pc = "written" => searchTo < world.height - 1
          /\ pc \notin {"served", "written"} => \E b \in history : b > searchTo
    /\ (\A b \in history : b <= ForkBlock) =>
          world.height + (IF pc = "written" THEN 0 ELSE 1)
              <= ForkBlock + 2 + (IF TornCommit THEN crashes ELSE 0)

IInv == TypeOK /\ ChainInv /\ QueueInv /\ FetchInv /\ ServeInv /\ LedgerInv /\ SearchInv
=============================================================================
