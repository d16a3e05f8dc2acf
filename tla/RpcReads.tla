------------------------------ MODULE RpcReads ------------------------------
(***************************************************************************)
(* What a JSON-RPC client reads while the node commits blocks: the state,  *)
(* the blocks and the calls of rpc/api/eth_api.go and sbch_api.go, through *)
(* api/backend.go, from the stores that App.Commit writes (app/app.go).    *)
(*                                                                         *)
(* A request takes no lock of the application.  It reads the stores in     *)
(* several steps, and the node commits between them.  A state of the world *)
(* is named by the height of the block whose execution it contains; a      *)
(* block, and the transactions of a block, by the block's height.          *)
(***************************************************************************)
EXTENDS Integers, FiniteSetsExt

CONSTANTS
    ArchiveMode,        \* the node keeps every version of the world state
    NumKeptBlocksInDB,  \* blocks kept in the history store, all if not positive
    MaxHeight,          \* bound: the last block that is committed
    Requests            \* what the client may ask

ASSUME ConfigAssumption ==
    /\ ArchiveMode \in BOOLEAN
    /\ NumKeptBlocksInDB \in Int
    /\ MaxHeight \in Nat

ASSUME RequestsAssumption ==
    \A r \in Requests : r.by \in {"number", "hash"} /\ r.n \in Int /\ r.n >= -2

VARIABLES
    curr,     \* app.currHeight
    npc,      \* where the node is in Commit
    world,    \* app.root: the newest state written to it
    history,  \* app.historyStore: the heights of the blocks in it
    info,     \* app.blockInfo: the number of the block that calls run in
    req,      \* the client's request
    pc,       \* where the goroutine that serves it is
    local,    \* that goroutine's variables: height, block and block info
    ans,      \* the answer
    told      \* the newest block the client had heard of when it asked

node == <<curr, npc, world, history, info>>
client == <<req, pc, local, ans, told>>
readsVars == <<node, client>>

Latest == -1
Pending == -2
Absent == -3    \* nothing: a nil pointer, an absent field

NoLocal == [height |-> Absent, block |-> Absent, info |-> Absent]
Answer(status, state, infoOf, block, txs) ==
    [status |-> status, state |-> state, info |-> infoOf, block |-> block, txs |-> txs]
Failed(status) == Answer(status, Absent, Absent, Absent, Absent)
NoAnswer == Failed("none")
NoRequest == [op |-> "none", by |-> "number", n |-> 0]

\* The history store: the newest block in it, 0 when it is empty.
GetLatestHeight == Max(history \union {0})

ReadsInit ==
    /\ curr = 0 /\ npc = "idle" /\ world = 0 /\ history = {} /\ info = Absent
    /\ req = NoRequest /\ pc = "idle" /\ local = NoLocal /\ ans = NoAnswer
    /\ told = 0

-----------------------------------------------------------------------------
(* The node.  Block curr is begun and delivered; Commit writes the state   *)
(* of the block before to the root, publishes that block, and stores the   *)
(* information of block curr for the calls to come.                        *)

BeginBlock ==
    /\ npc = "idle" /\ curr < MaxHeight
    /\ curr' = curr + 1 /\ npc' = "commit"
    /\ UNCHANGED <<world, history, info, client>>

\* app.trunk.Close(true): the root now holds the execution of block curr - 1.
WriteRoot ==
    /\ npc = "commit"
    /\ world' = curr - 1 /\ npc' = "written"
    /\ UNCHANGED <<curr, history, info, client>>

\* The blocks the store keeps when block curr - 1 is added to it.
Pruned(heights) ==
    IF NumKeptBlocksInDB > 0 /\ curr > NumKeptBlocksInDB
    THEN {h \in heights : h >= curr - NumKeptBlocksInDB} ELSE heights

\* app.publish(prevBlock): there is none at the first block.
PublishPrev ==
    /\ npc = "written"
    /\ history' = IF curr > 1 THEN Pruned(history \union {curr - 1}) ELSE history
    /\ npc' = "published"
    /\ UNCHANGED <<curr, world, info, client>>

syncBlockInfo ==
    /\ npc = "published"
    /\ info' = curr /\ npc' = "idle"
    /\ UNCHANGED <<curr, world, history, client>>

-----------------------------------------------------------------------------
(* The client asks, by number or by hash, and waits for the answer.        *)

StateOps == {"getBalance", "getCode", "getStorageAt", "getTransactionCount"}
CallOps == {"call", "estimateGas", "zeniqCall"}
BlockOps == {"getBlock", "getFullBlock", "getTransactionByIndex"}

Ask(r) ==
    /\ pc = "idle"
    /\ req' = r /\ ans' = NoAnswer /\ local' = NoLocal
    /\ pc' = CASE r.op \in StateOps \union CallOps -> "height"
               [] r.op \in BlockOps -> "block"
               [] OTHER -> "latest"
    /\ UNCHANGED <<node, told>>

Reply(a) ==
    /\ ans' = a /\ pc' = "answered"
    /\ UNCHANGED <<node, req, local, told>>

Goto(where, l) ==
    /\ local' = l /\ pc' = where
    /\ UNCHANGED <<node, req, ans, told>>

\* The client keeps the newest height an answer named.
Hear ==
    /\ pc = "answered" /\ pc' = "idle"
    /\ told' = Max({told, ans.block})
    /\ req' = NoRequest /\ ans' = NoAnswer /\ local' = NoLocal
    /\ UNCHANGED node

BlockNumber ==
    /\ pc = "latest"
    /\ Reply(Answer("ok", Absent, Absent, GetLatestHeight, Absent))

\* A slip: a height of the future is not refused.
getHeightArgFuture(r) ==
    IF ~ArchiveMode THEN Latest
    ELSE IF r.by = "number" THEN IF r.n = Pending THEN Absent ELSE r.n
    ELSE IF r.n \in history THEN r.n ELSE Absent

\* The height a request is served at, Absent if it is refused.  Without an
\* archive every request is served at the latest one, whatever it says.
getHeightArg(r) ==
    IF ~ArchiveMode THEN Latest
    ELSE IF r.by = "number"
    THEN IF r.n = Pending \/ (r.n > 0 /\ r.n > GetLatestHeight) THEN Absent ELSE r.n
    ELSE IF r.n \in history THEN r.n ELSE Absent

HeightArg ==
    /\ pc = "height"
    /\ IF getHeightArg(req) = Absent THEN Reply(Failed("error"))
       ELSE Goto(IF req.op \in CallOps THEN "info" ELSE "state",
                 [local EXCEPT !.height = getHeightArg(req)])

\* The height whose state is read: zeniq_call runs on the state before the
\* block it is asked for.
StateHeight ==
    IF req.op = "zeniqCall" /\ local.height >= 1 THEN local.height - 1
    ELSE local.height

\* A slip: the number that stands for the latest height is taken for the first version.
GetRpcContextAtFirst(height) ==
    IF ~ArchiveMode THEN world ELSE Min({Max({height, 0}), world})

\* The world as of a height: the newest version not above it.
GetRpcContextAtHeight(height) ==
    IF ~ArchiveMode \/ height < 0 THEN world ELSE Min({height, world})

\* GetBalance, GetCode, GetStorageAt and GetTransactionCount read one state.
ReadState ==
    /\ pc = "state"
    /\ Reply(Answer("ok", GetRpcContextAtHeight(local.height), Absent, Absent, Absent))

\* RunTxForRpc and RunTxForSbchRpc: the block information of the call.  Before
\* the first Commit there is none and LoadBlockInfo panics; a block that is not
\* found leaves no runner, which the backend dereferences.
CallInfo ==
    /\ pc = "info"
    /\ IF \/ info = Absent /\ ~(req.op = "zeniqCall" /\ local.height >= 1)
          \/ local.height > 0 /\ local.height \notin history
       THEN Reply(Failed("panic"))
       ELSE Goto("run", [local EXCEPT !.info =
                IF local.height > 0 THEN local.height ELSE info])

\* ... and the run itself, on the state of its height.
RunCall ==
    /\ pc = "run"
    /\ Reply(Answer("ok", GetRpcContextAtHeight(StateHeight), local.info, Absent, Absent))

\* getBlockByNum and BlockByHash.  CurrentBlock asks for the latest height and
\* then for the block, which are two reads of the store.
FindBlock ==
    /\ pc = "block"
    /\ LET latest == req.by = "number" /\ req.n < 0
           zero == req.n = 0
       IN IF latest /\ local.height = Absent
          THEN Goto("block", [local EXCEPT !.height = GetLatestHeight])
          ELSE LET b == IF latest THEN local.height ELSE req.n IN
               IF b \in history \/ (zero /\ ~latest)
               THEN IF req.op = "getBlock"
                    THEN Reply(Answer("ok", Absent, Absent, b, Absent))
                    ELSE Goto("txs", [local EXCEPT !.block = b])
               ELSE Reply(Failed("notFound"))

\* A slip: the transactions of the latest block are added to the block found.
BlockTxsLatest ==
    /\ pc = "txs"
    /\ Reply(Answer("ok", Absent, Absent, local.block, GetLatestHeight))

\* GetTxListByHeight, and GetTransaction for a transaction of a block found
\* before.  The store answers a list for a height it does not have with an
\* error or an empty list; block 0 has no transaction at any index.
BlockTxs ==
    /\ pc = "txs"
    /\ \/ /\ local.block \in history
          /\ Reply(Answer("ok", Absent, Absent, local.block, local.block))
       \/ /\ local.block \notin history
          /\ \/ /\ req.op = "getFullBlock" \/ local.block # 0
                /\ Reply(Failed("error"))
             \/ /\ req.op = "getFullBlock" \/ local.block = 0
                /\ Reply(Answer("ok", Absent, Absent, local.block, Absent))

ReadsNext ==
    \/ BeginBlock \/ WriteRoot \/ PublishPrev \/ syncBlockInfo
    \/ \E r \in Requests : Ask(r)
    \/ Hear \/ BlockNumber \/ HeightArg \/ ReadState \/ CallInfo \/ RunCall
    \/ FindBlock \/ BlockTxs

ReadsSpec == ReadsInit /\ [][ReadsNext]_readsVars

-----------------------------------------------------------------------------
Answered == pc = "answered" /\ ans.status = "ok"

\* The client asked for one block by its number or its hash.
Names(n) == req.n = n /\ n > 0

\* The blocks the history store promises to have: the last NumKeptBlocksInDB.
Kept(n) ==
    /\ n \in 1..GetLatestHeight
    /\ NumKeptBlocksInDB > 0 => n > GetLatestHeight - NumKeptBlocksInDB

\* The variables have their types.
ReadsTypeOK ==
    /\ curr \in 0..MaxHeight /\ world \in 0..MaxHeight
    /\ info \in 1..MaxHeight \union {Absent}
    /\ npc \in {"idle", "commit", "written", "published"}
    /\ history \subseteq 1..MaxHeight
    /\ req \in Requests \union {NoRequest}
    /\ pc \in {"idle", "latest", "height", "state", "info", "run", "block",
               "txs", "answered"}
    /\ told \in 0..MaxHeight

\* With an archive, a request that names a block is answered from the state
\* right after that block (zeniq_call: right before it) and a call runs with
\* that block's information, even when it is the newest block and the node is
\* in the middle of committing the next.  The check against the published
\* height in getHeightArg, and the root being written before the block is
\* published in refresh, are what it rests on.
StateOfHeight ==
    ArchiveMode /\ Answered => \A n \in 1..MaxHeight : Names(n) =>
        /\ req.op \in StateOps \union {"call", "estimateGas"} => ans.state = n
        /\ req.op = "zeniqCall" => ans.state = n - 1
        /\ req.op \in CallOps => ans.info = n

\* A client that has heard of a block never reads an older state at the
\* latest height afterwards, and its calls do not run in an older block.  On
\* a node without an archive this goes for every request.
NeverOlderThanTold ==
    (Answered /\ (~ArchiveMode \/ (req.by = "number" /\ req.n = Latest)))
        => /\ ans.state # Absent => ans.state >= told
           /\ ans.info # Absent => ans.info >= told

\* A block among the last NumKeptBlocksInDB that the client has heard of is
\* found by every request that names it: no "not found", no error, no panic of a
\* call whose block has gone between the check of its height and its run.
KeptIsFound ==
    pc = "answered" /\ ans.status # "ok" =>
        \A n \in 1..told : Names(n) => ~Kept(n)

\* A block answered with its transactions is answered with its own, also when
\* newer blocks have been published between the two reads; they are missing
\* only when the block has been pruned between them, or it is block 0.
WholeBlock ==
    (Answered /\ req.op \in {"getFullBlock", "getTransactionByIndex"})
        => ans.txs = ans.block \/ (ans.txs = Absent /\ ~Kept(ans.block))

\* What the store promises to keep is found, and found whole, in the middle of commits and pruning.
BlocksFound == KeptIsFound /\ WholeBlock
=============================================================================
