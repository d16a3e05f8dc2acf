--------------------------- MODULE RpcReadsProofs ---------------------------
(***************************************************************************)
(* Proofs about RpcReads for every number of blocks, every set of requests *)
(* and every setting of the archive and of the pruning.                    *)
(***************************************************************************)
EXTENDS RpcReads, TLAPS

\* The block before a height, 0 if there is none.
Before(h) == IF h > 0 THEN h - 1 ELSE 0

\* The newest block that has been published.
Top == IF npc \in {"idle", "published"} THEN Before(curr) ELSE Before(curr - 1)

\* The stores, by where the node is in Commit.
NodeInv ==
    /\ curr \in Nat
    /\ npc \in {"idle", "commit", "written", "published"}
    /\ npc # "idle" => curr > 0
    /\ world = IF npc = "commit" THEN Before(curr - 1) ELSE Before(curr)
    /\ info = IF npc = "idle" THEN (IF curr = 0 THEN Absent ELSE curr)
              ELSE (IF curr = 1 THEN Absent ELSE curr - 1)
    /\ history \subseteq 1..Top
    /\ Top > 0 => Top \in history
    /\ \A n \in 1..Top : (NumKeptBlocksInDB > 0 => n > Top - NumKeptBlocksInDB)
                            => n \in history

LocalType == [height : Int, block : Int, info : Int]
Statuses == {"none", "ok", "error", "panic", "notFound"}
AnswerType == [status : Statuses, state : Int, info : Int, block : Int, txs : Int]
Requested == req \in Requests \union {NoRequest}

\* What the goroutine that serves a request knows, by where it is.
ClientInv ==
    /\ told \in Nat /\ told <= Top
    /\ Requested
    /\ local \in LocalType
    /\ ans \in AnswerType
    /\ ans.block <= Top
    /\ pc \in {"state", "info", "run"} =>
        /\ ~ArchiveMode => local.height = Latest
        /\ ArchiveMode => local.height = req.n /\ local.height <= Top
    /\ pc = "run" =>
        /\ local.height > 0 => local.info = local.height
        /\ local.height < 0 => local.info >= told
    /\ pc = "block" =>
        /\ local.height <= Top
        /\ local.height # Absent => local.height >= 0
    /\ pc = "txs" => /\ local.block >= 0 /\ local.block <= Top
                     /\ req.n > 0 => local.block = req.n

\* Each operation takes its own way through the steps.
RouteInv ==
    /\ pc \in {"idle", "latest", "height", "state", "info", "run", "block", "txs", "answered"}
    /\ pc = "height" => req.op \in StateOps \union CallOps
    /\ pc = "state" => req.op \in StateOps
    /\ pc \in {"info", "run"} => req.op \in CallOps
    /\ pc \in {"block", "txs"} => req.op \in BlockOps
    /\ pc = "latest" => req.op \notin StateOps \union CallOps \union BlockOps

AnswerInv == StateOfHeight /\ NeverOlderThanTold /\ KeptIsFound /\ WholeBlock

IInv == NodeInv /\ ClientInv /\ RouteInv /\ AnswerInv

-----------------------------------------------------------------------------
\* The greatest of a set is the one that no other exceeds.
LEMMA MaxIs ==
    ASSUME NEW S \in SUBSET Int, NEW m \in S, \A y \in S : y <= m
    PROVE  Max(S) = m
<1>1. \A x \in S : (\A y \in S : x >= y) => x = m
  OBVIOUS
<1>2. \E x \in S : \A y \in S : x >= y
  OBVIOUS
<1>3. Max(S) \in S /\ \A y \in S : Max(S) >= y
  BY <1>2, Zenon DEF Max
<1>4. QED
  BY <1>1, <1>3

\* The lesser of two.
LEMMA MinIs ==
    ASSUME NEW a \in Int, NEW b \in Int
    PROVE  Min({a, b}) = IF a <= b THEN a ELSE b
<1> DEFINE m == IF a <= b THEN a ELSE b
<1>1. m \in {a, b} /\ \A y \in {a, b} : m =< y
  OBVIOUS
<1>2. \A x \in {a, b} : (\A y \in {a, b} : x =< y) => x = m
  OBVIOUS
<1>3. Min({a, b}) \in {a, b} /\ \A y \in {a, b} : Min({a, b}) =< y
  BY <1>1, Zenon DEF Min
<1>4. QED
  BY <1>2, <1>3

\* The greater of two.
LEMMA MaxOfTwo ==
    ASSUME NEW a \in Int, NEW b \in Int
    PROVE  Max({a, b}) = IF a >= b THEN a ELSE b
<1> DEFINE m == IF a >= b THEN a ELSE b
<1>1. m \in {a, b} /\ \A y \in {a, b} : y <= m
  OBVIOUS
<1>2. {a, b} \in SUBSET Int
  OBVIOUS
<1> HIDE DEF m
<1>3. Max({a, b}) = m
  BY <1>1, <1>2, MaxIs
<1>4. QED
  BY <1>3 DEF m

\* The greatest of a set of heights that holds its upper bound.
LEMMA MaxOfHeights ==
    ASSUME NEW H, NEW t \in Nat, H \subseteq 1..t, t > 0 => t \in H
    PROVE  Max(H \union {0}) = t
<1>1. /\ H \union {0} \in SUBSET Int /\ t \in H \union {0}
      /\ \A y \in H \union {0} : y <= t
  OBVIOUS
<1>2. QED
  BY <1>1, MaxIs

\* There is no height below 0.
LEMMA BeforeType == \A h \in Int : Before(h) \in Nat
BY DEF Before

\* The height the history store reports is the newest block published.
LEMMA LatestIsTop ==
    ASSUME NodeInv
    PROVE  GetLatestHeight = Top /\ Top \in Nat /\ Top <= world /\ world \in Nat
<1>1. Top \in Nat /\ Top <= world /\ world \in Nat
  BY DEF NodeInv, Top, Before
<1>2. QED
  BY <1>1, MaxOfHeights DEF GetLatestHeight, NodeInv

\* ... also after a step.
LEMMA LatestIsTopAfter ==
    ASSUME NodeInv'
    PROVE  GetLatestHeight' = Top' /\ Top' \in Nat
<1>1. Top' \in Nat
  <2>1. curr' \in Nat /\ (npc' # "idle" => curr' > 0)
    BY DEF NodeInv
  <2>2. Top' = IF npc' \in {"idle", "published"} THEN Before(curr') ELSE Before(curr' - 1)
    BY DEF Top, Before
  <2>3. QED
    BY <2>1, <2>2, BeforeType
<1>2. QED
  BY <1>1, MaxOfHeights DEF GetLatestHeight, NodeInv

-----------------------------------------------------------------------------
NodeNext == BeginBlock \/ WriteRoot \/ PublishPrev \/ syncBlockInfo

\* The blocks that are left when the newest one is added: the last ones, and
\* that one is among them.
LEMMA PublishKeeps ==
    ASSUME NodeInv, PublishPrev
    PROVE  /\ history' \subseteq 1..Top'
           /\ Top' > 0 => Top' \in history'
           /\ \A n \in 1..Top' : (NumKeptBlocksInDB > 0 => n > Top' - NumKeptBlocksInDB)
                                    => n \in history'
<1> USE ConfigAssumption
<1>1. curr \in Nat /\ curr > 0 /\ Top = Before(curr - 1) /\ Top' = curr - 1
  BY DEF NodeInv, PublishPrev, Top, Before
<1>2. CASE curr = 1
  BY <1>1, <1>2 DEF NodeInv, PublishPrev, Before
<1>3. CASE curr > 1
  <2>1. Top = curr - 2 /\ history' = Pruned(history \union {curr - 1})
    BY <1>1, <1>3 DEF PublishPrev, Before
  <2>2. /\ history \subseteq 1..curr - 2
        /\ \A n \in 1..curr - 2 : (NumKeptBlocksInDB > 0 => n > curr - 2 - NumKeptBlocksInDB)
                                     => n \in history
    BY <2>1 DEF NodeInv
  <2>3. CASE NumKeptBlocksInDB > 0 /\ curr > NumKeptBlocksInDB
    <3>1. history' = {h \in history \union {curr - 1} : h >= curr - NumKeptBlocksInDB}
      BY <2>1, <2>3 DEF Pruned
    <3>2. \A n \in 1..curr - 1 : n > curr - 1 - NumKeptBlocksInDB => n \in history'
      BY <1>1, <1>3, <2>2, <2>3, <3>1
    <3>3. curr - 1 >= curr - NumKeptBlocksInDB
      BY <1>1, <2>3
    <3>4. curr - 1 \in history'
      BY <3>1, <3>3
    <3>5. history' \subseteq history \union {curr - 1}
      BY <3>1
    <3>6. history' \subseteq 1..curr - 1
      BY <1>1, <1>3, <2>2, <3>5
    <3>7. QED
      BY <1>1, <2>3, <3>2, <3>4, <3>6
  <2>4. CASE ~(NumKeptBlocksInDB > 0 /\ curr > NumKeptBlocksInDB)
    <3>1. history' = history \union {curr - 1}
      BY <2>1, <2>4 DEF Pruned
    <3>2. \A n \in 1..curr - 2 : n \in history
      BY <1>1, <1>3, <2>2, <2>4
    <3>3. QED
      BY <1>1, <1>3, <2>2, <3>1, <3>2
  <2>5. QED
    BY <2>3, <2>4
<1>4. QED
  BY <1>1, <1>2, <1>3

\* Every step of the node leads from one row of NodeInv to the next.
LEMMA NodeStep ==
    ASSUME NodeInv, NodeNext
    PROVE  NodeInv' /\ Top <= Top' /\ Top' \in Nat
<1>1. CASE BeginBlock
  <2>1. /\ curr \in Nat /\ npc = "idle" /\ curr' = curr + 1 /\ npc' = "commit"
        /\ UNCHANGED <<world, history, info>>
    BY <1>1 DEF BeginBlock, NodeInv
  <2>2. Top' = Top
    BY <2>1 DEF Top, Before
  <2>3. QED
    BY <2>1, <2>2, LatestIsTop DEF NodeInv, Before
<1>2. CASE WriteRoot
  <2>1. /\ curr \in Nat /\ npc = "commit" /\ world' = curr - 1 /\ npc' = "written"
        /\ UNCHANGED <<curr, history, info>>
    BY <1>2 DEF WriteRoot, NodeInv
  <2>2. Top' = Top
    BY <2>1 DEF Top, Before
  <2>3. QED
    BY <2>1, <2>2, LatestIsTop DEF NodeInv, Before
<1>3. CASE PublishPrev
  <2>1. /\ curr \in Nat /\ curr > 0 /\ npc = "written" /\ npc' = "published"
        /\ UNCHANGED <<curr, world, info>>
    BY <1>3 DEF PublishPrev, NodeInv
  <2>2. Top' = curr - 1 /\ Top = Before(curr - 1)
    BY <2>1 DEF Top, Before
  <2>3. curr' \in Nat /\ npc' \in {"idle", "commit", "written", "published"}
    BY <2>1
  <2>4. /\ npc' # "idle" => curr' > 0
        /\ world' = IF npc' = "commit" THEN Before(curr' - 1) ELSE Before(curr')
        /\ info' = IF npc' = "idle" THEN (IF curr' = 0 THEN Absent ELSE curr')
                   ELSE (IF curr' = 1 THEN Absent ELSE curr' - 1)
    BY <2>1 DEF NodeInv
  <2>5. QED
    BY <1>3, <2>1, <2>2, <2>3, <2>4, PublishKeeps DEF NodeInv, Before
<1>4. CASE syncBlockInfo
  <2>1. /\ curr \in Nat /\ curr > 0 /\ npc = "published" /\ npc' = "idle" /\ info' = curr
        /\ UNCHANGED <<curr, world, history>>
    BY <1>4 DEF syncBlockInfo, NodeInv
  <2>2. Top' = Top
    BY <2>1 DEF Top, Before
  <2>3. QED
    BY <2>1, <2>2, LatestIsTop DEF NodeInv, Before
<1>5. QED
  BY <1>1, <1>2, <1>3, <1>4 DEF NodeNext

\* The arithmetic of a window that moves up.
LEMMA StaysBelow ==
    ASSUME NEW t \in Nat, NEW u \in Nat, t <= u, NEW k \in Int, NEW n \in Int, n <= t,
           ~(n \in 1..t /\ (k > 0 => n > t - k))
    PROVE  ~(n \in 1..u /\ (k > 0 => n > u - k))
OBVIOUS

\* A block that the store no longer promises to have is never promised again.
LEMMA KeptShrinks ==
    ASSUME NodeInv, NodeInv', Top <= Top', NEW n \in Int, n <= Top, ~Kept(n)
    PROVE  ~Kept(n)'
<1>1. GetLatestHeight = Top /\ Top \in Nat
  BY LatestIsTop
<1>2. GetLatestHeight' = Top' /\ Top' \in Nat
  BY LatestIsTopAfter
<1>3. Kept(n) <=> n \in 1..Top /\ (NumKeptBlocksInDB > 0 => n > Top - NumKeptBlocksInDB)
  BY <1>1 DEF Kept
<1>4. Kept(n)' <=> n \in 1..Top' /\ (NumKeptBlocksInDB > 0 => n > Top' - NumKeptBlocksInDB)
  BY <1>2 DEF Kept
<1>5. ~(n \in 1..Top /\ (NumKeptBlocksInDB > 0 => n > Top - NumKeptBlocksInDB))
  BY <1>3, Zenon
<1>6. ~(n \in 1..Top' /\ (NumKeptBlocksInDB > 0 => n > Top' - NumKeptBlocksInDB))
  BY <1>1, <1>2, <1>5, StaysBelow, ConfigAssumption
<1>7. QED
  BY <1>4, <1>6, Zenon

\* The fields of an answer and of the local variables.
LEMMA FieldTypes ==
    /\ \A a \in AnswerType : a.state \in Int /\ a.info \in Int /\ a.block \in Int /\ a.txs \in Int
    /\ \A l \in LocalType : l.height \in Int /\ l.block \in Int /\ l.info \in Int
BY DEF AnswerType, LocalType

\* The steps of the node do not disturb a request.
LEMMA NodeKeepsClient ==
    ASSUME IInv, NodeNext
    PROVE  IInv'
<1>1. NodeInv /\ NodeInv' /\ Top <= Top' /\ Top \in Nat /\ Top' \in Nat
  BY NodeStep, LatestIsTop DEF IInv
<1>2. UNCHANGED <<req, pc, local, ans, told>>
  BY DEF NodeNext, BeginBlock, WriteRoot, PublishPrev, syncBlockInfo, client
<1>3. ClientInv'
  <2> ClientInv
    BY DEF IInv
  <2>1. /\ told <= Top' /\ ans.block <= Top'
        /\ local.height <= Top => local.height <= Top'
        /\ local.block <= Top => local.block <= Top'
    BY <1>1, FieldTypes DEF ClientInv
  <2>2. Requested'
    BY <1>2 DEF ClientInv, Requested
  <2>3. QED
    BY <1>2, <2>1, <2>2 DEF ClientInv
<1>4. RouteInv'
  BY <1>2 DEF IInv, RouteInv
<1>5. StateOfHeight' /\ NeverOlderThanTold'
  BY <1>2, Zenon DEF IInv, AnswerInv, StateOfHeight, NeverOlderThanTold, Answered, Names
<1>6. KeptIsFound'
  <2> SUFFICES ASSUME pc' = "answered", ans'.status # "ok", NEW n \in 1..told', Names(n)'
               PROVE  ~Kept(n)'
    BY Zenon DEF KeptIsFound
  <2>1. n \in 1..told /\ Names(n)
    BY <1>2 DEF Names
  <2>2. ~Kept(n)
    BY <1>2, <2>1 DEF IInv, AnswerInv, KeptIsFound
  <2>3. n \in Int /\ n <= Top
    BY <1>1, <2>1 DEF IInv, ClientInv
  <2>4. QED
    BY <1>1, <2>2, <2>3, KeptShrinks
<1>7. WholeBlock'
  <2>1. ans.block \in Int /\ ans.block <= Top
    BY FieldTypes DEF IInv, ClientInv
  <2>2. ~Kept(ans.block) => ~Kept(ans.block)'
    <3> DEFINE b == ans.block
    <3>1. b \in Int /\ b <= Top /\ b' = b
      BY <1>2, <2>1
    <3> HIDE DEF b
    <3>2. PICK c \in Int : c = b
      BY <3>1
    <3>3. ~Kept(c) => ~Kept(c)'
      BY <1>1, <3>1, <3>2, KeptShrinks
    <3>4. Kept(b)' => Kept(c)'
      BY <3>1, <3>2 DEF Kept
    <3>5. ~Kept(b) => ~Kept(b)'
      BY <3>2, <3>3, <3>4
    <3>6. QED
      BY <3>5 DEF b
  <2>3. QED
    BY <1>2, <2>2, Zenon DEF IInv, AnswerInv, WholeBlock, Answered
<1>8. QED
  BY <1>1, <1>3, <1>4, <1>5, <1>6, <1>7 DEF IInv, AnswerInv

-----------------------------------------------------------------------------
\* A step of the request leaves the stores alone.
LEMMA SameNode ==
    ASSUME NodeInv, UNCHANGED node
    PROVE  NodeInv' /\ Top' = Top /\ GetLatestHeight' = GetLatestHeight /\ history' = history
BY DEF NodeInv, Top, GetLatestHeight, node

\* The store has every block that it promises.
LEMMA KeptIsThere ==
    ASSUME NodeInv, NEW n \in Int, Kept(n)
    PROVE  n \in history /\ n <= Top
BY LatestIsTop DEF Kept, NodeInv

\* Nothing is claimed of a request that has not been answered.
LEMMA NotAnswered == pc' # "answered" => AnswerInv'
BY DEF AnswerInv, StateOfHeight, NeverOlderThanTold, KeptIsFound, WholeBlock, Answered

\* What is known of any request.
LEMMA RequestType ==
    Requested => req.n \in Int /\ req.n # Absent /\ req.by \in {"number", "hash"}
BY RequestsAssumption DEF Requested, NoRequest, Absent

\* The fields of a failure.
LEMMA FailedFields ==
    ASSUME NEW st \in Statuses
    PROVE  /\ Failed(st) \in AnswerType
           /\ Failed(st).status = st /\ Failed(st).block = Absent
<1>1. Absent \in Int
  BY DEF Absent
<1>2. Failed(st) \in AnswerType
  BY <1>1, Zenon DEF Failed, Answer, AnswerType
<1>3. QED
  BY <1>2, Zenon DEF Failed, Answer

\* Nothing, and the records of nothing.
LEMMA NothingType ==
    /\ Absent \in Int /\ Absent < 0
    /\ NoLocal \in LocalType /\ NoLocal.height = Absent
    /\ NoAnswer \in AnswerType /\ NoAnswer.block = Absent
<1>1. Absent \in Int /\ Absent < 0
  BY DEF Absent
<1>2. NoLocal \in LocalType /\ NoLocal.height = Absent
  BY <1>1 DEF NoLocal, LocalType
<1>3. NoAnswer \in AnswerType /\ NoAnswer.block = Absent
  <2>1. "none" \in Statuses
    BY DEF Statuses
  <2>2. QED
    BY <2>1, FailedFields, Zenon DEF NoAnswer
<1>4. QED
  BY <1>1, <1>2, <1>3

\* A request is asked.
LEMMA AskStep ==
    ASSUME IInv, NEW r \in Requests, Ask(r)
    PROVE  IInv'
<1>1. NodeInv /\ NodeInv' /\ Top' = Top /\ Top \in Nat
  BY SameNode, LatestIsTop DEF IInv, Ask
<1>2. /\ req' = r /\ ans' = NoAnswer /\ local' = NoLocal /\ told' = told
      /\ pc' = CASE r.op \in StateOps \union CallOps -> "height"
                 [] r.op \in BlockOps -> "block"
                 [] OTHER -> "latest"
  BY DEF Ask
<1>3. ~(r.op \in (StateOps \union CallOps) /\ r.op \in BlockOps)
  BY DEF StateOps, CallOps, BlockOps
<1>4. /\ r.op \in StateOps \union CallOps => pc' = "height"
      /\ r.op \in BlockOps => pc' = "block"
      /\ r.op \notin StateOps \union CallOps \union BlockOps => pc' = "latest"
  BY <1>2, <1>3
<1>5. pc' \in {"height", "block", "latest"}
  BY <1>4
<1>6. ClientInv'
  <2>1. Requested' /\ told' \in Nat /\ told' <= Top'
    BY <1>1, <1>2 DEF IInv, ClientInv, Requested
  <2>2. /\ local' \in LocalType
        /\ ans' \in AnswerType
        /\ ans'.block <= Top'
        /\ local'.height = Absent /\ local'.height <= Top'
    BY <1>1, <1>2, NothingType
  <2>3. QED
    BY <1>5, <2>1, <2>2 DEF ClientInv
<1>7. RouteInv'
  BY <1>2, <1>3, <1>4, <1>5 DEF RouteInv
<1>8. QED
  BY <1>1, <1>5, <1>6, <1>7, NotAnswered DEF IInv

\* The answer is heard.
LEMMA HearStep ==
    ASSUME IInv, Hear
    PROVE  IInv'
<1>1. NodeInv /\ NodeInv' /\ Top' = Top /\ Top \in Nat
  BY SameNode, LatestIsTop DEF IInv, Hear
<1>2. /\ req' = NoRequest /\ ans' = NoAnswer /\ local' = NoLocal /\ pc' = "idle"
      /\ told' = Max({told, ans.block})
  BY DEF Hear
<1>3. told \in Nat /\ told <= Top /\ ans.block \in Int /\ ans.block <= Top
  BY FieldTypes DEF IInv, ClientInv
<1>4. told' \in Nat /\ told' <= Top
  <2>1. Max({told, ans.block}) = IF told >= ans.block THEN told ELSE ans.block
    BY <1>3, MaxOfTwo
  <2>2. QED
    BY <1>2, <1>3, <2>1
<1>5. ClientInv'
  BY <1>1, <1>2, <1>4, NothingType DEF ClientInv, Requested
<1>6. RouteInv'
  BY <1>2 DEF RouteInv
<1>7. QED
  BY <1>1, <1>2, <1>5, <1>6, NotAnswered DEF IInv

\* The frame of a step that answers: what is left to show is that the answer
\* has its type, names no block above the newest, and is right.
LEMMA ReplyStep ==
    ASSUME IInv, NEW a, Reply(a),
           a \in AnswerType,
           a.block <= Top, AnswerInv'
    PROVE  IInv'
<1>1. NodeInv /\ NodeInv' /\ Top' = Top
  BY SameNode DEF IInv, Reply
<1>2. ans' = a /\ pc' = "answered" /\ UNCHANGED <<req, local, told>>
  BY DEF Reply
<1>3. ClientInv'
  BY <1>1, <1>2 DEF IInv, ClientInv, Requested
<1>4. RouteInv'
  BY <1>2 DEF RouteInv
<1>5. QED
  BY <1>1, <1>3, <1>4 DEF IInv

\* A failure is right when the block asked for is not one that the client has
\* heard of and that is kept.
LEMMA FailedStep ==
    ASSUME IInv, NEW status \in {"error", "panic", "notFound"}, Reply(Failed(status)),
           \A n \in 1..told : Names(n) => ~Kept(n)
    PROVE  IInv'
<1>1. /\ Failed(status) \in AnswerType /\ Failed(status).status # "ok"
      /\ Failed(status).block = Absent
  <2>1. status \in Statuses /\ status # "ok"
    BY DEF Statuses
  <2>2. QED
    BY <2>1, FailedFields, Zenon
<1>2. Failed(status).block <= Top
  BY <1>1, LatestIsTop, NothingType DEF IInv
<1>3. ans'.status # "ok" /\ UNCHANGED <<req, told>> /\ GetLatestHeight' = GetLatestHeight
  BY <1>1, SameNode DEF Reply, IInv
<1>4. AnswerInv'
  <2>1. ~Answered'
    BY <1>3 DEF Answered
  <2>2. KeptIsFound'
    BY <1>3 DEF KeptIsFound, Names, Kept
  <2>3. QED
    BY <2>1, <2>2 DEF AnswerInv, StateOfHeight, NeverOlderThanTold, WholeBlock
<1>5. QED
  BY <1>1, <1>2, <1>4, ReplyStep

\* What makes a successful answer right.
LEMMA OkStep ==
    ASSUME IInv, NEW s \in Int, NEW i \in Int, NEW b \in Int, NEW t \in Int,
           Reply(Answer("ok", s, i, b, t)), b <= Top,
           ArchiveMode => \A n \in 1..MaxHeight : Names(n) =>
                /\ req.op \in StateOps \union {"call", "estimateGas"} => s = n
                /\ req.op = "zeniqCall" => s = n - 1
                /\ req.op \in CallOps => i = n,
           (~ArchiveMode \/ (req.by = "number" /\ req.n = Latest)) =>
                (s # Absent => s >= told) /\ (i # Absent => i >= told),
           req.op \in {"getFullBlock", "getTransactionByIndex"} =>
                t = b \/ (t = Absent /\ ~Kept(b))
    PROVE  IInv'
<1> DEFINE a == Answer("ok", s, i, b, t)
<1>1. /\ a \in AnswerType /\ a.status = "ok" /\ a.state = s /\ a.info = i
      /\ a.block = b /\ a.txs = t
  <2>1. "ok" \in Statuses
    BY DEF Statuses
  <2>2. a \in AnswerType
    BY <2>1, Zenon DEF Answer, AnswerType
  <2>3. QED
    BY <2>2, Zenon DEF Answer
<1>2. Reply(a)
  OBVIOUS
<1> HIDE DEF a
<1>3. ans' = a /\ UNCHANGED <<req, told, node>>
  BY <1>2 DEF Reply
<1>4. AnswerInv'
  <2>1. StateOfHeight'
    BY <1>1, <1>3 DEF StateOfHeight, Names
  <2>2. NeverOlderThanTold' /\ KeptIsFound'
    BY <1>1, <1>3 DEF NeverOlderThanTold, KeptIsFound
  <2>3. WholeBlock'
    <3>1. Kept(b)' = Kept(b)
      BY <1>3, SameNode DEF IInv, Kept
    <3>2. QED
      BY <1>1, <1>3, <3>1 DEF WholeBlock, Kept
  <2>4. QED
    BY <2>1, <2>2, <2>3 DEF AnswerInv
<1>5. QED
  BY <1>1, <1>2, <1>4, ReplyStep

\* eth_blockNumber.
LEMMA BlockNumberStep ==
    ASSUME IInv, BlockNumber
    PROVE  IInv'
<1>1. GetLatestHeight = Top /\ Top \in Nat /\ Absent \in Int
  BY LatestIsTop, NothingType DEF IInv
<1>2. req.op \notin StateOps \union CallOps \union BlockOps
  BY DEF IInv, RouteInv, BlockNumber
<1>3. Reply(Answer("ok", Absent, Absent, Top, Absent))
  BY <1>1 DEF BlockNumber
<1>4. QED
  BY <1>1, <1>2, <1>3, OkStep DEF StateOps, CallOps, BlockOps

\* The height of a request is settled.
LEMMA HeightStep ==
    ASSUME IInv, HeightArg
    PROVE  IInv'
<1> DEFINE arg == getHeightArg(req)
<1>1. /\ NodeInv /\ ClientInv /\ GetLatestHeight = Top /\ Top \in Nat /\ pc = "height"
      /\ req.n \in Int /\ req.n # Absent /\ req.by \in {"number", "hash"}
      /\ req.op \in StateOps \union CallOps
  BY LatestIsTop, RequestType DEF IInv, HeightArg, ClientInv, RouteInv
<1>2. /\ ~ArchiveMode => arg = Latest /\ arg # Absent
      /\ ArchiveMode => /\ arg # Absent => arg = req.n /\ req.n <= Top
                        /\ arg = Absent => \A n \in 1..told : Names(n) => ~Kept(n)
  <2>1. CASE ~ArchiveMode
    BY <2>1 DEF getHeightArg, Latest, Absent
  <2>2. CASE ArchiveMode /\ req.by = "number"
    <3>1. arg = IF req.n = Pending \/ (req.n > 0 /\ req.n > Top) THEN Absent ELSE req.n
      BY <1>1, <2>2 DEF getHeightArg
    <3>2. \A n \in 1..told : Names(n) => req.n > 0 /\ req.n <= Top
      BY <1>1 DEF Names, ClientInv
    <3>3. QED
      BY <1>1, <2>2, <3>1, <3>2 DEF Pending
  <2>3. CASE ArchiveMode /\ req.by # "number"
    <3>1. arg = IF req.n \in history THEN req.n ELSE Absent
      BY <2>3 DEF getHeightArg
    <3>2. req.n \in history => req.n <= Top
      BY <1>1 DEF NodeInv
    <3>3. req.n \notin history => \A n \in 1..told : Names(n) => ~Kept(n)
      BY <1>1, KeptIsThere DEF Names
    <3>4. QED
      BY <1>1, <2>3, <3>1, <3>2, <3>3
  <2>4. QED
    BY <2>1, <2>2, <2>3
<1>3. CASE arg = Absent
  <2>1. Reply(Failed("error"))
    BY <1>3 DEF HeightArg
  <2>2. QED
    BY <1>2, <1>3, <2>1, FailedStep
<1>4. CASE arg # Absent
  <2>1. Goto(IF req.op \in CallOps THEN "info" ELSE "state",
             [local EXCEPT !.height = arg])
    BY <1>4 DEF HeightArg
  <2>2. arg \in Int
    BY <1>1, <1>2, <1>4, ConfigAssumption DEF Latest
  <2> HIDE DEF arg
  <2>3. /\ local' = [local EXCEPT !.height = arg]
        /\ pc' = IF req.op \in CallOps THEN "info" ELSE "state"
        /\ UNCHANGED <<node, req, ans, told>>
    BY <2>1 DEF Goto
  <2>4. local' \in LocalType /\ local'.height = arg
    BY <1>1, <2>2, <2>3 DEF ClientInv, LocalType
  <2>5. NodeInv' /\ Top' = Top
    BY <1>1, <2>3, SameNode
  <2>6. ClientInv'
    BY <1>1, <1>2, <1>4, <2>3, <2>4, <2>5 DEF ClientInv, Requested
  <2>7. RouteInv'
    BY <1>1, <2>3 DEF RouteInv
  <2>8. QED
    BY <2>3, <2>5, <2>6, <2>7, NotAnswered DEF IInv
<1>5. QED
  BY <1>3, <1>4

\* The world as of a height: the newest one, or the one of that height.
LEMMA WorldAt ==
    ASSUME NodeInv, NEW h \in Int
    PROVE  /\ GetRpcContextAtHeight(h) \in Int
           /\ h < 0 => GetRpcContextAtHeight(h) = world
           /\ ArchiveMode /\ h >= 0 /\ h <= Top => GetRpcContextAtHeight(h) = h
BY LatestIsTop, MinIs DEF GetRpcContextAtHeight

\* A read of the state.
LEMMA ReadStateStep ==
    ASSUME IInv, ReadState
    PROVE  IInv'
<1> DEFINE v == GetRpcContextAtHeight(local.height)
<1>1. /\ NodeInv /\ Top \in Nat /\ Top <= world /\ told <= Top /\ Absent \in Int /\ Absent < 0
      /\ told \in Nat /\ world \in Nat /\ req.n \in Int
  BY LatestIsTop, NothingType, RequestType DEF IInv, ClientInv
<1>2. /\ req.op \in StateOps /\ local.height \in Int
      /\ ~ArchiveMode => local.height = Latest
      /\ ArchiveMode => local.height = req.n /\ local.height <= Top
  BY FieldTypes DEF IInv, ClientInv, RouteInv, ReadState
<1>3. /\ v \in Int /\ (local.height < 0 => v = world)
      /\ ArchiveMode /\ local.height >= 0 => v = local.height
  BY <1>1, <1>2, WorldAt
<1>4. Reply(Answer("ok", v, Absent, Absent, Absent))
  BY DEF ReadState
<1> HIDE DEF v
<1>5. req.op \notin CallOps /\ req.op \notin BlockOps
  BY <1>2 DEF StateOps, CallOps, BlockOps
<1>6. ArchiveMode => \A n \in 1..MaxHeight : Names(n) => v = n
  BY <1>2, <1>3 DEF Names
<1>7. (~ArchiveMode \/ (req.by = "number" /\ req.n = Latest)) => v >= told
  BY <1>1, <1>2, <1>3 DEF Latest
<1>8. QED
  BY <1>1, <1>3, <1>4, <1>5, <1>6, <1>7, OkStep DEF CallOps, BlockOps

\* The block information of a call.
LEMMA CallInfoStep ==
    ASSUME IInv, CallInfo
    PROVE  IInv'
<1>1. /\ NodeInv /\ ClientInv /\ RouteInv /\ Top \in Nat /\ told \in Nat /\ told <= Top
      /\ pc = "info" /\ req.op \in CallOps /\ local.height \in Int
      /\ ~ArchiveMode => local.height = Latest
      /\ ArchiveMode => local.height = req.n /\ local.height <= Top
  BY LatestIsTop, FieldTypes DEF IInv, ClientInv, RouteInv, CallInfo
<1>2. /\ info = Absent => Top = 0
      /\ info # Absent => info \in Int /\ info >= Top
  BY <1>1 DEF NodeInv, Top, Before, Absent
<1>3. CASE \/ info = Absent /\ ~(req.op = "zeniqCall" /\ local.height >= 1)
           \/ local.height > 0 /\ local.height \notin history
  <2>1. Reply(Failed("panic"))
    BY <1>3 DEF CallInfo
  <2>2. local.height > 0 => local.height = req.n
    BY <1>1, ConfigAssumption DEF Latest
  <2>3. \A n \in 1..told : Names(n) => ~Kept(n)
    BY <1>1, <1>2, <1>3, <2>2, KeptIsThere DEF Names
  <2>4. QED
    BY <2>1, <2>3, FailedStep
<1>4. CASE ~(\/ info = Absent /\ ~(req.op = "zeniqCall" /\ local.height >= 1)
             \/ local.height > 0 /\ local.height \notin history)
  <2> DEFINE i == IF local.height > 0 THEN local.height ELSE info
  <2>1. Goto("run", [local EXCEPT !.info = i])
    BY <1>4, Zenon DEF CallInfo
  <2>2. i \in Int /\ (local.height > 0 => i = local.height)
                  /\ (local.height < 0 => i >= told)
    BY <1>1, <1>2, <1>4
  <2> HIDE DEF i
  <2>3. local' = [local EXCEPT !.info = i] /\ pc' = "run" /\ UNCHANGED <<node, req, ans, told>>
    BY <2>1 DEF Goto
  <2>4. local' \in LocalType /\ local'.height = local.height /\ local'.info = i
    BY <1>1, <2>2, <2>3 DEF ClientInv, LocalType
  <2>5. NodeInv' /\ Top' = Top
    BY <1>1, <2>3, SameNode
  <2>6. ClientInv'
    BY <1>1, <2>2, <2>3, <2>4, <2>5 DEF ClientInv, Requested
  <2>7. RouteInv'
    BY <1>1, <2>3 DEF RouteInv
  <2>8. QED
    BY <2>3, <2>5, <2>6, <2>7, NotAnswered DEF IInv
<1>5. QED
  BY <1>3, <1>4

\* The run of a call.
LEMMA RunCallStep ==
    ASSUME IInv, RunCall
    PROVE  IInv'
<1> DEFINE v == GetRpcContextAtHeight(StateHeight)
<1>1. /\ NodeInv /\ Top \in Nat /\ Top <= world /\ told <= Top /\ Absent \in Int /\ Absent < 0
      /\ told \in Nat /\ world \in Nat /\ req.n \in Int
  BY LatestIsTop, NothingType, RequestType DEF IInv, ClientInv
<1>2. /\ req.op \in CallOps /\ local.height \in Int /\ local.info \in Int
      /\ ~ArchiveMode => local.height = Latest
      /\ ArchiveMode => local.height = req.n /\ local.height <= Top
      /\ local.height > 0 => local.info = local.height
      /\ local.height < 0 => local.info >= told
  BY FieldTypes DEF IInv, ClientInv, RouteInv, RunCall
<1>3. /\ StateHeight \in Int
      /\ local.height < 0 => StateHeight = local.height
      /\ local.height > 0 => StateHeight = IF req.op = "zeniqCall" THEN local.height - 1
                                           ELSE local.height
  BY <1>2 DEF StateHeight
<1>4. /\ v \in Int /\ (StateHeight < 0 => v = world)
      /\ ArchiveMode /\ StateHeight >= 0 /\ StateHeight <= Top => v = StateHeight
  BY <1>1, <1>3, WorldAt
<1>5. Reply(Answer("ok", v, local.info, Absent, Absent))
  BY DEF RunCall
<1> HIDE DEF v
<1>6. ArchiveMode => \A n \in 1..MaxHeight : Names(n) =>
        /\ req.op # "zeniqCall" => v = n
        /\ req.op = "zeniqCall" => v = n - 1
        /\ local.info = n
  BY <1>1, <1>2, <1>3, <1>4 DEF Names
<1>7. (~ArchiveMode \/ (req.by = "number" /\ req.n = Latest)) => v >= told /\ local.info >= told
  BY <1>1, <1>2, <1>3, <1>4 DEF Latest
<1>8. req.op \notin StateOps /\ req.op \notin BlockOps
  BY <1>2 DEF StateOps, CallOps, BlockOps
<1>9. QED
  BY <1>1, <1>2, <1>4, <1>5, <1>6, <1>7, <1>8, OkStep DEF CallOps, BlockOps

\* A block is looked up: after its height, if it is the latest that is asked for.
LEMMA FindBlockStep ==
    ASSUME IInv, FindBlock
    PROVE  IInv'
<1> DEFINE latest == req.by = "number" /\ req.n < 0
           b == IF latest THEN local.height ELSE req.n
<1>1. /\ NodeInv /\ ClientInv /\ RouteInv /\ Top \in Nat /\ told \in Nat /\ told <= Top
      /\ pc = "block" /\ req.op \in BlockOps /\ local.height \in Int /\ req.n \in Int
      /\ GetLatestHeight = Top /\ Absent \in Int /\ Absent < 0
  BY LatestIsTop, FieldTypes, RequestType, NothingType DEF IInv, ClientInv, RouteInv, FindBlock
<1>2. CASE latest /\ local.height = Absent
  <2>1. /\ local' = [local EXCEPT !.height = Top] /\ pc' = "block"
        /\ UNCHANGED <<node, req, ans, told>>
    BY <1>1, <1>2 DEF FindBlock, Goto
  <2>2. local' \in LocalType /\ local'.height = Top
    BY <1>1, <2>1 DEF ClientInv, LocalType
  <2>3. NodeInv' /\ Top' = Top
    BY <1>1, <2>1, SameNode
  <2>4. ClientInv'
    BY <1>1, <2>1, <2>2, <2>3 DEF ClientInv, Requested
  <2>5. RouteInv'
    BY <1>1, <2>1 DEF RouteInv
  <2>6. QED
    BY <2>1, <2>3, <2>4, <2>5, NotAnswered DEF IInv
<1>3. CASE ~(latest /\ local.height = Absent)
  <2>1. b \in Int /\ (req.n > 0 => b = req.n)
    BY <1>1
  <2>2. CASE b \in history \/ (req.n = 0 /\ ~latest)
    <3>1. b >= 0 /\ b <= Top
      BY <1>1, <2>2 DEF NodeInv
    <3>2. CASE req.op = "getBlock"
      <4>1. Reply(Answer("ok", Absent, Absent, b, Absent))
        BY <1>3, <2>2, <3>2 DEF FindBlock
      <4> HIDE DEF b
      <4>2. QED
        BY <1>1, <2>1, <3>1, <3>2, <4>1, OkStep DEF StateOps, CallOps
    <3>3. CASE req.op # "getBlock"
      <4>1. Goto("txs", [local EXCEPT !.block = b])
        BY <1>3, <2>2, <3>3 DEF FindBlock
      <4> HIDE DEF b
      <4>2. /\ local' = [local EXCEPT !.block = b] /\ pc' = "txs"
            /\ UNCHANGED <<node, req, ans, told>>
        BY <4>1 DEF Goto
      <4>3. local' \in LocalType /\ local'.block = b
        BY <1>1, <2>1, <4>2 DEF ClientInv, LocalType
      <4>4. NodeInv' /\ Top' = Top
        BY <1>1, <4>2, SameNode
      <4>5. ClientInv'
        BY <1>1, <2>1, <3>1, <4>2, <4>3, <4>4 DEF ClientInv, Requested
      <4>6. RouteInv'
        BY <1>1, <4>2 DEF RouteInv
      <4>7. QED
        BY <4>2, <4>4, <4>5, <4>6, NotAnswered DEF IInv
    <3>4. QED
      BY <3>2, <3>3
  <2>3. CASE ~(b \in history \/ (req.n = 0 /\ ~latest))
    <3>1. Reply(Failed("notFound"))
      BY <1>3, <2>3 DEF FindBlock
    <3>2. \A n \in 1..told : Names(n) => ~Kept(n)
      BY <1>1, <2>1, <2>3, KeptIsThere DEF Names
    <3>3. QED
      BY <3>1, <3>2, FailedStep
  <2>4. QED
    BY <2>2, <2>3
<1>4. QED
  BY <1>2, <1>3

\* The transactions of a block that was found.
LEMMA BlockTxsStep ==
    ASSUME IInv, BlockTxs
    PROVE  IInv'
<1>1. /\ NodeInv /\ Top \in Nat /\ told \in Nat /\ told <= Top
      /\ req.op \in BlockOps /\ local.block \in Int /\ req.n \in Int
      /\ local.block >= 0 /\ local.block <= Top /\ (req.n > 0 => local.block = req.n)
      /\ Absent \in Int /\ Absent < 0
  BY LatestIsTop, FieldTypes, RequestType, NothingType DEF IInv, ClientInv, RouteInv, BlockTxs
<1>2. req.op \notin StateOps \union CallOps
  BY <1>1 DEF StateOps, CallOps, BlockOps
<1>3. CASE Reply(Answer("ok", Absent, Absent, local.block, local.block))
  BY <1>1, <1>2, <1>3, OkStep DEF StateOps, CallOps
<1>4. CASE local.block \notin history /\ Reply(Failed("error"))
  <2>1. \A n \in 1..told : Names(n) => ~Kept(n)
    BY <1>1, <1>4, KeptIsThere DEF Names
  <2>2. QED
    BY <1>4, <2>1, FailedStep
<1>5. CASE local.block \notin history /\ Reply(Answer("ok", Absent, Absent, local.block, Absent))
  <2>1. ~Kept(local.block)
    BY <1>1, <1>5, KeptIsThere
  <2>2. QED
    BY <1>1, <1>2, <1>5, <2>1, OkStep DEF StateOps, CallOps
<1>6. QED
  BY <1>3, <1>4, <1>5 DEF BlockTxs

-----------------------------------------------------------------------------
\* The invariant holds at the start and is preserved by every step.
LEMMA InitIInv == ReadsInit => IInv
<1> SUFFICES ASSUME ReadsInit PROVE IInv
  OBVIOUS
<1>1. NodeInv
  BY DEF ReadsInit, NodeInv, Top, Before
<1>2. ClientInv
  BY <1>1, NothingType, LatestIsTop DEF ReadsInit, ClientInv, Requested
<1>3. RouteInv /\ AnswerInv
  BY DEF ReadsInit, RouteInv, AnswerInv, StateOfHeight, NeverOlderThanTold, KeptIsFound,
         WholeBlock, Answered
<1>4. QED
  BY <1>1, <1>2, <1>3 DEF IInv

\* Every step keeps the invariant.
LEMMA NextIInv == IInv /\ [ReadsNext]_readsVars => IInv'
<1> SUFFICES ASSUME IInv, [ReadsNext]_readsVars PROVE IInv'
  OBVIOUS
<1>1. CASE NodeNext
  BY <1>1, NodeKeepsClient
<1>2. CASE \E r \in Requests : Ask(r)
  BY <1>2, AskStep
<1>3. CASE Hear \/ BlockNumber \/ HeightArg \/ ReadState
  BY <1>3, HearStep, BlockNumberStep, HeightStep, ReadStateStep
<1>4. CASE CallInfo \/ RunCall \/ FindBlock \/ BlockTxs
  BY <1>4, CallInfoStep, RunCallStep, FindBlockStep, BlockTxsStep
<1>5. CASE UNCHANGED readsVars
  <2>1. UNCHANGED <<curr, npc, world, history, info, req, pc, local, ans, told>>
    BY <1>5 DEF readsVars, node, client
  <2>2. NodeInv' /\ Top' = Top /\ GetLatestHeight' = GetLatestHeight
    BY <2>1, SameNode DEF IInv, node
  <2>3. ClientInv' /\ RouteInv'
    BY <2>1, <2>2 DEF IInv, ClientInv, RouteInv, Requested
  <2>4. AnswerInv'
    BY <2>1, <2>2, Zenon DEF IInv, AnswerInv, StateOfHeight, NeverOlderThanTold,
       KeptIsFound, WholeBlock, Answered, Names, Kept
  <2>5. QED
    BY <2>2, <2>3, <2>4 DEF IInv
<1>6. QED
  BY <1>1, <1>2, <1>3, <1>4, <1>5 DEF ReadsNext, NodeNext

\* With an archive, a request that names a block is answered from the state of
\* that block, whenever the node commits (getHeightArg, refresh).
THEOREM StateOfHeightAlways == ReadsSpec => []StateOfHeight
<1>1. IInv => StateOfHeight
  BY DEF IInv, AnswerInv
<1>2. QED
  BY <1>1, InitIInv, NextIInv, PTL DEF ReadsSpec

\* A client never reads, at the latest height, a state older than a block it has
\* heard of: refresh writes the root before it publishes the block.
THEOREM NeverOlderAlways == ReadsSpec => []NeverOlderThanTold
<1>1. IInv => NeverOlderThanTold
  BY DEF IInv, AnswerInv
<1>2. QED
  BY <1>1, InitIInv, NextIInv, PTL DEF ReadsSpec

\* A block that the client has heard of and that is kept is found by every
\* request that names it, calls included (publish, RunTxForRpc).
THEOREM KeptIsFoundAlways == ReadsSpec => []KeptIsFound
<1>1. IInv => KeptIsFound
  BY DEF IInv, AnswerInv
<1>2. QED
  BY <1>1, InitIInv, NextIInv, PTL DEF ReadsSpec

\* A block comes with its own transactions (GetBlockByNumber, getTxByIdx).
THEOREM WholeBlockAlways == ReadsSpec => []WholeBlock
<1>1. IInv => WholeBlock
  BY DEF IInv, AnswerInv
<1>2. QED
  BY <1>1, InitIInv, NextIInv, PTL DEF ReadsSpec

\* Blocks that are kept are found, with their own transactions.
THEOREM BlocksFoundAlways == ReadsSpec => []BlocksFound
BY KeptIsFoundAlways, WholeBlockAlways, PTL DEF BlocksFound
=============================================================================
