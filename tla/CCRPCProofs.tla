---------------------------- MODULE CCRPCProofs -----------------------------
(***************************************************************************)
(* Proofs about CCRPC for every configuration that meets its assumptions,  *)
(* every behaviour of the main node, and every number of blocks, epochs    *)
(* and crashes.                                                            *)
(***************************************************************************)
EXTENDS CCRPC, WellFoundedInduction, TLAPS

\* A nonempty set of naturals has a least element.
LEMMA LeastExists ==
    ASSUME NEW S \in SUBSET Nat, S # {}
    PROVE  \E x \in S : \A y \in S : x <= y
<1>1. PICK x \in S : \A y \in S : ~(<<y, x>> \in OpToRel(<, Nat))
  BY NatLessThanWellFounded, WFMin, Zenon
<1>2. \A y \in S : ~(y < x)
  <2>1. \A y \in S : <<y, x>> \in Nat \X Nat
    OBVIOUS
  <2>2. \A y \in S : y < x => <<y, x>> \in OpToRel(<, Nat)
    BY <2>1, Zenon DEF OpToRel
  <2>3. QED
    BY <1>1, <2>2, Zenon
<1>3. QED
  BY <1>2

\* A nonempty set of naturals below a bound has a greatest element.
LEMMA GreatestExists ==
    ASSUME NEW S \in SUBSET Nat, S # {}, NEW b \in Nat, \A x \in S : x <= b
    PROVE  /\ \E x \in S : \A y \in S : y <= x
           /\ Greatest(S) \in S
           /\ \A y \in S : y <= Greatest(S)
<1> DEFINE T == {b - x : x \in S}
<1>1. T \in SUBSET Nat /\ T # {}
  <2>1. \A x \in S : b - x \in Nat
    OBVIOUS
  <2>2. QED
    BY <2>1, Zenon
<1>2. PICK m \in T : \A y \in T : m <= y
  BY <1>1, LeastExists, Zenon
<1>3. PICK x \in S : m = b - x
  BY <1>2
<1>4. \A y \in S : y <= x
  <2>1. TAKE y \in S
  <2>2. b - y \in T
    BY Zenon
  <2>3. QED
    BY <1>2, <1>3, <2>2
<1>5. QED
  BY <1>4, Zenon DEF Greatest
----------------------------------------------------------------------------
\* From the first configured main height on there is an entry in force.
LEMMA EpochInForce ==
    ASSUME NEW m \in Nat, FirstMain <= m
    PROVE  \E e \in DOMAIN Epochs : getEpoch(m) = Epochs[e]
<1> DEFINE reached == {e \in DOMAIN Epochs : \A j \in 1..e : Epochs[j].from <= m}
<1>1. DOMAIN Epochs = 1..Len(Epochs) /\ Len(Epochs) \in Nat
  BY EpochsAssumption
<1>2. 1 \in reached
  BY <1>1, EpochsAssumption DEF FirstMain
<1>3. \E x \in reached : \A y \in reached : y <= x
  <2>1. reached \in SUBSET Nat /\ \A x \in reached : x <= Len(Epochs)
    BY <1>1
  <2>2. QED
    BY <1>1, <1>2, <2>1, GreatestExists, Zenon
<1>4. (CHOOSE e \in reached : \A j \in reached : j <= e) \in reached
  BY <1>3
<1>5. QED
  BY <1>4, Zenon DEF getEpoch

\* The entry in force at a main height has a positive length and a delay that is never the current
\* height while there is nothing to search.
LEMMA EpochTypes ==
    ASSUME NEW m \in Nat, FirstMain <= m
    PROVE  /\ getEpoch(m).n \in Nat \ {0}
           /\ getEpoch(m).nn \in Nat
           /\ getEpoch(m).nn > 2
           /\ getEpoch(m).nn \notin
                 (ForkBlock + 1)..(ForkBlock + 2 + IF TornCommit THEN MaxCrashes ELSE 0)
<1>1. PICK e \in DOMAIN Epochs : getEpoch(m) = Epochs[e]
  BY EpochInForce
<1>2. Epochs[e] \in EpochEntry
  BY EpochsAssumption
<1>3. QED
  BY <1>1, <1>2, DelayAssumption DEF EpochEntry

\* The first main height of the epoch table is a positive number.
LEMMA FirstMainPositive == FirstMain \in Nat \ {0}
<1>1. Epochs[1] \in EpochEntry
  BY EpochsAssumption
<1>2. QED
  BY <1>1 DEF FirstMain, EpochEntry

\* Block times never decrease.
Monotone(ts) == \A a, b \in 1..Len(ts) : a <= b => ts[a] <= ts[b]

\* sort.Search returns an index of its range, and 0 for an empty or negative range.
LEMMA SortSearchRange ==
    ASSUME NEW ts, NEW start \in Nat, NEW n \in Int, NEW eebt \in Nat
    PROVE  /\ n >= 0 => SortSearch(ts, start, n, eebt) \in 0..n
           /\ n < 0 => SortSearch(ts, start, n, eebt) = 0
<1> DEFINE after == {i \in 0..(n - 1) : ts[start - i] < eebt}
<1>1. CASE after = {}
  BY <1>1 DEF SortSearch
<1>2. CASE after # {}
  <2>1. after \in SUBSET Nat /\ n > 0
    BY <1>2
  <2>2. PICK l \in after : \A j \in after : l <= j
    BY <1>2, <2>1, LeastExists, Zenon
  <2>3. (CHOOSE i \in after : \A j \in after : i <= j) \in after
    BY <2>2, Zenon
  <2>4. SortSearch(ts, start, n, eebt) \in after
    BY <1>2, <2>3 DEF SortSearch
  <2>5. QED
    BY <2>1, <2>4
<1>3. QED
  BY <1>1, <1>2

\* The walk down ends at block 1 or at a block that is older than the end time.
LEMMA WalkDownStops ==
    ASSUME NEW ts, NEW f \in Nat, f >= 1, NEW eebt \in Nat
    PROVE  /\ WalkDown(ts, f, eebt) \in 1..f
           /\ WalkDown(ts, f, eebt) # 1 => ts[WalkDown(ts, f, eebt)] < eebt
<1> DEFINE stop == {g \in 1..f : g = 1 \/ ts[g] < eebt}
<1>1. stop \in SUBSET Nat /\ 1 \in stop /\ \A x \in stop : x <= f
  OBVIOUS
<1>2. \E g \in stop : \A h \in stop : h <= g
  BY <1>1, GreatestExists, Zenon
<1>3. (CHOOSE g \in stop : \A h \in stop : h <= g) \in stop
  BY <1>2
<1>4. WalkDown(ts, f, eebt) \in stop
  BY <1>3 DEF WalkDown
<1>5. QED
  BY <1>4

\* A height that blockAfterTime returns is the first block not older than eebt in the whole chain,
\* and one of the heights that were read; the search does not have to be exact for that.
LEMMA FoundIsMapped ==
    ASSUME NEW ts \in Seq(Nat), Monotone(ts), NEW start \in Nat, start <= Len(ts),
           NEW searchBack \in Int, NEW eebt \in Nat,
           NEW r, r = blockAfterTime(ts, start, searchBack, eebt)
    PROVE  /\ r.ok \in Nat /\ r.above \in Nat
           /\ r.ok # 0 => /\ MapsTo(ts, Len(ts), r.ok, eebt)
                          /\ r.ok \in WalkedHeights(ts, start, searchBack, eebt)
                          /\ r.ok <= start
<1> DEFINE n == n_entries(start, searchBack)
           f == found(ts, start, searchBack, eebt)
           low == WalkDown(ts, f, eebt)
           up == WalkUp(ts, low, start, eebt)
           missed == SortSearch(ts, start, n, eebt) = n \/ f \in {0, 1}
<1>1. n \in Int /\ n <= start
  BY DEF n_entries
<1>2. f \in 0..start
  BY <1>1, SortSearchRange DEF found
<1> HIDE DEF n, f
<1>3. r = IF missed THEN NotFound
          ELSE IF low = 1 THEN NotFound
          ELSE IF up = {} THEN [ok |-> 0, above |-> start]
          ELSE [ok |-> CHOOSE g \in up : TRUE, above |-> 0]
  BY DEF blockAfterTime, n, f
<1>4. CASE missed \/ low = 1 \/ up = {}
  BY <1>3, <1>4 DEF NotFound
<1>5. CASE ~missed /\ low # 1 /\ up # {}
  <2>1. f >= 1 /\ f \in Nat /\ f <= start
    BY <1>2, <1>5
  <2>2. low \in 2..f /\ ts[low] < eebt
    <3>1. low \in 1..f /\ (low # 1 => ts[low] < eebt)
      BY <2>1, WalkDownStops, Zenon
    <3>2. low # 1
      BY <1>5
    <3> HIDE DEF low
    <3>3. QED
      BY <2>1, <3>1, <3>2
  <2> HIDE DEF low
  <2>3. r.ok \in up /\ r.above = 0
    BY <1>3, <1>5
  <2>4. /\ r.ok \in low..start
        /\ ts[r.ok] >= eebt
        /\ \A g \in low..(r.ok - 1) : ts[g] < eebt
    BY <2>3 DEF WalkUp
  <2>5. r.ok \in 2..Len(ts)
    BY <2>1, <2>2, <2>4, SMTT(40)
  <2>6. \A g \in 1..(r.ok - 1) : ts[g] < eebt
    <3>1. SUFFICES ASSUME NEW g \in 1..(r.ok - 1), g < low PROVE ts[g] < eebt
      BY <2>2, <2>4, <2>5
    <3>2. g \in 1..Len(ts) /\ low \in 1..Len(ts) /\ g <= low
      BY <2>1, <2>2, <3>1
    <3>3. ts[g] <= ts[low]
      BY <3>2 DEF Monotone
    <3>4. ts[g] \in Nat /\ ts[low] \in Nat
      BY <3>2
    <3>5. QED
      BY <2>2, <3>3, <3>4
  <2>7. r.ok \in WalkedHeights(ts, start, searchBack, eebt)
    <3>1. r.ok > 0
      BY <2>5
    <3>2. WalkedHeights(ts, start, searchBack, eebt) = (low..f) \cup (low..r.ok)
      BY <1>5, <3>1 DEF WalkedHeights, n, f, low
    <3>3. QED
      BY <2>1, <2>2, <2>4, <3>2
  <2>8. QED
    BY <2>3, <2>4, <2>5, <2>6, <2>7 DEF MapsTo
<1>6. QED
  BY <1>4, <1>5
----------------------------------------------------------------------------
\* A block that is appended to the chain does not change what an end time maps to.
LEMMA MapsToAppend ==
    ASSUME NEW ts \in Seq(Nat), NEW t \in Nat, NEW f, NEW eebt \in Nat,
           MapsTo(ts, Len(ts), f, eebt)
    PROVE  MapsTo(Append(ts, t), Len(Append(ts, t)), f, eebt)
<1>1. f \in 2..Len(ts) /\ Len(Append(ts, t)) = Len(ts) + 1
  BY DEF MapsTo
<1>2. \A g \in 1..Len(ts) : Append(ts, t)[g] = ts[g]
  OBVIOUS
<1>3. QED
  BY <1>1, <1>2 DEF MapsTo

\* The two chains only grow.
Grows(ts, tsn) == tsn = ts \/ \E t \in Nat : tsn = Append(ts, t)

\* Both chains keep their blocks, and with them what is due when.
LEMMA CreditsStayDue ==
    ASSUME mainTime \in Seq(Nat), blockTime \in Seq(Nat),
           Grows(mainTime, mainTime'), Grows(blockTime, blockTime'),
           NEW ledger, CreditsDue(ledger)
    PROVE  \A i \in DOMAIN ledger :
              /\ ledger[i].last \in 1..Len(mainTime')
              /\ ledger[i].at \in DueHeights(ledger[i].first, ledger[i].last)'
<1> SUFFICES ASSUME NEW i \in DOMAIN ledger
             PROVE  /\ ledger[i].last \in 1..Len(mainTime')
                    /\ ledger[i].at \in DueHeights(ledger[i].first, ledger[i].last)'
  OBVIOUS
<1> DEFINE first == ledger[i].first
           last == ledger[i].last
<1>1. last \in 1..Len(mainTime) /\ ledger[i].at \in DueHeights(first, last)
  BY DEF CreditsDue
<1>2. /\ Len(mainTime) <= Len(mainTime') /\ Len(mainTime') \in Nat
      /\ mainTime'[last] = mainTime[last] /\ mainTime[last] \in Nat
  BY <1>1 DEF Grows
<1>3. PICK f \in 2..Len(blockTime) : /\ MapsTo(blockTime, Len(blockTime), f, mainTime[last])
                                     /\ ledger[i].at = f + getEpoch(first).nn
  BY <1>1 DEF DueHeights
<1>4. MapsTo(blockTime', Len(blockTime'), f, mainTime'[last])
  BY <1>2, <1>3, MapsToAppend, Zenon DEF Grows
<1>5. f \in 2..Len(blockTime')
  BY <1>4 DEF MapsTo
<1>6. ledger[i].at \in DueHeights(first, last)'
  BY <1>3, <1>4, <1>5 DEF DueHeights
<1>7. QED
  BY <1>1, <1>2, <1>6

\* The initial state, a genesis chain with an empty queue, satisfies the invariant.
LEMMA InitIInv == Init => IInv
<1> SUFFICES ASSUME Init PROVE IInv
  OBVIOUS
<1> USE FirstMainPositive, EpochsAssumption, BoundsAssumption DEF Init, NoServe
<1>1. mainTime \in Seq(Nat) /\ Len(mainTime) = FirstMain - 1
  OBVIOUS
<1>2. TypeOK
  <2>1. world \in WorldType /\ trunk \in WorldType
    BY DEF WorldType
  <2>2. DOMAIN db = {} /\ DOMAIN serve.update = {} /\ blockTime \in Seq(Nat)
    OBVIOUS
  <2>3. serve.iter = 0 /\ serve.done = 0 /\ serve.nextSearchTo = 0
    OBVIOUS
  <2>4. QED
    BY <1>1, <2>1, <2>2, <2>3, Zenon DEF TypeOK
<1>3. ChainInv
  BY DEF ChainInv
<1>4. QueueInv
  BY DEF QueueInv, QueueContiguous
<1>5. FetchInv
  BY <1>1 DEF FetchInv
<1>6. ServeInv
  BY DEF ServeInv
<1>7. LedgerInv
  BY DEF LedgerInv, LedgerContiguous, Contiguous, CreditsDue
<1>8. SearchInv
  BY DEF SearchInv
<1>9. QED
  BY <1>2, <1>3, <1>4, <1>5, <1>6, <1>7, <1>8 DEF IInv
----------------------------------------------------------------------------
\* A new main block leaves the mappings and the credits as they are.
LEMMA MineMainStep ==
    ASSUME IInv, NEW t \in 0..MaxTime, MineMain(t)
    PROVE  IInv'
<1> USE DEF IInv
<1>1. /\ mainTime \in Seq(Nat) /\ blockTime \in Seq(Nat) /\ t \in Nat
      /\ mainTime' = Append(mainTime, t)
      /\ mainTime' \in Seq(Nat) /\ Len(mainTime') = Len(mainTime) + 1
      /\ \A k \in 1..Len(mainTime) : mainTime'[k] = mainTime[k]
  BY BoundsAssumption DEF MineMain, TypeOK
<1>2. TypeOK'
  BY <1>1 DEF TypeOK, MineMain
<1>3. ChainInv'
  BY DEF ChainInv, MineMain
<1>4. QueueInv'
  <2>1. QueueContiguous'
    BY DEF QueueInv, QueueContiguous, MineMain
  <2>2. \A k \in DOMAIN db : k \in 1..Len(mainTime)
    BY FirstMainPositive DEF TypeOK, QueueInv, QueueContiguous, EpochType
  <2>3. QED
    BY <1>1, <2>1, <2>2 DEF QueueInv, MineMain
<1>5. FetchInv'
  BY <1>1 DEF FetchInv, MineMain, TypeOK
<1>6. ServeInv'
  BY DEF ServeInv, MineMain
<1>7. LedgerInv'
  <2>1. Grows(mainTime, mainTime') /\ Grows(blockTime, blockTime')
    BY <1>1 DEF Grows, MineMain
  <2>2. CreditsDue(world.ledger)' /\ CreditsDue(trunk.ledger)'
    BY <1>1, <2>1, CreditsStayDue, Zenon DEF LedgerInv, CreditsDue, MineMain
  <2>3. QED
    BY <2>2 DEF LedgerInv, LedgerContiguous, Contiguous, MineMain
<1>8. SearchInv'
  BY DEF SearchInv, MineMain
<1>9. QED
  BY <1>2, <1>3, <1>4, <1>5, <1>6, <1>7, <1>8

\* The fields of a node that is not serving.
LEMMA NoServeEmpty ==
    /\ NoServe.iter = 0 /\ NoServe.done = 0 /\ NoServe.nextSearchTo = 0
    /\ DOMAIN NoServe.update = {}
BY DEF NoServe

\* The process goes down, with or without counting a crash.
LEMMA DieStep ==
    ASSUME IInv, Die, UNCHANGED <<mainTime, blockTime, db, history, world>>,
           \/ UNCHANGED crashes /\ pc # "written"
           \/ crashes' = crashes + 1 /\ crashes < MaxCrashes /\ (pc = "written" => TornCommit)
    PROVE  IInv'
<1> USE BoundsAssumption, EpochsAssumption DEF IInv
<1>1. TypeOK'
  <2>1. /\ serve'.iter = 0 /\ serve'.done = 0 /\ serve'.nextSearchTo = 0
        /\ DOMAIN serve'.update = {}
    BY NoServeEmpty DEF Die
  <2>2. crashes' \in Nat /\ searchTo' \in Nat
    BY DEF TypeOK, Die
  <2>3. running' \in BOOLEAN /\ pc' = "down" /\ trunk' \in WorldType
        /\ doneFetch' = 0 /\ mainHeight' = 0 /\ crosschain' = {}
    BY Zenon DEF TypeOK, Die
  <2>4. QED
    BY <2>1, <2>2, <2>3 DEF TypeOK
<1>2. ChainInv'
  BY DEF ChainInv, Die
<1>3. QueueInv'
  BY DEF QueueInv, QueueContiguous, Die
<1>4. FetchInv'
  BY DEF FetchInv, Die, TypeOK
<1>5. ServeInv'
  BY SMTT(40) DEF ServeInv, Die, NoServe
<1>6. LedgerInv'
  BY DEF LedgerInv, LedgerContiguous, Contiguous, CreditsDue, DueHeights, Die
<1>7. SearchInv'
  <2>1. world.height \in Nat /\ crashes \in Nat /\ crashes' <= MaxCrashes
    BY DEF TypeOK, WorldType, SearchInv
  <2>2. (\A b \in history : b <= ForkBlock) =>
            world.height + 1 <= ForkBlock + 2 + (IF TornCommit THEN crashes' ELSE 0)
    BY <2>1 DEF SearchInv
  <2>3. searchTo' = ForkBlock /\ pc' = "down" /\ UNCHANGED <<history, world>>
    BY DEF Die
  <2>4. QED
    BY <2>1, <2>2, <2>3 DEF SearchInv
<1>8. QED
  BY <1>1, <1>2, <1>3, <1>4, <1>5, <1>6, <1>7

\* A crash loses memory only.
LEMMA CrashStep == ASSUME IInv, Crash PROVE IInv'
  BY DieStep DEF Crash

\* A panic before the world state is written is a crash that does not count.
LEMMA PanicStep == ASSUME IInv, Panic, pc # "written" PROVE IInv'
  BY DieStep DEF Panic

\* A fetcher that cannot reach the main chain crashes the process.
LEMMA FetcherFailStep == ASSUME IInv, FetcherFail PROVE IInv'
  BY CrashStep DEF FetcherFail

\* A restart starts from what is on disk.
LEMMA RestartStep == ASSUME IInv, Restart PROVE IInv'
<1> USE DEF IInv, Restart
<1>1. TypeOK'
  BY DEF TypeOK
<1>2. ChainInv'
  BY DEF ChainInv
<1>3. QueueInv'
  BY DEF QueueInv, QueueContiguous
<1>4. FetchInv'
  BY DEF FetchInv
<1>5. ServeInv'
  BY ZenonT(60) DEF ServeInv
<1>6. LedgerInv'
  BY DEF LedgerInv, LedgerContiguous, Contiguous, CreditsDue, DueHeights
<1>7. SearchInv'
  BY DEF SearchInv
<1>8. QED
  BY <1>1, <1>2, <1>3, <1>4, <1>5, <1>6, <1>7
----------------------------------------------------------------------------
\* The credits do not depend on what else is in the queue.
LEMMA LedgerFrame ==
    ASSUME LedgerInv, UNCHANGED <<mainTime, blockTime, world, trunk, pc, serve>>,
           DOMAIN db \subseteq DOMAIN db'
    PROVE  LedgerInv'
<1>1. CreditsDue(world.ledger)' /\ CreditsDue(trunk.ledger)'
  BY DEF LedgerInv, CreditsDue, DueHeights
<1>2. world'.doneMain \in DOMAIN db' \cup {0} /\ trunk'.doneMain \in DOMAIN db' \cup {0}
  BY DEF LedgerInv
<1>3. LedgerContiguous'
  BY DEF LedgerInv, LedgerContiguous, Contiguous
<1>4. QED
  BY <1>1, <1>2, <1>3, ZenonT(60) DEF LedgerInv, Contiguous

\* A poll of the main height only moves the height that the fetcher knows.
LEMMA FetcherPollStep == ASSUME IInv, FetcherPoll PROVE IInv'
<1> USE DEF IInv
<1>1. mainHeight' \in Nat /\ mainHeight' <= Len(mainTime)
  BY DEF FetcherPoll, TypeOK
<1>2. UNCHANGED <<mainTime, blockTime, db, history, world, trunk, pc, searchTo, running,
                  doneFetch, serve, crosschain, crashes>>
  BY DEF FetcherPoll
<1>3. TypeOK'
  BY <1>1, <1>2 DEF TypeOK
<1>4. ChainInv' /\ SearchInv'
  BY <1>2, ZenonT(60) DEF ChainInv, SearchInv
<1>5. QueueInv'
  BY <1>2 DEF QueueInv, QueueContiguous
<1>6. FetchInv'
  BY <1>1, <1>2, Zenon DEF FetchInv
<1>7. ServeInv'
  BY <1>2, ZenonT(60) DEF ServeInv
<1>8. LedgerInv'
  BY <1>2 DEF LedgerInv, LedgerContiguous, Contiguous, CreditsDue, DueHeights
<1>9. QED
  BY <1>3, <1>4, <1>5, <1>6, <1>7, <1>8

\* The fetcher's next epoch follows the last one in the queue and is on the main chain.
LEMMA NextEpochFollows ==
    ASSUME IInv, running, mainHeight >= startFetching(nextFirst)
    PROVE  /\ nextFirst \in Nat /\ FirstMain <= nextFirst
           /\ nextLast(nextFirst) \in Nat /\ nextFirst <= nextLast(nextFirst)
           /\ nextLast(nextFirst) <= Len(mainTime)
           /\ \A k \in DOMAIN db : k < nextFirst
           /\ nextFirst = FirstMain \/ nextFirst - 1 \in DOMAIN db
<1>1. doneFetch \in Nat /\ mainHeight \in Nat /\ Len(mainTime) \in Nat /\ DOMAIN db \subseteq Nat
  BY DEF IInv, TypeOK
<1>2. \/ DOMAIN db = {} /\ doneFetch = FirstMain - 1
      \/ doneFetch \in DOMAIN db /\ \A k \in DOMAIN db : k <= doneFetch
  BY DEF IInv, FetchInv
<1>3. \A k \in DOMAIN db : FirstMain <= k
  BY <1>1, FirstMainPositive DEF IInv, QueueInv, QueueContiguous, TypeOK, EpochType
<1>4. nextFirst \in Nat /\ FirstMain <= nextFirst
  BY <1>1, <1>2, <1>3, FirstMainPositive DEF nextFirst
<1>5. getEpoch(nextFirst).n \in Nat \ {0}
  BY <1>4, EpochTypes
<1>6. mainHeight <= Len(mainTime)
  BY DEF IInv, FetchInv
<1>7. /\ nextLast(nextFirst) \in Nat /\ nextFirst <= nextLast(nextFirst)
      /\ nextLast(nextFirst) <= Len(mainTime)
  BY <1>1, <1>4, <1>5, <1>6 DEF nextLast, startFetching
<1>8. \A k \in DOMAIN db : k < nextFirst
  BY <1>1, <1>2 DEF nextFirst
<1>9. nextFirst = FirstMain \/ nextFirst - 1 \in DOMAIN db
  BY <1>1, <1>2, FirstMainPositive DEF nextFirst
<1>10. QED
  BY <1>4, <1>7, <1>8, <1>9

\* A fetch adds one entry behind all others and touches none of them.
LEMMA FetchAppends ==
    ASSUME IInv, FetcherFetch
    PROVE  \E e \in {0, mainTime[nextLast(nextFirst)]} :
              LET last == nextLast(nextFirst)
              IN  /\ last \notin DOMAIN db
                  /\ DOMAIN db' = DOMAIN db \cup {last}
                  /\ \A k \in DOMAIN db : db'[k] = db[k]
                  /\ db'[last] = Cce(nextFirst, last, e)
                  /\ doneFetch' = last
<1> DEFINE last == nextLast(nextFirst)
<1>1. running /\ mainHeight >= startFetching(nextFirst)
  BY DEF FetcherFetch
<1>2. last \notin DOMAIN db
  <2>1. DOMAIN db \subseteq Nat
    BY DEF IInv, TypeOK
  <2>2. QED
    BY <1>1, <2>1, NextEpochFollows
<1>3. PICK e \in {0, mainTime[last]} :
          /\ db' = Override(db, [k \in {last} |-> Cce(nextFirst, last, e)])
          /\ doneFetch' = last
  BY DEF FetcherFetch, GetCrosschain
<1>4. QED
  BY <1>2, <1>3 DEF Override

\* A fetched epoch joins the queue behind the last one, unmapped.
LEMMA FetcherFetchStep == ASSUME IInv, FetcherFetch PROVE IInv'
<1> DEFINE last == nextLast(nextFirst)
<1>0. running /\ mainHeight >= startFetching(nextFirst) /\ FifoFree
  BY DEF FetcherFetch
<1>1. /\ nextFirst \in Nat /\ FirstMain <= nextFirst
      /\ last \in Nat /\ nextFirst <= last /\ last <= Len(mainTime)
      /\ \A k \in DOMAIN db : k < nextFirst
      /\ nextFirst = FirstMain \/ nextFirst - 1 \in DOMAIN db
  BY <1>0, NextEpochFollows
<1>2. PICK e \in {0, mainTime[last]} :
          /\ last \notin DOMAIN db
          /\ DOMAIN db' = DOMAIN db \cup {last}
          /\ \A k \in DOMAIN db : db'[k] = db[k]
          /\ db'[last] = Cce(nextFirst, last, e)
          /\ doneFetch' = last
  BY FetchAppends
<1> HIDE DEF last
<1>3. UNCHANGED <<mainTime, blockTime, history, world, trunk, pc, searchTo, running,
                  mainHeight, serve, crosschain, crashes>>
  BY DEF FetcherFetch
<1>4. /\ mainTime \in Seq(Nat) /\ DOMAIN db \subseteq Nat
      /\ \A k \in DOMAIN db : db[k] \in EpochType
  BY DEF IInv, TypeOK
<1>5. e \in Nat
  BY <1>1, <1>4, FirstMainPositive
<1>6. db'[last] \in EpochType /\ db'[last].first = nextFirst /\ db'[last].last = last
      /\ db'[last].eebt = e /\ db'[last].smart = 0
  BY <1>1, <1>2, <1>5 DEF Cce, EpochType
<1>7. serve = NoServe
  BY <1>0, ZenonT(60) DEF IInv, ServeInv, FifoFree
<1>8. TypeOK'
  BY <1>1, <1>2, <1>3, <1>4, <1>6 DEF IInv, TypeOK
<1>9. ChainInv' /\ SearchInv'
  BY <1>3, ZenonT(60) DEF IInv, ChainInv, SearchInv
<1>10. QueueInv'
  <2>1. QueueContiguous'
    <3>1. QueueContiguous
      BY DEF IInv, QueueInv
    <3>2. \A k \in DOMAIN db : db[k].first \in Nat /\ db[k].first <= k
      BY <1>4, <3>1 DEF QueueContiguous, EpochType
    <3>3. ASSUME NEW k \in DOMAIN db'
          PROVE  /\ db'[k].last = k
                 /\ db'[k].first = FirstMain \/ db'[k].first - 1 \in DOMAIN db'
                 /\ FirstMain <= db'[k].first /\ db'[k].first <= k
                 /\ \A j \in DOMAIN db' : j < k => j < db'[k].first
      <4>1. CASE k = last
        BY <4>1, <1>1, <1>2, <1>4, <1>6
      <4>2. CASE k \in DOMAIN db
        BY <4>2, <1>1, <1>2, <1>4, <3>1, <3>2, SMTT(40) DEF QueueContiguous
      <4>3. QED
        BY <4>1, <4>2, <1>2
    <3>4. QED
      BY <3>3 DEF QueueContiguous
  <2>2. ASSUME NEW k \in DOMAIN db'
        PROVE  /\ k <= Len(mainTime)
               /\ db'[k].eebt \in {0, mainTime[k]}
               /\ db'[k].smart # 0 =>
                     MapsTo(blockTime, Len(blockTime), db'[k].smart, db'[k].eebt)
    BY <1>1, <1>2, <1>6, Zenon DEF IInv, QueueInv
  <2>3. QED
    BY <1>3, <2>1, <2>2 DEF QueueInv
<1>11. FetchInv'
  <2>1. mainHeight <= Len(mainTime) /\ (DOMAIN db = {} \/ \A k \in DOMAIN db : k <= doneFetch)
    BY <1>0, Zenon DEF IInv, FetchInv
  <2>2. doneFetch' \in DOMAIN db' /\ \A k \in DOMAIN db' : k <= doneFetch'
    BY <1>1, <1>2, <1>4, <2>1, SMTT(40)
  <2>3. QED
    BY <1>3, <2>1, <2>2, Zenon DEF FetchInv
<1>12. ServeInv'
  BY <1>0, <1>3, <1>7, NoServeEmpty DEF ServeInv, FifoFree
<1>13. LedgerInv'
  BY <1>2, <1>3, LedgerFrame DEF IInv
<1>14. QED
  BY <1>8, <1>9, <1>10, <1>11, <1>12, <1>13 DEF IInv
----------------------------------------------------------------------------
\* BeginBlock adds a block to the chain, or replays the last one.
LEMMA BeginBlockStep ==
    ASSUME IInv, NEW t \in 0..MaxTime, BeginBlock(t)
    PROVE  IInv'
<1>1. /\ pc = "idle" /\ pc' = "begun" /\ HeaderTime(t)
      /\ blockTime' = IF Len(blockTime) > world.height THEN blockTime ELSE Append(blockTime, t)
      /\ UNCHANGED <<mainTime, db, history, world, trunk, searchTo, running,
                     doneFetch, mainHeight, serve, crosschain, crashes>>
  BY DEF BeginBlock
<1>2. mainTime \in Seq(Nat) /\ blockTime \in Seq(Nat) /\ t \in Nat /\ world.height \in Nat
  BY BoundsAssumption DEF IInv, TypeOK, WorldType
<1>3. blockTime' \in Seq(Nat) /\ Grows(blockTime, blockTime') /\ Grows(mainTime, mainTime')
  BY <1>1, <1>2 DEF Grows
<1>4. TypeOK'
  BY <1>1, <1>3 DEF IInv, TypeOK
<1>5. ChainInv'
  <2>1. world.height <= Len(blockTime) /\ Len(blockTime) <= world.height + 1
    BY DEF IInv, ChainInv
  <2>2. Len(blockTime') = world'.height + 1
    BY <1>1, <1>2, <2>1
  <2>3. ASSUME NEW a \in 1..Len(blockTime'), NEW b \in 1..Len(blockTime'), a <= b
        PROVE  blockTime'[a] <= blockTime'[b]
    <3>1. CASE blockTime' = blockTime
      BY <2>3, <3>1 DEF IInv, ChainInv
    <3>2. CASE ~(Len(blockTime) > world.height)
      <4>1. /\ blockTime' = Append(blockTime, t)
            /\ Len(blockTime') = Len(blockTime) + 1
            /\ blockTime'[Len(blockTime) + 1] = t
            /\ \A g \in 1..Len(blockTime) : blockTime'[g] = blockTime[g] /\ blockTime[g] \in Nat
        BY <1>1, <1>2, <3>2
      <4>2. \A g \in 1..Len(blockTime) : blockTime[g] <= t
        <5>1. Len(blockTime) > 0 => blockTime[Len(blockTime)] <= t
          BY <1>1, <3>2 DEF HeaderTime
        <5>2. QED
          BY <1>2, <5>1, SMTT(40) DEF IInv, ChainInv
      <4>3. CASE b = Len(blockTime) + 1
        BY <1>2, <2>3, <4>1, <4>2, <4>3
      <4>4. CASE b \in 1..Len(blockTime)
        <5>1. a \in 1..Len(blockTime)
          BY <1>2, <2>3, <4>4
        <5>2. QED
          BY <2>3, <4>1, <4>4, <5>1 DEF IInv, ChainInv
      <4>5. QED
        BY <1>2, <2>3, <4>1, <4>3, <4>4
    <3>3. QED
      BY <1>1, <3>1, <3>2
  <2>4. QED
    BY <1>1, <1>2, <2>2, <2>3 DEF ChainInv
<1>6. QueueInv'
  <2>1. QueueContiguous'
    BY <1>1, Zenon DEF IInv, QueueInv, QueueContiguous
  <2>2. ASSUME NEW k \in DOMAIN db, db[k].smart # 0
        PROVE  MapsTo(blockTime', Len(blockTime'), db[k].smart, db[k].eebt)
    <3>1. MapsTo(blockTime, Len(blockTime), db[k].smart, db[k].eebt) /\ db[k].eebt \in Nat
      BY <2>2 DEF IInv, QueueInv, TypeOK, EpochType
    <3>2. QED
      BY <1>1, <1>2, <3>1, MapsToAppend, ZenonT(60)
  <2>3. QED
    BY <1>1, <2>1, <2>2, Zenon DEF IInv, QueueInv
<1>7. FetchInv'
  BY <1>1, Zenon DEF IInv, FetchInv
<1>8. ServeInv'
  BY <1>1, NoServeEmpty, Zenon DEF IInv, ServeInv
<1>9. LedgerInv'
  <2>1. CreditsDue(world.ledger)' /\ CreditsDue(trunk.ledger)'
    BY <1>1, <1>2, <1>3, CreditsStayDue, Zenon DEF IInv, LedgerInv, CreditsDue
  <2>2. QED
    BY <1>1, <2>1, Zenon DEF IInv, LedgerInv, LedgerContiguous, Contiguous
<1>10. SearchInv'
  BY <1>1 DEF IInv, SearchInv
<1>11. QED
  BY <1>4, <1>5, <1>6, <1>7, <1>8, <1>9, <1>10 DEF IInv

\* Below the fork block ProcessCCRPC does nothing.
LEMMA SkipCCRPCStep == ASSUME IInv, SkipCCRPC PROVE IInv'
<1>1. /\ pc = "begun" /\ pc' = "served"
      /\ UNCHANGED <<mainTime, blockTime, db, history, world, trunk, searchTo, running,
                     doneFetch, mainHeight, serve, crosschain, crashes>>
  BY DEF SkipCCRPC
<1>2. TypeOK' /\ ChainInv' /\ FetchInv'
  BY <1>1, Zenon DEF IInv, TypeOK, ChainInv, FetchInv
<1>3. QueueInv' /\ ServeInv'
  BY <1>1, ZenonT(60) DEF IInv, QueueInv, QueueContiguous, ServeInv
<1>4. LedgerInv'
  <2>1. CreditsDue(world.ledger)' /\ CreditsDue(trunk.ledger)'
    BY <1>1, ZenonT(60) DEF IInv, LedgerInv, CreditsDue, DueHeights
  <2>2. QED
    BY <1>1, <2>1, Zenon DEF IInv, LedgerInv, LedgerContiguous, Contiguous
<1>5. SearchInv'
  <2>1. world.height \in Nat /\ searchTo \in Nat
    BY DEF IInv, TypeOK, WorldType
  <2>2. searchTo # ForkBlock => searchTo < world.height
    BY <1>1, <2>1 DEF IInv, SearchInv
  <2>3. QED
    BY <1>1, <2>1, <2>2 DEF IInv, SearchInv
<1>6. QED
  BY <1>2, <1>3, <1>4, <1>5 DEF IInv
\* The first ProcessCCRPC of a run starts the fetcher behind the last epoch in the queue.
LEMMA ProcessCCRPCStep == ASSUME IInv, ProcessCCRPC PROVE IInv'
<1>1. /\ pc = "begun" /\ pc' = "process" /\ running' = TRUE
      /\ UNCHANGED <<mainTime, blockTime, db, history, world, trunk, searchTo,
                     serve, crosschain, crashes>>
  BY DEF ProcessCCRPC
<1>2. DOMAIN db \subseteq Nat /\ Len(mainTime) \in Nat
  BY SMTT(40) DEF IInv, TypeOK
<1>3. \A k \in DOMAIN db : k <= Len(mainTime) /\ FirstMain <= k
  BY <1>2, FirstMainPositive DEF IInv, QueueInv, QueueContiguous, TypeOK, EpochType
<1>4. DOMAIN db # {} => LastFetched \in DOMAIN db /\ \A k \in DOMAIN db : k <= LastFetched
  BY <1>2, <1>3, GreatestExists, Zenon DEF LastFetched
<1>5. /\ doneFetch' \in Nat /\ mainHeight' \in Nat /\ mainHeight' <= Len(mainTime)
      /\ \/ DOMAIN db = {} /\ doneFetch' = FirstMain - 1
         \/ doneFetch' \in DOMAIN db /\ \A k \in DOMAIN db : k <= doneFetch'
  <2>1. CASE running
    BY <2>1 DEF ProcessCCRPC, fetcherVars, IInv, TypeOK, FetchInv
  <2>2. CASE ~running /\ DOMAIN db = {}
    <3>1. LastFetched = 0
      BY <2>2 DEF LastFetched
    <3>2. doneFetch' = FirstMain - 1 /\ mainHeight' = 0
      BY <2>2, <3>1 DEF ProcessCCRPC, ResumeAt
    <3>3. QED
      BY <1>2, <2>2, <3>2, FirstMainPositive
  <2>3. CASE ~running /\ DOMAIN db # {}
    <3>1. LastFetched \in Nat /\ LastFetched > 0
      BY <1>2, <1>3, <1>4, <2>3, FirstMainPositive
    <3>2. doneFetch' = LastFetched /\ mainHeight' = 0
      BY <2>3, <3>1, Zenon DEF ProcessCCRPC, ResumeAt
    <3>3. QED
      BY <1>2, <1>4, <2>3, <3>1, <3>2
  <2>4. QED
    BY <2>1, <2>2, <2>3, Zenon
<1>6. TypeOK'
  BY <1>1, <1>5 DEF IInv, TypeOK
<1>7. ChainInv' /\ SearchInv'
  BY <1>1, Zenon DEF IInv, ChainInv, SearchInv
<1>8. QueueInv' /\ ServeInv'
  BY <1>1, ZenonT(60) DEF IInv, QueueInv, QueueContiguous, ServeInv
<1>9. FetchInv'
  BY <1>1, <1>5, Zenon DEF FetchInv
<1>10. LedgerInv'
  <2>1. CreditsDue(world.ledger)' /\ CreditsDue(trunk.ledger)'
    BY <1>1, ZenonT(60) DEF IInv, LedgerInv, CreditsDue, DueHeights
  <2>2. QED
    BY <1>1, <2>1, Zenon DEF IInv, LedgerInv, LedgerContiguous, Contiguous
<1>11. QED
  BY <1>6, <1>7, <1>8, <1>9, <1>10 DEF IInv

\* Serve starts behind the done epoch of the world state.
LEMMA ServeStep == ASSUME IInv, Serve PROVE IInv'
<1>1. /\ pc = "process" /\ pc' = "serve"
      /\ serve' = [iter |-> world.doneMain, done |-> world.doneMain,
                   nextSearchTo |-> searchTo, update |-> <<>>]
      /\ UNCHANGED <<mainTime, blockTime, db, history, world, trunk, searchTo, running,
                     doneFetch, mainHeight, crosschain, crashes>>
  BY DEF Serve
<1>2. /\ serve'.iter = world.doneMain /\ serve'.done = world.doneMain
      /\ serve'.nextSearchTo = searchTo /\ DOMAIN serve'.update = {}
  BY <1>1, SMTT(40)
<1>3. world.doneMain \in Nat /\ world.doneMain \in DOMAIN db \cup {0} /\ trunk = world
  BY <1>1, Zenon DEF IInv, TypeOK, WorldType, LedgerInv
<1>4. TypeOK'
  BY <1>1, <1>2, <1>3, Zenon DEF IInv, TypeOK
<1>5. ChainInv' /\ SearchInv'
  BY <1>1, Zenon DEF IInv, ChainInv, SearchInv
<1>6. QueueInv' /\ FetchInv'
  BY <1>1, Zenon DEF IInv, QueueInv, QueueContiguous, FetchInv
<1>7. ServeInv'
  <2>1. /\ pc' = "serve" /\ serve'.iter = serve'.done
        /\ \A k \in DOMAIN serve'.update : FALSE
        /\ serve'.done \in DOMAIN db' \cup {0} /\ serve'.done >= world'.doneMain
        /\ serve'.nextSearchTo = searchTo'
    BY <1>1, <1>2, <1>3, SMTT(40)
  <2>2. QED
    BY <2>1, ZenonT(60) DEF ServeInv
<1>8. LedgerInv'
  <2>1. CreditsDue(world.ledger)' /\ CreditsDue(trunk.ledger)'
    BY <1>1, ZenonT(60) DEF IInv, LedgerInv, CreditsDue, DueHeights
  <2>2. Contiguous(trunk'.ledger, serve'.done) /\ LedgerContiguous'
    BY <1>1, <1>2, <1>3, Zenon DEF IInv, LedgerInv, LedgerContiguous, Contiguous
  <2>3. QED
    BY <1>1, <1>3, <2>1, <2>2, ZenonT(60) DEF IInv, LedgerInv, Contiguous
<1>9. QED
  BY <1>4, <1>5, <1>6, <1>7, <1>8 DEF IInv

\* Serve ends without settling an epoch.
LEMMA StopStep ==
    ASSUME IInv, pc = "serve", pc' = "flush",
           UNCHANGED <<mainTime, blockTime, db, history, world, trunk, searchTo, running,
                       doneFetch, mainHeight, serve, crosschain, crashes>>
    PROVE  IInv'
<1>1. TypeOK' /\ ChainInv' /\ SearchInv'
  BY Zenon DEF IInv, TypeOK, ChainInv, SearchInv
<1>2. QueueInv' /\ FetchInv'
  BY ZenonT(60) DEF IInv, QueueInv, QueueContiguous, FetchInv
<1>3. ServeInv'
  BY Zenon DEF IInv, ServeInv
<1>4. LedgerInv'
  <2>1. CreditsDue(world.ledger)' /\ CreditsDue(trunk.ledger)'
    BY ZenonT(60) DEF IInv, LedgerInv, CreditsDue, DueHeights
  <2>2. QED
    BY <2>1, Zenon DEF IInv, LedgerInv, LedgerContiguous, Contiguous
<1>5. QED
  BY <1>1, <1>2, <1>3, <1>4, Zenon DEF IInv

\* The epoch Serve is at follows the one it has done.
LEMMA AtIterFollows ==
    ASSUME IInv, pc = "serve", NEW cce \in AtIter
    PROVE  /\ cce.last \in DOMAIN db /\ cce = db[cce.last]
           /\ cce \in EpochType
           /\ cce.last > serve.done /\ cce.last \in Nat
           /\ FirstMain <= cce.first
           /\ cce.first = IF serve.done = 0 THEN FirstMain ELSE serve.done + 1
<1>1. /\ DOMAIN db \subseteq Nat /\ serve.done \in Nat /\ serve.iter = serve.done
      /\ \A k \in DOMAIN db : db[k] \in EpochType
  BY DEF IInv, TypeOK, ServeInv
<1>2. PICK k \in Unserved : cce = db[k] /\ \A i \in Unserved : k <= i
  BY DEF AtIter
<1>3. k \in DOMAIN db /\ k > serve.done
  BY <1>1, <1>2 DEF Unserved
<1>4. \A i \in DOMAIN db : i > serve.done => k <= i
  BY <1>1, <1>2, ZenonT(60) DEF Unserved
<1>5. /\ cce.last = k
      /\ cce.first = FirstMain \/ cce.first - 1 \in DOMAIN db
      /\ FirstMain <= cce.first /\ cce.first <= k
      /\ \A j \in DOMAIN db : j < k => j < cce.first
  BY <1>2, <1>3 DEF IInv, QueueInv, QueueContiguous
<1>6. cce.first \in Nat
  BY <1>1, <1>2, <1>3, SMTT(40) DEF EpochType
<1>7. serve.done \in DOMAIN db \cup {0}
  BY DEF IInv, ServeInv
<1>8. CASE serve.done = 0
  BY <1>1, <1>3, <1>4, <1>5, <1>6, <1>8, <1>2, FirstMainPositive
<1>9. CASE serve.done \in DOMAIN db
  <2>1. FirstMain <= serve.done
    BY <1>1, <1>9, FirstMainPositive DEF IInv, QueueInv, QueueContiguous, EpochType
  <2>2. serve.done < cce.first
    BY <1>1, <1>3, <1>5, <1>9
  <2>3. QED
    BY <1>1, <1>2, <1>3, <1>4, <1>5, <1>6, <2>1, <2>2, FirstMainPositive, SMTT(40)
<1>10. QED
  BY <1>7, <1>8, <1>9, Zenon
\* What Serve may hold in its map of updated epochs.
UpdateOK(update) ==
    /\ DOMAIN update \subseteq Nat
    /\ \A k \in DOMAIN update :
          /\ update[k] \in EpochType
          /\ k \in DOMAIN db
          /\ db[k].smart = 0 /\ update[k].smart # 0
          /\ update[k].first = db[k].first /\ update[k].last = k /\ update[k].eebt = db[k].eebt
          /\ MapsTo(blockTime, Len(blockTime), update[k].smart, update[k].eebt)

\* The parts of the invariant that do not speak of the ledger survive a step of the serving loop that
\* keeps or advances the done epoch.
LEMMA ServingFrame ==
    ASSUME IInv, pc = "serve", pc' \in {"serve", "flush"},
           NEW done \in Nat, done \in DOMAIN db \cup {0}, done >= serve.done,
           NEW nextSearchTo \in Nat, nextSearchTo = searchTo \/ nextSearchTo \in history,
           NEW update, UpdateOK(update),
           serve' = [iter |-> done, done |-> done, nextSearchTo |-> nextSearchTo, update |-> update],
           trunk' \in WorldType, crosschain' \subseteq Nat,
           UNCHANGED <<mainTime, blockTime, db, history, world, searchTo, running,
                       doneFetch, mainHeight, crashes>>
    PROVE  TypeOK' /\ ChainInv' /\ QueueInv' /\ FetchInv' /\ ServeInv' /\ SearchInv'
<1>1. /\ serve'.iter = done /\ serve'.done = done
      /\ serve'.nextSearchTo = nextSearchTo /\ serve'.update = update
  BY Zenon
<1>2. TypeOK'
  <2>1. /\ serve'.iter \in Nat /\ serve'.done \in Nat /\ serve'.nextSearchTo \in Nat
        /\ DOMAIN serve'.update \subseteq Nat
        /\ \A k \in DOMAIN serve'.update : serve'.update[k] \in EpochType
    BY <1>1, ZenonT(60) DEF UpdateOK
  <2>2. QED
    BY <2>1, Zenon DEF IInv, TypeOK
<1>3. ChainInv' /\ SearchInv'
  BY Zenon DEF IInv, ChainInv, SearchInv
<1>4. QueueInv' /\ FetchInv'
  BY ZenonT(60) DEF IInv, QueueInv, QueueContiguous, FetchInv
<1>5. ServeInv'
  <2>1. serve.done >= world.doneMain /\ serve.done \in Nat /\ world.doneMain \in Nat
    BY Zenon DEF IInv, ServeInv, TypeOK, WorldType
  <2>2. \A k \in DOMAIN serve'.update :
          /\ k \in DOMAIN db'
          /\ db'[k].smart = 0 /\ serve'.update[k].smart # 0
          /\ serve'.update[k].first = db'[k].first /\ serve'.update[k].last = k
          /\ serve'.update[k].eebt = db'[k].eebt
          /\ MapsTo(blockTime', Len(blockTime'), serve'.update[k].smart, serve'.update[k].eebt)
    BY <1>1, Zenon DEF UpdateOK
  <2>3. /\ serve'.done \in DOMAIN db' \cup {0}
        /\ serve'.done >= world'.doneMain
        /\ serve'.nextSearchTo = searchTo' \/ serve'.nextSearchTo \in history'
    BY <1>1, <2>1
  <2>4. QED
    BY <1>1, <2>2, <2>3, ZenonT(60) DEF ServeInv
<1>6. QED
  BY <1>2, <1>3, <1>4, <1>5

\* Append adds one element at the end and keeps the others.
LEMMA AppendFacts ==
    ASSUME NEW S, NEW s \in Seq(S), NEW e \in S
    PROVE  /\ Len(s) \in Nat /\ DOMAIN s = 1..Len(s)
           /\ DOMAIN Append(s, e) = 1..(Len(s) + 1)
           /\ \A i \in 1..Len(s) : Append(s, e)[i] = s[i]
           /\ Append(s, e)[Len(s) + 1] = e
           /\ Append(s, e) # <<>> /\ Len(Append(s, e)) = Len(s) + 1
<1>1. /\ Len(s) \in Nat /\ DOMAIN s = 1..Len(s)
      /\ Append(s, e) \in Seq(S) /\ Len(Append(s, e)) = Len(s) + 1
  OBVIOUS
<1>2. DOMAIN Append(s, e) = 1..(Len(s) + 1)
  BY <1>1
<1>3. Append(s, e) # <<>>
  BY <1>1, SMTT(40)
<1>4. QED
  BY <1>1, <1>2, <1>3

\* A credit for the epoch Serve is at, at the height the mapping gives, extends the ledger.
LEMMA CreditStep ==
    ASSUME IInv, pc = "serve", NEW cce \in AtIter, NEW smart \in Nat,
           MapsTo(blockTime, Len(blockTime), smart, cce.eebt),
           smart + getEpoch(cce.first).nn = currHeight,
           trunk' = [trunk EXCEPT !.ledger = Append(@, [first |-> cce.first, last |-> cce.last,
                                                        at |-> currHeight])],
           serve'.done = cce.last,
           UNCHANGED <<mainTime, blockTime, db, world, pc>>
    PROVE  trunk' \in WorldType /\ LedgerInv'
<1> DEFINE c == [first |-> cce.first, last |-> cce.last, at |-> currHeight]
           led == trunk.ledger
<1>1. /\ cce.last \in DOMAIN db /\ cce = db[cce.last] /\ cce \in EpochType
      /\ cce.last \in Nat /\ FirstMain <= cce.first
      /\ cce.first = IF serve.done = 0 THEN FirstMain ELSE serve.done + 1
  BY AtIterFollows
<1>2. trunk \in WorldType /\ world.height \in Nat
  BY DEF IInv, TypeOK, WorldType
<1>3. /\ led \in Seq([first : Nat, last : Nat, at : Nat])
      /\ c \in [first : Nat, last : Nat, at : Nat]
  <2>1. led \in Seq([first : Nat, last : Nat, at : Nat])
    BY <1>2, Zenon DEF WorldType
  <2>2. cce.first \in Nat /\ cce.last \in Nat
    BY <1>1, Zenon DEF EpochType
  <2>3. currHeight \in Nat
    BY <1>2 DEF currHeight
  <2>4. c \in [first : Nat, last : Nat, at : Nat]
    BY <2>2, <2>3, Zenon
  <2>5. QED
    BY <2>1, <2>4
<1>4. /\ trunk'.ledger = Append(led, c)
      /\ trunk'.height = trunk.height /\ trunk'.doneMain = trunk.doneMain
      /\ trunk' \in WorldType
  <2>1. Append(led, c) \in Seq([first : Nat, last : Nat, at : Nat])
    BY <1>3
  <2>2. QED
    BY <1>2, <2>1, Zenon DEF WorldType
<1>5. /\ DOMAIN trunk'.ledger = 1..(Len(led) + 1) /\ Len(led) \in Nat
      /\ DOMAIN led = 1..Len(led)
      /\ \A i \in 1..Len(led) : trunk'.ledger[i] = led[i]
      /\ trunk'.ledger[Len(led) + 1] = c
      /\ trunk'.ledger # <<>> /\ Len(trunk'.ledger) = Len(led) + 1
  <2> DEFINE S == [first : Nat, last : Nat, at : Nat]
  <2>1. led \in Seq(S) /\ c \in S /\ trunk'.ledger = Append(led, c)
    BY <1>3, <1>4
  <2> HIDE DEF c, led, S
  <2>2. /\ Len(led) \in Nat /\ DOMAIN led = 1..Len(led)
        /\ DOMAIN Append(led, c) = 1..(Len(led) + 1)
        /\ \A i \in 1..Len(led) : Append(led, c)[i] = led[i]
        /\ Append(led, c)[Len(led) + 1] = c
        /\ Append(led, c) # <<>> /\ Len(Append(led, c)) = Len(led) + 1
    BY <2>1, AppendFacts, ZenonT(60)
  <2>3. QED
    BY <2>1, <2>2, Zenon
<1>6. Contiguous(led, serve.done)
  BY DEF IInv, LedgerInv
<1>7. Contiguous(trunk'.ledger, serve'.done)
  <2>1. serve.done = 0 <=> Len(led) = 0
    <3>1. CASE Len(led) = 0
      <4>1. led = <<>>
        BY <1>3, <3>1
      <4>2. QED
        BY <1>6, <3>1, <4>1 DEF Contiguous
    <3>2. CASE Len(led) # 0
      <4>1. led # <<>> /\ Len(led) \in DOMAIN led
        BY <1>3, <1>5, <3>2
      <4>2. serve.done = led[Len(led)].last
        BY <1>6, <4>1 DEF Contiguous
      <4>3. led[Len(led)].last \in 1..Len(mainTime)
        BY <4>1 DEF IInv, LedgerInv, CreditsDue
      <4>4. QED
        BY <3>2, <4>2, <4>3 DEF IInv, TypeOK
    <3>3. QED
      BY <3>1, <3>2
  <2>2. cce.first = IF Len(led) + 1 = 1 THEN FirstMain ELSE trunk'.ledger[Len(led)].last + 1
    <3>1. CASE Len(led) = 0
      BY <1>1, <2>1, <3>1
    <3>2. CASE Len(led) # 0
      <4>1. led # <<>> /\ Len(led) \in 1..Len(led)
        BY <1>3, <1>5, <3>2
      <4>2. serve.done = led[Len(led)].last
        BY <1>6, <4>1 DEF Contiguous
      <4>3. QED
        BY <1>1, <1>5, <2>1, <3>2, <4>1, <4>2
    <3>3. QED
      BY <3>1, <3>2
  <2>3. ASSUME NEW i \in 1..Len(led)
        PROVE  trunk'.ledger[i].first = IF i = 1 THEN FirstMain ELSE trunk'.ledger[i - 1].last + 1
    <3>1. led[i].first = IF i = 1 THEN FirstMain ELSE led[i - 1].last + 1
      BY <1>5, <1>6 DEF Contiguous
    <3>2. i # 1 => i - 1 \in 1..Len(led)
      BY <1>5
    <3>3. QED
      BY <1>5, <3>1, <3>2
  <2>4. \A i \in DOMAIN trunk'.ledger :
           trunk'.ledger[i].first = IF i = 1 THEN FirstMain ELSE trunk'.ledger[i - 1].last + 1
    <3>1. SUFFICES ASSUME NEW i \in 1..(Len(led) + 1)
                   PROVE trunk'.ledger[i].first = IF i = 1 THEN FirstMain ELSE trunk'.ledger[i - 1].last + 1
      BY <1>5, Zenon
    <3>2. CASE i = Len(led) + 1
      BY <1>5, <2>2, <3>2
    <3>3. CASE i \in 1..Len(led)
      BY <2>3, <3>3, Zenon
    <3>4. QED
      BY <1>5, <3>2, <3>3, SMTT(40)
  <2>5. serve'.done = trunk'.ledger[Len(trunk'.ledger)].last
    BY <1>5
  <2>6. QED
    BY <1>5, <2>4, <2>5, Zenon DEF Contiguous
<1>8. CreditsDue(world.ledger)'
  BY Zenon DEF IInv, LedgerInv, CreditsDue, DueHeights
<1>9. CreditsDue(trunk.ledger)'
  <2>1. cce.eebt = mainTime[cce.last] /\ cce.last \in 1..Len(mainTime)
    <3>1. /\ cce.last <= Len(mainTime) /\ cce.eebt \in {0, mainTime[cce.last]}
          /\ cce.first <= cce.last
      BY <1>1 DEF IInv, QueueInv, QueueContiguous
    <3>2. cce.last \in 1..Len(mainTime) /\ Len(mainTime) \in Nat
      BY <1>1, <3>1, FirstMainPositive, SMTT(40) DEF EpochType, IInv, TypeOK
    <3>3. 1 \in 1..(smart - 1) /\ blockTime[1] < cce.eebt /\ blockTime[1] \in Nat
      <4>1. blockTime \in Seq(Nat) /\ Len(blockTime) \in Nat
        BY DEF IInv, TypeOK
      <4>2. smart \in 2..Len(blockTime) /\ \A g \in 1..(smart - 1) : blockTime[g] < cce.eebt
        BY DEF MapsTo
      <4>3. 1 \in 1..(smart - 1) /\ 1 \in 1..Len(blockTime)
        BY <4>1, <4>2
      <4>4. blockTime[1] \in Nat
        BY <4>1, <4>3, SMTT(40)
      <4>5. QED
        BY <4>2, <4>3, <4>4, Zenon
    <3>4. cce.eebt # 0
      BY <3>3
    <3>5. QED
      BY <3>1, <3>2, <3>4
  <2>2. currHeight \in DueHeights(cce.first, cce.last)
    BY <2>1 DEF DueHeights, MapsTo
  <2>3. ASSUME NEW i \in 1..(Len(led) + 1)
        PROVE  /\ trunk'.ledger[i].last \in 1..Len(mainTime)
               /\ trunk'.ledger[i].at \in DueHeights(trunk'.ledger[i].first, trunk'.ledger[i].last)
    <3>1. CASE i \in 1..Len(led)
      BY <1>5, <3>1 DEF IInv, LedgerInv, CreditsDue
    <3>2. CASE i = Len(led) + 1
      BY <1>5, <2>1, <2>2, <3>2
    <3>3. QED
      BY <1>5, <3>1, <3>2
  <2>4. QED
    BY <1>5, <2>3, ZenonT(60) DEF CreditsDue, DueHeights
<1>10. LedgerContiguous'
  BY DEF IInv, LedgerInv, LedgerContiguous, Contiguous
<1>11. /\ trunk'.doneMain = world'.doneMain /\ trunk'.height = world'.height
       /\ world'.doneMain \in DOMAIN db' \cup {0}
  BY <1>4 DEF IInv, LedgerInv
<1>12. QED
  BY <1>4, <1>7, <1>8, <1>9, <1>10, <1>11, Zenon DEF LedgerInv, Contiguous
\* The tail of processOne, for an epoch whose EEBTSmartHeight is the mapping, or is 0 and so not due.
LEMMA SettleStep ==
    ASSUME IInv, pc = "serve", NEW cce \in AtIter,
           NEW m, m.first = cce.first, m.last = cce.last, m.smart \in Nat,
           m.smart # 0 => MapsTo(blockTime, Len(blockTime), m.smart, cce.eebt),
           m.smart = 0 => getEpoch(cce.first).nn # currHeight,
           NEW update, UpdateOK(update),
           NEW nextSearchTo \in Nat, nextSearchTo = searchTo \/ nextSearchTo \in history,
           NEW reported \in SUBSET Nat,
           Settle(m, update, nextSearchTo, reported)
    PROVE  IInv'
<1>1. /\ cce.last \in DOMAIN db /\ cce \in EpochType /\ cce.last \in Nat
      /\ cce.last > serve.done /\ FirstMain <= cce.first
  BY AtIterFollows
<1>2. getEpoch(cce.first).nn \in Nat /\ cce.first \in Nat
  BY <1>1, EpochTypes, Zenon DEF EpochType
<1>3. /\ serve.done \in Nat /\ serve.iter = serve.done /\ serve.done \in DOMAIN db \cup {0}
      /\ trunk \in WorldType
  BY Zenon DEF IInv, ServeInv, TypeOK
<1> DEFINE nn == getEpoch(m.first).nn
<1>4. CASE Panic
  BY <1>4, PanicStep, ZenonT(60)
<1>5. CASE /\ m.smart + nn = currHeight
           /\ trunk' = [trunk EXCEPT !.ledger = Append(@, Credit(m, currHeight))]
           /\ serve' = [iter |-> m.last, done |-> m.last,
                        nextSearchTo |-> nextSearchTo, update |-> update]
           /\ crosschain' = reported
           /\ UNCHANGED <<mainTime, blockTime, db, history, world, pc, searchTo, running,
                          doneFetch, mainHeight, crashes>>
  <2>1. m.smart # 0
    BY <1>2, <1>5, SMTT(40)
  <2>2. MapsTo(blockTime, Len(blockTime), m.smart, cce.eebt)
    BY <2>1
  <2>3. trunk' = [trunk EXCEPT !.ledger = Append(@, [first |-> cce.first, last |-> cce.last,
                                                      at |-> currHeight])]
    BY <1>5 DEF Credit
  <2>4. serve'.done = cce.last /\ m.smart + getEpoch(cce.first).nn = currHeight
    BY <1>5
  <2>5. trunk' \in WorldType /\ LedgerInv'
    BY <1>5, <2>2, <2>3, <2>4, CreditStep, Zenon
  <2>6. serve' = [iter |-> cce.last, done |-> cce.last,
                  nextSearchTo |-> nextSearchTo, update |-> update]
    BY <1>5
  <2>7. cce.last \in DOMAIN db \cup {0} /\ cce.last >= serve.done /\ pc' \in {"serve", "flush"}
    BY <1>1, <1>3, <1>5
  <2>8. TypeOK' /\ ChainInv' /\ QueueInv' /\ FetchInv' /\ ServeInv' /\ SearchInv'
    BY <1>1, <1>5, <2>5, <2>6, <2>7, ServingFrame, ZenonT(60)
  <2>9. QED
    BY <2>5, <2>8, Zenon DEF IInv
<1>6. CASE /\ StopServing
           /\ serve' = [iter |-> serve.iter, done |-> serve.done,
                        nextSearchTo |-> nextSearchTo, update |-> update]
           /\ crosschain' = reported
           /\ UNCHANGED <<mainTime, blockTime, db, history, world, searchTo, running,
                          doneFetch, mainHeight, crashes>>
  <2>1. /\ pc' \in {"serve", "flush"} /\ pc' = "flush" /\ trunk' \in WorldType /\ UNCHANGED trunk
        /\ serve' = [iter |-> serve.done, done |-> serve.done,
                     nextSearchTo |-> nextSearchTo, update |-> update]
    BY <1>3, <1>6, ZenonT(60) DEF StopServing
  <2>2. serve.done >= serve.done /\ serve'.done = serve.done
    BY <1>3, <2>1, SMTT(40)
  <2>3. TypeOK' /\ ChainInv' /\ QueueInv' /\ FetchInv' /\ ServeInv' /\ SearchInv'
    BY <1>3, <1>6, <2>1, <2>2, ServingFrame, ZenonT(60)
  <2>4. CreditsDue(world.ledger)' /\ CreditsDue(trunk.ledger)'
    BY <1>6, <2>1, ZenonT(60) DEF IInv, LedgerInv, CreditsDue, DueHeights
  <2>5. LedgerInv'
    BY <1>6, <2>1, <2>2, <2>4, ZenonT(60) DEF IInv, LedgerInv, LedgerContiguous, Contiguous
  <2>6. QED
    BY <2>3, <2>5 DEF IInv
<1>7. QED
  BY <1>4, <1>5, <1>6, ZenonT(60) DEF Settle

\* Serve stops at an epoch that is too early.
LEMMA ServeTooEarlyStep == ASSUME IInv, ServeTooEarly PROVE IInv'
  BY StopStep DEF ServeTooEarly, StopServing

\* Serve stops at the end of the queue.
LEMMA ServeExhaustedStep == ASSUME IInv, ServeExhausted PROVE IInv'
  BY StopStep, ZenonT(60) DEF ServeExhausted, StopServing

\* What Serve has collected so far may stay, and so may its search limit.
LEMMA ServeUpdateOK ==
    ASSUME IInv, pc = "serve"
    PROVE  /\ UpdateOK(serve.update)
           /\ serve.nextSearchTo \in Nat
           /\ serve.nextSearchTo = searchTo \/ serve.nextSearchTo \in history
           /\ crosschain \in SUBSET Nat
  BY DEF IInv, TypeOK, ServeInv, UpdateOK

\* An epoch with a stored height is settled with that height.
LEMMA ServeMappedStep == ASSUME IInv, ServeMapped PROVE IInv'
<1>1. PICK cce \in AtIter : /\ cce.smart # 0
                            /\ Settle(cce, serve.update, serve.nextSearchTo, crosschain)
  BY DEF ServeMapped
<1>2. pc = "serve"
  BY DEF ServeMapped
<1>3. cce.last \in DOMAIN db /\ cce = db[cce.last] /\ cce \in EpochType
  BY <1>2, AtIterFollows, SMTT(40)
<1>4. cce.smart \in Nat /\ MapsTo(blockTime, Len(blockTime), cce.smart, cce.eebt)
  BY <1>1, <1>3 DEF EpochType, IInv, QueueInv
<1>5. QED
  BY <1>1, <1>2, <1>4, ServeUpdateOK, SettleStep
\* The start of the search: at the tip when the tip is not above the search limit, else the highest
\* published block above the limit, or the limit itself when nothing is published above it.
LEMMA BackStartRange ==
    ASSUME IInv, pc = "serve"
    PROVE  /\ BackStart(searchTo) \in Nat /\ BackStart(searchTo) <= world.height
           /\ world.height <= searchTo => BackStart(searchTo) = world.height
           /\ world.height > searchTo =>
                 /\ BackStart(searchTo) >= searchTo
                 /\ \A b \in history : b > searchTo => BackStart(searchTo) >= b
<1>1. world.height \in Nat /\ searchTo \in Nat /\ currHeight - 1 = world.height
  BY DEF IInv, TypeOK, WorldType, currHeight
<1>2. CASE world.height <= searchTo
  BY <1>1, <1>2 DEF BackStart
<1>3. CASE world.height > searchTo
  <2> DEFINE S == {b \in searchTo..world.height : b = searchTo \/ b \in history}
  <2>1. BackStart(searchTo) = Greatest(S)
    BY <1>1, <1>3 DEF BackStart
  <2>2. S \in SUBSET Nat /\ S # {} /\ \A x \in S : x <= world.height
    <3>1. searchTo \in S
      BY <1>1, <1>3
    <3>2. QED
      BY <1>1, <3>1
  <2>3. Greatest(S) \in S /\ \A y \in S : y <= Greatest(S)
    <3> HIDE DEF S
    <3> QED
      BY <1>1, <2>2, GreatestExists, Zenon
  <2>4. \A b \in history : b > searchTo => b \in S
    BY <1>1 DEF IInv, TypeOK
  <2>5. QED
    BY <1>1, <1>3, <2>1, <2>2, <2>3, <2>4
<1>4. QED
  BY <1>1, <1>2, <1>3

\* An epoch that could not be mapped because there is nothing to search is not due: the heights at
\* which this happens are the first two blocks of the chain and the blocks just above the fork.
LEMMA NothingToSearch ==
    ASSUME IInv, pc = "serve", NEW cce \in AtIter, NEW backStart, backStart = BackStart(searchTo),
           backStart - searchTo <= 0,
           WalkedHeights(blockTime, backStart, backStart - searchTo, cce.eebt) \subseteq history
    PROVE  getEpoch(cce.first).nn # currHeight
<1> DEFINE nn == getEpoch(cce.first).nn
<1>1. /\ cce \in EpochType /\ FirstMain <= cce.first /\ cce.first \in Nat /\ cce.eebt \in Nat
  BY AtIterFollows DEF EpochType
<1>2. /\ nn \in Nat /\ nn > 2
      /\ nn \notin (ForkBlock + 1)..(ForkBlock + 2 + IF TornCommit THEN MaxCrashes ELSE 0)
  BY <1>1, EpochTypes, ZenonT(60)
<1>3. /\ world.height \in Nat /\ searchTo \in Nat /\ currHeight = world.height + 1
      /\ ForkBlock \in Nat /\ crashes \in Nat /\ MaxCrashes \in Nat /\ crashes <= MaxCrashes
      /\ history \subseteq 1..(world.height - 1)
  BY EpochsAssumption, BoundsAssumption DEF IInv, TypeOK, WorldType, currHeight, SearchInv
<1>4. /\ backStart \in Nat /\ backStart <= world.height
      /\ world.height <= searchTo => backStart = world.height
      /\ world.height > searchTo => backStart >= searchTo
                                    /\ \A b \in history : b > searchTo => backStart >= b
  BY BackStartRange
<1>5. ~ \E b \in history : b > searchTo
  <2>1. SUFFICES ASSUME NEW b \in history, b > searchTo PROVE FALSE
    OBVIOUS
  <2>2. b \in 1..(world.height - 1)
    BY <1>3, <2>1
  <2>3. world.height > searchTo
    BY <1>3, <2>1, <2>2
  <2>4. QED
    BY <1>3, <1>4, <2>1, <2>2, <2>3
<1>6. searchTo = ForkBlock
  BY <1>5 DEF IInv, SearchInv
<1>7. CASE world.height < searchTo
  <2> DEFINE back == backStart - searchTo
             f == found(blockTime, backStart, back, cce.eebt)
             low == WalkDown(blockTime, f, cce.eebt)
  <2>1. backStart = world.height /\ back \in Int /\ back < 0
    BY <1>3, <1>4, <1>7
  <2>2. n_entries(backStart, back) = back
    BY <1>4, <2>1 DEF n_entries
  <2>3. SortSearch(blockTime, backStart, back, cce.eebt) = 0
    BY <1>1, <1>4, <2>1, SortSearchRange
  <2>4. f = world.height
    BY <1>3, <2>1, <2>2, <2>3 DEF found
  <2>5. CASE world.height \in {0, 1}
    BY <1>2, <1>3, <2>5
  <2>6. CASE world.height \notin {0, 1}
    <3>1. low \in 1..f
      <4>1. f \in Nat /\ f >= 1
        BY <1>3, <2>4, <2>6
      <4> HIDE DEF f
      <4>2. QED
        BY <1>1, <4>1, WalkDownStops, ZenonT(60)
    <3>2. f \in WalkedHeights(blockTime, backStart, back, cce.eebt)
      <4>1. ~(SortSearch(blockTime, backStart, n_entries(backStart, back), cce.eebt)
                 = n_entries(backStart, back) \/ f \in {0, 1})
        BY <1>3, <2>1, <2>2, <2>3, <2>4, <2>6
      <4>2. \/ WalkedHeights(blockTime, backStart, back, cce.eebt) = 2..f
            \/ (low..f) \subseteq WalkedHeights(blockTime, backStart, back, cce.eebt)
        <5> HIDE DEF f, low, back
        <5>1. QED
          BY <4>1, ZenonT(60) DEF WalkedHeights, f, low
      <4>3. f \in 2..f /\ f \in low..f
        BY <1>3, <2>4, <2>6, <3>1
      <4>4. QED
        BY <4>2, <4>3
    <3>3. world.height \in history
      BY <2>4, <3>2
    <3>4. QED
      BY <1>3, <3>3
  <2>7. QED
    BY <2>5, <2>6
<1>8. CASE world.height >= searchTo
  <2>1. \A b \in history : b <= ForkBlock
    BY <1>3, <1>5, <1>6
  <2>2. world.height + 1 <= ForkBlock + 2 + (IF TornCommit THEN crashes ELSE 0)
    BY <2>1 DEF IInv, SearchInv
  <2>3. currHeight \in (ForkBlock + 1)..(ForkBlock + 2 + IF TornCommit THEN MaxCrashes ELSE 0)
    BY <1>3, <1>6, <1>8, <2>2
  <2>4. QED
    BY <1>2, <2>3
<1>9. QED
  BY <1>3, <1>7, <1>8

\* The epoch Serve has just mapped joins the ones it is to write back.
LEMMA MappedUpdateOK ==
    ASSUME IInv, pc = "serve", NEW cce \in AtIter, cce.smart = 0,
           NEW ok \in Nat \ {0}, MapsTo(blockTime, Len(blockTime), ok, cce.eebt), NEW app \in Nat,
           NEW mapped, mapped = [cce EXCEPT !.smart = ok, !.app = app]
    PROVE  UpdateOK(Override(serve.update, [k \in {cce.last} |-> mapped]))
<1>1. UpdateOK(serve.update)
  BY ServeUpdateOK
<1>2. cce.last \in DOMAIN db /\ cce = db[cce.last] /\ cce \in EpochType /\ cce.last \in Nat
  BY AtIterFollows
<1>3. /\ mapped \in EpochType /\ mapped.smart = ok
      /\ mapped.first = cce.first /\ mapped.last = cce.last /\ mapped.eebt = cce.eebt
  BY <1>2, Zenon DEF EpochType
<1> DEFINE u == Override(serve.update, [k \in {cce.last} |-> mapped])
<1>4. /\ DOMAIN u = DOMAIN serve.update \cup {cce.last}
      /\ u[cce.last] = mapped
      /\ \A k \in DOMAIN serve.update : k # cce.last => u[k] = serve.update[k]
  BY DEF Override
<1> HIDE DEF u
<1>5. DOMAIN u \subseteq Nat
  BY <1>1, <1>2, <1>4 DEF UpdateOK
<1>6. ASSUME NEW k \in DOMAIN u
      PROVE  /\ u[k] \in EpochType
             /\ k \in DOMAIN db
             /\ db[k].smart = 0 /\ u[k].smart # 0
             /\ u[k].first = db[k].first /\ u[k].last = k /\ u[k].eebt = db[k].eebt
             /\ MapsTo(blockTime, Len(blockTime), u[k].smart, u[k].eebt)
  <2>1. CASE k = cce.last
    BY <1>2, <1>3, <1>4, <2>1, Zenon
  <2>2. CASE k # cce.last
    BY <1>1, <1>4, <2>2 DEF UpdateOK
  <2>3. QED
    BY <2>1, <2>2
<1>7. UpdateOK(u)
  BY <1>5, <1>6 DEF UpdateOK
<1>8. QED
  BY <1>7 DEF u
\* An epoch without a stored height is searched for, and settled with what the search finds.
LEMMA ServeSearchStep == ASSUME IInv, ServeSearch PROVE IInv'
<1>1. PICK cce \in AtIter :
         /\ cce.smart = 0
         /\ \E backStart \in {BackStart(searchTo)} :
            \E r \in {blockAfterTime(blockTime, backStart, backStart - searchTo, cce.eebt)} :
               SearchOne(cce, backStart, r)
  BY Zenon DEF ServeSearch
<1> DEFINE backStart == BackStart(searchTo)
           searchBack == backStart - searchTo
           r == blockAfterTime(blockTime, backStart, searchBack, cce.eebt)
           walked == WalkedHeights(blockTime, backStart, searchBack, cce.eebt)
           app == r.ok + getEpoch(cce.first).nn
           mapped == [cce EXCEPT !.smart = r.ok, !.app = app]
           update == IF r.ok = 0 THEN serve.update
                     ELSE Override(serve.update, [k \in {cce.last} |-> mapped])
           nextSearchTo == IF r.ok > serve.nextSearchTo THEN r.ok ELSE serve.nextSearchTo
           reported == IF app <= currHeight THEN crosschain \cup {cce.last} ELSE crosschain
<1>2. /\ cce.smart = 0
      /\ \/ Panic
         \/ /\ StopServing
            /\ UNCHANGED <<mainTime, blockTime, db, history, world, searchTo, running,
                           doneFetch, mainHeight, serve, crosschain, crashes>>
         \/ /\ walked \subseteq history
            /\ r.ok > 0 \/ searchBack <= 0
            /\ Settle(mapped, update, nextSearchTo, reported)
  <2>1. SearchOne(cce, backStart, r)
    BY <1>1, Zenon
  <2>2. QED
    BY <1>1, <2>1, Zenon DEF SearchOne
<1> HIDE DEF backStart, searchBack, r, walked, app, mapped, update, nextSearchTo, reported
<1>3. pc = "serve"
  BY DEF ServeSearch
<1>4. CASE Panic
  BY <1>3, <1>4, PanicStep
<1>5. CASE /\ StopServing
           /\ UNCHANGED <<mainTime, blockTime, db, history, world, searchTo, running,
                          doneFetch, mainHeight, serve, crosschain, crashes>>
  BY <1>3, <1>5, StopStep, ZenonT(60) DEF StopServing
<1>6. CASE /\ walked \subseteq history
           /\ r.ok > 0 \/ searchBack <= 0
           /\ Settle(mapped, update, nextSearchTo, reported)
  <2>1. /\ cce.last \in DOMAIN db /\ cce \in EpochType /\ cce.last \in Nat
        /\ FirstMain <= cce.first /\ cce.first \in Nat /\ cce.eebt \in Nat
    BY <1>3, AtIterFollows DEF EpochType
  <2>2. backStart \in Nat /\ backStart <= Len(blockTime) /\ searchBack \in Int
    <3>1. backStart \in Nat /\ backStart <= world.height
      BY <1>3, BackStartRange DEF backStart
    <3>2. world.height <= Len(blockTime) /\ world.height \in Nat /\ searchTo \in Nat
          /\ Len(blockTime) \in Nat
      BY DEF IInv, ChainInv, TypeOK, WorldType
    <3>3. QED
      BY <3>1, <3>2 DEF searchBack
  <2>3. blockTime \in Seq(Nat) /\ Monotone(blockTime)
    BY DEF IInv, TypeOK, ChainInv, Monotone
  <2>4. /\ r.ok \in Nat
        /\ r.ok # 0 => MapsTo(blockTime, Len(blockTime), r.ok, cce.eebt) /\ r.ok \in walked
    BY <2>1, <2>2, <2>3, FoundIsMapped DEF r, walked
  <2>5. app \in Nat
    BY <2>1, <2>4, EpochTypes DEF app
  <2>6. /\ mapped.first = cce.first /\ mapped.last = cce.last /\ mapped.smart = r.ok
    BY <2>1 DEF mapped, EpochType
  <2>7. UpdateOK(serve.update) /\ serve.nextSearchTo \in Nat /\ crosschain \in SUBSET Nat
        /\ (serve.nextSearchTo = searchTo \/ serve.nextSearchTo \in history)
    BY <1>3, ServeUpdateOK
  <2>8. UpdateOK(update)
    <3>1. CASE r.ok = 0
      BY <2>7, <3>1 DEF update
    <3>2. CASE r.ok # 0
      <4>1. UpdateOK(Override(serve.update, [k \in {cce.last} |-> mapped]))
        <5>1. mapped = [cce EXCEPT !.smart = r.ok, !.app = app] /\ r.ok \in Nat \ {0}
          BY <2>4, <3>2 DEF mapped
        <5>2. QED
          BY <1>2, <1>3, <2>4, <2>5, <3>2, <5>1, MappedUpdateOK, ZenonT(60)
      <4>2. QED
        BY <3>2, <4>1, Zenon DEF update
    <3>3. QED
      BY <3>1, <3>2
  <2>9. nextSearchTo \in Nat /\ (nextSearchTo = searchTo \/ nextSearchTo \in history)
    BY <1>6, <2>4, <2>7 DEF nextSearchTo
  <2>10. reported \in SUBSET Nat
    BY <2>1, <2>7, Zenon DEF reported
  <2>11. r.ok = 0 => getEpoch(cce.first).nn # currHeight
    <3>1. SUFFICES ASSUME r.ok = 0 PROVE getEpoch(cce.first).nn # currHeight
      OBVIOUS
    <3>2. backStart - searchTo <= 0
      BY <1>6, <3>1 DEF searchBack
    <3>3. WalkedHeights(blockTime, backStart, backStart - searchTo, cce.eebt) \subseteq history
      BY <1>6 DEF walked, searchBack
    <3>4. QED
      BY <1>3, <3>2, <3>3, NothingToSearch DEF backStart
  <2>12. /\ mapped.smart \in Nat
         /\ mapped.smart # 0 => MapsTo(blockTime, Len(blockTime), mapped.smart, cce.eebt)
         /\ mapped.smart = 0 => getEpoch(cce.first).nn # currHeight
    BY <2>4, <2>6, <2>11
  <2>13. QED
    BY <1>3, <1>6, <2>6, <2>8, <2>9, <2>10, <2>12, SettleStep
<1>7. QED
  BY <1>2, <1>4, <1>5, <1>6

\* Serve writes one mapping back to the queue.
LEMMA FlushOneStep == ASSUME IInv, FlushOne PROVE IInv'
<1>1. PICK k \in DOMAIN serve.update :
          /\ db' = Override(db, [j \in {k} |-> serve.update[k]])
          /\ serve' = [iter |-> serve.iter, done |-> serve.done, nextSearchTo |-> serve.nextSearchTo,
                       update |-> [j \in DOMAIN serve.update \ {k} |-> serve.update[j]]]
  BY ZenonT(60) DEF FlushOne
<1>2. /\ pc = "flush"
      /\ UNCHANGED <<mainTime, blockTime, history, world, trunk, pc, searchTo, running,
                     doneFetch, mainHeight, crosschain, crashes>>
  BY ZenonT(60) DEF FlushOne
<1>3. /\ k \in DOMAIN db /\ k \in Nat /\ serve.update[k] \in EpochType
      /\ serve.update[k].first = db[k].first /\ serve.update[k].last = k
      /\ serve.update[k].eebt = db[k].eebt
      /\ MapsTo(blockTime, Len(blockTime), serve.update[k].smart, serve.update[k].eebt)
  BY DEF IInv, TypeOK, ServeInv
<1>4. /\ DOMAIN db' = DOMAIN db /\ db'[k] = serve.update[k]
      /\ \A j \in DOMAIN db : j # k => db'[j] = db[j]
  BY <1>1, <1>3, Zenon DEF Override
<1>5. /\ serve'.iter = serve.iter /\ serve'.done = serve.done
      /\ serve'.nextSearchTo = serve.nextSearchTo
      /\ DOMAIN serve'.update = DOMAIN serve.update \ {k}
      /\ \A j \in DOMAIN serve.update \ {k} : serve'.update[j] = serve.update[j]
  BY <1>1, Zenon
<1>6. TypeOK'
  <2>1. DOMAIN db' \subseteq Nat /\ \A j \in DOMAIN db' : db'[j] \in EpochType
    BY <1>3, <1>4, ZenonT(60) DEF IInv, TypeOK
  <2>2. /\ serve'.iter \in Nat /\ serve'.done \in Nat /\ serve'.nextSearchTo \in Nat
        /\ DOMAIN serve'.update \subseteq Nat
        /\ \A j \in DOMAIN serve'.update : serve'.update[j] \in EpochType
    BY <1>5 DEF IInv, TypeOK
  <2>3. QED
    BY <1>2, <2>1, <2>2, ZenonT(60) DEF IInv, TypeOK
<1>7. ChainInv' /\ SearchInv'
  BY <1>2, Zenon DEF IInv, ChainInv, SearchInv
<1>8. \A j \in DOMAIN db : /\ db'[j].first = db[j].first /\ db'[j].last = db[j].last
                            /\ db'[j].eebt = db[j].eebt
  <2>1. db[k].last = k
    BY <1>3, Zenon DEF IInv, QueueInv, QueueContiguous
  <2>2. QED
    BY <1>3, <1>4, <2>1, Zenon
<1>9. QueueInv'
  <2>1. QueueContiguous'
    BY <1>4, <1>8, ZenonT(60) DEF IInv, QueueInv, QueueContiguous
  <2>2. \A j \in DOMAIN db' :
            /\ j <= Len(mainTime)
            /\ db'[j].eebt \in {0, mainTime[j]}
            /\ db'[j].smart # 0 => MapsTo(blockTime, Len(blockTime), db'[j].smart, db'[j].eebt)
    BY <1>3, <1>4, <1>8, ZenonT(60) DEF IInv, QueueInv
  <2>3. QED
    BY <1>2, <2>1, <2>2, Zenon DEF QueueInv
<1>10. FetchInv'
  BY <1>2, <1>4, Zenon DEF IInv, FetchInv
<1>11. ServeInv'
  <2>1. \A j \in DOMAIN serve'.update :
            /\ j \in DOMAIN db'
            /\ db'[j].smart = 0 /\ serve'.update[j].smart # 0
            /\ serve'.update[j].first = db'[j].first /\ serve'.update[j].last = j
            /\ serve'.update[j].eebt = db'[j].eebt
            /\ MapsTo(blockTime', Len(blockTime'), serve'.update[j].smart, serve'.update[j].eebt)
    BY <1>2, <1>4, <1>5, ZenonT(60) DEF IInv, ServeInv
  <2>2. QED
    BY <1>2, <1>4, <1>5, <2>1, ZenonT(60) DEF IInv, ServeInv
<1>12. LedgerInv'
  <2>1. CreditsDue(world.ledger)' /\ CreditsDue(trunk.ledger)'
    BY <1>2, ZenonT(60) DEF IInv, LedgerInv, CreditsDue, DueHeights
  <2>2. QED
    BY <1>2, <1>4, <1>5, <2>1, Zenon DEF IInv, LedgerInv, LedgerContiguous, Contiguous
<1>13. QED
  BY <1>6, <1>7, <1>9, <1>10, <1>11, <1>12, Zenon DEF IInv
\* ProcessCCRPC ends with a search limit that is published, and the done epoch in the trunk.
LEMMA FinishCCRPCStep == ASSUME IInv, FinishCCRPC PROVE IInv'
<1>1. /\ pc = "flush" /\ pc' = "served" /\ searchTo' = serve.nextSearchTo /\ serve' = NoServe
      /\ trunk' = [trunk EXCEPT !.doneMain = IF serve.done > world.doneMain THEN serve.done ELSE @]
      /\ UNCHANGED <<mainTime, blockTime, db, history, world, running,
                     doneFetch, mainHeight, crosschain, crashes>>
  BY DEF FinishCCRPC
<1>2. /\ serve.done \in Nat /\ world.doneMain \in Nat /\ serve.done >= world.doneMain
      /\ serve.done \in DOMAIN db \cup {0} /\ trunk \in WorldType
      /\ trunk.doneMain = world.doneMain
  BY <1>1 DEF IInv, TypeOK, WorldType, ServeInv, LedgerInv
<1>3. /\ trunk'.doneMain = serve.done /\ trunk'.ledger = trunk.ledger
      /\ trunk'.height = trunk.height /\ trunk' \in WorldType
  <2>1. (IF serve.done > world.doneMain THEN serve.done ELSE trunk.doneMain) = serve.done
    BY <1>2
  <2>2. trunk' = [trunk EXCEPT !.doneMain = serve.done]
    BY <1>1, <2>1
  <2>3. QED
    BY <1>2, <2>2 DEF WorldType
<1>4. TypeOK'
  BY <1>1, <1>3, NoServeEmpty DEF IInv, TypeOK
<1>5. ChainInv' /\ FetchInv'
  BY <1>1 DEF IInv, ChainInv, FetchInv
<1>6. QueueInv'
  BY <1>1 DEF IInv, QueueInv, QueueContiguous
<1>7. ServeInv'
  BY <1>1, NoServeEmpty DEF ServeInv
<1>8. LedgerInv'
  <2>1. CreditsDue(world.ledger)' /\ CreditsDue(trunk.ledger)'
    BY <1>1, <1>3 DEF IInv, LedgerInv, CreditsDue, DueHeights
  <2>2. Contiguous(trunk'.ledger, trunk'.doneMain)
    BY <1>1, <1>3 DEF IInv, LedgerInv
  <2>3. LedgerContiguous'
    BY <1>1 DEF IInv, LedgerInv, LedgerContiguous, Contiguous
  <2>4. QED
    BY <1>1, <1>2, <1>3, <2>1, <2>2, <2>3, ZenonT(60) DEF IInv, LedgerInv, Contiguous
<1>9. SearchInv'
  <2>1. /\ serve.nextSearchTo \in Nat /\ world.height \in Nat /\ searchTo \in Nat
        /\ history \subseteq 1..(world.height - 1)
        /\ serve.nextSearchTo = searchTo \/ serve.nextSearchTo \in history
    BY <1>1 DEF IInv, TypeOK, WorldType, SearchInv, ServeInv
  <2>2. searchTo' # ForkBlock => searchTo' < world.height
    <3>1. CASE serve.nextSearchTo \in history
      BY <1>1, <2>1, <3>1
    <3>2. CASE serve.nextSearchTo = searchTo /\ searchTo # ForkBlock
      <4>1. PICK b \in history : b > searchTo
        BY <1>1, <3>2 DEF IInv, SearchInv
      <4>2. QED
        BY <1>1, <2>1, <3>2, <4>1
    <3>3. QED
      BY <1>1, <2>1, <3>1, <3>2
  <2>3. QED
    BY <1>1, <2>2 DEF IInv, SearchInv
<1>10. QED
  BY <1>4, <1>5, <1>6, <1>7, <1>8, <1>9 DEF IInv

\* The trunk becomes the world state.
LEMMA WriteWorldStep == ASSUME IInv, WriteWorld PROVE IInv'
<1>1. /\ pc = "served" /\ pc' = "written"
      /\ world' = [trunk EXCEPT !.height = currHeight] /\ trunk' = world'
      /\ UNCHANGED <<mainTime, blockTime, db, history, searchTo, running,
                     doneFetch, mainHeight, serve, crosschain, crashes>>
  BY DEF WriteWorld
<1>2. world.height \in Nat /\ trunk \in WorldType /\ currHeight = world.height + 1
  BY DEF IInv, TypeOK, WorldType, currHeight
<1>3. /\ world'.height = world.height + 1 /\ world' \in WorldType
      /\ world'.doneMain = trunk.doneMain /\ world'.ledger = trunk.ledger
  BY <1>1, <1>2, SMTT(40) DEF WorldType
<1>4. TypeOK'
  <2>1. history' \subseteq 1..world'.height
    BY <1>1, <1>2, <1>3 DEF IInv, TypeOK
  <2>2. QED
    BY <1>1, <1>3, <2>1 DEF IInv, TypeOK
<1>5. ChainInv'
  BY <1>1, <1>2, <1>3, SMTT(40) DEF IInv, ChainInv, TypeOK
<1>6. QueueInv' /\ FetchInv'
  BY <1>1 DEF IInv, QueueInv, QueueContiguous, FetchInv
<1>7. ServeInv'
  BY <1>1 DEF IInv, ServeInv
<1>8. LedgerInv'
  <2>1. CreditsDue(world.ledger)' /\ CreditsDue(trunk.ledger)'
    BY <1>1, <1>3, SMTT(40) DEF IInv, LedgerInv, CreditsDue, DueHeights
  <2>2. LedgerContiguous'
    BY <1>1, <1>3 DEF IInv, LedgerInv, LedgerContiguous, Contiguous
  <2>3. QED
    BY <1>1, <1>3, <2>1, <2>2, ZenonT(60) DEF IInv, LedgerInv
<1>9. SearchInv'
  <2>1. history \subseteq 1..(world.height - 1) /\ searchTo \in Nat
    BY DEF IInv, TypeOK, SearchInv
  <2>2. history' \subseteq 1..(world'.height - 1)
    BY <1>1, <1>2, <1>3, <2>1
  <2>3. searchTo' # ForkBlock => searchTo' < world'.height - 1
    BY <1>1, <1>2, <1>3, <2>1 DEF IInv, SearchInv
  <2>4. (\A b \in history : b <= ForkBlock) =>
           world'.height + 0 <= ForkBlock + 2 + (IF TornCommit THEN crashes' ELSE 0)
    BY <1>1, <1>2, <1>3, SMTT(40) DEF IInv, SearchInv
  <2>5. QED
    BY <1>1, <2>2, <2>3, <2>4, ZenonT(60) DEF IInv, SearchInv
<1>10. QED
  BY <1>4, <1>5, <1>6, <1>7, <1>8, <1>9 DEF IInv

\* The block before the committed one is published, which puts the top of the history store above
\* the search limit.
LEMMA PublishPrevStep == ASSUME IInv, PublishPrev PROVE IInv'
<1>1. /\ pc = "written" /\ pc' = "idle"
      /\ history' = history \cup (IF world.height > 1 THEN {world.height - 1} ELSE {})
      /\ UNCHANGED <<mainTime, blockTime, db, world, trunk, searchTo, running,
                     doneFetch, mainHeight, serve, crosschain, crashes>>
  BY DEF PublishPrev
<1>2. world.height \in Nat /\ searchTo \in Nat /\ ForkBlock \in Nat /\ crashes \in Nat
  BY EpochsAssumption DEF IInv, TypeOK, WorldType
<1>3. history' \subseteq 1..(world.height - 1)
  <2>1. history \subseteq 1..(world.height - 1)
    BY DEF IInv, SearchInv
  <2>2. world.height > 1 => world.height - 1 \in 1..(world.height - 1)
    BY <1>2, SMTT(40)
  <2>3. QED
    BY <1>1, <2>1, <2>2, Zenon
<1>4. TypeOK'
  <2>1. history' \subseteq 1..world'.height
    BY <1>1, <1>2, <1>3, SMTT(40)
  <2>2. QED
    BY <1>1, <2>1 DEF IInv, TypeOK
<1>5. ChainInv' /\ FetchInv'
  BY <1>1, ZenonT(60) DEF IInv, ChainInv, FetchInv
<1>6. QueueInv'
  BY <1>1, ZenonT(60) DEF IInv, QueueInv, QueueContiguous
<1>7. ServeInv'
  BY <1>1, ZenonT(60) DEF IInv, ServeInv
<1>8. LedgerInv'
  <2>1. CreditsDue(world.ledger)' /\ CreditsDue(trunk.ledger)'
    BY <1>1, ZenonT(60) DEF IInv, LedgerInv, CreditsDue, DueHeights
  <2>2. QED
    BY <1>1, <2>1, ZenonT(60) DEF IInv, LedgerInv, LedgerContiguous, Contiguous
<1>9. SearchInv'
  <2>1. searchTo' # ForkBlock => \E b \in history' : b > searchTo'
    <3>1. SUFFICES ASSUME searchTo # ForkBlock PROVE \E b \in history' : b > searchTo
      BY <1>1
    <3>2. searchTo < world.height - 1
      BY <1>1, <3>1 DEF IInv, SearchInv
    <3>3. world.height - 1 \in history'
      BY <1>1, <1>2, <3>2
    <3>4. QED
      BY <1>2, <3>2, <3>3
  <2>2. (\A b \in history' : b <= ForkBlock) =>
           world.height + 1 <= ForkBlock + 2 + (IF TornCommit THEN crashes ELSE 0)
    <3>1. SUFFICES ASSUME \A b \in history' : b <= ForkBlock
                   PROVE world.height + 1 <= ForkBlock + 2 + (IF TornCommit THEN crashes ELSE 0)
      OBVIOUS
    <3>2. CASE world.height > 1
      <4>1. world.height - 1 <= ForkBlock
        BY <1>1, <3>1, <3>2
      <4>2. QED
        BY <1>2, <4>1
    <3>3. CASE world.height <= 1
      BY <1>2, <3>3
    <3>4. QED
      BY <1>2, <3>2, <3>3
  <2>3. QED
    BY <1>1, <1>3, <2>1, <2>2 DEF IInv, SearchInv
<1>10. QED
  BY <1>4, <1>5, <1>6, <1>7, <1>8, <1>9 DEF IInv
\* A stuttering step changes nothing the invariant speaks of.
LEMMA StutterStep == ASSUME IInv, UNCHANGED vars PROVE IInv'
<1>1. UNCHANGED <<mainTime, blockTime, db, history, world, trunk, pc, searchTo, running,
                  doneFetch, mainHeight, serve, crosschain, crashes>>
  BY Zenon DEF vars
<1>2. TypeOK' /\ ChainInv' /\ SearchInv' /\ FetchInv'
  BY <1>1, ZenonT(60) DEF IInv, TypeOK, ChainInv, SearchInv, FetchInv
<1>3. QueueInv' /\ ServeInv'
  BY <1>1, ZenonT(60) DEF IInv, QueueInv, QueueContiguous, ServeInv
<1>4. LedgerInv'
  BY <1>1, LedgerFrame DEF IInv
<1>5. QED
  BY <1>2, <1>3, <1>4 DEF IInv

\* Every step of the two chains, the fetcher and the node preserves the inductive invariant.
LEMMA NextStep == IInv /\ [Next]_vars => IInv'
<1>1. SUFFICES ASSUME IInv, Next PROVE IInv'
  BY StutterStep
<1>2. CASE \E t \in 0..MaxTime : MineMain(t)
  BY <1>1, <1>2, MineMainStep, BoundsAssumption
<1>3. CASE \E t \in 0..MaxTime : BeginBlock(t)
  BY <1>1, <1>3, BeginBlockStep, BoundsAssumption
<1>4. CASE Node
  BY <1>1, <1>4, SkipCCRPCStep, ProcessCCRPCStep, ServeStep, ServeTooEarlyStep, ServeMappedStep,
     ServeSearchStep, ServeExhaustedStep, FlushOneStep, FinishCCRPCStep, WriteWorldStep,
     PublishPrevStep DEF Node
<1>5. CASE Fetcher
  BY <1>1, <1>5, FetcherPollStep, FetcherFetchStep, FetcherFailStep DEF Fetcher
<1>6. CASE Crash \/ Restart
  BY <1>1, <1>6, CrashStep, RestartStep
<1>7. QED
  BY <1>1, <1>2, <1>3, <1>4, <1>5, <1>6 DEF Next

\* The inductive invariant holds for every epoch table, every fork block, every delay that the
\* assumptions admit, any number of blocks and any number of crashes.
THEOREM Inductive == Spec => []IInv
  BY InitIInv, NextStep, PTL DEF Spec

\* Every variable keeps its type; between blocks nothing of a half-served block is left in memory.
THEOREM TypeCorrect == Spec => []TypeOK
<1>1. IInv => TypeOK
  BY Zenon DEF IInv
<1>2. QED
  BY <1>1, Inductive, PTL

\* Every committed credit was made nn blocks after the first block that is not older than the
\* epoch's last main block: ProcessCCRPC is deterministic given the two chains.
THEOREM CreditsAtMapping == Spec => []AppliedAtMapping
<1>1. ASSUME IInv PROVE AppliedAtMapping
  <2>1. mainTime \in Seq(Nat) /\ CreditsDue(world.ledger)
    BY <1>1, ZenonT(60) DEF IInv, TypeOK, LedgerInv
  <2>2. ASSUME NEW i \in DOMAIN world.ledger
        PROVE  /\ world.ledger[i].last <= Len(mainTime)
               /\ world.ledger[i].at \in DueHeights(world.ledger[i].first, world.ledger[i].last)
    BY <2>1, SMTT(40) DEF CreditsDue
  <2>3. QED
    BY <2>2, ZenonT(60) DEF AppliedAtMapping
<1>2. QED
  BY <1>1, Inductive, PTL

\* Epochs are credited once each, in order and without a gap, across crashes and replays.
THEOREM CreditsContiguous == Spec => []LedgerContiguous
<1>1. IInv => LedgerContiguous
  BY DEF IInv, LedgerInv
<1>2. QED
  BY <1>1, Inductive, PTL

\* The queue that the fetcher fills holds consecutive epochs without gap or overlap.
THEOREM FetchedContiguous == Spec => []QueueContiguous
<1>1. IInv => QueueContiguous
  BY DEF IInv, QueueInv
<1>2. QED
  BY <1>1, Inductive, PTL

\* Queue and ledger are stretches of the main chain, through crashes, replays and restarts.
THEOREM EpochsStayInOrder == Spec => []EpochsInOrder
BY CreditsContiguous, FetchedContiguous, PTL DEF EpochsInOrder

\* What one step may do to the queue.
QueueKept ==
    \A k \in DOMAIN db :
        /\ k \in DOMAIN db'
        /\ db[k].smart # 0 => db'[k] = db[k]

\* Only a fetch, which adds a key, and a flush, which fills in a height that was 0, write the queue.
LEMMA QueueKeptStep == ASSUME IInv, [Next]_vars PROVE QueueKept
<1>1. CASE UNCHANGED db
  BY <1>1, Zenon DEF QueueKept
<1>2. CASE FetcherFetch
  BY <1>2, FetchAppends, Zenon DEF QueueKept
<1>3. CASE FlushOne
  <2>1. PICK k \in DOMAIN serve.update : db' = Override(db, [j \in {k} |-> serve.update[k]])
    BY <1>3, Zenon DEF FlushOne
  <2>2. k \in DOMAIN db /\ db[k].smart = 0
    BY ZenonT(60) DEF IInv, ServeInv
  <2>3. DOMAIN db' = DOMAIN db /\ \A j \in DOMAIN db : j # k => db'[j] = db[j]
    BY <2>1, <2>2 DEF Override
  <2>4. QED
    BY <2>2, <2>3, Zenon DEF QueueKept
<1>4. UNCHANGED db \/ FetcherFetch \/ FlushOne
  <2>1. CASE UNCHANGED vars
    BY <2>1 DEF vars
  <2>2. CASE \E t \in 0..MaxTime : MineMain(t) \/ BeginBlock(t)
    BY <2>2 DEF MineMain, BeginBlock, Panic
  <2>3. CASE Crash \/ Restart \/ FetcherPoll \/ FetcherFail
    BY <2>3, ZenonT(60) DEF Crash, Restart, FetcherPoll, FetcherFail
  <2>4. CASE SkipCCRPC \/ ProcessCCRPC \/ Serve \/ ServeTooEarly \/ ServeExhausted
    BY <2>4 DEF SkipCCRPC, ProcessCCRPC, Serve, ServeTooEarly, ServeExhausted
  <2>5. ASSUME NEW m, NEW u, NEW n, NEW c, Settle(m, u, n, c) PROVE UNCHANGED db
    BY <2>5 DEF Settle, Panic
  <2>6. CASE ServeMapped \/ ServeSearch
    <3>1. CASE ServeMapped
      BY <2>5, <3>1, Zenon DEF ServeMapped
    <3>2. ASSUME NEW cce, NEW backStart, NEW r, SearchOne(cce, backStart, r) PROVE UNCHANGED db
      <4>1. CASE Panic
        BY <4>1 DEF Panic
      <4>2. CASE UNCHANGED <<mainTime, blockTime, db, history, world, searchTo, running,
                             doneFetch, mainHeight, serve, crosschain, crashes>>
        BY <4>2
      <4>3. QED
        BY <2>5, <3>2, <4>1, <4>2, Zenon DEF SearchOne
    <3>3. QED
      BY <2>6, <3>1, <3>2, Zenon DEF ServeSearch
  <2>7. CASE FinishCCRPC \/ WriteWorld \/ PublishPrev
    BY <2>7 DEF FinishCCRPC, WriteWorld, PublishPrev
  <2>8. QED
    BY <2>1, <2>2, <2>3, <2>4, <2>6, <2>7, Zenon DEF Next, Node, Fetcher
<1>5. QED
  BY <1>1, <1>2, <1>3, <1>4

\* A stored EEBTSmartHeight never changes and no epoch leaves the queue.
THEOREM MappingFinal == Spec => MappingStable
<1>1. IInv /\ [Next]_vars => [QueueKept]_vars
  BY QueueKeptStep
<1>2. [][QueueKept]_vars => MappingStable
  BY PTL DEF QueueKept, MappingStable
<1>3. QED
  BY <1>1, <1>2, Inductive, PTL DEF Spec
=============================================================================
