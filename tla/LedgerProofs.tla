---------------------------- MODULE LedgerProofs ----------------------------
(***************************************************************************)
(* What the operators of Ledger do to a world state, for every set of      *)
(* transactions and every capacity of the engine: the lemmas on which the  *)
(* proofs about the block life cycle rest.                                 *)
(***************************************************************************)
EXTENDS App, TLAPS

LEMMA RangeOfQueue == ASSUME NEW s \in Seq(Txs) PROVE Range(s) \in SUBSET Txs
BY SMTT(30) DEF Range

\* The two parts into which Execute splits the queue.
LEMMA SplitQueue ==
    ASSUME NEW q \in Seq(Txs), NEW n \in 0..Len(q),
           \A i, j \in DOMAIN q : q[i] = q[j] => i = j
    PROVE  LET head == SubSeq(q, 1, n)
               rest == SubSeq(q, n + 1, Len(q))
           IN  /\ head \in Seq(Txs) /\ rest \in Seq(Txs)
               /\ Range(head) \cup Range(rest) = Range(q)
               /\ Range(head) \cap Range(rest) = {}
               /\ \A i, j \in DOMAIN rest : rest[i] = rest[j] => i = j
<1> DEFINE head == SubSeq(q, 1, n)
           rest == SubSeq(q, n + 1, Len(q))
<1>1. /\ head \in Seq(Txs) /\ Len(head) = n
      /\ \A i \in 1..n : head[i] = q[i]
  OBVIOUS
<1>2. /\ rest \in Seq(Txs) /\ Len(rest) = Len(q) - n
      /\ \A i \in 1..(Len(q) - n) : rest[i] = q[n + i]
  OBVIOUS
<1> DOMAIN q = 1..Len(q) /\ DOMAIN head = 1..n /\ DOMAIN rest = 1..(Len(q) - n)
  BY <1>1, <1>2
<1> HIDE DEF head, rest
<1> \A i \in 1..(Len(q) - n) : n + i \in 1..Len(q)
  OBVIOUS
<1>3. Range(head) \cap Range(rest) = {}
  <2>1. SUFFICES ASSUME NEW i \in 1..n, NEW j \in 1..(Len(q) - n), head[i] = rest[j]
                 PROVE  FALSE
    BY Zenon DEF Range
  <2>2. i \in 1..Len(q) /\ i # n + j
    OBVIOUS
  <2>3. q[i] = q[n + j]
    BY <1>1, <1>2, <2>1
  <2>4. QED
    BY <2>2, <2>3
<1>4. Range(head) \cup Range(rest) = Range(q)
  <2>0. \A i \in 1..n : i \in 1..Len(q)
    OBVIOUS
  <2>1. Range(head) \subseteq Range(q) /\ Range(rest) \subseteq Range(q)
    <3>1. \A i \in DOMAIN head : head[i] \in Range(q)
      BY <1>1, <2>0 DEF Range
    <3>2. \A i \in DOMAIN rest : rest[i] \in Range(q)
      <4>1. SUFFICES ASSUME NEW i \in 1..(Len(q) - n) PROVE rest[i] \in Range(q)
        OBVIOUS
      <4>2. n + i \in DOMAIN q /\ rest[i] = q[n + i]
        BY <1>2
      <4>3. QED
        BY <4>2, Zenon DEF Range
    <3>3. QED
      BY <3>1, <3>2, Zenon DEF Range
  <2>2. ASSUME NEW i \in 1..Len(q) PROVE q[i] \in Range(head) \cup Range(rest)
    <3>1. CASE i <= n
      BY <3>1, <1>1 DEF Range
    <3>2. CASE i > n
      <4>1. i - n \in 1..(Len(q) - n) /\ rest[i - n] = q[i]
        BY <3>2, <1>2
      <4>2. QED
        BY <4>1 DEF Range
    <3>3. QED
      BY <3>1, <3>2
  <2>3. QED
    BY <2>1, <2>2, ZenonT(30) DEF Range
<1>5. \A i, j \in DOMAIN rest : rest[i] = rest[j] => i = j
  <2>1. SUFFICES ASSUME NEW i \in 1..(Len(q) - n), NEW j \in 1..(Len(q) - n), rest[i] = rest[j]
                 PROVE  i = j
    OBVIOUS
  <2>2. q[n + i] = q[n + j]
    BY <1>2, <2>1
  <2>3. n + i = n + j
    BY <2>2
  <2>4. QED
    BY <2>3
<1>6. QED
  BY <1>1, <1>2, <1>3, <1>4, <1>5, ZenonT(30) DEF head, rest

\* Appending keeps what is there.
LEMMA AppendKeeps ==
    ASSUME NEW D, NEW s \in Seq(D), NEW x \in D
    PROVE  /\ Append(s, x) \in Seq(D) /\ Len(Append(s, x)) = Len(s) + 1
           /\ Append(s, x)[Len(s) + 1] = x
           /\ \A i \in DOMAIN s : i \in DOMAIN Append(s, x) /\ Append(s, x)[i] = s[i]
OBVIOUS

\* Queueing new transactions behind the old ones.
LEMMA JoinQueue ==
    ASSUME NEW q \in Seq(Txs), NEW r \in Seq(Txs), Range(q) \cap Range(r) = {},
           \A i, j \in DOMAIN q : q[i] = q[j] => i = j,
           \A i, j \in DOMAIN r : r[i] = r[j] => i = j
    PROVE  /\ q \o r \in Seq(Txs)
           /\ Range(q \o r) = Range(q) \cup Range(r)
           /\ \A i, j \in DOMAIN (q \o r) : (q \o r)[i] = (q \o r)[j] => i = j
<1> DEFINE s == q \o r
<1>1. /\ s \in Seq(Txs) /\ Len(s) = Len(q) + Len(r)
      /\ \A i \in 1..Len(q) : s[i] = q[i]
      /\ \A i \in 1..Len(r) : s[Len(q) + i] = r[i]
  OBVIOUS
<1> DOMAIN q = 1..Len(q) /\ DOMAIN r = 1..Len(r) /\ DOMAIN s = 1..Len(s)
  BY <1>1
<1>2. \A i \in 1..Len(s) : \/ i \in 1..Len(q) /\ s[i] = q[i]
                           \/ i - Len(q) \in 1..Len(r) /\ s[i] = r[i - Len(q)]
  BY <1>1
<1> HIDE DEF s
<1>3. Range(s) \subseteq Range(q) \cup Range(r)
  <2>1. \A i \in DOMAIN s : s[i] \in Range(q) \cup Range(r)
    <3>1. SUFFICES ASSUME NEW i \in 1..Len(s) PROVE s[i] \in Range(q) \cup Range(r)
      OBVIOUS
    <3>2. \/ i \in DOMAIN q /\ s[i] = q[i]
          \/ i - Len(q) \in DOMAIN r /\ s[i] = r[i - Len(q)]
      BY <1>2
    <3>3. QED
      BY <3>2, Zenon DEF Range
  <2>2. QED
    BY <2>1, Zenon DEF Range
<1>4. Range(q) \subseteq Range(s)
  BY <1>1 DEF Range
<1>5. Range(r) \subseteq Range(s)
  <2>1. \A i \in 1..Len(r) : Len(q) + i \in 1..Len(s)
    BY <1>1
  <2>2. \A i \in DOMAIN r : r[i] \in Range(s)
    <3>1. SUFFICES ASSUME NEW i \in 1..Len(r) PROVE r[i] \in Range(s)
      OBVIOUS
    <3>2. Len(q) + i \in DOMAIN s /\ r[i] = s[Len(q) + i]
      BY <1>1, <2>1
    <3>3. QED
      BY <3>2, Zenon DEF Range
  <2>3. QED
    BY <2>2 DEF Range
<1>6. ASSUME NEW i \in 1..Len(s), NEW j \in 1..Len(s), s[i] = s[j] PROVE i = j
  <2>1. \A k \in 1..Len(q), m \in 1..Len(r) : q[k] # r[m]
    BY DEF Range
  <2>2. CASE i \in 1..Len(q) /\ s[i] = q[i]
    <3>1. j \in 1..Len(q) /\ s[j] = q[j]
      BY <1>2, <1>6, <2>1, <2>2, ZenonT(30)
    <3>2. QED
      BY <1>6, <2>2, <3>1, ZenonT(30)
  <2>3. CASE i - Len(q) \in 1..Len(r) /\ s[i] = r[i - Len(q)]
    <3>1. j - Len(q) \in 1..Len(r) /\ s[j] = r[j - Len(q)]
      BY <1>2, <1>6, <2>1, <2>3, ZenonT(30)
    <3>2. i - Len(q) = j - Len(q)
      BY <1>6, <2>3, <3>1, ZenonT(30)
    <3>3. QED
      BY <3>2
  <2>4. QED
    BY <1>2, <2>2, <2>3
<1>7. QED
  BY <1>1, <1>3, <1>4, <1>5, <1>6 DEF s

----------------------------------------------------------------------------
\* What the operators of Ledger do to the fields of a world state.
LEMMA ExecuteFields ==
    ASSUME NEW l \in LedgerType
    PROVE  /\ runLen(l) \in 0..Len(l.standby)
           /\ running(l) \in Seq(Txs)
           /\ Range(running(l)) \in SUBSET Txs
           /\ GasUsedInfo(l) \in GasType
           /\ Execute(l) \in LedgerType
           /\ Execute(l).height = l.height /\ Execute(l).miner = l.miner
           /\ Execute(l).seen = l.seen /\ Execute(l).minted = l.minted
           /\ Execute(l).lastGP = l.lastGP /\ Execute(l).rewards = l.rewards
           /\ Execute(l).staking = l.staking
           /\ Execute(l).standby = SubSeq(l.standby, runLen(l) + 1, Len(l.standby))
           /\ Execute(l).users = l.users + Refund(Range(running(l))) - Gift(Range(running(l)))
           /\ Execute(l).sys = l.sys + Gift(Range(running(l)))
           /\ Execute(l).done = Append(l.done, running(l))
<1>1. l.standby \in Seq(Txs) /\ l.users \in Int /\ l.sys \in Int /\ l.gp \in Prices /\ l.done \in Seq(Seq(Txs))
  BY DEF LedgerType
<1>2. runLen(l) \in 0..Len(l.standby)
  BY <1>1, LedgerAssumption DEF runLen
<1>3. running(l) \in Seq(Txs)
  BY <1>1, <1>2 DEF running
<1>4. Range(running(l)) \in SUBSET Txs
  BY <1>3 DEF Range
<1> DEFINE S == Range(running(l))
<1>5. Prepaid(S) \in Nat /\ GasFee(S) \in Nat /\ Gift(S) \in Nat /\ Refund(S) \in Nat /\ NewPrice(l.gp, S) \in Prices
  BY <1>1, <1>4, GasAssumption DEF Refund
<1>6. GasUsedInfo(l) \in GasType
  BY <1>3, <1>5 DEF GasUsedInfo, GasType
<1>7. /\ SubSeq(l.standby, runLen(l) + 1, Len(l.standby)) \in Seq(Txs)
      /\ Append(l.done, running(l)) \in Seq(Seq(Txs))
  BY <1>1, <1>2, <1>3
<1> HIDE DEF S
<1>8. Execute(l) \in LedgerType
  <2>1. l.users + Refund(S) - Gift(S) \in Int /\ l.sys + Gift(S) \in Int
    BY <1>1, <1>5
  <2>2. QED
    BY <1>5, <1>7, <2>1, Zenon DEF Execute, LedgerType, S
<1>9. QED
  BY <1>2, <1>3, <1>4, <1>6, <1>8, ZenonT(30) DEF Execute, LedgerType
LEMMA ProcessCCRPCFields ==
    ASSUME NEW l \in LedgerType, NEW h \in 1..MaxHeight
    PROVE  /\ ProcessCCRPC(l, h) \in LedgerType
           /\ ProcessCCRPC(l, h).users = l.users + Credited[h]
           /\ ProcessCCRPC(l, h).minted = l.minted + Credited[h]
           /\ ProcessCCRPC(l, h).height = l.height /\ ProcessCCRPC(l, h).miner = l.miner
           /\ ProcessCCRPC(l, h).standby = l.standby /\ ProcessCCRPC(l, h).seen = l.seen
           /\ ProcessCCRPC(l, h).sys = l.sys /\ ProcessCCRPC(l, h).staking = l.staking
           /\ ProcessCCRPC(l, h).gp = l.gp /\ ProcessCCRPC(l, h).done = l.done
           /\ Credited[h] \in Nat
<1>1. Credited[h] \in Nat /\ l.users \in Int /\ l.minted \in Nat
  BY LedgerAssumption DEF LedgerType
<1>2. l.users + Credited[h] \in Int /\ l.minted + Credited[h] \in Nat
  BY <1>1
<1>3. QED
  BY <1>1, <1>2, Zenon DEF ProcessCCRPC, LedgerType

LEMMA RewardFields ==
    ASSUME NEW l \in LedgerType, NEW g \in GasType, NEW c \in Validators,
           NEW p \in Validators \cup {NoValidator}, NEW v \in SUBSET Validators, NEW e \in SUBSET Validators
    PROVE  LET s == updateValidatorsAndStakingInfo(l, g, c, p, v, e)
           IN  /\ s \in LedgerType
               /\ blockReward(l, g) \in Int
               /\ s.height = l.height /\ s.miner = l.miner /\ s.standby = l.standby
               /\ s.seen = l.seen /\ s.users = l.users /\ s.minted = l.minted
               /\ s.gp = l.gp /\ s.lastGP = l.lastGP /\ s.done = l.done
               /\ s.sys = l.sys - g.refund - blockReward(l, g)
               /\ s.staking = l.staking + blockReward(l, g)
<1> DEFINE r == [collector |-> c, proposer |-> p, voters |-> v, slashed |-> e, amount |-> blockReward(l, g)]
           sys == l.sys - g.refund - blockReward(l, g)
           m == [l EXCEPT !.sys = sys]
<1>1. l.sys \in Int /\ l.staking \in Int /\ g.refund \in Int /\ g.fee \in Int /\ l.rewards \in Seq(RewardType)
  BY DEF LedgerType, GasType
<1>2. blockReward(l, g) \in Int
  BY <1>1 DEF blockReward
<1>3. sys \in Int /\ l.staking + blockReward(l, g) \in Int
  BY <1>1, <1>2
<1>4. Append(l.rewards, r) \in Seq(RewardType)
  BY <1>1, <1>2 DEF RewardType
<1> HIDE DEF r, sys
<1>5. /\ m \in LedgerType /\ m.staking = l.staking /\ m.rewards = l.rewards /\ m.sys = sys
      /\ m.height = l.height /\ m.miner = l.miner /\ m.standby = l.standby
      /\ m.seen = l.seen /\ m.users = l.users /\ m.minted = l.minted
      /\ m.gp = l.gp /\ m.lastGP = l.lastGP /\ m.done = l.done
  BY <1>3, Zenon DEF LedgerType
<1> HIDE DEF m
<1>6. updateValidatorsAndStakingInfo(l, g, c, p, v, e) =
        [m EXCEPT !.staking = l.staking + blockReward(l, g), !.rewards = Append(l.rewards, r)]
  BY <1>5, Zenon DEF updateValidatorsAndStakingInfo, getBlockRewardAndUpdateSysAcc, SlashAndReward, m, sys, r
<1> DEFINE s == [m EXCEPT !.staking = l.staking + blockReward(l, g), !.rewards = Append(l.rewards, r)]
<1>7. s \in LedgerType
  BY <1>3, <1>4, <1>5, Zenon DEF LedgerType
<1>8. /\ s.height = m.height /\ s.miner = m.miner /\ s.standby = m.standby
      /\ s.seen = m.seen /\ s.users = m.users /\ s.minted = m.minted
      /\ s.gp = m.gp /\ s.lastGP = m.lastGP /\ s.done = m.done
      /\ s.sys = m.sys /\ s.staking = l.staking + blockReward(l, g)
  BY <1>5, Zenon DEF LedgerType
<1> HIDE DEF s
<1>9. QED
  BY <1>2, <1>5, <1>6, <1>7, <1>8, Zenon DEF s, sys

LEMMA PrepareFields ==
    ASSUME NEW l \in LedgerType, NEW c \in SUBSET Txs, NEW seed \in Seeds
    PROVE  /\ c \ l.seen \in SUBSET Txs
           /\ Prepare(l, c, seed) \in LedgerType
           /\ Prepare(l, c, seed).height = l.height /\ Prepare(l, c, seed).minted = l.minted
           /\ Prepare(l, c, seed).done = l.done /\ Prepare(l, c, seed).gp = l.gp
           /\ Prepare(l, c, seed).staking = l.staking
           /\ Prepare(l, c, seed).standby = l.standby \o Order(seed, c \ l.seen)
           /\ Prepare(l, c, seed).users = l.users - Prepaid(c \ l.seen)
           /\ Prepare(l, c, seed).sys = l.sys + Prepaid(c \ l.seen)
<1> DEFINE a == c \ l.seen
<1>1. l.standby \in Seq(Txs) /\ l.users \in Int /\ l.sys \in Int /\ l.seen \in SUBSET Txs
  BY DEF LedgerType
<1>2. a \in SUBSET Txs
  OBVIOUS
<1>3. Order(seed, a) \in Seq(a) /\ Prepaid(a) \in Nat
  BY <1>2, OrderAssumption, GasAssumption
<1> HIDE DEF a
<1>4. Order(seed, a) \in Seq(Txs)
  BY <1>2, <1>3
<1>5. /\ l.standby \o Order(seed, a) \in Seq(Txs) /\ l.seen \cup a \in SUBSET Txs
      /\ l.users - Prepaid(a) \in Int /\ l.sys + Prepaid(a) \in Int
  BY <1>1, <1>2, <1>3, <1>4
<1>6. Prepare(l, c, seed) = [l EXCEPT !.standby = l.standby \o Order(seed, a), !.seen = l.seen \cup a,
                                     !.users = l.users - Prepaid(a), !.sys = l.sys + Prepaid(a)]
  BY Zenon DEF Prepare, a
<1> DEFINE s == [l EXCEPT !.standby = l.standby \o Order(seed, a), !.seen = l.seen \cup a,
                         !.users = l.users - Prepaid(a), !.sys = l.sys + Prepaid(a)]
<1>7. s \in LedgerType
  BY <1>5, Zenon DEF LedgerType
<1>8. /\ s.height = l.height /\ s.minted = l.minted /\ s.done = l.done /\ s.gp = l.gp
      /\ s.staking = l.staking /\ s.standby = l.standby \o Order(seed, a) /\ s.seen = l.seen \cup a
      /\ s.users = l.users - Prepaid(a) /\ s.sys = l.sys + Prepaid(a)
  BY Zenon DEF LedgerType
<1> HIDE DEF s
<1>9. QED
  BY <1>2, <1>6, <1>7, <1>8, Zenon DEF s, a

LEMMA PrepareSeen ==
    ASSUME NEW l \in LedgerType, NEW c \in SUBSET Txs, NEW seed \in Seeds
    PROVE  l.seen \subseteq Prepare(l, c, seed).seen /\ c \ l.seen \subseteq Prepare(l, c, seed).seen
<1>1. Prepare(l, c, seed).seen = l.seen \cup (c \ l.seen)
  BY DEF Prepare, LedgerType
<1>2. QED
  BY <1>1

LEMMA SetCurrBlockFields ==
    ASSUME NEW l \in LedgerType, NEW h \in 0..MaxHeight, NEW m \in Validators
    PROVE  LET s == SetCurrBlock(l, h, m)
           IN  /\ s \in LedgerType
               /\ s.height = h /\ s.miner = m /\ s.standby = l.standby /\ s.seen = l.seen
               /\ s.users = l.users /\ s.sys = l.sys /\ s.staking = l.staking
               /\ s.minted = l.minted /\ s.done = l.done /\ s.lastGP = l.gp
BY Zenon DEF SetCurrBlock, LedgerType

----------------------------------------------------------------------------
LEMMA GenesisNat == GenesisCoins \in Nat
BY LedgerAssumption

\* The money.  An execution leaves the system account with the prepaid gas of what is still queued,
\* and with the refunds and the fee of what was run.
LEMMA ExecuteOwes ==
    ASSUME NEW l \in LedgerType, Sound(l)
    PROVE  Owing(Execute(l), GasUsedInfo(l))
<1> DEFINE q == l.standby
           n == runLen(l)
           rest == SubSeq(q, n + 1, Len(q))
           S == Range(running(l))
           T == Range(rest)
<1>1. q \in Seq(Txs) /\ l.users \in Int /\ l.sys \in Int /\ l.staking \in Int /\ l.minted \in Nat
  BY DEF LedgerType
<1>2. n \in 0..Len(q) /\ \A i, j \in DOMAIN q : q[i] = q[j] => i = j
  BY ExecuteFields DEF Sound
<1>3. /\ rest \in Seq(Txs) /\ S \cup T = Range(q) /\ S \cap T = {}
      /\ \A i, j \in DOMAIN rest : rest[i] = rest[j] => i = j
  <2> HIDE DEF n
  <2>1. QED
    BY <1>1, <1>2, SplitQueue, Zenon DEF running, n
<1>4. S \in SUBSET Txs /\ T \in SUBSET Txs
  <2> HIDE DEF rest
  <2>1. QED
    BY <1>3, ExecuteFields, RangeOfQueue, Zenon
<1>5. /\ Prepaid(S) \in Nat /\ GasFee(S) \in Nat /\ GasFee(S) <= Prepaid(S) /\ Gift(S) \in Nat
      /\ Prepaid(T) \in Nat /\ Prepaid(Range(q)) = Prepaid(S) + Prepaid(T)
  <2>1. Prepaid(S \cup T) = Prepaid(S) + Prepaid(T)
    BY <1>3, <1>4, GasAssumption, Zenon
  <2>2. QED
    BY <1>3, <1>4, <2>1, GasAssumption, ZenonT(30)
<1> DEFINE e == Execute(l)
           g == GasUsedInfo(l)
<1>6. /\ e.standby = rest /\ e.seen = l.seen /\ e.minted = l.minted /\ e.staking = l.staking
      /\ e.users = l.users + Refund(S) - Gift(S) /\ e.sys = l.sys + Gift(S)
  BY ExecuteFields, Zenon
<1>7. g.refund = Prepaid(S) - GasFee(S) /\ g.fee = GasFee(S) /\ Refund(S) = Prepaid(S) - GasFee(S)
  BY DEF GasUsedInfo, Refund
<1> HIDE DEF q, n, rest, S, T, e, g
<1>8. Range(e.standby) \subseteq e.seen
  BY <1>3, <1>6, Zenon DEF Sound, T, q
<1>9. \A i, j \in DOMAIN e.standby : e.standby[i] = e.standby[j] => i = j
  BY <1>3, <1>6, Zenon
<1>10. g.refund \in Nat /\ g.fee \in Nat
  BY <1>5, <1>7
<1>11. Prepaid(Range(e.standby)) + g.refund + g.fee <= e.sys
  <2>1. Prepaid(Range(q)) <= l.sys /\ Range(e.standby) = T
    BY <1>6, Zenon DEF Sound, q, T
  <2>2. QED
    BY <1>1, <1>5, <1>6, <1>7, <2>1
<1>12. Coins(e) = GenesisCoins + e.minted + g.refund
  <2>1. l.users + l.sys + l.staking = GenesisCoins + l.minted
    BY DEF Sound, Coins
  <2>2. QED
    BY <1>1, <1>5, <1>6, <1>7, <2>1, GenesisNat, SMTT(30) DEF Coins
<1>13. QED
  BY <1>8, <1>9, <1>10, <1>11, <1>12, Zenon DEF Owing, e, g

\* Nothing is prepaid for no transaction.
LEMMA NothingPrepaid == Prepaid({}) = 0
<1>1. Prepaid({}) \in Nat
  BY GasAssumption
<1>2. Prepaid({} \cup {}) = Prepaid({}) + Prepaid({})
  BY GasAssumption, Zenon
<1>3. {} \cup {} = {}
  OBVIOUS
<1> DEFINE p == Prepaid({})
<1>4. p \in Nat /\ p = p + p
  BY <1>1, <1>2, <1>3, Zenon
<1> HIDE DEF p
<1>5. p = 0
  BY <1>4
<1>6. QED
  BY <1>5 DEF p

LEMMA SettleSum ==
    ASSUME NEW u \in Int, NEW y \in Int, NEW k \in Int, NEW m \in Int, NEW r \in Int,
           NEW w \in Int, NEW c \in Int, NEW G \in Int, u + y + k = G + m + r
    PROVE  (u + c) + (y - r - w) + (k + w) = G + (m + c)
OBVIOUS

\* getBlockRewardAndUpdateSysAcc does not panic, and leaves what is prepaid for the queue.
LEMMA RewardSound ==
    ASSUME NEW l \in LedgerType, NEW g \in GasType, Owing(l, g), NEW h \in 1..MaxHeight, NEW c \in Validators,
           NEW p \in Validators \cup {NoValidator}, NEW v \in SUBSET Validators, NEW e \in SUBSET Validators
    PROVE  /\ FundsSuffice(l, g)
           /\ Sound(updateValidatorsAndStakingInfo(ProcessCCRPC(l, h), g, c, p, v, e))
<1> DEFINE k == ProcessCCRPC(l, h)
           s == updateValidatorsAndStakingInfo(k, g, c, p, v, e)
           reward == blockReward(k, g)
<1>1. /\ l.standby \in Seq(Txs) /\ l.users \in Int /\ l.sys \in Int /\ l.staking \in Int /\ l.minted \in Nat
      /\ g.refund \in Nat /\ g.fee \in Nat
  BY DEF LedgerType, Owing
<1>2. /\ k \in LedgerType /\ k.standby = l.standby /\ k.seen = l.seen /\ k.sys = l.sys
      /\ k.staking = l.staking /\ k.users = l.users + Credited[h]
      /\ k.minted = l.minted + Credited[h] /\ Credited[h] \in Nat
  BY ProcessCCRPCFields, Zenon
<1> HIDE DEF k
<1>3. /\ s.standby = k.standby /\ s.seen = k.seen /\ s.users = k.users /\ s.minted = k.minted
      /\ s.sys = k.sys - g.refund - reward /\ s.staking = k.staking + reward /\ reward \in Int
  BY <1>2, RewardFields
<1>4. Range(l.standby) \in SUBSET Txs
  BY <1>1 DEF Range
<1>5. Prepaid(Range(l.standby)) \in Nat
  BY <1>4, GasAssumption
<1>6. Prepaid(Range(l.standby)) + g.refund + g.fee <= l.sys
  BY DEF Owing
<1>7. FundsSuffice(l, g)
  BY <1>1, <1>5, <1>6 DEF FundsSuffice
<1>8. Prepaid(Range(l.standby)) <= l.sys - g.refund - reward
  <2>1. CASE l.standby = <<>>
    <3>1. Range(l.standby) = {}
      BY <2>1 DEF Range
    <3>2. reward = l.sys - g.refund
      BY <1>2, <2>1 DEF blockReward
    <3>3. QED
      BY <1>1, <3>1, <3>2, NothingPrepaid
  <2>2. CASE l.standby # <<>>
    <3>1. reward = g.fee
      BY <1>2, <2>2 DEF blockReward
    <3>2. QED
      BY <1>1, <1>5, <1>6, <3>1
  <2>3. QED
    BY <2>1, <2>2
<1> HIDE DEF s, reward
<1>9. /\ Range(s.standby) \subseteq s.seen
      /\ \A i, j \in DOMAIN s.standby : s.standby[i] = s.standby[j] => i = j
  BY <1>2, <1>3, Zenon DEF Owing
<1>10. Prepaid(Range(s.standby)) <= s.sys
  BY <1>2, <1>3, <1>8
<1>11. Coins(s) = GenesisCoins + s.minted
  <2>1. l.users + l.sys + l.staking = GenesisCoins + l.minted + g.refund
    BY DEF Owing, Coins
  <2>2. /\ s.users = l.users + Credited[h] /\ s.sys = l.sys - g.refund - reward
        /\ s.staking = l.staking + reward /\ s.minted = l.minted + Credited[h]
    BY <1>2, <1>3, Zenon
  <2>3. /\ l.users \in Int /\ l.sys \in Int /\ l.staking \in Int /\ l.minted \in Int
        /\ g.refund \in Int /\ reward \in Int /\ Credited[h] \in Int /\ GenesisCoins \in Int
    BY <1>1, <1>2, <1>3, GenesisNat
  <2>4. (l.users + Credited[h]) + (l.sys - g.refund - reward) + (l.staking + reward)
            = GenesisCoins + (l.minted + Credited[h])
    BY <2>1, <2>3, SettleSum
  <2>5. QED
    BY <2>2, <2>4, Zenon DEF Coins
<1>12. QED
  BY <1>7, <1>9, <1>10, <1>11, Zenon DEF Sound, s, k

\* Prepare moves the gas of the accepted transactions to the system account.
LEMMA PrepareSound ==
    ASSUME NEW l \in LedgerType, Sound(l), NEW c \in SUBSET Txs, NEW seed \in Seeds
    PROVE  Sound(Prepare(l, c, seed))
<1> DEFINE a == c \ l.seen
           r == Order(seed, a)
           s == Prepare(l, c, seed)
           q == l.standby
<1>1. /\ q \in Seq(Txs) /\ l.users \in Int /\ l.sys \in Int /\ l.staking \in Int /\ l.minted \in Nat
      /\ l.seen \in SUBSET Txs
  BY DEF LedgerType
<1>2. /\ a \in SUBSET Txs /\ s.minted = l.minted /\ s.staking = l.staking
      /\ s.standby = q \o r /\ l.seen \subseteq s.seen /\ a \subseteq s.seen
      /\ s.users = l.users - Prepaid(a) /\ s.sys = l.sys + Prepaid(a)
  <2>1. Prepare(l, c, seed) \in LedgerType /\ s.minted = l.minted /\ s.staking = l.staking
    BY PrepareFields, ZenonT(30)
  <2>2. a \in SUBSET Txs /\ s.standby = q \o r
    BY PrepareFields, ZenonT(30)
  <2>3. l.seen \subseteq s.seen /\ a \subseteq s.seen
    BY PrepareSeen, ZenonT(30)
  <2>4. s.users = l.users - Prepaid(a) /\ s.sys = l.sys + Prepaid(a)
    BY PrepareFields, ZenonT(30)
  <2>5. QED
    BY <2>1, <2>2, <2>3, <2>4, Zenon
<1>3. /\ r \in Seq(a) /\ Range(r) = a /\ \A i, j \in DOMAIN r : r[i] = r[j] => i = j
  <2> HIDE DEF a
  <2>1. QED
    BY <1>2, OrderAssumption, Zenon
<1>4. r \in Seq(Txs)
  <2> HIDE DEF a, r
  <2>1. QED
    BY <1>2, <1>3
<1>5. Range(q) \subseteq l.seen /\ Range(q) \cap a = {} /\ Range(q) \in SUBSET Txs
  BY <1>1, Zenon DEF Sound
<1>6. \A i, j \in DOMAIN q : q[i] = q[j] => i = j
  BY Zenon DEF Sound
<1> HIDE DEF a, r, s, q
<1>7. /\ Range(q \o r) = Range(q) \cup a
      /\ \A i, j \in DOMAIN (q \o r) : (q \o r)[i] = (q \o r)[j] => i = j
  BY <1>1, <1>3, <1>4, <1>5, <1>6, JoinQueue, Zenon
<1>8. /\ Prepaid(a) \in Nat /\ Prepaid(Range(q)) \in Nat
      /\ Prepaid(Range(q) \cup a) = Prepaid(Range(q)) + Prepaid(a)
  BY <1>2, <1>5, GasAssumption, Zenon
<1>9. Prepaid(Range(q)) <= l.sys
  BY Zenon DEF Sound, q
<1>10. Range(s.standby) \subseteq s.seen
  BY <1>2, <1>5, <1>7, Zenon
<1>11. Prepaid(Range(s.standby)) <= s.sys
  BY <1>1, <1>2, <1>7, <1>8, <1>9
<1>12. Coins(s) = GenesisCoins + s.minted
  <2>1. l.users + l.sys + l.staking = GenesisCoins + l.minted
    BY DEF Sound, Coins
  <2>2. QED
    BY <1>1, <1>2, <1>8, <2>1, GenesisNat, SMTT(30) DEF Coins
<1>13. QED
  BY <1>2, <1>7, <1>10, <1>11, <1>12, Zenon DEF Sound, s
----------------------------------------------------------------------------
\* Facts about the stored world state and what the next block makes of it.
LEMMA NoGasType == NoGas \in GasType /\ NoGas.refund = 0 /\ NoGas.fee = 0
BY DEF NoGas, GasType

LEMMA ExecutedFacts ==
    ASSUME world \in LedgerType, WorldInv
    PROVE  /\ Executed \in LedgerType /\ ExecutedGas \in GasType
           /\ Executed.height = world.height /\ Executed.miner = world.miner
           /\ Owing(Executed, ExecutedGas)
           /\ Len(Executed.done) = world.height
           /\ \A h \in DOMAIN world.done : h \in DOMAIN Executed.done /\ Executed.done[h] = world.done[h]
           /\ world.height > 0 => ExecutedGas.txs = Executed.done[world.height]
<1>1. /\ world.height \in 0..MaxHeight /\ world.done \in Seq(Seq(Txs)) /\ world.standby \in Seq(Txs)
      /\ world.users \in Int /\ world.sys \in Int /\ world.staking \in Int /\ world.minted \in Nat
  BY DEF LedgerType
<1>2. Sound(world) /\ Len(world.done) = IF world.height = 0 THEN 0 ELSE world.height - 1
  BY DEF WorldInv
<1>3. CASE world.height = 0
  <2>1. Executed = world /\ ExecutedGas = NoGas
    BY <1>3 DEF Executed, ExecutedGas
  <2>2. Owing(world, NoGas)
    <3>1. Range(world.standby) \in SUBSET Txs
      BY <1>1 DEF Range
    <3>2. Prepaid(Range(world.standby)) \in Nat
      BY <3>1, GasAssumption
    <3>3. Prepaid(Range(world.standby)) + NoGas.refund + NoGas.fee <= world.sys
      BY <1>1, <1>2, <3>2, NoGasType DEF Sound
    <3>4. Coins(world) = GenesisCoins + world.minted + NoGas.refund
      BY <1>1, <1>2, NoGasType, GenesisNat DEF Sound
    <3>5. NoGas.refund \in Nat /\ NoGas.fee \in Nat
      BY NoGasType
    <3>6. QED
      BY <1>2, <3>3, <3>4, <3>5, Zenon DEF Sound, Owing
  <2>3. QED
    BY <1>1, <1>2, <1>3, <2>1, <2>2, NoGasType
<1>4. CASE world.height # 0
  <2>1. Executed = Execute(world) /\ ExecutedGas = GasUsedInfo(world)
    BY <1>4 DEF Executed, ExecutedGas
  <2>2. Owing(Execute(world), GasUsedInfo(world))
    BY <1>2, ExecuteOwes
  <2>3. /\ Execute(world) \in LedgerType /\ GasUsedInfo(world) \in GasType
        /\ Execute(world).height = world.height /\ Execute(world).miner = world.miner
        /\ Execute(world).done = Append(world.done, running(world)) /\ running(world) \in Seq(Txs)
    BY ExecuteFields, Zenon
  <2>4. GasUsedInfo(world).txs = running(world)
    BY DEF GasUsedInfo
  <2> DEFINE d == Append(world.done, running(world))
  <2>5. /\ Len(d) = world.height /\ d[world.height] = running(world)
        /\ \A h \in DOMAIN world.done : h \in DOMAIN d /\ d[h] = world.done[h]
    <3>1. Len(world.done) + 1 = world.height
      BY <1>1, <1>2, <1>4
    <3>2. /\ Len(Append(world.done, running(world))) = Len(world.done) + 1
          /\ Append(world.done, running(world))[Len(world.done) + 1] = running(world)
          /\ \A i \in DOMAIN world.done : /\ i \in DOMAIN Append(world.done, running(world))
                                        /\ Append(world.done, running(world))[i] = world.done[i]
      BY <1>1, <2>3, AppendKeeps
    <3>3. QED
      BY <3>1, <3>2, Zenon
  <2> HIDE DEF d
  <2>6. QED
    BY <2>1, <2>2, <2>3, <2>4, <2>5, Zenon DEF d
<1>5. QED
  BY <1>3, <1>4

\* The block at hand and the state after the first half of its Commit.
LEMMA SettledFacts ==
    ASSUME TypeOK, WorldInv, world.height < Len(chain)
    PROVE  /\ current \in Blocks /\ current \in BlockType
           /\ current.miner \in Validators /\ current.txs \subseteq Txs /\ current.seed \in Seeds
           /\ current.votes \subseteq Validators /\ current.evidence \subseteq Validators
           /\ world.height + 1 \in 1..MaxHeight
           /\ FundsSuffice(Executed, ExecutedGas)
           /\ Settled \in LedgerType /\ Sound(Settled)
           /\ Settled.height = world.height /\ Settled.done = Executed.done
<1>1. /\ chain \in Seq(Blocks) /\ Len(chain) <= MaxHeight /\ world \in LedgerType /\ world.height \in 0..MaxHeight
      /\ world.miner \in Validators \cup {NoValidator}
  BY DEF TypeOK, LedgerType
<1>2. world.height + 1 \in 1..MaxHeight /\ world.height + 1 \in 1..Len(chain)
  BY <1>1, LedgerAssumption
<1>3. current \in Blocks /\ current \in BlockType
  BY <1>1, <1>2, AppAssumption DEF current
<1>4. /\ current.miner \in Validators /\ current.txs \in SUBSET Txs /\ current.seed \in Seeds
      /\ current.votes \in SUBSET Validators /\ current.evidence \in SUBSET Validators
  BY <1>3 DEF BlockType
<1>5. /\ Executed \in LedgerType /\ ExecutedGas \in GasType /\ Executed.height = world.height
      /\ Owing(Executed, ExecutedGas)
  BY <1>1, ExecutedFacts
<1> DEFINE k == ProcessCCRPC(Executed, world.height + 1)
<1>6. k \in LedgerType /\ k.height = Executed.height /\ k.done = Executed.done
  BY <1>2, <1>5, ProcessCCRPCFields
<1>7. Sound(Settled) /\ FundsSuffice(Executed, ExecutedGas)
  BY <1>1, <1>2, <1>4, <1>5, RewardSound, Zenon DEF Settled
<1> HIDE DEF k
<1> DEFINE u == updateValidatorsAndStakingInfo(k, ExecutedGas, current.miner, world.miner,
                                               current.votes, current.evidence)
           m == current.miner
           w == world.miner
           v == current.votes
           e == current.evidence
<1>8. u \in LedgerType /\ u.height = k.height /\ u.done = k.done
  <2>1. m \in Validators /\ w \in Validators \cup {NoValidator} /\ v \in SUBSET Validators /\ e \in SUBSET Validators
    BY <1>1, <1>4, Zenon
  <2> HIDE DEF m, w, v, e
  <2>2. /\ updateValidatorsAndStakingInfo(k, ExecutedGas, m, w, v, e) \in LedgerType
        /\ updateValidatorsAndStakingInfo(k, ExecutedGas, m, w, v, e).height = k.height
        /\ updateValidatorsAndStakingInfo(k, ExecutedGas, m, w, v, e).done = k.done
    BY <1>5, <1>6, <2>1, RewardFields
  <2>3. QED
    BY <2>2, Zenon DEF m, w, v, e
<1>9. QED
  BY <1>2, <1>3, <1>4, <1>5, <1>6, <1>7, <1>8, Zenon DEF Settled, k
\* The states after Prepare and after the block's own record.
Prepared == Prepare(Settled, current.txs \cap Decodes, current.seed)
Committed == SetCurrBlock(Prepared, world.height + 1, current.miner)

LEMMA CommittedFacts ==
    ASSUME TypeOK, WorldInv, world.height < Len(chain)
    PROVE  /\ Prepared \in LedgerType /\ Prepared.done = Executed.done
           /\ Committed \in LedgerType /\ Sound(Committed)
           /\ Committed.height = world.height + 1 /\ Committed.miner = current.miner
           /\ Committed.done = Executed.done /\ Committed.lastGP \in Prices
<1> DEFINE c == current.txs \cap Decodes
           s == current.seed
           m == current.miner
           h == world.height + 1
<1>1. /\ c \in SUBSET Txs /\ s \in Seeds /\ m \in Validators /\ h \in 0..MaxHeight
      /\ Settled \in LedgerType /\ Sound(Settled) /\ Settled.done = Executed.done
  BY SettledFacts
<1> HIDE DEF c, s, m, h
<1> DEFINE p == Prepare(Settled, c, s)
<1>2. p \in LedgerType /\ p.done = Settled.done /\ Sound(p)
  BY <1>1, PrepareFields, PrepareSound, ZenonT(30)
<1> HIDE DEF p
<1> DEFINE x == SetCurrBlock(p, h, m)
<1>3. /\ x \in LedgerType /\ x.height = h /\ x.miner = m /\ x.standby = p.standby /\ x.seen = p.seen
      /\ x.users = p.users /\ x.sys = p.sys /\ x.staking = p.staking
      /\ x.minted = p.minted /\ x.done = p.done
  BY <1>1, <1>2, SetCurrBlockFields
<1> HIDE DEF x
<1>4. Sound(x)
  BY <1>2, <1>3, Zenon DEF Sound, Coins
<1>5. x.lastGP \in Prices
  BY <1>3 DEF LedgerType
<1>6. Prepared = p /\ Committed = x
  BY Zenon DEF Prepared, Committed, p, x, c, s, m, h
<1>7. QED
  BY <1>1, <1>2, <1>3, <1>4, <1>5, <1>6, Zenon DEF h, m

\* Steps that leave the stored world state and the chain alone, or only add a block to the chain.
LEMMA Frame ==
    ASSUME world' = world, chain' = chain
    PROVE  /\ Executed' = Executed /\ ExecutedGas' = ExecutedGas /\ current' = current
           /\ Settled' = Settled /\ (WorldInv => WorldInv')
<1>1. Executed' = Executed /\ ExecutedGas' = ExecutedGas /\ current' = current
  BY Zenon DEF Executed, ExecutedGas, current
<1>2. Settled' = Settled
  BY <1>1, Zenon DEF Settled
<1>3. WorldInv => WorldInv'
  BY Zenon DEF WorldInv
<1>4. QED
  BY <1>1, <1>2, <1>3
=============================================================================
