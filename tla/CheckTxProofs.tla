---------------------------- MODULE CheckTxProofs ----------------------------
(***************************************************************************)
(* Proofs about CheckTx for every set of transactions and accounts, every   *)
(* limit, and every number of blocks and restarts.                          *)
(***************************************************************************)
EXTENDS CheckTx, FiniteSetTheorems, SequenceTheorems, TLAPS

FrontierType == [on : BOOLEAN, nonce : Nat, bal : Nat, gas : Nat]
TallyType == [n : Nat, fees : Nat, gas : Nat]

TypeInv ==
    /\ \A s \in Senders : acc[s].bal \in Nat /\ acc[s].nonce \in Nat
    /\ acc \in [Senders -> Accounts]
    /\ frontier \in [Senders -> FrontierType]
    /\ start \in [Senders -> FrontierType]
    /\ tally \in [Senders -> TallyType]
    /\ mempool \in Seq(Txs)
    /\ recheck \in 0..Len(mempool)

\* The balance that a record f leaves, or that of account a if there is none.
Left(f, a) == IF f.on THEN f.bal ELSE a.bal

\* What the record f of a sender says against the record st it started from and
\* what was admitted since, t: fees are paid from the balance, gas is counted
\* except that of the first transaction without a record.
Balanced(f, st, t, a) ==
    /\ t.fees + Left(f, a) <= Left(st, a)
    /\ st.on => f.on
    /\ ~f.on => t.n = 0 /\ f.gas = 0
    /\ ~st.on => st.gas = 0
    /\ t.n = 0 => t.gas = 0
    /\ t.n > 0 => f.gas <= FrontierGasLimit
    /\ st.gas + t.gas <= f.gas + (IF st.on THEN 0 ELSE MaxTxGasLimit)

CacheInv == IsFiniteSet(sigCache) /\ SigCacheBounded

IInv == /\ TypeInv /\ CacheInv
        /\ \A s \in Senders : Balanced(frontier[s], start[s], tally[s], acc[s])

-----------------------------------------------------------------------------
\* The cache does not grow once it is above its size: one entry is dropped for
\* the one that is added.
LEMMA CacheStep ==
    ASSUME CacheInv, NEW tx, NEW c \in sigCacheAdd(sigCache, tx)
    PROVE  IsFiniteSet(c) /\ Cardinality(c) <= SigCacheSize + 1
<1> DEFINE new == [id |-> tx.id, height |-> currHeight]
<1>1. /\ IsFiniteSet(sigCache) /\ Cardinality(sigCache) \in Nat /\ SigCacheSize \in Nat
      /\ Cardinality(sigCache) <= SigCacheSize + 1
  BY FS_CardinalityType, LimitsAssumption DEF CacheInv, SigCacheBounded
<1>2. PICK d : /\ c = d \cup {new}
               /\ \/ Cardinality(sigCache) > SigCacheSize /\ \E e \in sigCache : d = sigCache \ {e}
                  \/ Cardinality(sigCache) <= SigCacheSize /\ d = sigCache
  <2>1. CASE Cardinality(sigCache) > SigCacheSize
    BY <1>1, <2>1, Zenon DEF sigCacheAdd
  <2>2. CASE ~(Cardinality(sigCache) > SigCacheSize)
    <3>1. c = sigCache \cup {new}
      BY <2>2, Zenon DEF sigCacheAdd
    <3>2. Cardinality(sigCache) <= SigCacheSize
      BY <1>1, <2>2
    <3>3. QED
      BY <3>1, <3>2
  <2>3. QED
    BY <2>1, <2>2
<1> HIDE DEF new
<1>3. IsFiniteSet(d) /\ Cardinality(d) <= SigCacheSize /\ Cardinality(d) \in Nat
  <2>1. CASE Cardinality(sigCache) > SigCacheSize /\ \E e \in sigCache : d = sigCache \ {e}
    <3>1. PICK e \in sigCache : d = sigCache \ {e}
      BY <2>1
    <3>2. IsFiniteSet(d) /\ Cardinality(d) = Cardinality(sigCache) - 1
      BY <1>1, <3>1, FS_RemoveElement
    <3>3. QED
      BY <1>1, <2>1, <3>2, FS_CardinalityType
  <2>2. CASE Cardinality(sigCache) <= SigCacheSize /\ d = sigCache
    BY <1>1, <2>2
  <2>3. QED
    BY <1>2, <2>1, <2>2
<1>4. IsFiniteSet(c) /\ (Cardinality(c) = Cardinality(d) \/ Cardinality(c) = Cardinality(d) + 1)
  BY <1>2, <1>3, FS_AddElement
<1>5. QED
  BY <1>1, <1>3, <1>4

\* Looking a sender up leaves the cache within its bound.
LEMMA RecoverSenderStep ==
    ASSUME CacheInv, NEW tx, RecoverSender(tx)
    PROVE  CacheInv'
<1>1. CASE UNCHANGED sigCache
  BY <1>1 DEF CacheInv, SigCacheBounded
<1>2. CASE sigCache' \in sigCacheAdd(sigCache, tx)
  <2>1. IsFiniteSet(sigCache') /\ Cardinality(sigCache') <= SigCacheSize + 1
    BY <1>2, CacheStep
  <2>2. QED
    BY <2>1 DEF CacheInv, SigCacheBounded
<1>3. QED
  BY <1>1, <1>2 DEF RecoverSender

-----------------------------------------------------------------------------
\* The arithmetic of an admission: b is the balance known before, b2 the one
\* recorded, g and g2 the gas recorded before and after.
LEMMA AdmitArithmetic ==
    ASSUME NEW f \in FrontierType, NEW st \in FrontierType, NEW t \in TallyType, NEW a,
           a.bal \in Nat, Balanced(f, st, t, a),
           NEW f2 \in FrontierType, NEW t2 \in TallyType, NEW fee \in Nat, NEW gas \in Nat,
           f2.on, f2.bal <= Left(f, a) - fee, gas <= MaxTxGasLimit,
           f2.gas = f.gas + (IF f.on THEN gas ELSE 0), f2.gas <= FrontierGasLimit,
           t2.n = t.n + 1, t2.fees = t.fees + fee, t2.gas = t.gas + gas
    PROVE  Balanced(f2, st, t2, a)
<1>1. /\ f.bal \in Nat /\ f.gas \in Nat /\ st.bal \in Nat /\ st.gas \in Nat
      /\ f2.bal \in Nat /\ f2.gas \in Nat
      /\ t.n \in Nat /\ t.fees \in Nat /\ t.gas \in Nat
      /\ f.on \in BOOLEAN /\ st.on \in BOOLEAN
  BY DEF FrontierType, TallyType
<1>2. MaxTxGasLimit \in Nat /\ FrontierGasLimit \in Nat
  BY LimitsAssumption
<1>3. Left(f2, a) = f2.bal /\ Left(f, a) \in Nat /\ Left(st, a) \in Nat
  BY <1>1 DEF Left
<1>4. t2.fees + Left(f2, a) <= Left(st, a)
  BY <1>1, <1>3 DEF Balanced
<1>5. st.gas + t2.gas <= f2.gas + (IF st.on THEN 0 ELSE MaxTxGasLimit)
  <2>1. CASE f.on
    BY <1>1, <1>2, <2>1 DEF Balanced
  <2>2. CASE ~f.on
    <3>1. ~st.on /\ st.gas = 0 /\ t.gas = 0 /\ f2.gas = 0
      BY <1>1, <2>2 DEF Balanced
    <3>2. QED
      BY <1>1, <1>2, <3>1
  <2>3. QED
    BY <2>1, <2>2
<1>6. (~st.on => st.gas = 0) /\ t2.n > 0
  BY <1>1 DEF Balanced
<1>7. QED
  BY <1>1, <1>4, <1>5, <1>6 DEF Balanced

\* A fee is a natural number.
LEMMA FeeType == \A tx \in Txs : Fee(tx) \in Nat
<1> TAKE tx \in Txs
<1>1. tx.gas \in Nat /\ tx.price \in Nat /\ MaxGasPrice \in Nat
  BY TxsAssumption, LimitsAssumption
<1>2. Least(tx.price, MaxGasPrice) \in Nat
  BY <1>1 DEF Least
<1>3. QED
  BY <1>1, <1>2 DEF Fee

\* checkTxWithContext keeps every sender's record balanced.
LEMMA AdmitStep ==
    ASSUME IInv, NEW tx \in Txs, checkTxWithContext(tx), UNCHANGED <<acc, start>>
    PROVE  /\ frontier' \in [Senders -> FrontierType] /\ tally' \in [Senders -> TallyType]
           /\ \A s \in Senders : Balanced(frontier'[s], start[s], tally'[s], acc[s])
<1> DEFINE x == tx.sender
           f == frontier[x]
           a == acc[x]
           f2 == Advanced(tx)
           t2 == [n |-> tally[x].n + 1, fees |-> tally[x].fees + Fee(tx), gas |-> tally[x].gas + tx.gas]
<1>1. /\ x \in Senders /\ tx.nonce \in Nat /\ tx.gas \in Nat /\ tx.value \in Nat
      /\ Fee(tx) \in Nat
  BY TxsAssumption, FeeType
<1>2. /\ f \in FrontierType /\ start[x] \in FrontierType /\ tally[x] \in TallyType
      /\ a.bal \in Nat /\ Balanced(f, start[x], tally[x], a)
  BY <1>1 DEF IInv, TypeInv
<1>3. CASE ~Accepts(tx)
  BY <1>3 DEF checkTxWithContext, IInv, TypeInv
<1>4. CASE Accepts(tx)
  <2>1. /\ frontier' = [frontier EXCEPT ![x] = f2]
        /\ tally' = [tally EXCEPT ![x] = t2]
    BY <1>4 DEF checkTxWithContext
  <2>2. f.on \in BOOLEAN /\ f.bal \in Nat /\ f.gas \in Nat
    BY <1>2 DEF FrontierType
  <2>3. Known(tx).bal = Left(f, a) /\ Left(f, a) \in Nat
    BY <1>2, <2>2 DEF Known, Left, FrontierType
  <2>4. /\ Left(f, a) >= Fee(tx) /\ tx.gas <= MaxTxGasLimit
        /\ GasWith(tx) = f.gas + (IF f.on THEN tx.gas ELSE 0)
        /\ GasWith(tx) \in Nat /\ GasWith(tx) <= FrontierGasLimit
    BY <1>1, <1>4, <2>2, <2>3 DEF Accepts, checkGasLimit, GasWith
  <2>5. /\ f2 \in FrontierType /\ f2.on /\ f2.gas = GasWith(tx)
        /\ f2.bal <= Left(f, a) - Fee(tx)
    <3> DEFINE b2 == IF Left(f, a) - Fee(tx) < tx.value THEN 0
                     ELSE Left(f, a) - Fee(tx) - tx.value
    <3>1. b2 \in Nat /\ b2 <= Left(f, a) - Fee(tx)
      BY <1>1, <2>3, <2>4
    <3>2. f2 = [on |-> TRUE, nonce |-> tx.nonce + 1, gas |-> GasWith(tx), bal |-> b2]
      BY <2>3 DEF Advanced
    <3> HIDE DEF b2, f2
    <3>3. QED
      BY <1>1, <2>4, <3>1, <3>2 DEF FrontierType
  <2>6. /\ t2 \in TallyType /\ t2.n = tally[x].n + 1 /\ t2.fees = tally[x].fees + Fee(tx)
        /\ t2.gas = tally[x].gas + tx.gas
    BY <1>1, <1>2 DEF TallyType
  <2> HIDE DEF f2, t2
  <2>7. Balanced(f2, start[x], t2, a)
    <3> HIDE DEF f, a
    <3>1. QED
      BY <1>1, <1>2, <2>4, <2>5, <2>6, AdmitArithmetic
  <2>8. QED
    BY <1>1, <2>1, <2>5, <2>6, <2>7 DEF IInv, TypeInv
<1>5. QED
  BY <1>3, <1>4

-----------------------------------------------------------------------------
\* No record, and nothing admitted.
LEMMA EmptyTypes ==
    /\ Unknown \in FrontierType /\ ~Unknown.on /\ Unknown.gas = 0
    /\ Nothing \in [Senders -> TallyType]
    /\ \A s \in Senders : Nothing[s].n = 0 /\ Nothing[s].fees = 0 /\ Nothing[s].gas = 0
BY DEF Unknown, FrontierType, Nothing, TallyType

\* Every record is balanced when nothing has been admitted since it was made.
LEMMA FreshBalanced ==
    ASSUME NEW f \in FrontierType, NEW t \in TallyType, NEW a, a.bal \in Nat,
           t.n = 0, t.fees = 0, t.gas = 0, ~f.on => f.gas = 0
    PROVE  Balanced(f, f, t, a)
<1>1. f.bal \in Nat /\ f.gas \in Nat /\ f.on \in BOOLEAN
  BY DEF FrontierType
<1>2. Left(f, a) \in Nat /\ MaxTxGasLimit \in Nat
  BY <1>1, LimitsAssumption DEF Left
<1>3. QED
  BY <1>1, <1>2 DEF Balanced

\* The records that a Commit may hand over.
LEMMA HandedType == \A h \in Handed : h \in FrontierType /\ (~h.on => h.gas = 0)
<1> TAKE h \in Handed
<1>1. CASE h = Unknown
  BY <1>1, EmptyTypes
<1>2. CASE h # Unknown
  <2>1. PICK a \in Accounts : h = [on |-> TRUE, nonce |-> a.nonce, bal |-> a.bal, gas |-> 1]
    BY <1>2 DEF Handed
  <2>2. a.nonce \in Nat /\ a.bal \in Nat
    BY AccountsAssumption
  <2>3. QED
    BY <2>1, <2>2 DEF FrontierType
<1>3. QED
  BY <1>1, <1>2

\* The initial state.
LEMMA InitIInv == Init => IInv
<1> SUFFICES ASSUME Init PROVE IInv
  OBVIOUS
<1>1. /\ acc \in [Senders -> Accounts] /\ frontier = [s \in Senders |-> Unknown]
      /\ start = frontier /\ tally = Nothing
      /\ mempool = <<>> /\ recheck = 0 /\ sigCache = {}
  BY DEF Init
<1>2. TypeInv
  BY <1>1, EmptyTypes, AccountsAssumption DEF TypeInv
<1>3. CacheInv
  BY <1>1, FS_EmptySet, LimitsAssumption DEF CacheInv, SigCacheBounded
<1>4. ASSUME NEW s \in Senders PROVE Balanced(frontier[s], start[s], tally[s], acc[s])
  <2>1. frontier[s] = Unknown /\ start[s] = Unknown /\ tally[s] \in TallyType
    BY <1>1, EmptyTypes
  <2>2. acc[s].bal \in Nat /\ tally[s].n = 0 /\ tally[s].fees = 0 /\ tally[s].gas = 0
    BY <1>1, EmptyTypes, AccountsAssumption
  <2>3. Balanced(Unknown, Unknown, tally[s], acc[s])
    BY <2>1, <2>2, EmptyTypes, FreshBalanced
  <2>4. QED
    BY <2>1, <2>3
<1>5. QED
  BY <1>2, <1>3, <1>4 DEF IInv

\* A transaction that is new.
LEMMA CheckNewTxStep ==
    ASSUME IInv, NEW tx \in Txs, CheckNewTx(tx)
    PROVE  IInv'
<1>1. UNCHANGED <<acc, start, recheck>> /\ RecoverSender(tx) /\ checkTxWithContext(tx)
  BY DEF CheckNewTx
<1>2. CacheInv'
  BY <1>1, RecoverSenderStep DEF IInv
<1>3. mempool' \in Seq(Txs) /\ recheck' \in 0..Len(mempool')
  <2>1. recheck' = 0 /\ mempool \in Seq(Txs)
    BY <1>1 DEF CheckNewTx, IInv, TypeInv
  <2>2. mempool' \in Seq(Txs)
    BY <2>1 DEF CheckNewTx
  <2>3. QED
    BY <2>1, <2>2, LenProperties
<1>4. TypeInv'
  BY <1>1, <1>3, AdmitStep DEF IInv, TypeInv
<1>5. QED
  BY <1>1, <1>2, <1>4, AdmitStep DEF IInv

\* A transaction of the mempool that is checked again.
LEMMA RecheckTxStep ==
    ASSUME IInv, RecheckTx
    PROVE  IInv'
<1> DEFINE at == Len(mempool) - recheck + 1
           tx == mempool[at]
           front == SubSeq(mempool, 1, at - 1)
           back == SubSeq(mempool, at + 1, Len(mempool))
           kept == front \o back
<1>1. mempool \in Seq(Txs) /\ Len(mempool) \in Nat /\ recheck \in 1..Len(mempool)
  BY LenProperties DEF IInv, TypeInv, RecheckTx
<1>2. at \in 1..Len(mempool) /\ tx \in Txs
  BY <1>1
<1>3. /\ UNCHANGED <<acc, start>> /\ RecoverSender(tx) /\ checkTxWithContext(tx)
      /\ mempool' = IF Accepts(tx) THEN mempool ELSE kept
      /\ recheck' = recheck - 1
  BY DEF RecheckTx
<1>4. CacheInv'
  BY <1>3, RecoverSenderStep DEF IInv
<1>5. mempool' \in Seq(Txs) /\ recheck' \in 0..Len(mempool')
  <2>1. front \in Seq(Txs) /\ Len(front) = at - 1
    <3>1. \A i \in 1..at - 1 : mempool[i] \in Txs
      BY <1>1, <1>2
    <3>2. QED
      BY <1>1, <1>2, <3>1, SubSeqProperties
  <2>2. back \in Seq(Txs) /\ Len(back) = Len(mempool) - at
    <3>1. \A i \in at + 1..Len(mempool) : mempool[i] \in Txs
      BY <1>1, <1>2
    <3>2. QED
      BY <1>1, <1>2, <3>1, SubSeqProperties
  <2>3. kept \in Seq(Txs) /\ Len(kept) = Len(mempool) - 1
    <3> HIDE DEF front, back
    <3>1. kept \in Seq(Txs) /\ Len(kept) = Len(front) + Len(back)
      BY <2>1, <2>2, ConcatProperties
    <3> HIDE DEF kept
    <3>2. QED
      BY <1>1, <1>2, <2>1, <2>2, <3>1
  <2> HIDE DEF kept, tx, at
  <2>4. QED
    BY <1>1, <1>3, <2>3
<1> HIDE DEF tx
<1>6. TypeInv'
  BY <1>2, <1>3, <1>5, AdmitStep DEF IInv, TypeInv
<1>7. QED
  BY <1>2, <1>3, <1>4, <1>6, AdmitStep DEF IInv

\* A block, which starts every record anew.
LEMMA CommitStep ==
    ASSUME IInv, Commit
    PROVE  IInv'
<1>1. /\ acc' \in [Senders -> Accounts] /\ frontier' \in [Senders -> Handed]
      /\ start' = frontier' /\ tally' = Nothing /\ UNCHANGED sigCache
  BY DEF Commit
<1>2. mempool' \in Seq(Txs) /\ recheck' \in 0..Len(mempool')
  <2>1. PICK k \in 0..Len(mempool) : /\ mempool' = SubSeq(mempool, k + 1, Len(mempool))
                                     /\ recheck' = Len(mempool) - k
    BY DEF Commit
  <2>2. mempool \in Seq(Txs) /\ Len(mempool) \in Nat
    BY LenProperties DEF IInv, TypeInv
  <2>3. \A i \in k + 1..Len(mempool) : mempool[i] \in Txs
    BY <2>2
  <2>4. mempool' \in Seq(Txs) /\ Len(mempool') = Len(mempool) - k
    BY <2>1, <2>2, <2>3, SubSeqProperties
  <2>5. QED
    BY <2>1, <2>2, <2>4
<1>3. TypeInv'
  BY <1>1, <1>2, HandedType, EmptyTypes, AccountsAssumption DEF TypeInv
<1>4. CacheInv'
  BY <1>1 DEF IInv, CacheInv, SigCacheBounded
<1>5. ASSUME NEW s \in Senders PROVE Balanced(frontier'[s], start'[s], tally'[s], acc'[s])
  <2>1. /\ frontier'[s] \in FrontierType /\ (~frontier'[s].on => frontier'[s].gas = 0)
        /\ start'[s] = frontier'[s] /\ tally'[s] \in TallyType
        /\ acc'[s].bal \in Nat
    BY <1>1, HandedType, EmptyTypes, AccountsAssumption
  <2>2. tally'[s].n = 0 /\ tally'[s].fees = 0 /\ tally'[s].gas = 0
    BY <1>1, EmptyTypes
  <2>3. QED
    BY <2>1, <2>2, FreshBalanced
<1>6. QED
  BY <1>3, <1>4, <1>5 DEF IInv

\* A restart, which forgets them.
LEMMA RestartStep ==
    ASSUME IInv, Restart
    PROVE  IInv'
<1>1. /\ frontier' = [s \in Senders |-> Unknown] /\ start' = frontier' /\ tally' = Nothing
      /\ mempool' = <<>> /\ recheck' = 0 /\ sigCache' = {} /\ UNCHANGED acc
  BY DEF Restart
<1>2. TypeInv'
  BY <1>1, EmptyTypes DEF TypeInv, IInv
<1>3. CacheInv'
  BY <1>1, FS_EmptySet, LimitsAssumption DEF CacheInv, SigCacheBounded
<1>4. ASSUME NEW s \in Senders PROVE Balanced(frontier'[s], start'[s], tally'[s], acc'[s])
  <2>1. frontier'[s] = Unknown /\ start'[s] = Unknown /\ tally'[s] \in TallyType
    BY <1>1, EmptyTypes
  <2>2. acc'[s].bal \in Nat /\ tally'[s].n = 0 /\ tally'[s].fees = 0 /\ tally'[s].gas = 0
    BY <1>1, EmptyTypes DEF IInv, TypeInv
  <2>3. Balanced(Unknown, Unknown, tally'[s], acc'[s])
    BY <2>1, <2>2, EmptyTypes, FreshBalanced
  <2>4. QED
    BY <2>1, <2>3
<1>5. QED
  BY <1>2, <1>3, <1>4 DEF IInv

\* Every step keeps the invariant.
LEMMA NextIInv == IInv /\ [Next]_vars => IInv'
<1> SUFFICES ASSUME IInv, [Next]_vars PROVE IInv'
  OBVIOUS
<1>1. CASE UNCHANGED vars
  BY <1>1 DEF vars, IInv, TypeInv, CacheInv, SigCacheBounded
<1>2. QED
  BY <1>1, CheckNewTxStep, RecheckTxStep, CommitStep, RestartStep DEF Next

-----------------------------------------------------------------------------
\* The balance of a sender at the last block.
LEMMA FirstBalance == \A s \in Senders : TypeInv => First(s).bal = Left(start[s], acc[s])
BY DEF First, Left, TypeInv, Unknown, FrontierType

\* The fees of all that checkTxWithContext admits from a sender between two blocks
\* are covered by the sender's balance at the first of them.
THEOREM FeesCoveredAlways == Spec => []FeesCovered
<1>1. IInv => FeesCovered
  <2> SUFFICES ASSUME IInv, NEW s \in Senders PROVE tally[s].fees <= First(s).bal
    BY DEF FeesCovered
  <2>1. /\ TypeInv /\ tally[s].fees \in Nat /\ frontier[s].bal \in Nat /\ acc[s].bal \in Nat
        /\ start[s].bal \in Nat
    BY DEF IInv, TypeInv, TallyType, FrontierType
  <2>2. Left(frontier[s], acc[s]) \in Nat /\ Left(start[s], acc[s]) \in Nat
    BY <2>1 DEF Left
  <2>3. tally[s].fees + Left(frontier[s], acc[s]) <= Left(start[s], acc[s])
    BY DEF IInv, Balanced
  <2>4. QED
    BY <2>1, <2>2, <2>3, FirstBalance
<1>2. QED
  BY <1>1, InitIInv, NextIInv, PTL DEF Spec

\* The gas of a sender between two blocks stays within the limit of the frontier,
\* apart from the first transaction of a sender that Prepare had no record of.
THEOREM GasLimitedAlways == Spec => []GasLimited
<1>1. IInv => GasLimited
  <2> SUFFICES ASSUME IInv, NEW s \in Senders, tally[s].n > 0
               PROVE  start[s].gas + tally[s].gas
                        <= FrontierGasLimit + (IF start[s].on THEN 0 ELSE MaxTxGasLimit)
    BY DEF GasLimited
  <2>1. /\ tally[s].gas \in Nat /\ frontier[s].gas \in Nat /\ start[s].gas \in Nat
        /\ FrontierGasLimit \in Nat /\ MaxTxGasLimit \in Nat
    BY LimitsAssumption DEF IInv, TypeInv, TallyType, FrontierType
  <2>2. /\ frontier[s].gas <= FrontierGasLimit
        /\ start[s].gas + tally[s].gas
             <= frontier[s].gas + (IF start[s].on THEN 0 ELSE MaxTxGasLimit)
    BY DEF IInv, Balanced
  <2>3. QED
    BY <2>1, <2>2
<1>2. QED
  BY <1>1, InitIInv, NextIInv, PTL DEF Spec

\* The signature cache never holds more than one entry above SigCacheSize.
THEOREM SigCacheBoundedAlways == Spec => []SigCacheBounded
<1>1. IInv => SigCacheBounded
  BY DEF IInv, CacheInv
<1>2. QED
  BY <1>1, InitIInv, NextIInv, PTL DEF Spec

\* The limits on gas and on the signature cache hold together.
THEOREM LimitedAlways == Spec => []Limited
BY GasLimitedAlways, SigCacheBoundedAlways, PTL DEF Limited
==============================================================================
