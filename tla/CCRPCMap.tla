------------------------------ MODULE CCRPCMap ------------------------------
(***************************************************************************)
(* The pure part of package ccrpc: the configured epochs (app.toml key     *)
(* cc-rpc-epochs) and the mapping from the end time of a main chain epoch  *)
(* (EEBT, epoch end block time) to a height of the smart chain.            *)
(*                                                                         *)
(* Smart block times are passed as a function ts from heights to times.    *)
(***************************************************************************)
EXTENDS Integers, Sequences, FiniteSets

CONSTANTS
    Epochs,    \* cc-rpc-epochs: a sequence of [from, n, nn] (main height, main blocks, smart delay)
    ForkBlock  \* cc-rpc-fork-block: the smart height that switches the feature on

EpochEntry == [from : Nat \ {0}, n : Nat \ {0}, nn : Nat]

\* What validCCRPCEpochs enforces, with its numeric limits (6 <= n <= 2500, nn >= 1000 n) relaxed to
\* what the algorithm needs: at least one entry, no zeros, ascending main heights.
ASSUME EpochsAssumption ==
    /\ Epochs \in Seq(EpochEntry)
    /\ Len(Epochs) > 0
    /\ \A i, j \in DOMAIN Epochs : i <= j => Epochs[i].from <= Epochs[j].from
    /\ ForkBlock \in Nat

\* The main height at which the first epoch starts.
FirstMain == Epochs[1].from

\* The entry in force for an epoch that starts at main height nextFirst: the loop runs until
\* the first entry that starts later and keeps the one before it.
getEpoch(nextFirst) ==
    LET reached == {i \in DOMAIN Epochs : \A j \in 1..i : Epochs[j].from <= nextFirst}
    IN  Epochs[CHOOSE i \in reached : \A j \in reached : j <= i]

\* Last main height of the epoch that starts at nextFirst (fetcher's nextLast).
nextLast(nextFirst) == nextFirst + getEpoch(nextFirst).n - 1

\* The main height the fetcher waits for: one more epoch length, as a margin against reorganisations.
startFetching(nextFirst) == nextLast(nextFirst) + getEpoch(nextFirst).n

----------------------------------------------------------------------------
\* sort.Search of the Go library: the smallest i in 0..n-1 for which block start - i is older than
\* eebt, n when there is none.  (For n < 0 its loop does not run and it returns 0.)
SortSearch(ts, start, n, eebt) ==
    LET after == {i \in 0..(n - 1) : ts[start - i] < eebt}
    IN  IF after # {} THEN CHOOSE i \in after : \A j \in after : i <= j
        ELSE IF n < 0 THEN 0 ELSE n

n_entries(start, searchBack) == IF searchBack > start THEN start ELSE searchBack

\* Where the binary search leaves blockAfterTime.
found(ts, start, searchBack, eebt) ==
    start - SortSearch(ts, start, n_entries(start, searchBack), eebt)

\* The linear walk down: the highest block at or below f that is older than eebt, or 1.
WalkDown(ts, f, eebt) ==
    LET stop == {g \in 1..f : g = 1 \/ ts[g] < eebt}
    IN  CHOOSE g \in stop : \A h \in stop : h <= g

WalkUpStrict(ts, low, start, eebt) ==
    {f \in low..start : ts[f] > eebt /\ \A g \in low..(f - 1) : ts[g] <= eebt}

\* The linear walk up from low: the first block that is not older than eebt, as a set that is
\* empty when even block start is older.
WalkUp(ts, low, start, eebt) ==
    {f \in low..start : ts[f] >= eebt /\ \A g \in low..(f - 1) : ts[g] < eebt}

NotFound == [ok |-> 0, above |-> 0]

blockAfterTime(ts, start, searchBack, eebt) ==
    LET n   == n_entries(start, searchBack)
        f   == found(ts, start, searchBack, eebt)
        low == WalkDown(ts, f, eebt)
        up  == WalkUp(ts, low, start, eebt)
    IN  IF SortSearch(ts, start, n, eebt) = n \/ f \in {0, 1} THEN NotFound
        ELSE IF low = 1 THEN NotFound
        ELSE IF up = {} THEN [ok |-> 0, above |-> start]
        ELSE [ok |-> CHOOSE g \in up : TRUE, above |-> 0]

\* The heights the two linear walks read for certain, and the ones the binary search may read.
WalkedHeights(ts, start, searchBack, eebt) ==
    LET n   == n_entries(start, searchBack)
        f   == found(ts, start, searchBack, eebt)
        low == WalkDown(ts, f, eebt)
        r   == blockAfterTime(ts, start, searchBack, eebt)
    IN  IF SortSearch(ts, start, n, eebt) = n \/ f \in {0, 1} THEN {}
        ELSE IF low = 1 THEN 2..f
        ELSE (low..f) \cup (low..(IF r.ok > 0 THEN r.ok ELSE start))
SearchedHeights(start, searchBack) ==
    (start - n_entries(start, searchBack) + 1)..start

\* The reference: block f is the first one that is not older than eebt on a chain with block times ts.
MapsTo(ts, len, f, eebt) ==
    /\ f \in 2..len
    /\ ts[f] >= eebt
    /\ \A g \in 1..(f - 1) : ts[g] < eebt

=============================================================================
