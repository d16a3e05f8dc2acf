--------------------------- MODULE BlockAfterTime ---------------------------
(***************************************************************************)
(* blockAfterTime step by step: the binary search of sort.Search and the   *)
(* two linear walks, one iteration of a loop per step.  It is shown to     *)
(* return what the operator blockAfterTime of CCRPCMap says, which the     *)
(* cross-chain model uses as one step, and to read only the blocks that    *)
(* WalkedHeights and SearchedHeights name.                                 *)
(***************************************************************************)
EXTENDS CCRPCMap

CONSTANTS
    MaxLen,   \* bound: blocks in the history store
    MaxStamp  \* bound: largest block time

ASSUME SearchBoundsAssumption == MaxLen \in Nat /\ MaxStamp \in Nat

VARIABLES
    ts,          \* block times, by height
    blockStart,  \* parameters of the call
    searchBack,
    eebt,
    i, j,        \* sort.Search: the answer is in i..j
    at,          \* found
    loop,        \* the loop that runs: "search", "down", "up", or "done"
    answer,      \* the two results
    reads        \* heights passed to GetBlockByHeight

searchVars == <<ts, blockStart, searchBack, eebt, i, j, at, loop, answer, reads>>

\* Header times are whole seconds of a clock that does not go back.  The caller searches back to a
\* height in 0..blockStart, or from the block below it.
SearchInit ==
    /\ blockStart \in 0..MaxLen
    /\ ts \in {f \in [1..blockStart -> 0..MaxStamp] : \A g \in 2..blockStart : f[g - 1] <= f[g]}
    /\ searchBack \in -1..blockStart
    /\ eebt \in 0..MaxStamp
    /\ i = 0
    /\ j = n_entries(blockStart, searchBack)
    /\ at = 0
    /\ loop = "search"
    /\ answer = NotFound
    /\ reads = {}

HalveStuck ==
    /\ loop = "search" /\ i < j
    /\ LET h == (i + j) \div 2
       IN  /\ reads' = reads \cup {blockStart - h}
           /\ IF ts[blockStart - h] < eebt THEN j' = h /\ i' = i ELSE i' = h /\ j' = j
    /\ UNCHANGED <<ts, blockStart, searchBack, eebt, at, loop, answer>>

\* One iteration of sort.Search with the predicate after.
Halve ==
    /\ loop = "search" /\ i < j
    /\ LET h == (i + j) \div 2
       IN  /\ reads' = reads \cup {blockStart - h}
           /\ IF ts[blockStart - h] < eebt THEN j' = h /\ i' = i ELSE i' = h + 1 /\ j' = j
    /\ UNCHANGED <<ts, blockStart, searchBack, eebt, at, loop, answer>>

SearchDoneAtTwo ==
    /\ loop = "search" /\ i >= j
    /\ at' = blockStart - i
    /\ loop' = IF i = n_entries(blockStart, searchBack) \/ at' <= 2 THEN "done" ELSE "down"
    /\ UNCHANGED <<ts, blockStart, searchBack, eebt, i, j, answer, reads>>

\* sort.Search returns i: not found at the end of the range, or at the genesis block.
SearchDone ==
    /\ loop = "search" /\ i >= j
    /\ at' = blockStart - i
    /\ loop' = IF i = n_entries(blockStart, searchBack) \/ at' \in {0, 1} THEN "done" ELSE "down"
    /\ UNCHANGED <<ts, blockStart, searchBack, eebt, i, j, answer, reads>>

\* One test of the loop that walks down.
StepDown ==
    /\ loop = "down"
    /\ reads' = IF at > 1 THEN reads \cup {at} ELSE reads
    /\ IF at > 1 /\ ts[at] >= eebt THEN at' = at - 1 /\ loop' = "down"
       ELSE at' = at /\ loop' = IF at = 1 THEN "done" ELSE "up"
    /\ UNCHANGED <<ts, blockStart, searchBack, eebt, i, j, answer>>

\* One test of the loop that walks up; the tip itself may still be too old.
StepUp ==
    /\ loop = "up"
    /\ reads' = reads \cup {at}
    /\ IF ts[at] >= eebt THEN answer' = [ok |-> at, above |-> 0] /\ loop' = "done" /\ at' = at
       ELSE IF at = blockStart THEN answer' = [ok |-> 0, above |-> at] /\ loop' = "done" /\ at' = at
       ELSE at' = at + 1 /\ UNCHANGED <<loop, answer>>
    /\ UNCHANGED <<ts, blockStart, searchBack, eebt, i, j>>

SearchNext == Halve \/ SearchDone \/ StepDown \/ StepUp
SearchSpec == SearchInit /\ [][SearchNext]_searchVars /\ WF_searchVars(SearchNext)
----------------------------------------------------------------------------
\* The loops return what the operator says, found height and "above the tip" both.
AgreesWithOperator ==
    loop = "done" => answer = blockAfterTime(ts, blockStart, searchBack, eebt)

\* A height that is returned is the first block that is not older than eebt in the whole chain, not
\* only in the range searched; block 1 never is.
FirstNotOlder ==
    loop = "done" /\ answer.ok # 0 => MapsTo(ts, blockStart, answer.ok, eebt)

\* Nothing is found only when the range has no block older than eebt above the genesis block, so
\* that a larger range, or none, could hold the answer.
NotFoundMeansOutside ==
    loop = "done" /\ answer = NotFound /\ searchBack >= 0 =>
        \A g \in (blockStart - searchBack + 1)..blockStart : g > 1 => ts[g] >= eebt

\* GetBlockByHeight is only asked for blocks the model of the caller expects to be read.
ReadsExpected ==
    reads \subseteq WalkedHeights(ts, blockStart, searchBack, eebt)
                        \cup SearchedHeights(blockStart, searchBack)

\* The loops of blockAfterTime agree with the operator that CCRPC uses, return the first block that is
\* not older, report nothing only when there is nothing in the range, and read no other block.
SearchIsRight == AgreesWithOperator /\ FirstNotOlder /\ NotFoundMeansOutside /\ ReadsExpected

\* The search ends.
SearchEnds == <>(loop = "done")
=============================================================================
