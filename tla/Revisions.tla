------------------------------ MODULE Revisions -----------------------------
(***************************************************************************)
(* The schedule of EVM revisions (app/app.go): the table of heights and    *)
(* revisions in the configuration, its check when the node starts, and the *)
(* revision that a block is executed with.                                 *)
(***************************************************************************)
EXTENDS Integers, Sequences

CONSTANTS
    Tables,    \* the tables an operator may configure
    Heights    \* the heights that blocks are executed at

VARIABLES
    table,     \* config.AppConfig.HeightRevision, a sequence of pairs
    status,    \* "new", "running" or "panicked"
    revision   \* the height of the newest block, and its revision

vars == <<table, status, revision>>

FirstFork == 14444444
Istanbul == 7

Init ==
    /\ table \in Tables
    /\ status = "new"
    /\ revision = [height |-> 0, rev |-> Istanbul]

\* A slip: the heights may decrease.
validHeightRevisionUnsorted(t) ==
    /\ Len(t) > 1
    /\ \A i \in 1..Len(t) :
        /\ ~(i = 1 /\ t[i][1] # 0 /\ t[i][2] # Istanbul)
        /\ i > 1 => t[i][1] >= FirstFork
        /\ t[i][2] >= Istanbul

\* The tables that do not panic.
validHeightRevision(t) ==
    /\ Len(t) > 1
    /\ \A i \in 1..Len(t) :
        /\ ~(i = 1 /\ t[i][1] # 0 /\ t[i][2] # Istanbul)
        /\ i > 1 => t[i][1] >= FirstFork
        /\ t[i][2] >= Istanbul
        /\ t[i][1] >= (IF i = 1 THEN 0 ELSE t[i - 1][1])

\* The loop stops at the first entry above the height.
fromHeightRevision(t, height) ==
    LET stop == CHOOSE i \in 1..Len(t) + 1 :
            /\ i > Len(t) \/ height < t[i][1]
            /\ \A j \in 1..i - 1 : height >= t[j][1]
    IN IF stop = 1 THEN Istanbul ELSE t[stop - 1][2]

\* The check is made unless the configuration says Testing, as only tests do.
NewApp ==
    /\ status = "new"
    /\ status' = IF validHeightRevision(table) THEN "running" ELSE "panicked"
    /\ UNCHANGED <<table, revision>>

syncBlockInfo(height) ==
    /\ status = "running" /\ height > revision.height
    /\ revision' = [height |-> height, rev |-> fromHeightRevision(table, height)]
    /\ UNCHANGED <<table, status>>

Next == NewApp \/ \E h \in Heights : syncBlockInfo(h)

Spec == Init /\ [][Next]_vars

-----------------------------------------------------------------------------
\* The entries of the table at or below a height.
Reached(height) == {i \in 1..Len(table) : table[i][1] <= height}

\* A node that starts executes every block with the revision of the last entry
\* of the table whose height the block has reached, although the loop of
\* fromHeightRevision gives up at the first entry that is above the block.
LastReachedApplies ==
    status = "running" /\ revision.height > 0 =>
        IF Reached(revision.height) = {} THEN revision.rev = Istanbul
        ELSE \E i \in Reached(revision.height) :
                /\ \A j \in Reached(revision.height) : j <= i
                /\ revision.rev = table[i][2]

\* What the panic of validHeightRevision says of the table of a node that runs:
\* "must start with [0,7]".
StartsWithIstanbul == status = "running" => table[1] = <<0, Istanbul>>
=============================================================================
