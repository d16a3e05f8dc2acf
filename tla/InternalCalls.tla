---------------------------- MODULE InternalCalls ----------------------------
(* The list of internal calls in a receipt (rpc/api/internal_calls.go).  The  *)
(* engine records the calls of a transaction as they begin and the returns as *)
(* they happen, in two lists that do not refer to each other;                 *)
(* buildInternalCallList finds the return and the place of every call from    *)
(* the depths alone.                                                          *)
EXTENDS Integers, Sequences, SequencesExt, FiniteSets

CONSTANTS
    MaxDepth,  \* bound: how deep calls nest
    MaxCalls,  \* bound: the calls of a transaction
    GasLimit   \* the gas a call may be given

VARIABLES
    calls,    \* InternalTxCalls: depth and gas, in the order the calls begin
    returns,  \* InternalTxReturns: the gas left, in the order the calls return
    frames,   \* the engine's stack of open calls: positions in calls
    retOf,    \* which return belongs to a call, as the engine knows it
    up        \* which call made a call; 0 for the outermost

vars == <<calls, returns, frames, retOf, up>>

-----------------------------------------------------------------------------
(* The engine: one transaction.                                              *)

Init == calls = <<>> /\ returns = <<>> /\ frames = <<>> /\ retOf = <<>> /\ up = <<>>

Call ==
    /\ Len(calls) < MaxCalls /\ Len(frames) < MaxDepth
    /\ frames = <<>> => calls = <<>>
    /\ \E gas \in GasLimit :
        calls' = Append(calls, [depth |-> Len(frames), gas |-> gas])
    /\ up' = Append(up, IF frames = <<>> THEN 0 ELSE Last(frames))
    /\ frames' = Append(frames, Len(calls) + 1)
    /\ retOf' = Append(retOf, 0)
    /\ UNCHANGED returns

Return ==
    /\ frames # <<>>
    /\ \E left \in 0..calls[Last(frames)].gas : returns' = Append(returns, left)
    /\ retOf' = [retOf EXCEPT ![Last(frames)] = Len(returns) + 1]
    /\ frames' = Front(frames)
    /\ UNCHANGED <<calls, up>>

Next == Call \/ Return
Spec == Init /\ [][Next]_vars

-----------------------------------------------------------------------------
(* The list.  A state of the loop: the entries, the positions on callStack,  *)
(* and how many returns have been taken.                                     *)

addRetInfo(site, r) ==
    [site EXCEPT !.ret = r, !.gasUsed = site.gas - returns[r]]

\* The path numbers the calls on the stack among their siblings.
getCallPath(list, stack) == [i \in 1..Len(stack) |-> list[stack[i]].count]

\* The number of the sibling that returned last, and one more.
Sibling(list, stack, n) == list[stack[Len(stack) - n]].count + 1

\* The top n + 1 calls of the stack return, the innermost first.
PopReturns(st, n) ==
    LET top == Len(st.stack)
        Popped(i) == \E j \in 0..n : st.stack[top - j] = i
        Order(i) == CHOOSE j \in 0..n : st.stack[top - j] = i
    IN  [list |-> [i \in 1..Len(st.list) |->
                    IF Popped(i) THEN addRetInfo(st.list[i], st.taken + Order(i) + 1)
                    ELSE st.list[i]],
         stack |-> SubSeq(st.stack, 1, top - n - 1), taken |-> st.taken + n + 1]

\* Puts a call on the stack and numbers it.
Push(st, call, count) ==
    LET i == Len(st.list) + 1
        stack == Append(st.stack, i)
        site == [depth |-> call.depth, gas |-> call.gas, count |-> count,
                 path |-> <<>>, ret |-> 0, gasUsed |-> 0]
        list == Append(st.list, site)
    IN  [st EXCEPT !.list = [list EXCEPT ![i].path = getCallPath(list, stack)],
                   !.stack = stack]

\* A slip: as many calls return as the depth falls.
AddCallOneShort(st, call) ==
    IF st.stack = <<>> \/ call.depth = st.list[Last(st.stack)].depth + 1
    THEN Push(st, call, 0)
    ELSE LET n == st.list[Last(st.stack)].depth - call.depth
         IN  Push(PopReturns(st, IF n = 0 THEN 0 ELSE n - 1), call,
                  Sibling(st.list, st.stack, n))

\* One round: the first call, a call one deeper, or one after returns.
AddCall(st, call) ==
    IF st.stack = <<>> \/ call.depth = st.list[Last(st.stack)].depth + 1
    THEN Push(st, call, 0)
    ELSE LET n == st.list[Last(st.stack)].depth - call.depth
         IN  Push(PopReturns(st, n), call, Sibling(st.list, st.stack, n))

\* At the end the calls still on the stack return.
buildInternalCallList ==
    LET st == FoldLeft(AddCall, [list |-> <<>>, stack |-> <<>>, taken |-> 0], calls)
    IN  PopReturns(st, Len(st.stack) - 1).list

-----------------------------------------------------------------------------
(* Properties, of a transaction that has ended.                              *)

Ended == calls # <<>> /\ frames = <<>>

\* Every entry carries the return of its own call, with the gas that this call
\* used, however calls nest and follow each other.
ReturnsMatched ==
    Ended => \A i \in DOMAIN calls :
        /\ buildInternalCallList[i].ret = retOf[i]
        /\ buildInternalCallList[i].gasUsed = calls[i].gas - returns[retOf[i]]

\* The path of a call is the path of the call that made it and its number
\* among the calls that one made, from 0 on.
PathsAreTree ==
    Ended => \A i \in DOMAIN calls :
        LET path(j) == buildInternalCallList[j].path
            before == {j \in 1..i - 1 : up[j] = up[i]}
        IN  IF up[i] = 0 THEN path(i) = <<0>>
            ELSE /\ Front(path(i)) = path(up[i])
                 /\ Last(path(i)) = Cardinality(before)

\* The list built from depths alone is the tree of calls that the engine made.
CallTree == ReturnsMatched /\ PathsAreTree
=============================================================================
