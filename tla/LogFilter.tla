------------------------------ MODULE LogFilter ------------------------------
(***************************************************************************)
(* Which logs a client gets: from a filter it polls, from a query over a   *)
(* range of blocks (eth_getLogs, eth_getFilterLogs) and from a query for   *)
(* one block.  Delivery and locking are in Filters; here every block's     *)
(* logs reach the filter.                                                  *)
(***************************************************************************)
EXTENDS Integers, Sequences

CONSTANTS
    Blocks,         \* the contents a block may have: sets of logs [address, topics]
    Criteria,       \* [from, to, addresses, topics]; from and to are numbers, or None
    Height,         \* bound: blocks
    Width           \* QueryLogs takes numbers modulo 2^Width (32 in the code)

None == -100        \* a nil pointer
Latest == -1        \* rpc.LatestBlockNumber

VARIABLES
    chain,          \* the blocks so far; block 0 has no entry in the history
    crit,           \* the criteria of the filter, or a record without them
    since,          \* the height at which the filter was made
    changes,        \* <<height, log>> returned by polls
    answer          \* the last query: [kind, arg, logs]

vars == <<chain, crit, since, changes, answer>>

NoCrit == [from |-> None, to |-> None, addresses |-> {}, topics |-> <<>>, on |-> FALSE]
NoAnswer == [kind |-> "none", arg |-> NoCrit, logs |-> {}]

LogsAt(h) == IF h \in DOMAIN chain THEN {<<h, l>> : l \in chain[h]} ELSE {}
LatestHeight == Len(chain)

-----------------------------------------------------------------------------
includes(addresses, a) == a \in addresses

filterFunc(log, c) ==
    /\ c.addresses = {} \/ includes(c.addresses, log.address)
    /\ Len(c.topics) <= Len(log.topics)
    /\ \A i \in DOMAIN c.topics : c.topics[i] = {} \/ log.topics[i] \in c.topics[i]

\* A slip: the last block of the range is left out.
filterLogsBefore(logs, from, to, c) ==
    {e \in logs : (from >= 0 => from <= e[1]) /\ (to >= 0 => to > e[1]) /\ filterFunc(e[2], c)}

\* filterLogs, for logs with their heights.
filterLogs(logs, from, to, c) ==
    {e \in logs : (from >= 0 => from <= e[1]) /\ (to >= 0 => to >= e[1]) /\ filterFunc(e[2], c)}

\* What a block's bloom filter answers for an address or a topic of its logs; chance hits left out.
BloomOf(logs) == {l.address : l \in logs} \cup UNION {{l.topics[i] : i \in DOMAIN l.topics} : l \in logs}

bloomFilter(bloom, c) ==
    /\ c.addresses = {} \/ c.addresses \cap bloom # {}
    /\ \A i \in DOMAIN c.topics : c.topics[i] = {} \/ c.topics[i] \cap bloom # {}

\* SubscribeLogs refuses some combinations of bounds.
SubscribeLogsOK(c) ==
    LET from == IF c.from = None THEN Latest ELSE c.from
        to == IF c.to = None THEN Latest ELSE c.to
    IN  \/ from = Latest /\ to = Latest
        \/ from >= 0 /\ to >= 0 /\ to >= from
        \/ from >= 0 /\ to = Latest

-----------------------------------------------------------------------------
\* The history: logs of heights start to end - 1 that the function accepts.
QueryLogs(c, start, end) == {e \in UNION {LogsAt(h) : h \in DOMAIN chain} :
                                start <= e[1] /\ e[1] < end /\ filterFunc(e[2], c)}

\* GetLogs without a block hash: bounds that are missing or negative mean the latest block.
GetLogs(c) ==
    LET begin == IF c.from < 0 THEN LatestHeight ELSE c.from
        end == IF c.to < 0 THEN LatestHeight ELSE c.to
    IN  QueryLogs(c, begin % 2^Width, (end + 1) % 2^Width)

\* The header by hash comes without bloom filter.
HeaderByHash(h) == [number |-> h, bloom |-> {}]

checkMatches(header, c) == filterLogs(LogsAt(header.number), None, None, c)

blockLogs(header, c) == IF bloomFilter(header.bloom, c) THEN checkMatches(header, c) ELSE {}

-----------------------------------------------------------------------------
Init == chain = <<>> /\ crit = NoCrit /\ since = 0 /\ changes = {} /\ answer = NoAnswer

NewFilter(c) ==
    /\ ~ crit.on
    /\ IF SubscribeLogsOK(c) THEN crit' = [c EXCEPT !.on = TRUE] /\ since' = LatestHeight
       ELSE UNCHANGED <<crit, since>>
    /\ answer' = NoAnswer /\ UNCHANGED <<chain, changes>>

\* handleLogs with the logs of a new block.
Commit(b) ==
    /\ LatestHeight < Height /\ chain' = Append(chain, b)
    /\ changes' = IF crit.on
                  THEN changes \cup filterLogs({<<Len(chain) + 1, l>> : l \in b}, crit.from, crit.to, crit)
                  ELSE changes
    /\ UNCHANGED <<crit, since>> /\ answer' = NoAnswer

\* GetFilterLogs: the query with the filter's criteria.
GetFilterLogs ==
    /\ crit.on /\ answer' = [kind |-> "filter", arg |-> crit, logs |-> GetLogs(crit)]
    /\ UNCHANGED <<chain, crit, since, changes>>

QueryRange(c) ==
    /\ ~ crit.on /\ answer' = [kind |-> "range", arg |-> c, logs |-> GetLogs(c)]
    /\ UNCHANGED <<chain, crit, since, changes>>

\* GetLogs with a block hash.
QueryBlock(c, h) ==
    /\ ~ crit.on /\ h \in DOMAIN chain
    /\ answer' = [kind |-> "block", arg |-> [c EXCEPT !.from = h, !.to = h],
                  logs |-> blockLogs(HeaderByHash(h), c)]
    /\ UNCHANGED <<chain, crit, since, changes>>

Next ==
    \/ \E c \in Criteria : NewFilter(c) \/ QueryRange(c) \/ \E h \in 1..Height : QueryBlock(c, h)
    \/ \E b \in Blocks : Commit(b)
    \/ GetFilterLogs

Spec == Init /\ [][Next]_vars

-----------------------------------------------------------------------------
\* A log that matches criteria, from the documentation that the tests quote: an address of the list,
\* and for every rule a topic in that position which the rule names ("[null, B]: anything in first
\* position AND B in second position (and anything after)").
Matches(log, c) ==
    \E pattern \in [DOMAIN c.topics -> {log.topics[i] : i \in DOMAIN log.topics}] :
       /\ \E rest \in {SubSeq(log.topics, Len(c.topics) + 1, Len(log.topics))} :
             log.topics = [i \in DOMAIN c.topics |-> pattern[i]] \o rest
       /\ \A i \in DOMAIN c.topics : c.topics[i] # {} => pattern[i] \in c.topics[i]
       /\ c.addresses # {} => log.address \in c.addresses

\* The logs that a query over blocks should give.
Wanted(c, first, last) == {e \in UNION {LogsAt(h) : h \in first..last} : Matches(e[2], c)}

\* Polling and querying agree: what a filter with a first block has returned by polls is what a query
\* with its criteria finds in the blocks since it was made (GetFilterChanges and GetFilterLogs take
\* different ways: filterLogs over the new block, and a half-open range of the history).
PollsAgreeWithQuery ==
    answer.kind = "filter" /\ crit.from >= 0 =>
       {e \in answer.logs : e[1] > since} = changes

\* "GetLogs returns logs matching the given argument that are stored within the state."
LogsOfRange ==
    answer.kind = "range" =>
       LET c == answer.arg
       IN  answer.logs = Wanted(c, IF c.from < 0 THEN LatestHeight ELSE c.from,
                                   IF c.to < 0 THEN LatestHeight ELSE IF c.to > Height THEN Height ELSE c.to)

\* "directly inspects the contents of a block to figure out whether it is interesting or not": a query
\* for a block gives its matching logs.
LogsOfBlock == answer.kind = "block" => answer.logs = Wanted(answer.arg, answer.arg.from, answer.arg.to)

\* Every way to ask for logs finds those that match: a range, and polls compared with a query.
LogsAgree == LogsOfRange /\ PollsAgreeWithQuery
==============================================================================
