------------------------------- MODULE Filters -------------------------------
(***************************************************************************)
(* Filters and subscriptions of the RPC API: the event loop that installs  *)
(* subscriptions and broadcasts events over unbuffered channels, one       *)
(* goroutine per filter that receives them, the clients' calls, and the    *)
(* loop that removes filters nobody polls.                                 *)
(*                                                                         *)
(* A send on an unbuffered channel and its receipt are one step.  A        *)
(* section under filtersMu that does not block is one step; only the       *)
(* time-out loop holds the lock over several.  Timers are those of Go 1.23:*)
(* Stop drains an expired timer and fails only if its value was received.  *)
(***************************************************************************)
EXTENDS Integers, FiniteSets

CONSTANTS
    Filters,        \* identifiers of filters and websocket subscriptions
    Kind,           \* "logs", "txs" or "heads", per filter
    Ws,             \* those that are websocket subscriptions, without buffer and timer
    MaxEvents,      \* bound: events per kind
    MaxTicks,       \* bound: rounds of the time-out loop
    MaxPolls        \* bound: polls per filter

Kinds == {"logs", "txs", "heads"}
None == "none"

ASSUME FiltersAssumption ==
    /\ IsFiniteSet(Filters) /\ Kind \in [Filters -> Kinds] /\ Ws \subseteq Filters /\ None \notin Filters
    /\ \A f \in Ws : Kind[f] # "txs"

VARIABLES
    stage,      \* a client's request for the filter: none, install, insert, done
    filters,    \* the keys of api.filters
    index,      \* the event loop's index
    closed,     \* subscriptions whose err channel is closed
    reader,     \* the filter's goroutine: none, recv, append (has an event), leave, done
    unsub,      \* Unsubscribe: no, asking, done
    timer,      \* off, running, fired (value not received), drained
    buf, sent, taken,   \* events in the buffer, sent to the filter, taken by polls
    loop,       \* the event loop: the event's kind, the filters still to be served, the one served
    chan,       \* events waiting in the loop's channels
    events,     \* events published so far, per kind
    mu,         \* filtersMu: free, timeout (held by the loop), stuck (a poll waits in it)
    scan,       \* the time-out loop: filters still to be looked at, the one it unsubscribes
    ticks, polls

vars == <<stage, filters, index, closed, reader, unsub, timer, buf, sent, taken, loop, chan, events,
          mu, scan, ticks, polls>>

Idle == [kind |-> None, todo |-> {}, cur |-> None]

Init ==
    /\ stage = [f \in Filters |-> "none"] /\ filters = {} /\ index = {} /\ closed = {}
    /\ reader = [f \in Filters |-> "none"] /\ unsub = [f \in Filters |-> "no"]
    /\ timer = [f \in Filters |-> "off"]
    /\ buf = [f \in Filters |-> 0] /\ sent = buf /\ taken = buf /\ polls = buf
    /\ loop = Idle /\ chan = [k \in Kinds |-> 0] /\ events = chan
    /\ mu = "free" /\ scan = [todo |-> {}, cur |-> None] /\ ticks = 0

-----------------------------------------------------------------------------
\* NewFilter, NewBlockFilter, NewPendingTransactionFilter, NewHeads and Logs: the subscription is
\* handed to the event loop ...
Subscribe(f) ==
    /\ stage[f] = "none" /\ stage' = [stage EXCEPT ![f] = "install"]
    /\ UNCHANGED <<filters, index, closed, reader, unsub, timer, buf, sent, taken, loop, chan, events,
                   mu, scan, ticks, polls>>

\* ... then the filter is listed under the lock and its goroutine is started.
Insert(f) ==
    /\ stage[f] = "insert" /\ (f \in Ws \/ mu = "free")
    /\ stage' = [stage EXCEPT ![f] = "done"]
    /\ filters' = IF f \in Ws THEN filters ELSE filters \cup {f}
    /\ timer' = IF f \in Ws THEN timer ELSE [timer EXCEPT ![f] = "running"]
    /\ reader' = [reader EXCEPT ![f] = "recv"]
    /\ UNCHANGED <<index, closed, unsub, buf, sent, taken, loop, chan, events, mu, scan, ticks, polls>>

\* The goroutine has received events and stores or forwards them; a filter that is no longer listed
\* gets nothing.
Append(f) ==
    /\ reader[f] = "append" /\ (f \in Ws \/ mu = "free")
    /\ reader' = [reader EXCEPT ![f] = "recv"]
    /\ buf' = IF f \in filters THEN [buf EXCEPT ![f] = @ + 1] ELSE buf
    /\ UNCHANGED <<stage, filters, index, closed, unsub, timer, sent, taken, loop, chan, events, mu,
                   scan, ticks, polls>>

\* The goroutine finds its subscription ended.
ReaderEnds(f) ==
    /\ \/ reader[f] = "recv" /\ f \in closed /\ f \notin Ws /\ mu = "free"
       \/ reader[f] = "leave" /\ unsub[f] = "done"
    /\ reader' = [reader EXCEPT ![f] = "done"] /\ filters' = filters \ {f}
    /\ UNCHANGED <<stage, index, closed, unsub, timer, buf, sent, taken, loop, chan, events, mu, scan,
                   ticks, polls>>

\* A websocket client unsubscribes or goes away: the goroutine itself calls Unsubscribe.
ClientLeaves(f) ==
    /\ f \in Ws /\ reader[f] = "recv" /\ unsub[f] = "no"
    /\ reader' = [reader EXCEPT ![f] = "leave"] /\ unsub' = [unsub EXCEPT ![f] = "asking"]
    /\ UNCHANGED <<stage, filters, index, closed, timer, buf, sent, taken, loop, chan, events, mu, scan,
                   ticks, polls>>

UninstallFilter(f) ==
    /\ mu = "free" /\ f \in filters
    /\ filters' = filters \ {f} /\ unsub' = [unsub EXCEPT ![f] = "asking"]
    /\ UNCHANGED <<stage, index, closed, reader, timer, buf, sent, taken, loop, chan, events, mu, scan,
                   ticks, polls>>

\* GetFilterChanges: a timer whose value was received elsewhere makes it wait for ever.
GetFilterChanges(f) ==
    /\ mu = "free" /\ f \in filters /\ polls[f] < MaxPolls /\ polls' = [polls EXCEPT ![f] = @ + 1]
    /\ IF timer[f] = "drained" THEN mu' = "stuck" /\ UNCHANGED <<timer, buf, taken>>
       ELSE /\ timer' = [timer EXCEPT ![f] = "running"] /\ mu' = mu
            /\ taken' = [taken EXCEPT ![f] = @ + buf[f]] /\ buf' = [buf EXCEPT ![f] = 0]
    /\ UNCHANGED <<stage, filters, index, closed, reader, unsub, sent, loop, chan, events, scan, ticks>>

-----------------------------------------------------------------------------
\* The application publishes an event (a feed); the channel's capacity is not reached.  Events of a
\* kind that no filter can ask for are left out.
Publish(k) ==
    /\ \E f \in Filters : Kind[f] = k
    /\ events[k] < MaxEvents /\ events' = [events EXCEPT ![k] = @ + 1]
    /\ chan' = [chan EXCEPT ![k] = @ + 1]
    /\ UNCHANGED <<stage, filters, index, closed, reader, unsub, timer, buf, sent, taken, loop, mu, scan,
                   ticks, polls>>

InstallSub(f) ==
    /\ loop = Idle /\ stage[f] = "install"
    /\ stage' = [stage EXCEPT ![f] = "insert"] /\ index' = index \cup {f}
    /\ UNCHANGED <<filters, closed, reader, unsub, timer, buf, sent, taken, loop, chan, events, mu, scan,
                   ticks, polls>>

\* A slip: the loop acknowledges before it removes the subscription from its index.
UninstallLate(f) ==
    /\ loop = Idle /\ unsub[f] = "asking"
    /\ unsub' = [unsub EXCEPT ![f] = "done"] /\ closed' = closed \cup {f}
    /\ UNCHANGED <<stage, filters, index, reader, timer, buf, sent, taken, loop, chan, events, mu, scan,
                   ticks, polls>>

UninstallSub(f) ==
    /\ loop = Idle /\ unsub[f] = "asking"
    /\ unsub' = [unsub EXCEPT ![f] = "done"] /\ index' = index \ {f} /\ closed' = closed \cup {f}
    /\ UNCHANGED <<stage, filters, reader, timer, buf, sent, taken, loop, chan, events, mu, scan, ticks,
                   polls>>

\* handleTxsEvent, handleChainEvent: every filter of the kind; handleLogs, handleRemovedLogs: those
\* that the logs match.
TakeEvent(k) ==
    /\ loop = Idle /\ chan[k] > 0 /\ chan' = [chan EXCEPT ![k] = @ - 1]
    /\ LET all == {f \in index : Kind[f] = k}
       IN  \E todo \in IF k = "logs" THEN SUBSET all ELSE {all} :
              loop' = IF todo = {} THEN Idle ELSE [kind |-> k, todo |-> todo, cur |-> None]
    /\ UNCHANGED <<stage, filters, index, closed, reader, unsub, timer, buf, sent, taken, events, mu, scan,
                   ticks, polls>>

\* The range over the index comes to the next filter, in an order of its own.
ServeNext(f) ==
    /\ loop.cur = None /\ f \in loop.todo /\ loop' = [loop EXCEPT !.cur = f, !.todo = @ \ {f}]
    /\ UNCHANGED <<stage, filters, index, closed, reader, unsub, timer, buf, sent, taken, chan, events, mu,
                   scan, ticks, polls>>

Served == loop' = IF loop.todo = {} THEN Idle ELSE [loop EXCEPT !.cur = None]

\* The filter's goroutine receives.
Send(f) ==
    /\ loop.cur = f /\ reader[f] = "recv"
    /\ reader' = [reader EXCEPT ![f] = "append"] /\ sent' = [sent EXCEPT ![f] = @ + 1]
    /\ Served
    /\ UNCHANGED <<stage, filters, index, closed, unsub, timer, buf, taken, chan, events, mu, scan, ticks,
                   polls>>

\* A slip: Unsubscribe does not read what the loop is writing.
DrainNothing(f) == FALSE /\ UNCHANGED vars

\* Unsubscribe reads what the loop is writing; of the four channels it leaves out txs.
Drain(f) ==
    /\ loop.cur = f /\ unsub[f] = "asking" /\ loop.kind # "txs"
    /\ Served
    /\ UNCHANGED <<stage, filters, index, closed, reader, unsub, timer, buf, sent, taken, chan, events, mu,
                   scan, ticks, polls>>

-----------------------------------------------------------------------------
TimerFires(f) ==
    /\ timer[f] = "running" /\ ticks < MaxTicks /\ timer' = [timer EXCEPT ![f] = "fired"]
    /\ UNCHANGED <<stage, filters, index, closed, reader, unsub, buf, sent, taken, loop, chan, events, mu,
                   scan, ticks, polls>>

\* A round of timeoutLoop begins.
TimeoutRound ==
    /\ mu = "free" /\ ticks < MaxTicks /\ ticks' = ticks + 1
    /\ mu' = "timeout" /\ scan' = [todo |-> filters, cur |-> None]
    /\ UNCHANGED <<stage, filters, index, closed, reader, unsub, timer, buf, sent, taken, loop, chan, events,
                   polls>>

TimeoutLook(f) ==
    /\ mu = "timeout" /\ scan.cur = None /\ f \in scan.todo
    /\ scan' = [todo |-> scan.todo \ {f}, cur |-> IF timer[f] = "fired" THEN f ELSE None]
    /\ timer' = IF timer[f] = "fired" THEN [timer EXCEPT ![f] = "drained"] ELSE timer
    /\ unsub' = IF timer[f] = "fired" THEN [unsub EXCEPT ![f] = "asking"] ELSE unsub
    /\ UNCHANGED <<stage, filters, index, closed, reader, buf, sent, taken, loop, chan, events, mu, ticks,
                   polls>>

\* A slip: the filter whose deadline has passed stays listed.
TimeoutKeeps(f) ==
    /\ scan.cur = f /\ unsub[f] = "done" /\ scan' = [scan EXCEPT !.cur = None]
    /\ UNCHANGED <<stage, filters, index, closed, reader, unsub, timer, buf, sent, taken, loop, chan, events,
                   mu, ticks, polls>>

\* Unsubscribe has returned, the filter is deleted.
TimeoutDelete(f) ==
    /\ scan.cur = f /\ unsub[f] = "done"
    /\ scan' = [scan EXCEPT !.cur = None] /\ filters' = filters \ {f}
    /\ UNCHANGED <<stage, index, closed, reader, unsub, timer, buf, sent, taken, loop, chan, events, mu,
                   ticks, polls>>

TimeoutEnd ==
    /\ mu = "timeout" /\ scan = [todo |-> {}, cur |-> None] /\ mu' = "free"
    /\ UNCHANGED <<stage, filters, index, closed, reader, unsub, timer, buf, sent, taken, loop, chan, events,
                   scan, ticks, polls>>

-----------------------------------------------------------------------------
\* The steps that goroutines take on their own, and those that clients and time bring about.
Work(f) ==
    \/ Insert(f) \/ Append(f) \/ ReaderEnds(f) \/ InstallSub(f) \/ UninstallSub(f)
    \/ ServeNext(f) \/ Send(f) \/ Drain(f) \/ TimeoutLook(f) \/ TimeoutDelete(f)

Environment ==
    \/ \E f \in Filters : Subscribe(f) \/ ClientLeaves(f) \/ UninstallFilter(f) \/ GetFilterChanges(f)
                             \/ TimerFires(f)
    \/ \E k \in Kinds : Publish(k)
    \/ TimeoutRound

Next == (\E f \in Filters : Work(f)) \/ (\E k \in Kinds : TakeEvent(k)) \/ TimeoutEnd \/ Environment

\* Goroutines that can run do; the select of the event loop is fair to each of its cases.
Fairness ==
    /\ \A f \in Filters :
          /\ WF_vars(Insert(f)) /\ WF_vars(Append(f)) /\ WF_vars(ReaderEnds(f))
          /\ SF_vars(InstallSub(f)) /\ SF_vars(UninstallSub(f))
          /\ WF_vars(ServeNext(f)) /\ WF_vars(Send(f) \/ Drain(f))
          /\ WF_vars(TimeoutLook(f)) /\ WF_vars(TimeoutDelete(f))
    /\ \A k \in Kinds : SF_vars(TakeEvent(k))
    /\ WF_vars(TimeoutEnd)

Spec == Init /\ [][Next]_vars

FairSpec == Spec /\ Fairness

-----------------------------------------------------------------------------
\* Types.
TypeOK ==
    /\ stage \in [Filters -> {"none", "install", "insert", "done"}]
    /\ filters \subseteq Filters /\ index \subseteq Filters /\ closed \subseteq Filters
    /\ reader \in [Filters -> {"none", "recv", "append", "leave", "done"}]
    /\ unsub \in [Filters -> {"no", "asking", "done"}]
    /\ timer \in [Filters -> {"off", "running", "fired", "drained"}]
    /\ buf \in [Filters -> Nat] /\ sent \in [Filters -> Nat] /\ taken \in [Filters -> Nat]
    /\ chan \in [Kinds -> Nat]
    /\ loop \in [kind : Kinds \cup {None}, todo : SUBSET Filters, cur : Filters \cup {None}]
    /\ scan \in [todo : SUBSET Filters, cur : Filters \cup {None}]
    /\ mu \in {"free", "timeout", "stuck"}

\* A poll never waits for a timer whose value the time-out loop has received: such a filter is gone
\* before the lock is free again ("timer expired but filter is not yet removed in timeout loop").
PollNeverStuck == mu # "stuck"

\* The event loop never writes to a subscription whose Unsubscribe has returned ("this ensures that
\* the manager won't use the event channel").
NoSendAfterUnsubscribe ==
    \A f \in Filters : unsub[f] = "done" => f \notin index /\ loop.cur # f /\ f \notin loop.todo

\* Every event that reached a listed filter is in its buffer, was taken by a poll, or is in the hand
\* of its goroutine: none is lost or seen twice between poll, append and time-out.
NothingLost ==
    \A f \in filters : sent[f] = taken[f] + buf[f] + (IF reader[f] = "append" THEN 1 ELSE 0)

\* A poll always gets through and finds every event that reached its filter, once.
PollsComplete == PollNeverStuck /\ NothingLost

\* A client's Unsubscribe returns.
UnsubscribeReturns == \A f \in Filters : (unsub[f] = "asking") ~> (unsub[f] = "done")

\* A broadcast comes to its end ("This prevents the eventLoop broadcast method to deadlock when
\* writing to the filter event channel").
BroadcastEnds == (loop # Idle) ~> (loop = Idle)

\* Every event published is taken from its channel.
EventsTaken == \A k \in Kinds : (chan[k] > 0) ~> (chan[k] = 0)

==============================================================================
