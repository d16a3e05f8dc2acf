---------------------------- MODULE FiltersProofs ----------------------------
(***************************************************************************)
(* Proofs about Filters for every set of filters and subscriptions and for  *)
(* every number of events, polls and rounds of the time-out loop.           *)
(***************************************************************************)
EXTENDS Filters, TLAPS

\* A listed filter whose timer has been drained is the one that the time-out
\* loop, which holds the lock, is unsubscribing.
LockInv ==
    /\ PollNeverStuck
    /\ mu = "free" => scan.cur = None
    /\ \A f \in filters : timer[f] = "drained" => scan.cur = f

\* Nothing happens to a filter before the event loop has installed it.
StartInv ==
    /\ scan.todo \subseteq Filters
    /\ \A f \in Filters : stage[f] \in {"none", "install"} =>
         unsub[f] = "no" /\ reader[f] = "none" /\ f \notin filters /\ f \notin scan.todo
    /\ \A f \in Filters : stage[f] = "insert" => reader[f] = "none"

\* The event loop serves what is in its index; what has left the index for good
\* is not served.
LoopInv == NoSendAfterUnsubscribe

\* The events of a filter; none before its goroutine runs.
CountInv ==
    /\ NothingLost
    /\ \A f \in Filters : stage[f] # "done" =>
         sent[f] = 0 /\ taken[f] = 0 /\ buf[f] = 0 /\ reader[f] = "none" /\ f \notin filters

IInv == TypeOK /\ LockInv /\ StartInv /\ LoopInv /\ CountInv

-----------------------------------------------------------------------------
\* No filter is taken for the absence of one.
LEMMA FilterIsNotNone == None \notin Filters
BY FiltersAssumption

\* The invariant holds at the start.
LEMMA InitIInv == Init => IInv
<1> SUFFICES ASSUME Init PROVE IInv
  OBVIOUS
<1>1. TypeOK
  BY DEF Init, TypeOK, Idle
<1>2. LockInv /\ StartInv
  BY DEF Init, LockInv, PollNeverStuck, StartInv
<1>3. LoopInv /\ CountInv
  BY DEF Init, LoopInv, NoSendAfterUnsubscribe, CountInv, NothingLost
<1>4. QED
  BY <1>1, <1>2, <1>3 DEF IInv

\* A client asks for a filter.
LEMMA SubscribeStep == ASSUME IInv, NEW f \in Filters, Subscribe(f) PROVE IInv'
<1> USE FilterIsNotNone DEF IInv, TypeOK, Subscribe
<1>1. TypeOK'
  OBVIOUS
<1>2. LockInv'
  BY DEF LockInv, PollNeverStuck
<1>3. StartInv'
  BY DEF StartInv
<1>4. LoopInv'
  BY DEF LoopInv, NoSendAfterUnsubscribe, Idle
<1>5. CountInv'
  BY DEF CountInv, NothingLost
<1>6. QED
  BY <1>1, <1>2, <1>3, <1>4, <1>5

\* The filter is listed.
LEMMA InsertStep == ASSUME IInv, NEW f \in Filters, Insert(f) PROVE IInv'
<1> USE FilterIsNotNone DEF IInv, TypeOK, Insert
<1>1. TypeOK'
  OBVIOUS
<1>2. LockInv'
  BY DEF LockInv, PollNeverStuck
<1>3. StartInv'
  BY DEF StartInv
<1>4. LoopInv'
  BY DEF LoopInv, NoSendAfterUnsubscribe, Idle
<1>5. CountInv'
  BY DEF CountInv, NothingLost
<1>6. QED
  BY <1>1, <1>2, <1>3, <1>4, <1>5

\* Its goroutine stores an event.
LEMMA AppendStep == ASSUME IInv, NEW f \in Filters, Append(f) PROVE IInv'
<1> USE FilterIsNotNone DEF IInv, TypeOK, Append
<1>1. TypeOK'
  OBVIOUS
<1>2. LockInv'
  BY DEF LockInv, PollNeverStuck
<1>3. StartInv'
  BY DEF StartInv
<1>4. LoopInv'
  BY DEF LoopInv, NoSendAfterUnsubscribe, Idle
<1>5. CountInv'
  BY DEF CountInv, NothingLost
<1>6. QED
  BY <1>1, <1>2, <1>3, <1>4, <1>5

\* Its goroutine ends.
LEMMA ReaderEndsStep == ASSUME IInv, NEW f \in Filters, ReaderEnds(f) PROVE IInv'
<1> USE FilterIsNotNone DEF IInv, TypeOK, ReaderEnds
<1>1. TypeOK'
  OBVIOUS
<1>2. LockInv'
  BY DEF LockInv, PollNeverStuck
<1>3. StartInv'
  BY DEF StartInv
<1>4. LoopInv'
  BY DEF LoopInv, NoSendAfterUnsubscribe, Idle
<1>5. CountInv'
  BY DEF CountInv, NothingLost
<1>6. QED
  BY <1>1, <1>2, <1>3, <1>4, <1>5

\* A websocket client leaves.
LEMMA ClientLeavesStep == ASSUME IInv, NEW f \in Filters, ClientLeaves(f) PROVE IInv'
<1> USE FilterIsNotNone DEF IInv, TypeOK, ClientLeaves
<1>1. TypeOK'
  OBVIOUS
<1>2. LockInv'
  BY DEF LockInv, PollNeverStuck
<1>3. StartInv'
  BY DEF StartInv
<1>4. LoopInv'
  BY DEF LoopInv, NoSendAfterUnsubscribe, Idle
<1>5. CountInv'
  BY DEF CountInv, NothingLost
<1>6. QED
  BY <1>1, <1>2, <1>3, <1>4, <1>5

\* A client removes a filter.
LEMMA UninstallFilterStep == ASSUME IInv, NEW f \in Filters, UninstallFilter(f) PROVE IInv'
<1> USE FilterIsNotNone DEF IInv, TypeOK, UninstallFilter
<1>1. TypeOK'
  OBVIOUS
<1>2. LockInv'
  BY DEF LockInv, PollNeverStuck
<1>3. StartInv'
  BY DEF StartInv
<1>4. LoopInv'
  BY DEF LoopInv, NoSendAfterUnsubscribe, Idle
<1>5. CountInv'
  BY DEF CountInv, NothingLost
<1>6. QED
  BY <1>1, <1>2, <1>3, <1>4, <1>5

\* A poll: the timer of a listed filter has not been drained while the lock is free.
LEMMA GetFilterChangesStep == ASSUME IInv, NEW f \in Filters, GetFilterChanges(f) PROVE IInv'
<1> USE FilterIsNotNone DEF IInv, TypeOK, GetFilterChanges
<1>1. TypeOK'
  OBVIOUS
<1>2. LockInv'
  BY DEF LockInv, PollNeverStuck
<1>3. StartInv'
  BY DEF StartInv
<1>4. LoopInv'
  BY DEF LoopInv, NoSendAfterUnsubscribe, Idle
<1>5. CountInv'
  BY DEF CountInv, NothingLost
<1>6. QED
  BY <1>1, <1>2, <1>3, <1>4, <1>5

\* An event.
LEMMA PublishStep == ASSUME IInv, NEW k \in Kinds, Publish(k) PROVE IInv'
<1> USE FilterIsNotNone DEF IInv, TypeOK, Publish
<1>1. TypeOK'
  OBVIOUS
<1>2. LockInv'
  BY DEF LockInv, PollNeverStuck
<1>3. StartInv'
  BY DEF StartInv
<1>4. LoopInv'
  BY DEF LoopInv, NoSendAfterUnsubscribe, Idle
<1>5. CountInv'
  BY DEF CountInv, NothingLost
<1>6. QED
  BY <1>1, <1>2, <1>3, <1>4, <1>5

\* The loop installs a subscription.
LEMMA InstallSubStep == ASSUME IInv, NEW f \in Filters, InstallSub(f) PROVE IInv'
<1> USE FilterIsNotNone DEF IInv, TypeOK, InstallSub
<1>1. TypeOK'
  OBVIOUS
<1>2. LockInv'
  BY DEF LockInv, PollNeverStuck
<1>3. StartInv'
  BY DEF StartInv
<1>4. LoopInv'
  BY DEF LoopInv, NoSendAfterUnsubscribe, Idle, StartInv
<1>5. CountInv'
  BY DEF CountInv, NothingLost
<1>6. QED
  BY <1>1, <1>2, <1>3, <1>4, <1>5

\* The loop removes one, between two broadcasts.
LEMMA UninstallSubStep == ASSUME IInv, NEW f \in Filters, UninstallSub(f) PROVE IInv'
<1> USE FilterIsNotNone DEF IInv, TypeOK, UninstallSub
<1>1. TypeOK'
  OBVIOUS
<1>2. LockInv'
  BY DEF LockInv, PollNeverStuck
<1>3. StartInv'
  BY DEF StartInv
<1>4. LoopInv'
  BY DEF LoopInv, NoSendAfterUnsubscribe, Idle
<1>5. CountInv'
  BY DEF CountInv, NothingLost
<1>6. QED
  BY <1>1, <1>2, <1>3, <1>4, <1>5

\* A broadcast begins.
LEMMA TakeEventStep == ASSUME IInv, NEW k \in Kinds, TakeEvent(k) PROVE IInv'
<1> USE FilterIsNotNone DEF IInv, TypeOK, TakeEvent
<1>1. TypeOK'
  OBVIOUS
<1>2. LockInv'
  BY DEF LockInv, PollNeverStuck
<1>3. StartInv'
  BY DEF StartInv
<1>4. LoopInv'
  BY DEF LoopInv, NoSendAfterUnsubscribe, Idle
<1>5. CountInv'
  BY DEF CountInv, NothingLost
<1>6. QED
  BY <1>1, <1>2, <1>3, <1>4, <1>5

\* It comes to the next filter.
LEMMA ServeNextStep == ASSUME IInv, NEW f \in Filters, ServeNext(f) PROVE IInv'
<1> USE FilterIsNotNone DEF IInv, TypeOK, ServeNext
<1>1. TypeOK'
  OBVIOUS
<1>2. LockInv'
  BY DEF LockInv, PollNeverStuck
<1>3. StartInv'
  BY DEF StartInv
<1>4. LoopInv'
  BY DEF LoopInv, NoSendAfterUnsubscribe, Idle
<1>5. CountInv'
  BY DEF CountInv, NothingLost
<1>6. QED
  BY <1>1, <1>2, <1>3, <1>4, <1>5

\* The goroutine receives.
LEMMA SendStep == ASSUME IInv, NEW f \in Filters, Send(f) PROVE IInv'
<1> USE FilterIsNotNone DEF IInv, TypeOK, Send
<1>1. TypeOK'
  BY DEF Served, Idle
<1>2. LockInv'
  BY DEF LockInv, PollNeverStuck
<1>3. StartInv'
  BY DEF StartInv
<1>4. LoopInv'
  BY DEF LoopInv, NoSendAfterUnsubscribe, Idle, Served
<1>5. CountInv'
  BY DEF CountInv, NothingLost
<1>6. QED
  BY <1>1, <1>2, <1>3, <1>4, <1>5

\* Unsubscribe receives.
LEMMA DrainStep == ASSUME IInv, NEW f \in Filters, Drain(f) PROVE IInv'
<1> USE FilterIsNotNone DEF IInv, TypeOK, Drain
<1>1. TypeOK'
  BY DEF Served, Idle
<1>2. LockInv'
  BY DEF LockInv, PollNeverStuck
<1>3. StartInv'
  BY DEF StartInv
<1>4. LoopInv'
  BY DEF LoopInv, NoSendAfterUnsubscribe, Idle, Served
<1>5. CountInv'
  BY DEF CountInv, NothingLost
<1>6. QED
  BY <1>1, <1>2, <1>3, <1>4, <1>5

\* A deadline passes.
LEMMA TimerFiresStep == ASSUME IInv, NEW f \in Filters, TimerFires(f) PROVE IInv'
<1> USE FilterIsNotNone DEF IInv, TypeOK, TimerFires
<1>1. TypeOK'
  OBVIOUS
<1>2. LockInv'
  BY DEF LockInv, PollNeverStuck
<1>3. StartInv'
  BY DEF StartInv
<1>4. LoopInv'
  BY DEF LoopInv, NoSendAfterUnsubscribe, Idle
<1>5. CountInv'
  BY DEF CountInv, NothingLost
<1>6. QED
  BY <1>1, <1>2, <1>3, <1>4, <1>5

\* The time-out loop takes the lock,
LEMMA TimeoutRoundStep == ASSUME IInv, TimeoutRound PROVE IInv'
<1> USE FilterIsNotNone DEF IInv, TypeOK, TimeoutRound
<1>1. TypeOK'
  OBVIOUS
<1>2. LockInv'
  BY DEF LockInv, PollNeverStuck
<1>3. StartInv'
  BY DEF StartInv
<1>4. LoopInv'
  BY DEF LoopInv, NoSendAfterUnsubscribe, Idle
<1>5. CountInv'
  BY DEF CountInv, NothingLost
<1>6. QED
  BY <1>1, <1>2, <1>3, <1>4, <1>5

\* looks at a filter,
LEMMA TimeoutLookStep == ASSUME IInv, NEW f \in Filters, TimeoutLook(f) PROVE IInv'
<1> USE FilterIsNotNone DEF IInv, TypeOK, TimeoutLook
<1>1. TypeOK'
  OBVIOUS
<1>2. LockInv'
  BY DEF LockInv, PollNeverStuck
<1>3. StartInv'
  BY DEF StartInv
<1>4. LoopInv'
  BY DEF LoopInv, NoSendAfterUnsubscribe, Idle
<1>5. CountInv'
  BY DEF CountInv, NothingLost
<1>6. QED
  BY <1>1, <1>2, <1>3, <1>4, <1>5

\* deletes it once its Unsubscribe has returned,
LEMMA TimeoutDeleteStep == ASSUME IInv, NEW f \in Filters, TimeoutDelete(f) PROVE IInv'
<1> USE FilterIsNotNone DEF IInv, TypeOK, TimeoutDelete
<1>1. TypeOK'
  OBVIOUS
<1>2. LockInv'
  BY DEF LockInv, PollNeverStuck
<1>3. StartInv'
  BY DEF StartInv
<1>4. LoopInv'
  BY DEF LoopInv, NoSendAfterUnsubscribe, Idle
<1>5. CountInv'
  BY DEF CountInv, NothingLost
<1>6. QED
  BY <1>1, <1>2, <1>3, <1>4, <1>5

\* and gives the lock back.
LEMMA TimeoutEndStep == ASSUME IInv, TimeoutEnd PROVE IInv'
<1> USE FilterIsNotNone DEF IInv, TypeOK, TimeoutEnd
<1>1. TypeOK'
  OBVIOUS
<1>2. LockInv'
  BY DEF LockInv, PollNeverStuck
<1>3. StartInv'
  BY DEF StartInv
<1>4. LoopInv'
  BY DEF LoopInv, NoSendAfterUnsubscribe, Idle
<1>5. CountInv'
  BY DEF CountInv, NothingLost
<1>6. QED
  BY <1>1, <1>2, <1>3, <1>4, <1>5

-----------------------------------------------------------------------------
\* Every step keeps the invariant.
LEMMA NextIInv == IInv /\ [Next]_vars => IInv'
<1> SUFFICES ASSUME IInv, [Next]_vars PROVE IInv'
  OBVIOUS
<1>1. ASSUME NEW f \in Filters, Work(f) PROVE IInv'
  BY <1>1, InsertStep, AppendStep, ReaderEndsStep, InstallSubStep, UninstallSubStep, ServeNextStep,
     SendStep, DrainStep, TimeoutLookStep, TimeoutDeleteStep DEF Work
<1>2. ASSUME NEW k \in Kinds, TakeEvent(k) PROVE IInv'
  BY <1>2, TakeEventStep
<1>3. CASE TimeoutEnd
  BY <1>3, TimeoutEndStep
<1>4. CASE Environment
  BY <1>4, SubscribeStep, ClientLeavesStep, UninstallFilterStep, GetFilterChangesStep, TimerFiresStep,
     PublishStep, TimeoutRoundStep DEF Environment
<1>5. CASE UNCHANGED vars
  BY <1>5 DEF vars, IInv, TypeOK, LockInv, PollNeverStuck, StartInv, LoopInv, NoSendAfterUnsubscribe,
     CountInv, NothingLost
<1>6. QED
  BY <1>1, <1>2, <1>3, <1>4, <1>5 DEF Next

\* The invariant holds in every state.
THEOREM IInvAlways == Spec => []IInv
BY InitIInv, NextIInv, PTL DEF Spec

\* A poll never waits for a timer that the time-out loop has drained (filter_api.go, the wait for
\* f.deadline.C in GetFilterChanges): whatever filters there are, the lock comes free only after the
\* drained filter was deleted.
THEOREM PollNeverStuckAlways == Spec => []PollNeverStuck
<1>1. IInv => PollNeverStuck
  BY DEF IInv, LockInv
<1>2. QED
  BY <1>1, IInvAlways, PTL

\* The event loop never writes to a subscription whose Unsubscribe has returned
\* (geth_filter_system.go, the channels a subscriber may reuse or drop after Unsubscribe).
THEOREM NoSendAfterUnsubscribeAlways == Spec => []NoSendAfterUnsubscribe
<1>1. IInv => NoSendAfterUnsubscribe
  BY DEF IInv, LoopInv
<1>2. QED
  BY <1>1, IInvAlways, PTL

\* Every event that reached a listed filter is in its buffer, with a poll or in the hand of its
\* goroutine (filter_api.go, the goroutines of NewFilter and the swap in GetFilterChanges).
THEOREM NothingLostAlways == Spec => []NothingLost
<1>1. IInv => NothingLost
  BY DEF IInv, CountInv
<1>2. QED
  BY <1>1, IInvAlways, PTL

\* Polls get through and miss nothing.
THEOREM PollsCompleteAlways == Spec => []PollsComplete
BY PollNeverStuckAlways, NothingLostAlways, PTL DEF PollsComplete
==============================================================================
