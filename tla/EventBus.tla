------------------------------ MODULE EventBus ------------------------------
(***************************************************************************)
(* The in-process event bus every engine talks through                     *)
(* (core/event_bus.py): one bounded asyncio.Queue and one worker task per  *)
(* subscription, publishers that wait on a full queue unless the           *)
(* subscription evicts, and flush() that joins the queues one by one.      *)
(*                                                                         *)
(* queue.put suspends only on a full queue and queue.get only on an empty  *)
(* one, so publish() runs in one step from its start, or from the put it   *)
(* was suspended in, to the next full queue.  Handlers publish too: the    *)
(* worker tasks are publishers like the sources.  A suspended put is a     *)
(* future in the queue's deque of putters; every get wakes the first one,  *)
(* which looks again when it runs and goes to the back when the queue is   *)
(* full once more.                                                         *)
(***************************************************************************)
EXTENDS Integers, Sequences, SequencesExt, FiniteSets, FiniteSetsExt

CONSTANTS
  Sources,     \* tasks that publish on their own (feed, catch-up, replay)
  Flushers,    \* the sources that also call flush()
  SubscribeOrder, \* the subscriptions, in the order the wiring makes them
  TypeOrder,   \* the event types, in the order they were first subscribed to
  TypeOf,      \* subscription -> event type
  Wants,       \* subscription -> the symbols its filter lets through
  DropIfFull,  \* the subscriptions made with drop_if_full
  Emits,       \* subscription -> the event types its handler may publish
  Feeds,       \* source -> the <<type, symbol>> pairs it publishes
  Removable,   \* the subscriptions whose owner unsubscribes
  CanStop,     \* whether stop() may be called
  QueueSize,   \* maxsize of the queues
  MaxEvents,   \* bound on the events of one source
  NoEvent      \* no event

Subs  == Range(SubscribeOrder)
Types == Range(TypeOrder)
Procs == Sources \cup Subs    \* a worker task is named after its subscription

\* With room for two events an eviction never makes a queue look finished.
ASSUME BusConstants ==
  /\ IsInjective(SubscribeOrder) /\ SubscribeOrder \in Seq(Subs) /\ TypeOrder \in Seq(Types)
  /\ IsFiniteSet(Sources) /\ Sources \cap Subs = {}
  /\ Flushers \subseteq Sources
  /\ DropIfFull \subseteq Subs
  /\ Removable \subseteq Subs
  /\ QueueSize \in Nat /\ QueueSize >= 2
  /\ MaxEvents \in Nat
  /\ TypeOf \in [Subs -> Types]
  /\ Emits \in [Subs -> SUBSET Types]
  /\ \A p \in Sources : Feeds[p] \subseteq Types \X UNION {Wants[s] : s \in Subs}

VARIABLES
  running,   \* _running
  made,      \* how many subscriptions of SubscribeOrder have been made
  subs,      \* _subscriptions: event type -> list of subscriptions
  queue,     \* Subscription.queue
  worker,    \* the _drain task: "none", "idle", "busy", "emitted", "cancelled"
  handling,  \* the event the worker's handler is working on, or worked on last
  call,      \* publish() in progress: its event, list index and subscription
  putters,   \* the deque of suspended puts of each queue
  woken,     \* publishers whose put was woken and has not run yet
  sent,      \* events published so far by each task
  flushing,  \* position of a flush() in progress, 0 if none
  joined,    \* flushers whose join() was woken
  newest,    \* last event put into each queue (history)
  owed       \* <<event, subscription>>: routed to it but not yet put (history)

pubVars  == <<queue, call, putters, newest, owed>>
vars     == <<running, made, subs, queue, worker, handling, call, putters, woken, sent,
              flushing, joined, newest, owed>>

NoCall == [sub |-> "none"]

Init ==
  /\ running = TRUE                 \* start() is the first thing the wiring does
  /\ made = 0
  /\ subs = [t \in Types |-> <<>>]
  /\ queue = [s \in Subs |-> <<>>]
  /\ worker = [s \in Subs |-> "none"]
  /\ handling = [s \in Subs |-> NoEvent]
  /\ call = [p \in Procs |-> NoCall]
  /\ putters = [s \in Subs |-> <<>>]
  /\ woken = {}
  /\ sent = [p \in Procs |-> 0]
  /\ flushing = [p \in Flushers |-> 0]
  /\ joined = {}
  /\ newest = [s \in Subs |-> NoEvent]
  /\ owed = {}

-----------------------------------------------------------------------------
(* Queues *)

full(s) == Len(queue[s]) >= QueueSize

\* queue.join()'s counter: events put and not yet marked done.
unfinished(s) == Len(queue[s]) + (IF worker[s] \in {"busy", "emitted"} THEN 1 ELSE 0)

Matches(s, e) == e.sym \in Wants[s]

\* The eviction of the oldest event of a full drop_if_full queue, and the put.
Enqueue(s, e) ==
  IF s \in DropIfFull /\ full(s) THEN Append(Tail(queue[s]), e) ELSE Append(queue[s], e)

\* The futures woken when a slot of s is freed: the first putter.
wakeup_next(s) == IF putters[s] = <<>> THEN {} ELSE {Head(putters[s])}

-----------------------------------------------------------------------------
(* Publishing *)

\* publish() must wait for this subscription.
Blocks(s, e) == Matches(s, e) /\ full(s) /\ s \notin DropIfFull

\* The loop of publish() from list index `from` on, up to its end or to the
\* next put that suspends; `also` is the put that just went through.
Route(p, e, from, also) ==
  LET tgt   == subs[e.type]
      stops == {j \in from .. Len(tgt) : Blocks(tgt[j], e)}
      stop  == IF stops = {} THEN Len(tgt) + 1 ELSE Min(stops)
      reach == also \cup {tgt[j] : j \in {k \in from .. stop - 1 : Matches(tgt[k], e)}}
  IN  /\ queue' = [s \in Subs |-> IF s \in reach THEN Enqueue(s, e) ELSE queue[s]]
      /\ newest' = [s \in Subs |-> IF s \in reach THEN e ELSE newest[s]]
      /\ IF stops = {}
         THEN call' = [call EXCEPT ![p] = NoCall] /\ UNCHANGED putters
         ELSE /\ call' = [call EXCEPT ![p] = [ev |-> e, idx |-> stop, sub |-> tgt[stop]]]
              /\ putters' = [putters EXCEPT ![tgt[stop]] = Append(@, p)]
      /\ owed' = (owed \ {<<e, s>> : s \in reach})
                   \cup (IF also # {} THEN {}
                         ELSE {<<e, s>> : s \in {x \in Range(tgt) : Matches(x, e)} \ reach})

\* A call of publish() by task p; it does nothing when the bus is stopped.
publish(p, type, sym) ==
  LET e == [src |-> p, n |-> sent[p] + 1, type |-> type, sym |-> sym]
  IN  /\ call[p] = NoCall
      /\ sent' = [sent EXCEPT ![p] = @ + 1]
      /\ IF running THEN Route(p, e, 1, {}) ELSE UNCHANGED pubVars

SourcePublish(p) ==
  /\ sent[p] < MaxEvents
  /\ p \in Flushers => flushing[p] = 0
  /\ \E f \in Feeds[p] : publish(p, f[1], f[2])
  /\ UNCHANGED <<running, made, subs, worker, handling, woken, flushing, joined>>

\* A woken put runs: it may find the queue full again, filled by a publisher
\* that ran in between.  Otherwise publish() goes on with the next entry of the
\* list, which may have changed meanwhile.
ResumePut(p) ==
  /\ p \in woken
  /\ woken' = woken \ {p}
  /\ LET s == call[p].sub
     IN  IF full(s)
         THEN /\ putters' = [putters EXCEPT ![s] = Append(@, p)]
              /\ UNCHANGED <<queue, call, newest, owed>>
         ELSE Route(p, call[p].ev, call[p].idx + 1, {s})
  /\ UNCHANGED <<running, made, subs, worker, handling, sent, flushing, joined>>

-----------------------------------------------------------------------------
(* Workers *)

\* Variant: a slot is freed and nobody is told.
DrainGet_NoWake(s) ==
  /\ worker[s] = "idle" /\ queue[s] # <<>>
  /\ handling' = [handling EXCEPT ![s] = Head(queue[s])]
  /\ queue' = [queue EXCEPT ![s] = Tail(@)]
  /\ worker' = [worker EXCEPT ![s] = "busy"]
  /\ UNCHANGED <<running, made, subs, call, sent, flushing, joined, newest, owed, woken, putters>>

\* Variant: the newest event is taken first.
DrainGet_Newest(s) ==
  /\ worker[s] = "idle" /\ queue[s] # <<>>
  /\ handling' = [handling EXCEPT ![s] = Last(queue[s])]
  /\ queue' = [queue EXCEPT ![s] = Front(@)]
  /\ worker' = [worker EXCEPT ![s] = "busy"]
  /\ woken' = woken \cup wakeup_next(s)
  /\ putters' = [putters EXCEPT ![s] = IF @ = <<>> THEN @ ELSE Tail(@)]
  /\ UNCHANGED <<running, made, subs, call, sent, flushing, joined, newest, owed>>

\* _drain: take the next event and enter the handler.
DrainGet(s) ==
  /\ worker[s] = "idle" /\ queue[s] # <<>>
  /\ handling' = [handling EXCEPT ![s] = Head(queue[s])]
  /\ queue' = [queue EXCEPT ![s] = Tail(@)]
  /\ worker' = [worker EXCEPT ![s] = "busy"]
  /\ woken' = woken \cup wakeup_next(s)
  /\ putters' = [putters EXCEPT ![s] = IF @ = <<>> THEN @ ELSE Tail(@)]
  /\ UNCHANGED <<running, made, subs, call, sent, flushing, joined, newest, owed>>

\* The handler publishes an event of its own, and waits when it has to.
HandlerEmit(s) ==
  /\ worker[s] = "busy"
  /\ \E t \in Emits[s] : publish(s, t, handling[s].sym)
  /\ worker' = [worker EXCEPT ![s] = "emitted"]
  /\ UNCHANGED <<running, made, subs, handling, woken, flushing, joined>>

\* flush() tasks waiting in the join() of a subscription.
FlushSeq == FlattenSeq([j \in 1 .. Len(TypeOrder) |-> subs[TypeOrder[j]]])
Joining(s) == {p \in Flushers : flushing[p] # 0 /\ FlushSeq[flushing[p]] = s}

\* The handler returned or raised: task_done() either way.
HandlerDone(s) ==
  /\ worker[s] \in {"busy", "emitted"}
  /\ call[s] = NoCall
  /\ worker' = [worker EXCEPT ![s] = "idle"]
  /\ joined' = joined \cup (IF queue[s] = <<>> THEN Joining(s) ELSE {})
  /\ UNCHANGED <<running, made, subs, handling, woken, sent, flushing, pubVars>>

-----------------------------------------------------------------------------
(* flush() *)

\* The joins from position `from` on that do not return at once.
JoinFrom(p, from) ==
  LET waits == {j \in from .. Len(FlushSeq) : unfinished(FlushSeq[j]) > 0}
  IN  flushing' = [flushing EXCEPT ![p] = IF waits = {} THEN 0 ELSE Min(waits)]

FlushCall(p) ==
  /\ call[p] = NoCall /\ flushing[p] = 0
  /\ \E s \in Range(FlushSeq) : unfinished(s) > 0    \* otherwise it returns at once
  /\ JoinFrom(p, 1)
  /\ UNCHANGED <<running, made, subs, worker, handling, woken, sent, joined, pubVars>>

\* A join() that was woken returns without looking again.
FlushResume(p) ==
  /\ p \in joined
  /\ joined' = joined \ {p}
  /\ JoinFrom(p, flushing[p] + 1)
  /\ UNCHANGED <<running, made, subs, worker, handling, woken, sent, pubVars>>

-----------------------------------------------------------------------------
(* Subscriptions and shutdown *)

subscribe ==
  /\ made < Len(SubscribeOrder)
  /\ made' = made + 1
  /\ LET s == SubscribeOrder[made + 1]
     IN  /\ subs' = [subs EXCEPT ![TypeOf[s]] = Append(@, s)]
         /\ worker' = [worker EXCEPT ![s] = "idle"]
  /\ UNCHANGED <<running, handling, woken, sent, flushing, joined, pubVars>>

\* A deque of putters once the puts of S have left it.
without(seq, S) ==
  LET f[i \in 0 .. Len(seq)] ==
        IF i = 0 THEN <<>> ELSE IF seq[i] \in S THEN f[i - 1] ELSE Append(f[i - 1], seq[i])
  IN  f[Len(seq)]

\* A woken put that is cancelled passes its wake-up on while there is room.
Handover(S, x) ==
  LET lost == {p \in S \cap woken : call[p].sub = x}
      rest == without(putters[x], S)
  IN  IF full(x) THEN {}
      ELSE {rest[j] : j \in 1 .. Min({Len(rest), Cardinality(lost)})}

\* The worker tasks S are cancelled: a handler is left where it stands, the
\* put it is suspended in included.
CancelWorkers(S) ==
  /\ worker' = [s \in Subs |-> IF s \in S THEN "cancelled" ELSE worker[s]]
  /\ call' = [p \in Procs |-> IF p \in S THEN NoCall ELSE call[p]]
  /\ putters' = [x \in Subs |-> without(putters[x], S \cup Handover(S, x))]
  /\ woken' = (woken \ S) \cup UNION {Handover(S, x) : x \in Subs}
  /\ joined' = joined \cup UNION {Joining(s) : s \in {x \in S : queue[x] = <<>>}}
  /\ owed' = {o \in owed : o[1].src \notin S /\ o[2] \notin S}

\* list.remove: the entries behind s move up by one.
removed(seq, s) ==
  IF \E i \in DOMAIN seq : seq[i] = s
  THEN RemoveAt(seq, CHOOSE i \in DOMAIN seq : seq[i] = s)
  ELSE seq

unsubscribe(s) ==
  /\ worker[s] \notin {"none", "cancelled"}
  /\ CancelWorkers({s})
  /\ subs' = [subs EXCEPT ![TypeOf[s]] = removed(@, s)]
  /\ UNCHANGED <<running, made, queue, handling, sent, flushing, newest>>

stop ==
  /\ CanStop /\ running
  /\ running' = FALSE
  /\ CancelWorkers({s \in Subs : worker[s] # "none"})
  /\ UNCHANGED <<made, subs, queue, handling, sent, flushing, newest>>

-----------------------------------------------------------------------------
Work(s) == DrainGet(s) \/ HandlerEmit(s) \/ HandlerDone(s)

Next ==
  \/ \E p \in Sources : SourcePublish(p)
  \/ \E p \in Procs : ResumePut(p)
  \/ \E s \in Subs : Work(s)
  \/ \E p \in Flushers : FlushCall(p) \/ FlushResume(p)
  \/ subscribe
  \/ \E s \in Removable : unsubscribe(s)
  \/ stop

\* The event loop runs every task that is ready and every handler returns.
Fairness ==
  /\ \A p \in Procs : WF_vars(ResumePut(p))
  /\ \A s \in Subs : WF_vars(Work(s))
  /\ \A p \in Flushers : WF_vars(FlushResume(p))

Spec == Init /\ [][Next]_vars /\ Fairness

-----------------------------------------------------------------------------
(* Properties *)

Events == [src : Procs, n : Nat, type : Types, sym : UNION {Wants[s] : s \in Subs}]
Calls  == [ev : Events, idx : Nat \ {0}, sub : Subs]

\* Types; the queues stay within maxsize, whatever publishers resume in which
\* order: a woken put that lost its slot to another publisher waits again.
BusTypeOK ==
  /\ running \in BOOLEAN
  /\ made \in 0 .. Len(SubscribeOrder)
  /\ subs \in [Types -> Seq(Subs)]
  /\ queue \in [Subs -> Seq(Events)]
  /\ \A s \in Subs : Len(queue[s]) <= QueueSize
  /\ worker \in [Subs -> {"none", "idle", "busy", "emitted", "cancelled"}]
  /\ handling \in [Subs -> Events \cup {NoEvent}]
  /\ call \in [Procs -> Calls \cup {NoCall}]
  /\ putters \in [Subs -> Seq(Procs)]
  /\ woken \subseteq Procs
  /\ sent \in [Procs -> Nat]
  /\ flushing \in [Flushers -> Nat]
  /\ joined \subseteq Flushers
  /\ newest \in [Subs -> Events \cup {NoEvent}]

\* No lost wake-up: when a queue has room and its worker is alive, a suspended
\* put of it has been woken.  (asyncio.Queue's protocol as publish() and the
\* cancellation of handlers that publish use it.)
NoLostWakeup ==
  \A s \in Subs :
    (putters[s] # <<>> /\ ~full(s)) =>
      Cardinality({p \in woken : call[p].sub = s})
        >= Min({Len(putters[s]), QueueSize - Len(queue[s])})

\* Each subscriber sees the events of one publisher in the order they were
\* published, through suspension, wake-up, eviction and overtaking: the event
\* being handled and the queue behind it are increasing per publisher.
PublisherOrder ==
  \A s \in Subs :
    LET line == (IF handling[s] = NoEvent THEN <<>> ELSE <<handling[s]>>) \o queue[s]
    IN  \A i, j \in 1 .. Len(line) :
          (i < j /\ line[i].src = line[j].src) => line[i].n < line[j].n

\* drop_if_full keeps the latest value: the last event routed to such a
\* subscription is still queued, or it is the one its handler got last.
LatestValueKept ==
  \A s \in DropIfFull :
    (newest[s] # NoEvent /\ worker[s] # "cancelled") =>
      newest[s] \in Range(queue[s]) \cup {handling[s]}

\* publish() routes to all matching subscribers: an event that is owed to a
\* subscriber still has a publish() call in progress that will put it.
RoutesToAll ==
  \A o \in owed : \E p \in Procs : call[p] # NoCall /\ call[p].ev = o[1]

\* Backpressure ends: a publish() that waits for a slow subscriber returns as
\* long as the bus runs.  It needs handlers that do not publish in a circle.
PublishReturns ==
  \A p \in Procs : (call[p] # NoCall) ~> (call[p] = NoCall \/ ~running)

\* flush() blocks until every subscriber queue has been drained, the events
\* that handlers publish while it waits included.
FlushDrains ==
  [][\A p \in Flushers :
       (flushing[p] # 0 /\ flushing'[p] = 0 /\ running)
         => \A s \in Subs : unfinished(s) = 0]_vars

-----------------------------------------------------------------------------
(* The properties together, as a run checks them *)

\* publish() and the workers keep asyncio.Queue's protocol: no queue grows past
\* maxsize, and no put sleeps while its queue has room.
QueueProtocolHolds == BusTypeOK /\ NoLostWakeup

\* What was published arrives: at every matching subscriber, in the order of its
\* publisher, the latest value even where a full queue drops.
DeliveryIsFaithful == PublisherOrder /\ LatestValueKept /\ RoutesToAll
=============================================================================
