--------------------------- MODULE DedicatedOutput ---------------------------
(***************************************************************************)
(* The dedicated output queue of the test application                      *)
(* (uint128_test_app/src/cpp/output_guard.cpp): many threads fill output   *)
(* proxies, a proxy enqueues its text when it is destroyed, and one output *)
(* thread pops the items and writes them.  The main thread drains and      *)
(* pauses the queue, joins the output thread and restarts it, with or      *)
(* without a result file.                                                  *)
(*                                                                         *)
(* Steps are cut where another thread can interleave: at every unprotected *)
(* load and at every release of m_mutex.  A critical section that does not *)
(* block is one step.  The only thread that keeps m_mutex from one step to *)
(* the next is the output thread, between the predicate of its wait and    *)
(* the wait itself (cpc = "blocking"): request_stop() does not take the    *)
(* lock, so it can fall exactly there.                                     *)
(*                                                                         *)
(* One thread calls clear_queue_and_pause and restart, as in the program,  *)
(* where only the main thread does.                                        *)
(***************************************************************************)
EXTENDS Naturals, Sequences

CONSTANTS
  Producers,    \* threads that write through proxies or enqueue directly
  Routes,       \* the ways they do it that an instance explores
  MaxItems,     \* bound: items offered by each producer
  MaxRestarts   \* bound: calls of restart

ProxyRoutes == {"cout_proxy", "cerr_proxy", "file_out_proxy"}
DirectRoutes == {"enqueue_output", "enqueue_error", "enqueue_file_output"}

ASSUME ConstantsAssumption ==
  /\ Routes \subseteq ProxyRoutes \cup DirectRoutes
  /\ MaxItems \in Nat
  /\ MaxRestarts \in Nat

(***************************************************************************)
(* dedicated_output_target of an item.  cerr_proxy() constructs its proxy  *)
(* with std_out.                                                           *)
(***************************************************************************)
TargetOf(route) ==
  CASE route \in {"cout_proxy", "cerr_proxy", "enqueue_output"} -> "std_out"
    [] route = "enqueue_error"                                  -> "std_err"
    [] route \in {"file_out_proxy", "enqueue_file_output"}      -> "file_out"

\* blank: the text is empty (a proxy nothing was streamed into)
Item == [from : Producers, no : 1..MaxItems, route : Routes, blank : BOOLEAN]

\* What became of an item the output thread popped.
Fates == {"std_out", "std_err", "file_out",  \* written there
          "blank",                           \* nothing to write
          "dropped",                         \* stop seen between pop and write
          "lost"}                            \* written to a destroyed stream

Outcome == [item : Item, to : Fates, thread : 0..MaxRestarts]

VARIABLES
  queue,      \* m_queue
  suppress,   \* m_suppress_enqueue
  paused,     \* m_paused
  file,       \* m_wrapped_filestream.has_value()
  stop,       \* stop state of m_output_thread
  cpc,        \* where the output thread is
  held,       \* its payload: << >> or <<item>>
  mpc,        \* where the main thread is in clear_queue_and_pause
  ppc,        \* where each producer is
  route,      \* the proxy a producer has open
  made,       \* items each producer has offered
  item,       \* the item a producer is enqueueing: << >> or <<item>>
  restarts,   \* calls of restart so far: the number of the output thread
  accepted,   \* history: every item put into m_queue, in order
  output      \* history: every popped item, with its fate and its thread

mainVars == <<mpc, paused, restarts>>
consumerVars == <<cpc, held, output>>
producerVars == <<ppc, route, made, item>>
vars == <<queue, suppress, paused, file, stop, cpc, held, mpc, ppc, route,
          made, item, restarts, accepted, output>>

NoRoute == "none"

ConsumerPCs == {"top", "lock", "blocking", "waiting", "notify_empty", "check",
                "write", "write_file", "exited", "joined"}
MainPCs == {"idle", "await_empty", "relock", "request_stop", "notify", "join"}
ProducerPCs == {"idle", "open", "enqueue", "notify"}

TypeOK ==
  /\ queue \in Seq(Item)
  /\ suppress \in BOOLEAN
  /\ paused \in BOOLEAN
  /\ file \in BOOLEAN
  /\ stop \in BOOLEAN
  /\ cpc \in ConsumerPCs
  /\ held \in {<< >>} \cup {<<i>> : i \in Item}
  /\ mpc \in MainPCs
  /\ ppc \in [Producers -> ProducerPCs]
  /\ route \in [Producers -> Routes \cup {NoRoute}]
  /\ made \in [Producers -> 0..MaxItems]
  /\ item \in [Producers -> {<< >>} \cup {<<i>> : i \in Item}]
  /\ restarts \in 0..MaxRestarts
  /\ accepted \in Seq(Item)
  /\ output \in Seq(Outcome)

\* make_dedicated_output, with or without a path: the thread is running.
Init ==
  /\ queue = << >>
  /\ suppress = FALSE
  /\ paused = FALSE
  /\ file \in BOOLEAN
  /\ stop = FALSE
  /\ cpc = "top"
  /\ held = << >>
  /\ mpc = "idle"
  /\ ppc = [p \in Producers |-> "idle"]
  /\ route = [p \in Producers |-> NoRoute]
  /\ made = [p \in Producers |-> 0]
  /\ item = [p \in Producers |-> << >>]
  /\ restarts = 0
  /\ accepted = << >>
  /\ output = << >>

MutexFree == cpc # "blocking"

-----------------------------------------------------------------------------
(* Producers: the proxies and enqueue_item                                 *)

\* cout_proxy, cerr_proxy, file_out_proxy / try_get_output_proxy.  The last
\* two look at m_wrapped_filestream without the lock, and give a proxy only
\* when it is there (file_out_proxy throws, the other returns nullopt).
OpenProxy(p, r) ==
  /\ ppc[p] = "idle"
  /\ made[p] < MaxItems
  /\ r \in Routes \cap ProxyRoutes
  /\ r = "file_out_proxy" => file
  /\ ppc' = [ppc EXCEPT ![p] = "open"]
  /\ route' = [route EXCEPT ![p] = r]
  /\ UNCHANGED <<queue, suppress, file, stop, made, item, accepted>>
  /\ UNCHANGED <<mainVars, consumerVars>>

\* Mutant of Offer: a refused proxy keeps its queue and can offer once more.
OfferKeepingProxy(p, r, b) ==
  LET new == [from |-> p, no |-> made[p] + 1, route |-> r, blank |-> b]
  IN /\ made' = [made EXCEPT ![p] = @ + 1]
     /\ \/ /\ suppress
           /\ UNCHANGED <<ppc, item, route>>
        \/ /\ ~suppress
           /\ ppc' = [ppc EXCEPT ![p] = "enqueue"]
           /\ item' = [item EXCEPT ![p] = <<new>>]
           /\ route' = [route EXCEPT ![p] = NoRoute]
     /\ UNCHANGED <<queue, suppress, file, stop, accepted>>
     /\ UNCHANGED <<mainVars, consumerVars>>

\* enqueue_item up to its first, unlocked, load of m_suppress_enqueue.
Offer(p, r, b) ==
  LET new == [from |-> p, no |-> made[p] + 1, route |-> r, blank |-> b]
  IN /\ made' = [made EXCEPT ![p] = @ + 1]
     /\ route' = [route EXCEPT ![p] = NoRoute]
     /\ \/ /\ suppress
           /\ ppc' = [ppc EXCEPT ![p] = "idle"]
           /\ UNCHANGED item
        \/ /\ ~suppress
           /\ ppc' = [ppc EXCEPT ![p] = "enqueue"]
           /\ item' = [item EXCEPT ![p] = <<new>>]
     /\ UNCHANGED <<queue, suppress, file, stop, accepted>>
     /\ UNCHANGED <<mainVars, consumerVars>>

\* ~output_proxy
CloseProxy(p, b) ==
  /\ ppc[p] = "open"
  /\ Offer(p, route[p], b)

\* enqueue_output, enqueue_error, enqueue_file_output
EnqueueDirectly(p, r, b) ==
  /\ ppc[p] = "idle"
  /\ made[p] < MaxItems
  /\ r \in Routes \cap DirectRoutes
  /\ Offer(p, r, b)

\* Mutant of Push: the item goes to the front of the queue.
PushAtFront(p) ==
  /\ queue' = item[p] \o queue
  /\ accepted' = accepted \o item[p]
  /\ ppc' = [ppc EXCEPT ![p] = "notify"]

Push(p) ==
  /\ queue' = queue \o item[p]
  /\ accepted' = accepted \o item[p]
  /\ ppc' = [ppc EXCEPT ![p] = "notify"]

\* Mutant of Enqueue: m_suppress_enqueue is not loaded again under the lock.
EnqueueWithoutRecheck(p) ==
  /\ ppc[p] = "enqueue"
  /\ MutexFree
  /\ item' = [item EXCEPT ![p] = << >>]
  /\ Push(p)
  /\ UNCHANGED <<suppress, file, stop, route, made, mainVars, consumerVars>>

\* The locked part of enqueue_item: m_suppress_enqueue is loaded again.
Enqueue(p) ==
  /\ ppc[p] = "enqueue"
  /\ MutexFree
  /\ item' = [item EXCEPT ![p] = << >>]
  /\ \/ /\ ~suppress
        /\ Push(p)
     \/ /\ suppress
        /\ ppc' = [ppc EXCEPT ![p] = "idle"]
        /\ UNCHANGED <<queue, accepted>>
  /\ UNCHANGED <<suppress, file, stop, route, made, mainVars, consumerVars>>

\* m_not_empty_condition: only the output thread waits on it.
NotifyNotEmpty == cpc' = IF cpc = "waiting" THEN "lock" ELSE cpc

\* Mutant of NotifyOne: the notification is forgotten.
NotifyNobody(p) ==
  /\ ppc[p] = "notify"
  /\ ppc' = [ppc EXCEPT ![p] = "idle"]
  /\ UNCHANGED <<queue, suppress, file, stop, cpc, held, output, route, made,
                 item, accepted, mainVars>>

\* notify_one, after the lock is released
NotifyOne(p) ==
  /\ ppc[p] = "notify"
  /\ ppc' = [ppc EXCEPT ![p] = "idle"]
  /\ NotifyNotEmpty
  /\ UNCHANGED <<queue, suppress, file, stop, held, output, route, made, item,
                 accepted, mainVars>>

-----------------------------------------------------------------------------
(* The output thread: start_loop                                           *)

ConsumerUnchanged ==
  UNCHANGED <<queue, suppress, paused, file, stop, mpc, restarts, accepted,
              producerVars>>

\* The loop condition and the check that follows it.
LoopTop ==
  /\ cpc = "top"
  /\ cpc' = IF stop THEN "exited" ELSE "lock"
  /\ UNCHANGED <<held, output>>
  /\ ConsumerUnchanged

\* Lock and evaluate the predicate of the wait.  When it holds the thread goes
\* on, pops or returns, and unlocks; when it does not, the thread is about to
\* block and still holds the lock.
LockAndLook ==
  /\ cpc = "lock"
  /\ \/ /\ queue # << >>
        /\ held' = <<Head(queue)>>
        /\ queue' = Tail(queue)
        /\ cpc' = IF Len(queue) = 1 THEN "notify_empty" ELSE "check"
     \/ /\ queue = << >>
        /\ stop
        /\ cpc' = "exited"
        /\ UNCHANGED <<held, queue>>
     \/ /\ queue = << >>
        /\ ~stop
        /\ cpc' = "blocking"
        /\ UNCHANGED <<held, queue>>
  /\ UNCHANGED <<suppress, paused, file, stop, mpc, restarts, accepted, output,
                 producerVars>>

\* The wait itself: release the lock and sleep.
Block ==
  /\ cpc = "blocking"
  /\ cpc' = "waiting"
  /\ UNCHANGED <<held, output>>
  /\ ConsumerUnchanged

\* A spurious wakeup, which condition_variable::wait allows.
SpuriousWake ==
  /\ cpc = "waiting"
  /\ cpc' = "lock"
  /\ UNCHANGED <<held, output>>
  /\ ConsumerUnchanged

\* Mutant of NotifyEmpty: m_empty_condition is not notified.
NotifyEmptyForgotten ==
  /\ cpc = "notify_empty"
  /\ cpc' = "check"
  /\ UNCHANGED <<queue, suppress, paused, file, stop, held, output, mpc,
                 restarts, accepted, producerVars>>

\* m_empty_condition.notify_all(), when the pop emptied the queue
NotifyEmpty ==
  /\ cpc = "notify_empty"
  /\ cpc' = "check"
  /\ mpc' = IF mpc = "await_empty" THEN "relock" ELSE mpc
  /\ UNCHANGED <<queue, suppress, paused, file, stop, held, output, restarts,
                 accepted, producerVars>>

\* The output thread is done with its payload.
Finish(fate) ==
  /\ output' = Append(output, [item |-> held[1], to |-> fate,
                               thread |-> restarts])
  /\ held' = << >>

\* The check between the pop and the write: the payload is discarded.
CheckStop ==
  /\ cpc = "check"
  /\ \/ /\ stop
        /\ cpc' = "exited"
        /\ Finish("dropped")
     \/ /\ ~stop
        /\ cpc' = "write"
        /\ UNCHANGED <<held, output>>
  /\ ConsumerUnchanged

\* Write the payload; for the file, up to m_wrapped_filestream.has_value(),
\* which is read without the lock.
Write ==
  /\ cpc = "write"
  /\ LET target == TargetOf(held[1].route)
     IN \/ /\ held[1].blank
           /\ cpc' = "top"
           /\ Finish("blank")
        \/ /\ ~held[1].blank
           /\ target \in {"std_out", "std_err"}
           /\ cpc' = "top"
           /\ Finish(target)
        \/ /\ ~held[1].blank
           /\ target = "file_out"
           /\ file
           /\ cpc' = "write_file"
           /\ UNCHANGED <<held, output>>
        \/ /\ ~held[1].blank
           /\ target = "file_out"
           /\ ~file
           /\ cpc' = "top"
           /\ Finish("std_out")
  /\ ConsumerUnchanged

\* Write to the stream has_value() announced.  If the main thread destroyed it
\* meanwhile the write is undefined: it got out before the close, or it is lost.
WriteFile ==
  /\ cpc = "write_file"
  /\ cpc' = "top"
  /\ \/ Finish("file_out")
     \/ ~file /\ Finish("lost")
  /\ ConsumerUnchanged

-----------------------------------------------------------------------------
(* The main thread: clear_queue_and_pause and restart                      *)

MainUnchanged ==
  UNCHANGED <<queue, held, output, accepted, producerVars>>

\* From the lock to the wait for an empty queue, or to the unlock.
PauseEnter ==
  /\ mpc = "idle"
  /\ MutexFree
  /\ suppress' = TRUE
  /\ \/ /\ paused
        /\ UNCHANGED <<paused, file, mpc>>
     \/ /\ ~paused
        /\ queue # << >>
        /\ mpc' = "await_empty"
        /\ UNCHANGED <<paused, file>>
     \/ /\ ~paused
        /\ queue = << >>
        /\ paused' = TRUE
        /\ file' = FALSE
        /\ mpc' = "request_stop"
  /\ UNCHANGED <<stop, cpc, restarts>>
  /\ MainUnchanged

PauseSpuriousWake ==
  /\ mpc = "await_empty"
  /\ mpc' = "relock"
  /\ UNCHANGED <<suppress, paused, file, stop, cpc, restarts>>
  /\ MainUnchanged

\* Mutant of PauseRelock: the wait has no predicate.
PauseRelockUnchecked ==
  /\ mpc = "relock"
  /\ MutexFree
  /\ paused' = TRUE
  /\ stop' = TRUE
  /\ file' = FALSE
  /\ mpc' = "request_stop"
  /\ UNCHANGED <<suppress, cpc, restarts>>
  /\ MainUnchanged

\* Woken: lock and evaluate the predicate of the wait again; with the queue
\* empty pause, ask the thread to stop and close the file, then unlock.
PauseRelock ==
  /\ mpc = "relock"
  /\ MutexFree
  /\ \/ /\ queue # << >>
        /\ mpc' = "await_empty"
        /\ UNCHANGED <<paused, stop, file>>
     \/ /\ queue = << >>
        /\ paused' = TRUE
        /\ stop' = TRUE
        /\ file' = FALSE
        /\ mpc' = "request_stop"
  /\ UNCHANGED <<suppress, cpc, restarts>>
  /\ MainUnchanged

\* m_output_thread.request_stop(), without the lock
PauseRequestStop ==
  /\ mpc = "request_stop"
  /\ stop' = TRUE
  /\ mpc' = "notify"
  /\ UNCHANGED <<suppress, paused, file, cpc, restarts>>
  /\ MainUnchanged

\* m_not_empty_condition.notify_all(), without the lock
PauseNotify ==
  /\ mpc = "notify"
  /\ NotifyNotEmpty
  /\ mpc' = "join"
  /\ UNCHANGED <<suppress, paused, file, stop, restarts>>
  /\ MainUnchanged

PauseJoin ==
  /\ mpc = "join"
  /\ cpc = "exited"
  /\ cpc' = "joined"
  /\ mpc' = "idle"
  /\ UNCHANGED <<suppress, paused, file, stop, restarts>>
  /\ MainUnchanged

\* restart(file_path); it throws, changing nothing, when not paused.
Restart(withFile) ==
  /\ mpc = "idle"
  /\ MutexFree
  /\ paused
  /\ restarts < MaxRestarts
  /\ restarts' = restarts + 1
  /\ file' = withFile
  /\ cpc' = "top"
  /\ stop' = FALSE
  /\ paused' = FALSE
  /\ suppress' = FALSE
  /\ UNCHANGED mpc
  /\ MainUnchanged

\* restart(): the path is read from the stream that is open, if one is.
RestartWithSameFile == Restart(file)

-----------------------------------------------------------------------------

ProducerStep(p) ==
  \/ \E r \in Routes : OpenProxy(p, r)
  \/ \E b \in BOOLEAN : CloseProxy(p, b)
  \/ \E r \in Routes, b \in BOOLEAN : EnqueueDirectly(p, r, b)
  \/ Enqueue(p)
  \/ NotifyOne(p)

\* What the output thread does by itself.
ConsumerStep ==
  LoopTop \/ LockAndLook \/ Block \/ NotifyEmpty \/ CheckStop \/ Write \/ WriteFile

\* The steps of a clear_queue_and_pause that is under way.
PauseStep == PauseRelock \/ PauseRequestStop \/ PauseNotify \/ PauseJoin

MainStep ==
  \/ PauseEnter
  \/ PauseStep
  \/ \E withFile \in BOOLEAN : Restart(withFile)
  \/ RestartWithSameFile

Next ==
  \/ \E p \in Producers : ProducerStep(p)
  \/ ConsumerStep
  \/ SpuriousWake
  \/ MainStep
  \/ PauseSpuriousWake

(***************************************************************************)
(* Every thread that can run is scheduled.  A thread that asks for m_mutex *)
(* again and again while it is taken and released gets it: strong fairness *)
(* of the steps that lock.  Nobody has to call the queue, and spurious     *)
(* wakeups need not happen.                                                *)
(***************************************************************************)
Fairness ==
  /\ WF_vars(ConsumerStep)
  /\ WF_vars(PauseStep)
  /\ SF_vars(PauseRelock)
  /\ \A p \in Producers : SF_vars(Enqueue(p)) /\ WF_vars(NotifyOne(p))

Spec == Init /\ [][Next]_vars
FairSpec == Spec /\ Fairness

-----------------------------------------------------------------------------
(* The queue as a sink: an item in the hands of the output thread is still *)
(* pending, and the sink is open while enqueueing is on.                   *)

Deliveries(s) == [i \in 1..Len(s) |-> <<s[i].item, s[i].to>>]

Sink == INSTANCE OutputSink WITH
  Items <- Item,
  Kept <- {"std_out", "std_err", "file_out", "blank"},
  Discarded <- {"dropped", "lost"},
  open <- ~suppress,
  pending <- held \o queue,
  delivered <- Deliveries(output)

\* The queue is a sink, step by step, and under the fairness of the scheduler
\* it delivers: no accepted item stays pending for ever.
ImplementsSink == Sink!Spec
DeliversLikeSink == Sink!FairSpec

-----------------------------------------------------------------------------
(* Properties                                                              *)

Items(s) == [i \in 1..Len(s) |-> s[i].item]

\* The queue is FIFO and every accepted item is in exactly one place: popped
\* and finished, in the hands of the output thread, or still queued.
Conservation == accepted = Items(output) \o held \o queue

\* A paused queue is empty and takes no more items: the two assertions of
\* clear_queue_and_pause, which a producer that loaded m_suppress_enqueue
\* before the pause must not break.
PausedMeansDrained == paused => queue = << >> /\ suppress

\* No item waits in the queue of a thread that will never pop again.
NoStrandedItem == cpc \in {"exited", "joined"} => queue = << >>

\* An item that was accepted and yet neither written nor blank is the last one
\* its output thread popped: at most one per pause, and every item before it
\* was dealt with.
LossIsLastOfItsThread ==
  \A i, j \in 1..Len(output) :
    i < j /\ output[i].to \in {"dropped", "lost"}
      => output[i].thread < output[j].thread

\* Enqueueing is off exactly while a pause is in progress or in force, so a
\* producer's item is never refused by a running queue.
RefusedOnlyWhilePausing ==
  suppress <=> paused \/ mpc \in {"await_empty", "relock"}

\* When clear_queue_and_pause has returned the output thread is gone, with no
\* payload in its hands, and restart() never runs beside an old thread.
PausedThreadIsJoined ==
  paused /\ mpc = "idle" => cpc = "joined" /\ held = << >>

\* A pause that found items queued returns.
PauseFromBacklogReturns == (mpc = "await_empty") ~> (mpc = "idle")

\* Every pause returns.
PauseReturns == (mpc = "request_stop") ~> (mpc = "idle")

\* Everything accepted has left the queue for good when a pause returns: it
\* was written to its target, or there was nothing to write.
PauseWritesEverything ==
  paused /\ mpc = "idle" =>
    \A i \in 1..Len(output) : output[i].to \notin {"dropped", "lost"}

-----------------------------------------------------------------------------
(* What the safety properties rest on: with them, an inductive invariant    *)

\* The payload is in the hands of the output thread between pop and write.
HeldWhilePopped ==
  held # << >> <=> cpc \in {"notify_empty", "check", "write", "write_file"}

\* A proxy that is open can still offer an item; a producer that passed the
\* first check of m_suppress_enqueue has its item.
ProducersReady ==
  \A p \in Producers :
    /\ ppc[p] = "open" => made[p] < MaxItems /\ route[p] \in Routes
    /\ ppc[p] = "enqueue" <=> item[p] # << >>

\* A pause sets m_paused under the lock, before it asks the thread to stop.
PausedBeforeStop ==
  /\ stop => paused
  /\ cpc \in {"exited", "joined"} => stop
  /\ mpc \in {"await_empty", "relock"} => ~paused
  /\ mpc \in {"request_stop", "notify", "join"} => paused
  /\ paused /\ mpc = "idle" <=> cpc = "joined"

\* The stream an output thread is about to write to is only taken away by a
\* pause, and after a loss nothing is popped until that pause is over.
LossEndsThread ==
  /\ cpc = "write_file" /\ ~file => paused
  /\ \A i \in 1..Len(output) :
       /\ output[i].thread <= restarts
       /\ output[i].to \in {"dropped", "lost"} /\ output[i].thread = restarts
            => paused /\ held = << >>

IndInv ==
  /\ TypeOK
  /\ HeldWhilePopped
  /\ ProducersReady
  /\ PausedBeforeStop
  /\ PausedMeansDrained
  /\ RefusedOnlyWhilePausing
==============================================================================
