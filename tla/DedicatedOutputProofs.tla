------------------------ MODULE DedicatedOutputProofs ------------------------
(***************************************************************************)
(* The safety of the output queue for any number of producers, items and    *)
(* restarts.  IndInv is inductive: to the properties of a pause it adds     *)
(* where each thread is while it holds an item, and that a thread is asked  *)
(* to stop only by a pause that has already closed the queue.  On it rest   *)
(* Conservation, the losses and the refinement of the sink.                 *)
(***************************************************************************)
EXTENDS DedicatedOutput, TLAPS, SequenceTheorems

\* A queue as make_dedicated_output leaves it satisfies the invariant.
LEMMA InitInductive == Init => IndInv
<1> SUFFICES ASSUME Init PROVE IndInv
  OBVIOUS
<1>1. TypeOK
  <2>1. << >> \in Seq(Item) /\ << >> \in Seq(Outcome)
    OBVIOUS
  <2>2. 0 \in 0..MaxItems /\ 0 \in 0..MaxRestarts
    BY ConstantsAssumption
  <2>3. /\ ppc \in [Producers -> ProducerPCs]
        /\ route \in [Producers -> Routes \cup {NoRoute}]
        /\ made \in [Producers -> 0..MaxItems]
        /\ item \in [Producers -> {<< >>} \cup {<<i>> : i \in Item}]
    BY <2>2 DEF Init, ProducerPCs
  <2> QED BY <2>1, <2>2, <2>3 DEF Init, TypeOK, ConsumerPCs, MainPCs
<1>2. HeldWhilePopped /\ PausedBeforeStop /\ PausedMeansDrained /\ RefusedOnlyWhilePausing
 BY DEF Init, HeldWhilePopped, PausedBeforeStop, PausedMeansDrained,
    RefusedOnlyWhilePausing
<1>3. ProducersReady
  BY DEF Init, ProducersReady
<1> QED BY <1>1, <1>2, <1>3 DEF IndInv

\* Offering an item, by a proxy that dies or directly, keeps the invariant: the
\* producer gets the item in its hands, or drops it when it is blank or refused.
LEMMA OfferInductive ==
  ASSUME IndInv, NEW p \in Producers, NEW r \in Routes, NEW b \in BOOLEAN,
         made[p] < MaxItems, ppc[p] # "enqueue", Offer(p, r, b)
  PROVE  IndInv'
<1> DEFINE new == [from |-> p, no |-> made[p] + 1, route |-> r, blank |-> b]
<1> USE ConstantsAssumption
<1>1. made[p] \in 0..MaxItems /\ made[p] + 1 \in 1..MaxItems
  BY DEF IndInv, TypeOK
<1>2. new \in Item
  BY <1>1 DEF Item
<1>3. made' \in [Producers -> 0..MaxItems]
  BY <1>1 DEF IndInv, TypeOK, Offer
<1>4. item' \in [Producers -> {<< >>} \cup {<<i>> : i \in Item}]
  <2>1. <<new>> \in {<<i>> : i \in Item}
    BY <1>2
  <2>2. item' = item \/ item' = [item EXCEPT ![p] = <<new>>]
    BY DEF Offer
  <2> QED BY <2>1, <2>2 DEF IndInv, TypeOK
<1>5. TypeOK'
  BY <1>3, <1>4 DEF IndInv, TypeOK, Offer, mainVars, consumerVars, ProducerPCs
<1>6. (HeldWhilePopped /\ PausedBeforeStop /\ PausedMeansDrained /\ RefusedOnlyWhilePausing)'
  BY DEF IndInv, HeldWhilePopped, PausedBeforeStop, PausedMeansDrained,
         RefusedOnlyWhilePausing, Offer, mainVars, consumerVars
<1>7. ProducersReady'
  <2>1. item[p] = << >>
    BY DEF IndInv, ProducersReady
  <2>2. <<new>> # << >>
    OBVIOUS
  <2>3. CASE suppress
    BY <2>1, <2>3 DEF IndInv, TypeOK, ProducersReady, Offer
  <2>4. CASE ~suppress
    BY <2>1, <2>2, <2>4 DEF IndInv, TypeOK, ProducersReady, Offer
  <2> QED BY <2>3, <2>4
<1> QED BY <1>5, <1>6, <1>7 DEF IndInv

\* Finishing the payload, whatever its fate, empties the hands of the output
\* thread and extends the history by one outcome.
LEMMA FinishType ==
  ASSUME TypeOK, held # << >>, NEW fate \in Fates, Finish(fate)
  PROVE  held' = << >> /\ output' \in Seq(Outcome)
<1>1. held[1] \in Item
  BY DEF TypeOK
<1>2. [item |-> held[1], to |-> fate, thread |-> restarts] \in Outcome
  BY <1>1 DEF TypeOK, Outcome
<1> QED BY <1>2, AppendProperties DEF Finish, TypeOK

\* Every step of every thread keeps the invariant.  The hard cases are Enqueue,
\* which looks at m_suppress_enqueue again under the lock, and the two steps of a
\* pause that let go of the lock while it waits for the queue to become empty.
LEMMA NextInductive == IndInv /\ [Next]_vars => IndInv'
<1> SUFFICES ASSUME IndInv, [Next]_vars PROVE IndInv'
  OBVIOUS
<1> USE ConstantsAssumption DEF IndInv
<1>1. ASSUME NEW p \in Producers, NEW r \in Routes, OpenProxy(p, r) PROVE IndInv'
  <2>1. TypeOK'
    BY <1>1 DEF OpenProxy, TypeOK, ProducerPCs, mainVars, consumerVars
  <2>2. (HeldWhilePopped /\ PausedBeforeStop /\ PausedMeansDrained /\ RefusedOnlyWhilePausing)'
   BY <1>1
      DEF OpenProxy, HeldWhilePopped, PausedBeforeStop, PausedMeansDrained,
         RefusedOnlyWhilePausing, mainVars, consumerVars
  <2>3. ProducersReady'
    BY <1>1 DEF OpenProxy, TypeOK, ProducersReady
  <2> QED BY <2>1, <2>2, <2>3
<1>2. ASSUME NEW p \in Producers, NEW b \in BOOLEAN, CloseProxy(p, b) PROVE IndInv'
  <2>1. made[p] < MaxItems /\ route[p] \in Routes /\ ppc[p] # "enqueue"
    BY <1>2 DEF CloseProxy, ProducersReady
  <2> QED BY <1>2, <2>1, OfferInductive DEF CloseProxy
<1>3. ASSUME NEW p \in Producers, NEW r \in Routes, NEW b \in BOOLEAN, EnqueueDirectly(p, r, b)
      PROVE  IndInv'
  <2>1. made[p] < MaxItems /\ ppc[p] # "enqueue"
    BY <1>3 DEF EnqueueDirectly
  <2> QED BY <1>3, <2>1, OfferInductive DEF EnqueueDirectly
<1>4. ASSUME NEW p \in Producers, Enqueue(p) PROVE IndInv'
  <2>1. PICK i \in Item : item[p] = <<i>>
    BY <1>4 DEF Enqueue, TypeOK, ProducersReady
  <2>2. queue' \in Seq(Item) /\ accepted' \in Seq(Item)
    <3>1. <<i>> \in Seq(Item)
      OBVIOUS
    <3>2. queue \o <<i>> \in Seq(Item) /\ accepted \o <<i>> \in Seq(Item)
      BY <3>1 DEF TypeOK
    <3> QED BY <1>4, <2>1, <3>2 DEF Enqueue, Push, TypeOK
  <2>3. item' \in [Producers -> {<< >>} \cup {<<j>> : j \in Item}]
    BY <1>4 DEF Enqueue, TypeOK
  <2>4. TypeOK'
   BY <1>4, <2>2, <2>3
      DEF Enqueue, Push, TypeOK, ProducerPCs, mainVars, consumerVars
  <2>5. (HeldWhilePopped /\ PausedBeforeStop /\ PausedMeansDrained /\ RefusedOnlyWhilePausing)'
   BY <1>4
      DEF Enqueue, Push, HeldWhilePopped, PausedBeforeStop, PausedMeansDrained,
         RefusedOnlyWhilePausing, mainVars, consumerVars
  <2>6. ProducersReady'
    BY <1>4 DEF Enqueue, Push, TypeOK, ProducersReady
  <2> QED BY <2>4, <2>5, <2>6
<1>5. ASSUME NEW p \in Producers, NotifyOne(p) PROVE IndInv'
  <2>1. TypeOK'
   BY <1>5 DEF NotifyOne, TypeOK, NotifyNotEmpty, ConsumerPCs, ProducerPCs, mainVars
  <2>2. (HeldWhilePopped /\ PausedBeforeStop /\ PausedMeansDrained /\ RefusedOnlyWhilePausing)'
   BY <1>5
      DEF NotifyOne, TypeOK, HeldWhilePopped, PausedBeforeStop, PausedMeansDrained,
         RefusedOnlyWhilePausing, NotifyNotEmpty, ConsumerPCs, ProducerPCs, mainVars
  <2>3. ProducersReady'
   BY <1>5
      DEF NotifyOne, TypeOK, ProducersReady, NotifyNotEmpty, ConsumerPCs,
         ProducerPCs, mainVars
  <2> QED BY <2>1, <2>2, <2>3
<1>6. ASSUME LoopTop PROVE IndInv'
  <2>1. TypeOK'
    BY <1>6 DEF LoopTop, TypeOK, ConsumerUnchanged, ConsumerPCs, producerVars
  <2>2. (HeldWhilePopped /\ PausedBeforeStop /\ PausedMeansDrained /\ RefusedOnlyWhilePausing)'
   BY <1>6
      DEF LoopTop, TypeOK, HeldWhilePopped, PausedBeforeStop, PausedMeansDrained,
         RefusedOnlyWhilePausing, ConsumerUnchanged, ConsumerPCs, producerVars
  <2>3. ProducersReady'
   BY <1>6
      DEF LoopTop, TypeOK, ProducersReady, ConsumerUnchanged, ConsumerPCs,
         producerVars
  <2> QED BY <2>1, <2>2, <2>3
<1>7. ASSUME LockAndLook PROVE IndInv'
  <2>1. TypeOK'
    <3>1. CASE queue # << >>
      <4>1. Head(queue) \in Item /\ Tail(queue) \in Seq(Item)
        BY <3>1, HeadTailProperties DEF TypeOK
      <4>2. held' \in {<< >>} \cup {<<i>> : i \in Item}
        BY <1>7, <3>1, <4>1 DEF LockAndLook
      <4> QED
        BY <1>7, <3>1, <4>1, <4>2 DEF LockAndLook, TypeOK, ConsumerPCs, producerVars
    <3>2. CASE queue = << >>
      BY <1>7, <3>2 DEF LockAndLook, TypeOK, ConsumerPCs, producerVars
    <3> QED BY <3>1, <3>2
  <2>2. HeldWhilePopped'
    BY <1>7 DEF LockAndLook, HeldWhilePopped
  <2>3. (PausedBeforeStop /\ PausedMeansDrained /\ RefusedOnlyWhilePausing)'
   BY <1>7
      DEF LockAndLook, PausedBeforeStop, PausedMeansDrained, RefusedOnlyWhilePausing
  <2>4. ProducersReady'
    BY <1>7 DEF LockAndLook, ProducersReady, producerVars
  <2> QED BY <2>1, <2>2, <2>3, <2>4
<1>8. ASSUME Block PROVE IndInv'
  <2>1. TypeOK'
    BY <1>8 DEF Block, TypeOK, ConsumerUnchanged, ConsumerPCs, producerVars
  <2>2. (HeldWhilePopped /\ PausedBeforeStop /\ PausedMeansDrained /\ RefusedOnlyWhilePausing)'
   BY <1>8
      DEF Block, TypeOK, HeldWhilePopped, PausedBeforeStop, PausedMeansDrained,
         RefusedOnlyWhilePausing, ConsumerUnchanged, ConsumerPCs, producerVars
  <2>3. ProducersReady'
   BY <1>8
      DEF Block, TypeOK, ProducersReady, ConsumerUnchanged, ConsumerPCs,
         producerVars
  <2> QED BY <2>1, <2>2, <2>3
<1>9. ASSUME SpuriousWake PROVE IndInv'
  <2>1. TypeOK'
    BY <1>9 DEF SpuriousWake, TypeOK, ConsumerUnchanged, ConsumerPCs, producerVars
  <2>2. (HeldWhilePopped /\ PausedBeforeStop /\ PausedMeansDrained /\ RefusedOnlyWhilePausing)'
   BY <1>9
      DEF SpuriousWake, TypeOK, HeldWhilePopped, PausedBeforeStop,
         PausedMeansDrained, RefusedOnlyWhilePausing, ConsumerUnchanged,
         ConsumerPCs, producerVars
  <2>3. ProducersReady'
   BY <1>9
      DEF SpuriousWake, TypeOK, ProducersReady, ConsumerUnchanged, ConsumerPCs,
         producerVars
  <2> QED BY <2>1, <2>2, <2>3
<1>10. ASSUME NotifyEmpty PROVE IndInv'
  <2>1. TypeOK'
    BY <1>10 DEF NotifyEmpty, TypeOK, ConsumerPCs, MainPCs, producerVars
  <2>2. (HeldWhilePopped /\ PausedBeforeStop /\ PausedMeansDrained /\ RefusedOnlyWhilePausing)'
   BY <1>10
      DEF NotifyEmpty, TypeOK, HeldWhilePopped, PausedBeforeStop,
         PausedMeansDrained, RefusedOnlyWhilePausing, ConsumerPCs, MainPCs,
         producerVars
  <2>3. ProducersReady'
   BY <1>10
      DEF NotifyEmpty, TypeOK, ProducersReady, ConsumerPCs, MainPCs, producerVars
  <2> QED BY <2>1, <2>2, <2>3
<1>11. ASSUME CheckStop PROVE IndInv'
  <2>1. held # << >>
    BY <1>11 DEF CheckStop, HeldWhilePopped
  <2>2. (held' = << >> /\ output' \in Seq(Outcome)) \/ (held' = held /\ output' = output)
    <3>1. (\E fate \in Fates : Finish(fate)) \/ UNCHANGED <<held, output>>
      BY <1>11 DEF CheckStop, Fates, TargetOf
    <3> QED BY <2>1, <3>1, FinishType
  <2>3. TypeOK'
   BY <1>11, <2>2
      DEF CheckStop, TypeOK, ConsumerUnchanged, ConsumerPCs, producerVars
  <2>4. HeldWhilePopped'
    BY <1>11, <2>1 DEF CheckStop, HeldWhilePopped, Finish
  <2>5. (PausedBeforeStop /\ PausedMeansDrained /\ RefusedOnlyWhilePausing)'
   BY <1>11
      DEF CheckStop, PausedBeforeStop, PausedMeansDrained, RefusedOnlyWhilePausing,
         ConsumerUnchanged
  <2>6. ProducersReady'
    BY <1>11 DEF CheckStop, ProducersReady, ConsumerUnchanged, producerVars
  <2> QED BY <2>3, <2>4, <2>5, <2>6
<1>12. ASSUME Write PROVE IndInv'
  <2>1. held # << >>
    BY <1>12 DEF Write, HeldWhilePopped
  <2>2. (held' = << >> /\ output' \in Seq(Outcome)) \/ (held' = held /\ output' = output)
    <3>1. (\E fate \in Fates : Finish(fate)) \/ UNCHANGED <<held, output>>
      BY <1>12 DEF Write, Fates, TargetOf
    <3> QED BY <2>1, <3>1, FinishType
  <2>3. TypeOK'
    BY <1>12, <2>2 DEF Write, TypeOK, ConsumerUnchanged, ConsumerPCs, producerVars
  <2>4. HeldWhilePopped'
    BY <1>12, <2>1 DEF Write, HeldWhilePopped, Finish
  <2>5. (PausedBeforeStop /\ PausedMeansDrained /\ RefusedOnlyWhilePausing)'
   BY <1>12
      DEF Write, PausedBeforeStop, PausedMeansDrained, RefusedOnlyWhilePausing,
         ConsumerUnchanged
  <2>6. ProducersReady'
    BY <1>12 DEF Write, ProducersReady, ConsumerUnchanged, producerVars
  <2> QED BY <2>3, <2>4, <2>5, <2>6
<1>13. ASSUME WriteFile PROVE IndInv'
  <2>1. held # << >>
    BY <1>13 DEF WriteFile, HeldWhilePopped
  <2>2. (held' = << >> /\ output' \in Seq(Outcome)) \/ (held' = held /\ output' = output)
    <3>1. (\E fate \in Fates : Finish(fate)) \/ UNCHANGED <<held, output>>
      BY <1>13 DEF WriteFile, Fates, TargetOf
    <3> QED BY <2>1, <3>1, FinishType
  <2>3. TypeOK'
   BY <1>13, <2>2
      DEF WriteFile, TypeOK, ConsumerUnchanged, ConsumerPCs, producerVars
  <2>4. HeldWhilePopped'
    BY <1>13, <2>1 DEF WriteFile, HeldWhilePopped, Finish
  <2>5. (PausedBeforeStop /\ PausedMeansDrained /\ RefusedOnlyWhilePausing)'
   BY <1>13
      DEF WriteFile, PausedBeforeStop, PausedMeansDrained, RefusedOnlyWhilePausing,
         ConsumerUnchanged
  <2>6. ProducersReady'
    BY <1>13 DEF WriteFile, ProducersReady, ConsumerUnchanged, producerVars
  <2> QED BY <2>3, <2>4, <2>5, <2>6
<1>14. ASSUME PauseEnter PROVE IndInv'
  <2>1. TypeOK'
    BY <1>14 DEF PauseEnter, TypeOK, MainUnchanged, MainPCs, producerVars
  <2>2. (HeldWhilePopped /\ PausedBeforeStop /\ PausedMeansDrained /\ RefusedOnlyWhilePausing)'
   BY <1>14
      DEF PauseEnter, TypeOK, HeldWhilePopped, PausedBeforeStop, PausedMeansDrained,
         RefusedOnlyWhilePausing, MainUnchanged, MainPCs, producerVars
  <2>3. ProducersReady'
   BY <1>14
      DEF PauseEnter, TypeOK, ProducersReady, MainUnchanged, MainPCs, producerVars
  <2> QED BY <2>1, <2>2, <2>3
<1>15. ASSUME PauseSpuriousWake PROVE IndInv'
  <2>1. TypeOK'
    BY <1>15 DEF PauseSpuriousWake, TypeOK, MainUnchanged, MainPCs, producerVars
  <2>2. (HeldWhilePopped /\ PausedBeforeStop /\ PausedMeansDrained /\ RefusedOnlyWhilePausing)'
   BY <1>15
      DEF PauseSpuriousWake, TypeOK, HeldWhilePopped, PausedBeforeStop,
         PausedMeansDrained, RefusedOnlyWhilePausing, MainUnchanged, MainPCs,
         producerVars
  <2>3. ProducersReady'
   BY <1>15
      DEF PauseSpuriousWake, TypeOK, ProducersReady, MainUnchanged, MainPCs,
         producerVars
  <2> QED BY <2>1, <2>2, <2>3
<1>16. ASSUME PauseRelock PROVE IndInv'
  <2>1. TypeOK'
    BY <1>16 DEF PauseRelock, TypeOK, MainUnchanged, MainPCs, producerVars
  <2>2. (HeldWhilePopped /\ PausedBeforeStop /\ PausedMeansDrained /\ RefusedOnlyWhilePausing)'
   BY <1>16
      DEF PauseRelock, TypeOK, HeldWhilePopped, PausedBeforeStop,
         PausedMeansDrained, RefusedOnlyWhilePausing, MainUnchanged, MainPCs,
         producerVars
  <2>3. ProducersReady'
   BY <1>16
      DEF PauseRelock, TypeOK, ProducersReady, MainUnchanged, MainPCs, producerVars
  <2> QED BY <2>1, <2>2, <2>3
<1>17. ASSUME PauseRequestStop PROVE IndInv'
  <2>1. TypeOK'
    BY <1>17 DEF PauseRequestStop, TypeOK, MainUnchanged, MainPCs, producerVars
  <2>2. (HeldWhilePopped /\ PausedBeforeStop /\ PausedMeansDrained /\ RefusedOnlyWhilePausing)'
   BY <1>17
      DEF PauseRequestStop, TypeOK, HeldWhilePopped, PausedBeforeStop,
         PausedMeansDrained, RefusedOnlyWhilePausing, MainUnchanged, MainPCs,
         producerVars
  <2>3. ProducersReady'
   BY <1>17
      DEF PauseRequestStop, TypeOK, ProducersReady, MainUnchanged, MainPCs,
         producerVars
  <2> QED BY <2>1, <2>2, <2>3
<1>18. ASSUME PauseNotify PROVE IndInv'
  <2>1. TypeOK'
   BY <1>18
      DEF PauseNotify, TypeOK, NotifyNotEmpty, MainUnchanged, ConsumerPCs, MainPCs,
         producerVars
  <2>2. (HeldWhilePopped /\ PausedBeforeStop /\ PausedMeansDrained /\ RefusedOnlyWhilePausing)'
   BY <1>18
      DEF PauseNotify, TypeOK, HeldWhilePopped, PausedBeforeStop,
         PausedMeansDrained, RefusedOnlyWhilePausing, NotifyNotEmpty, MainUnchanged,
         ConsumerPCs, MainPCs, producerVars
  <2>3. ProducersReady'
   BY <1>18
      DEF PauseNotify, TypeOK, ProducersReady, NotifyNotEmpty, MainUnchanged,
         ConsumerPCs, MainPCs, producerVars
  <2> QED BY <2>1, <2>2, <2>3
<1>19. ASSUME PauseJoin PROVE IndInv'
  <2>1. TypeOK'
   BY <1>19 DEF PauseJoin, TypeOK, MainUnchanged, ConsumerPCs, MainPCs, producerVars
  <2>2. (HeldWhilePopped /\ PausedBeforeStop /\ PausedMeansDrained /\ RefusedOnlyWhilePausing)'
   BY <1>19
      DEF PauseJoin, TypeOK, HeldWhilePopped, PausedBeforeStop, PausedMeansDrained,
         RefusedOnlyWhilePausing, MainUnchanged, ConsumerPCs, MainPCs, producerVars
  <2>3. ProducersReady'
   BY <1>19
      DEF PauseJoin, TypeOK, ProducersReady, MainUnchanged, ConsumerPCs, MainPCs,
         producerVars
  <2> QED BY <2>1, <2>2, <2>3
<1>20. ASSUME NEW f \in BOOLEAN, Restart(f) PROVE IndInv'
  <2>1. restarts' \in 0..MaxRestarts
    BY <1>20 DEF Restart, TypeOK
  <2>2. TypeOK'
    BY <1>20, <2>1 DEF Restart, TypeOK, MainUnchanged, ConsumerPCs, producerVars
  <2>3. (HeldWhilePopped /\ PausedBeforeStop /\ PausedMeansDrained /\ RefusedOnlyWhilePausing)'
   BY <1>20
      DEF Restart, HeldWhilePopped, PausedBeforeStop, PausedMeansDrained,
         RefusedOnlyWhilePausing, MainUnchanged
  <2>4. ProducersReady'
    BY <1>20 DEF Restart, ProducersReady, MainUnchanged, producerVars
  <2> QED BY <2>2, <2>3, <2>4
<1>21. ASSUME UNCHANGED vars PROVE IndInv'
  <2>1. TypeOK'
    BY <1>21 DEF vars, TypeOK, mainVars, consumerVars, producerVars
  <2>2. (HeldWhilePopped /\ PausedBeforeStop /\ PausedMeansDrained /\ RefusedOnlyWhilePausing)'
   BY <1>21
      DEF vars, TypeOK, HeldWhilePopped, PausedBeforeStop, PausedMeansDrained,
         RefusedOnlyWhilePausing, mainVars, consumerVars, producerVars
  <2>3. ProducersReady'
    BY <1>21 DEF vars, TypeOK, ProducersReady, mainVars, consumerVars, producerVars
  <2> QED BY <2>1, <2>2, <2>3
<1> QED
 BY <1>1, <1>2, <1>3, <1>4, <1>5, <1>6, <1>7, <1>8, <1>9, <1>10, <1>11, <1>12,
    <1>13, <1>14, <1>15, <1>16, <1>17, <1>18, <1>19, <1>20, <1>21
  DEF Next, ProducerStep, ConsumerStep, MainStep, PauseStep, RestartWithSameFile,
     TypeOK

\* The invariant holds in every reachable state, for any producers and bounds.
THEOREM Inductive == Spec => []IndInv
<1>1. IndInv /\ [Next]_vars => IndInv'
  BY NextInductive
<1> QED BY <1>1, InitInductive, PTL DEF Spec

\* Every variable keeps its type: no number of items or restarts leaves its bound,
\* and no thread gets an item that no producer made.
THEOREM TypeCorrect == Spec => []TypeOK
<1>1. IndInv => TypeOK
  BY DEF IndInv
<1> QED BY <1>1, Inductive, PTL

\* clear_queue_and_pause keeps its two assertions: a paused queue is empty, and it
\* stays so because enqueueing is off exactly while a pause is in progress or in
\* force (output_guard.cpp:169-199).
THEOREM PauseDrains == Spec => [](PausedMeansDrained /\ RefusedOnlyWhilePausing)
<1>1. IndInv => PausedMeansDrained /\ RefusedOnlyWhilePausing
  BY DEF IndInv
<1> QED BY <1>1, Inductive, PTL

\* start_loop never returns with items in the queue: a thread is only asked to
\* stop by a pause, after the queue was found empty with enqueueing off.
THEOREM NothingStranded == Spec => []NoStrandedItem
<1>1. IndInv => NoStrandedItem
  BY DEF IndInv, PausedBeforeStop, PausedMeansDrained, NoStrandedItem
<1> QED BY <1>1, Inductive, PTL

\* When clear_queue_and_pause has returned the old output thread is joined with
\* nothing in its hands, so a restarted thread never runs beside it.
THEOREM PauseJoins == Spec => []PausedThreadIsJoined
<1>1. IndInv => PausedThreadIsJoined
  BY DEF IndInv, PausedBeforeStop, HeldWhilePopped, PausedThreadIsJoined
<1> QED BY <1>1, Inductive, PTL

-----------------------------------------------------------------------------
(* Sequences                                                               *)

\* A sequence that is not empty is its head followed by its tail.
LEMMA HeadThenTail ==
  ASSUME NEW S, NEW s \in Seq(S), s # << >>
  PROVE  s = <<Head(s)>> \o Tail(s)
<1>1. Head(s) \in S /\ Tail(s) \in Seq(S) /\ <<Head(s)>> \in Seq(S)
  BY HeadTailProperties
<1>2. Len(<<Head(s)>> \o Tail(s)) = Len(s)
  BY <1>1, HeadTailProperties, ConcatProperties
<1>3. \A i \in 1..Len(s) : s[i] = (<<Head(s)>> \o Tail(s))[i]
  BY <1>1, HeadTailProperties, ConcatProperties
<1> QED BY <1>1, <1>2, <1>3, SeqEqual, ConcatProperties

\* Putting an element in front of a sequence.
LEMMA HeadAndTailOfCons ==
  ASSUME NEW S, NEW e \in S, NEW s \in Seq(S)
  PROVE  /\ <<e>> \o s \in Seq(S) /\ Len(<<e>> \o s) = 1 + Len(s) /\ <<e>> \o s # << >>
         /\ Head(<<e>> \o s) = e /\ Tail(<<e>> \o s) = s
<1> DEFINE c == <<e>> \o s
<1>1. <<e>> \in Seq(S) /\ Len(<<e>>) = 1 /\ <<e>>[1] = e /\ Len(s) \in Nat
  OBVIOUS
<1>2. /\ c \in Seq(S) /\ Len(c) = 1 + Len(s)
      /\ \A i \in 1..(1 + Len(s)) : c[i] = IF i <= 1 THEN <<e>>[i] ELSE s[i - 1]
  BY <1>1, ConcatProperties
<1> HIDE DEF c
<1>3. c # << >> /\ c[1] = e
  BY <1>1, <1>2
<1>4. /\ Tail(c) \in Seq(S) /\ Len(Tail(c)) = Len(s)
      /\ \A i \in 1..Len(s) : Tail(c)[i] = c[i + 1]
  BY <1>1, <1>2, <1>3, HeadTailProperties
<1>5. \A i \in 1..Len(s) : Tail(c)[i] = s[i]
  <2> TAKE i \in 1..Len(s)
  <2>1. c[i + 1] = s[(i + 1) - 1]
    BY <1>1, <1>2
  <2> QED BY <1>1, <1>4, <2>1
<1>6. Tail(c) = s
  BY <1>4, <1>5, SeqEqual
<1> QED BY <1>2, <1>3, <1>6 DEF c

\* A function on 1..n is a sequence of length n.
LEMMA FunctionIsSeq ==
  ASSUME NEW S, NEW n \in Nat, NEW f \in [1..n -> S]
  PROVE  f \in Seq(S) /\ Len(f) = n
<1>1. f \in Seq(S)
  BY SeqDef
<1>2. Len(f) \in Nat /\ DOMAIN f = 1..Len(f)
  BY <1>1, LenProperties
<1>3. 1..n = 1..Len(f)
  BY <1>2
<1> QED BY <1>1, <1>2, <1>3

\* The items of a sequence of outcomes.
LEMMA ItemsType ==
  ASSUME NEW s \in Seq(Outcome)
  PROVE  Items(s) \in Seq(Item) /\ Len(Items(s)) = Len(s)
<1>1. Len(s) \in Nat /\ Items(s) \in [1..Len(s) -> Item]
  <2>1. Len(s) \in Nat
    BY LenProperties
  <2>2. \A i \in 1..Len(s) : s[i] \in Outcome
    BY ElementOfSeq
  <2>3. \A i \in 1..Len(s) : s[i].item \in Item
    BY <2>2 DEF Outcome
  <2> QED BY <2>1, <2>3 DEF Items
<1> QED BY <1>1, FunctionIsSeq

\* Items and Deliveries of a sequence of outcomes that grows by one.
LEMMA ItemsAppend ==
  ASSUME NEW s \in Seq(Outcome), NEW e \in Outcome
  PROVE  /\ Items(s) \in Seq(Item)
         /\ Items(Append(s, e)) = Items(s) \o <<e.item>>
<1>1. \A t \in Seq(Outcome) : Items(t) \in Seq(Item) /\ Len(Items(t)) = Len(t)
  BY ItemsType
<1>2. /\ Len(s) \in Nat
      /\ Append(s, e) \in Seq(Outcome) /\ Len(Append(s, e)) = Len(s) + 1
      /\ Append(s, e)[Len(s) + 1] = e
  BY LenProperties, AppendProperties
<1>3. <<e.item>> \in Seq(Item) /\ Len(<<e.item>>) = 1
  BY DEF Outcome
<1>4. Items(s) \o <<e.item>> \in Seq(Item) /\ Len(Items(s) \o <<e.item>>) = Len(s) + 1
  BY <1>1, <1>3
<1>5. ASSUME NEW i \in 1..(Len(s) + 1)
      PROVE  Items(Append(s, e))[i] = (Items(s) \o <<e.item>>)[i]
  <2>1. Items(Append(s, e))[i] = Append(s, e)[i].item
    BY <1>2 DEF Items
  <2>2. CASE i = Len(s) + 1
    <3>1. Items(s) \in Seq(Item) /\ Len(Items(s)) = Len(s) /\ <<e.item>>[1] = e.item
      BY <1>1
    <3>2. i \in 1..(Len(Items(s)) + Len(<<e.item>>)) /\ ~(i <= Len(Items(s))) /\ i - Len(Items(s)) = 1
      BY <1>2, <1>3, <2>2, <3>1
    <3>3. (Items(s) \o <<e.item>>)[i] = e.item
      BY <1>3, <3>1, <3>2, ConcatProperties
    <3> QED BY <1>2, <2>1, <2>2, <3>3
  <2>3. CASE i \in 1..Len(s)
    <3>1. (Items(s) \o <<e.item>>)[i] = Items(s)[i]
      BY <1>1, <1>2, <1>3, <2>3, ConcatProperties
    <3> QED BY <2>1, <2>3, <3>1 DEF Items
  <2>4. i = Len(s) + 1 \/ i \in 1..Len(s)
    BY <1>2
  <2> QED BY <2>2, <2>3, <2>4
<1>6. Items(Append(s, e)) \in Seq(Item) /\ Len(Items(Append(s, e))) = Len(s) + 1
  BY <1>1, <1>2
<1>7. Items(Append(s, e)) = Items(s) \o <<e.item>>
  BY <1>4, <1>5, <1>6, SeqEqual
<1> QED BY <1>1, <1>7

\* A popped item is delivered to the sink at the end of what was delivered before.
LEMMA DeliveriesAppend ==
  ASSUME NEW s \in Seq(Outcome), NEW e \in Outcome
  PROVE  Deliveries(Append(s, e)) = Append(Deliveries(s), <<e.item, e.to>>)
<1> DEFINE D == Item \X Fates
<1>1. ASSUME NEW t \in Seq(Outcome)
      PROVE  Deliveries(t) \in Seq(D) /\ Len(Deliveries(t)) = Len(t)
  <2>1. Len(t) \in Nat /\ Deliveries(t) \in [1..Len(t) -> D]
    <3>1. Len(t) \in Nat
      BY LenProperties
    <3>2. \A i \in 1..Len(t) : t[i] \in Outcome
      BY ElementOfSeq
    <3>3. \A i \in 1..Len(t) : t[i].item \in Item /\ t[i].to \in Fates
      BY <3>2 DEF Outcome
    <3> QED BY <3>1, <3>3 DEF Deliveries
  <2> QED BY <2>1, FunctionIsSeq
<1>2. /\ Len(s) \in Nat
      /\ Append(s, e) \in Seq(Outcome) /\ Len(Append(s, e)) = Len(s) + 1
      /\ Append(s, e)[Len(s) + 1] = e
  BY LenProperties, AppendProperties
<1>3. <<e.item, e.to>> \in D
  BY DEF Outcome
<1>4. /\ Append(Deliveries(s), <<e.item, e.to>>) \in Seq(D)
      /\ Len(Append(Deliveries(s), <<e.item, e.to>>)) = Len(s) + 1
  BY <1>1, <1>3
<1>5. ASSUME NEW i \in 1..(Len(s) + 1)
      PROVE  Deliveries(Append(s, e))[i] = Append(Deliveries(s), <<e.item, e.to>>)[i]
  <2>1. Deliveries(Append(s, e))[i] = <<Append(s, e)[i].item, Append(s, e)[i].to>>
    BY <1>2 DEF Deliveries
  <2>2. CASE i = Len(s) + 1
    BY <1>1, <1>2, <1>3, <2>1, <2>2
  <2>3. CASE i \in 1..Len(s)
    <3>1. Append(Deliveries(s), <<e.item, e.to>>)[i] = Deliveries(s)[i]
      BY <1>1, <1>3, <2>3
    <3> QED BY <2>1, <2>3, <3>1 DEF Deliveries
  <2>4. i = Len(s) + 1 \/ i \in 1..Len(s)
    BY <1>2
  <2> QED BY <2>2, <2>3, <2>4
<1>6. /\ Deliveries(Append(s, e)) \in Seq(D)
      /\ Len(Deliveries(Append(s, e))) = Len(s) + 1
  BY <1>1, <1>2
<1> HIDE DEF D
<1> QED BY <1>4, <1>5, <1>6, SeqEqual

\* The payload is a sequence of at most one item.
LEMMA PayloadIsSeq ==
  ASSUME TypeOK
  PROVE  held \in Seq(Item)
<1>1. CASE held = << >>
  BY <1>1
<1>2. CASE \E i \in Item : held = <<i>>
  BY <1>2
<1> QED BY <1>1, <1>2 DEF TypeOK

\* What a thread that finishes its payload does to the two views of output.
LEMMA FinishViews ==
  ASSUME TypeOK, held # << >>, NEW fate \in Fates, Finish(fate)
  PROVE  /\ held = <<held[1]>> /\ held[1] \in Item /\ held' = << >>
         /\ Items(output) \in Seq(Item)
         /\ Items(output') = Items(output) \o held
         /\ Deliveries(output') = Append(Deliveries(output), <<held[1], fate>>)
<1> DEFINE e == [item |-> held[1], to |-> fate, thread |-> restarts]
<1>1. held = <<held[1]>> /\ held[1] \in Item
  BY DEF TypeOK
<1>2. e \in Outcome /\ e.item = held[1] /\ e.to = fate
  BY <1>1 DEF TypeOK, Outcome
<1>3. output \in Seq(Outcome) /\ output' = Append(output, e) /\ held' = << >>
  BY DEF TypeOK, Finish
<1> HIDE DEF e
<1> QED BY <1>1, <1>2, <1>3, ItemsAppend, DeliveriesAppend

-----------------------------------------------------------------------------
(* What a step may do to the queue and the payload                         *)

\* Every step leaves the items alone, queues one more, takes the next one into
\* the hands of the output thread, or finishes the one it holds.
Accepts(i) ==
  /\ ~suppress /\ UNCHANGED suppress
  /\ queue' = queue \o <<i>> /\ accepted' = accepted \o <<i>>
  /\ UNCHANGED <<held, output>>

Pops ==
  /\ queue # << >> /\ held = << >>
  /\ held' = <<Head(queue)>> /\ queue' = Tail(queue)
  /\ UNCHANGED <<accepted, output, suppress>>

Finishes(fate) ==
  /\ held # << >>
  /\ Finish(fate)
  /\ fate \in {"dropped", "lost"} => paused /\ paused'
  /\ UNCHANGED <<accepted, queue, suppress, restarts>>

Rests ==
  /\ UNCHANGED <<accepted, queue, held, output>>
  /\ \/ suppress' = suppress
     \/ suppress' = TRUE
     \/ suppress' = FALSE /\ paused /\ held = << >>

\* Seen from the sink every step of the queue accepts an item, pops one, finishes
\* the popped one, or changes nothing of these.
LEMMA StepKinds ==
  ASSUME IndInv, LossEndsThread, [Next]_vars
  PROVE  \/ \E i \in Item : Accepts(i)
         \/ Pops
         \/ \E fate \in Fates : Finishes(fate)
         \/ Rests
<1> USE DEF IndInv
<1>1. ASSUME NEW p \in Producers, Enqueue(p)
      PROVE  (\E i \in Item : Accepts(i)) \/ Rests
  <2>1. PICK i \in Item : item[p] = <<i>>
    BY <1>1 DEF Enqueue, TypeOK, ProducersReady
  <2>2. CASE suppress
    BY <1>1, <2>2 DEF Enqueue, Rests, mainVars, consumerVars
  <2>3. CASE ~suppress
    BY <1>1, <2>1, <2>3 DEF Enqueue, Push, Accepts, mainVars, consumerVars
  <2> QED BY <2>2, <2>3
<1>2. ASSUME NEW p \in Producers, ProducerStep(p), ~Enqueue(p) PROVE Rests
 BY <1>2 DEF ProducerStep, OpenProxy, CloseProxy, EnqueueDirectly, Offer, NotifyOne,
              Rests, mainVars, consumerVars
<1>3. ASSUME LockAndLook PROVE Pops \/ Rests
  BY <1>3 DEF LockAndLook, HeldWhilePopped, Pops, Rests
<1>4. ASSUME CheckStop \/ Write \/ WriteFile
      PROVE  (\E fate \in Fates : Finishes(fate)) \/ Rests
  <2>1. held # << >>
    BY <1>4 DEF CheckStop, Write, WriteFile, HeldWhilePopped
  <2>2. CASE CheckStop
   BY <2>1, <2>2
      DEF CheckStop, Finishes, Rests, Fates, PausedBeforeStop, ConsumerUnchanged
  <2>3. CASE Write
    BY <2>1, <2>3 DEF Write, Finishes, Rests, Fates, TargetOf, ConsumerUnchanged
  <2>4. CASE WriteFile
   BY <2>1, <2>4
      DEF WriteFile, Finishes, Rests, Fates, LossEndsThread, ConsumerUnchanged
  <2> QED BY <1>4, <2>2, <2>3, <2>4
<1>5. ASSUME LoopTop \/ Block \/ NotifyEmpty \/ SpuriousWake PROVE Rests
  BY <1>5 DEF LoopTop, Block, NotifyEmpty, SpuriousWake, Rests, ConsumerUnchanged
<1>6. ASSUME MainStep \/ PauseSpuriousWake PROVE Rests
 BY <1>6
    DEF MainStep, PauseStep, PauseEnter, PauseRelock, PauseRequestStop, PauseNotify,
              PauseJoin, Restart, RestartWithSameFile, PauseSpuriousWake, MainUnchanged, Rests,
              PausedBeforeStop, HeldWhilePopped
<1>7. ASSUME UNCHANGED vars PROVE Rests
  BY <1>7 DEF vars, Rests
<1> QED BY <1>1, <1>2, <1>3, <1>4, <1>5, <1>6, <1>7 DEF Next, ConsumerStep

-----------------------------------------------------------------------------
(* The loss of an item                                                     *)

LossInv == LossEndsThread /\ LossIsLastOfItsThread

\* A loss ends its output thread: every step keeps the order in which losses are
\* the last outcome of their thread.
LEMMA LossInductive == IndInv /\ LossInv /\ [Next]_vars => LossInv'
<1> SUFFICES ASSUME IndInv, LossInv, [Next]_vars PROVE LossInv'
  OBVIOUS
<1> USE DEF LossInv
<1>1. (cpc = "write_file" /\ ~file => paused)'
  <2> USE DEF LossEndsThread, IndInv
  <2>1. ASSUME NEW p \in Producers, ProducerStep(p) PROVE (cpc = "write_file" /\ ~file => paused)'
   BY <2>1
      DEF ProducerStep, OpenProxy, CloseProxy, EnqueueDirectly, Offer, Enqueue,
         Push,
                NotifyOne, NotifyNotEmpty, mainVars, consumerVars
  <2>2. ASSUME ConsumerStep \/ SpuriousWake PROVE (cpc = "write_file" /\ ~file => paused)'
   BY <2>2
      DEF ConsumerStep, LoopTop, LockAndLook, Block, NotifyEmpty, CheckStop, Write,
                WriteFile, SpuriousWake, ConsumerUnchanged
  <2>3. ASSUME MainStep \/ PauseSpuriousWake PROVE (cpc = "write_file" /\ ~file => paused)'
   BY <2>3
      DEF MainStep, PauseStep, PauseEnter, PauseRelock, PauseRequestStop,
         PauseNotify,
                PauseJoin, Restart, RestartWithSameFile, PauseSpuriousWake, NotifyNotEmpty,
                PausedBeforeStop
  <2>4. CASE UNCHANGED vars
    BY <2>4 DEF vars
  <2> QED BY <2>1, <2>2, <2>3, <2>4 DEF Next
<1>2. \A i \in 1..Len(output) : output[i].thread \in Nat
  <2>1. \A i \in 1..Len(output) : output[i] \in Outcome
    BY ElementOfSeq DEF IndInv, TypeOK
  <2> QED BY <2>1, ConstantsAssumption DEF Outcome
<1>3. restarts \in Nat /\ Len(output) \in Nat /\ output \in Seq(Outcome)
  BY LenProperties DEF IndInv, TypeOK
<1>4. ASSUME NEW fate \in Fates, Finishes(fate) PROVE LossInv'
  <2> DEFINE e == [item |-> held[1], to |-> fate, thread |-> restarts]
  <2>1. /\ output' = Append(output, e)
        /\ held # << >> /\ held' = << >> /\ restarts' = restarts
        /\ fate \in {"dropped", "lost"} => paused'
    BY <1>4 DEF Finishes, Finish
  <2>2. e \in Outcome /\ e.to = fate /\ e.thread = restarts
    BY <2>1 DEF IndInv, TypeOK, Outcome
  <2> HIDE DEF e
  <2>3. /\ Len(output') = Len(output) + 1
        /\ \A i \in 1..Len(output) : output'[i] = output[i]
        /\ output'[Len(output) + 1] = e
    BY <1>3, <2>1, <2>2, AppendProperties
  <2>4. \A i \in 1..Len(output) :
          output[i].to \in {"dropped", "lost"} => output[i].thread < restarts
    BY <1>2, <1>3, <2>1 DEF LossEndsThread
  <2>5. LossEndsThread'
    <3> SUFFICES ASSUME NEW i \in 1..Len(output')
                 PROVE  /\ output'[i].thread <= restarts'
                        /\ output'[i].to \in {"dropped", "lost"} /\ output'[i].thread = restarts'
                             => paused' /\ held' = << >>
      BY <1>1 DEF LossEndsThread
    <3>1. CASE i \in 1..Len(output)
      BY <1>2, <1>3, <2>1, <2>3, <2>4, <3>1 DEF LossEndsThread
    <3>2. CASE i = Len(output) + 1
      BY <1>3, <2>1, <2>2, <2>3, <3>2
    <3> QED BY <1>3, <2>3, <3>1, <3>2
  <2>6. LossIsLastOfItsThread'
    <3> SUFFICES ASSUME NEW i \in 1..Len(output'), NEW j \in 1..Len(output'), i < j,
                        output'[i].to \in {"dropped", "lost"}
                 PROVE  output'[i].thread < output'[j].thread
      BY DEF LossIsLastOfItsThread
    <3>1. i \in 1..Len(output) /\ output'[i] = output[i]
      BY <1>3, <2>3
    <3>2. CASE j \in 1..Len(output)
      BY <2>3, <3>1, <3>2 DEF LossIsLastOfItsThread
    <3>3. CASE j = Len(output) + 1
      BY <2>2, <2>3, <2>4, <3>1, <3>3
    <3> QED BY <1>3, <2>3, <3>2, <3>3
  <2> QED BY <2>5, <2>6
<1>5. ASSUME UNCHANGED output PROVE LossInv'
  <2>1. \/ restarts' = restarts + 1
        \/ restarts' = restarts /\ (paused => paused')
    <3>1. ASSUME NEW p \in Producers, ProducerStep(p) PROVE restarts' = restarts /\ paused' = paused
     BY <3>1
        DEF ProducerStep, OpenProxy, CloseProxy, EnqueueDirectly, Offer, Enqueue,
           Push,
                  NotifyOne, mainVars
    <3>2. ASSUME ConsumerStep \/ SpuriousWake PROVE restarts' = restarts /\ paused' = paused
     BY <3>2
        DEF ConsumerStep, LoopTop, LockAndLook, Block, NotifyEmpty, CheckStop,
           Write,
                  WriteFile, SpuriousWake, ConsumerUnchanged
    <3>3. ASSUME MainStep \/ PauseSpuriousWake
          PROVE  restarts' = restarts + 1 \/ (restarts' = restarts /\ (paused => paused'))
      <4>1. ASSUME (\E f \in BOOLEAN : Restart(f)) \/ RestartWithSameFile
            PROVE  restarts' = restarts + 1
        BY <4>1 DEF Restart, RestartWithSameFile
      <4>2. ASSUME PauseEnter \/ PauseStep \/ PauseSpuriousWake
            PROVE  restarts' = restarts /\ (paused => paused')
       BY <4>2
          DEF PauseEnter, PauseStep, PauseRelock, PauseRequestStop, PauseNotify,
                    PauseJoin, PauseSpuriousWake
      <4> QED BY <3>3, <4>1, <4>2 DEF MainStep
    <3>4. CASE UNCHANGED vars
      BY <3>4 DEF vars
    <3> QED BY <3>1, <3>2, <3>3, <3>4 DEF Next
  <2>2. paused /\ held = << >> => held' = << >>
    BY StepKinds DEF IndInv, PausedMeansDrained, Accepts, Pops, Finishes, Rests
  <2>3. LossEndsThread'
    <3> SUFFICES ASSUME NEW i \in 1..Len(output)
                 PROVE  /\ output[i].thread <= restarts'
                        /\ output[i].to \in {"dropped", "lost"} /\ output[i].thread = restarts'
                             => paused' /\ held' = << >>
      BY <1>1, <1>5 DEF LossEndsThread
    <3> QED BY <1>2, <1>3, <2>1, <2>2 DEF LossEndsThread
  <2>4. LossIsLastOfItsThread'
    BY <1>5 DEF LossIsLastOfItsThread
  <2> QED BY <2>3, <2>4
<1> QED BY <1>4, <1>5, StepKinds DEF Accepts, Pops, Rests

\* An accepted item that is not written is the last one its output thread
\* popped: restart() finds everything that came before it dealt with.
THEOREM LossOnlyAtTheEnd == Spec => []LossIsLastOfItsThread
<1>1. Init => LossInv
  BY DEF Init, LossInv, LossEndsThread, LossIsLastOfItsThread
<1>2. LossInv /\ IndInv /\ [Next]_vars => LossInv'
  BY LossInductive
<1>3. LossInv => LossIsLastOfItsThread
  BY DEF LossInv
<1> QED BY <1>1, <1>2, <1>3, Inductive, PTL DEF Spec

-----------------------------------------------------------------------------
(* Conservation                                                            *)

\* No step of the queue loses, repeats or reorders an accepted item.
LEMMA ConservationInductive ==
  ASSUME IndInv, LossEndsThread, Conservation, [Next]_vars
  PROVE  Conservation'
<1>1. /\ queue \in Seq(Item) /\ held \in Seq(Item) /\ accepted \in Seq(Item)
      /\ Items(output) \in Seq(Item)
  BY ItemsType, PayloadIsSeq DEF IndInv, TypeOK
<1>2. accepted = (Items(output) \o held) \o queue /\ Items(output) \o held \in Seq(Item)
  BY <1>1, ConcatProperties DEF Conservation
<1>3. ASSUME NEW i \in Item, Accepts(i) PROVE Conservation'
  <2>1. <<i>> \in Seq(Item)
    OBVIOUS
  <2>2. accepted' = ((Items(output) \o held) \o queue) \o <<i>> /\ queue' = queue \o <<i>>
        /\ held' = held /\ output' = output
    BY <1>2, <1>3 DEF Accepts
  <2>3. accepted' = (Items(output) \o held) \o queue'
    BY <1>1, <1>2, <2>1, <2>2, ConcatAssociative
  <2> QED BY <2>2, <2>3 DEF Conservation, Items
<1>4. ASSUME Pops PROVE Conservation'
  <2>1. held' \in Seq(Item) /\ queue' \in Seq(Item)
    BY <1>1, <1>4, HeadTailProperties DEF Pops
  <2>5. held' \o queue' = queue
    BY <1>1, <1>4, HeadThenTail DEF Pops
  <2>2. held = << >> /\ accepted' = accepted /\ output' = output
    BY <1>4 DEF Pops
  <2>3. accepted' = Items(output) \o (held' \o queue')
    BY <1>1, <1>2, <2>2, <2>5, ConcatEmptySeq
  <2>4. (Items(output) \o held') \o queue' = Items(output) \o (held' \o queue')
    BY <1>1, <2>1, ConcatAssociative
  <2> QED BY <2>2, <2>3, <2>4 DEF Conservation, Items
<1>5. ASSUME NEW fate \in Fates, Finishes(fate) PROVE Conservation'
  <2>1. held' = << >> /\ Items(output') = Items(output) \o held
        /\ queue' = queue /\ accepted' = accepted
    BY <1>5, FinishViews DEF Finishes, IndInv
  <2>2. accepted' = (Items(output') \o held') \o queue'
    BY <1>2, <2>1, ConcatEmptySeq
  <2> QED BY <2>2 DEF Conservation, Items
<1>6. ASSUME Rests PROVE Conservation'
  BY <1>6 DEF Rests, Conservation, Items
<1> QED BY <1>3, <1>4, <1>5, <1>6, StepKinds

\* Every accepted item is in exactly one place, in order, whatever the threads do.
THEOREM NothingIsLost == Spec => []Conservation
<1>1. Init => Conservation /\ LossInv
  BY DEF Init, Conservation, Items, LossInv, LossEndsThread, LossIsLastOfItsThread
<1>2. IndInv /\ LossInv /\ Conservation /\ [Next]_vars => Conservation' /\ LossInv'
  BY LossInductive, ConservationInductive DEF LossInv
<1> QED BY <1>1, <1>2, Inductive, PTL DEF Spec

-----------------------------------------------------------------------------
(* Refinement                                                              *)

\* Every step of the queue is a step of the sink, or changes nothing it sees.
LEMMA StepRefinesSink ==
  ASSUME IndInv, LossEndsThread, [Next]_vars
  PROVE  [Sink!Next]_(Sink!sinkVars)
<1> USE DEF Sink!Next, Sink!sinkVars
<1>1. queue \in Seq(Item) /\ held \in Seq(Item) /\ suppress \in BOOLEAN
  BY PayloadIsSeq DEF IndInv, TypeOK
<1>2. ASSUME NEW i \in Item, Accepts(i) PROVE Sink!Accept(i)
  <2>1. <<i>> \in Seq(Item)
    OBVIOUS
  <2>2. held' \o queue' = Append(held \o queue, i)
    <3>1. held \o (queue \o <<i>>) = (held \o queue) \o <<i>>
      BY <1>1, <2>1, ConcatAssociative
    <3> QED BY <1>1, <1>2, <3>1, ConcatProperties, AppendIsConcat DEF Accepts
  <2> QED BY <1>2, <2>2 DEF Accepts, Sink!Accept, Deliveries
<1>3. ASSUME Pops PROVE UNCHANGED Sink!sinkVars
  <2>1. held' \o queue' = queue /\ held \o queue = queue
    BY <1>1, <1>3, HeadThenTail, ConcatEmptySeq DEF Pops
  <2> QED BY <1>3, <2>1 DEF Pops, Deliveries
<1>4. ASSUME NEW fate \in Fates, Finishes(fate) PROVE Sink!RemoveOne
  <2>1. /\ held = <<held[1]>> /\ held[1] \in Item /\ held' = << >>
        /\ Deliveries(output') = Append(Deliveries(output), <<held[1], fate>>)
        /\ queue' = queue /\ suppress' = suppress
    BY <1>4, FinishViews DEF Finishes, IndInv
  <2>2. /\ held \o queue \in Seq(Item) /\ Len(held \o queue) = 1 + Len(queue)
        /\ Head(held \o queue) = held[1] /\ Tail(held \o queue) = queue
        /\ held \o queue # << >>
    <3> DEFINE h == held[1]
                c == <<h>> \o queue
    <3>1. held \o queue = c
      BY <2>1
    <3>2. h \in Item
      BY <2>1
    <3> HIDE DEF h
    <3>3. c \in Seq(Item) /\ Len(c) = 1 + Len(queue) /\ c # << >> /\ Head(c) = h /\ Tail(c) = queue
      BY <1>1, <3>2, HeadAndTailOfCons
    <3> QED BY <3>1, <3>3 DEF h
  <2>3. held' \o queue' = queue
    BY <1>1, <2>1, ConcatEmptySeq
  <2>4. Sink!Remove(fate)
    BY <2>1, <2>2, <2>3 DEF Sink!Remove
  <2>5. fate \in {"dropped", "lost"} => suppress /\ Len(held \o queue) = 1
    BY <1>4, <2>2 DEF Finishes, IndInv, PausedMeansDrained
  <2> QED BY <2>2, <2>4, <2>5 DEF Fates, Sink!RemoveOne, Sink!Deliver, Sink!Discard
<1>5. ASSUME Rests PROVE [Sink!Next]_(Sink!sinkVars)
  <2>1. UNCHANGED <<held \o queue, Deliveries(output)>>
    BY <1>5 DEF Rests, Deliveries
  <2>2. CASE suppress' = suppress
    BY <2>1, <2>2
  <2>3. CASE suppress' = TRUE /\ ~suppress
    BY <2>1, <2>3 DEF Sink!Close
  <2>4. CASE suppress' = FALSE /\ suppress /\ paused /\ held = << >>
    BY <1>5, <2>1, <2>4 DEF Sink!Reopen, IndInv, PausedMeansDrained
  <2> QED BY <1>1, <1>5, <2>2, <2>3, <2>4 DEF Rests
<1> QED BY <1>2, <1>3, <1>4, <1>5, StepKinds

\* The queue is a FIFO sink that may only discard the last pending item of a
\* pause, whatever its producers, routes and bounds are.
THEOREM QueueImplementsSink == Spec => ImplementsSink
<1>1. Init => Sink!Init
  BY ConcatEmptySeq DEF Init, Sink!Init, Deliveries
<1>2. Init => LossInv
  BY DEF Init, LossInv, LossEndsThread, LossIsLastOfItsThread
<1>3. IndInv /\ LossInv /\ [Next]_vars => LossInv' /\ [Sink!Next]_(Sink!sinkVars)
  BY LossInductive, StepRefinesSink DEF LossInv
<1> QED BY <1>1, <1>2, <1>3, Inductive, PTL DEF Spec, ImplementsSink, Sink!Spec
=============================================================================
