----------------------------- MODULE OutputSink -----------------------------
(***************************************************************************)
(* What the dedicated output queue promises to its users: a FIFO sink.  An *)
(* accepted item is delivered after everything accepted before it, once,   *)
(* and some time.  The sink can be closed, and is reopened only when       *)
(* nothing is pending.  The one promise it does not make: the last pending *)
(* item may be discarded when the sink is closed.                          *)
(***************************************************************************)
EXTENDS Naturals, Sequences

CONSTANT Items, Kept, Discarded   \* items, and the two kinds of fate

VARIABLES
  open,      \* whether items are accepted
  pending,   \* accepted, not yet delivered
  delivered  \* history: item and fate, in order

sinkVars == <<open, pending, delivered>>

Init == open = TRUE /\ pending = << >> /\ delivered = << >>

Accept(i) ==
  /\ open
  /\ pending' = Append(pending, i)
  /\ UNCHANGED <<open, delivered>>

Remove(fate) ==
  /\ pending' = Tail(pending)
  /\ delivered' = Append(delivered, <<Head(pending), fate>>)
  /\ UNCHANGED open

Deliver(fate) == pending # << >> /\ fate \in Kept /\ Remove(fate)

Discard(fate) == ~open /\ Len(pending) = 1 /\ fate \in Discarded /\ Remove(fate)

Close == open /\ open' = FALSE /\ UNCHANGED <<pending, delivered>>

Reopen == ~open /\ pending = << >> /\ open' = TRUE /\ UNCHANGED <<pending, delivered>>

RemoveOne == \E fate \in Kept \cup Discarded : Deliver(fate) \/ Discard(fate)

Next == (\E i \in Items : Accept(i)) \/ RemoveOne \/ Close \/ Reopen

Spec == Init /\ [][Next]_sinkVars
FairSpec == Spec /\ WF_sinkVars(RemoveOne)
=============================================================================
