--------------------------- MODULE ArithmeticProofs ---------------------------
(***************************************************************************)
(* The machines of MCArithmetic, for any width: the division keeps its loop *)
(* invariant and implements the division service, umult is exact, the limb  *)
(* containers agree, a build is complete, and with the theorems of          *)
(* OperatorProofs the variable, the chains and the conversions do what they *)
(* should, whichever machine runs and in whichever build.                   *)
(***************************************************************************)
EXTENDS MCArithmetic, Uint128Theorems

-----------------------------------------------------------------------------
(* Division.  The inductive invariant adds to LoopInvariant where the call  *)
(* and its reply are.                                                       *)

\* No division is running at first.
LEMMA InitInductive == Init => IndInv
<1> SUFFICES ASSUME Init PROVE IndInv OBVIOUS
<1>1. Zero \in U128 /\ Bits \in Nat /\ Bits >= 1 BY ZeroAndOne, Widths
<1>2. TypeOK BY <1>1 DEF Init, TypeOK, NoLoop, Loops
<1>3. Control BY DEF Init, Control, NoCall, NoReply
<1>4. LoopInvariant BY DEF Init, LoopInvariant
<1> QED BY <1>2, <1>3, <1>4 DEF IndInv

\* The facts about a call that the steps below need.
LEMMA CallFacts ==
  ASSUME IndInv, pc # "idle"
  PROVE  /\ call \in Calls /\ call.kind \in Entries
         /\ call.dividend \in U128 /\ call.divisor \in U128
         /\ Val(call.dividend) \in Nat /\ Val(call.dividend) < Base * Base
         /\ Val(call.divisor) \in Nat
<1>1. call \in Calls BY DEF IndInv, Control
<1>2. call.kind \in Entries /\ call.dividend \in U128 /\ call.divisor \in U128
  BY <1>1 DEF Calls
<1> QED BY <1>1, <1>2, LimbsOf

\* A refusal is nullopt or domain_error.
LEMMA RefusalKinds == \A k \in Entries : Refusals[k] \in {"nullopt", "domain_error"}
BY DEF Entries, Refusals

\* A reply that carries a result is well typed and no refusal.
LEMMA AnsweredType ==
  ASSUME NEW q \in U128, NEW r \in U128
  PROVE  /\ Answered(DivResult(q, r)) \in [kind : {"result"}, quotient : U128, remainder : U128]
         /\ Answered(DivResult(q, r)) # NoReply
         /\ Answered(DivResult(q, r)) = [kind |-> "result", quotient |-> q, remainder |-> r]
<1>1. Answered(DivResult(q, r)) = [kind |-> "result", quotient |-> q, remainder |-> r]
  BY DEF Answered, DivResult
<1>2. [kind |-> "result", quotient |-> q, remainder |-> r].kind = "result" OBVIOUS
<1>3. NoReply.kind = "none" BY DEF NoReply
<1> QED BY <1>1, <1>2, <1>3

\* The alignment establishes the loop invariant: the leading bits of denominator
\* and dividend meet, and the denominator has not lost a bit at the top.
LEMMA AlignStarts ==
  ASSUME IndInv, Align
  PROVE  /\ shift' \in 0..(Bits - 1) /\ i' = 0 /\ loop' \in Loops
         /\ LoopReached(loop', Val(call.dividend), Val(call.divisor), Pow2[shift' + 1])
         /\ Val(loop'.denominator) = Pow2[shift'] * Val(call.divisor)
<1>1. call.dividend \in U128 /\ call.divisor \in U128 /\ Val(call.dividend) \in Nat
      /\ Val(call.divisor) \in Nat /\ Val(call.divisor) # 0
  BY CallFacts DEF Align, IndInv, Control
<1>2. Val(call.divisor) < Val(call.dividend)
  <2>1. ~ (Val(call.divisor) > Val(call.dividend)) /\ Val(call.divisor) # Val(call.dividend)
    BY <1>1, ComparisonsCompare DEF Align
  <2> QED BY <1>1, <2>1
<1>3. /\ shift' = fls(call.dividend) - fls(call.divisor)
      /\ i' = 0 /\ loop' = Aligned(call.dividend, call.divisor)
  BY DEF Align
<1>4. Loops = LoopStates BY DEF Loops, LoopStates
<1> QED BY <1>1, <1>2, <1>3, <1>4, AlignmentStarts

\* What the loop may use of the inductive invariant.
LEMMA LoopFacts ==
  ASSUME IndInv, pc = "loop"
  PROVE  /\ loop \in Loops /\ loop.dividend \in U128 /\ loop.quotient \in U128
         /\ loop.denominator \in U128
         /\ Val(loop.dividend) \in Nat /\ Val(loop.quotient) \in Nat
         /\ i \in Nat /\ shift \in Nat /\ shift =< Bits - 1 /\ i =< shift + 1
         /\ Bits \in Nat
<1>1. loop \in Loops /\ i \in 0..Bits /\ shift \in 0..(Bits - 1) /\ i =< shift + 1
  BY DEF IndInv, TypeOK, Control
<1>2. loop.dividend \in U128 /\ loop.quotient \in U128 /\ loop.denominator \in U128
  BY <1>1 DEF Loops
<1> QED BY <1>1, <1>2, LimbsOf, Widths

\* An iteration keeps the loop invariant, whether it subtracts or not, and the
\* quotient has room for its new bit.
LEMMA IterateKeeps ==
  ASSUME IndInv, Iterate
  PROVE  /\ loop' \in Loops /\ i' \in Nat /\ i' =< shift + 1
         /\ LoopInvariant'
<1> DEFINE x == Val(call.dividend)  d == Val(call.divisor)  n == shift - i
<1>1. pc = "loop" /\ i =< shift /\ loop' = LoopBody(loop) /\ i' = i + 1
      /\ shift' = shift /\ call' = call /\ pc' = "loop"
  BY DEF Iterate
<1>2. x \in Nat /\ x < Base * Base /\ d \in Nat \ {0} /\ i \in Nat /\ shift \in Nat
  BY <1>1, CallFacts, LoopFacts DEF IndInv, Control
<1>3. n \in Nat /\ (shift + 1) - i = n + 1 /\ (shift' + 1) - i' = n
      /\ (i' =< shift' => n # 0 /\ shift' - i' = n - 1)
  BY <1>1, <1>2
<1>4. /\ loop \in LoopStates /\ Loops = LoopStates
      /\ LoopReached(loop, x, d, Pow2[n + 1])
      /\ Val(loop.denominator) = Pow2[n] * d
  <2>1. Loops = LoopStates BY DEF Loops, LoopStates
  <2> HIDE DEF n
  <2>2. Remaining = Pow2[n + 1] BY <1>3 DEF Remaining
  <2>3. Val(loop.denominator) = Pow2[shift - i] * d
    BY <1>1 DEF IndInv, LoopInvariant
  <2> QED BY <1>1, <2>1, <2>2, <2>3, LoopFacts DEF IndInv, LoopInvariant, LoopReached, n
<1>5. /\ LoopBody(loop) \in LoopStates
      /\ LoopReached(LoopBody(loop), x, d, Pow2[n])
      /\ n # 0 => Val(LoopBody(loop).denominator) = Pow2[n - 1] * d
  <2> HIDE DEF n, x, d
  <2> QED BY <1>2, <1>3, <1>4, IterationSteps
<1>6. Remaining' = Pow2[n] BY <1>3 DEF Remaining
<1>7. LoopInvariant'
  <2>1. x = Val(call'.dividend) /\ d = Val(call'.divisor) BY <1>1
  <2> HIDE DEF x, d, n
  <2> QED BY <1>1, <1>3, <1>5, <1>6, <2>1 DEF LoopInvariant, LoopReached
<1> QED BY <1>1, <1>2, <1>4, <1>5, <1>7

\* After the last iteration the weight is one: the numbers are the result.
LEMMA LoopResult ==
  ASSUME IndInv, ReturnLoop
  PROVE  /\ Val(loop.quotient) = Val(call.dividend) \div Val(call.divisor)
         /\ Val(loop.dividend) = Val(call.dividend) % Val(call.divisor)
<1>1. pc = "loop" /\ i > shift BY DEF ReturnLoop
<1>2. /\ Val(call.dividend) \in Nat /\ Val(call.divisor) \in Nat \ {0}
      /\ loop \in LoopStates
  BY <1>1, CallFacts, LoopFacts DEF IndInv, Control, Loops, LoopStates
<1>3. Remaining = 1
  <2>1. (shift + 1) - i = 0 BY <1>1, LoopFacts
  <2> QED BY <2>1, PowSteps DEF Remaining
<1>4. LoopReached(loop, Val(call.dividend), Val(call.divisor), 1)
  BY <1>1, <1>3 DEF IndInv, LoopInvariant, LoopReached
<1> QED BY <1>2, <1>4, ReachedIsResult

\* Every branch of the division keeps the inductive invariant.
LEMMA NextInductive == IndInv /\ [Next]_vars => IndInv'
<1> SUFFICES ASSUME IndInv, [Next]_vars PROVE IndInv' OBVIOUS
<1>0. /\ Zero \in U128 /\ One \in U128 /\ Val(Zero) = 0 /\ Bits \in Nat /\ Bits >= 1
      /\ 0 \in 0..Bits /\ 0 \in 0..(Bits - 1)
  BY ZeroAndOne, Widths
<1>1. /\ pc \in {"idle", "entered", "msvc", "portable", "loop", "returned"}
      /\ call \in {NoCall} \cup Calls /\ loop \in Loops
      /\ shift \in 0..(Bits - 1) /\ i \in 0..Bits
      /\ reply \in {NoReply} \cup [kind : {"nullopt", "domain_error"}]
                     \cup [kind : {"result"}, quotient : U128, remainder : U128]
      /\ TypeOK
  BY DEF IndInv, TypeOK
<1>2. CASE Call
  <2>1. reply = NoReply BY <1>1, <1>2 DEF IndInv, Control, Call
  <2> QED BY <1>1, <1>2, <2>1 DEF Call, IndInv, TypeOK, Control, LoopInvariant
<1>3. CASE RefuseZero
  <2>1. call \in Calls /\ call.kind \in Entries BY <1>3, CallFacts DEF RefuseZero
  <2>2. /\ reply' \in [kind : {"nullopt", "domain_error"}]
        /\ reply' # NoReply
    BY <1>3, <2>1, RefusalKinds DEF RefuseZero, NoReply
  <2> QED
    BY <1>1, <1>3, <2>1, <2>2 DEF RefuseZero, IndInv, TypeOK, Control, LoopInvariant
<1>4. CASE Dispatch
  <2>1. call \in Calls /\ call.divisor \in U128 /\ Val(call.divisor) # 0
    BY <1>0, <1>4, CallFacts, ComparisonsCompare DEF Dispatch
  <2>2. reply = NoReply BY <1>4 DEF IndInv, Control, Dispatch
  <2> QED
    BY <1>1, <1>4, <2>1, <2>2 DEF Dispatch, IndInv, TypeOK, Control, LoopInvariant
<1>15. CASE EnterInstrumented
  <2>1. call \in Calls /\ call.divisor \in U128 /\ Val(call.divisor) # 0
    BY <1>0, <1>15, CallFacts, ComparisonsCompare DEF EnterInstrumented
  <2>2. reply = NoReply BY <1>15 DEF IndInv, Control, EnterInstrumented
  <2> QED
    BY <1>1, <1>15, <2>1, <2>2 DEF EnterInstrumented, IndInv, TypeOK, Control, LoopInvariant
<1>5. ASSUME NEW q \in U128, NEW r \in U128, Return(DivResult(q, r)), pc # "idle",
             loop' = loop, i' = i
      PROVE  IndInv'
 BY <1>1, <1>5, AnsweredType, CallFacts
    DEF Return, IndInv, TypeOK, Control, LoopInvariant
<1>6. CASE ReturnDividend
  <2>1. pc # "idle" /\ loop' = loop /\ i' = i /\ Return(DivResult(Zero, call.dividend))
    BY <1>6 DEF ReturnDividend
  <2>2. call.dividend \in U128 BY <2>1, CallFacts
  <2> QED BY <1>0, <1>5, <2>1, <2>2
<1>7. CASE ReturnByLimb
  <2>1. pc # "idle" /\ loop' = loop /\ i' = i /\ call.divisor.high = 0
        /\ Return(DivideByLimb(call.dividend, call.divisor.low))
        /\ Val(call.divisor) # 0
    BY <1>7 DEF ReturnByLimb, IndInv, Control
  <2>2. call.dividend \in U128 /\ call.divisor \in U128 BY <2>1, CallFacts
  <2>3. call.divisor.low \in Nat \ {0} /\ call.divisor.low < Base
    <3>1. 0 * Base + 0 = 0 BY Widths
    <3> QED BY <2>1, <2>2, <3>1, LimbsOf
  <2> DEFINE res == DivideByLimb(call.dividend, call.divisor.low)
  <2>4. res.quotient \in U128 /\ res.remainder \in U128
    BY <2>2, <2>3, ShortDivisionDivides
  <2>5. res = DivResult(res.quotient, res.remainder) BY DEF DivideByLimb, DivResult
  <2> QED BY <1>5, <2>1, <2>4, <2>5
<1>8. CASE FallBack
  BY <1>1, <1>8 DEF FallBack, IndInv, TypeOK, Control, LoopInvariant
<1>9. CASE ReturnOne
  <2>1. pc # "idle" /\ loop' = loop /\ i' = i /\ Return(DivResult(One, Zero))
    BY <1>9 DEF ReturnOne
  <2> QED BY <1>0, <1>5, <2>1
<1>10. CASE Align
  <2>1. /\ shift' \in 0..(Bits - 1) /\ i' = 0 /\ loop' \in Loops
        /\ Val(call.dividend)
              = Val(loop'.quotient) * Pow2[shift' + 1] * Val(call.divisor) + Val(loop'.dividend)
        /\ Val(loop'.dividend) < Pow2[shift' + 1] * Val(call.divisor)
        /\ Val(loop'.denominator) = Pow2[shift'] * Val(call.divisor)
    BY <1>10, AlignStarts DEF LoopReached
  <2>2. pc = "portable" /\ pc' = "loop" /\ call' = call /\ reply' = reply
    BY <1>10 DEF Align
  <2>3. TypeOK' BY <1>0, <1>1, <2>1, <2>2 DEF TypeOK
  <2>4. Control' BY <1>0, <2>1, <2>2 DEF IndInv, Control
  <2>5. LoopInvariant'
    <3>1. shift' \in Nat BY <2>1, <1>0
    <3>2. \A n \in Nat : (n + 1) - 0 = n + 1 /\ n - 0 = n OBVIOUS
    <3>3. (shift' + 1) - i' = shift' + 1 /\ shift' - i' = shift'
      BY <2>1, <3>1, <3>2, Zenon
    <3> QED BY <2>1, <2>2, <3>3 DEF LoopInvariant, Remaining
  <2> QED BY <2>3, <2>4, <2>5 DEF IndInv
<1>11. CASE Iterate
  <2>1. loop' \in Loops /\ i' \in Nat /\ i' =< shift + 1 /\ LoopInvariant'
    BY <1>11, IterateKeeps
  <2>2. pc = "loop" /\ pc' = "loop" /\ call' = call /\ reply' = reply /\ shift' = shift
    BY <1>11 DEF Iterate
  <2>3. i' \in 0..Bits BY <2>1, <1>0, <1>1
  <2>4. TypeOK' BY <1>1, <2>1, <2>2, <2>3 DEF TypeOK
  <2>5. Control' BY <2>1, <2>2 DEF IndInv, Control
  <2> QED BY <2>1, <2>4, <2>5 DEF IndInv
<1>12. CASE ReturnLoop
  <2>1. pc = "loop" /\ loop' = loop /\ i' = i
        /\ Return(DivResult(loop.quotient, loop.dividend))
    BY <1>12 DEF ReturnLoop
  <2>2. loop.quotient \in U128 /\ loop.dividend \in U128 BY <2>1, LoopFacts
  <2>3. pc # "idle" BY <2>1
  <2> QED BY <1>5, <2>1, <2>2, <2>3
<1>13. CASE TakeReply
 BY <1>0, <1>13
    DEF TakeReply, IndInv, TypeOK, Control, LoopInvariant, NoLoop, Loops, NoCall
<1>14. CASE UNCHANGED vars
  BY <1>14 DEF vars, IndInv, TypeOK, Control, LoopInvariant, Remaining
<1> QED
  BY <1>2, <1>3, <1>4, <1>6, <1>7, <1>8, <1>9, <1>10, <1>11, <1>12, <1>13, <1>14, <1>15
        DEF Next, Work

\* The inductive invariant holds whenever a division runs, for any width.
THEOREM Inductive == Spec => []IndInv
<1> QED BY InitInductive, NextInductive, PTL DEF Spec

\* The locals stay in their types: the shift is below the width, and the loop
\* counter never passes it.
THEOREM TypeCorrect == Spec => []TypeOK
<1>1. IndInv => TypeOK BY DEF IndInv
<1> QED BY <1>1, Inductive, PTL

\* The loop of unsafe_constexpr_div_mod_impl keeps its invariant for any width, on
\* the portable and on the Microsoft paths.
THEOREM LoopInvariantHolds == Spec => []LoopInvariant
<1>1. IndInv => LoopInvariant BY DEF IndInv
<1> QED BY <1>1, Inductive, PTL

-----------------------------------------------------------------------------
(* Refinement: the division service *)

\* A running division has a request, as the caller made it.
LEMMA RequestedFacts ==
  ASSUME IndInv, pc # "idle"
  PROVE  /\ Requested = [kind |-> call.kind, dividend |-> Val(call.dividend),
                         divisor |-> Val(call.divisor)]
         /\ Requested.kind = call.kind /\ Requested.dividend = Val(call.dividend)
         /\ Requested.divisor = Val(call.divisor)
         /\ Requested # Service!Idle
<1>1. call \in Calls /\ call.kind \in Entries BY CallFacts
<1>2. call # NoCall BY <1>1 DEF NoCall, Entries
<1>3. Requested = [kind |-> call.kind, dividend |-> Val(call.dividend),
                   divisor |-> Val(call.divisor)]
  BY <1>2 DEF Requested
<1>4. Requested.kind # "none" BY <1>1, <1>3 DEF Entries
<1> QED BY <1>3, <1>4 DEF Service!Idle

\* A division that has not returned has said nothing.
LEMMA NotYetReplied ==
  ASSUME IndInv, pc # "returned"
  PROVE  Replied = Service!Idle
<1>1. reply = NoReply BY DEF IndInv, Control
<1> QED BY <1>1 DEF NoReply, Replied, Service!Idle

\* A division that has returned has said something.
LEMMA AlreadyReplied ==
  ASSUME IndInv, pc = "returned"
  PROVE  Replied # Service!Idle
<1>1. reply \in [kind : {"nullopt", "domain_error"}]
                \cup [kind : {"result"}, quotient : U128, remainder : U128]
  BY DEF IndInv, Control, TypeOK
<1>2. Replied.kind # "none"
  <2>1. CASE reply.kind = "result" BY <2>1 DEF Replied
  <2>2. CASE reply.kind # "result" BY <1>1, <2>2 DEF Replied
  <2> QED BY <2>1, <2>2
<1> QED BY <1>2 DEF Service!Idle

\* A branch that returns the exact quotient and remainder answers the request.
LEMMA AnswerRefines ==
  ASSUME IndInv, NEW q \in U128, NEW r \in U128, Return(DivResult(q, r)),
         pc \in {"msvc", "portable", "loop"},
         Val(q) = Val(call.dividend) \div Val(call.divisor),
         Val(r) = Val(call.dividend) % Val(call.divisor)
  PROVE  Service!Answer
<1>1. pc # "idle" /\ pc # "returned" /\ Val(call.divisor) # 0 BY DEF IndInv, Control
<1>2. call' = call /\ reply' = [kind |-> "result", quotient |-> q, remainder |-> r]
  BY AnsweredType DEF Return
<1>3. Replied' = [kind |-> "result", quotient |-> Val(q), remainder |-> Val(r)]
  BY <1>2 DEF Replied
<1>4. Requested' = Requested BY <1>2 DEF Requested
<1> QED BY <1>1, <1>3, <1>4, RequestedFacts, NotYetReplied DEF Service!Answer

\* A step that keeps the call and the reply is invisible to the service.
LEMMA StutterRefines ==
  ASSUME call' = call, reply' = reply
  PROVE  UNCHANGED <<Requested, Replied>>
BY DEF Requested, Replied

\* Every branch is a step of the division service, or invisible to it.
LEMMA StepRefines ==
  IndInv /\ [Next]_vars => [Service!Next]_<<Requested, Replied>>
<1> SUFFICES ASSUME IndInv, [Next]_vars
             PROVE  Service!Next \/ UNCHANGED <<Requested, Replied>>
  OBVIOUS
<1>1. CASE Call
  <2>1. call = NoCall /\ call' \in Calls /\ reply' = reply /\ pc # "returned"
    BY <1>1 DEF Call, IndInv, Control
  <2>2. call'.kind \in Entries /\ call'.dividend \in U128 /\ call'.divisor \in U128
        /\ call' # NoCall
    BY <2>1 DEF Calls, NoCall, Entries
  <2>3. Val(call'.dividend) \in 0..(Base * Base - 1)
        /\ Val(call'.divisor) \in 0..(Base * Base - 1)
    BY <2>2, LimbsOf, Widths
  <2>4. Requested = Service!Idle BY <2>1 DEF Requested, NoCall, Service!Idle
  <2>5. Requested' = [kind |-> call'.kind, dividend |-> Val(call'.dividend),
                      divisor |-> Val(call'.divisor)]
    BY <2>2 DEF Requested
  <2>6. Requested' \in [kind : DOMAIN Refusals, dividend : 0..(Base * Base - 1),
                        divisor : 0..(Base * Base - 1)]
    BY <2>2, <2>3, <2>5 DEF Refusals, Entries
  <2>7. Replied' = Replied BY <2>1 DEF Replied
  <2> QED BY <2>4, <2>6, <2>7 DEF Service!Next, Service!Ask
<1>2. CASE RefuseZero
  <2>1. pc # "idle" /\ pc # "returned" /\ call' = call
        /\ reply' = [kind |-> Refusals[call.kind]]
    BY <1>2 DEF RefuseZero
  <2>2. call.kind \in Entries /\ call.divisor \in U128 BY <2>1, CallFacts
  <2>3. Val(call.divisor) = 0
    BY <1>2, <2>2, ZeroAndOne, ComparisonsCompare DEF RefuseZero
  <2>4. Replied' = [kind |-> Refusals[Requested.kind]]
    <3>1. reply'.kind # "result" BY <2>1, <2>2, RefusalKinds
    <3> QED BY <3>1, <2>1, RequestedFacts DEF Replied
  <2>5. Requested' = Requested BY <2>1 DEF Requested
  <2> QED BY <2>1, <2>3, <2>4, <2>5, RequestedFacts, NotYetReplied
          DEF Service!Next, Service!Refuse
<1>3. CASE EnterInstrumented \/ Dispatch \/ FallBack \/ Align \/ Iterate
  BY <1>3, StutterRefines DEF EnterInstrumented, Dispatch, FallBack, Align, Iterate
<1>4. CASE ReturnDividend
  <2>1. pc \in {"msvc", "portable"} /\ Return(DivResult(Zero, call.dividend)) /\ pc # "idle"
    BY <1>4 DEF ReturnDividend
  <2>2. call.dividend \in U128 /\ call.divisor \in U128
        /\ Val(call.dividend) \in Nat /\ Val(call.divisor) \in Nat
    BY <2>1, CallFacts
  <2>3. Val(call.dividend) < Val(call.divisor)
    BY <1>4, <2>2, ComparisonsCompare DEF ReturnDividend
  <2>4. \A x, d \in Nat : x < d => x \div d = 0 /\ x % d = x OBVIOUS
  <2>5. Val(call.dividend) \div Val(call.divisor) = 0
        /\ Val(call.dividend) % Val(call.divisor) = Val(call.dividend)
    BY <2>2, <2>3, <2>4
  <2> QED BY <2>1, <2>2, <2>5, ZeroAndOne, AnswerRefines DEF Service!Next
<1>5. CASE ReturnByLimb
  <2>1. pc = "msvc" /\ call.divisor.high = 0
        /\ Return(DivideByLimb(call.dividend, call.divisor.low))
        /\ Val(call.divisor) # 0
    BY <1>5 DEF ReturnByLimb, IndInv, Control
  <2>2. call.dividend \in U128 /\ call.divisor \in U128 BY <2>1, CallFacts
  <2>3. call.divisor.low \in Nat \ {0} /\ call.divisor.low < Base
        /\ Val(call.divisor) = call.divisor.low
    <3>1. \A n \in Nat : 0 * Base + n = n BY Widths
    <3> QED BY <2>1, <2>2, <3>1, LimbsOf
  <2> DEFINE res == DivideByLimb(call.dividend, call.divisor.low)
  <2>4. res.quotient \in U128 /\ res.remainder \in U128
        /\ Val(res.quotient) = Val(call.dividend) \div Val(call.divisor)
        /\ Val(res.remainder) = Val(call.dividend) % Val(call.divisor)
    BY <2>2, <2>3, ShortDivisionDivides
  <2>5. res = DivResult(res.quotient, res.remainder) BY DEF DivideByLimb, DivResult
  <2> HIDE DEF res
  <2> QED BY <2>1, <2>4, <2>5, AnswerRefines DEF Service!Next, res
<1>6. CASE ReturnOne
  <2>1. pc = "portable" /\ Return(DivResult(One, Zero)) /\ Val(call.divisor) # 0
    BY <1>6 DEF ReturnOne, IndInv, Control
  <2>2. call.dividend \in U128 /\ call.divisor \in U128 /\ Val(call.divisor) \in Nat
    BY <2>1, CallFacts
  <2>3. Val(call.divisor) = Val(call.dividend)
    BY <1>6, <2>2, ComparisonsCompare DEF ReturnOne
  <2>4. \A x \in Nat \ {0} : x \div x = 1 /\ x % x = 0 OBVIOUS
  <2>5. Val(call.dividend) \div Val(call.divisor) = 1
        /\ Val(call.dividend) % Val(call.divisor) = 0
    BY <2>1, <2>2, <2>3, <2>4
  <2> QED BY <2>1, <2>5, ZeroAndOne, AnswerRefines DEF Service!Next
<1>7. CASE ReturnLoop
  <2>1. pc = "loop" /\ Return(DivResult(loop.quotient, loop.dividend))
    BY <1>7 DEF ReturnLoop
  <2>2. loop.quotient \in U128 /\ loop.dividend \in U128 BY <2>1, LoopFacts
  <2> QED BY <1>7, <2>1, <2>2, LoopResult, AnswerRefines DEF Service!Next
<1>8. CASE TakeReply
  <2>1. pc = "returned" /\ call' = NoCall /\ reply' = NoReply BY <1>8 DEF TakeReply
  <2>2. Requested' = Service!Idle BY <2>1 DEF Requested, NoCall, Service!Idle
  <2>3. Replied' = Service!Idle BY <2>1 DEF Replied, NoReply, Service!Idle
  <2> QED BY <2>1, <2>2, <2>3, AlreadyReplied DEF Service!Next, Service!TakeReply
<1>9. CASE UNCHANGED vars
  BY <1>9, StutterRefines DEF vars
<1> QED BY <1>1, <1>2, <1>3, <1>4, <1>5, <1>6, <1>7, <1>8, <1>9 DEF Next, Work

\* uint128 division is exact, for operands of any width and on every path: each
\* call gets the quotient and the remainder of its operands as numbers, and a zero
\* divisor is refused as the entry point says (uint128.inl:336-400, 927-969, 2628-2705,
\* 2756-2795).
THEOREM DivisionIsExact == Spec => ImplementsDivision
<1>1. Init => Service!Init
  BY DEF Init, Service!Init, Service!Idle, Requested, Replied, NoCall, NoReply
<1> QED
  BY <1>1, StepRefines, Inductive, PTL DEF Spec, ImplementsDivision, Service!Spec

-----------------------------------------------------------------------------
(* The machines of MCArithmetic *)

\* Whatever steps, the machine and its build stay what they were, and only the
\* machine that was chosen moves.
LEMMA OneMoves ==
  ASSUME [MCNext]_allVars
  PROVE  /\ machine' = machine /\ build' = build
         /\ UNCHANGED <<macros, pointers64>>
         /\ machine = "umult" => [Multiplication!Next]_multVars
         /\ machine = "container" => [Container!Next]_containerVars
         /\ \/ machine = "object" /\ build = "portable" /\ Portable!Next
            \/ machine = "object" /\ build = "msvc" /\ Msvc!Next
            \/ UNCHANGED objectVars
         /\ machine = "chain" =>
              \/ build = "portable" /\ Portable!NextWord
              \/ build = "builtin" /\ Builtin!NextWord
              \/ build = "msvc" /\ Msvc!NextWord
              \/ UNCHANGED chainVars
         /\ machine = "floating" => [Portable!FloatNext]_floatVars
<1>1. CASE DivisionStep BY <1>1 DEF DivisionStep, choice, configurationVars
<1>2. CASE ObjectStep BY <1>2 DEF ObjectStep, choice, configurationVars
<1>3. CASE ChainStep BY <1>3 DEF ChainStep, choice, configurationVars
<1>4. CASE MultiplicationStep BY <1>4 DEF MultiplicationStep, choice, configurationVars
<1>5. CASE ContainerStep BY <1>5 DEF ContainerStep, choice, configurationVars
<1>6. CASE FloatingStep BY <1>6 DEF FloatingStep, choice, configurationVars
<1>7. CASE UNCHANGED allVars BY <1>7 DEF allVars, choice, configurationVars
<1> QED BY <1>1, <1>2, <1>3, <1>4, <1>5, <1>6, <1>7 DEF MCNext, Computed

-----------------------------------------------------------------------------
(* Build configuration *)

RealBuild == pointers64 \in BOOLEAN /\ ("_M_X64" \in macros => pointers64)

\* Intel's classic compiler takes the portable path, every other one for a Windows
\* with wide pointers a path with instructions.
LEMMA ModeOfWindows ==
  ASSUME RealBuild
  PROVE  /\ Build!init_eval_mode = "intrinsic_u128" <=> Build!USE_INTRINSIC_U128
         /\ Build!init_eval_mode \in {"msvc_x64", "msvc_x64_clang_or_intel_llvm"} <=>
              Build!DETECTED_WINDOWS /\ pointers64 /\ ~ Build!DETECTED_INTEL_CLASSIC
         /\ Build!init_eval_mode = "msvc_x64" <=>
              Build!DETECTED_WINDOWS /\ pointers64 /\ Build!compiler = "msvc"
<1>1. Build!is_x64 <=> pointers64 BY DEF RealBuild, Build!is_x64, Build!DETECTED_X64
<1>2. Build!DETECTED_WINDOWS => ~ Build!USE_INTRINSIC_U128 BY DEF Build!USE_INTRINSIC_U128
<1> DEFINE W == Build!DETECTED_WINDOWS  C == Build!DETECTED_INTEL_CLASSIC
           L == Build!DETECTED_INTEL_LLVM
           K == Build!DETECTED_CLANG
<1>3. /\ W /\ C => Build!compiler = "msvc_intel_classic"
      /\ W /\ ~ C /\ L => Build!compiler = "msvc_intel_llvm"
      /\ W /\ ~ C /\ ~ L => Build!compiler = IF K THEN "msvc_clang" ELSE "msvc"
  <2> HIDE DEF W, C, L, K
  <2>1. CASE W /\ C BY <2>1, Zenon DEF Build!compiler, W, C, L, K
  <2>2. CASE W /\ ~ C /\ L BY <2>2, Zenon DEF Build!compiler, W, C, L, K
  <2>3. CASE W /\ ~ C /\ ~ L BY <2>3, Zenon DEF Build!compiler, W, C, L, K
  <2> QED BY <2>1, <2>2, <2>3
<1>4. Build!is_windows_x64 <=> W /\ pointers64
  BY <1>1 DEF Build!is_windows_x64, Build!is_windows
<1>5. Build!is_microsoft_windows_x64 <=> W /\ pointers64 /\ Build!compiler = "msvc"
  BY <1>4 DEF Build!is_microsoft_windows_x64
<1>6. Build!is_clang_or_intel_llvm_msvc_x64 <=>
        W /\ pointers64 /\ Build!compiler \in {"msvc_clang", "msvc_intel_llvm"}
  BY <1>4 DEF Build!is_clang_or_intel_llvm_msvc_x64
<1> QED BY <1>2, <1>3, <1>5, <1>6 DEF Build!init_eval_mode

\* A build executes an undefined function, or divides to zero, exactly on an odd
\* Windows: whatever macros the compiler predefines (cjm_configuration.hpp:35-76,
\* numerics_configuration.hpp:75-126, 228-333).
THEOREM CompleteUnlessOdd ==
  ASSUME RealBuild
  PROVE  Build!BuildIsComplete
<1> DEFINE all == {"ADDCARRY64", "SUBBORROW_64", "UMUL128", "LSHIFT128", "RSHIFT128",
                   "BITSCAN_REV_64"}
           accelerated ==
             Build!init_eval_mode \in {"msvc_x64", "msvc_x64_clang_or_intel_llvm"}
           NotMicrosofts ==
             \/ Build!DETECTED_INTEL_CLASSIC
             \/ Build!DETECTED_INTEL_LLVM
             \/ Build!DETECTED_CLANG
<1>1. Build!OddWindows <=> accelerated /\ ~ Build!BASE_INTRINSICS_AVAILABLE
  <2>1. accelerated <=>
          Build!DETECTED_WINDOWS /\ pointers64 /\ ~ Build!DETECTED_INTEL_CLASSIC
    BY ModeOfWindows
  <2> QED BY <2>1 DEF Build!OddWindows, Build!BASE_INTRINSICS_AVAILABLE
<1>2. ASSUME ~ Build!BASE_INTRINSICS_AVAILABLE
      PROVE  (\E name \in Build!Executed : Build!Instruction[name] = Build!Undefined)
               <=> accelerated
  <2>1. \A name \in all : Build!Instruction[name] = Build!Undefined
    BY <1>2 DEF Build!Instruction
  <2>2. accelerated => "UMUL128" \in Build!Executed BY DEF Build!Executed
  <2>3. ~ accelerated => Build!Executed = {} BY DEF Build!Executed
  <2> QED BY <2>1, <2>2, <2>3
<1>3. ASSUME Build!BASE_INTRINSICS_AVAILABLE, NEW name \in Build!Executed
      PROVE  Build!Instruction[name] # Build!Undefined
  <2>1. name \in all \/ (name = "UDIV128" /\ Build!UDIV_INTRINSIC_AVAILABLE)
    BY DEF Build!Executed
  <2> QED BY <1>3, <2>1 DEF Build!Instruction, Build!Undefined
<1>4. (\E name \in Build!Executed : Build!Instruction[name] = Build!Undefined)
        <=> Build!OddWindows
  BY <1>1, <1>2, <1>3
<1>5. Build!DividesToZero <=> (Build!OddWindows /\ Build!compiler = "msvc")
  <2>1. Build!init_eval_mode = "msvc_x64" =>
          Build!DETECTED_WINDOWS /\ ~ NotMicrosofts
    <3>1. Build!DETECTED_WINDOWS /\ Build!compiler = "msvc" =>
            ~ NotMicrosofts
      <4> SUFFICES ASSUME Build!DETECTED_WINDOWS,
                          NotMicrosofts
                   PROVE  Build!compiler # "msvc"
        OBVIOUS
      <4>1. CASE Build!DETECTED_INTEL_CLASSIC
        <5>1. Build!compiler = "msvc_intel_classic" BY <4>1, Zenon DEF Build!compiler
        <5> QED BY <5>1
      <4>2. CASE ~ Build!DETECTED_INTEL_CLASSIC /\ Build!DETECTED_INTEL_LLVM
        <5>1. Build!compiler = "msvc_intel_llvm" BY <4>2, Zenon DEF Build!compiler
        <5> QED BY <5>1
      <4>3. CASE /\ ~ Build!DETECTED_INTEL_CLASSIC /\ ~ Build!DETECTED_INTEL_LLVM
                 /\ Build!DETECTED_CLANG
        <5>1. Build!compiler = "msvc_clang" BY <4>3, Zenon DEF Build!compiler
        <5> QED BY <5>1
      <4> QED BY <4>1, <4>2, <4>3
    <3> QED BY <3>1, ModeOfWindows
  <2>2. Build!UDIV_INTRINSIC_AVAILABLE => Build!BASE_INTRINSICS_AVAILABLE
    BY DEF Build!UDIV_INTRINSIC_AVAILABLE
  <2>3. Build!init_eval_mode = "msvc_x64" =>
          (Build!UDIV_INTRINSIC_AVAILABLE <=> Build!BASE_INTRINSICS_AVAILABLE)
    BY <2>1 DEF Build!UDIV_INTRINSIC_AVAILABLE
  <2>4. Build!OddWindows /\ Build!compiler = "msvc" => Build!init_eval_mode = "msvc_x64"
    BY ModeOfWindows DEF Build!OddWindows
  <2>5. Build!init_eval_mode = "msvc_x64" => Build!compiler = "msvc" BY ModeOfWindows
  <2> QED BY <1>1, <2>2, <2>3, <2>4, <2>5 DEF Build!DividesToZero
<1>6. Build!init_eval_mode = "intrinsic_u128" => Build!natuint128_t # "uint128"
  BY ModeOfWindows DEF Build!natuint128_t
<1> QED BY <1>4, <1>5, <1>6 DEF Build!BuildIsComplete

\* A build on which the preprocessor's macros are those of a compiler executes an
\* undefined function, or divides to zero, on an odd Windows and nowhere else.
THEOREM BuildsStayComplete == MCSpec => []BuildIsComplete
<1> DEFINE Inv == machine = "configuration" => RealBuild
<1>1. MCInit => Inv BY DEF MCInit, Build!Init, RealBuild
<1>2. Inv /\ [MCNext]_allVars => Inv'
  <2> SUFFICES ASSUME Inv, [MCNext]_allVars PROVE Inv' OBVIOUS
  <2> QED BY OneMoves DEF RealBuild
<1>3. Inv => BuildIsComplete BY CompleteUnlessOdd DEF BuildIsComplete
<1> QED BY <1>1, <1>2, <1>3, PTL DEF MCSpec

-----------------------------------------------------------------------------
(* The demonstration of extended multiplication *)

\* umult works with the operators of uint128.
LEMMA MultiplicationOperators ==
  /\ Multiplication!Pow2 = Pow2 /\ Multiplication!Base = Base
  /\ Multiplication!HalfBase = HalfBase /\ Multiplication!Limb = Limb
  /\ Multiplication!Zero = Zero /\ Multiplication!LimbBits = LimbBits
  /\ \A h, l : Multiplication!make_uint128(h, l) = make_uint128(h, l)
  /\ \A u : Multiplication!Val(u) = Val(u)
  /\ \A n : Multiplication!Wrap(n) = Wrap(n)
  /\ \A f, n : Multiplication!Total(f, n) = Total(f, n)
<1>1. Multiplication!Pow2 = Pow2 BY DEF Multiplication!Pow2, Pow2
<1>2. Multiplication!LimbBits = LimbBits BY DEF Multiplication!LimbBits, LimbBits
<1>3. Multiplication!Base = Base BY <1>1, <1>2 DEF Multiplication!Base, Base
<1>4. Multiplication!HalfBase = HalfBase BY <1>1 DEF Multiplication!HalfBase, HalfBase
<1>5. Multiplication!Limb = Limb BY <1>3 DEF Multiplication!Limb, Limb
<1>6. \A h, l : Multiplication!make_uint128(h, l) = make_uint128(h, l)
  BY DEF Multiplication!make_uint128, make_uint128
<1>7. Multiplication!Zero = Zero BY <1>6 DEF Multiplication!Zero, Zero
<1>8. \A u : Multiplication!Val(u) = Val(u) BY <1>3 DEF Multiplication!Val, Val
<1>9. \A n : Multiplication!Wrap(n) = Wrap(n) BY <1>3 DEF Multiplication!Wrap, Wrap
<1>10. \A f, n : Multiplication!Total(f, n) = Total(f, n) BY DEF Multiplication!Total, Total
<1> QED BY <1>1, <1>2, <1>3, <1>4, <1>5, <1>6, <1>7, <1>8, <1>9, <1>10

\* A sum that fits two words is exact, and its high word does not carry.
LEMMA PairAdds ==
  ASSUME NEW u \in U128, NEW v \in U128, Val(u) + Val(v) < Base * Base
  PROVE  LET r == Multiplication!add(u, v)
         IN  r.sum \in U128 /\ Val(r.sum) = Val(u) + Val(v) /\ r.carry = 0
<1> DEFINE l == u.low + v.low
           c == IF l < Base THEN 0 ELSE 1
           h == u.high + v.high + c
           w == IF l < Base THEN l ELSE l - Base
<1>1. /\ u.high \in Nat /\ u.high < Base /\ u.low \in Nat /\ u.low < Base
      /\ v.high \in Nat /\ v.high < Base /\ v.low \in Nat /\ v.low < Base
      /\ Val(u) = u.high * Base + u.low /\ Val(v) = v.high * Base + v.low
      /\ Base \in Nat \ {0}
  BY LimbsOf, Widths
<1>2. l \in Nat /\ l < Base + Base /\ c \in {0, 1} /\ h \in Nat /\ w \in Nat /\ w < Base
      /\ w + c * Base = l
  <2>1. l \in Nat /\ l < Base + Base /\ c \in {0, 1} /\ w \in Nat /\ w < Base BY <1>1
  <2>2. 0 * Base = 0 /\ 1 * Base = Base BY <1>1
  <2>3. w + c * Base = l BY <1>1, <2>1, <2>2
  <2>4. c \in Nat BY <2>1
  <2>5. h \in Nat
    <3> HIDE DEF c
    <3> QED BY <1>1, <2>4
  <2> HIDE DEF l, c, w, h
  <2> QED BY <1>1, <2>1, <2>3, <2>4, <2>5
<1>3. Val(u) + Val(v) = h * Base + w
  <2>1. (u.high + v.high + c) * Base = u.high * Base + v.high * Base + c * Base
    <3> DEFINE x == u.high  y == v.high  b == Base
    <3>1. x \in Nat /\ y \in Nat /\ c \in Nat /\ b \in Nat BY <1>1, <1>2
    <3> HIDE DEF c, x, y, b
    <3>0. \A k, m, n, o \in Nat : (k + m + n) * o = k * o + m * o + n * o OBVIOUS
    <3>2. (x + y + c) * b = x * b + y * b + c * b BY <3>0, <3>1
    <3> QED BY <3>2 DEF x, y, b
  <2> HIDE DEF l, c, w
  <2>2. u.high * Base \in Nat /\ v.high * Base \in Nat /\ c * Base \in Nat BY <1>1, <1>2
  <2>3. l = u.low + v.low BY DEF l
  <2> DEFINE x == u.high * Base  y == v.high * Base  z == c * Base  k == h * Base
  <2>4. k = x + y + z BY <2>1
  <2>5. /\ x \in Nat /\ y \in Nat /\ z \in Nat /\ w + z = l
        /\ Val(u) = x + u.low /\ Val(v) = y + v.low
        /\ u.low \in Nat /\ v.low \in Nat /\ w \in Nat
    BY <1>1, <1>2, <2>2
  <2> HIDE DEF x, y, z, k
  <2>6. Val(u) + Val(v) = k + w
    <3> HIDE DEF h
    <3>1. w + z = u.low + v.low BY <2>3, <2>5
    <3>2. x \in Nat /\ y \in Nat /\ z \in Nat /\ w \in Nat BY <2>5
    <3>3. u.low \in Nat /\ v.low \in Nat BY <2>5
    <3>4. (x + y + z) + w = (x + y) + (w + z) BY <3>2
    <3>5. (x + u.low) + (y + v.low) = (x + y) + (u.low + v.low) BY <3>2, <3>3
    <3> QED BY <2>4, <2>5, <3>1, <3>4, <3>5
  <2> QED BY <2>6 DEF k
<1>4. h < Base
  <2>1. \A x, b \in Nat : x >= b => x * b >= b * b OBVIOUS
  <2> HIDE DEF h, w
  <2>2. h * Base \in Nat /\ Base * Base \in Nat BY <1>1, <1>2
  <2> QED BY <1>1, <1>2, <1>3, <2>1, <2>2
<1> DEFINE low == Multiplication!add_with_carry(u.low, v.low, 0)
           high == Multiplication!add_with_carry(u.high, v.high, low.carry)
<1>5. low.sum = w /\ low.carry = c
  <2>1. u.low + v.low + 0 = l BY <1>1
  <2>2. low.sum = Wrap(l) /\ low.carry = IF low.sum < u.low THEN 1 ELSE 0
    BY <2>1, MultiplicationOperators DEF Multiplication!add_with_carry
  <2>3. Wrap(l) = w BY <1>2, WrapOnce
  <2>4. l < Base <=> ~ (w < u.low) BY <1>1
  <2> HIDE DEF low, w
  <2> QED BY <2>2, <2>3, <2>4
<1>6. high.sum = h /\ high.carry = 0
  <2>1. low.carry = c BY <1>5
  <2> HIDE DEF low, c
  <2>2. high.sum = Wrap(h) /\ high.carry = IF high.sum < u.high THEN 1 ELSE 0
    BY <2>1, MultiplicationOperators DEF Multiplication!add_with_carry
  <2>3. Wrap(h) = h
    <3> HIDE DEF h
    <3> QED BY <1>1, <1>2, <1>4, WrapOnce
  <2>4. ~ (h < u.high) BY <1>1, <1>2
  <2> HIDE DEF high, h
  <2> QED BY <2>2, <2>3, <2>4
<1>7. Multiplication!add(u, v) = [sum |-> make_uint128(high.sum, low.sum), carry |-> high.carry]
  BY MultiplicationOperators DEF Multiplication!add
<1> HIDE DEF low, high, h, w, c, l
<1> QED BY <1>2, <1>3, <1>4, <1>5, <1>6, <1>7, MakeLimbs

\* A word shifted by half of its bits in a pair of words loses none of them.
LEMMA PairShifts ==
  ASSUME NEW p \in Nat, p < Base
  PROVE  /\ LET u == Multiplication!lshift(make_uint128(0, p), HalfBits)
            IN  u \in U128 /\ Val(u) = p * HalfBase
         /\ LET u == Multiplication!lshift(make_uint128(0, p), LimbBits)
            IN  u \in U128 /\ Val(u) = p * Base
<1>1. /\ HalfBase \in Nat \ {0} /\ HalfBase * HalfBase = Base /\ HalfBase = Pow2[HalfBits]
      /\ Base \in Nat \ {0}
  BY HalfWidths, Widths
<1>2. /\ HalfBits \in 1..(LimbBits - 1) /\ HalfBits # LimbBits
      /\ LimbBits - HalfBits = HalfBits
  <2>1. HalfBits \in Nat \ {0} BY Widths
  <2> QED BY <2>1 DEF LimbBits
<1> DEFINE q == p \div HalfBase  r == p % HalfBase
<1>3. q \in Nat /\ r \in Nat /\ r < HalfBase /\ p = q * HalfBase + r BY <1>1, DivisionParts
<1>4. q < HalfBase
  <2>1. \A x, b \in Nat : x >= b => x * b >= b * b OBVIOUS
  <2> HIDE DEF q, r
  <2>2. q * HalfBase \in Nat BY <1>1, <1>3
  <2> QED BY <1>1, <1>3, <2>1, <2>2
<1>5. /\ p * HalfBase = q * Base + r * HalfBase
      /\ r * HalfBase \in Nat /\ r * HalfBase < Base
  <2> HIDE DEF q, r
  <2>1. (q * HalfBase + r) * HalfBase = q * (HalfBase * HalfBase) + r * HalfBase BY <1>1, <1>3
  <2>2. \A x, b \in Nat : x < b => x * b \in Nat /\ x * b < b * b OBVIOUS
  <2> QED BY <1>1, <1>3, <2>1, <2>2
<1>6. (p * HalfBase) % Base = r * HalfBase
  <2> DEFINE y == p * HalfBase  t == r * HalfBase
  <2>1. t \in Nat /\ t < Base /\ y = q * Base + t /\ q \in Int /\ y \in Int BY <1>1, <1>3, <1>5
  <2> HIDE DEF q, r, y, t
  <2>2. y % Base = t BY <1>1, <2>1, Residue
  <2> QED BY <2>2 DEF y, t
<1>7. make_uint128(0, p).high = 0 /\ make_uint128(0, p).low = p BY DEF make_uint128
<1>8. Multiplication!lshift(make_uint128(0, p), HalfBits) = make_uint128(q, r * HalfBase)
  <2> DEFINE u == make_uint128(0, p)
  <2>1. Multiplication!lshift(u, HalfBits)
          = make_uint128(Wrap(u.high * Pow2[HalfBits]) + (u.low \div Pow2[LimbBits - HalfBits]),
                         Wrap(u.low * Pow2[HalfBits]))
    <3> HIDE DEF u
    <3> QED BY <1>2, MultiplicationOperators
            DEF Multiplication!lshift, Multiplication!LimbShiftLeft,
                Multiplication!LimbShiftRight
  <2>2. Wrap(0 * HalfBase) = 0 BY <1>1 DEF Wrap
  <2>3. 0 + q = q BY <1>3
  <2>4. Wrap(p * HalfBase) = r * HalfBase BY <1>6 DEF Wrap
  <2>5. u.high = 0 /\ u.low = p BY <1>7
  <2>6. p \div Pow2[LimbBits - HalfBits] = q BY <1>1, <1>2
  <2> HIDE DEF u, q, r
  <2>7. Multiplication!lshift(u, HalfBits)
          = make_uint128(Wrap(0 * HalfBase) + q, Wrap(p * HalfBase))
    BY <1>1, <2>1, <2>5, <2>6
  <2> QED BY <2>2, <2>3, <2>4, <2>7 DEF u
<1>9. Multiplication!lshift(make_uint128(0, p), LimbBits) = make_uint128(p, 0)
  <2> DEFINE u == make_uint128(0, p)
  <2>1. u.high = 0 /\ u.low = p BY <1>7
  <2> HIDE DEF u
  <2>2. LimbBits \in Nat /\ LimbBits # 0 /\ LimbBits \notin 1..(LimbBits - 1) BY Widths
  <2>3. Multiplication!lshift(u, LimbBits) = make_uint128(u.low, 0)
    BY <2>2, MultiplicationOperators DEF Multiplication!lshift
  <2> QED BY <2>1, <2>3 DEF u
<1>10. q < Base
  <2>1. \A b \in Nat \ {0} : b =< b * b OBVIOUS
  <2> HIDE DEF q
  <2> QED BY <1>1, <1>3, <1>4, <2>1
<1>11. p * Base + 0 = p * Base /\ 0 < Base BY <1>1
<1> HIDE DEF q, r
<1>12. LET u == make_uint128(q, r * HalfBase) IN u \in U128 /\ Val(u) = p * HalfBase
  BY <1>3, <1>5, <1>10, MakeLimbs
<1>13. LET u == make_uint128(p, 0) IN u \in U128 /\ Val(u) = p * Base
  BY <1>11, MakeLimbs
<1> QED BY <1>8, <1>9, <1>12, <1>13

\* The four products at their places, as numbers.
Pieces ==
  LET l == Multiplication!split_up(factors[1])
      r == Multiplication!split_up(factors[2])
  IN  <<l.low * r.low, (l.high * r.low) * HalfBase, (l.low * r.high) * HalfBase,
        (l.high * r.high) * Base>>

\* They add up to the product of the factors.
LEMMA PiecesAddUp ==
  ASSUME factors \in Limb \X Limb
  PROVE  /\ \A n \in 1..4 : Pieces[n] \in Nat
         /\ Pieces[1] + Pieces[2] + Pieces[3] + Pieces[4] = factors[1] * factors[2]
         /\ factors[1] * factors[2] < Base * Base
         /\ LET l == Multiplication!split_up(factors[1])
                r == Multiplication!split_up(factors[2])
            IN  \A p \in {l.low * r.low, l.high * r.low, l.low * r.high, l.high * r.high} :
                  p \in Nat /\ p < Base
<1> DEFINE a == factors[1]  b == factors[2]  H == HalfBase
           l == Multiplication!split_up(a)  r == Multiplication!split_up(b)
           ah == a \div H  al == a % H  bh == b \div H  bl == b % H
<1>1. H \in Nat \ {0} /\ H * H = Base /\ Base \in Nat \ {0} BY HalfWidths, Widths
<1>2. a \in Nat /\ a < Base /\ b \in Nat /\ b < Base BY Widths DEF Limb
<1>3. l.high = ah /\ l.low = al /\ r.high = bh /\ r.low = bl
  BY MultiplicationOperators DEF Multiplication!split_up
<1> HIDE DEF H
<1>4. ASSUME NEW n \in Nat, n < Base
      PROVE  /\ n \div H \in Nat /\ n \div H < H /\ n % H \in Nat /\ n % H < H
             /\ n = (n \div H) * H + (n % H)
  <2> DEFINE q == n \div H  t == n % H
  <2>1. q \in Nat /\ t \in Nat /\ t < H /\ n = q * H + t BY <1>1, DivisionParts
  <2>2. \A x, k \in Nat : x >= k => x * k >= k * k OBVIOUS
  <2> HIDE DEF q, t
  <2>3. q * H \in Nat BY <1>1, <2>1
  <2>4. q < H BY <1>1, <1>4, <2>1, <2>2, <2>3
  <2> QED BY <2>1, <2>4 DEF q, t
<1>5. /\ ah \in Nat /\ ah < H /\ al \in Nat /\ al < H /\ a = ah * H + al
      /\ bh \in Nat /\ bh < H /\ bl \in Nat /\ bl < H /\ b = bh * H + bl
  BY <1>2, <1>4
<1>6. Pieces = <<al * bl, (ah * bl) * H, (al * bh) * H, (ah * bh) * Base>>
  BY <1>3 DEF Pieces, H
<1> HIDE DEF a, b, l, r, ah, al, bh, bl
<1>7. \A x, y \in Nat : x < H /\ y < H => x * y \in Nat /\ x * y < Base
  BY <1>1, ProductBelow
<1>8. \A x \in Nat : x * H \in Nat /\ x * Base \in Nat BY <1>1
<1>9. a * b = (ah * bh) * (H * H) + (al * bh + ah * bl) * H + al * bl
  <2>1. \A w, x, y, z, m \in Nat :
          (w * m + x) * (y * m + z) = (w * y) * (m * m) + (x * y + w * z) * m + x * z
    BY ProductOfPairs
  <2> QED BY <1>1, <1>5, <2>1
<1>10. (al * bh + ah * bl) * H = (al * bh) * H + (ah * bl) * H
  BY <1>1, <1>5, <1>7
<1>11. a * b = al * bl + (ah * bl) * H + (al * bh) * H + (ah * bh) * Base
  BY <1>1, <1>5, <1>7, <1>8, <1>9, <1>10
<1>12. a * b < Base * Base BY <1>1, <1>2, ProductBelow
<1>13. /\ al * bl \in Nat /\ al * bl < Base /\ ah * bl \in Nat /\ ah * bl < Base
       /\ al * bh \in Nat /\ al * bh < Base /\ ah * bh \in Nat /\ ah * bh < Base
  BY <1>5, <1>7
<1>14. \A n \in 1..4 : Pieces[n] \in Nat
  <2> TAKE n \in 1..4
  <2>1. n = 1 \/ n = 2 \/ n = 3 \/ n = 4 OBVIOUS
  <2> QED BY <1>6, <1>8, <1>13, <2>1
<1>15. Pieces[1] + Pieces[2] + Pieces[3] + Pieces[4] = a * b BY <1>6, <1>11
<1> QED BY <1>3, <1>12, <1>13, <1>14, <1>15 DEF a, b, l, r

\* A partial sum: a pair of words or a number.
Sums == IF helper = "pair" THEN U128 ELSE Nat

\* What has been added so far are the first pieces, and those to be added are the
\* last ones.
MultiplicationInv ==
  /\ helper \in {"wide", "pair"} /\ factors \in Limb \X Limb
  /\ running \in BOOLEAN /\ overflow = 0
  /\ sum \in Sums /\ products \in Seq(Sums)
  /\ ~ running => products = << >>
  /\ running =>
       /\ Len(products) \in 0..3
       /\ \A n \in 1..Len(products) :
            Multiplication!Amount(products[n]) = Pieces[(4 - Len(products)) + n]
       /\ Multiplication!Amount(sum) = Total(Pieces, 4 - Len(products))

\* The number of a sum, with either helper.
LEMMA AmountIs ==
  ASSUME helper \in {"wide", "pair"}
  PROVE  \A s \in Sums : /\ Multiplication!Amount(s) \in Nat
                         /\ Multiplication!Amount(s) = IF helper = "pair" THEN Val(s) ELSE s
<1> TAKE s \in Sums
<1>1. Multiplication!Amount(s) = IF helper = "pair" THEN Val(s) ELSE s
  BY MultiplicationOperators DEF Multiplication!Amount
<1>2. CASE helper = "pair" BY <1>1, <1>2, LimbsOf DEF Sums
<1>3. CASE helper # "pair" BY <1>1, <1>3 DEF Sums
<1> QED BY <1>1, <1>2, <1>3

\* The sums of the first pieces.
LEMMA PieceSums ==
  ASSUME factors \in Limb \X Limb
  PROVE  /\ \A k \in 0..3 : Total(Pieces, k + 1) = Total(Pieces, k) + Pieces[k + 1]
         /\ \A k \in 0..4 : Total(Pieces, k) \in Nat
         /\ Total(Pieces, 0) = 0 /\ Total(Pieces, 4) = factors[1] * factors[2]
         /\ \A k \in 0..4 : Total(Pieces, k) < Base * Base
<1>1. \A n \in 1..4 : Pieces[n] \in Nat BY PiecesAddUp
<1>2. /\ Total(Pieces, 0) = 0
      /\ \A k \in 0..4 : Total(Pieces, k) \in Nat
      /\ \A k \in 0..(4 - 1) : Total(Pieces, k + 1) = Total(Pieces, k) + Pieces[k + 1]
  <2> DEFINE P == Pieces
  <2>1. \A n \in 1..4 : P[n] \in Nat BY <1>1
  <2> HIDE DEF P
  <2>2. 4 \in Nat OBVIOUS
  <2>3. /\ Total(P, 0) = 0
        /\ \A k \in 0..4 : Total(P, k) \in Nat
        /\ \A k \in 0..(4 - 1) : Total(P, k + 1) = Total(P, k) + P[k + 1]
    BY <2>1, <2>2, TotalSteps
  <2> QED BY <2>3 DEF P
<1>3. 4 - 1 = 3 OBVIOUS
<1>4. /\ Total(Pieces, 1) = Total(Pieces, 0) + Pieces[1]
      /\ Total(Pieces, 2) = Total(Pieces, 1) + Pieces[2]
      /\ Total(Pieces, 3) = Total(Pieces, 2) + Pieces[3]
      /\ Total(Pieces, 4) = Total(Pieces, 3) + Pieces[4]
  <2>1. \A k \in 0..3 : Total(Pieces, k + 1) = Total(Pieces, k) + Pieces[k + 1]
    BY <1>2, <1>3
  <2>2. 0 + 1 = 1 /\ 1 + 1 = 2 /\ 2 + 1 = 3 /\ 3 + 1 = 4 OBVIOUS
  <2>3. 0 \in 0..3 /\ 1 \in 0..3 /\ 2 \in 0..3 /\ 3 \in 0..3 OBVIOUS
  <2> QED BY <2>1, <2>2, <2>3
<1>5. /\ Pieces[1] \in Nat /\ Pieces[2] \in Nat /\ Pieces[3] \in Nat /\ Pieces[4] \in Nat
      /\ Pieces[1] + Pieces[2] + Pieces[3] + Pieces[4] = factors[1] * factors[2]
      /\ factors[1] * factors[2] < Base * Base
  BY <1>1, PiecesAddUp
<1>6. Total(Pieces, 4) = factors[1] * factors[2]
  <2> DEFINE t(k) == Total(Pieces, k)  p(k) == Pieces[k]
  <2>1. t(4) = p(1) + p(2) + p(3) + p(4)
    <3>1. t(0) = 0 /\ t(1) = t(0) + p(1) /\ t(2) = t(1) + p(2) /\ t(3) = t(2) + p(3)
          /\ t(4) = t(3) + p(4) /\ p(1) \in Nat /\ p(2) \in Nat /\ p(3) \in Nat /\ p(4) \in Nat
      BY <1>2, <1>4, <1>5
    <3> HIDE DEF t, p
    <3> QED BY <3>1
  <2> QED BY <2>1, <1>5
<1>7. \A k \in 0..4 : Total(Pieces, k) < Base * Base
  <2> TAKE k \in 0..4
  <2> DEFINE t(n) == Total(Pieces, n)  p(n) == Pieces[n]
  <2>1. k = 0 \/ k = 1 \/ k = 2 \/ k = 3 \/ k = 4 OBVIOUS
  <2>2. t(0) = 0 /\ t(1) = t(0) + p(1) /\ t(2) = t(1) + p(2) /\ t(3) = t(2) + p(3)
        /\ t(4) = t(3) + p(4) /\ p(1) \in Nat /\ p(2) \in Nat /\ p(3) \in Nat /\ p(4) \in Nat
    BY <1>2, <1>4, <1>5
  <2>3. t(4) < Base * Base BY <1>5, <1>6
  <2> HIDE DEF t, p
  <2>4. Base * Base \in Nat BY Widths
  <2>5. /\ t(0) < Base * Base /\ t(1) < Base * Base
        /\ t(2) < Base * Base /\ t(3) < Base * Base
    BY <2>2, <2>3, <2>4
  <2>6. t(k) < Base * Base BY <2>1, <2>3, <2>5
  <2> QED BY <2>6 DEF t
<1> QED BY <1>2, <1>3, <1>6, <1>7

\* The products at their places are the pieces.
LEMMA ProductsArePieces ==
  ASSUME helper \in {"wide", "pair"}, factors \in Limb \X Limb
  PROVE  LET all == Multiplication!get_adjusted_products(
                      Multiplication!split_up(factors[1]), Multiplication!split_up(factors[2]))
         IN  /\ all \in Seq(Sums) /\ Len(all) = 4
             /\ \A n \in 1..4 : Multiplication!Amount(all[n]) = Pieces[n]
<1> DEFINE l == Multiplication!split_up(factors[1])
           r == Multiplication!split_up(factors[2])
           p == Multiplication!HalfProducts(l, r)
           all == Multiplication!get_adjusted_products(l, r)
<1>1. p = <<l.low * r.low, l.high * r.low, l.low * r.high, l.high * r.high>>
  BY DEF Multiplication!HalfProducts
<1>2. \A n \in 1..4 : p[n] \in Nat /\ p[n] < Base
  <2> TAKE n \in 1..4
  <2>1. p[n] \in {l.low * r.low, l.high * r.low, l.low * r.high, l.high * r.high}
    <3>1. n = 1 \/ n = 2 \/ n = 3 \/ n = 4 OBVIOUS
    <3> HIDE DEF p
    <3> QED BY <1>1, <3>1
  <2> HIDE DEF p
  <2> QED BY <2>1, PiecesAddUp
<1>3. Pieces = <<p[1], p[2] * HalfBase, p[3] * HalfBase, p[4] * Base>>
  BY <1>1 DEF Pieces
<1> HIDE DEF l, r, p
<1>4. HalfBase \in Nat /\ Base \in Nat /\ 0 < Base BY HalfWidths, Widths
<1>5. CASE helper = "pair"
  <2> DEFINE u(n) == make_uint128(0, p[n])
             x2 == Multiplication!lshift(u(2), HalfBits)
             x3 == Multiplication!lshift(u(3), HalfBits)
             x4 == Multiplication!lshift(u(4), LimbBits)
  <2>1. all = <<u(1), x2, x3, x4>>
    <3>1. all = Multiplication!adjusted_pairs(p)
      BY <1>5 DEF Multiplication!get_adjusted_products, p
    <3>2. \A n \in 1..4 : Multiplication!uint64_t_mult_helper(p[n]) = u(n)
      BY MultiplicationOperators DEF Multiplication!uint64_t_mult_helper
    <3> DEFINE pair == [n \in 1..4 |-> Multiplication!uint64_t_mult_helper(p[n])]
    <3>3. pair[1] = u(1) /\ pair[2] = u(2) /\ pair[3] = u(3) /\ pair[4] = u(4) BY <3>2
    <3> HIDE DEF u
    <3>4. Multiplication!adjusted_pairs(p)
            = <<pair[1], Multiplication!lshift(pair[2], HalfBits),
                Multiplication!lshift(pair[3], HalfBits),
                Multiplication!lshift(pair[4], LimbBits)>>
      BY MultiplicationOperators DEF Multiplication!adjusted_pairs
    <3> HIDE DEF pair
    <3> QED BY <3>1, <3>3, <3>4
  <2>2. u(1) \in U128 /\ Val(u(1)) = p[1]
    <3>1. p[1] \in Nat /\ p[1] < Base /\ 0 * Base + p[1] = p[1] BY <1>2, <1>4
    <3> QED BY <3>1, <1>4, MakeLimbs
  <2>3. /\ x2 \in U128 /\ Val(x2) = p[2] * HalfBase
        /\ x3 \in U128 /\ Val(x3) = p[3] * HalfBase
        /\ x4 \in U128 /\ Val(x4) = p[4] * Base
    BY <1>2, PairShifts
  <2>4. Sums = U128 BY <1>5 DEF Sums
  <2>5. \A s \in U128 : Multiplication!Amount(s) = Val(s) BY <1>5, <2>4, AmountIs
  <2> HIDE DEF u, x2, x3, x4, all
  <2>6. all \in Seq(U128) /\ Len(all) = 4 BY <2>1, <2>2, <2>3
  <2>7. ASSUME NEW n \in 1..4
        PROVE  Multiplication!Amount(all[n]) = Pieces[n]
    <3>1. n = 1 \/ n = 2 \/ n = 3 \/ n = 4 OBVIOUS
    <3>2. all[1] = u(1) /\ all[2] = x2 /\ all[3] = x3 /\ all[4] = x4 BY <2>1
    <3>3. Pieces[1] = p[1] /\ Pieces[2] = p[2] * HalfBase /\ Pieces[3] = p[3] * HalfBase
          /\ Pieces[4] = p[4] * Base
      BY <1>3
    <3> QED BY <3>1, <3>2, <3>3, <2>2, <2>3, <2>5
  <2> QED BY <2>4, <2>6, <2>7 DEF all, l, r
<1>6. CASE helper # "pair"
  <2>1. all = <<p[1], p[2] * HalfBase, p[3] * HalfBase, p[4] * Base>>
    <3>1. all = Multiplication!adjusted_wide(p)
      BY <1>6 DEF Multiplication!get_adjusted_products, p
    <3> HIDE DEF all
    <3> QED BY <3>1, MultiplicationOperators DEF Multiplication!adjusted_wide
  <2>2. /\ p[1] \in Nat /\ p[2] * HalfBase \in Nat /\ p[3] * HalfBase \in Nat
        /\ p[4] * Base \in Nat
    BY <1>2, <1>4
  <2>3. Sums = Nat BY <1>6 DEF Sums
  <2>4. \A s \in Nat : Multiplication!Amount(s) = s BY <1>6, <2>3, AmountIs
  <2> HIDE DEF all
  <2>5. all \in Seq(Nat) /\ Len(all) = 4 BY <2>1, <2>2
  <2>6. \A n \in 1..4 : all[n] \in Nat /\ all[n] = Pieces[n] BY <2>1, <1>3, <2>5
  <2> QED BY <2>3, <2>4, <2>5, <2>6 DEF all, l, r
<1> QED BY <1>5, <1>6

\* Nothing has been added yet.
LEMMA MultiplicationStarts ==
  Multiplication!Init => MultiplicationInv
<1> SUFFICES ASSUME Multiplication!Init PROVE MultiplicationInv OBVIOUS
<1>1. /\ helper \in {"wide", "pair"} /\ factors \in Limb \X Limb /\ running = FALSE
      /\ overflow = 0 /\ products = << >> /\ sum = IF helper = "pair" THEN Zero ELSE 0
  BY MultiplicationOperators DEF Multiplication!Init
<1>2. sum \in Sums BY <1>1, ZeroAndOne DEF Sums
<1>3. products \in Seq(Sums) BY <1>1
<1> QED BY <1>1, <1>2, <1>3 DEF MultiplicationInv

\* A step of umult adds the next piece and loses nothing.
LEMMA MultiplicationKeeps ==
  ASSUME MultiplicationInv, Multiplication!Next
  PROVE  MultiplicationInv'
<1>1. /\ helper \in {"wide", "pair"} /\ factors \in Limb \X Limb
      /\ running \in BOOLEAN /\ overflow = 0 /\ sum \in Sums /\ products \in Seq(Sums)
  BY DEF MultiplicationInv
<1>2. CASE Multiplication!Multiply
  <2> DEFINE all == Multiplication!get_adjusted_products(
                      Multiplication!split_up(factors[1]), Multiplication!split_up(factors[2]))
  <2>1. /\ running' = TRUE /\ sum' = Head(all) /\ products' = Tail(all)
        /\ helper' = helper /\ factors' = factors /\ overflow' = overflow
    BY <1>2 DEF Multiplication!Multiply
  <2>2. /\ all \in Seq(Sums) /\ Len(all) = 4
        /\ \A n \in 1..4 : Multiplication!Amount(all[n]) = Pieces[n]
    BY <1>1, ProductsArePieces
  <2> HIDE DEF all
  <2>3. /\ sum' = all[1] /\ sum' \in Sums /\ products' \in Seq(Sums) /\ Len(products') = 3
        /\ \A n \in 1..3 : products'[n] = all[1 + n]
    <3>1. \A q \in Seq(Sums) : Len(q) = 4 =>
            /\ Head(q) = q[1] /\ q[1] \in Sums
            /\ Tail(q) \in Seq(Sums) /\ Len(Tail(q)) = 3
            /\ \A n \in 1..Len(Tail(q)) : Tail(q)[n] = q[n + 1]
      OBVIOUS
    <3>2. all \in Seq(Sums) /\ Len(all) = 4 BY <2>2
    <3>3. \A n \in 1..3 : n + 1 = 1 + n OBVIOUS
    <3> QED BY <2>1, <3>1, <3>2, <3>3
  <2>4. /\ Sums' = Sums /\ Pieces' = Pieces
        /\ \A s : Multiplication!Amount(s)' = Multiplication!Amount(s)
    BY <2>1 DEF Sums, Pieces, Multiplication!Amount, Multiplication!split_up
  <2>5. Multiplication!Amount(sum') = Total(Pieces, 1)
    <3>1. Total(Pieces, 0 + 1) = Total(Pieces, 0) + Pieces[0 + 1] /\ Total(Pieces, 0) = 0
      BY <1>1, PieceSums
    <3>2. Pieces[1] \in Nat BY <1>1, PiecesAddUp
    <3>3. Total(Pieces, 1) = Pieces[1] BY <3>1, <3>2
    <3> QED BY <2>2, <2>3, <3>3
  <2>6. \A n \in 1..3 : Multiplication!Amount(products'[n]) = Pieces[1 + n]
    <3>1. \A n \in 1..3 : 1 + n \in 1..4 OBVIOUS
    <3> QED BY <2>2, <2>3, <3>1
  <2>7. 4 - 3 = 1 OBVIOUS
  <2>8. /\ \A n \in 1..Len(products') :
             Multiplication!Amount(products'[n]) = Pieces[(4 - Len(products')) + n]
        /\ Multiplication!Amount(sum') = Total(Pieces, 4 - Len(products'))
        /\ Len(products') \in 0..3
    BY <2>3, <2>5, <2>6, <2>7
  <2>9. /\ \A n \in 1..Len(products') :
             Multiplication!Amount(products[n])' = Pieces'[(4 - Len(products')) + n]
        /\ Multiplication!Amount(sum)' = Total(Pieces', 4 - Len(products'))
    BY <2>4, <2>8
  <2> QED BY <1>1, <2>1, <2>3, <2>4, <2>8, <2>9 DEF MultiplicationInv
<1>3. CASE Multiplication!AddPair \/ Multiplication!AddWide
  <2> DEFINE s == sum  x == Head(products)  k == 4 - Len(products)
  <2>1. products # << >> /\ running /\ products' = Tail(products)
        /\ running' = running /\ helper' = helper /\ factors' = factors
    BY <1>3 DEF Multiplication!AddPair, Multiplication!AddWide, MultiplicationInv
  <2>2. /\ Len(products) \in 1..3 /\ k \in 1..3
        /\ x \in Sums /\ x = products[1] /\ Multiplication!Amount(x) = Pieces[k + 1]
        /\ Multiplication!Amount(s) = Total(Pieces, k)
    <3>1. Len(products) \in 0..3 /\ Len(products) # 0 BY <1>1, <2>1 DEF MultiplicationInv
    <3>2. x = products[1] /\ x \in Sums BY <1>1, <2>1
    <3>3. 1 \in 1..Len(products) BY <3>1
    <3> QED BY <2>1, <3>1, <3>2, <3>3 DEF MultiplicationInv
  <2> HIDE DEF s, x, k
  <2>3. /\ Multiplication!Amount(s) + Multiplication!Amount(x) = Total(Pieces, k + 1)
        /\ Total(Pieces, k + 1) \in Nat /\ Total(Pieces, k + 1) < Base * Base
    <3>1. k \in 0..3 /\ k + 1 \in 0..4 BY <2>2
    <3> QED BY <1>1, <2>2, <3>1, PieceSums
  <2>4. overflow' = 0 /\ sum' \in Sums /\ Multiplication!Amount(sum') = Total(Pieces, k + 1)
    <3>1. CASE Multiplication!AddPair
      <4>1. /\ helper = "pair" /\ sum' = Multiplication!add(s, x).sum
            /\ overflow' = Multiplication!add(s, x).carry
        BY <3>1 DEF Multiplication!AddPair, s, x
      <4>2. Sums = U128 BY <4>1 DEF Sums
      <4>3. \A t \in U128 : Multiplication!Amount(t) = Val(t) BY <4>1, <4>2, AmountIs
      <4>4. s \in U128 /\ x \in U128 /\ Val(s) + Val(x) < Base * Base
        BY <1>1, <2>2, <2>3, <4>2, <4>3 DEF s
      <4> DEFINE r == Multiplication!add(s, x)
      <4>5. r.sum \in U128 /\ Val(r.sum) = Val(s) + Val(x) /\ r.carry = 0 BY <4>4, PairAdds
      <4> HIDE DEF r
      <4>6. sum' = r.sum /\ overflow' = r.carry BY <4>1 DEF r
      <4> QED BY <2>3, <4>2, <4>3, <4>4, <4>5, <4>6
    <3>2. CASE Multiplication!AddWide
      <4>1. /\ helper # "pair" /\ sum' = (s + x) % (Base * Base) /\ overflow' = overflow
        BY <3>2, MultiplicationOperators DEF Multiplication!AddWide, s, x
      <4>2. Sums = Nat BY <4>1 DEF Sums
      <4>3. \A t \in Nat : Multiplication!Amount(t) = t BY <1>1, <4>1, <4>2, AmountIs
      <4>4. s \in Nat /\ x \in Nat /\ s + x < Base * Base /\ s + x = Total(Pieces, k + 1)
        BY <1>1, <2>2, <2>3, <4>2, <4>3 DEF s
      <4>5. (s + x) % (Base * Base) = s + x
        <5> DEFINE M == Base * Base  t == s + x
        <5>1. M \in Nat \ {0} /\ t \in Nat /\ t < M BY <4>4, Widths
        <5> HIDE DEF M, t
        <5>2. t % M = t BY <5>1, BelowDivisor
        <5> QED BY <5>2 DEF M, t
      <4> QED BY <1>1, <2>3, <4>1, <4>2, <4>3, <4>4, <4>5
    <3> QED BY <1>3, <3>1, <3>2
  <2>5. /\ products' \in Seq(Sums) /\ Len(products') = Len(products) - 1
        /\ \A n \in 1..Len(products') : products'[n] = products[n + 1]
    BY <1>1, <2>1
  <2>6. /\ Len(products') \in 0..3 /\ 4 - Len(products') = k + 1
        /\ \A n \in 1..Len(products') :
             n + 1 \in 1..Len(products) /\ k + (n + 1) = (k + 1) + n
    BY <2>2, <2>5 DEF k
  <2>7. \A n \in 1..Len(products') :
          Multiplication!Amount(products'[n]) = Pieces[(4 - Len(products')) + n]
    <3> TAKE n \in 1..Len(products')
    <3>1. Multiplication!Amount(products[n + 1]) = Pieces[k + (n + 1)]
      BY <2>1, <2>6 DEF MultiplicationInv, k
    <3> QED BY <2>5, <2>6, <3>1
  <2>8. /\ Sums' = Sums /\ Pieces' = Pieces
        /\ \A t : Multiplication!Amount(t)' = Multiplication!Amount(t)
    BY <2>1 DEF Sums, Pieces, Multiplication!Amount, Multiplication!split_up
  <2>9. /\ \A n \in 1..Len(products') :
             Multiplication!Amount(products[n])' = Pieces'[(4 - Len(products')) + n]
        /\ Multiplication!Amount(sum)' = Total(Pieces', 4 - Len(products'))
    BY <2>4, <2>6, <2>7, <2>8
  <2> QED BY <1>1, <2>1, <2>4, <2>5, <2>6, <2>8, <2>9 DEF MultiplicationInv
<1> QED BY <1>2, <1>3 DEF Multiplication!Next

\* umult gives the exact product of its factors, of any width and with either helper,
\* and its high word never carries.
THEOREM ProductsAreExact == MultiplicationInv => Multiplication!ProductIsExact
<1> SUFFICES ASSUME MultiplicationInv PROVE Multiplication!ProductIsExact OBVIOUS
<1>1. factors \in Limb \X Limb /\ overflow = 0 /\ products \in Seq(Sums)
  BY DEF MultiplicationInv
<1>2. ASSUME running
      PROVE  Multiplication!Amount(sum)
               + Total([n \in DOMAIN products |-> Multiplication!Amount(products[n])],
                     Len(products))
             = factors[1] * factors[2]
  <2> DEFINE m == Len(products)  k == 4 - m
             f == [n \in DOMAIN products |-> Multiplication!Amount(products[n])]
             t(n) == Total(f, n)  p(n) == Total(Pieces, n)
  <2>1. /\ m \in 0..3 /\ Multiplication!Amount(sum) = p(k)
        /\ \A n \in 1..m : Multiplication!Amount(products[n]) = Pieces[k + n]
    BY <1>2 DEF MultiplicationInv
  <2>2. DOMAIN products = 1..m BY <1>1
  <2>3. \A n \in 1..m : f[n] = Pieces[k + n] BY <2>1, <2>2
  <2> HIDE DEF f, m
  <2>4. \A n \in 1..m : k + n \in 1..4 /\ k + (n - 1) \in 0..3 /\ (k + (n - 1)) + 1 = k + n
    <3>1. m \in 0..3 /\ k = 4 - m BY <2>1
    <3> HIDE DEF k
    <3> QED BY <3>1
  <2>5. \A n \in 1..m : f[n] \in Nat BY <1>1, <2>3, <2>4, PiecesAddUp
  <2>6. /\ t(0) = 0 /\ \A n \in 0..m : t(n) \in Nat
        /\ \A n \in 0..(m - 1) : t(n + 1) = t(n) + f[n + 1]
    <3>1. m \in Nat BY <2>1
    <3> QED BY <2>5, <3>1, TotalSteps
  <2> HIDE DEF k
  <2>7. \A n \in 0..3 : p(n + 1) = p(n) + Pieces[n + 1] BY <1>1, PieceSums
  <2>8. \A n \in 0..4 : p(n) \in Nat BY <1>1, PieceSums
  <2>9. \A n \in 0..m : p(k) + t(n) = p(k + n)
    <3> DEFINE S == {n \in 0..m : p(k) + t(n) = p(k + n)}
    <3>1. 0 \in S
      <4>1. k + 0 = k /\ k \in 0..4 BY <2>1 DEF k
      <4> QED BY <2>1, <2>6, <2>8, <4>1
    <3>2. ASSUME NEW n \in 0..(m - 1), n \in S
          PROVE  n + 1 \in S
      <4>1. n + 1 \in 0..m /\ n + 1 \in 1..m /\ (n + 1) - 1 = n /\ n \in 0..m
            /\ k + (n + 1) = (k + n) + 1 /\ k + n \in 0..3 /\ k \in 0..4
        BY <2>1 DEF k
      <4>2. t(n + 1) = t(n) + Pieces[k + (n + 1)] BY <2>3, <2>6, <4>1
      <4>3. p((k + n) + 1) = p(k + n) + Pieces[(k + n) + 1] BY <2>7, <4>1
      <4>4. p(k) + t(n) = p(k + n) BY <3>2
      <4>5. p(k) \in Nat /\ t(n) \in Nat /\ Pieces[k + (n + 1)] \in Nat
        <5>1. k + (n + 1) \in 1..4 BY <4>1
        <5> QED BY <2>6, <2>8, <4>1, <5>1, <1>1, PiecesAddUp
      <4> HIDE DEF t, p
      <4>6. p(k) + t(n + 1) = p(k + (n + 1)) BY <4>1, <4>2, <4>3, <4>4, <4>5
      <4> QED BY <4>1, <4>6
    <3>3. m \in Nat BY <2>1
    <3> HIDE DEF S
    <3>4. \A n \in 0..m : n \in S BY <3>1, <3>2, <3>3, UpTo
    <3> QED BY <3>4 DEF S
  <2>10. p(k) + t(m) = factors[1] * factors[2]
    <3>1. m \in 0..m /\ k + m = 4 BY <2>1 DEF k
    <3> QED BY <2>9, <3>1, <1>1, PieceSums
  <2> QED BY <2>1, <2>10 DEF m, f
<1> QED BY <1>1, <1>2, MultiplicationOperators DEF Multiplication!ProductIsExact

\* umult gives the exact product, and loses nothing on the way to it, for factors of
\* any width and with either helper.
THEOREM ProductsStayExact == MCSpec => []ProductIsExact
<1> DEFINE Inv == machine = "umult" => MultiplicationInv
<1>1. MCInit => Inv BY MultiplicationStarts DEF MCInit
<1>2. Inv /\ [MCNext]_allVars => Inv'
  <2> SUFFICES ASSUME Inv, [MCNext]_allVars, machine = "umult" PROVE MultiplicationInv'
    BY OneMoves
  <2>1. CASE Multiplication!Next BY <2>1, MultiplicationKeeps
  <2>2. CASE UNCHANGED multVars
    BY <2>2 DEF multVars, MultiplicationInv, Sums, Pieces, Multiplication!Amount,
                Multiplication!split_up
  <2> QED BY <2>1, <2>2, OneMoves
<1>3. Inv => ProductIsExact BY ProductsAreExact DEF ProductIsExact
<1> QED BY <1>1, <1>2, <1>3, PTL DEF MCSpec

-----------------------------------------------------------------------------
(* The limb containers *)

\* The containers work with the operators of uint128.
LEMMA ContainerOperators ==
  /\ Container!Pow2 = Pow2 /\ Container!Base = Base /\ Container!HalfBase = HalfBase
  /\ Container!LimbBits = LimbBits /\ Container!Zero = Zero
  /\ \A h, l : Container!make_uint128(h, l) = make_uint128(h, l)
  /\ \A u : Container!Val(u) = Val(u)
  /\ \A n : Container!Wrap(n) = Wrap(n)
<1>1. Container!Pow2 = Pow2 BY DEF Container!Pow2, Pow2
<1>2. Container!LimbBits = LimbBits BY DEF Container!LimbBits, LimbBits
<1>3. Container!Base = Base BY <1>1, <1>2 DEF Container!Base, Base
<1>4. Container!HalfBase = HalfBase BY <1>1 DEF Container!HalfBase, HalfBase
<1>5. \A h, l : Container!make_uint128(h, l) = make_uint128(h, l)
  BY DEF Container!make_uint128, make_uint128
<1>6. Container!Zero = Zero BY <1>5 DEF Container!Zero, Zero
<1>7. \A u : Container!Val(u) = Val(u) BY <1>3 DEF Container!Val, Val
<1>8. \A n : Container!Wrap(n) = Wrap(n) BY <1>3 DEF Container!Wrap, Wrap
<1> QED BY <1>1, <1>2, <1>3, <1>4, <1>5, <1>6, <1>7, <1>8

\* The limbs at the edges are limbs, for any width.
LEMMA EdgesAreLimbs == \A e \in Edges : e \in Nat /\ e < Base /\ e \in Limb
<1>1. Base \in Nat /\ Base >= 4 BY Widths
<1>2. Base \div 2 \in Nat /\ Base \div 2 < Base /\ Base \div 2 >= 1 BY <1>1
<1> QED BY <1>1, <1>2 DEF Edges, Limb

\* Both containers hold the same number.
ContainerInv ==
  /\ littleEndian \in BOOLEAN /\ split \in U128 /\ m_value = Val(split)

\* However they are filled.
LEMMA ContainerKeeps ==
  ASSUME ContainerInv, Container!Next
  PROVE  ContainerInv'
<1>1. \A e \in Edges : e \in Nat /\ e < Base BY EdgesAreLimbs
<1>2. Base \in Nat /\ Base >= 4 BY Widths
<1>3. ASSUME NEW u \in U128, NEW n, Container!Fill(u, n), n = Val(u)
      PROVE  ContainerInv'
  BY <1>3 DEF Container!Fill, ContainerInv
<1>4. ASSUME NEW h \in Nat, NEW l \in Nat, h < Base, l < Base,
             Container!Fill(make_uint128(h, l), h * Base + l)
      PROVE  ContainerInv'
  BY <1>3, <1>4, MakeLimbs
<1>5. ASSUME NEW a \in Edges, NEW b \in Edges, Container!FromLimbs(a, b)
      PROVE  ContainerInv'
  BY <1>1, <1>4, <1>5, ContainerOperators DEF Container!FromLimbs
<1>6. ASSUME NEW a \in Edges, NEW b \in Edges, Container!FromArray(<<a, b>>)
      PROVE  ContainerInv'
  <2>1. CASE littleEndian
    BY <1>1, <1>4, <1>6, <2>1, ContainerOperators
       DEF Container!FromArray, Container!SplitFromArray, Container!from_native_array
  <2>2. CASE ~ littleEndian
    BY <1>1, <1>4, <1>6, <2>2, ContainerOperators
       DEF Container!FromArray, Container!SplitFromArray, Container!from_native_array
  <2> QED BY <2>1, <2>2
<1>7. ASSUME NEW n \in Edges \cup Container!HalfLimb, Container!FromUnsigned(n)
      PROVE  ContainerInv'
  <2>1. n \in Nat /\ n < Base
    <3>1. CASE n \in Edges BY <1>1, <3>1
    <3>2. CASE n \in Container!HalfLimb
      <4>1. n \in 0..(HalfBase - 1) BY <3>2, ContainerOperators DEF Container!HalfLimb
      <4>2. HalfBase \in Nat \ {0} /\ HalfBase =< Base
        <5>1. \A b \in Nat \ {0} : b =< b * b OBVIOUS
        <5> QED BY <5>1, HalfWidths
      <4> QED BY <4>1, <4>2, <1>2
    <3> QED BY <1>7, <3>1, <3>2
  <2>2. 0 * Base + n = n /\ 0 < Base BY <1>2, <2>1
  <2> QED BY <1>4, <1>7, <2>1, <2>2, ContainerOperators DEF Container!FromUnsigned
<1>8. ASSUME NEW v \in Container!SignedLimb, Container!FromInt64(v)
      PROVE  ContainerInv'
  <2>1. v \in Int /\ v < Base /\ v >= -Base
    BY <1>2, ContainerOperators DEF Container!SignedLimb
  <2> DEFINE h == IF v < 0 THEN Base - 1 ELSE 0
             l == IF v < 0 THEN v + Base ELSE v
             M == Base * Base
  <2>2. h \in Nat /\ l \in Nat /\ h < Base /\ l < Base BY <1>2, <2>1
  <2>3. Wrap(v) = l BY <2>1, WrapOnce
  <2>4. v % M = h * Base + l
    <3>1. h * Base + l = IF v < 0 THEN v + M ELSE v
      <4>1. (Base - 1) * Base = Base * Base - Base /\ 0 * Base = 0 BY <1>2
      <4> QED BY <1>2, <2>1, <4>1
    <3>2. M \in Nat /\ M >= Base
      <4>1. \A b \in Nat \ {0} : b * b \in Nat /\ b * b >= b OBVIOUS
      <4> QED BY <1>2, <4>1
    <3> DEFINE x == h * Base + l
    <3>3. x = IF v < 0 THEN v + M ELSE v BY <3>1
    <3> HIDE DEF M, x
    <3>4. M \in Nat \ {0} /\ x \in Nat /\ x < M BY <1>2, <2>1, <3>2, <3>3
    <3>5. v = 0 * M + x \/ v = (-1) * M + x BY <2>1, <3>2, <3>3, <3>4
    <3>6. v % M = x BY <2>1, <3>4, <3>5, Residue
    <3> QED BY <3>6 DEF x
  <2>5. Container!Fill(make_uint128(h, l), h * Base + l)
    <3>1. Container!sign_extended(v) = make_uint128(h, l)
      BY <2>3, ContainerOperators DEF Container!sign_extended
    <3>2. v % (Container!Base * Container!Base) = h * Base + l
      BY <2>4, ContainerOperators
    <3> HIDE DEF h, l
    <3> QED BY <1>8, <3>1, <3>2 DEF Container!FromInt64
  <2> HIDE DEF h, l
  <2> QED BY <2>2, <2>5, <1>4
<1> QED BY <1>5, <1>6, <1>7, <1>8 DEF Container!Next

\* The low bits of a number are those of its low limb.
LEMMA LowBits ==
  ASSUME NEW u \in U128, NEW bits \in 0..LimbBits
  PROVE  /\ u.low % Pow2[bits] = Val(u) % Pow2[bits]
         /\ u.low % Pow2[bits] \in Nat
<1> DEFINE P == Pow2[bits]  Q == Pow2[LimbBits - bits]
           q == u.low \div P  r == u.low % P
<1>1. P \in Nat \ {0} /\ Q \in Nat \ {0} /\ P * Q = Base BY SplitPower
<1>2. u.high \in Nat /\ u.low \in Nat /\ Val(u) = u.high * Base + u.low BY LimbsOf
<1> HIDE DEF P, Q
<1>3. q \in Nat /\ r \in Nat /\ r < P /\ u.low = q * P + r BY <1>1, <1>2, DivisionParts
<1> DEFINE h == u.high  m == h * Q + q
<1>4. m \in Nat /\ Val(u) = m * P + r
  <2> HIDE DEF q, r
  <2>1. h \in Nat /\ Val(u) = h * (P * Q) + (q * P + r) BY <1>1, <1>2, <1>3
  <2> HIDE DEF h
  <2>2. (h * Q + q) * P = h * (P * Q) + q * P BY <1>1, <1>3, <2>1
  <2>3. h * Q \in Nat /\ h * (P * Q) \in Nat /\ q * P \in Nat BY <1>1, <1>3, <2>1
  <2> QED BY <1>3, <2>1, <2>2, <2>3
<1> HIDE DEF m
<1>5. (m * P + r) % P = r
  <2> HIDE DEF q, r
  <2> QED BY <1>1, <1>3, <1>4, DivisionUnique
<1> QED BY <1>3, <1>4, <1>5 DEF P

\* Empty containers hold zero.
LEMMA ContainerStarts == Container!Init => ContainerInv
BY ContainerOperators, ZeroAndOne DEF Container!Init, ContainerInv

\* A signed integer of some bits is told from the number that it was converted to.
LEMMA SignedComesBack ==
  ASSUME NEW u \in U128, NEW bits \in 1..LimbBits,
         NEW v \in (-Pow2[bits - 1])..(Pow2[bits - 1] - 1), Val(u) = v % (Base * Base)
  PROVE  LET n == u.low % Pow2[bits]
         IN  (IF n >= Pow2[bits - 1] THEN n - Pow2[bits] ELSE n) = v
<1> DEFINE H == Pow2[bits - 1]  P == Pow2[bits]  R == Pow2[Bits - bits]  M == Base * Base
           n == u.low % P
<1>1. H \in Nat \ {0} /\ P = 2 * H
  <2>1. bits - 1 \in Nat /\ (bits - 1) + 1 = bits BY Widths
  <2> QED BY <2>1, PowPositive, PowSteps
<1>2. R \in Nat \ {0} /\ M = P * R
  <2>1. bits \in Nat /\ Bits - bits \in Nat /\ bits + (Bits - bits) = Bits BY Widths
  <2>2. Pow2[bits + (Bits - bits)] = Pow2[bits] * Pow2[Bits - bits] BY <2>1, PowSum
  <2> QED BY <2>1, <2>2, PowPositive, Widths
<1>3. n = Val(u) % P BY LowBits
<1>4. v \in Int /\ v >= -H /\ v < H BY <1>1
<1>5. Val(u) = v % M OBVIOUS
<1> HIDE DEF H, P, R, M, n
<1>6. M \in Nat /\ M >= P /\ P \in Nat \ {0} /\ H < P
  <2>1. \A p, r \in Nat \ {0} : p * r \in Nat /\ p * r >= p OBVIOUS
  <2>2. P \in Nat \ {0} /\ H < P BY <1>1
  <2> QED BY <1>2, <2>1, <2>2
<1>7. CASE v < 0
  <2>1. v + M \in Nat /\ v + M < M /\ v = (-1) * M + (v + M) BY <1>1, <1>4, <1>6, <1>7
  <2>2. M \in Nat \ {0} BY <1>6
  <2>3. v % M = v + M
    <3> DEFINE x == v + M
    <3>1. x \in Nat /\ x < M /\ v = (-1) * M + x BY <2>1
    <3> HIDE DEF x
    <3>2. v % M = x BY <1>4, <2>2, <3>1, Residue
    <3> QED BY <3>2 DEF x
  <2>4. v + P \in Nat /\ v + P < P BY <1>1, <1>4, <1>6, <1>7
  <2>5. v + M = (R - 1) * P + (v + P)
    <3>1. \A p, r \in Nat : (r - 1) * p = p * r - p OBVIOUS
    <3>2. (R - 1) * P = P * R - P BY <1>2, <1>6, <3>1
    <3> QED BY <1>2, <1>4, <1>6, <3>2
  <2>6. (v + M) % P = v + P
    <3> DEFINE x == v + P  y == v + M  k == R - 1
    <3>1. x \in Nat /\ x < P /\ y = k * P + x /\ y \in Int /\ k \in Int
      BY <1>2, <2>1, <2>4, <2>5
    <3> HIDE DEF x, y, k
    <3>2. y % P = x BY <1>6, <3>1, Residue
    <3> QED BY <3>2 DEF x, y
  <2>7. n = v + P BY <1>3, <1>5, <2>3, <2>6
  <2>8. n >= H /\ n - P = v BY <1>1, <1>4, <1>6, <2>7
  <2> QED BY <2>8 DEF n, H, P
<1>8. CASE v >= 0
  <2>1. v \in Nat /\ v < P /\ v < M BY <1>1, <1>4, <1>6, <1>8
  <2>2. v % M = v BY <1>6, <2>1, BelowDivisor
  <2>3. v % P = v BY <1>6, <2>1, BelowDivisor
  <2>4. n = v BY <1>3, <1>5, <2>2, <2>3
  <2>5. ~ (n >= H) /\ n = v BY <1>1, <1>4, <2>4
  <2> QED BY <2>5 DEF n, H, P
<1> QED BY <1>4, <1>7, <1>8

\* Both containers show the same, on machines of either order.
LEMMA ContainersShow == ContainerInv => Container!ContainersAgree
<1> SUFFICES ASSUME ContainerInv PROVE Container!ContainersAgree OBVIOUS
<1> DEFINE h == split.high  l == split.low
<1>1. /\ h \in Nat /\ h < Base /\ l \in Nat /\ l < Base
      /\ m_value = h * Base + l /\ m_value \in Nat
  BY LimbsOf DEF ContainerInv
<1>2. Base \in Nat \ {0} BY Widths
<1>3. m_value \div Base = h /\ m_value % Base = l
  <2> HIDE DEF h, l
  <2> QED BY <1>1, <1>2, DivisionUnique
<1>4. make_uint128(h, l) = split BY DEF ContainerInv, U128, make_uint128
<1>5. /\ Container!Val(split) = m_value
      /\ \A get \in {Container!get_low, Container!get_high} : get.split = get.builtin
  BY <1>3, ContainerOperators
     DEF ContainerInv, Container!get_low, Container!get_high, Wrap
<1>6. \A bits \in {HalfBits, LimbBits} : Container!SplitTo(bits) = Container!BuiltinTo(bits)
  <2>1. \A bits \in {HalfBits, LimbBits} : bits \in 0..LimbBits BY Widths DEF LimbBits
  <2> QED BY <2>1, LowBits, ContainerOperators
             DEF ContainerInv, Container!SplitTo, Container!BuiltinTo
<1>7. Container!get_low.builtin = l /\ Container!get_high.builtin = h
  BY <1>3, ContainerOperators DEF Container!get_low, Container!get_high, Wrap
<1>8. /\ Container!SplitToArray = Container!to_native_array
      /\ Container!from_native_array(Container!SplitToArray) = m_value
      /\ Container!SplitFromArray(Container!to_native_array) = split
  <2>1. CASE littleEndian
    BY <1>1, <1>4, <1>7, <2>1, ContainerOperators
       DEF Container!SplitToArray, Container!to_native_array, Container!from_native_array,
           Container!SplitFromArray
  <2>2. CASE ~ littleEndian
    BY <1>1, <1>4, <1>7, <2>2, ContainerOperators
       DEF Container!SplitToArray, Container!to_native_array, Container!from_native_array,
           Container!SplitFromArray
  <2> QED BY <2>1, <2>2
<1>9. Container!ToBool <=> m_value # 0
  <2>1. m_value = 0 <=> h = 0 /\ l = 0
    <3>1. CASE h = 0 BY <1>1, <1>2, <3>1
    <3>2. CASE h # 0
      <4>1. \A a, b \in Nat \ {0} : a * b \in Nat \ {0} OBVIOUS
      <4>2. h * Base \in Nat \ {0} BY <1>1, <1>2, <3>2, <4>1
      <4> QED BY <1>1, <3>2, <4>2
    <3> QED BY <3>1, <3>2
  <2> QED BY <2>1 DEF Container!ToBool
<1>10. ASSUME NEW bits \in 1..LimbBits, m_value < Pow2[bits]
       PROVE  Container!ToInteger(bits, FALSE) = m_value
  <2>1. bits \in 0..LimbBits /\ bits \in Nat BY Widths
  <2>2. Pow2[bits] \in Nat \ {0} BY <2>1, PowPositive
  <2>3. split.low % Pow2[bits] = m_value % Pow2[bits] BY <2>1, LowBits DEF ContainerInv
  <2>4. m_value % Pow2[bits] = m_value
    <3> DEFINE P == Pow2[bits]
    <3>1. P \in Nat \ {0} /\ m_value < P BY <1>10, <2>2
    <3> HIDE DEF P
    <3>2. m_value % P = m_value BY <1>1, <3>1, BelowDivisor
    <3> QED BY <3>2 DEF P
  <2> QED BY <2>3, <2>4, ContainerOperators DEF Container!ToInteger
<1>11. ASSUME NEW bits \in 1..LimbBits, NEW v \in (-Pow2[bits - 1])..(Pow2[bits - 1] - 1),
              m_value = v % (Base * Base)
       PROVE  Container!ToInteger(bits, TRUE) = v
  <2>1. LET n == split.low % Pow2[bits]
        IN  (IF n >= Pow2[bits - 1] THEN n - Pow2[bits] ELSE n) = v
    BY <1>11, SignedComesBack DEF ContainerInv
  <2> QED BY <2>1, ContainerOperators DEF Container!ToInteger
<1> HIDE DEF h, l
<1>12. \A bits \in 1..Container!LimbBits :
         /\ m_value < Container!Pow2[bits] => Container!ToInteger(bits, FALSE) = m_value
         /\ \A v \in (-Container!Pow2[bits - 1])..(Container!Pow2[bits - 1] - 1) :
              m_value = v % (Container!Base * Container!Base)
                => Container!ToInteger(bits, TRUE) = v
  BY <1>10, <1>11, ContainerOperators
<1>13. \A bits \in {HalfBits, Container!LimbBits} :
         Container!SplitTo(bits) = Container!BuiltinTo(bits)
  BY <1>6, ContainerOperators
<1> QED BY <1>5, <1>8, <1>9, <1>12, <1>13 DEF Container!ContainersAgree

\* The two containers agree, however they are filled and for limbs of any width.
THEOREM ContainersStayEqual == MCSpec => []ContainersAgree
<1> DEFINE Inv == machine = "container" => ContainerInv
<1>1. MCInit => Inv BY ContainerStarts DEF MCInit
<1>2. Inv /\ [MCNext]_allVars => Inv'
  <2> SUFFICES ASSUME Inv, [MCNext]_allVars, machine = "container" PROVE ContainerInv'
    BY OneMoves
  <2>1. CASE Container!Next BY <2>1, ContainerKeeps
  <2>2. CASE UNCHANGED containerVars BY <2>2 DEF containerVars, ContainerInv
  <2> QED BY <2>1, <2>2, OneMoves
<1>3. Inv => ContainersAgree BY ContainersShow DEF ContainersAgree
<1> QED BY <1>1, <1>2, <1>3, PTL DEF MCSpec

-----------------------------------------------------------------------------
(* The object *)

\* Both builds have carry functions only where they have instructions.
LEMMA ObjectAssumptions ==
  /\ Portable!ObjectAssumption /\ Portable!CarriesAreExact
  /\ Msvc!ObjectAssumption /\ Msvc!CarriesAreExact
<1>1. \A e \in Edges : e \in Limb BY EdgesAreLimbs
<1>2. Operands \subseteq U128 BY <1>1 DEF Operands, U128
<1>3. Portable!Pow2 = Pow2 /\ Msvc!Pow2 = Pow2 BY DEF Portable!Pow2, Msvc!Pow2, Pow2
<1>4. Portable!Base = Base /\ Msvc!Base = Base
  BY <1>3 DEF Portable!Base, Msvc!Base, Base, Portable!LimbBits, Msvc!LimbBits, LimbBits
<1>5. Portable!U128 = U128 /\ Msvc!U128 = U128
  BY <1>4 DEF Portable!U128, Msvc!U128, U128, Portable!Limb, Msvc!Limb, Limb
<1>6. Portable!ObjectAssumption /\ Portable!CarriesAreExact
  BY <1>2, <1>4, <1>5
  DEF Portable!ObjectAssumption, Portable!CarriesAreExact, Portable!AllOperations,
      Portable!CarryOperations, SignedInts, Others
<1>7. Msvc!ObjectAssumption /\ Msvc!CarriesAreExact
  BY <1>2, <1>4, <1>5
  DEF Msvc!ObjectAssumption, Msvc!CarriesAreExact, Msvc!AllOperations,
      Msvc!CarryOperations, Msvc!Intrinsics, SignedInts, Others
<1> QED BY <1>6, <1>7

\* Both builds are shown to implement the same residues.
LEMMA SameResidues ==
  /\ Portable!LimbsOK <=> m_limbs \in U128
  /\ Portable!LimbsOK' <=> m_limbs' \in U128
  /\ Msvc!LimbsOK <=> m_limbs \in U128
  /\ Msvc!LimbsOK' <=> m_limbs' \in U128
  /\ Portable!Residues!Next <=> Msvc!Residues!Next
<1>1. Portable!Pow2 = Pow2 /\ Msvc!Pow2 = Pow2 BY DEF Portable!Pow2, Msvc!Pow2, Pow2
<1>2. Portable!Base = Base /\ Msvc!Base = Base
  BY <1>1 DEF Portable!Base, Msvc!Base, Base, Portable!LimbBits, Msvc!LimbBits, LimbBits
<1>3. Portable!U128 = U128 /\ Msvc!U128 = U128
  BY <1>2 DEF Portable!U128, Msvc!U128, U128, Portable!Limb, Msvc!Limb, Limb
<1>4. /\ Portable!LimbsOK <=> m_limbs \in U128
      /\ Portable!LimbsOK' <=> m_limbs' \in U128
  BY <1>3 DEF Portable!LimbsOK, Portable!U128, Portable!Limb, U128, Limb
<1>5. /\ Msvc!LimbsOK <=> m_limbs \in U128
      /\ Msvc!LimbsOK' <=> m_limbs' \in U128
  BY <1>3 DEF Msvc!LimbsOK
<1>6. Portable!Residues!Pow2 = Pow2 /\ Msvc!Residues!Pow2 = Pow2
  BY DEF Portable!Residues!Pow2, Msvc!Residues!Pow2, Pow2
<1>7. Portable!Bits = Msvc!Bits
  BY DEF Portable!Bits, Msvc!Bits, Portable!LimbBits, Msvc!LimbBits
<1>8. \A u : Portable!Val(u) = Msvc!Val(u) BY <1>2 DEF Portable!Val, Msvc!Val
<1>9. Portable!Residues!Modulus = Msvc!Residues!Modulus
  BY <1>6, <1>7 DEF Portable!Residues!Modulus, Msvc!Residues!Modulus
<1>10. /\ Portable!Residues!Numbers = Msvc!Residues!Numbers
       /\ Portable!Residues!Positions = Msvc!Residues!Positions
       /\ \A n, k : Portable!Residues!Bit(n, k) = Msvc!Residues!Bit(n, k)
       /\ Portable!Residues!Silent = Msvc!Residues!Silent
  BY <1>6, <1>7, <1>9
  DEF Portable!Residues!Numbers, Msvc!Residues!Numbers, Portable!Residues!Positions,
      Msvc!Residues!Positions, Portable!Residues!Bit, Msvc!Residues!Bit,
      Portable!Residues!Silent, Msvc!Residues!Silent
<1>11. /\ Portable!Val(m_limbs) = Msvc!Val(m_limbs)
       /\ Portable!Val(m_limbs)' = Msvc!Val(m_limbs)'
  BY <1>2 DEF Portable!Val, Msvc!Val
<1>12. \A op, n, r : Portable!Residues!Says(op, n, r) <=> Msvc!Residues!Says(op, n, r)
  BY DEF Portable!Residues!Says, Msvc!Residues!Says
<1>13. \A op, n, to : Portable!Residues!Sets(op, n, to) <=> Msvc!Residues!Sets(op, n, to)
  BY <1>9, <1>11, <1>12 DEF Portable!Residues!Sets, Msvc!Residues!Sets
<1>14. \A n : /\ Portable!Residues!Arithmetic(n) <=> Msvc!Residues!Arithmetic(n)
              /\ Portable!Residues!Divide(n) <=> Msvc!Residues!Divide(n)
              /\ Portable!Residues!Compare(n) <=> Msvc!Residues!Compare(n)
              /\ Portable!Residues!Shift(n) <=> Msvc!Residues!Shift(n)
              /\ Portable!Residues!FromInt(n) <=> Msvc!Residues!FromInt(n)
  BY <1>6, <1>9, <1>11, <1>12, <1>13
  DEF Portable!Residues!Arithmetic, Msvc!Residues!Arithmetic,
      Portable!Residues!Divide, Msvc!Residues!Divide,
      Portable!Residues!Compare, Msvc!Residues!Compare,
      Portable!Residues!Shift, Msvc!Residues!Shift,
      Portable!Residues!FromInt, Msvc!Residues!FromInt
<1>15. \A n : Portable!Residues!BitByBit(n) <=> Msvc!Residues!BitByBit(n)
  BY <1>10, <1>11, <1>12
  DEF Portable!Residues!BitByBit, Msvc!Residues!BitByBit,
      Portable!Residues!SetsBits, Msvc!Residues!SetsBits,
      Portable!Residues!Both, Msvc!Residues!Both,
      Portable!Residues!Either, Msvc!Residues!Either,
      Portable!Residues!OneOf, Msvc!Residues!OneOf
<1>16. \A n, c : /\ Portable!Residues!WithCarry(n, c) <=> Msvc!Residues!WithCarry(n, c)
                 /\ Portable!Residues!WithBorrow(n, c) <=> Msvc!Residues!WithBorrow(n, c)
  BY <1>9, <1>10, <1>11, <1>12
  DEF Portable!Residues!WithCarry, Msvc!Residues!WithCarry,
      Portable!Residues!WithBorrow, Msvc!Residues!WithBorrow
<1>17. /\ Portable!Residues!Step <=> Msvc!Residues!Step
       /\ Portable!Residues!Unary <=> Msvc!Residues!Unary
       /\ Portable!Residues!LeadingBit <=> Msvc!Residues!LeadingBit
       /\ Portable!Residues!Read <=> Msvc!Residues!Read
  BY <1>6, <1>9, <1>10, <1>11, <1>12, <1>13
  DEF Portable!Residues!Step, Msvc!Residues!Step,
      Portable!Residues!Unary, Msvc!Residues!Unary,
      Portable!Residues!LeadingBit, Msvc!Residues!LeadingBit,
      Portable!Residues!Read, Msvc!Residues!Read
<1>18. {Portable!Val(b) : b \in Operands} = {Msvc!Val(b) : b \in Operands} BY <1>8
<1>19. Portable!Residues!Next <=> Msvc!Residues!Next
  BY <1>10, <1>11, <1>14, <1>15, <1>16, <1>17, <1>18
  DEF Portable!Residues!Next, Msvc!Residues!Next
<1> QED BY <1>4, <1>5, <1>19

\* The object of a build is an object of the residues: two limbs behave as one number
\* modulo 2^Bits in both builds, for limbs of any width.
THEOREM ResiduesImplemented == MCSpec => ImplementsResidues
<1> DEFINE Inv == m_limbs \in U128
           number == Msvc!Val(m_limbs)
<1>1. Msvc!Pow2 = Pow2 /\ Msvc!Base = Base
  <2>1. Msvc!Pow2 = Pow2 BY DEF Msvc!Pow2, Pow2
  <2> QED BY <2>1 DEF Msvc!Base, Base, Msvc!LimbBits, LimbBits
<1>2. Msvc!Residues!Modulus = Base * Base /\ Portable!NoCall = Msvc!Residues!Silent
  <2>1. Msvc!Residues!Pow2 = Pow2 BY DEF Msvc!Residues!Pow2, Pow2
  <2> QED BY <2>1, Widths
          DEF Msvc!Residues!Modulus, Msvc!Bits, Msvc!LimbBits, Bits, LimbBits,
              Portable!NoCall, Msvc!Residues!Silent
<1>3. ASSUME NEW u \in U128 PROVE Msvc!Val(u) \in 0..(Base * Base - 1)
  <2>1. Val(u) \in Nat /\ Val(u) < Base * Base /\ Base * Base \in Nat BY LimbsOf, Widths
  <2>2. Msvc!Val(u) = Val(u) BY <1>1 DEF Msvc!Val, Val
  <2> DEFINE M == Base * Base
  <2>3. Val(u) \in Nat /\ Val(u) < M /\ M \in Nat BY <2>1
  <2> HIDE DEF M
  <2>4. Val(u) \in 0..(M - 1) BY <2>3
  <2> QED BY <2>2, <2>4 DEF M
<1>4. MCInit => Msvc!Residues!Init /\ Inv
  <2> SUFFICES ASSUME MCInit PROVE Msvc!Residues!Init /\ Inv OBVIOUS
  <2>1. m_limbs \in U128 /\ called = Portable!NoCall
    <3>1. CASE machine = "object"
      BY <3>1, SameResidues DEF MCInit, Portable!Init, Portable!LimbsOK
    <3>2. CASE machine # "object" BY <3>2, ZeroAndOne DEF MCInit
    <3> QED BY <3>1, <3>2
  <2> QED BY <1>2, <1>3, <2>1 DEF Msvc!Residues!Init, Msvc!Residues!Numbers
<1>5. Inv /\ [MCNext]_allVars => Inv' /\ [Msvc!Residues!Next]_<<number, called>>
  <2> SUFFICES ASSUME Inv, [MCNext]_allVars
               PROVE  Inv' /\ [Msvc!Residues!Next]_<<number, called>>
    OBVIOUS
  <2>1. CASE machine = "object" /\ build = "portable" /\ Portable!Next
    <3>1. Portable!LimbsOK BY SameResidues
    <3>2. Portable!Residues!Next /\ Portable!LimbsOK'
      BY <2>1, <3>1, ObjectAssumptions, WidthAssumption, ModeAssumption, Portable!NextRefines
    <3> QED BY <3>2, SameResidues
  <2>2. CASE machine = "object" /\ build = "msvc" /\ Msvc!Next
    <3>1. Msvc!LimbsOK BY SameResidues
    <3>2. Msvc!Residues!Next /\ Msvc!LimbsOK'
      BY <2>2, <3>1, ObjectAssumptions, WidthAssumption, Msvc!NextRefines
    <3> QED BY <3>2, SameResidues
  <2>3. CASE UNCHANGED objectVars
    BY <2>3 DEF objectVars, Msvc!Val
  <2> QED BY <2>1, <2>2, <2>3, OneMoves
<1> QED
  BY <1>4, <1>5, PTL
  DEF MCSpec, ImplementsResidues, Msvc!ImplementsResidues, Msvc!Residues!Spec

-----------------------------------------------------------------------------
(* Chains *)

\* The words at the ends of a range are in it.
LEMMA EndsAreWords == \A b \in Nat : b >= 4 => Ends(b) \subseteq 0..(b - 1)
BY DEF Ends

\* A wide word has at least two bits, like a limb.
LEMMA SquareOfBase == Base \in Nat /\ Base >= 4 /\ Base * Base \in Nat /\ Base * Base >= 4
<1>1. \A b \in Nat : b >= 4 => b * b \in Nat /\ b * b >= 4
  <2> TAKE b \in Nat
  <2>1. \A a, c \in Nat : a >= 4 /\ c >= 1 => a * c \in Nat /\ a * c >= a OBVIOUS
  <2> QED BY <2>1
<1> QED BY <1>1, Widths

\* The words of the three builds are words.
LEMMA ChainAssumptions ==
  /\ Portable!ChainAssumption
  /\ Builtin!ChainAssumption
  /\ Msvc!ChainAssumption
<1>1. Ends(Base) \subseteq 0..(Base - 1) /\ Ends(Base * Base) \subseteq 0..(Base * Base - 1)
  BY EndsAreWords, SquareOfBase
<1>2. Portable!Base = Base /\ Builtin!Base = Base /\ Msvc!Base = Base
  <2>1. /\ Portable!Pow2 = Pow2 /\ Builtin!Pow2 = Pow2 /\ Msvc!Pow2 = Pow2
    BY DEF Portable!Pow2, Builtin!Pow2, Msvc!Pow2, Pow2
  <2> QED BY <2>1 DEF Portable!Base, Builtin!Base, Msvc!Base, Base,
       Portable!LimbBits, Builtin!LimbBits, Msvc!LimbBits, LimbBits
<1>3. Portable!ChainAssumption
  BY <1>1, <1>2 DEF Portable!ChainAssumption, Portable!Limb, NumWords, LimbWords, WideWords
<1>4. Builtin!ChainAssumption
  BY <1>1, <1>2
  DEF Builtin!ChainAssumption, Builtin!Limb, Builtin!Intrinsics, NumWords, LimbWords, WideWords
<1>5. Msvc!ChainAssumption
  BY <1>1, <1>2 DEF Msvc!ChainAssumption, Msvc!Limb, NumWords, LimbWords, WideWords
<1> QED BY <1>3, <1>4, <1>5

\* The chain of each build keeps the invariant of chains.
ChainMachine ==
  machine = "chain" =>
    \/ build = "portable" /\ Portable!ChainInv
    \/ build = "builtin" /\ Builtin!ChainInv
    \/ build = "msvc" /\ Msvc!ChainInv

\* A chain of any build starts with no word done.
LEMMA ChainMachineStarts == MCInit => ChainMachine
<1> SUFFICES ASSUME MCInit, machine = "chain" PROVE ChainMachine BY DEF ChainMachine
<1>1. Portable!ChainInit => Portable!ChainInv
  BY ChainAssumptions, WidthAssumption, ModeAssumption, Portable!ChainStarts
<1>2. Builtin!ChainInit => Builtin!ChainInv
  BY ChainAssumptions, WidthAssumption, Builtin!ChainStarts
<1>3. Msvc!ChainInit => Msvc!ChainInv
  BY ChainAssumptions, WidthAssumption, Msvc!ChainStarts
<1>4. build \in {"portable", "builtin", "msvc"} BY DEF MCInit, Builds
<1>5. \/ build = "portable" /\ Portable!ChainInit
      \/ build = "builtin" /\ Builtin!ChainInit
      \/ build = "msvc" /\ Msvc!ChainInit
  BY <1>4 DEF MCInit
<1> QED BY <1>1, <1>2, <1>3, <1>5 DEF ChainMachine

\* A step of the chain keeps the invariant of its build, and no other step changes it.
LEMMA ChainMachineKeeps == ChainMachine /\ [MCNext]_allVars => ChainMachine'
<1> SUFFICES ASSUME ChainMachine, [MCNext]_allVars PROVE ChainMachine' OBVIOUS
<1>1. machine' = machine /\ build' = build BY OneMoves
<1> SUFFICES ASSUME machine = "chain" PROVE ChainMachine' BY <1>1 DEF ChainMachine
<1>2. \/ build = "portable" /\ Portable!ChainInv
      \/ build = "builtin" /\ Builtin!ChainInv
      \/ build = "msvc" /\ Msvc!ChainInv
  BY DEF ChainMachine
<1>3. \/ build = "portable" /\ Portable!NextWord
      \/ build = "builtin" /\ Builtin!NextWord
      \/ build = "msvc" /\ Msvc!NextWord
      \/ UNCHANGED chainVars
  BY OneMoves
<1>4. CASE build = "portable"
  <2>1. Portable!ChainInv /\ [Portable!NextWord]_chainVars BY <1>2, <1>3, <1>4
  <2>2. Portable!ChainInv'
    BY <2>1, ChainAssumptions, WidthAssumption, ModeAssumption, Portable!ChainKeeps
    DEF Portable!chainVars, chainVars
  <2> QED BY <1>1, <1>4, <2>2 DEF ChainMachine
<1>5. CASE build = "builtin"
  <2>1. Builtin!ChainInv /\ [Builtin!NextWord]_chainVars BY <1>2, <1>3, <1>5
  <2>2. Builtin!ChainInv'
    BY <2>1, ChainAssumptions, WidthAssumption, Builtin!ChainKeeps
    DEF Builtin!chainVars, chainVars
  <2> QED BY <1>1, <1>5, <2>2 DEF ChainMachine
<1>6. CASE build = "msvc"
  <2>1. Msvc!ChainInv /\ [Msvc!NextWord]_chainVars BY <1>2, <1>3, <1>6
  <2>2. Msvc!ChainInv'
    BY <2>1, ChainAssumptions, WidthAssumption, Msvc!ChainKeeps
    DEF Msvc!chainVars, chainVars
  <2> QED BY <1>1, <1>6, <2>2 DEF ChainMachine
<1> QED BY <1>2, <1>4, <1>5, <1>6

\* In every build the invariant makes the chain exact up to the first misjudged word.
LEMMA ChainMachineIsExact == ChainMachine => ExactUntilMisjudged
<1>1. Portable!ChainInv => Portable!ExactUntilMisjudged
  BY ChainAssumptions, WidthAssumption, ModeAssumption, Portable!ExactAsFar
<1>2. Builtin!ChainInv => Builtin!ExactUntilMisjudged
  BY ChainAssumptions, WidthAssumption, Builtin!ExactAsFar
<1>3. Msvc!ChainInv => Msvc!ExactUntilMisjudged
  BY ChainAssumptions, WidthAssumption, Msvc!ExactAsFar
<1> QED BY <1>1, <1>2, <1>3 DEF ChainMachine, ExactUntilMisjudged

\* In each of the three builds a chain of three words is exact up to the first word
\* that its carry function misjudges and no further, for words of any width (the
\* carry functions of uint128.inl and fixed_uint_container_math.hpp).
THEOREM ChainsStayExact == MCSpec => []ExactUntilMisjudged
BY ChainMachineStarts, ChainMachineKeeps, ChainMachineIsExact, PTL DEF MCSpec

-----------------------------------------------------------------------------
(* Conversions *)

\* The conversion keeps the invariant of conversions.
FloatMachine == machine = "floating" => Portable!FloatInv

\* Of the conversions to floating-point numbers: the machine starts with their invariant.
LEMMA FloatMachineStarts == MCInit => FloatMachine
<1>1. Portable!FloatInit => Portable!FloatInv
  BY WidthAssumption, ModeAssumption, Portable!FloatStarts
<1> QED BY <1>1 DEF MCInit, FloatMachine

\* It keeps it.
LEMMA FloatMachineKeeps == FloatMachine /\ [MCNext]_allVars => FloatMachine'
<1> SUFFICES ASSUME FloatMachine, [MCNext]_allVars PROVE FloatMachine' OBVIOUS
<1>1. machine' = machine BY OneMoves
<1> SUFFICES ASSUME machine = "floating" PROVE FloatMachine' BY <1>1 DEF FloatMachine
<1>2. Portable!FloatInv /\ [Portable!FloatNext]_floatVars BY OneMoves DEF FloatMachine
<1>3. Portable!FloatInv'
  BY <1>2, WidthAssumption, ModeAssumption, Portable!FloatKeeps DEF Portable!floatVars, floatVars
<1> QED BY <1>3 DEF FloatMachine

\* It makes them faithful.
LEMMA FloatMachineIsFaithful == FloatMachine => FloatsAreFaithful
<1>1. Portable!FloatAssumption BY MCAssumption
<1>2. Portable!FloatInv => Portable!FloatsAreFaithful
  BY <1>1, WidthAssumption, ModeAssumption, Portable!FloatIsFaithful
<1> QED BY <1>2 DEF FloatMachine, FloatsAreFaithful

\* For limbs of any width, each of the five types converts from floating point by
\* truncating exactly or refusing, and to floating point to a value next to the number
\* and in the order of the numbers (make_from_floating_point, safe_from_floating,
\* operator float, double and long double).
THEOREM FloatsStayFaithful == MCSpec => []FloatsAreFaithful
BY FloatMachineStarts, FloatMachineKeeps, FloatMachineIsFaithful, PTL DEF MCSpec
=============================================================================
