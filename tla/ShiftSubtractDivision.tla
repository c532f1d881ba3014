------------------------ MODULE ShiftSubtractDivision ------------------------
(***************************************************************************)
(* Division of uint128, from the entry points to the loop, one step per     *)
(* branch and one per iteration.  try_div_mod answers a zero divisor with   *)
(* nullopt; div_mod, "/" and "%" throw domain_error, as instrumented_div_mod *)
(* does, which has a copy of the portable function that logs its steps.  The *)
(* remaining work is noexcept and asserts what the entry points have         *)
(* established.                                                              *)
(***************************************************************************)
EXTENDS Uint128

VARIABLES
  pc,       \* where the calling thread is
  call,     \* the entry point and its arguments, as the caller holds them
  loop,     \* dividend, quotient and denominator of the running function
  shift,    \* how far the denominator was moved to the left
  i,        \* iterations done
  reply     \* what the entry point returns

vars == <<pc, call, loop, shift, i, reply>>

Entries   == {"try_div_mod", "div_mod", "instrumented_div_mod"}
Refusals  == [try_div_mod |-> "nullopt", div_mod |-> "domain_error",
              instrumented_div_mod |-> "domain_error"]
NoCall    == [kind |-> "none"]
NoReply   == [kind |-> "none"]
NoLoop    == [dividend |-> Zero, quotient |-> Zero, denominator |-> Zero]
Calls     == [kind : Entries, dividend : U128, divisor : U128]
Loops     == [dividend : U128, quotient : U128, denominator : U128]
Answered(r) == [kind |-> "result", quotient |-> r.quotient, remainder |-> r.remainder]

TypeOK ==
  /\ pc \in {"idle", "entered", "msvc", "portable", "loop", "returned"}
  /\ call \in {NoCall} \cup Calls
  /\ loop \in Loops
  /\ shift \in 0..(Bits - 1)
  /\ i \in 0..Bits
  /\ reply \in {NoReply} \cup [kind : {"nullopt", "domain_error"}]
                 \cup [kind : {"result"}, quotient : U128, remainder : U128]

Init ==
  /\ pc = "idle"
  /\ call = NoCall
  /\ loop = NoLoop
  /\ shift = 0
  /\ i = 0
  /\ reply = NoReply

-----------------------------------------------------------------------------

Call ==
  /\ pc = "idle"
  /\ call' \in Calls
  /\ pc' = "entered"
  /\ UNCHANGED <<loop, shift, i, reply>>

\* The zero test of the entry points.
RefuseZero ==
  /\ pc = "entered"
  /\ Equal(call.divisor, Zero)
  /\ reply' = [kind |-> Refusals[call.kind]]
  /\ pc' = "returned"
  /\ UNCHANGED <<call, loop, shift, i>>

\* instrumented_div_mod: whatever the mode, its own copy of the portable function.
EnterInstrumented ==
  /\ pc = "entered"
  /\ ~ Equal(call.divisor, Zero)
  /\ call.kind = "instrumented_div_mod"
  /\ pc' = "portable"
  /\ UNCHANGED <<call, loop, shift, i, reply>>

\* unsafe_div_mod: the choice of the calculation mode.
Dispatch ==
  /\ pc = "entered"
  /\ ~ Equal(call.divisor, Zero)
  /\ call.kind # "instrumented_div_mod"
  /\ pc' = IF CalculationMode = "msvc_x64" THEN "msvc" ELSE "portable"
  /\ UNCHANGED <<call, loop, shift, i, reply>>

Return(r) ==
  /\ reply' = Answered(r)
  /\ pc' = "returned"
  /\ UNCHANGED <<call, shift>>

\* Both functions: a divisor above the dividend.
ReturnDividend ==
  /\ pc \in {"msvc", "portable"}
  /\ Greater(call.divisor, call.dividend)
  /\ Return(DivResult(Zero, call.dividend))
  /\ UNCHANGED <<loop, i>>

\* div_mod_msc_x64_impl: a divisor of one limb.
ReturnByLimb ==
  /\ pc = "msvc"
  /\ ~ Greater(call.divisor, call.dividend)
  /\ call.divisor.high = 0
  /\ Return(DivideByLimb(call.dividend, call.divisor.low))
  /\ UNCHANGED <<loop, i>>

\* div_mod_msc_x64_impl: any other divisor goes the portable way.
FallBack ==
  /\ pc = "msvc"
  /\ ~ Greater(call.divisor, call.dividend)
  /\ call.divisor.high # 0
  /\ pc' = "portable"
  /\ UNCHANGED <<call, loop, shift, i, reply>>

\* unsafe_constexpr_div_mod_impl: equal operands.
ReturnOne ==
  /\ pc = "portable"
  /\ Equal(call.divisor, call.dividend)
  /\ Return(DivResult(One, Zero))
  /\ UNCHANGED <<loop, i>>

\* Mutant of Align: the leading bits are off by one.
AlignShort ==
  /\ pc = "portable"
  /\ ~ Greater(call.divisor, call.dividend)
  /\ ~ Equal(call.divisor, call.dividend)
  /\ LET n == fls(call.dividend) - fls(call.divisor)
     IN  /\ shift' = IF n = 0 THEN 0 ELSE n - 1
         /\ loop' = [Aligned(call.dividend, call.divisor) EXCEPT
                       !.denominator = ShiftLeft(call.divisor, shift')]
  /\ i' = 0
  /\ pc' = "loop"
  /\ UNCHANGED <<call, reply>>

\* unsafe_constexpr_div_mod_impl: the leading bit of the denominator is moved
\* under the leading bit of the dividend.
Align ==
  /\ pc = "portable"
  /\ ~ Greater(call.divisor, call.dividend)
  /\ ~ Equal(call.divisor, call.dividend)
  /\ shift' = fls(call.dividend) - fls(call.divisor)
  /\ loop' = Aligned(call.dividend, call.divisor)
  /\ i' = 0
  /\ pc' = "loop"
  /\ UNCHANGED <<call, reply>>

\* Mutant of Iterate: the loop runs once too often.
IteratePastShift ==
  /\ pc = "loop" /\ i =< shift + 1
  /\ loop' = LoopBody(loop)
  /\ i' = i + 1
  /\ UNCHANGED <<pc, call, shift, reply>>

Iterate ==
  /\ pc = "loop" /\ i =< shift
  /\ loop' = LoopBody(loop)
  /\ i' = i + 1
  /\ UNCHANGED <<pc, call, shift, reply>>

ReturnLoop ==
  /\ pc = "loop" /\ i > shift
  /\ Return(DivResult(loop.quotient, loop.dividend))
  /\ UNCHANGED <<loop, i>>

\* The caller goes on; the locals are gone.
TakeReply ==
  /\ pc = "returned"
  /\ pc' = "idle"
  /\ call' = NoCall
  /\ loop' = NoLoop
  /\ shift' = 0
  /\ i' = 0
  /\ reply' = NoReply

Work ==
  \/ RefuseZero \/ EnterInstrumented \/ Dispatch
  \/ ReturnDividend \/ ReturnByLimb \/ FallBack \/ ReturnOne
  \/ Align \/ Iterate \/ ReturnLoop

Next ==
  \/ Call
  \/ Work
  \/ TakeReply

Spec == Init /\ [][Next]_vars

-----------------------------------------------------------------------------
(* Properties *)

\* The loop's invariant: what was divided is the quotient so far, at the
\* weight it will have at the end, times the divisor, plus what is left; and
\* what is left is below that weight of divisors.
Remaining == Pow2[(shift + 1) - i]

LoopInvariant ==
  pc = "loop" =>
    /\ Val(call.dividend)
         = Val(loop.quotient) * Remaining * Val(call.divisor) + Val(loop.dividend)
    /\ Val(loop.dividend) < Remaining * Val(call.divisor)
    /\ i =< shift => Val(loop.denominator) = Pow2[shift - i] * Val(call.divisor)

\* What each place of the code may rely on: the noexcept part is entered
\* with a divisor that is not zero, and the loop runs shift + 1 times.
Control ==
  /\ pc = "idle" => call = NoCall
  /\ pc # "idle" => call \in Calls
  /\ pc = "returned" <=> reply # NoReply
  /\ pc \in {"msvc", "portable", "loop"} => Val(call.divisor) # 0
  /\ pc = "loop" => i =< shift + 1

IndInv == TypeOK /\ Control /\ LoopInvariant

\* What the service sees of the call and of its reply: the numbers.
Requested ==
  IF call = NoCall THEN NoCall
  ELSE [kind |-> call.kind, dividend |-> Val(call.dividend), divisor |-> Val(call.divisor)]

Replied ==
  IF reply.kind = "result"
  THEN [kind |-> "result", quotient |-> Val(reply.quotient), remainder |-> Val(reply.remainder)]
  ELSE reply

Service ==
  INSTANCE DivisionService WITH
    Numbers  <- 0..(Base * Base - 1),
    request  <- Requested,
    reply    <- Replied

\* Every call of an entry point is answered with the exact quotient and
\* remainder, and a zero divisor is refused as the entry point says.
ImplementsDivision == Service!Spec
=============================================================================
