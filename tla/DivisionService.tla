--------------------------- MODULE DivisionService ---------------------------
(***************************************************************************)
(* What division promises its callers: one request at a time is answered    *)
(* with the exact quotient and remainder, or, for a zero divisor, refused   *)
(* in the way the entry point announces.                                    *)
(***************************************************************************)
EXTENDS Integers

CONSTANTS Numbers,   \* the dividends and divisors
          Refusals   \* entry point |-> how it refuses a zero divisor

VARIABLES request, reply

Idle == [kind |-> "none"]

Init == request = Idle /\ reply = Idle

Ask ==
  /\ request = Idle
  /\ request' \in [kind : DOMAIN Refusals, dividend : Numbers, divisor : Numbers]
  /\ UNCHANGED reply

Refuse ==
  /\ request # Idle /\ reply = Idle
  /\ request.divisor = 0
  /\ reply' = [kind |-> Refusals[request.kind]]
  /\ UNCHANGED request

Answer ==
  /\ request # Idle /\ reply = Idle
  /\ request.divisor # 0
  /\ reply' = [kind |-> "result",
               quotient  |-> request.dividend \div request.divisor,
               remainder |-> request.dividend % request.divisor]
  /\ UNCHANGED request

TakeReply ==
  /\ reply # Idle
  /\ request' = Idle
  /\ reply' = Idle

Next ==
  \/ Ask
  \/ Refuse
  \/ Answer
  \/ TakeReply

Spec == Init /\ [][Next]_<<request, reply>>
=============================================================================
