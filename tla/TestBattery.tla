----------------------------- MODULE TestBattery -----------------------------
(***************************************************************************)
(* What the runner promises to the program that has a battery of tests:    *)
(* once it is started every test is run once, with one outcome, and is     *)
(* reported; when the runner returns there is nothing left to report, and  *)
(* nothing changes until it is reset.                                      *)
(***************************************************************************)
CONSTANTS Tests, Outcomes

VARIABLES
  phase,     \* "idle", "running" or "returned"
  outcome,   \* how each test ended, "none" before
  reported   \* tests whose outcome the runner has recorded

batteryVars == <<phase, outcome, reported>>

Init ==
  /\ phase = "idle"
  /\ outcome = [t \in Tests |-> "none"]
  /\ reported = {}

Start == phase = "idle" /\ phase' = "running" /\ UNCHANGED <<outcome, reported>>

RunTest(t, o) ==
  /\ phase = "running"
  /\ outcome[t] = "none"
  /\ outcome' = [outcome EXCEPT ![t] = o]
  /\ UNCHANGED <<phase, reported>>

Report(t) ==
  /\ phase = "running"
  /\ outcome[t] # "none"
  /\ t \notin reported
  /\ reported' = reported \cup {t}
  /\ UNCHANGED <<phase, outcome>>

Return ==
  /\ phase = "running"
  /\ reported = Tests
  /\ phase' = "returned"
  /\ UNCHANGED <<outcome, reported>>

Reset ==
  /\ phase = "returned"
  /\ phase' = "idle"
  /\ outcome' = [t \in Tests |-> "none"]
  /\ reported' = {}

Next ==
  \/ Start
  \/ \E t \in Tests : Report(t) \/ \E o \in Outcomes : RunTest(t, o)
  \/ Return
  \/ Reset

Spec == Init /\ [][Next]_batteryVars
=============================================================================
