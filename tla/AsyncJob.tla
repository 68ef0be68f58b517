----------------------------- MODULE AsyncJob ------------------------------
(***************************************************************************)
(* What the ABI promises about one flm_job (flm_api.h, flm_types.h): it    *)
(* runs at most once, ends in exactly one outcome that never changes, its  *)
(* owner is notified at most once and with that outcome, and the result    *)
(* of a success can be taken once.  JobPool implements it for every job    *)
(* whose result it can serialise.                                          *)
(***************************************************************************)
EXTENDS Naturals

CONSTANT Jobs

VARIABLES
  phase,      \* "pending", "running", or the outcome
  notified,   \* how often the completion callback returned
  told,       \* the outcome it was given
  taken       \* how often the result was handed out

Outcomes == {"SUCCEEDED", "FAILED", "CANCELLED"}

vars == <<phase, notified, told, taken>>

Init ==
  /\ phase = [j \in Jobs |-> "PENDING"]
  /\ notified = [j \in Jobs |-> 0]
  /\ told = [j \in Jobs |-> "none"]
  /\ taken = [j \in Jobs |-> 0]

Start(j) ==
  /\ phase[j] = "PENDING"
  /\ phase' = [phase EXCEPT ![j] = "RUNNING"]
  /\ UNCHANGED <<notified, told, taken>>

\* A job that never started can only end cancelled.
Settle(j, o) ==
  /\ \/ phase[j] = "RUNNING"
     \/ phase[j] = "PENDING" /\ o = "CANCELLED"
  /\ phase' = [phase EXCEPT ![j] = o]
  /\ UNCHANGED <<notified, told, taken>>

Notify(j) ==
  /\ phase[j] \in Outcomes /\ notified[j] = 0
  /\ notified' = [notified EXCEPT ![j] = 1]
  /\ told' = [told EXCEPT ![j] = phase[j]]
  /\ UNCHANGED <<phase, taken>>

Take(j) ==
  /\ phase[j] = "SUCCEEDED" /\ taken[j] = 0
  /\ taken' = [taken EXCEPT ![j] = 1]
  /\ UNCHANGED <<phase, notified, told>>

Next == \E j \in Jobs :
  Start(j) \/ (\E o \in Outcomes : Settle(j, o)) \/ Notify(j) \/ Take(j)

Spec == Init /\ [][Next]_vars
=============================================================================
