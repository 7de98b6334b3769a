----------------------------- MODULE MCProgram -----------------------------
(***************************************************************************)
(* The parts of the program beside the series, each on an instance of its  *)
(* own: pooled assignment, the offices and configuration, a vault writing  *)
(* in several series, the shares of a cash-secured-put vault, and          *)
(* auto-exercise.  They share no state, so a behaviour moves one of them   *)
(* and leaves the others at their start.                                   *)
(***************************************************************************)
EXTENDS AssignmentPool, Governance, VaultWriter, VaultShares, AutoExercise

CONSTANTS w1, w2, t1, t2, s1, s2, o1, p1, p2

VARIABLE part

vaultsVars == <<writerVars, vaultVars>>
programVars == <<part, vars, govVars, vaultsVars, exerciseVars>>

\* Values of the parameters that are functions.
AllTerms == {{t1, t2}}
Strikes == [s \in {s1, s2} |-> IF s = s1 THEN 3 ELSE 5]
Expiries == [s \in {s1, s2} |-> IF s = s1 THEN 1 ELSE 3]
StrikesHeld == [s \in {p1, p2} |-> IF s = p1 THEN 1 ELSE 2]

ProgramInit ==
  /\ part \in {"pool", "offices", "writer", "shares", "exercise"}
  /\ Init /\ GovernInit /\ WriterInit /\ VaultInit /\ ExerciseInit

ProgramNext ==
  \/ part = "pool" /\ Next /\ UNCHANGED <<part, govVars, vaultsVars, exerciseVars>>
  \/ part = "offices" /\ GovernNext /\ UNCHANGED <<part, vars, vaultsVars, exerciseVars>>
  \/ part = "writer" /\ WriterNext /\ UNCHANGED <<part, vars, govVars, vaultVars, exerciseVars>>
  \/ part = "shares" /\ VaultNext /\ UNCHANGED <<part, vars, govVars, writerVars, exerciseVars>>
  \/ part = "exercise" /\ ExerciseNext /\ UNCHANGED <<part, vars, govVars, vaultsVars>>

\* GovernFairness, WriterFairness and VaultFairness, each in the behaviours
\* that move its part.
ProgramFairness ==
  /\ \A t \in Terms :
       /\ WF_govVars(part = "offices" /\ Expire(t))
       /\ WF_govVars(part = "offices" /\ \E k \in Keys : SettleSeries(k, t))
       /\ WF_govVars(part = "offices" /\ \E k \in Keys : CloseSeries(k, t))
  /\ WF_writerVars(part = "writer" /\ ClockTick)
  /\ \A s \in Written : WF_writerVars(part = "writer" /\ VaultSettle(s))
  /\ WF_vaultVars(part = "shares" /\ BringForward)
  /\ WF_vaultVars(part = "shares" /\ RollStep)
  /\ WF_vaultVars(part = "shares" /\ Returns)
  /\ \A o \in Owners : WF_vaultVars(part = "shares" /\ \E e \in DOMAIN records : VaultClaim(o, e))
  /\ <>[][~PushBack]_vaultVars

ProgramSpec == ProgramInit /\ [][ProgramNext]_programVars /\ ProgramFairness
=============================================================================
