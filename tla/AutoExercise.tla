---------------------------- MODULE AutoExercise ----------------------------
(***************************************************************************)
(* Auto-exercise for one holder of positions in several series of a market *)
(* (programs/roster_finance/src/instructions/auto_exercise.rs).  Opting in *)
(* approves one delegate PDA on the position account of the series and on  *)
(* the account the exercise pays from, which all its series of one side    *)
(* share; a token account has one delegate and one delegated amount, and   *)
(* approving again overwrites it.                                          *)
(*                                                                         *)
(* Prices are per lot unit, so no amount is rounded (Series has the        *)
(* rounding).  The pay account may be topped up or emptied at any time, so *)
(* a balance too small for it is a crank that does not happen.             *)
(***************************************************************************)
EXTENDS Integers, FiniteSets

CONSTANTS
  Positions,        (* the series the holder may hold positions in          *)
  StrikeAt,         (* series -> strike                                     *)
  WindowOpens, Deadline, (* effective_expiry less grace_secs, and itself    *)
  MinSize,          (* market.min_lots6                                     *)
  MinItm,           (* min_itm_bps of the strike, per lot unit              *)
  KeeperFee,        (* protocol.keeper_fee_usdc                             *)
  FeedValues,       (* bound: what a price update says a lot unit is worth  *)
  MaxPosition, MaxFeePot   (* bounds                                        *)

ASSUME AutoExerciseConstants ==
  /\ IsFiniteSet(Positions) /\ StrikeAt \in [Positions -> Nat \ {0}]
  /\ {WindowOpens, Deadline, MinItm, KeeperFee, MaxPosition, MaxFeePot} \subseteq Nat
  /\ MinSize \in Nat \ {0} /\ FeedValues \subseteq Nat

VARIABLES
  position,         (* series -> position tokens of the holder              *)
  enabled,          (* series -> the opt-in account's flag                  *)
  burnAllowance,    (* series -> delegated amount on the position account   *)
  payAllowance,     (* delegated amount on the pay account                  *)
  unassigned,       (* series -> unassigned_lots6                           *)
  feePot,           (* the fee vault                                        *)
  suspended,        (* the market or the protocol is paused                 *)
  time,
  opted,            (* history: the series ever opted in to, or out of      *)
  untouched,        (* history: series nothing happened to since it opted in *)
  paidFor           (* history: series a fee was paid for, unmoved since    *)

holding == <<position, unassigned>>
approvals == <<enabled, burnAllowance, payAllowance>>
surroundings == <<feePot, suspended, time>>
exerciseVars == <<holding, approvals, surroundings, opted, untouched, paidFor>>

-----------------------------------------------------------------------------

Owed(s, lots) == lots * StrikeAt[s]

\* What a crank may exercise: all the holder has, as far as the pool goes.
WholePosition(s) == {IF position[s] < unassigned[s] THEN position[s] ELSE unassigned[s]}

ExerciseInit ==
  /\ position = [s \in Positions |-> 0]
  /\ unassigned = [s \in Positions |-> MaxPosition]
  /\ enabled = [s \in Positions |-> FALSE]
  /\ burnAllowance = [s \in Positions |-> 0] /\ payAllowance = 0
  /\ feePot = MaxFeePot /\ suspended = FALSE /\ time = 0
  /\ opted = {} /\ untouched = {} /\ paidFor = {}

-----------------------------------------------------------------------------
(* The holder.                                                             *)

\* Mutant of ApprovedPay: the delegate may draw the strike of one unit only.
ApprovedOnce(s) == StrikeAt[s]
ApprovedPay(s) == Owed(s, position[s])

EnableAutoExercise(s) ==
  /\ enabled' = [enabled EXCEPT ![s] = TRUE]
  /\ burnAllowance' = [burnAllowance EXCEPT ![s] = position[s]]
  /\ payAllowance' = ApprovedPay(s)
  /\ opted' = opted \cup {s} /\ untouched' = untouched \cup {s}
  /\ UNCHANGED <<holding, surroundings, paidFor>>

LeftAfterDisable(s) == 0

DisableAutoExercise(s) ==
  /\ enabled' = [enabled EXCEPT ![s] = FALSE]
  /\ burnAllowance' = [burnAllowance EXCEPT ![s] = LeftAfterDisable(s)]
  /\ payAllowance' = 0
  /\ opted' = opted \cup {s} /\ untouched' = untouched \ {s}
  /\ UNCHANGED <<holding, surroundings, paidFor>>

\* "The holder can always do this directly with the token program as well."
RevokePay ==
  /\ payAllowance' = 0 /\ untouched' = {}
  /\ UNCHANGED <<holding, enabled, burnAllowance, surroundings, opted, paidFor>>

\* The holder buys, sells, receives, sends or exercises position tokens, other
\* holders exercise, other buyers are sold to.
PositionMoves(s, have, open) ==
  /\ <<have, open>> # <<position[s], unassigned[s]>>
  /\ position' = [position EXCEPT ![s] = have]
  /\ unassigned' = [unassigned EXCEPT ![s] = open]
  /\ untouched' = IF have = position[s] THEN untouched ELSE untouched \ {s}
  /\ paidFor' = paidFor \ {s}
  /\ UNCHANGED <<approvals, surroundings, opted>>

-----------------------------------------------------------------------------
(* The crank, open to anyone; only the registered keeper is paid for it.   *)

InTheMoney(s, lots, worth) ==
  LET profit == IF worth > StrikeAt[s] THEN lots * (worth - StrikeAt[s]) ELSE 0
  IN profit > KeeperFee /\ profit > lots * MinItm

Fee(registered) ==
  IF ~registered THEN 0 ELSE IF KeeperFee < feePot THEN KeeperFee ELSE feePot

Crank(s, lots, worth, registered) ==
  /\ ~suspended /\ enabled[s]
  /\ time >= WindowOpens /\ time < Deadline
  /\ lots \in WholePosition(s) /\ lots >= MinSize /\ lots <= unassigned[s]
  /\ InTheMoney(s, lots, worth)
  /\ lots <= burnAllowance[s] /\ Owed(s, lots) <= payAllowance
  /\ position' = [position EXCEPT ![s] = @ - lots]
  /\ unassigned' = [unassigned EXCEPT ![s] = @ - lots]
  /\ burnAllowance' = [burnAllowance EXCEPT ![s] = @ - lots]
  /\ payAllowance' = payAllowance - Owed(s, lots)
  /\ feePot' = feePot - Fee(registered)
  /\ untouched' = untouched \ {s}
  /\ paidFor' = IF Fee(registered) > 0 THEN paidFor \cup {s} ELSE paidFor
  /\ UNCHANGED <<enabled, suspended, time, opted>>

-----------------------------------------------------------------------------
(* Around them.                                                            *)

Suspend ==
  /\ suspended' = ~suspended
  /\ UNCHANGED <<holding, approvals, feePot, time, opted, untouched, paidFor>>

TimePasses ==
  /\ time < Deadline /\ time' = time + 1
  /\ UNCHANGED <<holding, approvals, feePot, suspended, opted, untouched, paidFor>>

ExerciseNext ==
  \/ \E s \in Positions : EnableAutoExercise(s) \/ DisableAutoExercise(s)
  \/ RevokePay
  \/ \E s \in Positions, have, open \in 0 .. MaxPosition : PositionMoves(s, have, open)
  \/ \E s \in Positions, lots \in 1 .. MaxPosition, worth \in FeedValues, registered \in BOOLEAN :
       Crank(s, lots, worth, registered)
  \/ Suspend \/ TimePasses

ExerciseSpec == ExerciseInit /\ [][ExerciseNext]_exerciseVars

-----------------------------------------------------------------------------
(* Properties.                                                             *)

ExerciseTypeOK ==
  /\ {position, unassigned, burnAllowance} \subseteq [Positions -> Nat]
  /\ enabled \in [Positions -> BOOLEAN]
  /\ {payAllowance, feePot, time} \subseteq Nat /\ suspended \in BOOLEAN
  /\ {opted, untouched, paidFor} \subseteq SUBSET Positions

\* A series opted out of, by whichever way in and out, leaves the delegate
\* nothing to burn there, so turning the flag on is never enough by itself.
OptedOutIsOut == \A s \in Positions : ~enabled[s] => burnAllowance[s] = 0

\* The keeper fee cannot be collected twice from one position: a fee paid for a
\* series is not followed by another until the holder's position or the pool
\* has moved ("cannot be farmed by chunking", auto_exercise.rs).
FeeOnce ==
  [][ \A s \in paidFor, lots \in 1 .. MaxPosition, worth \in FeedValues :
        ~Crank(s, lots, worth, TRUE) ]_exerciseVars

\* Opting in "approves a program PDA on both the position ATA and the cash or
\* underlying ATA for the required amounts" (docs/01-architecture.md): until
\* the holder moves or revokes, the delegate can exercise the whole position.
CoveredBy(s) == burnAllowance[s] >= position[s] /\ payAllowance >= Owed(s, position[s])
EveryOptInCovered == \A s \in untouched : CoveredBy(s)

\* It holds for a holder who ever opts in to, or out of, one series only.
OnlyOptInCovered == Cardinality(opted) <= 1 => EveryOptInCovered
=============================================================================
