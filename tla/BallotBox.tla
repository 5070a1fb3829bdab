------------------------------ MODULE BallotBox ------------------------------
(***************************************************************************)
(* What an election promises, without blocks, phases or trustees: people    *)
(* are entered in the electorate, those in it may put a ballot in the box   *)
(* and replace it, the box is sealed once, and the one result announced is  *)
(* the count of the sealed box.                                             *)
(***************************************************************************)
CONSTANTS
  Voters,
  Ballots,
  Count(_),       \* the result of a box, a function from voters to ballots
  NoVote,         \* the place of a voter with no ballot in the box
  NoResult

VARIABLES electorate, box, sealed, result
boxVars == <<electorate, box, sealed, result>>

Open ==
  /\ electorate = {}
  /\ box = [v \in Voters |-> NoVote]
  /\ sealed = FALSE
  /\ result = NoResult

Enter(v) ==
  /\ ~sealed
  /\ v \notin electorate
  /\ electorate' = electorate \cup {v}
  /\ UNCHANGED <<box, sealed, result>>

Cast(v, b) ==
  /\ ~sealed
  /\ v \in electorate
  /\ box' = [box EXCEPT ![v] = b]
  /\ UNCHANGED <<electorate, sealed, result>>

Seal ==
  /\ ~sealed
  /\ sealed' = TRUE
  /\ UNCHANGED <<electorate, box, result>>

Announce ==
  /\ sealed
  /\ result = NoResult
  /\ result' = Count(box)
  /\ UNCHANGED <<electorate, box, sealed>>

BoxNext ==
  \/ \E v \in Voters : Enter(v)
  \/ \E v \in Voters, b \in Ballots : Cast(v, b)
  \/ Seal
  \/ Announce

BoxSpec == Open /\ [][BoxNext]_boxVars

=============================================================================
