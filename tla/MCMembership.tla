---------------------------- MODULE MCMembership ----------------------------
(***************************************************************************)
(* A small instance of Membership for TLC.                                 *)
(***************************************************************************)
EXTENDS Membership, TLC

\* Three servers, of which the third may take over the address of the second,
\* and one of another region.
Addresses == ("s1" :> {1}) @@ ("s2" :> {2}) @@ ("s3" :> {2, 3}) @@ ("r1" :> {4})

AllTwo == [s \in Servers |-> 2]
ThirdNone == [s \in Servers |-> IF s = "s3" THEN 0 ELSE 2]
TwoAlone == [s \in Servers |-> IF s = "s2" THEN 0 ELSE 1]

\* Two servers bootstrapping next to a third; one server with more happening to
\* the others, also in bootstrap mode next to another one in bootstrap mode.
SmallPlans ==
  {[tag |-> t, running |-> {"s1", "s2"}, changes |-> 2, halts |-> 1] : t \in {AllTwo, ThirdNone}}
  \cup {[tag |-> t, running |-> {"s1"}, changes |-> 3, halts |-> 0] : t \in {AllTwo, TwoAlone}}

=============================================================================
