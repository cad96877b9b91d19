------------------------------- MODULE MC_Ipc -------------------------------
\* Instances of Ipc for TLC.
EXTENDS Ipc, TLC

\* Three tasks of three priorities; the worst and the middle one share a core.
ThreePrios == 0 :> 3 @@ 1 :> 2 @@ 2 :> 1
TwoCores == 0 :> 0 @@ 1 :> 0 @@ 2 :> 1
\* Four tasks, two of them equal.
FourPrios == 0 :> 3 @@ 1 :> 2 @@ 2 :> 2 @@ 3 :> 1
OneCore == [t \in 0 .. 3 |-> 0]
OneToken == [s \in Sems |-> 1]
NoToken == [s \in Sems |-> 0]
=============================================================================
