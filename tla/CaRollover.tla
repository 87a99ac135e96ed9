----------------------------- MODULE CaRollover -----------------------------
(***************************************************************************)
(* What a rotation of the NATS CA promises, with no files, stages, runs or *)
(* failures: the keys of the director and of the agents only ever change   *)
(* by make-before-break steps.  NatsRotation is shown to implement it.     *)
(***************************************************************************)
EXTENDS NatsKeys

CONSTANT VM

VARIABLES director, agent

vars == <<director, agent>>

AllAgents(keys) == \A v \in VM : agent[v] = keys

Init ==
  \E c \in CA :
    /\ director = Steady(c)
    /\ agent = [v \in VM |-> Issued(Steady(c))]

\* A second CA is added, or the one added before it is replaced, while every
\* agent still holds keys of the first CA only.
Widen(c, n) ==
  /\ n # c
  /\ \/ director = Steady(c)
     \/ \E m \in CA : director = Overlap(c, m)
  /\ AllAgents(Issued(Steady(c)))
  /\ director' = Overlap(c, n)
  /\ UNCHANGED agent

\* The second CA is withdrawn before any agent was given keys of it.
Withdraw(c, n) ==
  /\ director = Overlap(c, n)
  /\ AllAgents(Issued(Steady(c)))
  /\ director' = Steady(c)
  /\ UNCHANGED agent

\* A VM is created again and takes the director's present keys.
Reissue(v) ==
  /\ agent' = [agent EXCEPT ![v] = Issued(director)]
  /\ UNCHANGED director

\* The first CA is dropped once every agent has keys of both.
Narrow(c, n) ==
  /\ director = Overlap(c, n)
  /\ AllAgents(Issued(Overlap(c, n)))
  /\ director' = Steady(n)
  /\ UNCHANGED agent

Next ==
  \/ \E c, n \in CA : Widen(c, n) \/ Withdraw(c, n) \/ Narrow(c, n)
  \/ \E v \in VM : Reissue(v)

Spec == Init /\ [][Next]_vars

-----------------------------------------------------------------------------
\* Every agent and the director accept each other's certificates at all times.
AgentsReachable == \A v \in VM : Connected(director, agent[v])
=============================================================================
