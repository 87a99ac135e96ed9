-------------------------- MODULE CaRolloverProofs --------------------------
(* That make-before-break steps never cut an agent off, for any CAs and VMs. *)
EXTENDS CaRollover, TLAPS

\* The agents hold keys of the CA in force, or of it and one neighbour of it.
IInv ==
  \E c, n \in CA :
    \/ /\ director = Steady(c)
       /\ \A v \in VM : agent[v] \in {Issued(Steady(c)), Issued(Overlap(n, c))}
    \/ /\ director = Overlap(c, n)
       /\ \A v \in VM : agent[v] \in {Issued(Steady(c)), Issued(Overlap(c, n))}

Typed == agent \in [VM -> AgentKeys] /\ director \in DirectorKeys

LEMMA NeighboursConnect ==
  ASSUME NEW c, NEW n
  PROVE  /\ Connected(Steady(c), Issued(Steady(c)))
         /\ Connected(Steady(c), Issued(Overlap(n, c)))
         /\ Connected(Overlap(c, n), Issued(Steady(c)))
         /\ Connected(Overlap(c, n), Issued(Overlap(c, n)))
  BY DEF Connected, Steady, Overlap, Issued

LEMMA StepTyped ==
  ASSUME Typed, [Next]_vars
  PROVE  Typed'
  <1>0. Issued(director) \in AgentKeys
    BY DEF Issued, DirectorKeys, AgentKeys, Typed
  <1>1. ASSUME NEW c \in CA, NEW n \in CA
        PROVE  Steady(c) \in DirectorKeys /\ Overlap(c, n) \in DirectorKeys
    BY DEF Steady, Overlap, DirectorKeys
  <1>2. ASSUME NEW c \in CA, NEW n \in CA,
               Widen(c, n) \/ Withdraw(c, n) \/ Narrow(c, n)
        PROVE  Typed'
    BY <1>1, <1>2 DEF Typed, Widen, Withdraw, Narrow
  <1>3. ASSUME NEW v \in VM, Reissue(v) PROVE Typed'
    BY <1>0, <1>3 DEF Typed, Reissue
  <1>4. CASE UNCHANGED vars
    BY <1>4 DEF Typed, vars
  <1> QED BY <1>2, <1>3, <1>4 DEF Next

LEMMA StepInv ==
  ASSUME Typed, IInv, [Next]_vars
  PROVE  IInv'
  <1>1. ASSUME NEW c \in CA, NEW n \in CA, Widen(c, n) PROVE IInv'
    BY <1>1 DEF Widen, AllAgents, IInv
  <1>2. ASSUME NEW c \in CA, NEW n \in CA, Withdraw(c, n) PROVE IInv'
    BY <1>2 DEF Withdraw, AllAgents, IInv
  <1>3. ASSUME NEW c \in CA, NEW n \in CA, Narrow(c, n) PROVE IInv'
    BY <1>3 DEF Narrow, AllAgents, IInv
  <1>4. ASSUME NEW v \in VM, Reissue(v) PROVE IInv'
    <2>1. \A w \in VM : agent'[w] = IF w = v THEN Issued(director) ELSE agent[w]
      BY <1>4 DEF Reissue, Typed
    <2> QED BY <1>4, <2>1 DEF Reissue, IInv
  <1>5. CASE UNCHANGED vars
    BY <1>5 DEF vars, IInv
  <1> QED BY <1>1, <1>2, <1>3, <1>4, <1>5 DEF Next

\* Every agent and the director accept each other's certificates at all times.
THEOREM RolloverKeepsAgents == Spec => []AgentsReachable
  <1>1. Init => Typed /\ IInv
    <2> SUFFICES ASSUME Init PROVE Typed /\ IInv
      OBVIOUS
    <2>1. PICK c \in CA :
            director = Steady(c) /\ agent = [v \in VM |-> Issued(Steady(c))]
      BY DEF Init
    <2>2. Steady(c) \in DirectorKeys /\ Issued(Steady(c)) \in AgentKeys
      BY DEF Steady, Issued, DirectorKeys, AgentKeys
    <2> QED BY <2>1, <2>2 DEF Typed, IInv
  <1>2. Typed /\ IInv /\ [Next]_vars => Typed' /\ IInv'
    BY StepTyped, StepInv
  <1>3. IInv => AgentsReachable
    BY NeighboursConnect DEF IInv, AgentsReachable
  <1> QED BY <1>1, <1>2, <1>3, PTL DEF Spec
=============================================================================
