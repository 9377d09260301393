--------------------------- MODULE ShellFork_proofs ---------------------------
(***************************************************************************)
(* Proofs about ShellFork, for any number of operators and of shells.      *)
(***************************************************************************)
EXTENDS ShellFork, TLAPS

(* setup() runs for one operator at a time.                                *)
Alone == \A o, p \in Operators : InSetup(o) /\ InSetup(p) => o = p

(* While setup() runs the PE holds the child's ends, and they will survive *)
(* exec(); before and afterwards it does not hold them.                    *)
ChildEndsInSetup ==
  \A o \in Operators : \A end \in ChildEnds(o) : (end \in open <=> InSetup(o)) /\ end \notin cloexec

(* The ends the operator keeps are marked before anybody can fork.         *)
ParentEndsMarked ==
  \A o \in Operators : \A end \in ParentEnds(o) : end \in open => end \in cloexec \/ pc[o] = "fcntl"

(* A child keeps its own ends when it executes the command.                *)
KeepsItsOwn == \A o \in Operators : child[o] = "forked" => held[o] \ doomed[o] = ChildEnds(o)

Shape ==
  /\ pc \in [Operators -> {"pipe", "fcntl", "fork", "close", "running", "draining"}]
  /\ child \in [Operators -> {"none", "forked", "executing", "exited"}]
  /\ open \subseteq Ends /\ cloexec \subseteq Ends
  /\ held \in [Operators -> SUBSET Ends] /\ doomed \in [Operators -> SUBSET Ends]

Parent == Alone /\ ChildEndsInSetup /\ ParentEndsMarked
IInv   == Shape /\ Parent /\ KeepsItsOwn /\ OwnEndsOnly

(* The ends of the pipes are those of the operators' parents and children, *)
(* and no two of them are the same.                                        *)
LEMMA EndsDiffer ==
  /\ \A o \in Operators : EndsOf(o) = ChildEnds(o) \cup ParentEnds(o) /\ EndsOf(o) \subseteq Ends
  /\ \A end \in Ends : \E o \in Operators : end \in EndsOf(o)
  /\ \A o, p \in Operators : \A end \in ChildEnds(o) : end \notin ParentEnds(p)
  /\ \A o, p \in Operators : \A end \in ChildEnds(o) : end \in ChildEnds(p) => o = p
  /\ \A o, p \in Operators : \A end \in ParentEnds(o) : end \in ParentEnds(p) => o = p
BY DEF EndsOf, Ends, StdinRead, StdinWrite, StdoutRead, StdoutWrite, ChildEnds, ParentEnds

(* The two ends an operator keeps.                                         *)
LEMMA ParentEndsAre ==
  \A o \in Operators : StdinWrite(o) \in ParentEnds(o) /\ StdoutRead(o) \in ParentEnds(o)
BY DEF ParentEnds

(* At first nobody holds anything.                                         *)
LEMMA InvInit == Init => IInv
BY DEF Init, IInv, Shape, Parent, Alone, InSetup, ChildEndsInSetup, ParentEndsMarked,
       KeepsItsOwn, OwnEndsOnly

(* A step of an operator moves that operator only.                         *)
LEMMA Advances ==
  ASSUME Shape, NEW o \in Operators, NEW from, NEW to, Advance(o, from, to)
  PROVE  /\ pc[o] = from /\ pc'[o] = to
         /\ \A p \in Operators \ {o} : pc'[p] = pc[p]
BY DEF Shape, Advance

(* Every step keeps the shape.                                             *)
LEMMA ShapeStep ==
  ASSUME Shape, [Next]_vars
  PROVE  Shape'
<1>1. ASSUME NEW o \in Operators, SetupStep(o) PROVE Shape'
  <2>1. EndsOf(o) \subseteq Ends
    BY EndsDiffer
  <2>2. CASE MakePipes(o)
    BY <2>1, <2>2 DEF MakePipes, Advance, Shape
  <2>3. CASE MarkCloexec(o) \/ CloseUnused(o)
    <3>1. ParentEnds(o) \subseteq Ends
      BY <2>1, EndsDiffer
    <3> QED BY <2>3, <3>1 DEF MarkCloexec, CloseUnused, Advance, Shape
  <2>4. CASE Fork(o)
    <3>1. held' \in [Operators -> SUBSET Ends]
      BY <2>4 DEF Fork, Shape
    <3>2. doomed' \in [Operators -> SUBSET Ends]
      BY <2>4 DEF Fork, Shape
    <3> QED BY <2>4, <3>1, <3>2 DEF Fork, Advance, Shape
  <2> QED BY <1>1, <2>2, <2>3, <2>4 DEF SetupStep
<1>2. ASSUME NEW o \in Operators, ShellStep(o) PROVE Shape'
  BY <1>2 DEF ShellStep, Exec, Exit, Shape
<1>3. ASSUME NEW o \in Operators, CloseStdin(o) \/ Drain(o) PROVE Shape'
  BY <1>3 DEF CloseStdin, Drain, Advance, Shape
<1>4. CASE UNCHANGED vars
  BY <1>4 DEF vars, Shape
<1> QED BY <1>1, <1>2, <1>3, <1>4 DEF Next, Finished

(* A step that leaves setup() where it is and only closes ends.            *)
LEMMA ParentFrame ==
  ASSUME Parent, \A o \in Operators : pc'[o] = pc[o] \/ (~InSetup(o) /\ pc'[o] \in {"pipe", "draining"}),
         NEW o \in Operators, NEW end \in ParentEnds(o),
         open' = open \ {end}, cloexec' = cloexec \ {end}
  PROVE  Parent'
<1>1. \A p \in Operators : InSetup(p)' <=> InSetup(p)
  BY DEF InSetup
<1>2. \A p \in Operators : end \notin ChildEnds(p)
  BY EndsDiffer
<1>3. \A p \in Operators : pc[p] = "fcntl" => pc'[p] = "fcntl"
  BY DEF InSetup
<1> QED BY <1>1, <1>2, <1>3 DEF Parent, Alone, ChildEndsInSetup, ParentEndsMarked

(* Every step keeps order in the file table of the PE.                     *)
LEMMA ParentStep ==
  ASSUME Sequential, Shape, Parent, [Next]_vars
  PROVE  Parent'
<1> USE DEF Parent
<1>1. ASSUME NEW o \in Operators, MakePipes(o) PROVE Parent'
  <2>1. /\ pc'[o] = "fcntl" /\ \A p \in Operators \ {o} : pc'[p] = pc[p]
        /\ open' = open \cup EndsOf(o) /\ cloexec' = cloexec /\ \A p \in Operators : ~InSetup(p)
    BY <1>1, Advances DEF MakePipes
  <2>2. InSetup(o)' /\ \A p \in Operators \ {o} : ~InSetup(p)'
    BY <2>1 DEF InSetup
  <2>3. ChildEndsInSetup'
    BY <2>1, <2>2, EndsDiffer DEF ChildEndsInSetup
  <2>4. \A p \in Operators : pc[p] # "fcntl"
    BY <2>1 DEF InSetup
  <2>5. ParentEndsMarked'
    BY <2>1, <2>4, EndsDiffer DEF ParentEndsMarked
  <2> QED BY <2>2, <2>3, <2>5 DEF Alone
<1>2. ASSUME NEW o \in Operators, MarkCloexec(o) PROVE Parent'
  <2>1. /\ pc[o] = "fcntl" /\ pc'[o] = "fork" /\ \A p \in Operators \ {o} : pc'[p] = pc[p]
        /\ open' = open /\ cloexec' = cloexec \cup ParentEnds(o)
    BY <1>2, Advances DEF MarkCloexec
  <2>2. \A p \in Operators : InSetup(p)' <=> InSetup(p)
    BY <2>1 DEF InSetup
  <2>3. ChildEndsInSetup'
    BY <2>1, <2>2, EndsDiffer DEF ChildEndsInSetup
  <2>4. ParentEndsMarked'
    BY <2>1, EndsDiffer DEF ParentEndsMarked
  <2> QED BY <2>2, <2>3, <2>4 DEF Alone
<1>3. ASSUME NEW o \in Operators, Fork(o) PROVE Parent'
  <2>1. /\ pc[o] = "fork" /\ pc'[o] = "close" /\ \A p \in Operators \ {o} : pc'[p] = pc[p]
        /\ open' = open /\ cloexec' = cloexec
    BY <1>3, Advances DEF Fork
  <2>2. \A p \in Operators : InSetup(p)' <=> InSetup(p)
    BY <2>1 DEF InSetup
  <2> QED BY <2>1, <2>2 DEF Alone, ChildEndsInSetup, ParentEndsMarked
<1>4. ASSUME NEW o \in Operators, CloseUnused(o) PROVE Parent'
  <2>1. /\ pc[o] = "close" /\ pc'[o] = "running" /\ \A p \in Operators \ {o} : pc'[p] = pc[p]
        /\ open' = open \ ChildEnds(o) /\ cloexec' = cloexec
    BY <1>4, Advances DEF CloseUnused
  <2>2. InSetup(o) /\ ~InSetup(o)' /\ \A p \in Operators \ {o} : InSetup(p)' <=> InSetup(p)
    BY <2>1 DEF InSetup
  <2>3. ChildEndsInSetup'
    BY <2>1, <2>2, EndsDiffer DEF ChildEndsInSetup
  <2>4. ParentEndsMarked'
    BY <2>1 DEF ParentEndsMarked
  <2> QED BY <2>2, <2>3, <2>4 DEF Alone
<1>5. ASSUME NEW o \in Operators, CloseStdin(o) PROVE Parent'
  <2>1. /\ pc[o] = "running" /\ pc'[o] = "draining" /\ \A p \in Operators \ {o} : pc'[p] = pc[p]
    BY <1>5, Advances DEF CloseStdin
  <2>2. \A p \in Operators : pc'[p] = pc[p] \/ (~InSetup(p) /\ pc'[p] \in {"pipe", "draining"})
    BY <2>1 DEF InSetup
  <2>3. open' = open \ {StdinWrite(o)} /\ cloexec' = cloexec \ {StdinWrite(o)}
    BY <1>5 DEF CloseStdin
  <2> QED BY <2>2, <2>3, ParentFrame, ParentEndsAre
<1>6. ASSUME NEW o \in Operators, Drain(o) PROVE Parent'
  <2>1. /\ pc[o] = "draining" /\ pc'[o] = "pipe" /\ \A p \in Operators \ {o} : pc'[p] = pc[p]
    BY <1>6, Advances DEF Drain
  <2>2. \A p \in Operators : pc'[p] = pc[p] \/ (~InSetup(p) /\ pc'[p] \in {"pipe", "draining"})
    BY <2>1 DEF InSetup
  <2>3. open' = open \ {StdoutRead(o)} /\ cloexec' = cloexec \ {StdoutRead(o)}
    BY <1>6 DEF Drain
  <2> QED BY <2>2, <2>3, ParentFrame, ParentEndsAre
<1>7. CASE UNCHANGED <<pc, open, cloexec>>
  BY <1>7 DEF Alone, InSetup, ChildEndsInSetup, ParentEndsMarked
<1> QED BY <1>1, <1>2, <1>3, <1>4, <1>5, <1>6, <1>7
        DEF Next, SetupStep, ShellStep, Exec, Exit, Finished, vars

(* What a fork inherits beyond the child's own ends, exec() closes.        *)
LEMMA ForkInherits ==
  ASSUME Shape, Parent, NEW o \in Operators, pc[o] = "fork"
  PROVE  open \ cloexec = ChildEnds(o)
<1>1. \A p \in Operators : pc[p] # "fcntl" /\ (p # o => ~InSetup(p))
  BY DEF Parent, Alone, InSetup
<1>2. ChildEnds(o) \subseteq open \ cloexec
  BY DEF Parent, ChildEndsInSetup, InSetup
<1>3. ASSUME NEW end \in open, end \notin cloexec PROVE end \in ChildEnds(o)
  <2>1. PICK p \in Operators : end \in ChildEnds(p) \cup ParentEnds(p)
    BY <1>3, EndsDiffer DEF Shape
  <2>2. end \notin ParentEnds(p)
    BY <1>1, <1>3 DEF Parent, ParentEndsMarked
  <2>3. p = o
    BY <1>1, <1>3, <2>1, <2>2 DEF Parent, ChildEndsInSetup
  <2> QED BY <2>1, <2>2, <2>3
<1> QED BY <1>2, <1>3

(* Every step keeps the children's ends in order.                          *)
LEMMA ChildStep ==
  ASSUME Shape, Parent, KeepsItsOwn, OwnEndsOnly, [Next]_vars
  PROVE  KeepsItsOwn' /\ OwnEndsOnly'
<1>1. ASSUME NEW o \in Operators, Fork(o) PROVE KeepsItsOwn' /\ OwnEndsOnly'
  <2>1. open \ cloexec = ChildEnds(o)
    BY <1>1, ForkInherits DEF Fork, Advance
  <2>2. /\ child'[o] = "forked" /\ held'[o] = open /\ doomed'[o] = cloexec
        /\ \A p \in Operators \ {o} : child'[p] = child[p] /\ held'[p] = held[p] /\ doomed'[p] = doomed[p]
    BY <1>1 DEF Fork, Shape
  <2> QED BY <2>1, <2>2 DEF KeepsItsOwn, OwnEndsOnly
<1>2. ASSUME NEW o \in Operators, Exec(o) PROVE KeepsItsOwn' /\ OwnEndsOnly'
  <2>1. /\ child[o] = "forked" /\ child'[o] = "executing" /\ held'[o] = held[o] \ doomed[o]
        /\ doomed' = doomed
        /\ \A p \in Operators \ {o} : child'[p] = child[p] /\ held'[p] = held[p]
    BY <1>2 DEF Exec, Shape
  <2> QED BY <2>1 DEF KeepsItsOwn, OwnEndsOnly
<1>3. ASSUME NEW o \in Operators, Exit(o) \/ Drain(o) PROVE KeepsItsOwn' /\ OwnEndsOnly'
  <2>1. /\ child'[o] \in {"exited", "none"} /\ doomed' = doomed
        /\ \A p \in Operators \ {o} : child'[p] = child[p] /\ held'[p] = held[p]
    BY <1>3 DEF Exit, Drain, Shape
  <2> QED BY <2>1 DEF KeepsItsOwn, OwnEndsOnly
<1>4. CASE UNCHANGED <<child, held, doomed>>
  BY <1>4 DEF KeepsItsOwn, OwnEndsOnly
<1> QED BY <1>1, <1>2, <1>3, <1>4
        DEF Next, SetupStep, ShellStep, MakePipes, MarkCloexec, CloseUnused, CloseStdin, Finished, vars

(* When setup() runs for one operator at a time, the command of each holds *)
(* the ends of its own pipes and no other operator's.                      *)
THEOREM NoForeignEnds ==
  ASSUME Sequential
  PROVE  Spec => []OwnEndsOnly
<1>1. Init => IInv
  BY InvInit
<1>2. IInv /\ [Next]_vars => IInv'
  BY ShapeStep, ParentStep, ChildStep DEF IInv
<1>3. IInv => OwnEndsOnly
  BY DEF IInv
<1> QED BY <1>1, <1>2, <1>3, PTL DEF Spec
===============================================================================
