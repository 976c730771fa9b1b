------------------------------ MODULE RunProofs ------------------------------
(***************************************************************************)
(* Proofs about what one run consists of: the loops of its agents          *)
(* (AgentLoop), the steps of its plan (PlanSteps), a command of its bash   *)
(* tool (BashRun) and the events it emits (EventLog).  The four share no   *)
(* variable; each has an inductive invariant of its own, AgentInv,         *)
(* PlanInv, BashInv and EventInv.  Nothing bounds the number of            *)
(* sub-agents, steps, branches or emitters, the length of an output or the *)
(* retention but what the modules ask of their constants.  At the end, the *)
(* theorems about the parts of a worker together (MCWorker).               *)
(***************************************************************************)
EXTENDS MCWorker, FiniteSetTheorems, WellFoundedInduction,
        SequenceTheorems, TLAPS

\* Every set of natural numbers has a least element: the library's minimum of a
\* well-founded relation, for the order of the naturals.
LEMMA LeastNatural ==
    ASSUME NEW T, T \subseteq Nat, T # {} PROVE \E x \in T : \A y \in T : x <= y
  <1>1. PICK x \in T : \A y \in T : ~(<<y, x>> \in OpToRel(<, Nat))
    BY NatLessThanWellFounded, WFMin
  <1>2. ASSUME NEW y \in T, y < x PROVE FALSE
    <2>1. <<y, x>> \in Nat \X Nat /\ <<y, x>>[1] < <<y, x>>[2]
      BY <1>2
    <2>2. <<y, x>> \in OpToRel(<, Nat)
      BY <2>1, Zenon DEF OpToRel
    <2> QED BY <1>1, <2>2
  <1> QED BY <1>2

----------------------------------------------------------------------------
(* The loops of the agents (AgentLoop).  Each loop keeps to itself what a  *)
(* retry may repeat (LoopSafe); what the budget may be exceeded by is      *)
(* counted by the agents that are in a provider call (Spending), and they  *)
(* are no more than the slots of the sub-agents, which only run while the  *)
(* main loop waits for their group.                                        *)

AgentSafety == AgentInit /\ [][AgentNext]_agentVars

LoopState ==
  [pc : LoopPCs, repairing : 0 .. Repairs, iteration : 0 .. MaxIterations,
   tries : 0 .. Retries, model : 1 .. Models, retry : BOOLEAN, calls : Seq(Kinds), at : Nat,
   ran : 0 .. Retries + 1, approved : BOOLEAN, acted : BOOLEAN, transient : BOOLEAN]

InCallPCs == {"gate", "calling", "callfailed"}
InCall == {a \in Agents : agent[a].pc \in InCallPCs}
\* What one call may add to the ledger: an answer costs a token, a repair all its answers.
Worst == IF Repairs > 1 THEN Repairs ELSE 1

\* A loop whose tools may have acted retries no provider call and no tool that acts.
LoopSafe(loop) ==
  /\ loop.acted => ~loop.retry
  /\ loop.pc \in {"tools", "suspended", "group"} /\ loop.retry =>
       \A i \in 1 .. Len(loop.calls) : loop.calls[i] = "read"
  /\ loop.pc \in {"tools", "suspended"} /\ loop.at <= Len(loop.calls) /\ loop.ran > 0 =>
       loop.calls[loop.at] = "read"
  /\ loop.pc \in InCallPCs /\ ~loop.retry /\ loop.repairing = 0 => loop.tries = 0
  /\ loop.pc = "group" => loop.at <= Len(loop.calls) /\ loop.calls[loop.at] = "sub"
  /\ loop.pc \in {"tools", "suspended", "group"} => loop.at > 0

\* Sub-agents run while the main loop waits for their group, and it waits for nothing else.
GroupOfMain ==
  /\ agent["main"].pc # "group" => \A a \in Subs : agent[a].pc = "idle"
  /\ \A a \in Subs : agent[a].pc # "group"

SlotsHeld == Cardinality(RunningSubs) <= parallel

\* Within the budget, or beyond it by no more than the calls under way may add.
Spending ==
  /\ agent["main"].pc = "completed" => used <= MaxTokens
  /\ \/ used <= MaxTokens
     \/ used + Cardinality(InCall) * Worst <= MaxTokens + MaxParallel * Worst

AgentInv ==
  /\ AgentConstants /\ agent \in [Agents -> LoopState] /\ used \in Nat
  /\ parallel \in 1 .. MaxParallel
  /\ partialOK \in BOOLEAN /\ schema \in BOOLEAN /\ cancelled \in BOOLEAN
  /\ \A a \in Agents : LoopSafe(agent[a])
  /\ GroupOfMain /\ SlotsHeld /\ Spending

\* A loop that starts or ends has nothing to keep.
LEMMA FreshLoops ==
    ASSUME AgentConstants, NEW pc \in {"idle", "queued", "top"} \cup Ended
    PROVE  Fresh(pc) \in LoopState /\ LoopSafe(Fresh(pc)) /\ Fresh(pc).pc = pc
  <1>1. /\ <<>> \in Seq(Kinds) /\ 0 \in 0 .. Repairs /\ 0 \in 0 .. MaxIterations
        /\ 0 \in 0 .. Retries /\ 1 \in 1 .. Models /\ 0 \in 0 .. Retries + 1
        /\ pc \in LoopPCs
    BY DEF AgentConstants, LoopPCs, Ended
  <1>2. Fresh(pc) \in LoopState
    BY <1>1 DEF LoopState, Fresh
  <1>3. LoopSafe(Fresh(pc))
    BY DEF LoopSafe, InCallPCs, Ended, Fresh
  <1> QED BY <1>2, <1>3 DEF Fresh

\* There are finitely many agents, and those that run or call are some of them.
LEMMA AgentsAreFinite ==
    ASSUME AgentConstants
    PROVE  /\ IsFiniteSet(Agents) /\ IsFiniteSet(RunningSubs) /\ IsFiniteSet(InCall)
           /\ Cardinality(RunningSubs) \in Nat /\ Cardinality(InCall) \in Nat
  <1>1. IsFiniteSet({"main"} \cup Subs)
    BY FS_Singleton, FS_Union DEF AgentConstants
  <1>2. RunningSubs \subseteq Agents /\ InCall \subseteq Agents
    BY DEF RunningSubs, Group, InCall, Agents
  <1> QED BY <1>1, <1>2, FS_Subset, FS_CardinalityType DEF Agents

\* Products of naturals keep their order.
LEMMA MoreTimes ==
    ASSUME NEW m \in Nat, NEW n \in Nat, NEW w \in Nat, m <= n PROVE m * w <= n * w
  <1>1. PICK d \in Nat : n = m + d
    <2>1. n - m \in Nat /\ n = m + (n - m)
      OBVIOUS
    <2> QED BY <2>1
  <1>2. (m + d) * w = m * w + d * w
    OBVIOUS
  <1>3. m * w \in Nat /\ d * w \in Nat
    OBVIOUS
  <1> QED BY <1>1, <1>2, <1>3

\* The agents in a provider call are no more than the slots: the main loop alone, or
\* sub-agents that run.
LEMMA CallsHaveSlots == ASSUME AgentInv PROVE Cardinality(InCall) <= MaxParallel
  <1>0. /\ AgentConstants /\ "main" \in Agents
        /\ parallel \in 1 .. MaxParallel /\ MaxParallel \in Nat
    BY DEF AgentInv, AgentConstants, Agents
  <1>1. CASE agent["main"].pc = "group"
    <2>1. InCall \subseteq RunningSubs
      BY <1>1 DEF InCall, RunningSubs, Group, Agents, InCallPCs, SubEnded, Ended
    <2>2. Cardinality(InCall) <= Cardinality(RunningSubs)
      BY <1>0, <2>1, AgentsAreFinite, FS_Subset
    <2>3. Cardinality(RunningSubs) <= parallel
      BY DEF AgentInv, SlotsHeld
    <2> QED BY <1>0, <2>2, <2>3, AgentsAreFinite
  <1>2. CASE agent["main"].pc # "group"
    <2>1. InCall \subseteq {"main"}
      BY <1>2 DEF AgentInv, GroupOfMain, InCall, Agents, InCallPCs
    <2>2. Cardinality(InCall) <= 1
      <3>1. IsFiniteSet({"main"}) /\ Cardinality({"main"}) = 1
        BY FS_Singleton
      <3> QED BY <2>1, <3>1, FS_Subset
    <2> QED BY <1>0, <2>2, AgentsAreFinite
  <1> QED BY <1>1, <1>2

\* What has to be shown of a step of one agent: what it charges, and the slot it takes.
Idling == {"idle", "group"}
Charges(a, loop) ==
  \/ used' <= MaxTokens
  \/ used' = used /\ (loop.pc \in InCallPCs => agent[a].pc \in InCallPCs)
  \/ agent[a].pc \in InCallPCs /\ loop.pc \notin InCallPCs /\ used' <= used + Worst
TakesSlot(a, loop) ==
  a \in Subs => \/ agent[a].pc # "queued"
                \/ loop.pc \in SubEnded
                \/ Cardinality(RunningSubs) < parallel

\* The loop of one agent moves, and the other agents stay where they are.
LEMMA LoopMovesSafely ==
    ASSUME AgentInv, NEW a \in Agents, NEW loop \in LoopState, Now(a, loop), LoopSafe(loop),
           agent[a].pc # "group", a \in Subs => agent[a].pc \notin Idling \cup SubEnded,
           loop.pc \notin Idling \cup {"queued"}, Fixed, cancelled' = cancelled,
           used' \in Nat, Charges(a, loop), TakesSlot(a, loop),
           a = "main" /\ loop.pc = "completed" => used' <= MaxTokens
    PROVE  AgentInv'
  <1>0. /\ AgentConstants /\ agent \in [Agents -> LoopState] /\ used \in Nat
        /\ "main" \in Agents /\ "main" \notin Subs /\ Subs \subseteq Agents
        /\ MaxParallel \in Nat /\ MaxTokens \in Nat /\ Worst \in Nat
        /\ parallel \in 1 .. MaxParallel /\ parallel' = parallel
    BY DEF AgentInv, AgentConstants, Agents, Worst, Fixed
  <1>1. /\ agent' \in [Agents -> LoopState] /\ agent'[a] = loop
        /\ \A b \in Agents : b # a => agent'[b] = agent[b]
    BY <1>0 DEF Now
  <1>2. \A b \in Agents : LoopSafe(agent'[b])
    BY <1>1 DEF AgentInv
  <1>3. a # "main" => a \in Subs /\ agent["main"].pc = "group" /\ agent'["main"] = agent["main"]
    BY <1>0, <1>1 DEF AgentInv, GroupOfMain, Idling, Agents
  <1>4. GroupOfMain'
    BY <1>0, <1>1, <1>3 DEF AgentInv, GroupOfMain, Idling
  <1>5. SlotsHeld'
    <2>1. CASE a \in Subs /\ agent[a].pc = "queued" /\ loop.pc \notin SubEnded
      <3>1. RunningSubs' \subseteq RunningSubs \cup {a}
        BY <1>1 DEF RunningSubs, Group, Agents
      <3>2. /\ IsFiniteSet(RunningSubs \cup {a})
            /\ Cardinality(RunningSubs \cup {a}) = Cardinality(RunningSubs) + 1
        <4>1. a \notin RunningSubs
          BY <2>1 DEF RunningSubs
        <4> QED BY <1>0, <4>1, AgentsAreFinite, FS_AddElement
      <3>3. /\ Cardinality(RunningSubs') <= Cardinality(RunningSubs \cup {a})
            /\ Cardinality(RunningSubs') \in Nat
        BY <3>1, <3>2, FS_Subset, FS_CardinalityType
      <3>4. Cardinality(RunningSubs \cup {a}) \in Nat
        BY <3>2, FS_CardinalityType
      <3>5. Cardinality(RunningSubs) < parallel
        BY <2>1 DEF TakesSlot
      <3>6. Cardinality(RunningSubs') <= parallel
        BY <1>0, <3>2, <3>3, <3>4, <3>5, AgentsAreFinite
      <3> QED BY <1>0, <3>6 DEF SlotsHeld
    <2>2. CASE ~(a \in Subs /\ agent[a].pc = "queued" /\ loop.pc \notin SubEnded)
      <3>1. RunningSubs' \subseteq RunningSubs
        BY <1>0, <1>1, <1>3, <2>2 DEF RunningSubs, Group, Agents, Idling, SubEnded, Ended
      <3>2. /\ Cardinality(RunningSubs') <= Cardinality(RunningSubs)
            /\ Cardinality(RunningSubs') \in Nat
        BY <1>0, <3>1, AgentsAreFinite, FS_Subset, FS_CardinalityType
      <3>3. Cardinality(RunningSubs) <= parallel
        BY DEF AgentInv, SlotsHeld
      <3>4. Cardinality(RunningSubs') <= parallel
        BY <1>0, <3>2, <3>3, AgentsAreFinite
      <3> QED BY <1>0, <3>4 DEF SlotsHeld
    <2> QED BY <2>1, <2>2
  <1>6. agent'["main"].pc = "completed" => used' <= MaxTokens
    <2>1. CASE a = "main"
      BY <1>1, <2>1
    <2>2. CASE a # "main"
      BY <1>3, <2>2
    <2> QED BY <2>1, <2>2
  <1>7. \/ used' <= MaxTokens
        \/ used' + Cardinality(InCall') * Worst <= MaxTokens + MaxParallel * Worst
    <2> DEFINE n == Cardinality(InCall)
               m == Cardinality(InCall')
               most == MaxParallel * Worst
    <2>1. /\ n \in Nat /\ IsFiniteSet(InCall) /\ n <= MaxParallel
          /\ used <= MaxTokens \/ used + n * Worst <= MaxTokens + most
      BY <1>0, AgentsAreFinite, CallsHaveSlots DEF AgentInv, Spending
    <2>2. CASE used' <= MaxTokens
      BY <2>2
    <2>3. CASE used' = used /\ (loop.pc \in InCallPCs => agent[a].pc \in InCallPCs)
      <3>1. InCall' \subseteq InCall
        BY <1>1, <2>3 DEF InCall
      <3>2. m <= n /\ m \in Nat
        BY <2>1, <3>1, FS_Subset, FS_CardinalityType
      <3>3. m * Worst <= n * Worst
        BY <1>0, <2>1, <3>2, MoreTimes
      <3>4. m * Worst \in Nat /\ n * Worst \in Nat /\ most \in Nat
        BY <1>0, <2>1, <3>2
      <3> HIDE DEF m, n, most
      <3>5. used' <= MaxTokens \/ used' + m * Worst <= MaxTokens + most
        BY <1>0, <2>1, <2>3, <3>3, <3>4
      <3> QED BY <3>5 DEF m, most
    <2>4. CASE agent[a].pc \in InCallPCs /\ loop.pc \notin InCallPCs /\ used' <= used + Worst
      <3>1. InCall' = InCall \ {a} /\ a \in InCall
        BY <1>1, <2>4 DEF InCall
      <3>2. m = n - 1 /\ m \in Nat
        BY <2>1, <3>1, FS_RemoveElement, FS_CardinalityType
      <3>3. n * Worst <= most
        BY <1>0, <2>1, MoreTimes
      <3>4. /\ m * Worst + Worst = n * Worst
            /\ m * Worst \in Nat /\ n * Worst \in Nat /\ most \in Nat
        BY <1>0, <2>1, <3>2
      <3> HIDE DEF m, n, most
      <3>5. used' <= MaxTokens \/ used' + m * Worst <= MaxTokens + most
        BY <1>0, <2>1, <2>4, <3>3, <3>4
      <3> QED BY <3>5 DEF m, most
    <2> QED BY <2>2, <2>3, <2>4 DEF Charges
  <1>8. Spending'
    BY <1>6, <1>7 DEF Spending, Worst
  <1> QED BY <1>0, <1>1, <1>2, <1>4, <1>5, <1>8 DEF AgentInv, Fixed

\* A call is made again only by a loop that may repeat it.
LEMMA CallSafe ==
    ASSUME AgentConstants, NEW loop \in LoopState, LoopSafe(loop), NEW next \in LoopState,
           next.pc \in InCallPCs, next.retry = loop.retry, next.acted = loop.acted,
           next.retry \/ next.repairing > 0 \/ next.tries = 0
    PROVE  LoopSafe(next)
  BY DEF LoopSafe, LoopState, InCallPCs

\* The provider calls: BeginIteration to RepairAnswer.
LEMMA CallsKeep == ASSUME AgentInv, NEW a \in Agents, CallStep(a) PROVE AgentInv'
  <1> DEFINE loop == agent[a]
  <1>0. /\ AgentConstants /\ loop \in LoopState /\ LoopSafe(loop) /\ used \in Nat
        /\ MaxTokens \in Nat /\ Worst \in Nat /\ (a # "main" => a \in Subs) /\ Repairs \in Nat
    BY DEF AgentInv, AgentConstants, Agents, Worst
  <1>1. \* An end of the loop: nothing is left to keep.
        ASSUME NEW pc \in Ended, Ends(a, pc), Fixed, cancelled' = cancelled, used' \in Nat,
               loop.pc \in {"top"} \cup InCallPCs \cup {"tools"},
               \/ used' = used
               \/ used' <= MaxTokens
               \/ loop.pc \in InCallPCs /\ used' <= used + Worst,
               pc = "completed" => used' <= MaxTokens
        PROVE  AgentInv'
    <2>1. Fresh(pc) \in LoopState /\ LoopSafe(Fresh(pc)) /\ Fresh(pc).pc = pc
      BY <1>0, <1>1, FreshLoops
    <2>2. Charges(a, Fresh(pc)) /\ TakesSlot(a, Fresh(pc))
      BY <1>1, <2>1 DEF Charges, TakesSlot, InCallPCs, Ended, SubEnded
    <2>3. /\ Now(a, Fresh(pc)) /\ loop.pc # "group" /\ loop.pc \notin Idling \cup SubEnded
          /\ pc \notin Idling \cup {"queued"}
      BY <1>1 DEF Ends, Idling, Ended, SubEnded, InCallPCs
    <2> QED BY <1>1, <2>1, <2>2, <2>3, LoopMovesSafely
  <1>2. \* A move within the iteration, the provider call included.
        ASSUME NEW next \in LoopState, Now(a, next), LoopSafe(next), Fixed,
               cancelled' = cancelled, used' \in Nat,
               loop.pc \in {"top"} \cup InCallPCs,
               next.pc \in InCallPCs \cup {"tools"},
               \/ used' <= MaxTokens
               \/ used' = used /\ loop.pc \in InCallPCs
        PROVE  AgentInv'
    <2>1. Charges(a, next) /\ TakesSlot(a, next)
      BY <1>2 DEF Charges, TakesSlot, InCallPCs
    <2>2. /\ loop.pc # "group" /\ loop.pc \notin Idling \cup SubEnded
          /\ next.pc \notin Idling \cup {"queued", "completed"}
      BY <1>2 DEF Idling, Ended, SubEnded, InCallPCs
    <2> QED BY <1>2, <2>1, <2>2, LoopMovesSafely
  <1>3. "gate" \in InCallPCs /\ "calling" \in InCallPCs /\ "callfailed" \in InCallPCs
    BY DEF InCallPCs
  <1>4. /\ loop.pc \in LoopPCs /\ loop.repairing \in 0 .. Repairs
        /\ loop.iteration \in 0 .. MaxIterations /\ loop.tries \in 0 .. Retries
        /\ loop.model \in 1 .. Models /\ loop.transient \in BOOLEAN /\ loop.retry \in BOOLEAN
        /\ 0 \in 0 .. Retries /\ 1 \in 1 .. Models /\ MaxIterations \in Nat /\ Retries \in Nat
        /\ Models \in Nat
    <2>1. loop \in LoopState
      BY <1>0
    <2>2. /\ loop.pc \in LoopPCs /\ loop.repairing \in 0 .. Repairs
          /\ loop.iteration \in 0 .. MaxIterations /\ loop.tries \in 0 .. Retries
      BY <2>1 DEF LoopState
    <2>3. loop.model \in 1 .. Models /\ loop.transient \in BOOLEAN /\ loop.retry \in BOOLEAN
      BY <2>1 DEF LoopState
    <2>4. MaxIterations \in Nat /\ Retries \in Nat /\ Models \in Nat \ {0}
      BY <1>0 DEF AgentConstants
    <2>5. 0 \in 0 .. Retries /\ 1 \in 1 .. Models /\ Models \in Nat
      BY <2>4
    <2> QED BY <2>2, <2>3, <2>4, <2>5
  <1>5. CASE BeginIteration(a)
    <2>1. CASE loop.iteration >= MaxIterations \/ Exceeded
      <3>1. Ends(a, "truncated") /\ loop.pc = "top" /\ Fixed /\ UNCHANGED <<used, cancelled>>
        BY <1>5, <2>1 DEF BeginIteration
      <3> QED BY <1>0, <1>1, <3>1 DEF Ended
    <2>2. CASE ~(loop.iteration >= MaxIterations \/ Exceeded)
      <3> DEFINE next == [loop EXCEPT !.pc = "gate", !.iteration = @ + 1, !.tries = 0,
                                      !.model = 1]
      <3>1. Now(a, next) /\ loop.pc = "top" /\ Fixed /\ UNCHANGED <<used, cancelled>>
        BY <1>5, <2>2 DEF BeginIteration
      <3>2. loop.iteration + 1 \in 0 .. MaxIterations /\ used <= MaxTokens
        BY <1>0, <1>4, <2>2 DEF Exceeded
      <3>3. /\ next \in LoopState /\ next.pc = "gate" /\ next.tries = 0
            /\ next.retry = loop.retry /\ next.acted = loop.acted
        BY <1>0, <1>4, <3>2 DEF LoopState, LoopPCs
      <3> HIDE DEF next
      <3>4. LoopSafe(next)
        BY <1>0, <1>3, <3>3, CallSafe
      <3> QED BY <1>0, <1>2, <1>3, <3>1, <3>2, <3>3, <3>4
    <2> QED BY <2>1, <2>2
  <1>6. CASE LoopStopsEarly(a)
    <2>1. /\ loop.pc \in {"top", "gate", "tools"} /\ Fixed /\ UNCHANGED <<used, cancelled>>
          /\ Ends(a, "failed") \/ Ends(a, "truncated")
      BY <1>6 DEF LoopStopsEarly
    <2> QED BY <1>0, <1>1, <1>3, <2>1 DEF Ended
  <1>7. CASE Acquire(a)
    <2> DEFINE next == [loop EXCEPT !.pc = "calling"]
    <2>1. Now(a, next) /\ loop.pc = "gate" /\ Fixed /\ UNCHANGED <<used, cancelled>>
      BY <1>7 DEF Acquire, Goes
    <2>2. /\ next \in LoopState /\ next.pc = "calling" /\ next.tries = loop.tries
          /\ next.retry = loop.retry /\ next.acted = loop.acted
          /\ next.repairing = loop.repairing
      BY <1>0, <1>4 DEF LoopState, LoopPCs
    <2> HIDE DEF next
    <2>3. LoopSafe(next)
      <3>1. loop.retry \/ loop.repairing > 0 \/ loop.tries = 0
        BY <1>0, <1>3, <1>4, <2>1 DEF LoopSafe
      <3> QED BY <1>0, <1>3, <2>2, <3>1, CallSafe
    <2> QED BY <1>0, <1>2, <1>3, <2>1, <2>2, <2>3
  <1>8. CASE CallFails(a)
    <2>1. PICK transient \in BOOLEAN :
            Now(a, [loop EXCEPT !.pc = "callfailed", !.transient = transient])
      BY <1>8 DEF CallFails
    <2> DEFINE next == [loop EXCEPT !.pc = "callfailed", !.transient = transient]
    <2>2. /\ Now(a, next) /\ loop.pc \in {"gate", "calling"} /\ Fixed
          /\ UNCHANGED <<used, cancelled>>
      BY <1>8, <2>1 DEF CallFails
    <2>3. /\ next \in LoopState /\ next.pc = "callfailed" /\ next.tries = loop.tries
          /\ next.retry = loop.retry /\ next.acted = loop.acted
          /\ next.repairing = loop.repairing
      BY <1>0, <1>4 DEF LoopState, LoopPCs
    <2> HIDE DEF next
    <2>4. LoopSafe(next)
      <3>1. loop.retry \/ loop.repairing > 0 \/ loop.tries = 0
        BY <1>0, <1>3, <1>4, <2>2 DEF LoopSafe
      <3> QED BY <1>0, <1>3, <2>3, <3>1, CallSafe
    <2> QED BY <1>0, <1>2, <1>3, <2>2, <2>3, <2>4
  <1>9. CASE RetryCall(a)
    <2> DEFINE next == [loop EXCEPT !.pc = "gate", !.tries = @ + 1, !.transient = FALSE]
    <2>1. /\ Now(a, next) /\ loop.pc = "callfailed" /\ Fixed /\ UNCHANGED <<used, cancelled>>
          /\ loop.retry \/ loop.repairing > 0
          /\ loop.tries < Retries
      BY <1>9 DEF RetryCall, RetryAllowed
    <2>2. loop.tries + 1 \in 0 .. Retries
      BY <1>4, <2>1
    <2>3. /\ next \in LoopState /\ next.pc = "gate"
          /\ next.retry = loop.retry /\ next.acted = loop.acted
          /\ next.repairing = loop.repairing
      BY <1>0, <1>4, <2>2 DEF LoopState, LoopPCs
    <2> HIDE DEF next
    <2>4. LoopSafe(next)
      BY <1>0, <1>3, <2>1, <2>3, CallSafe
    <2> QED BY <1>0, <1>2, <1>3, <2>1, <2>3, <2>4
  <1>10. \* The ledger is charged for the repairs when the loop ends.
         ASSUME NEW pc \in {"completed", "failed"}, NEW charged \in Nat,
                used <= charged, charged <= used + Worst,
                EndsWith(a, pc, charged), Fixed, cancelled' = cancelled, loop.pc \in InCallPCs,
                pc = "completed" => charged > used
         PROVE  AgentInv'
    <2> DEFINE end == IF charged > MaxTokens /\ charged > used THEN "truncated" ELSE pc
    <2>1. used' = charged /\ Ends(a, end) /\ end \in Ended
      BY <1>10 DEF EndsWith, Ended
    <2>2. end = "completed" => charged <= MaxTokens
      BY <1>0, <1>10
    <2> HIDE DEF end
    <2> QED BY <1>1, <1>10, <2>1, <2>2
  <1>11. CASE FallBack(a)
    <2>1. CASE /\ Now(a, [loop EXCEPT !.pc = "gate", !.model = @ + 1, !.tries = 0,
                                       !.transient = FALSE])
               /\ loop.model < Models /\ used' = used
      <3> DEFINE next == [loop EXCEPT !.pc = "gate", !.model = @ + 1, !.tries = 0,
                                      !.transient = FALSE]
      <3>1. Now(a, next) /\ loop.pc = "callfailed" /\ Fixed /\ UNCHANGED <<used, cancelled>>
        BY <1>11, <2>1 DEF FallBack
      <3>2. loop.model + 1 \in 1 .. Models
        BY <1>4, <2>1
      <3>3. /\ next \in LoopState /\ next.pc = "gate" /\ next.tries = 0
            /\ next.retry = loop.retry /\ next.acted = loop.acted
        BY <1>0, <1>4, <3>2 DEF LoopState, LoopPCs
      <3> HIDE DEF next
      <3>4. LoopSafe(next)
        BY <1>0, <1>3, <3>3, CallSafe
      <3> QED BY <1>0, <1>2, <1>3, <3>1, <3>3, <3>4
    <2>2. CASE EndsWith(a, "failed", Charge(loop))
      <3>1. loop.pc = "callfailed" /\ Fixed /\ UNCHANGED cancelled
        BY <1>11 DEF FallBack
      <3>2. /\ Charge(loop) \in Nat /\ used <= Charge(loop)
            /\ Charge(loop) <= used + Worst
        BY <1>0, <1>4 DEF Charge, Worst
      <3> QED BY <1>3, <1>10, <2>2, <3>1, <3>2
    <2> QED BY <1>11, <2>1, <2>2 DEF FallBack
  <1>12. CASE AnswerUnrecorded(a)
    <2>1. loop.pc = "calling" /\ Ends(a, "failed") /\ Fixed /\ UNCHANGED <<used, cancelled>>
      BY <1>12 DEF AnswerUnrecorded, Answered
    <2> QED BY <1>0, <1>1, <1>3, <2>1 DEF Ended
  <1>13. CASE AnswerTruncated(a)
    <2>1. /\ loop.pc = "calling" /\ Ends(a, "truncated") /\ Fixed /\ UNCHANGED cancelled
          /\ used' = used + 1
      BY <1>13 DEF AnswerTruncated, Answered
    <2>2. used' \in Nat /\ used' <= used + Worst
      BY <1>0, <2>1 DEF Worst
    <2> QED BY <1>0, <1>1, <1>3, <2>1, <2>2 DEF Ended
  <1>14. CASE FinalAnswer(a)
    <2>1. /\ loop.pc = "calling" /\ Fixed /\ UNCHANGED cancelled
          /\ used' = used + 1 /\ used' <= MaxTokens /\ used' \in Nat
      BY <1>0, <1>14 DEF FinalAnswer, Answered
    <2>2. CASE Ends(a, "completed") \/ Ends(a, "failed")
      BY <1>1, <1>3, <2>1, <2>2 DEF Ended
    <2>3. CASE /\ Repairs > 0
               /\ Now(a, [loop EXCEPT !.pc = "gate", !.repairing = 1, !.tries = 0,
                                       !.model = 1])
      <3> DEFINE next == [loop EXCEPT !.pc = "gate", !.repairing = 1, !.tries = 0, !.model = 1]
      <3>1. 1 \in 0 .. Repairs
        BY <1>0, <2>3
      <3>2. /\ next \in LoopState /\ next.pc = "gate" /\ next.tries = 0
            /\ next.retry = loop.retry /\ next.acted = loop.acted
        BY <1>0, <1>4, <3>1 DEF LoopState, LoopPCs
      <3>3. Now(a, next)
        BY <2>3
      <3> HIDE DEF next
      <3>4. LoopSafe(next)
        BY <1>0, <1>3, <3>2, CallSafe
      <3> QED BY <1>2, <1>3, <2>1, <3>2, <3>3, <3>4
    <2> QED BY <1>14, <2>2, <2>3 DEF FinalAnswer
  <1>15. CASE ToolAnswer(a)
    <2>1. PICK calls \in (IF a = "main" THEN Batches ELSE SubBatches) :
            Now(a, [loop EXCEPT !.pc = "tools", !.calls = calls, !.at = 1, !.ran = 0,
                                !.approved = FALSE,
                                !.retry = @ /\ \A i \in 1 .. Len(calls) : RetrySafe(calls[i])])
      BY <1>15 DEF ToolAnswer
    <2> DEFINE safe == loop.retry /\ \A i \in 1 .. Len(calls) : RetrySafe(calls[i])
               next == [loop EXCEPT !.pc = "tools", !.calls = calls, !.at = 1, !.ran = 0,
                                    !.approved = FALSE, !.retry = safe]
    <2>2. /\ Now(a, next) /\ loop.pc = "calling" /\ Fixed /\ UNCHANGED cancelled
          /\ used' = used + 1 /\ used' <= MaxTokens /\ used' \in Nat
      BY <1>0, <1>15, <2>1 DEF ToolAnswer, Answered
    <2>3. calls \in Seq(Kinds)
      BY <1>0 DEF AgentConstants
    <2>4. /\ safe \in BOOLEAN /\ (loop.acted => ~safe)
          /\ (safe => \A i \in 1 .. Len(calls) : calls[i] = "read")
      BY <1>0, <1>4 DEF LoopSafe, RetrySafe
    <2> HIDE DEF safe
    <2>5. /\ next \in LoopState /\ next.pc = "tools" /\ next.calls = calls /\ next.at = 1
          /\ next.ran = 0 /\ next.retry = safe /\ next.acted = loop.acted
      <3>1. "tools" \in LoopPCs /\ 0 \in 0 .. Retries + 1 /\ 1 \in Nat /\ FALSE \in BOOLEAN
        BY <1>4 DEF LoopPCs
      <3>2. next \in LoopState
        BY <1>0, <2>3, <2>4, <3>1 DEF LoopState
      <3>3. /\ next.pc = "tools" /\ next.calls = calls /\ next.at = 1
            /\ next.ran = 0 /\ next.retry = safe /\ next.acted = loop.acted
        BY <1>0 DEF LoopState
      <3> QED BY <3>2, <3>3
    <2> HIDE DEF next
    <2>6. LoopSafe(next)
      BY <2>4, <2>5 DEF LoopSafe, InCallPCs
    <2> QED BY <1>2, <1>3, <2>2, <2>5, <2>6
  <1>16. CASE RepairAnswer(a)
    <2>1. /\ loop.pc = "calling" /\ loop.repairing > 0 /\ Fixed /\ UNCHANGED cancelled
          /\ used + loop.repairing \in Nat /\ used < used + loop.repairing
          /\ used + loop.repairing <= used + Worst
      BY <1>0, <1>4, <1>16 DEF RepairAnswer, Worst
    <2>2. CASE \/ EndsWith(a, "completed", used + loop.repairing)
               \/ EndsWith(a, "failed", used + loop.repairing)
      <3> DEFINE charged == used + loop.repairing
      <3>1. /\ charged \in Nat /\ used < charged /\ charged <= used + Worst
            /\ EndsWith(a, "completed", charged) \/ EndsWith(a, "failed", charged)
        BY <2>1, <2>2
      <3> HIDE DEF charged
      <3>2. used <= charged /\ charged > used
        BY <1>0, <3>1
      <3> QED BY <1>3, <1>10, <2>1, <3>1, <3>2
    <2>3. CASE Ends(a, "truncated") /\ used' = used + loop.repairing
      <3>1. used' \in Nat /\ used' <= used + Worst
        BY <2>1, <2>3
      <3> QED BY <1>1, <1>3, <2>1, <2>3, <3>1 DEF Ended
    <2>4. CASE /\ loop.repairing < Repairs /\ used' = used
               /\ Now(a, [loop EXCEPT !.pc = "gate", !.repairing = @ + 1, !.tries = 0,
                                       !.model = 1])
      <3> DEFINE next == [loop EXCEPT !.pc = "gate", !.repairing = @ + 1, !.tries = 0,
                                      !.model = 1]
      <3>1. loop.repairing + 1 \in 0 .. Repairs
        BY <1>0, <1>4, <2>4
      <3>2. /\ next \in LoopState /\ next.pc = "gate" /\ next.tries = 0
            /\ next.retry = loop.retry /\ next.acted = loop.acted
        BY <1>0, <1>4, <3>1 DEF LoopState, LoopPCs
      <3>3. Now(a, next) /\ used' = used
        BY <2>4
      <3> HIDE DEF next
      <3>4. LoopSafe(next)
        BY <1>0, <1>3, <3>2, CallSafe
      <3> QED BY <1>0, <1>2, <1>3, <2>1, <3>2, <3>3, <3>4
    <2> QED BY <1>16, <2>2, <2>3, <2>4 DEF RepairAnswer
  <1> QED BY <1>5, <1>6, <1>7, <1>8, <1>9, <1>11, <1>12, <1>13, <1>14, <1>15, <1>16 DEF CallStep

\* The calls of a batch, the suspension for an approval and the resume.
LEMMA ToolsKeep ==
    ASSUME AgentInv, NEW a \in Agents, ToolStep(a) \/ (a = "main" /\ Resume) PROVE AgentInv'
  <1> DEFINE loop == agent[a]
  <1>0. /\ AgentConstants /\ loop \in LoopState /\ LoopSafe(loop) /\ used \in Nat
        /\ MaxTokens \in Nat /\ Worst \in Nat /\ (a # "main" => a \in Subs) /\ Retries \in Nat
    BY DEF AgentInv, AgentConstants, Agents, Worst
  <1>1. ASSUME NEW next \in LoopState, Now(a, next), LoopSafe(next), Fixed,
               UNCHANGED <<used, cancelled>>,
               loop.pc = "tools" \/ (a = "main" /\ loop.pc = "suspended"),
               next.pc \in {"tools", "suspended", "top", "truncated"}
        PROVE  AgentInv'
    <2>1. Charges(a, next) /\ TakesSlot(a, next) /\ used' \in Nat
      BY <1>0, <1>1 DEF Charges, TakesSlot, InCallPCs
    <2>2. /\ loop.pc # "group" /\ (a \in Subs => loop.pc \notin Idling \cup SubEnded)
          /\ next.pc \notin Idling \cup {"queued", "completed"}
      BY <1>0, <1>1 DEF Idling, Ended, SubEnded, AgentConstants
    <2> QED BY <1>1, <2>1, <2>2, LoopMovesSafely
  <1>2. /\ loop.pc \in LoopPCs /\ loop.calls \in Seq(Kinds) /\ Len(loop.calls) \in Nat
        /\ loop.at \in Nat /\ loop.ran \in 0 .. Retries + 1 /\ 0 \in 0 .. Retries + 1
        /\ loop.acted \in BOOLEAN /\ loop.retry \in BOOLEAN /\ loop.approved \in BOOLEAN
        /\ loop.at + 1 \in Nat
    <2>1. loop \in LoopState /\ Retries \in Nat
      BY <1>0
    <2> HIDE DEF loop
    <2>2. /\ loop.pc \in LoopPCs /\ loop.calls \in Seq(Kinds) /\ loop.at \in Nat
          /\ loop.ran \in 0 .. Retries + 1
          /\ loop.acted \in BOOLEAN /\ loop.retry \in BOOLEAN /\ loop.approved \in BOOLEAN
      BY <2>1 DEF LoopState
    <2>3. Len(loop.calls) \in Nat
      BY <2>2, LenProperties
    <2>4. 0 \in 0 .. Retries + 1 /\ loop.at + 1 \in Nat
      BY <2>1, <2>2
    <2> QED BY <2>2, <2>3, <2>4
  <1>3. \* A call that runs is one of the batch, and acts unless it may be retried.
        ASSUME MayRun(a)
        PROVE  /\ loop.pc = "tools" /\ loop.at \in 1 .. Len(loop.calls)
               /\ (loop.acted \/ ~RetrySafe(Current(a))) \in BOOLEAN
               /\ loop.acted \/ ~RetrySafe(Current(a)) => ~loop.retry
    <2>1. loop.pc = "tools" /\ loop.at <= Len(loop.calls)
      BY <1>3 DEF MayRun, HasCall
    <2>2. loop.at > 0 /\ (loop.retry => \A i \in 1 .. Len(loop.calls) : loop.calls[i] = "read")
      BY <1>0, <2>1 DEF LoopSafe
    <2>3. loop.at \in 1 .. Len(loop.calls)
      BY <1>2, <2>1, <2>2
    <2> QED BY <1>0, <2>1, <2>2, <2>3 DEF LoopSafe, RetrySafe, Current
  <1>4. CASE Suspend(a)
    <2> DEFINE next == [loop EXCEPT !.pc = "suspended"]
    <2>1. Now(a, next) /\ loop.pc = "tools" /\ Fixed /\ UNCHANGED <<used, cancelled>>
      BY <1>4 DEF Suspend, HasCall, Goes
    <2>2. next \in LoopState /\ next.pc = "suspended"
      BY <1>0 DEF LoopState, LoopPCs
    <2>3. LoopSafe(next)
      BY <1>0, <2>1 DEF LoopSafe, InCallPCs, LoopState
    <2> HIDE DEF next
    <2> QED BY <1>1, <2>1, <2>2, <2>3
  <1>5. CASE a = "main" /\ Resume
    <2> DEFINE next == [loop EXCEPT !.pc = "tools", !.approved = TRUE]
    <2>1. Now(a, next) /\ loop.pc = "suspended" /\ Fixed /\ UNCHANGED <<used, cancelled>>
      BY <1>5 DEF Resume
    <2>2. next \in LoopState /\ next.pc = "tools"
      BY <1>0 DEF LoopState, LoopPCs
    <2>3. LoopSafe(next)
      BY <1>0, <2>1 DEF LoopSafe, InCallPCs, LoopState
    <2> HIDE DEF next
    <2> QED BY <1>1, <1>5, <2>1, <2>2, <2>3
  <1>6. CASE RunTool(a)
    <2> DEFINE acts == loop.acted \/ ~RetrySafe(Current(a))
               next == [loop EXCEPT !.at = loop.at + 1, !.ran = 0, !.approved = FALSE,
                                    !.acted = acts]
    <2>1. MayRun(a) /\ Fixed /\ UNCHANGED <<used, cancelled>>
      BY <1>6 DEF RunTool
    <2>2. NextCall(Invoked(a)) = next
      BY <1>0 DEF NextCall, Invoked, LoopState
    <2>3. Now(a, next)
      BY <1>6, <2>2 DEF RunTool
    <2>4. /\ loop.pc = "tools" /\ loop.at \in 1 .. Len(loop.calls)
          /\ acts \in BOOLEAN /\ (acts => ~loop.retry)
      BY <1>3, <2>1
    <2> HIDE DEF acts
    <2>5. /\ next \in LoopState /\ next.pc = "tools" /\ next.ran = 0 /\ next.acted = acts
          /\ next.retry = loop.retry /\ next.calls = loop.calls /\ next.at = loop.at + 1
      BY <1>0, <1>2, <2>4 DEF LoopState
    <2> HIDE DEF next
    <2>6. LoopSafe(next)
      BY <1>0, <1>2, <2>4, <2>5 DEF LoopSafe, InCallPCs
    <2> QED BY <1>1, <2>1, <2>3, <2>4, <2>5, <2>6
  <1>7. CASE ToolFails(a)
    <2> DEFINE acts == loop.acted \/ ~RetrySafe(Current(a))
               next == [loop EXCEPT !.ran = loop.ran + 1, !.acted = acts]
    <2>1. /\ MayRun(a) /\ Fixed /\ UNCHANGED <<used, cancelled>>
          /\ loop.calls[loop.at] = "read" /\ loop.ran < Retries
      BY <1>7 DEF ToolFails, RetrySafe, Current
    <2>2. Now(a, next)
      BY <1>7 DEF ToolFails, Invoked
    <2>3. /\ loop.pc = "tools" /\ loop.at \in 1 .. Len(loop.calls)
          /\ acts \in BOOLEAN /\ (acts => ~loop.retry)
      BY <1>3, <2>1
    <2>4. loop.ran + 1 \in 0 .. Retries + 1
      BY <1>0, <1>2, <2>1
    <2> HIDE DEF acts
    <2>5. /\ next \in LoopState /\ next.pc = "tools" /\ next.acted = acts
          /\ next.retry = loop.retry /\ next.calls = loop.calls /\ next.at = loop.at
      BY <1>0, <1>2, <2>3, <2>4 DEF LoopState
    <2> HIDE DEF next
    <2>6. LoopSafe(next)
      BY <1>0, <1>2, <2>1, <2>3, <2>5 DEF LoopSafe, InCallPCs
    <2> QED BY <1>1, <2>1, <2>2, <2>3, <2>5, <2>6
  <1>8. CASE EndBatch(a)
    <2>1. loop.pc = "tools" /\ Fixed /\ UNCHANGED <<used, cancelled>>
      BY <1>8 DEF EndBatch
    <2>2. CASE Ends(a, "truncated")
      <3>1. /\ Fresh("truncated") \in LoopState /\ LoopSafe(Fresh("truncated"))
            /\ Fresh("truncated").pc = "truncated"
        BY <1>0, FreshLoops DEF Ended
      <3> QED BY <1>1, <2>1, <2>2, <3>1 DEF Ends
    <2>3. CASE Now(a, [loop EXCEPT !.pc = "top", !.calls = <<>>, !.at = 1])
      <3> DEFINE next == [loop EXCEPT !.pc = "top", !.calls = <<>>, !.at = 1]
      <3>1. <<>> \in Seq(Kinds) /\ 1 \in Nat /\ "top" \in LoopPCs
        BY DEF LoopPCs
      <3>2. /\ next \in LoopState /\ next.pc = "top" /\ next.acted = loop.acted
            /\ next.retry = loop.retry
        BY <1>0, <3>1 DEF LoopState
      <3>3. Now(a, next)
        BY <2>3
      <3> HIDE DEF next
      <3>4. LoopSafe(next)
        BY <1>0, <3>2 DEF LoopSafe, InCallPCs
      <3> QED BY <1>1, <2>1, <3>2, <3>3, <3>4
    <2> QED BY <1>8, <2>2, <2>3 DEF EndBatch
  <1> QED BY <1>4, <1>5, <1>6, <1>7, <1>8 DEF ToolStep

\* A sub-agent takes a slot of its group, or is cancelled before it does.
LEMMA SubsKeep == ASSUME AgentInv, NEW a \in Subs, BeginSub(a) PROVE AgentInv'
  <1> DEFINE loop == agent[a]
  <1>0. /\ AgentConstants /\ a \in Agents /\ loop \in LoopState /\ LoopSafe(loop)
        /\ used \in Nat /\ a # "main"
    BY DEF AgentInv, AgentConstants, Agents
  <1>1. loop.pc = "queued" /\ Fixed /\ UNCHANGED <<used, cancelled>>
    BY DEF BeginSub
  <1>2. loop.pc # "group" /\ loop.pc \notin Idling \cup SubEnded
    BY <1>1 DEF Idling, SubEnded, Ended
  <1>3. CASE Ends(a, "failed")
    <2>1. /\ Fresh("failed") \in LoopState /\ LoopSafe(Fresh("failed"))
          /\ Fresh("failed").pc = "failed"
      BY <1>0, FreshLoops DEF Ended
    <2>2. Charges(a, Fresh("failed")) /\ TakesSlot(a, Fresh("failed"))
      BY <1>1, <2>1 DEF Charges, TakesSlot, InCallPCs, SubEnded, Ended
    <2>3. "failed" \notin Idling \cup {"queued"}
      BY DEF Idling
    <2> QED BY <1>0, <1>1, <1>2, <1>3, <2>1, <2>2, <2>3, LoopMovesSafely DEF Ends
  <1>4. CASE Cardinality(RunningSubs) < parallel /\ Goes(a, "top")
    <2> DEFINE next == [loop EXCEPT !.pc = "top"]
    <2>1. /\ next \in LoopState /\ next.pc = "top" /\ next.acted = loop.acted
          /\ next.retry = loop.retry
      BY <1>0 DEF LoopState, LoopPCs
    <2>2. Now(a, next)
      BY <1>4 DEF Goes
    <2> HIDE DEF next
    <2>3. LoopSafe(next)
      BY <1>0, <2>1 DEF LoopSafe, InCallPCs
    <2>4. Charges(a, next) /\ TakesSlot(a, next)
      BY <1>1, <1>4, <2>1 DEF Charges, TakesSlot, InCallPCs
    <2>5. next.pc \notin Idling \cup {"queued"}
      BY <2>1 DEF Idling
    <2> QED BY <1>0, <1>1, <1>2, <2>1, <2>2, <2>3, <2>4, <2>5, LoopMovesSafely
  <1> QED BY <1>3, <1>4 DEF BeginSub

\* A group of sub calls has an end: the least index after which no sub call follows.
LEMMA GroupsEnd ==
    ASSUME NEW loop, loop.calls \in Seq(Kinds), loop.at \in 1 .. Len(loop.calls),
           loop.calls[loop.at] = "sub"
    PROVE  GroupEnd(loop) \in loop.at .. Len(loop.calls)
  <1> DEFINE last == Len(loop.calls)
             ends == {n \in loop.at .. last : n = last \/ loop.calls[n + 1] # "sub"}
  <1>1. last \in Nat /\ loop.at \in Nat /\ last \in ends /\ ends \subseteq Nat
    OBVIOUS
  <1>2. PICK n \in ends : \A m \in ends : n <= m
    BY <1>1, LeastNatural
  <1>3. ASSUME NEW i \in loop.at .. n, i # loop.at PROVE loop.calls[i] = "sub"
    <2>1. i - 1 \in loop.at .. last /\ i - 1 < n /\ i - 1 # last /\ (i - 1) + 1 = i
      BY <1>1, <1>2, <1>3
    <2>2. i - 1 \notin ends
      BY <1>1, <1>2, <2>1
    <2> QED BY <2>1, <2>2
  <1>4. /\ n \in loop.at .. last /\ \A i \in loop.at .. n : loop.calls[i] = "sub"
        /\ n = last \/ loop.calls[n + 1] # "sub"
    BY <1>2, <1>3
  <1> QED BY <1>4 DEF GroupEnd

\* A group starts, is cancelled, and is joined.
LEMMA GroupsKeep == ASSUME AgentInv, GroupStep PROVE AgentInv'
  <1> DEFINE loop == agent["main"]
  <1>0. /\ AgentConstants /\ agent \in [Agents -> LoopState] /\ used \in Nat
        /\ "main" \in Agents /\ "main" \notin Subs /\ Subs \subseteq Agents
        /\ (\A a \in Agents : a # "main" => a \in Subs)
        /\ MaxParallel \in Nat /\ MaxTokens \in Nat /\ Worst \in Nat
        /\ parallel \in 1 .. MaxParallel /\ loop \in LoopState /\ LoopSafe(loop)
    BY DEF AgentInv, AgentConstants, Agents, Worst
  <1>1. \* No agent calls a provider when a group starts or is joined.
        ASSUME NEW next, agent' = next, next \in [Agents -> LoopState],
               \A a \in Agents : LoopSafe(next[a]) /\ next[a].pc \notin InCallPCs,
               GroupOfMain', RunningSubs' = {}, next["main"].pc # "completed",
               Fixed, used' = used, cancelled' \in BOOLEAN
        PROVE  AgentInv'
    <2>1. InCall' = {}
      BY <1>1 DEF InCall
    <2>2. Cardinality(InCall') = 0 /\ Cardinality(RunningSubs') = 0
      BY <1>1, <2>1, FS_EmptySet
    <2>3. SlotsHeld'
      BY <1>0, <1>1, <2>2 DEF SlotsHeld, Fixed
    <2>4. used <= MaxTokens + MaxParallel * Worst
      <3> DEFINE n == Cardinality(InCall) * Worst
                 most == MaxParallel * Worst
      <3>1. n \in Nat /\ most \in Nat /\ (used <= MaxTokens \/ used + n <= MaxTokens + most)
        BY <1>0, AgentsAreFinite DEF AgentInv, Spending
      <3> HIDE DEF n
      <3> QED BY <1>0, <3>1
    <2>5. 0 * Worst = 0 /\ Worst' = Worst
      BY <1>0 DEF Worst
    <2>6. Spending'
      <3>1. used' + Cardinality(InCall') * Worst <= MaxTokens + MaxParallel * Worst
        BY <1>0, <1>1, <2>2, <2>4, <2>5
      <3> QED BY <1>1, <2>5, <3>1 DEF Spending
    <2> QED BY <1>0, <1>1, <2>3, <2>6 DEF AgentInv, Fixed
  <1>2. CASE StartGroup
    <2>1. /\ loop.pc = "tools" /\ loop.at <= Len(loop.calls) /\ loop.calls[loop.at] = "sub"
          /\ cancelled' = FALSE /\ Fixed /\ used' = used
      BY <1>2 DEF StartGroup, HasCall, Current
    <2>2. PICK group \in SUBSET Subs :
            agent' = [a \in Agents |->
              IF a = "main" THEN [loop EXCEPT !.pc = "group", !.acted = TRUE]
              ELSE IF a \in group THEN Fresh("queued") ELSE agent[a]]
      BY <1>2 DEF StartGroup
    <2> DEFINE waiting == [loop EXCEPT !.pc = "group", !.acted = TRUE]
    <2>3. /\ waiting \in LoopState /\ waiting.pc = "group" /\ waiting.acted
          /\ waiting.retry = loop.retry /\ waiting.calls = loop.calls /\ waiting.at = loop.at
      BY <1>0 DEF LoopState, LoopPCs
    <2>4. ~loop.retry
      <3>1. loop.at \in 1 .. Len(loop.calls)
        BY <1>0, <2>1 DEF LoopSafe, LoopState
      <3> QED BY <1>0, <2>1, <3>1 DEF LoopSafe
    <2> HIDE DEF waiting
    <2>5. LoopSafe(waiting)
      BY <1>0, <2>1, <2>3, <2>4 DEF LoopSafe, InCallPCs
    <2>6. /\ Fresh("queued") \in LoopState /\ LoopSafe(Fresh("queued"))
          /\ Fresh("queued").pc = "queued"
      BY <1>0, FreshLoops
    <2>7. /\ agent' \in [Agents -> LoopState] /\ agent'["main"] = waiting
          /\ \A a \in Subs : agent'[a] = Fresh("queued") \/ agent'[a] = agent[a]
      BY <1>0, <2>2, <2>3, <2>6 DEF waiting
    <2>8. \A a \in Subs : agent[a].pc = "idle"
      BY <2>1 DEF AgentInv, GroupOfMain
    <2>9. \A a \in Subs : agent'[a].pc \in {"queued", "idle"}
      BY <2>6, <2>7, <2>8
    <2>10. \A a \in Agents : LoopSafe(agent'[a]) /\ agent'[a].pc \notin InCallPCs
      <3>1. \A a \in Agents : LoopSafe(agent[a])
        BY DEF AgentInv
      <3> QED BY <1>0, <2>3, <2>5, <2>6, <2>7, <2>9, <3>1 DEF InCallPCs
    <2>11. GroupOfMain'
      BY <2>3, <2>7, <2>9 DEF GroupOfMain
    <2>12. RunningSubs' = {}
      BY <2>9 DEF RunningSubs, Group
    <2> QED BY <1>1, <2>1, <2>3, <2>7, <2>10, <2>11, <2>12
  <1>3. CASE CancelGroup
    <2>1. UNCHANGED <<agent, used, parallel, partialOK, schema>> /\ cancelled' = TRUE
      BY <1>3 DEF CancelGroup, Fixed
    <2> QED BY <2>1 DEF AgentInv, GroupOfMain, SlotsHeld, RunningSubs, Group, Spending, InCall,
                        Worst
  <1>4. CASE JoinGroup
    <2> DEFINE next == IF ~(~partialOK /\ \E a \in Group : agent[a].pc # "completed")
                       THEN [NextCall(loop) EXCEPT !.pc = "tools", !.at = GroupEnd(loop) + 1]
                       ELSE Fresh(IF Exceeded THEN "truncated" ELSE "failed")
    <2>1. /\ loop.pc = "group" /\ Fixed /\ UNCHANGED <<used, cancelled>>
          /\ agent' = [a \in Agents |-> IF a # "main" THEN Fresh("idle") ELSE next]
      BY <1>4 DEF JoinGroup
    <2>2. /\ Fresh("idle") \in LoopState /\ LoopSafe(Fresh("idle")) /\ Fresh("idle").pc = "idle"
          /\ Fresh("truncated") \in LoopState /\ LoopSafe(Fresh("truncated"))
          /\ Fresh("truncated").pc = "truncated"
          /\ Fresh("failed") \in LoopState /\ LoopSafe(Fresh("failed"))
          /\ Fresh("failed").pc = "failed"
      BY <1>0, FreshLoops DEF Ended
    <2>3. next \in LoopState /\ LoopSafe(next) /\ next.pc \in {"tools", "truncated", "failed"}
      <3> DEFINE end == GroupEnd(loop)
                 after == [loop EXCEPT !.at = end + 1, !.ran = 0, !.approved = FALSE,
                                       !.pc = "tools"]
      <3>1. loop.calls \in Seq(Kinds) /\ loop.at \in 1 .. Len(loop.calls)
            /\ loop.calls[loop.at] = "sub"
        BY <1>0, <2>1 DEF LoopSafe, LoopState
      <3>2. end \in Nat
        BY <3>1, GroupsEnd
      <3> HIDE DEF end
      <3>3. [NextCall(loop) EXCEPT !.pc = "tools", !.at = end + 1] = after
        BY <1>0 DEF NextCall, LoopState
      <3>4. end + 1 \in Nat /\ "tools" \in LoopPCs /\ 0 \in 0 .. Retries + 1
        BY <1>0, <3>2 DEF LoopPCs, AgentConstants
      <3>5. /\ after \in LoopState /\ after.pc = "tools" /\ after.ran = 0 /\ after.at = end + 1
            /\ after.acted = loop.acted /\ after.retry = loop.retry
            /\ after.calls = loop.calls
        BY <1>0, <3>4 DEF LoopState
      <3>6. next = after \/ next = Fresh("truncated") \/ next = Fresh("failed")
        BY <3>3 DEF end
      <3> HIDE DEF after, next
      <3>7. LoopSafe(after)
        BY <1>0, <2>1, <3>2, <3>5 DEF LoopSafe, InCallPCs
      <3> QED BY <2>2, <3>5, <3>6, <3>7
    <2> HIDE DEF next
    <2>4. /\ agent' \in [Agents -> LoopState] /\ agent'["main"] = next
          /\ \A a \in Subs : agent'[a] = Fresh("idle")
      BY <1>0, <2>1, <2>2, <2>3
    <2>5. \A a \in Agents : LoopSafe(agent'[a]) /\ agent'[a].pc \notin InCallPCs
      BY <1>0, <2>2, <2>3, <2>4 DEF InCallPCs
    <2>6. GroupOfMain' /\ RunningSubs' = {}
      BY <2>2, <2>4 DEF GroupOfMain, RunningSubs, Group
    <2>7. cancelled' \in BOOLEAN
      BY <2>1 DEF AgentInv
    <2> QED BY <1>1, <2>1, <2>3, <2>4, <2>5, <2>6, <2>7
  <1> QED BY <1>2, <1>3, <1>4 DEF GroupStep

\* Every step of the agents keeps the invariant, so it holds of every reachable state.
LEMMA AgentInvariance == ASSUME AgentConstants PROVE AgentSafety => []AgentInv
  <1>1. ASSUME AgentInit PROVE AgentInv
    <2>1. /\ Fresh("idle") \in LoopState /\ LoopSafe(Fresh("idle")) /\ Fresh("idle").pc = "idle"
          /\ Fresh("top") \in LoopState /\ LoopSafe(Fresh("top")) /\ Fresh("top").pc = "top"
      BY FreshLoops
    <2>2. /\ agent \in [Agents -> LoopState] /\ "main" \notin Subs /\ "main" \in Agents
          /\ agent["main"] = Fresh("top") /\ \A a \in Subs : agent[a] = Fresh("idle")
          /\ Agents = {"main"} \cup Subs
      BY <1>1, <2>1 DEF AgentInit, AgentConstants, Agents
    <2>3. /\ used = 0 /\ parallel \in 1 .. MaxParallel /\ MaxTokens \in Nat
          /\ MaxParallel \in Nat
          /\ partialOK \in BOOLEAN /\ schema \in BOOLEAN /\ cancelled \in BOOLEAN
      BY <1>1 DEF AgentInit, AgentConstants
    <2>4. \A a \in Agents : LoopSafe(agent[a])
      BY <2>1, <2>2
    <2>5. RunningSubs = {} /\ GroupOfMain
      BY <2>1, <2>2 DEF RunningSubs, Group, GroupOfMain
    <2>6. SlotsHeld
      BY <2>3, <2>5, FS_EmptySet DEF SlotsHeld
    <2>7. Spending
      BY <2>3 DEF Spending
    <2> QED BY <2>2, <2>3, <2>4, <2>5, <2>6, <2>7 DEF AgentInv
  <1>2. ASSUME AgentInv, [AgentNext]_agentVars PROVE AgentInv'
    <2>1. CASE AgentNext
      <3>1. "main" \in Agents
        BY DEF Agents
      <3> QED BY <1>2, <2>1, <3>1, CallsKeep, ToolsKeep, SubsKeep, GroupsKeep DEF AgentNext
    <2>2. CASE UNCHANGED agentVars
      BY <1>2, <2>2 DEF agentVars, AgentInv, GroupOfMain, SlotsHeld, RunningSubs, Group,
                        Spending, InCall, Worst
    <2> QED BY <1>2, <2>1, <2>2
  <1> QED BY <1>1, <1>2, PTL DEF AgentSafety

\* The variables of the agents keep their types, for any number of sub-agents and batches.
THEOREM AgentTyped == ASSUME AgentConstants PROVE AgentSafety => []AgentTypeOK
  <1>1. AgentInv => AgentTypeOK
    BY DEF AgentInv, AgentTypeOK, LoopState
  <1> QED BY <1>1, AgentInvariance, PTL

\* However the sub-agents interleave, what they spend beyond the budget is bounded by the
\* calls that were under way, and a run that spent more than the budget does not complete.
THEOREM BudgetIsShared == ASSUME AgentConstants PROVE AgentSafety => []BudgetHeld
  <1>1. ASSUME AgentInv PROVE BudgetHeld
    <2> DEFINE n == Cardinality(InCall) * Worst
               most == MaxParallel * Worst
    <2>1. /\ used \in Nat /\ MaxTokens \in Nat /\ n \in Nat /\ most \in Nat
          /\ used <= MaxTokens \/ used + n <= MaxTokens + most
          /\ agent["main"].pc = "completed" => used <= MaxTokens
      <3>1. Worst \in Nat /\ MaxParallel \in Nat /\ AgentConstants
        BY <1>1 DEF AgentInv, AgentConstants, Worst
      <3> QED BY <1>1, <3>1, AgentsAreFinite DEF AgentInv, AgentConstants, Spending
    <2> HIDE DEF n
    <2>2. used <= MaxTokens + most
      BY <2>1
    <2> QED BY <2>1, <2>2 DEF BudgetHeld, Worst
  <1> QED BY <1>1, AgentInvariance, PTL

\* No retry of a provider call follows a tool that acted, and the body of such a tool runs
\* once in a batch, suspended or not.
THEOREM EffectsAreNotRepeated == ASSUME AgentConstants PROVE AgentSafety => []EffectsNotRepeated
  <1>1. ASSUME AgentInv, NEW a \in Agents
        PROVE  /\ agent[a].acted /\ agent[a].repairing = 0
                  /\ agent[a].pc \in {"gate", "calling"} => agent[a].tries = 0
               /\ agent[a].pc = "tools" /\ agent[a].at <= Len(agent[a].calls)
                  /\ agent[a].ran > 0 => RetrySafe(Current(a))
    <2>1. LoopSafe(agent[a])
      BY <1>1 DEF AgentInv
    <2> QED BY <2>1 DEF LoopSafe, InCallPCs, RetrySafe, Current
  <1>2. AgentInv => EffectsNotRepeated
    BY <1>1 DEF EffectsNotRepeated
  <1> QED BY <1>2, AgentInvariance, PTL
----------------------------------------------------------------------------
(* The steps of a plan and their checkpoints (PlanSteps).                  *)

RunState == [pc : {"stepping", "composing", "saving", "resuming", "parked", "completed",
                   "failed"},
             step : 1 .. Steps + 1]
BranchStates == {"none", "waiting", "running", "ok"} \cup Errors

\* The loop is where its checkpoints say: one for each step before it.
LoopFollowsCheckpoints ==
    /\ checkpoints = 1 .. run.step - 1
    /\ run.pc \in {"composing", "saving", "resuming", "parked"} => run.step <= Steps

\* A Pipe waits for its approval as branch 0 of its step; a composed step runs
\* branches only while it composes.
StepsByKind ==
    /\ run.pc \in {"resuming", "parked"} /\ parked.branch = 0 => plan[run.step] = "pipe"
    /\ run.pc = "composing" => plan[run.step] # "pipe"
    /\ run.pc # "composing" => branch = NoBranches
    /\ run.pc \in {"resuming", "parked"} => parked.step \in StepNumbers

\* What a step owes before its checkpoint.
Whole(s) == plan[s] # "partial" => PipesOf(s) \subseteq ran
StepsRanWhole ==
    /\ \A s \in checkpoints : Whole(s)
    /\ run.pc = "saving" => Whole(run.step)
    /\ run.pc = "composing" =>
          \A b \in BranchNumbers : branch[b] = "ok" => <<run.step, b>> \in ran

SlotsRespected == Cardinality(RunningBranches) <= Concurrency

PlanInv ==
    /\ PlanTypeOK
    /\ LoopFollowsCheckpoints
    /\ StepsByKind
    /\ StepsRanWhole
    /\ SlotsRespected

\* Branches are few enough to count.
LEMMA BranchesFinite == ASSUME PlanConstants PROVE IsFiniteSet(RunningBranches)
  <1>1. IsFiniteSet(BranchNumbers)
    BY FS_Interval DEF PlanConstants, BranchNumbers
  <1> QED BY <1>1, FS_Subset DEF RunningBranches

\* The first of the errors of a composed step, in the order of its branches.
LEMMA FirstError ==
    ASSUME NEW errors, errors \subseteq BranchNumbers, errors # {}
    PROVE  (CHOOSE b \in errors : \A c \in errors : b <= c) \in errors
  <1>1. errors \subseteq Nat
    BY DEF BranchNumbers
  <1>2. \E b \in errors : \A c \in errors : b <= c
    BY <1>1, LeastNatural
  <1> QED BY <1>2

\* The invariant holds before the first step.
LEMMA PlanBegins == ASSUME PlanConstants PROVE PlanInit => PlanInv
  <1> SUFFICES ASSUME PlanInit PROVE PlanInv
    OBVIOUS
  <1>0. Steps \in Nat \ {0} /\ Branches \in Nat \ {0} /\ Concurrency \in Nat \ {0}
        /\ MaxResumes \in Nat
    BY DEF PlanConstants
  <1>00. 1 \in 1 .. Steps + 1 /\ 0 \in 0 .. Steps /\ 0 \in 0 .. Branches /\ 0 \in 0 .. MaxResumes
    BY <1>0
  <1>1. PlanTypeOK
    BY <1>00 DEF PlanInit, PlanTypeOK, NoBranches, Nothing
  <1>2. LoopFollowsCheckpoints
    BY <1>0 DEF PlanInit, LoopFollowsCheckpoints
  <1>3. StepsByKind /\ StepsRanWhole
    BY DEF PlanInit, StepsByKind, StepsRanWhole
  <1>4. RunningBranches = {}
    BY DEF PlanInit, NoBranches, RunningBranches
  <1>5. SlotsRespected
    BY <1>0, <1>4, FS_EmptySet DEF SlotsRespected
  <1> QED BY <1>1, <1>2, <1>3, <1>5 DEF PlanInv

\* What the step loop does to where it is.
LEMMA LoopMoves ==
    ASSUME PlanTypeOK, NEW pc, StepsGo(pc),
           pc \in {"stepping", "composing", "saving", "resuming", "parked", "completed", "failed"}
    PROVE  run' \in RunState /\ run'.pc = pc /\ run'.step = run.step
  BY DEF PlanTypeOK, StepsGo, RunState

\* A step of the loop that runs no branch.
LEMMA StepKeeps ==
    ASSUME PlanConstants, PlanInv,
           AllStepsDone \/ PipeEnds \/ SaveCheckpoint \/ ResumeParked \/ ResumedBranchEnds
    PROVE  PlanInv'
  <1>0. /\ Steps \in Nat \ {0} /\ Branches \in Nat \ {0} /\ MaxResumes \in Nat
        /\ PlanTypeOK /\ run \in RunState /\ run.step \in 1 .. Steps + 1
        /\ resumes \in 0 .. MaxResumes /\ ran \subseteq (StepNumbers \X (0 .. Branches))
        /\ parked \in [step : 0 .. Steps, branch : 0 .. Branches]
        /\ branch = NoBranches /\ UNCHANGED <<plan, branch, groupDone>>
    <2>1. run.pc # "composing"
      BY DEF AllStepsDone, PipeEnds, SaveCheckpoint, ResumeParked, ResumedBranchEnds
    <2>2. UNCHANGED <<plan, branch, groupDone>>
      BY DEF AllStepsDone, PipeEnds, SaveCheckpoint, ResumeParked, ResumedBranchEnds
    <2> QED BY <2>1, <2>2 DEF PlanConstants, PlanInv, PlanTypeOK, RunState, StepsByKind
  \* Neither the slots nor the branches change.
  <1>1. SlotsRespected'
    <2>1. RunningBranches' = RunningBranches
      BY <1>0 DEF RunningBranches
    <2> QED BY <2>1 DEF PlanInv, SlotsRespected
  \* What the steps that save nothing have in common.
  <1>2. ASSUME UNCHANGED checkpoints, resumes' \in 0 .. MaxResumes,
               NEW pc \in {"saving", "resuming", "parked", "completed", "failed"}, StepsGo(pc),
               pc \in {"saving", "resuming", "parked"} => run.step <= Steps,
               parked' \in [step : 0 .. Steps, branch : 0 .. Branches],
               pc \in {"resuming", "parked"} => parked'.step \in StepNumbers,
               pc \in {"resuming", "parked"} /\ parked'.branch = 0 => plan[run.step] = "pipe",
               ran \subseteq ran', ran' \subseteq (StepNumbers \X (0 .. Branches)),
               pc = "saving" => PipesOf(run.step) \subseteq ran'
        PROVE  PlanInv'
    <2>1. run' \in RunState /\ run'.pc = pc /\ run'.step = run.step
      BY <1>0, <1>2, LoopMoves
    <2>2. PlanTypeOK'
      BY <1>0, <1>2, <2>1 DEF PlanTypeOK, RunState
    <2>3. LoopFollowsCheckpoints'
      BY <1>2, <2>1 DEF PlanInv, LoopFollowsCheckpoints
    <2>4. StepsByKind'
      BY <1>0, <1>2, <2>1 DEF StepsByKind, NoBranches, BranchNumbers
    <2>5. \A s : PipesOf(s)' = PipesOf(s)
      BY <1>0 DEF PipesOf
    <2>6. StepsRanWhole'
      BY <1>0, <1>2, <2>1, <2>5 DEF PlanInv, StepsRanWhole, Whole
    <2> QED BY <1>1, <2>2, <2>3, <2>4, <2>6 DEF PlanInv
  <1>3. CASE AllStepsDone
    BY <1>0, <1>2, <1>3 DEF AllStepsDone
  <1>4. Nothing \in [step : 0 .. Steps, branch : 0 .. Branches]
    BY <1>0 DEF Nothing
  <1>5. CASE PipeEnds
    <2>1. run.step <= Steps /\ plan[run.step] = "pipe" /\ run.step \in StepNumbers
      BY <1>0, <1>5 DEF PipeEnds, PlanInv, LoopFollowsCheckpoints, StepsByKind, StepNumbers
    <2>2. PipesOf(run.step) = {<<run.step, 0>>}
      BY <2>1 DEF PipesOf
    <2>3. CASE Ran(<<run.step, 0>>) /\ StepsGo("saving") /\ parked' = Nothing
      BY <1>0, <1>2, <1>4, <1>5, <2>1, <2>2, <2>3 DEF PipeEnds, Ran
    <2>4. CASE StepsGo("failed") /\ parked' = Nothing /\ UNCHANGED ran
      BY <1>0, <1>2, <1>4, <1>5, <2>4 DEF PipeEnds
    <2>5. CASE Parks(0) /\ UNCHANGED ran
      BY <1>0, <1>2, <1>5, <2>1, <2>5 DEF PipeEnds, Parks, StepNumbers
    <2> QED BY <1>5, <2>3, <2>4, <2>5 DEF PipeEnds
  <1>6. CASE SaveCheckpoint
    <2>1. UNCHANGED <<parked, ran, resumes>> /\ run.pc = "saving" /\ run.step <= Steps
      BY <1>6 DEF SaveCheckpoint, PlanInv, LoopFollowsCheckpoints
    <2>2. CASE checkpoints' = checkpoints \cup {run.step}
               /\ run' = [pc |-> "stepping", step |-> run.step + 1]
      <3>1. run' \in RunState /\ run'.pc = "stepping" /\ run'.step = run.step + 1
        BY <1>0, <2>1, <2>2 DEF RunState
      <3>2. checkpoints = 1 .. run.step - 1 /\ checkpoints' = 1 .. run'.step - 1
        BY <1>0, <2>2, <3>1 DEF PlanInv, LoopFollowsCheckpoints
      <3>3. PlanTypeOK'
        <4>1. run.step \in StepNumbers
          BY <1>0, <2>1 DEF StepNumbers
        <4>2. checkpoints' \subseteq StepNumbers
          BY <1>0, <2>2, <4>1 DEF PlanTypeOK
        <4> QED BY <1>0, <2>1, <3>1, <4>2 DEF PlanTypeOK, RunState
      <3>4. StepsByKind' /\ LoopFollowsCheckpoints'
        BY <1>0, <3>1, <3>2 DEF StepsByKind, LoopFollowsCheckpoints, NoBranches, BranchNumbers
      <3>5. \A s : Whole(s) => Whole(s)'
        BY <1>0, <2>1 DEF Whole, PipesOf
      <3>6. StepsRanWhole'
        BY <2>1, <2>2, <3>1, <3>5 DEF PlanInv, StepsRanWhole
      <3> QED BY <1>1, <3>3, <3>4, <3>6 DEF PlanInv
    <2>3. CASE StepsGo("failed") /\ UNCHANGED checkpoints
      BY <1>0, <1>2, <2>1, <2>3
    <2> QED BY <1>6, <2>2, <2>3 DEF SaveCheckpoint
  <1>7. CASE ResumeParked
    BY <1>0, <1>2, <1>7 DEF ResumeParked, PlanInv, LoopFollowsCheckpoints, StepsByKind
  <1>8. CASE ResumedBranchEnds
    <2>1. /\ run.pc = "resuming" /\ run.step <= Steps /\ UNCHANGED <<checkpoints, resumes>>
          /\ parked.step \in StepNumbers /\ parked.branch # 0
      BY <1>8 DEF ResumedBranchEnds, PlanInv, LoopFollowsCheckpoints, StepsByKind
    <2>2. <<parked.step, parked.branch>> \in StepNumbers \X (0 .. Branches)
      BY <1>0, <2>1
    <2> QED BY <1>0, <1>2, <1>4, <1>8, <2>1, <2>2 DEF ResumedBranchEnds, Ran
  <1> QED BY <1>3, <1>5, <1>6, <1>7, <1>8

\* The steps of a composition keep it: its start, its branches and their join.
LEMMA CompositionKeeps ==
    ASSUME PlanConstants, PlanInv,
           \/ StartComposition \/ JoinComposition
           \/ \E b \in BranchNumbers : BeginBranch(b) \/ BranchEnds(b)
    PROVE  PlanInv'
  <1>0. /\ Steps \in Nat \ {0} /\ Branches \in Nat \ {0} /\ Concurrency \in Nat \ {0}
        /\ PlanTypeOK /\ run \in RunState /\ branch \in [BranchNumbers -> BranchStates]
        /\ run.step \in 1 .. Steps + 1 /\ UNCHANGED <<plan, checkpoints, resumes>>
        /\ IsFiniteSet(RunningBranches) /\ Cardinality(RunningBranches) \in Nat
        /\ Cardinality(RunningBranches) <= Concurrency
    <2>1. UNCHANGED <<plan, checkpoints, resumes>>
      BY DEF StartComposition, JoinComposition, BeginBranch, BranchEnds
    <2>2. IsFiniteSet(RunningBranches) /\ Cardinality(RunningBranches) \in Nat
      BY BranchesFinite, FS_CardinalityType
    <2> QED BY <2>1, <2>2 DEF PlanConstants, PlanInv, PlanTypeOK, SlotsRespected, RunState,
               BranchStates
  <1>1. \A s : PipesOf(s)' = PipesOf(s)
    BY <1>0 DEF PipesOf
  <1>2. CASE StartComposition
    <2>1. /\ UNCHANGED <<parked, ran>> /\ StepsGo("composing") /\ run.step <= Steps
          /\ plan[run.step] # "pipe" /\ branch' = [b \in BranchNumbers |-> "waiting"]
          /\ groupDone' = FALSE
      BY <1>2 DEF StartComposition
    <2>2. run' \in RunState /\ run'.pc = "composing" /\ run'.step = run.step
      BY <1>0, <2>1, LoopMoves
    <2>3. PlanTypeOK'
      BY <1>0, <2>1, <2>2 DEF PlanTypeOK, RunState
    <2>4. LoopFollowsCheckpoints' /\ StepsByKind'
      BY <1>0, <2>1, <2>2 DEF PlanInv, LoopFollowsCheckpoints, StepsByKind
    <2>5. StepsRanWhole'
      BY <1>0, <1>1, <2>1, <2>2 DEF PlanInv, StepsRanWhole, Whole
    <2>6. RunningBranches' = {}
      BY <2>1 DEF RunningBranches
    <2>7. SlotsRespected'
      BY <1>0, <2>6, FS_EmptySet DEF SlotsRespected
    <2> QED BY <2>3, <2>4, <2>5, <2>7 DEF PlanInv
  \* What the steps of a branch have in common.
  <1>3. ASSUME NEW b \in BranchNumbers, UNCHANGED <<run, parked>>, run.pc = "composing",
               NEW status \in BranchStates, Becomes(b, status),
               groupDone' \in BOOLEAN, ran \subseteq ran',
               ran' \subseteq ran \cup {<<run.step, b>>},
               status = "ok" => <<run.step, b>> \in ran',
               SlotsRespected'
        PROVE  PlanInv'
    <2>1. /\ branch' \in [BranchNumbers -> BranchStates] /\ branch'[b] = status
          /\ \A c \in BranchNumbers : c # b => branch'[c] = branch[c]
      BY <1>0, <1>3 DEF Becomes
    <2>2. run.step <= Steps
      BY <1>3 DEF PlanInv, LoopFollowsCheckpoints
    <2>3. <<run.step, b>> \in StepNumbers \X (0 .. Branches)
      BY <1>0, <2>2 DEF StepNumbers, BranchNumbers
    <2>4. PlanTypeOK'
      BY <1>0, <1>3, <2>1, <2>3 DEF PlanTypeOK, BranchStates
    <2>5. LoopFollowsCheckpoints' /\ StepsByKind'
      BY <1>0, <1>3 DEF PlanInv, LoopFollowsCheckpoints, StepsByKind
    <2>6. StepsRanWhole'
      BY <1>0, <1>1, <1>3, <2>1 DEF PlanInv, StepsRanWhole, Whole
    <2> QED BY <1>3, <2>4, <2>5, <2>6 DEF PlanInv
  <1>4. ASSUME NEW b \in BranchNumbers, BeginBranch(b) PROVE PlanInv'
    <2>1. /\ UNCHANGED <<run, parked, groupDone, ran>> /\ branch[b] = "waiting"
          /\ run.pc = "composing"
      BY <1>4 DEF BeginBranch, PlanInv, StepsByKind, NoBranches
    <2>2. CASE Cardinality(RunningBranches) < Concurrency /\ Becomes(b, "running")
      <3>1. RunningBranches' = RunningBranches \cup {b} /\ b \notin RunningBranches
        BY <1>0, <2>1, <2>2 DEF RunningBranches, Becomes
      <3>2. Cardinality(RunningBranches') = Cardinality(RunningBranches) + 1
        BY <1>0, <3>1, FS_AddElement DEF SlotsRespected
      <3>3. Cardinality(RunningBranches) \in Nat /\ IsFiniteSet(RunningBranches')
        BY <1>0, <3>1, FS_AddElement, FS_CardinalityType DEF SlotsRespected
      <3>4. Cardinality(RunningBranches') <= Concurrency
        BY <1>0, <2>2, <3>2, <3>3
      <3>5. SlotsRespected'
        BY <3>3, <3>4 DEF SlotsRespected
      <3> QED BY <1>0, <1>3, <2>1, <2>2, <3>5 DEF BranchStates, PlanTypeOK
    <2>3. CASE groupDone /\ Becomes(b, "failed")
      <3>1. RunningBranches' = RunningBranches
        BY <1>0, <2>1, <2>3 DEF RunningBranches, Becomes
      <3>2. SlotsRespected'
        BY <1>0, <3>1 DEF SlotsRespected
      <3> QED BY <1>0, <1>3, <2>1, <2>3, <3>2 DEF BranchStates, PlanTypeOK, Errors
    <2> QED BY <1>4, <2>2, <2>3 DEF BeginBranch
  <1>5. ASSUME NEW b \in BranchNumbers, BranchEnds(b) PROVE PlanInv'
    <2>1. /\ UNCHANGED <<run, parked>> /\ branch[b] = "running" /\ run.pc = "composing"
      BY <1>5 DEF BranchEnds, PlanInv, StepsByKind, NoBranches
    <2>2. PICK status \in {"ok"} \cup Errors :
            /\ Becomes(b, status)
            /\ groupDone' = (groupDone \/ (status # "ok" /\ plan[run.step] = "strict"))
            /\ ran' = IF status = "ok" THEN ran \cup {<<run.step, b>>} ELSE ran
      BY <1>5 DEF BranchEnds
    <2>3. status # "running"
      BY DEF Errors
    <2>4. RunningBranches' = RunningBranches \ {b} /\ b \in RunningBranches
      BY <1>0, <2>1, <2>2, <2>3 DEF RunningBranches, Becomes
    <2>5. SlotsRespected'
      <3>1. Cardinality(RunningBranches') = Cardinality(RunningBranches) - 1
        BY <1>0, <2>4, FS_RemoveElement DEF SlotsRespected
      <3>2. Cardinality(RunningBranches) \in Nat /\ IsFiniteSet(RunningBranches')
        BY <1>0, <2>4, FS_RemoveElement, FS_CardinalityType DEF SlotsRespected
      <3>3. Cardinality(RunningBranches) <= Concurrency
        BY <1>0 DEF SlotsRespected
      <3>4. Cardinality(RunningBranches') <= Concurrency
        BY <1>0, <3>1, <3>2, <3>3
      <3> QED BY <3>2, <3>4 DEF SlotsRespected
    <2>6. groupDone' \in BOOLEAN /\ status \in BranchStates
      BY <1>0, <2>2 DEF PlanTypeOK, BranchStates
    <2> QED BY <1>3, <2>1, <2>2, <2>5, <2>6
  <1>6. CASE JoinComposition
    <2> DEFINE errors == {b \in BranchNumbers : branch[b] \in Errors}
               first == CHOOSE b \in errors : \A c \in errors : b <= c
    <2>0. /\ run.pc = "composing" /\ \A b \in BranchNumbers : branch[b] \in {"ok"} \cup Errors
          /\ branch' = NoBranches /\ groupDone' = FALSE /\ UNCHANGED ran
          /\ \/ /\ errors = {} \/ plan[run.step] = "partial"
                /\ StepsGo("saving") /\ UNCHANGED parked
             \/ /\ errors # {}
                /\ IF branch[first] = "suspended" THEN Parks(first)
                   ELSE StepsGo("failed") /\ UNCHANGED parked
      BY <1>6 DEF JoinComposition
    <2>1. run.step <= Steps /\ plan[run.step] # "pipe" /\ run.step \in StepNumbers
      BY <1>0, <2>0 DEF PlanInv, LoopFollowsCheckpoints, StepsByKind, StepNumbers
    <2>2. errors # {} => first \in BranchNumbers
      BY FirstError
    <2>3. errors = {} => PipesOf(run.step) \subseteq ran
      BY <2>0, <2>1 DEF PlanInv, StepsRanWhole, PipesOf
    <2> HIDE DEF errors, first
    <2>4. RunningBranches' = {}
      BY <2>0 DEF RunningBranches, NoBranches
    <2>5. SlotsRespected'
      BY <1>0, <2>4, FS_EmptySet DEF SlotsRespected
    <2>6. ASSUME NEW pc \in {"saving", "parked", "failed"}, StepsGo(pc),
                 parked' \in [step : 0 .. Steps, branch : 0 .. Branches],
                 pc = "parked" => parked'.step \in StepNumbers /\ parked'.branch # 0,
                 pc = "saving" => Whole(run.step)
          PROVE  PlanInv'
      <3>1. run' \in RunState /\ run'.pc = pc /\ run'.step = run.step
        BY <1>0, <2>6, LoopMoves
      <3>2. branch' \in [BranchNumbers -> BranchStates]
        BY <2>0 DEF NoBranches, BranchStates
      <3>3. PlanTypeOK'
        BY <1>0, <2>0, <2>6, <3>1, <3>2 DEF PlanTypeOK, RunState, BranchStates
      <3>4. LoopFollowsCheckpoints'
        BY <1>0, <2>1, <3>1 DEF PlanInv, LoopFollowsCheckpoints
      <3>5. StepsByKind'
        BY <2>0, <2>6, <3>1 DEF StepsByKind, NoBranches, BranchNumbers
      <3>6. StepsRanWhole'
        BY <1>0, <1>1, <2>0, <2>6, <3>1 DEF PlanInv, StepsRanWhole, Whole
      <3> QED BY <2>5, <3>3, <3>4, <3>5, <3>6 DEF PlanInv
    <2>7. parked \in [step : 0 .. Steps, branch : 0 .. Branches]
      BY <1>0 DEF PlanTypeOK
    <2>8. CASE /\ errors = {} \/ plan[run.step] = "partial"
               /\ StepsGo("saving") /\ UNCHANGED parked
      BY <2>3, <2>6, <2>7, <2>8 DEF Whole
    <2>9. CASE errors # {} /\ StepsGo("failed") /\ UNCHANGED parked
      BY <2>6, <2>7, <2>9
    <2>10. CASE errors # {} /\ Parks(first)
      <3>1. first \in 1 .. Branches
        BY <2>2, <2>10 DEF BranchNumbers
      <3>2. /\ parked' \in [step : 0 .. Steps, branch : 0 .. Branches]
            /\ parked'.step \in StepNumbers /\ parked'.branch # 0
        BY <1>0, <2>1, <2>10, <3>1 DEF Parks, StepNumbers
      <3> QED BY <2>6, <2>10, <3>2 DEF Parks
    <2> QED BY <2>0, <2>8, <2>9, <2>10
  <1> QED BY <1>2, <1>4, <1>5, <1>6

\* Every step keeps it, so it holds of every reachable state.
LEMMA PlanInvariance == ASSUME PlanConstants PROVE PlanSpec => []PlanInv
  <1>1. PlanInit => PlanInv
    BY PlanBegins
  <1>2. ASSUME PlanInv, [PlanNext]_planVars PROVE PlanInv'
    <2>1. CASE PlanNext
      BY <1>2, <2>1, StepKeeps, CompositionKeeps DEF PlanNext
    <2>2. CASE UNCHANGED planVars
      BY <1>2, <2>2 DEF planVars, PlanInv, PlanTypeOK, LoopFollowsCheckpoints, StepsByKind,
                        StepsRanWhole, Whole, PipesOf, SlotsRespected, RunningBranches
    <2> QED BY <1>2, <2>1, <2>2
  <1> QED BY <1>1, <1>2, PTL DEF PlanSpec

\* The variables of a plan keep their types, for any steps, branches and concurrency.
THEOREM PlanTyped == ASSUME PlanConstants PROVE PlanSpec => []PlanTypeOK
  BY PlanInvariance, PTL DEF PlanInv

\* Whatever fails, is suspended or is resumed, the checkpoints are those of the steps
\* before the loop's, each of a step that ran whole, and no more branches run at a time
\* than the step allows.
THEOREM CheckpointsAreTrue == ASSUME PlanConstants PROVE PlanSpec => []CheckpointsFollowRun
  <1>1. ASSUME PlanInv PROVE CheckpointsFollowRun
    <2>1. Steps \in Nat \ {0} /\ run.step \in 1 .. Steps + 1 /\ checkpoints = 1 .. run.step - 1
      BY <1>1 DEF PlanConstants, PlanInv, PlanTypeOK, LoopFollowsCheckpoints
    <2>2. ASSUME NEW n \in Nat PROVE Cardinality(1 .. n) = n
      <3>1. n \in Int /\ 1 \in Int /\ (IF 1 > n THEN 0 ELSE n - 1 + 1) = n
        OBVIOUS
      <3>2. Cardinality(1 .. n) = IF 1 > n THEN 0 ELSE n - 1 + 1
        BY <3>1, FS_Interval
      <3> QED BY <3>1, <3>2
    <2>3. run.step - 1 \in Nat
      BY <2>1
    <2>4. Cardinality(1 .. run.step - 1) = run.step - 1
      BY <2>2, <2>3
    <2> QED BY <1>1, <2>1, <2>4
            DEF PlanInv, StepsRanWhole, Whole, SlotsRespected, CheckpointsFollowRun
  <1> QED BY <1>1, PlanInvariance, PTL

----------------------------------------------------------------------------
(* A command of the bash tool (BashRun).                                   *)

BashSafety == BashInit /\ [][BashNext]_bashVars

Child == [pc : {"none", "running", "gone"}, grouped : BOOLEAN, holds : BOOLEAN]
Buffer == [len : 0 .. Limit, truncated : BOOLEAN]
CallState == [pc : {"new", "running", "draining", "answered"},
              watch : {"none", "killed", "done"}, cut : BOOLEAN]
ResultState == [error : {"none", "refused", "exit", "context", "waitDelay"}, len : 0 .. Limit,
                code : {"none", "zero", "status", "unknown"}, timedOut : BOOLEAN,
                truncated : BOOLEAN]

\* Somebody is left who can write to the pipe.
Writing == shell = "running" \/ (child.pc = "running" /\ child.holds)

\* The shell is started by Run and over when Run looks at the pipe.
ShellFollowsCall ==
    /\ call.pc = "new" => shell = "none" /\ call.watch = "none"
    /\ call.pc \in {"draining", "answered"} => shell # "running"
    /\ shell = "none" => child.pc # "running"

\* As long as the pipe is open, the buffer has what was written and not what waits.
BufferCounts ==
    /\ pipe <= written
    /\ ~call.cut =>
          /\ buffer.truncated <=> written - pipe > Limit
          /\ buffer.truncated => buffer.len = Limit
          /\ ~buffer.truncated => buffer.len = written - pipe

\* Whoever outlives a signal, or the namespace of the shell, is out of its reach.
KillReaches ==
    /\ mode = "isolated" /\ shell # "running" => child.pc # "running"
    /\ call.watch = "killed" =>
          /\ shell # "running"
          /\ child.pc = "running" => mode = "host" /\ ~child.grouped

\* An answer without an error was given when nobody could write any more.
AnswerStands == call.pc = "answered" /\ result.error = "none" => ~Writing

BashInv ==
    /\ BashTypeOK
    /\ ShellFollowsCall
    /\ BufferCounts
    /\ KillReaches
    /\ AnswerStands
    /\ OutputIsWhole

\* The invariant holds before the call.
LEMMA BashBegins == ASSUME BashConstants PROVE BashInit => BashInv
  <1> SUFFICES ASSUME BashInit PROVE BashInv
    OBVIOUS
  <1>0. 0 \in 0 .. MaxOutput /\ 0 \in 0 .. Limit
    BY DEF BashConstants
  <1>1. BashTypeOK
    BY <1>0 DEF BashInit, BashTypeOK, NoChild, NoResult, Modes
  <1>2. ShellFollowsCall /\ KillReaches /\ AnswerStands /\ OutputIsWhole
    BY DEF BashInit, NoChild, NoResult, ShellFollowsCall, KillReaches, AnswerStands, OutputIsWhole
  <1>3. BufferCounts
    BY DEF BashInit, BufferCounts, BashConstants
  <1> QED BY <1>1, <1>2, <1>3 DEF BashInv

\* The steps of Run keep it.
LEMMA ExecuteKeeps == ASSUME BashConstants, BashInv, Execute PROVE BashInv'
  <1>0. /\ BashTypeOK /\ child \in Child /\ buffer \in Buffer /\ call \in CallState
        /\ result \in ResultState /\ pipe \in Nat /\ written \in Nat /\ Limit \in Nat \ {0}
        /\ MaxOutput \in Nat /\ pipe \in 0 .. MaxOutput /\ written \in 0 .. MaxOutput
    BY DEF BashInv, BashTypeOK, BashConstants, Child, Buffer, CallState, ResultState
  <1>1. CASE Refuse
    <2>1. /\ call' \in CallState /\ call'.pc = "answered" /\ call'.watch = call.watch
          /\ call'.cut = call.cut
      BY <1>0, <1>1 DEF Refuse, Answers, CallState
    <2>2. result' \in ResultState /\ result'.error = "refused"
      <3>1. NoResult \in ResultState
        BY <1>0 DEF NoResult, ResultState
      <3>2. \A r \in ResultState, t \in BOOLEAN, code \in {"unknown"} :
              /\ [r EXCEPT !.error = "refused", !.code = code, !.timedOut = t] \in ResultState
              /\ [r EXCEPT !.error = "refused", !.code = code, !.timedOut = t].error = "refused"
        BY DEF ResultState
      <3>3. result' = [NoResult EXCEPT !.error = "refused", !.code = "unknown",
                                       !.timedOut = expired] /\ expired \in BOOLEAN
        BY <1>0, <1>1 DEF Refuse, Answers, BashTypeOK
      <3> QED BY <3>1, <3>2, <3>3
    <2>3. UNCHANGED <<mode, expired, shell, child, pipe, written, buffer>> /\ call.pc = "new"
      BY <1>1 DEF Refuse
    <2>4. BashTypeOK'
      BY <1>0, <2>1, <2>2, <2>3 DEF BashTypeOK, CallState, ResultState
    <2> QED BY <2>1, <2>2, <2>3, <2>4 DEF BashInv, ShellFollowsCall, BufferCounts, KillReaches,
                   AnswerStands, OutputIsWhole
  <1>2. CASE Begin
    <2>1. /\ call' \in CallState /\ call'.pc = "running" /\ call'.watch = call.watch
          /\ call'.cut = call.cut
      BY <1>0, <1>2 DEF Begin, CallState
    <2>2. /\ UNCHANGED <<mode, expired, child, pipe, written, buffer, result>>
          /\ shell' = "running" /\ shell = "none" /\ call.pc = "new"
      BY <1>2 DEF Begin, BashInv, ShellFollowsCall
    <2>3. BashTypeOK'
      BY <1>0, <2>1, <2>2 DEF BashTypeOK, CallState
    <2> QED BY <2>1, <2>2, <2>3 DEF BashInv, ShellFollowsCall, BufferCounts, KillReaches,
                   AnswerStands, OutputIsWhole
  <1>3. CASE Copy
    <2>1. /\ UNCHANGED <<mode, expired, shell, child, written, call, result>>
          /\ pipe' = pipe - 1 /\ pipe > 0 /\ ~call.cut /\ buffer' = Kept
          /\ pipe' \in 0 .. MaxOutput
      BY <1>0, <1>3 DEF Copy
    <2>2. /\ buffer.len \in 0 .. Limit /\ buffer.truncated \in BOOLEAN /\ pipe <= written
          /\ buffer.truncated <=> written - pipe > Limit
          /\ buffer.truncated => buffer.len = Limit
          /\ ~buffer.truncated => buffer.len = written - pipe
      BY <1>0, <2>1 DEF BashInv, BufferCounts, Buffer
    <2>3. CASE buffer.len < Limit
      <3>1. buffer' = [buffer EXCEPT !.len = @ + 1]
        BY <2>1, <2>3 DEF Kept
      <3>2. buffer.len + 1 \in 0 .. Limit
        BY <1>0, <2>2, <2>3
      <3>3. /\ buffer' \in Buffer /\ buffer'.len = buffer.len + 1
            /\ buffer'.truncated = buffer.truncated
        BY <1>0, <3>1, <3>2 DEF Buffer
      <3>4. ~buffer.truncated /\ ~(written - pipe' > Limit) /\ buffer'.len = written - pipe'
        BY <1>0, <2>1, <2>2, <2>3, <3>3
      <3>5. BufferCounts'
        BY <1>0, <2>1, <2>2, <3>3, <3>4 DEF BufferCounts
      <3>6. BashTypeOK'
        BY <1>0, <2>1, <3>3 DEF BashTypeOK, Buffer
      <3> QED BY <2>1, <3>5, <3>6 DEF BashInv, ShellFollowsCall, KillReaches, AnswerStands,
                 OutputIsWhole, Writing
    <2>4. CASE ~(buffer.len < Limit)
      <3>1. buffer' = [buffer EXCEPT !.truncated = TRUE]
        BY <2>1, <2>4 DEF Kept
      <3>2. buffer' \in Buffer /\ buffer'.len = buffer.len /\ buffer'.truncated
        BY <1>0, <3>1 DEF Buffer
      <3>3. buffer.len = Limit /\ written - pipe' > Limit
        BY <1>0, <2>1, <2>2, <2>4
      <3>4. BufferCounts'
        BY <1>0, <2>1, <2>2, <3>2, <3>3 DEF BufferCounts
      <3>5. BashTypeOK'
        BY <1>0, <2>1, <3>2 DEF BashTypeOK, Buffer
      <3> QED BY <2>1, <3>4, <3>5 DEF BashInv, ShellFollowsCall, KillReaches, AnswerStands,
                 OutputIsWhole, Writing
    <2> QED BY <2>3, <2>4
  <1>4. CASE Cancel
    <2>1. /\ UNCHANGED <<mode, expired, pipe, written, buffer, result>> /\ call.pc = "running"
          /\ shell' = IF shell = "running" THEN "killed" ELSE shell
          /\ child' = IF Reaches THEN Gone ELSE child
      BY <1>4 DEF Cancel
    <2>2. /\ call' \in CallState /\ call'.pc = "running" /\ call'.cut = call.cut
      BY <1>0, <1>4 DEF Cancel, CallState
    <2>3. /\ child' \in Child /\ child'.grouped = child.grouped
          /\ child'.pc = "running" => child' = child /\ ~Reaches
      BY <1>0, <2>1 DEF Child, Gone
    <2>4. BashTypeOK'
      BY <1>0, <2>1, <2>2, <2>3 DEF BashTypeOK, CallState, Child
    <2>5. ShellFollowsCall' /\ BufferCounts'
      BY <1>0, <2>1, <2>2, <2>3 DEF BashInv, ShellFollowsCall, BufferCounts
    <2>6. KillReaches'
      BY <1>0, <2>1, <2>2, <2>3 DEF BashInv, KillReaches, Reaches, BashTypeOK, Modes
    <2> QED BY <2>2, <2>4, <2>5, <2>6 DEF BashInv, AnswerStands, OutputIsWhole
  <1>5. CASE Reap \/ CutOff
    <2>1. /\ UNCHANGED <<mode, expired, shell, child, pipe, written, buffer, result>>
          /\ call' \in CallState /\ call'.pc \in {"running", "draining"}
          /\ call'.watch = call.watch
          /\ call'.pc = "draining" => call.pc = "draining" \/ shell \in {"ok", "failed", "killed"}
          /\ call.cut => call'.cut
      <3>1. CASE Reap
        BY <1>0, <3>1 DEF Reap, CallState
      <3>2. CASE CutOff
        BY <1>0, <3>2 DEF CutOff, DelayOver, CallState
      <3> QED BY <1>5, <3>1, <3>2
    <2>2. BashTypeOK'
      BY <1>0, <2>1 DEF BashTypeOK, CallState
    <2> QED BY <1>0, <2>1, <2>2 DEF BashInv, ShellFollowsCall, BufferCounts, KillReaches,
               AnswerStands, OutputIsWhole
  <1>6. CASE Return
    <2>1. /\ UNCHANGED <<mode, expired, shell, child, pipe, written, buffer>>
          /\ call.pc = "draining" /\ (Drained \/ call.cut)
          /\ result' = [error |-> RunError, len |-> buffer.len, code |-> ExitCode,
                        timedOut |-> expired, truncated |-> buffer.truncated]
      BY <1>6 DEF Return, Answers
    <2>2. /\ call' \in CallState /\ call'.pc = "answered" /\ call'.watch = call.watch
          /\ call'.cut = call.cut
      BY <1>0, <1>6 DEF Return, Answers, CallState
    <2>3. result' \in ResultState
      <3>1. RunError \in {"none", "exit", "context", "waitDelay"}
        BY DEF RunError
      <3>2. ExitCode \in {"zero", "status", "unknown"}
        BY DEF ExitCode
      <3>3. expired \in BOOLEAN /\ buffer.len \in 0 .. Limit /\ buffer.truncated \in BOOLEAN
        BY <1>0 DEF BashTypeOK, Buffer
      <3> QED BY <2>1, <3>1, <3>2, <3>3 DEF ResultState
    <2>4. /\ result'.error = RunError /\ result'.len = buffer.len
          /\ result'.truncated = buffer.truncated
      BY <2>1
    <2>5. BashTypeOK'
      BY <1>0, <2>1, <2>2, <2>3 DEF BashTypeOK, CallState, ResultState
    <2>6. ShellFollowsCall' /\ BufferCounts' /\ KillReaches'
      <3>1. ShellFollowsCall' /\ KillReaches'
        BY <2>1, <2>2 DEF BashInv, ShellFollowsCall, KillReaches
      <3>2. BufferCounts'
        BY <2>1, <2>2 DEF BashInv, BufferCounts
      <3> QED BY <3>1, <3>2
    <2>7. ASSUME RunError = "none"
          PROVE  shell = "ok" /\ ~call.cut /\ pipe = 0 /\ ~(child.pc = "running" /\ child.holds)
      BY <2>1, <2>7 DEF RunError, Drained
    <2>8. AnswerStands'
      BY <2>1, <2>4, <2>7 DEF AnswerStands, Writing
    <2>9. OutputIsWhole'
      <3>1. SUFFICES ASSUME RunError = "none"
                     PROVE  /\ shell' = "ok" /\ (result'.truncated <=> written > Limit)
                            /\ result'.truncated \/ result'.len = written
        BY <2>1, <2>3, <2>4 DEF OutputIsWhole, ResultState
      <3> QED BY <1>0, <2>1, <2>4, <2>7, <3>1 DEF BashInv, BufferCounts
    <2> QED BY <2>5, <2>6, <2>8, <2>9 DEF BashInv
  <1> QED BY <1>1, <1>2, <1>3, <1>4, <1>5, <1>6 DEF Execute

\* The processes and the clock keep it.
LEMMA ProcessesKeep ==
    ASSUME BashConstants, BashInv, Writes \/ Forks \/ ChildEnds \/ ShellExits \/ Expire
    PROVE  BashInv'
  <1>0. /\ BashTypeOK /\ child \in Child /\ call \in CallState /\ result \in ResultState
        /\ pipe \in 0 .. MaxOutput /\ written \in 0 .. MaxOutput /\ MaxOutput \in Nat
        /\ Limit \in Nat \ {0}
    BY DEF BashInv, BashTypeOK, BashConstants, Child, CallState, ResultState
  <1>1. CASE Writes
    <2>1. /\ UNCHANGED <<mode, expired, shell, child, buffer, call, result>> /\ Writing
          /\ written' = written + 1 /\ written' \in 0 .. MaxOutput
          /\ call.cut => pipe' = pipe
          /\ ~call.cut => pipe' = pipe + 1
      BY <1>0, <1>1 DEF Writes, Writing
    <2>2. pipe <= written /\ pipe' <= written' /\ pipe' \in 0 .. MaxOutput
          /\ (~call.cut => written' - pipe' = written - pipe)
      BY <1>0, <2>1 DEF BashInv, BufferCounts
    <2>3. BufferCounts'
      BY <1>0, <2>1, <2>2 DEF BashInv, BufferCounts
    <2>4. BashTypeOK'
      BY <1>0, <2>1, <2>2 DEF BashTypeOK
    <2>5. OutputIsWhole' /\ AnswerStands'
      BY <2>1 DEF BashInv, OutputIsWhole, AnswerStands, Writing
    <2>6. ShellFollowsCall' /\ KillReaches'
      BY <2>1 DEF BashInv, ShellFollowsCall, KillReaches
    <2> QED BY <2>3, <2>4, <2>5, <2>6 DEF BashInv
  <1>2. CASE Forks
    <2>1. /\ UNCHANGED <<mode, expired, shell, pipe, written, buffer, call, result>>
          /\ child' \in Child /\ shell = "running"
      BY <1>2 DEF Forks, Child
    <2>2. BashTypeOK'
      BY <1>0, <2>1 DEF BashTypeOK, Child
    <2>3. ShellFollowsCall' /\ KillReaches' /\ BufferCounts'
      BY <2>1 DEF BashInv, ShellFollowsCall, KillReaches, BufferCounts
    <2> QED BY <2>1, <2>2, <2>3 DEF BashInv, AnswerStands, OutputIsWhole, ShellFollowsCall
  <1>3. CASE ChildEnds \/ ShellExits
    <2>1. /\ UNCHANGED <<mode, expired, pipe, written, buffer, call, result>>
          /\ child' \in Child /\ child'.grouped = child.grouped /\ child'.holds = child.holds
          /\ child'.pc = "running" => child.pc = "running"
          /\ \/ shell' = shell
             \/ /\ shell = "running" /\ shell' \in {"ok", "failed"}
                /\ mode = "isolated" => child'.pc # "running"
      <3>1. CASE ChildEnds
        BY <1>0, <3>1 DEF ChildEnds, Child
      <3>2. CASE ShellExits
        BY <1>0, <3>2 DEF ShellExits, Gone, Child
      <3> QED BY <1>3, <3>1, <3>2
    <2>2. BashTypeOK'
      BY <1>0, <2>1 DEF BashTypeOK, Child
    <2>3. ShellFollowsCall' /\ KillReaches'
      BY <2>1 DEF BashInv, ShellFollowsCall, KillReaches
    <2>4. BufferCounts'
      BY <2>1 DEF BashInv, BufferCounts
    <2>5. Writing' => Writing
      BY <2>1 DEF Writing
    <2>6. AnswerStands'
      BY <2>1, <2>5 DEF BashInv, AnswerStands
    <2>7. OutputIsWhole'
      BY <2>1 DEF BashInv, OutputIsWhole, ShellFollowsCall
    <2> QED BY <2>2, <2>3, <2>4, <2>6, <2>7 DEF BashInv
  <1>4. CASE Expire
    <2>1. UNCHANGED <<mode, shell, child, pipe, written, buffer, call, result>> /\ expired' = TRUE
      BY <1>4 DEF Expire
    <2>2. BashTypeOK'
      BY <1>0, <2>1 DEF BashTypeOK
    <2>3. ShellFollowsCall' /\ KillReaches' /\ BufferCounts'
      BY <2>1 DEF BashInv, ShellFollowsCall, KillReaches, BufferCounts
    <2>4. AnswerStands' /\ OutputIsWhole'
      BY <2>1 DEF BashInv, AnswerStands, OutputIsWhole, Writing
    <2> QED BY <2>2, <2>3, <2>4 DEF BashInv
  <1> QED BY <1>1, <1>2, <1>3, <1>4

\* Every step keeps it, so it holds of every reachable state.
LEMMA BashInvariance == ASSUME BashConstants PROVE BashSafety => []BashInv
  <1>1. BashInit => BashInv
    BY BashBegins
  <1>2. ASSUME BashInv, [BashNext]_bashVars PROVE BashInv'
    <2>1. CASE BashNext
      BY <1>2, <2>1, ExecuteKeeps, ProcessesKeep DEF BashNext
    <2>2. CASE UNCHANGED bashVars
      <3>1. BashTypeOK'
        BY <1>2, <2>2 DEF bashVars, BashInv, BashTypeOK
      <3>2. ShellFollowsCall' /\ KillReaches' /\ BufferCounts'
        BY <1>2, <2>2 DEF bashVars, BashInv, ShellFollowsCall, KillReaches, BufferCounts
      <3>3. AnswerStands' /\ OutputIsWhole'
        BY <1>2, <2>2 DEF bashVars, BashInv, AnswerStands, OutputIsWhole, Writing
      <3> QED BY <3>1, <3>2, <3>3 DEF BashInv
    <2> QED BY <1>2, <2>1, <2>2
  <1> QED BY <1>1, <1>2, PTL DEF BashSafety

\* The variables of a call keep their types, for any output and any limit.
THEOREM BashTyped == ASSUME BashConstants PROVE BashSafety => []BashTypeOK
  BY BashInvariance, PTL DEF BashInv

\* However the shell, what it leaves behind, the clock and the copying goroutine
\* interleave, an answer without an error has all the output, or says what was cut.
THEOREM AnswersAreWhole == ASSUME BashConstants PROVE BashSafety => []OutputIsWhole
  BY BashInvariance, PTL DEF BashInv

\* A kill reaches every process of the group, and of the namespace of an isolated
\* command, the ones forked in the meantime included.
THEOREM KillsReachAll == ASSUME BashConstants PROVE BashSafety => []KilledLeavesNothing
  <1>1. BashInv => KilledLeavesNothing
    BY DEF BashInv, BashTypeOK, Modes, ShellFollowsCall, KillReaches, KilledLeavesNothing
  <1> QED BY <1>1, BashInvariance, PTL

----------------------------------------------------------------------------
(* The events and the reader of a reply (EventLog).  The gate orders the   *)
(* IDs (IdsByStorage), so subscribers see them ascending (NotifiedUpTo)    *)
(* and the window holds the newest ones.  An own event that was inserted   *)
(* is in the window, or the window starts after it and the reader sees the *)
(* gap (StillKnown); in the store of a global stream it is from the start, *)
(* which is what the fallback reads (Promised).                            *)

LogEvent == [id : IDs, own : BOOLEAN]
InGate == {"persisting", "inserting", "notifying"}

GateHeld == \A e \in Emitters : emit[e].pc \in InGate <=> gate = e

IdsByStorage ==
  /\ storage = "global" => nextID <= lastID
  /\ \A event \in stored : event.id <= lastID
  /\ \A e \in Emitters :
       /\ emit[e].pc = "persisting" => storage = "global"
       /\ emit[e].pc = "saving" => storage = "custom" /\ emit[e].id > 0
       /\ emit[e].pc = "inserting" =>
            IF storage = "global" THEN emit[e].id > nextID /\ emit[e].id <= lastID
            ELSE nextID < MaxEvents
       /\ emit[e].pc = "notifying" => emit[e].id = nextID /\ nextID > 0

NotifiedUpTo ==
  /\ Increasing(notified)
  /\ \A i \in 1 .. Len(notified) :
       /\ notified[i] <= nextID
       /\ \A e \in Emitters : emit[e].pc = "notifying" => notified[i] < nextID

WindowInOrder ==
  /\ \A i, j \in 1 .. Len(window) : i < j => window[i].id < window[j].id
  /\ \A i \in 1 .. Len(window) : window[i].id <= nextID

Seen(id) == \E i \in 1 .. Len(received) : received[i] = id
Forgotten(id) == Len(window) > 0 /\ window[1].id > id
StillKnown(id) == id <= nextID /\ (Event(id, TRUE) \in Retained \/ Forgotten(id))
Promised(id) == /\ id <= sse.cursor => Seen(id)
                /\ storage = "global" => Event(id, TRUE) \in stored

\* An own event that is stored or inserted, and whose emitter does not know it yet.
Underway(e) == emit[e].pc = "notifying" \/ (emit[e].pc = "inserting" /\ storage = "global")

ReplyFollows ==
  /\ Increasing(received) /\ \A i \in 1 .. Len(received) : received[i] <= sse.cursor
  /\ sse.cursor <= IF storage = "global" THEN lastID ELSE nextID
  /\ sse.pc = "none" => kept = {} /\ received = <<>> /\ ~sse.final
  /\ sse.pc = "none" \/ sse.final => \A e \in Own : emit[e].pc = "idle"
  /\ sse.pc = "fallback" => storage # "memory"
  /\ sse.pc = "done" => sse.final /\ \A id \in kept : Seen(id)
  /\ \A id \in kept : Promised(id) /\ StillKnown(id)
  /\ \A e \in Own : /\ Underway(e) => Promised(emit[e].id)
                    /\ emit[e].pc = "notifying" => StillKnown(emit[e].id)

EventInv ==
  /\ EventConstants /\ EventTypeOK /\ GateHeld /\ IdsByStorage /\ NotifiedUpTo
  /\ WindowInOrder /\ (storage # "custom" => ReplyFollows)

\* A window after an insertion: the newest event at its end, the others where they were
\* or one place before.
Follows(w, event) ==
  /\ w \in Seq(LogEvent) /\ Len(w) \in 1 .. Retention /\ w[Len(w)] = event
  /\ \E d \in {0, 1} : /\ Len(w) + d = Len(window) + 1
                      /\ \A i \in 1 .. Len(w) - 1 : w[i] = window[i + d]

\* The window keeps the newest events, in the order in which they came.
LEMMA Retaining ==
    ASSUME EventConstants, window \in Seq(LogEvent), Len(window) <= Retention,
           NEW event \in LogEvent
    PROVE  Follows(Retain(event), event)
  <1> DEFINE w == Retain(event)
  <1>0. Retention \in Nat /\ Retention > 0 /\ Len(window) \in Nat
    BY DEF EventConstants
  <1>1. CASE Len(window) < Retention
    <2>1. w = Append(window, event)
      BY <1>1 DEF Retain
    <2> HIDE DEF w
    <2>2. /\ w \in Seq(LogEvent) /\ Len(w) = Len(window) + 1 /\ w[Len(window) + 1] = event
          /\ \A i \in 1 .. Len(window) : w[i] = window[i]
      BY <2>1, AppendProperties
    <2>3. /\ Len(w) + 0 = Len(window) + 1
          /\ \A i \in 1 .. Len(w) - 1 : w[i] = window[i + 0]
      BY <1>0, <2>2
    <2>4. Follows(w, event)
      BY <1>0, <1>1, <2>2, <2>3 DEF Follows
    <2> QED BY <2>4 DEF w
  <1>2. CASE Len(window) >= Retention
    <2> DEFINE t == Tail(window)
    <2>1. w = Append(t, event) /\ Len(window) = Retention /\ window # <<>>
      BY <1>0, <1>2 DEF Retain
    <2> HIDE DEF w
    <2>2. /\ t \in Seq(LogEvent) /\ Len(t) = Len(window) - 1
          /\ \A i \in 1 .. Len(t) : t[i] = window[i + 1]
      BY <2>1, HeadTailProperties
    <2> HIDE DEF t
    <2>3. /\ w \in Seq(LogEvent) /\ Len(w) = Len(t) + 1 /\ w[Len(t) + 1] = event
          /\ \A i \in 1 .. Len(t) : w[i] = t[i]
      BY <2>1, <2>2, AppendProperties
    <2>4. /\ Len(w) + 1 = Len(window) + 1
          /\ \A i \in 1 .. Len(w) - 1 : w[i] = window[i + 1]
      BY <1>0, <2>1, <2>2, <2>3
    <2>5. Follows(w, event)
      BY <1>0, <2>1, <2>2, <2>3, <2>4 DEF Follows
    <2> QED BY <2>5 DEF w
  <1> QED BY <1>0, <1>1, <1>2

\* What the reader writes is every own event it read, each once, in the order of the IDs.
LEMMA WrittenInOrder ==
    ASSUME EventConstants, NEW events \in SUBSET LogEvent, NEW s \in InOrder(events)
    PROVE  /\ s \in Seq(IDs) /\ Increasing(s)
           /\ \A i \in 1 .. Len(s) : Event(s[i], TRUE) \in events
           /\ \A event \in events : event.own => \E i \in 1 .. Len(s) : s[i] = event.id
  <1> DEFINE ids == {event.id : event \in {v \in events : v.own}}
             n == Cardinality(ids)
  <1>1. s \in [1 .. n -> ids] /\ Increasing(s)
    BY DEF InOrder
  <1>2. ids \subseteq IDs /\ \A id \in ids : Event(id, TRUE) \in events
    <2>1. ASSUME NEW event \in events, event.own
          PROVE  event.id \in IDs /\ Event(event.id, TRUE) \in events
      <3>1. event \in LogEvent /\ event.own = TRUE
        BY <2>1 DEF LogEvent
      <3>2. event = [id |-> event.id, own |-> TRUE] /\ event.id \in IDs
        BY <3>1 DEF LogEvent
      <3> QED BY <3>2 DEF Event
    <2> QED BY <2>1
  <1>3. IsFiniteSet(ids) /\ n \in Nat
    <2>1. IsFiniteSet(IDs)
      BY FS_Interval DEF IDs, EventConstants
    <2> QED BY <1>2, <2>1, FS_Subset, FS_CardinalityType
  <1> HIDE DEF ids
  <1>4. IsFiniteSet(1 .. n) /\ Cardinality(1 .. n) = n
    <2>1. n \in Int /\ 1 \in Int /\ (IF 1 > n THEN 0 ELSE n - 1 + 1) = n
      BY <1>3
    <2> HIDE DEF n
    <2> QED BY <2>1, FS_Interval
  <1>5. s \in Seq(IDs) /\ Len(s) = n
    BY <1>1, <1>2, <1>3
  <1>6. s \in Injection(1 .. n, ids)
    <2>1. ASSUME NEW i \in 1 .. n, NEW j \in 1 .. n, s[i] = s[j] PROVE i = j
      <3>1. \A k \in ids : k \in Int
        BY <1>2 DEF IDs
      <3>2. s[i] \in Int /\ s[j] \in Int
        BY <1>1, <3>1
      <3>3. ~(i < j) /\ ~(j < i)
        BY <1>1, <1>5, <2>1, <3>2 DEF Increasing
      <3> QED BY <1>3, <3>3
    <2> QED BY <1>1, <2>1 DEF Injection, IsInjective
  <1>7. s \in Surjection(1 .. n, ids)
    BY <1>3, <1>4, <1>6, FS_Injection
  <1>8. \A id \in ids : \E i \in 1 .. n : s[i] = id
    BY <1>7 DEF Surjection
  <1>9. \A event \in events : event.own => event.id \in ids
    BY DEF ids
  <1> QED BY <1>1, <1>2, <1>5, <1>8, <1>9

\* Where an emitter goes.
LEMMA EmitMoves ==
    ASSUME emit \in [Emitters -> [pc : EmitPCs, id : 0 .. MaxEvents]], NEW e \in Emitters,
           NEW pc \in EmitPCs, NEW id \in 0 .. MaxEvents, Moves(e, pc, id)
    PROVE  /\ emit' \in [Emitters -> [pc : EmitPCs, id : 0 .. MaxEvents]]
           /\ emit'[e].pc = pc /\ emit'[e].id = id
           /\ \A f \in Emitters : f # e => emit'[f] = emit[f]
  BY DEF Moves

\* The reply is not disturbed by an emitter that moves before or after its insertion, or by
\* an event the store gets.
LEMMA ReplyUndisturbed ==
    ASSUME ReplyFollows, storage' = storage, sse' = sse, received' = received,
           nextID' = nextID, window' = window, kept' = kept, stored \subseteq stored',
           sse.cursor \in Nat, lastID \in Nat, lastID' \in Nat, lastID <= lastID',
           \A f \in Own :
             \/ emit'[f] = emit[f]
             \/ emit'[f].pc = "idle"
             \/ emit'[f].pc = "persisting" /\ sse.pc # "none" /\ ~sse.final
             \/ /\ emit'[f].pc = "inserting" /\ emit[f].pc = "idle" /\ storage # "global"
                /\ sse.pc # "none" /\ ~sse.final
             \/ /\ emit'[f].pc = "inserting" /\ emit[f].pc = "persisting"
                /\ Promised(emit[f].id)'
    PROVE  ReplyFollows'
  <1>1. \A i : Seen(i)' = Seen(i)
    BY DEF Seen
  <1>2. \A i : StillKnown(i)' = StillKnown(i)
    BY DEF StillKnown, Forgotten, Retained
  <1>3. ASSUME NEW i, Promised(i) PROVE Promised(i)'
    BY <1>1, <1>3 DEF Promised
  <1>4. ASSUME NEW f \in Own
        PROVE  /\ Underway(f)' => Promised(emit[f].id)'
               /\ emit'[f].pc = "notifying" => StillKnown(emit[f].id)'
    <2>1. CASE emit'[f] = emit[f]
      <3>1. /\ Underway(f)' <=> Underway(f)
            /\ Underway(f) => Promised(emit[f].id)
            /\ emit[f].pc = "notifying" => StillKnown(emit[f].id)
        BY <2>1 DEF Underway, ReplyFollows
      <3> QED BY <1>2, <1>3, <2>1, <3>1
    <2>2. CASE emit'[f].pc \in {"idle", "persisting"}
      BY <2>2 DEF Underway
    <2>3. CASE emit'[f].pc = "inserting" /\ storage # "global"
      BY <2>3 DEF Underway
    <2>4. CASE emit'[f].pc = "inserting" /\ Promised(emit[f].id)'
      BY <2>4
    <2> QED BY <2>1, <2>2, <2>3, <2>4
  <1>5. ASSUME sse.pc = "none" \/ sse.final, NEW f \in Own PROVE emit'[f].pc = "idle"
    <2>1. emit[f].pc = "idle"
      BY <1>5 DEF ReplyFollows
    <2> QED BY <1>5, <2>1
  <1>6. sse.cursor <= IF storage = "global" THEN lastID' ELSE nextID
    BY DEF ReplyFollows
  <1>7. \A id \in kept : Promised(id)' /\ StillKnown(id)'
    BY <1>2, <1>3 DEF ReplyFollows
  <1> QED BY <1>1, <1>4, <1>5, <1>6, <1>7 DEF ReplyFollows

\* The steps of an emitter.
LEMMA EmittersKeep == ASSUME EventInv, NEW e \in Emitters, EmitStep(e) PROVE EventInv'
  <1>0. /\ EventConstants /\ EventTypeOK /\ GateHeld /\ IdsByStorage /\ NotifiedUpTo
        /\ WindowInOrder /\ (storage # "custom" => ReplyFollows)
        /\ Own \subseteq Emitters /\ "nobody" \notin Emitters /\ MaxEvents \in Nat
        /\ 0 \in 0 .. MaxEvents /\ Retention \in Nat
    BY DEF EventInv, EventConstants
  <1>1. /\ emit \in [Emitters -> [pc : EmitPCs, id : 0 .. MaxEvents]]
        /\ nextID \in 0 .. MaxEvents /\ lastID \in 0 .. MaxEvents
        /\ stored \subseteq LogEvent /\ kept \subseteq IDs /\ window \in Seq(LogEvent)
        /\ sse.cursor \in 0 .. MaxEvents /\ sse.final \in BOOLEAN
        /\ emit[e].id \in 0 .. MaxEvents /\ emit[e].pc \in EmitPCs
        /\ storage \in {"memory", "global", "custom"}
        /\ received \in Seq(IDs) /\ notified \in Seq(IDs)
    BY <1>0 DEF EventTypeOK, LogEvent
  <1>2. /\ "idle" \in EmitPCs /\ "persisting" \in EmitPCs /\ "inserting" \in EmitPCs
        /\ "notifying" \in EmitPCs /\ "saving" \in EmitPCs
    BY DEF EmitPCs
  <1>3. \A id \in IDs : Event(id, e \in Own) \in LogEvent /\ Event(id, e \in Own).id = id
    BY DEF Event, LogEvent
  <1>4. CASE Enter(e)
    <2> DEFINE pc == IF storage = "global" THEN "persisting" ELSE "inserting"
    <2>1. /\ emit[e].pc = "idle" /\ gate = "nobody" /\ nextID < MaxEvents /\ lastID < MaxEvents
          /\ e \in Own => sse.pc # "none" /\ ~sse.final
          /\ gate' = e /\ Moves(e, pc, 0)
          /\ UNCHANGED <<storage, sse, received, nextID, window, stored, lastID, notified, kept>>
      BY <1>4 DEF Enter, ReaderUnchanged
    <2>2. pc \in {"persisting", "inserting"} /\ pc \in EmitPCs
      BY <1>2
    <2>3. /\ emit' \in [Emitters -> [pc : EmitPCs, id : 0 .. MaxEvents]]
          /\ emit'[e].pc = pc /\ emit'[e].id = 0
          /\ \A f \in Emitters : f # e => emit'[f] = emit[f]
      BY <1>0, <1>1, <2>1, <2>2, EmitMoves
    <2>4. EventTypeOK'
      BY <1>0, <2>1, <2>3 DEF EventTypeOK
    <2>5. GateHeld'
      BY <1>0, <2>1, <2>2, <2>3 DEF GateHeld, InGate
    <2>6. IdsByStorage'
      BY <1>0, <1>1, <2>1, <2>3 DEF IdsByStorage
    <2>7. NotifiedUpTo' /\ WindowInOrder'
      BY <1>0, <2>1, <2>2, <2>3 DEF NotifiedUpTo, WindowInOrder
    <2>8. ASSUME storage # "custom" PROVE ReplyFollows'
      <3>1. \A f \in Own :
              \/ emit'[f] = emit[f]
              \/ emit'[f].pc = "persisting" /\ sse.pc # "none" /\ ~sse.final
              \/ /\ emit'[f].pc = "inserting" /\ emit[f].pc = "idle" /\ storage # "global"
                 /\ sse.pc # "none" /\ ~sse.final
        BY <1>0, <2>1, <2>3
      <3> QED BY <1>0, <1>1, <2>1, <2>8, <3>1, ReplyUndisturbed
    <2> QED BY <1>0, <2>1, <2>4, <2>5, <2>6, <2>7, <2>8 DEF EventInv
  <1>5. CASE PersistFails(e) /\ UNCHANGED <<stored, lastID>>
    <2>1. /\ emit[e].pc = "persisting" /\ gate' = "nobody" /\ Moves(e, "idle", 0)
          /\ UNCHANGED <<storage, sse, received, nextID, window, notified, kept, stored, lastID>>
      BY <1>5 DEF PersistFails, ReaderUnchanged
    <2>2. gate = e
      BY <1>0, <2>1 DEF GateHeld, InGate
    <2>3. /\ emit' \in [Emitters -> [pc : EmitPCs, id : 0 .. MaxEvents]]
          /\ emit'[e].pc = "idle" /\ emit'[e].id = 0
          /\ \A f \in Emitters : f # e => emit'[f] = emit[f]
      BY <1>0, <1>1, <1>2, <2>1, EmitMoves
    <2>4. EventTypeOK'
      BY <1>0, <2>1, <2>3 DEF EventTypeOK
    <2>5. GateHeld'
      BY <1>0, <2>1, <2>2, <2>3 DEF GateHeld, InGate
    <2>6. IdsByStorage'
      BY <1>0, <1>1, <2>1, <2>3 DEF IdsByStorage
    <2>7. NotifiedUpTo' /\ WindowInOrder'
      BY <1>0, <2>1, <2>3 DEF NotifiedUpTo, WindowInOrder
    <2>8. ASSUME storage # "custom" PROVE ReplyFollows'
      <3>1. \A f \in Own : emit'[f] = emit[f] \/ emit'[f].pc = "idle"
        BY <1>0, <2>3
      <3> QED BY <1>0, <1>1, <2>1, <2>8, <3>1, ReplyUndisturbed
    <2> QED BY <1>0, <2>1, <2>4, <2>5, <2>6, <2>7, <2>8 DEF EventInv
  <1>6. \* The store allocates the next ID; the emitter hears of it, or it fails.
        ASSUME emit[e].pc = "persisting", lastID < MaxEvents, lastID' = lastID + 1,
               stored' = stored \cup {Event(lastID + 1, e \in Own)},
               NEW pc, \/ pc = "inserting" /\ gate' = gate /\ Moves(e, pc, lastID + 1)
                       \/ pc = "idle" /\ gate' = "nobody" /\ Moves(e, pc, 0),
               UNCHANGED <<storage, sse, received, nextID, window, notified, kept>>
        PROVE  EventInv'
    <2> DEFINE id == lastID + 1
    <2>1. /\ gate = e /\ storage = "global"
      BY <1>0, <1>6 DEF GateHeld, InGate, IdsByStorage
    <2>2. id \in IDs /\ id \in 0 .. MaxEvents /\ nextID < id /\ sse.cursor < id /\ lastID' = id
      BY <1>0, <1>1, <1>6, <2>1 DEF IDs, IdsByStorage, ReplyFollows
    <2>3. /\ Event(id, e \in Own) \in LogEvent /\ Event(id, e \in Own).id = id
          /\ stored' = stored \cup {Event(id, e \in Own)}
      BY <1>3, <1>6, <2>2
    <2> HIDE DEF id
    <2>4. /\ emit' \in [Emitters -> [pc : EmitPCs, id : 0 .. MaxEvents]]
          /\ emit'[e].pc = pc /\ (pc = "inserting" => emit'[e].id = id)
          /\ \A f \in Emitters : f # e => emit'[f] = emit[f]
      <3>1. CASE pc = "inserting"
        BY <1>0, <1>1, <1>2, <1>6, <2>2, <3>1, EmitMoves DEF id
      <3>2. CASE pc = "idle"
        BY <1>0, <1>1, <1>2, <1>6, <3>2, EmitMoves
      <3> QED BY <1>6, <3>1, <3>2
    <2>5. EventTypeOK'
      BY <1>0, <1>6, <2>2, <2>3, <2>4 DEF EventTypeOK, LogEvent
    <2>6. GateHeld'
      BY <1>0, <1>6, <2>1, <2>4 DEF GateHeld, InGate
    <2>7. IdsByStorage'
      <3>1. nextID' <= lastID' /\ \A event \in stored' : event.id <= lastID'
        BY <1>0, <1>1, <1>6, <2>1, <2>2, <2>3 DEF IdsByStorage, LogEvent, IDs
      <3>2. ASSUME NEW f \in Emitters, f # e PROVE emit'[f].pc # "inserting"
        BY <1>0, <2>1, <2>4, <3>2 DEF GateHeld, InGate
      <3>3. ASSUME NEW f \in Emitters
            PROVE  /\ emit'[f].pc = "persisting" => storage = "global"
                   /\ emit'[f].pc = "saving" => storage = "custom" /\ emit'[f].id > 0
                   /\ emit'[f].pc = "inserting" => emit'[f].id > nextID /\ emit'[f].id <= lastID'
                   /\ emit'[f].pc = "notifying" => emit'[f].id = nextID /\ nextID > 0
        <4>1. CASE f = e
          BY <1>1, <1>6, <2>1, <2>2, <2>4, <4>1 DEF IDs
        <4>2. CASE f # e
          BY <1>0, <2>4, <3>2, <4>2 DEF IdsByStorage
        <4> QED BY <4>1, <4>2
      <3> QED BY <1>6, <2>1, <3>1, <3>3 DEF IdsByStorage
    <2>8. NotifiedUpTo' /\ WindowInOrder'
      BY <1>0, <1>6, <2>4 DEF NotifiedUpTo, WindowInOrder
    <2>9. ReplyFollows'
      <3>1. ASSUME e \in Own, pc = "inserting" PROVE Promised(emit[e].id)'
        <4>1. Event(emit'[e].id, TRUE) \in stored'
          BY <2>3, <2>4, <3>1
        <4>2. ~(emit'[e].id <= sse'.cursor)
          BY <1>1, <1>6, <2>2, <2>4, <3>1 DEF IDs
        <4> QED BY <4>1, <4>2 DEF Promised
      <3>2. \A f \in Own :
              \/ emit'[f] = emit[f]
              \/ emit'[f].pc = "idle"
              \/ /\ emit'[f].pc = "inserting" /\ emit[f].pc = "persisting"
                 /\ Promised(emit[f].id)'
        BY <1>0, <1>6, <2>4, <3>1
      <3>3. stored \subseteq stored' /\ lastID <= lastID' /\ lastID' \in Nat
        BY <1>1, <2>2, <2>3 DEF id
      <3> QED BY <1>0, <1>1, <1>6, <2>1, <3>2, <3>3, ReplyUndisturbed
    <2> QED BY <1>0, <1>6, <2>5, <2>6, <2>7, <2>8, <2>9 DEF EventInv
  <1>7. CASE Persist(e)
    BY <1>6, <1>7 DEF Persist, ReaderUnchanged
  <1>8. CASE PersistFails(e) /\ ~UNCHANGED <<stored, lastID>>
    BY <1>6, <1>8 DEF PersistFails, ReaderUnchanged
  <1>9. CASE Insert(e)
    <2> DEFINE id == IF storage = "global" THEN emit[e].id ELSE nextID + 1
    <2>1. /\ emit[e].pc = "inserting" /\ id > nextID /\ nextID' = id
          /\ window' = Retain(Event(id, e \in Own)) /\ Moves(e, "notifying", id)
          /\ UNCHANGED <<storage, sse, received, gate, stored, lastID, notified, kept>>
      BY <1>9 DEF Insert, ReaderUnchanged
    <2>2. /\ id \in IDs /\ id \in 0 .. MaxEvents /\ id > 0 /\ nextID < id /\ gate = e
          /\ storage = "global" => id = emit[e].id /\ id <= lastID
          /\ storage # "global" => id = nextID + 1
      BY <1>0, <1>1, <2>1 DEF IDs, IdsByStorage, GateHeld, InGate
    <2> HIDE DEF id
    <2>3. /\ emit' \in [Emitters -> [pc : EmitPCs, id : 0 .. MaxEvents]]
          /\ emit'[e].pc = "notifying" /\ emit'[e].id = id
          /\ \A f \in Emitters : f # e => emit'[f] = emit[f]
      BY <1>0, <1>1, <1>2, <2>1, <2>2, EmitMoves
    <2>4. \A f \in Emitters : f # e => emit'[f].pc \notin InGate
      BY <1>0, <2>2, <2>3 DEF GateHeld
    <2> DEFINE event == Event(id, e \in Own)
    <2>5. event \in LogEvent /\ event.id = id /\ (e \in Own => event = Event(id, TRUE))
      BY <1>3, <2>2
    <2> HIDE DEF event
    <2>6. /\ window' = Retain(event) /\ Len(window) \in Nat /\ Len(window) <= Retention
          /\ \A i \in 1 .. Len(window) : window[i] \in LogEvent /\ window[i].id \in Nat
      <3>1. window' = Retain(event)
        BY <2>1 DEF event
      <3>2. Len(window) \in Nat /\ Len(window) <= Retention
        BY <1>0, <1>1 DEF EventTypeOK
      <3>3. \A i \in 1 .. Len(window) : window[i] \in LogEvent
        BY <1>1
      <3>4. \A v \in LogEvent : v.id \in Nat
        BY DEF LogEvent, IDs
      <3> QED BY <3>1, <3>2, <3>3, <3>4
    <2>7. PICK d \in {0, 1} :
            /\ window' \in Seq(LogEvent) /\ Len(window') \in 1 .. Retention
            /\ window'[Len(window')] = event
            /\ Len(window') + d = Len(window) + 1
            /\ \A i \in 1 .. Len(window') - 1 : window'[i] = window[i + d]
      <3>1. Follows(window', event)
        BY <1>0, <1>1, <2>5, <2>6, Retaining
      <3> QED BY <3>1 DEF Follows
    <2>8. WindowInOrder'
      <3>1. ASSUME NEW i \in 1 .. Len(window') - 1 PROVE window'[i].id < id
        <4>1. i + d \in 1 .. Len(window) /\ window'[i] = window[i + d]
          BY <2>6, <2>7
        <4>2. window[i + d].id <= nextID /\ window[i + d].id \in Nat
          BY <1>0, <2>6, <4>1 DEF WindowInOrder
        <4> QED BY <1>1, <2>2, <4>1, <4>2 DEF IDs
      <3>2. ASSUME NEW i \in 1 .. Len(window') - 1, NEW j \in 1 .. Len(window') - 1, i < j
            PROVE  window'[i].id < window'[j].id
        <4>1. i + d \in 1 .. Len(window) /\ j + d \in 1 .. Len(window) /\ i + d < j + d
          BY <2>6, <2>7, <3>2
        <4> QED BY <1>0, <2>7, <4>1 DEF WindowInOrder
      <3>3. \A i \in 1 .. Len(window') : i = Len(window') \/ i \in 1 .. Len(window') - 1
        BY <2>7
      <3>4. ASSUME NEW i \in 1 .. Len(window'), NEW j \in 1 .. Len(window'), i < j
            PROVE  window'[i].id < window'[j].id
        <4>1. i \in 1 .. Len(window') - 1
          BY <2>7, <3>4
        <4> QED BY <2>5, <2>7, <3>1, <3>2, <3>3, <3>4, <4>1
      <3>5. ASSUME NEW i \in 1 .. Len(window') PROVE window'[i].id <= nextID'
        <4>1. CASE i = Len(window')
          BY <1>1, <2>1, <2>2, <2>5, <2>7, <4>1
        <4>2. CASE i \in 1 .. Len(window') - 1
          <5>1. window'[i].id \in Nat
            BY <2>6, <2>7, <4>2
          <5> QED BY <2>1, <2>2, <3>1, <4>2, <5>1 DEF IDs
        <4> QED BY <3>3, <4>1, <4>2
      <3> QED BY <3>4, <3>5 DEF WindowInOrder
    <2>9. EventTypeOK'
      BY <1>0, <2>1, <2>2, <2>3, <2>7 DEF EventTypeOK, LogEvent
    <2>10. GateHeld'
      BY <1>0, <2>1, <2>2, <2>3, <2>4 DEF GateHeld, InGate
    <2>11. IdsByStorage'
      BY <1>0, <1>1, <2>1, <2>2, <2>3, <2>4 DEF IdsByStorage, InGate
    <2>12. NotifiedUpTo'
      <3>1. ASSUME NEW i \in 1 .. Len(notified) PROVE notified[i] < id /\ notified[i] <= id
        <4>1. notified[i] \in IDs /\ notified[i] <= nextID
          BY <1>0, <1>1 DEF NotifiedUpTo
        <4> QED BY <1>1, <2>2, <4>1 DEF IDs
      <3> QED BY <1>0, <2>1, <3>1 DEF NotifiedUpTo, Increasing
    <2>13. ASSUME NEW k \in IDs, StillKnown(k) PROVE StillKnown(k)'
      <3>1. k <= nextID /\ k < id /\ k <= nextID'
        BY <1>1, <2>1, <2>2, <2>13 DEF StillKnown, IDs
      <3>2. CASE Len(window) > 0 /\ window[1].id >= k /\ d = 1
        <4>1. window'[1].id > k
          <5>1. CASE Len(window') = 1
            BY <2>5, <2>7, <3>1, <5>1
          <5>2. CASE Len(window') # 1
            <6>1. 1 \in 1 .. Len(window') - 1 /\ 1 + d = 2 /\ Len(window) >= 2
              <7>0. Len(window') \in 1 .. Retention /\ Len(window') # 1
                BY <2>7, <5>2
              <7>1. Len(window') \in Nat /\ Len(window') >= 2
                <8>1. ASSUME NEW m \in 1 .. Retention, m # 1 PROVE m \in Nat /\ m >= 2
                  BY <1>0, <8>1
                <8> QED BY <7>0, <8>1
              <7>2. Len(window') = Len(window)
                BY <2>6, <2>7, <3>2, <7>1
              <7> QED BY <2>6, <3>2, <7>1, <7>2
            <6>3. window'[1] = window[2]
              BY <2>7, <6>1
            <6>2. window[1].id < window[2].id /\ window[1].id \in Nat /\ window[2].id \in Nat
              BY <1>0, <2>6, <6>1 DEF WindowInOrder
            <6> QED BY <3>2, <6>2, <6>3 DEF IDs
          <5> QED BY <5>1, <5>2
        <4>2. Forgotten(k)'
          BY <2>7, <4>1 DEF Forgotten
        <4> QED BY <3>1, <4>2 DEF StillKnown
      <3>3. CASE Forgotten(k) /\ d = 0
        <4>1. window'[1] = window[1] /\ window[1].id > k
          <5>1. 1 \in 1 .. Len(window') - 1 /\ 1 + d = 1 /\ window[1].id > k
            BY <2>6, <2>7, <3>3 DEF Forgotten
          <5> QED BY <2>7, <5>1
        <4>2. Forgotten(k)'
          BY <2>7, <4>1 DEF Forgotten
        <4> QED BY <3>1, <4>2 DEF StillKnown
      <3>4. CASE Forgotten(k)
        <4>1. Len(window) > 0 /\ window[1].id >= k
          BY <2>6, <3>4 DEF Forgotten, IDs
        <4> QED BY <3>2, <3>3, <3>4, <4>1
      <3>5. CASE Event(k, TRUE) \in Retained
        <4>1. PICK i \in 1 .. Len(window) : window[i] = Event(k, TRUE)
          BY <3>5 DEF Retained
        <4>2. CASE i - d \in 1 .. Len(window') - 1
          <5>1. i - d + d = i
            BY <2>7
          <5>2. window'[i - d] = Event(k, TRUE)
            BY <2>7, <4>1, <4>2, <5>1
          <5>3. Event(k, TRUE) \in Retained'
            <6>1. i - d \in 1 .. Len(window')
              BY <2>7, <4>2
            <6> QED BY <5>2, <6>1 DEF Retained
          <5> QED BY <3>1, <5>3 DEF StillKnown
        <4>3. CASE ~(i - d \in 1 .. Len(window') - 1)
          <5>1. i = 1 /\ d = 1
            BY <2>6, <2>7, <4>3
          <5>2. window[1].id = k
            BY <4>1, <5>1 DEF Event
          <5> QED BY <2>6, <3>2, <5>1, <5>2 DEF IDs
        <4> QED BY <4>2, <4>3
      <3> QED BY <2>13, <3>4, <3>5 DEF StillKnown
    <2>14. ASSUME storage # "custom" PROVE ReplyFollows'
      <3>1. ReplyFollows
        BY <1>0, <2>14
      <3>2. \A i : Seen(i)' = Seen(i) /\ Promised(i)' = Promised(i)
        BY <2>1 DEF Seen, Promised
      <3>3. sse.cursor <= IF storage = "global" THEN lastID ELSE nextID'
        BY <1>1, <2>1, <2>2, <3>1 DEF ReplyFollows, IDs
      <3>4. ASSUME e \in Own PROVE Promised(id) /\ StillKnown(emit[e].id)'
        <4>1. ASSUME storage = "global" PROVE Promised(id)
          <5>1. Underway(e)
            BY <2>1, <4>1 DEF Underway
          <5>2. Promised(emit[e].id)
            BY <3>1, <3>4, <5>1 DEF ReplyFollows
          <5> QED BY <2>2, <4>1, <5>2
        <4>2. ASSUME storage # "global" PROVE Promised(id)
          <5>1. ~(id <= sse.cursor)
            BY <1>1, <2>2, <3>1, <4>2 DEF ReplyFollows
          <5> QED BY <4>2, <5>1 DEF Promised
        <4>3. Event(id, TRUE) \in Retained'
          <5>1. Len(window') \in 1 .. Len(window')
            BY <2>7
          <5> QED BY <2>5, <2>7, <3>4, <5>1 DEF Retained
        <4>4. StillKnown(emit[e].id)'
          <5>1. id <= nextID'
            BY <2>1, <2>2 DEF IDs
          <5> QED BY <2>3, <4>3, <5>1 DEF StillKnown
        <4> QED BY <4>1, <4>2, <4>4
      <3>5. ASSUME NEW f \in Own
            PROVE  /\ Underway(f)' => Promised(emit[f].id)'
                   /\ emit'[f].pc = "notifying" => StillKnown(emit[f].id)'
        <4>1. CASE f = e
          <5>2. Promised(emit[e].id)'
            BY <2>1, <2>3, <3>4, <3>5, <4>1 DEF Promised, Seen
          <5> QED BY <3>4, <3>5, <4>1, <5>2
        <4>2. CASE f # e
          BY <1>0, <2>3, <2>4, <3>5, <4>2 DEF Underway, InGate
        <4> QED BY <4>1, <4>2
      <3>6. ASSUME sse.pc = "none" \/ sse.final, NEW f \in Own PROVE emit'[f].pc = "idle"
        <4>1. f # e /\ emit[f].pc = "idle"
          BY <2>1, <3>1, <3>6 DEF ReplyFollows
        <4> QED BY <1>0, <2>3, <4>1
      <3>7. \A k \in kept : Promised(k)' /\ StillKnown(k)'
        BY <1>1, <2>13, <3>1, <3>2 DEF ReplyFollows
      <3> QED BY <2>1, <3>1, <3>2, <3>3, <3>5, <3>6, <3>7 DEF ReplyFollows
    <2> QED BY <1>0, <2>1, <2>8, <2>9, <2>10, <2>11, <2>12, <2>14 DEF EventInv
  <1>10. CASE Notify(e)
    <2> DEFINE pc == IF storage = "custom" THEN "saving" ELSE "idle"
               id == IF storage = "custom" THEN emit[e].id ELSE 0
    <2>1. /\ emit[e].pc = "notifying" /\ notified' = Append(notified, emit[e].id)
          /\ gate' = "nobody" /\ Moves(e, pc, id)
          /\ UNCHANGED <<storage, sse, received, nextID, window, stored, lastID>>
          /\ storage = "custom" => kept' = kept
          /\ storage # "custom" => kept' = IF e \in Own THEN kept \cup {emit[e].id} ELSE kept
      BY <1>10 DEF Notify, ReaderUnchanged, Keeps
    <2>2. /\ emit[e].id = nextID /\ nextID > 0 /\ gate = e /\ emit[e].id \in IDs
          /\ pc \in EmitPCs /\ id \in 0 .. MaxEvents
      BY <1>0, <1>1, <1>2, <2>1 DEF IdsByStorage, GateHeld, InGate, IDs
    <2>3. /\ emit' \in [Emitters -> [pc : EmitPCs, id : 0 .. MaxEvents]]
          /\ emit'[e].pc = pc /\ emit'[e].id = id
          /\ \A f \in Emitters : f # e => emit'[f] = emit[f]
      BY <1>0, <1>1, <2>1, <2>2, EmitMoves
    <2>4. pc \notin InGate /\ \A f \in Emitters : emit'[f].pc \notin InGate
      BY <1>0, <2>2, <2>3 DEF GateHeld, InGate
    <2>5. /\ notified' \in Seq(IDs) /\ Len(notified') = Len(notified) + 1
          /\ notified'[Len(notified) + 1] = nextID
          /\ \A i \in 1 .. Len(notified) : notified'[i] = notified[i]
      BY <1>1, <2>1, <2>2, AppendProperties
    <2>6. EventTypeOK'
      BY <1>0, <2>1, <2>2, <2>3, <2>5 DEF EventTypeOK
    <2>7. GateHeld'
      BY <1>0, <2>1, <2>4 DEF GateHeld
    <2>8. IdsByStorage'
      <3>1. ASSUME NEW f \in Emitters
            PROVE  /\ emit'[f].pc \notin {"persisting", "inserting", "notifying"}
                   /\ emit'[f].pc = "saving" => storage = "custom" /\ emit'[f].id > 0
        <4>1. emit'[f].pc \notin InGate
          BY <2>4
        <4>2. CASE f = e
          BY <2>2, <2>3, <4>1, <4>2 DEF InGate
        <4>3. CASE f # e
          BY <1>0, <2>3, <4>1, <4>3 DEF InGate, IdsByStorage
        <4> QED BY <4>2, <4>3
      <3> QED BY <1>0, <2>1, <3>1 DEF IdsByStorage
    <2>9. NotifiedUpTo'
      <3>1. ASSUME NEW i \in 1 .. Len(notified) PROVE notified'[i] < nextID
        BY <1>0, <2>1, <2>5 DEF NotifiedUpTo
      <3>2. \A i \in 1 .. Len(notified') : i = Len(notified) + 1 \/ i \in 1 .. Len(notified)
        BY <1>1, <2>5
      <3>3. ASSUME NEW i \in 1 .. Len(notified') PROVE notified'[i] <= nextID'
        <4>1. notified'[i] \in IDs
          BY <2>5
        <4> QED BY <1>1, <2>1, <2>5, <3>1, <3>2, <4>1 DEF IDs
      <3>4. ASSUME NEW i \in 1 .. Len(notified'), NEW j \in 1 .. Len(notified'), i < j
            PROVE  notified'[i] < notified'[j]
        <4>1. i \in 1 .. Len(notified)
          BY <1>1, <2>5, <3>4
        <4>2. CASE j = Len(notified) + 1
          BY <2>5, <3>1, <4>1, <4>2
        <4>3. CASE j \in 1 .. Len(notified)
          BY <1>0, <2>5, <3>4, <4>1, <4>3 DEF NotifiedUpTo, Increasing
        <4> QED BY <3>2, <4>2, <4>3
      <3> QED BY <2>4, <3>3, <3>4 DEF NotifiedUpTo, Increasing, InGate
    <2>10. WindowInOrder'
      BY <1>0, <2>1 DEF WindowInOrder
    <2>11. ASSUME storage # "custom" PROVE ReplyFollows'
      <3>1. ReplyFollows
        BY <1>0, <2>11
      <3>2. \A i : /\ Seen(i)' = Seen(i) /\ Promised(i)' = Promised(i)
                  /\ StillKnown(i)' = StillKnown(i)
        BY <2>1 DEF Seen, Promised, StillKnown, Forgotten, Retained
      <3>3. e \in Own => /\ Promised(emit[e].id) /\ StillKnown(emit[e].id)
                        /\ sse.pc # "none" /\ ~sse.final
        BY <2>1, <3>1 DEF ReplyFollows, Underway
      <3>4. ASSUME NEW k \in kept' PROVE Promised(k)' /\ StillKnown(k)'
        <4>1. k \in kept \/ (e \in Own /\ k = emit[e].id)
          BY <2>1, <2>11, <3>4
        <4> QED BY <3>1, <3>2, <3>3, <4>1 DEF ReplyFollows
      <3>5. \A f \in Own : ~Underway(f)' /\ emit'[f].pc # "notifying"
        BY <1>0, <2>4 DEF Underway, InGate
      <3>6. ASSUME sse.pc = "none" \/ sse.final PROVE \A f \in Own : emit'[f].pc = "idle"
        BY <1>0, <2>3, <3>1, <3>3, <3>6 DEF ReplyFollows
      <3>7. sse.pc = "none" => kept' = {}
        BY <2>1, <2>11, <3>1, <3>3 DEF ReplyFollows
      <3>8. sse.pc = "done" => sse.final /\ \A k \in kept' : Seen(k)
        BY <2>1, <2>11, <3>1, <3>3 DEF ReplyFollows
      <3> QED BY <2>1, <3>1, <3>2, <3>4, <3>5, <3>6, <3>7, <3>8 DEF ReplyFollows
    <2> QED BY <1>0, <2>1, <2>6, <2>7, <2>8, <2>9, <2>10, <2>11 DEF EventInv
  <1>11. CASE Save(e)
    <2>1. /\ emit[e].pc = "saving" /\ Moves(e, "idle", 0)
          /\ UNCHANGED <<storage, sse, received, nextID, window, gate, notified>>
          /\ \/ /\ stored' = stored \cup {Event(emit[e].id, e \in Own)}
                /\ lastID' = Larger(lastID, emit[e].id)
                /\ kept' = IF e \in Own THEN kept \cup {emit[e].id} ELSE kept
             \/ UNCHANGED <<stored, lastID, kept>>
      BY <1>11 DEF Save, ReaderUnchanged, Keeps
    <2>2. storage = "custom" /\ emit[e].id \in IDs /\ gate # e
      BY <1>0, <1>1, <2>1 DEF IdsByStorage, GateHeld, InGate, IDs
    <2>3. /\ emit' \in [Emitters -> [pc : EmitPCs, id : 0 .. MaxEvents]]
          /\ emit'[e].pc = "idle" /\ emit'[e].id = 0
          /\ \A f \in Emitters : f # e => emit'[f] = emit[f]
      BY <1>0, <1>1, <1>2, <2>1, EmitMoves
    <2>4. /\ stored' \subseteq LogEvent /\ lastID' \in 0 .. MaxEvents /\ kept' \subseteq IDs
          /\ \A event \in stored' : event.id <= lastID'
      <3>1. CASE UNCHANGED <<stored, lastID, kept>>
        BY <1>0, <1>1, <3>1 DEF IdsByStorage
      <3>2. CASE /\ stored' = stored \cup {Event(emit[e].id, e \in Own)}
                 /\ lastID' = Larger(lastID, emit[e].id)
                 /\ kept' = IF e \in Own THEN kept \cup {emit[e].id} ELSE kept
        <4> DEFINE id == emit[e].id
                   event == Event(id, e \in Own)
        <4>1. /\ event \in LogEvent /\ event.id = id /\ id \in IDs
              /\ lastID <= lastID' /\ id <= lastID' /\ lastID' \in 0 .. MaxEvents
          BY <1>1, <1>3, <2>2, <3>2 DEF Larger, IDs
        <4>2. stored' = stored \cup {event} /\ kept' \subseteq IDs
          BY <1>1, <2>2, <3>2
        <4> HIDE DEF event
        <4>3. \A v \in stored : v.id <= lastID /\ v.id \in Int
          BY <1>0, <1>1 DEF IdsByStorage, LogEvent, IDs
        <4>4. \A v \in stored : v.id <= lastID'
          BY <1>1, <4>1, <4>3
        <4> QED BY <1>1, <4>1, <4>2, <4>4
      <3> QED BY <2>1, <3>1, <3>2
    <2>5. EventTypeOK'
      BY <1>0, <2>1, <2>3, <2>4 DEF EventTypeOK, LogEvent
    <2>6. GateHeld'
      BY <1>0, <2>1, <2>2, <2>3 DEF GateHeld, InGate
    <2>7. IdsByStorage'
      BY <1>0, <2>1, <2>2, <2>3, <2>4 DEF IdsByStorage
    <2>8. NotifiedUpTo' /\ WindowInOrder'
      BY <1>0, <2>1, <2>3 DEF NotifiedUpTo, WindowInOrder
    <2> QED BY <1>0, <2>1, <2>2, <2>5, <2>6, <2>7, <2>8 DEF EventInv
  <1> QED BY <1>4, <1>5, <1>7, <1>8, <1>9, <1>10, <1>11 DEF EmitStep

\* The steps of other replicas and of a resume.
LEMMA StoreKeeps == ASSUME EventInv, ForeignEvent \/ EnsureNextIDAtLeast PROVE EventInv'
  <1>0. /\ EventConstants /\ EventTypeOK /\ GateHeld /\ IdsByStorage /\ NotifiedUpTo
        /\ WindowInOrder /\ (storage # "custom" => ReplyFollows) /\ MaxEvents \in Nat
        /\ Own \subseteq Emitters
    BY DEF EventInv, EventConstants
  <1>1. /\ nextID \in 0 .. MaxEvents /\ lastID \in 0 .. MaxEvents /\ stored \subseteq LogEvent
        /\ sse.cursor \in 0 .. MaxEvents /\ kept \subseteq IDs /\ notified \in Seq(IDs)
        /\ emit \in [Emitters -> [pc : EmitPCs, id : 0 .. MaxEvents]]
        /\ window \in Seq(LogEvent)
    BY <1>0 DEF EventTypeOK, LogEvent
  <1>2. CASE ForeignEvent
    <2> DEFINE id == lastID + 1
               event == Event(id, FALSE)
    <2>1. /\ storage = "global" /\ lastID < MaxEvents /\ lastID' = id
          /\ stored' = stored \cup {event}
          /\ UNCHANGED <<storage, sse, received, nextID, window, gate, emit, notified, kept>>
      BY <1>2 DEF ForeignEvent, ReaderUnchanged
    <2>2. /\ id \in IDs /\ id \in 0 .. MaxEvents /\ lastID <= id /\ lastID < id
          /\ event \in LogEvent /\ event.id = id
      BY <1>0, <1>1, <2>1 DEF IDs, Event, LogEvent
    <2> HIDE DEF id, event
    <2>3. EventTypeOK'
      BY <1>0, <2>1, <2>2 DEF EventTypeOK, LogEvent
    <2>4. IdsByStorage'
      <3>1. \A v \in stored : v.id \in Int /\ v.id <= lastID
        BY <1>0, <1>1 DEF IdsByStorage, LogEvent, IDs
      <3>2. \A v \in stored' : v.id <= lastID'
        BY <1>1, <2>1, <2>2, <3>1
      <3>3. \A f \in Emitters : emit[f].pc = "inserting" => emit[f].id <= lastID'
        BY <1>0, <1>1, <2>1, <2>2 DEF IdsByStorage
      <3>4. nextID <= lastID'
        BY <1>0, <1>1, <2>1, <2>2 DEF IdsByStorage
      <3> QED BY <1>0, <2>1, <3>2, <3>3, <3>4 DEF IdsByStorage
    <2>5. GateHeld' /\ NotifiedUpTo' /\ WindowInOrder'
      BY <1>0, <2>1 DEF GateHeld, NotifiedUpTo, WindowInOrder
    <2>6. ReplyFollows'
      <3>1. stored \subseteq stored' /\ lastID' \in Nat /\ lastID <= lastID'
            /\ lastID \in Nat /\ sse.cursor \in Nat
        BY <1>1, <2>1, <2>2
      <3>2. \A f \in Own : emit'[f] = emit[f]
        BY <2>1
      <3> QED BY <1>0, <2>1, <3>1, <3>2, ReplyUndisturbed
    <2> QED BY <1>0, <2>1, <2>3, <2>4, <2>5, <2>6 DEF EventInv
  <1>3. CASE EnsureNextIDAtLeast
    <2>1. PICK event \in stored : nextID' = Larger(nextID, event.id)
      BY <1>3 DEF EnsureNextIDAtLeast
    <2>2. /\ gate = "nobody"
          /\ UNCHANGED <<storage, sse, received, window, gate, emit, stored, lastID, notified,
                         kept>>
      BY <1>3 DEF EnsureNextIDAtLeast, ReaderUnchanged
    <2>3. /\ event.id \in IDs /\ event.id <= lastID
          /\ nextID' \in 0 .. MaxEvents /\ nextID <= nextID'
          /\ nextID' = nextID \/ nextID' <= lastID
      BY <1>0, <1>1, <2>1 DEF IdsByStorage, Larger, LogEvent, IDs
    <2>4. \A f \in Emitters : emit[f].pc \notin InGate
      BY <1>0, <2>2 DEF GateHeld, EventConstants
    <2>5. EventTypeOK'
      BY <1>0, <2>2, <2>3 DEF EventTypeOK
    <2>6. IdsByStorage'
      BY <1>0, <1>1, <2>2, <2>3, <2>4 DEF IdsByStorage, InGate
    <2>7. NotifiedUpTo'
      <3>1. \A i \in 1 .. Len(notified) : notified[i] \in IDs /\ notified[i] <= nextID
        BY <1>0, <1>1 DEF NotifiedUpTo
      <3>2. \A i \in 1 .. Len(notified) : notified[i] <= nextID'
        BY <1>1, <2>3, <3>1 DEF IDs
      <3> QED BY <1>0, <2>2, <2>4, <3>2 DEF NotifiedUpTo, InGate
    <2>8. GateHeld'
      BY <1>0, <2>2 DEF GateHeld
    <2>9. WindowInOrder'
      <3>1. \A i \in 1 .. Len(window) : window[i].id \in Nat /\ window[i].id <= nextID
        <4>1. \A i \in 1 .. Len(window) : window[i] \in LogEvent
          BY <1>1
        <4>2. \A v \in LogEvent : v.id \in Nat
          BY DEF LogEvent, IDs
        <4> QED BY <1>0, <4>1, <4>2 DEF WindowInOrder
      <3>2. \A i \in 1 .. Len(window) : window[i].id <= nextID'
        BY <1>1, <2>3, <3>1
      <3> QED BY <1>0, <2>2, <3>2 DEF WindowInOrder
    <2>10. ASSUME storage # "custom" PROVE ReplyFollows'
      <3>1. ReplyFollows
        BY <1>0, <2>10
      <3>2. \A i : /\ Seen(i)' = Seen(i) /\ Promised(i)' = Promised(i)
                  /\ Forgotten(i)' = Forgotten(i) /\ Retained' = Retained
        BY <2>2 DEF Seen, Promised, Forgotten, Retained
      <3>3. ASSUME NEW i \in IDs, StillKnown(i) PROVE StillKnown(i)'
        <4>1. i <= nextID'
          BY <1>1, <2>3, <3>3 DEF StillKnown, IDs
        <4> QED BY <3>2, <3>3, <4>1 DEF StillKnown
      <3>4. \A f \in Own : emit'[f] = emit[f] /\ emit[f].pc # "notifying"
        BY <1>0, <2>2, <2>4 DEF InGate
      <3>5. sse.cursor <= IF storage = "global" THEN lastID ELSE nextID'
        BY <1>1, <2>3, <3>1 DEF ReplyFollows
      <3>6. \A f \in Own : Underway(f)' <=> Underway(f)
        BY <2>2 DEF Underway
      <3>7. \A k \in kept : Promised(k)' /\ StillKnown(k)'
        BY <1>1, <3>1, <3>2, <3>3 DEF ReplyFollows
      <3>8. \A f \in Own : Underway(f)' => Promised(emit[f].id)'
        BY <2>2, <3>1, <3>2, <3>6 DEF ReplyFollows
      <3> QED BY <2>2, <3>1, <3>2, <3>4, <3>5, <3>7, <3>8 DEF ReplyFollows
    <2> QED BY <1>0, <2>2, <2>5, <2>6, <2>7, <2>8, <2>9, <2>10 DEF EventInv
  <1> QED BY <1>2, <1>3

\* The steps of the reply leave the log alone.
LEMMA LogStays ==
    ASSUME EventInv, LogUnchanged, received' \in Seq(IDs),
           sse'.pc \in {"none", "polling", "fallback", "done", "failed", "left"},
           sse'.cursor \in 0 .. MaxEvents, sse'.final \in BOOLEAN,
           sse' = [pc |-> sse'.pc, cursor |-> sse'.cursor, final |-> sse'.final],
           storage # "custom" => ReplyFollows'
    PROVE  EventInv'
  <1>1. EventTypeOK'
    BY DEF EventInv, EventTypeOK, LogUnchanged
  <1>2. GateHeld' /\ IdsByStorage' /\ NotifiedUpTo' /\ WindowInOrder'
    BY DEF EventInv, LogUnchanged, GateHeld, IdsByStorage, NotifiedUpTo, WindowInOrder
  <1> QED BY <1>1, <1>2 DEF EventInv, LogUnchanged

\* The reader writes what it read: every own event after its cursor that is still to be
\* promised, unless the event comes after all of these.
LEMMA WritesKeep ==
    ASSUME EventInv, LogUnchanged, sse.pc \in {"polling", "fallback"},
           NEW events \in SUBSET LogEvent, NEW ids \in InOrder(events), WritesSSE(ids),
           \A v \in events : v.id > sse.cursor,
           storage # "custom" =>
             /\ \A v \in events : v.id <= IF storage = "global" THEN lastID ELSE nextID
             /\ \A k \in kept : k <= sse.cursor \/ Event(k, TRUE) \in events
             /\ \A f \in Own : Underway(f) =>
                  LET k == emit[f].id
                  IN  \/ k <= sse.cursor \/ Event(k, TRUE) \in events
                      \/ \A v \in events : v.id < k
    PROVE  EventInv'
  <1> DEFINE old == sse.cursor
             new == sse'.cursor
  <1>0. /\ EventConstants /\ EventTypeOK /\ (storage # "custom" => ReplyFollows)
        /\ MaxEvents \in Nat /\ Own \subseteq Emitters
    BY DEF EventInv, EventConstants
  <1>1. /\ nextID \in 0 .. MaxEvents /\ lastID \in 0 .. MaxEvents /\ kept \subseteq IDs
        /\ old \in 0 .. MaxEvents /\ sse.final \in BOOLEAN /\ received \in Seq(IDs)
        /\ emit \in [Emitters -> [pc : EmitPCs, id : 0 .. MaxEvents]]
        /\ sse = [pc |-> sse.pc, cursor |-> old, final |-> sse.final]
    BY <1>0 DEF EventTypeOK
  <1>2. /\ ids \in Seq(IDs) /\ Increasing(ids)
        /\ \A i \in 1 .. Len(ids) : Event(ids[i], TRUE) \in events
        /\ \A v \in events : v.own => \E i \in 1 .. Len(ids) : ids[i] = v.id
    BY <1>0, WrittenInOrder
  <1>3. /\ received' = received \o ids
        /\ sse'.pc = IF sse.final THEN "done" ELSE "polling"
        /\ new = IF ids = <<>> THEN old ELSE ids[Len(ids)]
        /\ sse'.final = sse.final
        /\ sse' = [pc |-> sse'.pc, cursor |-> new, final |-> sse'.final]
    BY <1>1 DEF WritesSSE
  <1>4. \A i \in 1 .. Len(ids) : ids[i] \in IDs /\ ids[i] > old
    <2>1. ASSUME NEW i \in 1 .. Len(ids) PROVE ids[i] > old
      <3>1. Event(ids[i], TRUE) \in events /\ Event(ids[i], TRUE).id = ids[i]
        BY <1>2 DEF Event
      <3> QED BY <3>1
    <2> QED BY <1>2, <2>1
  <1>5. /\ new \in 0 .. MaxEvents /\ old <= new
        /\ \A i \in 1 .. Len(ids) : ids[i] <= new
        /\ new = old \/ \E i \in 1 .. Len(ids) : ids[i] = new
    <2>1. CASE ids = <<>>
      BY <1>1, <1>3, <2>1
    <2>2. CASE ids # <<>>
      <3>1. Len(ids) \in 1 .. Len(ids) /\ Len(ids) \in Nat
        BY <1>2, <2>2
      <3>2. ids[Len(ids)] \in IDs /\ ids[Len(ids)] > old
        BY <1>4, <3>1
      <3>3. ASSUME NEW i \in 1 .. Len(ids) PROVE ids[i] <= ids[Len(ids)]
        <4>1. CASE i = Len(ids)
          BY <3>2, <4>1 DEF IDs
        <4>2. CASE i # Len(ids)
          <5>1. i < Len(ids)
            BY <3>1, <4>2
          <5>2. ids[i] < ids[Len(ids)] /\ ids[i] \in IDs
            BY <1>2, <1>4, <3>1, <5>1 DEF Increasing
          <5> QED BY <3>2, <5>2 DEF IDs
        <4> QED BY <4>1, <4>2
      <3> QED BY <1>1, <1>3, <2>2, <3>1, <3>2, <3>3 DEF IDs
    <2> QED BY <2>1, <2>2
  <1>6. /\ received' \in Seq(IDs) /\ Len(received') = Len(received) + Len(ids)
        /\ \A i \in 1 .. Len(received) : received'[i] = received[i]
        /\ \A i \in 1 .. Len(ids) : received'[Len(received) + i] = ids[i]
        /\ \A i \in 1 .. Len(received') :
             i \in 1 .. Len(received) \/ i - Len(received) \in 1 .. Len(ids)
    <2>1. Len(received) \in Nat /\ Len(ids) \in Nat
      BY <1>1, <1>2
    <2>2. /\ received' \in Seq(IDs) /\ Len(received') = Len(received) + Len(ids)
          /\ \A i \in 1 .. Len(received) + Len(ids) :
               received'[i] = IF i <= Len(received) THEN received[i] ELSE ids[i - Len(received)]
      BY <1>1, <1>2, <1>3, ConcatProperties
    <2>3. ASSUME NEW i \in 1 .. Len(ids) PROVE received'[Len(received) + i] = ids[i]
      <3>1. /\ Len(received) + i \in 1 .. Len(received) + Len(ids)
            /\ ~(Len(received) + i <= Len(received)) /\ Len(received) + i - Len(received) = i
        BY <2>1
      <3> QED BY <2>2, <3>1
    <2> QED BY <2>1, <2>2, <2>3
  <1>7. ASSUME storage # "custom" PROVE ReplyFollows'
    <2>1. ReplyFollows
      BY <1>0, <1>7
    <2>2. ASSUME NEW k PROVE Seen(k)' <=> Seen(k) \/ \E i \in 1 .. Len(ids) : ids[i] = k
      <3>1. ASSUME NEW i \in 1 .. Len(ids) PROVE Len(received) + i \in 1 .. Len(received')
        BY <1>1, <1>2, <1>6
      <3>2. \A i \in 1 .. Len(received) : i \in 1 .. Len(received')
        BY <1>1, <1>2, <1>6
      <3>3. ASSUME NEW i \in 1 .. Len(received'), i - Len(received) \in 1 .. Len(ids)
            PROVE  received'[i] = ids[i - Len(received)]
        <4>1. Len(received) + (i - Len(received)) = i
          BY <1>1
        <4> QED BY <1>6, <3>3, <4>1
      <3> QED BY <1>6, <3>1, <3>2, <3>3 DEF Seen
    <2>3. \A k : StillKnown(k)' = StillKnown(k)
      BY DEF LogUnchanged, StillKnown, Forgotten, Retained
    <2>4. \A i \in 1 .. Len(received) : received[i] \in IDs /\ received[i] <= old
      BY <1>1, <2>1 DEF ReplyFollows
    <2>5. ASSUME NEW i \in 1 .. Len(received'), NEW j \in 1 .. Len(received'), i < j
          PROVE  received'[i] < received'[j]
      <3> DEFINE n == Len(received)
      <3>0. n \in Nat /\ Len(ids) \in Nat
        BY <1>1, <1>2
      <3>1. CASE j \in 1 .. n
        <4>1. i \in 1 .. n
          BY <2>5, <3>0, <3>1
        <4> QED BY <1>6, <2>1, <2>5, <3>1, <4>1 DEF ReplyFollows, Increasing
      <3>2. CASE i \in 1 .. n /\ j - n \in 1 .. Len(ids)
        <4>1. received'[i] = received[i] /\ received'[j] = ids[j - n]
          <5>1. n + (j - n) = j
            BY <3>0
          <5> QED BY <1>6, <3>2, <5>1
        <4> QED BY <1>1, <1>4, <2>4, <3>2, <4>1 DEF IDs
      <3>3. CASE i - n \in 1 .. Len(ids) /\ j - n \in 1 .. Len(ids)
        <4>1. n + (i - n) = i /\ n + (j - n) = j /\ i - n < j - n
          BY <2>5, <3>0
        <4>2. received'[i] = ids[i - n] /\ received'[j] = ids[j - n]
          BY <1>6, <3>3, <4>1
        <4> QED BY <1>2, <3>3, <4>1, <4>2 DEF Increasing
      <3> QED BY <1>6, <3>1, <3>2, <3>3
    <2>6. ASSUME NEW i \in 1 .. Len(received') PROVE received'[i] <= new
      <3>1. CASE i \in 1 .. Len(received)
        BY <1>1, <1>5, <1>6, <2>4, <3>1 DEF IDs
      <3>2. CASE i - Len(received) \in 1 .. Len(ids)
        <4>1. Len(received) + (i - Len(received)) = i
          BY <1>1
        <4>2. received'[i] = ids[i - Len(received)]
          BY <1>6, <3>2, <4>1
        <4> QED BY <1>5, <3>2, <4>2
      <3> QED BY <1>6, <3>1, <3>2
    <2>7. new <= IF storage = "global" THEN lastID ELSE nextID
      <3>1. CASE new = old
        BY <2>1, <3>1 DEF ReplyFollows
      <3>2. CASE new # old
        <4>1. Event(new, TRUE) \in events
          BY <1>2, <1>5, <3>2
        <4> QED BY <1>7, <4>1 DEF Event
      <3> QED BY <3>1, <3>2
    <2>8. ASSUME NEW k \in Int,
                 k <= old \/ Event(k, TRUE) \in events \/ \A v \in events : v.id < k,
                 k <= new, Promised(k)
          PROVE  Seen(k)'
      <3>1. CASE k <= old
        BY <2>2, <2>8, <3>1 DEF Promised
      <3>2. CASE Event(k, TRUE) \in events
        BY <1>2, <2>2, <3>2 DEF Event
      <3>3. CASE ~(k <= old) /\ \A v \in events : v.id < k
        <4>1. new # old
          BY <1>1, <2>8, <3>3
        <4>2. Event(new, TRUE) \in events
          BY <1>2, <1>5, <4>1
        <4>3. new < k
          BY <3>3, <4>2 DEF Event
        <4> QED BY <1>5, <2>8, <4>3
      <3> QED BY <2>8, <3>1, <3>2, <3>3
    <2>9. ASSUME NEW k \in kept PROVE Promised(k)' /\ StillKnown(k)'
      <3>1. Promised(k) /\ StillKnown(k) /\ k \in Int
        BY <1>1, <2>1 DEF ReplyFollows, IDs
      <3>2. k <= sse'.cursor => Seen(k)'
        BY <1>7, <2>8, <2>9, <3>1
      <3>3. storage' = "global" => Event(k, TRUE) \in stored'
        BY <3>1 DEF Promised, LogUnchanged
      <3> QED BY <2>3, <3>1, <3>2, <3>3 DEF Promised
    <2>10. ASSUME NEW f \in Own, Underway(f)' PROVE Promised(emit[f].id)'
      <3> DEFINE k == emit[f].id
      <3>1. /\ Underway(f) /\ Promised(k) /\ k \in Int /\ emit'[f].id = k
        <4>1. Underway(f) /\ emit'[f] = emit[f]
          BY <2>10 DEF Underway, LogUnchanged
        <4>2. Promised(k)
          BY <2>1, <4>1 DEF ReplyFollows
        <4>3. k \in Int
          BY <1>0, <1>1
        <4> QED BY <4>1, <4>2, <4>3
      <3>2. k <= old \/ Event(k, TRUE) \in events \/ \A v \in events : v.id < k
        BY <1>7, <3>1
      <3> HIDE DEF k
      <3>3. k <= sse'.cursor => Seen(emit[f].id)'
        BY <2>8, <3>1, <3>2 DEF Seen
      <3>4. storage' = "global" => Event(k, TRUE) \in stored'
        BY <3>1 DEF Promised, LogUnchanged
      <3> QED BY <3>1, <3>3, <3>4 DEF Promised
    <2>11. \A f \in Own : emit'[f].pc = "notifying" => StillKnown(emit[f].id)'
      BY <2>1, <2>3 DEF LogUnchanged, ReplyFollows
    <2>12. sse'.pc = "done" => \A k \in kept : Seen(k)'
      <3>1. ASSUME NEW k \in kept PROVE Seen(k)'
        <4>1. Promised(k) /\ (k <= old \/ Event(k, TRUE) \in events)
          BY <1>7, <2>1 DEF ReplyFollows
        <4>2. CASE k <= old
          BY <2>2, <4>1, <4>2 DEF Promised
        <4>3. CASE Event(k, TRUE) \in events
          BY <1>2, <2>2, <4>3 DEF Event
        <4> QED BY <4>1, <4>2, <4>3
      <3> QED BY <3>1
    <2>13. sse.pc # "none" /\ sse'.pc \notin {"none", "fallback"}
      BY <1>3
    <2>14. sse'.final => \A f \in Own : emit'[f].pc = "idle"
      BY <1>3, <2>1 DEF ReplyFollows, LogUnchanged
    <2> QED BY <1>3, <2>5, <2>6, <2>7, <2>9, <2>10, <2>11, <2>12, <2>13, <2>14
            DEF ReplyFollows, LogUnchanged, Increasing
  <1>8. sse'.pc \in {"polling", "done"}
    BY <1>3
  <1> QED BY <1>1, <1>3, <1>5, <1>6, <1>7, <1>8, LogStays

\* The steps of the reply.
LEMMA RepliesKeep ==
    ASSUME EventInv, StartSSE \/ RunEnds \/ Poll \/ ReadStore \/ ReplyBreaks PROVE EventInv'
  <1>0. /\ EventConstants /\ EventTypeOK /\ WindowInOrder /\ IdsByStorage /\ MaxEvents \in Nat
        /\ (storage # "custom" => ReplyFollows) /\ Own \subseteq Emitters
    BY DEF EventInv, EventConstants
  <1>1. /\ nextID \in 0 .. MaxEvents /\ lastID \in 0 .. MaxEvents /\ stored \subseteq LogEvent
        /\ sse.cursor \in 0 .. MaxEvents /\ sse.final \in BOOLEAN /\ received \in Seq(IDs)
        /\ sse.pc \in {"none", "polling", "fallback", "done", "failed", "left"}
        /\ sse = [pc |-> sse.pc, cursor |-> sse.cursor, final |-> sse.final]
        /\ window \in Seq(LogEvent) /\ kept \subseteq IDs /\ Len(window) \in Nat
        /\ emit \in [Emitters -> [pc : EmitPCs, id : 0 .. MaxEvents]]
        /\ storage \in {"memory", "global", "custom"}
    BY <1>0 DEF EventTypeOK, LogEvent
  <1>2. /\ \A i \in 1 .. Len(window) : window[i] \in LogEvent /\ window[i].id <= nextID
        /\ Retained \subseteq LogEvent /\ \A v \in Retained : v.id <= nextID
    BY <1>0, <1>1 DEF WindowInOrder, Retained
  <1>3. storage = "global" => nextID <= lastID
    BY <1>0 DEF IdsByStorage
  <1>4. \* Where the reader goes leaves what is promised as it was.
        ASSUME LogUnchanged, received' = received, NEW pc, NEW final \in BOOLEAN,
               pc \in {"fallback", "failed", "left", sse.pc}, sse.pc # "none",
               sse' = [pc |-> pc, cursor |-> sse.cursor, final |-> final],
               final => sse.final \/ \A f \in Own : emit[f].pc = "idle",
               sse.final => final,
               pc = "fallback" => storage # "memory"
        PROVE  EventInv'
    <2>1. /\ sse'.pc = pc /\ sse'.cursor = sse.cursor /\ sse'.final = final
      BY <1>4
    <2>2. ASSUME storage # "custom" PROVE ReplyFollows'
      <3>1. ReplyFollows
        BY <1>0, <2>2
      <3>2. \A i : /\ Seen(i)' = Seen(i) /\ Promised(i)' = Promised(i)
                  /\ StillKnown(i)' = StillKnown(i)
        BY <1>4, <2>1 DEF LogUnchanged, Seen, Promised, StillKnown, Forgotten, Retained
      <3>3. \A f \in Own : emit'[f] = emit[f] /\ (Underway(f)' <=> Underway(f))
        BY <1>4 DEF LogUnchanged, Underway
      <3>4. \A k \in kept : Promised(k)' /\ StillKnown(k)'
        BY <3>1, <3>2 DEF ReplyFollows
      <3>5. \A f \in Own : /\ Underway(f)' => Promised(emit[f].id)'
                           /\ emit'[f].pc = "notifying" => StillKnown(emit[f].id)'
        BY <1>4, <3>1, <3>2, <3>3 DEF ReplyFollows, LogUnchanged
      <3>6. sse'.final => \A f \in Own : emit'[f].pc = "idle"
        BY <1>4, <2>1, <3>1, <3>3 DEF ReplyFollows
      <3>7. sse'.pc = "done" => sse'.final /\ \A k \in kept : Seen(k)
        BY <1>4, <2>1, <3>1 DEF ReplyFollows
      <3> QED BY <1>4, <2>1, <3>1, <3>2, <3>4, <3>5, <3>6, <3>7 DEF ReplyFollows, LogUnchanged
    <2> QED BY <1>1, <1>4, <2>1, <2>2, LogStays
  <1>5. CASE StartSSE
    <2> DEFINE last == IF window = <<>> THEN 0 ELSE window[Len(window)].id
    <2>1. /\ LogUnchanged /\ received' = received /\ sse.pc = "none"
          /\ sse' = [pc |-> "polling", cursor |-> last, final |-> sse.final]
      BY <1>1, <1>5 DEF StartSSE
    <2>2. last \in 0 .. MaxEvents /\ last <= nextID
      <3>1. CASE window = <<>>
        <4>1. last = 0 /\ 0 \in 0 .. MaxEvents /\ 0 <= nextID
          BY <1>0, <1>1, <3>1
        <4> QED BY <4>1
      <3>2. CASE window # <<>>
        <4>1. Len(window) \in 1 .. Len(window)
          BY <1>1, <3>2
        <4>2. window[Len(window)] \in LogEvent /\ window[Len(window)].id <= nextID
          BY <1>2, <4>1
        <4> QED BY <1>1, <3>2, <4>2 DEF LogEvent, IDs
      <3> QED BY <3>1, <3>2
    <2> HIDE DEF last
    <2>3. ASSUME storage # "custom" PROVE ReplyFollows'
      <3>1. /\ ReplyFollows /\ kept = {} /\ received = <<>> /\ sse.final = FALSE
            /\ \A f \in Own : emit[f].pc = "idle"
        BY <1>0, <1>1, <2>1, <2>3 DEF ReplyFollows
      <3>2. Len(received') = 0 /\ kept' = {} /\ sse'.final = FALSE /\ sse'.pc = "polling"
            /\ sse'.cursor = last
        BY <2>1, <3>1 DEF LogUnchanged
      <3>3. \A f \in Own : emit'[f].pc = "idle" /\ ~Underway(f)'
        BY <2>1, <3>1 DEF LogUnchanged, Underway
      <3>4. last <= IF storage = "global" THEN lastID ELSE nextID
        BY <1>1, <1>3, <2>2
      <3> QED BY <2>1, <3>2, <3>3, <3>4 DEF ReplyFollows, LogUnchanged, Increasing
    <2> QED BY <1>1, <2>1, <2>2, <2>3, LogStays
  <1>6. CASE RunEnds
    <2>1. /\ LogUnchanged /\ received' = received /\ sse.pc \in {"polling", "fallback"}
          /\ sse' = [pc |-> sse.pc, cursor |-> sse.cursor, final |-> TRUE]
          /\ \A f \in Own : emit[f].pc = "idle"
      BY <1>1, <1>6 DEF RunEnds
    <2>2. sse.pc = "fallback" => storage # "memory"
      BY <1>0 DEF ReplyFollows
    <2> QED BY <1>1, <1>4, <2>1, <2>2
  <1>7. CASE ReplyBreaks
    <2>1. /\ LogUnchanged /\ received' = received /\ sse.pc \in {"polling", "fallback"}
      BY <1>7 DEF ReplyBreaks
    <2>2. PICK pc \in {"failed", "left"} :
            sse' = [pc |-> pc, cursor |-> sse.cursor, final |-> sse.final]
      BY <1>1, <1>7 DEF ReplyBreaks
    <2> QED BY <1>1, <1>4, <2>1, <2>2
  <1>8. CASE Poll
    <2> DEFINE events == After(Retained)
    <2>1. LogUnchanged /\ sse.pc = "polling"
      BY <1>8 DEF Poll
    <2>2. CASE HasGap(events)
      <3>1. /\ received' = received
            /\ sse' = [pc |-> IF storage = "memory" THEN "failed" ELSE "fallback",
                       cursor |-> sse.cursor, final |-> sse.final]
        BY <1>1, <1>8, <2>2 DEF Poll
      <3> QED BY <1>1, <1>4, <2>1, <3>1
    <2>3. CASE ~HasGap(events)
      <3>1. PICK ids \in InOrder(events) : WritesSSE(ids)
        BY <1>8, <2>3 DEF Poll
      <3>2. /\ events \subseteq LogEvent
            /\ \A v \in events : v.id > sse.cursor /\ v.id <= nextID /\ v.id \in Int
            /\ \A v \in Retained : v.id > sse.cursor => v \in events
        BY <1>2 DEF After, LogEvent, IDs
      <3>3. \A v \in events : v.id <= IF storage = "global" THEN lastID ELSE nextID
        BY <1>1, <1>3, <3>2
      <3>4. ASSUME NEW k \in IDs, StillKnown(k) PROVE k <= sse.cursor \/ Event(k, TRUE) \in events
        <4>1. CASE Event(k, TRUE) \in Retained
          <5>1. Event(k, TRUE).id = k /\ k \in Int /\ sse.cursor \in Int
            BY <1>1 DEF Event, IDs
          <5>2. k > sse.cursor => Event(k, TRUE) \in events
            BY <3>2, <4>1, <5>1
          <5> HIDE DEF events
          <5> QED BY <5>1, <5>2 DEF Event
        <4>2. CASE Forgotten(k) /\ k > sse.cursor
          <5>1. 1 \in 1 .. Len(window) /\ window[1].id > k
            BY <1>1, <4>2 DEF Forgotten
          <5>2. window[1] \in Retained /\ window[1].id \in Int
            BY <1>2, <5>1 DEF Retained, LogEvent, IDs
          <5>3. window[1] \in events
            BY <1>1, <3>2, <3>4, <4>2, <5>1, <5>2 DEF IDs
          <5>4. \A v \in events : v.id >= window[1].id
            <6>1. ASSUME NEW i \in 1 .. Len(window) PROVE window[i].id >= window[1].id
              <7>1. window[i].id \in Int
                BY <1>2 DEF LogEvent, IDs
              <7> QED BY <1>0, <5>1, <5>2, <7>1 DEF WindowInOrder
            <6>2. events \subseteq Retained
              BY DEF After
            <6> QED BY <6>1, <6>2 DEF Retained
          <5>5. sse.cursor + 1 \notin {v.id : v \in events}
            BY <1>1, <3>4, <4>2, <5>1, <5>2, <5>4 DEF IDs
          <5>6. Cardinality(events) \in Nat /\ Cardinality(events) # 0
            <6>1. IsFiniteSet(events)
              <7>1. 1 \in Int /\ Len(window) \in Int
                BY <1>1
              <7>2. IsFiniteSet(1 .. Len(window))
                BY <7>1, FS_Interval
              <7>3. IsFiniteSet(Retained)
                <8> DEFINE f == [i \in 1 .. Len(window) |-> window[i]]
                <8>1. f \in Surjection(1 .. Len(window), Retained)
                  BY DEF Surjection, Retained
                <8> HIDE DEF f
                <8> QED BY <7>2, <8>1, FS_Surjection
              <7> QED BY <7>3, FS_Subset DEF After
            <6> QED BY <5>3, <6>1, FS_CardinalityType, FS_EmptySet
          <5>7. sse.cursor + 1 \in sse.cursor + 1 .. sse.cursor + Cardinality(events)
            BY <1>1, <5>6
          <5> QED BY <2>3, <5>5, <5>7 DEF HasGap
        <4>3. CASE Forgotten(k) /\ ~(k > sse.cursor)
          <5>1. k \in Int /\ sse.cursor \in Int
            BY <1>1 DEF IDs
          <5> QED BY <4>3, <5>1 DEF Event
        <4> QED BY <3>4, <4>1, <4>2, <4>3 DEF StillKnown
      <3>5. ASSUME storage # "custom"
            PROVE  /\ \A k \in kept : k <= sse.cursor \/ Event(k, TRUE) \in events
                   /\ \A f \in Own : Underway(f) =>
                        LET k == emit[f].id
                        IN  \/ k <= sse.cursor \/ Event(k, TRUE) \in events
                            \/ \A v \in events : v.id < k
        <4>1. ReplyFollows
          BY <1>0, <3>5
        <4>2. \A k \in kept : k <= sse.cursor \/ Event(k, TRUE) \in events
          BY <1>1, <3>4, <4>1 DEF ReplyFollows
        <4>3. ASSUME NEW f \in Own, Underway(f)
              PROVE  LET k == emit[f].id
                     IN  \/ k <= sse.cursor \/ Event(k, TRUE) \in events
                         \/ \A v \in events : v.id < k
          <5>1. CASE emit[f].pc = "notifying"
            <6>1. StillKnown(emit[f].id) /\ emit[f].id \in IDs
              BY <1>0, <1>1, <4>1, <5>1 DEF ReplyFollows, IdsByStorage, IDs
            <6> QED BY <3>4, <6>1
          <5>2. CASE emit[f].pc = "inserting" /\ storage = "global"
            <6>1. emit[f].id > nextID /\ emit[f].id \in Int /\ nextID \in Int
              BY <1>0, <1>1, <5>2 DEF IdsByStorage
            <6>2. \A v \in events : v.id <= nextID /\ v.id \in Int
              BY <3>2
            <6> HIDE DEF events
            <6>3. \A v \in events : v.id < emit[f].id
              BY <6>1, <6>2
            <6> QED BY <6>3
          <5> QED BY <4>3, <5>1, <5>2 DEF Underway
        <4> QED BY <4>2, <4>3
      <3> HIDE DEF events
      <3> QED BY <2>1, <3>1, <3>2, <3>3, <3>5, WritesKeep
    <2> QED BY <2>2, <2>3
  <1>9. CASE ReadStore
    <2> DEFINE events == After(stored)
    <2>1. LogUnchanged /\ sse.pc = "fallback"
      BY <1>9 DEF ReadStore
    <2>2. PICK ids \in InOrder(events) : WritesSSE(ids)
      BY <1>9 DEF ReadStore
    <2>3. /\ events \subseteq LogEvent
          /\ \A v \in events : v.id > sse.cursor /\ v.id <= lastID
          /\ \A v \in stored : v.id > sse.cursor => v \in events
      BY <1>0, <1>1 DEF After, IdsByStorage
    <2>4. ASSUME NEW k \in Int, Promised(k), storage = "global"
          PROVE  k <= sse.cursor \/ Event(k, TRUE) \in events
      <3>1. Event(k, TRUE) \in stored /\ Event(k, TRUE).id = k /\ sse.cursor \in Int
        BY <1>1, <2>4 DEF Promised, Event
      <3>2. k > sse.cursor => Event(k, TRUE) \in events
        BY <2>3, <3>1
      <3> HIDE DEF events
      <3> QED BY <2>4, <3>1, <3>2 DEF Event
    <2>5. ASSUME storage # "custom"
          PROVE  /\ storage = "global"
                 /\ \A k \in kept : k <= sse.cursor \/ Event(k, TRUE) \in events
                 /\ \A f \in Own : Underway(f) =>
                      LET k == emit[f].id
                      IN  \/ k <= sse.cursor \/ Event(k, TRUE) \in events
                          \/ \A v \in events : v.id < k
      <3>1. ReplyFollows
        BY <1>0, <2>5
      <3>2. storage = "global"
        BY <1>1, <2>1, <2>5, <3>1 DEF ReplyFollows
      <3>3. \A k \in kept : k \in Int /\ Promised(k)
        BY <1>1, <3>1 DEF ReplyFollows, IDs
      <3>4. \A f \in Own : emit[f].id \in Int /\ (Underway(f) => Promised(emit[f].id))
        BY <1>0, <1>1, <3>1 DEF ReplyFollows
      <3> HIDE DEF events
      <3> QED BY <2>4, <3>2, <3>3, <3>4
    <2> HIDE DEF events
    <2> QED BY <2>1, <2>2, <2>3, <2>5, WritesKeep
  <1> QED BY <1>5, <1>6, <1>7, <1>8, <1>9

\* Every step keeps it, so it holds of every reachable state.
LEMMA EventInvariance == ASSUME EventConstants PROVE EventSpec => []EventInv
  <1>0. EventConstants
    OBVIOUS
  <1>1. EventInit => EventInv
    <2> SUFFICES ASSUME EventInit PROVE EventInv
      OBVIOUS
    <2>1. /\ window = <<>> /\ notified = <<>> /\ received = <<>> /\ stored = {} /\ kept = {}
          /\ nextID = 0 /\ lastID = 0 /\ gate = "nobody"
          /\ sse = [pc |-> "none", cursor |-> 0, final |-> FALSE]
          /\ storage \in {"memory", "global", "custom"}
          /\ \A e \in Emitters : emit[e].pc = "idle"
          /\ emit = [e \in Emitters |-> [pc |-> "idle", id |-> 0]]
      BY DEF EventInit
    <2>2. 0 \in 0 .. MaxEvents /\ MaxEvents \in Nat /\ Retention \in Nat
      BY <1>0 DEF EventConstants
    <2>3. EventTypeOK
      <3>1. emit \in [Emitters -> [pc : EmitPCs, id : 0 .. MaxEvents]]
        BY <2>1, <2>2 DEF EmitPCs
      <3>2. /\ sse \in [pc : {"none", "polling", "fallback", "done", "failed", "left"},
                        cursor : 0 .. MaxEvents, final : BOOLEAN]
        BY <2>1, <2>2
      <3>3. /\ window \in Seq(LogEvent) /\ Len(window) <= Retention
            /\ notified \in Seq(IDs) /\ received \in Seq(IDs)
        BY <2>1, <2>2
      <3> QED BY <2>1, <2>2, <3>1, <3>2, <3>3 DEF EventTypeOK, LogEvent
    <2>4. GateHeld /\ IdsByStorage
      BY <1>0, <2>1, <2>2 DEF GateHeld, InGate, IdsByStorage, EventConstants
    <2>5. NotifiedUpTo /\ WindowInOrder
      BY <2>1 DEF NotifiedUpTo, WindowInOrder, Increasing
    <2>6. ReplyFollows
      <3>1. \A e \in Own : emit[e].pc = "idle" /\ ~Underway(e)
        BY <1>0, <2>1 DEF Underway, EventConstants
      <3>2. Increasing(received) /\ \A i \in 1 .. Len(received) : received[i] <= sse.cursor
        BY <2>1 DEF Increasing
      <3> QED BY <2>1, <2>2, <3>1, <3>2 DEF ReplyFollows
    <2> QED BY <1>0, <2>3, <2>4, <2>5, <2>6 DEF EventInv
  <1>2. ASSUME EventInv, [EventNext]_eventVars PROVE EventInv'
    <2>1. CASE EventNext
      BY <1>2, <2>1, EmittersKeep, StoreKeeps, RepliesKeep DEF EventNext
    <2>2. CASE UNCHANGED eventVars
      <3>1. EventTypeOK' /\ GateHeld' /\ IdsByStorage'
        BY <1>2, <2>2 DEF eventVars, EventInv, EventTypeOK, GateHeld, IdsByStorage
      <3>2. NotifiedUpTo' /\ WindowInOrder'
        BY <1>2, <2>2 DEF eventVars, EventInv, NotifiedUpTo, WindowInOrder, Increasing
      <3>3. ASSUME storage # "custom" PROVE ReplyFollows'
        <4>1. ReplyFollows
          BY <1>2, <3>3 DEF EventInv
        <4>2. \A i : Seen(i)' = Seen(i) /\ Promised(i)' = Promised(i)
                    /\ StillKnown(i)' = StillKnown(i)
          BY <2>2 DEF eventVars, Seen, Promised, StillKnown, Forgotten, Retained
        <4>3. \A e \in Own : emit'[e] = emit[e] /\ (Underway(e)' <=> Underway(e))
          BY <2>2 DEF eventVars, Underway
        <4>4. \A id \in kept : Promised(id)' /\ StillKnown(id)'
          BY <4>1, <4>2 DEF ReplyFollows
        <4>5. \A e \in Own : /\ Underway(e)' => Promised(emit[e].id)'
                             /\ emit'[e].pc = "notifying" => StillKnown(emit[e].id)'
          BY <2>2, <4>1, <4>2, <4>3 DEF ReplyFollows, eventVars
        <4>6. sse'.pc = "done" => sse'.final /\ \A id \in kept : Seen(id)
          BY <2>2, <4>1 DEF ReplyFollows, eventVars
        <4> QED BY <2>2, <4>1, <4>2, <4>3, <4>4, <4>5, <4>6 DEF ReplyFollows, eventVars
      <3>4. storage' = storage
        BY <2>2 DEF eventVars
      <3> QED BY <1>0, <3>1, <3>2, <3>3, <3>4 DEF EventInv
    <2> QED BY <1>2, <2>1, <2>2
  <1> QED BY <1>1, <1>2, PTL DEF EventSpec

\* The stream, the store and the reply keep their types, for any number of emitters, any
\* retention and any bound on the IDs.
THEOREM EventTyped == ASSUME EventConstants PROVE EventSpec => []EventTypeOK
  BY EventInvariance, PTL DEF EventInv

\* However the appends interleave, and whatever other replicas write, subscribers are
\* called with ascending IDs and no ID the store allocated is refused by the stream.
THEOREM NotifiedAscending == ASSUME EventConstants PROVE EventSpec => []NotifiedInOrder
  <1>1. EventInv => NotifiedInOrder
    BY DEF EventInv, NotifiedUpTo, IdsByStorage, NotifiedInOrder
  <1> QED BY <1>1, EventInvariance, PTL

\* The reply has each event of its run once and in order, and one that says it is done
\* has every event the run was told was appended, however small the window is.
THEOREM RepliesAreComplete == ASSUME EventConstants PROVE EventSpec => []RepliesComplete
  <1>1. EventInv => RepliesComplete
    <2> SUFFICES ASSUME EventInv, storage # "custom"
                 PROVE  /\ Increasing(received)
                        /\ \A id \in kept : id <= sse.cursor \/ sse.pc = "done" => Seen(id)
      BY DEF RepliesComplete, Seen
    <2>1. ReplyFollows
      BY DEF EventInv
    <2> QED BY <2>1 DEF ReplyFollows, Promised
  <1> QED BY <1>1, EventInvariance, PTL

(***************************************************************************)
(* A behaviour of the worker is one of each of its parts: its steps are    *)
(* steps of the chosen part and leave the others alone, so what is proved  *)
(* of a part holds of the worker.                                          *)
(***************************************************************************)
LEMMA WorkerRunsTriggers == Spec => Triggers!StreamSafety /\ Triggers!ServingSafety
  <1>1. Init => Triggers!StreamInit /\ Triggers!ServingInit
    BY DEF Init
  <1>2. [Next]_vars => /\ [Triggers!StreamNext]_(Triggers!streamVars)
                       /\ [Triggers!ServingNext]_(Triggers!servingVars)
    BY DEF Next, vars, streamVars, httpVars, Triggers!streamVars, Triggers!brokerVars,
           Triggers!historyVars, Triggers!servingVars
  <1> QED BY <1>1, <1>2, PTL DEF Spec, Triggers!StreamSafety, Triggers!ServingSafety

\* The same of what its runs consist of.
LEMMA WorkerRunsPlans ==
    Spec => EventSpec /\ AgentSafety /\ PlanSpec /\ BashSafety
  <1>1. Init => EventInit /\ AgentInit /\ PlanInit /\ BashInit
    BY DEF Init
  <1>2. [Next]_vars => /\ [EventNext]_(eventVars)
                       /\ [AgentNext]_(agentVars)
    BY DEF Next, vars, eventVars, agentVars
  <1>3. [Next]_vars => /\ [PlanNext]_(planVars)
                       /\ [BashNext]_(bashVars)
    BY DEF Next, vars, planVars, bashVars
  <1> QED BY <1>1, <1>2, <1>3, PTL DEF Spec, EventSpec, AgentSafety, PlanSpec,
                                       BashSafety

\* The variables of all six parts keep their types.
THEOREM WorkerTyped == Spec => []TypeOK
  <1>1. /\ Triggers!StreamSafety => []Triggers!StreamTypeOK
        /\ Triggers!ServingSafety => []Triggers!ServingTypeOK
    BY WorkerConstants, Triggers!StreamTyped, Triggers!ServingTyped, PTL
  <1>2. /\ EventSpec => []EventTypeOK
        /\ AgentSafety => []AgentTypeOK
        /\ PlanSpec => []PlanTypeOK
        /\ BashSafety => []BashTypeOK
    BY WorkerConstants, EventTyped, AgentTyped, PlanTyped, BashTyped, PTL
  <1>3. TypeOK <=> /\ Triggers!StreamTypeOK /\ Triggers!ServingTypeOK /\ EventTypeOK
                   /\ AgentTypeOK /\ PlanTypeOK /\ BashTypeOK
    BY DEF TypeOK
  <1> QED BY <1>1, <1>2, <1>3, WorkerRunsTriggers, WorkerRunsPlans, PTL

\* Whatever a stream redelivers, replays and loses, and however requests end, the worker
\* repeats no effect of a message, forgets none, and gives back every slot and every key.
THEOREM TriggersAreSettled == Spec => []TriggersSettled
  <1>1. Triggers!StreamSafety => [](Triggers!EffectAtMostOnce /\ Triggers!AckedIsHandled)
    BY WorkerConstants, Triggers!EffectsHappenOnce, Triggers!AcknowledgedIsHandled, PTL
  <1>2. Triggers!ServingSafety => [](Triggers!PoolConserved /\ Triggers!PendingHasOwner
                                     /\ Triggers!CloseAfterWork)
    BY WorkerConstants, Triggers!SlotsAreConserved, Triggers!PendingIsOwned,
       Triggers!StoreClosedLast, PTL
  <1>3. TriggersSettled <=> /\ Triggers!EffectAtMostOnce /\ Triggers!AckedIsHandled
                            /\ Triggers!PoolConserved /\ Triggers!PendingHasOwner
                            /\ Triggers!CloseAfterWork
    BY DEF TriggersSettled
  <1> QED BY <1>1, <1>2, <1>3, WorkerRunsTriggers, PTL

\* However the emitters, the store, other replicas and the reader of a reply interleave,
\* subscribers see ascending IDs and a reply misses no event of its run silently.
THEOREM EventsStayInOrder == Spec => []EventsInOrder
  <1>1. EventSpec => [](NotifiedInOrder /\ RepliesComplete)
    BY WorkerConstants, NotifiedAscending, RepliesAreComplete, PTL
  <1>2. EventsInOrder <=> NotifiedInOrder /\ RepliesComplete
    BY DEF EventsInOrder
  <1> QED BY <1>1, <1>2, WorkerRunsPlans, PTL

\* However sub-agents, retries, approvals, branches and the processes of a command
\* interleave, a run keeps its budget, repeats no effect, saves what it ran, and answers
\* with what its commands wrote.
THEOREM RunsStayFaithful == Spec => []RunsAreFaithful
  <1>1. AgentSafety => [](BudgetHeld /\ EffectsNotRepeated)
    BY WorkerConstants, BudgetIsShared, EffectsAreNotRepeated, PTL
  <1>2. PlanSpec => []CheckpointsFollowRun
    BY WorkerConstants, CheckpointsAreTrue, PTL
  <1>3. BashSafety => [](OutputIsWhole /\ KilledLeavesNothing)
    BY WorkerConstants, AnswersAreWhole, KillsReachAll, PTL
  <1>4. RunsAreFaithful <=> /\ BudgetHeld /\ EffectsNotRepeated
                            /\ CheckpointsFollowRun /\ OutputIsWhole
                            /\ KilledLeavesNothing
    BY DEF RunsAreFaithful
  <1> QED BY <1>1, <1>2, <1>3, <1>4, WorkerRunsPlans, PTL
=============================================================================
