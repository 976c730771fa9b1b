---------------------------- MODULE StoreProofs ----------------------------
(***************************************************************************)
(* Proofs about the stores of a worker and the views of what it records,   *)
(* as MCPlatform composes them: the keys, the journals, the events, the    *)
(* schema, the approvals decided without durability, the file a pipeline   *)
(* writes, the spans of a trace, and the counters and polls of events.     *)
(* Each part has its inductive invariant, for any callers, steps, writers, *)
(* processes, operations and bounds, and a lemma that says what the        *)
(* invariant gives the properties checked of the part.                     *)
(***************************************************************************)
EXTENDS Integers, Sequences, FiniteSets, FiniteSetTheorems, WellFoundedInduction,
        SequenceTheorems, TLAPS

\* Every bounded set of natural numbers has a greatest element: the least element of their
\* distances to the bound, by the library's minimum of a well-founded relation.
LEMMA GreatestNatural ==
    ASSUME NEW N \in Nat, NEW T, T \subseteq 0..N, T # {}
    PROVE  \E x \in T : \A y \in T : y <= x
  <1> DEFINE D == {N - y : y \in T}
  <1>1. D \subseteq Nat /\ D # {}
    <2>1. \A y \in T : y \in Nat /\ y <= N
      OBVIOUS
    <2>2. \A y \in T : N - y \in Nat
      BY <2>1
    <2> QED BY <2>2
  <1>2. PICK d \in D : \A b \in D : ~(<<b, d>> \in OpToRel(<, Nat))
    BY <1>1, NatLessThanWellFounded, WFMin
  <1>3. PICK x \in T : d = N - x
    OBVIOUS
  <1>4. ASSUME NEW y \in T, x < y PROVE FALSE
    <2>1. <<N - y, d>> \in Nat \X Nat /\ <<N - y, d>>[1] < <<N - y, d>>[2]
      BY <1>1, <1>3, <1>4
    <2>2. <<N - y, d>> \in OpToRel(<, Nat)
      BY <2>1, Zenon DEF OpToRel
    <2> QED BY <1>2, <2>2
  <1>5. x \in Nat /\ \A y \in T : y \in Nat
    OBVIOUS
  <1> QED BY <1>4, <1>5

(***************************************************************************)
(* Idempotency keys (IdempotencyStore).  While a grant lives its row is    *)
(* pending for the execution of its caller, and so it is alone; a call     *)
(* that waits for its second statement has met the row that refused it.    *)
(***************************************************************************)
CONSTANTS KeyCallers, Execs, ExecOf, KeyNames
VARIABLES kBackend, kRow, kCall, kClaim, kLive, kSeen

Keys == INSTANCE IdempotencyStore WITH
  Callers <- KeyCallers, Keys <- KeyNames,
  backend <- kBackend, row <- kRow, call <- kCall, claim <- kClaim, live <- kLive, seen <- kSeen

keysPart == <<kBackend, kRow, kCall, kClaim, kLive, kSeen>>

KeyCalls ==
  {Keys!Idle} \cup
  [op : {"reserve", "resolve"}, key : KeyNames, outcome : Keys!Outcomes \cup {"none"}]
KeyTyped ==
  /\ kRow \in [KeyNames -> Keys!Rows] /\ kCall \in [KeyCallers -> KeyCalls]
  /\ kClaim \in [KeyCallers -> KeyNames \cup {Keys!NoKey}]
  /\ kLive \in [KeyCallers -> BOOLEAN] /\ kSeen \in [KeyCallers -> SUBSET Keys!Rows]
KeyAlive(c) == kClaim[c] \in KeyNames /\ kRow[kClaim[c]] = Keys!Pending(ExecOf[c])
KeyHeld ==
  \A c \in KeyCallers : kLive[c] =>
    KeyAlive(c) /\ \A d \in KeyCallers \ {c} : kLive[d] => kClaim[d] # kClaim[c]
\* The call of a reservation that was refused, which waits for the name of the owner.
KeyRefused(c) ==
  kCall[c].op = "reserve" =>
    kRow[kCall[c].key] # Keys!NoRow /\ \E r \in kSeen[c] : ~Keys!Granted(r)
KeyInv == KeyTyped /\ KeyHeld /\ \A c \in KeyCallers : KeyRefused(c)

\* A row once written is never taken out again, and a step on one key leaves the others.
LEMMA KeyInvHolds == Keys!KeyInit => KeyInv
  BY DEF Keys!KeyInit, KeyInv, KeyTyped, KeyHeld, KeyRefused, KeyCalls, Keys!Idle, Keys!Rows

\* What a call meets are rows.
LEMMA KeyMeets ==
    ASSUME Keys!KeyConstants, KeyTyped, kRow' \in [KeyNames -> Keys!Rows],
           kCall' \in [KeyCallers -> KeyCalls], Keys!Meet(kRow', kCall')
    PROVE  kSeen' \in [KeyCallers -> SUBSET Keys!Rows]
  <1> SUFFICES ASSUME NEW d \in KeyCallers, kCall'[d] # Keys!Idle
               PROVE  kSeen[d] \cup {kRow[kCall'[d].key], kRow'[kCall'[d].key]} \in SUBSET Keys!Rows
    BY DEF Keys!Meet
  <1>1. kCall'[d].key \in KeyNames
    BY DEF KeyCalls
  <1> QED BY <1>1 DEF KeyTyped

\* The reservation of a key.
LEMMA KeyReserved ==
    ASSUME Keys!KeyConstants, KeyInv, NEW c \in KeyCallers, NEW k \in KeyNames,
           Keys!MemoryReserve(c, k) \/ Keys!Reserve(c, k)
    PROVE  KeyTyped' /\ KeyHeld'
  <1> DEFINE Grants ==
        /\ Keys!Reservable(kRow[k]) /\ kRow' = [kRow EXCEPT ![k] = Keys!Pending(ExecOf[c])]
        /\ kClaim' = [kClaim EXCEPT ![c] = k] /\ kLive' = [kLive EXCEPT ![c] = TRUE]
  <1>1. Grants \/ UNCHANGED <<kRow, kClaim, kLive>>
    BY DEF Keys!MemoryReserve, Keys!Reserve
  <1>2. kRow \in [KeyNames -> Keys!Rows] /\ Keys!Pending(ExecOf[c]) \in Keys!Rows
    BY DEF KeyInv, KeyTyped, Keys!KeyConstants, Keys!Rows, Keys!Pending
  <1>3. kCall' \in [KeyCallers -> KeyCalls]
    <2>1. [op |-> "reserve", key |-> k, outcome |-> "none"] \in KeyCalls
      BY DEF KeyCalls
    <2>2. \/ kCall' = kCall
          \/ kCall' = [kCall EXCEPT ![c] = [op |-> "reserve", key |-> k, outcome |-> "none"]]
      BY DEF Keys!MemoryReserve, Keys!Reserve, Keys!Ask
    <2> QED BY <2>1, <2>2 DEF KeyInv, KeyTyped
  <1>4. /\ kRow' \in [KeyNames -> Keys!Rows]
        /\ kClaim' \in [KeyCallers -> KeyNames \cup {Keys!NoKey}]
        /\ kLive' \in [KeyCallers -> BOOLEAN]
    BY <1>1, <1>2 DEF KeyInv, KeyTyped
  <1>5. KeyTyped'
    <2>1. kSeen' = kSeen \/ Keys!Meet(kRow', kCall')
      BY DEF Keys!MemoryReserve, Keys!Reserve
    <2> QED BY <1>3, <1>4, <2>1, KeyMeets DEF KeyInv, KeyTyped
  <1>6. ASSUME Grants, NEW d \in KeyCallers, kLive[d] PROVE kClaim[d] # k
    <2>1. KeyAlive(d)
      BY <1>6, Zenon DEF KeyInv, KeyHeld
    <2> QED BY <1>6, <2>1 DEF KeyAlive, Keys!Reservable, Keys!Pending
  <1>7. KeyHeld'
    <2>1. CASE Grants
      BY <1>2, <1>6, <2>1 DEF KeyInv, KeyTyped, KeyHeld, KeyAlive
    <2> QED BY <1>1, <2>1 DEF KeyInv, KeyHeld, KeyAlive
  <1> QED BY <1>5, <1>7

\* The pending reservation of an execution is its own.
LEMMA PendingIsOwn ==
    ASSUME NEW e, NEW f, Keys!Pending(e) = Keys!Pending(f) PROVE e = f
  <1>1. Keys!Pending(e).owner = Keys!Pending(f).owner
    OBVIOUS
  <1> QED BY <1>1 DEF Keys!Pending

\* The resolution of what execution e reserved, of one key or of all of them.
LEMMA KeyResolved ==
    ASSUME KeyInv, NEW e, NEW K, K \subseteq KeyNames, Keys!Over(e, K),
           kClaim' \in [KeyCallers -> KeyNames \cup {Keys!NoKey}],
           \A d \in KeyCallers : kLive'[d] => kClaim'[d] = kClaim[d],
           \A k \in KeyNames : k \notin K \/ ~Keys!Resolvable(kRow[k], e) => kRow'[k] = kRow[k]
    PROVE  KeyHeld' /\ kLive' \in [KeyCallers -> BOOLEAN]
  <1>1. kLive' \in [KeyCallers -> BOOLEAN]
    BY DEF Keys!Over
  <1>2. ASSUME NEW d \in KeyCallers, kLive'[d]
        PROVE  kLive[d] /\ ~(ExecOf[d] = e /\ kClaim[d] \in K)
    BY <1>2 DEF Keys!Over
  <1>3. ASSUME NEW d \in KeyCallers, kLive'[d]
        PROVE  KeyAlive(d)' /\ kClaim'[d] = kClaim[d]
    <2>1. KeyAlive(d) /\ kClaim'[d] = kClaim[d]
      BY <1>2, <1>3, Zenon DEF KeyInv, KeyHeld
    <2>2. kClaim[d] \notin K \/ ~Keys!Resolvable(kRow[kClaim[d]], e)
      BY <1>2, <1>3, <2>1, PendingIsOwn DEF Keys!Resolvable, KeyAlive
    <2> QED BY <2>1, <2>2 DEF KeyAlive
  <1>4. ASSUME NEW d \in KeyCallers, kLive'[d], NEW b \in KeyCallers \ {d}, kLive'[b]
        PROVE  kClaim'[b] # kClaim'[d]
    BY <1>2, <1>3, <1>4, Zenon DEF KeyInv, KeyHeld
  <1> QED BY <1>1, <1>3, <1>4, Zenon DEF KeyHeld

\* Resolve and ResolveByExecution of caller c.
LEMMA KeySettled ==
    ASSUME Keys!KeyConstants, KeyInv, NEW c \in KeyCallers, NEW o \in Keys!Outcomes,
           \/ Keys!MemoryResolve(c, o) \/ Keys!Resolve(c, o) \/ Keys!ResolveByExecution(c, o)
    PROVE  KeyTyped' /\ KeyHeld'
  <1> DEFINE e == ExecOf[c]
             Closed(k) == [kRow[k] EXCEPT !.outcome = o]
             asked == [op |-> "resolve", key |-> kClaim[c], outcome |-> o]
  <1>1. ASSUME NEW k \in KeyNames, Keys!Resolvable(kRow[k], e)
        PROVE  Closed(k) \in Keys!Rows
    <2>1. Closed(k) = [owner |-> e, outcome |-> o] /\ e \in Execs
      BY <1>1 DEF Keys!Resolvable, Keys!Pending, Keys!KeyConstants
    <2> QED BY <2>1 DEF Keys!Rows
  <1>2. kRow \in [KeyNames -> Keys!Rows]
    BY DEF KeyInv, KeyTyped
  <1> HIDE DEF e, Closed
  <1>3. CASE Keys!MemoryResolve(c, o) \/ Keys!Resolve(c, o)
    <2>1. kClaim[c] \in KeyNames
      BY <1>3 DEF KeyInv, KeyTyped, Keys!MemoryResolve, Keys!Resolve
    <2>2. \/ Keys!Resolvable(kRow[kClaim[c]], e)
             /\ kRow' = [kRow EXCEPT ![kClaim[c]] = Closed(kClaim[c])]
          \/ kRow' = kRow
      BY <1>2, <1>3, <2>1 DEF Keys!MemoryResolve, Keys!Resolve, e, Closed
    <2>3. /\ Keys!Over(e, {kClaim[c]}) /\ kClaim' = [kClaim EXCEPT ![c] = Keys!NoKey]
          /\ kCall' = kCall \/ kCall' = [kCall EXCEPT ![c] = asked]
          /\ kSeen' = kSeen \/ Keys!Meet(kRow', kCall')
      BY <1>3, Zenon DEF Keys!MemoryResolve, Keys!Resolve, Keys!Ask, e
    <2>4. /\ kRow' \in [KeyNames -> Keys!Rows]
          /\ kClaim' \in [KeyCallers -> KeyNames \cup {Keys!NoKey}]
      BY <1>1, <1>2, <2>1, <2>2, <2>3 DEF KeyInv, KeyTyped
    <2>5. asked \in KeyCalls
      BY <2>1 DEF KeyCalls
    <2>6. kCall' \in [KeyCallers -> KeyCalls]
      BY <2>3, <2>5 DEF KeyInv, KeyTyped
    <2>7. kSeen' \in [KeyCallers -> SUBSET Keys!Rows]
      BY <2>3, <2>4, <2>6, KeyMeets DEF KeyInv, KeyTyped
    <2>8. \A d \in KeyCallers : kLive'[d] => kClaim'[d] = kClaim[d]
      BY <2>3 DEF Keys!Over, KeyInv, KeyTyped, e
    <2>9. \A k \in KeyNames : k \notin {kClaim[c]} \/ ~Keys!Resolvable(kRow[k], e) =>
            kRow'[k] = kRow[k]
      BY <1>2, <2>2
    <2>10. KeyHeld' /\ kLive' \in [KeyCallers -> BOOLEAN]
      BY <2>1, <2>3, <2>4, <2>8, <2>9, KeyResolved
    <2> QED BY <2>4, <2>6, <2>7, <2>10 DEF KeyTyped
  <1>4. CASE Keys!ResolveByExecution(c, o)
    <2>1. /\ kRow' = [k \in KeyNames |->
                        IF Keys!Resolvable(kRow[k], e) THEN Closed(k) ELSE kRow[k]]
          /\ Keys!Over(e, KeyNames) /\ kClaim' = kClaim /\ kCall' = kCall
          /\ Keys!Meet(kRow', kCall')
      BY <1>4 DEF Keys!ResolveByExecution, e, Closed
    <2>2. kRow' \in [KeyNames -> Keys!Rows]
      BY <1>1, <1>2, <2>1
    <2>3. kCall' \in [KeyCallers -> KeyCalls] /\ kClaim' \in [KeyCallers -> KeyNames \cup {Keys!NoKey}]
      BY <2>1 DEF KeyInv, KeyTyped
    <2>4. kSeen' \in [KeyCallers -> SUBSET Keys!Rows]
      BY <2>1, <2>2, <2>3, KeyMeets DEF KeyInv
    <2>5. KeyHeld' /\ kLive' \in [KeyCallers -> BOOLEAN]
      BY <2>1, <2>3, KeyResolved
    <2> QED BY <2>2, <2>3, <2>4, <2>5 DEF KeyTyped
  <1> QED BY <1>3, <1>4

\* The second statement of a call.
LEMMA KeyAnswered ==
    ASSUME Keys!KeyConstants, KeyInv, NEW c \in KeyCallers, Keys!ReadOwner(c) \/ Keys!ReadOutcome(c)
    PROVE  KeyTyped' /\ KeyHeld'
  <1>1. /\ kCall' = [kCall EXCEPT ![c] = Keys!Idle] /\ Keys!Meet(kRow, kCall')
        /\ UNCHANGED <<kRow, kClaim, kLive>>
    BY DEF Keys!ReadOwner, Keys!ReadOutcome, Keys!Answer
  <1>2. kRow' \in [KeyNames -> Keys!Rows] /\ kCall' \in [KeyCallers -> KeyCalls]
    BY <1>1 DEF KeyInv, KeyTyped, KeyCalls
  <1>3. Keys!Meet(kRow', kCall')
    BY <1>1
  <1>4. kSeen' \in [KeyCallers -> SUBSET Keys!Rows]
    BY <1>2, <1>3, KeyMeets DEF KeyInv
  <1>5. KeyTyped'
    BY <1>1, <1>2, <1>4 DEF KeyInv, KeyTyped
  <1>6. KeyHeld'
    BY <1>1 DEF KeyInv, KeyHeld, KeyAlive
  <1> QED BY <1>5, <1>6

\* What a refused reservation knows stays true: no row is deleted.
LEMMA KeyStaysRefused ==
    ASSUME Keys!KeyConstants, KeyInv, Keys!KeyNext
    PROVE  \A b \in KeyCallers : KeyRefused(b)'
  <1>1. ASSUME NEW k \in KeyNames, kRow[k] # Keys!NoRow PROVE kRow'[k] # Keys!NoRow
    <2>1. kRow \in [KeyNames -> Keys!Rows]
      BY DEF KeyInv, KeyTyped
    <2>2. PICK c \in KeyCallers :
            \/ \E n \in KeyNames : Keys!MemoryReserve(c, n) \/ Keys!Reserve(c, n)
            \/ \E o \in Keys!Outcomes :
                 Keys!MemoryResolve(c, o) \/ Keys!Resolve(c, o) \/ Keys!ResolveByExecution(c, o)
            \/ Keys!ReadOwner(c) \/ Keys!ReadOutcome(c)
      BY Zenon DEF Keys!KeyNext
    <2>3. \/ kRow'[k] = kRow[k] \/ kRow'[k] = Keys!Pending(ExecOf[c])
          \/ kRow'[k] = [kRow[k] EXCEPT !.outcome = "succeeded"]
          \/ kRow'[k] = [kRow[k] EXCEPT !.outcome = "failed"]
      <3>1. CASE \E n \in KeyNames : Keys!MemoryReserve(c, n) \/ Keys!Reserve(c, n)
        BY <2>1, <3>1 DEF Keys!MemoryReserve, Keys!Reserve
      <3>2. CASE \E o \in Keys!Outcomes :
                   Keys!MemoryResolve(c, o) \/ Keys!Resolve(c, o) \/ Keys!ResolveByExecution(c, o)
        BY <2>1, <3>2 DEF Keys!MemoryResolve, Keys!Resolve, Keys!ResolveByExecution, Keys!Outcomes
      <3>3. CASE Keys!ReadOwner(c) \/ Keys!ReadOutcome(c)
        BY <3>3 DEF Keys!ReadOwner, Keys!ReadOutcome
      <3> QED BY <2>2, <3>1, <3>2, <3>3
    <2> QED BY <1>1, <2>1, <2>3 DEF Keys!NoRow, Keys!Pending, Keys!Rows, Keys!KeyConstants
  <1> TAKE b \in KeyCallers
  <1>2. CASE kCall'[b] = Keys!Idle
    BY <1>2 DEF KeyRefused, Keys!Idle
  <1>3. CASE kCall'[b] # Keys!Idle /\ kCall'[b] = kCall[b]
    <2>1. kCall[b].key \in KeyNames
      BY <1>3 DEF KeyInv, KeyTyped, KeyCalls
    <2>2. kSeen' = kSeen \/ Keys!Meet(kRow, kCall') \/ Keys!Meet(kRow', kCall')
          \/ Keys!Meet(kRow', kCall)
      BY Zenon DEF Keys!KeyNext, Keys!MemoryReserve, Keys!Reserve, Keys!MemoryResolve, Keys!Resolve,
           Keys!ResolveByExecution, Keys!ReadOwner, Keys!ReadOutcome
    <2>3. kSeen[b] \subseteq kSeen'[b]
      BY <1>3, <2>2 DEF Keys!Meet
    <2> QED BY <1>1, <1>3, <2>1, <2>3 DEF KeyInv, KeyRefused
  <1>4. CASE kCall'[b] # Keys!Idle /\ kCall'[b] # kCall[b] /\ kCall'[b].op = "reserve"
    <2>1. PICK k \in KeyNames : Keys!Reserve(b, k)
      BY <1>4 DEF Keys!KeyNext, Keys!MemoryReserve, Keys!Reserve, Keys!MemoryResolve, Keys!Resolve,
           Keys!ResolveByExecution, Keys!ReadOwner, Keys!ReadOutcome, Keys!Ask, Keys!Answer,
           KeyInv, KeyTyped
    <2>2. /\ ~Keys!Reservable(kRow[k]) /\ kRow' = kRow
          /\ kCall'[b] = [op |-> "reserve", key |-> k, outcome |-> "none"]
      BY <1>4, <2>1 DEF Keys!Reserve, Keys!Ask, KeyInv, KeyTyped
    <2>3. kRow[k] \in kSeen'[b]
      BY <1>4, <2>1, <2>2 DEF Keys!Reserve, Keys!Meet
    <2>4. kRow[k] # Keys!NoRow /\ ~Keys!Granted(kRow[k])
      BY <2>2 DEF Keys!Reservable, Keys!Granted, Keys!NoRow
    <2> QED BY <2>2, <2>3, <2>4 DEF KeyRefused
  <1> QED BY <1>2, <1>3, <1>4 DEF KeyRefused

\* Every step of the keys, taken or not.
LEMMA KeyInvStays == Keys!KeyConstants /\ KeyInv /\ [Keys!KeyNext]_keysPart => KeyInv'
  <1> SUFFICES ASSUME Keys!KeyConstants, KeyInv, [Keys!KeyNext]_keysPart PROVE KeyInv'
    OBVIOUS
  <1>1. CASE Keys!KeyNext
    <2>1. KeyTyped' /\ KeyHeld'
      BY <1>1, KeyReserved, KeySettled, KeyAnswered, Zenon DEF Keys!KeyNext
    <2> QED BY <1>1, <2>1, KeyStaysRefused, Zenon DEF KeyInv
  <1>2. CASE UNCHANGED keysPart
    BY <1>2 DEF keysPart, KeyInv, KeyTyped, KeyHeld, KeyAlive, KeyRefused
  <1> QED BY <1>1, <1>2

\* What the invariant says of the keys.
LEMMA KeyInvMeans == KeyInv => Keys!TypeOK /\ Keys!GrantedToOne /\ Keys!AnswersLinear
  <1> SUFFICES ASSUME KeyInv PROVE Keys!TypeOK /\ Keys!GrantedToOne /\ Keys!AnswersLinear
    OBVIOUS
  <1>1. Keys!TypeOK
    BY DEF KeyInv, KeyTyped, KeyCalls, Keys!TypeOK, Keys!Idle
  <1>2. Keys!GrantedToOne
    BY Zenon DEF KeyInv, KeyHeld, KeyAlive, Keys!GrantedToOne
  <1>3. ASSUME NEW c \in KeyCallers, kCall[c].op = "resolve",
               kRow[kCall[c].key] # Keys!Pending(ExecOf[c])
        PROVE  \E r \in kSeen[c] \cup {kRow[kCall[c].key]} :
                 Keys!Settles(r, ExecOf[c], kCall[c].outcome)
                 = Keys!ReadSettles(kRow[kCall[c].key], ExecOf[c], kCall[c].outcome)
    <2> DEFINE r == kRow[kCall[c].key]
    <2>1. r \in Keys!Rows
      BY <1>3 DEF KeyInv, KeyTyped, KeyCalls, Keys!Idle
    <2>2. ~(r.owner = ExecOf[c] /\ r.outcome = "pending")
      BY <1>3, <2>1 DEF Keys!Rows, Keys!Pending, Keys!NoRow
    <2> QED BY <2>2 DEF Keys!Settles, Keys!ReadSettles
  <1>4. Keys!AnswersLinear
    BY <1>3 DEF KeyInv, KeyRefused, Keys!AnswersLinear
  <1> QED BY <1>1, <1>2, <1>4

\* An outcome that succeeded is replaced by no statement.
LEMMA KeySuccessStays ==
    ASSUME KeyInv, [Keys!KeyNext]_keysPart, NEW k \in KeyNames, kRow[k].outcome = "succeeded"
    PROVE  kRow'[k] = kRow[k]
  <1>1. kRow \in [KeyNames -> Keys!Rows] /\ ~Keys!Reservable(kRow[k])
    BY DEF KeyInv, KeyTyped, Keys!Reservable
  <1>2. \A e : ~Keys!Resolvable(kRow[k], e)
    BY DEF Keys!Resolvable, Keys!Pending
  <1>3. ASSUME NEW c \in KeyCallers, NEW j \in KeyNames,
               Keys!MemoryReserve(c, j) \/ Keys!Reserve(c, j)
        PROVE  kRow'[k] = kRow[k]
    BY <1>1, <1>3 DEF Keys!MemoryReserve, Keys!Reserve
  <1>4. ASSUME NEW c \in KeyCallers, NEW o \in Keys!Outcomes,
               Keys!MemoryResolve(c, o) \/ Keys!Resolve(c, o) \/ Keys!ResolveByExecution(c, o)
        PROVE  kRow'[k] = kRow[k]
    BY <1>1, <1>2, <1>4 DEF Keys!MemoryResolve, Keys!Resolve, Keys!ResolveByExecution
  <1>5. ASSUME NEW c \in KeyCallers, Keys!ReadOwner(c) \/ Keys!ReadOutcome(c)
        PROVE  kRow'[k] = kRow[k]
    BY <1>5 DEF Keys!ReadOwner, Keys!ReadOutcome
  <1>6. UNCHANGED keysPart => kRow' = kRow
    BY DEF keysPart
  <1> QED BY <1>3, <1>4, <1>5, <1>6, Zenon DEF Keys!KeyNext

KeysSafety == Keys!KeyInit /\ [][Keys!KeyNext]_keysPart

\* However the statements of reservations and resolutions interleave, a key is granted to one
\* call at a time, a call is answered as the memory store would have answered at some moment
\* of it, and a success stays (sqlite_idempotency.go, postgres_idempotency.go).
THEOREM KeysAreGrantedOnce ==
    ASSUME Keys!KeyConstants
    PROVE  KeysSafety => /\ [](Keys!TypeOK /\ Keys!GrantedToOne /\ Keys!AnswersLinear)
                         /\ Keys!SuccessIsFinal
  <1> DEFINE Final == \A k \in KeyNames : kRow[k].outcome = "succeeded" => kRow'[k] = kRow[k]
  <1>1. KeyInv /\ [Keys!KeyNext]_keysPart => [Final]_Keys!keyVars
    <2>1. SUFFICES ASSUME KeyInv, [Keys!KeyNext]_keysPart PROVE Final
      OBVIOUS
    <2> QED BY <2>1, KeySuccessStays
  <1> QED BY <1>1, KeyInvHolds, KeyInvStays, KeyInvMeans, PTL DEF KeysSafety, Keys!SuccessIsFinal

(***************************************************************************)
(* A durable run in the stores (JournalStore).  A leg at work belongs to a *)
(* running execution; a journal that is there has every checkpoint the run *)
(* finished; whoever is about to delete it under a leg meets a replay; and *)
(* off Postgres a check that nothing was committed after still holds.      *)
(***************************************************************************)
CONSTANTS Sweepers, OwnSweeper, JournalSteps
VARIABLES jBackend, jExecution, jJournal, jSteps, jIntent, jApproval, jLeg, jFinished, jSweep,
          jStale, jReplay

Journal == INSTANCE JournalStore WITH
  MaxSteps <- JournalSteps, Own <- OwnSweeper,
  backend <- jBackend, execution <- jExecution, journal <- jJournal, steps <- jSteps, intent <-
  jIntent, approval <- jApproval, leg <- jLeg, finished <- jFinished, sweep <- jSweep, stale <-
  jStale, replay <- jReplay

journalPart == <<jBackend, jExecution, jJournal, jSteps, jIntent, jApproval, jLeg, jFinished,
                 jSweep, jStale, jReplay>>

ReplayTyped ==
  /\ jReplay \in [pc : {"none", "read", "ready", "done"}, resume : 0..JournalSteps + 1]
  /\ jReplay.pc = "none" <=> jReplay = Journal!NoReplay
  /\ jReplay.pc = "ready" => jReplay.resume # 0
\* Before its journal the run has nothing.
NotJournaled ==
  jExecution = "none" \/ (jExecution = "running" /\ jLeg = 0) =>
    /\ jJournal = "none" /\ jSteps = {} /\ jFinished = {}
    /\ \A s \in Sweepers : jSweep[s] # "delete"
LegRuns ==
  /\ jLeg # 0 => jExecution = "running"
  /\ jApproval = "pending" => jLeg # 0
  /\ jReplay.pc \in {"read", "ready"} => jLeg = 0
JournalIsComplete ==
  jJournal # "none" =>
    /\ jSteps = jFinished
    /\ jReplay.pc = "ready" => jReplay.resume = Journal!Last(jSteps) + 1
DeletedUnderReplay ==
  /\ jLeg # 0 /\ jJournal = "none" => jReplay.pc # "none"
  /\ jLeg # 0 /\ (\E s \in Sweepers : jSweep[s] = "delete") => jReplay.pc # "none"
CheckHolds ==
  jBackend # "postgres" =>
    \A s \in Sweepers : jSweep[s] = "delete" =>
      jBackend # "memory" /\ (s \notin jStale => Journal!Eligible)
JournalInv ==
  /\ Journal!TypeOK /\ ReplayTyped /\ NotJournaled /\ LegRuns /\ JournalIsComplete
  /\ DeletedUnderReplay /\ CheckHolds

\* Nothing is written yet.
LEMMA JournalInvHolds == Journal!JournalConstants /\ Journal!JournalInit => JournalInv
  BY DEF Journal!JournalConstants, Journal!JournalInit, JournalInv, Journal!TypeOK, ReplayTyped,
     NotJournaled, LegRuns, JournalIsComplete, DeletedUnderReplay, CheckHolds, Journal!NoReplay,
     Journal!Terminal

\* The last of the steps of a run.
LEMMA LastStep ==
    ASSUME Journal!JournalConstants, NEW S \in SUBSET (1..JournalSteps)
    PROVE  Journal!Last(S) \in 0..JournalSteps
  <1>1. CASE S = {}
    BY <1>1 DEF Journal!Last, Journal!JournalConstants
  <1>2. CASE S # {}
    <2>1. JournalSteps \in Nat /\ S \subseteq 0..JournalSteps
      BY DEF Journal!JournalConstants
    <2>2. \E x \in S : \A y \in S : y <= x
      BY <1>2, <2>1, GreatestNatural
    <2>3. Journal!Last(S) \in S
      BY <1>2, <2>2 DEF Journal!Last
    <2> QED BY <2>1, <2>3
  <1> QED BY <1>1, <1>2

\* A commit leaves no check of another process that counts.
LEMMA CommitOutdates ==
    ASSUME JournalInv, Journal!Committed, jBackend' = jBackend,
           \A s \in Sweepers : jSweep'[s] = "delete" => jSweep[s] = "delete"
    PROVE  CheckHolds'
  BY DEF JournalInv, CheckHolds, Journal!Committed

\* The run begins: its execution, then its journal.
LEMMA JournalBegins ==
    ASSUME Journal!JournalConstants, JournalInv, Journal!SaveExecution \/ Journal!SaveRunJournal
    PROVE  JournalInv'
  <1>1. CASE Journal!SaveExecution
    <2>1. CheckHolds'
      BY <1>1, CommitOutdates DEF Journal!SaveExecution
    <2> QED BY <1>1, <2>1 DEF Journal!SaveExecution, JournalInv, Journal!TypeOK, ReplayTyped,
                 NotJournaled, LegRuns, JournalIsComplete, DeletedUnderReplay, Journal!NoReplay,
                 Journal!Terminal
  <1>2. CASE Journal!SaveRunJournal
    <2>1. CheckHolds'
      BY <1>2, CommitOutdates DEF Journal!SaveRunJournal
    <2>2. 1 \in 0..JournalSteps + 1
      BY DEF Journal!JournalConstants
    <2>3. /\ UNCHANGED <<jBackend, jExecution, jSteps, jIntent, jApproval, jFinished, jSweep,
                         jReplay>>
          /\ jExecution = "running" /\ jLeg = 0 /\ jReplay.pc = "none"
          /\ jJournal' = "young" /\ jLeg' = 1
      BY <1>2 DEF Journal!SaveRunJournal, Journal!NoReplay
    <2>4. jSteps = {} /\ jFinished = {} /\ \A s \in Sweepers : jSweep[s] # "delete"
      BY <2>3 DEF JournalInv, NotJournaled
    <2>5. Journal!TypeOK' /\ ReplayTyped'
      BY <2>2, <2>3 DEF JournalInv, Journal!TypeOK, ReplayTyped, Journal!NoReplay
    <2> QED BY <2>1, <2>3, <2>4, <2>5 DEF JournalInv, NotJournaled, LegRuns, JournalIsComplete,
                 DeletedUnderReplay
  <1> QED BY <1>1, <1>2

\* The leg works, waits for a decision and is given it.
LEMMA JournalWorks ==
    ASSUME Journal!JournalConstants, JournalInv,
           \/ Journal!BeginToolIntent \/ Journal!CompleteToolIntent \/ Journal!SaveRunCheckpoint
           \/ Journal!SaveApproval
           \/ \E status \in {"approved", "denied"} : Journal!ResolveApproval(status)
    PROVE  JournalInv'
  <1>1. CASE \/ Journal!BeginToolIntent \/ Journal!CompleteToolIntent
             \/ Journal!SaveApproval
             \/ \E status \in {"approved", "denied"} : Journal!ResolveApproval(status)
    <2>1. /\ UNCHANGED <<jBackend, jExecution, jJournal, jSteps, jLeg, jFinished, jSweep, jReplay>>
          /\ Journal!Committed /\ jLeg # 0
      BY <1>1 DEF Journal!BeginToolIntent, Journal!CompleteToolIntent, Journal!SaveApproval,
           Journal!ResolveApproval, Journal!Working, JournalInv, LegRuns
    <2>2. CheckHolds'
      BY <2>1, CommitOutdates
    <2> QED BY <2>1, <2>2 DEF JournalInv, Journal!TypeOK, ReplayTyped, NotJournaled, LegRuns,
                 JournalIsComplete, DeletedUnderReplay, Journal!NoReplay, Journal!Terminal
  <1>2. CASE Journal!SaveRunCheckpoint
    <2>1. /\ UNCHANGED <<jBackend, jExecution, jJournal, jIntent, jApproval, jSweep, jReplay>>
          /\ jLeg # 0 /\ jLeg <= JournalSteps /\ jLeg' = jLeg + 1 /\ Journal!Committed
          /\ jSteps' = jSteps \cup {jLeg} /\ jFinished' = jFinished \cup {jLeg}
      BY <1>2 DEF Journal!SaveRunCheckpoint, Journal!Working
    <2>2. CheckHolds'
      BY <2>1, CommitOutdates
    <2>3. jLeg \in 1..JournalSteps /\ jLeg' \in 0..JournalSteps + 1 /\ jLeg' # 0
      BY <2>1 DEF JournalInv, Journal!TypeOK, Journal!JournalConstants
    <2>4. Journal!TypeOK'
      BY <2>1, <2>3 DEF JournalInv, Journal!TypeOK
    <2> QED BY <2>1, <2>2, <2>3, <2>4 DEF JournalInv, ReplayTyped, NotJournaled, LegRuns,
                 JournalIsComplete, DeletedUnderReplay, Journal!NoReplay
  <1> QED BY <1>1, <1>2

\* The leg ends, one of another run does, and time passes.
LEMMA JournalEnds ==
    ASSUME Journal!JournalConstants, JournalInv,
           \/ \E status \in Journal!Terminal : Journal!Finish(status)
           \/ \E s \in Sweepers : Journal!FinishElsewhere(s)
           \/ Journal!Age
    PROVE  JournalInv'
  <1>1. CASE \E status \in Journal!Terminal : Journal!Finish(status)
    <2>1. PICK status \in Journal!Terminal : Journal!Finish(status)
      BY <1>1
    <2>2. PICK to \in {"own", "list"} : jSweep' = [jSweep EXCEPT ![OwnSweeper] = to]
      BY <2>1 DEF Journal!Finish
    <2>3. /\ UNCHANGED <<jBackend, jJournal, jSteps, jIntent, jApproval, jFinished>>
          /\ jLeg' = 0 /\ jExecution' = status /\ jReplay' = Journal!NoReplay
          /\ jApproval # "pending" /\ Journal!Committed
      BY <2>1 DEF Journal!Finish, Journal!Working
    <2>4. \A s \in Sweepers : jSweep'[s] = "delete" => jSweep[s] = "delete"
      BY <2>2 DEF JournalInv, Journal!TypeOK
    <2>5. CheckHolds'
      BY <2>3, <2>4, CommitOutdates
    <2>6. Journal!TypeOK'
      BY <2>2, <2>3 DEF JournalInv, Journal!TypeOK, Journal!JournalConstants
    <2>7. ReplayTyped'
      BY <2>3 DEF ReplayTyped, Journal!NoReplay, Journal!JournalConstants
    <2> QED BY <2>3, <2>5, <2>6, <2>7 DEF JournalInv, NotJournaled, LegRuns, JournalIsComplete,
                 DeletedUnderReplay, Journal!NoReplay, Journal!Terminal
  <1>2. CASE \E s \in Sweepers : Journal!FinishElsewhere(s)
    <2>1. PICK s \in Sweepers : Journal!FinishElsewhere(s)
      BY <1>2
    <2>2. /\ UNCHANGED <<jBackend, jExecution, jJournal, jSteps, jIntent, jApproval, jLeg, jFinished,
                         jReplay>>
          /\ jSweep' = [jSweep EXCEPT ![s] = "list"] /\ Journal!Committed
      BY <2>1 DEF Journal!FinishElsewhere
    <2>3. \A t \in Sweepers : jSweep'[t] = "delete" => jSweep[t] = "delete"
      BY <2>2 DEF JournalInv, Journal!TypeOK
    <2>4. CheckHolds'
      BY <2>2, <2>3, CommitOutdates
    <2>5. Journal!TypeOK'
      BY <2>2 DEF JournalInv, Journal!TypeOK
    <2> QED BY <2>2, <2>3, <2>4, <2>5 DEF JournalInv, ReplayTyped, NotJournaled, LegRuns,
                 JournalIsComplete, DeletedUnderReplay, Journal!NoReplay
  <1>3. CASE Journal!Age
    BY <1>3 DEF Journal!Age, JournalInv, Journal!TypeOK, ReplayTyped, NotJournaled, LegRuns,
       JournalIsComplete, DeletedUnderReplay, CheckHolds, Journal!Eligible, Journal!NoReplay
  <1> QED BY <1>1, <1>2, <1>3

\* A journal is deleted by whoever may: no leg of the run is at work, or a replay is.
LEMMA JournalDeleted ==
    ASSUME Journal!JournalConstants, JournalInv, Journal!DeleteRows,
           UNCHANGED <<jBackend, jExecution, jApproval, jLeg, jFinished, jReplay>>,
           jSweep' \in [Sweepers -> {"idle", "own", "list", "gate", "delete"}],
           \A t \in Sweepers : jSweep'[t] = "delete" => jSweep[t] = "delete",
           jLeg # 0 => jReplay.pc # "none", jBackend = "memory" \/ Journal!Committed
    PROVE  JournalInv'
  <1>1. CheckHolds'
    BY CommitOutdates DEF JournalInv, CheckHolds
  <1>2. Journal!TypeOK'
    BY DEF JournalInv, Journal!TypeOK, Journal!DeleteRows
  <1> QED BY <1>1, <1>2 DEF JournalInv, Journal!DeleteRows, ReplayTyped, NotJournaled, LegRuns,
               JournalIsComplete, DeletedUnderReplay, Journal!NoReplay

\* A sweeper takes a step that deletes nothing.
LEMMA SweeperMoves ==
    ASSUME Journal!JournalConstants, JournalInv, NEW s \in Sweepers,
           NEW to \in {"idle", "own", "list", "gate", "delete"},
           jSweep' = [jSweep EXCEPT ![s] = to],
           to = "delete" => Journal!Eligible /\ jBackend # "memory",
           jStale' = jStale \/ jStale' = jStale \ {s},
           to # "delete" \/ jStale' = jStale \ {s},
           UNCHANGED <<jBackend, jExecution, jJournal, jSteps, jIntent, jApproval, jLeg, jFinished,
                       jReplay>>
    PROVE  JournalInv'
  <1>1. /\ jSweep'[s] = to /\ \A t \in Sweepers : t # s => jSweep'[t] = jSweep[t]
        /\ jSweep' \in [Sweepers -> {"idle", "own", "list", "gate", "delete"}]
    BY DEF JournalInv, Journal!TypeOK
  <1>2. CheckHolds'
    BY <1>1 DEF JournalInv, CheckHolds, Journal!Eligible
  <1>3. Journal!TypeOK'
    BY <1>1 DEF JournalInv, Journal!TypeOK
  <1>4. to = "delete" => jExecution \in Journal!Terminal /\ jLeg = 0
    BY DEF JournalInv, LegRuns, Journal!Eligible, Journal!Terminal
  <1>5. NotJournaled' /\ DeletedUnderReplay'
    BY <1>1, <1>4 DEF JournalInv, NotJournaled, DeletedUnderReplay, Journal!Terminal
  <1> QED BY <1>2, <1>3, <1>5 DEF JournalInv, ReplayTyped, LegRuns, JournalIsComplete,
               Journal!NoReplay

\* The sweepers.
LEMMA JournalSwept ==
    ASSUME Journal!JournalConstants, JournalInv, NEW s \in Sweepers,
           \/ Journal!MemoryPrune(s) \/ Journal!ListExpired(s) \/ Journal!BeginPrune(s)
           \/ Journal!CommitPrune(s) \/ Journal!PruneFails(s)
    PROVE  JournalInv'
  <1>0. /\ Journal!After(s) \in {"idle", "list"}
        /\ jSweep \in [Sweepers -> {"idle", "own", "list", "gate", "delete"}]
    BY DEF Journal!After, JournalInv, Journal!TypeOK
  <1>1. CASE Journal!MemoryPrune(s)
    <2>1. /\ UNCHANGED <<jBackend, jExecution, jApproval, jLeg, jFinished, jStale, jReplay>>
          /\ jBackend = "memory" /\ jSweep' = [jSweep EXCEPT ![s] = Journal!After(s)]
      BY <1>1 DEF Journal!MemoryPrune
    <2>2. CASE UNCHANGED <<jJournal, jSteps, jIntent>>
      BY <1>0, <2>1, <2>2, SweeperMoves
    <2>3. CASE Journal!Eligible /\ Journal!DeleteRows
      <3>1. jLeg = 0
        BY <2>3 DEF JournalInv, LegRuns, Journal!Eligible, Journal!Terminal
      <3> QED BY <1>0, <2>1, <2>3, <3>1, JournalDeleted
    <2> QED BY <1>1, <2>2, <2>3 DEF Journal!MemoryPrune
  <1>2. CASE Journal!ListExpired(s)
    BY <1>2, SweeperMoves DEF Journal!ListExpired
  <1>3. CASE Journal!BeginPrune(s)
    <2>1. PICK to \in {"idle", "list", "delete"} :
            /\ jSweep' = [jSweep EXCEPT ![s] = to]
            /\ to = "delete" => Journal!Eligible
      BY <1>0, <1>3 DEF Journal!BeginPrune
    <2> QED BY <1>3, <2>1, SweeperMoves DEF Journal!BeginPrune
  <1>4. CASE Journal!CommitPrune(s)
    <2>1. jLeg # 0 => jReplay.pc # "none"
      BY <1>4 DEF Journal!CommitPrune, JournalInv, DeletedUnderReplay
    <2> QED BY <1>0, <1>4, <2>1, JournalDeleted DEF Journal!CommitPrune
  <1>5. CASE Journal!PruneFails(s)
    BY <1>5, SweeperMoves DEF Journal!PruneFails
  <1> QED BY <1>1, <1>2, <1>3, <1>4, <1>5

\* The failed run is read, and run again.
LEMMA JournalReplayed ==
    ASSUME Journal!JournalConstants, JournalInv,
           Journal!ReadJournal \/ Journal!ReadCheckpoints \/ Journal!ForcedReplay
    PROVE  JournalInv'
  <1>1. CASE Journal!ReadJournal
    <2>1. jReplay' = [pc |-> "read", resume |-> 0]
      BY <1>1 DEF Journal!ReadJournal, Journal!NoReplay
    <2>2. /\ UNCHANGED <<jBackend, jExecution, jJournal, jSteps, jIntent, jApproval, jLeg, jFinished,
                         jSweep, jStale>>
          /\ jLeg = 0
      BY <1>1 DEF Journal!ReadJournal
    <2> QED BY <2>1, <2>2 DEF JournalInv, Journal!TypeOK, ReplayTyped, NotJournaled, LegRuns,
                 JournalIsComplete, DeletedUnderReplay, CheckHolds, Journal!Eligible,
                 Journal!NoReplay, Journal!JournalConstants
  <1>2. CASE Journal!ReadCheckpoints
    <2>1. jReplay' = [pc |-> "ready", resume |-> Journal!Last(jSteps) + 1] /\ jReplay.pc = "read"
          /\ UNCHANGED <<jBackend, jExecution, jJournal, jSteps, jIntent, jApproval, jLeg,
                         jFinished, jSweep, jStale>>
      BY <1>2 DEF Journal!ReadCheckpoints
    <2>2. Journal!Last(jSteps) \in 0..JournalSteps /\ JournalSteps \in Nat
      BY LastStep DEF JournalInv, Journal!TypeOK, Journal!JournalConstants
    <2>3. Journal!Last(jSteps) + 1 \in 0..JournalSteps + 1 /\ Journal!Last(jSteps) + 1 # 0
      BY <2>2
    <2>4. jReplay'.pc = "ready" /\ jReplay'.resume = Journal!Last(jSteps) + 1 /\ jLeg = 0
      BY <2>1 DEF JournalInv, LegRuns
    <2>5. ReplayTyped'
      BY <2>1, <2>3 DEF ReplayTyped, Journal!NoReplay
    <2>6. JournalIsComplete'
      BY <2>1, <2>4 DEF JournalInv, JournalIsComplete, Journal!Last
    <2> QED BY <2>1, <2>4, <2>5, <2>6 DEF JournalInv, Journal!TypeOK, NotJournaled, LegRuns,
                 DeletedUnderReplay, CheckHolds, Journal!Eligible
  <1>3. CASE Journal!ForcedReplay
    <2>1. /\ jReplay.pc = "ready" /\ jExecution' = "running" /\ jLeg' = jReplay.resume
          /\ jReplay' = [jReplay EXCEPT !.pc = "done"] /\ Journal!Committed
          /\ UNCHANGED <<jBackend, jJournal, jSteps, jIntent, jApproval, jFinished, jSweep>>
      BY <1>3 DEF Journal!ForcedReplay
    <2>2. /\ jReplay'.pc = "done" /\ jReplay.resume # 0 /\ jReplay.resume \in 0..JournalSteps + 1
          /\ jReplay' \in [pc : {"none", "read", "ready", "done"}, resume : 0..JournalSteps + 1]
      BY <2>1 DEF JournalInv, ReplayTyped
    <2>3. CheckHolds'
      BY <2>1, CommitOutdates
    <2>4. Journal!TypeOK'
      BY <2>1, <2>2 DEF JournalInv, Journal!TypeOK
    <2>5. ReplayTyped'
      BY <2>2 DEF ReplayTyped, Journal!NoReplay
    <2> QED BY <2>1, <2>2, <2>3, <2>4, <2>5 DEF JournalInv, NotJournaled, LegRuns,
                 JournalIsComplete, DeletedUnderReplay
  <1> QED BY <1>1, <1>2, <1>3

\* Every step of the stores, taken or not.
LEMMA JournalInvStays ==
    Journal!JournalConstants /\ JournalInv /\ [Journal!JournalNext]_journalPart => JournalInv'
  <1> SUFFICES ASSUME Journal!JournalConstants, JournalInv, [Journal!JournalNext]_journalPart
               PROVE  JournalInv'
    OBVIOUS
  <1>1. CASE UNCHANGED journalPart
    BY <1>1 DEF journalPart, JournalInv, Journal!TypeOK, ReplayTyped, NotJournaled, LegRuns,
       JournalIsComplete, DeletedUnderReplay, CheckHolds, Journal!Eligible, Journal!NoReplay
  <1>2. CASE Journal!JournalNext
    BY <1>2, JournalBegins, JournalWorks, JournalEnds, JournalSwept, JournalReplayed
       DEF Journal!JournalNext
  <1> QED BY <1>1, <1>2

\* What the invariant of the stores says of the properties their run checks.
LEMMA JournalInvMeans ==
    JournalInv => Journal!TypeOK /\ Journal!ReplayGoesOn /\ Journal!ParkedKeepsJournal
  BY DEF JournalInv, JournalIsComplete, LegRuns, DeletedUnderReplay, ReplayTyped,
     Journal!ReplayGoesOn, Journal!ParkedKeepsJournal

\* A store deletes a journal only where its check still holds (Postgres excepted).
LEMMA JournalDeleteStays ==
    ASSUME JournalInv, [Journal!JournalNext]_journalPart, jBackend # "postgres",
           jJournal # "none", jJournal' = "none"
    PROVE  Journal!Eligible
  <1>1. CASE UNCHANGED journalPart
    BY <1>1 DEF journalPart
  <1>2. ASSUME NEW s \in Sweepers, Journal!MemoryPrune(s) PROVE Journal!Eligible
    BY <1>2 DEF Journal!MemoryPrune
  <1>3. ASSUME NEW s \in Sweepers, Journal!CommitPrune(s) PROVE Journal!Eligible
    BY <1>3 DEF Journal!CommitPrune, Journal!MayDelete, JournalInv, CheckHolds
  <1>4. CASE \/ Journal!SaveExecution \/ Journal!SaveRunJournal \/ Journal!BeginToolIntent
             \/ Journal!CompleteToolIntent \/ Journal!SaveRunCheckpoint \/ Journal!SaveApproval
             \/ Journal!Age \/ Journal!ReadJournal \/ Journal!ReadCheckpoints
             \/ Journal!ForcedReplay
    BY <1>4 DEF Journal!SaveExecution, Journal!SaveRunJournal, Journal!BeginToolIntent,
       Journal!CompleteToolIntent, Journal!SaveRunCheckpoint, Journal!SaveApproval, Journal!Age,
       Journal!ReadJournal, Journal!ReadCheckpoints, Journal!ForcedReplay
  <1>5. ASSUME NEW status, Journal!ResolveApproval(status) \/ Journal!Finish(status)
        PROVE  Journal!Eligible
    BY <1>5 DEF Journal!ResolveApproval, Journal!Finish
  <1>6. ASSUME NEW s \in Sweepers,
               \/ Journal!FinishElsewhere(s) \/ Journal!ListExpired(s) \/ Journal!BeginPrune(s)
               \/ Journal!PruneFails(s)
        PROVE  Journal!Eligible
    BY <1>6 DEF Journal!FinishElsewhere, Journal!ListExpired, Journal!BeginPrune,
       Journal!PruneFails
  <1> QED BY <1>1, <1>2, <1>3, <1>4, <1>5, <1>6 DEF Journal!JournalNext

JournalSafety == Journal!JournalInit /\ [][Journal!JournalNext]_journalPart

\* However a leg, the sweepers of its retention, a replay and the approval of its step
\* interleave, a parked run keeps its journal, a replay goes on after the last step that
\* finished, and outside Postgres no live journal is pruned (sqlite_journal.go, durable_recovery.go).
THEOREM JournalsAreKept ==
    ASSUME Journal!JournalConstants
    PROVE  JournalSafety =>
             /\ [](Journal!TypeOK /\ Journal!ReplayGoesOn /\ Journal!ParkedKeepsJournal)
             /\ Journal!PruneSparesLive
  <1> DEFINE Spared ==
        jBackend # "postgres" /\ jJournal # "none" /\ jJournal' = "none" => Journal!Eligible
  <1>1. JournalInv /\ [Journal!JournalNext]_journalPart => [Spared]_Journal!journalVars
    <2>1. SUFFICES ASSUME JournalInv, [Journal!JournalNext]_journalPart PROVE Spared
      OBVIOUS
    <2> QED BY <2>1, JournalDeleteStays
  <1> QED BY <1>1, JournalInvHolds, JournalInvStays, JournalInvMeans, PTL
          DEF JournalSafety, Journal!PruneSparesLive

(***************************************************************************)
(* Event ids (EventStore).  The transaction that holds the counter found   *)
(* it above every id of the table (TxAlone), and an id the store assigned  *)
(* is in the table or is that of the transaction, so what a reader has     *)
(* not seen lies above its cursor (Reader).                                *)
(***************************************************************************)
CONSTANTS EventWriters, MaxID
VARIABLES lBackend, lCounter, lTable, lAssigned, lTx, lBefore, lCursor, lDelivered

Log == INSTANCE EventStore WITH
  Writers <- EventWriters,
  backend <- lBackend, counter <- lCounter, table <- lTable, assigned <- lAssigned, tx <- lTx,
  before <- lBefore, cursor <- lCursor, delivered <- lDelivered

logPart == <<lBackend, lCounter, lTable, lAssigned, lTx, lBefore, lCursor, lDelivered>>

LogTyped ==
  /\ lCounter \in 0..MaxID /\ lTable \subseteq 1..MaxID /\ lAssigned \subseteq 1..MaxID
  /\ lTx \in [EventWriters -> 0..MaxID] /\ lBefore \in [EventWriters -> 0..MaxID]
  /\ lCursor \in lTable \cup {0} /\ lDelivered \subseteq lTable
  /\ \A id \in lTable : id <= lCounter
TxAlone ==
  \A w \in EventWriters : lTx[w] # 0 =>
    /\ lBackend = "postgres" /\ lTx[w] <= lCounter /\ lBefore[w] <= lCounter
    /\ \A id \in lTable : id <= lBefore[w]
    /\ \A v \in EventWriters \ {w} : lTx[v] = 0
Unstored(id) == \E w \in EventWriters : lTx[w] = id /\ lTx[w] = lBefore[w] + 1
Reader ==
  \A id \in lAssigned : (id \in lTable \/ Unstored(id)) /\ (id <= lCursor => id \in lDelivered)
LogInv == LogTyped /\ TxAlone /\ Reader

\* The empty table.
LEMMA LogInvHolds == Log!EventStoreConstants /\ Log!EventStoreInit => LogInv
  BY DEF Log!EventStoreConstants, Log!EventStoreInit, LogInv, LogTyped, TxAlone, Reader

\* A cursor is never above the counter, nor above what a transaction found.
LEMMA CursorBelow ==
    ASSUME Log!EventStoreConstants, LogInv
    PROVE  /\ lCursor \in 0..lCounter
           /\ \A w \in EventWriters : lTx[w] # 0 => lCursor <= lBefore[w]
  BY DEF Log!EventStoreConstants, LogInv, LogTyped, TxAlone

\* The stores that assign and insert at once have no transaction.
LEMMA LogAdds ==
    ASSUME Log!EventStoreConstants, LogInv, NEW w \in EventWriters,
           Log!AddEvent(w) \/ \E id \in 1..MaxID : Log!AddExplicit(w, id)
    PROVE  LogInv'
  <1>0. lCounter \in Nat /\ lCounter <= MaxID /\ MaxID \in Nat
    BY DEF LogInv, LogTyped, Log!EventStoreConstants
  <1>1. PICK id \in 1..MaxID :
          /\ lBackend # "postgres" /\ lTable' = lTable \cup {id}
          /\ lCounter' = Log!Greater(lCounter, id)
          /\ \/ lAssigned' = lAssigned
             \/ lAssigned' = lAssigned \cup {id} /\ id = lCounter + 1
          /\ UNCHANGED <<lBackend, lTx, lBefore, lCursor, lDelivered>>
    <2>1. CASE Log!AddEvent(w)
      <3>1. lCounter + 1 \in 1..MaxID /\ lCounter + 1 > lCounter
        BY <1>0, <2>1 DEF Log!AddEvent
      <3>2. Log!Greater(lCounter, lCounter + 1) = lCounter + 1
        BY <1>0 DEF Log!Greater
      <3> QED BY <2>1, <3>1, <3>2 DEF Log!AddEvent
    <2>2. CASE \E id \in 1..MaxID : Log!AddExplicit(w, id)
      <3>1. PICK id \in 1..MaxID : Log!AddExplicit(w, id)
        BY <2>2
      <3> QED BY <3>1 DEF Log!AddExplicit
    <2> QED BY <2>1, <2>2
  <1>2. \A v \in EventWriters : lTx[v] = 0
    BY <1>1 DEF LogInv, TxAlone
  <1>3. LogTyped'
    <2>1. /\ lCounter' \in 0..MaxID /\ lCounter <= lCounter' /\ id <= lCounter'
          /\ \A n \in lTable : n \in Nat /\ n <= lCounter
      BY <1>0, <1>1 DEF LogInv, LogTyped, Log!Greater
    <2>2. \A n \in lTable' : n <= lCounter'
      BY <1>0, <1>1, <2>1
    <2> QED BY <1>1, <2>1, <2>2 DEF LogInv, LogTyped
  <1>4. Reader'
    <2>1. ASSUME NEW n \in lAssigned, n \in lTable \/ Unstored(n) PROVE n \in lTable
      BY <1>2, <2>1 DEF Unstored, LogInv, LogTyped, Log!EventStoreConstants
    <2>2. id = lCounter + 1 => ~(id <= lCursor)
      BY CursorBelow DEF LogInv, LogTyped
    <2> QED BY <1>1, <2>1, <2>2 DEF LogInv, Reader
  <1> QED BY <1>1, <1>2, <1>3, <1>4 DEF LogInv, TxAlone

\* A transaction takes the counter, and gives it back with its id or without.
LEMMA LogBegins ==
    ASSUME Log!EventStoreConstants, LogInv, NEW w \in EventWriters, NEW id \in 0..MaxID,
           Log!BeginEvent(w, id)
    PROVE  LogInv'
  <1>0. lCounter \in Nat /\ lCounter <= MaxID /\ MaxID \in Nat
    BY DEF LogInv, LogTyped, Log!EventStoreConstants
  <1>a. /\ lBackend = "postgres" /\ \A v \in EventWriters : lTx[v] = 0
        /\ lCounter' <= MaxID /\ lBefore' = [lBefore EXCEPT ![w] = lCounter]
        /\ UNCHANGED <<lBackend, lTable, lCursor, lDelivered>>
    BY DEF Log!BeginEvent, Log!CounterFree
  <1>1. PICK n \in 1..MaxID :
          /\ lCounter' \in 0..MaxID /\ lCounter <= lCounter' /\ n <= lCounter'
          /\ lTx' = [lTx EXCEPT ![w] = n]
          /\ \/ lAssigned' = lAssigned
             \/ lAssigned' = lAssigned \cup {n} /\ n = lCounter + 1
    <2>1. CASE id = 0
      <3>1. /\ lCounter' = lCounter + 1 /\ lTx' = [lTx EXCEPT ![w] = lCounter + 1]
            /\ lAssigned' = lAssigned \cup {lCounter + 1}
        BY <2>1 DEF Log!BeginEvent
      <3>2. lCounter + 1 \in 1..MaxID
        BY <1>0, <1>a, <3>1
      <3>3. /\ lCounter' \in 0..MaxID /\ lCounter <= lCounter'
            /\ lCounter + 1 <= lCounter' /\ lCounter + 1 = lCounter + 1
        BY <1>0, <1>a, <3>1
      <3> QED BY <3>1, <3>2, <3>3, Zenon
    <2>2. CASE id # 0
      <3>1. /\ lCounter' = Log!Greater(lCounter, id) /\ lTx' = [lTx EXCEPT ![w] = id]
            /\ lAssigned' = lAssigned
        BY <2>2 DEF Log!BeginEvent
      <3>2. lCounter' \in 0..MaxID /\ lCounter <= lCounter' /\ id <= lCounter' /\ id \in 1..MaxID
        BY <1>0, <2>2, <3>1 DEF Log!Greater
      <3> QED BY <3>1, <3>2
    <2> QED BY <2>1, <2>2
  <1>2. LogTyped'
    <2>1. \A m \in lTable' : m <= lCounter'
      BY <1>0, <1>1, <1>a DEF LogInv, LogTyped
    <2>2. /\ lTx' \in [EventWriters -> 0..MaxID] /\ lBefore' \in [EventWriters -> 0..MaxID]
          /\ lAssigned' \subseteq 1..MaxID
      <3>1. n \in 0..MaxID /\ lCounter \in 0..MaxID
        BY <1>0, <1>1
      <3> QED BY <1>1, <1>a, <3>1 DEF LogInv, LogTyped
    <2> QED BY <1>1, <1>a, <2>1, <2>2 DEF LogInv, LogTyped
  <1>3. TxAlone'
    BY <1>0, <1>1, <1>a DEF Log!EventStoreConstants, LogInv, LogTyped, TxAlone
  <1>4. ASSUME NEW m \in lAssigned PROVE m \in lTable
    BY <1>1, <1>a, <1>4 DEF LogInv, Reader, Unstored, LogTyped, Log!EventStoreConstants
  <1>5. ASSUME n = lCounter + 1 PROVE Unstored(n)' /\ ~(n <= lCursor)
    <2>1. lTx'[w] = n /\ lBefore'[w] = lCounter
      BY <1>0, <1>1, <1>a DEF LogInv, LogTyped
    <2>2. lCursor \in 0..lCounter
      BY CursorBelow
    <2>3. lTx'[w] = lBefore'[w] + 1 /\ ~(n <= lCursor)
      BY <1>0, <1>5, <2>1, <2>2
    <2> QED BY <2>1, <2>3, Zenon DEF Unstored
  <1>6. Reader'
    <2>1. ASSUME NEW m \in lAssigned'
          PROVE  (m \in lTable' \/ Unstored(m)') /\ (m <= lCursor' => m \in lDelivered')
      <3>1. CASE m \in lAssigned
        BY <1>1, <1>a, <1>4, <3>1 DEF LogInv, Reader
      <3>2. CASE m = n /\ n = lCounter + 1
        <4>1. lCursor' = lCursor
          BY <1>a
        <4> QED BY <1>5, <3>2, <4>1, Zenon
      <3> QED BY <1>1, <1>a, <2>1, <3>1, <3>2
    <2> QED BY <2>1, Zenon DEF Reader
  <1> QED BY <1>2, <1>3, <1>6 DEF LogInv

\* A transaction ends: its event is in the table, or never was.
LEMMA LogEnds ==
    ASSUME Log!EventStoreConstants, LogInv, NEW w \in EventWriters,
           Log!CommitEvent(w) \/ Log!RollbackEvent(w)
    PROVE  LogInv'
  <1>1. /\ lTx[w] # 0 /\ lTx' = [lTx EXCEPT ![w] = 0]
        /\ UNCHANGED <<lBackend, lBefore, lCursor, lDelivered>>
    BY DEF Log!CommitEvent, Log!RollbackEvent
  <1>0. lCounter \in Nat /\ lCounter <= MaxID /\ MaxID \in Nat
        /\ lTx[w] \in 1..MaxID /\ lBefore[w] \in 0..MaxID
    BY <1>1 DEF LogInv, LogTyped, Log!EventStoreConstants
  <1>2. /\ \A v \in EventWriters : lTx'[v] = 0
        /\ lTx[w] <= lCounter /\ lBefore[w] <= lCounter /\ \A id \in lTable : id <= lBefore[w]
    BY <1>1 DEF LogInv, LogTyped, TxAlone
  <1>3. TxAlone'
    BY <1>2 DEF TxAlone
  <1>4. ASSUME NEW id \in lAssigned, Unstored(id)
        PROVE  id = lTx[w] /\ id = lBefore[w] + 1 /\ id \notin lTable
    BY <1>1, <1>2, <1>4 DEF LogInv, LogTyped, TxAlone, Unstored, Log!EventStoreConstants
  <1>5. CASE Log!CommitEvent(w)
    <2>1. lTable' = lTable \cup {lTx[w]} /\ UNCHANGED <<lCounter, lAssigned>>
      BY <1>5 DEF Log!CommitEvent
    <2>2. LogTyped'
      <3>1. lTx' \in [EventWriters -> 0..MaxID]
        BY <1>0, <1>1 DEF LogInv, LogTyped
      <3>2. \A id \in lTable' : id <= lCounter'
        BY <1>2, <2>1 DEF LogInv, LogTyped
      <3>3. lTable' \subseteq 1..MaxID /\ lCursor' \in lTable' \cup {0} /\ lDelivered' \subseteq lTable'
        BY <1>0, <1>1, <2>1 DEF LogInv, LogTyped
      <3> QED BY <1>1, <2>1, <3>1, <3>2, <3>3 DEF LogInv, LogTyped
    <2>3. Reader'
      BY <1>1, <1>4, <2>1 DEF LogInv, Reader
    <2> QED BY <1>3, <2>2, <2>3 DEF LogInv
  <1>6. CASE Log!RollbackEvent(w)
    <2>1. /\ lTable' = lTable /\ lCounter' = lBefore[w]
          /\ lAssigned' = IF lTx[w] = lBefore[w] + 1 /\ lTx[w] \notin lTable
                            THEN lAssigned \ {lTx[w]} ELSE lAssigned
      BY <1>6 DEF Log!RollbackEvent
    <2>2. LogTyped'
      <3>1. lTx' \in [EventWriters -> 0..MaxID]
        BY <1>0, <1>1 DEF LogInv, LogTyped
      <3>2. lCounter' \in 0..MaxID /\ \A id \in lTable' : id <= lCounter'
        BY <1>0, <1>2, <2>1
      <3> QED BY <1>1, <2>1, <3>1, <3>2 DEF LogInv, LogTyped
    <2>3. Reader'
      BY <1>1, <1>4, <2>1 DEF LogInv, Reader
    <2> QED BY <1>3, <2>2, <2>3 DEF LogInv
  <1> QED BY <1>5, <1>6

\* The reader goes on to the greatest id of the table.
LEMMA LogReads ==
    ASSUME Log!EventStoreConstants, LogInv, Log!EventsSince PROVE LogInv'
  <1>1. PICK last \in lTable : \A id \in lTable : id <= last
    <2>1. lTable # {} /\ lTable \subseteq 0..MaxID /\ MaxID \in Nat
      BY DEF Log!EventsSince, LogInv, LogTyped, Log!EventStoreConstants
    <2> QED BY <2>1, GreatestNatural
  <1>2. lCursor' \in lTable /\ \A id \in lTable : id <= lCursor'
    BY <1>1 DEF Log!EventsSince
  <1>3. /\ lDelivered' = lDelivered \cup {id \in lTable : id > lCursor}
        /\ UNCHANGED <<lBackend, lCounter, lTable, lAssigned, lTx, lBefore>>
    BY DEF Log!EventsSince
  <1>4. LogTyped' /\ TxAlone'
    BY <1>2, <1>3 DEF LogInv, LogTyped, TxAlone
  <1>5. ASSUME NEW id \in lAssigned, id <= lCursor' PROVE id \in lDelivered'
    <2>1. id \in lTable
      BY <1>2, <1>5 DEF LogInv, LogTyped, TxAlone, Reader, Unstored, Log!EventStoreConstants
    <2>2. id > lCursor \/ id <= lCursor
      BY <2>1 DEF LogInv, LogTyped, Log!EventStoreConstants
    <2> QED BY <1>3, <2>1, <2>2 DEF LogInv, Reader
  <1>6. Reader'
    BY <1>3, <1>5 DEF LogInv, Reader, Unstored
  <1> QED BY <1>4, <1>6 DEF LogInv

\* Every step of the table, taken or not.
LEMMA LogInvStays ==
    Log!EventStoreConstants /\ LogInv /\ [Log!EventStoreNext]_logPart => LogInv'
  <1>1. ASSUME Log!EventStoreConstants, LogInv, Log!EventStoreNext PROVE LogInv'
    <2>1. 0 \in 0..MaxID /\ \A id \in 1..MaxID : id \in 0..MaxID
      BY <1>1 DEF Log!EventStoreConstants
    <2> QED BY <1>1, <2>1, LogAdds, LogBegins, LogEnds, LogReads, Zenon DEF Log!EventStoreNext
  <1>2. LogInv /\ UNCHANGED logPart => LogInv'
    BY DEF logPart, LogInv, LogTyped, TxAlone, Reader, Unstored
  <1> QED BY <1>1, <1>2

\* What the invariant of the table says of the properties its run checks.
LEMMA LogInvMeans == LogInv => Log!TypeOK /\ Log!CounterAbove /\ Log!NoneMissed
  BY DEF LogInv, LogTyped, Reader, Log!TypeOK, Log!CounterAbove, Log!NoneMissed

LogSafety == Log!EventStoreInit /\ [][Log!EventStoreNext]_logPart

\* Whoever adds events, with ids of its own or of the counter, in one statement or in a
\* transaction, a reader that follows its cursor misses none that was stored
\* (sqlite_event.go, postgres_event.go).
THEOREM NoEventIsMissed ==
    ASSUME Log!EventStoreConstants
    PROVE  LogSafety => [](Log!TypeOK /\ Log!CounterAbove /\ Log!NoneMissed)
  BY LogInvHolds, LogInvStays, LogInvMeans, PTL DEF LogSafety

(***************************************************************************)
(* The schema (SchemaMigration).  Tables only grow, and a process knows    *)
(* the versions it has looked at to be in them (Seen); in Postgres they    *)
(* are those up to the recorded version, which a transaction that applies  *)
(* migrations found under the lock it holds (Locked).                      *)
(***************************************************************************)
CONSTANTS Processes, BinaryOf, MaxCrashes
VARIABLES mBackend, mVersion, mColumns, mLock, mProc, mCrashes

Schema == INSTANCE SchemaMigration WITH
  backend <- mBackend, version <- mVersion, columns <- mColumns, lock <- mLock, proc <- mProc,
  crashes <- mCrashes

schemaPart == <<mBackend, mVersion, mColumns, mLock, mProc, mCrashes>>

SchemaPCs == {"open", "verify", "migrate", "look", "alter", "apply", "serving", "done", "refused",
              "failed"}
SchemaProcess == [mode : Schema!Modes, pc : SchemaPCs, at : Nat \ {0}, found : Nat]
SchemaTyped ==
  /\ mBackend \in {"sqlite", "postgres"} /\ mVersion \in Nat /\ mColumns \subseteq Nat
  /\ mLock \in Processes \cup {Schema!NoOne} /\ mProc \in [Processes -> SchemaProcess]
  /\ 1..mVersion \subseteq mColumns
Seen(p) ==
  /\ mProc[p].at <= BinaryOf[p] + 1 /\ 1..(mProc[p].at - 1) \subseteq mColumns
  /\ 1..mProc[p].found \subseteq mColumns
  /\ mProc[p].pc = "serving" => 1..BinaryOf[p] \subseteq mColumns
Locked(p) ==
  /\ mBackend = "sqlite" => mProc[p].pc # "apply"
  /\ mBackend = "postgres" => mProc[p].pc \notin {"look", "alter", "failed"}
  /\ mProc[p].pc = "apply" => mLock = p /\ mProc[p].found = mVersion
SchemaInv ==
  /\ SchemaTyped /\ (mBackend = "postgres" => mColumns \subseteq 1..mVersion)
  /\ \A p \in Processes : Seen(p) /\ Locked(p)

\* Nobody has started yet.
LEMMA SchemaInvHolds == Schema!SchemaConstants /\ Schema!SchemaInit => SchemaInv
  <1> SUFFICES ASSUME Schema!SchemaConstants, Schema!SchemaInit PROVE SchemaInv
    OBVIOUS
  <1>1. mVersion \in Nat /\ mColumns = 1..mVersion /\ mColumns \subseteq Nat
    BY DEF Schema!SchemaInit
  <1>2. mProc \in [Processes -> SchemaProcess]
    BY DEF Schema!SchemaInit, Schema!Fresh, SchemaProcess, SchemaPCs
  <1>3. SchemaTyped
    BY <1>1, <1>2 DEF SchemaTyped, Schema!SchemaInit
  <1>4. ASSUME NEW p \in Processes PROVE Seen(p) /\ Locked(p)
    <2>1. /\ mProc[p].at = 1 /\ mProc[p].found = 0 /\ mProc[p].pc = "open"
          /\ BinaryOf[p] \in Nat \ {0}
      BY DEF Schema!SchemaInit, Schema!Fresh, Schema!SchemaConstants
    <2> QED BY <2>1 DEF Seen, Locked
  <1> QED BY <1>1, <1>3, <1>4 DEF SchemaInv

\* A step of process p that keeps the tables or adds to them: what the others know stays true.
LEMMA SchemaOthers ==
    ASSUME SchemaInv, NEW p \in Processes, mColumns \subseteq mColumns', mBackend' = mBackend,
           \A q \in Processes \ {p} : mProc'[q] = mProc[q],
           \A q \in Processes \ {p} :
             mProc[q].pc = "apply" /\ mLock = q => mLock' = q /\ mVersion' = mVersion,
           Seen(p)', Locked(p)', SchemaTyped',
           mBackend = "postgres" => mColumns' \subseteq 1..mVersion'
    PROVE  SchemaInv'
  <1>1. ASSUME NEW q \in Processes \ {p} PROVE Seen(q)' /\ Locked(q)'
    <2>1. Seen(q) /\ Locked(q) /\ mProc'[q] = mProc[q]
      BY DEF SchemaInv
    <2>2. Seen(q)'
      BY <2>1 DEF Seen
    <2>3. Locked(q)'
      BY <2>1 DEF Locked
    <2> QED BY <2>2, <2>3
  <1> QED BY <1>1 DEF SchemaInv

\* The same for a step that leaves the database alone.
LEMMA SchemaLooks ==
    ASSUME SchemaInv, NEW p \in Processes, NEW r \in SchemaProcess,
           mProc' = [mProc EXCEPT ![p] = r], UNCHANGED <<mBackend, mVersion, mColumns, mLock>>,
           r.at <= BinaryOf[p] + 1, 1..(r.at - 1) \subseteq mColumns,
           1..r.found \subseteq mColumns, r.pc = "serving" => 1..BinaryOf[p] \subseteq mColumns,
           mBackend = "sqlite" => r.pc # "apply",
           mBackend = "postgres" => r.pc \notin {"look", "alter", "failed"},
           r.pc = "apply" => mLock = p /\ r.found = mVersion
    PROVE  SchemaInv'
  <1>1. mProc'[p] = r /\ mProc' \in [Processes -> SchemaProcess]
        /\ \A q \in Processes \ {p} : mProc'[q] = mProc[q]
    BY DEF SchemaInv, SchemaTyped
  <1>2. Seen(p)' /\ Locked(p)'
    BY <1>1 DEF Seen, Locked
  <1>3. SchemaTyped'
    BY <1>1 DEF SchemaInv, SchemaTyped
  <1> QED BY <1>1, <1>2, <1>3, SchemaOthers DEF SchemaInv

\* What is known of the process that takes a step.
LEMMA SchemaKnown ==
    ASSUME Schema!SchemaConstants, SchemaInv, NEW p \in Processes
    PROVE  /\ mProc[p] \in SchemaProcess /\ mProc[p].at \in Nat \ {0} /\ mProc[p].found \in Nat
           /\ mProc[p].pc \in SchemaPCs /\ mProc[p].mode \in Schema!Modes
           /\ BinaryOf[p] \in Nat \ {0} /\ mVersion \in Nat
           /\ Schema!Migrated(p) \in {"done", "serving"}
           /\ Seen(p) /\ Locked(p)
  BY DEF SchemaInv, SchemaTyped, SchemaProcess, Schema!SchemaConstants, Schema!Migrated

\* One field of the record of a process.
LEMMA SchemaGoes ==
    ASSUME NEW k \in SchemaProcess, NEW pc \in SchemaPCs
    PROVE  \E r \in SchemaProcess :
             r = [k EXCEPT !.pc = pc] /\ r.pc = pc /\ r.at = k.at /\ r.found = k.found
  <1>1. [k EXCEPT !.pc = pc] = [mode |-> k.mode, pc |-> pc, at |-> k.at, found |-> k.found]
    BY DEF SchemaProcess
  <1>2. [mode |-> k.mode, pc |-> pc, at |-> k.at, found |-> k.found] \in SchemaProcess
    BY DEF SchemaProcess
  <1> QED BY <1>1, <1>2

\* A process at another migration.
LEMMA SchemaAt ==
    ASSUME NEW k \in SchemaProcess, NEW n \in Nat \ {0}
    PROVE  \E r \in SchemaProcess :
             r = [k EXCEPT !.at = n] /\ r.pc = k.pc /\ r.at = n /\ r.found = k.found
  <1>1. [k EXCEPT !.at = n] = [mode |-> k.mode, pc |-> k.pc, at |-> n, found |-> k.found]
    BY DEF SchemaProcess
  <1>2. [mode |-> k.mode, pc |-> k.pc, at |-> n, found |-> k.found] \in SchemaProcess
    BY DEF SchemaProcess
  <1> QED BY <1>1, <1>2

\* A process that found another version.
LEMMA SchemaFound ==
    ASSUME NEW k \in SchemaProcess, NEW n \in Nat
    PROVE  \E r \in SchemaProcess :
             r = [k EXCEPT !.found = n] /\ r.pc = k.pc /\ r.at = k.at /\ r.found = n
  <1>1. [k EXCEPT !.found = n] = [mode |-> k.mode, pc |-> k.pc, at |-> k.at, found |-> n]
    BY DEF SchemaProcess
  <1>2. [mode |-> k.mode, pc |-> k.pc, at |-> k.at, found |-> n] \in SchemaProcess
    BY DEF SchemaProcess
  <1> QED BY <1>1, <1>2

\* The database is opened or verified, and SQLite looks for the columns one by one.
LEMMA SchemaOpens ==
    ASSUME Schema!SchemaConstants, SchemaInv, NEW p \in Processes, Schema!Open(p)
    PROVE  SchemaInv'
  <1> DEFINE k == mProc[p]
             pc == IF k.mode = "off" THEN "verify" ELSE "migrate"
  <1>1. k \in SchemaProcess /\ Seen(p) /\ Locked(p) /\ mVersion \in Nat /\ pc \in SchemaPCs
    BY SchemaKnown DEF SchemaPCs
  <1>2. PICK j \in SchemaProcess :
          j = [k EXCEPT !.pc = pc] /\ j.pc = pc /\ j.at = k.at /\ j.found = k.found
    BY <1>1, SchemaGoes
  <1>3. PICK r \in SchemaProcess :
          r = [j EXCEPT !.found = mVersion] /\ r.pc = j.pc /\ r.at = j.at /\ r.found = mVersion
    BY <1>1, SchemaFound
  <1>4. r.pc = pc /\ r.at = k.at /\ r.found = mVersion
    BY <1>2, <1>3
  <1>5. mProc' = [mProc EXCEPT ![p] = r]
    BY <1>2, <1>3 DEF Schema!Open
  <1>6. UNCHANGED <<mBackend, mVersion, mColumns, mLock>> /\ 1..mVersion \subseteq mColumns
    BY DEF Schema!Open, SchemaInv, SchemaTyped
  <1> QED BY <1>1, <1>4, <1>5, <1>6, SchemaLooks DEF Seen

\* A process reads the version, or a column is there already.
LEMMA SchemaVerifies ==
    ASSUME Schema!SchemaConstants, SchemaInv, NEW p \in Processes,
           Schema!VerifySchema(p) \/ Schema!EnsureColumn(p)
    PROVE  SchemaInv'
  <1> DEFINE k == mProc[p]
  <1>1. /\ k \in SchemaProcess /\ k.at \in Nat \ {0} /\ k.found \in Nat /\ BinaryOf[p] \in Nat \ {0}
        /\ Seen(p) /\ Locked(p)
    BY SchemaKnown
  <1>2. UNCHANGED <<mBackend, mVersion, mColumns, mLock>> /\ 1..mVersion \subseteq mColumns
    BY DEF Schema!VerifySchema, Schema!EnsureColumn, SchemaInv, SchemaTyped
  <1>3. CASE Schema!VerifySchema(p)
    <2> DEFINE pc == IF Schema!Verifies(p) THEN "serving" ELSE "refused"
    <2>1. PICK r \in SchemaProcess :
            /\ r = [k EXCEPT !.pc = pc] /\ r.pc = pc /\ r.at = k.at /\ r.found = k.found
      <3>1. pc \in SchemaPCs
        BY DEF SchemaPCs
      <3> HIDE DEF pc
      <3> QED BY <1>1, <3>1, SchemaGoes
    <2>2. mProc' = [mProc EXCEPT ![p] = r]
      BY <1>3, <2>1 DEF Schema!VerifySchema, Schema!Goes
    <2>3. Schema!Verifies(p) => 1..BinaryOf[p] \subseteq mColumns
      BY <1>2 DEF Schema!Verifies
    <2>4. r.pc \in {"serving", "refused"} /\ (r.pc = "serving" => Schema!Verifies(p))
      BY <2>1
    <2> HIDE DEF pc
    <2> QED BY <1>1, <1>2, <2>1, <2>2, <2>3, <2>4, SchemaLooks DEF Seen
  <1>4. CASE Schema!EnsureColumn(p) /\ k.at \in mColumns
    <2>1. k.at + 1 \in Nat \ {0} /\ k.pc = "look"
      BY <1>1, <1>4 DEF Schema!EnsureColumn
    <2>2. PICK j \in SchemaProcess :
            j = [k EXCEPT !.pc = "look"] /\ j.pc = "look" /\ j.at = k.at /\ j.found = k.found
      BY <1>1, SchemaGoes DEF SchemaPCs
    <2>3. PICK r \in SchemaProcess :
            r = [j EXCEPT !.at = k.at + 1] /\ r.pc = j.pc /\ r.at = k.at + 1 /\ r.found = j.found
      BY <2>1, <2>2, SchemaAt
    <2>4. mProc' = [mProc EXCEPT ![p].pc = "look", ![p].at = k.at + 1]
      BY <1>4 DEF Schema!EnsureColumn
    <2>5. mProc' = [mProc EXCEPT ![p] = r]
      BY <2>2, <2>3, <2>4
    <2>6. r.at <= BinaryOf[p] + 1 /\ 1..(r.at - 1) \subseteq mColumns
      <3>1. k.at <= BinaryOf[p] /\ r.at - 1 = k.at
        BY <1>1, <1>4, <2>3 DEF Schema!EnsureColumn
      <3>2. ASSUME NEW n \in 1..k.at PROVE n \in mColumns
        <4>1. n = k.at \/ n \in 1..(k.at - 1)
          BY <1>1
        <4> QED BY <1>1, <1>4, <4>1 DEF Seen
      <3> QED BY <1>1, <2>3, <3>1, <3>2
    <2>7. mBackend = "sqlite"
      BY <1>1, <1>4 DEF Schema!EnsureColumn, Locked, SchemaInv, SchemaTyped
    <2> QED BY <1>1, <1>2, <2>2, <2>3, <2>5, <2>6, <2>7, SchemaLooks DEF Seen
  <1>5. CASE Schema!EnsureColumn(p) /\ k.at \notin mColumns
    <2>1. PICK j \in SchemaProcess :
            j = [k EXCEPT !.pc = "alter"] /\ j.pc = "alter" /\ j.at = k.at /\ j.found = k.found
      BY <1>1, SchemaGoes DEF SchemaPCs
    <2>2. PICK r \in SchemaProcess :
            r = [j EXCEPT !.at = k.at] /\ r.pc = j.pc /\ r.at = k.at /\ r.found = j.found
      BY <1>1, <2>1, SchemaAt
    <2>3. mProc' = [mProc EXCEPT ![p].pc = "alter", ![p].at = k.at]
      BY <1>5 DEF Schema!EnsureColumn
    <2>4. mProc' = [mProc EXCEPT ![p] = r]
      BY <2>1, <2>2, <2>3
    <2>5. mBackend = "sqlite"
      BY <1>1, <1>5 DEF Schema!EnsureColumn, Locked, SchemaInv, SchemaTyped
    <2> QED BY <1>1, <1>2, <2>1, <2>2, <2>4, <2>5, SchemaLooks DEF Seen
  <1> QED BY <1>3, <1>4, <1>5

\* SQLite adds what is missing, and stamps the version when nothing is.
LEMMA SchemaAdds ==
    ASSUME Schema!SchemaConstants, SchemaInv, NEW p \in Processes,
           Schema!CreateTables(p) \/ Schema!AlterTable(p) \/ Schema!SetVersion(p)
    PROVE  SchemaInv'
  <1> DEFINE k == mProc[p]
  <1>1. /\ k \in SchemaProcess /\ k.at \in Nat \ {0} /\ k.found \in Nat /\ BinaryOf[p] \in Nat \ {0}
        /\ Seen(p) /\ Locked(p) /\ mVersion \in Nat
    BY SchemaKnown
  <1>2. mBackend = "sqlite" /\ UNCHANGED <<mBackend, mLock>>
    BY <1>1 DEF Schema!CreateTables, Schema!AlterTable, Schema!SetVersion, Locked, SchemaInv,
         SchemaTyped
  <1>3. PICK pc \in SchemaPCs \ {"apply"} : mProc' = [mProc EXCEPT ![p].pc = pc]
    BY SchemaKnown DEF Schema!CreateTables, Schema!AlterTable, Schema!SetVersion, Schema!Goes,
         SchemaPCs
  <1>4. PICK r \in SchemaProcess :
          r = [k EXCEPT !.pc = pc] /\ r.pc = pc /\ r.at = k.at /\ r.found = k.found
    BY <1>1, <1>3, SchemaGoes
  <1>5. /\ mProc' = [mProc EXCEPT ![p] = r]
        /\ mProc'[p] = r /\ mProc' \in [Processes -> SchemaProcess]
        /\ \A q \in Processes \ {p} : mProc'[q] = mProc[q]
    BY <1>3, <1>4 DEF SchemaInv, SchemaTyped
  <1>6. /\ mColumns' \subseteq Nat /\ mColumns \subseteq mColumns' /\ mVersion' \in Nat
        /\ 1..mVersion' \subseteq mColumns'
        /\ pc = "serving" => 1..BinaryOf[p] \subseteq mColumns'
    <2>1. CASE Schema!CreateTables(p)
      <3>1. /\ mColumns' = (IF mColumns = {} THEN 1..BinaryOf[p] ELSE mColumns)
            /\ mVersion' = mVersion /\ mProc'[p].pc = "look"
        BY <1>3, <1>5, <2>1 DEF Schema!CreateTables, Schema!Goes, SchemaInv, SchemaTyped, SchemaProcess
      <3> QED BY <1>1, <1>4, <1>5, <3>1 DEF SchemaInv, SchemaTyped
    <2>2. CASE Schema!AlterTable(p)
      <3>1. /\ mColumns' = mColumns \cup {k.at} /\ mVersion' = mVersion
            /\ mProc'[p].pc \in {"failed", "look"}
        BY <1>3, <1>5, <2>2 DEF Schema!AlterTable, Schema!Goes, SchemaInv, SchemaTyped, SchemaProcess
      <3> QED BY <1>1, <1>4, <1>5, <3>1 DEF SchemaInv, SchemaTyped
    <2>3. CASE Schema!SetVersion(p)
      <3>1. mColumns' = mColumns /\ mVersion' = BinaryOf[p] /\ k.at > BinaryOf[p]
        BY <2>3 DEF Schema!SetVersion
      <3>2. 1..BinaryOf[p] \subseteq mColumns
        <4>1. BinaryOf[p] <= k.at - 1
          BY <1>1, <3>1
        <4> QED BY <1>1, <4>1 DEF Seen
      <3> QED BY <1>1, <3>1, <3>2 DEF SchemaInv, SchemaTyped
    <2> QED BY <2>1, <2>2, <2>3
  <1>7. Seen(p)' /\ Locked(p)'
    BY <1>1, <1>2, <1>4, <1>5, <1>6 DEF Seen, Locked
  <1>8. SchemaTyped'
    BY <1>2, <1>5, <1>6 DEF SchemaInv, SchemaTyped
  <1>9. \A q \in Processes : mProc[q].pc # "apply"
    BY <1>2 DEF SchemaInv, Locked
  <1> QED BY <1>2, <1>5, <1>6, <1>7, <1>8, <1>9, SchemaOthers

\* Postgres applies what is missing under its lock, which no other process takes meanwhile.
LEMMA SchemaCommits ==
    ASSUME Schema!SchemaConstants, SchemaInv, NEW p \in Processes, Schema!CommitMigration(p)
    PROVE  SchemaInv'
  <1> DEFINE k == mProc[p]
             missing == (k.found + 1)..BinaryOf[p]
  <1>1. /\ k \in SchemaProcess /\ k.at \in Nat \ {0} /\ k.found \in Nat /\ BinaryOf[p] \in Nat \ {0}
        /\ Seen(p) /\ Locked(p) /\ mVersion \in Nat /\ Schema!Migrated(p) \in SchemaPCs \ {"apply"}
        /\ Schema!Migrated(p) \notin {"look", "alter", "failed"}
    BY SchemaKnown DEF SchemaPCs
  <1>2. mBackend = "postgres" /\ mLock = p /\ k.found = mVersion /\ mColumns = 1..mVersion
    BY <1>1 DEF Schema!CommitMigration, Locked, SchemaInv, SchemaTyped
  <1>3. missing \cap mColumns = {}
    BY <1>1, <1>2
  <1>4. /\ mColumns' = mColumns \cup missing
        /\ mVersion' = (IF missing = {} THEN mVersion ELSE BinaryOf[p])
        /\ mProc' = [mProc EXCEPT ![p].pc = Schema!Migrated(p)]
        /\ mLock' = Schema!NoOne /\ mBackend' = mBackend
    BY <1>3 DEF Schema!CommitMigration, Schema!Goes
  <1>5. /\ mVersion' \in Nat /\ mColumns' = 1..mVersion' /\ 1..BinaryOf[p] \subseteq mColumns'
        /\ mColumns \subseteq mColumns' /\ mColumns' \subseteq Nat
    <2>1. CASE missing = {}
      <3>1. ~(mVersion + 1 <= BinaryOf[p])
        BY <1>1, <1>2, <2>1
      <3>2. BinaryOf[p] <= mVersion
        BY <1>1, <3>1
      <3> QED BY <1>1, <1>2, <1>4, <2>1, <3>2
    <2>2. CASE missing # {}
      <3>1. mVersion < BinaryOf[p] /\ mVersion' = BinaryOf[p]
        BY <1>1, <1>2, <1>4, <2>2
      <3>2. mColumns' = 1..BinaryOf[p]
        BY <1>1, <1>2, <1>4, <3>1
      <3> QED BY <1>1, <1>2, <3>1, <3>2
    <2> QED BY <2>1, <2>2
  <1>6. PICK r \in SchemaProcess :
          /\ r = [k EXCEPT !.pc = Schema!Migrated(p)] /\ r.pc = Schema!Migrated(p)
          /\ r.at = k.at /\ r.found = k.found
    BY <1>1, SchemaGoes
  <1>7. /\ mProc'[p] = r /\ mProc' \in [Processes -> SchemaProcess]
        /\ \A q \in Processes \ {p} : mProc'[q] = mProc[q]
    BY <1>4, <1>6 DEF SchemaInv, SchemaTyped
  <1>8. Seen(p)' /\ Locked(p)'
    BY <1>1, <1>2, <1>4, <1>5, <1>6, <1>7 DEF Seen, Locked
  <1>9. SchemaTyped'
    BY <1>4, <1>5, <1>7 DEF SchemaInv, SchemaTyped
  <1> QED BY <1>2, <1>4, <1>5, <1>7, <1>8, <1>9, SchemaOthers

\* The lock is taken when no process has it, and lost with the process that has it.
LEMMA SchemaLocks ==
    ASSUME Schema!SchemaConstants, SchemaInv, NEW p \in Processes,
           Schema!BeginMigration(p) \/ Schema!Restart(p)
    PROVE  SchemaInv'
  <1> DEFINE k == mProc[p]
  <1>1. /\ k \in SchemaProcess /\ k.at \in Nat \ {0} /\ k.found \in Nat /\ BinaryOf[p] \in Nat \ {0}
        /\ Seen(p) /\ Locked(p) /\ mVersion \in Nat /\ k.mode \in Schema!Modes
    BY SchemaKnown
  <1>2. UNCHANGED <<mBackend, mVersion, mColumns>> /\ 1..mVersion \subseteq mColumns
    BY DEF Schema!BeginMigration, Schema!Restart, SchemaInv, SchemaTyped
  <1>3. PICK r \in SchemaProcess :
          /\ mProc' = [mProc EXCEPT ![p] = r] /\ mLock' \in Processes \cup {Schema!NoOne}
          /\ r.at <= BinaryOf[p] + 1 /\ 1..(r.at - 1) \subseteq mColumns
          /\ 1..r.found \subseteq mColumns /\ r.pc \in {"open", "apply"}
          /\ r.pc = "apply" => mBackend = "postgres" /\ mLock' = p /\ r.found = mVersion
    <2>1. CASE Schema!BeginMigration(p)
      <3>1. mProc' = [mProc EXCEPT ![p].pc = "apply", ![p].found = mVersion]
        BY <2>1 DEF Schema!BeginMigration
      <3>2. PICK j \in SchemaProcess :
              j = [k EXCEPT !.pc = "apply"] /\ j.pc = "apply" /\ j.at = k.at /\ j.found = k.found
        BY <1>1, SchemaGoes DEF SchemaPCs
      <3>3. PICK r \in SchemaProcess :
              r = [j EXCEPT !.found = mVersion] /\ r.pc = j.pc /\ r.at = j.at /\ r.found = mVersion
        BY <1>1, <3>2, SchemaFound
      <3>4. mProc' = [mProc EXCEPT ![p] = r]
        BY <3>1, <3>2, <3>3
      <3> QED BY <1>1, <1>2, <2>1, <3>2, <3>3, <3>4 DEF Schema!BeginMigration, Seen
    <2>2. CASE Schema!Restart(p)
      <3> DEFINE r == Schema!Fresh(k.mode)
      <3>1. r \in SchemaProcess /\ r.at = 1 /\ r.found = 0 /\ r.pc = "open"
        BY <1>1 DEF Schema!Fresh, SchemaProcess, SchemaPCs
      <3>2. mProc' = [mProc EXCEPT ![p] = r] /\ mLock' \in Processes \cup {Schema!NoOne}
        BY <2>2 DEF Schema!Restart, SchemaInv, SchemaTyped
      <3>3. r.at <= BinaryOf[p] + 1 /\ 1..(r.at - 1) = {} /\ 1..r.found = {}
        BY <1>1, <3>1
      <3> HIDE DEF r
      <3> QED BY <3>1, <3>2, <3>3
    <2> QED BY <2>1, <2>2
  <1>4. ASSUME NEW q \in Processes \ {p}, mLock = q PROVE mLock' = q
    BY <1>4 DEF Schema!BeginMigration, Schema!LockFree, Schema!Restart, Schema!SchemaConstants
  <1>5. /\ mProc'[p] = r /\ mProc' \in [Processes -> SchemaProcess]
        /\ \A q \in Processes \ {p} : mProc'[q] = mProc[q]
    BY <1>3 DEF SchemaInv, SchemaTyped
  <1>6. Seen(p)' /\ Locked(p)'
    BY <1>2, <1>3, <1>5 DEF Seen, Locked
  <1>7. SchemaTyped'
    BY <1>2, <1>3, <1>5 DEF SchemaInv, SchemaTyped
  <1> QED BY <1>2, <1>4, <1>5, <1>6, <1>7, SchemaOthers DEF SchemaInv

\* Every step of the schema, taken or not.
LEMMA SchemaInvStays ==
    Schema!SchemaConstants /\ SchemaInv /\ [Schema!SchemaNext]_schemaPart => SchemaInv'
  <1>1. SchemaInv /\ UNCHANGED schemaPart => SchemaInv'
    BY DEF schemaPart, SchemaInv, SchemaTyped, Seen, Locked
  <1> QED BY <1>1, SchemaOpens, SchemaVerifies, SchemaAdds, SchemaCommits, SchemaLocks, Zenon
          DEF Schema!SchemaNext

\* What the invariant of the schema says of the properties its run checks.
LEMMA SchemaInvMeans ==
    SchemaInv => /\ Schema!SchemaConstants => Schema!TypeOK
                 /\ Schema!ServesFullSchema /\ Schema!VersionHonest /\ Schema!LockPreventsRaces
  <1>1. SchemaInv /\ Schema!SchemaConstants => Schema!TypeOK
    <2> SUFFICES ASSUME SchemaInv, Schema!SchemaConstants PROVE Schema!TypeOK
      OBVIOUS
    <2>1. ASSUME NEW p \in Processes
          PROVE  mProc[p].mode \in Schema!Modes /\ mProc[p].at \in 1..BinaryOf[p] + 1
      BY SchemaKnown DEF Seen
    <2> QED BY <2>1 DEF SchemaInv, SchemaTyped, Schema!TypeOK
  <1>2. SchemaInv => Schema!ServesFullSchema /\ Schema!VersionHonest /\ Schema!LockPreventsRaces
    BY DEF SchemaInv, SchemaTyped, Seen, Locked, Schema!ServesFullSchema, Schema!VersionHonest,
       Schema!LockPreventsRaces
  <1> QED BY <1>1, <1>2

SchemaSafety == Schema!SchemaInit /\ [][Schema!SchemaNext]_schemaPart

\* However processes of different binaries open, verify and migrate one database, and die on the
\* way, the one that serves has every column it needs and the recorded version is never ahead
\* of the tables (migrate.go, postgres_store.go).
THEOREM SchemaIsServed ==
    ASSUME Schema!SchemaConstants
    PROVE  SchemaSafety => [](/\ Schema!TypeOK /\ Schema!ServesFullSchema
                              /\ Schema!VersionHonest /\ Schema!LockPreventsRaces)
  BY SchemaInvHolds, SchemaInvStays, SchemaInvMeans, PTL DEF SchemaSafety

(***************************************************************************)
(* Approvals without durability (ApprovalDesk).  A call is won once, by    *)
(* the request whose wish its row holds (Won); the registry holds the one  *)
(* call a parked run goes on with (Waiting); and a call that was decided   *)
(* has a winner, or the answer of its decision was lost (Decided).         *)
(***************************************************************************)
CONSTANTS MaxRequests, MaxApprovals, DeskFaults
VARIABLES qBackend, qApproval, qExecution, qRun, qRegistry, qResumed, qRequest, qStopping, qFaults

Desk == INSTANCE ApprovalDesk WITH
  MaxFaults <- DeskFaults,
  backend <- qBackend, approval <- qApproval, execution <- qExecution, run <- qRun, registry <-
  qRegistry, resumed <- qResumed, request <- qRequest, stopping <- qStopping, faults <- qFaults

deskPart == <<qBackend, qApproval, qExecution, qRun, qRegistry, qResumed, qRequest, qStopping,
              qFaults>>

DeskPCs == {"idle", "looked", "updated", "won", "failing", "recorded", "answered"}
DeskRequest == [pc : DeskPCs, of : 0..MaxApprovals, want : Desk!Decisions \cup {"none"},
                home : BOOLEAN, met : BOOLEAN, lost : BOOLEAN, answer : {"none", "ok", "conflict"}]
Won(q) == q.answer = "ok" \/ q.pc \in {"updated", "won", "failing", "recorded"}
\* What the record of a request says of itself.
Asks(q) == /\ q.pc = "looked" \/ Won(q) => q.of \in Desk!Approvals /\ q.want \in Desk!Decisions
           /\ q.answer # "none" => q.pc = "answered"
           /\ q.lost => q.pc \in {"recorded", "answered"}
\* The row of a call and what its winner wished.
WonOnce(r) ==
  Won(qRequest[r]) =>
    /\ qApproval[qRequest[r].of] = qRequest[r].want
    /\ \A s \in Desk!Requests \ {r} : Won(qRequest[s]) => qRequest[s].of # qRequest[r].of
Denied(q) ==
  (q.answer = "ok" \/ q.pc = "recorded") /\ q.want = "denied" /\ ~q.lost => qExecution # "running"
Decided(n) ==
  qApproval[n] \in Desk!Decisions =>
    \E r \in Desk!Requests :
      qRequest[r].of = n /\ (qRequest[r].lost \/ Won(qRequest[r]))
\* An approved call whose continuation is kept: its decision is lost, or on its way, or missed it.
Kept(n) ==
  qApproval[n] = "approved" =>
    \/ qStopping
    \/ \E r \in Desk!Requests :
         /\ qRequest[r].of = n
         /\ \/ qRequest[r].lost
            \/ Won(qRequest[r]) /\ (qRequest[r].pc # "answered" \/ ~qRequest[r].met
                                    \/ ~qRequest[r].home)
\* A call that is saved and not parked yet was met by no decision.
Unmet(n) == \A r \in Desk!Requests : qRequest[r].of = n /\ Won(qRequest[r]) => ~qRequest[r].met

Waiting ==
  /\ IF qRun.pc = "parked" THEN \E n \in qRun.asked : qRegistry = {n} ELSE qRegistry = {}
  /\ qRun.pc = "running" => qRun.asked = {}
  /\ \A n \in qRun.asked : qApproval[n] # "none"
  /\ qRun.pc = "saved" => \A n \in qRun.asked : Unmet(n)
DeskInv ==
  /\ Desk!DeskTypeOK
  /\ \A r \in Desk!Requests : Asks(qRequest[r]) /\ WonOnce(r) /\ Denied(qRequest[r])
  /\ \A n \in Desk!Approvals : Decided(n)
  /\ \A n \in qRegistry : Kept(n)
  /\ \A n \in qResumed : qApproval[n] = "approved"
  /\ Waiting

\* Nobody has asked yet.
LEMMA DeskInvHolds == Desk!DeskConstants /\ Desk!DeskInit => DeskInv
  <1> SUFFICES ASSUME Desk!DeskConstants, Desk!DeskInit PROVE DeskInv
    OBVIOUS
  <1>1. Desk!NotSent \in DeskRequest /\ ~Won(Desk!NotSent) /\ Desk!NotSent.pc = "idle"
        /\ Desk!NotSent.answer = "none" /\ ~Desk!NotSent.lost
    BY DEF Desk!DeskConstants, Desk!NotSent, DeskRequest, DeskPCs, Won
  <1>2. Desk!DeskTypeOK
    <2>1. qRequest \in [Desk!Requests -> DeskRequest]
      BY <1>1 DEF Desk!DeskInit
    <2>2. 0 \in 0..DeskFaults
      BY DEF Desk!DeskConstants
    <2> QED BY <2>1, <2>2 DEF Desk!DeskInit, Desk!DeskTypeOK, DeskRequest, DeskPCs
  <1> QED BY <1>1, <1>2 DEF Desk!DeskInit, DeskInv, Asks, WonOnce, Denied, Decided, Kept, Waiting,
               Desk!Decisions

\* The run asks, parks and ends; the server stops.
LEMMA DeskRuns ==
    ASSUME Desk!DeskConstants, DeskInv,
           \/ \E n \in Desk!Approvals : Desk!Ask(n) \/ Desk!Park(n)
           \/ \E s \in {"completed", "failed"} : Desk!Finish(s)
           \/ Desk!Stop
    PROVE  DeskInv'
  <1> DEFINE Requested == \A r \in Desk!Requests :
                            Asks(qRequest[r]) /\ WonOnce(r) /\ Denied(qRequest[r])
  <1>1. CASE \E n \in Desk!Approvals : Desk!Ask(n)
    <2>1. PICK n \in Desk!Approvals : Desk!Ask(n)
      BY <1>1
    <2>2. /\ qApproval[n] = "none" /\ qApproval' = [qApproval EXCEPT ![n] = "pending"]
          /\ qRun' = [pc |-> "saved", asked |-> qRun.asked \cup {n}]
          /\ qRun.pc \in {"running", "saved"}
          /\ UNCHANGED <<qBackend, qExecution, qRegistry, qResumed, qRequest, qStopping, qFaults>>
      BY <2>1 DEF Desk!Ask, Desk!NewApproval, Desk!Saved
    <2>3. Desk!DeskTypeOK'
      BY <2>2 DEF DeskInv, Desk!DeskTypeOK
    <2>4. \A m \in Desk!Approvals : m # n => qApproval'[m] = qApproval[m]
      BY <2>2 DEF DeskInv, Desk!DeskTypeOK
    <2>5. qApproval'[n] = "pending"
      BY <2>2 DEF DeskInv, Desk!DeskTypeOK
    <2>6. Requested'
      BY <2>2, <2>4 DEF DeskInv, Asks, WonOnce, Denied, Desk!Decisions, Won
    <2>7. \A m \in Desk!Approvals : Decided(m)'
      BY <2>2, <2>4, <2>5 DEF DeskInv, Decided, Desk!Decisions, Won
    <2>8. qRegistry' = {} /\ \A m \in qResumed' : qApproval'[m] = "approved"
      BY <2>2, <2>4 DEF DeskInv, Waiting, Desk!DeskTypeOK
    <2>9. Waiting'
      <3>1. Unmet(n)'
        BY <2>2 DEF DeskInv, Unmet, WonOnce, Asks, Desk!Decisions
      <3>2. ASSUME NEW m \in qRun.asked PROVE Unmet(m)' /\ qApproval'[m] # "none"
        BY <2>2, <2>5, <3>2 DEF DeskInv, Waiting, Unmet, Desk!DeskTypeOK, Won
      <3> QED BY <2>2, <2>5, <2>8, <3>1, <3>2 DEF Waiting
    <2> QED BY <2>3, <2>6, <2>7, <2>8, <2>9 DEF DeskInv
  <1>2. CASE \E n \in Desk!Approvals : Desk!Park(n)
    <2>1. PICK n \in Desk!Approvals : Desk!Park(n)
      BY <1>2
    <2>2. /\ qRun.pc = "saved" /\ n \in qRun.asked /\ qRun' = [qRun EXCEPT !.pc = "parked"]
          /\ qRegistry' = qRegistry \cup {n}
          /\ UNCHANGED <<qBackend, qApproval, qExecution, qResumed, qRequest, qStopping, qFaults>>
      BY <2>1 DEF Desk!Park, Desk!Store
    <2>3. qRegistry' = {n} /\ qRun'.pc = "parked" /\ qRun'.asked = qRun.asked /\ Unmet(n)
      BY <2>2 DEF DeskInv, Waiting, Desk!DeskTypeOK
    <2>4. Desk!DeskTypeOK'
      BY <2>2, <2>3 DEF DeskInv, Desk!DeskTypeOK
    <2>5. Kept(n)'
      BY <2>2, <2>3 DEF DeskInv, Decided, Unmet, Kept, Desk!Decisions, Won
    <2> QED BY <2>2, <2>3, <2>4, <2>5 DEF DeskInv, Waiting, Asks, WonOnce, Denied, Decided, Won
  <1>3. CASE \E s \in {"completed", "failed"} : Desk!Finish(s)
    <2>1. PICK s \in {"completed", "failed"} : Desk!Finish(s)
      BY <1>3
    <2>2. /\ qRun.pc \in {"running", "saved"} /\ qRun' = [qRun EXCEPT !.pc = s] /\ qExecution' = s
          /\ UNCHANGED <<qBackend, qApproval, qRegistry, qResumed, qRequest, qStopping, qFaults>>
      BY <2>1 DEF Desk!Finish
    <2>3. qRun'.pc = s /\ qRun'.asked = qRun.asked
      BY <2>2 DEF DeskInv, Desk!DeskTypeOK
    <2>4. Desk!DeskTypeOK'
      BY <2>2, <2>3 DEF DeskInv, Desk!DeskTypeOK
    <2> QED BY <2>2, <2>3, <2>4 DEF DeskInv, Waiting, Asks, WonOnce, Denied, Decided, Won
  <1>4. CASE Desk!Stop
    <2>1. /\ qStopping' = TRUE
          /\ UNCHANGED <<qBackend, qApproval, qExecution, qRun, qRegistry, qResumed, qRequest,
                         qFaults>>
      BY <1>4 DEF Desk!Stop
    <2> QED BY <2>1 DEF DeskInv, Desk!DeskTypeOK, Waiting, Unmet, Asks, WonOnce, Denied, Decided,
                  Kept, Won
  <1> QED BY <1>1, <1>2, <1>3, <1>4

\* A step of one request that decides nothing.
LEMMA RequestMoves ==
    ASSUME Desk!DeskConstants, DeskInv, NEW r \in Desk!Requests, NEW q \in DeskRequest,
           qRequest' = [qRequest EXCEPT ![r] = q], qFaults' \in 0..DeskFaults,
           UNCHANGED <<qBackend, qApproval, qRun, qRegistry, qResumed, qStopping>>,
           qExecution' = qExecution \/ qExecution' = "failed",
           Asks(q), Denied(q)',
           Won(q) => Won(qRequest[r]) /\ q.pc # "answered" /\ q.of = qRequest[r].of
                     /\ q.want = qRequest[r].want /\ q.met = qRequest[r].met,
           Won(qRequest[r]) \/ qRequest[r].lost =>
             q.of = qRequest[r].of /\ (q.lost \/ (Won(q) /\ ~qRequest[r].lost))
    PROVE  DeskInv'
  <1> DEFINE p == qRequest[r]
  <1>1. qRequest \in [Desk!Requests -> DeskRequest] /\ p \in DeskRequest
    BY DEF DeskInv, Desk!DeskTypeOK, DeskRequest, DeskPCs
  <1>2. /\ qRequest'[r] = q /\ \A s \in Desk!Requests : s # r => qRequest'[s] = qRequest[s]
        /\ qRequest' \in [Desk!Requests -> DeskRequest]
    BY <1>1
  <1>3. Desk!DeskTypeOK'
    BY <1>2 DEF DeskInv, Desk!DeskTypeOK, DeskRequest, DeskPCs
  <1>4. ASSUME NEW s \in Desk!Requests
        PROVE  Asks(qRequest[s])' /\ WonOnce(s)' /\ Denied(qRequest[s])'
    <2>1. ASSUME NEW t \in Desk!Requests, Won(qRequest'[t])
          PROVE  /\ Won(qRequest[t]) /\ qRequest'[t].of = qRequest[t].of
                 /\ qRequest'[t].want = qRequest[t].want
      BY <1>2, <2>1
    <2>2. WonOnce(s)'
      BY <2>1 DEF DeskInv, WonOnce, Won
    <2>3. Asks(qRequest'[s])
      BY <1>2 DEF DeskInv
    <2>4. Denied(qRequest[s])'
      BY <1>2 DEF DeskInv, Denied
    <2> QED BY <2>2, <2>3, <2>4 DEF Asks, Won
  <1>5. ASSUME NEW n \in Desk!Approvals PROVE Decided(n)'
    <2>1. ASSUME NEW s \in Desk!Requests, qRequest[s].of = n, qRequest[s].lost \/ Won(qRequest[s])
          PROVE  qRequest'[s].of = n /\ (qRequest'[s].lost \/ Won(qRequest'[s]))
      BY <1>2, <2>1
    <2> QED BY <2>1 DEF DeskInv, Decided, Won
  <1>6. ASSUME NEW n \in qRegistry PROVE Kept(n)'
    <2> DEFINE Keeps(t) == t.lost \/ (Won(t) /\ (t.pc # "answered" \/ ~t.met \/ ~t.home))
    <2>1. ASSUME NEW s \in Desk!Requests, qRequest[s].of = n, Keeps(qRequest[s])
          PROVE  qRequest'[s].of = n /\ Keeps(qRequest'[s])
      <3>1. CASE s = r
        <4>1. q.of = n /\ (q.lost \/ (Won(q) /\ q.pc # "answered"))
          BY <2>1, <3>1
        <4> QED BY <1>2, <3>1, <4>1
      <3>2. CASE s # r
        BY <1>2, <2>1, <3>2
      <3> QED BY <3>1, <3>2
    <2> QED BY <2>1 DEF DeskInv, Kept, Won
  <1>7. ASSUME NEW n, Unmet(n) PROVE Unmet(n)'
    <2>1. ASSUME NEW s \in Desk!Requests, qRequest'[s].of = n, Won(qRequest'[s])
          PROVE  qRequest[s].of = n /\ Won(qRequest[s]) /\ qRequest'[s].met = qRequest[s].met
      BY <1>2, <2>1
    <2> QED BY <1>7, <2>1 DEF Unmet, Won
  <1>8. Waiting'
    BY <1>7 DEF DeskInv, Waiting
  <1> QED BY <1>3, <1>4, <1>5, <1>6, <1>8 DEF DeskInv

\* The request that decides: the row was pending, so the call had no winner.
LEMMA RequestDecides ==
    ASSUME Desk!DeskConstants, DeskInv, NEW r \in Desk!Requests, NEW q \in DeskRequest,
           NEW n \in Desk!Approvals, qApproval[n] = "pending",
           qRequest[r].pc = "looked", qRequest[r].of = n,
           qApproval' = [qApproval EXCEPT ![n] = qRequest[r].want],
           qRequest' = [qRequest EXCEPT ![r] = q], qFaults' \in 0..DeskFaults,
           UNCHANGED <<qBackend, qExecution, qRun, qRegistry, qResumed, qStopping>>,
           q.of = n, q.pc # "recorded", q.answer # "ok", Asks(q),
           \/ Won(q) /\ q.pc # "answered" /\ q.want = qRequest[r].want /\ (q.met <=> n \in qRegistry)
           \/ ~Won(q) /\ q.lost
    PROVE  DeskInv'
  <1> DEFINE p == qRequest[r]
  <1>1. qRequest \in [Desk!Requests -> DeskRequest] /\ p.want \in Desk!Decisions /\ ~Won(p)
        /\ qApproval \in [Desk!Approvals -> {"none", "pending"} \cup Desk!Decisions]
    BY DEF DeskInv, Desk!DeskTypeOK, DeskRequest, DeskPCs, Asks, Won
  <1>2. /\ qRequest'[r] = q /\ \A s \in Desk!Requests : s # r => qRequest'[s] = qRequest[s]
        /\ qRequest' \in [Desk!Requests -> DeskRequest]
    BY <1>1
  <1>3. /\ qApproval'[n] = p.want /\ \A m \in Desk!Approvals : m # n => qApproval'[m] = qApproval[m]
        /\ qApproval' \in [Desk!Approvals -> {"none", "pending"} \cup Desk!Decisions]
    BY <1>1
  <1>4. ASSUME NEW s \in Desk!Requests, Won(qRequest[s]) PROVE qRequest[s].of # n
    BY <1>4 DEF DeskInv, WonOnce, Asks, Desk!Decisions
  <1>5. Desk!DeskTypeOK'
    BY <1>2, <1>3 DEF DeskInv, Desk!DeskTypeOK, DeskRequest, DeskPCs
  <1>6. ASSUME NEW s \in Desk!Requests
        PROVE  Asks(qRequest[s])' /\ WonOnce(s)' /\ Denied(qRequest[s])'
    <2>1. Asks(qRequest'[s])
      BY <1>2 DEF DeskInv
    <2>2. Denied(qRequest[s])'
      BY <1>2 DEF DeskInv, Denied
    <2>3. ASSUME Won(qRequest'[s])
          PROVE  /\ qApproval'[qRequest'[s].of] = qRequest'[s].want
                 /\ \A t \in Desk!Requests \ {s} :
                      Won(qRequest'[t]) => qRequest'[t].of # qRequest'[s].of
      <3>1. CASE s = r
        BY <1>2, <1>3, <1>4, <2>3, <3>1
      <3>2. CASE s # r
        <4>1. qRequest'[s] = qRequest[s] /\ Won(qRequest[s]) /\ qRequest[s].of # n
              /\ qRequest[s].of \in Desk!Approvals
          BY <1>2, <1>4, <2>3, <3>2 DEF DeskInv, Asks
        <4> QED BY <1>2, <1>3, <4>1 DEF DeskInv, WonOnce
      <3> QED BY <3>1, <3>2
    <2>4. WonOnce(s)'
      BY <2>3 DEF WonOnce, Won
    <2> QED BY <2>1, <2>2, <2>4 DEF Asks, Won
  <1>7. ASSUME NEW m \in Desk!Approvals PROVE Decided(m)'
    <2>1. CASE m = n
      BY <1>2, <2>1 DEF Decided, Won
    <2>2. CASE m # n
      <3>1. ASSUME NEW s \in Desk!Requests, qRequest[s].of = m
            PROVE  qRequest'[s] = qRequest[s]
        BY <1>2, <2>2, <3>1
      <3> QED BY <1>3, <2>2, <3>1 DEF DeskInv, Decided, Won
    <2> QED BY <2>1, <2>2
  <1>8. ASSUME NEW m \in qRegistry PROVE Kept(m)'
    <2>1. CASE m = n
      BY <1>2, <1>8, <2>1 DEF Kept, Won
    <2>2. CASE m # n
      <3>1. ASSUME NEW s \in Desk!Requests, qRequest[s].of = m
            PROVE  qRequest'[s] = qRequest[s]
        BY <1>2, <2>2, <3>1
      <3>2. m \in Desk!Approvals
        BY <1>8 DEF DeskInv, Desk!DeskTypeOK
      <3> QED BY <1>3, <1>8, <2>2, <3>1, <3>2 DEF DeskInv, Kept, Won
    <2> QED BY <2>1, <2>2
  <1>9. Waiting'
    <2>1. ASSUME qRun.pc = "saved", NEW m \in qRun.asked PROVE Unmet(m)'
      <3>1. qRegistry = {} /\ Unmet(m)
        BY <2>1 DEF DeskInv, Waiting
      <3>2. ASSUME NEW s \in Desk!Requests, qRequest'[s].of = m, Won(qRequest'[s])
            PROVE  ~qRequest'[s].met
        <4>1. CASE s = r
          BY <1>2, <3>1, <3>2, <4>1 DEF DeskRequest
        <4>2. CASE s # r
          BY <1>2, <3>1, <3>2, <4>2 DEF Unmet
        <4> QED BY <4>1, <4>2
      <3> QED BY <3>2 DEF Unmet, Won
    <2>2. \A m \in qRun.asked : qApproval'[m] # "none"
      BY <1>1, <1>3 DEF DeskInv, Waiting, Desk!DeskTypeOK, Desk!Decisions
    <2> QED BY <2>1, <2>2 DEF DeskInv, Waiting
  <1>10. \A m \in qResumed : qApproval'[m] = "approved"
    BY <1>3 DEF DeskInv, Desk!DeskTypeOK
  <1> QED BY <1>5, <1>6, <1>7, <1>8, <1>9, <1>10 DEF DeskInv

\* The records a step writes.
MetAs(p, c, m) == [p EXCEPT !.pc = c, !.met = m]
LostAs(p, c) == [p EXCEPT !.pc = c, !.lost = TRUE]
AnsweredAs(p) == [p EXCEPT !.pc = "answered", !.answer = "ok"]
GoneAs(n) == [Desk!Refused EXCEPT !.of = n, !.lost = TRUE]
LookedAs(n, w, h) == [Desk!NotSent EXCEPT !.pc = "looked", !.of = n, !.want = w, !.home = h]

\* A request at another point.
LEMMA RequestPC ==
    ASSUME NEW p \in DeskRequest, NEW v \in DeskPCs
    PROVE  \E q \in DeskRequest :
             /\ q = [p EXCEPT !.pc = v] /\ q.pc = v /\ q.of = p.of /\ q.want = p.want
             /\ q.home = p.home /\ q.met = p.met /\ q.lost = p.lost /\ q.answer = p.answer
  <1> DEFINE q == [pc |-> v, of |-> p.of, want |-> p.want, home |-> p.home,
                 met |-> p.met, lost |-> p.lost, answer |-> p.answer]
  <1>1. [p EXCEPT !.pc = v] = q
    BY DEF DeskRequest
  <1>2. q \in DeskRequest
    BY DEF DeskRequest
  <1> QED BY <1>1, <1>2

\* A request with another `of`.
LEMMA RequestOf ==
    ASSUME NEW p \in DeskRequest, NEW v \in 0..MaxApprovals
    PROVE  \E q \in DeskRequest :
             /\ q = [p EXCEPT !.of = v] /\ q.pc = p.pc /\ q.of = v /\ q.want = p.want
             /\ q.home = p.home /\ q.met = p.met /\ q.lost = p.lost /\ q.answer = p.answer
  <1> DEFINE q == [pc |-> p.pc, of |-> v, want |-> p.want, home |-> p.home,
                 met |-> p.met, lost |-> p.lost, answer |-> p.answer]
  <1>1. [p EXCEPT !.of = v] = q
    BY DEF DeskRequest
  <1>2. q \in DeskRequest
    BY DEF DeskRequest
  <1> QED BY <1>1, <1>2

\* A request with another `want`.
LEMMA RequestWant ==
    ASSUME NEW p \in DeskRequest, NEW v \in Desk!Decisions \cup {"none"}
    PROVE  \E q \in DeskRequest :
             /\ q = [p EXCEPT !.want = v] /\ q.pc = p.pc /\ q.of = p.of /\ q.want = v
             /\ q.home = p.home /\ q.met = p.met /\ q.lost = p.lost /\ q.answer = p.answer
  <1> DEFINE q == [pc |-> p.pc, of |-> p.of, want |-> v, home |-> p.home,
                 met |-> p.met, lost |-> p.lost, answer |-> p.answer]
  <1>1. [p EXCEPT !.want = v] = q
    BY DEF DeskRequest
  <1>2. q \in DeskRequest
    BY DEF DeskRequest
  <1> QED BY <1>1, <1>2

\* A request with another `home`.
LEMMA RequestHome ==
    ASSUME NEW p \in DeskRequest, NEW v \in BOOLEAN
    PROVE  \E q \in DeskRequest :
             /\ q = [p EXCEPT !.home = v] /\ q.pc = p.pc /\ q.of = p.of /\ q.want = p.want
             /\ q.home = v /\ q.met = p.met /\ q.lost = p.lost /\ q.answer = p.answer
  <1> DEFINE q == [pc |-> p.pc, of |-> p.of, want |-> p.want, home |-> v,
                 met |-> p.met, lost |-> p.lost, answer |-> p.answer]
  <1>1. [p EXCEPT !.home = v] = q
    BY DEF DeskRequest
  <1>2. q \in DeskRequest
    BY DEF DeskRequest
  <1> QED BY <1>1, <1>2

\* A request with another `met`.
LEMMA RequestMetBy ==
    ASSUME NEW p \in DeskRequest, NEW v \in BOOLEAN
    PROVE  \E q \in DeskRequest :
             /\ q = [p EXCEPT !.met = v] /\ q.pc = p.pc /\ q.of = p.of /\ q.want = p.want
             /\ q.home = p.home /\ q.met = v /\ q.lost = p.lost /\ q.answer = p.answer
  <1> DEFINE q == [pc |-> p.pc, of |-> p.of, want |-> p.want, home |-> p.home,
                 met |-> v, lost |-> p.lost, answer |-> p.answer]
  <1>1. [p EXCEPT !.met = v] = q
    BY DEF DeskRequest
  <1>2. q \in DeskRequest
    BY DEF DeskRequest
  <1> QED BY <1>1, <1>2

\* A request with another `lost`.
LEMMA RequestLostTo ==
    ASSUME NEW p \in DeskRequest, NEW v \in BOOLEAN
    PROVE  \E q \in DeskRequest :
             /\ q = [p EXCEPT !.lost = v] /\ q.pc = p.pc /\ q.of = p.of /\ q.want = p.want
             /\ q.home = p.home /\ q.met = p.met /\ q.lost = v /\ q.answer = p.answer
  <1> DEFINE q == [pc |-> p.pc, of |-> p.of, want |-> p.want, home |-> p.home,
                 met |-> p.met, lost |-> v, answer |-> p.answer]
  <1>1. [p EXCEPT !.lost = v] = q
    BY DEF DeskRequest
  <1>2. q \in DeskRequest
    BY DEF DeskRequest
  <1> QED BY <1>1, <1>2

\* A request with another `answer`.
LEMMA RequestAnswer ==
    ASSUME NEW p \in DeskRequest, NEW v \in {"none", "ok", "conflict"}
    PROVE  \E q \in DeskRequest :
             /\ q = [p EXCEPT !.answer = v] /\ q.pc = p.pc /\ q.of = p.of /\ q.want = p.want
             /\ q.home = p.home /\ q.met = p.met /\ q.lost = p.lost /\ q.answer = v
  <1> DEFINE q == [pc |-> p.pc, of |-> p.of, want |-> p.want, home |-> p.home,
                 met |-> p.met, lost |-> p.lost, answer |-> v]
  <1>1. [p EXCEPT !.answer = v] = q
    BY DEF DeskRequest
  <1>2. q \in DeskRequest
    BY DEF DeskRequest
  <1> QED BY <1>1, <1>2

\* The same of the request that wins.
LEMMA RequestMet ==
    ASSUME NEW p \in DeskRequest, NEW c \in DeskPCs, NEW m \in BOOLEAN
    PROVE  /\ MetAs(p, c, m) \in DeskRequest
           /\ MetAs(p, c, m).pc = c /\ MetAs(p, c, m).of = p.of /\ MetAs(p, c, m).want = p.want
           /\ MetAs(p, c, m).home = p.home
           /\ MetAs(p, c, m).met = m /\ MetAs(p, c, m).lost = p.lost /\ MetAs(p, c, m).answer = p.answer
  <1>1. PICK a \in DeskRequest :
          /\ a = [p EXCEPT !.pc = c] /\ a.pc = c /\ a.of = p.of /\ a.want = p.want
          /\ a.home = p.home /\ a.met = p.met /\ a.lost = p.lost /\ a.answer = p.answer
    <2>1. c \in DeskPCs
      BY DEF DeskPCs
    <2> QED BY <2>1, RequestPC
  <1>2. PICK b \in DeskRequest :
          /\ b = [a EXCEPT !.met = m] /\ b.pc = a.pc /\ b.of = a.of /\ b.want = a.want
          /\ b.home = a.home /\ b.met = m /\ b.lost = a.lost /\ b.answer = a.answer
    BY RequestMetBy
  <1>3. b = [p EXCEPT !.pc = c, !.met = m]
    BY <1>1, <1>2
  <1>4. b = MetAs(p, c, m)
    BY <1>3 DEF MetAs
  <1> QED BY <1>1, <1>2, <1>4

\* The same of a request whose answer is lost.
LEMMA RequestLost ==
    ASSUME NEW p \in DeskRequest, NEW c \in DeskPCs
    PROVE  /\ LostAs(p, c) \in DeskRequest
           /\ LostAs(p, c).pc = c /\ LostAs(p, c).of = p.of /\ LostAs(p, c).want = p.want
           /\ LostAs(p, c).home = p.home
           /\ LostAs(p, c).met = p.met /\ LostAs(p, c).lost = TRUE /\ LostAs(p, c).answer = p.answer
  <1>1. PICK a \in DeskRequest :
          /\ a = [p EXCEPT !.pc = c] /\ a.pc = c /\ a.of = p.of /\ a.want = p.want
          /\ a.home = p.home /\ a.met = p.met /\ a.lost = p.lost /\ a.answer = p.answer
    <2>1. c \in DeskPCs
      BY DEF DeskPCs
    <2> QED BY <2>1, RequestPC
  <1>2. PICK b \in DeskRequest :
          /\ b = [a EXCEPT !.lost = TRUE] /\ b.pc = a.pc /\ b.of = a.of /\ b.want = a.want
          /\ b.home = a.home /\ b.met = a.met /\ b.lost = TRUE /\ b.answer = a.answer
    BY RequestLostTo
  <1>3. b = [p EXCEPT !.pc = c, !.lost = TRUE]
    BY <1>1, <1>2
  <1>4. b = LostAs(p, c)
    BY <1>3 DEF LostAs
  <1> QED BY <1>1, <1>2, <1>4

\* The same of a request that is answered.
LEMMA RequestAnswered ==
    ASSUME NEW p \in DeskRequest
    PROVE  /\ AnsweredAs(p) \in DeskRequest
           /\ AnsweredAs(p).pc = "answered" /\ AnsweredAs(p).of = p.of /\ AnsweredAs(p).want = p.want
           /\ AnsweredAs(p).home = p.home
           /\ AnsweredAs(p).met = p.met /\ AnsweredAs(p).lost = p.lost /\ AnsweredAs(p).answer = "ok"
  <1>1. PICK a \in DeskRequest :
          /\ a = [p EXCEPT !.pc = "answered"] /\ a.pc = "answered" /\ a.of = p.of /\ a.want = p.want
          /\ a.home = p.home /\ a.met = p.met /\ a.lost = p.lost /\ a.answer = p.answer
    <2>1. "answered" \in DeskPCs
      BY DEF DeskPCs
    <2> QED BY <2>1, RequestPC
  <1>2. PICK b \in DeskRequest :
          /\ b = [a EXCEPT !.answer = "ok"] /\ b.pc = a.pc /\ b.of = a.of /\ b.want = a.want
          /\ b.home = a.home /\ b.met = a.met /\ b.lost = a.lost /\ b.answer = "ok"
    BY RequestAnswer
  <1>3. b = [p EXCEPT !.pc = "answered", !.answer = "ok"]
    BY <1>1, <1>2
  <1>4. b = AnsweredAs(p)
    BY <1>3 DEF AnsweredAs
  <1> QED BY <1>1, <1>2, <1>4

\* A request that was refused.
LEMMA RequestRefused ==
    ASSUME Desk!DeskConstants
    PROVE  /\ Desk!Refused \in DeskRequest /\ ~Won(Desk!Refused) /\ Desk!Refused.pc = "answered"
           /\ Asks(Desk!Refused) /\ Desk!Refused.answer = "conflict" /\ ~Desk!Refused.lost
  <1>1. /\ MaxApprovals \in Nat /\ \A n \in Desk!Approvals : n \in 0..MaxApprovals
        /\ Desk!Approvals = 1..MaxApprovals
    BY DEF Desk!DeskConstants, Desk!Approvals
  <1>a. "answered" \in DeskPCs
    BY DEF DeskPCs
  <1>b. "looked" \in DeskPCs
    BY DEF DeskPCs
  <1>c. "conflict" \in {"none", "ok", "conflict"}
    OBVIOUS
  <1>3. \A w \in Desk!Decisions : w \in Desk!Decisions \cup {"none"}
    OBVIOUS
  <1>4. /\ Desk!NotSent \in DeskRequest /\ Desk!NotSent.of = 0 /\ Desk!NotSent.want = "none"
        /\ Desk!NotSent.lost = FALSE /\ Desk!NotSent.answer = "none"
    BY <1>1 DEF Desk!NotSent, DeskRequest, DeskPCs
  <1>5. /\ Desk!Refused \in DeskRequest /\ Desk!Refused.pc = "answered" /\ Desk!Refused.of = 0
        /\ Desk!Refused.want = "none" /\ Desk!Refused.answer = "conflict"
        /\ Desk!Refused.lost = FALSE
    <2>1. PICK a \in DeskRequest :
            /\ a = [Desk!NotSent EXCEPT !.pc = "answered"] /\ a.pc = "answered"
            /\ a.of = Desk!NotSent.of /\ a.want = Desk!NotSent.want /\ a.lost = Desk!NotSent.lost
      <3>1. \A p \in DeskRequest : \E a \in DeskRequest :
              /\ a = [p EXCEPT !.pc = "answered"] /\ a.pc = "answered"
              /\ a.of = p.of /\ a.want = p.want /\ a.lost = p.lost
        BY <1>a, RequestPC
      <3> QED BY <1>4, <3>1
    <2>2. PICK b \in DeskRequest :
            /\ b = [a EXCEPT !.answer = "conflict"] /\ b.pc = a.pc /\ b.of = a.of
            /\ b.want = a.want /\ b.lost = a.lost /\ b.answer = "conflict"
      BY <1>c, RequestAnswer
    <2>3. b = Desk!Refused
      BY <2>1, <2>2 DEF Desk!Refused
    <2>4. b.of = 0 /\ b.want = "none" /\ b.lost = FALSE /\ b.pc = "answered"
      BY <1>4, <2>1, <2>2, Zenon
    <2> QED BY <2>2, <2>3, <2>4, Zenon
  <1>8. ~Won(Desk!Refused) /\ Asks(Desk!Refused)
    BY <1>5 DEF Won, Asks
  <1> QED BY <1>5, <1>8

\* A request whose answer is lost before it won.
LEMMA RequestGone ==
    ASSUME Desk!DeskConstants, NEW n \in Desk!Approvals
    PROVE  /\ GoneAs(n) \in DeskRequest /\ ~Won(GoneAs(n)) /\ GoneAs(n).lost /\ GoneAs(n).of = n
           /\ Asks(GoneAs(n))
           /\ GoneAs(n).pc = "answered" /\ GoneAs(n).answer = "conflict"
  <1>a. n \in 0..MaxApprovals
    BY DEF Desk!DeskConstants, Desk!Approvals
  <1>1. PICK a \in DeskRequest :
          /\ a = [Desk!Refused EXCEPT !.of = n] /\ a.pc = Desk!Refused.pc /\ a.of = n
          /\ a.answer = Desk!Refused.answer
    <2>1. \A p \in DeskRequest : \E a \in DeskRequest :
            a = [p EXCEPT !.of = n] /\ a.pc = p.pc /\ a.of = n /\ a.answer = p.answer
      BY <1>a, RequestOf
    <2> QED BY RequestRefused, <2>1
  <1>2. PICK b \in DeskRequest :
          /\ b = [a EXCEPT !.lost = TRUE] /\ b.pc = a.pc /\ b.of = a.of /\ b.want = a.want
          /\ b.home = a.home /\ b.met = a.met /\ b.lost = TRUE /\ b.answer = a.answer
    BY RequestLostTo
  <1>3. b = GoneAs(n)
    BY <1>1, <1>2 DEF GoneAs
  <1>4. b.pc = "answered" /\ b.answer = "conflict" /\ b.of = n /\ b.lost = TRUE
    BY RequestRefused, <1>1, <1>2
  <1> QED BY <1>3, <1>4 DEF Won, Asks

\* A request that found the row pending.
LEMMA RequestLooks ==
    ASSUME Desk!DeskConstants, NEW n \in Desk!Approvals, NEW w \in Desk!Decisions,
           NEW h \in BOOLEAN
    PROVE  /\ LookedAs(n, w, h) \in DeskRequest /\ ~Won(LookedAs(n, w, h))
           /\ ~LookedAs(n, w, h).lost /\ LookedAs(n, w, h).of = n
           /\ LookedAs(n, w, h).want = w /\ Asks(LookedAs(n, w, h))
           /\ LookedAs(n, w, h).pc = "looked" /\ LookedAs(n, w, h).answer = "none"
  <1>a. n \in 0..MaxApprovals
    BY DEF Desk!DeskConstants, Desk!Approvals
  <1>b. "looked" \in DeskPCs
    BY DEF DeskPCs
  <1>c. w \in Desk!Decisions \cup {"none"}
    OBVIOUS
  <1>d. /\ Desk!NotSent \in DeskRequest /\ Desk!NotSent.lost = FALSE
        /\ Desk!NotSent.answer = "none"
    BY DEF Desk!NotSent, DeskRequest, DeskPCs, Desk!DeskConstants
  <1>1. PICK a \in DeskRequest :
          /\ a = [Desk!NotSent EXCEPT !.pc = "looked"] /\ a.pc = "looked"
          /\ a.lost = Desk!NotSent.lost /\ a.answer = Desk!NotSent.answer
    <2>1. \A p \in DeskRequest : \E a \in DeskRequest :
            /\ a = [p EXCEPT !.pc = "looked"] /\ a.pc = "looked"
            /\ a.lost = p.lost /\ a.answer = p.answer
      BY <1>b, RequestPC
    <2> QED BY <1>d, <2>1
  <1>2. PICK b \in DeskRequest :
          /\ b = [a EXCEPT !.of = n] /\ b.pc = a.pc /\ b.of = n /\ b.lost = a.lost
          /\ b.answer = a.answer
    BY <1>a, RequestOf
  <1>3. PICK c \in DeskRequest :
          /\ c = [b EXCEPT !.want = w] /\ c.pc = b.pc /\ c.of = b.of /\ c.want = w
          /\ c.lost = b.lost /\ c.answer = b.answer
    BY <1>c, RequestWant
  <1>4. PICK d \in DeskRequest :
          /\ d = [c EXCEPT !.home = h] /\ d.pc = c.pc /\ d.of = c.of /\ d.want = c.want
          /\ d.lost = c.lost /\ d.answer = c.answer
    BY RequestHome
  <1>5. d = LookedAs(n, w, h)
    BY <1>1, <1>2, <1>3, <1>4 DEF LookedAs
  <1>6. d.pc = "looked" /\ d.answer = "none" /\ d.of = n /\ d.lost = FALSE /\ d.want = w
    BY <1>d, <1>1, <1>2, <1>3, <1>4
  <1> QED BY <1>5, <1>6 DEF Won, Asks

\* What is known of a request before its step.
LEMMA RequestKnown ==
    ASSUME DeskInv, NEW r \in Desk!Requests
    PROVE  /\ qRequest[r] \in DeskRequest /\ Asks(qRequest[r]) /\ WonOnce(r) /\ Denied(qRequest[r])
           /\ qRequest \in [Desk!Requests -> DeskRequest] /\ qFaults \in 0..DeskFaults
           /\ qRequest[r].lost => qRequest[r].pc \in {"recorded", "answered"}
  BY DEF DeskInv, Desk!DeskTypeOK, DeskRequest, DeskPCs, Asks

\* A request looks the row up, or is refused.
LEMMA DeskLooks ==
    ASSUME Desk!DeskConstants, DeskInv, NEW r \in Desk!Requests, NEW n \in Desk!Approvals,
           NEW w \in Desk!Decisions, NEW h \in BOOLEAN, Desk!Look(r, n, w, h)
    PROVE  DeskInv'
  <1>1. ASSUME NEW q \in DeskRequest, ~Won(q), Asks(q), ~q.lost, q.pc # "recorded",
               q.answer # "ok", qRequest' = [qRequest EXCEPT ![r] = q]
        PROVE  DeskInv'
    <2>1. qRequest[r].pc = "idle" /\ qFaults' = qFaults
          /\ UNCHANGED <<qBackend, qApproval, qExecution, qRun, qRegistry, qResumed, qStopping>>
      BY DEF Desk!Look
    <2>2. ~Won(qRequest[r]) /\ ~qRequest[r].lost /\ qFaults' \in 0..DeskFaults
      BY <2>1, RequestKnown DEF Asks, Won
    <2>3. Denied(q)'
      BY <1>1 DEF Denied
    <2> QED BY <1>1, <2>1, <2>2, <2>3, RequestMoves
  <1>2. CASE qApproval[n] = "pending"
    <2>1. qRequest' = [qRequest EXCEPT ![r] = LookedAs(n, w, h)]
      BY <1>2 DEF Desk!Look, Desk!Set, LookedAs
    <2> QED BY <1>1, <2>1, RequestLooks
  <1>3. CASE qApproval[n] # "pending"
    <2>1. qRequest' = [qRequest EXCEPT ![r] = Desk!Refused]
      BY <1>3 DEF Desk!Look, Desk!Set
    <2> QED BY <1>1, <2>1, RequestRefused
  <1> QED BY <1>2, <1>3

\* The statement of a store decides the row, or refuses the request.
LEMMA DeskDecides ==
    ASSUME Desk!DeskConstants, DeskInv, NEW r \in Desk!Requests, NEW next \in {"won", "updated"},
           qRequest[r].pc = "looked", Desk!Decide(r, next),
           UNCHANGED <<qBackend, qExecution, qRun, qRegistry, qResumed, qStopping, qFaults>>
    PROVE  DeskInv'
  <1>1. /\ qRequest[r] \in DeskRequest /\ ~Won(qRequest[r]) /\ ~qRequest[r].lost
        /\ qRequest[r].of \in Desk!Approvals /\ qFaults' \in 0..DeskFaults
        /\ qRequest[r].answer = "none"
    BY RequestKnown DEF Asks, Won, DeskRequest
  <1>2. CASE qApproval[qRequest[r].of] = "pending"
    <2>1. PICK q \in DeskRequest :
            /\ q = MetAs(qRequest[r], next, qRequest[r].of \in qRegistry)
            /\ q.pc = next /\ q.of = qRequest[r].of /\ q.want = qRequest[r].want
            /\ q.met = (qRequest[r].of \in qRegistry) /\ q.lost = qRequest[r].lost
            /\ q.answer = qRequest[r].answer
      <3>1. next \in DeskPCs
        BY DEF DeskPCs
      <3>2. CASE qRequest[r].of \in qRegistry
        <4>1. (qRequest[r].of \in qRegistry) = TRUE
          BY <3>2
        <4> DEFINE q == MetAs(qRequest[r], next, TRUE)
        <4>2. /\ q \in DeskRequest /\ q.pc = next /\ q.of = qRequest[r].of
              /\ q.want = qRequest[r].want /\ q.met = TRUE /\ q.lost = qRequest[r].lost
              /\ q.answer = qRequest[r].answer
          BY <1>1, <3>1, RequestMet
        <4> QED BY <4>1, <4>2
      <3>3. CASE qRequest[r].of \notin qRegistry
        <4>1. (qRequest[r].of \in qRegistry) = FALSE
          BY <3>3
        <4> DEFINE q == MetAs(qRequest[r], next, FALSE)
        <4>2. /\ q \in DeskRequest /\ q.pc = next /\ q.of = qRequest[r].of
              /\ q.want = qRequest[r].want /\ q.met = FALSE /\ q.lost = qRequest[r].lost
              /\ q.answer = qRequest[r].answer
          BY <1>1, <3>1, RequestMet
        <4> QED BY <4>1, <4>2
      <3> QED BY <3>2, <3>3
    <2>2. /\ qApproval' = [qApproval EXCEPT ![qRequest[r].of] = qRequest[r].want]
          /\ qRequest' = [qRequest EXCEPT ![r] = q]
      BY <1>2, <2>1 DEF Desk!Decide, Desk!Resolvable, Desk!Set, MetAs
    <2>3. Won(q) /\ Asks(q)
      BY <1>1, <2>1, RequestKnown DEF Won, Asks
    <2> QED BY <1>1, <1>2, <2>1, <2>2, <2>3, RequestDecides
  <1>3. CASE qApproval[qRequest[r].of] # "pending"
    <2>1. qApproval' = qApproval /\ qRequest' = [qRequest EXCEPT ![r] = Desk!Refused]
      BY <1>3 DEF Desk!Decide, Desk!Resolvable, Desk!Set
    <2>2. Denied(Desk!Refused)'
      BY RequestRefused DEF Denied
    <2> QED BY <1>1, <2>1, <2>2, RequestRefused, RequestMoves
  <1> QED BY <1>2, <1>3

\* A decision goes on, or its answer is lost.
LEMMA DeskGoesOn ==
    ASSUME Desk!DeskConstants, DeskInv, NEW r \in Desk!Requests,
           Desk!ReadBack(r) \/ Desk!Record(r) \/ Desk!FailExecution(r)
    PROVE  DeskInv'
  <1>1. /\ qRequest[r].pc \in {"updated", "won", "failing"}
        /\ \E c \in {"won", "failing", "recorded"} :
             /\ qRequest' = [qRequest EXCEPT ![r] = [qRequest[r] EXCEPT !.pc = c]]
             /\ c = "recorded" /\ qRequest[r].want = "denied" => qExecution' # "running"
        /\ qExecution' = qExecution \/ qExecution' = "failed"
        /\ UNCHANGED <<qBackend, qApproval, qRun, qRegistry, qResumed, qStopping, qFaults>>
    BY DEF Desk!ReadBack, Desk!Record, Desk!Records, Desk!FailExecution, Desk!Step, Desk!Set
  <1>2. /\ qRequest[r] \in DeskRequest /\ Won(qRequest[r]) /\ ~qRequest[r].lost
        /\ qRequest[r].answer = "none" /\ qFaults' \in 0..DeskFaults
    BY <1>1, RequestKnown DEF Asks, Won, DeskRequest
  <1>3. PICK c \in {"won", "failing", "recorded"} :
          /\ qRequest' = [qRequest EXCEPT ![r] = [qRequest[r] EXCEPT !.pc = c]]
          /\ c = "recorded" /\ qRequest[r].want = "denied" => qExecution' # "running"
    BY <1>1
  <1>4. PICK q \in DeskRequest :
          /\ q = [qRequest[r] EXCEPT !.pc = c] /\ q.pc = c /\ q.of = qRequest[r].of
          /\ q.want = qRequest[r].want /\ q.met = qRequest[r].met /\ q.lost = qRequest[r].lost
          /\ q.answer = qRequest[r].answer
    <2>1. c \in DeskPCs
      BY DEF DeskPCs
    <2> QED BY <1>2, <2>1, RequestPC
  <1>5. Won(q) /\ Asks(q) /\ Denied(q)'
    BY <1>2, <1>3, <1>4, RequestKnown DEF Won, Asks, Denied
  <1>6. qRequest' = [qRequest EXCEPT ![r] = q]
    BY <1>3, <1>4
  <1> QED BY <1>1, <1>2, <1>4, <1>5, <1>6, RequestMoves

\* The client leaves or its connection breaks.
LEMMA DeskLoses ==
    ASSUME Desk!DeskConstants, DeskInv, NEW r \in Desk!Requests, Desk!Lose(r)
    PROVE  DeskInv'
  <1>1. /\ UNCHANGED <<qBackend, qExecution, qRun, qRegistry, qResumed, qStopping>>
        /\ qFaults' \in 0..DeskFaults
    BY RequestKnown DEF Desk!Lose, Desk!DeskConstants
  <1>2. PICK lost : lost = GoneAs(qRequest[r].of)
    OBVIOUS
  <1>3. qRequest[r] \in DeskRequest
    BY RequestKnown
  <1>4. ASSUME qRequest[r].pc \in {"looked", "updated"}
        PROVE  /\ lost \in DeskRequest /\ ~Won(lost) /\ lost.lost /\ lost.of = qRequest[r].of
               /\ Asks(lost) /\ lost.pc = "answered" /\ lost.answer = "conflict"
               /\ qRequest[r].of \in Desk!Approvals /\ Denied(lost)'
    <2>1. qRequest[r].of \in Desk!Approvals
      BY <1>4, RequestKnown DEF Asks, Won
    <2>2. /\ lost \in DeskRequest /\ ~Won(lost) /\ lost.lost /\ lost.of = qRequest[r].of
          /\ Asks(lost) /\ lost.pc = "answered" /\ lost.answer = "conflict"
      BY <1>2, <2>1, RequestGone
    <2> QED BY <2>1, <2>2 DEF Denied
  <1>5. CASE /\ qRequest[r].pc \in {"looked", "updated"}
             /\ qRequest' = [qRequest EXCEPT ![r] = lost] /\ qApproval' = qApproval
    BY <1>1, <1>4, <1>5, RequestMoves
  <1>6. CASE /\ qRequest[r].pc = "looked" /\ qApproval[qRequest[r].of] = "pending"
             /\ qApproval' = [qApproval EXCEPT ![qRequest[r].of] = qRequest[r].want]
             /\ qRequest' = [qRequest EXCEPT ![r] = lost]
    BY <1>1, <1>4, <1>6, RequestDecides
  <1>7. CASE /\ qRequest[r].pc \in {"won", "failing"} /\ qApproval' = qApproval
             /\ qRequest' = [qRequest EXCEPT ![r] = LostAs(qRequest[r], "recorded")]
    <2>1. PICK q \in DeskRequest :
            /\ q = LostAs(qRequest[r], "recorded")
            /\ q.pc = "recorded" /\ q.of = qRequest[r].of /\ q.want = qRequest[r].want
            /\ q.met = qRequest[r].met /\ q.lost = TRUE /\ q.answer = qRequest[r].answer
      <3>1. "recorded" \in DeskPCs
        BY DEF DeskPCs
      <3>2. \A p \in DeskRequest :
              /\ LostAs(p, "recorded") \in DeskRequest
              /\ LostAs(p, "recorded").pc = "recorded" /\ LostAs(p, "recorded").of = p.of
              /\ LostAs(p, "recorded").want = p.want /\ LostAs(p, "recorded").met = p.met
              /\ LostAs(p, "recorded").lost = TRUE /\ LostAs(p, "recorded").answer = p.answer
        BY <3>1, RequestLost
      <3> QED BY <1>3, <3>2, Zenon
    <2>2. Won(qRequest[r]) /\ ~qRequest[r].lost /\ qRequest[r].answer = "none"
      BY <1>3, <1>7, RequestKnown DEF Won, Asks, DeskRequest
    <2>3. Won(q) /\ Asks(q) /\ Denied(q)'
      BY <2>1, <2>2, RequestKnown DEF Won, Asks, Denied
    <2>4. qRequest' = [qRequest EXCEPT ![r] = q]
      BY <1>7, <2>1
    <2> QED BY <1>1, <1>7, <2>1, <2>2, <2>3, <2>4, RequestMoves
  <1> QED BY <1>2, <1>5, <1>6, <1>7 DEF Desk!Lose, Desk!Resolvable, Desk!Set, GoneAs, LostAs

\* The operator is answered: the continuation of an approved call is started, or kept.
LEMMA DeskAnswers ==
    ASSUME Desk!DeskConstants, DeskInv, NEW r \in Desk!Requests, Desk!Answer(r)
    PROVE  DeskInv'
  <1>1. /\ qRequest[r].pc = "recorded" /\ qRequest' = [qRequest EXCEPT ![r] = AnsweredAs(qRequest[r])]
        /\ UNCHANGED <<qBackend, qApproval, qExecution, qStopping, qFaults>>
    BY DEF Desk!Answer, Desk!Set, AnsweredAs
  <1>2. PICK q \in DeskRequest :
          /\ q = AnsweredAs(qRequest[r]) /\ q.pc = "answered" /\ q.of = qRequest[r].of
          /\ q.want = qRequest[r].want /\ q.home = qRequest[r].home /\ q.met = qRequest[r].met
          /\ q.lost = qRequest[r].lost /\ q.answer = "ok"
    BY RequestKnown, RequestAnswered
  <1>3. /\ qRequest'[r] = q /\ \A s \in Desk!Requests : s # r => qRequest'[s] = qRequest[s]
        /\ qRequest' \in [Desk!Requests -> DeskRequest]
    BY <1>1, <1>2, RequestKnown
  <1>4. Won(qRequest[r]) /\ Won(q) /\ Asks(q) /\ q.of \in Desk!Approvals
        /\ qApproval[q.of] = q.want
    BY <1>1, <1>2, RequestKnown DEF Won, Asks, WonOnce
  <1>5. ASSUME NEW s \in Desk!Requests
        PROVE  /\ Won(qRequest'[s]) <=> Won(qRequest[s])
               /\ qRequest'[s].of = qRequest[s].of /\ qRequest'[s].want = qRequest[s].want
               /\ qRequest'[s].met = qRequest[s].met /\ qRequest'[s].lost = qRequest[s].lost
    BY <1>2, <1>3, <1>4
  <1>6. ASSUME NEW s \in Desk!Requests
        PROVE  Asks(qRequest[s])' /\ WonOnce(s)' /\ Denied(qRequest[s])'
    <2>1. Asks(qRequest'[s])
      BY <1>3, <1>4 DEF DeskInv
    <2>2. WonOnce(s)'
      BY <1>1, <1>5 DEF DeskInv, WonOnce, Won
    <2>3. Denied(qRequest[s])'
      BY <1>1, <1>2, <1>3 DEF DeskInv, Denied
    <2> QED BY <2>1, <2>2, <2>3 DEF Asks, Won
  <1>7. ASSUME NEW n \in Desk!Approvals PROVE Decided(n)'
    BY <1>1, <1>5 DEF DeskInv, Decided, Won
  <1>8. CASE Desk!Takes(r)
    <2>1. q.want = "approved" /\ q.of \in qRegistry /\ ~qStopping
      BY <1>2, <1>8 DEF Desk!Takes, Desk!TakesAway
    <2>2. qRegistry' = {} /\ qResumed' = qResumed \cup {q.of}
          /\ qRun' = [pc |-> "running", asked |-> {}]
      BY <1>2, <1>8, <2>1 DEF Desk!Answer, DeskInv, Waiting
    <2>3. Desk!DeskTypeOK'
      BY <1>1, <1>3, <1>4, <2>2 DEF DeskInv, Desk!DeskTypeOK, DeskRequest, DeskPCs
    <2>4. \A n \in qResumed' : qApproval'[n] = "approved"
      BY <1>1, <1>4, <2>1, <2>2 DEF DeskInv
    <2>5. Waiting'
      BY <2>2 DEF Waiting
    <2> QED BY <1>6, <1>7, <2>2, <2>3, <2>4, <2>5 DEF DeskInv
  <1>9. CASE ~Desk!Takes(r)
    <2>1. UNCHANGED <<qRegistry, qResumed, qRun>>
      BY <1>9 DEF Desk!Answer
    <2>2. Desk!DeskTypeOK'
      BY <1>1, <1>3, <2>1 DEF DeskInv, Desk!DeskTypeOK, DeskRequest, DeskPCs
    <2>3. ASSUME NEW n \in qRegistry, qApproval[n] = "approved", ~qStopping,
                 NEW s \in Desk!Requests, qRequest[s].of = n,
                 \/ qRequest[s].lost
                 \/ Won(qRequest[s]) /\ (qRequest[s].pc # "answered" \/ ~qRequest[s].met
                                         \/ ~qRequest[s].home)
          PROVE  \/ qRequest'[s].lost
                 \/ Won(qRequest'[s]) /\ (qRequest'[s].pc # "answered" \/ ~qRequest'[s].met
                                         \/ ~qRequest'[s].home)
      <3>1. CASE s # r
        BY <1>3, <2>3, <3>1
      <3>2. CASE s = r
        <4>1. ~qRequest[r].home
          BY <1>2, <1>4, <1>9, <2>3, <3>2 DEF Desk!Takes, Desk!TakesAway
        <4> QED BY <1>2, <1>3, <1>4, <3>2, <4>1
      <3> QED BY <3>1, <3>2
    <2>4. ASSUME NEW n \in qRegistry PROVE Kept(n)'
      BY <1>1, <1>5, <2>1, <2>3 DEF DeskInv, Kept, Won
    <2>5. ASSUME NEW n, Unmet(n) PROVE Unmet(n)'
      BY <1>5, <2>5 DEF Unmet, Won
    <2>6. Waiting'
      BY <1>1, <2>1, <2>5 DEF DeskInv, Waiting
    <2>7. \A n \in qResumed' : qApproval'[n] = "approved"
      BY <1>1, <2>1 DEF DeskInv
    <2> QED BY <1>6, <1>7, <2>1, <2>2, <2>4, <2>6, <2>7 DEF DeskInv
  <1> QED BY <1>8, <1>9

\* Every step of the desk, taken or not.
LEMMA DeskInvStays == Desk!DeskConstants /\ DeskInv /\ [Desk!DeskNext]_deskPart => DeskInv'
  <1> SUFFICES ASSUME Desk!DeskConstants, DeskInv, [Desk!DeskNext]_deskPart PROVE DeskInv'
    OBVIOUS
  <1>1. CASE UNCHANGED deskPart
    BY <1>1 DEF deskPart, DeskInv, Desk!DeskTypeOK, Asks, WonOnce, Denied, Decided, Kept, Unmet,
                Waiting, Won
  <1>2. CASE \/ \E n \in Desk!Approvals : Desk!Ask(n) \/ Desk!Park(n)
             \/ \E s \in {"completed", "failed"} : Desk!Finish(s)
             \/ Desk!Stop
    BY <1>2, DeskRuns
  <1>3. ASSUME NEW r \in Desk!Requests, NEW n \in Desk!Approvals, NEW w \in Desk!Decisions,
               NEW h \in BOOLEAN, Desk!Look(r, n, w, h)
        PROVE  DeskInv'
    BY <1>3, DeskLooks
  <1>4. ASSUME NEW r \in Desk!Requests,
               Desk!ResolveMemory(r) \/ Desk!ResolvePostgres(r) \/ Desk!ResolveSQLite(r)
        PROVE  DeskInv'
    <2>1. /\ qRequest[r].pc = "looked"
          /\ UNCHANGED <<qBackend, qExecution, qRun, qRegistry, qResumed, qStopping, qFaults>>
      BY <1>4 DEF Desk!ResolveMemory, Desk!ResolvePostgres, Desk!ResolveSQLite
    <2>2. \E next \in {"won", "updated"} : Desk!Decide(r, next)
      BY <1>4 DEF Desk!ResolveMemory, Desk!ResolvePostgres, Desk!ResolveSQLite
    <2> QED BY <2>1, <2>2, DeskDecides
  <1>5. ASSUME NEW r \in Desk!Requests,
               \/ Desk!ReadBack(r) \/ Desk!Record(r) \/ Desk!FailExecution(r)
               \/ Desk!Lose(r) \/ Desk!Answer(r)
        PROVE  DeskInv'
    BY <1>5, DeskGoesOn, DeskLoses, DeskAnswers
  <1> QED BY <1>1, <1>2, <1>3, <1>4, <1>5 DEF Desk!DeskNext

\* What the invariant of the desk says of the properties its run checks.
LEMMA DeskInvMeans ==
    DeskInv => /\ Desk!DeskTypeOK /\ Desk!DecidedOnce /\ Desk!ApprovedGoesOn
               /\ Desk!NothingIsDropped /\ Desk!DeniedIsOver
  <1> SUFFICES ASSUME DeskInv
               PROVE  /\ Desk!DecidedOnce /\ Desk!ApprovedGoesOn /\ Desk!NothingIsDropped
                      /\ Desk!DeniedIsOver
    BY DEF DeskInv
  <1>1. ASSUME NEW n, NEW r
        PROVE  r \in Desk!Winners(n) <=> r \in Desk!Requests /\ qRequest[r].of = n /\ Won(qRequest[r])
    BY DEF Desk!Winners, Won
  <1>2. Desk!DecidedOnce
    <2>1. ASSUME NEW n \in Desk!Approvals, NEW r \in Desk!Winners(n)
          PROVE  Desk!Winners(n) = {r} /\ qApproval[n] = qRequest[r].want
      <3>1. r \in Desk!Requests /\ qRequest[r].of = n /\ Won(qRequest[r])
        BY <1>1
      <3>2. \A s \in Desk!Winners(n) : s = r
        BY <1>1, <3>1 DEF DeskInv, WonOnce
      <3> QED BY <3>1, <3>2 DEF DeskInv, WonOnce
    <2> QED BY <2>1 DEF Desk!DecidedOnce, DeskInv
  <1>3. Desk!ApprovedGoesOn
    <2>1. ASSUME NEW n \in qRegistry, qApproval[n] = "approved", ~qStopping
          PROVE  \/ \E r \in Desk!Requests : qRequest[r].of = n /\ qRequest[r].lost
                 \/ \E r \in Desk!Winners(n) :
                      qRequest[r].pc # "answered" \/ ~qRequest[r].met \/ ~qRequest[r].home
      BY <1>1, <2>1 DEF DeskInv, Kept
    <2> QED BY <2>1 DEF Desk!ApprovedGoesOn
  <1>4. Desk!NothingIsDropped
    BY DEF DeskInv, Waiting, Desk!NothingIsDropped
  <1>5. Desk!DeniedIsOver
    BY DEF DeskInv, Denied, Desk!DeniedIsOver
  <1> QED BY <1>2, <1>3, <1>4, <1>5

DeskSafety == Desk!DeskInit /\ [][Desk!DeskNext]_deskPart

\* However requests to decide, lost answers, restarts and the run interleave, an approval is
\* decided once, an approved run goes on, no call of a parked run is dropped, and a denied run
\* is over (runtime_http_approval.go, runtime_http_resume.go).
THEOREM DecisionsAreKept ==
    ASSUME Desk!DeskConstants
    PROVE  DeskSafety => [](/\ Desk!DeskTypeOK /\ Desk!DecidedOnce /\ Desk!ApprovedGoesOn
                            /\ Desk!NothingIsDropped /\ Desk!DeniedIsOver)
  BY DeskInvHolds, DeskInvStays, DeskInvMeans, PTL DEF DeskSafety

(***************************************************************************)
(* The file terminal (FileSink).  The history names each file once, and    *)
(* its inodes are whole on disk (OrderSound); a writer that synced has a   *)
(* whole file of its own, is in the history only after its rename, and on  *)
(* Linux a file as late as its own is stored before it is told so          *)
(* (WriterSound).                                                          *)
(***************************************************************************)
CONSTANTS SinkWriters, Old, None, SinkFaults
VARIABLES bPlatform, bEntry, bStored, bData, bTemps, bWriter, bParent, bOrder, bFaults

Sink == INSTANCE FileSink WITH
  Writers <- SinkWriters, MaxFaults <- SinkFaults,
  platform <- bPlatform, entry <- bEntry, stored <- bStored, data <- bData, temps <- bTemps, writer
  <- bWriter, parent <- bParent, order <- bOrder, faults <- bFaults

sinkPart == <<bPlatform, bEntry, bStored, bData, bTemps, bWriter, bParent, bOrder, bFaults>>

WriterPCs == {"idle", "opened", "created", "written", "synced", "verified", "renamed", "kept",
              "ended", "lost"}
Writing == [pc : WriterPCs, seen : Sink!Inodes \cup {None}, parent : 0..SinkFaults,
            answer : {"none", "ok", "error"}]
Portions == {"none", "part", "whole"}
Contents == [has : Portions, disk : Portions]
Whole(i) == bData[i].has = "whole" /\ bData[i].disk = "whole"
Ordered(i) == \E n \in DOMAIN bOrder : bOrder[n] = i

Once == \A m, n \in DOMAIN bOrder : bOrder[m] = bOrder[n] => m = n
PlacesFound == \A n \in DOMAIN bOrder : Sink!Place(bOrder[n]) = n
OrderSound ==
  /\ bOrder \in Seq(Sink!Inodes \cup {None})
  /\ Once
  /\ Ordered(bEntry) /\ Ordered(bStored)
  /\ \A i \in Sink!Inodes : Ordered(i) => Whole(i)
  /\ bPlatform = "linux" => Sink!Place(bEntry) >= Sink!Place(bStored)
WriterSound(w) ==
  /\ bWriter[w].answer # "none" <=> bWriter[w].pc = "ended"
  /\ bWriter[w].pc = "written" => bData[w].has = "whole"
  /\ bWriter[w].pc \in {"synced", "verified", "renamed", "kept"} => Whole(w)
  /\ bWriter[w].parent <= bParent
  /\ w \in bTemps => bWriter[w].pc \in {"created", "written", "synced", "verified", "lost"}
  /\ Ordered(w) => /\ bWriter[w].pc \in {"renamed", "kept", "ended", "lost"}
                   /\ bWriter[w].answer = "error" => bFaults # 0
  /\ bPlatform = "linux" =>
       /\ bWriter[w].pc = "renamed" /\ bWriter[w].parent = bParent =>
            Ordered(w) /\ Sink!Place(bEntry) >= Sink!Place(w)
       /\ (bWriter[w].pc = "kept" /\ bWriter[w].parent = bParent) \/ bWriter[w].answer = "ok" =>
            Ordered(w) /\ Sink!Place(bStored) >= Sink!Place(w)
FieldsTyped ==
  /\ bPlatform \in {"linux", "other"} /\ OrderSound
  /\ bData \in [Sink!Inodes -> Contents] /\ bWriter \in [SinkWriters -> Writing]
  /\ bTemps \subseteq SinkWriters /\ bParent \in 0..SinkFaults /\ bFaults \in 0..SinkFaults
SinkInv ==
  /\ Sink!SinkTypeOK /\ OrderSound /\ bParent <= bFaults
  /\ \A w \in SinkWriters : WriterSound(w)

\* What the type invariant says of the records of the file.
LEMMA SinkTyped ==
    ASSUME SinkInv
    PROVE  /\ bData \in [Sink!Inodes -> Contents] /\ bWriter \in [SinkWriters -> Writing]
           /\ bTemps \subseteq SinkWriters /\ bParent \in 0..SinkFaults /\ bFaults \in 0..SinkFaults
           /\ SinkWriters \subseteq Sink!Inodes
  BY DEF SinkInv, Sink!SinkTypeOK, Contents, Portions, Writing, WriterPCs, Sink!Inodes

\* The other direction.
LEMMA SinkTypes == FieldsTyped => Sink!SinkTypeOK
  <1> SUFFICES ASSUME FieldsTyped PROVE Sink!SinkTypeOK
    OBVIOUS
  <1> USE DEF FieldsTyped
  <1>1. {bEntry, bStored} \subseteq Sink!Inodes \cup {None}
    BY DEF OrderSound, Ordered
  <1>2. Sink!ToSet(bOrder) \subseteq Sink!Inodes \cup {None}
    BY DEF OrderSound, Sink!ToSet
  <1> QED BY <1>1, <1>2 DEF Sink!SinkTypeOK, Contents, Portions, Writing, WriterPCs

\* The place of an inode in the history.
LEMMA PlaceFound == Once => PlacesFound
  BY DEF Once, PlacesFound, Sink!Place

\* The same of an inode that is in it.
LEMMA PlaceOf ==
    ASSUME OrderSound, NEW i, Ordered(i)
    PROVE  Sink!Place(i) \in 1..Len(bOrder) /\ bOrder[Sink!Place(i)] = i
  BY PlaceFound DEF OrderSound, Ordered, PlacesFound

\* Before the first run there is the file, or none.
LEMMA SinkInvHolds == Sink!SinkConstants /\ Sink!SinkInit => SinkInv
  <1> SUFFICES ASSUME Sink!SinkConstants, Sink!SinkInit PROVE SinkInv
    OBVIOUS
  <1>1. bOrder = <<bEntry>> /\ bEntry \in Sink!Inodes \cup {None} /\ bStored = bEntry
        /\ bEntry \in {Old, None}
    BY DEF Sink!SinkInit, Sink!Inodes
  <1>2. bOrder \in Seq(Sink!Inodes \cup {None}) /\ DOMAIN bOrder = {1} /\ bOrder[1] = bEntry
    BY <1>1
  <1>3. bData \in [Sink!Inodes -> Contents] /\ Whole(Old)
    BY DEF Sink!SinkInit, Contents, Portions, Whole, Sink!Inodes
  <1>4. \A i \in Sink!Inodes : Ordered(i) => i = Old
    BY <1>1, <1>2 DEF Ordered, Sink!SinkConstants, Sink!Inodes
  <1>5. Once
    BY <1>2 DEF Once
  <1>6. Sink!Place(bEntry) = 1
    BY <1>2 DEF Sink!Place
  <1>7. OrderSound
    BY <1>1, <1>2, <1>3, <1>4, <1>5, <1>6 DEF OrderSound, Ordered
  <1>8. Sink!NotBegun \in Writing /\ Sink!NotBegun.pc = "idle" /\ Sink!NotBegun.answer = "none"
        /\ Sink!NotBegun.parent = 0 /\ 0 \in 0..SinkFaults
    BY DEF Sink!NotBegun, Writing, WriterPCs, Sink!SinkConstants
  <1>9. /\ bWriter \in [SinkWriters -> Writing]
        /\ \A w \in SinkWriters : bWriter[w].pc = "idle" /\ bWriter[w].answer = "none"
                                  /\ bWriter[w].parent = 0
    BY <1>8 DEF Sink!SinkInit
  <1>10. Sink!SinkTypeOK
    BY <1>3, <1>7, <1>8, <1>9, SinkTypes DEF Sink!SinkInit, FieldsTyped
  <1>11. ASSUME NEW w \in SinkWriters PROVE WriterSound(w)
    <2>1. ~Ordered(w)
      BY <1>4 DEF Sink!SinkConstants, Sink!Inodes
    <2> QED BY <1>9, <2>1 DEF WriterSound, Sink!SinkInit
  <1> QED BY <1>7, <1>10, <1>11 DEF SinkInv, Sink!SinkInit

\* A step of one writer that changes neither the name nor the directory.
LEMMA WriterMoves ==
    ASSUME Sink!SinkConstants, SinkInv, NEW w \in SinkWriters, NEW q \in Writing,
           bWriter' = [bWriter EXCEPT ![w] = q], bTemps' \subseteq SinkWriters,
           \A v \in SinkWriters \ {w} : v \in bTemps' => v \in bTemps,
           bFaults' \in 0..SinkFaults, bFaults' >= bFaults,
           bData' \in [Sink!Inodes -> Contents], \A i \in Sink!Inodes \ {w} : bData'[i] = bData[i],
           bData'[w] = bData[w] \/ ~Ordered(w),
           UNCHANGED <<bPlatform, bEntry, bStored, bParent, bOrder>>, WriterSound(w)'
    PROVE  SinkInv'
  <1>1. /\ bWriter' \in [SinkWriters -> Writing] /\ bWriter'[w] = q
        /\ \A v \in SinkWriters : v # w => bWriter'[v] = bWriter[v]
    BY SinkTyped
  <1>2. \A i : Ordered(i)' <=> Ordered(i)
    BY DEF Ordered
  <1>3. \A i : Sink!Place(i)' = Sink!Place(i)
    BY DEF Sink!Place
  <1>4. \A i \in Sink!Inodes : Ordered(i) => bData'[i] = bData[i]
    OBVIOUS
  <1>5. OrderSound'
    BY <1>2, <1>3, <1>4 DEF SinkInv, OrderSound, Once, Whole
  <1>6. Sink!SinkTypeOK'
    <2>1. (FieldsTyped => Sink!SinkTypeOK)'
      BY SinkTypes, PTL
    <2> QED BY <1>1, <1>5, <2>1, SinkTyped DEF SinkInv, Sink!SinkTypeOK, FieldsTyped
  <1>7. ASSUME NEW v \in SinkWriters, v # w PROVE WriterSound(v)'
    <2>1. bWriter'[v] = bWriter[v] /\ bData'[v] = bData[v]
      BY <1>1, <1>7, SinkTyped
    <2>2. bFaults # 0 => bFaults' # 0
      BY SinkTyped
    <2> QED BY <1>2, <1>3, <1>7, <2>1, <2>2 DEF SinkInv, WriterSound, Whole
  <1>8. bParent' <= bFaults'
    BY SinkTyped DEF SinkInv
  <1> QED BY <1>5, <1>6, <1>7, <1>8 DEF SinkInv

\* A writer at another point.
LEMMA WriterPC ==
    ASSUME NEW p \in Writing, NEW v \in WriterPCs
    PROVE  \E q \in Writing :
             /\ q = [p EXCEPT !.pc = v] /\ q.pc = v
             /\ q.seen = p.seen /\ q.parent = p.parent /\ q.answer = p.answer
  <1> DEFINE q == [pc |-> v, seen |-> p.seen, parent |-> p.parent, answer |-> p.answer]
  <1>1. [p EXCEPT !.pc = v] = q
    BY DEF Writing
  <1>2. q \in Writing
    BY DEF Writing
  <1> QED BY <1>1, <1>2

\* A writer with another seen.
LEMMA WriterSeen ==
    ASSUME NEW p \in Writing, NEW v \in Sink!Inodes \cup {None}
    PROVE  \E q \in Writing :
             /\ q = [p EXCEPT !.seen = v] /\ q.pc = p.pc
             /\ q.seen = v /\ q.parent = p.parent /\ q.answer = p.answer
  <1> DEFINE q == [pc |-> p.pc, seen |-> v, parent |-> p.parent, answer |-> p.answer]
  <1>1. [p EXCEPT !.seen = v] = q
    BY DEF Writing
  <1>2. q \in Writing
    BY DEF Writing
  <1> QED BY <1>1, <1>2

\* A writer with another parent.
LEMMA WriterParent ==
    ASSUME NEW p \in Writing, NEW v \in 0..SinkFaults
    PROVE  \E q \in Writing :
             /\ q = [p EXCEPT !.parent = v] /\ q.pc = p.pc
             /\ q.seen = p.seen /\ q.parent = v /\ q.answer = p.answer
  <1> DEFINE q == [pc |-> p.pc, seen |-> p.seen, parent |-> v, answer |-> p.answer]
  <1>1. [p EXCEPT !.parent = v] = q
    BY DEF Writing
  <1>2. q \in Writing
    BY DEF Writing
  <1> QED BY <1>1, <1>2

\* A writer with another answer.
LEMMA WriterAnswer ==
    ASSUME NEW p \in Writing, NEW v \in {"none", "ok", "error"}
    PROVE  \E q \in Writing :
             /\ q = [p EXCEPT !.answer = v] /\ q.pc = p.pc
             /\ q.seen = p.seen /\ q.parent = p.parent /\ q.answer = v
  <1> DEFINE q == [pc |-> p.pc, seen |-> p.seen, parent |-> p.parent, answer |-> v]
  <1>1. [p EXCEPT !.answer = v] = q
    BY DEF Writing
  <1>2. q \in Writing
    BY DEF Writing
  <1> QED BY <1>1, <1>2

\* The records a writer's step leaves.
EndedAs(p, a) == [p EXCEPT !.pc = "ended", !.answer = a]
OpenedAs(e, n) == [Sink!NotBegun EXCEPT !.pc = "opened", !.seen = e, !.parent = n]

\* The same of a writer that ends.
LEMMA WriterEnded ==
    ASSUME NEW p \in Writing, NEW a \in {"ok", "error"}
    PROVE  /\ EndedAs(p, a) \in Writing /\ EndedAs(p, a).pc = "ended"
           /\ EndedAs(p, a).parent = p.parent /\ EndedAs(p, a).answer = a
  <1>1. PICK b \in Writing : b = [p EXCEPT !.pc = "ended"] /\ b.pc = "ended" /\ b.seen = p.seen
                             /\ b.parent = p.parent /\ b.answer = p.answer
    <2>1. "ended" \in WriterPCs
      BY DEF WriterPCs
    <2> QED BY <2>1, WriterPC
  <1>2. PICK c \in Writing :
          /\ c = [b EXCEPT !.answer = a] /\ c.pc = b.pc
          /\ c.seen = b.seen /\ c.parent = b.parent /\ c.answer = a
    <2>1. a \in {"none", "ok", "error"}
      OBVIOUS
    <2> QED BY <2>1, WriterAnswer, Zenon
  <1>3. c = EndedAs(p, a)
    BY <1>1, <1>2 DEF EndedAs
  <1> QED BY <1>1, <1>2, <1>3

\* The same of a writer that begins.
LEMMA WriterOpened ==
    ASSUME Sink!SinkConstants, NEW e \in Sink!Inodes \cup {None}, NEW n \in 0..SinkFaults
    PROVE  /\ OpenedAs(e, n) \in Writing /\ OpenedAs(e, n).pc = "opened"
           /\ OpenedAs(e, n).parent = n /\ OpenedAs(e, n).answer = "none"
  <1>0. Sink!NotBegun \in Writing /\ Sink!NotBegun.answer = "none"
    BY DEF Sink!NotBegun, Writing, WriterPCs, Sink!SinkConstants
  <1>1. PICK b \in Writing : b = [Sink!NotBegun EXCEPT !.pc = "opened"] /\ b.pc = "opened"
                             /\ b.answer = "none"
    <2>1. "opened" \in WriterPCs
      BY DEF WriterPCs
    <2>2. \A p \in Writing : \E q \in Writing :
            q = [p EXCEPT !.pc = "opened"] /\ q.pc = "opened" /\ q.answer = p.answer
      BY <2>1, WriterPC
    <2> QED BY <1>0, <2>2
  <1>2. PICK c \in Writing : c = [b EXCEPT !.seen = e] /\ c.pc = b.pc /\ c.seen = e
                             /\ c.parent = b.parent /\ c.answer = b.answer
    BY WriterSeen
  <1>3. PICK d \in Writing : d = [c EXCEPT !.parent = n] /\ d.pc = c.pc /\ d.seen = c.seen
                             /\ d.parent = n /\ d.answer = c.answer
    BY WriterParent
  <1>4. d = OpenedAs(e, n)
    BY <1>1, <1>2, <1>3 DEF OpenedAs
  <1> QED BY <1>1, <1>2, <1>3, <1>4

\* A writer goes on to another point.
LEMMA WriterGoes ==
    ASSUME SinkInv, NEW w \in SinkWriters, NEW c \in WriterPCs, Sink!Goes(w, c)
    PROVE  \E q \in Writing :
             /\ bWriter' = [bWriter EXCEPT ![w] = q] /\ q.pc = c
             /\ q.parent = bWriter[w].parent /\ q.answer = bWriter[w].answer
  <1>1. bWriter \in [SinkWriters -> Writing] /\ bWriter[w] \in Writing
    BY SinkTyped
  <1>2. PICK q \in Writing : q = [bWriter[w] EXCEPT !.pc = c] /\ q.pc = c
                             /\ q.seen = bWriter[w].seen /\ q.parent = bWriter[w].parent
                             /\ q.answer = bWriter[w].answer
    BY <1>1, WriterPC
  <1>3. bWriter' = [bWriter EXCEPT ![w] = q]
    BY <1>2 DEF Sink!Goes
  <1> QED BY <1>2, <1>3

\* A writer fails: it is told of an error and its temporary file is removed.
LEMMA WriterFails ==
    ASSUME Sink!SinkConstants, SinkInv, NEW w \in SinkWriters, Sink!Fails(w),
           bWriter[w].pc # "ended", bFaults' \in 0..SinkFaults, bFaults' >= bFaults,
           Ordered(w) => bFaults' # 0,
           UNCHANGED <<bPlatform, bEntry, bStored, bData, bParent, bOrder>>
    PROVE  SinkInv'
  <1>1. bWriter \in [SinkWriters -> Writing] /\ bWriter[w] \in Writing
    BY SinkTyped
  <1>2. PICK q \in Writing : /\ q = EndedAs(bWriter[w], "error") /\ q.pc = "ended"
                             /\ q.parent = bWriter[w].parent /\ q.answer = "error"
    BY <1>1, WriterEnded
  <1>3. bWriter' = [bWriter EXCEPT ![w] = q] /\ bTemps' = bTemps \ {w}
    BY <1>2 DEF Sink!Fails, EndedAs
  <1>4. bWriter'[w] = q
    BY <1>1, <1>3
  <1>5. Ordered(w)' <=> Ordered(w)
    BY DEF Ordered
  <1>6. WriterSound(w)'
    BY <1>2, <1>3, <1>4, <1>5 DEF SinkInv, WriterSound
  <1> QED BY <1>2, <1>3, <1>6, SinkTyped, WriterMoves

\* What is known of a writer before its step.
LEMMA WriterKnown ==
    ASSUME SinkInv, NEW w \in SinkWriters
    PROVE  /\ WriterSound(w) /\ bWriter[w] \in Writing /\ w \in Sink!Inodes
           /\ bWriter \in [SinkWriters -> Writing] /\ bData[w] \in Contents
  BY SinkTyped DEF SinkInv

\* A writer opens the directory and looks at the file.
LEMMA WriterOpens ==
    ASSUME Sink!SinkConstants, SinkInv, NEW w \in SinkWriters, Sink!Open(w)
    PROVE  SinkInv'
  <1>1. bEntry \in Sink!Inodes \cup {None} /\ bParent \in 0..SinkFaults
    BY DEF SinkInv, Sink!SinkTypeOK
  <1>2. PICK q \in Writing : /\ q = OpenedAs(bEntry, bParent) /\ q.pc = "opened"
                             /\ q.parent = bParent /\ q.answer = "none"
    BY <1>1, WriterOpened
  <1>3. /\ bWriter' = [bWriter EXCEPT ![w] = q] /\ bWriter[w].pc = "idle"
        /\ UNCHANGED <<bPlatform, bEntry, bStored, bData, bTemps, bParent, bOrder, bFaults>>
    BY <1>2 DEF Sink!Open, Sink!At, OpenedAs
  <1>4. bWriter'[w] = q
    BY <1>3, WriterKnown
  <1>5. Ordered(w)' <=> Ordered(w)
    BY <1>3 DEF Ordered
  <1>6. w \notin bTemps /\ ~Ordered(w) /\ bParent <= bParent
    BY <1>1, <1>3, WriterKnown DEF WriterSound
  <1>7. WriterSound(w)'
    BY <1>2, <1>3, <1>4, <1>5, <1>6 DEF WriterSound
  <1>8. bFaults' \in 0..SinkFaults /\ bFaults' >= bFaults
    BY <1>3, SinkTyped
  <1> QED BY <1>2, <1>3, <1>7, <1>8, SinkTyped, WriterMoves

\* A writer creates its temporary file, or sees that something changed.
LEMMA WriterCreates ==
    ASSUME Sink!SinkConstants, SinkInv, NEW w \in SinkWriters, Sink!CreateTemp(w)
    PROVE  SinkInv'
  <1>1. /\ UNCHANGED <<bPlatform, bEntry, bStored, bData, bParent, bOrder, bFaults>>
        /\ bWriter[w].pc = "opened"
    BY DEF Sink!CreateTemp, Sink!At
  <1>2. ~Ordered(w) /\ bFaults' \in 0..SinkFaults /\ bFaults' >= bFaults
    BY <1>1, WriterKnown, SinkTyped DEF WriterSound
  <1>3. CASE Sink!Fails(w)
    BY <1>1, <1>2, <1>3, WriterFails
  <1>4. CASE Sink!Goes(w, "created") /\ bTemps' = bTemps \cup {w}
    <2>1. PICK q \in Writing :
            /\ bWriter' = [bWriter EXCEPT ![w] = q] /\ q.pc = "created"
            /\ q.parent = bWriter[w].parent /\ q.answer = bWriter[w].answer
      BY <1>4, WriterGoes DEF WriterPCs
    <2>2. bWriter'[w] = q /\ (Ordered(w)' <=> Ordered(w))
      BY <1>1, <2>1, WriterKnown DEF Ordered
    <2>3. WriterSound(w)'
      BY <1>1, <1>2, <2>1, <2>2, WriterKnown DEF WriterSound
    <2> QED BY <1>1, <1>2, <1>4, <2>1, <2>3, SinkTyped, WriterMoves
  <1> QED BY <1>3, <1>4 DEF Sink!CreateTemp

\* Its bytes arrive, and are synced.
LEMMA WriterFills ==
    ASSUME Sink!SinkConstants, SinkInv, NEW w \in SinkWriters,
           Sink!WriteData(w) \/ Sink!SyncData(w)
    PROVE  SinkInv'
  <1>1. /\ UNCHANGED <<bPlatform, bEntry, bStored, bTemps, bParent, bOrder, bFaults>>
        /\ bWriter[w].pc \in {"created", "written"}
    BY DEF Sink!WriteData, Sink!SyncData, Sink!At
  <1>2. ~Ordered(w) /\ bFaults' \in 0..SinkFaults /\ bFaults' >= bFaults
    BY <1>1, WriterKnown, SinkTyped DEF WriterSound
  <1>3. Ordered(w)' <=> Ordered(w)
    BY <1>1 DEF Ordered
  <1>4. ASSUME NEW d \in Contents, bData' = [bData EXCEPT ![w] = d]
        PROVE  /\ bData' \in [Sink!Inodes -> Contents] /\ bData'[w] = d
               /\ \A i \in Sink!Inodes \ {w} : bData'[i] = bData[i]
    BY <1>4, SinkTyped
  <1>5. CASE Sink!WriteData(w)
    <2>1. PICK part \in {"part", "whole"} :
            /\ bData' = [bData EXCEPT ![w].has = part]
            /\ IF part = "whole" THEN Sink!Goes(w, "written") ELSE UNCHANGED bWriter
      BY <1>5 DEF Sink!WriteData
    <2>2. PICK d \in Contents : bData' = [bData EXCEPT ![w] = d] /\ d.has = part
      <3> DEFINE d == [has |-> part, disk |-> bData[w].disk]
      <3>1. d \in Contents /\ d = [bData[w] EXCEPT !.has = part]
        BY WriterKnown DEF Contents, Portions
      <3> QED BY <2>1, <3>1
    <2>3. PICK q \in Writing :
            /\ bWriter' = [bWriter EXCEPT ![w] = q]
            /\ q.pc = IF part = "whole" THEN "written" ELSE "created"
            /\ q.parent = bWriter[w].parent /\ q.answer = bWriter[w].answer
      <3>1. CASE part = "whole"
        <4>1. "written" \in WriterPCs /\ Sink!Goes(w, "written")
          BY <2>1, <3>1 DEF WriterPCs
        <4> QED BY <3>1, <4>1, WriterGoes
      <3>2. CASE part # "whole"
        <4>1. bWriter' = [bWriter EXCEPT ![w] = bWriter[w]]
          BY <2>1, <3>2, WriterKnown
        <4>2. bWriter[w] \in Writing
          BY WriterKnown
        <4>3. bWriter[w].pc = "created"
          BY <1>5 DEF Sink!WriteData, Sink!At
        <4> QED BY <3>2, <4>1, <4>2, <4>3
      <3> QED BY <3>1, <3>2
    <2>4. bWriter'[w] = q /\ bData'[w].has = part
      BY <1>4, <2>2, <2>3, WriterKnown
    <2>5. WriterSound(w)'
      BY <1>1, <1>2, <1>3, <2>3, <2>4, WriterKnown DEF WriterSound
    <2> QED BY <1>1, <1>2, <1>4, <2>2, <2>3, <2>5, SinkTyped, WriterMoves
  <1>6. CASE Sink!SyncData(w)
    <2>1. bData' = [bData EXCEPT ![w].disk = bData[w].has] /\ Sink!Goes(w, "synced")
          /\ bWriter[w].pc = "written"
      BY <1>6 DEF Sink!SyncData, Sink!Synced, Sink!At
    <2>2. PICK d \in Contents : bData' = [bData EXCEPT ![w] = d] /\ d.has = bData[w].has
                                /\ d.disk = bData[w].has
      <3> DEFINE d == [has |-> bData[w].has, disk |-> bData[w].has]
      <3>1. d \in Contents /\ d = [bData[w] EXCEPT !.disk = bData[w].has]
        BY WriterKnown DEF Contents
      <3> QED BY <2>1, <3>1
    <2>3. PICK q \in Writing :
            /\ bWriter' = [bWriter EXCEPT ![w] = q] /\ q.pc = "synced"
            /\ q.parent = bWriter[w].parent /\ q.answer = bWriter[w].answer
      BY <2>1, WriterGoes DEF WriterPCs
    <2>4. bWriter'[w] = q
      BY <2>3, WriterKnown
    <2>5. bData'[w] = d
      BY <1>4, <2>2
    <2>6. bData[w].has = "whole" => Whole(w)'
      BY <2>2, <2>5 DEF Whole
    <2>7. WriterSound(w)'
      BY <1>1, <1>2, <1>3, <2>1, <2>3, <2>4, <2>6, WriterKnown DEF WriterSound
    <2> QED BY <1>1, <1>2, <1>4, <2>2, <2>3, <2>7, SinkTyped, WriterMoves
  <1> QED BY <1>5, <1>6

\* It looks again, is told how it ended, or a call of it fails.
LEMMA WriterEnds ==
    ASSUME Sink!SinkConstants, SinkInv, NEW w \in SinkWriters,
           Sink!VerifyAgain(w) \/ Sink!AnswerWriter(w) \/ Sink!CallFails(w)
    PROVE  SinkInv'
  <1>1. CASE Sink!VerifyAgain(w)
    <2>1. /\ UNCHANGED <<bPlatform, bEntry, bStored, bData, bParent, bOrder, bFaults>>
          /\ bWriter[w].pc = "synced"
      BY <1>1 DEF Sink!VerifyAgain, Sink!At
    <2>2. ~Ordered(w) /\ bFaults' \in 0..SinkFaults /\ bFaults' >= bFaults
      BY <2>1, WriterKnown, SinkTyped DEF WriterSound
    <2>3. CASE Sink!Fails(w)
      BY <2>1, <2>2, <2>3, WriterFails
    <2>4. CASE Sink!Goes(w, "verified") /\ UNCHANGED bTemps
      <3>1. PICK q \in Writing :
              /\ bWriter' = [bWriter EXCEPT ![w] = q] /\ q.pc = "verified"
              /\ q.parent = bWriter[w].parent /\ q.answer = bWriter[w].answer
        BY <2>4, WriterGoes DEF WriterPCs
      <3>2. bWriter'[w] = q /\ (Ordered(w)' <=> Ordered(w)) /\ (Whole(w)' <=> Whole(w))
        BY <2>1, <3>1, WriterKnown DEF Ordered, Whole
      <3>3. WriterSound(w)'
        BY <2>1, <2>2, <2>4, <3>1, <3>2, WriterKnown DEF WriterSound
      <3> QED BY <2>1, <2>2, <2>4, <3>1, <3>3, SinkTyped, WriterMoves
    <2> QED BY <1>1, <2>3, <2>4 DEF Sink!VerifyAgain
  <1>2. CASE Sink!AnswerWriter(w)
    <2>1. /\ UNCHANGED <<bPlatform, bEntry, bStored, bData, bTemps, bParent, bOrder, bFaults>>
          /\ bWriter[w].pc = "kept"
      BY <1>2 DEF Sink!AnswerWriter, Sink!At
    <2>2. PICK a \in {"ok", "error"} :
            /\ bWriter' = [bWriter EXCEPT ![w] = EndedAs(bWriter[w], a)]
            /\ a = "ok" <=> bWriter[w].parent = bParent
      BY <1>2 DEF Sink!AnswerWriter, Sink!Here, EndedAs
    <2>3. PICK q \in Writing : /\ q = EndedAs(bWriter[w], a) /\ q.pc = "ended"
                               /\ q.parent = bWriter[w].parent /\ q.answer = a
      BY WriterKnown, WriterEnded
    <2>4. /\ bWriter'[w] = q /\ (Ordered(w)' <=> Ordered(w))
          /\ Sink!Place(w)' = Sink!Place(w) /\ Sink!Place(bStored)' = Sink!Place(bStored)
      BY <2>1, <2>2, <2>3, WriterKnown DEF Ordered, Sink!Place
    <2>5. bFaults = 0 => bWriter[w].parent = bParent
      BY WriterKnown, SinkTyped DEF WriterSound, SinkInv, Writing
    <2>6. WriterSound(w)'
      BY <2>1, <2>2, <2>3, <2>4, <2>5, WriterKnown DEF WriterSound
    <2>7. bWriter' = [bWriter EXCEPT ![w] = q] /\ bFaults' \in 0..SinkFaults /\ bFaults' >= bFaults
      BY <2>1, <2>2, <2>3, SinkTyped
    <2> QED BY <2>1, <2>6, <2>7, SinkTyped, WriterMoves
  <1>3. CASE Sink!CallFails(w)
    <2>1. /\ UNCHANGED <<bPlatform, bEntry, bStored, bData, bParent, bOrder>>
          /\ bWriter[w].pc # "ended" /\ bFaults < SinkFaults /\ bFaults' = bFaults + 1
          /\ Sink!Fails(w)
      BY <1>3 DEF Sink!CallFails, Sink!Fault
    <2>2. bFaults' \in 0..SinkFaults /\ bFaults' >= bFaults /\ bFaults' # 0
      BY <2>1, SinkTyped DEF Sink!SinkConstants
    <2> QED BY <2>1, <2>2, WriterFails
  <1> QED BY <1>1, <1>2, <1>3

\* A writer renames its file: it is the last of the history.
LEMMA WriterRenames ==
    ASSUME Sink!SinkConstants, SinkInv, NEW w \in SinkWriters, Sink!Rename(w)
    PROVE  SinkInv'
  <1>1. /\ UNCHANGED <<bPlatform, bStored, bData, bParent, bFaults>>
        /\ bWriter[w].pc = "verified" /\ bTemps' = bTemps \ {w} /\ Sink!Goes(w, "renamed")
    BY DEF Sink!Rename, Sink!At
  <1>2. ~Ordered(w) /\ Whole(w) /\ bWriter[w].answer = "none"
    BY <1>1, WriterKnown DEF WriterSound, Writing
  <1>3. PICK q \in Writing :
          /\ bWriter' = [bWriter EXCEPT ![w] = q] /\ q.pc = "renamed"
          /\ q.parent = bWriter[w].parent /\ q.answer = bWriter[w].answer
    BY <1>1, WriterGoes DEF WriterPCs
  <1>4. /\ bWriter'[w] = q /\ bWriter' \in [SinkWriters -> Writing]
        /\ \A v \in SinkWriters : v # w => bWriter'[v] = bWriter[v]
    BY <1>3, WriterKnown
  <1>5. CASE bWriter[w].parent # bParent
    <2>1. UNCHANGED <<bEntry, bOrder>>
      BY <1>5 DEF Sink!Rename, Sink!Here
    <2>2. (Ordered(w)' <=> Ordered(w)) /\ (Whole(w)' <=> Whole(w))
      BY <1>1, <2>1 DEF Ordered, Whole
    <2>3. WriterSound(w)'
      BY <1>1, <1>2, <1>3, <1>4, <1>5, <2>2, WriterKnown DEF WriterSound
    <2>4. bFaults' \in 0..SinkFaults /\ bFaults' >= bFaults /\ bTemps' \subseteq SinkWriters
      BY <1>1, SinkTyped
    <2> QED BY <1>1, <1>3, <2>1, <2>3, <2>4, SinkTyped, WriterMoves
  <1>6. CASE bWriter[w].parent = bParent
    <2> DEFINE n == Len(bOrder)
    <2>1. bEntry' = w /\ bOrder' = Append(bOrder, w)
      BY <1>6 DEF Sink!Rename, Sink!Here
    <2>2. /\ bOrder' \in Seq(Sink!Inodes \cup {None}) /\ n \in Nat
          /\ DOMAIN bOrder = 1..n /\ DOMAIN bOrder' = 1..(n + 1)
          /\ bOrder'[n + 1] = w /\ \A m \in 1..n : bOrder'[m] = bOrder[m]
      BY <2>1, WriterKnown DEF SinkInv, OrderSound
    <2>3. \A m \in 1..n : bOrder[m] # w
      BY <1>2, <2>2 DEF Ordered
    <2>4. Once'
      BY <2>2, <2>3 DEF SinkInv, OrderSound, Once
    <2>5. \A m \in 1..(n + 1) : (Sink!Place(bOrder[m]))' = m
      <3>1. (Once => PlacesFound)'
        BY PlaceFound, PTL
      <3> QED BY <2>2, <2>4, <3>1 DEF PlacesFound
    <2>6. ASSUME NEW i PROVE Ordered(i)' <=> Ordered(i) \/ i = w
      BY <2>2 DEF Ordered
    <2>7. ASSUME NEW i, Ordered(i) PROVE Sink!Place(i)' = Sink!Place(i) /\ Sink!Place(i) \in 1..n
      <3>1. Sink!Place(i) \in 1..n /\ bOrder[Sink!Place(i)] = i
        BY <2>7, PlaceOf DEF SinkInv
      <3>2. PICK m \in 1..n : m = Sink!Place(i) /\ bOrder[m] = i
        BY <3>1
      <3>3. bOrder'[m] = i /\ m \in 1..(n + 1)
        BY <2>2, <3>2
      <3>4. Sink!Place(bOrder[m])' = m
        BY <2>5, <3>3
      <3> QED BY <3>1, <3>2, <3>3, <3>4
    <2>8. Sink!Place(w)' = n + 1
      <3>1. n + 1 \in 1..(n + 1)
        BY <2>2
      <3> QED BY <2>2, <2>5, <3>1
    <2>9. ASSUME NEW i \in Sink!Inodes, Ordered(i)' PROVE Whole(i)'
      BY <1>1, <1>2, <2>6, <2>9 DEF SinkInv, OrderSound, Whole
    <2>10. OrderSound'
      <3>1. Ordered(bEntry)' /\ Ordered(bStored)'
        BY <1>1, <2>1, <2>6 DEF SinkInv, OrderSound
      <3>2. Sink!Place(bEntry)' >= Sink!Place(bStored)'
        BY <1>1, <2>1, <2>2, <2>7, <2>8 DEF SinkInv, OrderSound
      <3> QED BY <1>1, <2>2, <2>4, <2>9, <3>1, <3>2 DEF OrderSound
    <2>11. Sink!SinkTypeOK'
      <3>1. (FieldsTyped => Sink!SinkTypeOK)'
        BY SinkTypes, PTL
      <3> QED BY <1>1, <1>4, <2>10, <3>1, SinkTyped DEF SinkInv, Sink!SinkTypeOK, FieldsTyped
    <2>12. WriterSound(w)'
      BY <1>1, <1>2, <1>3, <1>4, <1>6, <2>1, <2>2, <2>6, <2>8, WriterKnown DEF WriterSound, Whole
    <2>13. ASSUME NEW v \in SinkWriters, v # w PROVE WriterSound(v)'
      <3>1. Ordered(v)' <=> Ordered(v)
        BY <2>6, <2>13
      <3>2. Ordered(v) => /\ Sink!Place(v)' = Sink!Place(v) /\ Sink!Place(v) \in 1..n
        BY <2>7
      <3>3. Sink!Place(bStored)' = Sink!Place(bStored)
        BY <1>1, <2>7 DEF SinkInv, OrderSound
      <3>4. Ordered(v) => Sink!Place(bEntry)' >= Sink!Place(v)'
        BY <2>1, <2>2, <2>8, <3>2
      <3>5. bWriter'[v] = bWriter[v]
        BY <1>4, <2>13
      <3> QED BY <1>1, <3>1, <3>2, <3>3, <3>4, <3>5, WriterKnown DEF WriterSound, Whole
    <2> QED BY <1>1, <2>10, <2>11, <2>12, <2>13 DEF SinkInv
  <1> QED BY <1>5, <1>6

\* A writer syncs its directory, or the kernel writes it back.
LEMMA DirectoryStored ==
    ASSUME SinkInv, bStored' = bEntry \/ bStored' = bStored,
           UNCHANGED <<bPlatform, bEntry, bOrder>>
    PROVE  /\ \A i : Ordered(i)' <=> Ordered(i)
           /\ \A i : Sink!Place(i)' = Sink!Place(i)
           /\ Ordered(bStored)' /\ Ordered(bEntry)'
           /\ bPlatform = "linux" =>
                /\ Sink!Place(bEntry)' >= Sink!Place(bStored)'
                /\ \A i : Ordered(i) /\ Sink!Place(bStored) >= Sink!Place(i) =>
                     Sink!Place(bStored)' >= Sink!Place(i)'
  <1>1. \A i : (Ordered(i)' <=> Ordered(i)) /\ Sink!Place(i)' = Sink!Place(i)
    BY DEF Ordered, Sink!Place
  <1>2. /\ Ordered(bStored) /\ Ordered(bEntry)
        /\ bPlatform = "linux" => Sink!Place(bEntry) >= Sink!Place(bStored)
    BY DEF SinkInv, OrderSound
  <1>3. Ordered(bStored)' /\ Ordered(bEntry)'
    BY <1>1, <1>2
  <1>4. Sink!Place(bStored)' = Sink!Place(bStored') /\ Sink!Place(bEntry)' = Sink!Place(bEntry)
    BY DEF Sink!Place
  <1>5. \A i : Ordered(i) => Sink!Place(i) \in 1..Len(bOrder)
    BY PlaceOf DEF SinkInv
  <1>6. Len(bOrder) \in Nat
    BY DEF SinkInv, OrderSound
  <1>7. \A i : Ordered(i) => Sink!Place(i) \in Int
    BY <1>5, <1>6
  <1>8. bPlatform = "linux" => Sink!Place(bEntry)' >= Sink!Place(bStored)'
    BY <1>2, <1>4, <1>7
  <1>9. ASSUME bPlatform = "linux", NEW i, Ordered(i), Sink!Place(bStored) >= Sink!Place(i)
        PROVE  Sink!Place(bStored)' >= Sink!Place(i)'
    BY <1>1, <1>2, <1>4, <1>7, <1>9
  <1> QED BY <1>1, <1>3, <1>8, <1>9

\* A writer syncs its directory.
LEMMA WriterKeeps ==
    ASSUME Sink!SinkConstants, SinkInv, NEW w \in SinkWriters, Sink!SyncDirectory(w)
    PROVE  SinkInv'
  <1>1. /\ UNCHANGED <<bPlatform, bEntry, bData, bTemps, bParent, bOrder, bFaults>>
        /\ bWriter[w].pc = "renamed" /\ Sink!Goes(w, "kept")
        /\ bStored' = bEntry \/ bStored' = bStored
        /\ bPlatform = "linux" /\ bWriter[w].parent = bParent => bStored' = bEntry
    BY DEF Sink!SyncDirectory, Sink!At, Sink!DirectorySynced, Sink!Here
  <1>2. PICK q \in Writing :
          /\ bWriter' = [bWriter EXCEPT ![w] = q] /\ q.pc = "kept"
          /\ q.parent = bWriter[w].parent /\ q.answer = bWriter[w].answer
    BY <1>1, WriterGoes DEF WriterPCs
  <1>3. /\ bWriter'[w] = q /\ bWriter' \in [SinkWriters -> Writing]
        /\ \A v \in SinkWriters : v # w => bWriter'[v] = bWriter[v]
    BY <1>2, WriterKnown
  <1>4. OrderSound'
    BY <1>1, DirectoryStored DEF SinkInv, OrderSound, Once, Whole
  <1>5. Sink!SinkTypeOK'
    <2>1. (FieldsTyped => Sink!SinkTypeOK)'
      BY SinkTypes, PTL
    <2> QED BY <1>1, <1>3, <1>4, <2>1, SinkTyped DEF SinkInv, Sink!SinkTypeOK, FieldsTyped
  <1>6. WriterSound(w)'
    <2>1. bWriter[w].answer = "none" /\ Whole(w) /\ w \notin bTemps
      BY <1>1, WriterKnown DEF WriterSound, Writing
    <2>2. bPlatform = "linux" /\ bWriter[w].parent = bParent =>
            Ordered(w)' /\ Sink!Place(bStored)' >= Sink!Place(w)'
      <3> SUFFICES ASSUME bPlatform = "linux", bWriter[w].parent = bParent
                   PROVE  Ordered(w)' /\ Sink!Place(bStored)' >= Sink!Place(w)'
        OBVIOUS
      <3>1. Ordered(w) /\ Sink!Place(bEntry) >= Sink!Place(w)
        BY <1>1, WriterKnown DEF WriterSound
      <3>2. Sink!Place(bStored)' = Sink!Place(bEntry)
        BY <1>1 DEF Sink!Place
      <3> QED BY <1>1, <3>1, <3>2, DirectoryStored
    <2>3. Ordered(w)' => Ordered(w)
      BY <1>1, DirectoryStored
    <2> QED BY <1>1, <1>2, <1>3, <2>1, <2>2, <2>3, WriterKnown DEF WriterSound, Whole
  <1>7. ASSUME NEW v \in SinkWriters, v # w PROVE WriterSound(v)'
    <2>1. bWriter'[v] = bWriter[v] /\ WriterSound(v)
      BY <1>3, <1>7, WriterKnown
    <2>2. (Ordered(v)' <=> Ordered(v)) /\ Sink!Place(v)' = Sink!Place(v)
          /\ Sink!Place(bEntry)' = Sink!Place(bEntry)
      BY <1>1, DirectoryStored
    <2>3. bPlatform = "linux" /\ Ordered(v) /\ Sink!Place(bStored) >= Sink!Place(v) =>
            Sink!Place(bStored)' >= Sink!Place(v)'
      BY <1>1, DirectoryStored
    <2> QED BY <1>1, <2>1, <2>2, <2>3 DEF WriterSound, Whole
  <1> QED BY <1>1, <1>4, <1>5, <1>6, <1>7 DEF SinkInv

\* Someone replaces the directory: no writer's descriptor leads to the new one.
LEMMA DirectoryReplaced ==
    ASSUME Sink!SinkConstants, SinkInv, Sink!ReplaceParent
    PROVE  SinkInv'
  <1>1. /\ UNCHANGED <<bPlatform, bEntry, bStored, bData, bTemps, bWriter, bOrder>>
        /\ bFaults < SinkFaults /\ bFaults' = bFaults + 1 /\ bParent' = bParent + 1
    BY DEF Sink!ReplaceParent, Sink!Fault
  <1>2. /\ bFaults' \in 0..SinkFaults /\ bParent' \in 0..SinkFaults /\ bParent' <= bFaults'
        /\ bFaults' # 0
    BY <1>1, SinkTyped DEF Sink!SinkConstants, SinkInv
  <1>3. \A i : (Ordered(i)' <=> Ordered(i)) /\ Sink!Place(i)' = Sink!Place(i)
    BY <1>1 DEF Ordered, Sink!Place
  <1>4. OrderSound'
    BY <1>1, <1>3 DEF SinkInv, OrderSound, Once, Whole
  <1>5. Sink!SinkTypeOK'
    <2>1. (FieldsTyped => Sink!SinkTypeOK)'
      BY SinkTypes, PTL
    <2> QED BY <1>1, <1>2, <1>4, <2>1, SinkTyped DEF SinkInv, Sink!SinkTypeOK, FieldsTyped
  <1>6. ASSUME NEW v \in SinkWriters PROVE WriterSound(v)'
    <2>1. bWriter[v].parent # bParent' /\ bWriter[v].parent <= bParent'
      BY <1>1, WriterKnown, SinkTyped DEF WriterSound, Writing
    <2> QED BY <1>1, <1>2, <1>3, <2>1, WriterKnown DEF WriterSound, Whole
  <1> QED BY <1>2, <1>4, <1>5, <1>6 DEF SinkInv

\* The kernel writes back the name, or the data of a file.
LEMMA KernelFlushes ==
    ASSUME Sink!SinkConstants, SinkInv, Sink!Flush
    PROVE  SinkInv'
  <1>1. /\ UNCHANGED <<bPlatform, bEntry, bTemps, bWriter, bParent, bOrder, bFaults>>
        /\ bStored' = bEntry \/ bStored' = bStored
        /\ \/ bData' = bData
           \/ \E i \in Sink!Inodes : bData' = [bData EXCEPT ![i].disk = bData[i].has]
    BY DEF Sink!Flush
  <1>2. /\ bData' \in [Sink!Inodes -> Contents]
        /\ \A i \in Sink!Inodes : /\ bData'[i].has = bData[i].has
                                  /\ bData'[i] = bData[i] \/ bData'[i].disk = bData[i].has
    <2>1. CASE bData' = bData
      BY <2>1, SinkTyped
    <2>2. ASSUME NEW i \in Sink!Inodes, bData' = [bData EXCEPT ![i].disk = bData[i].has]
          PROVE  /\ bData' \in [Sink!Inodes -> Contents]
                 /\ \A j \in Sink!Inodes :
                      /\ bData'[j].has = bData[j].has
                      /\ bData'[j] = bData[j] \/ bData'[j].disk = bData[j].has
      <3> DEFINE d == [has |-> bData[i].has, disk |-> bData[i].has]
      <3>1. bData[i] \in Contents
        BY SinkTyped
      <3>2. d \in Contents /\ d = [bData[i] EXCEPT !.disk = bData[i].has]
        BY <3>1 DEF Contents
      <3>3. bData' = [bData EXCEPT ![i] = d]
        BY <2>2, <3>2
      <3>4. d.has = bData[i].has /\ d.disk = bData[i].has
        OBVIOUS
      <3> HIDE DEF d
      <3> QED BY <3>2, <3>3, <3>4, SinkTyped
    <2> QED BY <1>1, <2>1, <2>2
  <1>3. \A i \in Sink!Inodes : Whole(i) => Whole(i)'
    BY <1>2 DEF Whole
  <1>4. OrderSound'
    BY <1>1, <1>3, DirectoryStored DEF SinkInv, OrderSound, Once
  <1>5. Sink!SinkTypeOK'
    <2>1. (FieldsTyped => Sink!SinkTypeOK)'
      BY SinkTypes, PTL
    <2> QED BY <1>1, <1>2, <1>4, <2>1, SinkTyped DEF SinkInv, Sink!SinkTypeOK, FieldsTyped
  <1>6. ASSUME NEW v \in SinkWriters PROVE WriterSound(v)'
    <2>1. (Ordered(v)' <=> Ordered(v)) /\ Sink!Place(v)' = Sink!Place(v)
          /\ Sink!Place(bEntry)' = Sink!Place(bEntry)
      BY <1>1, DirectoryStored
    <2>2. bPlatform = "linux" /\ Ordered(v) /\ Sink!Place(bStored) >= Sink!Place(v) =>
            Sink!Place(bStored)' >= Sink!Place(v)'
      BY <1>1, DirectoryStored
    <2>3. bData'[v].has = bData[v].has /\ (Whole(v) => Whole(v)')
      BY <1>2, <1>3, WriterKnown
    <2> QED BY <1>1, <2>1, <2>2, <2>3, WriterKnown DEF WriterSound
  <1> QED BY <1>1, <1>4, <1>5, <1>6 DEF SinkInv

\* The machine fails: what was synced is there when it starts again.
LEMMA MachineFails ==
    ASSUME Sink!SinkConstants, SinkInv, Sink!PowerFails
    PROVE  SinkInv'
  <1>1. /\ UNCHANGED <<bPlatform, bTemps, bParent, bOrder>> /\ bFaults < SinkFaults
        /\ bFaults' = bFaults + 1 /\ bEntry' = bStored /\ bStored' = bStored
        /\ bData' = [i \in Sink!Inodes |-> [has |-> bData[i].disk, disk |-> bData[i].disk]]
        /\ bWriter' = [w \in SinkWriters |->
                         IF bWriter[w].answer = "none"
                           THEN [Sink!NotBegun EXCEPT !.pc = "lost"] ELSE bWriter[w]]
    BY DEF Sink!PowerFails, Sink!Fault
  <1>2. bFaults' \in 0..SinkFaults /\ bFaults' # 0 /\ bFaults' >= bFaults
    BY <1>1, SinkTyped DEF Sink!SinkConstants
  <1>3. /\ bData' \in [Sink!Inodes -> Contents]
        /\ \A i \in Sink!Inodes : Whole(i) => Whole(i)'
    BY <1>1, SinkTyped DEF Contents, Whole
  <1>4. PICK lost \in Writing :
          /\ lost = [Sink!NotBegun EXCEPT !.pc = "lost"] /\ lost.pc = "lost"
          /\ lost.answer = "none" /\ lost.parent = 0
    <2>1. /\ Sink!NotBegun \in Writing /\ Sink!NotBegun.answer = "none"
          /\ Sink!NotBegun.parent = 0
      BY DEF Sink!NotBegun, Writing, WriterPCs, Sink!SinkConstants
    <2>2. \A p \in Writing : \E q \in Writing :
            q = [p EXCEPT !.pc = "lost"] /\ q.pc = "lost" /\ q.answer = p.answer
            /\ q.parent = p.parent
      <3>1. "lost" \in WriterPCs
        BY DEF WriterPCs
      <3> QED BY <3>1, WriterPC
    <2> QED BY <2>1, <2>2
  <1>5. /\ bWriter' \in [SinkWriters -> Writing]
        /\ \A w \in SinkWriters : bWriter'[w] = IF bWriter[w].answer = "none" THEN lost
                                                                              ELSE bWriter[w]
    BY <1>1, <1>4, SinkTyped
  <1>6. \A i : (Ordered(i)' <=> Ordered(i)) /\ Sink!Place(i)' = Sink!Place(i)
    BY <1>1 DEF Ordered, Sink!Place
  <1>7. /\ Sink!Place(bEntry)' = Sink!Place(bStored) /\ Sink!Place(bStored)' = Sink!Place(bStored)
        /\ Sink!Place(bStored) \in Int
    <2>1. Sink!Place(bStored) \in 1..Len(bOrder) /\ Len(bOrder) \in Nat
      BY PlaceOf DEF SinkInv, OrderSound
    <2> QED BY <1>1, <2>1 DEF Sink!Place
  <1>8. Ordered(bEntry)' /\ Ordered(bStored)'
    BY <1>1, <1>6 DEF SinkInv, OrderSound, Ordered
  <1>9. OrderSound'
    BY <1>1, <1>3, <1>6, <1>7, <1>8 DEF SinkInv, OrderSound, Once
  <1>10. Sink!SinkTypeOK'
    <2>1. (FieldsTyped => Sink!SinkTypeOK)'
      BY SinkTypes, PTL
    <2> QED BY <1>1, <1>2, <1>3, <1>5, <1>9, <2>1, SinkTyped
            DEF SinkInv, Sink!SinkTypeOK, FieldsTyped
  <1>11. ASSUME NEW v \in SinkWriters PROVE WriterSound(v)'
    <2>1. CASE bWriter[v].answer = "none"
      <3>1. bWriter'[v] = lost /\ 0 <= bParent /\ (Ordered(v)' <=> Ordered(v))
        BY <1>5, <1>6, <2>1, SinkTyped
      <3> QED BY <1>1, <1>2, <1>4, <3>1, WriterKnown DEF WriterSound
    <2>2. CASE bWriter[v].answer # "none"
      <3>1. bWriter'[v] = bWriter[v] /\ (Ordered(v)' <=> Ordered(v))
            /\ Sink!Place(v)' = Sink!Place(v) /\ bWriter[v].pc = "ended"
        BY <1>5, <1>6, <2>2, WriterKnown DEF WriterSound
      <3> QED BY <1>1, <1>2, <1>7, <3>1, WriterKnown DEF WriterSound
    <2> QED BY <2>1, <2>2
  <1>12. bParent' <= bFaults'
    BY <1>1, <1>2, SinkTyped DEF SinkInv
  <1> QED BY <1>9, <1>10, <1>11, <1>12 DEF SinkInv

\* Every step of the file, taken or not.
LEMMA SinkInvStays == Sink!SinkConstants /\ SinkInv /\ [Sink!SinkNext]_sinkPart => SinkInv'
  <1> SUFFICES ASSUME Sink!SinkConstants, SinkInv, [Sink!SinkNext]_sinkPart PROVE SinkInv'
    OBVIOUS
  <1>1. CASE UNCHANGED sinkPart
    <2>1. \A i : (Ordered(i)' <=> Ordered(i)) /\ Sink!Place(i)' = Sink!Place(i)
      BY <1>1 DEF sinkPart, Ordered, Sink!Place
    <2>2. OrderSound'
      BY <1>1, <2>1 DEF sinkPart, SinkInv, OrderSound, Once, Whole
    <2>3. Sink!SinkTypeOK'
      BY <1>1 DEF sinkPart, SinkInv, Sink!SinkTypeOK, Sink!ToSet
    <2>4. \A w \in SinkWriters : WriterSound(w)'
      BY <1>1, <2>1 DEF sinkPart, SinkInv, WriterSound, Whole
    <2> QED BY <1>1, <2>2, <2>3, <2>4 DEF sinkPart, SinkInv
  <1>2. CASE Sink!SinkNext
    BY <1>2, WriterOpens, WriterCreates, WriterFills, WriterEnds, WriterRenames, WriterKeeps,
       DirectoryReplaced, KernelFlushes, MachineFails DEF Sink!SinkNext
  <1> QED BY <1>1, <1>2

\* What the invariant of the file says of the properties its run checks.
LEMMA SinkInvMeans ==
    SinkInv => /\ Sink!SinkTypeOK /\ Sink!FileIsWhole /\ Sink!WrittenStays
               /\ Sink!ErrorsAreTold /\ Sink!NothingIsLeft
  <1> SUFFICES ASSUME SinkInv
               PROVE  /\ Sink!FileIsWhole /\ Sink!WrittenStays /\ Sink!ErrorsAreTold
                      /\ Sink!NothingIsLeft
    BY DEF SinkInv
  <1>1. Sink!FileIsWhole
    <2>1. ASSUME bEntry # None PROVE bData[bEntry].has = "whole"
      <3>1. bEntry \in Sink!Inodes /\ Ordered(bEntry)
        BY <2>1 DEF SinkInv, OrderSound, Sink!SinkTypeOK
      <3> QED BY <3>1 DEF SinkInv, OrderSound, Whole
    <2> QED BY <2>1 DEF Sink!FileIsWhole
  <1>2. Sink!WrittenStays
    <2>1. ASSUME bPlatform = "linux", NEW w \in SinkWriters, bWriter[w].answer = "ok"
          PROVE  Sink!Place(bEntry) >= Sink!Place(w)
      <3>1. Ordered(w) /\ Sink!Place(bStored) >= Sink!Place(w)
        BY <2>1, WriterKnown DEF WriterSound
      <3>2. Sink!Place(bEntry) >= Sink!Place(bStored) /\ Ordered(bEntry) /\ Ordered(bStored)
        BY <2>1 DEF SinkInv, OrderSound
      <3>3. /\ Sink!Place(w) \in 1..Len(bOrder) /\ Sink!Place(bEntry) \in 1..Len(bOrder)
            /\ Sink!Place(bStored) \in 1..Len(bOrder) /\ Len(bOrder) \in Nat
        BY <3>1, <3>2, PlaceOf DEF SinkInv, OrderSound
      <3> QED BY <3>1, <3>2, <3>3
    <2> QED BY <2>1 DEF Sink!WrittenStays
  <1>3. Sink!ErrorsAreTold
    <2>1. ASSUME NEW w \in SinkWriters, bWriter[w].answer = "error", bFaults = 0
          PROVE  w \notin Sink!ToSet(bOrder)
      <3>1. ~Ordered(w)
        BY <2>1, WriterKnown DEF WriterSound
      <3> QED BY <3>1 DEF Ordered, Sink!ToSet, SinkInv, OrderSound
    <2> QED BY <2>1 DEF Sink!ErrorsAreTold
  <1>4. Sink!NothingIsLeft
    BY SinkTyped DEF SinkInv, WriterSound, Sink!NothingIsLeft
  <1> QED BY <1>1, <1>2, <1>3, <1>4

SinkSafety == Sink!SinkInit /\ [][Sink!SinkNext]_sinkPart

\* Whatever writers run at once and wherever one fails or the machine stops, the file is
\* one that a writer wrote whole, on Linux what was answered stays, an error is told, and no
\* temporary file is left by a writer that ended (sandbox.go, write_atomic_linux.go).
THEOREM FilesAreWhole ==
    ASSUME Sink!SinkConstants
    PROVE  SinkSafety => [](/\ Sink!SinkTypeOK /\ Sink!FileIsWhole /\ Sink!WrittenStays
                            /\ Sink!ErrorsAreTold /\ Sink!NothingIsLeft)
  BY SinkInvHolds, SinkInvStays, SinkInvMeans, PTL DEF SinkSafety

(***************************************************************************)
(* Spans (SpanExport).  A span stands under the key of the operation that  *)
(* opened it; a run whose start is not appended yet has no span anywhere,  *)
(* and a run has one in one place: open, in the gate or exported.  The     *)
(* span of an operation alone under its key is that of its present run.    *)
(***************************************************************************)
CONSTANTS TracedOps, KindOf, CallOf, NoCall, RunsOf
VARIABLES sOp, sGate, sOpen, sExported, sBlocked

Spans == INSTANCE SpanExport WITH
  Operations <- TracedOps, Kind <- KindOf, Call <- CallOf, None <- NoCall, MaxRuns <- RunsOf,
  op <- sOp, gate <- sGate, open <- sOpen, exported <- sExported, blocked <- sBlocked

spansPart == <<sOp, sGate, sOpen, sExported, sBlocked>>

OneSpan == [of : TracedOps, run : Nat]
SpanTyped ==
  /\ sOp \in [TracedOps -> [run : Nat, at : Spans!Places, event : Spans!Actions]]
  /\ sGate = NoCall \/ sGate \in [by : TracedOps, span : OneSpan]
  /\ sOpen \in [Spans!Keys -> OneSpan \cup {Spans!NoSpan}]
  /\ sExported \subseteq [of : TracedOps, run : Nat, by : TracedOps, byRun : Nat]
  /\ sBlocked \subseteq TracedOps
\* A run of o that may have a span: its start was appended or blocked.
Started(o, run) ==
  run <= sOp[o].run /\ (sOp[o].at = "emits" /\ sOp[o].event = "start" => run # sOp[o].run)
SpanStarted ==
  /\ \A s \in sExported : Started(s.of, s.run)
  /\ sGate # NoCall => Started(sGate.span.of, sGate.span.run)
  /\ \A k \in Spans!Keys : sOpen[k] # Spans!NoSpan => Started(sOpen[k].of, sOpen[k].run)
NotExported(span) == \A s \in sExported : s.of # span.of \/ s.run # span.run
SpanOnce ==
  /\ Spans!ExportedOnce
  /\ sGate # NoCall => NotExported(sGate.span)
  /\ \A k \in Spans!Keys : sOpen[k] # Spans!NoSpan =>
       NotExported(sOpen[k]) /\ (sGate # NoCall => sGate.span # sOpen[k])
SpanPlaced ==
  /\ \A o \in TracedOps : sOp[o].at = "posting" => sOp[o].event = "end"
  /\ \A k \in Spans!Keys : sOpen[k] # Spans!NoSpan => Spans!SpanKey(sOpen[k].of) = k
  /\ sGate # NoCall => /\ sOp[sGate.by].at = "posting"
                       /\ Spans!SpanKey(sGate.span.of) = Spans!SpanKey(sGate.by)
                       /\ Spans!Alone(sGate.by) => sGate.span.run = sOp[sGate.by].run
SpanAlone(o) ==
  Spans!Alone(o) /\ sOpen[Spans!SpanKey(o)] # Spans!NoSpan =>
    /\ sOpen[Spans!SpanKey(o)].run = sOp[o].run
    /\ sOp[o].at = "running" \/ (sOp[o].at = "emits" /\ sOp[o].event = "end")
SpanInv ==
  /\ SpanTyped /\ SpanStarted /\ SpanOnce /\ SpanPlaced /\ Spans!SpansAreOwn
  /\ \A o \in TracedOps : SpanAlone(o)

\* No span is there before the first event.
LEMMA SpanInvHolds == Spans!SpanConstants /\ Spans!SpanInit => SpanInv
  <1> SUFFICES ASSUME Spans!SpanConstants, Spans!SpanInit PROVE SpanInv
    OBVIOUS
  <1>1. \A k \in Spans!Keys : sOpen[k] = Spans!NoSpan
    BY DEF Spans!SpanInit
  <1>2. \A o \in TracedOps : Spans!SpanKey(o) \in Spans!Keys /\ sOp[o].at = "idle"
    BY DEF Spans!SpanInit, Spans!Keys
  <1>3. SpanTyped
    BY DEF Spans!SpanInit, SpanTyped, Spans!Places, Spans!Actions
  <1>4. SpanStarted /\ SpanOnce /\ Spans!SpansAreOwn
    BY <1>1 DEF Spans!SpanInit, SpanStarted, SpanOnce, Spans!ExportedOnce, Spans!SpansAreOwn
  <1>5. SpanPlaced /\ \A o \in TracedOps : SpanAlone(o)
    BY <1>1, <1>2 DEF Spans!SpanInit, SpanPlaced, SpanAlone
  <1> QED BY <1>3, <1>4, <1>5 DEF SpanInv

\* An operation alone under its key stays with its span when another one acts, and was alone
\* before a step that leaves it alone.
LEMMA AloneBefore ==
    ASSUME NEW o \in TracedOps, sBlocked \subseteq sBlocked', Spans!Alone(o)'
    PROVE  Spans!Alone(o)
  BY DEF Spans!Alone

\* Where only the place of o changes, and its run when it begins, the spans are as they were.
SpanMove(o, to) ==
  /\ to \in [run : Nat, at : Spans!Places, event : Spans!Actions]
  /\ sOp' = [sOp EXCEPT ![o] = to] /\ UNCHANGED <<sGate, sOpen, sExported>>
  /\ sBlocked \subseteq sBlocked' /\ sBlocked' \subseteq TracedOps
  /\ to.run >= sOp[o].run /\ to.at # "posting" /\ sOp[o].at # "posting"
  /\ (to.at = "emits" /\ to.event = "start" => to.run > sOp[o].run)
  /\ \/ to.run = sOp[o].run /\ (to.at = "running" \/ (to.at = "emits" /\ to.event = "end"))
     \/ o \in sBlocked'
     \/ sOp[o].at = "idle"
     \/ sOpen[Spans!SpanKey(o)] = Spans!NoSpan
\* Such a step keeps the invariant.
LEMMA SpanMoves ==
    ASSUME SpanInv, NEW o \in TracedOps, NEW to, SpanMove(o, to)
    PROVE  SpanInv'
  <1> USE DEF SpanMove
  <1>1. /\ sOp[o].run \in Nat /\ to.run \in Nat /\ sOp'[o] = to
        /\ \A p \in TracedOps \ {o} : sOp'[p] = sOp[p]
    BY DEF SpanInv, SpanTyped
  <1>2. SpanTyped'
    BY <1>1 DEF SpanInv, SpanTyped
  <1>3. ASSUME NEW p \in TracedOps, NEW r \in Nat, Started(p, r)
        PROVE  /\ r <= sOp'[p].run
               /\ sOp'[p].at = "emits" /\ sOp'[p].event = "start" => r # sOp'[p].run
    BY <1>1, <1>3 DEF Started
  <1>4. SpanStarted'
    <2>1. \A s \in sExported : s.of \in TracedOps /\ s.run \in Nat
      BY DEF SpanInv, SpanTyped
    <2>2. sGate # NoCall => sGate.span.of \in TracedOps /\ sGate.span.run \in Nat
      BY DEF SpanInv, SpanTyped, OneSpan
    <2>3. \A k \in Spans!Keys : sOpen[k] # Spans!NoSpan =>
            sOpen[k].of \in TracedOps /\ sOpen[k].run \in Nat
      BY DEF SpanInv, SpanTyped, OneSpan
    <2> QED BY <1>3, <2>1, <2>2, <2>3 DEF SpanInv, SpanStarted, Started
  <1>5. SpanOnce'
    BY DEF SpanInv, SpanOnce, NotExported, Spans!ExportedOnce
  <1>6. SpanPlaced'
    <2>1. sGate # NoCall => sGate.by \in TracedOps \ {o}
      BY DEF SpanInv, SpanTyped, SpanPlaced
    <2>2. sGate # NoCall /\ Spans!Alone(sGate.by)' => Spans!Alone(sGate.by)
      BY <2>1, AloneBefore
    <2> QED BY <1>1, <2>1, <2>2 DEF SpanInv, SpanPlaced, Spans!SpanKey
  <1>7. Spans!SpansAreOwn'
    BY AloneBefore DEF SpanInv, SpanTyped, Spans!SpansAreOwn
  <1>8. ASSUME NEW p \in TracedOps PROVE SpanAlone(p)'
    <2>1. Spans!Alone(p)' => Spans!Alone(p)
      BY AloneBefore
    <2>2. SpanAlone(p)
      BY DEF SpanInv
    <2>3. CASE p # o
      BY <1>1, <2>1, <2>2, <2>3 DEF SpanAlone, Spans!SpanKey
    <2>4. CASE p = o
      BY <1>1, <2>1, <2>2, <2>4 DEF SpanAlone, Spans!SpanKey, Spans!Alone
    <2> QED BY <2>3, <2>4
  <1> QED BY <1>2, <1>4, <1>5, <1>6, <1>7, <1>8 DEF SpanInv

\* The operations that start, finish, are blocked by a hook, or end without a span.
LEMMA SpansMove ==
    ASSUME Spans!SpanConstants, SpanInv, NEW o \in TracedOps,
           Spans!Begin(o) \/ Spans!Finish(o) \/ Spans!HookBlocks(o) \/ Spans!EndNothing(o)
    PROVE  SpanInv'
  <1> DEFINE was == sOp[o]
  <1>0. /\ was \in [run : Nat, at : Spans!Places, event : Spans!Actions]
        /\ was.run \in Nat /\ was.run + 1 \in Nat /\ was.run + 1 > was.run
        /\ sOp \in [TracedOps -> [run : Nat, at : Spans!Places, event : Spans!Actions]]
        /\ sBlocked \subseteq TracedOps
    BY DEF SpanInv, SpanTyped
  <1>1. CASE Spans!Begin(o)
    <2> DEFINE to == [run |-> was.run + 1, at |-> "emits", event |-> "start"]
    <2>1. /\ was.at = "idle" /\ sOp' = [sOp EXCEPT ![o] = to]
          /\ UNCHANGED <<sGate, sOpen, sExported, sBlocked>>
      BY <1>0, <1>1 DEF Spans!Begin
    <2>2. /\ to \in [run : Nat, at : Spans!Places, event : Spans!Actions]
          /\ to.run = was.run + 1 /\ to.at = "emits" /\ to.event = "start"
      BY <1>0 DEF Spans!Places, Spans!Actions
    <2> HIDE DEF to
    <2>3. SpanMove(o, to)
      BY <1>0, <2>1, <2>2 DEF SpanMove
    <2> QED BY <2>3, SpanMoves, Zenon
  <1>2. CASE Spans!Finish(o)
    <2> DEFINE to == [was EXCEPT !.at = "emits", !.event = "end"]
    <2>1. /\ was.at = "running" /\ sOp' = [sOp EXCEPT ![o] = to]
          /\ UNCHANGED <<sGate, sOpen, sExported, sBlocked>>
      BY <1>0, <1>2 DEF Spans!Finish, Spans!Emits
    <2>2. /\ to \in [run : Nat, at : Spans!Places, event : Spans!Actions]
          /\ to.run = was.run /\ to.at = "emits" /\ to.event = "end"
      BY <1>0 DEF Spans!Places, Spans!Actions
    <2> HIDE DEF to
    <2>3. SpanMove(o, to)
      BY <1>0, <2>1, <2>2 DEF SpanMove
    <2> QED BY <2>3, SpanMoves, Zenon
  <1>3. CASE Spans!HookBlocks(o)
    <2>1. PICK to \in {[was EXCEPT !.at = "emits", !.event = "end"], [was EXCEPT !.at = "idle"]} :
            sOp' = [sOp EXCEPT ![o] = to]
      BY <1>0, <1>3 DEF Spans!HookBlocks, Spans!Emits
    <2>2. /\ was.at = "emits" /\ UNCHANGED <<sGate, sOpen, sExported>>
          /\ sBlocked \subseteq sBlocked' /\ sBlocked' \subseteq TracedOps /\ o \in sBlocked'
      BY <1>0, <1>3 DEF Spans!HookBlocks
    <2>3. /\ to \in [run : Nat, at : Spans!Places, event : Spans!Actions]
          /\ to.run = was.run /\ to.at # "posting"
          /\ ~(to.at = "emits" /\ to.event = "start")
      BY <1>0, <2>1 DEF Spans!Places, Spans!Actions
    <2>4. SpanMove(o, to)
      BY <1>0, <2>1, <2>2, <2>3 DEF SpanMove
    <2> QED BY <2>4, SpanMoves, Zenon
  <1>4. CASE Spans!EndNothing(o)
    <2> DEFINE to == [was EXCEPT !.at = "idle"]
    <2>1. /\ was.at = "emits" /\ sOp' = [sOp EXCEPT ![o] = to]
          /\ UNCHANGED <<sGate, sOpen, sExported, sBlocked>>
          /\ sOpen[Spans!SpanKey(o)] = Spans!NoSpan
      BY <1>0, <1>4 DEF Spans!EndNothing, Spans!Returns
    <2>2. /\ to \in [run : Nat, at : Spans!Places, event : Spans!Actions]
          /\ to.run = was.run /\ to.at = "idle"
      BY <1>0 DEF Spans!Places, Spans!Actions
    <2> HIDE DEF to
    <2>3. SpanMove(o, to)
      BY <1>0, <2>1, <2>2 DEF SpanMove
    <2> QED BY <2>3, SpanMoves, Zenon
  <1> QED BY <1>1, <1>2, <1>3, <1>4

\* A start opens the span of its run, over one that is open under its key.
LEMMA SpanOpens ==
    ASSUME Spans!SpanConstants, SpanInv, NEW o \in TracedOps, Spans!OpenSpan(o)
    PROVE  SpanInv'
  <1> DEFINE was == sOp[o]
             key == Spans!SpanKey(o)
             span == [of |-> o, run |-> was.run]
  <1>0. /\ was \in [run : Nat, at : Spans!Places, event : Spans!Actions]
        /\ was.at = "emits" /\ was.event = "start" /\ sGate = NoCall
        /\ key \in Spans!Keys /\ span \in OneSpan /\ span # Spans!NoSpan
    BY DEF Spans!OpenSpan, SpanInv, SpanTyped, Spans!Keys, OneSpan, Spans!NoSpan, Spans!SpanConstants
  <1> DEFINE to == [was EXCEPT !.at = "running"]
  <1>1. /\ to \in [run : Nat, at : Spans!Places, event : Spans!Actions]
        /\ sOp' = [sOp EXCEPT ![o] = to]
        /\ to.run = was.run /\ to.at = "running" /\ to.event = "start"
    <2>1. sOp' = [sOp EXCEPT ![o].at = "running"]
      BY <1>0 DEF Spans!OpenSpan, Spans!Returns
    <2> QED BY <1>0, <2>1 DEF Spans!Places
  <1> HIDE DEF to
  <1>2. /\ sOp'[o] = to /\ \A p \in TracedOps \ {o} : sOp'[p] = sOp[p]
        /\ sOp' \in [TracedOps -> [run : Nat, at : Spans!Places, event : Spans!Actions]]
    BY <1>1 DEF SpanInv, SpanTyped
  <1>3. /\ sOpen' = [sOpen EXCEPT ![key] = span] /\ sGate' = NoCall
        /\ sExported' = sExported /\ sBlocked' = sBlocked
    BY <1>0 DEF Spans!OpenSpan, Spans!NewSpan
  <1> HIDE DEF key, span
  <1>4. /\ sOpen'[key] = span /\ \A k \in Spans!Keys \ {key} : sOpen'[k] = sOpen[k]
        /\ sOpen' \in [Spans!Keys -> OneSpan \cup {Spans!NoSpan}]
    BY <1>0, <1>3 DEF SpanInv, SpanTyped
  <1>5. SpanTyped'
    BY <1>2, <1>3, <1>4 DEF SpanInv, SpanTyped
  <1>6. ASSUME NEW p \in TracedOps, NEW r \in Nat, Started(p, r)
        PROVE  /\ r <= sOp'[p].run
               /\ sOp'[p].at = "emits" /\ sOp'[p].event = "start" => r # sOp'[p].run
    BY <1>1, <1>2, <1>6 DEF Started
  <1>7. SpanStarted'
    <2>1. \A s \in sExported : s.of \in TracedOps /\ s.run \in Nat
      BY DEF SpanInv, SpanTyped
    <2>2. \A k \in Spans!Keys : sOpen[k] # Spans!NoSpan =>
            sOpen[k].of \in TracedOps /\ sOpen[k].run \in Nat
      BY DEF SpanInv, SpanTyped, OneSpan
    <2>3. \A s \in sExported' : Started(s.of, s.run)'
      BY <1>3, <1>6, <2>1 DEF SpanInv, SpanStarted, Started
    <2>4. ASSUME NEW k \in Spans!Keys, sOpen'[k] # Spans!NoSpan
          PROVE  Started(sOpen[k].of, sOpen[k].run)'
      <3>1. CASE k = key
        BY <1>0, <1>1, <1>2, <1>4, <3>1 DEF span, Started
      <3>2. CASE k # key
        BY <1>4, <1>6, <2>2, <2>4, <3>2 DEF SpanInv, SpanStarted, Started
      <3> QED BY <3>1, <3>2
    <2> QED BY <1>3, <2>3, <2>4 DEF SpanStarted
  <1>8. SpanOnce'
    <2>1. NotExported(span)
      <3>1. \A s \in sExported : s.of = o => s.run # was.run
        BY <1>0 DEF SpanInv, SpanStarted, Started
      <3> QED BY <3>1 DEF NotExported, span
    <2> QED BY <1>0, <1>3, <1>4, <2>1 DEF SpanInv, SpanOnce, NotExported, Spans!ExportedOnce
  <1>9. SpanPlaced'
    <2>1. \A p \in TracedOps : sOp'[p].at = "posting" => sOp'[p].event = "end"
      BY <1>1, <1>2 DEF SpanInv, SpanPlaced
    <2>2. \A k \in Spans!Keys : sOpen'[k] # Spans!NoSpan => Spans!SpanKey(sOpen'[k].of) = k
      BY <1>4 DEF SpanInv, SpanPlaced, key, span
    <2> QED BY <1>3, <2>1, <2>2 DEF SpanPlaced, Spans!SpanKey
  <1>10. Spans!SpansAreOwn'
    BY <1>3, AloneBefore DEF SpanInv, SpanTyped, Spans!SpansAreOwn
  <1>11. ASSUME NEW p \in TracedOps, Spans!Alone(p)', sOpen'[Spans!SpanKey(p)] # Spans!NoSpan
         PROVE  /\ sOpen'[Spans!SpanKey(p)].run = sOp'[p].run
                /\ sOp'[p].at = "running" \/ (sOp'[p].at = "emits" /\ sOp'[p].event = "end")
    <2>1. Spans!Alone(p)
      BY <1>3, <1>11, AloneBefore
    <2>2. CASE p = o
      BY <1>1, <1>2, <1>4, <2>2 DEF key, span
    <2>3. CASE p # o
      <3>1. Spans!SpanKey(p) # key /\ Spans!SpanKey(p) \in Spans!Keys
        BY <2>1, <2>3 DEF Spans!Alone, Spans!SpanKey, Spans!Keys, key
      <3> QED BY <1>2, <1>4, <1>11, <2>1, <2>3, <3>1 DEF SpanInv, SpanAlone
    <2> QED BY <2>2, <2>3
  <1> QED BY <1>5, <1>7, <1>8, <1>9, <1>10, <1>11 DEF SpanInv, SpanAlone, Spans!SpanKey

\* An end takes the span of its key into the gate.
LEMMA SpanTaken ==
    ASSUME Spans!SpanConstants, SpanInv, NEW o \in TracedOps, Spans!EndSpan(o)
    PROVE  SpanInv'
  <1> DEFINE was == sOp[o]
             key == Spans!SpanKey(o)
             span == sOpen[key]
  <1>0. /\ was \in [run : Nat, at : Spans!Places, event : Spans!Actions]
        /\ was.at = "emits" /\ was.event = "end" /\ sGate = NoCall
        /\ key \in Spans!Keys /\ span \in OneSpan /\ span # Spans!NoSpan
    BY DEF Spans!EndSpan, SpanInv, SpanTyped, Spans!Keys, Spans!Actions
  <1> DEFINE to == [was EXCEPT !.at = "posting"]
  <1>1. /\ to \in [run : Nat, at : Spans!Places, event : Spans!Actions]
        /\ sOp' = [sOp EXCEPT ![o] = to]
        /\ to.run = was.run /\ to.at = "posting" /\ to.event = "end"
    <2>1. sOp' = [sOp EXCEPT ![o].at = "posting"]
      BY <1>0 DEF Spans!EndSpan
    <2> QED BY <1>0, <2>1 DEF Spans!Places
  <1> HIDE DEF to
  <1>2. /\ sOp'[o] = to /\ \A p \in TracedOps \ {o} : sOp'[p] = sOp[p]
        /\ sOp' \in [TracedOps -> [run : Nat, at : Spans!Places, event : Spans!Actions]]
    BY <1>1 DEF SpanInv, SpanTyped
  <1>3. /\ sOpen' = [sOpen EXCEPT ![key] = Spans!NoSpan] /\ sGate' = [by |-> o, span |-> span]
        /\ sExported' = sExported /\ sBlocked' = sBlocked
    BY <1>0 DEF Spans!EndSpan, Spans!Take
  <1>4. /\ Spans!SpanKey(span.of) = key /\ Started(span.of, span.run) /\ NotExported(span)
        /\ Spans!Alone(o) => span.run = was.run
        /\ span.of \in TracedOps /\ span.run \in Nat
    BY <1>0 DEF SpanInv, SpanPlaced, SpanStarted, SpanOnce, SpanAlone, OneSpan
  <1> HIDE DEF key, span
  <1>5. /\ sOpen'[key] = Spans!NoSpan /\ \A k \in Spans!Keys \ {key} : sOpen'[k] = sOpen[k]
        /\ sOpen' \in [Spans!Keys -> OneSpan \cup {Spans!NoSpan}]
        /\ sGate'.by = o /\ sGate'.span = span /\ sGate' \in [by : TracedOps, span : OneSpan]
    BY <1>0, <1>3 DEF SpanInv, SpanTyped
  <1>6. SpanTyped'
    BY <1>2, <1>3, <1>5 DEF SpanInv, SpanTyped
  <1>7. ASSUME NEW p \in TracedOps, NEW r \in Nat, Started(p, r)
        PROVE  /\ r <= sOp'[p].run
               /\ sOp'[p].at = "emits" /\ sOp'[p].event = "start" => r # sOp'[p].run
    BY <1>1, <1>2, <1>7 DEF Started
  <1>8. SpanStarted'
    <2>1. \A s \in sExported : s.of \in TracedOps /\ s.run \in Nat
      BY DEF SpanInv, SpanTyped
    <2>2. \A k \in Spans!Keys : sOpen[k] # Spans!NoSpan =>
            sOpen[k].of \in TracedOps /\ sOpen[k].run \in Nat
      BY DEF SpanInv, SpanTyped, OneSpan
    <2> QED BY <1>3, <1>4, <1>5, <1>7, <2>1, <2>2 DEF SpanInv, SpanStarted, Started
  <1>9. SpanOnce'
    <2>1. ASSUME NEW k \in Spans!Keys \ {key}, sOpen[k] # Spans!NoSpan PROVE span # sOpen[k]
      BY <1>4, <2>1 DEF SpanInv, SpanPlaced
    <2> QED BY <1>3, <1>4, <1>5, <2>1 DEF SpanInv, SpanOnce, NotExported, Spans!ExportedOnce
  <1>10. SpanPlaced'
    <2>1. \A p \in TracedOps : sOp'[p].at = "posting" => sOp'[p].event = "end"
      BY <1>1, <1>2 DEF SpanInv, SpanPlaced
    <2>2. \A k \in Spans!Keys : sOpen'[k] # Spans!NoSpan => Spans!SpanKey(sOpen'[k].of) = k
      BY <1>5 DEF SpanInv, SpanPlaced
    <2>3. /\ sOp'[o].at = "posting" /\ Spans!SpanKey(span.of) = Spans!SpanKey(o)
          /\ Spans!Alone(o) => span.run = sOp'[o].run
      BY <1>1, <1>2, <1>4 DEF key
    <2> QED BY <1>3, <1>5, <2>1, <2>2, <2>3 DEF SpanPlaced, Spans!SpanKey, Spans!Alone
  <1>11. Spans!SpansAreOwn'
    BY <1>3, AloneBefore DEF SpanInv, SpanTyped, Spans!SpansAreOwn
  <1>12. ASSUME NEW p \in TracedOps, Spans!Alone(p)', sOpen'[Spans!SpanKey(p)] # Spans!NoSpan
         PROVE  /\ sOpen'[Spans!SpanKey(p)].run = sOp'[p].run
                /\ sOp'[p].at = "running" \/ (sOp'[p].at = "emits" /\ sOp'[p].event = "end")
    <2>1. Spans!Alone(p)
      BY <1>3, <1>12, AloneBefore
    <2>2. p # o
      BY <1>5, <1>12 DEF key
    <2>3. Spans!SpanKey(p) # key /\ Spans!SpanKey(p) \in Spans!Keys
      BY <2>1, <2>2 DEF Spans!Alone, Spans!SpanKey, Spans!Keys, key
    <2> QED BY <1>2, <1>5, <1>12, <2>1, <2>2, <2>3 DEF SpanInv, SpanAlone
  <1> QED BY <1>6, <1>8, <1>9, <1>10, <1>11, <1>12 DEF SpanInv, SpanAlone, Spans!SpanKey

\* The span in the gate is exported, by the operation that took it.
LEMMA SpanPosted ==
    ASSUME SpanInv, NEW o \in TracedOps, Spans!Export(o)
    PROVE  SpanInv'
  <1> DEFINE was == sOp[o]
             span == sGate.span
             done == [of |-> span.of, run |-> span.run, by |-> o, byRun |-> was.run]
  <1>0. /\ was \in [run : Nat, at : Spans!Places, event : Spans!Actions]
        /\ sGate # NoCall /\ sGate.by = o /\ was.at = "posting" /\ was.event = "end"
        /\ span \in OneSpan /\ span.of \in TracedOps /\ span.run \in Nat /\ was.run \in Nat
        /\ Spans!SpanKey(span.of) = Spans!SpanKey(o) /\ Started(span.of, span.run)
        /\ NotExported(span) /\ (Spans!Alone(o) => span.run = was.run)
    BY DEF Spans!Export, SpanInv, SpanTyped, SpanPlaced, SpanStarted, SpanOnce, OneSpan
  <1> DEFINE to == [was EXCEPT !.at = "idle"]
  <1>1. /\ to \in [run : Nat, at : Spans!Places, event : Spans!Actions]
        /\ sOp' = [sOp EXCEPT ![o] = to]
        /\ to.run = was.run /\ to.at = "idle" /\ to.event = "end"
    <2>1. sOp' = [sOp EXCEPT ![o].at = "idle"]
      BY <1>0 DEF Spans!Export, Spans!Returns
    <2> QED BY <1>0, <2>1 DEF Spans!Places
  <1> HIDE DEF to
  <1>2. /\ sOp'[o] = to /\ \A p \in TracedOps \ {o} : sOp'[p] = sOp[p]
        /\ sOp' \in [TracedOps -> [run : Nat, at : Spans!Places, event : Spans!Actions]]
    BY <1>1 DEF SpanInv, SpanTyped
  <1>3. /\ sOpen' = sOpen /\ sGate' = NoCall /\ sBlocked' = sBlocked
        /\ sExported' = sExported \cup {done}
    BY DEF Spans!Export, Spans!Ended
  <1>4. done \in [of : TracedOps, run : Nat, by : TracedOps, byRun : Nat]
    BY <1>0
  <1>5. done.of = span.of /\ done.run = span.run /\ done.by = o /\ done.byRun = was.run
    OBVIOUS
  <1> HIDE DEF done
  <1>6. SpanTyped'
    BY <1>2, <1>3, <1>4 DEF SpanInv, SpanTyped
  <1>7. ASSUME NEW p \in TracedOps, NEW r \in Nat, Started(p, r)
        PROVE  /\ r <= sOp'[p].run
               /\ sOp'[p].at = "emits" /\ sOp'[p].event = "start" => r # sOp'[p].run
    BY <1>0, <1>1, <1>2, <1>7 DEF Started
  <1>8. SpanStarted'
    <2>1. \A s \in sExported : s.of \in TracedOps /\ s.run \in Nat
      BY DEF SpanInv, SpanTyped
    <2>2. \A k \in Spans!Keys : sOpen[k] # Spans!NoSpan =>
            sOpen[k].of \in TracedOps /\ sOpen[k].run \in Nat
      BY DEF SpanInv, SpanTyped, OneSpan
    <2> QED BY <1>0, <1>3, <1>5, <1>7, <2>1, <2>2 DEF SpanInv, SpanStarted, Started
  <1>9. SpanOnce'
    <2>1. \A s \in sExported : s.of # done.of \/ s.run # done.run
      BY <1>0, <1>5 DEF NotExported
    <2>2. ASSUME NEW k \in Spans!Keys, sOpen[k] # Spans!NoSpan
          PROVE  sOpen[k].of # done.of \/ sOpen[k].run # done.run
      <3>1. sOpen[k] \in OneSpan /\ sOpen[k] # span
        BY <1>0, <2>2 DEF SpanInv, SpanTyped, SpanOnce
      <3> QED BY <1>0, <1>5, <3>1 DEF OneSpan
    <2> QED BY <1>3, <2>1, <2>2 DEF SpanInv, SpanOnce, NotExported, Spans!ExportedOnce
  <1>10. SpanPlaced'
    BY <1>1, <1>2, <1>3 DEF SpanInv, SpanPlaced, Spans!SpanKey
  <1>11. Spans!SpansAreOwn'
    <2>1. Spans!Alone(span.of) \/ Spans!Alone(o) => span.of = o /\ span.run = was.run
      BY <1>0 DEF Spans!Alone, Spans!SpanKey
    <2>2. \A p \in TracedOps : Spans!Alone(p)' => Spans!Alone(p)
      BY <1>3, AloneBefore
    <2>3. \A s \in sExported : s.of \in TracedOps /\ s.by \in TracedOps
      BY DEF SpanInv, SpanTyped
    <2> QED BY <1>0, <1>3, <1>5, <2>1, <2>2, <2>3 DEF SpanInv, Spans!SpansAreOwn
  <1>12. ASSUME NEW p \in TracedOps PROVE SpanAlone(p)'
    <2>1. Spans!Alone(p)' => Spans!Alone(p)
      BY <1>3, AloneBefore
    <2>2. SpanAlone(p)
      BY DEF SpanInv
    <2> QED BY <1>0, <1>2, <1>3, <2>1, <2>2 DEF SpanAlone, Spans!SpanKey
  <1> QED BY <1>6, <1>8, <1>9, <1>10, <1>11, <1>12 DEF SpanInv

\* Every step of the spans, taken or not.
LEMMA SpanInvStays ==
    Spans!SpanConstants /\ SpanInv /\ [Spans!SpanNext]_spansPart => SpanInv'
  <1> SUFFICES ASSUME Spans!SpanConstants, SpanInv, [Spans!SpanNext]_spansPart PROVE SpanInv'
    OBVIOUS
  <1>1. CASE Spans!SpanNext
    BY <1>1, SpansMove, SpanOpens, SpanTaken, SpanPosted, Zenon DEF Spans!SpanNext, Spans!Emission
  <1>2. CASE UNCHANGED spansPart
    BY <1>2 DEF spansPart, SpanInv, SpanTyped, SpanStarted, Started, SpanOnce, NotExported,
         SpanPlaced, SpanAlone, Spans!SpansAreOwn, Spans!ExportedOnce, Spans!Alone, Spans!SpanKey
  <1> QED BY <1>1, <1>2

\* What the invariant says of the spans.
LEMMA SpanInvMeans ==
    Spans!SpanConstants /\ SpanInv =>
      Spans!SpanTypeOK /\ Spans!SpansAreOwn /\ Spans!OpenIsRunning /\ Spans!ExportedOnce
  <1> SUFFICES ASSUME Spans!SpanConstants, SpanInv
               PROVE  Spans!SpanTypeOK /\ Spans!OpenIsRunning
    BY DEF SpanInv, SpanOnce
  <1>1. Spans!SpanTypeOK
    BY DEF SpanInv, SpanTyped, OneSpan, Spans!SpanTypeOK
  <1>2. ASSUME NEW o \in TracedOps, Spans!Alone(o), sOp[o].at = "idle", NEW k \in Spans!Keys
        PROVE  sOpen[k].of # o
    <2>1. CASE sOpen[k] = Spans!NoSpan
      BY <2>1 DEF Spans!NoSpan, Spans!SpanConstants
    <2>2. CASE sOpen[k] # Spans!NoSpan
      BY <1>2, <2>2 DEF SpanInv, SpanPlaced, SpanAlone
    <2> QED BY <2>1, <2>2
  <1> QED BY <1>1, <1>2 DEF Spans!OpenIsRunning

SpansSafety == Spans!SpanInit /\ [][Spans!SpanNext]_spansPart

\* However the operations of a trace interleave, repeat and are blocked, the span of one that
\* is alone under its key tells of its own run and is closed with it, and no run is exported
\* twice (tracer.go, otlp_exporter.go).
THEOREM SpansAreTrue ==
    ASSUME Spans!SpanConstants
    PROVE  SpansSafety => [](/\ Spans!SpanTypeOK /\ Spans!SpansAreOwn
                             /\ Spans!OpenIsRunning /\ Spans!ExportedOnce)
  BY SpanInvHolds, SpanInvStays, SpanInvMeans, PTL DEF SpansSafety

(***************************************************************************)
(* Views of the events of a worker (TraceViews).  Without a store the      *)
(* window is the end of the log and the ring of starts holds every start   *)
(* of the window, so what a scrape measures in the window the stream has   *)
(* measured; with a store the log only grows.                              *)
(***************************************************************************)
CONSTANTS TraceKeys, ViewRetention, ViewEvents, ViewBoots
VARIABLES vBackend, vLog, vHere, vWindow, vLife, vOpen, vStarts, vBoots, vScrape, vPoll

Views == INSTANCE TraceViews WITH
  Operations <- TraceKeys, Retention <- ViewRetention, MaxEvents <- ViewEvents, MaxBoots <-
  ViewBoots,
  backend <- vBackend, log <- vLog, here <- vHere, window <- vWindow, life <- vLife, open <-
  vOpen, starts <- vStarts, boots <- vBoots, scrape <- vScrape, poll <- vPoll

viewsPart == <<vBackend, vLog, vHere, vWindow, vLife, vOpen, vStarts, vBoots, vScrape, vPoll>>

TraceEvents == [op : TraceKeys, kind : {"start", "end"}]
Counts == [started : Nat, ended : Nat, measured : Nat]
Counters == {"started", "ended", "measured"}
ViewsTyped ==
  /\ vBackend \in {"none", "store"} /\ vLog \in Seq(TraceEvents) /\ vHere \subseteq 1..Len(vLog)
  /\ vWindow \in Seq(Nat) /\ vStarts \in Seq(Nat) /\ vLife \in Counts
  /\ vOpen \in [TraceKeys -> Nat] /\ vBoots \in Nat
  /\ vScrape \in [pc : {"idle", "merging"}, seen : Counts, shown : Counts]
  /\ vPoll \in [pc : {"none", "idle", "lookup"}, kind : {"saved", "exec", "trace"},
                on : TraceKeys \cup {"nothing"}, cursor : Nat, from : Nat,
                got : SUBSET Nat, raced : SUBSET Nat]
\* Without a store the window is the end of the log.
WindowFits ==
  /\ Len(vWindow) <= ViewRetention
  /\ \A j \in 1..Len(vWindow) : vWindow[j] \in vHere
  /\ vBackend = "none" =>
       /\ vHere = 1..Len(vLog) /\ Len(vWindow) <= Len(vLog)
       /\ Len(vLog) > 0 => Len(vWindow) > 0
       /\ \A j \in 1..Len(vWindow) : vWindow[j] = Len(vLog) - Len(vWindow) + j
\* The ring holds starts in their order, and every start of the window.
StartsFit ==
  /\ Len(vStarts) <= ViewRetention
  /\ \A k \in 1..Len(vStarts) : 1 <= vStarts[k] /\ vStarts[k] <= Len(vLog) - Len(vStarts) + k
  /\ \A k, m \in 1..Len(vStarts) : vStarts[k] = vStarts[m] => k = m
  /\ vBackend = "none" =>
       \A i \in 1..Len(vLog) : i > Len(vLog) - Len(vWindow) /\ vLog[i].kind = "start" =>
         \E k \in 1..Len(vStarts) : vStarts[k] = i
\* An operation whose start is its last event is open, as long as the ring holds it.
LastHere(i) == i \in vHere /\ \A j \in vHere : vLog[j].op = vLog[i].op => j <= i
OpenFits ==
  \A i \in vHere : LastHere(i) /\ vLog[i].kind = "start"
                     /\ (\E k \in 1..Len(vStarts) : vStarts[k] = i) => vOpen[vLog[i].op] = i
\* A poll that found nothing has seen the end of the log, but for what came since.
PollFits ==
  /\ vPoll.cursor <= Len(vLog) /\ Views!NoneSkipped
  /\ vPoll.pc = "lookup" =>
       \A i \in 1..Len(vLog) : i > vPoll.cursor /\ vLog[i].op = vPoll.on => i \in vPoll.raced
\* The counters of a set of events.
Kinds(log, ids, kind) == {i \in ids : log[i].kind = kind}
Pairs(log, ids, s, e) ==
  /\ s < e /\ log[s].kind = "start" /\ log[s].op = log[e].op
  /\ \A i \in ids : s < i /\ i < e => log[i].op # log[e].op
Paired(log, ids) == {e \in ids : log[e].kind = "end" /\ \E s \in ids : Pairs(log, ids, s, e)}
Counted(log, ids, c) ==
  IF c = "started" THEN Cardinality(Kinds(log, ids, "start"))
  ELSE IF c = "ended" THEN Cardinality(Kinds(log, ids, "end"))
  ELSE Cardinality(Paired(log, ids))
\* The lifetime statistics count what this process emitted, and measure what the window shows.
LifeFits ==
  /\ vLife.started = Cardinality(Kinds(vLog, vHere, "start"))
  /\ vLife.ended = Cardinality(Kinds(vLog, vHere, "end"))
  /\ vBackend = "none" =>
       \E M \in SUBSET (1..Len(vLog)) :
         Cardinality(M) = vLife.measured /\ Paired(vLog, Views!Kept) \subseteq M
\* What is shown, or will be, is covered by what the next scrape reads.
ScrapeFits ==
  \A c \in Counters :
    /\ vBackend = "none" =>
         vScrape.shown[c] <= vLife[c] /\ (vScrape.pc = "merging" => vScrape.seen[c] <= vLife[c])
    /\ vBackend = "store" =>
         /\ vScrape.shown[c] <= vLife[c] \/ vScrape.shown[c] <= Counted(vLog, 1..Len(vLog), c)
         /\ vScrape.pc = "merging" =>
              /\ vScrape.shown[c] <= vLife[c] \/ vScrape.shown[c] <= vScrape.seen[c]
              /\ vScrape.seen[c] <= Counted(vLog, 1..Len(vLog), c)
ViewsInv ==
  /\ Views!ViewConstants /\ ViewsTyped /\ WindowFits /\ StartsFit /\ OpenFits /\ PollFits
  /\ LifeFits /\ ScrapeFits

\* An event is appended: the log before it stays as it was.
LEMMA LogAppended ==
    ASSUME NEW log \in Seq(TraceEvents), NEW e \in TraceEvents
    PROVE  /\ Append(log, e) \in Seq(TraceEvents) /\ Len(log) \in Nat
           /\ Len(Append(log, e)) = Len(log) + 1 /\ Append(log, e)[Len(log) + 1] = e
           /\ \A i \in 1..Len(log) : Append(log, e)[i] = log[i] /\ log[i] \in TraceEvents
           /\ \A i \in 1..Len(log) : i \in 1..Len(log) + 1 /\ i < Len(log) + 1
           /\ \A i \in 1..Len(log) + 1 : i \in 1..Len(log) \/ i = Len(log) + 1
           /\ Len(log) + 1 \in 1..Len(log) + 1 /\ Len(log) + 1 \notin 1..Len(log)
  OBVIOUS

\* The three counters of a set of events are numbers, and a larger set has larger ones.
LEMMA CountsAreNumbers ==
    ASSUME NEW log, NEW ids, IsFiniteSet(ids)
    PROVE  /\ \A kind : IsFiniteSet(Kinds(log, ids, kind))
           /\ IsFiniteSet(Paired(log, ids))
           /\ \A c \in Counters : Counted(log, ids, c) \in Nat
  <1>1. \A kind : IsFiniteSet(Kinds(log, ids, kind))
    <2> TAKE kind
    <2>1. Kinds(log, ids, kind) \in SUBSET ids
      BY DEF Kinds
    <2> QED BY <2>1, FS_Subset
  <1>2. IsFiniteSet(Paired(log, ids))
    <2>1. Paired(log, ids) \in SUBSET ids
      BY DEF Paired
    <2> QED BY <2>1, FS_Subset
  <1>3. /\ Cardinality(Kinds(log, ids, "start")) \in Nat /\ Cardinality(Kinds(log, ids, "end")) \in Nat
        /\ Cardinality(Paired(log, ids)) \in Nat
    BY <1>1, <1>2, FS_CardinalityType
  <1> QED BY <1>1, <1>2, <1>3 DEF Counted


\* A log that grows counts no less.
LEMMA CountsGrow ==
    ASSUME NEW log \in Seq(TraceEvents), NEW e \in TraceEvents, NEW c \in Counters
    PROVE  /\ Counted(log, 1..Len(log), c) \in Nat
           /\ Counted(Append(log, e), 1..Len(log) + 1, c) \in Nat
           /\ Counted(log, 1..Len(log), c) <= Counted(Append(log, e), 1..Len(log) + 1, c)
  <1> DEFINE n == Len(log)
             m == Append(log, e)
  <1>1. /\ n \in Nat /\ \A i \in 1..n : m[i] = log[i]
        /\ \A i \in 1..n : i \in 1..n + 1 /\ i < n + 1
        /\ \A i \in 1..n + 1 : i \in 1..n \/ i = n + 1
    BY LogAppended
  <1> HIDE DEF n, m
  <1>2. IsFiniteSet(1..n) /\ IsFiniteSet(1..n + 1)
    <2>1. n \in Int /\ n + 1 \in Int /\ 1 \in Int
      BY <1>1
    <2> QED BY <2>1, FS_Interval
  <1>3. ASSUME NEW kind
        PROVE  Cardinality(Kinds(log, 1..n, kind)) <= Cardinality(Kinds(m, 1..n + 1, kind))
    <2>1. Kinds(log, 1..n, kind) \in SUBSET Kinds(m, 1..n + 1, kind)
      BY <1>1 DEF Kinds
    <2> QED BY <1>2, <2>1, CountsAreNumbers, FS_Subset
  <1>4. Cardinality(Paired(log, 1..n)) <= Cardinality(Paired(m, 1..n + 1))
    <2>1. ASSUME NEW x \in Paired(log, 1..n) PROVE x \in Paired(m, 1..n + 1)
      <3>1. x \in 1..n /\ log[x].kind = "end"
        BY <2>1 DEF Paired
      <3>2. PICK s \in 1..n : Pairs(log, 1..n, s, x)
        BY <2>1 DEF Paired
      <3>3. Pairs(m, 1..n + 1, s, x)
        <4>1. m[s] = log[s] /\ m[x] = log[x]
          BY <1>1, <3>1
        <4>2. ASSUME NEW i \in 1..n + 1, s < i, i < x PROVE m[i].op # m[x].op
          <5>1. i \in 1..n
            BY <1>1, <3>1, <4>2
          <5> QED BY <1>1, <3>2, <4>1, <4>2, <5>1 DEF Pairs
        <4> QED BY <3>2, <4>1, <4>2 DEF Pairs
      <3>4. x \in 1..n + 1 /\ s \in 1..n + 1 /\ m[x].kind = "end"
        BY <1>1, <3>1
      <3> QED BY <3>3, <3>4 DEF Paired
    <2>2. Paired(log, 1..n) \in SUBSET Paired(m, 1..n + 1)
      BY <2>1
    <2> QED BY <1>2, <2>2, CountsAreNumbers, FS_Subset
  <1>5. /\ Counted(log, 1..n, c) \in Nat /\ Counted(m, 1..n + 1, c) \in Nat
        /\ Counted(log, 1..n, c) <= Counted(m, 1..n + 1, c)
    <2>1. Counted(log, 1..n, c) \in Nat /\ Counted(m, 1..n + 1, c) \in Nat
      BY <1>2, CountsAreNumbers
    <2> QED BY <1>3, <1>4, <2>1 DEF Counted
  <1> QED BY <1>5 DEF n, m

\* A ring that is full drops its first element for a new one.
Pushed(s, id, t) ==
  \/ /\ Len(s) < ViewRetention /\ Len(t) = Len(s) + 1 /\ t[Len(s) + 1] = id
     /\ \A k \in 1..Len(s) : t[k] = s[k]
  \/ /\ Len(s) = ViewRetention /\ Len(t) = Len(s) /\ t[Len(s)] = id
     /\ \A k \in 1..Len(s) - 1 : t[k] = s[k + 1]

\* What Push makes of a ring.
LEMMA RingPushed ==
    ASSUME Views!ViewConstants, NEW s \in Seq(Nat), Len(s) <= ViewRetention, NEW id \in Nat
    PROVE  Views!Push(s, id) \in Seq(Nat) /\ Pushed(s, id, Views!Push(s, id))
  <1>1. ViewRetention \in Nat /\ ViewRetention > 0 /\ Len(s) \in Nat
    BY DEF Views!ViewConstants
  <1>2. CASE Len(s) < ViewRetention
    <2>1. Views!Push(s, id) = Append(s, id)
      BY <1>2 DEF Views!Push
    <2> QED BY <1>2, <2>1 DEF Pushed
  <1>3. CASE Len(s) = ViewRetention
    <2>1. Views!Push(s, id) = Append(Tail(s), id)
      BY <1>1, <1>3 DEF Views!Push
    <2>2. s # <<>> /\ Tail(s) \in Seq(Nat) /\ Len(Tail(s)) = Len(s) - 1
          /\ \A k \in 1..Len(s) - 1 : Tail(s)[k] = s[k + 1]
      BY <1>1, <1>3
    <2> DEFINE t == Tail(s)
    <2>3. t \in Seq(Nat) /\ Len(t) = Len(s) - 1 /\ \A k \in 1..Len(s) - 1 : t[k] = s[k + 1]
      BY <2>2
    <2> HIDE DEF t
    <2>4. /\ Append(t, id) \in Seq(Nat) /\ Len(Append(t, id)) = Len(s) /\ Append(t, id)[Len(s)] = id
          /\ \A k \in 1..Len(s) - 1 : Append(t, id)[k] = s[k + 1]
      <3>1. (Len(s) - 1) + 1 = Len(s)
        BY <1>1
      <3> QED BY <1>1, <2>3, <3>1
    <2> QED BY <1>3, <2>1, <2>4 DEF Pushed, t
  <1> QED BY <1>1, <1>2, <1>3

\* Without a store, what the window shows.
LEMMA KeptIsEnd ==
    ViewsInv /\ vBackend = "none" => Views!Kept = {i \in 1..Len(vLog) : i > Len(vLog) - Len(vWindow)}
  <1> SUFFICES ASSUME ViewsInv, vBackend = "none"
               PROVE  Views!Kept = {i \in 1..Len(vLog) : i > Len(vLog) - Len(vWindow)}
    OBVIOUS
  <1> DEFINE n == Len(vLog)
             w == Len(vWindow)
  <1>1. n \in Nat /\ w \in Nat /\ w <= n /\ \A j \in 1..w : vWindow[j] = n - w + j
    BY DEF ViewsInv, ViewsTyped, WindowFits
  <1> HIDE DEF n, w
  <1>2. ASSUME NEW x \in {vWindow[j] : j \in 1..w} PROVE x \in 1..n /\ x > n - w
    BY <1>1
  <1>3. ASSUME NEW x \in 1..n, x > n - w PROVE \E j \in 1..w : vWindow[j] = x
    <2>1. x - (n - w) \in 1..w /\ n - w + (x - (n - w)) = x
      BY <1>1, <1>3
    <2> QED BY <1>1, <2>1
  <1> QED BY <1>2, <1>3 DEF Views!Kept, n, w

\* What this process emits.
Emitted(op, kind) ==
  LET id == Len(vLog) + 1 IN
  /\ vBackend' = vBackend /\ vScrape' = vScrape
  /\ vLog' = Append(vLog, [op |-> op, kind |-> kind])
  /\ vHere' = vHere \cup {id}
  /\ vWindow' \in Seq(Nat) /\ Pushed(vWindow, id, vWindow')
  /\ vStarts' \in Seq(Nat)
  /\ IF kind = "start" THEN Pushed(vStarts, id, vStarts') ELSE vStarts' = vStarts

\* What an emission does to the log, the window and the ring of starts.
LEMMA EmitMoves ==
    ASSUME ViewsInv, NEW op \in TraceKeys, NEW kind \in {"start", "end"}, Views!Emit(op, kind)
    PROVE  /\ Emitted(op, kind)
           /\ [op |-> op, kind |-> kind] \in TraceEvents
           /\ WindowFits' /\ StartsFit'
  <1> DEFINE n == Len(vLog)
             id == n + 1
             e == [op |-> op, kind |-> kind]
  <1>1. /\ vLog \in Seq(TraceEvents) /\ e \in TraceEvents /\ e.kind = kind
        /\ vWindow \in Seq(Nat) /\ vStarts \in Seq(Nat)
        /\ Len(vWindow) \in Nat /\ Len(vStarts) \in Nat
        /\ ViewRetention \in Nat /\ ViewRetention > 0
        /\ Len(vWindow) <= ViewRetention /\ Len(vStarts) <= ViewRetention
    BY DEF ViewsInv, ViewsTyped, TraceEvents, WindowFits, StartsFit, Views!ViewConstants
  <1>2. /\ vLog' \in Seq(TraceEvents) /\ n \in Nat /\ Len(vLog') = n + 1 /\ vLog'[n + 1] = e
        /\ \A i \in 1..n : vLog'[i] = vLog[i]
        /\ \A i \in 1..n + 1 : i \in 1..n \/ i = n + 1
        /\ vLog' = Append(vLog, e)
    BY <1>1, LogAppended DEF Views!Emit
  <1>3. /\ vBackend' = vBackend /\ vScrape' = vScrape /\ vHere' = vHere \cup {id}
        /\ vWindow' = Views!Push(vWindow, id)
        /\ vStarts' = IF kind = "start" THEN Views!Push(vStarts, id) ELSE vStarts
    BY DEF Views!Emit, Views!Observe
  <1>4. /\ vWindow' \in Seq(Nat) /\ Pushed(vWindow, id, vWindow')
        /\ vStarts' \in Seq(Nat)
        /\ IF kind = "start" THEN Pushed(vStarts, id, vStarts') ELSE vStarts' = vStarts
    BY <1>1, <1>2, <1>3, RingPushed DEF ViewsInv
  <1>5. Emitted(op, kind)
    BY <1>2, <1>3, <1>4 DEF Emitted
  <1> DEFINE w == Len(vWindow)
             v == Len(vWindow')
             l == Len(vStarts)
             t == Len(vStarts')
  <1>6. v \in Nat /\ t \in Nat /\ w \in Nat /\ l \in Nat
    BY <1>1, <1>4
  <1> HIDE DEF n, e, w, v, l, t
  <1>7. \/ /\ v = w + 1 /\ v <= ViewRetention /\ vWindow'[v] = id
           /\ \A k \in 1..w : vWindow'[k] = vWindow[k]
        \/ /\ v = ViewRetention /\ w = v /\ vWindow'[v] = id
           /\ \A k \in 1..v - 1 : vWindow'[k] = vWindow[k + 1]
    BY <1>1, <1>4 DEF Pushed, w, v
  <1>8. WindowFits'
    <2>1. \A j \in 1..v : \/ j = v \/ (j \in 1..w /\ v = w + 1)
                          \/ (j \in 1..v - 1 /\ j + 1 \in 1..w /\ w = v)
      BY <1>1, <1>6, <1>7 DEF w
    <2>2. v <= ViewRetention /\ v > 0
      BY <1>1, <1>7 DEF w
    <2>3. \A j \in 1..v : vWindow'[j] \in vHere'
      <3>1. \A j \in 1..w : vWindow[j] \in vHere
        BY DEF ViewsInv, WindowFits, w
      <3> SUFFICES ASSUME NEW j \in 1..v PROVE vWindow'[j] \in vHere'
        OBVIOUS
      <3>2. CASE j = v
        BY <1>3, <1>7, <3>2
      <3>3. CASE j \in 1..w /\ v = w + 1 /\ j # v
        <4>1. vWindow'[j] = vWindow[j]
          BY <1>6, <1>7, <3>3
        <4> QED BY <1>3, <3>1, <3>3, <4>1
      <3>4. CASE j \in 1..v - 1 /\ j + 1 \in 1..w /\ w = v
        <4>1. vWindow'[j] = vWindow[j + 1]
          BY <1>6, <1>7, <3>4
        <4> QED BY <1>3, <3>1, <3>4, <4>1
      <3> QED BY <2>1, <3>2, <3>3, <3>4
    <2>4. ASSUME vBackend = "none"
          PROVE  /\ vHere' = 1..n + 1 /\ v <= n + 1
                 /\ \A j \in 1..v : vWindow'[j] = n + 1 - v + j
      <3>1. vHere = 1..n /\ w <= n /\ \A j \in 1..w : vWindow[j] = n - w + j
        BY <2>4 DEF ViewsInv, WindowFits, w, n
      <3>2. vHere' = 1..n + 1
        BY <1>2, <1>3, <3>1
      <3>3. v <= n + 1
        BY <1>1, <1>2, <1>6, <1>7, <3>1 DEF w
      <3>4. ASSUME NEW j \in 1..v PROVE vWindow'[j] = n + 1 - v + j
        <4>1. CASE j = v
          BY <1>2, <1>6, <1>7, <4>1
        <4>2. CASE j \in 1..w /\ v = w + 1 /\ j # v
          <5>1. vWindow'[j] = vWindow[j]
            BY <1>1, <1>6, <1>7, <4>2 DEF w
          <5>2. vWindow[j] = n - w + j
            BY <3>1, <4>2
          <5>3. n - w + j = n + 1 - v + j
            BY <1>2, <1>6, <4>2
          <5> QED BY <5>1, <5>2, <5>3
        <4>3. CASE j \in 1..v - 1 /\ j + 1 \in 1..w /\ w = v
          <5>1. vWindow'[j] = vWindow[j + 1]
            BY <1>1, <1>6, <1>7, <4>3 DEF w
          <5>2. vWindow[j + 1] = n - w + (j + 1)
            BY <3>1, <4>3
          <5>3. n - w + (j + 1) = n + 1 - v + j
            BY <1>2, <1>6, <4>3
          <5> QED BY <5>1, <5>2, <5>3
        <4> QED BY <2>1, <4>1, <4>2, <4>3
      <3> QED BY <3>2, <3>3, <3>4
    <2> QED BY <1>2, <1>3, <2>2, <2>3, <2>4 DEF WindowFits, v
  <1>9. StartsFit'
    <2> DEFINE Shows == vBackend = "none" =>
                          \A i \in 1..n + 1 : i > n + 1 - v /\ vLog'[i].kind = "start" =>
                            \E k \in 1..t : vStarts'[k] = i
               Rises == \A k \in 1..t : 1 <= vStarts'[k] /\ vStarts'[k] <= n + 1 - t + k
               Distinct == \A k, m \in 1..t : vStarts'[k] = vStarts'[m] => k = m
    <2>0. ASSUME t <= ViewRetention, Rises, Distinct, Shows PROVE StartsFit'
      <3>1. \A k \in 1..Len(vStarts') :
               1 <= vStarts'[k] /\ vStarts'[k] <= Len(vLog') - Len(vStarts') + k
        BY <1>2, <2>0 DEF t
      <3>2. \A k, m \in 1..Len(vStarts') : vStarts'[k] = vStarts'[m] => k = m
        BY <2>0 DEF t
      <3>3. ASSUME vBackend' = "none", NEW i \in 1..Len(vLog'),
                   i > Len(vLog') - Len(vWindow'), vLog'[i].kind = "start"
            PROVE  \E k \in 1..Len(vStarts') : vStarts'[k] = i
        <4>1. i \in 1..n + 1 /\ i > n + 1 - v /\ vBackend = "none"
          BY <1>2, <1>3, <3>3 DEF v
        <4> QED BY <2>0, <3>3, <4>1 DEF t
      <3>4. Len(vStarts') <= ViewRetention
        BY <2>0 DEF t
      <3> HIDE DEF Shows, Rises, Distinct
      <3> QED BY <3>1, <3>2, <3>3, <3>4 DEF StartsFit
    <2> HIDE DEF Shows, Rises, Distinct
    <2>1. /\ \A k \in 1..l : 1 <= vStarts[k] /\ vStarts[k] <= n - l + k /\ vStarts[k] \in Nat
          /\ \A k, m \in 1..l : vStarts[k] = vStarts[m] => k = m
          /\ l \in Nat /\ l <= ViewRetention
      <3>1. /\ \A k \in 1..l : 1 <= vStarts[k] /\ vStarts[k] <= n - l + k
            /\ \A k, m \in 1..l : vStarts[k] = vStarts[m] => k = m
        BY DEF ViewsInv, StartsFit, l, n
      <3>2. l \in Nat /\ l <= ViewRetention /\ \A k \in 1..l : vStarts[k] \in Nat
        BY <1>1 DEF l
      <3> QED BY <3>1, <3>2
    <2>2. ASSUME vBackend = "none", NEW i \in 1..n + 1, i > n + 1 - v, vLog'[i].kind = "start",
                 i # n + 1
          PROVE  /\ i > n + 1 - ViewRetention
                 /\ \E k \in 1..l : vStarts[k] = i
      <3>1. i \in 1..n /\ vLog[i].kind = "start"
        BY <1>2, <2>2
      <3>2. i > n - w /\ i > n + 1 - ViewRetention
        <4>1. (v = w + 1 \/ v = w) /\ v <= ViewRetention /\ ViewRetention \in Nat
          BY <1>1, <1>6, <1>7
        <4>2. n \in Nat /\ v \in Nat /\ w \in Nat
          BY <1>2, <1>6
        <4> QED BY <2>2, <4>1, <4>2
      <3> QED BY <2>2, <3>1, <3>2 DEF ViewsInv, StartsFit, l, n, w
    <2>3. CASE kind = "end"
      <3>1. vStarts' = vStarts
        BY <1>4, <2>3
      <3>2. \A k \in 1..l : vStarts[k] <= n + 1 - l + k
        BY <1>2, <2>1
      <3>3. ASSUME NEW i \in 1..n + 1, vLog'[i].kind = "start" PROVE i # n + 1
        BY <1>1, <1>2, <2>3, <3>3
      <3>4. t = l
        BY <3>1 DEF t, l
      <3>5. Rises /\ Distinct
        BY <2>1, <3>1, <3>2, <3>4 DEF Rises, Distinct
      <3>6. Shows
        BY <2>2, <3>1, <3>3, <3>4 DEF Shows
      <3> QED BY <2>0, <2>1, <3>4, <3>5, <3>6
    <2>4. CASE kind = "start" /\ l < ViewRetention
      <3>1. t = l + 1 /\ vStarts'[l + 1] = n + 1 /\ \A k \in 1..l : vStarts'[k] = vStarts[k]
        BY <1>1, <1>4, <2>4 DEF Pushed, l, t, n
      <3>2. \A k \in 1..l + 1 : k \in 1..l \/ k = l + 1
        BY <2>1
      <3>3. \A k \in 1..l : vStarts[k] <= n + 1 - (l + 1) + k /\ vStarts[k] # n + 1 /\ k \in 1..l + 1
        BY <1>2, <2>1
      <3>4. n + 1 <= n + 1 - (l + 1) + (l + 1) /\ 1 <= n + 1 /\ l + 1 <= ViewRetention /\ l + 1 \in 1..l + 1
        BY <1>1, <1>2, <2>1, <2>4
      <3>5. \A k \in 1..t : 1 <= vStarts'[k] /\ vStarts'[k] <= n + 1 - t + k
        BY <2>1, <3>1, <3>2, <3>3, <3>4
      <3>6. \A k, m \in 1..t : vStarts'[k] = vStarts'[m] => k = m
        BY <2>1, <3>1, <3>2, <3>3
      <3>7. ASSUME vBackend = "none", NEW i \in 1..n + 1, i > n + 1 - v, vLog'[i].kind = "start"
            PROVE  \E k \in 1..t : vStarts'[k] = i
        <4>1. CASE i = n + 1
          BY <3>1, <3>4, <4>1
        <4>2. CASE i # n + 1
          <5>1. PICK k \in 1..l : vStarts[k] = i
            BY <2>2, <3>7, <4>2
          <5> QED BY <3>1, <3>3, <5>1
        <4> QED BY <4>1, <4>2
      <3>8. Rises /\ Distinct /\ Shows
        BY <3>5, <3>6, <3>7 DEF Rises, Distinct, Shows
      <3> QED BY <2>0, <3>1, <3>4, <3>8
    <2>5. CASE kind = "start" /\ l = ViewRetention
      <3>1. t = l /\ vStarts'[l] = n + 1 /\ \A k \in 1..l - 1 : vStarts'[k] = vStarts[k + 1]
        BY <1>1, <1>4, <2>5 DEF Pushed, l, t, n
      <3>2. \A k \in 1..l : k = l \/ (k \in 1..l - 1 /\ k + 1 \in 1..l)
        BY <2>1
      <3>3. /\ \A k \in 1..l : vStarts[k] # n + 1
            /\ \A k \in 1..l - 1 : vStarts[k + 1] <= n + 1 - l + k /\ 1 <= vStarts[k + 1]
        <4>1. \A k \in 1..l - 1 : k + 1 \in 1..l /\ n - l + (k + 1) = n + 1 - l + k
          BY <1>2, <2>1
        <4>2. \A k \in 1..l - 1 : vStarts[k + 1] <= n + 1 - l + k /\ 1 <= vStarts[k + 1]
          BY <2>1, <4>1
        <4>3. \A k \in 1..l : n - l + k <= n
          BY <1>2, <2>1
        <4>4. \A k \in 1..l : vStarts[k] <= n - l + k /\ vStarts[k] \in Nat
          BY <2>1
        <4>5. \A k \in 1..l : vStarts[k] # n + 1
          BY <1>2, <2>1, <4>3, <4>4
        <4> QED BY <4>2, <4>5
      <3>4. n + 1 <= n + 1 - l + l /\ 1 <= n + 1 /\ l \in 1..l
        BY <1>1, <1>2, <2>1, <2>5
      <3>5. \A k \in 1..t : 1 <= vStarts'[k] /\ vStarts'[k] <= n + 1 - t + k
        BY <3>1, <3>2, <3>3, <3>4
      <3>6. \A k, m \in 1..t : vStarts'[k] = vStarts'[m] => k = m
        <4> SUFFICES ASSUME NEW k \in 1..l, NEW m \in 1..l, vStarts'[k] = vStarts'[m] PROVE k = m
          BY <3>1
        <4>1. CASE k = l /\ m = l
          BY <4>1
        <4>2. CASE k \in 1..l - 1 /\ k + 1 \in 1..l /\ m \in 1..l - 1 /\ m + 1 \in 1..l
          <5>1. k + 1 = m + 1
            BY <2>1, <3>1, <4>2
          <5> QED BY <5>1
        <4>3. CASE k = l /\ m \in 1..l - 1 /\ m + 1 \in 1..l
          BY <3>1, <3>3, <4>3
        <4>4. CASE m = l /\ k \in 1..l - 1 /\ k + 1 \in 1..l
          BY <3>1, <3>3, <4>4
        <4> QED BY <3>2, <4>1, <4>2, <4>3, <4>4
      <3>7. ASSUME vBackend = "none", NEW i \in 1..n + 1, i > n + 1 - v, vLog'[i].kind = "start"
            PROVE  \E k \in 1..t : vStarts'[k] = i
        <4>1. CASE i = n + 1
          BY <3>1, <3>4, <4>1
        <4>2. CASE i # n + 1
          <5>1. PICK k \in 1..l : vStarts[k] = i
            BY <2>2, <3>7, <4>2
          <5>2. i > n + 1 - l
            BY <2>2, <2>5, <3>7, <4>2
          <5>3. k # 1
            <6>1. k = 1 => vStarts[k] <= n - l + 1
              BY <2>1
            <6> QED BY <1>2, <2>1, <5>1, <5>2, <6>1
          <5>4. k - 1 \in 1..l - 1 /\ k - 1 \in 1..l /\ (k - 1) + 1 = k
            BY <2>1, <5>3
          <5> QED BY <3>1, <5>1, <5>4
        <4> QED BY <4>1, <4>2
      <3>8. Rises /\ Distinct /\ Shows
        BY <3>5, <3>6, <3>7 DEF Rises, Distinct, Shows
      <3> QED BY <2>0, <2>1, <3>1, <3>8
    <2> QED BY <1>1, <2>1, <2>3, <2>4, <2>5
  <1> QED BY <1>1, <1>5, <1>8, <1>9 DEF e

\* Between a start and an event of the window, and after it, the window has every event.
LEMMA EmitKeepsOpen ==
    ASSUME ViewsInv, NEW op \in TraceKeys, NEW kind \in {"start", "end"}, Views!Emit(op, kind)
    PROVE  OpenFits'
  <1> DEFINE n == Len(vLog)
             id == n + 1
             e == [op |-> op, kind |-> kind]
             l == Len(vStarts)
  <1>1. /\ vLog \in Seq(TraceEvents) /\ vStarts \in Seq(Nat) /\ l \in Nat /\ l <= ViewRetention
        /\ ViewRetention \in Nat /\ ViewRetention > 0 /\ n \in Nat /\ vHere \subseteq 1..n
        /\ vOpen \in [TraceKeys -> Nat]
        /\ \A k, m \in 1..l : vStarts[k] = vStarts[m] => k = m
        /\ \A i \in 1..n : vLog[i].op \in TraceKeys
    <2>1. vLog \in Seq(TraceEvents)
      BY DEF ViewsInv, ViewsTyped
    <2>2. \A i \in 1..n : vLog[i].op \in TraceKeys
      <3>1. \A i \in 1..Len(vLog) : vLog[i] \in TraceEvents
        BY <2>1
      <3> QED BY <3>1 DEF TraceEvents
    <2>3. \A k, m \in 1..l : vStarts[k] = vStarts[m] => k = m
      BY DEF ViewsInv, StartsFit
    <2> QED BY <2>1, <2>2, <2>3 DEF ViewsInv, ViewsTyped, StartsFit, Views!ViewConstants
  <1>2. e \in TraceEvents /\ Emitted(op, kind) /\ e.op = op /\ e.kind = kind
    BY EmitMoves
  <1>3. /\ \A i \in 1..n : vLog'[i] = vLog[i]
        /\ vLog'[id] = e /\ vHere' = vHere \cup {id} /\ id \notin 1..n
        /\ \A i \in 1..n : i < id
    BY <1>1, <1>2, LogAppended DEF Emitted
  <1>4. vOpen' = IF kind = "start" THEN [Views!Forgets(vStarts) EXCEPT ![op] = id]
                 ELSE [vOpen EXCEPT ![op] = 0]
    BY DEF Views!Emit, Views!Observe
  <1>5. IF kind = "start" THEN Pushed(vStarts, id, vStarts') ELSE vStarts' = vStarts
    BY <1>2 DEF Emitted
  <1> HIDE DEF n, e, l
  <1> SUFFICES ASSUME NEW i \in vHere', LastHere(i)', vLog'[i].kind = "start",
                      NEW k \in 1..Len(vStarts'), vStarts'[k] = i
               PROVE  vOpen'[vLog'[i].op] = i
    BY Zenon DEF OpenFits
  <1>6. CASE i = id
    <2>1. kind = "start" /\ vLog'[i].op = op
      BY <1>2, <1>3, <1>6
    <2>2. vOpen' = [Views!Forgets(vStarts) EXCEPT ![op] = id]
      BY <1>4, <2>1
    <2>3. DOMAIN Views!Forgets(vStarts) = TraceKeys
      BY DEF Views!Forgets
    <2> QED BY <1>6, <2>1, <2>2, <2>3
  <1>7. CASE i \in vHere
    <2> DEFINE o == vLog[i].op
    <2>1. i \in 1..n /\ i # id /\ vLog'[i] = vLog[i] /\ o \in TraceKeys /\ vLog[i].kind = "start"
      BY <1>1, <1>3, <1>7
    <2>2. o # op
      <3>1. id \in vHere' /\ ~(id <= i)
        BY <1>1, <1>3, <2>1
      <3>2. vLog'[id].op # vLog'[i].op
        BY <3>1 DEF LastHere
      <3> QED BY <1>2, <1>3, <2>1, <3>2
    <2>3. LastHere(i)
      <3>1. \A j \in vHere : vLog'[j] = vLog[j] /\ j \in vHere'
        BY <1>1, <1>3
      <3> QED BY <1>7, <2>1, <3>1 DEF LastHere
    <2>4. CASE kind = "end"
      <3>1. vStarts' = vStarts /\ vOpen' = [vOpen EXCEPT ![op] = 0]
        BY <1>4, <1>5, <2>4
      <3>2. \E m \in 1..Len(vStarts) : vStarts[m] = i
        BY <3>1
      <3>3. vOpen[o] = i
        BY <1>7, <2>1, <2>3, <3>2 DEF ViewsInv, OpenFits
      <3> QED BY <1>1, <2>1, <2>2, <3>1, <3>3
    <2>5. CASE kind = "start"
      <3>1. Pushed(vStarts, id, vStarts')
        BY <1>5, <2>5
      <3>2. PICK m \in 1..l : vStarts[m] = i /\ (l = ViewRetention => m # 1)
        <4>1. CASE /\ Len(vStarts) < ViewRetention /\ Len(vStarts') = l + 1 /\ vStarts'[l + 1] = id
                   /\ \A a \in 1..l : vStarts'[a] = vStarts[a]
          <5>1. k # l + 1
            BY <2>1, <4>1
          <5>2. k \in 1..l
            BY <1>1, <4>1, <5>1
          <5>3. vStarts[k] = i /\ l # ViewRetention
            BY <1>1, <4>1, <5>2 DEF l
          <5> QED BY <5>2, <5>3
        <4>2. CASE /\ Len(vStarts) = ViewRetention /\ Len(vStarts') = l /\ vStarts'[l] = id
                   /\ \A a \in 1..l - 1 : vStarts'[a] = vStarts[a + 1]
          <5>1. k # l
            BY <2>1, <4>2
          <5>2. k \in 1..l - 1 /\ k + 1 \in 1..l /\ k + 1 # 1
            BY <1>1, <4>2, <5>1
          <5>3. vStarts[k + 1] = i
            BY <4>2, <5>2
          <5> QED BY <5>2, <5>3
        <4> QED BY <3>1, <4>1, <4>2 DEF Pushed, l
      <3>3. vOpen[o] = i
        <4>1. \E a \in 1..Len(vStarts) : vStarts[a] = i
          BY <3>2 DEF l
        <4> QED BY <1>7, <2>1, <2>3, <4>1 DEF ViewsInv, OpenFits
      <3>4. ~(vStarts # <<>> /\ Len(vStarts) = ViewRetention /\ vOpen[o] = Head(vStarts))
        <4> SUFFICES ASSUME vStarts # <<>>, l = ViewRetention, vOpen[o] = Head(vStarts) PROVE FALSE
          BY DEF l
        <4>1. 1 \in 1..l /\ vStarts[1] = i
          BY <1>1, <3>3
        <4> QED BY <1>1, <3>2, <4>1
      <3>5. vOpen' = [Views!Forgets(vStarts) EXCEPT ![op] = id]
        BY <1>4, <2>5
      <3>6. Views!Forgets(vStarts)[o] = vOpen[o] /\ DOMAIN Views!Forgets(vStarts) = TraceKeys
        BY <2>1, <3>4 DEF Views!Forgets
      <3> QED BY <2>1, <2>2, <3>3, <3>5, <3>6
    <2> QED BY <2>4, <2>5
  <1> QED BY <1>3, <1>6, <1>7

\* An event that comes between the two queries of a poll is among the raced ones.
LEMMA EmitKeepsPoll ==
    ASSUME ViewsInv, NEW op \in TraceKeys, NEW kind \in {"start", "end"},
           Views!Emit(op, kind) \/ Views!ForeignEmit(op, kind)
    PROVE  PollFits'
  <1> DEFINE n == Len(vLog)
             e == [op |-> op, kind |-> kind]
  <1>1. /\ vLog \in Seq(TraceEvents) /\ n \in Nat /\ e \in TraceEvents /\ e.op = op
        /\ vPoll.cursor \in Nat /\ vPoll.from \in Nat /\ vPoll.cursor <= n
    BY DEF ViewsInv, ViewsTyped, TraceEvents, PollFits
  <1>2. /\ vLog' = Append(vLog, e)
        /\ vPoll' = IF vPoll.pc = "lookup" /\ vPoll.on = op
                    THEN [vPoll EXCEPT !.raced = @ \cup {n + 1}] ELSE vPoll
    BY DEF Views!Emit, Views!ForeignEmit
  <1>3. /\ Len(vLog') = n + 1 /\ vLog'[n + 1] = e
        /\ \A i \in 1..n : vLog'[i] = vLog[i]
        /\ \A i \in 1..n + 1 : i \in 1..n \/ i = n + 1
    BY <1>1, <1>2, LogAppended
  <1>4. /\ vPoll'.pc = vPoll.pc /\ vPoll'.on = vPoll.on /\ vPoll'.cursor = vPoll.cursor
        /\ vPoll'.from = vPoll.from /\ vPoll'.got = vPoll.got
        /\ vPoll.raced \subseteq vPoll'.raced
        /\ vPoll.pc = "lookup" /\ vPoll.on = op => n + 1 \in vPoll'.raced
    BY <1>2 DEF ViewsInv, ViewsTyped
  <1> HIDE DEF n, e
  <1>5. vPoll'.cursor <= Len(vLog')
    BY <1>1, <1>3, <1>4
  <1>6. Views!NoneSkipped'
    <2>1. \A i \in (vPoll.from + 1)..vPoll.cursor : i \in 1..n
      BY <1>1
    <2>2. Views!NoneSkipped
      BY DEF ViewsInv, PollFits
    <2> QED BY <1>3, <1>4, <2>1, <2>2 DEF Views!NoneSkipped
  <1>7. vPoll.pc = "lookup" =>
          \A i \in 1..n : i > vPoll.cursor /\ vLog[i].op = vPoll.on => i \in vPoll.raced
    BY DEF ViewsInv, PollFits, n
  <1>8. vPoll'.pc = "lookup" =>
          \A i \in 1..Len(vLog') : i > vPoll'.cursor /\ vLog'[i].op = vPoll'.on => i \in vPoll'.raced
    BY <1>1, <1>3, <1>4, <1>7
  <1> QED BY <1>5, <1>6, <1>8 DEF PollFits

\* The lifetime statistics only grow.
LifeGrows == \A c \in Counters : vLife[c] <= vLife'[c]

\* An emission is counted, and an end is measured when its start is still known.
LEMMA EmitKeepsLife ==
    ASSUME ViewsInv, NEW op \in TraceKeys, NEW kind \in {"start", "end"}, Views!Emit(op, kind)
    PROVE  vLife' \in Counts /\ vOpen' \in [TraceKeys -> Nat] /\ LifeGrows /\ LifeFits'
  <1> DEFINE n == Len(vLog)
             id == n + 1
             e == [op |-> op, kind |-> kind]
  <1>1. /\ vLog \in Seq(TraceEvents) /\ n \in Nat /\ vHere \subseteq 1..n
        /\ vOpen \in [TraceKeys -> Nat] /\ vLife \in Counts
    BY DEF ViewsInv, ViewsTyped
  <1>2. /\ e \in TraceEvents /\ Emitted(op, kind) /\ e.op = op /\ e.kind = kind
        /\ WindowFits' /\ StartsFit' /\ OpenFits'
    BY EmitMoves, EmitKeepsOpen
  <1>3. /\ vLog' = Append(vLog, e) /\ Len(vLog') = n + 1 /\ vLog' \in Seq(TraceEvents)
        /\ \A i \in 1..n : vLog'[i] = vLog[i]
        /\ vLog'[id] = e /\ vHere' = vHere \cup {id} /\ id \notin 1..n
        /\ \A i \in 1..n : i < id /\ i \in 1..n + 1
        /\ \A i \in 1..n + 1 : i \in 1..n \/ i = id
        /\ id \in 1..n + 1 /\ id \in Nat
        /\ vBackend' = vBackend
    BY <1>1, <1>2, LogAppended DEF Emitted
  <1>4. /\ vOpen' = IF kind = "start" THEN [Views!Forgets(vStarts) EXCEPT ![op] = id]
                    ELSE [vOpen EXCEPT ![op] = 0]
        /\ vLife' = IF kind = "start" THEN [vLife EXCEPT !.started = @ + 1]
                    ELSE [vLife EXCEPT !.ended = @ + 1,
                                       !.measured = IF vOpen[op] # 0 THEN @ + 1 ELSE @]
    BY DEF Views!Emit, Views!Observe
  <1>5. vOpen' \in [TraceKeys -> Nat]
    <2>1. Views!Forgets(vStarts) \in [TraceKeys -> Nat]
      BY <1>1 DEF Views!Forgets
    <2> QED BY <1>1, <1>3, <1>4, <2>1
  <1>6. /\ vLife' \in Counts
        /\ vLife'.started = IF kind = "start" THEN vLife.started + 1 ELSE vLife.started
        /\ vLife'.ended = IF kind = "end" THEN vLife.ended + 1 ELSE vLife.ended
        /\ vLife'.measured = IF kind = "end" /\ vOpen[op] # 0 THEN vLife.measured + 1
                             ELSE vLife.measured
    <2>1. CASE kind = "start"
      BY <1>1, <1>4, <2>1 DEF Counts
    <2>2. CASE kind = "end"
      <3> DEFINE m == IF vOpen[op] # 0 THEN vLife.measured + 1 ELSE vLife.measured
      <3>1. vLife' = [vLife EXCEPT !.ended = @ + 1, !.measured = m]
        BY <1>4, <2>2
      <3>2. m \in Nat
        BY <1>1 DEF Counts
      <3>3. m = IF kind = "end" /\ vOpen[op] # 0 THEN vLife.measured + 1 ELSE vLife.measured
        BY <2>2
      <3> HIDE DEF m
      <3>4. vLife.started \in Nat /\ vLife.ended + 1 \in Nat
        BY <1>1 DEF Counts
      <3>5. /\ vLife'.started = vLife.started /\ vLife'.ended = vLife.ended + 1
            /\ vLife'.measured = m
        BY <1>1, <3>1 DEF Counts
      <3>6. vLife' = [started |-> vLife.started, ended |-> vLife.ended + 1, measured |-> m]
        BY <1>1, <3>1 DEF Counts
      <3>7. vLife' \in Counts
        BY <3>2, <3>4, <3>6 DEF Counts
      <3> QED BY <2>2, <3>3, <3>5, <3>7
    <2> QED BY <2>1, <2>2
  <1> HIDE DEF n, id, e
  <1>7. LifeGrows
    <2>1. vLife.started \in Nat /\ vLife.ended \in Nat /\ vLife.measured \in Nat
      BY <1>1 DEF Counts
    <2> QED BY <1>6, <2>1 DEF LifeGrows, Counters
  <1>8. IsFiniteSet(vHere) /\ IsFiniteSet(1..n)
    <2>1. IsFiniteSet(1..n)
      BY <1>1, FS_Interval
    <2> QED BY <1>1, <2>1, FS_Subset
  <1>9. ASSUME NEW k \in {"start", "end"}
        PROVE  Cardinality(Kinds(vLog', vHere', k))
                 = IF kind = k THEN Cardinality(Kinds(vLog, vHere, k)) + 1
                   ELSE Cardinality(Kinds(vLog, vHere, k))
    <2>1. CASE kind = k
      <3>1. Kinds(vLog', vHere', k) = Kinds(vLog, vHere, k) \cup {id} /\ id \notin Kinds(vLog, vHere, k)
        BY <1>1, <1>2, <1>3, <2>1 DEF Kinds
      <3>2. IsFiniteSet(Kinds(vLog, vHere, k))
        BY <1>8, CountsAreNumbers
      <3> QED BY <2>1, <3>1, <3>2, FS_AddElement
    <2>2. CASE kind # k
      <3>1. Kinds(vLog', vHere', k) = Kinds(vLog, vHere, k)
        BY <1>1, <1>2, <1>3, <2>2 DEF Kinds
      <3> QED BY <2>2, <3>1
    <2> QED BY <2>1, <2>2
  <1>10. /\ vLife'.started = Cardinality(Kinds(vLog', vHere', "start"))
         /\ vLife'.ended = Cardinality(Kinds(vLog', vHere', "end"))
    BY <1>6, <1>9 DEF ViewsInv, LifeFits
  <1>11. ASSUME vBackend = "none"
         PROVE  \E M \in SUBSET (1..Len(vLog')) :
                  Cardinality(M) = vLife'.measured /\ Paired(vLog', Views!Kept') \subseteq M
    <2> DEFINE w == Len(vWindow)
               v == Len(vWindow')
               K == {i \in 1..n : i > n - w}
               L == {i \in 1..n + 1 : i > n + 1 - v}
    <2>1. Views!Kept = K
      BY <1>11, KeptIsEnd DEF n
    <2>2. w \in Nat /\ v \in Nat /\ (v = w + 1 \/ v = w)
      <3>1. w \in Nat /\ v \in Nat
        BY <1>2 DEF ViewsInv, ViewsTyped, Emitted
      <3>2. Pushed(vWindow, id, vWindow')
        BY <1>2 DEF Emitted, id, n
      <3> QED BY <3>1, <3>2 DEF Pushed
    <2>3. Views!Kept' = L
      <3>1. v <= n + 1 /\ \A j \in 1..v : vWindow'[j] = n + 1 - v + j
        <4>1. vBackend' = "none" /\ WindowFits'
          BY <1>2, <1>3, <1>11
        <4>2. /\ Len(vWindow') <= Len(vLog')
              /\ \A j \in 1..Len(vWindow') : vWindow'[j] = Len(vLog') - Len(vWindow') + j
          BY <4>1 DEF WindowFits
        <4>3. Len(vLog') = n + 1
          BY <1>3
        <4>4. v <= n + 1
          BY <4>2, <4>3
        <4>5. ASSUME NEW j \in 1..v PROVE vWindow'[j] = n + 1 - v + j
          <5>1. vWindow'[j] = Len(vLog') - Len(vWindow') + j
            BY <4>2
          <5>2. Len(vWindow') = v
            OBVIOUS
          <5> HIDE DEF v, w
          <5> QED BY <1>1, <2>2, <4>3, <5>1, <5>2
        <4> QED BY <4>4, <4>5
      <3> HIDE DEF v
      <3>2. ASSUME NEW x \in {vWindow'[j] : j \in 1..v} PROVE x \in 1..n + 1 /\ x > n + 1 - v
        BY <1>1, <2>2, <3>1
      <3>3. ASSUME NEW x \in 1..n + 1, x > n + 1 - v PROVE \E j \in 1..v : vWindow'[j] = x
        <4>1. x - (n + 1 - v) \in 1..v /\ n + 1 - v + (x - (n + 1 - v)) = x
          BY <1>1, <2>2, <3>3
        <4> QED BY <3>1, <4>1
      <3>4. {vWindow'[j] : j \in 1..v} = L
        BY <3>2, <3>3
      <3> QED BY <3>4 DEF Views!Kept, v
    <2> HIDE DEF w, v
    <2>4. PICK M \in SUBSET (1..n) : Cardinality(M) = vLife.measured /\ Paired(vLog, K) \subseteq M
      BY <1>11, <2>1 DEF ViewsInv, LifeFits, n
    <2>5. IsFiniteSet(M) /\ id \notin M
      BY <1>3, <1>8, <2>4, FS_Subset
    <2>6. \A i \in L : i = id \/ i \in K
      BY <1>1, <1>3, <2>2 DEF id
    <2>7. ASSUME NEW x \in Paired(vLog', L), x # id PROVE x \in M
      <3>1. x \in L /\ vLog'[x].kind = "end"
        BY <2>7 DEF Paired
      <3>2. PICK s \in L : Pairs(vLog', L, s, x)
        BY <2>7 DEF Paired
      <3>3. x \in K /\ x \in 1..n
        BY <2>6, <2>7, <3>1
      <3>4. s \in K /\ s \in 1..n
        <4>1. s < x /\ x < id
          BY <1>3, <3>2, <3>3 DEF Pairs
        <4>2. s # id
          BY <1>1, <3>3, <4>1 DEF id
        <4> QED BY <2>6, <4>2
      <3>5. ASSUME NEW i \in K, s < i, i < x PROVE vLog[i].op # vLog[x].op
        <4>1. i \in L /\ i \in 1..n
          <5>1. s > n + 1 - v
            OBVIOUS
          <5> QED BY <1>1, <1>3, <2>2, <3>4, <3>5, <5>1
        <4> QED BY <1>3, <3>2, <3>3, <3>5, <4>1 DEF Pairs
      <3>6. Pairs(vLog, K, s, x)
        BY <1>3, <3>2, <3>3, <3>4, <3>5 DEF Pairs
      <3>7. x \in Paired(vLog, K)
        BY <1>3, <3>1, <3>3, <3>4, <3>6 DEF Paired
      <3> QED BY <2>4, <3>7
    <2>8. CASE kind = "end" /\ vOpen[op] # 0
      <3>1. Cardinality(M \cup {id}) = vLife'.measured
        BY <1>6, <2>4, <2>5, <2>8, FS_AddElement
      <3>2. M \cup {id} \in SUBSET (1..n + 1)
        BY <1>3, <2>4
      <3>3. Paired(vLog', L) \subseteq M \cup {id}
        BY <2>7
      <3> QED BY <1>3, <2>3, <3>1, <3>2, <3>3
    <2>9. CASE kind = "start" \/ vOpen[op] = 0
      <3>1. id \notin Paired(vLog', L)
        <4> SUFFICES ASSUME id \in Paired(vLog', L) PROVE FALSE
          OBVIOUS
        <4>1. vLog'[id].kind = "end"
          BY DEF Paired
        <4>2. kind = "end" /\ vOpen[op] = 0
          BY <1>2, <1>3, <2>9, <4>1
        <4>3. PICK s \in L : Pairs(vLog', L, s, id)
          BY DEF Paired
        <4>4. /\ s \in 1..n /\ s \in K /\ s < id /\ vLog'[s].kind = "start" /\ vLog'[s].op = op
              /\ \A i \in L : s < i /\ i < id => vLog'[i].op # op
          <5>1. s < id
            BY <4>3 DEF Pairs
          <5>2. s # id
            BY <1>1, <5>1 DEF id
          <5> QED BY <1>2, <1>3, <2>6, <4>3, <5>2 DEF Pairs
        <4>5. vLog[s].kind = "start" /\ vLog[s].op = op
          BY <1>3, <4>4
        <4>6. vHere = 1..n
          BY <1>11 DEF ViewsInv, WindowFits, n
        <4>7. LastHere(s)
          <5> SUFFICES ASSUME NEW j \in 1..n, vLog[j].op = op, s < j PROVE FALSE
            BY <1>1, <4>4, <4>5, <4>6 DEF LastHere
          <5>1. j \in L
            <6>1. s > n + 1 - v
              BY <4>3
            <6> QED BY <1>1, <1>3, <2>2, <4>4, <6>1
          <5>2. j < id /\ vLog'[j].op = op
            BY <1>3
          <5> QED BY <4>4, <5>1, <5>2
        <4>8. \E k \in 1..Len(vStarts) : vStarts[k] = s
          BY <1>11, <4>4, <4>5 DEF ViewsInv, StartsFit, n, w
        <4>9. vOpen[op] = s
          BY <4>4, <4>5, <4>6, <4>7, <4>8 DEF ViewsInv, OpenFits
        <4> QED BY <1>1, <4>2, <4>4, <4>9
      <3>2. vLife'.measured = vLife.measured
        BY <1>6, <2>9
      <3>3. Paired(vLog', L) \subseteq M /\ M \in SUBSET (1..n + 1)
        BY <1>3, <2>4, <2>7, <3>1
      <3> QED BY <1>3, <2>3, <2>4, <3>2, <3>3
    <2> QED BY <2>8, <2>9
  <1> QED BY <1>3, <1>5, <1>6, <1>7, <1>10, <1>11 DEF LifeFits

\* An event of this process or of another one, which has no part in the views but the log.
LEMMA EmitStays ==
    ASSUME ViewsInv, NEW op \in TraceKeys, NEW kind \in {"start", "end"},
           Views!Emit(op, kind) \/ Views!ForeignEmit(op, kind)
    PROVE  ViewsInv'
  <1> DEFINE n == Len(vLog)
             e == [op |-> op, kind |-> kind]
  <1>1. /\ vLog \in Seq(TraceEvents) /\ n \in Nat /\ e \in TraceEvents /\ vHere \subseteq 1..n
        /\ vScrape \in [pc : {"idle", "merging"}, seen : Counts, shown : Counts]
        /\ vLife \in Counts
    BY DEF ViewsInv, ViewsTyped, TraceEvents
  <1>2. /\ vLog' = Append(vLog, e) /\ vLog' \in Seq(TraceEvents) /\ Len(vLog') = n + 1
        /\ \A i \in 1..n : vLog'[i] = vLog[i]
        /\ \A i \in 1..n + 1 : i \in 1..n \/ i = n + 1
        /\ \A i \in 1..n : i \in 1..n + 1
        /\ n + 1 \in 1..n + 1
        /\ vBackend' = vBackend /\ vScrape' = vScrape /\ vBoots' \in Nat
    <2>0. vBoots' \in Nat
      BY DEF Views!Emit, Views!ForeignEmit, ViewsInv, ViewsTyped
    <2>1. CASE Views!Emit(op, kind)
      <3>1. vLog' = Append(vLog, e) /\ vBackend' = vBackend /\ vScrape' = vScrape
        BY <2>1 DEF Views!Emit
      <3> HIDE DEF e
      <3> QED BY <1>1, <2>0, <3>1, LogAppended
    <2>2. CASE Views!ForeignEmit(op, kind)
      <3>1. vLog' = Append(vLog, e) /\ vBackend' = vBackend /\ vScrape' = vScrape
        BY <2>2 DEF Views!ForeignEmit
      <3> HIDE DEF e
      <3> QED BY <1>1, <2>0, <3>1, LogAppended
    <2> QED BY <2>1, <2>2
  <1> HIDE DEF e
  <1>3. PollFits'
    BY EmitKeepsPoll
  <1>4. vPoll' \in [pc : {"none", "idle", "lookup"}, kind : {"saved", "exec", "trace"},
                    on : TraceKeys \cup {"nothing"}, cursor : Nat, from : Nat,
                    got : SUBSET Nat, raced : SUBSET Nat]
    <2>1. vPoll' = IF vPoll.pc = "lookup" /\ vPoll.on = op
                   THEN [vPoll EXCEPT !.raced = @ \cup {n + 1}] ELSE vPoll
      BY DEF Views!Emit, Views!ForeignEmit
    <2>2. n + 1 \in Nat
      BY <1>1
    <2> QED BY <2>1, <2>2 DEF ViewsInv, ViewsTyped
  <1>5. ASSUME LifeGrows, vLife' \in Counts PROVE ScrapeFits'
    <2> SUFFICES ASSUME NEW c \in Counters
                 PROVE  /\ vBackend = "none" =>
                             /\ vScrape.shown[c] <= vLife'[c]
                             /\ vScrape.pc = "merging" => vScrape.seen[c] <= vLife'[c]
                        /\ vBackend = "store" =>
                             /\ \/ vScrape.shown[c] <= vLife'[c]
                                \/ vScrape.shown[c] <= Counted(vLog', 1..n + 1, c)
                             /\ vScrape.pc = "merging" =>
                                  /\ \/ vScrape.shown[c] <= vLife'[c]
                                     \/ vScrape.shown[c] <= vScrape.seen[c]
                                  /\ vScrape.seen[c] <= Counted(vLog', 1..n + 1, c)
      BY <1>2 DEF ScrapeFits
    <2>1. /\ Counted(vLog, 1..n, c) \in Nat /\ Counted(vLog', 1..n + 1, c) \in Nat
          /\ Counted(vLog, 1..n, c) <= Counted(vLog', 1..n + 1, c)
      BY <1>1, <1>2, CountsGrow
    <2>2. vLife[c] <= vLife'[c] /\ vLife[c] \in Nat /\ vLife'[c] \in Nat
          /\ vScrape.shown[c] \in Nat /\ vScrape.seen[c] \in Nat
      BY <1>1, <1>5 DEF LifeGrows, Counts, Counters
    <2>3. /\ vBackend = "none" =>
               vScrape.shown[c] <= vLife[c] /\ (vScrape.pc = "merging" => vScrape.seen[c] <= vLife[c])
          /\ vBackend = "store" =>
               /\ vScrape.shown[c] <= vLife[c] \/ vScrape.shown[c] <= Counted(vLog, 1..n, c)
               /\ vScrape.pc = "merging" =>
                    /\ vScrape.shown[c] <= vLife[c] \/ vScrape.shown[c] <= vScrape.seen[c]
                    /\ vScrape.seen[c] <= Counted(vLog, 1..n, c)
      BY DEF ViewsInv, ScrapeFits
    <2> QED BY <2>1, <2>2, <2>3
  <1>6. CASE Views!Emit(op, kind)
    <2>1. /\ Emitted(op, kind) /\ WindowFits' /\ StartsFit' /\ OpenFits'
          /\ vLife' \in Counts /\ vOpen' \in [TraceKeys -> Nat] /\ LifeGrows /\ LifeFits'
      BY <1>6, EmitMoves, EmitKeepsOpen, EmitKeepsLife
    <2>2. vHere' \subseteq 1..Len(vLog')
      <3>1. vHere' = vHere \cup {n + 1}
        BY <2>1 DEF Emitted
      <3> QED BY <1>1, <1>2, <3>1
    <2>3. ViewsTyped'
      BY <1>1, <1>2, <1>4, <2>1, <2>2 DEF ViewsTyped, Emitted, ViewsInv
    <2> QED BY <1>3, <1>5, <2>1, <2>3 DEF ViewsInv, Views!ViewConstants
  <1>7. CASE Views!ForeignEmit(op, kind)
    <2>1. /\ vBackend = "store" /\ vHere' = vHere /\ vWindow' = vWindow /\ vLife' = vLife
          /\ vOpen' = vOpen /\ vStarts' = vStarts
      BY <1>7 DEF Views!ForeignEmit
    <2>2. ViewsTyped'
      <3>1. vHere' \subseteq 1..Len(vLog')
        BY <1>1, <1>2, <2>1
      <3> QED BY <1>2, <1>4, <2>1, <3>1 DEF ViewsTyped, ViewsInv
    <2>3. WindowFits'
      BY <1>2, <2>1 DEF ViewsInv, WindowFits
    <2>4. StartsFit'
      <3>1. \A k \in 1..Len(vStarts) : vStarts[k] <= n + 1 - Len(vStarts) + k
        <4>1. \A k \in 1..Len(vStarts) : vStarts[k] <= n - Len(vStarts) + k
          BY DEF ViewsInv, StartsFit
        <4>2. Len(vStarts) \in Nat /\ \A k \in 1..Len(vStarts) : vStarts[k] \in Nat
          <5>1. vStarts \in Seq(Nat)
            BY DEF ViewsInv, ViewsTyped
          <5> QED BY <5>1
        <4> SUFFICES ASSUME NEW k \in 1..Len(vStarts)
                     PROVE  vStarts[k] <= n + 1 - Len(vStarts) + k
          OBVIOUS
        <4>3. vStarts[k] <= n - Len(vStarts) + k /\ vStarts[k] \in Nat /\ k \in Nat
          BY <4>1, <4>2
        <4> QED BY <1>1, <4>2, <4>3
      <3>2. /\ Len(vStarts) <= ViewRetention
            /\ \A k, m \in 1..Len(vStarts) : vStarts[k] = vStarts[m] => k = m
            /\ \A k \in 1..Len(vStarts) : 1 <= vStarts[k]
        BY DEF ViewsInv, StartsFit
      <3>3. /\ vStarts' = vStarts /\ Len(vLog') = n + 1 /\ vBackend' # "none"
        BY <1>2, <2>1
      <3> QED BY <3>1, <3>2, <3>3 DEF StartsFit
    <2>5. \A i \in vHere : vLog'[i] = vLog[i]
      BY <1>1, <1>2
    <2>6. OpenFits'
      BY <2>1, <2>5 DEF ViewsInv, OpenFits, LastHere
    <2>7. LifeFits'
      <3>1. \A k : Kinds(vLog', vHere, k) = Kinds(vLog, vHere, k)
        BY <2>5 DEF Kinds
      <3> QED BY <1>2, <2>1, <3>1 DEF ViewsInv, LifeFits
    <2>8. LifeGrows /\ vLife' \in Counts
      BY <1>1, <2>1 DEF LifeGrows, Counts, Counters
    <2> QED BY <1>3, <1>5, <2>2, <2>3, <2>4, <2>6, <2>7, <2>8 DEF ViewsInv, Views!ViewConstants
  <1> QED BY <1>6, <1>7

\* The last of a set of events.
LEMMA LastOfAll ==
    ASSUME NEW n \in Nat, NEW ids, ids \subseteq 1..n
    PROVE  /\ Views!LastOf(ids) \in 0..n
           /\ ids = {} => Views!LastOf(ids) = 0
           /\ ids # {} => Views!LastOf(ids) \in ids /\ \A j \in ids : j <= Views!LastOf(ids)
  <1>1. CASE ids = {}
    BY <1>1 DEF Views!LastOf
  <1>2. CASE ids # {}
    <2>1. ids \subseteq 0..n
      OBVIOUS
    <2>2. \E x \in ids : \A y \in ids : y <= x
      BY <1>2, <2>1, GreatestNatural
    <2>3. Views!LastOf(ids) \in ids /\ \A j \in ids : j <= Views!LastOf(ids)
      BY <1>2, <2>2 DEF Views!LastOf
    <2> QED BY <1>2, <2>1, <2>3
  <1> QED BY <1>1, <1>2

\* The views start empty.
LEMMA ViewsInvHolds ==
    Views!ViewConstants /\ Views!ViewInit => ViewsInv
  <1> SUFFICES ASSUME Views!ViewConstants, Views!ViewInit PROVE ViewsInv
    OBVIOUS
  <1>1. /\ vBackend \in {"none", "store"} /\ vLog = <<>> /\ vHere = {} /\ vWindow = <<>>
        /\ vLife = Views!Zero /\ vOpen = [o \in TraceKeys |-> 0] /\ vStarts = <<>>
        /\ vScrape = [pc |-> "idle", seen |-> Views!Zero, shown |-> Views!Zero]
        /\ vPoll = Views!NoPoll /\ ViewRetention \in Nat /\ vBoots = 0
    BY DEF Views!ViewInit, Views!ViewConstants
  <1>2. Views!Zero \in Counts /\ \A c \in Counters : Views!Zero[c] = 0
    BY DEF Views!Zero, Counts, Counters
  <1>3. vScrape \in [pc : {"idle", "merging"}, seen : Counts, shown : Counts]
    BY <1>1, <1>2
  <1>4. vPoll \in [pc : {"none", "idle", "lookup"}, kind : {"saved", "exec", "trace"},
                   on : TraceKeys \cup {"nothing"}, cursor : Nat, from : Nat,
                   got : SUBSET Nat, raced : SUBSET Nat]
    BY <1>1 DEF Views!NoPoll
  <1>5. Len(vLog) = 0 /\ Len(vWindow) = 0 /\ Len(vStarts) = 0 /\ 1..0 = {}
    BY <1>1
  <1>6. ViewsTyped
    BY <1>1, <1>2, <1>3, <1>4 DEF ViewsTyped
  <1>7. WindowFits /\ StartsFit /\ OpenFits
    BY <1>1, <1>5 DEF WindowFits, StartsFit, OpenFits
  <1>8. PollFits
    BY <1>1, <1>5 DEF PollFits, Views!NoneSkipped, Views!NoPoll
  <1>9. LifeFits
    <2>1. /\ Kinds(vLog, vHere, "start") = {} /\ Kinds(vLog, vHere, "end") = {}
          /\ Paired(vLog, Views!Kept) = {}
      BY <1>1, <1>5 DEF Kinds, Paired, Views!Kept
    <2>2. Cardinality({}) = 0
      BY FS_EmptySet
    <2>3. vLife.started = 0 /\ vLife.ended = 0 /\ vLife.measured = 0
      BY <1>1 DEF Views!Zero
    <2> QED BY <2>1, <2>2, <2>3 DEF LifeFits
  <1>10. ScrapeFits
    BY <1>1, <1>2 DEF ScrapeFits
  <1> QED BY <1>6, <1>7, <1>8, <1>9, <1>10 DEF ViewsInv

\* A restart over the store: the stream starts over, the log stays.
LEMMA RestartStays ==
    ASSUME ViewsInv, Views!Restart PROVE ViewsInv'
  <1>1. /\ vBackend = "store" /\ vBackend' = vBackend /\ vLog' = vLog /\ vHere' = {}
        /\ vWindow' = <<>> /\ vLife' = Views!Zero /\ vOpen' = [o \in TraceKeys |-> 0]
        /\ vStarts' = <<>>
        /\ vScrape' = [vScrape EXCEPT !.pc = "idle", !.shown = Views!Zero]
        /\ vPoll' = IF vPoll.pc = "lookup" THEN [vPoll EXCEPT !.pc = "idle"] ELSE vPoll
    BY DEF Views!Restart
  <1>2. Views!Zero \in Counts /\ \A c \in Counters : Views!Zero[c] = 0
    BY DEF Views!Zero, Counts, Counters
  <1>3. /\ vScrape' \in [pc : {"idle", "merging"}, seen : Counts, shown : Counts]
        /\ vScrape'.pc = "idle" /\ vScrape'.shown = Views!Zero
    BY <1>1, <1>2 DEF ViewsInv, ViewsTyped
  <1>4. /\ vPoll' \in [pc : {"none", "idle", "lookup"}, kind : {"saved", "exec", "trace"},
                       on : TraceKeys \cup {"nothing"}, cursor : Nat, from : Nat,
                       got : SUBSET Nat, raced : SUBSET Nat]
        /\ vPoll'.pc # "lookup" /\ vPoll'.cursor = vPoll.cursor /\ vPoll'.from = vPoll.from
        /\ vPoll'.on = vPoll.on /\ vPoll'.got = vPoll.got /\ vPoll'.raced = vPoll.raced
    BY <1>1 DEF ViewsInv, ViewsTyped
  <1>5. Len(vWindow') = 0 /\ Len(vStarts') = 0 /\ 1..0 = {} /\ ViewRetention \in Nat
    BY <1>1 DEF ViewsInv, Views!ViewConstants
  <1>6. ViewsTyped'
    <2>1. vBackend' \in {"none", "store"} /\ vLog' \in Seq(TraceEvents)
      BY <1>1 DEF ViewsInv, ViewsTyped
    <2>2. vHere' \subseteq 1..Len(vLog') /\ vWindow' \in Seq(Nat) /\ vStarts' \in Seq(Nat)
      BY <1>1
    <2>3. vLife' \in Counts /\ vOpen' \in [TraceKeys -> Nat] /\ vBoots' \in Nat
      <3>1. vBoots' \in Nat
        BY DEF Views!Restart, ViewsInv, ViewsTyped
      <3> QED BY <1>1, <1>2, <3>1
    <2> QED BY <1>3, <1>4, <2>1, <2>2, <2>3 DEF ViewsTyped
  <1>7. WindowFits' /\ StartsFit' /\ OpenFits'
    BY <1>1, <1>5 DEF WindowFits, StartsFit, OpenFits
  <1>8. PollFits'
    BY <1>1, <1>4 DEF PollFits, Views!NoneSkipped, ViewsInv
  <1>9. LifeFits'
    <2>1. Kinds(vLog, {}, "start") = {} /\ Kinds(vLog, {}, "end") = {}
      BY DEF Kinds
    <2>2. Cardinality({}) = 0
      BY FS_EmptySet
    <2>3. vLife'.started = 0 /\ vLife'.ended = 0
      BY <1>1 DEF Views!Zero
    <2> QED BY <1>1, <2>1, <2>2, <2>3 DEF LifeFits
  <1>10. ScrapeFits'
    BY <1>1, <1>2, <1>3 DEF ScrapeFits
  <1> QED BY <1>6, <1>7, <1>8, <1>9, <1>10 DEF ViewsInv, Views!ViewConstants

\* What a scrape reads is counted in the log, and without a store in the lifetime statistics.
LEMMA ScrapeReads ==
    ASSUME ViewsInv
    PROVE  /\ Views!Summarize(Views!RecordedAfter(0)) \in Counts
           /\ \A c \in Counters :
                /\ vBackend = "store" => Views!Summarize(Views!RecordedAfter(0))[c]
                                           = Counted(vLog, 1..Len(vLog), c)
                /\ vBackend = "none" => Views!Summarize(Views!RecordedAfter(0))[c] <= vLife[c]
  <1> DEFINE n == Len(vLog)
             ids == Views!RecordedAfter(0)
             s == Views!Summarize(ids)
  <1>1. n \in Nat /\ vHere \subseteq 1..n /\ vLife \in Counts /\ vBackend \in {"none", "store"}
    BY DEF ViewsInv, ViewsTyped
  <1>2. Views!Kept \subseteq vHere
    BY DEF ViewsInv, WindowFits, Views!Kept
  <1>3. ids \subseteq 1..n
    BY <1>1, <1>2 DEF Views!RecordedAfter, Views!IDs
  <1>4. IsFiniteSet(ids) /\ IsFiniteSet(vHere)
    <2>1. IsFiniteSet(1..n)
      BY <1>1, FS_Interval
    <2> QED BY <1>1, <1>3, <2>1, FS_Subset
  <1>5. /\ vBackend = "store" => ids = 1..n
        /\ vBackend = "none" => ids = Views!Kept
    <2>1. CASE vBackend = "store"
      <3>1. ids = {i \in 1..n : i > 0}
        BY <2>1 DEF Views!RecordedAfter, Views!IDs
      <3>2. \A i \in 1..n : i > 0
        BY <1>1
      <3> HIDE DEF n, ids
      <3> QED BY <2>1, <3>1, <3>2
    <2>2. CASE vBackend = "none"
      <3>1. ids = {i \in Views!Kept : i > 0}
        BY <2>2 DEF Views!RecordedAfter
      <3>2. \A i \in Views!Kept : i > 0
        BY <1>1, <1>2
      <3> HIDE DEF n, ids
      <3> QED BY <2>2, <3>1, <3>2
    <2> QED BY <1>1, <2>1, <2>2
  <1> HIDE DEF n, ids
  <1>6. /\ s.started = Cardinality(Kinds(vLog, ids, "start"))
        /\ s.ended = Cardinality(Kinds(vLog, ids, "end"))
        /\ s.measured = Cardinality(Paired(vLog, ids))
        /\ s = [started |-> s.started, ended |-> s.ended, measured |-> s.measured]
    <2>1. Views!Measured(ids) = Paired(vLog, ids)
      BY DEF Views!Measured, Paired, Pairs
    <2>2. s = [started |-> Cardinality(Kinds(vLog, ids, "start")),
               ended |-> Cardinality(Kinds(vLog, ids, "end")),
               measured |-> Cardinality(Paired(vLog, ids))]
      <3>1. /\ {i \in ids : vLog[i].kind = "start"} = Kinds(vLog, ids, "start")
            /\ {i \in ids : vLog[i].kind = "end"} = Kinds(vLog, ids, "end")
        BY DEF Kinds
      <3>2. s = [started |-> Cardinality({i \in ids : vLog[i].kind = "start"}),
                 ended |-> Cardinality({i \in ids : vLog[i].kind = "end"}),
                 measured |-> Cardinality(Views!Measured(ids))]
        BY Zenon DEF Views!Summarize, Views!Cardinality, Cardinality
      <3> QED BY <2>1, <3>1, <3>2
    <2> HIDE DEF s
    <2> QED BY <2>2
  <1> HIDE DEF s
  <1>7. s.started \in Nat /\ s.ended \in Nat /\ s.measured \in Nat
    BY <1>4, <1>6, CountsAreNumbers, FS_CardinalityType
  <1>8. s \in Counts
    BY <1>6, <1>7 DEF Counts
  <1>9. \A c \in Counters : s[c] = Counted(vLog, ids, c)
    BY <1>6 DEF Counters, Counted
  <1>10. ASSUME vBackend = "none", NEW c \in Counters PROVE s[c] <= vLife[c]
    <2>1. ids \subseteq vHere /\ ids = Views!Kept
      BY <1>2, <1>5, <1>10
    <2>2. ASSUME NEW k PROVE Cardinality(Kinds(vLog, ids, k)) <= Cardinality(Kinds(vLog, vHere, k))
      <3>1. Kinds(vLog, ids, k) \in SUBSET Kinds(vLog, vHere, k)
        BY <2>1 DEF Kinds
      <3> QED BY <1>4, <3>1, CountsAreNumbers, FS_Subset
    <2>3. PICK M \in SUBSET (1..n) : Cardinality(M) = vLife.measured /\ Paired(vLog, ids) \subseteq M
      BY <1>10, <2>1 DEF ViewsInv, LifeFits, n
    <2>4. Cardinality(Paired(vLog, ids)) <= vLife.measured
      <3>1. IsFiniteSet(1..n)
        BY <1>1, FS_Interval
      <3>2. IsFiniteSet(M)
        BY <2>3, <3>1, FS_Subset
      <3> QED BY <2>3, <3>2, FS_Subset
    <2>5. /\ vLife.started = Cardinality(Kinds(vLog, vHere, "start"))
          /\ vLife.ended = Cardinality(Kinds(vLog, vHere, "end"))
      BY DEF ViewsInv, LifeFits
    <2> QED BY <1>6, <2>2, <2>4, <2>5 DEF Counters
  <1> QED BY <1>5, <1>8, <1>9, <1>10 DEF s, ids, n

\* A scrape reads the events, then the statistics; what it shows does not fall.
LEMMA ScrapeStays ==
    ASSUME ViewsInv, Views!ScrapeEvents \/ Views!ScrapeStats
    PROVE  /\ ScrapeFits'
           /\ vScrape' \in [pc : {"idle", "merging"}, seen : Counts, shown : Counts]
           /\ \A c \in Counters : vScrape'.shown[c] >= vScrape.shown[c]
  <1>1. /\ vScrape \in [pc : {"idle", "merging"}, seen : Counts, shown : Counts]
        /\ vLife \in Counts /\ vBackend \in {"none", "store"}
        /\ vLife' = vLife /\ vBackend' = vBackend /\ vLog' = vLog
    BY DEF ViewsInv, ViewsTyped, Views!ScrapeEvents, Views!ScrapeStats
  <1> DEFINE total(c) == Counted(vLog, 1..Len(vLog), c)
             good(s) ==
               \A c \in Counters :
                 /\ vBackend = "none" =>
                      s.shown[c] <= vLife[c] /\ (s.pc = "merging" => s.seen[c] <= vLife[c])
                 /\ vBackend = "store" =>
                      /\ s.shown[c] <= vLife[c] \/ s.shown[c] <= total(c)
                      /\ s.pc = "merging" =>
                           /\ s.shown[c] <= vLife[c] \/ s.shown[c] <= s.seen[c]
                           /\ s.seen[c] <= total(c)
  <1>2. good(vScrape) /\ (good(vScrape') => ScrapeFits')
    BY <1>1 DEF ViewsInv, ScrapeFits
  <1>3. ASSUME NEW c \in Counters
        PROVE  /\ vLife[c] \in Nat /\ vScrape.shown[c] \in Nat /\ vScrape.seen[c] \in Nat
               /\ total(c) \in Nat
    <2>1. IsFiniteSet(1..Len(vLog))
      <3>1. Len(vLog) \in Nat
        BY DEF ViewsInv, ViewsTyped
      <3> QED BY <3>1, FS_Interval
    <2>2. total(c) \in Nat
      BY <2>1, CountsAreNumbers
    <2> QED BY <1>1, <2>2 DEF Counts, Counters
  <1>4. CASE Views!ScrapeEvents
    <2> DEFINE s == Views!Summarize(Views!RecordedAfter(0))
    <2>1. /\ s \in Counts
          /\ \A c \in Counters : /\ vBackend = "store" => s[c] = total(c)
                                 /\ vBackend = "none" => s[c] <= vLife[c]
      BY ScrapeReads
    <2>2. vScrape.pc = "idle" /\ vScrape' = [vScrape EXCEPT !.pc = "merging", !.seen = s]
      BY <1>4 DEF Views!ScrapeEvents
    <2> HIDE DEF s, total
    <2>3. /\ vScrape'.pc = "merging" /\ vScrape'.seen = s /\ vScrape'.shown = vScrape.shown
          /\ vScrape' \in [pc : {"idle", "merging"}, seen : Counts, shown : Counts]
      BY <1>1, <2>1, <2>2
    <2>4. good(vScrape')
      BY <1>2, <1>3, <2>1, <2>3
    <2> QED BY <1>2, <1>3, <2>3, <2>4
  <1>5. CASE Views!ScrapeStats
    <2> DEFINE m == Views!Merge(vScrape.seen, vLife)
    <2>1. vScrape.pc = "merging" /\ vScrape' = [pc |-> "idle", seen |-> Views!Zero, shown |-> m]
      BY <1>5 DEF Views!ScrapeStats
    <2>2. \A c \in Counters : /\ m[c] = IF vScrape.seen[c] > vLife[c] THEN vScrape.seen[c] ELSE vLife[c]
                              /\ m[c] \in Nat
      <3>1. DOMAIN vScrape.seen = Counters
        BY <1>1 DEF Counts, Counters
      <3> QED BY <1>3, <3>1 DEF Views!Merge, Views!Larger
    <2>3. m \in Counts
      <3>1. m = [c \in Counters |-> m[c]]
        BY <1>1 DEF Counts, Counters, Views!Merge
      <3>2. m = [started |-> m["started"], ended |-> m["ended"], measured |-> m["measured"]]
        BY <3>1 DEF Counters
      <3>3. m["started"] \in Nat /\ m["ended"] \in Nat /\ m["measured"] \in Nat
        BY <2>2 DEF Counters
      <3> HIDE DEF m
      <3> QED BY <3>2, <3>3 DEF Counts
    <2>4. Views!Zero \in Counts
      BY DEF Views!Zero, Counts
    <2> HIDE DEF m, total
    <2>5. /\ vScrape'.pc = "idle" /\ vScrape'.shown = m
          /\ vScrape' \in [pc : {"idle", "merging"}, seen : Counts, shown : Counts]
      BY <2>1, <2>3, <2>4
    <2>6. good(vScrape') /\ \A c \in Counters : m[c] >= vScrape.shown[c]
      BY <1>1, <1>2, <1>3, <2>1, <2>2, <2>5
    <2> QED BY <1>2, <2>5, <2>6
  <1> QED BY <1>4, <1>5

\* What a poll finds: every event of the trace after the cursor, up to the last it found.
LEMMA FoundAll ==
    ASSUME ViewsInv, NEW c \in Nat
    PROVE  /\ Views!Found(c) \subseteq 1..Len(vLog)
           /\ vBackend = "store" =>
                \A i \in 1..Len(vLog) : i > c /\ vLog[i].op = vPoll.on => i \in Views!Found(c)
           /\ vBackend = "none" =>
                Views!Found(c) = {i \in Views!Kept : i > c /\ vLog[i].op = vPoll.on}
  <1> DEFINE n == Len(vLog)
             found == Views!Found(c)
             stored == Views!Stored(c)
             kept == {i \in Views!Kept : i > c}
  <1>1. n \in Nat /\ vHere \subseteq 1..n /\ vBackend \in {"none", "store"}
    BY DEF ViewsInv, ViewsTyped
  <1>2. Views!Kept \subseteq 1..n
    BY <1>1 DEF ViewsInv, WindowFits, Views!Kept
  <1>3. found = {i \in IF stored # {} THEN stored ELSE kept : vLog[i].op = vPoll.on}
    BY DEF Views!Found, Views!Matches
  <1>4. CASE vBackend = "store"
    <2>1. stored = {i \in 1..n : i > c /\ (vPoll.kind # "trace" => vLog[i].op = vPoll.on)}
      BY <1>4 DEF Views!Stored, Views!RecordedAfter, Views!IDs
    <2> HIDE DEF n, found, stored
    <2>2. ASSUME NEW i \in 1..n, i > c, vLog[i].op = vPoll.on PROVE i \in found
      BY <1>3, <2>1, <2>2
    <2>3. found \subseteq 1..n
      BY <1>2, <1>3, <2>1
    <2> QED BY <1>4, <2>2, <2>3 DEF n, found
  <1>5. CASE vBackend = "none"
    <2>1. stored = {}
      BY <1>5 DEF Views!Stored
    <2> HIDE DEF n, found, stored
    <2>2. found = {i \in Views!Kept : i > c /\ vLog[i].op = vPoll.on}
      BY <1>3, <2>1
    <2> QED BY <1>2, <1>5, <2>2 DEF n, found
  <1> QED BY <1>1, <1>4, <1>5

\* A poll that may answer has no hole between its cursor and the last event it finds, and one
\* that finds nothing has reached the end of the trace.
LEMMA AnswersAll ==
    ASSUME ViewsInv, NEW c \in Nat, Views!Answers(c), NEW i \in 1..Len(vLog),
           vLog[i].op = vPoll.on, i > c, c = 0 => i > Views!First
    PROVE  /\ i <= Views!LastOf(Views!Found(c)) => i \in Views!Found(c)
           /\ c > 0 => Views!Found(c) # {}
  <1> DEFINE n == Len(vLog)
             w == Len(vWindow)
             found == Views!Found(c)
             last == Views!LastOf(found)
  <1>1. n \in Nat /\ vBackend \in {"none", "store"} /\ w \in Nat
    BY DEF ViewsInv, ViewsTyped
  <1>2. CASE vBackend = "store"
    <2>1. i \in found
      BY <1>2, FoundAll
    <2> QED BY <2>1
  <1>3. CASE vBackend = "none"
    <2>1. found = {j \in Views!Kept : j > c /\ vLog[j].op = vPoll.on} /\ found \subseteq 1..n
      BY <1>3, FoundAll
    <2>2. Views!Kept = {j \in 1..n : j > n - w}
      BY <1>3, KeptIsEnd
    <2>3. w <= n /\ w > 0 /\ vWindow[1] = n - w + 1
      <3>1. n > 0
        BY <1>1
      <3>2. /\ w <= n
            /\ n > 0 => w > 0
            /\ \A j \in 1..w : vWindow[j] = n - w + j
        BY <1>3 DEF ViewsInv, WindowFits
      <3>3. w > 0 /\ 1 \in 1..w
        BY <1>1, <3>1, <3>2
      <3> QED BY <3>2, <3>3
    <2>4. Views!Continuous(c)
      <3>1. Views!Stored(c) = {}
        BY <1>3 DEF Views!Stored
      <3> QED BY <3>1 DEF Views!Answers
    <2>5. CASE c = 0
      <3>1. vWindow # <<>>
        BY <2>3
      <3>2. Views!First = n - w
        BY <1>1, <1>3, <2>3, <3>1 DEF Views!First
      <3>3. i \in found
        <4> HIDE DEF n, w, found
        <4>1. i > n - w /\ i \in 1..n
          BY <2>5, <3>2 DEF n
        <4> QED BY <2>1, <2>2, <4>1
      <3> QED BY <2>5, <3>3
    <2>6. CASE c # 0
      <3>1. \A m \in Views!Kept : \A j \in (c + 1)..m : j \in Views!Kept
        BY <2>4, <2>6 DEF Views!Continuous
      <3>2. n \in Views!Kept
        BY <1>1, <2>2, <2>3
      <3>3. i \in (c + 1)..n
        BY <1>1
      <3>4. i \in Views!Kept
        BY <3>1, <3>2, <3>3
      <3>5. i \in found
        BY <2>1, <3>4
      <3> QED BY <3>5
    <2> QED BY <2>5, <2>6
  <1> QED BY <1>1, <1>2, <1>3

\* A poll answers, or looks the trace up, without skipping an event.
LEMMA PollStays ==
    ASSUME ViewsInv, Views!Follow \/ Views!PollEvents \/ Views!PollLookup
    PROVE  /\ PollFits'
           /\ vPoll' \in [pc : {"none", "idle", "lookup"}, kind : {"saved", "exec", "trace"},
                          on : TraceKeys \cup {"nothing"}, cursor : Nat, from : Nat,
                          got : SUBSET Nat, raced : SUBSET Nat]
  <1> DEFINE n == Len(vLog)
             c == vPoll.cursor
             PollType == [pc : {"none", "idle", "lookup"}, kind : {"saved", "exec", "trace"},
                          on : TraceKeys \cup {"nothing"}, cursor : Nat, from : Nat,
                          got : SUBSET Nat, raced : SUBSET Nat]
  <1>1. /\ n \in Nat /\ vPoll \in PollType /\ c \in Nat /\ c <= n /\ vPoll.from \in Nat
        /\ Views!NoneSkipped /\ vHere \subseteq 1..n /\ vBackend \in {"none", "store"}
    BY DEF ViewsInv, ViewsTyped, PollFits
  <1>2. vLog' = vLog
    BY DEF Views!Follow, Views!PollEvents, Views!PollLookup
  <1>3. ASSUME NEW found, found \subseteq 1..n
        PROVE  /\ Views!Larger(c, Views!LastOf(found)) \in 0..n
               /\ Views!Larger(c, Views!LastOf(found)) >= c
               /\ \A i \in Nat : i > c /\ i <= Views!Larger(c, Views!LastOf(found))
                                 => i \in 1..n /\ i <= Views!LastOf(found)
    <2>1. Views!LastOf(found) \in 0..n
      BY <1>1, <1>3, LastOfAll
    <2> DEFINE last == Views!LastOf(found)
    <2> HIDE DEF last, c, n
    <2>2. CASE c > last
      <3>1. Views!Larger(c, last) = c
        BY <2>2 DEF Views!Larger
      <3> QED BY <1>1, <3>1 DEF last
    <2>3. CASE ~(c > last)
      <3>1. Views!Larger(c, last) = last
        BY <2>3 DEF Views!Larger
      <3> QED BY <1>1, <2>1, <2>3, <3>1 DEF last
    <2> QED BY <2>2, <2>3
  <1>4. CASE Views!Follow
    <2>1. PICK kind \in {"saved", "exec", "trace"}, o \in TraceKeys :
            \E last \in {0} \cup (IF o \in DOMAIN Views!TraceList THEN {Views!TraceList[o].last}
                                  ELSE {}) :
              vPoll' = [Views!NoPoll EXCEPT !.pc = "idle", !.kind = kind, !.on = o,
                                            !.cursor = last, !.from = last]
      BY <1>4 DEF Views!Follow
    <2>2. PICK last \in {0} \cup (IF o \in DOMAIN Views!TraceList THEN {Views!TraceList[o].last}
                                  ELSE {}) :
            vPoll' = [Views!NoPoll EXCEPT !.pc = "idle", !.kind = kind, !.on = o,
                                          !.cursor = last, !.from = last]
      BY <2>1
    <2>3. last \in 0..n
      <3> SUFFICES ASSUME o \in DOMAIN Views!TraceList, last = Views!TraceList[o].last
                   PROVE  last \in 0..n
        BY <1>1, <2>2
      <3> DEFINE ids == {i \in Views!RecordedAfter(0) : vLog[i].op = o}
      <3>1. ids \subseteq 1..n
        BY <1>1 DEF Views!RecordedAfter, Views!IDs, ViewsInv, WindowFits, Views!Kept
      <3>2. o \in {vLog[i].op : i \in Views!RecordedAfter(0)}
            /\ Views!TraceList[o] = Views!TraceRow(ids)
        BY DEF Views!TraceList
      <3>3. ids # {}
        BY <3>2
      <3>4. last = CHOOSE i \in ids : \A j \in ids : j <= i
        BY <3>2 DEF Views!TraceRow
      <3>5. last = Views!LastOf(ids)
        BY <3>3, <3>4 DEF Views!LastOf
      <3> QED BY <1>1, <3>1, <3>5, LastOfAll
    <2>4. vPoll' = [pc |-> "idle", kind |-> kind, on |-> o, cursor |-> last, from |-> last,
                    got |-> {}, raced |-> {}]
      BY <2>2 DEF Views!NoPoll
    <2>5. vPoll' \in PollType
      BY <1>1, <2>3, <2>4
    <2>6. (last + 1)..last = {} /\ last <= n
      BY <1>1, <2>3
    <2>7. PollFits'
      BY <1>2, <2>4, <2>6 DEF PollFits, Views!NoneSkipped
    <2> QED BY <2>5, <2>7
  <1>5. CASE Views!PollEvents
    <2> DEFINE found == Views!Found(c)
               next == Views!Larger(c, Views!LastOf(found))
    <2>1. /\ vPoll.pc = "idle" /\ Views!Answers(c)
          /\ vPoll' = IF found = {} /\ ~Views!Known /\ c > 0
                      THEN [vPoll EXCEPT !.pc = "lookup"]
                      ELSE [vPoll EXCEPT !.cursor = next, !.got = @ \cup found,
                                         !.from = IF c = 0 THEN Views!First ELSE @]
      BY <1>5 DEF Views!PollEvents
    <2>2. found \subseteq 1..n
      BY <1>1, FoundAll
    <2>3. CASE found = {} /\ ~Views!Known /\ c > 0
      <3>1. vPoll' = [vPoll EXCEPT !.pc = "lookup"]
        BY <2>1, <2>3
      <3>2. vPoll' \in PollType /\ vPoll'.cursor = c /\ vPoll'.from = vPoll.from
            /\ vPoll'.on = vPoll.on /\ vPoll'.got = vPoll.got /\ vPoll'.raced = vPoll.raced
        BY <1>1, <3>1
      <3>3. \A i \in 1..n : i > c => vLog[i].op # vPoll.on
        BY <1>1, <2>1, <2>3, AnswersAll
      <3>4. Views!NoneSkipped'
        BY <1>1, <1>2, <3>2 DEF Views!NoneSkipped
      <3> QED BY <1>1, <1>2, <3>2, <3>3, <3>4 DEF PollFits
    <2>4. CASE ~(found = {} /\ ~Views!Known /\ c > 0)
      <3> DEFINE from == IF c = 0 THEN Views!First ELSE vPoll.from
      <3>1. vPoll' = [vPoll EXCEPT !.cursor = next, !.got = @ \cup found, !.from = from]
        BY <2>1, <2>4
      <3>2. from \in Nat /\ (c # 0 => from = vPoll.from) /\ (c = 0 => from = Views!First)
        <4>1. Views!First \in Nat
          <5>1. CASE vBackend = "none" /\ vWindow # <<>>
            <6>1. 1 \in 1..Len(vWindow)
              BY <5>1 DEF ViewsInv, ViewsTyped
            <6>2. vWindow[1] \in 1..n
              BY <1>1, <6>1 DEF ViewsInv, WindowFits
            <6> QED BY <1>1, <5>1, <6>2 DEF Views!First
          <5>2. CASE ~(vBackend = "none" /\ vWindow # <<>>)
            BY <5>2 DEF Views!First
          <5> QED BY <5>1, <5>2
        <4> QED BY <1>1, <4>1
      <3>3. next \in 0..n /\ next >= c
            /\ \A i \in Nat : i > c /\ i <= next => i \in 1..n /\ i <= Views!LastOf(found)
        BY <1>3, <2>2
      <3> HIDE DEF from, next
      <3>4. /\ vPoll'.pc = "idle" /\ vPoll'.on = vPoll.on /\ vPoll'.cursor = next
            /\ vPoll'.from = from /\ vPoll'.got = vPoll.got \cup found
            /\ vPoll'.raced = vPoll.raced
        BY <1>1, <2>1, <3>1
      <3>5. vPoll' \in PollType
        <4>1. vPoll.got \cup found \in SUBSET Nat /\ next \in Nat
          BY <1>1, <2>2, <3>3
        <4> QED BY <1>1, <3>1, <3>2, <4>1
      <3>6. ASSUME NEW i \in (from + 1)..next, vLog[i].op = vPoll.on
            PROVE  i \in vPoll.got \cup found \cup vPoll.raced
        <4>1. i \in Nat /\ i > from /\ i <= next /\ i >= 1
          BY <3>2, <3>3
        <4>2. CASE i <= c
          <5>1. c # 0 /\ i \in (vPoll.from + 1)..c
            BY <1>1, <3>2, <4>1, <4>2
          <5> QED BY <1>1, <3>6, <5>1 DEF Views!NoneSkipped
        <4>3. CASE i > c
          <5>1. i \in 1..n /\ i <= Views!LastOf(found)
            BY <3>3, <4>1, <4>3
          <5>2. c = 0 => i > Views!First
            BY <3>2, <4>1
          <5> QED BY <1>1, <2>1, <3>6, <4>3, <5>1, <5>2, AnswersAll
        <4> QED BY <1>1, <4>1, <4>2, <4>3
      <3>7. Views!NoneSkipped'
        BY <1>2, <3>4, <3>6 DEF Views!NoneSkipped
      <3>8. next <= n
        BY <1>1, <3>3
      <3> QED BY <1>2, <3>4, <3>5, <3>7, <3>8 DEF PollFits
    <2> QED BY <2>3, <2>4
  <1>6. CASE Views!PollLookup
    <2> DEFINE found == Views!Found(0)
               next == Views!Larger(c, Views!LastOf(found))
    <2>1. vPoll.pc = "lookup" /\ vPoll' = [vPoll EXCEPT !.pc = "idle", !.cursor = next]
      BY <1>6 DEF Views!PollLookup
    <2>2. found \subseteq 1..n
      BY FoundAll
    <2>3. next \in 0..n /\ next >= c
          /\ \A i \in Nat : i > c /\ i <= next => i \in 1..n /\ i <= Views!LastOf(found)
      BY <1>3, <2>2
    <2>4. \A i \in 1..n : i > c /\ vLog[i].op = vPoll.on => i \in vPoll.raced
      BY <2>1 DEF ViewsInv, PollFits
    <2> HIDE DEF next
    <2>5. /\ vPoll'.pc = "idle" /\ vPoll'.on = vPoll.on /\ vPoll'.cursor = next
          /\ vPoll'.from = vPoll.from /\ vPoll'.got = vPoll.got /\ vPoll'.raced = vPoll.raced
          /\ vPoll' \in PollType
      <3>1. next \in Nat
        BY <1>1, <2>3
      <3> QED BY <1>1, <2>1, <3>1
    <2>6. ASSUME NEW i \in (vPoll.from + 1)..next, vLog[i].op = vPoll.on
          PROVE  i \in vPoll.got \cup vPoll.raced
      <3>1. i \in Nat /\ i > vPoll.from /\ i <= next
        BY <1>1, <2>3
      <3>2. CASE i <= c
        <4>1. i \in (vPoll.from + 1)..c
          BY <1>1, <3>1, <3>2
        <4> QED BY <1>1, <2>6, <4>1 DEF Views!NoneSkipped
      <3>3. CASE i > c
        BY <2>3, <2>4, <2>6, <3>1, <3>3
      <3> QED BY <1>1, <3>1, <3>2, <3>3
    <2>7. Views!NoneSkipped'
      BY <1>2, <2>5, <2>6 DEF Views!NoneSkipped
    <2>8. next <= n
      BY <1>1, <2>3
    <2> QED BY <1>2, <2>5, <2>7, <2>8 DEF PollFits
  <1> QED BY <1>4, <1>5, <1>6

\* Every step of the views, taken or not.
LEMMA ViewsInvStays ==
    ViewsInv /\ [Views!ViewStep]_viewsPart => ViewsInv'
  <1> SUFFICES ASSUME ViewsInv, [Views!ViewStep]_viewsPart PROVE ViewsInv'
    OBVIOUS
  <1>1. CASE \E op \in TraceKeys, kind \in {"start", "end"} :
               Views!Emit(op, kind) \/ Views!ForeignEmit(op, kind)
    BY <1>1, EmitStays
  <1>2. CASE Views!Restart
    BY <1>2, RestartStays
  <1>3. CASE Views!ScrapeEvents \/ Views!ScrapeStats
    <2>1. /\ vBackend' = vBackend /\ vLog' = vLog /\ vHere' = vHere /\ vWindow' = vWindow
          /\ vLife' = vLife /\ vOpen' = vOpen /\ vStarts' = vStarts /\ vPoll' = vPoll
          /\ vBoots' = vBoots
      BY <1>3 DEF Views!ScrapeEvents, Views!ScrapeStats
    <2>2. ScrapeFits' /\ vScrape' \in [pc : {"idle", "merging"}, seen : Counts, shown : Counts]
      BY <1>3, ScrapeStays
    <2>3. ViewsTyped'
      BY <2>1, <2>2 DEF ViewsInv, ViewsTyped
    <2>4. WindowFits' /\ StartsFit' /\ OpenFits' /\ LifeFits'
      <3>1. WindowFits'
        BY <2>1 DEF ViewsInv, WindowFits
      <3>2. StartsFit'
        BY <2>1 DEF ViewsInv, StartsFit
      <3>3. OpenFits'
        BY <2>1 DEF ViewsInv, OpenFits, LastHere
      <3>4. LifeFits'
        BY <2>1 DEF ViewsInv, LifeFits, Views!Kept
      <3> QED BY <3>1, <3>2, <3>3, <3>4
    <2>5. PollFits'
      BY <2>1 DEF ViewsInv, PollFits, Views!NoneSkipped
    <2> QED BY <2>2, <2>3, <2>4, <2>5 DEF ViewsInv, Views!ViewConstants
  <1>4. CASE Views!Follow \/ Views!PollEvents \/ Views!PollLookup
    <2>1. /\ vBackend' = vBackend /\ vLog' = vLog /\ vHere' = vHere /\ vWindow' = vWindow
          /\ vLife' = vLife /\ vOpen' = vOpen /\ vStarts' = vStarts /\ vScrape' = vScrape
          /\ vBoots' = vBoots
      BY <1>4 DEF Views!Follow, Views!PollEvents, Views!PollLookup
    <2>2. /\ PollFits'
          /\ vPoll' \in [pc : {"none", "idle", "lookup"}, kind : {"saved", "exec", "trace"},
                         on : TraceKeys \cup {"nothing"}, cursor : Nat, from : Nat,
                         got : SUBSET Nat, raced : SUBSET Nat]
      BY <1>4, PollStays
    <2>3. ViewsTyped'
      BY <2>1, <2>2 DEF ViewsInv, ViewsTyped
    <2>4. WindowFits' /\ StartsFit' /\ OpenFits' /\ LifeFits'
      <3>1. WindowFits'
        BY <2>1 DEF ViewsInv, WindowFits
      <3>2. StartsFit'
        BY <2>1 DEF ViewsInv, StartsFit
      <3>3. OpenFits'
        BY <2>1 DEF ViewsInv, OpenFits, LastHere
      <3>4. LifeFits'
        BY <2>1 DEF ViewsInv, LifeFits, Views!Kept
      <3> QED BY <3>1, <3>2, <3>3, <3>4
    <2>5. ScrapeFits'
      BY <2>1 DEF ViewsInv, ScrapeFits
    <2> QED BY <2>2, <2>3, <2>4, <2>5 DEF ViewsInv, Views!ViewConstants
  <1>5. CASE UNCHANGED viewsPart
    <2>1. /\ vBackend' = vBackend /\ vLog' = vLog /\ vHere' = vHere /\ vWindow' = vWindow
          /\ vLife' = vLife /\ vOpen' = vOpen /\ vStarts' = vStarts /\ vScrape' = vScrape
          /\ vBoots' = vBoots
          /\ vPoll' = vPoll
      BY <1>5 DEF viewsPart
    <2>2. ViewsTyped'
      BY <2>1 DEF ViewsInv, ViewsTyped
    <2>3. WindowFits' /\ StartsFit' /\ OpenFits' /\ LifeFits'
      <3>1. WindowFits'
        BY <2>1 DEF ViewsInv, WindowFits
      <3>2. StartsFit'
        BY <2>1 DEF ViewsInv, StartsFit
      <3>3. OpenFits'
        BY <2>1 DEF ViewsInv, OpenFits, LastHere
      <3>4. LifeFits'
        BY <2>1 DEF ViewsInv, LifeFits, Views!Kept
      <3> QED BY <3>1, <3>2, <3>3, <3>4
    <2>4. ScrapeFits' /\ PollFits'
      BY <2>1 DEF ViewsInv, ScrapeFits, PollFits, Views!NoneSkipped
    <2> QED BY <2>2, <2>3, <2>4 DEF ViewsInv, Views!ViewConstants
  <1> QED BY <1>1, <1>2, <1>3, <1>4, <1>5 DEF Views!ViewStep

\* An operation whose last event is a start the ring holds is open with it.
LEMMA ViewsInvMeans ==
    ViewsInv => Views!NoneSkipped /\ Views!RunningIsMeasured
  <1> SUFFICES ASSUME ViewsInv PROVE Views!NoneSkipped /\ Views!RunningIsMeasured
    OBVIOUS
  <1>1. Views!NoneSkipped
    BY DEF ViewsInv, PollFits
  <1>2. ASSUME NEW o \in TraceKeys
        PROVE  LET mine == {i \in vHere : vLog[i].op = o} IN
               mine # {} /\ vLog[Views!LastOf(mine)].kind = "start"
                 /\ (\E k \in 1..Len(vStarts) : vStarts[k] = Views!LastOf(mine))
                 => vOpen[o] = Views!LastOf(mine)
    <2> DEFINE mine == {i \in vHere : vLog[i].op = o}
               last == Views!LastOf(mine)
    <2> SUFFICES ASSUME mine # {}, vLog[last].kind = "start",
                        \E k \in 1..Len(vStarts) : vStarts[k] = last
                 PROVE  vOpen[o] = last
      OBVIOUS
    <2>1. mine \subseteq 1..Len(vLog) /\ Len(vLog) \in Nat
      <3>1. vHere \subseteq 1..Len(vLog) /\ Len(vLog) \in Nat
        BY DEF ViewsInv, ViewsTyped
      <3> QED BY <3>1
    <2>2. last \in mine /\ \A j \in mine : j <= last
      BY <2>1, LastOfAll
    <2> HIDE DEF last
    <2>3. last \in vHere /\ vLog[last].op = o /\ LastHere(last)
      BY <2>2 DEF LastHere
    <2> QED BY <2>3 DEF ViewsInv, OpenFits
  <1>3. Views!RunningIsMeasured
    BY <1>2, Zenon DEF Views!RunningIsMeasured
  <1> QED BY <1>1, <1>3

\* What is shown within one life of the process does not fall.
LEMMA ShownDoesNotFall ==
    ViewsInv /\ [Views!ViewStep]_viewsPart =>
      (vBoots' = vBoots => \A c \in DOMAIN Views!Zero :
                             vScrape'.shown[c] >= vScrape.shown[c])
  <1> SUFFICES ASSUME ViewsInv, [Views!ViewStep]_viewsPart, vBoots' = vBoots
               PROVE  \A c \in DOMAIN Views!Zero : vScrape'.shown[c] >= vScrape.shown[c]
    OBVIOUS
  <1>1. DOMAIN Views!Zero = Counters
    BY DEF Views!Zero, Counters
  <1>2. \A c \in Counters : vScrape.shown[c] >= vScrape.shown[c]
    <2>1. vScrape.shown \in Counts
      BY DEF ViewsInv, ViewsTyped
    <2> QED BY <2>1 DEF Counts, Counters
  <1>3. CASE Views!ScrapeEvents \/ Views!ScrapeStats
    BY <1>1, <1>3, ScrapeStays
  <1>4. CASE Views!Restart
    <2>1. vBoots' = vBoots + 1 /\ vBoots < ViewBoots
      BY <1>4 DEF Views!Restart
    <2>2. vBoots \in Int
      BY DEF ViewsInv, ViewsTyped
    <2> QED BY <2>1, <2>2
  <1>5. CASE \/ \E op \in TraceKeys, kind \in {"start", "end"} :
                  Views!Emit(op, kind) \/ Views!ForeignEmit(op, kind)
             \/ Views!Follow \/ Views!PollEvents \/ Views!PollLookup
             \/ UNCHANGED viewsPart
    <2>1. vScrape' = vScrape
      BY <1>5 DEF Views!Emit, Views!ForeignEmit, Views!Follow, Views!PollEvents, Views!PollLookup,
                  viewsPart
    <2> QED BY <1>1, <1>2, <2>1
  <1> QED BY <1>3, <1>4, <1>5 DEF Views!ViewStep

ViewsSafety == Views!ViewInit /\ [][Views!ViewStep]_viewsPart

\* However the events of a worker are stored, evicted and lost with a restart, a client that
\* follows a trace skips none of its events, an operation still running is measured, and what a
\* scraper is shown does not fall while the process runs (routes.go, event_stream_metrics.go).
THEOREM EventsAreShown ==
    ASSUME Views!ViewConstants
    PROVE  ViewsSafety => /\ [](Views!NoneSkipped /\ Views!RunningIsMeasured)
                          /\ Views!CountersNeverFall
  <1> DEFINE Shown == vBoots' = vBoots => \A c \in DOMAIN Views!Zero :
                                            vScrape'.shown[c] >= vScrape.shown[c]
  <1>1. ViewsInv /\ [Views!ViewStep]_viewsPart => [Shown]_Views!viewVars
    <2>1. SUFFICES ASSUME ViewsInv, [Views!ViewStep]_viewsPart PROVE Shown
      OBVIOUS
    <2> QED BY <2>1, ShownDoesNotFall
  <1> HIDE DEF Shown
  <1>2. ViewsSafety => [](Views!NoneSkipped /\ Views!RunningIsMeasured)
    BY ViewsInvHolds, ViewsInvStays, ViewsInvMeans, PTL DEF ViewsSafety
  <1>3. ViewsSafety => [][Shown]_Views!viewVars
    BY <1>1, ViewsInvHolds, ViewsInvStays, PTL DEF ViewsSafety
  <1> QED BY <1>2, <1>3, PTL DEF Views!CountersNeverFall, Shown
=============================================================================
