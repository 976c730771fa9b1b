------------------------- MODULE IdempotencyStore -------------------------
(***************************************************************************)
(* The idempotency keys of internal/state.  The memory store answers a     *)
(* call under its mutex; the two SQL stores send one conditional statement *)
(* and, when it changes no row, read the row back in a second one, which   *)
(* other replicas may have changed meanwhile.                              *)
(***************************************************************************)
EXTENDS FiniteSets, Naturals

CONSTANTS Callers,  \* replicas and legs that call the store
          Execs,    \* execution identifiers
          ExecOf,   \* the execution a caller works for
          Keys

VARIABLES backend,  \* "memory", "sqlite" or "postgres"
          row,      \* the table ouvrier_idempotency_keys
          call,     \* the call a caller has sent and not been answered
          claim,    \* the key a caller was granted and has not resolved
          live,     \* whether no call of its execution resolved that grant
          seen      \* the rows the call of a caller met since it was sent

keyVars == <<backend, row, call, claim, live, seen>>

Outcomes == {"succeeded", "failed"}
NoRow == [owner |-> "nobody", outcome |-> "none"]
Idle == [op |-> "none"]
NoKey == "none"

KeyConstants == ExecOf \in [Callers -> Execs] /\ "nobody" \notin Execs /\ NoKey \notin Keys

KeyInit ==
  /\ backend \in {"memory", "sqlite", "postgres"}
  /\ row = [k \in Keys |-> NoRow]
  /\ call = [c \in Callers |-> Idle]
  /\ claim = [c \in Callers |-> NoKey]
  /\ live = [c \in Callers |-> FALSE]
  /\ seen = [c \in Callers |-> {}]

\* A mutant: a pending reservation is taken over as a failed one is.
ReservableUnlessDone(r) == r.outcome # "succeeded"

\* The key is free: never reserved, or its last run failed.
Reservable(r) == r.outcome \in {"none", "failed"}

\* The row a reservation leaves.
Pending(x) == [owner |-> x, outcome |-> "pending"]

\* A mutant: the owner is not compared.
ResolvableByAnyone(r, x) == r.outcome = "pending"

\* The reservation of x that is still to be settled.
Resolvable(r, x) == r = Pending(x)

\* What the memory store answers: whether the caller is granted the key.
Granted(r) == Reservable(r)

\* What it answers to a resolution: repeated ones with one outcome agree.
Settles(r, x, outcome) == r.owner = x /\ r.outcome \in {"pending", outcome}

\* Rows change under the calls that wait for their second statement.
Meet(rows, calls) ==
  seen' = [c \in Callers |->
            IF calls[c] = Idle THEN {} ELSE seen[c] \cup {row[calls[c].key], rows[calls[c].key]}]

Answer(c) == call' = [call EXCEPT ![c] = Idle]
Ask(c, rec) == call' = [call EXCEPT ![c] = rec]

\* ReserveIdempotency under the mutex.
MemoryReserve(c, k) ==
  /\ backend = "memory" /\ call[c] = Idle /\ claim[c] = NoKey
  /\ IF Reservable(row[k])
       THEN /\ row' = [row EXCEPT ![k] = Pending(ExecOf[c])]
            /\ claim' = [claim EXCEPT ![c] = k]
            /\ live' = [live EXCEPT ![c] = TRUE]
       ELSE UNCHANGED <<row, claim, live>>
  /\ UNCHANGED <<backend, call, seen>>

\* INSERT .. ON CONFLICT DO UPDATE .. WHERE outcome = failed.
Reserve(c, k) ==
  /\ backend # "memory" /\ call[c] = Idle /\ claim[c] = NoKey
  /\ IF Reservable(row[k])
       THEN /\ row' = [row EXCEPT ![k] = Pending(ExecOf[c])]
            /\ claim' = [claim EXCEPT ![c] = k]
            /\ live' = [live EXCEPT ![c] = TRUE]
            /\ call' = call
       ELSE /\ Ask(c, [op |-> "reserve", key |-> k, outcome |-> "none"])
            /\ UNCHANGED <<row, claim, live>>
  /\ Meet(row', call')
  /\ UNCHANGED backend

\* SELECT exec_id: whom the caller is told the key belongs to.
ReadOwner(c) ==
  /\ call[c].op = "reserve"
  /\ row[call[c].key] # NoRow
  /\ Answer(c) /\ Meet(row, call')
  /\ UNCHANGED <<backend, row, claim, live>>

\* The grants of the execution whose reservations were resolved are over.
Over(x, keys) ==
  live' = [c \in Callers |-> live[c] /\ ~(ExecOf[c] = x /\ claim[c] \in keys)]

\* ResolveIdempotency under the mutex.
MemoryResolve(c, outcome) ==
  /\ backend = "memory" /\ claim[c] # NoKey
  /\ row' = IF Resolvable(row[claim[c]], ExecOf[c])
              THEN [row EXCEPT ![claim[c]].outcome = outcome] ELSE row
  /\ Over(ExecOf[c], {claim[c]})
  /\ claim' = [claim EXCEPT ![c] = NoKey]
  /\ UNCHANGED <<backend, call, seen>>

\* UPDATE .. WHERE key, exec_id and outcome = pending.
Resolve(c, outcome) ==
  /\ backend # "memory" /\ call[c] = Idle /\ claim[c] # NoKey
  /\ LET k == claim[c] IN
       IF Resolvable(row[k], ExecOf[c])
         THEN row' = [row EXCEPT ![k].outcome = outcome] /\ call' = call
         ELSE /\ Ask(c, [op |-> "resolve", key |-> k, outcome |-> outcome])
              /\ row' = row
  /\ Over(ExecOf[c], {claim[c]})
  /\ claim' = [claim EXCEPT ![c] = NoKey]
  /\ Meet(row', call')
  /\ UNCHANGED backend

\* The row is read back to tell a repeated resolution from a lost one.
ReadOutcome(c) ==
  /\ call[c].op = "resolve"
  /\ Answer(c) /\ Meet(row, call')
  /\ UNCHANGED <<backend, row, claim, live>>

\* Whether ReadOutcome answers without an error.
ReadSettles(r, x, outcome) == r.owner = x /\ r.outcome = outcome

\* ResolveIdempotencyByExecution: every pending key of the execution at once.
ResolveByExecution(c, outcome) ==
  /\ call[c] = Idle
  /\ row' = [k \in Keys |->
              IF Resolvable(row[k], ExecOf[c]) THEN [row[k] EXCEPT !.outcome = outcome] ELSE row[k]]
  /\ Over(ExecOf[c], Keys)
  /\ Meet(row', call)
  /\ UNCHANGED <<backend, call, claim>>

KeyNext ==
  \E c \in Callers :
    \/ \E k \in Keys : MemoryReserve(c, k) \/ Reserve(c, k)
    \/ \E o \in Outcomes : MemoryResolve(c, o) \/ Resolve(c, o) \/ ResolveByExecution(c, o)
    \/ ReadOwner(c) \/ ReadOutcome(c)

KeySpec == KeyInit /\ [][KeyNext]_keyVars

Rows == {NoRow} \cup [owner : Execs, outcome : Outcomes \cup {"pending"}]

TypeOK ==
  /\ row \in [Keys -> Rows]
  /\ claim \in [Callers -> Keys \cup {NoKey}]
  /\ live \in [Callers -> BOOLEAN]
  /\ \A c \in Callers : call[c].op \in {"none", "reserve", "resolve"} /\ seen[c] \subseteq Rows

\* A key is granted to one caller at a time, on every backend: while no call
\* of its own execution resolved the grant, its row is pending for it, and no
\* other caller holds the key (the conditions of ReserveIdempotency and
\* ResolveIdempotency).
GrantedToOne ==
  \A c \in Callers : live[c] =>
    /\ row[claim[c]] = Pending(ExecOf[c])
    /\ \A d \in Callers \ {c} : live[d] => claim[d] # claim[c]

\* What the second statement of an SQL store answers is what the memory store
\* would have answered at some moment of the call, although the row was read
\* after the conditional statement had failed.  The exception is a resolution
\* that meets a reservation its own execution made in between: the caller is
\* told "already resolved" of a key that is pending again.
AnswersLinear ==
  \A c \in Callers : call[c] # Idle =>
    LET k == call[c].key
        exec == ExecOf[c]
        ok == ReadSettles(row[k], exec, call[c].outcome) IN
      /\ call[c].op = "reserve" => row[k] # NoRow /\ \E r \in seen[c] : ~Granted(r)
      /\ call[c].op = "resolve" =>
           \/ \E r \in seen[c] \cup {row[k]} : Settles(r, exec, call[c].outcome) = ok
           \/ row[k] = Pending(exec)

\* A key that succeeded is never reserved, nor failed, again.
SuccessIsFinal ==
  [][\A k \in Keys : row[k].outcome = "succeeded" => row'[k] = row[k]]_keyVars

=============================================================================
