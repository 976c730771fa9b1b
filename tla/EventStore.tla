----------------------------- MODULE EventStore -----------------------------
(***************************************************************************)
(* The event table of the state stores, shared by replicas.  An event has  *)
(* no id, and the store assigns the next one, or the id an event stream    *)
(* gave it.  Postgres assigns ids through a counter row whose lock is held *)
(* until the transaction commits; memory and SQLite assign them atomically.*)
(***************************************************************************)
EXTENDS FiniteSets, Naturals

CONSTANTS Writers, MaxID

VARIABLES backend,    \* "memory", "sqlite" or "postgres"
          counter,    \* nextEventID, the AUTOINCREMENT sequence, last_id
          table,      \* the committed ids
          assigned,   \* those the store assigned
          tx,         \* the transaction of a writer: its id, 0 for none
          before,     \* the counter its transaction found
          cursor,     \* afterID of a reader that polls EventsSince
          delivered   \* what that reader was given

eventStoreVars == <<backend, counter, table, assigned, tx, before, cursor, delivered>>

EventStoreConstants == MaxID \in Nat \ {0}

EventStoreInit ==
  /\ backend \in {"memory", "sqlite", "postgres"}
  /\ counter = 0 /\ table = {} /\ assigned = {}
  /\ tx = [w \in Writers |-> 0] /\ before = [w \in Writers |-> 0]
  /\ cursor = 0 /\ delivered = {}

Greater(a, b) == IF a > b THEN a ELSE b

\* The memory store and SQLite assign and insert in one step.
AddEvent(w) ==
  /\ backend # "postgres" /\ counter < MaxID
  /\ counter' = counter + 1
  /\ table' = table \cup {counter + 1} /\ assigned' = assigned \cup {counter + 1}
  /\ UNCHANGED <<backend, tx, before, cursor, delivered>>

\* An explicit id is inserted unless it exists; the counter only moves up.
AddExplicit(w, id) ==
  /\ backend # "postgres" /\ id \notin table
  /\ counter' = Greater(counter, id)
  /\ table' = table \cup {id}
  /\ UNCHANGED <<backend, assigned, tx, before, cursor, delivered>>

\* A mutant: the counter is a sequence, whose increments lock nothing.
CounterFreeAlways == TRUE

\* The row lock of ouvrier_event_counter is held until its transaction ends.
CounterFree == \A w \in Writers : tx[w] = 0

\* UPDATE ouvrier_event_counter .. RETURNING last_id, for either path.
BeginEvent(w, id) ==
  /\ backend = "postgres" /\ CounterFree /\ tx[w] = 0
  /\ counter' = IF id = 0 THEN counter + 1 ELSE Greater(counter, id)
  /\ counter' <= MaxID
  /\ before' = [before EXCEPT ![w] = counter]
  /\ tx' = [tx EXCEPT ![w] = IF id = 0 THEN counter + 1 ELSE id]
  /\ assigned' = IF id = 0 THEN assigned \cup {counter + 1} ELSE assigned
  /\ UNCHANGED <<backend, table, cursor, delivered>>

\* INSERT and COMMIT.
CommitEvent(w) ==
  /\ tx[w] # 0 /\ tx[w] \notin table
  /\ table' = table \cup {tx[w]}
  /\ tx' = [tx EXCEPT ![w] = 0]
  /\ UNCHANGED <<backend, counter, assigned, before, cursor, delivered>>

\* A duplicate id, a lost connection or a cancelled call roll the counter back.
RollbackEvent(w) ==
  /\ tx[w] # 0
  /\ tx' = [tx EXCEPT ![w] = 0]
  /\ counter' = before[w]
  /\ assigned' = IF tx[w] = before[w] + 1 /\ tx[w] \notin table THEN assigned \ {tx[w]} ELSE assigned
  /\ UNCHANGED <<backend, table, before, cursor, delivered>>

\* EventsSince: what was committed above the cursor, in id order.
EventsSince ==
  /\ \E id \in table : id > cursor
  /\ delivered' = delivered \cup {id \in table : id > cursor}
  /\ cursor' = CHOOSE id \in table : \A other \in table : other <= id
  /\ UNCHANGED <<backend, counter, table, assigned, tx, before>>

EventStoreNext ==
  \/ \E w \in Writers :
       \/ AddEvent(w) \/ CommitEvent(w) \/ RollbackEvent(w) \/ BeginEvent(w, 0)
       \/ \E id \in 1..MaxID : AddExplicit(w, id) \/ BeginEvent(w, id)
  \/ EventsSince

EventStoreSpec == EventStoreInit /\ [][EventStoreNext]_eventStoreVars

TypeOK ==
  /\ counter \in 0..MaxID /\ table \subseteq 1..MaxID /\ tx \in [Writers -> 0..MaxID]
  /\ cursor \in table \cup {0} /\ delivered \subseteq table

\* The store never assigns an id that an event stream has stored: an id it
\* assigns is above every id of the table, on every backend and replica.
CounterAbove == \A id \in table : id <= counter

\* A reader that goes on after the last id it was given misses no event whose
\* id the store assigned: ids become visible in their order, because the lock
\* of the counter is held until the commit.
NoneMissed == \A id \in table \cap assigned : id <= cursor => id \in delivered

=============================================================================
