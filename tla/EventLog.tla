------------------------------ MODULE EventLog ------------------------------
(***************************************************************************)
(* The event stream of one process: emitters that append through one gate  *)
(* and notify subscribers, the bounded window of recent events, the state  *)
(* store that allocates IDs for several replicas or keeps the IDs of the   *)
(* stream, and the reader of an SSE reply that follows one run through     *)
(* both (internal/events, runtime_http.go, runtime_http_sse.go).           *)
(*                                                                         *)
(* An event is its ID and whether the streamed run emitted it.             *)
(***************************************************************************)
EXTENDS Integers, Sequences, FiniteSets

CONSTANTS Emitters,   \* goroutines that emit events
          Own,        \* those of the run the SSE reply follows
          Retention,  \* DefaultRetentionLimit
          MaxEvents   \* bound: highest event ID

EventConstants ==
  /\ Own \subseteq Emitters /\ "nobody" \notin Emitters
  /\ Retention \in Nat \ {0} /\ MaxEvents \in Nat

VARIABLES storage,  \* "memory": no store; "global": the store allocates; "custom": it keeps IDs
          nextID,   \* EventStream.nextID
          window,   \* the retained events, oldest first
          gate,     \* who holds appendMu
          emit,     \* [pc, id] of each emitter
          stored,   \* events of the state store
          lastID,   \* ID counter of the state store
          notified, \* history: IDs a subscriber was called with
          kept,     \* history: own events whose emitter was told they were appended
          sse,      \* [pc, cursor, final] of the SSE reply
          received  \* history: IDs written to the SSE client

eventVars == <<storage, nextID, window, gate, emit, stored, lastID, notified, kept, sse,
               received>>

IDs == 1..MaxEvents
Event(id, own) == [id |-> id, own |-> own]
Larger(a, b) == IF a > b THEN a ELSE b
Increasing(s) == \A i, j \in 1..Len(s) : i < j => s[i] < s[j]
EmitPCs == {"idle", "persisting", "inserting", "notifying", "saving"}

EventTypeOK ==
  /\ storage \in {"memory", "global", "custom"}
  /\ nextID \in 0..MaxEvents /\ lastID \in 0..MaxEvents
  /\ window \in Seq([id : IDs, own : BOOLEAN]) /\ Len(window) <= Retention
  /\ gate \in Emitters \cup {"nobody"}
  /\ emit \in [Emitters -> [pc : EmitPCs, id : 0..MaxEvents]]
  /\ stored \subseteq [id : IDs, own : BOOLEAN]
  /\ notified \in Seq(IDs) /\ kept \subseteq IDs
  /\ sse \in [pc : {"none", "polling", "fallback", "done", "failed", "left"},
              cursor : 0..MaxEvents, final : BOOLEAN]
  /\ received \in Seq(IDs)

EventInit ==
  /\ storage \in {"memory", "global", "custom"}
  /\ nextID = 0 /\ window = <<>> /\ gate = "nobody"
  /\ emit = [e \in Emitters |-> [pc |-> "idle", id |-> 0]]
  /\ stored = {} /\ lastID = 0 /\ notified = <<>> /\ kept = {}
  /\ sse = [pc |-> "none", cursor |-> 0, final |-> FALSE] /\ received = <<>>

(***************************************************************************)
(* appendRuntimeEvent and EventStream.append.                              *)
(***************************************************************************)
ReaderUnchanged == UNCHANGED <<storage, sse, received>>
Moves(e, pc, id) == emit' = [emit EXCEPT ![e] = [pc |-> pc, id |-> id]]

\* Mutant: the ID is allocated by the store before the gate is taken.
EnterUngated(e) ==
  /\ emit[e].pc = "idle"
  /\ nextID < MaxEvents /\ lastID < MaxEvents
  /\ e \in Own => sse.pc # "none" /\ ~sse.final
  /\ Moves(e, IF storage = "global" THEN "persisting" ELSE "inserting", 0)
  /\ ReaderUnchanged /\ UNCHANGED <<nextID, window, gate, stored, lastID, notified, kept>>

\* The gate serializes the allocation of the ID, the insertion and the notification.
\* The streamed run starts after the reply recorded its cursor, and has not ended.
Enter(e) ==
  /\ emit[e].pc = "idle" /\ gate = "nobody"
  /\ nextID < MaxEvents /\ lastID < MaxEvents
  /\ e \in Own => sse.pc # "none" /\ ~sse.final
  /\ gate' = e
  /\ Moves(e, IF storage = "global" THEN "persisting" ELSE "inserting", 0)
  /\ ReaderUnchanged /\ UNCHANGED <<nextID, window, stored, lastID, notified, kept>>

\* AppendPersisted: the store allocates the ID inside the gate.
Persist(e) ==
  /\ emit[e].pc = "persisting" /\ lastID < MaxEvents
  /\ lastID' = lastID + 1
  /\ stored' = stored \cup {Event(lastID + 1, e \in Own)}
  /\ Moves(e, "inserting", lastID + 1)
  /\ ReaderUnchanged /\ UNCHANGED <<nextID, window, gate, notified, kept>>

\* The insert fails, or its answer is lost after it was committed.
PersistFails(e) ==
  /\ emit[e].pc = "persisting"
  /\ \/ UNCHANGED <<stored, lastID>>
     \/ /\ lastID < MaxEvents
        /\ lastID' = lastID + 1 /\ stored' = stored \cup {Event(lastID + 1, e \in Own)}
  /\ gate' = "nobody" /\ Moves(e, "idle", 0)
  /\ ReaderUnchanged /\ UNCHANGED <<nextID, window, notified, kept>>

\* eventBuffer.append overwrites the oldest event of a full buffer.
Retain(event) ==
  IF Len(window) < Retention THEN Append(window, event) ELSE Append(Tail(window), event)

\* An ID the local stream has passed would be refused.
Insert(e) ==
  LET id == IF storage = "global" THEN emit[e].id ELSE nextID + 1 IN
  /\ emit[e].pc = "inserting" /\ id > nextID
  /\ nextID' = id /\ window' = Retain(Event(id, e \in Own))
  /\ Moves(e, "notifying", id)
  /\ ReaderUnchanged /\ UNCHANGED <<gate, stored, lastID, notified, kept>>

Keeps(e) == kept' = IF e \in Own THEN kept \cup {emit[e].id} ELSE kept

\* Subscribers are called outside the state lock and inside the gate; a custom store is
\* written after the gate is open again.
Notify(e) ==
  /\ emit[e].pc = "notifying"
  /\ notified' = Append(notified, emit[e].id)
  /\ gate' = "nobody"
  /\ IF storage = "custom"
     THEN Moves(e, "saving", emit[e].id) /\ kept' = kept
     ELSE Moves(e, "idle", 0) /\ Keeps(e)
  /\ ReaderUnchanged /\ UNCHANGED <<nextID, window, stored, lastID>>

\* stateStore.AddEvent with the explicit ID, or its failure.
Save(e) ==
  /\ emit[e].pc = "saving" /\ Moves(e, "idle", 0)
  /\ \/ /\ stored' = stored \cup {Event(emit[e].id, e \in Own)}
        /\ lastID' = Larger(lastID, emit[e].id) /\ Keeps(e)
     \/ UNCHANGED <<stored, lastID, kept>>
  /\ ReaderUnchanged /\ UNCHANGED <<nextID, window, gate, notified>>

\* Another replica writes an event of its own.
ForeignEvent ==
  /\ storage = "global" /\ lastID < MaxEvents
  /\ lastID' = lastID + 1 /\ stored' = stored \cup {Event(lastID + 1, FALSE)}
  /\ ReaderUnchanged /\ UNCHANGED <<nextID, window, gate, emit, notified, kept>>

\* A resume raises the counter to the highest ID it read from the store.
EnsureNextIDAtLeast ==
  /\ storage # "memory" /\ gate = "nobody"
  /\ \E event \in stored : nextID' = Larger(nextID, event.id)
  /\ ReaderUnchanged /\ UNCHANGED <<window, gate, emit, stored, lastID, notified, kept>>

(***************************************************************************)
(* servePipelineSSE.                                                       *)
(***************************************************************************)
LogUnchanged == UNCHANGED <<storage, nextID, window, gate, emit, stored, lastID, notified, kept>>

\* lastEventID: the reply starts after the newest retained event.
StartSSE ==
  /\ sse.pc = "none"
  /\ sse' = [sse EXCEPT !.pc = "polling",
                        !.cursor = IF window = <<>> THEN 0 ELSE window[Len(window)].id]
  /\ LogUnchanged /\ UNCHANGED received

\* The run ended: the reader does its last read.
RunEnds ==
  /\ sse.pc \in {"polling", "fallback"} /\ ~sse.final
  /\ \A e \in Own : emit[e].pc = "idle"
  /\ sse' = [sse EXCEPT !.final = TRUE]
  /\ LogUnchanged /\ UNCHANGED received

\* SinceChecked: the events after the cursor, unless an ID is missing between them.
After(events) == {event \in events : event.id > sse.cursor}
\* Mutant: the retained events are taken as complete.
NeverGap(events) == FALSE

HasGap(events) ==
  {event.id : event \in events} # sse.cursor + 1 .. sse.cursor + Cardinality(events)

\* The IDs of the own events, each once, in ascending order.
InOrder(events) ==
  LET ids == {event.id : event \in {v \in events : v.own}}
  IN  {s \in [1..Cardinality(ids) -> ids] : Increasing(s)}

\* writeSSEEventsSince: the cursor follows the last own event; a last read ends the reply.
WritesSSE(ids) ==
  /\ received' = received \o ids
  /\ sse' = [sse EXCEPT !.pc = IF sse.final THEN "done" ELSE "polling",
                        !.cursor = IF ids = <<>> THEN @ ELSE ids[Len(ids)]]

Retained == {window[i] : i \in 1..Len(window)}

Poll ==
  /\ sse.pc = "polling"
  /\ IF ~HasGap(After(Retained))
     THEN \E ids \in InOrder(After(Retained)) : WritesSSE(ids)
     ELSE /\ sse' = [sse EXCEPT !.pc = IF storage = "memory" THEN "failed" ELSE "fallback"]
          /\ UNCHANGED received
  /\ LogUnchanged

\* eventsSince: the own events of the store after the cursor.
ReadStore ==
  /\ sse.pc = "fallback" /\ \E ids \in InOrder(After(stored)) : WritesSSE(ids)
  /\ LogUnchanged

\* The store cannot be read, a write fails, or the client leaves.
ReplyBreaks ==
  /\ sse.pc \in {"polling", "fallback"}
  /\ \E pc \in {"failed", "left"} : sse' = [sse EXCEPT !.pc = pc]
  /\ LogUnchanged /\ UNCHANGED received

EmitStep(e) == \/ Enter(e) \/ Persist(e) \/ PersistFails(e) \/ Insert(e) \/ Notify(e)
                \/ Save(e)

EventNext ==
  \/ \E e \in Emitters : EmitStep(e)
  \/ ForeignEvent \/ EnsureNextIDAtLeast
  \/ StartSSE \/ RunEnds \/ Poll \/ ReadStore \/ ReplyBreaks

EventSpec == EventInit /\ [][EventNext]_eventVars

(***************************************************************************)
(* Properties.                                                             *)
(***************************************************************************)
\* Subscribers see events in ascending ID order whatever appends run concurrently, and
\* the stream never refuses an ID the store allocated, which would leave an event in the
\* store that no subscriber sees.
NotifiedInOrder ==
  /\ Increasing(notified)
  /\ \A e \in Emitters : emit[e].pc = "inserting" /\ storage = "global" => emit[e].id > nextID

\* The SSE client gets each event of its run once and in order, without a silent gap:
\* what the window forgot is read from the store, and a reply that says it is done has
\* written every event its run was told was appended. A custom store is written out of
\* order, so nothing is promised for it.
RepliesComplete ==
  storage # "custom" =>
    /\ Increasing(received)
    /\ \A id \in kept : id <= sse.cursor \/ sse.pc = "done" =>
         \E i \in 1..Len(received) : received[i] = id
=============================================================================
