----------------------------- MODULE SpanExport -----------------------------
(***************************************************************************)
(* Hooks, the tracer and the OTLP exporter of one trace: an operation      *)
(* (a pipe, a model call, a tool call) emits the event of its start and    *)
(* the event of its end.  An event passes the hooks, which may block it,   *)
(* and is appended under the gate of the stream, where the tracer opens or *)
(* ends a span and the exporter posts it (internal/events/hook_bus.go,     *)
(* tracer.go, otlp_exporter.go).                                           *)
(***************************************************************************)
EXTENDS Integers, FiniteSets

CONSTANTS Operations,
          Kind,      \* Kind[o]: the operation of classifyEvent
          Call,      \* Call[o]: the discriminator in its payload, None without one
          None,
          MaxRuns    \* bound: how often each operation runs

VARIABLES
  op,       \* of an operation: its run, where it is, and the event it emits
  gate,     \* appendMu of the stream, and who posts a span in it
  open,     \* tracerState.open: the span under each key
  exported, \* the spans that were posted or given up
  blocked   \* history: an event of the operation never reached the tracer

spanVars == <<op, gate, open, exported, blocked>>

SpanConstants == /\ DOMAIN Kind = Operations /\ DOMAIN Call = Operations
                 /\ None \notin Operations /\ MaxRuns \in [Operations -> Nat]

Places == {"idle", "emits", "posting", "running"}
Actions == {"start", "end"} \* complete and fail end a span alike

\* Mutant: the key of a span leaves out the call.
KeyOfTrace(o) == <<Kind[o], None>>

\* tracerSpanKey within one trace: the kind, and the call where the payload names one.
SpanKey(o) == <<Kind[o], Call[o]>>

Keys == {SpanKey(o) : o \in Operations}
NoSpan == [of |-> None, run |-> 0]

\* StartSpan: the span is that of the run whose event opens it.
NewSpan(o) == [of |-> o, run |-> op[o].run]

\* What handle makes of a span that the event of o ends: attributes and error are of o.
Ended(span, o) == [of |-> span.of, run |-> span.run, by |-> o, byRun |-> op[o].run]

SpanInit ==
  /\ op = [o \in Operations |-> [run |-> 0, at |-> "idle", event |-> "start"]]
  /\ gate = None
  /\ open = [k \in Keys |-> NoSpan]
  /\ exported = {}
  /\ blocked = {}

Emits(o, event) == op' = [op EXCEPT ![o].at = "emits", ![o].event = event]
Returns(o) == op' = [op EXCEPT ![o].at = IF @ # "idle" /\ op[o].event = "start" THEN "running" ELSE "idle"]

\* An operation starts; MaxRuns bounds the model.
Begin(o) ==
  /\ op[o].at = "idle" /\ op[o].run < MaxRuns[o]
  /\ op' = [op EXCEPT ![o] = [run |-> @.run + 1, at |-> "emits", event |-> "start"]]
  /\ UNCHANGED <<gate, open, exported, blocked>>

Finish(o) ==
  /\ op[o].at = "running"
  /\ Emits(o, "end")
  /\ UNCHANGED <<gate, open, exported, blocked>>

\* A hook blocks the event (or its context is cancelled) and hook_failed, of which the tracer
\* knows nothing, takes its place.  Of an operation that could not tell of its start, a pipe
\* tells of its failure all the same, a tool call nothing.
HookBlocks(o) ==
  /\ op[o].at = "emits"
  /\ \/ op[o].event = "start" /\ Emits(o, "end")
     \/ op' = [op EXCEPT ![o].at = "idle"]
  /\ blocked' = blocked \cup {o}
  /\ UNCHANGED <<gate, open, exported>>

\* Mutant: the end of an operation leaves its span open.
TakeKeeps(k) == open

\* take: the span under a key, which is no longer open.
Take(k) == [open EXCEPT ![k] = NoSpan]

\* handle, under the gate: a start opens a span, over one that is open under its key.
OpenSpan(o) ==
  /\ op[o].at = "emits" /\ gate = None /\ op[o].event = "start"
  /\ open' = [open EXCEPT ![SpanKey(o)] = NewSpan(o)]
  /\ Returns(o)
  /\ UNCHANGED <<gate, exported, blocked>>

\* An end takes the span of its key, gives it its own attributes and error, and ends it.
EndSpan(o) ==
  /\ op[o].at = "emits" /\ gate = None /\ op[o].event # "start"
  /\ open[SpanKey(o)] # NoSpan
  /\ gate' = [by |-> o, span |-> open[SpanKey(o)]]
  /\ open' = Take(SpanKey(o))
  /\ op' = [op EXCEPT ![o].at = "posting"]
  /\ UNCHANGED <<exported, blocked>>

EndNothing(o) ==
  /\ op[o].at = "emits" /\ gate = None /\ op[o].event # "start"
  /\ open[SpanKey(o)] = NoSpan
  /\ Returns(o)
  /\ UNCHANGED <<gate, open, exported, blocked>>

\* End, once: the span is posted; the answer, an error and a timeout are all the same to it.
Export(o) ==
  /\ gate # None /\ gate.by = o
  /\ exported' = exported \cup {Ended(gate.span, o)}
  /\ gate' = None
  /\ Returns(o)
  /\ UNCHANGED <<open, blocked>>

Emission(o) == HookBlocks(o) \/ OpenSpan(o) \/ EndSpan(o) \/ EndNothing(o) \/ Export(o)

SpanNext == \E o \in Operations : Begin(o) \/ Finish(o) \/ Emission(o)

SpanSpec == SpanInit /\ [][SpanNext]_spanVars

----------------------------------------------------------------------------
SpanTypeOK ==
  /\ op \in [Operations -> [run : Nat, at : Places, event : Actions]]
  /\ gate = None \/ gate \in [by : Operations, span : [of : Operations, run : Nat]]
  /\ open \in [Keys -> [of : Operations, run : Nat] \cup {NoSpan}]
  /\ blocked \subseteq Operations

\* The operations whose key no other uses, all of whose events were appended.
Alone(o) == o \notin blocked /\ \A p \in Operations \ {o} : <<Kind[p], Call[p]>> # <<Kind[o], Call[o]>>

\* Each such operation is one span (tracer.go:42-45), which tells of its own run: no other
\* operation, and no earlier run, ended it.
SpansAreOwn == \A s \in exported : Alone(s.of) \/ Alone(s.by) => s.by = s.of /\ s.run = s.byRun

\* Its span is open only while it runs: the map does not grow with what has ended.
OpenIsRunning ==
  \A o \in Operations :
    Alone(o) /\ op[o].at = "idle" => \A k \in Keys : open[k].of # o

\* A run is exported once at most, whoever ends it.
ExportedOnce ==
  \A s, t \in exported : s.of = t.of /\ s.run = t.run => s = t
=============================================================================
