----------------------------- MODULE TraceViews -----------------------------
(***************************************************************************)
(* What an operator sees of the events of a worker: the counters and the   *)
(* duration summaries a Prometheus scrape merges from the stored events    *)
(* and from the lifetime statistics of the in-process stream, the listing  *)
(* of traces, and the polls of one trace with an after_id cursor           *)
(* (runtime_http_metrics.go, event_stream_metrics.go, routes.go).          *)
(*                                                                         *)
(* An event is the operation it belongs to and whether it starts or ends   *)
(* it; its ID is its place in the log.  EventLog shows how IDs are given.  *)
(* The scraper and the client only read, so a behaviour has one of them.   *)
(***************************************************************************)
EXTENDS Integers, Sequences, SequencesExt

CONSTANTS Operations, \* trace keys: two pipes of one execution share one
          Retention,  \* events and starts the stream keeps
          MaxEvents,  \* bound: events, by backend
          MaxBoots

VARIABLES backend,  \* "none": memory only; "store": every event is stored before it is kept
          log, here, \* all events, and the IDs of those this process emitted since it started
          window,   \* IDs the stream retains
          life,     \* lifetime statistics of the stream: [started, ended, measured]
          open, starts, \* starts of unfinished operations, and the ring that bounds them
          boots,
          scrape,   \* [pc, seen, shown] of the scraper
          poll      \* [pc, kind, on, cursor, from, got, raced] of a client that follows one trace

viewVars == <<backend, log, here, window, life, open, starts, boots, scrape, poll>>

ViewConstants ==
  Retention \in Nat \ {0} /\ MaxBoots \in Nat /\ MaxEvents \in [{"none", "store"} -> Nat]

IDs == 1..Len(log)
Zero == [started |-> 0, ended |-> 0, measured |-> 0]
NoPoll == [pc |-> "none", kind |-> "exec", on |-> "nothing", cursor |-> 0, from |-> 0,
           got |-> {}, raced |-> {}]

ViewInit ==
  /\ backend \in {"none", "store"}
  /\ log = <<>> /\ here = {} /\ window = <<>> /\ life = Zero
  /\ open = [o \in Operations |-> 0] /\ starts = <<>> /\ boots = 0
  /\ scrape = [pc |-> "idle", seen |-> Zero, shown |-> Zero]
  /\ poll = NoPoll

Larger(a, b) == IF a > b THEN a ELSE b
Push(s, id) == IF Len(s) < Retention THEN Append(s, id) ELSE Append(Tail(s), id)

----------------------------------------------------------------------------

\* Mutant: the ring forgets the operation of the start it drops, whichever start is open.
ForgetsWhole(full) ==
  [o \in Operations |-> IF full # <<>> /\ Len(full) = Retention /\ log[Head(full)].op = o
                        THEN 0 ELSE open[o]]

\* rememberStart: the start that falls out of the ring is forgotten, unless the operation was
\* started again since.
Forgets(full) ==
  [o \in Operations |-> IF full # <<>> /\ Len(full) = Retention /\ open[o] = Head(full)
                        THEN 0 ELSE open[o]]

\* streamMetricState.observe: an end without a start that is still known measures nothing.
Observe(op, kind, id) ==
  IF kind = "start"
  THEN /\ open' = [Forgets(starts) EXCEPT ![op] = id]
       /\ starts' = Push(starts, id)
       /\ life' = [life EXCEPT !.started = @ + 1]
  ELSE /\ open' = [open EXCEPT ![op] = 0] /\ UNCHANGED starts
       /\ life' = [life EXCEPT !.ended = @ + 1, !.measured = IF open[op] # 0 THEN @ + 1 ELSE @]

\* An event is stored, then kept; when the store refuses it, neither.
Emit(op, kind) ==
  LET id == Len(log) + 1 IN
  /\ Len(log) < MaxEvents[backend]
  /\ log' = Append(log, [op |-> op, kind |-> kind])
  /\ here' = here \cup {id} /\ window' = Push(window, id)
  /\ Observe(op, kind, id)
  /\ poll' = IF poll.pc = "lookup" /\ poll.on = op
             THEN [poll EXCEPT !.raced = @ \cup {id}] ELSE poll
  /\ UNCHANGED <<backend, boots, scrape>>

\* Another replica stores an event.
ForeignEmit(op, kind) ==
  /\ backend = "store" /\ Len(log) < MaxEvents[backend]
  /\ log' = Append(log, [op |-> op, kind |-> kind])
  /\ poll' = IF poll.pc = "lookup" /\ poll.on = op
             THEN [poll EXCEPT !.raced = @ \cup {Len(log) + 1}] ELSE poll
  /\ UNCHANGED <<backend, here, window, life, open, starts, boots, scrape>>

\* The process restarts over its store: the stream starts over, after the last stored ID.
Restart ==
  /\ backend = "store" /\ boots < MaxBoots /\ boots' = boots + 1
  /\ here' = {} /\ window' = <<>> /\ life' = Zero
  /\ open' = [o \in Operations |-> 0] /\ starts' = <<>>
  /\ scrape' = [scrape EXCEPT !.pc = "idle", !.shown = Zero]
  /\ poll' = IF poll.pc = "lookup" THEN [poll EXCEPT !.pc = "idle"] ELSE poll
  /\ UNCHANGED <<backend, log>>

----------------------------------------------------------------------------

Kept == {window[i] : i \in 1..Len(window)}

\* adminEventsSince: the stored events, or the retained ones when there is none.
RecordedAfter(id) ==
  IF backend = "store" THEN {i \in IDs : i > id} ELSE {i \in Kept : i > id}

\* metricsDurationTracker: starts and ends are paired by key, in the order of their IDs.
Measured(ids) ==
  {e \in ids : /\ log[e].kind = "end"
               /\ \E s \in ids : /\ s < e /\ log[s].kind = "start" /\ log[s].op = log[e].op
                                 /\ \A i \in ids : s < i /\ i < e => log[i].op # log[e].op}

\* summarizeRuntimeMetrics, one kind of operation.
Summarize(ids) ==
  [started  |-> Cardinality({i \in ids : log[i].kind = "start"}),
   ended    |-> Cardinality({i \in ids : log[i].kind = "end"}),
   measured |-> Cardinality(Measured(ids))]

\* Mutant: the scrape shows what was recorded.
MergeDrops(seen, stats) == seen

\* mergeLifetimeStreamStats: each counter is the larger of the two.
Merge(seen, stats) == [c \in DOMAIN seen |-> Larger(seen[c], stats[c])]

\* serveMetrics reads the events and then the statistics.
ScrapeEvents ==
  /\ scrape.pc = "idle" /\ poll.pc = "none"
  /\ scrape' = [scrape EXCEPT !.pc = "merging", !.seen = Summarize(RecordedAfter(0))]
  /\ UNCHANGED <<backend, log, here, window, life, open, starts, boots, poll>>

ScrapeStats ==
  /\ scrape.pc = "merging"
  /\ scrape' = [pc |-> "idle", seen |-> Zero, shown |-> Merge(scrape.seen, life)]
  /\ UNCHANGED <<backend, log, here, window, life, open, starts, boots, poll>>

----------------------------------------------------------------------------

\* adminTraceSummary.AddEvent, for one kind of operation.
TraceRow(ids) == [started |-> Cardinality({i \in ids : log[i].kind = "start"}),
                  ended   |-> Cardinality({i \in ids : log[i].kind = "end"}),
                  last    |-> CHOOSE i \in ids : \A j \in ids : j <= i]

\* summarizeAdminTraces: one row for each key.
TraceList ==
  LET shown == RecordedAfter(0)
  IN  [o \in {log[i].op : i \in shown} |-> TraceRow({i \in shown : log[i].op = o})]

\* A client follows an execution, with or without a saved record, or another trace, from its beginning or from the last event
\* the listing shows.
Follow ==
  /\ poll.pc = "none" /\ scrape.pc = "idle" /\ scrape.shown = Zero
  /\ \E kind \in {"saved", "exec", "trace"}, o \in Operations :
       \E last \in {0} \cup (IF o \in DOMAIN TraceList THEN {TraceList[o].last} ELSE {}) :
         poll' = [NoPoll EXCEPT !.pc = "idle", !.kind = kind, !.on = o, !.cursor = last,
                                !.from = last]
  /\ UNCHANGED <<backend, log, here, window, life, open, starts, boots, scrape>>

Matches(ids) == {i \in ids : log[i].op = poll.on}
LastOf(ids) == IF ids = {} THEN 0 ELSE CHOOSE i \in ids : \A j \in ids : j <= i

\* The store selects the events of an execution; of any other trace, all events.
Stored(id) ==
  {i \in RecordedAfter(id) : backend = "store" /\ (poll.kind # "trace" => log[i].op = poll.on)}

\* Mutant: the retained window answers without a check for what it has lost.
LosesNothing(id) == TRUE

\* SinceChecked: what follows the cursor is retained without a hole.  A cursor of zero claims no
\* continuity.
Continuous(id) == id = 0 \/ \A i \in Kept : \A j \in (id + 1)..i : j \in Kept

\* adminEventsForSelectorSince: a store that has nothing leaves the answer to the stream.
Found(id) == Matches(IF Stored(id) # {} THEN Stored(id) ELSE {i \in Kept : i > id})
Answers(id) == Stored(id) # {} \/ Continuous(id)

Known == poll.kind = "saved" /\ backend = "store"
First == IF backend = "none" /\ window # <<>> THEN window[1] - 1 ELSE 0

\* serveAdminTrace, its first queries: the execution and the events after the cursor.
PollEvents ==
  /\ poll.pc = "idle" /\ Answers(poll.cursor)
  /\ LET found == Found(poll.cursor)
     IN  IF found = {} /\ ~Known /\ poll.cursor > 0
         THEN poll' = [poll EXCEPT !.pc = "lookup"]
         ELSE poll' = [poll EXCEPT !.cursor = Larger(@, LastOf(found)), !.got = @ \cup found,
                                   !.from = IF poll.cursor = 0 THEN First ELSE @]
  /\ UNCHANGED <<backend, log, here, window, life, open, starts, boots, scrape>>

\* adminTraceKnown: does the trace exist at all, and what is its last event.
PollLookup ==
  /\ poll.pc = "lookup"
  /\ poll' = [poll EXCEPT !.pc = "idle", !.cursor = Larger(@, LastOf(Found(0)))]
  /\ UNCHANGED <<backend, log, here, window, life, open, starts, boots, scrape>>

ViewStep ==
  \/ \E op \in Operations, kind \in {"start", "end"} : Emit(op, kind) \/ ForeignEmit(op, kind)
  \/ Restart \/ ScrapeEvents \/ ScrapeStats \/ Follow \/ PollEvents \/ PollLookup

ViewTypeOK ==
  /\ backend \in {"none", "store"}
  /\ log \in Seq([op : Operations, kind : {"start", "end"}]) /\ here \subseteq IDs
  /\ Kept \subseteq here /\ Len(window) <= Retention /\ Len(starts) <= Retention
  /\ life \in [DOMAIN Zero -> Nat] /\ scrape.shown \in [DOMAIN Zero -> Nat]
  /\ open \in [Operations -> {0} \cup IDs]
  /\ poll.cursor \in {0} \cup IDs /\ poll.got \subseteq IDs /\ boots \in 0..MaxBoots

\* A client that follows a trace skips no event of it below its cursor, except one that was
\* appended between the two queries of a poll that found nothing (routes.go:454-466).
NoneSkipped ==
  \A i \in (poll.from + 1)..poll.cursor : log[i].op = poll.on => i \in poll.got \cup poll.raced

\* An operation still running is measured when it ends, as long as the ring holds its last start,
\* whatever the stream evicted meanwhile (event_stream_metrics.go:39-41).
RunningIsMeasured ==
  \A o \in Operations :
    LET mine == {i \in here : log[i].op = o} IN
    mine # {} /\ log[LastOf(mine)].kind = "start"
      /\ (\E k \in 1..Len(starts) : starts[k] = LastOf(mine)) => open[o] = LastOf(mine)

\* What a process exposes to a scraper never goes down while it runs (runtime_http_metrics.go:25-29).
CountersNeverFall ==
  [][boots' = boots => \A c \in DOMAIN Zero : scrape'.shown[c] >= scrape.shown[c]]_viewVars

ViewSpec == ViewInit /\ [][ViewStep]_viewVars
=============================================================================
