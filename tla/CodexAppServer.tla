--------------------------- MODULE CodexAppServer ---------------------------
(***************************************************************************)
(* The provider that drives `codex app-server` (appserver.go, its stdio    *)
(* transport and its text accumulator).  Complete calls take turns at a    *)
(* gate; the one that holds it speaks the request protocol, reads the turn *)
(* until the model asks for a tool or ends, and leaves a pending call for  *)
(* the next Complete to answer.  Close does not take the gate: it detaches *)
(* and kills the process under whatever the holder is doing.               *)
(* The server is external: it answers requests, emits notifications, asks  *)
(* for tools and may exit at any point.  It closes a message item before   *)
(* it asks for a tool.                                                     *)
(***************************************************************************)
EXTENDS Integers, Sequences, FiniteSets

CONSTANTS Callers,        \* the goroutines that call Complete
          MaxCompletes,   \* Complete calls each of them makes
          MaxProcesses,   \* app-server processes started in a behaviour
          MaxEvents,      \* messages one process emits beside its replies
          MaxInbox        \* maxAppServerInbox

CodexConstants ==
  /\ IsFiniteSet(Callers)
  /\ {MaxCompletes, MaxProcesses, MaxEvents, MaxInbox} \subseteq Nat

VARIABLES caller,     \* [Callers -> [pc, runs, cancelled]]
          gate,       \* who holds the protocol: set of at most one caller
          closed, process, live,
          initialized,
          turn,       \* the open turn: a sequence of at most one record
          inbox,      \* notifications that overtook a reply
          server,     \* what the newest process is doing
          wire,       \* the messages it has written and nobody has read
          ledger      \* tokens observed and billed, items reported, calls answered

codexVars == <<caller, gate, closed, process, live, initialized, turn, inbox, server, wire, ledger>>

Items == 1..MaxEvents
Stages == <<"initialize", "thread/start", "turn/start">>
Note(kind) == [kind |-> kind, item |-> 0]

NewServer == [proc |-> 0, up |-> FALSE, asked |-> 0, replied |-> 0, events |-> 0, total |-> 0, open |-> 0,
              item |-> 0, calling |-> FALSE, turning |-> FALSE]

CodexInit ==
  /\ caller = [c \in Callers |-> [pc |-> "idle", runs |-> 0, cancelled |-> FALSE]]
  /\ gate = {} /\ closed = FALSE /\ process = 0 /\ live = {} /\ initialized = FALSE
  /\ turn = <<>> /\ inbox = <<>> /\ wire = <<>> /\ server = NewServer
  /\ ledger = [observed |-> 0, billed |-> 0, lost |-> 0, reported |-> [i \in Items |-> 0],
               asked |-> 0, answered |-> 0]

Active == turn # <<>>
Turn == turn[1]
At(c, pc) == caller[c].pc = pc
Goto(c, pc) == caller' = [caller EXCEPT ![c].pc = pc]
Leave(c) == /\ caller' = [caller EXCEPT ![c].pc = "idle"]
            /\ gate' = {}

\* shutdownProcess: detach and kill, and forget the protocol state.
Shutdown ==
  /\ live' = live \ {process}
  /\ process' = 0 /\ initialized' = FALSE /\ turn' = <<>> /\ inbox' = <<>>
  /\ UNCHANGED closed

\* What the response to the caller takes from the turn: the texts of its items, the deltas of an
\* item that never completed, and the tokens used since the last response.
TakeText(t) == t.text \cup t.deltas
Billed(t) ==
  [ledger EXCEPT !.billed = @ + t.unbilled,
                 !.reported = [i \in Items |-> @[i] + (IF i \in t.text THEN 1 ELSE 0)
                                                    + (IF i \in t.deltas THEN 1 ELSE 0)]]
\* Mutants: the tokens stay to be billed again; a delta survives its item; a process that Close
\* overtook is installed.
TakeResponseKeepsUsage(t) == [t EXCEPT !.text = {}, !.deltas = {}]
CompleteItemKeepsDelta(t, item) == [t EXCEPT !.text = @ \cup {item}]
InstallableAlways == process = 0

TakeResponse(t) == [t EXCEPT !.unbilled = 0, !.text = {}, !.deltas = {}]

\* failProtocol, after the response took what it could.
FailProtocol(c) ==
  /\ Shutdown /\ Leave(c)
  /\ ledger' = IF Active THEN Billed(Turn) ELSE ledger

----------------------------------------------------------------------------

\* Complete waits for the gate; a queued call gives up with its context.
Complete(c) ==
  /\ At(c, "idle") /\ caller[c].runs < MaxCompletes
  /\ caller' = [caller EXCEPT ![c] = [pc |-> "queued", runs |-> @.runs + 1, cancelled |-> FALSE]]
  /\ UNCHANGED <<gate, closed, process, live, initialized, turn, inbox, server, wire, ledger>>

Cancel(c) ==
  /\ ~At(c, "idle") /\ ~caller[c].cancelled
  /\ caller' = [caller EXCEPT ![c].cancelled = TRUE]
  /\ UNCHANGED <<gate, closed, process, live, initialized, turn, inbox, server, wire, ledger>>

Acquire(c) ==
  /\ At(c, "queued")
  /\ \/ caller[c].cancelled /\ Goto(c, "idle") /\ UNCHANGED gate
     \/ gate = {} /\ gate' = {c} /\ Goto(c, "entered")
  /\ UNCHANGED <<closed, process, live, initialized, turn, inbox, server, wire, ledger>>

\* What Complete does first with the gate in hand.
Enter(c) ==
  /\ At(c, "entered")
  /\ \/ /\ closed \/ caller[c].cancelled
        /\ Leave(c) /\ UNCHANGED <<process, live, initialized, turn, inbox, ledger>>
     \/ /\ ~closed /\ ~caller[c].cancelled
        /\ \/ Active /\ Turn.pending /\ Goto(c, "answering")
              /\ UNCHANGED <<gate, process, live, initialized, turn, inbox, ledger>>
           \/ Active /\ ~Turn.pending /\ FailProtocol(c)
           \/ ~Active /\ Goto(c, "starting")
              /\ UNCHANGED <<gate, process, live, initialized, turn, inbox, ledger>>
           \/ ~Active /\ Leave(c)   \* the tools do not validate
              /\ UNCHANGED <<process, live, initialized, turn, inbox, ledger>>
  /\ UNCHANGED <<closed, server, wire>>

\* answerPendingTool: a request without the matching result is refused and the call stays
\* pending; a send that fails ends the session, whether or not the bytes left.
AnswerPendingTool(c) ==
  /\ At(c, "answering")
  /\ \/ Leave(c) /\ UNCHANGED <<process, live, initialized, turn, inbox, server, ledger>>
     \/ /\ process \in live /\ server.up
        /\ turn' = <<[Turn EXCEPT !.pending = FALSE]>>
        /\ server' = [server EXCEPT !.calling = FALSE]
        /\ ledger' = [ledger EXCEPT !.answered = @ + 1]
        /\ Goto(c, "reading") /\ UNCHANGED <<gate, process, live, initialized, inbox>>
     \/ /\ process \notin live \/ ~server.up \/ caller[c].cancelled
        /\ FailProtocol(c) /\ UNCHANGED server
  /\ UNCHANGED <<closed, wire>>

\* ensureInitialized: a running process is used again; otherwise one is started.
EnsureProcess(c) ==
  /\ At(c, "starting")
  /\ \/ closed /\ Leave(c) /\ UNCHANGED <<live, server, wire>>
     \/ /\ ~closed /\ initialized /\ process # 0
        /\ Goto(c, "ask2") /\ UNCHANGED <<gate, live, server, wire>>
     \/ /\ ~closed /\ ~(initialized /\ process # 0)
        /\ \/ Leave(c) /\ UNCHANGED <<live, server, wire>>   \* not on PATH, or Start failed
           \/ /\ server.proc < MaxProcesses
              /\ live' = live \cup {server.proc + 1}
              /\ server' = [NewServer EXCEPT !.up = TRUE, !.proc = server.proc + 1]
              /\ wire' = <<>>
              /\ Goto(c, "install") /\ UNCHANGED gate
  /\ UNCHANGED <<closed, process, initialized, turn, inbox, ledger>>

\* installProcess: Close may have come first, and then the new process is closed here.
Installable == ~closed /\ process = 0
InstallProcess(c) ==
  /\ At(c, "install")
  /\ IF Installable
     THEN /\ process' = server.proc /\ inbox' = <<>> /\ Goto(c, "ask1")
          /\ UNCHANGED <<live, gate>>
     ELSE /\ live' = live \ {server.proc} /\ Leave(c) /\ UNCHANGED <<process, inbox>>
  /\ UNCHANGED <<closed, initialized, turn, server, wire, ledger>>

Asking(c) == CHOOSE i \in 1..3 : At(c, <<"ask1", "ask2", "ask3">>[i])

\* request: send it, and wait for the reply with its id.
SendRequest(c) ==
  /\ \E i \in 1..3 : At(c, <<"ask1", "ask2", "ask3">>[i])
  /\ \/ /\ process \in live /\ server.up
        /\ server' = [server EXCEPT !.asked = Asking(c)]
        /\ Goto(c, <<"await1", "await2", "await3">>[Asking(c)])
        /\ UNCHANGED <<gate, process, live, initialized, turn, inbox, ledger>>
     \/ /\ process \notin live \/ ~server.up \/ caller[c].cancelled
        /\ FailProtocol(c) /\ UNCHANGED server
  /\ UNCHANGED <<closed, wire>>

\* The next message of the process; a Receive fails once it has exited and its messages are
\* read, when Close took the process away, or with the caller's context.
Cut(c) == process \notin live \/ caller[c].cancelled \/ (~server.up /\ wire = <<>>)

NewTurn == [proc |-> process, pending |-> FALSE, total |-> 0, unbilled |-> 0, text |-> {},
            deltas |-> {}]

ReadReply(c) ==
  /\ \E i \in 1..3 : At(c, <<"await1", "await2", "await3">>[i])
  /\ \/ Cut(c) /\ FailProtocol(c) /\ UNCHANGED wire
     \/ /\ process \in live /\ wire # <<>> /\ wire' = Tail(wire)
        /\ CASE Head(wire).kind = "reply" ->
                  /\ \/ /\ At(c, "await1") /\ initialized' = TRUE /\ Goto(c, "ask2")
                        /\ UNCHANGED turn
                     \/ /\ At(c, "await2") /\ Goto(c, "ask3") /\ UNCHANGED <<initialized, turn>>
                     \/ /\ At(c, "await3") /\ turn' = <<NewTurn>> /\ Goto(c, "reading")
                        /\ UNCHANGED initialized
                  /\ UNCHANGED <<gate, process, live, inbox, ledger>>
             [] Head(wire).kind \in {"refusal", "ask", "call"} -> FailProtocol(c)
             [] OTHER ->
                  IF Len(inbox) >= MaxInbox
                  THEN FailProtocol(c)
                  ELSE /\ inbox' = Append(inbox, Head(wire))
                       /\ UNCHANGED <<caller, gate, process, live, initialized, turn, ledger>>
  /\ UNCHANGED <<closed, server>>

----------------------------------------------------------------------------

\* observeTokenUsage: the totals are cumulative, a response bills what is new.
ObserveUsage(t, total) == [t EXCEPT !.unbilled = @ + (total - t.total), !.total = total]

\* dropAgentDelta and completeAgentItem: the item's text replaces its deltas.
CompleteItem(t, item) == [t EXCEPT !.deltas = @ \ {item}, !.text = @ \cup {item}]

\* readTurn, one message: those that overtook the replies first.
Reading(c, m) ==
  CASE m.kind = "delta" /\ Active ->
         /\ turn' = <<[Turn EXCEPT !.deltas = @ \cup {m.item}]>>
         /\ UNCHANGED <<caller, gate, process, live, initialized, ledger>>
    [] m.kind = "item" /\ Active ->
         /\ turn' = <<CompleteItem(Turn, m.item)>>
         /\ UNCHANGED <<caller, gate, process, live, initialized, ledger>>
    [] m.kind = "usage" /\ Active ->
         /\ turn' = <<ObserveUsage(Turn, m.item)>>
         /\ ledger' = [ledger EXCEPT !.observed = @ + (m.item - Turn.total)]
         /\ UNCHANGED <<caller, gate, process, live, initialized>>
    [] m.kind = "note" ->
         UNCHANGED <<caller, gate, process, live, initialized, turn, ledger>>
    [] m.kind = "call" /\ Active /\ ~Turn.pending ->
         /\ turn' = <<[TakeResponse(Turn) EXCEPT !.pending = TRUE]>>
         /\ ledger' = [Billed(Turn) EXCEPT !.asked = @ + 1]
         /\ Leave(c) /\ UNCHANGED <<process, live, initialized>>
    [] m.kind = "done" /\ Active ->
         /\ turn' = <<>> /\ ledger' = Billed(Turn)
         /\ Leave(c) /\ UNCHANGED <<process, live, initialized>>

Fatal == {"reply", "refusal", "ask", "error"}

ReadTurn(c) ==
  /\ At(c, "reading")
  /\ \/ /\ inbox # <<>> /\ UNCHANGED wire
        /\ IF Head(inbox).kind \in Fatal
           THEN FailProtocol(c)
           ELSE Reading(c, Head(inbox)) /\ inbox' = Tail(inbox) /\ UNCHANGED closed
     \/ /\ inbox = <<>> /\ process \in live /\ wire # <<>> /\ wire' = Tail(wire)
        /\ IF Head(wire).kind \in Fatal
           THEN FailProtocol(c)
           ELSE Reading(c, Head(wire)) /\ UNCHANGED <<inbox, closed>>
     \/ \* Receive fails: with the context, shutdownProcess has already dropped the turn and
        \* what it had not billed; otherwise the response still takes it.
        /\ inbox = <<>> /\ Cut(c)
        /\ Shutdown /\ Leave(c) /\ UNCHANGED wire
        /\ ledger' = IF caller[c].cancelled
                     THEN [ledger EXCEPT !.lost = @ + Turn.unbilled]
                     ELSE Billed(Turn)
  /\ UNCHANGED server

\* AbortTurn: the harness abandons a turn whose tool call it will not answer.
AbortTurn ==
  /\ gate = {} /\ ~closed /\ Active
  /\ Shutdown
  /\ ledger' = [ledger EXCEPT !.lost = @ + Turn.unbilled]
  /\ UNCHANGED <<caller, gate, server, wire>>

\* Close does not wait for the gate.
Close ==
  /\ ~closed /\ closed' = TRUE
  /\ live' = live \ {process} /\ process' = 0
  /\ UNCHANGED <<caller, gate, initialized, turn, inbox, server, wire, ledger>>

----------------------------------------------------------------------------

\* The server.
Speaks == server.up /\ server.proc \in live /\ wire = <<>>
Emits == Speaks /\ server.events < MaxEvents
Says(m, next) ==
  /\ wire' = Append(wire, m) /\ server' = next
  /\ UNCHANGED <<caller, gate, closed, process, live, initialized, turn, inbox, ledger>>

ServerReplies ==
  /\ Speaks /\ server.replied # server.asked
  /\ \/ Says(Note("reply"), [server EXCEPT !.replied = server.asked,
                                           !.turning = server.asked = 3])
     \/ Says(Note("refusal"), [server EXCEPT !.replied = server.asked])

ServerNotifies ==
  /\ Emits
  /\ LET heard == [server EXCEPT !.events = @ + 1]
     IN  \/ \E kind \in {"note", "ask", "error"} : Says(Note(kind), heard)
         \/ /\ server.turning /\ ~server.calling
            /\ \/ Says([kind |-> "usage", item |-> server.total + 1],
                       [heard EXCEPT !.total = @ + 1])
               \/ Says([kind |-> "delta", item |-> server.item + 1], [heard EXCEPT !.open = 1])
               \/ Says([kind |-> "item", item |-> server.item + 1],
                       [heard EXCEPT !.open = 0, !.item = @ + 1])

ServerEndsLeg ==
  /\ Speaks /\ server.turning /\ ~server.calling /\ server.open = 0
  /\ \/ server.events < MaxEvents
        /\ Says(Note("call"), [server EXCEPT !.calling = TRUE, !.events = @ + 1])
     \/ Says(Note("done"), [server EXCEPT !.turning = FALSE, !.asked = 1, !.replied = 1,
                                          !.total = 0])

ServerExits ==
  /\ server.up /\ server.proc \in live
  /\ server' = [server EXCEPT !.up = FALSE]
  /\ UNCHANGED <<caller, gate, closed, process, live, initialized, turn, inbox, wire, ledger>>

Server == ServerReplies \/ ServerNotifies \/ ServerEndsLeg \/ ServerExits

CallerStep(c) ==
  \/ Acquire(c) \/ Enter(c) \/ AnswerPendingTool(c) \/ EnsureProcess(c) \/ InstallProcess(c)
  \/ SendRequest(c) \/ ReadReply(c) \/ ReadTurn(c)

CodexNext ==
  \/ \E c \in Callers : Complete(c) \/ Cancel(c) \/ CallerStep(c)
  \/ AbortTurn \/ Close \/ Server

CodexFairness == \A c \in Callers : WF_codexVars(CallerStep(c))
CodexSpec == CodexInit /\ [][CodexNext]_codexVars /\ CodexFairness

----------------------------------------------------------------------------

CodexTypeOK ==
  /\ caller \in [Callers -> [pc : {"idle", "queued", "entered", "answering", "starting",
                                   "install", "ask1", "ask2", "ask3", "await1", "await2",
                                   "await3", "reading"},
                             runs : 0..MaxCompletes, cancelled : BOOLEAN]]
  /\ gate \in SUBSET Callers /\ Cardinality(gate) <= 1
  /\ closed \in BOOLEAN /\ process \in 0..MaxProcesses /\ live \subseteq 1..MaxProcesses
  /\ Len(turn) <= 1 /\ Len(inbox) <= MaxInbox /\ Len(wire) <= 1

\* Every token the server reported is billed once: by the response of the leg that used it, or
\* given up with a turn that was abandoned.
TokensBilledOnce ==
  ledger.billed + ledger.lost + (IF Active THEN Turn.unbilled ELSE 0) = ledger.observed

\* No text reaches the harness twice, whether it came as deltas or as a whole item.
TextReportedOnce == \A i \in Items : ledger.reported[i] <= server.proc

\* A provider that was closed and that no call is inside of has left no process behind, and
\* one that is open runs at most the process it knows.
NoProcessLeft ==
  /\ gate = {} => live = IF process = 0 THEN {} ELSE {process}
  /\ gate = {} /\ closed => live = {}

\* A turn is only left open for the tool result it waits for, and the process that waits for
\* it is the one it will be sent to.
OpenTurnAwaitsResult ==
  Active /\ gate = {} /\ ~closed => Turn.pending /\ Turn.proc = process /\ process # 0

\* A call of a closed provider, or of a caller that gave up, returns; it stays cancelled until then.
CompleteReturns == \A c \in Callers : []<>(closed \/ caller[c].cancelled => At(c, "idle"))
=============================================================================
