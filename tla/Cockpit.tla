------------------------------- MODULE Cockpit -------------------------------
(***************************************************************************)
(* The operate cockpit (internal/tui/operate.go): one screen that handles  *)
(* keys and stream messages one after the other, and the turn it started,  *)
(* which runs beside it, writes its events into a bounded channel and      *)
(* waits there for the operator's decisions.  Calls are numbered; a card   *)
(* is a block of the transcript, a tool card or a streamed text.           *)
(***************************************************************************)
EXTENDS Integers, Sequences, SequencesExt

CONSTANTS MaxCalls,   \* bound: calls and texts of a behaviour
          MaxTurns,   \* bound: turns started
          MaxQueue,   \* bound: follow-ups that wait
          Buffer      \* capacity of the event channel, 32 in the code

VARIABLES
  ui,        \* the screen: [pc, overlay, mode, running, pending, failed, interrupting, listening]
  queue,     \* follow-ups that wait for the running turn
  cards,     \* the blocks: [kind, open, call, shows]
  at,        \* runningToolIdx, 0 for none
  turn,      \* the goroutine of the turn: [pc, kind, call, cancelled, yes, outcome]
  stream,    \* the event channel
  closed,    \* it was closed
  decisions, \* the decision channel
  used,      \* [calls, turns] so far
  approved,  \* history: the call the operator said yes to last
  odd        \* history: "clear", "switch", "hidden", "held"; see the properties

cockpitVars == <<ui, queue, cards, at, turn, stream, closed, decisions, used, approved, odd>>
CockpitConstants == {MaxCalls, MaxTurns, Buffer} \subseteq Nat \ {0} /\ MaxQueue \in Nat

Calls == 1..MaxCalls
NoTurn == [pc |-> "none", kind |-> "prompt", call |-> 0, cancelled |-> FALSE, yes |-> FALSE,
           outcome |-> "none"]
Event(kind, c) == [kind |-> kind, call |-> c]

CockpitInit ==
  /\ ui = [pc |-> "free", overlay |-> "none", mode |-> "select", running |-> FALSE, pending |-> 0,
           failed |-> FALSE, interrupting |-> FALSE, listening |-> FALSE]
  /\ queue = 0 /\ cards = <<>> /\ at = 0 /\ turn = NoTurn /\ stream = <<>> /\ closed = FALSE
  /\ decisions = <<>> /\ used = [calls |-> 0, turns |-> 0]
  /\ approved = 0 /\ odd = {}

(***************************************************************************)
(* The turn: RunTurnInteractive, runPrompt, executeHeld and gate, or the   *)
(* governed call of a shell line.                                          *)
(***************************************************************************)
TurnKeeps == UNCHANGED <<ui, queue, cards, at, odd, approved>>
Over == turn.pc \in {"none", "over"}

\* emit: a cancelled turn may drop the event instead.
Emit(event) ==
  \/ Len(stream) < Buffer /\ stream' = Append(stream, event)
  \/ turn.cancelled /\ UNCHANGED stream

\* Between two calls: the model streams a text, calls a tool, fails or ends.
Speak ==
  /\ turn.pc = "thinking" /\ turn.kind = "prompt" /\ ~turn.cancelled /\ used.calls < MaxCalls
  /\ Emit(Event("delta", 0))
  /\ turn' = [turn EXCEPT !.pc = "speaking"] /\ used' = [used EXCEPT !.calls = @ + 1]
  /\ UNCHANGED <<closed, decisions>> /\ TurnKeeps
Spoken ==
  /\ turn.pc = "speaking"
  /\ \/ Emit(Event("assistant", 0)) /\ turn' = [turn EXCEPT !.pc = "thinking"]
     \/ turn' = [turn EXCEPT !.pc = "failing"] /\ UNCHANGED stream \* the model's answer breaks off
  /\ UNCHANGED <<closed, decisions, used>> /\ TurnKeeps
StartCall ==
  /\ turn.pc = "thinking" /\ ~turn.cancelled /\ used.calls < MaxCalls
  /\ turn.kind = "prompt" \/ turn.call = 0
  /\ used' = [used EXCEPT !.calls = @ + 1]
  /\ Emit(Event("start", used'.calls))
  /\ \E next \in {"asking", "returning"} : turn' = [turn EXCEPT !.call = used'.calls, !.pc = next]
  /\ UNCHANGED <<closed, decisions>> /\ TurnKeeps
Ask ==
  /\ turn.pc = "asking" /\ Emit(Event("approval", turn.call))
  /\ turn' = [turn EXCEPT !.pc = "waiting"]
  /\ UNCHANGED <<closed, decisions, used>> /\ TurnKeeps

\* Mutant: a cancelled wait is taken for a yes.
HearCancelled ==
  /\ turn.pc = "waiting"
  /\ \/ turn.cancelled /\ turn' = [turn EXCEPT !.pc = "returning", !.yes = TRUE] /\ UNCHANGED decisions
     \/ /\ decisions # <<>> /\ decisions' = <<>>
        /\ turn' = [turn EXCEPT !.pc = "returning", !.yes = Head(decisions).yes]
  /\ UNCHANGED <<stream, closed, used>> /\ TurnKeeps

\* gate: a decision for another request is skipped; a call that gets a yes runs.
Hear ==
  /\ turn.pc = "waiting"
  /\ \/ turn.cancelled /\ turn' = [turn EXCEPT !.pc = "returning"] /\ UNCHANGED decisions
     \/ /\ decisions # <<>> /\ decisions' = <<>>
        /\ turn' = IF Head(decisions).call # turn.call THEN turn
                   ELSE [turn EXCEPT !.pc = "returning", !.yes = Head(decisions).yes]
  /\ UNCHANGED <<stream, closed, used>> /\ TurnKeeps

\* The record of the result may fail: the call then has no end event and the turn fails.
EndCall ==
  /\ turn.pc = "returning"
  /\ \/ /\ Emit(Event("end", turn.call))
        /\ turn' = [turn EXCEPT !.yes = FALSE, !.pc = IF turn.kind = "shell" THEN "closing" ELSE "thinking"]
     \/ turn' = [turn EXCEPT !.yes = FALSE, !.pc = "failing"] /\ UNCHANGED stream
  /\ UNCHANGED <<closed, decisions, used>> /\ TurnKeeps
FailTurn ==
  /\ turn.pc \in {"thinking", "failing"} /\ Emit(Event("error", 0))
  /\ turn' = [turn EXCEPT !.outcome = "failed", !.pc = IF turn.kind = "shell" THEN "closing" ELSE "done"]
  /\ UNCHANGED <<closed, decisions, used>> /\ TurnKeeps
\* A cancelled turn stops between two calls.
CutTurn ==
  /\ turn.pc = "thinking" /\ turn.cancelled
  /\ Emit(Event("interrupted", 0))
  /\ turn' = [turn EXCEPT !.outcome = "cut", !.pc = "done"]
  /\ UNCHANGED <<closed, decisions, used>> /\ TurnKeeps
EndTurn ==
  /\ turn.pc = "thinking" \/ turn.pc = "done"
  /\ Emit(Event("done", 0)) /\ turn' = [turn EXCEPT !.pc = "closing"]
  /\ UNCHANGED <<closed, decisions, used>> /\ TurnKeeps
CloseStream ==
  /\ turn.pc = "closing" /\ closed' = TRUE
  /\ turn' = [NoTurn EXCEPT !.pc = "over", !.cancelled = turn.cancelled,
                !.outcome = CASE turn.outcome # "none" -> turn.outcome [] turn.cancelled -> "cut" [] OTHER -> "ok"]
  /\ UNCHANGED <<stream, decisions, used>> /\ TurnKeeps
TurnStep ==
  \/ Speak \/ Spoken \/ StartCall \/ Ask \/ Hear \/ EndCall \/ FailTurn \/ CutTurn \/ EndTurn
  \/ CloseStream

(***************************************************************************)
(* The screen.                                                             *)
(***************************************************************************)
Free == ui.pc = "free"
\* Bound: one oddity in a behaviour.
Oddity(name, happens) ==
  /\ happens => odd = {}
  /\ odd' = IF happens THEN {name} ELSE odd
\* No overlay takes the key.
Bare == Free /\ ui.overlay = "none" /\ ui.pending = 0
ScreenKeeps == UNCHANGED approved

\* startTurn and runShell, on a screen that has `screen` as its fields.
Start(kind, screen) ==
  /\ used.turns < MaxTurns /\ used' = [used EXCEPT !.turns = @ + 1]
  /\ turn' = [NoTurn EXCEPT !.pc = "thinking", !.kind = kind]
  /\ ui' = [screen EXCEPT !.running = TRUE, !.failed = FALSE, !.interrupting = FALSE, !.listening = TRUE]
  /\ at' = 0 /\ stream' = <<>> /\ closed' = FALSE /\ decisions' = <<>>

\* submit: a prompt waits for the turn that runs, a shell line is refused then.
Submit ==
  /\ Bare /\ ~ui.running /\ \E kind \in {"prompt", "shell"} : Start(kind, ui)
  /\ UNCHANGED <<queue, cards, odd>> /\ ScreenKeeps
FollowUp ==
  /\ Bare /\ ui.running /\ queue < MaxQueue /\ used.turns + queue < MaxTurns /\ queue' = queue + 1
  /\ UNCHANGED <<ui, cards, at, turn, stream, closed, decisions, used, odd>> /\ ScreenKeeps
\* "/clear" empties the transcript and leaves runningToolIdx, which matters under a running tool.
Clear ==
  /\ Bare /\ at # 0 /\ cards' = <<>>
  /\ Oddity("clear", TRUE)
  /\ UNCHANGED <<ui, queue, at, turn, stream, closed, decisions, used>> /\ ScreenKeeps

\* An editor or an IDE over an idle screen hides nothing of a turn and is left out.
ShowEditor ==
  /\ Bare /\ ui.running /\ ui' = [ui EXCEPT !.overlay = "editor"]
  /\ UNCHANGED <<queue, cards, at, turn, stream, closed, decisions, used, odd>> /\ ScreenKeeps
\* ctrl+s: the write is executed here and now, and waits for the lane the turn holds.
SaveEditor ==
  /\ Free /\ ui.overlay = "editor" /\ ui' = [ui EXCEPT !.pc = "saving"]
  /\ Oddity("held", ~Over)
  /\ UNCHANGED <<queue, cards, at, turn, stream, closed, decisions, used>> /\ ScreenKeeps
Saved ==
  /\ ui.pc = "saving" /\ Over
  /\ LET shown == [ui EXCEPT !.pc = "free", !.overlay = "none"] IN
     \/ ui' = [ui EXCEPT !.pc = "free"] /\ UNCHANGED <<queue, at, turn, stream, closed, decisions, used>>
     \/ /\ ~ui.running /\ Start("prompt", shown) /\ UNCHANGED queue
     \/ /\ ui.running /\ ui' = shown /\ queue < MaxQueue /\ used.turns + queue < MaxTurns
        /\ queue' = queue + 1
        /\ UNCHANGED <<at, turn, stream, closed, decisions, used>>
  /\ UNCHANGED <<cards, odd>> /\ ScreenKeeps
LeaveEditor ==
  /\ Free /\ ui.overlay = "editor" /\ ui' = [ui EXCEPT !.overlay = "none"]
  /\ UNCHANGED <<queue, cards, at, turn, stream, closed, decisions, used, odd>> /\ ScreenKeeps

\* ctrl+g asks for the turn to end first, "/ide" does not.
OpenIDE ==
  /\ Bare /\ ui.running /\ ui' = [ui EXCEPT !.overlay = "ide"]
  /\ Oddity("hidden", TRUE)
  /\ UNCHANGED <<queue, cards, at, turn, stream, closed, decisions, used>> /\ ScreenKeeps
LeaveIDE ==
  /\ Free /\ ui.overlay = "ide" /\ ui' = [ui EXCEPT !.overlay = "none"]
  /\ UNCHANGED <<queue, cards, at, turn, stream, closed, decisions, used, odd>> /\ ScreenKeeps

Interrupt ==
  /\ Bare /\ ui.running /\ ~turn.cancelled
  /\ ui' = [ui EXCEPT !.interrupting = TRUE] /\ turn' = [turn EXCEPT !.cancelled = TRUE]
  /\ UNCHANGED <<queue, cards, at, stream, closed, decisions, used, odd>> /\ ScreenKeeps

\* Mutant: the card stays after the answer.
DecideKeepsCard(yes) ==
  /\ Free /\ ui.overlay = "none" /\ ui.pending # 0 /\ decisions = <<>>
  /\ decisions' = <<[call |-> ui.pending, yes |-> yes]>>
  /\ approved' = IF yes THEN ui.pending ELSE 0
  /\ UNCHANGED <<ui, queue, cards, at, turn, stream, closed, used, odd>>

\* handleApprovalKey.  The send waits for room in the channel.
Decide(yes) ==
  /\ Free /\ ui.overlay = "none" /\ ui.pending # 0 /\ decisions = <<>>
  /\ decisions' = <<[call |-> ui.pending, yes |-> yes]>>
  /\ approved' = IF yes THEN ui.pending ELSE 0
  /\ ui' = [ui EXCEPT !.pending = 0]
  /\ UNCHANGED <<queue, cards, at, turn, stream, closed, used, odd>>

\* selectCandidate: the runtime of the other worker is closed, which cancels its turn and
\* waits for it; the screen shows a new session.
SelectCandidate ==
  /\ Bare /\ ui.mode = "select"
  /\ ui' = [ui EXCEPT !.pc = "selecting", !.mode = "operate"]
  /\ turn' = [turn EXCEPT !.cancelled = @ \/ ~Over]
  /\ Oddity("switch", ui.running)
  /\ UNCHANGED <<queue, cards, at, stream, closed, decisions, used>> /\ ScreenKeeps
Selected ==
  /\ ui.pc = "selecting" /\ Over
  /\ ui' = [ui EXCEPT !.pc = "free"] /\ cards' = <<>>
  /\ UNCHANGED <<queue, at, turn, stream, closed, decisions, used, odd>> /\ ScreenKeeps

\* ctrl+c; RunOperate cancels the turn and closes the runtime.
Quit ==
  /\ Free /\ ui' = [ui EXCEPT !.pc = "quit"] /\ turn' = [turn EXCEPT !.cancelled = @ \/ ~Over]
  /\ queue' = 0 /\ cards' = <<>> /\ at' = 0
  /\ UNCHANGED <<stream, closed, decisions, used, odd>> /\ ScreenKeeps

(***************************************************************************)
(* The stream: applyStream and handleStream.                               *)
(***************************************************************************)
Card(kind, c) == [kind |-> kind, open |-> TRUE, call |-> c, shows |-> 0]
Streaming == cards # <<>> /\ Last(cards).kind = "text" /\ Last(cards).open
\* StreamToolEnd: the card that runs gets the result.
ShowResult(c) ==
  /\ cards' = [i \in DOMAIN cards |->
                 IF i = at THEN [cards[i] EXCEPT !.open = IF @ /\ cards[i].kind = "text" THEN @ ELSE FALSE,
                                                 !.shows = c] ELSE cards[i]]
  /\ at' = 0
\* appendDelta and finalizeAssistant.
ShowText(open) ==
  /\ cards' = IF Streaming THEN [cards EXCEPT ![Len(cards)].open = open]
              ELSE Append(cards, [Card("text", 0) EXCEPT !.open = open])
  /\ UNCHANGED at
Apply(e) ==
  CASE e.kind = "start" -> cards' = Append(cards, Card("tool", e.call)) /\ at' = Len(cards') /\ UNCHANGED ui
    [] e.kind = "end" -> ShowResult(e.call) /\ UNCHANGED ui
    [] e.kind = "delta" -> ShowText(TRUE) /\ UNCHANGED ui
    [] e.kind = "assistant" -> ShowText(FALSE) /\ UNCHANGED ui
    [] e.kind = "approval" -> ui' = [ui EXCEPT !.pending = e.call] /\ UNCHANGED <<cards, at>>
    [] e.kind = "error" -> ui' = [ui EXCEPT !.failed = TRUE] /\ UNCHANGED <<cards, at>>
    [] e.kind = "interrupted" -> ui' = [ui EXCEPT !.interrupting = TRUE] /\ UNCHANGED <<cards, at>>
    [] OTHER -> ui' = [ui EXCEPT !.pending = 0] /\ UNCHANGED <<cards, at>>

Receive ==
  /\ Free /\ ui.overlay # "ide" /\ ui.listening /\ stream # <<>>
  /\ Apply(Head(stream)) /\ stream' = Tail(stream)
  /\ UNCHANGED <<queue, turn, closed, decisions, used, odd>> /\ ScreenKeeps

\* Mutant: an unfinished card is left as it is.
SettleNothing == cards
Settle == [i \in DOMAIN cards |-> [cards[i] EXCEPT !.open = FALSE]]
\* Mutant: an interrupted turn counts as ended well.
EndedWellIfCut == ~ui.failed /\ ui.pending = 0 /\ \A i \in DOMAIN cards : ~cards[i].open
EndedWell ==
  /\ ~ui.failed /\ ~ui.interrupting /\ ui.pending = 0
  /\ \A i \in DOMAIN cards : ~cards[i].open

\* The channel was closed: open cards are settled, and the first follow-up starts or all are
\* dropped.
StreamEnds ==
  LET shown == [ui EXCEPT !.running = FALSE, !.pending = 0, !.failed = FALSE, !.interrupting = FALSE,
                          !.listening = FALSE] IN
  /\ Free /\ ui.overlay # "ide" /\ ui.listening /\ stream = <<>> /\ closed
  /\ cards' = Settle
  /\ IF queue > 0 /\ EndedWell
     THEN Start("prompt", shown) /\ queue' = queue - 1
     ELSE ui' = shown /\ queue' = 0 /\ at' = 0 /\ UNCHANGED <<turn, stream, closed, decisions, used>>
  /\ UNCHANGED odd /\ ScreenKeeps
\* Update while the IDE is shown: the message goes there, and nobody asks for the next one.
LoseMessage ==
  /\ Free /\ ui.overlay = "ide" /\ ui.listening /\ (stream # <<>> \/ closed)
  /\ ui' = [ui EXCEPT !.listening = FALSE]
  /\ stream' = IF stream = <<>> THEN stream ELSE Tail(stream)
  /\ UNCHANGED <<queue, cards, at, turn, closed, decisions, used, odd>> /\ ScreenKeeps
Key ==
  \/ Submit \/ FollowUp \/ Clear \/ ShowEditor \/ SaveEditor \/ LeaveEditor \/ OpenIDE \/ LeaveIDE
  \/ Interrupt \/ Decide(TRUE) \/ Decide(FALSE) \/ SelectCandidate \/ Quit
ScreenStep == Receive \/ StreamEnds \/ LoseMessage \/ Saved \/ Selected
CockpitNext == TurnStep \/ Key \/ ScreenStep

\* The turn's goroutine runs and a message that waits is handled between the keys; nothing is
\* assumed of the operator.
CockpitFairness ==
  WF_cockpitVars(TurnStep) /\ WF_cockpitVars(Saved \/ Selected) /\ SF_cockpitVars(Receive \/ StreamEnds)
CockpitSpec == CockpitInit /\ [][CockpitNext]_cockpitVars /\ CockpitFairness

CockpitTypeOK ==
  /\ ui \in [pc : {"free", "saving", "selecting", "quit"}, overlay : {"none", "editor", "ide"},
             mode : {"operate", "select"}, running : BOOLEAN, pending : 0..MaxCalls, failed : BOOLEAN,
             interrupting : BOOLEAN, listening : BOOLEAN]
  /\ queue \in 0..MaxQueue /\ at \in 0..Len(cards) + MaxCalls /\ Len(stream) <= Buffer
  /\ \A i \in DOMAIN cards : cards[i].kind \in {"tool", "text"} /\ cards[i].call \in 0..MaxCalls
  /\ Len(decisions) <= 1 /\ approved \in 0..MaxCalls
  /\ odd \subseteq {"clear", "switch", "hidden", "held"}

(***************************************************************************)
(* Properties.                                                             *)
(***************************************************************************)
\* A gated call runs only when the operator said yes to that very call (executor.go gate,
\* operate.go handleApprovalKey).
RanIsApproved == [][turn'.yes /\ ~turn.yes => approved = turn.call]_cockpitVars

\* The screen never stalls on a decision: as long as a card asks, the channel has room, and
\* the call it asks for is waiting unless its turn was cancelled.
DecisionFits ==
  ui.pending # 0 => decisions = <<>> /\ (turn.cancelled \/ (turn.pc = "waiting" /\ turn.call = ui.pending))

\* When no turn runs, no card looks as if it did, and a result stands on the card of its call
\* (settleOpenBlocks, runningToolIdx) - "/clear" under a running tool breaks the second.
CardsAreTrue ==
  /\ ~ui.running => \A i \in DOMAIN cards : ~cards[i].open
  /\ odd \cap {"clear", "switch"} = {} => \A i \in DOMAIN cards : cards[i].shows \in {0, cards[i].call}

\* A follow-up starts only after a turn that really ended well, unless the operator switched
\* to another worker under it (handleStream).
FollowUpAfterSuccess ==
  [][queue' < queue /\ used'.turns > used.turns => "switch" \in odd \/ turn.outcome = "ok"]_cockpitVars

\* A cancelled turn ends, and leaves the screen unless the IDE was opened or the editor saved
\* over it (operate.go Update, saveEditor).
CancelledTurnEnds ==
  /\ []<>(turn.cancelled => Over)
  /\ []<>(turn.cancelled => \/ ~ui.running \/ ui.pc = "quit" \/ ui.overlay = "ide"
                            \/ odd \cap {"hidden", "held"} # {})
=============================================================================
