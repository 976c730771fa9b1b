--------------------------- MODULE LanguageClient ---------------------------
(***************************************************************************)
(* The language server client (internal/lsp/client.go) and the screen that *)
(* holds it (internal/tui/ide/model.go): the gopls processes the IDE       *)
(* started, the calls that wait for an answer, and the goroutines that     *)
(* bring diagnostics to the screen.  A diagnostic is its number in the     *)
(* order of publication.                                                   *)
(***************************************************************************)
EXTENDS Integers, Sequences, SequencesExt

CONSTANTS MaxServers, \* bound: gopls processes started
          MaxCalls,   \* bound: calls that wait at once
          MaxDiags,   \* bound: diagnostics published
          Cap         \* capacity of the diagnostics channel, 16 in the code

VARIABLES
  ide,       \* the screen: [pc, client]; client 0 is none
  server,    \* each gopls: "none", "starting", "announced", "running", "retiring" or "dead"
  drained,   \* the servers whose dispatch goroutine ended
  calls,     \* the calls in flight: [pc, on]
  diags,     \* the diagnostics channel of each client
  published, \* the newest diagnostic
  listeners, \* listenDiag goroutines: [on, holds]
  shown,     \* the diagnostic on the screen
  odd        \* history: "twice", "left", "replaced"; see the properties

lspVars == <<ide, server, drained, calls, diags, published, listeners, shown, odd>>
Servers == 1..MaxServers
LSPConstants == {MaxServers, MaxCalls, Cap} \subseteq Nat \ {0} /\ MaxDiags \in Nat

LSPInit ==
  /\ ide = [pc |-> "open", client |-> 0]
  /\ server = [s \in Servers |-> IF s = 1 THEN "starting" ELSE "none"]
  /\ drained = {} /\ calls = <<>> /\ diags = [s \in Servers |-> <<>>] /\ published = 0
  /\ listeners = <<>> /\ shown = 0 /\ odd = {}

Here == ide.pc # "gone"
Alive(s) == server[s] \in {"starting", "announced", "running", "retiring"}
Connecting == \E s \in Servers : server[s] \in {"starting", "announced"}
Note(name, happens) == odd' = IF happens THEN odd \cup {name} ELSE odd

(***************************************************************************)
(* Client.call and dispatch.                                               *)
(***************************************************************************)
CallsKeep == UNCHANGED <<ide, server, diags, published, listeners, shown, odd>>
Ask ==
  /\ Here /\ ide.client # 0 /\ Len(calls) < MaxCalls
  /\ calls' = Append(calls, [pc |-> "registered", on |-> ide.client])
  /\ CallsKeep /\ UNCHANGED drained
\* The request is written after its channel was registered; the pipe of a dead server breaks.
Write(i) ==
  /\ calls[i].pc = "registered"
  /\ calls' = [calls EXCEPT ![i].pc = IF Alive(calls[i].on) THEN "written" ELSE "failed"]
  /\ CallsKeep /\ UNCHANGED drained
Answer(i) ==
  /\ calls[i].pc = "written" /\ Alive(calls[i].on) /\ calls' = [calls EXCEPT ![i].pc = "answered"]
  /\ CallsKeep /\ UNCHANGED drained
Return(i) ==
  /\ calls[i].pc \in {"answered", "closed", "failed"} /\ calls' = RemoveAt(calls, i)
  /\ CallsKeep /\ UNCHANGED drained
\* Mutant: the dispatcher leaves the waiting calls alone when the pipe closes.
DrainLeaves(s) ==
  /\ server[s] = "dead" /\ s \notin drained /\ drained' = drained \cup {s}
  /\ CallsKeep /\ UNCHANGED calls
\* dispatch at the end of the pipe.
Drain(s) ==
  /\ server[s] = "dead" /\ s \notin drained /\ drained' = drained \cup {s}
  /\ calls' = [i \in DOMAIN calls |-> IF calls[i].on = s /\ calls[i].pc = "written"
                                      THEN [calls[i] EXCEPT !.pc = "closed"] ELSE calls[i]]
  /\ CallsKeep

(***************************************************************************)
(* The servers.                                                            *)
(***************************************************************************)
\* lsp.New and DidOpen.
Connect(s) ==
  /\ server[s] = "starting" /\ \E how \in {"announced", "dead"} : server' = [server EXCEPT ![s] = how]
  /\ UNCHANGED <<ide, drained, calls, diags, published, listeners, shown, odd>>
\* Mutant: two goroutines listen to one client.
ReadyListensTwice(s) ==
  /\ server[s] = "announced" /\ server' = [server EXCEPT ![s] = "running"]
  /\ IF Here THEN /\ ide' = [ide EXCEPT !.client = s]
                  /\ listeners' = listeners \o <<[on |-> s, holds |-> 0], [on |-> s, holds |-> 0]>>
                  /\ Note("replaced", listeners # <<>>)
             ELSE UNCHANGED <<ide, listeners, odd>>
  /\ UNCHANGED <<drained, calls, diags, published, shown>>
\* lspReadyMsg: the screen takes the client and starts to listen; after ExitMsg nobody does.
Ready(s) ==
  /\ server[s] = "announced" /\ server' = [server EXCEPT ![s] = "running"]
  /\ IF Here THEN /\ ide' = [ide EXCEPT !.client = s]
                  /\ listeners' = Append(listeners, [on |-> s, holds |-> 0])
                  /\ Note("replaced", listeners # <<>>)
             ELSE UNCHANGED <<ide, listeners, odd>>
  /\ UNCHANGED <<drained, calls, diags, published, shown>>
NextServer(s) == server[s] = "none" /\ \A t \in Servers : t < s => server[t] # "none"
\* Mutant: the client that is replaced is not shut down.
RetryForgets(s) ==
  /\ Here /\ NextServer(s) /\ Note("twice", Connecting)
  /\ server' = [server EXCEPT ![s] = "starting"] /\ ide' = [ide EXCEPT !.client = 0]
  /\ UNCHANGED <<drained, calls, diags, published, listeners, shown>>
\* "r": the old client is shut down beside the screen and a new one started.
Retry(s) ==
  /\ Here /\ NextServer(s) /\ Note("twice", Connecting)
  /\ server' = [t \in Servers |-> CASE t = s -> "starting"
                                    [] t = ide.client /\ Alive(t) -> "retiring" [] OTHER -> server[t]]
  /\ ide' = [ide EXCEPT !.client = 0]
  /\ UNCHANGED <<drained, calls, diags, published, listeners, shown>>
\* Shutdown, or a server that ends on its own.
Die(s) ==
  /\ server[s] \in {"running", "retiring"} /\ server' = [server EXCEPT ![s] = "dead"]
  /\ UNCHANGED <<ide, drained, calls, diags, published, listeners, shown, odd>>
\* ctrl+q, and ExitMsg when the shutdown returned or timed out; keys are handled until then.
Leave ==
  /\ ide.pc = "open" /\ ide' = [ide EXCEPT !.pc = "leaving"]
  /\ server' = [t \in Servers |-> IF t = ide.client /\ Alive(t) THEN "retiring" ELSE server[t]]
  /\ UNCHANGED <<drained, calls, diags, published, listeners, shown, odd>>
Exit ==
  /\ ide.pc = "leaving" /\ ide' = [ide EXCEPT !.pc = "gone"]
  /\ Note("left", Connecting \/ \E s \in Servers : server[s] = "running")
  /\ UNCHANGED <<server, drained, calls, diags, published, listeners, shown>>

\* dispatch never waits for the screen: a full channel drops what was published.
Publish(s) ==
  /\ Here /\ server[s] \in {"announced", "running"} /\ published < MaxDiags /\ published' = published + 1
  /\ diags' = [diags EXCEPT ![s] = IF Len(@) < Cap THEN Append(@, published + 1) ELSE @]
  /\ UNCHANGED <<ide, server, drained, calls, listeners, shown, odd>>
Listen(i) ==
  /\ listeners[i].holds = 0 /\ diags[listeners[i].on] # <<>>
  /\ listeners' = [listeners EXCEPT ![i].holds = Head(diags[listeners[i].on])]
  /\ diags' = [diags EXCEPT ![listeners[i].on] = Tail(@)]
  /\ UNCHANGED <<ide, server, drained, calls, published, shown, odd>>
\* diagMsg: the goroutine that brought it listens again, to the client of now.
Deliver(i) ==
  /\ listeners[i].holds # 0
  /\ shown' = IF Here THEN listeners[i].holds ELSE shown
  /\ listeners' = IF Here /\ ide.client # 0 THEN [listeners EXCEPT ![i] = [on |-> ide.client, holds |-> 0]]
                  ELSE RemoveAt(listeners, i)
  /\ UNCHANGED <<ide, server, drained, calls, diags, published, odd>>

CallStep == \E i \in DOMAIN calls : Write(i) \/ Return(i)
LSPNext ==
  \/ Ask \/ CallStep \/ Leave \/ Exit
  \/ \E i \in DOMAIN calls : Answer(i)
  \/ \E i \in DOMAIN listeners : Listen(i) \/ Deliver(i)
  \/ \E s \in Servers : Drain(s) \/ Connect(s) \/ Ready(s) \/ Retry(s) \/ Die(s) \/ Publish(s)

\* The goroutines of the calls and the dispatchers run.
LSPFairness == WF_lspVars(CallStep) /\ WF_lspVars(\E s \in Servers : Drain(s))
LSPSpec == LSPInit /\ [][LSPNext]_lspVars /\ LSPFairness

LSPTypeOK ==
  /\ ide \in [pc : {"open", "leaving", "gone"}, client : 0..MaxServers]
  /\ server \in [Servers -> {"none", "starting", "announced", "running", "retiring", "dead"}]
  /\ drained \subseteq Servers /\ Len(calls) <= MaxCalls
  /\ published \in 0..MaxDiags /\ shown \in 0..MaxDiags
  /\ odd \subseteq {"twice", "left", "replaced"}

(***************************************************************************)
(* Properties.                                                             *)
(***************************************************************************)
\* A gopls that runs is the one the screen holds, or was asked to stop, unless "r" was pressed
\* while one was connecting or the screen left meanwhile (model.go "r", ctrl+q, lspReadyMsg).
NoOrphanServer ==
  odd \cap {"twice", "left"} = {} => \A s \in Servers : server[s] = "running" => ide.client = s

\* The diagnostics on the screen never go back to older ones, unless a client was replaced under
\* a listener or "r" was pressed while one was connecting (model.go listenDiag, diagMsg).
ShownGoesForward == [][shown' < shown => odd' \cap {"twice", "replaced"} # {}]_lspVars

\* A call ends when its server died, wherever the call was when the pipe closed
\* (client.go call, dispatch).
CallsReturn ==
  \A s \in Servers : []<>(server[s] = "dead" => \A i \in DOMAIN calls : calls[i].on # s)
=============================================================================
