----------------------------- MODULE WorkerIDE -----------------------------
(***************************************************************************)
(* The editor of the worker IDE (internal/tui/ide/model.go): one buffer on *)
(* one file, the text its gopls was told, the popup of completions, the    *)
(* answers that come while the operator goes on typing, and the audits a   *)
(* save starts.  A text is its number in the order of edits.               *)
(***************************************************************************)
EXTENDS Integers, Sequences, SequencesExt

CONSTANTS MaxText,    \* bound: texts of the buffer
          MaxRetries, \* bound: gopls started again
          MaxCalls    \* bound: calls that wait at once

VARIABLES
  buffer,  \* [text, dirty]
  disk,    \* the text on disk
  last,    \* the newest text
  gopls,   \* [pc, told, retries]: "connecting", "ready" or "none", the text it was told
  popup,   \* [open, for]: the texts its gopls items are for
  calls,   \* calls in flight: [kind, pc, at]
  audits,  \* audits in flight, oldest first: [done, of]
  verdict, \* the text the audit on the screen is about
  odd      \* history: "late", "overtaken", "under"; see the properties

ideVars == <<buffer, disk, last, gopls, popup, calls, audits, verdict, odd>>
IDEConstants == {MaxText, MaxCalls} \subseteq Nat \ {0} /\ MaxRetries \in Nat
NoPopup == [open |-> FALSE, for |-> {}]

IDEInit ==
  /\ buffer = [text |-> 1, dirty |-> FALSE] /\ disk = 1 /\ last = 1
  /\ \E pc \in {"connecting", "none"} : gopls = [pc |-> pc, told |-> 1, retries |-> 0]
  /\ popup = NoPopup /\ calls = <<>> /\ audits = <<>> /\ verdict = 0 /\ odd = {}

Note(name, happens) == odd' = IF happens THEN odd \cup {name} ELSE odd
\* DidChange and DidOpen, when the screen holds a client.
Tell(text) == gopls' = IF gopls.pc = "ready" THEN [gopls EXCEPT !.told = text] ELSE gopls
Connecting == gopls.pc = "connecting"

(***************************************************************************)
(* The editor.  Any key but those of the popup closes it.                  *)
(***************************************************************************)
Type ==
  /\ last < MaxText /\ last' = last + 1
  /\ buffer' = [text |-> last + 1, dirty |-> TRUE] /\ popup' = NoPopup
  /\ UNCHANGED <<disk, gopls, calls, audits, verdict, odd>>
\* The tree, a jump back: the buffer is what the disk has.
Open ==
  /\ buffer' = [text |-> disk, dirty |-> FALSE] /\ Tell(disk) /\ popup' = NoPopup
  /\ Note("late", Connecting) /\ UNCHANGED <<disk, last, calls, audits, verdict>>
\* Mutant: gopls hears nothing of a save.
SaveUntold ==
  /\ Len(audits) < 2
  /\ disk' = buffer.text /\ buffer' = [buffer EXCEPT !.dirty = FALSE] /\ popup' = NoPopup
  /\ audits' = Append(audits, [done |-> FALSE, of |-> 0])
  /\ Note("late", Connecting) /\ UNCHANGED <<last, gopls, calls, verdict>>
\* Mutant: a save is audited only when no audit is under way.
SaveUnaudited ==
  /\ Len(audits) < 2
  /\ disk' = buffer.text /\ buffer' = [buffer EXCEPT !.dirty = FALSE] /\ Tell(buffer.text)
  /\ popup' = NoPopup /\ audits' = IF audits = <<>> THEN <<[done |-> FALSE, of |-> 0]>> ELSE audits
  /\ Note("late", Connecting) /\ UNCHANGED <<last, calls, verdict>>
\* ctrl+s: the governed write, then an audit beside the screen; a refused write changes nothing.
Save ==
  /\ Len(audits) < 2
  /\ disk' = buffer.text /\ buffer' = [buffer EXCEPT !.dirty = FALSE] /\ Tell(buffer.text)
  /\ popup' = NoPopup /\ audits' = Append(audits, [done |-> FALSE, of |-> 0])
  /\ Note("late", Connecting) /\ UNCHANGED <<last, calls, verdict>>
AuditRuns(i) ==
  /\ ~audits[i].done /\ audits' = [audits EXCEPT ![i] = [done |-> TRUE, of |-> disk]]
  /\ UNCHANGED <<buffer, disk, last, gopls, popup, calls, verdict, odd>>
\* auditMsg.
AuditReports(i) ==
  /\ audits[i].done /\ audits' = RemoveAt(audits, i) /\ verdict' = audits[i].of
  /\ Note("overtaken", \E j \in DOMAIN audits : audits[j].done /\ audits[j].of < audits[i].of)
  /\ UNCHANGED <<buffer, disk, last, gopls, popup, calls>>

(***************************************************************************)
(* Calls: ctrl+space, ctrl+k and ctrl+].                                   *)
(***************************************************************************)
CallsKeep == UNCHANGED <<disk, last, audits, verdict>>
\* Completion opens the popup with the snippets it has and asks gopls beside it.
Ask(kind) ==
  /\ gopls.pc = "ready" /\ Len(calls) < MaxCalls
  /\ calls' = Append(calls, [kind |-> kind, pc |-> "asked", at |-> 0])
  /\ popup' = [open |-> kind = "complete", for |-> {}]
  /\ Note("late", kind = "complete" /\ \E i \in DOMAIN calls : calls[i].kind = "complete")
  /\ CallsKeep /\ UNCHANGED <<buffer, gopls>>
\* The server answers for the text it knows; a call on a server that was replaced fails.
Answer(i) ==
  /\ calls[i].pc = "asked"
  /\ \/ gopls.pc = "ready" /\ calls' = [calls EXCEPT ![i].pc = "answered", ![i].at = gopls.told]
     \/ calls' = [calls EXCEPT ![i].pc = "failed"]
  /\ CallsKeep /\ UNCHANGED <<buffer, gopls, popup, odd>>
\* completeMsg, hoverMsg and defMsg.  A definition replaces the buffer, saved or not.
ReturnCompletion(i) ==
  /\ calls[i].kind = "complete" /\ calls[i].pc = "answered" /\ calls' = RemoveAt(calls, i)
  /\ popup' = IF popup.open THEN [popup EXCEPT !.for = @ \cup {calls[i].at}] ELSE popup
  /\ CallsKeep /\ UNCHANGED <<buffer, gopls, odd>>
ReturnDefinition(i) ==
  /\ calls[i].kind = "definition" /\ calls[i].pc = "answered" /\ calls' = RemoveAt(calls, i)
  /\ buffer' = [text |-> disk, dirty |-> FALSE] /\ Tell(disk)
  /\ Note(IF Connecting THEN "late" ELSE "under", Connecting \/ popup.open)
  /\ CallsKeep /\ UNCHANGED popup
ReturnNothing(i) ==
  /\ calls[i].pc = "failed" /\ calls' = RemoveAt(calls, i)
  /\ CallsKeep /\ UNCHANGED <<buffer, gopls, popup, odd>>
\* Mutant: the popup stays open after an item was taken.
AcceptKeepsPopup ==
  /\ popup.open /\ last < MaxText /\ last' = last + 1
  /\ buffer' = [text |-> last + 1, dirty |-> TRUE] /\ Tell(last + 1)
  /\ UNCHANGED <<popup, disk, calls, audits, verdict, odd>>
\* acceptCompletion: the edits of the item, and gopls is told.
Accept ==
  /\ popup.open /\ last < MaxText /\ last' = last + 1
  /\ buffer' = [text |-> last + 1, dirty |-> TRUE] /\ Tell(last + 1)
  /\ popup' = NoPopup
  /\ UNCHANGED <<disk, calls, audits, verdict, odd>>

\* "r": a new gopls is told the text of this moment.
Retry ==
  /\ gopls.pc # "connecting" /\ gopls.retries < MaxRetries
  /\ gopls' = [pc |-> "connecting", told |-> buffer.text, retries |-> gopls.retries + 1]
  /\ popup' = NoPopup /\ calls' = [i \in DOMAIN calls |-> [calls[i] EXCEPT !.pc = IF @ = "asked" THEN "failed" ELSE @]]
  /\ CallsKeep /\ UNCHANGED <<buffer, odd>>
\* lspReadyMsg.
Ready ==
  /\ Connecting /\ \E pc \in {"ready", "none"} : gopls' = [gopls EXCEPT !.pc = pc]
  /\ CallsKeep /\ UNCHANGED <<buffer, popup, calls, odd>>

IDENext ==
  \/ Type \/ Open \/ Save \/ Accept \/ Retry \/ Ready
  \/ \E kind \in {"complete", "definition"} : Ask(kind)
  \/ \E i \in DOMAIN audits : AuditRuns(i) \/ AuditReports(i)
  \/ \E i \in DOMAIN calls : Answer(i) \/ ReturnCompletion(i) \/ ReturnDefinition(i) \/ ReturnNothing(i)
IDESpec == IDEInit /\ [][IDENext]_ideVars

IDETypeOK ==
  /\ buffer \in [text : 1..MaxText, dirty : BOOLEAN] /\ disk \in 1..MaxText /\ last \in 1..MaxText
  /\ gopls \in [pc : {"connecting", "ready", "none"}, told : 1..MaxText, retries : 0..MaxRetries]
  /\ popup.open \in BOOLEAN /\ popup.for \subseteq 1..MaxText
  /\ Len(calls) <= MaxCalls /\ Len(audits) <= 2 /\ verdict \in 0..MaxText
  /\ odd \subseteq {"late", "overtaken", "under"}

(***************************************************************************)
(* Properties.                                                             *)
(***************************************************************************)
\* gopls knows a clean buffer, except for what was saved or opened while it was connecting
\* (model.go ctrl+s, openTreeSelection, defMsg; only saves, openings and taken items are told).
CleanIsKnown ==
  /\ ~buffer.dirty => buffer.text = disk
  /\ (~buffer.dirty /\ "late" \notin odd /\ gopls.pc = "ready") => gopls.told = disk

\* The audit on the screen, when none is under way, is about the text on disk, unless the
\* reports of two saves overtook each other (model.go runAudit, auditMsg).
AuditIsOfDisk == (audits = <<>> /\ verdict # 0 /\ "overtaken" \notin odd) => verdict = disk

\* When gopls knows the buffer, the items it offers fit it, unless a late answer joined a popup
\* opened later or a definition replaced the buffer under it (model.go completeMsg, defMsg).
ItemsFit ==
  (odd \cap {"late", "under"} = {} /\ gopls.pc = "ready" /\ gopls.told = buffer.text) =>
    popup.for \subseteq {buffer.text}
=============================================================================
