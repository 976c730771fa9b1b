----------------------------- MODULE MCPlatform -----------------------------
(***************************************************************************)
(* The parts below and beside the runs of a worker that share no variable  *)
(* - the stores, the models and drivers, the declaration and the tools of  *)
(* a step, the views of events, the start and stop of a worker, the admin  *)
(* triggers and the screens -, checked in one run: each behaviour runs the *)
(* part `chosen` names, the others stand in their initial state.           *)
(*                                                                         *)
(* The screens of an operator come first, each with its inductive          *)
(* invariant and what it gives the properties checked of it; the stores    *)
(* and the views have theirs in StoreProofs.                               *)
(***************************************************************************)
EXTENDS StoreProofs, TLC

\* t is s without its i-th element.
Without(s, i, t) ==
  /\ Len(t) = Len(s) - 1
  /\ \A j \in 1..Len(t) : \E k \in 1..Len(s) : k # i /\ t[j] = s[k]
  /\ \A k \in 1..Len(s) : k # i => \E j \in 1..Len(t) : t[j] = s[k]
\* What RemoveAt of the sequence operators makes of a sequence.
LEMMA Removed ==
    ASSUME NEW S, NEW s \in Seq(S), NEW i \in 1..Len(s)
    PROVE  /\ SubSeq(s, 1, i - 1) \o SubSeq(s, i + 1, Len(s)) \in Seq(S)
           /\ Without(s, i, SubSeq(s, 1, i - 1) \o SubSeq(s, i + 1, Len(s)))
  <1> DEFINE n == Len(s)
             u == SubSeq(s, 1, i - 1)
             v == SubSeq(s, i + 1, n)
             t == u \o v
  <1>0. n \in Nat /\ i \in Int /\ 1 <= i /\ i <= n
    OBVIOUS
  <1>1. /\ i - 1 \in Nat /\ i + 1 \in 1..n + 1 /\ n - i \in Nat /\ n - 1 \in Nat
        /\ (i - 1) + (n - i) = n - 1 /\ i - 1 \in 0..n
    BY <1>0
  <1>2. u \in Seq(S) /\ Len(u) = i - 1 /\ \A j \in 1..i - 1 : u[j] = s[j]
    BY <1>0, <1>1, SubSeqProperties
  <1>3. v \in Seq(S) /\ Len(v) = n - i /\ \A j \in 1..n - i : v[j] = s[i + j]
    <2>1. CASE i = n
      <3>1. n + 1 > n
        BY <1>0
      <3> QED BY <1>0, <2>1, <3>1
    <2>2. CASE i < n
      <3>1. i + 1 \in 1..n /\ n \in i..n /\ n \in i + 1..n /\ n - (i + 1) + 1 = n - i
        BY <1>0, <2>2
      <3>2. v \in Seq(S) /\ Len(v) = n - i
        BY <1>0, <1>1, <3>1, SubSeqProperties
      <3>3. ASSUME NEW j \in 1..n - i PROVE v[j] = s[i + j]
        <4>1. i + 1 + j - 1 = i + j
          BY <1>0
        <4> QED BY <1>0, <1>1, <3>1, <4>1, SubSeqProperties
      <3> QED BY <3>2, <3>3
    <2> QED BY <1>0, <2>1, <2>2
  <1> HIDE DEF u, v
  <1>4. t \in Seq(S) /\ Len(t) = n - 1
    <2>1. t \in Seq(S) /\ Len(t) = Len(u) + Len(v)
      BY <1>2, <1>3, ConcatProperties
    <2> QED BY <1>1, <1>2, <1>3, <2>1
  <1>5. \A j \in 1..n - 1 : t[j] = IF j <= i - 1 THEN u[j] ELSE v[j - (i - 1)]
    BY <1>1, <1>2, <1>3, ConcatProperties
  <1> HIDE DEF t, n
  <1>6. ASSUME NEW j \in 1..n - 1 PROVE \E k \in 1..n : k # i /\ t[j] = s[k]
    <2>1. CASE j <= i - 1
      <3>1. j \in 1..i - 1 /\ j \in 1..n /\ j # i
        BY <1>0, <1>1, <2>1
      <3> QED BY <1>2, <1>5, <2>1, <3>1
    <2>2. CASE ~(j <= i - 1)
      <3>1. j - (i - 1) \in 1..n - i /\ j + 1 \in 1..n /\ j + 1 # i
            /\ i + (j - (i - 1)) = j + 1
        BY <1>0, <1>1, <2>2
      <3>2. t[j] = s[j + 1]
        BY <1>3, <1>5, <2>2, <3>1
      <3> QED BY <3>1, <3>2
    <2> QED BY <2>1, <2>2
  <1>7. ASSUME NEW k \in 1..n, k # i PROVE \E j \in 1..n - 1 : t[j] = s[k]
    <2>1. CASE k < i
      <3>1. k \in 1..i - 1 /\ k \in 1..n - 1 /\ k <= i - 1
        BY <1>0, <1>1, <2>1
      <3> QED BY <1>2, <1>5, <3>1
    <2>2. CASE k > i
      <3>1. k - 1 \in 1..n - 1 /\ ~(k - 1 <= i - 1) /\ (k - 1) - (i - 1) \in 1..n - i
            /\ i + ((k - 1) - (i - 1)) = k
        BY <1>0, <1>1, <2>2
      <3>2. t[k - 1] = s[k]
        BY <1>3, <1>5, <3>1
      <3> QED BY <3>1, <3>2
    <2> QED BY <1>0, <1>7, <2>1, <2>2
  <1>8. t = SubSeq(s, 1, i - 1) \o SubSeq(s, i + 1, Len(s))
    BY DEF t, u, v, n
  <1>9. t \in Seq(S) /\ Without(s, i, t)
    BY <1>4, <1>6, <1>7 DEF n, Without
  <1> QED BY <1>8, <1>9

(***************************************************************************)
(* The editor (WorkerIDE).  While no oddity is noted, gopls knows a clean  *)
(* buffer, an audit that is done is not older than the verdict on screen,  *)
(* some audit under way will tell of the disk, and what an open popup      *)
(* offers, or is about to, is for the text gopls was told.                 *)
(***************************************************************************)
CONSTANTS IDETexts, IDERetries, IDECalls
VARIABLES iBuffer, iDisk, iLast, iGopls, iPopup, iCalls, iAudits, iVerdict, iOdd

IDE == INSTANCE WorkerIDE WITH
  MaxText <- IDETexts, MaxRetries <- IDERetries, MaxCalls <- IDECalls,
  buffer <- iBuffer, disk <- iDisk, last <- iLast, gopls <- iGopls, popup <- iPopup, calls <-
  iCalls, audits <- iAudits, verdict <- iVerdict, odd <- iOdd

idePart == <<iBuffer, iDisk, iLast, iGopls, iPopup, iCalls, iAudits, iVerdict, iOdd>>

Texts == 1..IDETexts
IDEBuffers == [text : Texts, dirty : BOOLEAN]
IDEGopls == [pc : {"connecting", "ready", "none"}, told : Texts, retries : 0..IDERetries]
IDEPopups == [open : BOOLEAN, for : SUBSET Texts]
IDECall ==
  {c \in [kind : {"complete", "definition"}, pc : {"asked", "answered", "failed"}, at : 0..IDETexts] :
     c.pc = "answered" => c.at \in Texts}
IDEAudit == [done : BOOLEAN, of : 0..IDETexts]
\* The editor, then what it waits for.
EditorTyped ==
  /\ iBuffer \in IDEBuffers /\ iDisk \in Texts /\ iLast \in Texts
  /\ iGopls \in IDEGopls /\ iPopup \in IDEPopups
  /\ iOdd \subseteq {"late", "overtaken", "under"}
CallsTyped == iCalls \in Seq(IDECall) /\ Len(iCalls) <= IDECalls
AuditsTyped == iAudits \in Seq(IDEAudit) /\ Len(iAudits) <= 2 /\ iVerdict \in 0..IDETexts
TextsInOrder == iDisk <= iBuffer.text /\ iBuffer.text <= iLast
GoplsKnows ==
  ~iBuffer.dirty =>
    /\ iBuffer.text = iDisk
    /\ "late" \notin iOdd /\ iGopls.pc # "none" => iGopls.told = iDisk
AuditsInOrder ==
  /\ iVerdict <= iDisk
  /\ \A i \in 1..Len(iAudits) : iAudits[i].done =>
       iAudits[i].of <= iDisk /\ ("overtaken" \notin iOdd => iVerdict <= iAudits[i].of)
DiskIsAudited ==
  "overtaken" \notin iOdd /\ (iVerdict # 0 \/ iAudits # <<>>) =>
    iVerdict = iDisk \/ \E i \in 1..Len(iAudits) : ~iAudits[i].done \/ iAudits[i].of = iDisk
OffersFit ==
  "late" \notin iOdd /\ "under" \notin iOdd =>
    /\ ~iPopup.open => iPopup.for = {}
    /\ iPopup.open =>
         /\ iPopup.for \subseteq {iGopls.told}
         /\ \A i \in 1..Len(iCalls) :
              iCalls[i].kind = "complete" /\ iCalls[i].pc = "answered" => iCalls[i].at = iGopls.told
IDEInv ==
  /\ IDE!IDEConstants /\ EditorTyped /\ CallsTyped /\ AuditsTyped /\ TextsInOrder /\ GoplsKnows
  /\ AuditsInOrder /\ DiskIsAudited /\ OffersFit

\* The editor opens on a clean file.
LEMMA IDEInvHolds == IDE!IDEConstants /\ IDE!IDEInit => IDEInv
  <1> SUFFICES ASSUME IDE!IDEConstants, IDE!IDEInit PROVE IDEInv
    OBVIOUS
  <1>1. 1 \in Texts /\ 0 \in 0..IDETexts /\ 0 \in 0..IDERetries /\ IDECalls \in Nat
    BY DEF IDE!IDEConstants, Texts
  <1>2. /\ iBuffer = [text |-> 1, dirty |-> FALSE] /\ iDisk = 1 /\ iLast = 1
        /\ iPopup = [open |-> FALSE, for |-> {}] /\ iCalls = <<>> /\ iAudits = <<>>
        /\ iVerdict = 0 /\ iOdd = {}
    BY DEF IDE!IDEInit, IDE!NoPopup
  <1>3. iGopls \in IDEGopls /\ iGopls.told = 1
    BY <1>1 DEF IDE!IDEInit, IDEGopls
  <1>4. EditorTyped /\ CallsTyped /\ AuditsTyped
    BY <1>1, <1>2, <1>3 DEF EditorTyped, CallsTyped, AuditsTyped, IDEBuffers, IDEPopups
  <1>5. TextsInOrder /\ GoplsKnows /\ AuditsInOrder /\ DiskIsAudited /\ OffersFit
    BY <1>2, <1>3 DEF TextsInOrder, GoplsKnows, AuditsInOrder, DiskIsAudited, OffersFit
  <1> QED BY <1>4, <1>5 DEF IDEInv

\* An oddity is noted and stays noted.
LEMMA IDENotes ==
    ASSUME NEW name \in {"late", "overtaken", "under"}, NEW happens \in BOOLEAN,
           iOdd \subseteq {"late", "overtaken", "under"}, IDE!Note(name, happens)
    PROVE  /\ iOdd' \subseteq {"late", "overtaken", "under"} /\ iOdd \subseteq iOdd'
           /\ happens => name \in iOdd'
  BY DEF IDE!Note

\* What gopls is told when it listens.
LEMMA IDETells ==
    ASSUME iGopls \in IDEGopls, NEW text \in Texts, IDE!Tell(text)
    PROVE  /\ iGopls' \in IDEGopls /\ iGopls'.pc = iGopls.pc
           /\ iGopls.pc = "ready" => iGopls'.told = text
           /\ iGopls.pc # "ready" => iGopls' = iGopls
  BY DEF IDE!Tell, IDEGopls

\* Where the popup closes and no call moves, nothing is offered.
LEMMA PopupCloses ==
    ASSUME iPopup' = IDE!NoPopup PROVE iPopup' \in IDEPopups /\ OffersFit'
  BY DEF IDE!NoPopup, IDEPopups, OffersFit

\* Keys that change the buffer: an edit, a file opened, an item taken.
LEMMA IDEEdits ==
    ASSUME IDEInv, IDE!Type \/ IDE!Open \/ IDE!Accept PROVE IDEInv'
  <1>0. /\ iBuffer \in IDEBuffers /\ iDisk \in Texts /\ iLast \in Texts /\ iGopls \in IDEGopls
        /\ iOdd \subseteq {"late", "overtaken", "under"} /\ iDisk <= iLast
        /\ iDisk \in Nat /\ iLast \in Nat /\ (iLast < IDETexts => iLast + 1 \in Texts)
        /\ iBuffer.text \in Texts /\ iBuffer.text \in Nat
    <2>1. /\ iBuffer \in IDEBuffers /\ iDisk \in Texts /\ iLast \in Texts
          /\ iGopls \in IDEGopls /\ iOdd \subseteq {"late", "overtaken", "under"}
          /\ iDisk <= iBuffer.text /\ iBuffer.text <= iLast
      BY DEF IDEInv, EditorTyped, TextsInOrder
    <2>2. iBuffer.text \in Texts
      BY <2>1 DEF IDEBuffers
    <2>3. IDETexts \in Nat
      BY DEF IDEInv, IDE!IDEConstants
    <2> QED BY <2>1, <2>2, <2>3 DEF Texts
  <1>1. /\ iPopup' = IDE!NoPopup /\ UNCHANGED <<iCalls, iAudits, iVerdict, iDisk>>
    BY DEF IDE!Type, IDE!Open, IDE!Accept
  <1>2. iPopup' \in IDEPopups /\ OffersFit'
    BY <1>1, PopupCloses
  <1>3. /\ iGopls' \in IDEGopls /\ iOdd' \subseteq {"late", "overtaken", "under"}
        /\ iOdd \subseteq iOdd' /\ GoplsKnows'
        /\ iBuffer' \in IDEBuffers /\ iLast' \in Texts
        /\ iDisk <= iBuffer'.text /\ iBuffer'.text <= iLast'
    <2>1. CASE IDE!Type \/ IDE!Accept
      <3>1. /\ iLast < IDETexts /\ iLast' = iLast + 1 /\ iOdd' = iOdd
            /\ iBuffer' = [text |-> iLast + 1, dirty |-> TRUE]
            /\ iGopls' = iGopls \/ IDE!Tell(iLast + 1)
        BY <2>1 DEF IDE!Type, IDE!Accept
      <3>2. iGopls' \in IDEGopls
        BY <1>0, <3>1, IDETells
      <3>3. iBuffer' \in IDEBuffers /\ iBuffer'.text = iLast + 1 /\ iBuffer'.dirty = TRUE
        BY <1>0, <3>1 DEF IDEBuffers
      <3> QED BY <1>0, <3>1, <3>2, <3>3 DEF GoplsKnows
    <2>2. CASE IDE!Open
      <3>1. /\ iBuffer' = [text |-> iDisk, dirty |-> FALSE] /\ IDE!Tell(iDisk)
            /\ IDE!Note("late", IDE!Connecting) /\ UNCHANGED <<iDisk, iLast>>
        BY <2>2 DEF IDE!Open
      <3>2. /\ iOdd' \subseteq {"late", "overtaken", "under"} /\ iOdd \subseteq iOdd'
            /\ (iGopls.pc = "connecting" => "late" \in iOdd')
        BY <1>0, <3>1, IDENotes DEF IDE!Connecting
      <3>3. /\ iGopls' \in IDEGopls /\ iGopls'.pc = iGopls.pc
            /\ iGopls.pc = "ready" => iGopls'.told = iDisk
        BY <1>0, <3>1, IDETells
      <3>4. iGopls.pc \in {"connecting", "ready", "none"}
        BY <1>0 DEF IDEGopls
      <3>5. iBuffer' \in IDEBuffers /\ iBuffer'.text = iDisk /\ iBuffer'.dirty = FALSE
        BY <1>0, <3>1 DEF IDEBuffers
      <3>6. GoplsKnows'
        BY <3>1, <3>2, <3>3, <3>4, <3>5 DEF GoplsKnows
      <3> QED BY <1>0, <3>1, <3>2, <3>3, <3>5, <3>6
    <2> QED BY <2>1, <2>2
  <1>4. EditorTyped' /\ CallsTyped' /\ AuditsTyped' /\ TextsInOrder'
    BY <1>0, <1>1, <1>2, <1>3 DEF IDEInv, EditorTyped, CallsTyped, AuditsTyped, TextsInOrder
  <1>5. AuditsInOrder' /\ DiskIsAudited'
    BY <1>1, <1>3 DEF IDEInv, AuditsInOrder, DiskIsAudited
  <1> QED BY <1>2, <1>3, <1>4, <1>5 DEF IDEInv

\* A save: the disk has the text of the buffer, and an audit of it is under way.
LEMMA IDESaves == ASSUME IDEInv, IDE!Save PROVE IDEInv'
  <1>1. /\ iDisk' = iBuffer.text /\ iBuffer' = [iBuffer EXCEPT !.dirty = FALSE]
        /\ IDE!Tell(iBuffer.text) /\ iPopup' = IDE!NoPopup
        /\ iAudits' = Append(iAudits, [done |-> FALSE, of |-> 0]) /\ Len(iAudits) < 2
        /\ IDE!Note("late", IDE!Connecting) /\ UNCHANGED <<iLast, iCalls, iVerdict>>
    BY DEF IDE!Save
  <1>2. /\ iBuffer \in IDEBuffers /\ iDisk \in Texts /\ iLast \in Texts /\ iGopls \in IDEGopls
        /\ iOdd \subseteq {"late", "overtaken", "under"}
        /\ iDisk <= iBuffer.text /\ iBuffer.text <= iLast
    BY DEF IDEInv, EditorTyped, TextsInOrder
  <1>3. iBuffer.text \in Texts /\ iBuffer.text \in Nat /\ iDisk \in Nat
    BY <1>2 DEF IDEBuffers, Texts
  <1>4. iBuffer' \in IDEBuffers /\ iBuffer'.text = iBuffer.text /\ iBuffer'.dirty = FALSE
    BY <1>1, <1>2 DEF IDEBuffers
  <1>5. /\ iGopls' \in IDEGopls /\ iGopls'.pc = iGopls.pc
        /\ iGopls.pc = "ready" => iGopls'.told = iBuffer.text
    BY <1>1, <1>2, <1>3, IDETells
  <1>6. /\ iOdd' \subseteq {"late", "overtaken", "under"} /\ iOdd \subseteq iOdd'
        /\ (iGopls.pc = "connecting" => "late" \in iOdd')
    BY <1>1, <1>2, IDENotes DEF IDE!Connecting
  <1>7. iPopup' \in IDEPopups /\ OffersFit'
    BY <1>1, PopupCloses
  <1>8. EditorTyped' /\ CallsTyped' /\ TextsInOrder'
    BY <1>1, <1>2, <1>3, <1>4, <1>5, <1>6, <1>7 DEF IDEInv, EditorTyped, CallsTyped, TextsInOrder
  <1>9. GoplsKnows'
    <2>1. iGopls.pc \in {"connecting", "ready", "none"}
      BY <1>2 DEF IDEGopls
    <2> QED BY <1>1, <1>4, <1>5, <1>6, <2>1 DEF GoplsKnows
  <1>10. /\ iAudits \in Seq(IDEAudit) /\ Len(iAudits) \in Nat /\ iVerdict \in 0..IDETexts
         /\ [done |-> FALSE, of |-> 0] \in IDEAudit
    <2>1. IDETexts \in Nat
      BY DEF IDEInv, IDE!IDEConstants
    <2>2. 0 \in 0..IDETexts
      BY <2>1
    <2> QED BY <2>2 DEF IDEInv, AuditsTyped, IDEAudit
  <1>11. /\ iAudits' \in Seq(IDEAudit) /\ Len(iAudits') = Len(iAudits) + 1
         /\ iAudits'[Len(iAudits) + 1] = [done |-> FALSE, of |-> 0]
         /\ \A i \in 1..Len(iAudits) : iAudits'[i] = iAudits[i]
    BY <1>1, <1>10
  <1>12. AuditsTyped'
    BY <1>1, <1>10, <1>11 DEF AuditsTyped
  <1>13. \A i \in 1..Len(iAudits) : iAudits[i].of \in Nat /\ iAudits[i].done \in BOOLEAN
    <2>1. \A i \in 1..Len(iAudits) : iAudits[i] \in IDEAudit
      BY <1>10
    <2> QED BY <2>1 DEF IDEAudit
  <1>14. AuditsInOrder'
    <2>1. ASSUME NEW i \in 1..Len(iAudits'), iAudits'[i].done
          PROVE  /\ iAudits'[i].of <= iDisk'
                 /\ "overtaken" \notin iOdd' => iVerdict' <= iAudits'[i].of
      <3>1. i \in 1..Len(iAudits)
        BY <1>10, <1>11, <2>1
      <3>2. /\ iAudits[i].of <= iDisk /\ ("overtaken" \notin iOdd => iVerdict <= iAudits[i].of)
        BY <1>11, <2>1, <3>1 DEF IDEInv, AuditsInOrder
      <3> QED BY <1>1, <1>2, <1>3, <1>6, <1>11, <1>13, <3>1, <3>2
    <2>2. iVerdict' <= iDisk'
      BY <1>1, <1>2, <1>3, <1>10 DEF IDEInv, AuditsInOrder
    <2> QED BY <2>1, <2>2 DEF AuditsInOrder
  <1>15. DiskIsAudited'
    <2>1. Len(iAudits) + 1 \in 1..Len(iAudits') /\ ~iAudits'[Len(iAudits) + 1].done
      BY <1>10, <1>11
    <2> QED BY <2>1 DEF DiskIsAudited
  <1> QED BY <1>7, <1>8, <1>9, <1>12, <1>14, <1>15 DEF IDEInv

\* An audit beside the screen reads the disk, and its report comes.
LEMMA IDEAudits ==
    ASSUME IDEInv, NEW i \in 1..Len(iAudits), IDE!AuditRuns(i) \/ IDE!AuditReports(i)
    PROVE  IDEInv'
  <1>1. /\ UNCHANGED <<iBuffer, iDisk, iLast, iGopls, iPopup, iCalls>>
        /\ iDisk \in Nat /\ iDisk \in 0..IDETexts /\ iOdd \subseteq {"late", "overtaken", "under"}
        /\ iAudits \in Seq(IDEAudit) /\ Len(iAudits) \in Nat /\ Len(iAudits) <= 2
        /\ iVerdict \in 0..IDETexts /\ iVerdict \in Nat /\ iVerdict <= iDisk
    <2>1. IDETexts \in Nat
      BY DEF IDEInv, IDE!IDEConstants
    <2>2. iDisk \in 1..IDETexts /\ iVerdict \in 0..IDETexts
      BY DEF IDEInv, EditorTyped, AuditsTyped, Texts
    <2>3. iDisk \in Nat /\ iDisk \in 0..IDETexts /\ iVerdict \in Nat
      BY <2>1, <2>2
    <2>4. UNCHANGED <<iBuffer, iDisk, iLast, iGopls, iPopup, iCalls>>
      BY DEF IDE!AuditRuns, IDE!AuditReports
    <2> QED BY <2>2, <2>3, <2>4 DEF IDEInv, EditorTyped, AuditsTyped, AuditsInOrder
  <1>2. \A j \in 1..Len(iAudits) :
          /\ iAudits[j] \in IDEAudit /\ iAudits[j].of \in 0..IDETexts /\ iAudits[j].of \in Nat
          /\ iAudits[j].done \in BOOLEAN
    <2>1. \A j \in 1..Len(iAudits) : iAudits[j] \in IDEAudit
      BY <1>1
    <2>2. \A n \in 0..IDETexts : n \in Nat
      OBVIOUS
    <2> QED BY <2>1, <2>2 DEF IDEAudit
  <1>3. CASE IDE!AuditRuns(i)
    <2> DEFINE run == [done |-> TRUE, of |-> iDisk]
    <2>1. /\ iAudits' = [iAudits EXCEPT ![i] = run] /\ run \in IDEAudit
          /\ UNCHANGED <<iVerdict, iOdd>>
      BY <1>1, <1>3 DEF IDE!AuditRuns, IDEAudit
    <2>2. /\ iAudits' \in Seq(IDEAudit) /\ Len(iAudits') = Len(iAudits) /\ iAudits'[i] = run
          /\ \A j \in 1..Len(iAudits) : j # i => iAudits'[j] = iAudits[j]
      BY <1>1, <2>1
    <2>3. AuditsTyped'
      BY <1>1, <2>1, <2>2 DEF AuditsTyped
    <2>4. AuditsInOrder'
      <3>1. run.of = iDisk /\ iDisk <= iDisk
        BY <1>1
      <3> HIDE DEF run
      <3> QED BY <1>1, <2>1, <2>2, <3>1 DEF IDEInv, AuditsInOrder
    <2>5. DiskIsAudited'
      <3>1. run.of = iDisk
        OBVIOUS
      <3> HIDE DEF run
      <3> QED BY <1>1, <2>1, <2>2, <3>1 DEF DiskIsAudited
    <2>6. EditorTyped' /\ CallsTyped' /\ TextsInOrder' /\ GoplsKnows' /\ OffersFit'
      BY <1>1, <2>1
         DEF IDEInv, EditorTyped, CallsTyped, TextsInOrder, GoplsKnows, OffersFit
    <2> QED BY <2>3, <2>4, <2>5, <2>6 DEF IDEInv
  <1>4. CASE IDE!AuditReports(i)
    <2> DEFINE overtaken ==
          \E j \in DOMAIN iAudits : iAudits[j].done /\ iAudits[j].of < iAudits[i].of
    <2>1. /\ iAudits[i].done /\ iAudits' = IDE!RemoveAt(iAudits, i)
          /\ iVerdict' = iAudits[i].of /\ IDE!Note("overtaken", overtaken)
      BY <1>4 DEF IDE!AuditReports
    <2>2. iAudits' = SubSeq(iAudits, 1, i - 1) \o SubSeq(iAudits, i + 1, Len(iAudits))
      BY <2>1 DEF IDE!RemoveAt
    <2>3. /\ iAudits' \in Seq(IDEAudit) /\ Len(iAudits') = Len(iAudits) - 1
          /\ \A j \in 1..Len(iAudits') : \E k \in 1..Len(iAudits) : k # i /\ iAudits'[j] = iAudits[k]
          /\ \A k \in 1..Len(iAudits) : k # i => \E j \in 1..Len(iAudits') : iAudits'[j] = iAudits[k]
      <3>1. iAudits \in Seq(IDEAudit)
        BY <1>1
      <3>2. iAudits' \in Seq(IDEAudit) /\ Without(iAudits, i, iAudits')
        BY <2>2, <3>1, Removed
      <3> QED BY <3>2 DEF Without
    <2>4. /\ iOdd' \subseteq {"late", "overtaken", "under"} /\ iOdd \subseteq iOdd'
          /\ overtaken => "overtaken" \in iOdd'
          /\ "late" \in iOdd' <=> "late" \in iOdd
          /\ "under" \in iOdd' <=> "under" \in iOdd
      BY <1>1, <2>1 DEF IDE!Note
    <2>5. AuditsTyped'
      BY <1>1, <1>2, <2>1, <2>3 DEF AuditsTyped
    <2>6. AuditsInOrder'
      <3>1. ASSUME NEW j \in 1..Len(iAudits'), iAudits'[j].done
            PROVE  /\ iAudits'[j].of <= iDisk'
                   /\ "overtaken" \notin iOdd' => iVerdict' <= iAudits'[j].of
        <4>1. PICK k \in 1..Len(iAudits) : iAudits'[j] = iAudits[k]
          BY <2>3
        <4>2. "overtaken" \notin iOdd' => ~(iAudits[k].of < iAudits[i].of)
          BY <1>1, <2>4, <3>1, <4>1
        <4>3. iAudits[k].of <= iDisk
          BY <3>1, <4>1 DEF IDEInv, AuditsInOrder
        <4> QED BY <1>1, <1>2, <2>1, <4>1, <4>2, <4>3
      <3>2. iVerdict' <= iDisk'
        BY <1>1, <2>1 DEF IDEInv, AuditsInOrder
      <3> QED BY <3>1, <3>2 DEF AuditsInOrder
    <2>7. DiskIsAudited'
      <3>1. SUFFICES ASSUME "overtaken" \notin iOdd', iAudits[i].of # iDisk
                     PROVE  \E j \in 1..Len(iAudits') : ~iAudits'[j].done \/ iAudits'[j].of = iDisk
        BY <1>1, <2>1 DEF DiskIsAudited
      <3>2. iVerdict <= iAudits[i].of /\ iAudits[i].of <= iDisk
        BY <2>1, <2>4, <3>1 DEF IDEInv, AuditsInOrder
      <3>3. iVerdict # iDisk /\ iAudits # <<>>
        BY <1>1, <1>2, <3>1, <3>2
      <3>4. PICK k \in 1..Len(iAudits) : ~iAudits[k].done \/ iAudits[k].of = iDisk
        BY <2>4, <3>1, <3>3 DEF IDEInv, DiskIsAudited
      <3>5. k # i
        BY <2>1, <3>1, <3>4
      <3> QED BY <2>3, <3>4, <3>5
    <2>8. EditorTyped' /\ CallsTyped' /\ TextsInOrder' /\ GoplsKnows' /\ OffersFit'
      BY <1>1, <2>4
         DEF IDEInv, EditorTyped, CallsTyped, TextsInOrder, GoplsKnows, OffersFit
    <2> QED BY <2>5, <2>6, <2>7, <2>8 DEF IDEInv
  <1> QED BY <1>3, <1>4

\* The editor where a call moves, or the popup with it.
LEMMA IDECallsMove ==
    ASSUME IDEInv, IDE!CallsKeep, UNCHANGED <<iBuffer, iGopls>>, iPopup' \in IDEPopups,
           iOdd' \subseteq {"late", "overtaken", "under"}, iOdd \subseteq iOdd',
           CallsTyped', OffersFit'
    PROVE  IDEInv'
  BY DEF IDEInv, IDE!CallsKeep, EditorTyped, AuditsTyped, TextsInOrder, GoplsKnows, AuditsInOrder,
         DiskIsAudited

\* A call is asked and answered.
LEMMA IDEAsks ==
    ASSUME IDEInv,
           \/ \E kind \in {"complete", "definition"} : IDE!Ask(kind)
           \/ \E i \in 1..Len(iCalls) : IDE!Answer(i)
    PROVE  IDEInv'
  <1>1. /\ iCalls \in Seq(IDECall) /\ Len(iCalls) \in Nat /\ Len(iCalls) <= IDECalls
        /\ iPopup \in IDEPopups /\ iOdd \subseteq {"late", "overtaken", "under"}
        /\ iGopls.told \in 0..IDETexts /\ iGopls.told \in Texts
    BY DEF IDEInv, EditorTyped, CallsTyped, IDEGopls, Texts
  <1>2. CASE \E kind \in {"complete", "definition"} : IDE!Ask(kind)
    <2>1. PICK kind \in {"complete", "definition"} : IDE!Ask(kind)
      BY <1>2
    <2> DEFINE call == [kind |-> kind, pc |-> "asked", at |-> 0]
               waits == kind = "complete" /\ \E i \in DOMAIN iCalls : iCalls[i].kind = "complete"
    <2>2. /\ Len(iCalls) < IDECalls /\ iCalls' = Append(iCalls, call)
          /\ iPopup' = [open |-> kind = "complete", for |-> {}] /\ IDE!Note("late", waits)
          /\ IDE!CallsKeep /\ UNCHANGED <<iBuffer, iGopls>>
      BY <2>1 DEF IDE!Ask
    <2>3. call \in IDECall /\ call.pc = "asked"
      <3>1. IDETexts \in Nat
        BY DEF IDEInv, IDE!IDEConstants
      <3>2. 0 \in 0..IDETexts
        BY <3>1
      <3> QED BY <3>2 DEF IDECall
    <2>4. /\ iCalls' \in Seq(IDECall) /\ Len(iCalls') = Len(iCalls) + 1
          /\ iCalls'[Len(iCalls) + 1] = call
          /\ \A i \in 1..Len(iCalls) : iCalls'[i] = iCalls[i]
      <3> HIDE DEF call
      <3> QED BY <1>1, <2>2, <2>3
    <2>5. /\ iOdd' \subseteq {"late", "overtaken", "under"} /\ iOdd \subseteq iOdd'
          /\ waits => "late" \in iOdd'
      BY <1>1, <2>2, IDENotes
    <2>6. /\ iPopup' \in IDEPopups /\ iPopup'.for = {}
          /\ iPopup'.open <=> kind = "complete"
      BY <2>2 DEF IDEPopups
    <2>7. CallsTyped'
      <3>1. IDECalls \in Nat
        BY DEF IDEInv, IDE!IDEConstants
      <3> QED BY <1>1, <2>2, <2>4, <3>1 DEF CallsTyped
    <2>8. ASSUME "late" \notin iOdd', kind = "complete", NEW i \in 1..Len(iCalls'),
                 iCalls'[i].kind = "complete"
          PROVE  iCalls'[i].pc = "asked"
      <3>1. i = Len(iCalls) + 1
        BY <1>1, <2>4, <2>5, <2>8
      <3> QED BY <2>3, <2>4, <3>1
    <2>9. OffersFit'
      BY <2>6, <2>8 DEF OffersFit
    <2> QED BY <2>2, <2>5, <2>6, <2>7, <2>9, IDECallsMove
  <1>3. CASE \E i \in 1..Len(iCalls) : IDE!Answer(i)
    <2>1. PICK i \in 1..Len(iCalls) : IDE!Answer(i)
      BY <1>3
    <2>2. PICK call \in {[iCalls[i] EXCEPT !.pc = "answered", !.at = iGopls.told],
                         [iCalls[i] EXCEPT !.pc = "failed"]} :
            iCalls' = [iCalls EXCEPT ![i] = call]
      BY <1>1, <2>1 DEF IDE!Answer
    <2>3. IDE!CallsKeep /\ UNCHANGED <<iBuffer, iGopls, iPopup, iOdd>>
      BY <2>1 DEF IDE!Answer
    <2>4. call \in IDECall /\ (call.pc = "answered" => call.at = iGopls.told)
      <3>1. iCalls[i] \in IDECall
        BY <1>1
      <3>2. CASE call = [iCalls[i] EXCEPT !.pc = "answered", !.at = iGopls.told]
        BY <1>1, <3>1, <3>2 DEF IDECall
      <3>3. CASE call = [iCalls[i] EXCEPT !.pc = "failed"]
        BY <3>1, <3>3 DEF IDECall
      <3> QED BY <2>2, <3>2, <3>3
    <2>5. /\ iCalls' \in Seq(IDECall) /\ Len(iCalls') = Len(iCalls) /\ iCalls'[i] = call
          /\ \A j \in 1..Len(iCalls) : j # i => iCalls'[j] = iCalls[j]
      BY <1>1, <2>2, <2>4
    <2>6. CallsTyped'
      BY <1>1, <2>5 DEF CallsTyped
    <2>7. OffersFit'
      BY <2>3, <2>4, <2>5 DEF IDEInv, OffersFit
    <2> QED BY <1>1, <2>3, <2>6, <2>7, IDECallsMove
  <1> QED BY <1>2, <1>3

\* What came back is shown.
LEMMA IDEReturns ==
    ASSUME IDEInv, NEW i \in 1..Len(iCalls),
           IDE!ReturnCompletion(i) \/ IDE!ReturnDefinition(i) \/ IDE!ReturnNothing(i)
    PROVE  IDEInv'
  <1>1. /\ iCalls \in Seq(IDECall) /\ Len(iCalls) \in Nat /\ Len(iCalls) <= IDECalls
        /\ iPopup \in IDEPopups /\ iOdd \subseteq {"late", "overtaken", "under"}
        /\ iGopls \in IDEGopls /\ iDisk \in Texts
    BY DEF IDEInv, EditorTyped, CallsTyped
  <1>2. iCalls' = IDE!RemoveAt(iCalls, i) /\ IDE!CallsKeep
    BY DEF IDE!ReturnCompletion, IDE!ReturnDefinition, IDE!ReturnNothing
  <1>3. iCalls' = SubSeq(iCalls, 1, i - 1) \o SubSeq(iCalls, i + 1, Len(iCalls))
    BY <1>2 DEF IDE!RemoveAt
  <1>4. /\ iCalls' \in Seq(IDECall) /\ Len(iCalls') = Len(iCalls) - 1
        /\ \A j \in 1..Len(iCalls') : \E k \in 1..Len(iCalls) : iCalls'[j] = iCalls[k]
    <2>1. iCalls \in Seq(IDECall)
      BY <1>1
    <2>2. iCalls' \in Seq(IDECall) /\ Without(iCalls, i, iCalls')
      BY <1>3, <2>1, Removed
    <2> QED BY <2>2 DEF Without
  <1>5. CallsTyped'
    <2>1. IDECalls \in Nat
      BY DEF IDEInv, IDE!IDEConstants
    <2> QED BY <1>1, <1>4, <2>1 DEF CallsTyped
  <1>6. CASE IDE!ReturnCompletion(i)
    <2>1. /\ iCalls[i].kind = "complete" /\ iCalls[i].pc = "answered"
          /\ iPopup' = IF iPopup.open THEN [iPopup EXCEPT !.for = @ \cup {iCalls[i].at}] ELSE iPopup
          /\ UNCHANGED <<iBuffer, iGopls, iOdd>>
      BY <1>6 DEF IDE!ReturnCompletion
    <2>2. iPopup' \in IDEPopups /\ iPopup'.open = iPopup.open
          /\ iPopup'.for = IF iPopup.open THEN iPopup.for \cup {iCalls[i].at} ELSE iPopup.for
      <3>1. iCalls[i] \in IDECall
        BY <1>1
      <3>2. iCalls[i].at \in Texts
        BY <2>1, <3>1 DEF IDECall
      <3> QED BY <1>1, <2>1, <3>2 DEF IDEPopups
    <2>3. OffersFit'
      BY <1>4, <2>1, <2>2 DEF IDEInv, OffersFit
    <2> QED BY <1>1, <1>2, <1>5, <2>1, <2>2, <2>3, IDECallsMove
  <1>7. CASE IDE!ReturnDefinition(i)
    <2> DEFINE name == IF IDE!Connecting THEN "late" ELSE "under"
    <2>1. /\ iBuffer' = [text |-> iDisk, dirty |-> FALSE] /\ IDE!Tell(iDisk)
          /\ IDE!Note(name, IDE!Connecting \/ iPopup.open) /\ UNCHANGED iPopup
      BY <1>7 DEF IDE!ReturnDefinition
    <2>2. /\ iOdd' \subseteq {"late", "overtaken", "under"} /\ iOdd \subseteq iOdd'
          /\ IDE!Connecting => "late" \in iOdd'
          /\ iPopup.open => "late" \in iOdd' \/ "under" \in iOdd'
      BY <1>1, <2>1 DEF IDE!Note
    <2>3. /\ iGopls' \in IDEGopls /\ iGopls'.pc = iGopls.pc
          /\ iGopls.pc = "ready" => iGopls'.told = iDisk
      BY <1>1, <2>1, IDETells
    <2>4. iBuffer' \in IDEBuffers /\ iBuffer'.text = iDisk /\ iBuffer'.dirty = FALSE
      BY <1>1, <2>1 DEF IDEBuffers
    <2>5. GoplsKnows'
      <3>1. iGopls.pc \in {"connecting", "ready", "none"}
        BY <1>1 DEF IDEGopls
      <3> QED BY <1>2, <2>2, <2>3, <2>4, <3>1 DEF GoplsKnows, IDE!Connecting, IDE!CallsKeep
    <2>6. OffersFit'
      BY <2>1, <2>2 DEF IDEInv, OffersFit
    <2>7. EditorTyped' /\ AuditsTyped' /\ TextsInOrder'
      <3>1. iBuffer.text \in Texts
        BY DEF IDEInv, EditorTyped, IDEBuffers
      <3> QED BY <1>1, <1>2, <2>1, <2>2, <2>3, <2>4, <3>1
              DEF IDEInv, EditorTyped, AuditsTyped, TextsInOrder, IDE!CallsKeep, Texts
    <2>8. AuditsInOrder' /\ DiskIsAudited'
      BY <1>2, <2>2 DEF IDEInv, IDE!CallsKeep, AuditsInOrder, DiskIsAudited
    <2> QED BY <1>5, <2>5, <2>6, <2>7, <2>8 DEF IDEInv
  <1>8. CASE IDE!ReturnNothing(i)
    <2>1. UNCHANGED <<iBuffer, iGopls, iPopup, iOdd>>
      BY <1>8 DEF IDE!ReturnNothing
    <2>2. OffersFit'
      BY <1>4, <2>1 DEF IDEInv, OffersFit
    <2> QED BY <1>1, <1>2, <1>5, <2>1, <2>2, IDECallsMove
  <1> QED BY <1>6, <1>7, <1>8

\* gopls is started again, and is ready or not.
LEMMA IDEServes == ASSUME IDEInv, IDE!Retry \/ IDE!Ready PROVE IDEInv'
  <1>1. /\ iCalls \in Seq(IDECall) /\ Len(iCalls) \in Nat /\ Len(iCalls) <= IDECalls
        /\ iGopls \in IDEGopls /\ iGopls.retries \in 0..IDERetries /\ iBuffer \in IDEBuffers
        /\ iBuffer.text \in Texts
    BY DEF IDEInv, EditorTyped, CallsTyped, IDEGopls, IDEBuffers
  <1>2. IDE!CallsKeep /\ UNCHANGED <<iBuffer, iOdd>>
    BY DEF IDE!Retry, IDE!Ready
  <1>3. /\ iGopls' \in IDEGopls /\ iPopup' \in IDEPopups /\ CallsTyped' /\ OffersFit'
        /\ (iGopls'.told = iGopls.told /\ iGopls.pc # "none") \/ iGopls'.told = iBuffer.text
    <2>1. CASE IDE!Retry
      <3>1. /\ iGopls' = [pc |-> "connecting", told |-> iBuffer.text, retries |-> iGopls.retries + 1]
            /\ iGopls.retries < IDERetries /\ iPopup' = IDE!NoPopup
            /\ iCalls' = [i \in DOMAIN iCalls |->
                            [iCalls[i] EXCEPT !.pc = IF @ = "asked" THEN "failed" ELSE @]]
        BY <2>1 DEF IDE!Retry
      <3>2. iGopls.retries + 1 \in 0..IDERetries
        <4>1. IDERetries \in Nat
          BY DEF IDEInv, IDE!IDEConstants
        <4> QED BY <1>1, <3>1, <4>1
      <3>3. iGopls' \in IDEGopls /\ iGopls'.told = iBuffer.text
        BY <1>1, <3>1, <3>2 DEF IDEGopls
      <3>4. ASSUME NEW i \in 1..Len(iCalls)
            PROVE  [iCalls[i] EXCEPT !.pc = IF @ = "asked" THEN "failed" ELSE @] \in IDECall
        <4>1. iCalls[i] \in IDECall
          BY <1>1
        <4>2. [iCalls[i] EXCEPT !.pc = "failed"] \in IDECall
          BY <4>1 DEF IDECall
        <4>3. iCalls[i] = [iCalls[i] EXCEPT !.pc = iCalls[i].pc]
          BY <4>1 DEF IDECall
        <4> QED BY <4>1, <4>2, <4>3
      <3>5. iCalls' \in Seq(IDECall) /\ Len(iCalls') = Len(iCalls)
        <4> DEFINE New(i) == [iCalls[i] EXCEPT !.pc = IF @ = "asked" THEN "failed" ELSE @]
        <4>1. /\ iCalls' = [i \in 1..Len(iCalls) |-> New(i)]
              /\ \A i \in 1..Len(iCalls) : New(i) \in IDECall
          BY <1>1, <3>1, <3>4
        <4> HIDE DEF New
        <4> QED BY <1>1, <4>1
      <3> QED BY <1>1, <3>1, <3>3, <3>5, PopupCloses DEF CallsTyped
    <2>2. CASE IDE!Ready
      <3>1. PICK pc \in {"ready", "none"} : iGopls' = [iGopls EXCEPT !.pc = pc]
        BY <2>2 DEF IDE!Ready
      <3>2. /\ iGopls' \in IDEGopls /\ iGopls'.told = iGopls.told /\ iGopls.pc = "connecting"
            /\ UNCHANGED <<iPopup, iCalls>>
        BY <1>1, <2>2, <3>1 DEF IDE!Ready, IDE!Connecting, IDEGopls
      <3>3. OffersFit' /\ iPopup' \in IDEPopups /\ CallsTyped'
        BY <1>2, <3>2 DEF IDEInv, EditorTyped, CallsTyped, OffersFit
      <3> QED BY <3>2, <3>3
    <2> QED BY <2>1, <2>2
  <1>4. GoplsKnows'
    BY <1>2, <1>3 DEF IDEInv, GoplsKnows, IDE!CallsKeep
  <1>5. EditorTyped' /\ AuditsTyped' /\ TextsInOrder' /\ AuditsInOrder' /\ DiskIsAudited'
    BY <1>2, <1>3 DEF IDEInv, EditorTyped, AuditsTyped, TextsInOrder, AuditsInOrder,
         DiskIsAudited, IDE!CallsKeep
  <1> QED BY <1>3, <1>4, <1>5 DEF IDEInv

\* Every step of the editor, taken or not.
LEMMA IDEInvStays == IDEInv /\ [IDE!IDENext]_idePart => IDEInv'
  <1> SUFFICES ASSUME IDEInv, [IDE!IDENext]_idePart PROVE IDEInv'
    OBVIOUS
  <1>1. CASE IDE!IDENext
    <2>1. DOMAIN iAudits = 1..Len(iAudits) /\ DOMAIN iCalls = 1..Len(iCalls)
      BY DEF IDEInv, AuditsTyped, CallsTyped
    <2> QED BY <1>1, <2>1, IDEEdits, IDESaves, IDEAudits, IDEAsks, IDEReturns, IDEServes
            DEF IDE!IDENext
  <1>2. CASE UNCHANGED idePart
    BY <1>2 DEF idePart, IDEInv, EditorTyped, CallsTyped, AuditsTyped, TextsInOrder, GoplsKnows,
         AuditsInOrder, DiskIsAudited, OffersFit
  <1> QED BY <1>1, <1>2

\* What the invariant says of the editor.
LEMMA IDEInvMeans ==
    IDEInv => IDE!IDETypeOK /\ IDE!CleanIsKnown /\ IDE!AuditIsOfDisk /\ IDE!ItemsFit
  <1> SUFFICES ASSUME IDEInv
               PROVE  IDE!IDETypeOK /\ IDE!CleanIsKnown /\ IDE!AuditIsOfDisk /\ IDE!ItemsFit
    OBVIOUS
  <1>1. IDE!IDETypeOK
    BY DEF IDEInv, EditorTyped, CallsTyped, AuditsTyped, Texts, IDEBuffers, IDEGopls, IDEPopups,
         IDE!IDETypeOK
  <1>2. IDE!CleanIsKnown
    BY DEF IDEInv, GoplsKnows, IDE!CleanIsKnown
  <1>3. IDE!AuditIsOfDisk
    BY DEF IDEInv, DiskIsAudited, IDE!AuditIsOfDisk
  <1>4. IDE!ItemsFit
    BY DEF IDEInv, EditorTyped, IDEPopups, OffersFit, IDE!ItemsFit
  <1> QED BY <1>1, <1>2, <1>3, <1>4

EditorSafety == IDE!IDEInit /\ [][IDE!IDENext]_idePart

\* However keys, saves, audits, answers and restarts of gopls interleave, the editor's marks are
\* about the text they stand beside, but for the three oddities the code has (model.go).
THEOREM EditorIsTrue ==
    ASSUME IDE!IDEConstants
    PROVE  EditorSafety => [](/\ IDE!IDETypeOK /\ IDE!CleanIsKnown /\ IDE!AuditIsOfDisk
                              /\ IDE!ItemsFit)
  BY IDEInvHolds, IDEInvStays, IDEInvMeans, PTL DEF EditorSafety

(***************************************************************************)
(* The language servers (LanguageClient).  Unless "r" was pressed while    *)
(* one was connecting, the servers before the newest are over or asked to  *)
(* be, the client is the newest, and what a later server published is      *)
(* later than what the screen and the listener have.                       *)
(***************************************************************************)
CONSTANTS LSPServers, LSPCalls, LSPDiags, LSPCap
VARIABLES gIde, gServer, gDrained, gCalls, gDiags, gPublished, gListeners, gShown, gOdd

LSP == INSTANCE LanguageClient WITH
  MaxServers <- LSPServers, MaxCalls <- LSPCalls, MaxDiags <- LSPDiags, Cap <- LSPCap,
  ide <- gIde, server <- gServer, drained <- gDrained, calls <- gCalls, diags <- gDiags, published
  <- gPublished, listeners <- gListeners, shown <- gShown, odd <- gOdd

lspPart == <<gIde, gServer, gDrained, gCalls, gDiags, gPublished, gListeners, gShown, gOdd>>

Servers == 1..LSPServers
Published == 1..LSPDiags
ServerPCs == {"none", "starting", "announced", "running", "retiring", "dead"}
LSPOdd == {"twice", "left", "replaced"}
LSPIDE == [pc : {"open", "leaving", "gone"}, client : 0..LSPServers]
LSPCall == [pc : {"registered", "written", "answered", "closed", "failed"}, on : Servers]
Listener == [on : Servers, holds : 0..LSPDiags]
ScreenTyped == gIde \in LSPIDE /\ gServer \in [Servers -> ServerPCs] /\ gOdd \subseteq LSPOdd
WaitsTyped == gDrained \subseteq Servers /\ gCalls \in Seq(LSPCall) /\ Len(gCalls) <= LSPCalls
DiagsTyped ==
  /\ gDiags \in [Servers -> Seq(Published)] /\ gPublished \in 0..LSPDiags
  /\ gListeners \in Seq(Listener) /\ gShown \in 0..LSPDiags
ServersInTurn ==
  "twice" \notin gOdd => \A s, t \in Servers :
    t < s /\ gServer[s] # "none" => gServer[t] \in {"retiring", "dead"}
ClientIsNewest ==
  "twice" \notin gOdd /\ LSP!Here =>
    /\ \A s \in Servers : gServer[s] = "running" => gIde.client = s
    /\ gIde.client # 0 =>
         /\ gServer[gIde.client] \in {"running", "retiring", "dead"}
         /\ \A t \in Servers : t > gIde.client => gServer[t] = "none"
GoneIsQuiet ==
  "left" \notin gOdd /\ ~LSP!Here =>
    \A s \in Servers : gServer[s] \notin {"starting", "announced", "running"}
Above(n, s) == \A i \in 1..Len(gDiags[s]) : n < gDiags[s][i]
DiagsInOrder ==
  /\ \A s \in Servers : gServer[s] = "none" => gDiags[s] = <<>>
  /\ \A s \in Servers : \A i \in 1..Len(gDiags[s]) : gDiags[s][i] <= gPublished
  /\ \A s \in Servers : \A i, j \in 1..Len(gDiags[s]) : i < j => gDiags[s][i] < gDiags[s][j]
  /\ "twice" \notin gOdd => \A s, t \in Servers : s < t =>
       \A i \in 1..Len(gDiags[s]) : Above(gDiags[s][i], t)
\* What a listener brings is not older than the screen, and older than all that comes after.
Brings(l) ==
  /\ gServer[l.on] \in {"running", "retiring", "dead"}
  /\ l.holds # 0 => gShown <= l.holds
  /\ \A s \in Servers : s >= l.on => Above(gShown, s) /\ Above(l.holds, s)
ListenersInOrder ==
  LSP!Here /\ gOdd \cap {"twice", "replaced"} = {} =>
    /\ Len(gListeners) <= 1
    /\ gListeners = <<>> =>
         \A s \in Servers : gServer[s] \in {"starting", "announced"} => Above(gShown, s)
    /\ \A i \in 1..Len(gListeners) : Brings(gListeners[i])
BoundsHold ==
  gShown <= gPublished /\ \A i \in 1..Len(gListeners) : gListeners[i].holds <= gPublished
LSPInv ==
  /\ LSP!LSPConstants /\ ScreenTyped /\ WaitsTyped /\ DiagsTyped /\ ServersInTurn /\ ClientIsNewest /\ GoneIsQuiet
  /\ DiagsInOrder /\ ListenersInOrder /\ BoundsHold

\* Of at most one listener, any is the first.
LEMMA TheOnly ==
    ASSUME NEW n \in Nat, n <= 1, NEW i \in 1..n PROVE n = 1 /\ i = 1
  OBVIOUS

\* The numbers of the invariant, and what the sequences hold.
LEMMA LSPNumbers ==
    ASSUME LSPInv
    PROVE  /\ {LSPServers, LSPCalls, LSPDiags, gPublished, gShown} \subseteq Nat
           /\ 0 \in 0..LSPDiags
           /\ \A s \in Servers : gDiags[s] \in Seq(Published) /\ Len(gDiags[s]) \in Nat
           /\ \A s \in Servers : \A i \in 1..Len(gDiags[s]) :
                gDiags[s][i] \in Published /\ gDiags[s][i] \in Nat /\ 0 < gDiags[s][i]
           /\ \A i \in 1..Len(gListeners) :
                /\ gListeners[i] \in Listener /\ gListeners[i].on \in Servers
                /\ gListeners[i].holds \in 0..LSPDiags /\ gListeners[i].holds \in Nat
           /\ \A i \in 1..Len(gCalls) : gCalls[i] \in LSPCall
  <1>1. {LSPServers, LSPCalls, LSPDiags} \subseteq Nat
    BY DEF LSPInv, LSP!LSPConstants
  <1>2. /\ gPublished \in 0..LSPDiags /\ gShown \in 0..LSPDiags
        /\ gDiags \in [Servers -> Seq(Published)] /\ gListeners \in Seq(Listener)
        /\ gCalls \in Seq(LSPCall)
    BY DEF LSPInv, DiagsTyped, WaitsTyped
  <1>3. 0 \in 0..LSPDiags /\ \A n \in 0..LSPDiags : n \in Nat
    BY <1>1
  <1>4. \A n \in Published : n \in Nat /\ 0 < n
    BY <1>1 DEF Published
  <1>5. \A s \in Servers : gDiags[s] \in Seq(Published) /\ Len(gDiags[s]) \in Nat
    BY <1>2
  <1>6. \A s \in Servers : \A i \in 1..Len(gDiags[s]) : gDiags[s][i] \in Published
    BY <1>5
  <1>7. \A i \in 1..Len(gListeners) : gListeners[i] \in Listener
    BY <1>2
  <1>8. \A i \in 1..Len(gListeners) :
          gListeners[i].on \in Servers /\ gListeners[i].holds \in 0..LSPDiags
    BY <1>7 DEF Listener
  <1>9. \A i \in 1..Len(gCalls) : gCalls[i] \in LSPCall
    BY <1>2
  <1> QED BY <1>1, <1>2, <1>3, <1>4, <1>5, <1>6, <1>7, <1>8, <1>9

\* The IDE starts its first gopls.
LEMMA LSPInvHolds == LSP!LSPConstants /\ LSP!LSPInit => LSPInv
  <1> SUFFICES ASSUME LSP!LSPConstants, LSP!LSPInit PROVE LSPInv
    OBVIOUS
  <1>1. /\ gIde = [pc |-> "open", client |-> 0] /\ gDrained = {} /\ gCalls = <<>>
        /\ gServer = [s \in Servers |-> IF s = 1 THEN "starting" ELSE "none"]
        /\ gDiags = [s \in Servers |-> <<>>] /\ gPublished = 0 /\ gListeners = <<>>
        /\ gShown = 0 /\ gOdd = {}
    BY DEF LSP!LSPInit, LSP!Servers, Servers
  <1>2. 0 \in 0..LSPServers /\ 0 \in 0..LSPDiags /\ LSPCalls \in Nat
    BY DEF LSP!LSPConstants
  <1>3. ScreenTyped /\ WaitsTyped /\ DiagsTyped
    BY <1>1, <1>2 DEF ScreenTyped, WaitsTyped, DiagsTyped, LSPIDE, ServerPCs
  <1>4. \A s \in Servers : gDiags[s] = <<>> /\ (gServer[s] = "starting" \/ gServer[s] = "none")
        /\ (gServer[s] # "none" => s = 1) /\ s >= 1
    BY <1>1 DEF Servers
  <1>5. ServersInTurn /\ ClientIsNewest /\ GoneIsQuiet
    BY <1>1, <1>4 DEF ServersInTurn, ClientIsNewest, GoneIsQuiet, LSP!Here, Servers
  <1>6. DiagsInOrder /\ ListenersInOrder /\ BoundsHold
    BY <1>1, <1>4 DEF DiagsInOrder, ListenersInOrder, BoundsHold, Above
  <1> QED BY <1>3, <1>5, <1>6 DEF LSPInv

\* The calls move beside the servers and the screen.
LEMMA LSPCallsMove ==
    ASSUME LSPInv,
           \/ LSP!Ask \/ (\E i \in 1..Len(gCalls) : LSP!Write(i) \/ LSP!Return(i) \/ LSP!Answer(i))
           \/ \E s \in Servers : LSP!Drain(s)
    PROVE  LSPInv'
  <1>1. LSP!CallsKeep
    BY DEF LSP!Ask, LSP!Write, LSP!Return, LSP!Answer, LSP!Drain
  <1>2. gCalls \in Seq(LSPCall) /\ Len(gCalls) \in Nat /\ Len(gCalls) <= LSPCalls /\ gIde \in LSPIDE
    BY DEF LSPInv, WaitsTyped, ScreenTyped
  <1>3. gDrained' \subseteq Servers
    BY DEF LSP!Ask, LSP!Write, LSP!Return, LSP!Answer, LSP!Drain, LSPInv, WaitsTyped
  <1>4. gCalls' \in Seq(LSPCall) /\ Len(gCalls') <= LSPCalls
    <2>1. CASE LSP!Ask
      <3> DEFINE call == [pc |-> "registered", on |-> gIde.client]
      <3>1. gCalls' = Append(gCalls, call) /\ Len(gCalls) < LSPCalls /\ gIde.client # 0
        BY <2>1 DEF LSP!Ask
      <3>2. call \in LSPCall
        BY <1>2, <3>1 DEF LSPIDE, LSPCall, Servers
      <3> HIDE DEF call
      <3> QED BY <1>2, <3>1, <3>2, LSPNumbers
    <2>2. ASSUME NEW i \in 1..Len(gCalls), LSP!Write(i) \/ LSP!Answer(i)
          PROVE  gCalls' \in Seq(LSPCall) /\ Len(gCalls') <= LSPCalls
      <3>1. PICK pc \in {"written", "failed", "answered"} : gCalls' = [gCalls EXCEPT ![i].pc = pc]
        BY <2>2 DEF LSP!Write, LSP!Answer
      <3>2. [gCalls[i] EXCEPT !.pc = pc] \in LSPCall
        <4>1. gCalls[i] \in LSPCall
          BY LSPNumbers
        <4> QED BY <4>1 DEF LSPCall
      <3> QED BY <1>2, <3>1, <3>2
    <2>3. ASSUME NEW i \in 1..Len(gCalls), LSP!Return(i)
          PROVE  gCalls' \in Seq(LSPCall) /\ Len(gCalls') <= LSPCalls
      <3>1. gCalls' = SubSeq(gCalls, 1, i - 1) \o SubSeq(gCalls, i + 1, Len(gCalls))
        BY <2>3 DEF LSP!Return, LSP!RemoveAt
      <3>2. gCalls' \in Seq(LSPCall) /\ Without(gCalls, i, gCalls')
        BY <1>2, <3>1, Removed
      <3>3. Len(gCalls') = Len(gCalls) - 1
        BY <3>2 DEF Without
      <3> QED BY <1>2, <3>2, <3>3, LSPNumbers
    <2>4. ASSUME NEW s \in Servers, LSP!Drain(s)
          PROVE  gCalls' \in Seq(LSPCall) /\ Len(gCalls') <= LSPCalls
      <3> DEFINE Closed(i) == IF gCalls[i].on = s /\ gCalls[i].pc = "written"
                              THEN [gCalls[i] EXCEPT !.pc = "closed"] ELSE gCalls[i]
      <3>1. gCalls' = [i \in 1..Len(gCalls) |-> Closed(i)]
        BY <1>2, <2>4 DEF LSP!Drain
      <3>2. \A i \in 1..Len(gCalls) : Closed(i) \in LSPCall
        BY LSPNumbers DEF LSPCall
      <3> HIDE DEF Closed
      <3>3. gCalls' \in Seq(LSPCall) /\ Len(gCalls') = Len(gCalls)
        BY <1>2, <3>1, <3>2
      <3> QED BY <1>2, <3>3
    <2> QED BY <2>1, <2>2, <2>3, <2>4
  <1>5. WaitsTyped'
    BY <1>3, <1>4 DEF WaitsTyped
  <1>6. /\ ScreenTyped' /\ DiagsTyped' /\ ServersInTurn' /\ ClientIsNewest' /\ GoneIsQuiet'
        /\ DiagsInOrder' /\ ListenersInOrder' /\ BoundsHold'
    BY <1>1 DEF LSP!CallsKeep, LSPInv, ScreenTyped, DiagsTyped, ServersInTurn, ClientIsNewest,
         GoneIsQuiet, DiagsInOrder, ListenersInOrder, BoundsHold, Brings, Above, LSP!Here
  <1> QED BY <1>5, <1>6 DEF LSPInv

\* A server that goes on, or ends, under a screen that holds the same client.
LEMMA ServersGoOn ==
    ASSUME LSPInv, LSP!Leave \/ \E s \in Servers : LSP!Connect(s) \/ LSP!Die(s)
    PROVE  LSPInv'
  <1>0. /\ gServer \in [Servers -> ServerPCs] /\ gIde \in LSPIDE
        /\ UNCHANGED <<gDrained, gCalls, gDiags, gPublished, gListeners, gShown, gOdd>>
    BY DEF LSPInv, ScreenTyped, LSP!Leave, LSP!Connect, LSP!Die
  <1>1. /\ gIde' \in LSPIDE /\ gIde'.client = gIde.client
        /\ gIde'.pc = "gone" <=> gIde.pc = "gone"
    BY <1>0 DEF LSP!Leave, LSP!Connect, LSP!Die, LSPIDE
  <1>2. /\ gServer' \in [Servers -> ServerPCs]
        /\ \A s \in Servers :
             /\ gServer'[s] = "none" <=> gServer[s] = "none"
             /\ gServer'[s] \in {"starting", "announced"} => gServer[s] \in {"starting", "announced"}
             /\ gServer'[s] = "running" => gServer[s] = "running"
             /\ gServer[s] \in {"retiring", "dead"} => gServer'[s] \in {"retiring", "dead"}
             /\ gServer[s] = "running" => gServer'[s] \in {"running", "retiring", "dead"}
    <2>1. CASE LSP!Leave
      <3>1. gServer' = [t \in Servers |->
                          IF t = gIde.client /\ LSP!Alive(t) THEN "retiring" ELSE gServer[t]]
        BY <2>1 DEF LSP!Leave, LSP!Servers, Servers
      <3> QED BY <1>0, <3>1 DEF LSP!Alive, ServerPCs
    <2>2. ASSUME NEW s \in Servers, LSP!Connect(s)
          PROVE  /\ gServer[s] = "starting"
                 /\ \E how \in {"announced", "dead"} : gServer' = [gServer EXCEPT ![s] = how]
      BY <2>2 DEF LSP!Connect
    <2>3. ASSUME NEW s \in Servers, LSP!Die(s)
          PROVE  /\ gServer[s] \in {"running", "retiring"}
                 /\ gServer' = [gServer EXCEPT ![s] = "dead"]
      BY <2>3 DEF LSP!Die
    <2> QED BY <1>0, <2>1, <2>2, <2>3 DEF ServerPCs
  <1>3. ScreenTyped' /\ WaitsTyped' /\ DiagsTyped'
    BY <1>0, <1>1, <1>2 DEF LSPInv, ScreenTyped, WaitsTyped, DiagsTyped
  <1>4. ServersInTurn' /\ GoneIsQuiet'
    BY <1>0, <1>1, <1>2 DEF LSPInv, ServersInTurn, GoneIsQuiet, LSP!Here
  <1>5. ClientIsNewest'
    <2>1. gIde.client # 0 => gIde.client \in Servers
      BY <1>0 DEF LSPIDE, Servers
    <2> QED BY <1>0, <1>1, <1>2, <2>1 DEF LSPInv, ClientIsNewest, LSP!Here
  <1>6. DiagsInOrder' /\ BoundsHold'
    BY <1>0, <1>2 DEF LSPInv, DiagsInOrder, BoundsHold, Above
  <1>7. ListenersInOrder'
    <2>1. \A i \in 1..Len(gListeners) : gListeners[i].on \in Servers
      BY LSPNumbers
    <2> QED BY <1>0, <1>1, <1>2, <2>1 DEF LSPInv, ListenersInOrder, Brings, Above, LSP!Here
  <1> QED BY <1>3, <1>4, <1>5, <1>6, <1>7 DEF LSPInv

\* lspReadyMsg: the newest server is the client, and its listener is alone unless one is
\* replaced under it.
LEMMA ServerIsReady == ASSUME LSPInv, NEW s \in Servers, LSP!Ready(s) PROVE LSPInv'
  <1>0. /\ gServer \in [Servers -> ServerPCs] /\ gIde \in LSPIDE /\ gOdd \subseteq LSPOdd
        /\ gListeners \in Seq(Listener) /\ Len(gListeners) \in Nat /\ s \in Nat
        /\ s \in 0..LSPServers /\ gServer[s] = "announced"
        /\ UNCHANGED <<gDrained, gCalls, gDiags, gPublished, gShown>>
    BY DEF LSPInv, ScreenTyped, DiagsTyped, LSP!Ready, Servers
  <1>1. /\ gServer' = [gServer EXCEPT ![s] = "running"] /\ gServer'[s] = "running"
        /\ gServer' \in [Servers -> ServerPCs]
        /\ \A t \in Servers : t # s => gServer'[t] = gServer[t]
    BY <1>0 DEF LSP!Ready, ServerPCs
  <1>2. CASE ~LSP!Here
    <2>1. UNCHANGED <<gIde, gListeners, gOdd>>
      BY <1>2 DEF LSP!Ready
    <2>2. ScreenTyped' /\ WaitsTyped' /\ DiagsTyped' /\ BoundsHold'
      BY <1>0, <1>1, <2>1 DEF LSPInv, ScreenTyped, WaitsTyped, DiagsTyped, BoundsHold
    <2>3. ServersInTurn' /\ GoneIsQuiet'
      BY <1>0, <1>1, <1>2, <2>1 DEF LSPInv, ServersInTurn, GoneIsQuiet, LSP!Here
    <2>4. ClientIsNewest' /\ ListenersInOrder'
      BY <1>2, <2>1 DEF ClientIsNewest, ListenersInOrder, LSP!Here
    <2>5. DiagsInOrder'
      BY <1>0, <1>1, <2>1 DEF LSPInv, DiagsInOrder, Above
    <2> QED BY <2>2, <2>3, <2>4, <2>5 DEF LSPInv
  <1>3. CASE LSP!Here
    <2> DEFINE l == [on |-> s, holds |-> 0]
    <2>1. /\ gIde' = [gIde EXCEPT !.client = s] /\ gListeners' = Append(gListeners, l)
          /\ LSP!Note("replaced", gListeners # <<>>)
      BY <1>3 DEF LSP!Ready
    <2>2. gIde' \in LSPIDE /\ gIde'.client = s /\ gIde'.pc = gIde.pc
      BY <1>0, <2>1 DEF LSPIDE
    <2>3. /\ gOdd' \subseteq LSPOdd /\ gOdd \subseteq gOdd'
          /\ (gListeners # <<>> => "replaced" \in gOdd')
          /\ ("twice" \in gOdd' <=> "twice" \in gOdd) /\ ("left" \in gOdd' <=> "left" \in gOdd)
      BY <1>0, <2>1 DEF LSP!Note, LSPOdd
    <2>4. l \in Listener /\ l.on = s /\ l.holds = 0
      <3>1. 0 \in 0..LSPDiags
        BY LSPNumbers
      <3> QED BY <3>1 DEF Listener
    <2> HIDE DEF l
    <2>5. /\ gListeners' \in Seq(Listener) /\ Len(gListeners') = Len(gListeners) + 1
          /\ gListeners'[Len(gListeners) + 1] = l
          /\ \A i \in 1..Len(gListeners) : gListeners'[i] = gListeners[i]
      BY <1>0, <2>1, <2>4
    <2>6. ScreenTyped' /\ WaitsTyped' /\ DiagsTyped'
      BY <1>0, <1>1, <2>2, <2>3, <2>5 DEF LSPInv, ScreenTyped, WaitsTyped, DiagsTyped
    <2>7. BoundsHold'
      <3>1. 0 <= gPublished
        BY DEF LSPInv, DiagsTyped
      <3> QED BY <1>0, <2>4, <2>5, <3>1 DEF LSPInv, BoundsHold
    <2>8. ServersInTurn' /\ GoneIsQuiet'
      BY <1>0, <1>1, <1>3, <2>2, <2>3 DEF LSPInv, ServersInTurn, GoneIsQuiet, LSP!Here
    <2>9. ASSUME "twice" \notin gOdd, NEW t \in Servers
          PROVE  /\ t > s => gServer[t] = "none"
                 /\ t < s => gServer[t] \in {"retiring", "dead"}
      BY <1>0, <2>9 DEF LSPInv, ServersInTurn
    <2>10. ClientIsNewest'
      <3>1. ASSUME "twice" \notin gOdd, NEW t \in Servers, gServer'[t] = "running"
            PROVE  t = s
        BY <1>0, <1>1, <2>9, <3>1 DEF Servers
      <3> QED BY <1>0, <1>1, <2>2, <2>3, <2>9, <3>1 DEF ClientIsNewest, LSP!Here
    <2>11. DiagsInOrder'
      BY <1>0, <1>1, <2>3 DEF LSPInv, DiagsInOrder, Above
    <2>12. ListenersInOrder'
      <3>1. SUFFICES ASSUME gOdd' \cap {"twice", "replaced"} = {}
                     PROVE  /\ Len(gListeners') <= 1 /\ gListeners' # <<>>
                            /\ \A i \in 1..Len(gListeners') : Brings(gListeners[i])'
        BY DEF ListenersInOrder
      <3>2. gListeners = <<>> /\ Len(gListeners) = 0 /\ gOdd \cap {"twice", "replaced"} = {}
        BY <1>0, <2>3, <3>1
      <3>3. \A t \in Servers : t >= s => Above(gShown, t) /\ Above(0, t)
        <4>1. ASSUME NEW t \in Servers, t >= s PROVE Above(gShown, t)
          <5>1. CASE t = s
            BY <1>0, <1>3, <3>2, <5>1 DEF LSPInv, ListenersInOrder
          <5>2. CASE t > s
            BY <2>9, <3>2, <5>2 DEF LSPInv, DiagsInOrder, Above
          <5> QED BY <1>0, <4>1, <5>1, <5>2 DEF Servers
        <4>2. ASSUME NEW t \in Servers PROVE Above(0, t)
          BY LSPNumbers DEF Above
        <4> QED BY <4>1, <4>2
      <3>4. Len(gListeners') = 1 /\ gListeners'[1] = l
        BY <2>5, <3>2
      <3>5. Brings(gListeners[1])'
        BY <1>0, <1>1, <2>4, <3>3, <3>4 DEF Brings, Above
      <3> QED BY <3>4, <3>5
    <2> QED BY <2>6, <2>7, <2>8, <2>10, <2>11, <2>12 DEF LSPInv
  <1> QED BY <1>2, <1>3

\* "r": unless one is connecting, the running server is the client, which is asked to end.
LEMMA ServerIsReplaced == ASSUME LSPInv, NEW s \in Servers, LSP!Retry(s) PROVE LSPInv'
  <1>0. /\ gServer \in [Servers -> ServerPCs] /\ gIde \in LSPIDE /\ gOdd \subseteq LSPOdd
        /\ LSP!Here /\ gServer[s] = "none" /\ \A t \in Servers : t < s => gServer[t] # "none"
        /\ gIde' = [gIde EXCEPT !.client = 0] /\ LSP!Note("twice", LSP!Connecting)
        /\ UNCHANGED <<gDrained, gCalls, gDiags, gPublished, gListeners, gShown>>
    BY DEF LSPInv, ScreenTyped, LSP!Retry, LSP!NextServer, LSP!Servers, Servers
  <1>1. gIde' \in LSPIDE /\ gIde'.client = 0 /\ gIde'.pc = gIde.pc
    <2>1. 0 \in 0..LSPServers
      BY LSPNumbers
    <2> QED BY <1>0, <2>1 DEF LSPIDE
  <1>2. gServer' = [t \in Servers |->
                      CASE t = s -> "starting"
                        [] t = gIde.client /\ LSP!Alive(t) -> "retiring" [] OTHER -> gServer[t]]
    BY DEF LSP!Retry, LSP!Servers, Servers
  <1>3. /\ gServer' \in [Servers -> ServerPCs] /\ gServer'[s] = "starting"
        /\ \A t \in Servers : t # s =>
             \/ gServer'[t] = gServer[t] /\ ~(t = gIde.client /\ LSP!Alive(t))
             \/ gServer'[t] = "retiring" /\ t = gIde.client /\ LSP!Alive(t)
    <2>1. gServer'[s] = "starting"
      <3>1. ~LSP!Alive(s)
        BY <1>0 DEF LSP!Alive
      <3> QED BY <1>2, <3>1
    <2>2. ASSUME NEW t \in Servers, t # s
          PROVE  \/ gServer'[t] = gServer[t] /\ ~(t = gIde.client /\ LSP!Alive(t))
                 \/ gServer'[t] = "retiring" /\ t = gIde.client /\ LSP!Alive(t)
      BY <1>2, <2>2
    <2>3. \A t \in Servers : gServer[t] \in ServerPCs
      BY <1>0
    <2>4. \A t \in Servers : gServer'[t] \in ServerPCs
      BY <2>1, <2>2, <2>3 DEF ServerPCs
    <2>5. DOMAIN gServer' = Servers /\ gServer' = [t \in Servers |-> gServer'[t]]
      BY <1>2
    <2> QED BY <2>1, <2>2, <2>4, <2>5
  <1>4. /\ gOdd' \subseteq LSPOdd /\ gOdd \subseteq gOdd'
        /\ ("left" \in gOdd' <=> "left" \in gOdd) /\ ("replaced" \in gOdd' <=> "replaced" \in gOdd)
        /\ LSP!Connecting => "twice" \in gOdd'
    BY <1>0 DEF LSP!Note, LSPOdd
  <1>5. ScreenTyped' /\ WaitsTyped' /\ DiagsTyped' /\ BoundsHold'
    BY <1>0, <1>1, <1>3, <1>4 DEF LSPInv, ScreenTyped, WaitsTyped, DiagsTyped, BoundsHold
  <1>6. ASSUME "twice" \notin gOdd'
        PROVE  /\ "twice" \notin gOdd
               /\ \A t \in Servers : t # s => gServer'[t] \in {"none", "retiring", "dead"}
               /\ \A t \in Servers : t < s => gServer'[t] \in {"retiring", "dead"}
               /\ \A t \in Servers : t > s => gServer'[t] = "none"
    <2>1. "twice" \notin gOdd /\ ~LSP!Connecting
      BY <1>4, <1>6
    <2>2. \A t \in Servers : gServer[t] \notin {"starting", "announced"}
      BY <2>1 DEF LSP!Connecting, LSP!Servers, Servers
    <2>3. \A t \in Servers : gServer[t] = "running" => t = gIde.client /\ LSP!Alive(t)
      BY <1>0, <2>1 DEF LSPInv, ClientIsNewest, LSP!Alive
    <2>4. ASSUME NEW t \in Servers, t # s PROVE gServer'[t] \in {"none", "retiring", "dead"}
      <3>1. gServer[t] \in ServerPCs
        BY <1>0
      <3> QED BY <1>3, <2>2, <2>3, <2>4, <3>1 DEF ServerPCs
    <2>5. ASSUME NEW t \in Servers, t < s PROVE gServer'[t] # "none" /\ t # s
      BY <1>0, <1>3, <2>5 DEF Servers
    <2>6. ASSUME NEW t \in Servers, t > s PROVE gServer'[t] = "none"
      <3>1. gServer[t] = "none"
        BY <1>0, <2>1, <2>6 DEF LSPInv, ServersInTurn, Servers
      <3>2. t # s /\ ~LSP!Alive(t)
        BY <2>6, <3>1 DEF LSP!Alive, Servers
      <3> QED BY <1>3, <3>1, <3>2
    <2> QED BY <2>1, <2>4, <2>5, <2>6
  <1>7. ServersInTurn'
    <2>1. SUFFICES ASSUME "twice" \notin gOdd', NEW u \in Servers, NEW t \in Servers,
                          t < u, gServer'[u] # "none"
                   PROVE  gServer'[t] \in {"retiring", "dead"}
      BY DEF ServersInTurn
    <2>2. CASE u = s
      BY <1>6, <2>1, <2>2
    <2>3. CASE u # s
      <3>1. u < s
        BY <1>6, <2>1, <2>3 DEF Servers
      <3> QED BY <1>6, <2>1, <3>1 DEF Servers
    <2> QED BY <2>2, <2>3
  <1>8. ClientIsNewest'
    <2>1. ASSUME "twice" \notin gOdd', NEW t \in Servers PROVE gServer'[t] # "running"
      BY <1>3, <1>6, <2>1
    <2> QED BY <1>1, <2>1 DEF ClientIsNewest
  <1>9. GoneIsQuiet'
    BY <1>0, <1>1 DEF GoneIsQuiet, LSP!Here
  <1>10. DiagsInOrder'
    <2>1. \A t \in Servers : gServer'[t] = "none" => gServer[t] = "none"
      BY <1>3
    <2> QED BY <1>0, <1>4, <2>1 DEF LSPInv, DiagsInOrder, Above
  <1>11. ListenersInOrder'
    <2>1. SUFFICES ASSUME gOdd' \cap {"twice", "replaced"} = {}
                   PROVE  /\ Len(gListeners) <= 1
                          /\ \A i \in 1..Len(gListeners) : Brings(gListeners[i])'
                          /\ \A t \in Servers :
                               gServer'[t] \in {"starting", "announced"} => Above(gShown, t)'
      BY <1>0 DEF ListenersInOrder
    <2>2. gOdd \cap {"twice", "replaced"} = {} /\ "twice" \notin gOdd'
      BY <1>4, <2>1
    <2>3. /\ Len(gListeners) <= 1 /\ \A i \in 1..Len(gListeners) : Brings(gListeners[i])
      BY <1>0, <2>2 DEF LSPInv, ListenersInOrder
    <2>4. ASSUME NEW t \in Servers, gServer'[t] \in {"starting", "announced"}
          PROVE  Above(gShown, t)'
      <3>1. t = s
        BY <1>6, <2>2, <2>4
      <3> QED BY <1>0, <3>1 DEF LSPInv, DiagsInOrder, Above
    <2>5. ASSUME NEW i \in 1..Len(gListeners) PROVE Brings(gListeners[i])'
      <3>1. /\ gListeners[i].on \in Servers /\ gServer[gListeners[i].on] \in {"running", "retiring", "dead"}
            /\ Brings(gListeners[i])
        BY <2>3, LSPNumbers DEF Brings
      <3>2. gServer'[gListeners[i].on] \in {"running", "retiring", "dead"}
        BY <1>0, <1>3, <3>1
      <3> QED BY <1>0, <3>1, <3>2 DEF Brings, Above
    <2> QED BY <2>3, <2>4, <2>5
  <1> QED BY <1>5, <1>7, <1>8, <1>9, <1>10, <1>11 DEF LSPInv

\* ExitMsg: after it the screen is gone.
LEMMA ScreenExits == ASSUME LSPInv, LSP!Exit PROVE LSPInv'
  <1>0. /\ gIde \in LSPIDE /\ gOdd \subseteq LSPOdd /\ gIde' = [gIde EXCEPT !.pc = "gone"]
        /\ LSP!Note("left", LSP!Connecting \/ \E s \in LSP!Servers : gServer[s] = "running")
        /\ UNCHANGED <<gServer, gDrained, gCalls, gDiags, gPublished, gListeners, gShown>>
    BY DEF LSPInv, ScreenTyped, LSP!Exit
  <1>1. gIde' \in LSPIDE /\ gIde'.pc = "gone"
    BY <1>0 DEF LSPIDE
  <1>2. /\ gOdd' \subseteq LSPOdd /\ gOdd \subseteq gOdd'
        /\ ("twice" \in gOdd' <=> "twice" \in gOdd)
        /\ (\E s \in Servers : gServer[s] \in {"starting", "announced", "running"}) => "left" \in gOdd'
    BY <1>0 DEF LSP!Note, LSPOdd, LSP!Connecting, LSP!Servers, Servers
  <1>3. ScreenTyped' /\ WaitsTyped' /\ DiagsTyped' /\ BoundsHold'
    BY <1>0, <1>1, <1>2 DEF LSPInv, ScreenTyped, WaitsTyped, DiagsTyped, BoundsHold
  <1>4. ServersInTurn' /\ DiagsInOrder'
    BY <1>0, <1>2 DEF LSPInv, ServersInTurn, DiagsInOrder, Above
  <1>5. ClientIsNewest' /\ ListenersInOrder'
    BY <1>1 DEF ClientIsNewest, ListenersInOrder, LSP!Here
  <1>6. GoneIsQuiet'
    BY <1>0, <1>2 DEF GoneIsQuiet
  <1> QED BY <1>3, <1>4, <1>5, <1>6 DEF LSPInv

\* A server publishes: the diagnostic is the newest of all, and no later server has any.
LEMMA ServerPublishes == ASSUME LSPInv, NEW s \in Servers, LSP!Publish(s) PROVE LSPInv'
  <1>0. /\ LSP!Here /\ gServer[s] \in {"announced", "running"} /\ gPublished < LSPDiags
        /\ gPublished' = gPublished + 1 /\ gPublished \in Nat /\ gPublished + 1 \in Published
        /\ gDiags \in [Servers -> Seq(Published)] /\ gShown \in Nat /\ gShown <= gPublished
        /\ UNCHANGED <<gIde, gServer, gDrained, gCalls, gListeners, gShown, gOdd>>
    <2>1. /\ LSP!Here /\ gServer[s] \in {"announced", "running"} /\ gPublished < LSPDiags
          /\ gPublished' = gPublished + 1
          /\ UNCHANGED <<gIde, gServer, gDrained, gCalls, gListeners, gShown, gOdd>>
      BY DEF LSP!Publish
    <2>2. gPublished \in Nat /\ gShown \in Nat /\ LSPDiags \in Nat
      BY LSPNumbers
    <2>3. gPublished + 1 \in Published
      BY <2>1, <2>2 DEF Published
    <2> QED BY <2>1, <2>2, <2>3 DEF LSPInv, DiagsTyped, BoundsHold
  <1>1. /\ gDiags' \in [Servers -> Seq(Published)]
        /\ \A t \in Servers : t # s => gDiags'[t] = gDiags[t]
        /\ gDiags'[s] = gDiags[s] \/ gDiags'[s] = Append(gDiags[s], gPublished + 1)
    BY <1>0 DEF LSP!Publish
  <1>2. /\ Len(gDiags[s]) \in Nat
        /\ \A i \in 1..Len(gDiags'[s]) :
             \/ i \in 1..Len(gDiags[s]) /\ gDiags'[s][i] = gDiags[s][i]
             \/ i = Len(gDiags[s]) + 1 /\ gDiags'[s][i] = gPublished + 1
    BY <1>0, <1>1
  <1>3. \A t \in Servers : \A i \in 1..Len(gDiags[t]) : gDiags[t][i] \in Nat /\ gDiags[t][i] <= gPublished
    BY LSPNumbers DEF LSPInv, DiagsInOrder
  <1>4. ASSUME NEW n \in Nat, n <= gPublished, NEW t \in Servers, Above(n, t)
        PROVE  \A i \in 1..Len(gDiags'[t]) : n < gDiags'[t][i]
    BY <1>0, <1>1, <1>2, <1>4 DEF Above
  <1>5. ScreenTyped' /\ WaitsTyped' /\ DiagsTyped' /\ BoundsHold'
    <2>1. gPublished' \in 0..LSPDiags
      BY <1>0 DEF Published
    <2>2. \A i \in 1..Len(gListeners) : gListeners[i].holds \in Nat
      BY LSPNumbers
    <2> QED BY <1>0, <1>1, <2>1, <2>2
            DEF LSPInv, ScreenTyped, WaitsTyped, DiagsTyped, BoundsHold
  <1>6. ServersInTurn' /\ ClientIsNewest' /\ GoneIsQuiet'
    BY <1>0 DEF LSPInv, ServersInTurn, ClientIsNewest, GoneIsQuiet, LSP!Here
  <1>7. DiagsInOrder'
    <2>1. \A t \in Servers : gServer'[t] = "none" => gDiags'[t] = <<>>
      BY <1>0, <1>1 DEF LSPInv, DiagsInOrder
    <2>2. ASSUME NEW t \in Servers, NEW i \in 1..Len(gDiags'[t]) PROVE gDiags'[t][i] <= gPublished'
      <3>1. CASE t = s
        <4>1. \A n \in Nat : n <= gPublished => n <= gPublished'
          BY <1>0
        <4>2. gPublished + 1 <= gPublished'
          BY <1>0
        <4> QED BY <1>2, <1>3, <2>2, <3>1, <4>1, <4>2
      <3>2. CASE t # s
        BY <1>0, <1>1, <1>3, <2>2, <3>2
      <3> QED BY <3>1, <3>2
    <2>3. ASSUME NEW t \in Servers, NEW i \in 1..Len(gDiags'[t]), NEW j \in 1..Len(gDiags'[t]), i < j
          PROVE  gDiags'[t][i] < gDiags'[t][j]
      <3>1. CASE t = s
        <4>1. i \in 1..Len(gDiags[s]) /\ gDiags'[s][i] = gDiags[s][i]
          BY <1>2, <2>3, <3>1
        <4> QED BY <1>0, <1>2, <1>3, <2>3, <3>1, <4>1 DEF LSPInv, DiagsInOrder
      <3>2. CASE t # s
        BY <1>1, <2>3, <3>2 DEF LSPInv, DiagsInOrder
      <3> QED BY <3>1, <3>2
    <2>4. ASSUME "twice" \notin gOdd', NEW u \in Servers, NEW t \in Servers, u < t,
                 NEW i \in 1..Len(gDiags'[u]), NEW j \in 1..Len(gDiags'[t])
          PROVE  gDiags'[u][i] < gDiags'[t][j]
      <3>1. CASE u = s
        <4>1. gServer[t] = "none"
          BY <1>0, <2>4, <3>1 DEF LSPInv, ServersInTurn
        <4>2. t # s /\ gDiags[t] = <<>>
          BY <2>4, <3>1, <4>1 DEF LSPInv, DiagsInOrder, Servers
        <4> QED BY <1>1, <2>4, <4>2
      <3>2. CASE u # s
        <4>1. Above(gDiags[u][i], t) /\ gDiags[u][i] \in Nat /\ gDiags[u][i] <= gPublished
          BY <1>0, <1>1, <1>3, <2>4, <3>2 DEF LSPInv, DiagsInOrder
        <4> QED BY <1>1, <1>4, <2>4, <3>2, <4>1
      <3> QED BY <3>1, <3>2
    <2> QED BY <2>1, <2>2, <2>3, <2>4 DEF DiagsInOrder, Above
  <1>8. ListenersInOrder'
    <2>1. ASSUME NEW l \in Listener, l.holds <= gPublished, Brings(l)
          PROVE  /\ gServer'[l.on] \in {"running", "retiring", "dead"}
                 /\ l.holds # 0 => gShown' <= l.holds
                 /\ \A t \in Servers : t >= l.on =>
                      \A i \in 1..Len(gDiags'[t]) : gShown' < gDiags'[t][i] /\ l.holds < gDiags'[t][i]
      <3>1. l.holds \in Nat
        <4>1. l.holds \in 0..LSPDiags /\ LSPDiags \in Nat
          BY LSPNumbers DEF Listener
        <4> QED BY <4>1
      <3> QED BY <1>0, <1>4, <2>1, <3>1 DEF Brings
    <2>2. \A i \in 1..Len(gListeners) : gListeners[i] \in Listener /\ gListeners[i].holds <= gPublished
      BY DEF LSPInv, DiagsTyped, BoundsHold
    <2> QED BY <1>0, <1>4, <2>1, <2>2 DEF LSPInv, ListenersInOrder, Brings, Above, LSP!Here
  <1> QED BY <1>5, <1>6, <1>7, <1>8 DEF LSPInv

\* A listener takes the oldest diagnostic of its server.
LEMMA ListenerTakes == ASSUME LSPInv, NEW i \in 1..Len(gListeners), LSP!Listen(i) PROVE LSPInv'
  <1> DEFINE was == gListeners[i]
             on == was.on
             news == Head(gDiags[on])
             now == [was EXCEPT !.holds = news]
  <1>0. /\ gListeners \in Seq(Listener) /\ Len(gListeners) \in Nat /\ was \in Listener
        /\ on \in Servers /\ gDiags \in [Servers -> Seq(Published)] /\ gPublished \in 0..LSPDiags
        /\ UNCHANGED <<gIde, gServer, gDrained, gCalls, gPublished, gShown, gOdd>>
        /\ gShown \in Nat /\ gPublished \in Nat
    BY LSPNumbers DEF LSPInv, DiagsTyped, LSP!Listen
  <1>1. /\ was.holds = 0 /\ gDiags[on] # <<>> /\ gListeners' = [gListeners EXCEPT ![i] = now]
        /\ gDiags' = [gDiags EXCEPT ![on] = Tail(gDiags[on])]
    BY <1>0 DEF LSP!Listen
  <1>2. /\ Len(gDiags[on]) \in Nat /\ Len(gDiags[on]) > 0 /\ news = gDiags[on][1]
        /\ news \in Published
        /\ Tail(gDiags[on]) \in Seq(Published) /\ Len(Tail(gDiags[on])) = Len(gDiags[on]) - 1
        /\ \A k \in 1..Len(Tail(gDiags[on])) : Tail(gDiags[on])[k] = gDiags[on][k + 1]
    BY <1>0, <1>1
  <1>3. now \in Listener /\ now.on = on /\ now.holds = news /\ news \in 0..LSPDiags
    <2>1. news \in 0..LSPDiags
      BY <1>2 DEF Published
    <2> QED BY <1>0, <2>1 DEF Listener
  <1> HIDE DEF now, news
  <1>4. /\ gListeners' \in Seq(Listener) /\ Len(gListeners') = Len(gListeners)
        /\ gListeners'[i] = now
        /\ \A j \in 1..Len(gListeners) : j # i => gListeners'[j] = gListeners[j]
    BY <1>0, <1>1, <1>3
  <1>5. /\ gDiags' \in [Servers -> Seq(Published)]
        /\ \A t \in Servers : t # on => gDiags'[t] = gDiags[t]
        /\ gDiags'[on] = Tail(gDiags[on])
    BY <1>0, <1>1, <1>2
  <1> HIDE DEF on
  <1>6. ASSUME NEW t \in Servers
        PROVE  \A k \in 1..Len(gDiags'[t]) : \E m \in 1..Len(gDiags[t]) :
                 /\ gDiags'[t][k] = gDiags[t][m]
                 /\ t = on => m = k + 1
                 /\ t # on => m = k
    <2>1. CASE t = on
      <3>1. \A k \in 1..Len(gDiags'[t]) : k + 1 \in 1..Len(gDiags[t])
        BY <1>2, <1>5, <2>1
      <3> QED BY <1>2, <1>5, <2>1, <3>1
    <2>2. CASE t # on
      BY <1>5, <2>2
    <2> QED BY <2>1, <2>2
  <1>7. /\ news \in Nat /\ news <= gPublished
        /\ \A k \in 1..Len(gDiags'[on]) : news < gDiags'[on][k]
    <2>1. 1 \in 1..Len(gDiags[on])
      BY <1>2
    <2>2. news \in Nat /\ news <= gPublished
      BY <1>0, <1>2, <2>1 DEF LSPInv, DiagsInOrder, Published
    <2>3. ASSUME NEW k \in 1..Len(gDiags'[on]) PROVE news < gDiags'[on][k]
      <3>1. k + 1 \in 1..Len(gDiags[on]) /\ 1 < k + 1 /\ gDiags'[on][k] = gDiags[on][k + 1]
        BY <1>2, <1>5
      <3> QED BY <1>0, <1>2, <2>1, <3>1 DEF LSPInv, DiagsInOrder
    <2> QED BY <2>2, <2>3
  <1>8. ScreenTyped' /\ WaitsTyped' /\ DiagsTyped' /\ BoundsHold'
    BY <1>0, <1>3, <1>4, <1>5, <1>7 DEF LSPInv, ScreenTyped, WaitsTyped, DiagsTyped, BoundsHold
  <1>9. ServersInTurn' /\ ClientIsNewest' /\ GoneIsQuiet'
    BY <1>0 DEF LSPInv, ServersInTurn, ClientIsNewest, GoneIsQuiet, LSP!Here
  <1>10. DiagsInOrder'
    <2>1. \A t \in Servers : gServer'[t] = "none" => gDiags'[t] = <<>>
      BY <1>0, <1>1, <1>5 DEF LSPInv, DiagsInOrder
    <2>2. ASSUME NEW t \in Servers, NEW k \in 1..Len(gDiags'[t]) PROVE gDiags'[t][k] <= gPublished'
      <3>1. PICK m \in 1..Len(gDiags[t]) : gDiags'[t][k] = gDiags[t][m]
        BY <1>6, <2>2
      <3> QED BY <1>0, <3>1 DEF LSPInv, DiagsInOrder
    <2>3. ASSUME NEW t \in Servers, NEW j \in 1..Len(gDiags'[t]), NEW k \in 1..Len(gDiags'[t]), j < k
          PROVE  gDiags'[t][j] < gDiags'[t][k]
      <3>1. PICK m \in 1..Len(gDiags[t]) :
              gDiags'[t][j] = gDiags[t][m] /\ (t = on => m = j + 1) /\ (t # on => m = j)
        BY <1>6
      <3>2. PICK n \in 1..Len(gDiags[t]) :
              gDiags'[t][k] = gDiags[t][n] /\ (t = on => n = k + 1) /\ (t # on => n = k)
        BY <1>6
      <3>3. m < n
        BY <2>3, <3>1, <3>2
      <3> QED BY <3>1, <3>2, <3>3 DEF LSPInv, DiagsInOrder
    <2>4. ASSUME "twice" \notin gOdd', NEW u \in Servers, NEW t \in Servers, u < t,
                 NEW j \in 1..Len(gDiags'[u]), NEW k \in 1..Len(gDiags'[t])
          PROVE  gDiags'[u][j] < gDiags'[t][k]
      <3>1. PICK m \in 1..Len(gDiags[u]) : gDiags'[u][j] = gDiags[u][m]
        BY <1>6
      <3>2. PICK n \in 1..Len(gDiags[t]) : gDiags'[t][k] = gDiags[t][n]
        BY <1>6
      <3> QED BY <1>0, <2>4, <3>1, <3>2 DEF LSPInv, DiagsInOrder, Above
    <2> QED BY <2>1, <2>2, <2>3, <2>4 DEF DiagsInOrder, Above
  <1>11. ListenersInOrder'
    <2>1. SUFFICES ASSUME LSP!Here, gOdd \cap {"twice", "replaced"} = {}
                   PROVE  /\ Len(gListeners') <= 1 /\ gListeners' # <<>>
                          /\ \A j \in 1..Len(gListeners') : Brings(gListeners[j])'
      BY <1>0 DEF ListenersInOrder, LSP!Here
    <2>2. Len(gListeners) = 1 /\ i = 1 /\ Brings(was)
      <3>1. Len(gListeners) <= 1 /\ \A j \in 1..Len(gListeners) : Brings(gListeners[j])
        BY <2>1 DEF LSPInv, ListenersInOrder
      <3>2. Len(gListeners) \in Nat /\ Len(gListeners) <= 1
        BY <1>0, <3>1
      <3>3. Len(gListeners) = 1 /\ i = 1
        BY <3>2, TheOnly
      <3> QED BY <3>1, <3>3
    <2>3. Len(gListeners') = 1 /\ gListeners'[1] = now
      BY <1>4, <2>2
    <2>4. gServer'[on] \in {"running", "retiring", "dead"}
      BY <1>0, <2>2 DEF Brings, on
    <2>5. gShown < news
      <3>1. on >= on /\ 1 \in 1..Len(gDiags[on])
        BY <1>0, <1>2 DEF Servers
      <3> QED BY <1>0, <1>2, <2>2, <3>1 DEF Brings, Above, on
    <2>6. ASSUME NEW t \in Servers, t >= on, NEW k \in 1..Len(gDiags'[t])
          PROVE  gShown < gDiags'[t][k] /\ news < gDiags'[t][k]
      <3>1. PICK m \in 1..Len(gDiags[t]) : gDiags'[t][k] = gDiags[t][m]
        BY <1>6
      <3>2. gShown < gDiags'[t][k]
        BY <1>0, <2>2, <2>6, <3>1 DEF Brings, Above, on
      <3>3. CASE t = on
        BY <1>7, <3>2, <3>3
      <3>4. CASE t # on
        <4>1. on < t /\ 1 \in 1..Len(gDiags[on])
          BY <1>0, <1>2, <2>6, <3>4 DEF Servers
        <4>2. news < gDiags[t][m]
          BY <1>0, <1>2, <2>1, <4>1 DEF LSPInv, DiagsInOrder, Above
        <4> QED BY <3>1, <3>2, <4>2
      <3> QED BY <3>3, <3>4
    <2>7. Brings(gListeners[1])'
      <3>1. gShown <= news
        BY <1>0, <1>7, <2>5
      <3> QED BY <1>0, <1>3, <2>3, <2>4, <2>6, <3>1 DEF Brings, Above
    <2> QED BY <2>3, <2>7
  <1> QED BY <1>8, <1>9, <1>10, <1>11 DEF LSPInv

\* diagMsg: the screen has what the listener brought, and the listener turns to the client.
LEMMA ListenerDelivers ==
    ASSUME LSPInv, NEW i \in 1..Len(gListeners), LSP!Deliver(i)
    PROVE  /\ LSPInv'
           /\ gShown' < gShown => gOdd' \cap {"twice", "replaced"} # {}
  <1> DEFINE was == gListeners[i]
             goes == LSP!Here /\ gIde.client # 0
             now == [on |-> gIde.client, holds |-> 0]
  <1>0. /\ gListeners \in Seq(Listener) /\ Len(gListeners) \in Nat /\ was \in Listener
        /\ was.on \in Servers /\ was.holds \in Nat /\ was.holds \in 0..LSPDiags
        /\ was.holds <= gPublished /\ was.holds # 0 /\ gIde \in LSPIDE
        /\ gShown \in Nat /\ gPublished \in Nat
        /\ UNCHANGED <<gIde, gServer, gDrained, gCalls, gDiags, gPublished, gOdd>>
    BY LSPNumbers DEF LSPInv, DiagsTyped, ScreenTyped, BoundsHold, LSP!Deliver
  <1>1. /\ gShown' = IF LSP!Here THEN was.holds ELSE gShown
        /\ goes => gListeners' = [gListeners EXCEPT ![i] = now]
        /\ ~goes => gListeners' = LSP!RemoveAt(gListeners, i)
    BY DEF LSP!Deliver
  <1>2. goes => now \in Listener /\ now.on = gIde.client /\ now.holds = 0 /\ gIde.client \in Servers
    <2>1. 0 \in 0..LSPDiags
      BY LSPNumbers
    <2>2. goes => gIde.client \in Servers
      BY <1>0 DEF LSPIDE, Servers
    <2> QED BY <2>1, <2>2 DEF Listener
  <1> HIDE DEF now
  <1>3. /\ goes => /\ gListeners' \in Seq(Listener) /\ Len(gListeners') = Len(gListeners)
                   /\ gListeners'[i] = now
                   /\ \A j \in 1..Len(gListeners) : j # i => gListeners'[j] = gListeners[j]
        /\ ~goes => /\ gListeners' \in Seq(Listener) /\ Len(gListeners') = Len(gListeners) - 1
                    /\ \A j \in 1..Len(gListeners') : \E k \in 1..Len(gListeners) :
                         gListeners'[j] = gListeners[k]
    <2>1. CASE goes
      BY <1>0, <1>1, <1>2, <2>1
    <2>2. CASE ~goes
      <3>1. gListeners' = SubSeq(gListeners, 1, i - 1) \o SubSeq(gListeners, i + 1, Len(gListeners))
        BY <1>1, <2>2 DEF LSP!RemoveAt
      <3>2. gListeners \in Seq(Listener)
        BY <1>0
      <3>3. gListeners' \in Seq(Listener) /\ Without(gListeners, i, gListeners')
        BY <3>1, <3>2, Removed
      <3> QED BY <2>2, <3>3 DEF Without
    <2> QED BY <2>1, <2>2
  <1>4. ScreenTyped' /\ WaitsTyped' /\ DiagsTyped'
    BY <1>0, <1>1, <1>3 DEF LSPInv, ScreenTyped, WaitsTyped, DiagsTyped
  <1>5. BoundsHold'
    <2>1. gShown' <= gPublished
      BY <1>0, <1>1 DEF LSPInv, BoundsHold
    <2>2. ASSUME NEW j \in 1..Len(gListeners') PROVE gListeners'[j].holds <= gPublished
      <3>1. CASE goes
        BY <1>0, <1>2, <1>3, <3>1 DEF LSPInv, BoundsHold
      <3>2. CASE ~goes
        BY <1>0, <1>3, <3>2 DEF LSPInv, BoundsHold
      <3> QED BY <3>1, <3>2
    <2> QED BY <1>0, <2>1, <2>2 DEF BoundsHold
  <1>6. ServersInTurn' /\ ClientIsNewest' /\ GoneIsQuiet' /\ DiagsInOrder'
    BY <1>0 DEF LSPInv, ServersInTurn, ClientIsNewest, GoneIsQuiet, DiagsInOrder, LSP!Here, Above
  <1>7. ASSUME LSP!Here, gOdd \cap {"twice", "replaced"} = {}
        PROVE  /\ Len(gListeners) = 1 /\ i = 1 /\ Brings(was) /\ gShown <= was.holds
               /\ gShown' = was.holds
    <2>1. Len(gListeners) <= 1 /\ \A j \in 1..Len(gListeners) : Brings(gListeners[j])
      BY <1>7 DEF LSPInv, ListenersInOrder
    <2>2. Len(gListeners) = 1 /\ i = 1
      <3>1. Len(gListeners) \in Nat /\ Len(gListeners) <= 1
        BY <1>0, <2>1
      <3> QED BY <3>1, TheOnly
    <2>3. Brings(was)
      BY <2>1, <2>2
    <2> QED BY <1>0, <1>1, <1>7, <2>2, <2>3 DEF Brings
  <1>8. ListenersInOrder'
    <2>1. SUFFICES ASSUME LSP!Here, gOdd \cap {"twice", "replaced"} = {}
                   PROVE  /\ Len(gListeners') <= 1
                          /\ gListeners' = <<>> =>
                               \A s \in Servers : gServer[s] \in {"starting", "announced"} =>
                                 \A k \in 1..Len(gDiags[s]) : was.holds < gDiags[s][k]
                          /\ \A j \in 1..Len(gListeners') : Brings(gListeners[j])'
      BY <1>0, <1>7 DEF ListenersInOrder, LSP!Here, Above
    <2>2. ASSUME NEW s \in Servers, s >= was.on, NEW k \in 1..Len(gDiags[s])
          PROVE  was.holds < gDiags[s][k]
      BY <1>7, <2>1, <2>2 DEF Brings, Above
    <2>3. ASSUME NEW s \in Servers, gServer[s] \in {"starting", "announced"} PROVE s >= was.on
      <3>1. gServer[was.on] \in {"running", "retiring", "dead"} /\ s # was.on
        BY <1>7, <2>1, <2>3 DEF Brings
      <3> QED BY <1>0, <2>1, <2>3, <3>1 DEF LSPInv, ServersInTurn, Servers
    <2>4. CASE goes
      <3>1. Len(gListeners') = 1 /\ gListeners'[1] = now
        BY <1>3, <1>7, <2>1, <2>4
      <3>2. gServer[gIde.client] \in {"running", "retiring", "dead"} /\ gIde.client >= was.on
        <4>1. /\ gServer[gIde.client] \in {"running", "retiring", "dead"}
              /\ \A t \in Servers : t > gIde.client => gServer[t] = "none"
          BY <2>1, <2>4 DEF LSPInv, ClientIsNewest
        <4>2. gServer[was.on] # "none"
          BY <1>7, <2>1 DEF Brings
        <4> QED BY <1>0, <1>2, <2>4, <4>1, <4>2 DEF Servers
      <3>3. ASSUME NEW s \in Servers, s >= gIde.client, NEW k \in 1..Len(gDiags[s])
            PROVE  was.holds < gDiags[s][k] /\ 0 < gDiags[s][k]
        <4>1. s >= was.on
          BY <1>0, <1>2, <2>4, <3>2, <3>3 DEF Servers
        <4>2. gDiags[s][k] \in Published
          BY LSPNumbers
        <4> QED BY <2>2, <3>3, <4>1, LSPNumbers
      <3>4. Brings(gListeners[1])'
        BY <1>0, <1>2, <1>7, <2>1, <2>4, <3>1, <3>2, <3>3 DEF Brings, Above
      <3>5. gListeners' # <<>>
        BY <3>1
      <3> QED BY <3>1, <3>4, <3>5
    <2>5. CASE ~goes
      <3>1. Len(gListeners') = 0
        <4>1. Len(gListeners') = Len(gListeners) - 1 /\ Len(gListeners) = 1
          BY <1>3, <1>7, <2>1, <2>5
        <4> QED BY <4>1
      <3>2. 1..Len(gListeners') = {} /\ Len(gListeners') <= 1
        BY <3>1
      <3> QED BY <2>2, <2>3, <3>2
    <2> QED BY <2>4, <2>5
  <1>9. gShown' < gShown => gOdd' \cap {"twice", "replaced"} # {}
    BY <1>0, <1>1, <1>7
  <1> QED BY <1>4, <1>5, <1>6, <1>8, <1>9 DEF LSPInv

\* Every step of the clients, taken or not.
LEMMA LSPInvStays == LSPInv /\ [LSP!LSPNext]_lspPart => LSPInv'
  <1> SUFFICES ASSUME LSPInv, [LSP!LSPNext]_lspPart PROVE LSPInv'
    OBVIOUS
  <1>1. CASE LSP!LSPNext
    <2>1. /\ DOMAIN gCalls = 1..Len(gCalls) /\ DOMAIN gListeners = 1..Len(gListeners)
          /\ LSP!Servers = Servers
      BY DEF LSPInv, WaitsTyped, DiagsTyped, LSP!Servers, Servers
    <2> QED BY <1>1, <2>1, LSPCallsMove, ServersGoOn, ServerIsReady, ServerIsReplaced, ScreenExits,
               ServerPublishes, ListenerTakes, ListenerDelivers, Zenon
            DEF LSP!LSPNext, LSP!CallStep
  <1>2. CASE UNCHANGED lspPart
    BY <1>2 DEF lspPart, LSPInv, ScreenTyped, WaitsTyped, DiagsTyped, ServersInTurn,
         ClientIsNewest, GoneIsQuiet, DiagsInOrder, ListenersInOrder, BoundsHold, Brings, Above,
         LSP!Here
  <1> QED BY <1>1, <1>2

\* What the invariant says of the clients.
LEMMA LSPInvMeans == LSPInv => LSP!LSPTypeOK /\ LSP!NoOrphanServer
  <1> SUFFICES ASSUME LSPInv PROVE LSP!LSPTypeOK /\ LSP!NoOrphanServer
    OBVIOUS
  <1>1. LSP!LSPTypeOK
    <2>1. /\ gIde \in LSPIDE /\ gServer \in [LSP!Servers -> ServerPCs]
          /\ gDrained \subseteq LSP!Servers /\ Len(gCalls) <= LSPCalls
          /\ gPublished \in 0..LSPDiags /\ gShown \in 0..LSPDiags /\ gOdd \subseteq LSPOdd
      BY DEF LSPInv, ScreenTyped, WaitsTyped, DiagsTyped, LSP!Servers, Servers
    <2> QED BY <2>1, Zenon DEF LSP!LSPTypeOK, LSPIDE, ServerPCs, LSPOdd
  <1>2. LSP!NoOrphanServer
    BY DEF LSPInv, ClientIsNewest, GoneIsQuiet, LSP!NoOrphanServer, LSP!Servers, Servers
  <1> QED BY <1>1, <1>2

\* Only what a listener brings changes the screen.
LEMMA ShownIsBrought ==
    ASSUME LSPInv, [LSP!LSPNext]_lspPart
    PROVE  gShown' < gShown => gOdd' \cap {"twice", "replaced"} # {}
  <1>1. DOMAIN gListeners = 1..Len(gListeners) /\ gShown \in Nat
    BY DEF LSPInv, DiagsTyped
  <1>2. gShown' = gShown \/ \E i \in DOMAIN gListeners : LSP!Deliver(i)
    BY Zenon DEF LSP!LSPNext, LSP!CallStep, LSP!Ask, LSP!Write, LSP!Return, LSP!Answer, LSP!Drain,
         LSP!CallsKeep, LSP!Leave, LSP!Exit, LSP!Listen, LSP!Connect, LSP!Ready, LSP!Retry,
         LSP!Die, LSP!Publish, lspPart
  <1> QED BY <1>1, <1>2, ListenerDelivers

LanguageSafety == LSP!LSPInit /\ [][LSP!LSPNext]_lspPart

\* However gopls processes start, are replaced and end beside the screen, one that runs is the
\* one the screen holds, and its diagnostics go forward, but for the oddities the code has
\* (client.go, model.go).
THEOREM LanguageIsTrue ==
    ASSUME LSP!LSPConstants
    PROVE  LanguageSafety => /\ [](LSP!LSPTypeOK /\ LSP!NoOrphanServer)
                             /\ LSP!ShownGoesForward
  <1> DEFINE Forward == gShown' < gShown => gOdd' \cap {"twice", "replaced"} # {}
  <1>1. LSPInv /\ [LSP!LSPNext]_lspPart => [Forward]_LSP!lspVars
    <2>1. SUFFICES ASSUME LSPInv, [LSP!LSPNext]_lspPart PROVE Forward
      OBVIOUS
    <2> QED BY <2>1, ShownIsBrought
  <1>2. LanguageSafety => [](LSP!LSPTypeOK /\ LSP!NoOrphanServer)
    BY LSPInvHolds, LSPInvStays, LSPInvMeans, PTL DEF LanguageSafety
  <1>3. LanguageSafety => LSP!ShownGoesForward
    BY <1>1, LSPInvHolds, LSPInvStays, PTL DEF LanguageSafety, LSP!ShownGoesForward
  <1> QED BY <1>2, <1>3

(***************************************************************************)
(* The cockpit (Cockpit).  The screen has what the turn wrote, in order,   *)
(* and what is still in the stream: a question is in one place, its answer *)
(* follows it, and a result follows the start of its call.                 *)
(***************************************************************************)
CONSTANTS CockpitCalls, CockpitTurns, CockpitQueue, CockpitBuffer
VARIABLES oUi, oQueue, oCards, oAt, oTurn, oStream, oClosed, oDecisions, oUsed, oApproved, oOdd

Cockpit == INSTANCE Cockpit WITH
  MaxCalls <- CockpitCalls, MaxTurns <- CockpitTurns, MaxQueue <- CockpitQueue, Buffer <-
  CockpitBuffer,
  ui <- oUi, queue <- oQueue, cards <- oCards, at <- oAt, turn <- oTurn, stream <- oStream, closed
  <- oClosed, decisions <- oDecisions, used <- oUsed, approved <- oApproved, odd <- oOdd

cockpitPart == <<oUi, oQueue, oCards, oAt, oTurn, oStream, oClosed, oDecisions, oUsed, oApproved,
                 oOdd>>

CallNumbers == 0..CockpitCalls
Screens ==
  [pc : {"free", "saving", "selecting", "quit"}, overlay : {"none", "editor", "ide"},
   mode : {"operate", "select"}, running : BOOLEAN, pending : CallNumbers, failed : BOOLEAN,
   interrupting : BOOLEAN, listening : BOOLEAN]
BetweenCalls == {"thinking", "speaking", "failing", "done", "closing"}
InCall == {"asking", "waiting", "returning"}
Turns ==
  [pc : {"none", "over"} \cup BetweenCalls \cup InCall, kind : {"prompt", "shell"},
   call : CallNumbers, cancelled : BOOLEAN, yes : BOOLEAN,
   outcome : {"none", "ok", "failed", "cut"}]
CardRecords == [kind : {"tool", "text"}, open : BOOLEAN, call : CallNumbers, shows : CallNumbers]
StreamEvents ==
  [kind : {"delta", "assistant", "start", "end", "approval", "error", "interrupted", "done"},
   call : CallNumbers]
CockpitTyped ==
  /\ oUi \in Screens /\ oQueue \in Nat /\ oCards \in Seq(CardRecords) /\ oTurn \in Turns
  /\ oStream \in Seq(StreamEvents) /\ oUsed \in [calls : CallNumbers, turns : Nat]
\* The screen and the turn it started.
ScreenFits ==
  /\ oUi.listening => oUi.running
  /\ oUi.pending # 0 => oUi.running
  /\ ~oUi.running =>
       oAt = 0 /\ oTurn.pc \in {"none", "over"} /\ \A i \in 1..Len(oCards) : ~oCards[i].open
  /\ oClosed => oTurn.pc = "over"
  /\ oUi.pc = "selecting" /\ "switch" \notin oOdd => ~oUi.running
\* What the screen knows, or will be told, of how the turn ended.
OutcomeFits ==
  /\ oUi.running /\ oTurn.cancelled /\ "switch" \notin oOdd /\ oUi.pc # "quit" => oUi.interrupting
  /\ oTurn.outcome = "cut" => oTurn.cancelled
  /\ oTurn.pc = "over" => oTurn.outcome # "none"
  /\ oUi.listening /\ oTurn.outcome = "failed" =>
       oTurn.cancelled \/ oUi.failed \/ \E i \in 1..Len(oStream) : oStream[i].kind = "error"
\* A question is on the screen or in the stream, once, and its answer comes after it.
Asked(i) == oStream[i].kind = "approval"
Unanswered == oUi.pending # 0 \/ \E i \in 1..Len(oStream) : Asked(i)
QuestionFits ==
  /\ \A i, j \in 1..Len(oStream) : Asked(i) /\ Asked(j) => i = j
  /\ oUi.pending # 0 => \A i \in 1..Len(oStream) : ~Asked(i)
  /\ Unanswered => oDecisions = <<>>
  /\ Unanswered \/ oDecisions # <<>> =>
       oTurn.pc = "waiting" \/ (oTurn.cancelled /\ oTurn.pc # "asking")
  /\ ~oTurn.cancelled =>
       /\ oUi.pending # 0 => oUi.pending = oTurn.call
       /\ \A i \in 1..Len(oStream) : Asked(i) => oStream[i].call = oTurn.call
AnswerFits ==
  oDecisions # <<>> => \E c \in CallNumbers, y \in BOOLEAN :
    oDecisions = <<[call |-> c, yes |-> y]>> /\ (y => oApproved = c)
\* The last start among the first n of a stream is that of the call c; without one, the card that
\* runs, if there is one, is that of c.
Follows(s, n, c, card, ofCard) ==
  /\ \A j \in 1..n :
       s[j].kind = "start" /\ (\A k \in 1..n : k > j => s[k].kind # "start") => s[j].call = c
  /\ (\A j \in 1..n : s[j].kind # "start") /\ card # 0 => ofCard = c
Straight == oOdd \cap {"clear", "switch"} = {}
CardsFit ==
  Straight =>
    /\ oAt = 0 \/ oAt \in 1..Len(oCards)
    /\ \A i \in 1..Len(oCards) : oCards[i].shows = 0 \/ oCards[i].shows = oCards[i].call
    /\ oUi.listening =>
         /\ \A n \in 0..Len(oStream) - 1 : oStream[n + 1].kind = "end" =>
              Follows(oStream, n, oStream[n + 1].call, oAt, oCards[oAt].call)
         /\ oTurn.pc \in InCall =>
              Follows(oStream, Len(oStream), oTurn.call, oAt, oCards[oAt].call)
CockpitInv ==
  /\ Cockpit!CockpitConstants /\ CockpitTyped /\ ScreenFits /\ OutcomeFits /\ QuestionFits
  /\ AnswerFits /\ CardsFit

\* What is written after a place changes nothing at it, and a start that is written is the last.
LEMMA FollowsWritten ==
    ASSUME NEW s \in Seq(StreamEvents), NEW e \in StreamEvents, NEW c, NEW card, NEW ofCard
    PROVE  /\ \A n \in 0..Len(s) :
                Follows(s, n, c, card, ofCard) => Follows(Append(s, e), n, c, card, ofCard)
           /\ e.kind # "start" /\ Follows(s, Len(s), c, card, ofCard)
                => Follows(Append(s, e), Len(s) + 1, c, card, ofCard)
           /\ e.kind = "start" /\ e.call = c => Follows(Append(s, e), Len(s) + 1, c, card, ofCard)
  <1> DEFINE t == Append(s, e)
             l == Len(s)
  <1>1. l \in Nat /\ t[l + 1] = e /\ \A j \in 1..l : t[j] = s[j]
    OBVIOUS
  <1> HIDE DEF t, l
  <1>2. ASSUME NEW n \in 0..l, Follows(s, n, c, card, ofCard)
        PROVE  Follows(t, n, c, card, ofCard)
    <2>1. \A j \in 1..n : j \in 1..l /\ t[j] = s[j]
      BY <1>1
    <2> QED BY <1>2, <2>1 DEF Follows
  <1>3. /\ \A j \in 1..l + 1 : j \in 1..l \/ j = l + 1
        /\ \A j \in 1..l : j \in 1..l + 1 /\ l + 1 > j
        /\ l + 1 \in 1..l + 1
    BY <1>1
  <1>4. ASSUME e.kind # "start", Follows(s, l, c, card, ofCard)
        PROVE  Follows(t, l + 1, c, card, ofCard)
    <2>1. ASSUME NEW j \in 1..l + 1, t[j].kind = "start",
                 \A k \in 1..l + 1 : k > j => t[k].kind # "start"
          PROVE  t[j].call = c
      <3>1. j \in 1..l /\ t[j] = s[j]
        BY <1>1, <1>3, <1>4, <2>1
      <3>2. \A k \in 1..l : k > j => s[k].kind # "start"
        BY <1>1, <1>3, <2>1
      <3> QED BY <1>4, <2>1, <3>1, <3>2 DEF Follows
    <2>2. (\A j \in 1..l + 1 : t[j].kind # "start") => \A j \in 1..l : s[j].kind # "start"
      BY <1>1, <1>3
    <2>3. (\A j \in 1..l : s[j].kind # "start") /\ card # 0 => ofCard = c
      BY <1>4 DEF Follows
    <2> QED BY <2>1, <2>2, <2>3 DEF Follows
  <1>5. ASSUME e.kind = "start", e.call = c PROVE Follows(t, l + 1, c, card, ofCard)
    <2>1. ASSUME NEW j \in 1..l + 1, t[j].kind = "start",
                 \A k \in 1..l + 1 : k > j => t[k].kind # "start"
          PROVE  t[j].call = c
      <3>1. j = l + 1
        BY <1>1, <1>3, <1>5, <2>1
      <3> QED BY <1>1, <1>5, <3>1
    <2>2. ~\A j \in 1..l + 1 : t[j].kind # "start"
      BY <1>1, <1>3, <1>5
    <2> QED BY <2>1, <2>2 DEF Follows
  <1> QED BY <1>2, <1>4, <1>5 DEF t, l

\* What is read from the front is on the screen instead.
LEMMA FollowsRead ==
    ASSUME NEW s \in Seq(StreamEvents), s # <<>>, NEW n \in 0..Len(s) - 1, NEW c,
           NEW card, NEW ofCard, NEW next, NEW ofNext, Follows(s, n + 1, c, card, ofCard),
           s[1].kind = "start" => ofNext = s[1].call,
           s[1].kind = "end" => next = 0,
           s[1].kind \notin {"start", "end"} => next = card /\ (next # 0 => ofNext = ofCard)
    PROVE  Follows(Tail(s), n, c, next, ofNext)
  <1> DEFINE t == Tail(s)
             l == Len(s)
  <1>1. l \in Nat /\ l > 0 /\ n \in 0..l - 1 /\ \A j \in 1..l - 1 : t[j] = s[j + 1]
    OBVIOUS
  <1> HIDE DEF t, l
  <1>2. n \in Nat /\ 1 \in 1..n + 1
    BY <1>1
  <1>3. /\ \A j \in 1..n : j + 1 \in 1..n + 1 /\ t[j] = s[j + 1]
        /\ \A j \in 1..n + 1 : j = 1 \/ (j - 1 \in 1..n /\ t[j - 1] = s[j])
    <2>1. \A j \in 1..n : j \in 1..l - 1 /\ j + 1 \in 1..n + 1
      BY <1>1, <1>2
    <2>2. \A j \in 1..n + 1 : j = 1 \/ (j - 1 \in 1..n /\ j - 1 \in 1..l - 1 /\ (j - 1) + 1 = j)
      BY <1>1, <1>2
    <2> QED BY <1>1, <2>1, <2>2
  <1>4. ASSUME NEW j \in 1..n, t[j].kind = "start", \A k \in 1..n : k > j => t[k].kind # "start"
        PROVE  t[j].call = c
    <2>1. ASSUME NEW k \in 1..n + 1, k > j + 1 PROVE s[k].kind # "start"
      <3>1. k # 1 /\ k - 1 > j
        BY <1>2, <2>1
      <3> QED BY <1>3, <1>4, <3>1
    <2> QED BY <1>3, <1>4, <2>1 DEF Follows
  <1>5. ASSUME \A j \in 1..n : t[j].kind # "start", next # 0 PROVE ofNext = c
    <2>1. \A k \in 1..n + 1 : k # 1 => s[k].kind # "start"
      BY <1>3, <1>5
    <2>2. CASE s[1].kind = "start"
      <3>1. \A k \in 1..n + 1 : k > 1 => s[k].kind # "start"
        BY <2>1
      <3> QED BY <1>2, <2>2, <3>1 DEF Follows
    <2>3. CASE s[1].kind \notin {"start", "end"}
      <3>1. \A j \in 1..n + 1 : s[j].kind # "start"
        BY <2>1, <2>3
      <3> QED BY <1>5, <2>3, <3>1 DEF Follows
    <2> QED BY <1>5, <2>2, <2>3
  <1> QED BY <1>4, <1>5 DEF Follows, t

\* The cockpit starts with an empty screen and no turn.
LEMMA CockpitInvHolds == Cockpit!CockpitConstants /\ Cockpit!CockpitInit => CockpitInv
  <1> SUFFICES ASSUME Cockpit!CockpitConstants, Cockpit!CockpitInit PROVE CockpitInv
    OBVIOUS
  <1>1. CockpitTyped
    BY DEF Cockpit!CockpitInit, Cockpit!CockpitConstants, CockpitTyped, Screens, Turns, CardRecords,
      StreamEvents, CallNumbers, BetweenCalls, InCall, Cockpit!NoTurn
  <1>2. ScreenFits /\ OutcomeFits
    BY DEF Cockpit!CockpitInit, ScreenFits, OutcomeFits, Cockpit!NoTurn
  <1>3. Len(oStream) = 0 /\ Len(oCards) = 0
    BY DEF Cockpit!CockpitInit
  <1>4. QuestionFits /\ AnswerFits
    BY <1>3 DEF Cockpit!CockpitInit, QuestionFits, AnswerFits, Unanswered, Asked, Cockpit!NoTurn
  <1>5. CardsFit
    BY <1>3 DEF Cockpit!CockpitInit, CardsFit, InCall, Cockpit!NoTurn
  <1> QED BY <1>1, <1>2, <1>4, <1>5 DEF CockpitInv

(***************************************************************************)
(* The steps of the turn.                                                  *)
(***************************************************************************)
Writes(e) == oStream' = oStream \/ oStream' = Append(oStream, e)
\* What the turn writes of a call is about the call it is in.
CallWrites(e) ==
  /\ UNCHANGED <<oUi, oCards, oAt, oOdd>>
  /\ \/ oStream' = oStream /\ (oTurn'.pc \in InCall => oTurn.pc \in InCall /\ oTurn'.call = oTurn.call)
     \/ /\ oStream' = Append(oStream, e)
        /\ e.kind = "end" => oTurn.pc \in InCall /\ e.call = oTurn.call
        /\ oTurn'.pc \in InCall =>
             \/ e.kind = "start" /\ e.call = oTurn'.call
             \/ e.kind # "start" /\ oTurn.pc \in InCall /\ oTurn'.call = oTurn.call

\* An event that is written is the last one.
LEMMA EventWritten ==
    ASSUME NEW s \in Seq(StreamEvents), NEW e \in StreamEvents
    PROVE  /\ Append(s, e) \in Seq(StreamEvents) /\ Len(Append(s, e)) = Len(s) + 1
           /\ Len(s) \in Nat /\ Append(s, e)[Len(s) + 1] = e
           /\ \A i \in 1..Len(s) : Append(s, e)[i] = s[i] /\ i \in 1..Len(s) + 1
           /\ \A i \in 1..Len(s) + 1 : i \in 1..Len(s) \/ i = Len(s) + 1
           /\ \A n \in 0..Len(s) : n + 1 \in 1..Len(s) + 1
           /\ \A n \in 0..(Len(s) + 1) - 1 : n = Len(s) \/ (n \in 0..Len(s) - 1 /\ n + 1 \in 1..Len(s))
           /\ \A n \in 0..Len(s) - 1 : n \in 0..Len(s)
  OBVIOUS

\* A result the turn writes follows the start of its own call.
LEMMA CallKeepsCards ==
    ASSUME CockpitInv, NEW e \in StreamEvents, CallWrites(e) PROVE CardsFit'
  <1> USE DEF CockpitInv, CockpitTyped
  <1>1. CASE oStream' = oStream /\ (oTurn'.pc \in InCall => oTurn.pc \in InCall /\ oTurn'.call = oTurn.call)
    BY <1>1 DEF CardsFit, CallWrites, Straight
  <1>2. CASE /\ oStream' = Append(oStream, e)
             /\ e.kind = "end" => oTurn.pc \in InCall /\ e.call = oTurn.call
             /\ oTurn'.pc \in InCall =>
                  \/ e.kind = "start" /\ e.call = oTurn'.call
                  \/ e.kind # "start" /\ oTurn.pc \in InCall /\ oTurn'.call = oTurn.call
    <2> DEFINE s == oStream
               t == Append(s, e)
               l == Len(s)
               of == oCards[oAt].call
               Ends(q) == \A n \in 0..Len(q) - 1 :
                            q[n + 1].kind = "end" => Follows(q, n, q[n + 1].call, oAt, of)
               Goes(q, tn) == tn.pc \in InCall => Follows(q, Len(q), tn.call, oAt, of)
    <2>1. /\ s \in Seq(StreamEvents) /\ Len(t) = l + 1 /\ l \in Nat /\ t[l + 1] = e
          /\ \A i \in 1..l : t[i] = s[i]
          /\ \A n \in 0..(l + 1) - 1 : n = l \/ (n \in 0..l - 1 /\ n + 1 \in 1..l)
          /\ \A n \in 0..l - 1 : n \in 0..l
          /\ l \in 0..l
      BY EventWritten
    <2>2. ASSUME NEW c PROVE /\ \A n \in 0..l : Follows(s, n, c, oAt, of) => Follows(t, n, c, oAt, of)
                             /\ e.kind # "start" /\ Follows(s, l, c, oAt, of) => Follows(t, l + 1, c, oAt, of)
                             /\ e.kind = "start" /\ e.call = c => Follows(t, l + 1, c, oAt, of)
      BY <2>1, FollowsWritten
    <2> HIDE DEF s, t, l, of
    <2>3. Ends(s) /\ Goes(s, oTurn) => Ends(t) /\ Goes(t, oTurn')
      <3> SUFFICES ASSUME Ends(s), Goes(s, oTurn) PROVE Ends(t) /\ Goes(t, oTurn')
        OBVIOUS
      <3>1. ASSUME NEW n \in 0..Len(t) - 1, t[n + 1].kind = "end"
            PROVE  Follows(t, n, t[n + 1].call, oAt, of)
        <4>1. CASE n = l
          <5>1. t[n + 1] = e /\ oTurn.pc \in InCall /\ e.call = oTurn.call
            BY <1>2, <2>1, <3>1, <4>1
          <5>2. Follows(s, l, e.call, oAt, of)
            BY <2>1, <5>1 DEF l
          <5> QED BY <2>1, <2>2, <4>1, <5>1, <5>2
        <4>2. CASE n \in 0..l - 1 /\ n + 1 \in 1..l
          <5>1. t[n + 1] = s[n + 1] /\ n \in 0..l
            BY <2>1, <4>2
          <5>2. Follows(s, n, t[n + 1].call, oAt, of)
            BY <3>1, <4>2, <5>1 DEF l
          <5> QED BY <2>2, <5>1, <5>2
        <4> QED BY <2>1, <3>1, <4>1, <4>2
      <3>2. ASSUME oTurn'.pc \in InCall PROVE Follows(t, Len(t), oTurn'.call, oAt, of)
        <4>1. CASE e.kind = "start" /\ e.call = oTurn'.call
          BY <2>1, <2>2, <4>1
        <4>2. CASE e.kind # "start" /\ oTurn.pc \in InCall /\ oTurn'.call = oTurn.call
          <5>1. Follows(s, l, oTurn.call, oAt, of)
            BY <4>2 DEF l
          <5> QED BY <2>1, <2>2, <4>2, <5>1
        <4> QED BY <1>2, <3>2, <4>1, <4>2
      <3> QED BY <3>1, <3>2
    <2>4. oUi' = oUi /\ oCards' = oCards /\ oAt' = oAt /\ oOdd' = oOdd /\ oStream' = t
      BY <1>2 DEF CallWrites, t, s
    <2> HIDE DEF Ends, Goes
    <2>5. Straight /\ oUi.listening => Ends(s) /\ Goes(s, oTurn)
      BY Zenon DEF CardsFit, Ends, Goes, s, of
    <2>6. Straight /\ oUi.listening => Ends(t) /\ Goes(t, oTurn')
      BY <2>3, <2>5
    <2> QED BY <2>4, <2>6 DEF CardsFit, Straight, Ends, Goes, of
  <1> QED BY <1>1, <1>2 DEF CallWrites

\* Between two calls, or at the end of one: nothing new is asked or answered.
TurnQuiet(e) ==
  /\ CallWrites(e) /\ UNCHANGED <<oQueue, oApproved, oClosed, oDecisions>>
  /\ oUsed' \in [calls : CallNumbers, turns : Nat] /\ oTurn' \in Turns
  /\ oTurn.pc \in BetweenCalls \cup {"returning"} /\ oTurn'.pc \in BetweenCalls \cup {"asking", "returning"}
  /\ oTurn'.cancelled = oTurn.cancelled
  /\ oTurn.pc = "returning" \/ oTurn'.pc \in {"asking", "returning"} => e.kind \in {"start", "end"}
  /\ oTurn'.pc \in {"asking", "returning"} => ~oTurn.cancelled
  /\ oTurn'.outcome # oTurn.outcome =>
       oTurn.cancelled \/ (oTurn'.outcome = "failed" /\ e.kind = "error" /\ oStream' = Append(oStream, e))

\* A step of the turn that asks nothing keeps the invariant.
LEMMA QuietStays ==
    ASSUME CockpitInv, NEW e \in StreamEvents, e.kind # "approval", TurnQuiet(e) PROVE CockpitInv'
  <1> USE DEF CockpitInv, CockpitTyped
  <1>1. CardsFit'
    BY CallKeepsCards DEF TurnQuiet
  <1>2. /\ oUi' = oUi /\ oCards' = oCards /\ oAt' = oAt /\ oOdd' = oOdd /\ oQueue' = oQueue
        /\ oApproved' = oApproved /\ oClosed' = oClosed /\ oDecisions' = oDecisions
        /\ oStream' = oStream \/ oStream' = Append(oStream, e)
        /\ oTurn.pc \notin {"none", "over", "waiting", "asking"} /\ oTurn'.pc \notin {"over", "none"}
        /\ oTurn'.cancelled = oTurn.cancelled
    BY DEF TurnQuiet, CallWrites, BetweenCalls
  <1>3. /\ oStream \in Seq(StreamEvents) /\ oStream' \in Seq(StreamEvents)
        /\ \A i \in 1..Len(oStream) : i \in 1..Len(oStream') /\ oStream'[i] = oStream[i]
        /\ \A i \in 1..Len(oStream') : i \in 1..Len(oStream) \/ oStream'[i] = e
    <2>1. CASE oStream' = oStream
      BY <2>1
    <2>2. CASE oStream' = Append(oStream, e)
      BY <2>2, EventWritten
    <2> QED BY <1>2, <2>1, <2>2
  <1>4. CockpitTyped'
    BY <1>2, <1>3 DEF TurnQuiet
  <1>5. ScreenFits'
    BY <1>2 DEF ScreenFits
  <1>6. OutcomeFits'
    <2>1. oTurn'.outcome = oTurn.outcome \/ oTurn.cancelled
          \/ (oTurn'.outcome = "failed" /\ e.kind = "error" /\ oStream' = Append(oStream, e))
      BY DEF TurnQuiet
    <2>2. e.kind = "error" /\ oStream' = Append(oStream, e)
            => \E i \in 1..Len(oStream') : oStream'[i].kind = "error"
      <3> SUFFICES ASSUME e.kind = "error", oStream' = Append(oStream, e)
                   PROVE  \E i \in 1..Len(oStream') : oStream'[i].kind = "error"
        OBVIOUS
      <3> WITNESS Len(oStream) + 1 \in 1..Len(oStream')
      <3> QED BY EventWritten
    <2>3. (\E i \in 1..Len(oStream) : oStream[i].kind = "error")
            => \E i \in 1..Len(oStream') : oStream'[i].kind = "error"
      BY <1>3
    <2> QED BY <1>2, <2>1, <2>2, <2>3 DEF OutcomeFits
  <1>7. Unanswered' <=> Unanswered
    BY <1>2, <1>3 DEF Unanswered, Asked
  <1>8. QuestionFits'
    <2>1. /\ \A i, j \in 1..Len(oStream') : Asked(i)' /\ Asked(j)' => i = j
          /\ oUi'.pending # 0 => \A i \in 1..Len(oStream') : ~Asked(i)'
      BY <1>2, <1>3 DEF QuestionFits, Asked
    <2>2. /\ Unanswered' => oDecisions' = <<>>
          /\ Unanswered' \/ oDecisions' # <<>> => oTurn'.cancelled /\ oTurn'.pc # "asking"
      <3>1. Unanswered \/ oDecisions # <<>> => oTurn.cancelled
        BY <1>2 DEF QuestionFits
      <3> QED BY <1>2, <1>7, <3>1 DEF QuestionFits, TurnQuiet
    <2>3. ~oTurn.cancelled => ~Unanswered
      BY <1>2 DEF QuestionFits
    <2>4. ~oTurn'.cancelled => ~Unanswered'
      BY <1>2, <1>7, <2>3
    <2> QED BY <2>1, <2>2, <2>4 DEF QuestionFits, Unanswered
  <1>9. AnswerFits'
    BY <1>2 DEF AnswerFits
  <1> QED BY <1>1, <1>4, <1>5, <1>6, <1>8, <1>9 DEF Cockpit!CockpitConstants

\* Every step of the turn.
LEMMA TurnStepStays == CockpitInv /\ Cockpit!TurnStep => CockpitInv'
  <1> SUFFICES ASSUME CockpitInv, Cockpit!TurnStep PROVE CockpitInv'
    OBVIOUS
  <1> USE DEF CockpitInv, CockpitTyped
  <1> DEFINE Plain == {"delta", "assistant", "error", "interrupted", "done"}
  <1>1. /\ \A k \in Plain : Cockpit!Event(k, 0) \in StreamEvents /\ Cockpit!Event(k, 0).kind = k
        /\ \A k \in {"start", "end", "approval"}, c \in CallNumbers :
             /\ Cockpit!Event(k, c) \in StreamEvents
             /\ Cockpit!Event(k, c).kind = k /\ Cockpit!Event(k, c).call = c
    BY DEF Cockpit!Event, StreamEvents, CallNumbers, Cockpit!CockpitConstants
  <1>2. oTurn \in Turns /\ oTurn.call \in CallNumbers /\ oUsed \in [calls : CallNumbers, turns : Nat]
        /\ oUsed.calls \in CallNumbers
    BY DEF Turns
  <1>3. \A e : Cockpit!Emit(e) =>
               oStream' = Append(oStream, e) \/ (oTurn.cancelled /\ oStream' = oStream)
    BY DEF Cockpit!Emit
  <1>4. Cockpit!TurnKeeps =>
          /\ oUi' = oUi /\ oCards' = oCards /\ oAt' = oAt /\ oOdd' = oOdd /\ oQueue' = oQueue
          /\ oApproved' = oApproved
    BY DEF Cockpit!TurnKeeps
  <1>5. CASE Cockpit!Speak
    <2> DEFINE e == Cockpit!Event("delta", 0)
    <2>1. e \in StreamEvents /\ e.kind = "delta"
      BY <1>1
    <2>2. oUsed' \in [calls : CallNumbers, turns : Nat]
      BY <1>2, <1>5 DEF Cockpit!Speak, CallNumbers, Cockpit!CockpitConstants
    <2>3. /\ oTurn' \in Turns /\ oTurn.pc = "thinking" /\ oTurn'.pc = "speaking"
          /\ oTurn'.cancelled = oTurn.cancelled /\ oTurn'.outcome = oTurn.outcome
      BY <1>2, <1>5 DEF Cockpit!Speak, Turns, BetweenCalls
    <2>4. Writes(e) /\ Cockpit!TurnKeeps /\ oClosed' = oClosed /\ oDecisions' = oDecisions
      BY <1>3, <1>5 DEF Cockpit!Speak, Writes
    <2> HIDE DEF e
    <2>5. TurnQuiet(e)
      BY <1>4, <2>1, <2>2, <2>3, <2>4 DEF TurnQuiet, CallWrites, Writes, BetweenCalls, InCall
    <2> QED BY <2>1, <2>5, QuietStays
  <1>6. CASE Cockpit!Spoken
    <2> DEFINE e == Cockpit!Event("assistant", 0)
    <2>1. e \in StreamEvents /\ e.kind = "assistant"
      BY <1>1
    <2>2. oUsed' \in [calls : CallNumbers, turns : Nat]
      BY <1>2, <1>6 DEF Cockpit!Spoken
    <2>3. /\ oTurn' \in Turns /\ oTurn.pc = "speaking" /\ oTurn'.pc \in {"thinking", "failing"}
          /\ oTurn'.cancelled = oTurn.cancelled /\ oTurn'.outcome = oTurn.outcome
      BY <1>2, <1>6 DEF Cockpit!Spoken, Turns, BetweenCalls
    <2>4. Writes(e) /\ Cockpit!TurnKeeps /\ oClosed' = oClosed /\ oDecisions' = oDecisions
      BY <1>3, <1>6 DEF Cockpit!Spoken, Writes
    <2> HIDE DEF e
    <2>5. TurnQuiet(e)
      BY <1>4, <2>1, <2>2, <2>3, <2>4 DEF TurnQuiet, CallWrites, Writes, BetweenCalls, InCall
    <2> QED BY <2>1, <2>5, QuietStays
  <1>7. CASE Cockpit!StartCall
    <2> DEFINE e == Cockpit!Event("start", oUsed'.calls)
    <2>1. /\ oUsed' \in [calls : CallNumbers, turns : Nat] /\ oUsed'.calls \in CallNumbers
      BY <1>2, <1>7 DEF Cockpit!StartCall, CallNumbers, Cockpit!CockpitConstants
    <2>2. e \in StreamEvents /\ e.kind = "start" /\ e.call = oUsed'.calls
      BY <1>1, <2>1
    <2>3. /\ oTurn' \in Turns /\ oTurn.pc = "thinking" /\ oTurn'.pc \in {"asking", "returning"}
          /\ oTurn'.call = oUsed'.calls /\ ~oTurn.cancelled
          /\ oTurn'.cancelled = oTurn.cancelled /\ oTurn'.outcome = oTurn.outcome
      <3>1. PICK next \in {"asking", "returning"} :
              oTurn' = [oTurn EXCEPT !.call = oUsed'.calls, !.pc = next]
        BY <1>7 DEF Cockpit!StartCall
      <3> QED BY <1>2, <1>7, <2>1, <3>1 DEF Cockpit!StartCall, Turns, InCall
    <2>4. oStream' = Append(oStream, e)
      BY <1>3, <1>7, <2>3 DEF Cockpit!StartCall
    <2>5. Cockpit!TurnKeeps /\ oClosed' = oClosed /\ oDecisions' = oDecisions
      BY <1>7 DEF Cockpit!StartCall
    <2> HIDE DEF e
    <2>6. TurnQuiet(e)
      BY <1>4, <2>1, <2>2, <2>3, <2>4, <2>5 DEF TurnQuiet, CallWrites, BetweenCalls
    <2> QED BY <2>2, <2>6, QuietStays
  <1>8. CASE Cockpit!EndCall
    <2> DEFINE e == Cockpit!Event("end", oTurn.call)
    <2>1. e \in StreamEvents /\ e.kind = "end" /\ e.call = oTurn.call
      BY <1>1, <1>2
    <2>2. oUsed' \in [calls : CallNumbers, turns : Nat]
      BY <1>2, <1>8 DEF Cockpit!EndCall
    <2>3. /\ oTurn' \in Turns /\ oTurn.pc = "returning"
          /\ oTurn'.pc \in {"closing", "thinking", "failing"}
          /\ oTurn'.cancelled = oTurn.cancelled /\ oTurn'.outcome = oTurn.outcome
      BY <1>2, <1>8 DEF Cockpit!EndCall, Turns, BetweenCalls
    <2>4. Writes(e) /\ Cockpit!TurnKeeps /\ oClosed' = oClosed /\ oDecisions' = oDecisions
      BY <1>3, <1>8 DEF Cockpit!EndCall, Writes
    <2> HIDE DEF e
    <2>5. TurnQuiet(e)
      BY <1>4, <2>1, <2>2, <2>3, <2>4 DEF TurnQuiet, CallWrites, Writes, BetweenCalls, InCall
    <2> QED BY <2>1, <2>5, QuietStays
  <1>9. CASE Cockpit!FailTurn
    <2> DEFINE e == Cockpit!Event("error", 0)
    <2>1. e \in StreamEvents /\ e.kind = "error"
      BY <1>1
    <2>2. oUsed' \in [calls : CallNumbers, turns : Nat]
      BY <1>2, <1>9 DEF Cockpit!FailTurn
    <2>3. /\ oTurn' \in Turns /\ oTurn.pc \in {"thinking", "failing"} /\ oTurn'.pc \in {"closing", "done"}
          /\ oTurn'.cancelled = oTurn.cancelled /\ oTurn'.outcome = "failed"
      BY <1>2, <1>9 DEF Cockpit!FailTurn, Turns, BetweenCalls
    <2>4. /\ oStream' = Append(oStream, e) \/ (oTurn.cancelled /\ oStream' = oStream)
          /\ Cockpit!TurnKeeps /\ oClosed' = oClosed /\ oDecisions' = oDecisions
      BY <1>3, <1>9 DEF Cockpit!FailTurn
    <2> HIDE DEF e
    <2>5. TurnQuiet(e)
      BY <1>4, <2>1, <2>2, <2>3, <2>4 DEF TurnQuiet, CallWrites, BetweenCalls, InCall
    <2> QED BY <2>1, <2>5, QuietStays
  <1>10. CASE Cockpit!CutTurn
    <2> DEFINE e == Cockpit!Event("interrupted", 0)
    <2>1. e \in StreamEvents /\ e.kind = "interrupted"
      BY <1>1
    <2>2. oUsed' \in [calls : CallNumbers, turns : Nat]
      BY <1>2, <1>10 DEF Cockpit!CutTurn
    <2>3. /\ oTurn' \in Turns /\ oTurn.pc = "thinking" /\ oTurn'.pc = "done"
          /\ oTurn'.cancelled = oTurn.cancelled /\ oTurn.cancelled
      BY <1>2, <1>10 DEF Cockpit!CutTurn, Turns, BetweenCalls
    <2>4. Writes(e) /\ Cockpit!TurnKeeps /\ oClosed' = oClosed /\ oDecisions' = oDecisions
      BY <1>3, <1>10 DEF Cockpit!CutTurn, Writes
    <2> HIDE DEF e
    <2>5. TurnQuiet(e)
      BY <1>4, <2>1, <2>2, <2>3, <2>4 DEF TurnQuiet, CallWrites, Writes, BetweenCalls, InCall
    <2> QED BY <2>1, <2>5, QuietStays
  <1>11. CASE Cockpit!EndTurn
    <2> DEFINE e == Cockpit!Event("done", 0)
    <2>1. e \in StreamEvents /\ e.kind = "done"
      BY <1>1
    <2>2. oUsed' \in [calls : CallNumbers, turns : Nat]
      BY <1>2, <1>11 DEF Cockpit!EndTurn
    <2>3. /\ oTurn' \in Turns /\ oTurn.pc \in {"thinking", "done"} /\ oTurn'.pc = "closing"
          /\ oTurn'.cancelled = oTurn.cancelled /\ oTurn'.outcome = oTurn.outcome
      BY <1>2, <1>11 DEF Cockpit!EndTurn, Turns, BetweenCalls
    <2>4. Writes(e) /\ Cockpit!TurnKeeps /\ oClosed' = oClosed /\ oDecisions' = oDecisions
      BY <1>3, <1>11 DEF Cockpit!EndTurn, Writes
    <2> HIDE DEF e
    <2>5. TurnQuiet(e)
      BY <1>4, <2>1, <2>2, <2>3, <2>4 DEF TurnQuiet, CallWrites, Writes, BetweenCalls, InCall
    <2> QED BY <2>1, <2>5, QuietStays

  <1>12. CASE Cockpit!Ask
    <2> DEFINE e == Cockpit!Event("approval", oTurn.call)
    <2>1. e \in StreamEvents /\ e.kind = "approval" /\ e.call = oTurn.call
      BY <1>1, <1>2
    <2>2. /\ oTurn' \in Turns /\ oTurn.pc = "asking" /\ oTurn'.pc = "waiting"
          /\ oTurn'.call = oTurn.call
          /\ oTurn'.cancelled = oTurn.cancelled /\ oTurn'.outcome = oTurn.outcome
      BY <1>2, <1>12 DEF Cockpit!Ask, Turns, InCall
    <2>3. /\ oUi' = oUi /\ oCards' = oCards /\ oAt' = oAt /\ oOdd' = oOdd /\ oQueue' = oQueue
          /\ oApproved' = oApproved /\ oClosed' = oClosed /\ oDecisions' = oDecisions
          /\ oUsed' = oUsed
      BY <1>4, <1>12 DEF Cockpit!Ask
    <2>4. oStream' = Append(oStream, e) \/ (oTurn.cancelled /\ oStream' = oStream)
      BY <1>3, <1>12 DEF Cockpit!Ask
    <2> HIDE DEF e
    <2>5. ~Unanswered /\ oDecisions = <<>>
      BY <2>2 DEF QuestionFits
    <2>6. CardsFit'
      <3>1. CallWrites(e)
        BY <2>1, <2>2, <2>3, <2>4 DEF CallWrites, InCall
      <3> QED BY <2>1, <3>1, CallKeepsCards
    <2>7. /\ oStream \in Seq(StreamEvents) /\ oStream' \in Seq(StreamEvents)
          /\ \A i \in 1..Len(oStream) : i \in 1..Len(oStream') /\ oStream'[i] = oStream[i]
          /\ \A i \in 1..Len(oStream') : i \in 1..Len(oStream) \/ (i = Len(oStream) + 1 /\ oStream'[i] = e)
      <3>1. CASE oStream' = oStream
        BY <3>1
      <3>2. CASE oStream' = Append(oStream, e)
        BY <2>1, <3>2, EventWritten
      <3> QED BY <2>4, <3>1, <3>2
    <2>8. CockpitTyped'
      BY <2>2, <2>3, <2>7
    <2>9. ScreenFits' /\ OutcomeFits' /\ AnswerFits'
      <3>1. ScreenFits'
        BY <2>2, <2>3 DEF ScreenFits
      <3>2. OutcomeFits'
        <4>1. (\E i \in 1..Len(oStream) : oStream[i].kind = "error")
                => \E i \in 1..Len(oStream') : oStream'[i].kind = "error"
          BY <2>7
        <4> QED BY <2>2, <2>3, <4>1 DEF OutcomeFits
      <3>3. AnswerFits'
        BY <2>3 DEF AnswerFits
      <3> QED BY <3>1, <3>2, <3>3
    <2>10. QuestionFits'
      <3>1. oUi.pending = 0 /\ \A i \in 1..Len(oStream) : ~Asked(i)
        BY <2>5 DEF Unanswered
      <3>2. \A i \in 1..Len(oStream') : Asked(i)' =>
               i = Len(oStream) + 1 /\ oStream'[i].call = oTurn'.call
        BY <2>1, <2>2, <2>7, <3>1 DEF Asked
      <3> QED BY <2>2, <2>3, <2>5, <3>1, <3>2 DEF QuestionFits
    <2> QED BY <2>6, <2>8, <2>9, <2>10 DEF Cockpit!CockpitConstants
  <1>13. CASE Cockpit!Hear
    <2>1. /\ oTurn' \in Turns /\ oTurn.pc = "waiting" /\ oTurn'.pc \in {"waiting", "returning"}
          /\ oTurn'.call = oTurn.call
          /\ oTurn'.cancelled = oTurn.cancelled /\ oTurn'.outcome = oTurn.outcome
          /\ \/ oTurn.cancelled /\ oDecisions' = oDecisions
             \/ oDecisions # <<>> /\ oDecisions' = <<>>
      <3>1. CASE oTurn.cancelled /\ oTurn' = [oTurn EXCEPT !.pc = "returning"] /\ UNCHANGED oDecisions
        BY <1>2, <1>13, <3>1 DEF Cockpit!Hear, Turns, InCall
      <3>2. CASE /\ oDecisions # <<>> /\ oDecisions' = <<>>
                 /\ oTurn' = IF Head(oDecisions).call # oTurn.call THEN oTurn
                             ELSE [oTurn EXCEPT !.pc = "returning", !.yes = Head(oDecisions).yes]
        <4>1. Head(oDecisions).yes \in BOOLEAN
          BY <3>2 DEF AnswerFits
        <4> QED BY <1>2, <1>13, <3>2, <4>1 DEF Cockpit!Hear, Turns, InCall
      <3> QED BY <1>13, <3>1, <3>2 DEF Cockpit!Hear
    <2>2. /\ oUi' = oUi /\ oCards' = oCards /\ oAt' = oAt /\ oOdd' = oOdd /\ oQueue' = oQueue
          /\ oApproved' = oApproved /\ oClosed' = oClosed /\ oStream' = oStream /\ oUsed' = oUsed
      BY <1>4, <1>13 DEF Cockpit!Hear
    <2>3. CardsFit'
      <3>1. CallWrites(Cockpit!Event("done", 0))
        BY <2>1, <2>2 DEF CallWrites, InCall
      <3>2. Cockpit!Event("done", 0) \in StreamEvents
        BY <1>1
      <3> QED BY <3>1, <3>2, CallKeepsCards
    <2>4. CockpitTyped' /\ ScreenFits' /\ OutcomeFits'
      BY <2>1, <2>2 DEF ScreenFits, OutcomeFits
    <2>5. AnswerFits'
      BY <2>1, <2>2 DEF AnswerFits
    <2>6. QuestionFits'
      <3>1. Unanswered' <=> Unanswered
        BY <2>2 DEF Unanswered, Asked
      <3>2. /\ Unanswered => oDecisions' = <<>>
            /\ Unanswered \/ oDecisions' # <<>> => oTurn.cancelled
        BY <2>1 DEF QuestionFits
      <3>3. /\ \A i, j \in 1..Len(oStream') : Asked(i)' /\ Asked(j)' => i = j
            /\ oUi'.pending # 0 => \A i \in 1..Len(oStream') : ~Asked(i)'
            /\ ~oTurn'.cancelled =>
                 /\ oUi'.pending # 0 => oUi'.pending = oTurn'.call
                 /\ \A i \in 1..Len(oStream') : Asked(i)' => oStream'[i].call = oTurn'.call
        BY <2>1, <2>2 DEF QuestionFits, Asked
      <3> QED BY <2>1, <3>1, <3>2, <3>3 DEF QuestionFits
    <2> QED BY <2>3, <2>4, <2>5, <2>6 DEF Cockpit!CockpitConstants
  <1>14. CASE Cockpit!CloseStream
    <2>1. /\ oTurn' \in Turns /\ oTurn.pc = "closing" /\ oTurn'.pc = "over"
          /\ oTurn'.cancelled = oTurn.cancelled
          /\ oTurn'.outcome # "none" /\ (oTurn'.outcome = "cut" => oTurn.cancelled)
          /\ oTurn'.outcome = "failed" => oTurn.outcome = "failed"
      <3> DEFINE o == CASE oTurn.outcome # "none" -> oTurn.outcome [] oTurn.cancelled -> "cut"
                        [] OTHER -> "ok"
      <3>1. oTurn' = [Cockpit!NoTurn EXCEPT !.pc = "over", !.cancelled = oTurn.cancelled, !.outcome = o]
        BY <1>14 DEF Cockpit!CloseStream
      <3>2. /\ o \in {"ok", "failed", "cut"} /\ (o = "cut" => oTurn.cancelled)
            /\ o = "failed" => oTurn.outcome = "failed"
        <4>1. oTurn.outcome \in {"none", "ok", "failed", "cut"}
          BY <1>2 DEF Turns
        <4> QED BY <4>1 DEF OutcomeFits
      <3> HIDE DEF o
      <3>3. oTurn.pc = "closing" /\ oTurn.cancelled \in BOOLEAN /\ 0 \in CallNumbers
        BY <1>2, <1>14 DEF Cockpit!CloseStream, Turns, CallNumbers, Cockpit!CockpitConstants
      <3> QED BY <3>1, <3>2, <3>3 DEF Turns, Cockpit!NoTurn
    <2>2. /\ oUi' = oUi /\ oCards' = oCards /\ oAt' = oAt /\ oOdd' = oOdd /\ oQueue' = oQueue
          /\ oApproved' = oApproved /\ oClosed' = TRUE /\ oStream' = oStream /\ oUsed' = oUsed
          /\ oDecisions' = oDecisions
      BY <1>4, <1>14 DEF Cockpit!CloseStream
    <2>3. CardsFit'
      <3>1. CallWrites(Cockpit!Event("done", 0))
        BY <2>1, <2>2 DEF CallWrites, InCall
      <3>2. Cockpit!Event("done", 0) \in StreamEvents
        BY <1>1
      <3> QED BY <3>1, <3>2, CallKeepsCards
    <2>4. CockpitTyped' /\ ScreenFits'
      BY <2>1, <2>2 DEF ScreenFits
    <2>5. OutcomeFits'
      BY <2>1, <2>2 DEF OutcomeFits
    <2>6. AnswerFits'
      BY <2>2 DEF AnswerFits
    <2>7. QuestionFits'
      <3>1. Unanswered \/ oDecisions # <<>> => oTurn.cancelled
        BY <2>1 DEF QuestionFits
      <3>2. Unanswered' <=> Unanswered
        BY <2>2 DEF Unanswered, Asked
      <3>3. /\ \A i, j \in 1..Len(oStream') : Asked(i)' /\ Asked(j)' => i = j
            /\ oUi'.pending # 0 => \A i \in 1..Len(oStream') : ~Asked(i)'
        BY <2>2 DEF QuestionFits, Asked
      <3>4. /\ Unanswered' => oDecisions' = <<>>
            /\ Unanswered' \/ oDecisions' # <<>> => oTurn'.cancelled /\ oTurn'.pc # "asking"
        BY <2>1, <2>2, <3>1, <3>2 DEF QuestionFits
      <3>5. ~oTurn'.cancelled => oUi'.pending = 0 /\ \A i \in 1..Len(oStream') : ~Asked(i)'
        BY <3>4 DEF Unanswered
      <3> QED BY <3>3, <3>4, <3>5 DEF QuestionFits
    <2> QED BY <2>3, <2>4, <2>5, <2>6, <2>7 DEF Cockpit!CockpitConstants
  <1> QED BY <1>5, <1>6, <1>7, <1>8, <1>9, <1>10, <1>11, <1>12, <1>13, <1>14 DEF Cockpit!TurnStep

(***************************************************************************)
(* The steps of the screen.                                                *)
(***************************************************************************)
ScreenMoves ==
  /\ UNCHANGED <<oCards, oAt, oTurn, oStream, oClosed, oDecisions, oUsed, oApproved>>
  /\ oUi' \in Screens /\ oQueue' \in Nat /\ oOdd \subseteq oOdd'
  /\ oUi'.running = oUi.running /\ oUi'.pending = oUi.pending /\ oUi'.failed = oUi.failed
  /\ oUi'.interrupting = oUi.interrupting /\ oUi'.listening = oUi.listening
  /\ {oUi.pc, oUi'.pc} \subseteq {"free", "saving"}

\* A step that only moves the overlays keeps the invariant.
LEMMA MovesStay == CockpitInv /\ ScreenMoves => CockpitInv'
  <1> SUFFICES ASSUME CockpitInv, ScreenMoves PROVE CockpitInv'
    OBVIOUS
  <1> USE DEF CockpitInv, CockpitTyped
  <1>1. /\ oCards' = oCards /\ oAt' = oAt /\ oTurn' = oTurn /\ oStream' = oStream
        /\ oClosed' = oClosed /\ oDecisions' = oDecisions /\ oUsed' = oUsed /\ oApproved' = oApproved
        /\ oUi.pc \notin {"selecting", "quit"} /\ oUi'.pc \notin {"selecting", "quit"}
        /\ "switch" \in oOdd => "switch" \in oOdd'
        /\ "clear" \in oOdd => "clear" \in oOdd'
        /\ oUi'.running = oUi.running /\ oUi'.pending = oUi.pending /\ oUi'.failed = oUi.failed
        /\ oUi'.interrupting = oUi.interrupting /\ oUi'.listening = oUi.listening
    BY DEF ScreenMoves
  <1>2. CockpitTyped'
    BY <1>1 DEF ScreenMoves
  <1>3. ScreenFits'
    BY <1>1 DEF ScreenFits
  <1>4. OutcomeFits'
    BY <1>1 DEF OutcomeFits
  <1>5. QuestionFits' /\ AnswerFits'
    BY <1>1 DEF QuestionFits, AnswerFits, Unanswered, Asked
  <1>6. CardsFit'
    <2>1. Straight' => Straight
      BY <1>1 DEF Straight
    <2> QED BY <1>1, <2>1 DEF CardsFit
  <1> QED BY <1>2, <1>3, <1>4, <1>5, <1>6 DEF Cockpit!CockpitConstants

\* A turn that starts finds an empty stream and no question.
TurnBegins ==
  /\ oTurn' \in Turns /\ oTurn'.pc = "thinking" /\ ~oTurn'.cancelled /\ oTurn'.outcome = "none"
  /\ oUi' \in Screens /\ oUi'.pc = "free" /\ oUi'.running /\ oUi'.pending = 0
  /\ oAt' = 0 /\ oStream' = <<>> /\ oClosed' = FALSE /\ oDecisions' = <<>>
  /\ oUsed' \in [calls : CallNumbers, turns : Nat] /\ oQueue' \in Nat /\ oOdd' = oOdd
  /\ oCards' \in Seq(CardRecords) /\ Len(oCards') = Len(oCards)
  /\ \A i \in 1..Len(oCards) : oCards'[i].call = oCards[i].call /\ oCards'[i].shows = oCards[i].shows

\* A turn that begins keeps the invariant.
LEMMA BeginsStays == CockpitInv /\ TurnBegins => CockpitInv'
  <1> SUFFICES ASSUME CockpitInv, TurnBegins PROVE CockpitInv'
    OBVIOUS
  <1>1. Len(oStream') = 0
    BY DEF TurnBegins
  <1>2. CockpitTyped'
    BY DEF TurnBegins, CockpitTyped
  <1>3. ScreenFits' /\ OutcomeFits'
    BY DEF TurnBegins, ScreenFits, OutcomeFits
  <1>4. QuestionFits' /\ AnswerFits'
    BY <1>1 DEF TurnBegins, QuestionFits, AnswerFits, Unanswered, Asked
  <1>5. CardsFit'
    BY <1>1 DEF TurnBegins, CardsFit, Straight, InCall, CockpitInv
  <1> QED BY <1>2, <1>3, <1>4, <1>5 DEF CockpitInv, Cockpit!CockpitConstants

\* Keys that move the screen, and the end of a save.
LEMMA MoveStepStays ==
    ASSUME CockpitInv,
           \/ Cockpit!Submit \/ Cockpit!FollowUp \/ Cockpit!ShowEditor \/ Cockpit!SaveEditor
           \/ Cockpit!LeaveEditor \/ Cockpit!OpenIDE \/ Cockpit!LeaveIDE \/ Cockpit!Saved
    PROVE  CockpitInv'
  <1> USE DEF CockpitInv, CockpitTyped
  <1>1. oUi \in Screens /\ oQueue \in Nat /\ oUsed \in [calls : CallNumbers, turns : Nat]
        /\ oCards \in Seq(CardRecords) /\ 0 \in CallNumbers
    BY DEF CallNumbers, Cockpit!CockpitConstants
  <1>2. ASSUME NEW kind \in {"prompt", "shell"}, NEW screen \in Screens, Cockpit!Start(kind, screen),
               screen.pc = "free", screen.pending = 0, oQueue' = oQueue, oCards' = oCards, oOdd' = oOdd
        PROVE  TurnBegins
    <2>1. oTurn' \in Turns /\ oTurn'.pc = "thinking" /\ ~oTurn'.cancelled /\ oTurn'.outcome = "none"
      BY <1>1, <1>2 DEF Cockpit!Start, Cockpit!NoTurn, Turns, BetweenCalls
    <2>2. oUi' \in Screens /\ oUi'.pc = "free" /\ oUi'.running /\ oUi'.pending = 0
      BY <1>2 DEF Cockpit!Start, Screens
    <2>3. oUsed' \in [calls : CallNumbers, turns : Nat]
      BY <1>1, <1>2 DEF Cockpit!Start
    <2> QED BY <1>1, <1>2, <2>1, <2>2, <2>3 DEF TurnBegins, Cockpit!Start
  <1>3. CASE Cockpit!Submit
    <2>1. PICK kind \in {"prompt", "shell"} : Cockpit!Start(kind, oUi)
      BY <1>3 DEF Cockpit!Submit
    <2>2. oUi.pc = "free" /\ oUi.pending = 0 /\ oQueue' = oQueue /\ oCards' = oCards /\ oOdd' = oOdd
          /\ oApproved' = oApproved
      BY <1>3 DEF Cockpit!Submit, Cockpit!Bare, Cockpit!Free, Cockpit!ScreenKeeps
    <2>3. TurnBegins
      BY <1>1, <1>2, <2>1, <2>2
    <2> QED BY <2>3, BeginsStays
  <1>4. CASE Cockpit!FollowUp
    <2>1. ScreenMoves
      <3>1. oUi.pc = "free" /\ oUi' = oUi /\ oQueue' = oQueue + 1
        BY <1>4 DEF Cockpit!FollowUp, Cockpit!Bare, Cockpit!Free
      <3>2. UNCHANGED <<oCards, oAt, oTurn, oStream, oClosed, oDecisions, oUsed, oOdd, oApproved>>
        BY <1>4 DEF Cockpit!FollowUp, Cockpit!ScreenKeeps
      <3>3. oQueue' \in Nat
        BY <1>1, <3>1
      <3> QED BY <1>1, <3>1, <3>2, <3>3 DEF ScreenMoves
    <2> QED BY <2>1, MovesStay
  <1>5. CASE Cockpit!ShowEditor
    <2>1. ScreenMoves
      BY <1>1, <1>5 DEF Cockpit!ShowEditor, Cockpit!Bare, Cockpit!Free, Cockpit!ScreenKeeps,
        ScreenMoves, Screens
    <2> QED BY <2>1, MovesStay
  <1>6. CASE Cockpit!SaveEditor
    <2>1. ScreenMoves
      <3>1. oUi.pc = "free" /\ oUi' = [oUi EXCEPT !.pc = "saving"]
        BY <1>6 DEF Cockpit!SaveEditor, Cockpit!Free
      <3>2. oOdd \subseteq oOdd'
        BY <1>6 DEF Cockpit!SaveEditor, Cockpit!Oddity
      <3>3. UNCHANGED <<oQueue, oCards, oAt, oTurn, oStream, oClosed, oDecisions, oUsed, oApproved>>
        BY <1>6 DEF Cockpit!SaveEditor, Cockpit!ScreenKeeps
      <3>4. oUi' \in Screens
        BY <1>1, <3>1 DEF Screens
      <3> QED BY <1>1, <3>1, <3>2, <3>3, <3>4 DEF ScreenMoves, Screens
    <2> QED BY <2>1, MovesStay
  <1>7. CASE Cockpit!LeaveEditor
    <2>1. ScreenMoves
      BY <1>1, <1>7 DEF Cockpit!LeaveEditor, Cockpit!Free, Cockpit!ScreenKeeps, ScreenMoves, Screens
    <2> QED BY <2>1, MovesStay
  <1>8. CASE Cockpit!OpenIDE
    <2>1. ScreenMoves
      <3>1. oUi.pc = "free" /\ oUi' = [oUi EXCEPT !.overlay = "ide"]
        BY <1>8 DEF Cockpit!OpenIDE, Cockpit!Bare, Cockpit!Free
      <3>2. oOdd \subseteq oOdd'
        BY <1>8 DEF Cockpit!OpenIDE, Cockpit!Oddity
      <3>3. UNCHANGED <<oQueue, oCards, oAt, oTurn, oStream, oClosed, oDecisions, oUsed, oApproved>>
        BY <1>8 DEF Cockpit!OpenIDE, Cockpit!ScreenKeeps
      <3>4. oUi' \in Screens
        BY <1>1, <3>1 DEF Screens
      <3> QED BY <1>1, <3>1, <3>2, <3>3, <3>4 DEF ScreenMoves, Screens
    <2> QED BY <2>1, MovesStay
  <1>9. CASE Cockpit!LeaveIDE
    <2>1. ScreenMoves
      BY <1>1, <1>9 DEF Cockpit!LeaveIDE, Cockpit!Free, Cockpit!ScreenKeeps, ScreenMoves, Screens
    <2> QED BY <2>1, MovesStay
  <1>10. CASE Cockpit!Saved
    <2> DEFINE shown == [oUi EXCEPT !.pc = "free", !.overlay = "none"]
    <2>1. oUi.pc = "saving" /\ oCards' = oCards /\ oOdd' = oOdd /\ oApproved' = oApproved
      BY <1>10 DEF Cockpit!Saved, Cockpit!ScreenKeeps
    <2>2. shown \in Screens /\ shown.pc = "free" /\ shown.pending = oUi.pending
      BY <1>1 DEF Screens
    <2>3. CASE oUi' = [oUi EXCEPT !.pc = "free"]
               /\ UNCHANGED <<oQueue, oAt, oTurn, oStream, oClosed, oDecisions, oUsed>>
      <3>1. ScreenMoves
        BY <1>1, <2>1, <2>3 DEF ScreenMoves, Screens
      <3> QED BY <3>1, MovesStay
    <2>4. CASE ~oUi.running /\ Cockpit!Start("prompt", shown) /\ UNCHANGED oQueue
      <3>1. oUi.pending = 0
        BY <2>4 DEF ScreenFits
      <3> HIDE DEF shown
      <3>2. TurnBegins
        BY <1>2, <2>1, <2>2, <2>4, <3>1
      <3> QED BY <3>2, BeginsStays
    <2>5. CASE /\ oUi.running /\ oUi' = shown /\ oQueue' = oQueue + 1
               /\ UNCHANGED <<oAt, oTurn, oStream, oClosed, oDecisions, oUsed>>
      <3>1. oUi' \in Screens /\ oUi'.pc = "free"
        BY <2>2, <2>5
      <3>2. oUi'.running = oUi.running /\ oUi'.pending = oUi.pending /\ oUi'.failed = oUi.failed
            /\ oUi'.interrupting = oUi.interrupting /\ oUi'.listening = oUi.listening
        BY <1>1, <2>5 DEF Screens
      <3>3. oQueue' \in Nat
        BY <1>1, <2>5
      <3> HIDE DEF shown
      <3>4. ScreenMoves
        BY <2>1, <2>5, <3>1, <3>2, <3>3 DEF ScreenMoves
      <3> QED BY <3>4, MovesStay
    <2> QED BY <1>10, <2>3, <2>4, <2>5 DEF Cockpit!Saved
  <1> QED BY <1>3, <1>4, <1>5, <1>6, <1>7, <1>8, <1>9, <1>10

\* Keys that change a card, a decision or the turn, and the end of a stream.
LEMMA ScreenStepStays ==
    ASSUME CockpitInv,
           \/ Cockpit!Clear \/ Cockpit!Interrupt \/ Cockpit!Decide(TRUE) \/ Cockpit!Decide(FALSE)
           \/ Cockpit!SelectCandidate \/ Cockpit!Quit \/ Cockpit!Selected \/ Cockpit!StreamEnds
           \/ Cockpit!LoseMessage
    PROVE  CockpitInv'
  <1> USE DEF CockpitInv, CockpitTyped
  <1>1. /\ oUi \in Screens /\ oQueue \in Nat /\ oUsed \in [calls : CallNumbers, turns : Nat]
        /\ oCards \in Seq(CardRecords) /\ oStream \in Seq(StreamEvents) /\ 0 \in CallNumbers
        /\ oTurn \in Turns
    BY DEF CallNumbers, Cockpit!CockpitConstants
  <1>2. <<>> \in Seq(CardRecords) /\ <<>> \in Seq(StreamEvents) /\ Len(<<>>) = 0
    OBVIOUS
  <1>3. CASE Cockpit!Clear
    <2>1. /\ oAt # 0 /\ oCards' = <<>> /\ "clear" \in oOdd' /\ "switch" \notin oOdd
          /\ oUi' = oUi /\ oQueue' = oQueue /\ oAt' = oAt /\ oTurn' = oTurn /\ oStream' = oStream
          /\ oClosed' = oClosed /\ oDecisions' = oDecisions /\ oUsed' = oUsed
          /\ oApproved' = oApproved
      BY <1>3 DEF Cockpit!Clear, Cockpit!Oddity, Cockpit!ScreenKeeps
    <2>2. CockpitTyped'
      BY <1>1, <1>2, <2>1
    <2>3. ScreenFits' /\ OutcomeFits'
      BY <1>2, <2>1 DEF ScreenFits, OutcomeFits
    <2>4. QuestionFits' /\ AnswerFits'
      BY <2>1 DEF QuestionFits, AnswerFits, Unanswered, Asked
    <2>5. CardsFit'
      BY <2>1 DEF CardsFit, Straight
    <2> QED BY <2>2, <2>3, <2>4, <2>5 DEF Cockpit!CockpitConstants
  <1>4. CASE Cockpit!Interrupt
    <2>1. /\ oUi' = [oUi EXCEPT !.interrupting = TRUE] /\ oTurn' = [oTurn EXCEPT !.cancelled = TRUE]
          /\ oQueue' = oQueue /\ oCards' = oCards /\ oAt' = oAt /\ oStream' = oStream
          /\ oClosed' = oClosed /\ oDecisions' = oDecisions /\ oUsed' = oUsed /\ oOdd' = oOdd
          /\ oApproved' = oApproved
      BY <1>4 DEF Cockpit!Interrupt, Cockpit!ScreenKeeps
    <2>2. oUi' \in Screens /\ oTurn' \in Turns
      BY <1>1, <2>1 DEF Screens, Turns
    <2>3. /\ oUi'.pc = oUi.pc /\ oUi'.running = oUi.running /\ oUi'.pending = oUi.pending
          /\ oUi'.failed = oUi.failed /\ oUi'.interrupting /\ oUi'.listening = oUi.listening
          /\ oTurn'.pc = oTurn.pc /\ oTurn'.call = oTurn.call /\ oTurn'.cancelled
          /\ oTurn'.outcome = oTurn.outcome
      BY <1>1, <2>1 DEF Screens, Turns
    <2>4. CockpitTyped'
      BY <2>1, <2>2
    <2>5. ScreenFits' /\ OutcomeFits'
      BY <2>1, <2>3 DEF ScreenFits, OutcomeFits
    <2>6. QuestionFits' /\ AnswerFits'
      <3>1. QuestionFits'
        BY <2>1, <2>3 DEF QuestionFits, Unanswered, Asked
      <3> QED BY <2>1, <3>1 DEF AnswerFits
    <2>7. CardsFit'
      BY <2>1, <2>3 DEF CardsFit, Straight
    <2> QED BY <2>4, <2>5, <2>6, <2>7 DEF Cockpit!CockpitConstants
  <1>5. ASSUME NEW yes \in BOOLEAN, Cockpit!Decide(yes) PROVE CockpitInv'
    <2>1. /\ oUi.pending # 0 /\ oUi' = [oUi EXCEPT !.pending = 0] /\ oTurn' = oTurn
          /\ oDecisions' = <<[call |-> oUi.pending, yes |-> yes]>>
          /\ oApproved' = IF yes THEN oUi.pending ELSE 0
          /\ oQueue' = oQueue /\ oCards' = oCards /\ oAt' = oAt /\ oStream' = oStream
          /\ oClosed' = oClosed /\ oUsed' = oUsed /\ oOdd' = oOdd
      BY <1>5 DEF Cockpit!Decide
    <2>2. oUi' \in Screens
      BY <1>1, <2>1 DEF Screens
    <2>3. /\ oUi'.pc = oUi.pc /\ oUi'.running = oUi.running /\ oUi'.pending = 0
          /\ oUi'.failed = oUi.failed /\ oUi'.interrupting = oUi.interrupting
          /\ oUi'.listening = oUi.listening
      BY <1>1, <2>1 DEF Screens
    <2>4. CockpitTyped'
      BY <2>1, <2>2
    <2>5. ScreenFits' /\ OutcomeFits'
      BY <2>1, <2>3 DEF ScreenFits, OutcomeFits
    <2>6. QuestionFits'
      <3>1. \A i \in 1..Len(oStream) : ~Asked(i)
        BY <2>1 DEF QuestionFits
      <3>2. oTurn.pc = "waiting" \/ (oTurn.cancelled /\ oTurn.pc # "asking")
        BY <2>1 DEF QuestionFits, Unanswered
      <3>3. \A i \in 1..Len(oStream') : ~Asked(i)'
        BY <2>1, <3>1 DEF Asked
      <3>4. ~Unanswered'
        BY <2>3, <3>3 DEF Unanswered
      <3> QED BY <2>1, <2>3, <3>2, <3>3, <3>4 DEF QuestionFits
    <2>7. AnswerFits'
      <3>1. oUi.pending \in CallNumbers
        BY <1>1 DEF Screens
      <3>2. yes => oApproved' = oUi.pending
        BY <2>1
      <3>3. \E c \in CallNumbers, y \in BOOLEAN :
              oDecisions' = <<[call |-> c, yes |-> y]>> /\ (y => oApproved' = c)
        BY <2>1, <3>1, <3>2
      <3> QED BY <3>3 DEF AnswerFits
    <2>8. CardsFit'
      BY <2>1, <2>3 DEF CardsFit, Straight
    <2> QED BY <2>4, <2>5, <2>6, <2>7, <2>8 DEF Cockpit!CockpitConstants
  <1>6. CASE Cockpit!SelectCandidate
    <2>1. /\ oUi' = [oUi EXCEPT !.pc = "selecting", !.mode = "operate"]
          /\ oTurn' = [oTurn EXCEPT !.cancelled = @ \/ ~Cockpit!Over]
          /\ oUi.running => "switch" \in oOdd'
          /\ oOdd \subseteq oOdd'
          /\ oQueue' = oQueue /\ oCards' = oCards /\ oAt' = oAt /\ oStream' = oStream
          /\ oClosed' = oClosed /\ oDecisions' = oDecisions /\ oUsed' = oUsed
          /\ oApproved' = oApproved
      BY <1>6 DEF Cockpit!SelectCandidate, Cockpit!Oddity, Cockpit!ScreenKeeps
    <2>2. oUi' \in Screens /\ oTurn' \in Turns
      BY <1>1, <2>1 DEF Screens, Turns
    <2>3. /\ oUi'.pc = "selecting" /\ oUi'.running = oUi.running /\ oUi'.pending = oUi.pending
          /\ oUi'.failed = oUi.failed /\ oUi'.interrupting = oUi.interrupting
          /\ oUi'.listening = oUi.listening
          /\ oTurn'.pc = oTurn.pc /\ oTurn'.call = oTurn.call
          /\ oTurn'.outcome = oTurn.outcome
          /\ oTurn.cancelled => oTurn'.cancelled
      BY <1>1, <2>1 DEF Screens, Turns
    <2>4. CockpitTyped'
      BY <2>1, <2>2
    <2>5. ScreenFits' /\ OutcomeFits'
      BY <2>1, <2>3 DEF ScreenFits, OutcomeFits
    <2>6. QuestionFits' /\ AnswerFits'
      <3>1. QuestionFits'
        BY <2>1, <2>3 DEF QuestionFits, Unanswered, Asked
      <3> QED BY <2>1, <3>1 DEF AnswerFits
    <2>7. CardsFit'
      <3>1. Straight' => Straight
        BY <2>1 DEF Straight
      <3> QED BY <2>1, <2>3, <3>1 DEF CardsFit
    <2> QED BY <2>4, <2>5, <2>6, <2>7 DEF Cockpit!CockpitConstants
  <1>7. CASE Cockpit!Quit
    <2>1. /\ oUi' = [oUi EXCEPT !.pc = "quit"]
          /\ oTurn' = [oTurn EXCEPT !.cancelled = @ \/ ~Cockpit!Over]
          /\ oQueue' = 0 /\ oCards' = <<>> /\ oAt' = 0 /\ oStream' = oStream
          /\ oClosed' = oClosed /\ oDecisions' = oDecisions /\ oUsed' = oUsed /\ oOdd' = oOdd
          /\ oApproved' = oApproved
      BY <1>7 DEF Cockpit!Quit, Cockpit!ScreenKeeps
    <2>2. oUi' \in Screens /\ oTurn' \in Turns
      BY <1>1, <2>1 DEF Screens, Turns
    <2>3. /\ oUi'.pc = "quit" /\ oUi'.running = oUi.running /\ oUi'.pending = oUi.pending
          /\ oUi'.failed = oUi.failed /\ oUi'.interrupting = oUi.interrupting
          /\ oUi'.listening = oUi.listening
          /\ oTurn'.pc = oTurn.pc /\ oTurn'.call = oTurn.call
          /\ oTurn'.outcome = oTurn.outcome
          /\ oTurn.cancelled => oTurn'.cancelled
      BY <1>1, <2>1 DEF Screens, Turns
    <2>4. CockpitTyped'
      BY <1>2, <2>1, <2>2
    <2>5. ScreenFits' /\ OutcomeFits'
      BY <1>2, <2>1, <2>3 DEF ScreenFits, OutcomeFits
    <2>6. QuestionFits' /\ AnswerFits'
      <3>1. QuestionFits'
        BY <2>1, <2>3 DEF QuestionFits, Unanswered, Asked
      <3> QED BY <2>1, <3>1 DEF AnswerFits
    <2>7. CardsFit'
      <3>1. ASSUME NEW s, NEW n, NEW c, NEW card, NEW of, NEW ofNext, Follows(s, n, c, card, of)
            PROVE  Follows(s, n, c, 0, ofNext)
        BY <3>1 DEF Follows
      <3>2. Len(oCards') = 0
        BY <1>2, <2>1
      <3> HIDE DEF CockpitInv, CockpitTyped
      <3>3. CardsFit
        BY DEF CockpitInv
      <3> QED BY <2>1, <2>3, <3>1, <3>2, <3>3 DEF CardsFit, Straight
    <2> QED BY <2>4, <2>5, <2>6, <2>7 DEF Cockpit!CockpitConstants
  <1>8. CASE Cockpit!Selected
    <2>1. /\ oUi.pc = "selecting" /\ oUi' = [oUi EXCEPT !.pc = "free"] /\ oCards' = <<>>
          /\ oQueue' = oQueue /\ oTurn' = oTurn /\ oAt' = oAt /\ oStream' = oStream
          /\ oClosed' = oClosed /\ oDecisions' = oDecisions /\ oUsed' = oUsed /\ oOdd' = oOdd
          /\ oApproved' = oApproved
      BY <1>8 DEF Cockpit!Selected, Cockpit!ScreenKeeps
    <2>2. oUi' \in Screens
      BY <1>1, <2>1 DEF Screens
    <2>3. /\ oUi'.pc = "free" /\ oUi'.running = oUi.running /\ oUi'.pending = oUi.pending
          /\ oUi'.failed = oUi.failed /\ oUi'.interrupting = oUi.interrupting
          /\ oUi'.listening = oUi.listening
      BY <1>1, <2>1 DEF Screens
    <2>4. CockpitTyped'
      BY <1>2, <2>1, <2>2
    <2>5. ScreenFits' /\ OutcomeFits'
      BY <1>2, <2>1, <2>3 DEF ScreenFits, OutcomeFits
    <2>6. QuestionFits' /\ AnswerFits'
      <3>1. QuestionFits'
        BY <2>1, <2>3 DEF QuestionFits, Unanswered, Asked
      <3> QED BY <2>1, <3>1 DEF AnswerFits
    <2>7. CardsFit'
      <3>1. Straight => ~oUi.running /\ oAt = 0 /\ ~oUi.listening
        BY <2>1 DEF ScreenFits, Straight
      <3>2. Straight' <=> Straight
        BY <2>1 DEF Straight
      <3>3. Len(oCards') = 0
        BY <1>2, <2>1
      <3> QED BY <2>1, <2>3, <3>1, <3>2, <3>3 DEF CardsFit
    <2> QED BY <2>4, <2>5, <2>6, <2>7 DEF Cockpit!CockpitConstants

  <1>9. CASE Cockpit!StreamEnds
    <2> DEFINE shown == [oUi EXCEPT !.running = FALSE, !.pending = 0, !.failed = FALSE,
                                    !.interrupting = FALSE, !.listening = FALSE]
    <2>1. /\ oUi.pc = "free" /\ oClosed /\ oStream = <<>> /\ oOdd' = oOdd /\ oApproved' = oApproved
          /\ oCards' = [i \in DOMAIN oCards |-> [oCards[i] EXCEPT !.open = FALSE]]
      BY <1>9 DEF Cockpit!StreamEnds, Cockpit!Free, Cockpit!Settle, Cockpit!ScreenKeeps
    <2>2. /\ shown \in Screens /\ shown.pc = "free" /\ ~shown.running /\ shown.pending = 0
          /\ ~shown.listening
      BY <1>1, <2>1 DEF Screens
    <2>3. /\ oCards' \in Seq(CardRecords) /\ Len(oCards') = Len(oCards)
          /\ \A i \in 1..Len(oCards) : /\ oCards'[i].call = oCards[i].call
                                       /\ oCards'[i].shows = oCards[i].shows /\ ~oCards'[i].open
      <3>1. \A i \in DOMAIN oCards : oCards[i] \in CardRecords
        BY <1>1
      <3>2. DOMAIN oCards = 1..Len(oCards) /\ Len(oCards) \in Nat
        BY <1>1
      <3>3. \A i \in 1..Len(oCards) :
               /\ oCards'[i] = [oCards[i] EXCEPT !.open = FALSE]
               /\ oCards'[i] \in CardRecords
               /\ oCards'[i].call = oCards[i].call
               /\ oCards'[i].shows = oCards[i].shows /\ ~oCards'[i].open
        BY <2>1, <3>1, <3>2 DEF CardRecords
      <3>4. oCards' \in Seq(CardRecords) /\ Len(oCards') = Len(oCards)
        BY <2>1, <3>2, <3>3
      <3> QED BY <3>3, <3>4
    <2> HIDE DEF shown
    <2>4. CASE Cockpit!Start("prompt", shown) /\ oQueue' = oQueue - 1 /\ oQueue > 0
      <3>1. oTurn' \in Turns /\ oTurn'.pc = "thinking" /\ ~oTurn'.cancelled /\ oTurn'.outcome = "none"
        BY <1>1, <2>4 DEF Cockpit!Start, Cockpit!NoTurn, Turns, BetweenCalls
      <3>2. oUi' \in Screens /\ oUi'.pc = "free" /\ oUi'.running /\ oUi'.pending = 0
        BY <2>2, <2>4 DEF Cockpit!Start, Screens
      <3>3. oUsed' \in [calls : CallNumbers, turns : Nat]
        BY <1>1, <2>4 DEF Cockpit!Start
      <3>4. oQueue' \in Nat
        BY <1>1, <2>4
      <3>5. TurnBegins
        BY <2>1, <2>3, <2>4, <3>1, <3>2, <3>3, <3>4 DEF TurnBegins, Cockpit!Start
      <3> QED BY <3>5, BeginsStays
    <2>5. CASE /\ oUi' = shown /\ oQueue' = 0 /\ oAt' = 0
               /\ UNCHANGED <<oTurn, oStream, oClosed, oDecisions, oUsed>>
      <3>1. CockpitTyped'
        BY <1>1, <2>2, <2>3, <2>5
      <3>2. oTurn.pc = "over" /\ Len(oStream) = 0
        BY <1>2, <2>1 DEF ScreenFits
      <3>3. ScreenFits' /\ OutcomeFits'
        BY <2>1, <2>2, <2>3, <2>5, <3>2 DEF ScreenFits, OutcomeFits
      <3>4. QuestionFits'
        <4>1. ~Unanswered' /\ \A i \in 1..Len(oStream') : ~Asked(i)'
          BY <2>2, <2>5, <3>2 DEF Unanswered
        <4>2. oDecisions # <<>> => oTurn.pc = "waiting" \/ (oTurn.cancelled /\ oTurn.pc # "asking")
          BY DEF QuestionFits
        <4> QED BY <2>2, <2>5, <4>1, <4>2 DEF QuestionFits
      <3>5. AnswerFits'
        BY <2>1, <2>5 DEF AnswerFits
      <3>6. CardsFit'
        BY <2>1, <2>2, <2>3, <2>5 DEF CardsFit, Straight
      <3> QED BY <3>1, <3>3, <3>4, <3>5, <3>6 DEF Cockpit!CockpitConstants
    <2> QED BY <1>9, <2>4, <2>5 DEF Cockpit!StreamEnds, shown
  <1>10. CASE Cockpit!LoseMessage
    <2>1. /\ oUi.pc = "free" /\ oUi' = [oUi EXCEPT !.listening = FALSE]
          /\ oStream' = IF oStream = <<>> THEN oStream ELSE Tail(oStream)
          /\ oCards' = oCards /\ oQueue' = oQueue /\ oTurn' = oTurn /\ oAt' = oAt
          /\ oClosed' = oClosed /\ oDecisions' = oDecisions /\ oUsed' = oUsed /\ oOdd' = oOdd
          /\ oApproved' = oApproved
      BY <1>10 DEF Cockpit!LoseMessage, Cockpit!Free, Cockpit!ScreenKeeps
    <2>2. oUi' \in Screens
      BY <1>1, <2>1 DEF Screens
    <2>3. /\ oUi'.pc = "free" /\ oUi'.running = oUi.running /\ oUi'.pending = oUi.pending
          /\ oUi'.failed = oUi.failed /\ oUi'.interrupting = oUi.interrupting
          /\ ~oUi'.listening
      BY <1>1, <2>1 DEF Screens
    <2>4. \A j \in 1..Len(oStream') : \E i \in 1..Len(oStream) :
             oStream'[j] = oStream[i] /\ (oStream = <<>> \/ i = j + 1)
      BY <1>1, <2>1
    <2>5. oStream' \in Seq(StreamEvents)
      BY <1>1, <2>1
    <2>6. CockpitTyped'
      BY <1>1, <2>1, <2>2, <2>5
    <2>7. ScreenFits' /\ OutcomeFits'
      BY <2>1, <2>3 DEF ScreenFits, OutcomeFits
    <2>8. QuestionFits'
      <3>1. \A j \in 1..Len(oStream') : Asked(j)' => \E i \in 1..Len(oStream) :
              Asked(i) /\ oStream'[j] = oStream[i] /\ i = j + 1
        BY <2>4 DEF Asked
      <3>2. Unanswered' => Unanswered
        BY <2>3, <3>1 DEF Unanswered
      <3>3. \A i, j \in 1..Len(oStream') : Asked(i)' /\ Asked(j)' => i = j
        <4> SUFFICES ASSUME NEW i \in 1..Len(oStream'), NEW j \in 1..Len(oStream'),
                            Asked(i)', Asked(j)'
                     PROVE  i = j
          OBVIOUS
        <4>1. \A a, b \in 1..Len(oStream) : Asked(a) /\ Asked(b) => a = b
          BY DEF QuestionFits
        <4>2. i + 1 = j + 1
          BY <3>1, <4>1
        <4> QED BY <4>2
      <3>4. /\ oUi'.pending # 0 => \A i \in 1..Len(oStream') : ~Asked(i)'
            /\ ~oTurn'.cancelled =>
                 /\ oUi'.pending # 0 => oUi'.pending = oTurn'.call
                 /\ \A i \in 1..Len(oStream') : Asked(i)' => oStream'[i].call = oTurn'.call
        BY <2>1, <2>3, <3>1 DEF QuestionFits
      <3>5. /\ Unanswered' => oDecisions' = <<>>
            /\ Unanswered' \/ oDecisions' # <<>> =>
                 oTurn'.pc = "waiting" \/ (oTurn'.cancelled /\ oTurn'.pc # "asking")
        BY <2>1, <3>2 DEF QuestionFits
      <3> QED BY <3>3, <3>4, <3>5 DEF QuestionFits
    <2>9. AnswerFits'
      BY <2>1 DEF AnswerFits
    <2>10. CardsFit'
      BY <2>1, <2>3 DEF CardsFit, Straight
    <2> QED BY <2>6, <2>7, <2>8, <2>9, <2>10 DEF Cockpit!CockpitConstants
  <1> QED BY <1>3, <1>4, <1>5, <1>6, <1>7, <1>8, <1>9, <1>10

\* What the screen shows of an event keeps every result on its card.
LEMMA ReceiveKeepsCards ==
    ASSUME CockpitInv, Cockpit!Receive
    PROVE  oCards' \in Seq(CardRecords) /\ CardsFit'
  <1> USE DEF CockpitInv, CockpitTyped
  <1> DEFINE e == oStream[1]
             l == Len(oCards)
  <1>1. /\ oStream \in Seq(StreamEvents) /\ oStream # <<>> /\ Head(oStream) = e /\ e \in StreamEvents
        /\ oStream' = Tail(oStream) /\ Len(oStream) \in Nat /\ Len(oStream) > 0
        /\ Len(Tail(oStream)) = Len(oStream) - 1
        /\ \A n \in 0..Len(oStream) - 2 : Tail(oStream)[n + 1] = oStream[(n + 1) + 1]
        /\ oTurn' = oTurn /\ oOdd' = oOdd /\ oUi.listening
    BY DEF Cockpit!Receive
  <1>2. Cockpit!Apply(e)
    BY <1>1 DEF Cockpit!Receive
  <1>3. oUi'.listening /\ (e.kind \in {"start", "end", "delta", "assistant"} => oUi' = oUi)
    <2>1. oUi \in Screens
      OBVIOUS
    <2>2. e.kind \in {"delta", "assistant", "start", "end", "approval", "error", "interrupted", "done"}
      BY <1>1 DEF StreamEvents
    <2> QED BY <1>1, <1>2, <2>1, <2>2 DEF Cockpit!Apply, Screens
  <1>4. l \in Nat /\ \A i \in 1..l : oCards[i] \in CardRecords
    OBVIOUS
  <1>5. e.call \in CallNumbers /\ 0 \in CallNumbers
    BY <1>1 DEF StreamEvents, CallNumbers, Cockpit!CockpitConstants
  <1> DEFINE Fits == /\ oAt' = 0 \/ oAt' \in 1..Len(oCards')
                     /\ \A i \in 1..Len(oCards') :
                          oCards'[i].shows = 0 \/ oCards'[i].shows = oCards'[i].call
             Next ==
               /\ e.kind = "start" => oCards'[oAt'].call = e.call
               /\ e.kind = "end" => oAt' = 0
               /\ e.kind \notin {"start", "end"} =>
                    oAt' = oAt /\ (oAt' # 0 => oCards'[oAt'].call = oCards[oAt].call)
  <1>6. ASSUME Straight => Fits /\ Next PROVE CardsFit'
    <2> HIDE DEF e
    <2> SUFFICES ASSUME Straight
                 PROVE  /\ \A n \in 0..Len(oStream') - 1 : oStream'[n + 1].kind = "end" =>
                             Follows(oStream', n, oStream'[n + 1].call, oAt', oCards'[oAt'].call)
                        /\ oTurn'.pc \in InCall =>
                             Follows(oStream', Len(oStream'), oTurn'.call, oAt', oCards'[oAt'].call)
      BY <1>1, <1>6 DEF CardsFit, Straight
    <2> HIDE DEF CockpitInv, CockpitTyped
    <2> DEFINE of == oCards[oAt].call
               ofNext == oCards'[oAt'].call
    <2>1. CardsFit
      BY DEF CockpitInv
    <2>2. /\ \A n \in 0..Len(oStream) - 1 : oStream[n + 1].kind = "end" =>
                Follows(oStream, n, oStream[n + 1].call, oAt, of)
          /\ oTurn.pc \in InCall => Follows(oStream, Len(oStream), oTurn.call, oAt, of)
      BY <1>1, <2>1 DEF CardsFit
    <2>3. /\ oStream[1].kind = "start" => ofNext = oStream[1].call
          /\ oStream[1].kind = "end" => oAt' = 0
          /\ oStream[1].kind \notin {"start", "end"} => oAt' = oAt /\ (oAt' # 0 => ofNext = of)
      BY <1>6 DEF e
    <2> HIDE DEF of, ofNext, Next, Fits
    <2>4. ASSUME NEW n \in 0..Len(oStream) - 1, NEW c, Follows(oStream, n + 1, c, oAt, of)
          PROVE  Follows(Tail(oStream), n, c, oAt', ofNext)
      BY <1>1, <2>3, <2>4, FollowsRead
    <2>5. ASSUME NEW n \in 0..Len(oStream) - 2, Tail(oStream)[n + 1].kind = "end"
          PROVE  Follows(Tail(oStream), n, Tail(oStream)[n + 1].call, oAt', ofNext)
      <3>1. Tail(oStream)[n + 1] = oStream[(n + 1) + 1] /\ n + 1 \in 0..Len(oStream) - 1
            /\ n \in 0..Len(oStream) - 1
        BY <1>1
      <3>2. Follows(oStream, n + 1, oStream[(n + 1) + 1].call, oAt, of)
        BY <2>2, <2>5, <3>1
      <3> QED BY <2>4, <3>1, <3>2
    <2>6. ASSUME oTurn.pc \in InCall
          PROVE  Follows(Tail(oStream), Len(oStream) - 1, oTurn.call, oAt', ofNext)
      <3>1. Len(oStream) - 1 \in 0..Len(oStream) - 1 /\ (Len(oStream) - 1) + 1 = Len(oStream)
        BY <1>1
      <3>2. Follows(oStream, (Len(oStream) - 1) + 1, oTurn.call, oAt, of)
        BY <2>2, <2>6, <3>1
      <3> QED BY <2>4, <3>1, <3>2
    <2>7. \A n \in 0..Len(oStream') - 1 : n \in 0..Len(oStream) - 2
      BY <1>1
    <2> QED BY <1>1, <2>5, <2>6, <2>7 DEF ofNext
  <1>7. CASE e.kind = "start"
    <2>1. oCards' = Append(oCards, Cockpit!Card("tool", e.call)) /\ oAt' = Len(oCards')
      BY <1>2, <1>7 DEF Cockpit!Apply
    <2>2. Cockpit!Card("tool", e.call) \in CardRecords
          /\ Cockpit!Card("tool", e.call).call = e.call /\ Cockpit!Card("tool", e.call).shows = 0
      BY <1>5 DEF Cockpit!Card, CardRecords
    <2>3. /\ oCards' \in Seq(CardRecords) /\ Len(oCards') = l + 1
          /\ oCards'[l + 1].call = e.call /\ oCards'[l + 1].shows = 0
          /\ \A i \in 1..l : oCards'[i] = oCards[i]
          /\ \A i \in 1..l + 1 : i \in 1..l \/ i = l + 1
          /\ l + 1 \in 1..l + 1
      BY <1>4, <2>1, <2>2
    <2>4. Straight => Fits /\ Next
      BY <1>7, <2>1, <2>3 DEF CardsFit
    <2> QED BY <1>6, <2>3, <2>4
  <1>8. CASE e.kind = "end"
    <2>1. /\ oAt' = 0
          /\ oCards' = [i \in DOMAIN oCards |->
                 IF i = oAt THEN [oCards[i] EXCEPT !.open = IF @ /\ oCards[i].kind = "text" THEN @ ELSE FALSE,
                                                   !.shows = e.call] ELSE oCards[i]]
      BY <1>2, <1>8 DEF Cockpit!Apply, Cockpit!ShowResult
    <2>2. DOMAIN oCards = 1..l
      OBVIOUS
    <2>3. ASSUME NEW i \in 1..l
          PROVE  /\ oCards'[i] \in CardRecords /\ oCards'[i].call = oCards[i].call
                 /\ oCards'[i].shows = IF i = oAt THEN e.call ELSE oCards[i].shows
      <3>1. CASE i = oAt
        <4>1. oCards'[i] = [oCards[i] EXCEPT
                 !.open = IF oCards[i].open /\ oCards[i].kind = "text" THEN oCards[i].open ELSE FALSE,
                 !.shows = e.call]
          BY <2>1, <2>2, <3>1
        <4> QED BY <1>4, <1>5, <3>1, <4>1 DEF CardRecords
      <3>2. CASE i # oAt
        BY <1>4, <2>1, <2>2, <3>2
      <3> QED BY <3>1, <3>2
    <2>4. oCards' \in Seq(CardRecords) /\ Len(oCards') = l
      <3>1. oCards' = [i \in 1..l |-> oCards'[i]]
        BY <2>1, <2>2
      <3>2. \A i \in 1..l : oCards'[i] \in CardRecords
        BY <2>3
      <3> HIDE DEF e, l
      <3> QED BY <1>4, <3>1, <3>2
    <2>5. Straight => Fits /\ Next
      <3> SUFFICES ASSUME Straight PROVE Fits /\ Next
        OBVIOUS
      <3>1. CardsFit
        OBVIOUS
      <3>2. oAt # 0 => oCards[oAt].call = e.call
        <4>1. 0 \in 0..Len(oStream) - 1 /\ oStream[0 + 1] = e
          BY <1>1
        <4>2. Follows(oStream, 0, e.call, oAt, oCards[oAt].call)
          BY <1>1, <1>8, <3>1, <4>1 DEF CardsFit
        <4>3. \A j \in 1..0 : oStream[j].kind # "start"
          OBVIOUS
        <4> QED BY <4>2, <4>3 DEF Follows
      <3>3. Fits
        <4>1. ASSUME NEW i \in 1..l PROVE oCards'[i].shows = 0 \/ oCards'[i].shows = oCards'[i].call
          <5>1. CASE i = oAt
            <6>1. oAt # 0
              BY <5>1
            <6> QED BY <2>3, <3>2, <5>1, <6>1
          <5>2. CASE i # oAt
            BY <2>3, <3>1, <5>2 DEF CardsFit
          <5> QED BY <5>1, <5>2
        <4> QED BY <2>1, <2>4, <4>1
      <3> QED BY <1>8, <2>1, <3>3
    <2> QED BY <1>6, <2>4, <2>5
  <1>9. CASE e.kind \in {"delta", "assistant"}
    <2>1. PICK open \in BOOLEAN : Cockpit!ShowText(open)
      <3>1. CASE e.kind = "delta"
        BY <1>2, <3>1 DEF Cockpit!Apply
      <3>2. CASE e.kind = "assistant"
        BY <1>2, <3>2 DEF Cockpit!Apply
      <3> QED BY <1>9, <3>1, <3>2
    <2>2. oAt' = oAt
      BY <2>1 DEF Cockpit!ShowText
    <2>3. /\ oCards' \in Seq(CardRecords) /\ Len(oCards') \in {l, l + 1}
          /\ \A i \in 1..l : oCards'[i].call = oCards[i].call /\ oCards'[i].shows = oCards[i].shows
          /\ Len(oCards') = l + 1 => oCards'[l + 1].shows = 0
      <3>1. CASE Cockpit!Streaming
        <4>1. oCards' = [oCards EXCEPT ![Len(oCards)].open = open]
          BY <2>1, <3>1 DEF Cockpit!ShowText
        <4>2. l \in 1..l /\ DOMAIN oCards = 1..l
          BY <1>4, <3>1 DEF Cockpit!Streaming
        <4>3. \A i \in 1..l : oCards'[i] = IF i = l THEN [oCards[l] EXCEPT !.open = open] ELSE oCards[i]
          BY <4>1, <4>2
        <4>4. [oCards[l] EXCEPT !.open = open] \in CardRecords
              /\ [oCards[l] EXCEPT !.open = open].call = oCards[l].call
              /\ [oCards[l] EXCEPT !.open = open].shows = oCards[l].shows
          BY <1>4, <4>2 DEF CardRecords
        <4>5. oCards' \in Seq(CardRecords) /\ Len(oCards') = l
          BY <4>1, <4>2, <4>4
        <4>6. ASSUME NEW i \in 1..l
              PROVE  oCards'[i].call = oCards[i].call /\ oCards'[i].shows = oCards[i].shows
          <5>1. CASE i = l
            BY <4>3, <4>4, <5>1
          <5>2. CASE i # l
            BY <4>3, <5>2
          <5> QED BY <5>1, <5>2
        <4>7. l # l + 1
          BY <1>4
        <4> QED BY <4>5, <4>6, <4>7
      <3>2. CASE ~Cockpit!Streaming
        <4> DEFINE card == [Cockpit!Card("text", 0) EXCEPT !.open = open]
        <4>1. oCards' = Append(oCards, card)
          BY <2>1, <3>2 DEF Cockpit!ShowText
        <4>2. card \in CardRecords /\ card.shows = 0
          BY <1>5 DEF Cockpit!Card, CardRecords
        <4> HIDE DEF card
        <4> QED BY <1>4, <4>1, <4>2
      <3> QED BY <3>1, <3>2
    <2>4. \A i \in 1..Len(oCards') : i \in 1..l \/ (i = l + 1 /\ Len(oCards') = l + 1)
      BY <1>4, <2>3
    <2>5. \A i \in 1..l : i \in 1..Len(oCards')
      BY <1>4, <2>3
    <2>6. Straight => Fits /\ Next
      <3> SUFFICES ASSUME Straight PROVE Fits /\ Next
        OBVIOUS
      <3>1. oAt = 0 \/ oAt \in 1..l
        BY DEF CardsFit
      <3>2. \A i \in 1..l : oCards[i].shows = 0 \/ oCards[i].shows = oCards[i].call
        BY DEF CardsFit
      <3>3. Fits
        BY <2>2, <2>3, <2>4, <2>5, <3>1, <3>2
      <3>4. Next
        BY <1>9, <2>2, <2>3, <3>1
      <3> QED BY <3>3, <3>4
    <2> QED BY <1>6, <2>3, <2>6
  <1>10. CASE e.kind \in {"approval", "error", "interrupted", "done"}
    <2>1. oCards' = oCards /\ oAt' = oAt
      BY <1>2, <1>10 DEF Cockpit!Apply
    <2>2. Straight => Fits /\ Next
      BY <1>10, <2>1 DEF CardsFit
    <2> QED BY <1>6, <2>1, <2>2
  <1> QED
    <2>1. e.kind \in {"delta", "assistant", "start", "end", "approval", "error", "interrupted", "done"}
      BY <1>1 DEF StreamEvents
    <2> QED BY <1>7, <1>8, <1>9, <1>10, <2>1

\* The screen takes the first message of the stream.
LEMMA ReceiveStays == CockpitInv /\ Cockpit!Receive => CockpitInv'
  <1> SUFFICES ASSUME CockpitInv, Cockpit!Receive PROVE CockpitInv'
    OBVIOUS
  <1> USE DEF CockpitInv, CockpitTyped
  <1> DEFINE e == oStream[1]
  <1>1. /\ oStream \in Seq(StreamEvents) /\ oStream # <<>> /\ Head(oStream) = e /\ e \in StreamEvents
        /\ oStream' = Tail(oStream) /\ Tail(oStream) \in Seq(StreamEvents)
        /\ 1 \in 1..Len(oStream)
        /\ \A j \in 1..Len(Tail(oStream)) : /\ j + 1 \in 1..Len(oStream) /\ j + 1 # 1
                                            /\ Tail(oStream)[j] = oStream[j + 1]
        /\ \A i \in 1..Len(oStream) : i = 1 \/ (i - 1 \in 1..Len(Tail(oStream))
                                                /\ Tail(oStream)[i - 1] = oStream[i])
        /\ \A i, j \in 1..Len(Tail(oStream)) : i + 1 = j + 1 => i = j
    BY DEF Cockpit!Receive
  <1>2. /\ Cockpit!Apply(e) /\ oUi.pc = "free" /\ oUi.listening
        /\ oQueue' = oQueue /\ oTurn' = oTurn /\ oClosed' = oClosed /\ oDecisions' = oDecisions
        /\ oUsed' = oUsed /\ oOdd' = oOdd /\ oApproved' = oApproved
    BY <1>1 DEF Cockpit!Receive, Cockpit!Free, Cockpit!ScreenKeeps
  <1>3. e.kind \in {"delta", "assistant", "start", "end", "approval", "error", "interrupted", "done"}
        /\ e.call \in CallNumbers /\ 0 \in CallNumbers /\ oUi \in Screens
    BY <1>1 DEF StreamEvents, CallNumbers, Cockpit!CockpitConstants
  <1> HIDE DEF e
  <1>4. oUi' =
          CASE e.kind = "approval" -> [oUi EXCEPT !.pending = e.call]
            [] e.kind = "error" -> [oUi EXCEPT !.failed = TRUE]
            [] e.kind = "interrupted" -> [oUi EXCEPT !.interrupting = TRUE]
            [] e.kind = "done" -> [oUi EXCEPT !.pending = 0]
            [] OTHER -> oUi
    <2>1. CASE e.kind \in {"approval", "error", "interrupted", "done"}
      BY <1>2, <2>1 DEF Cockpit!Apply
    <2>2. CASE e.kind \in {"delta", "assistant", "start", "end"}
      BY <1>2, <2>2 DEF Cockpit!Apply
    <2> QED BY <1>3, <2>1, <2>2
  <1>5. /\ oUi' \in Screens
        /\ oUi'.pc = "free" /\ oUi'.running = oUi.running /\ oUi'.listening
        /\ oUi.failed \/ e.kind = "error" => oUi'.failed
        /\ oUi.interrupting => oUi'.interrupting
        /\ oUi'.pending = IF e.kind = "approval" THEN e.call ELSE IF e.kind = "done" THEN 0 ELSE oUi.pending
    <2>1. CASE e.kind = "approval"
      BY <1>2, <1>3, <1>4, <2>1 DEF Screens
    <2>2. CASE e.kind = "error"
      BY <1>2, <1>3, <1>4, <2>2 DEF Screens
    <2>3. CASE e.kind = "interrupted"
      BY <1>2, <1>3, <1>4, <2>3 DEF Screens
    <2>4. CASE e.kind = "done"
      BY <1>2, <1>3, <1>4, <2>4 DEF Screens
    <2>5. CASE e.kind \notin {"approval", "error", "interrupted", "done"}
      <3>1. oUi' = oUi
        BY <1>4, <2>5
      <3> QED BY <1>2, <1>3, <2>5, <3>1
    <2> QED BY <2>1, <2>2, <2>3, <2>4, <2>5
  <1>6. oCards' \in Seq(CardRecords) /\ CardsFit'
    BY ReceiveKeepsCards
  <1>7. CockpitTyped'
    BY <1>1, <1>2, <1>5, <1>6
  <1>8. oUi.running
    BY <1>2 DEF ScreenFits
  <1>9. ScreenFits'
    BY <1>2, <1>5, <1>8 DEF ScreenFits
  <1>10. OutcomeFits'
    <2>1. (\E i \in 1..Len(oStream) : oStream[i].kind = "error")
            => e.kind = "error" \/ \E j \in 1..Len(oStream') : oStream'[j].kind = "error"
      <3> SUFFICES ASSUME NEW i \in 1..Len(oStream), oStream[i].kind = "error", e.kind # "error"
                   PROVE  \E j \in 1..Len(oStream') : oStream'[j].kind = "error"
        OBVIOUS
      <3>1. i # 1
        BY DEF e
      <3>2. i - 1 \in 1..Len(oStream') /\ oStream'[i - 1] = oStream[i]
        BY <1>1, <3>1
      <3> QED BY <3>2
    <2>2. oTurn.outcome = "failed" =>
            oTurn.cancelled \/ oUi'.failed \/ \E j \in 1..Len(oStream') : oStream'[j].kind = "error"
      BY <1>2, <1>5, <2>1 DEF OutcomeFits
    <2> QED BY <1>2, <1>5, <2>2 DEF OutcomeFits
  <1>11. AnswerFits'
    BY <1>2 DEF AnswerFits
  <1>12. QuestionFits'
    <2>1. /\ Asked(1) <=> e.kind = "approval"
          /\ \A j \in 1..Len(oStream') : Asked(j)' <=> Asked(j + 1)
      BY <1>1 DEF Asked, e
    <2>2. Unanswered' => Unanswered
      BY <1>1, <1>5, <2>1 DEF Unanswered
    <2>3. \A i, j \in 1..Len(oStream') : Asked(i)' /\ Asked(j)' => i = j
      <3> SUFFICES ASSUME NEW i \in 1..Len(oStream'), NEW j \in 1..Len(oStream'), Asked(i)', Asked(j)'
                   PROVE  i = j
        OBVIOUS
      <3>1. i + 1 \in 1..Len(oStream) /\ j + 1 \in 1..Len(oStream) /\ Asked(i + 1) /\ Asked(j + 1)
        BY <1>1, <2>1
      <3>2. i + 1 = j + 1
        BY <3>1 DEF QuestionFits
      <3> QED BY <1>1, <3>2
    <2>4. oUi'.pending # 0 => \A j \in 1..Len(oStream') : ~Asked(j)'
      <3> SUFFICES ASSUME oUi'.pending # 0, NEW j \in 1..Len(oStream'), Asked(j)' PROVE FALSE
        OBVIOUS
      <3>1. j + 1 \in 1..Len(oStream) /\ j + 1 # 1 /\ Asked(j + 1)
        BY <1>1, <2>1
      <3>2. CASE e.kind = "approval"
        BY <1>1, <2>1, <3>1, <3>2 DEF QuestionFits
      <3>3. CASE e.kind # "approval"
        BY <1>5, <3>1, <3>3 DEF QuestionFits
      <3> QED BY <3>2, <3>3
    <2>5. /\ Unanswered' => oDecisions' = <<>>
          /\ Unanswered' \/ oDecisions' # <<>> =>
               oTurn'.pc = "waiting" \/ (oTurn'.cancelled /\ oTurn'.pc # "asking")
      BY <1>2, <2>2 DEF QuestionFits
    <2>6. ~oTurn'.cancelled =>
            /\ oUi'.pending # 0 => oUi'.pending = oTurn'.call
            /\ \A j \in 1..Len(oStream') : Asked(j)' => oStream'[j].call = oTurn'.call
      <3> SUFFICES ASSUME ~oTurn.cancelled
                   PROVE  /\ oUi'.pending # 0 => oUi'.pending = oTurn.call
                          /\ \A j \in 1..Len(oStream') : Asked(j)' => oStream'[j].call = oTurn.call
        BY <1>2
      <3>1. \A i \in 1..Len(oStream) : Asked(i) => oStream[i].call = oTurn.call
        BY DEF QuestionFits
      <3>2. oUi.pending # 0 => oUi.pending = oTurn.call
        BY DEF QuestionFits
      <3>3. e.kind = "approval" => e.call = oTurn.call
        BY <1>1, <2>1, <3>1 DEF e
      <3>4. oUi'.pending # 0 => oUi'.pending = oTurn.call
        BY <1>5, <3>2, <3>3
      <3>5. \A j \in 1..Len(oStream') : Asked(j)' => oStream'[j].call = oTurn.call
        BY <1>1, <2>1, <3>1
      <3> QED BY <3>4, <3>5
    <2> QED BY <2>3, <2>4, <2>5, <2>6 DEF QuestionFits
  <1> QED BY <1>6, <1>7, <1>9, <1>10, <1>11, <1>12 DEF Cockpit!CockpitConstants

\* Every step of the cockpit, taken or not.
LEMMA CockpitInvStays == CockpitInv /\ [Cockpit!CockpitNext]_cockpitPart => CockpitInv'
  <1> SUFFICES ASSUME CockpitInv, [Cockpit!CockpitNext]_cockpitPart PROVE CockpitInv'
    OBVIOUS
  <1>1. CASE Cockpit!TurnStep
    BY <1>1, TurnStepStays
  <1>2. CASE \/ Cockpit!Submit \/ Cockpit!FollowUp \/ Cockpit!ShowEditor \/ Cockpit!SaveEditor
             \/ Cockpit!LeaveEditor \/ Cockpit!OpenIDE \/ Cockpit!LeaveIDE \/ Cockpit!Saved
    BY <1>2, MoveStepStays
  <1>3. CASE \/ Cockpit!Clear \/ Cockpit!Interrupt \/ Cockpit!Decide(TRUE) \/ Cockpit!Decide(FALSE)
             \/ Cockpit!SelectCandidate \/ Cockpit!Quit \/ Cockpit!Selected \/ Cockpit!StreamEnds
             \/ Cockpit!LoseMessage
    BY <1>3, ScreenStepStays
  <1>4. CASE Cockpit!Receive
    BY <1>4, ReceiveStays
  <1>5. CASE UNCHANGED cockpitPart
    BY <1>5 DEF cockpitPart, CockpitInv, CockpitTyped, ScreenFits, OutcomeFits, QuestionFits, AnswerFits,
      CardsFit, Straight, Unanswered, Asked, Cockpit!CockpitConstants
  <1> QED BY <1>1, <1>2, <1>3, <1>4, <1>5 DEF Cockpit!CockpitNext, Cockpit!Key, Cockpit!ScreenStep

\* What the invariant says of the screen.
LEMMA CockpitInvMeans == CockpitInv => Cockpit!DecisionFits /\ Cockpit!CardsAreTrue
  <1> SUFFICES ASSUME CockpitInv PROVE Cockpit!DecisionFits /\ Cockpit!CardsAreTrue
    OBVIOUS
  <1>1. Cockpit!DecisionFits
    BY DEF CockpitInv, QuestionFits, Unanswered, Cockpit!DecisionFits
  <1>2. DOMAIN oCards = 1..Len(oCards)
    BY DEF CockpitInv, CockpitTyped
  <1>3. Cockpit!CardsAreTrue
    BY <1>2 DEF CockpitInv, ScreenFits, CardsFit, Straight, Cockpit!CardsAreTrue
  <1> QED BY <1>1, <1>3

\* Only an answer that the turn hears lets a call run.
LEMMA YesIsHeard ==
    ASSUME CockpitInv, [Cockpit!CockpitNext]_cockpitPart, oTurn'.yes, ~oTurn.yes
    PROVE  oApproved = oTurn.call
  <1>0. oTurn \in Turns
    BY DEF CockpitInv, CockpitTyped
  <1>1. CASE Cockpit!Hear
    <2>1. ~oTurn.cancelled \/ oTurn' # [oTurn EXCEPT !.pc = "returning"]
      BY <1>0 DEF Turns
    <2>2. /\ oDecisions # <<>>
          /\ oTurn' = IF Head(oDecisions).call # oTurn.call THEN oTurn
                      ELSE [oTurn EXCEPT !.pc = "returning", !.yes = Head(oDecisions).yes]
      BY <1>1, <2>1 DEF Cockpit!Hear
    <2>3. PICK c \in CallNumbers, y \in BOOLEAN :
            oDecisions = <<[call |-> c, yes |-> y]>> /\ (y => oApproved = c)
      BY <2>2 DEF CockpitInv, AnswerFits
    <2>4. Head(oDecisions).call = c /\ Head(oDecisions).yes = y
      BY <2>3
    <2> QED BY <1>0, <2>2, <2>3, <2>4 DEF Turns
  <1>2. CASE \/ Cockpit!Speak \/ Cockpit!Spoken \/ Cockpit!Ask \/ Cockpit!EndCall
             \/ Cockpit!FailTurn \/ Cockpit!CutTurn \/ Cockpit!EndTurn
    BY <1>0, <1>2 DEF Turns, Cockpit!Speak, Cockpit!Spoken, Cockpit!Ask, Cockpit!EndCall,
      Cockpit!FailTurn, Cockpit!CutTurn, Cockpit!EndTurn
  <1>3. CASE Cockpit!StartCall
    <2>1. PICK next \in {"asking", "returning"} :
            oTurn' = [oTurn EXCEPT !.call = oUsed'.calls, !.pc = next]
      BY <1>3 DEF Cockpit!StartCall
    <2> QED BY <1>0, <2>1 DEF Turns
  <1>4. CASE Cockpit!CloseStream
    <2>1. oTurn'.yes = FALSE
      BY <1>4 DEF Cockpit!CloseStream, Cockpit!NoTurn
    <2> QED BY <2>1
  <1>5. CASE oTurn' = oTurn
    BY <1>5
  <1>6. ASSUME NEW kind, NEW screen, Cockpit!Start(kind, screen) PROVE FALSE
    BY <1>6 DEF Cockpit!Start, Cockpit!NoTurn
  <1>7. CASE Cockpit!Interrupt \/ Cockpit!SelectCandidate \/ Cockpit!Quit
    BY <1>0, <1>7 DEF Turns, Cockpit!Interrupt, Cockpit!SelectCandidate, Cockpit!Quit
  <1>8. CASE Cockpit!Submit \/ Cockpit!Saved \/ Cockpit!StreamEnds
    BY <1>5, <1>6, <1>8 DEF Cockpit!Submit, Cockpit!Saved, Cockpit!StreamEnds
  <1>9. CASE \/ Cockpit!FollowUp \/ Cockpit!Clear \/ Cockpit!ShowEditor \/ Cockpit!SaveEditor
             \/ Cockpit!LeaveEditor \/ Cockpit!OpenIDE \/ Cockpit!LeaveIDE \/ Cockpit!Decide(TRUE)
             \/ Cockpit!Decide(FALSE) \/ Cockpit!Selected \/ Cockpit!LoseMessage \/ Cockpit!Receive
             \/ UNCHANGED cockpitPart
    BY <1>5, <1>9 DEF Cockpit!FollowUp, Cockpit!Clear, Cockpit!ShowEditor, Cockpit!SaveEditor, Cockpit!LeaveEditor,
      Cockpit!OpenIDE, Cockpit!LeaveIDE, Cockpit!Decide, Cockpit!Selected, Cockpit!LoseMessage,
      Cockpit!Receive, cockpitPart
  <1> QED BY <1>1, <1>2, <1>3, <1>4, <1>5, <1>7, <1>8, <1>9, Zenon
          DEF Cockpit!CockpitNext, Cockpit!TurnStep, Cockpit!Key, Cockpit!ScreenStep

\* Only the end of a stream takes a follow-up from the queue and starts it.
LEMMA FollowUpIsEarned ==
    ASSUME CockpitInv, [Cockpit!CockpitNext]_cockpitPart, oQueue' < oQueue, oUsed'.turns > oUsed.turns
    PROVE  "switch" \in oOdd \/ oTurn.outcome = "ok"
  <1>1. oTurn \in Turns /\ oQueue \in Nat /\ oUsed.turns \in Nat /\ DOMAIN oCards = 1..Len(oCards)
    BY DEF CockpitInv, CockpitTyped
  <1>2. oUsed' # oUsed /\ oQueue' # oQueue /\ ~(oQueue' = oQueue + 1)
    BY <1>1
  <1>3. ASSUME Cockpit!StreamEnds PROVE "switch" \in oOdd \/ oTurn.outcome = "ok"
    <2>1. /\ oUi.pc = "free" /\ oUi.listening /\ oStream = <<>> /\ oClosed
          /\ Cockpit!EndedWell
      BY <1>2, <1>3 DEF Cockpit!StreamEnds, Cockpit!Free
    <2>2. ~oUi.failed /\ ~oUi.interrupting
      BY <2>1 DEF Cockpit!EndedWell
    <2>3. oTurn.pc = "over" /\ oUi.running
      BY <2>1 DEF CockpitInv, ScreenFits
    <2>4. Len(oStream) = 0
      BY <2>1
    <2>5. oTurn.cancelled => "switch" \in oOdd
      BY <2>1, <2>2, <2>3 DEF CockpitInv, OutcomeFits
    <2>6. oTurn.outcome \notin {"none"} /\ (oTurn.outcome \in {"cut", "failed"} => oTurn.cancelled)
      BY <2>1, <2>2, <2>3, <2>4 DEF CockpitInv, OutcomeFits
    <2>7. oTurn.outcome \in {"none", "ok", "failed", "cut"}
      BY <1>1 DEF Turns
    <2> QED BY <2>5, <2>6, <2>7
  <1>4. CASE Cockpit!TurnStep \/ Cockpit!Submit \/ Cockpit!FollowUp \/ Cockpit!Saved
    BY <1>2, <1>4 DEF Cockpit!TurnStep, Cockpit!Speak, Cockpit!Spoken, Cockpit!StartCall, Cockpit!Ask,
      Cockpit!Hear, Cockpit!EndCall, Cockpit!FailTurn, Cockpit!CutTurn, Cockpit!EndTurn,
      Cockpit!CloseStream, Cockpit!TurnKeeps, Cockpit!Submit, Cockpit!FollowUp, Cockpit!Saved
  <1>5. CASE \/ Cockpit!Clear \/ Cockpit!ShowEditor \/ Cockpit!SaveEditor
             \/ Cockpit!LeaveEditor \/ Cockpit!OpenIDE \/ Cockpit!LeaveIDE \/ Cockpit!Decide(TRUE)
             \/ Cockpit!Decide(FALSE) \/ Cockpit!Selected \/ Cockpit!LoseMessage \/ Cockpit!Receive
             \/ Cockpit!Interrupt \/ Cockpit!SelectCandidate \/ Cockpit!Quit
             \/ UNCHANGED cockpitPart
    BY <1>2, <1>5 DEF Cockpit!Clear, Cockpit!ShowEditor, Cockpit!SaveEditor, Cockpit!LeaveEditor,
      Cockpit!OpenIDE, Cockpit!LeaveIDE, Cockpit!Decide, Cockpit!Selected, Cockpit!LoseMessage,
      Cockpit!Receive, Cockpit!Interrupt, Cockpit!SelectCandidate, Cockpit!Quit, cockpitPart
  <1> QED BY <1>3, <1>4, <1>5, Zenon DEF Cockpit!CockpitNext, Cockpit!Key, Cockpit!ScreenStep

CockpitSafety == Cockpit!CockpitInit /\ [][Cockpit!CockpitNext]_cockpitPart

\* However keys, stream messages, cancels and an IDE over the screen interleave with the turn:
\* a decision finds room and is about the card on screen, no card looks as if it ran when no turn
\* does, a result stands on the card of its call, a gated call runs only after a yes to it, and a
\* follow-up starts only after a turn that ended well, but for the oddities the code has
\* (operate.go, executor.go).
THEOREM CockpitIsTrue ==
    ASSUME Cockpit!CockpitConstants
    PROVE  CockpitSafety => /\ [](Cockpit!DecisionFits /\ Cockpit!CardsAreTrue)
                            /\ Cockpit!RanIsApproved
                            /\ Cockpit!FollowUpAfterSuccess
  <1> DEFINE Ran == oTurn'.yes /\ ~oTurn.yes => oApproved = oTurn.call
             Earned == oQueue' < oQueue /\ oUsed'.turns > oUsed.turns
                         => "switch" \in oOdd \/ oTurn.outcome = "ok"
  <1>1. CockpitInv /\ [Cockpit!CockpitNext]_cockpitPart => [Ran]_Cockpit!cockpitVars
    <2>1. SUFFICES ASSUME CockpitInv, [Cockpit!CockpitNext]_cockpitPart PROVE Ran
      OBVIOUS
    <2> QED BY <2>1, YesIsHeard
  <1>2. CockpitInv /\ [Cockpit!CockpitNext]_cockpitPart => [Earned]_Cockpit!cockpitVars
    <2>1. SUFFICES ASSUME CockpitInv, [Cockpit!CockpitNext]_cockpitPart PROVE Earned
      OBVIOUS
    <2> QED BY <2>1, FollowUpIsEarned
  <1>3. CockpitSafety => [](Cockpit!DecisionFits /\ Cockpit!CardsAreTrue)
    BY CockpitInvHolds, CockpitInvStays, CockpitInvMeans, PTL DEF CockpitSafety
  <1>4. CockpitSafety => Cockpit!RanIsApproved
    BY <1>1, CockpitInvHolds, CockpitInvStays, PTL DEF CockpitSafety, Cockpit!RanIsApproved
  <1>5. CockpitSafety => Cockpit!FollowUpAfterSuccess
    BY <1>2, CockpitInvHolds, CockpitInvStays, PTL DEF CockpitSafety, Cockpit!FollowUpAfterSuccess
  <1> QED BY <1>3, <1>4, <1>5

(***************************************************************************)
(* The composition.                                                        *)
(***************************************************************************)
CONSTANTS c1, c2, c3, x, y, fa, none

VARIABLES chosen,
          xCaller, xGate, xClosed, xProcess, xLive, xInitialized, xTurn, xInbox, xServer, xWire,
          xLedger,
          dTransport, dTurn, dGroup, dStray, dPipe, dOutput, dStage, dScan, dLive, dEdited,
          dWrites,
          wCfg, wPc, wStore, wRunners, wCancelled, wSignalled, wRecovery, wStopped, wRequest,
          wCron, wAbandoned, wResult,
          tAlphabet, tText, tLo, tMode, tBusy, tEscaped, tMatched, tShown, tMisread,
          aPlan, aRequest, aSlots, aKey, aPushed, aLost, aStopping,
          pAt, pNode, pPlan, pPlans, pSetting, pGroups, pMux, pOptions,
          nStack, nParked, nOpen, nReached, nFaults, nOutcome,
          hSetup, hTalk, hCall, hGot, hTool, hIntents, hEffects, hFaults,
          fReload, fTree, fCancelled, fLoop, fRunner, fWatcher, fEarly

\* Two legs of one execution and one of another, and the schema two binaries know.
TwoExecs == c1 :> x @@ c2 :> x @@ c3 :> y
TwoBinaries == c1 :> 3 @@ c2 :> 2

\* Two runs of one tool call under different operations, and an operation that runs twice; a log
\* without a store that the window does not hold.
AllTools == [o \in TracedOps |-> "tool"]
TwoCalls == c1 :> c1 @@ c2 :> c1 @@ c3 :> c3
OneRepeats == c1 :> 1 @@ c2 :> 1 @@ c3 :> 2
BackendEvents == [none |-> 4, store |-> 2]

\* The deployments a worker is started in.
PlainConfig ==
  [token |-> TRUE, dev |-> FALSE, insecure |-> FALSE, public |-> "network", admin |-> "none",
   triggers |-> {"http"}, pipe |-> TRUE, store |-> "builtin", durable |-> FALSE, journal |-> "none"]
LifeConfigs ==
  {[PlainConfig EXCEPT !.token = FALSE, !.dev = d, !.insecure = i, !.public = p, !.admin = a] :
     d \in BOOLEAN, i \in BOOLEAN, p \in {"loopback", "network"},
     a \in {"none", "loopback", "network"}}
  \cup {[PlainConfig EXCEPT !.triggers = t] :
          t \in {{"http"}, {"cron"}, {"stream"}, {"http", "cron", "stream"}}}
  \cup {[PlainConfig EXCEPT !.triggers = {"cron"}, !.admin = "loopback", !.durable = TRUE,
                            !.store = s, !.journal = j] :
          s \in {"memory", "builtin", "custom"}, j \in {"none", "own", "otherBuild", "otherPlan"}}
  \cup {[PlainConfig EXCEPT !.durable = TRUE, !.pipe = p, !.journal = "own"] : p \in BOOLEAN}

\* The symbols of a text, see TextRedactor: a bare value, an assignment quoted and not, a wide
\* value, a token with a prefix, a private key and an escape.
RedactorAlphabets ==
  {{"B", "v", "_"}, {"A", "=", "_", "q", "b", "v"}, {"W", "=", "_", ","}, {"T1", "T2", "v", "_"},
   {"P", "K", "E", "v"}, {"c", "d", "e"}}

\* The plans the admin route triggers.
StreamPlan == [kind |-> "stream", steps |-> TRUE, async |-> FALSE, terminal |-> "push"]
TriggerPlans ==
  {StreamPlan, [StreamPlan EXCEPT !.kind = "cron"], [StreamPlan EXCEPT !.terminal = "sink"],
   [kind |-> "http", steps |-> FALSE, async |-> FALSE, terminal |-> "push"],
   [kind |-> "http", steps |-> TRUE, async |-> TRUE, terminal |-> "reply"]}

\* Tools in the order of their options, see PlanCompile, and the settings of a worker.
ToolChains == {<<"a">>, <<"a", "a">>, <<"a", "b", "c">>}
Unset == [durable |-> FALSE, split |-> FALSE, publicMetrics |-> FALSE, isolation |-> TRUE,
          secret |-> TRUE]
PlanSettings ==
  {[Unset EXCEPT !.durable = TRUE], [Unset EXCEPT !.split = TRUE, !.publicMetrics = TRUE],
   [Unset EXCEPT !.split = TRUE, !.isolation = FALSE, !.secret = FALSE]}

\* A step with a gated tool, a sub-agent and an MCP server; two remote names have one local name
\* and the third has that of the gated tool.
Gated == [kind |-> "go", name |-> "act", gated |-> TRUE]
Server == [kind |-> "mcp", name |-> "srv", gated |-> FALSE]
StepParts ==
  [main  |-> <<Gated, [kind |-> "sub", name |-> "ask", gated |-> FALSE], Server>>,
   child |-> <<Gated, [kind |-> "bash", name |-> "bash", gated |-> FALSE], Server>>]
LocalNames == [read |-> "srv__x", write |-> "srv__x", other |-> "act"]

\* Models and their fallbacks, over the five dialects.
ModelChains == {<<"anthropic", "gemini">>, <<"openai">>, <<"bedrock", "ollama">>}

Codex == INSTANCE CodexAppServer WITH
  Callers <- {c1, c2}, MaxCompletes <- 1, MaxProcesses <- 1, MaxEvents <- 2, MaxInbox <- 1,
  caller <- xCaller, gate <- xGate, closed <- xClosed, process <- xProcess, live <- xLive,
  initialized <- xInitialized, turn <- xTurn, inbox <- xInbox, server <- xServer, wire <- xWire,
  ledger <- xLedger

Driver == INSTANCE ExternalDriver WITH
  Files <- {fa}, Transports <- {"codex", "acp"}, MaxLines <- 1, MaxWrites <- 2,
  transport <- dTransport, turn <- dTurn, group <- dGroup, stray <- dStray, pipe <- dPipe, output
  <- dOutput, stage <- dStage, scan <- dScan, live <- dLive, edited <- dEdited, writes <- dWrites

Life == INSTANCE WorkerLifecycle WITH
  Configs <- LifeConfigs, MaxFires <- 2, Pool <- 1,
  cfg <- wCfg, pc <- wPc, store <- wStore, runners <- wRunners, cancelled <- wCancelled, signalled
  <- wSignalled, recovery <- wRecovery, stopped <- wStopped, request <- wRequest, cron <- wCron,
  abandoned <- wAbandoned, result <- wResult

Text == INSTANCE TextRedactor WITH
  Alphabets <- RedactorAlphabets, MaxText <- 4, MaxPending <- 1,
  alphabet <- tAlphabet, text <- tText, lo <- tLo, mode <- tMode, busy <- tBusy, escaped <-
  tEscaped, matched <- tMatched, shown <- tShown, misread <- tMisread

Admin == INSTANCE AdminTrigger WITH
  Requests <- {c1, c2, c3}, Pool <- 2, Plans <- TriggerPlans,
  plan <- aPlan, request <- aRequest, slots <- aSlots, key <- aKey, pushed <- aPushed, lost <-
  aLost, stopping <- aStopping

Plans == INSTANCE PlanCompile WITH
  Paths <- {"task", "hook", "metrics"}, HookPath <- "hook", MetricsPath <- "metrics", Schemas <-
  {x, y}, NoSchema <- none, Chains <- ToolChains, MaxDepth <- 2, Settings <- PlanSettings,
  MaxPlans <- 2, MaxSteps <- 1, MaxOptions <- 1,
  at <- pAt, node <- pNode, plan <- pPlan, plans <- pPlans, setting <- pSetting, groups <-
  pGroups, mux <- pMux, options <- pOptions

Steps == INSTANCE StepTools WITH
  Parts <- StepParts, Remote <- {"read", "write", "other"}, LocalName <- LocalNames, MaxSteps <-
  2, MaxCalls <- 2, MaxFaults <- 1,
  stack <- nStack, parked <- nParked, open <- nOpen, reached <- nReached, faults <- nFaults,
  outcome <- nOutcome

Talks == INSTANCE ProviderStream WITH
  Chains <- ModelChains, Answers <- {<<>>, <<"once">>, <<"read", "effect">>}, MaxText <- 1,
  MaxTurns <- 2, ProviderRetries <- 1, MaxFaults <- 1,
  setup <- hSetup, talk <- hTalk, call <- hCall, got <- hGot, tool <- hTool, intents <- hIntents,
  effects <- hEffects, faults <- hFaults

Dev == INSTANCE DevLoop WITH
  Files <- {fa}, MaxEdits <- 2,
  reload <- fReload, tree <- fTree, cancelled <- fCancelled, loop <- fLoop, runner <- fRunner,
  watcher <- fWatcher, early <- fEarly

\* What the parts require of their constants.
ASSUME PlatformConstants ==
  Keys!KeyConstants /\ Journal!JournalConstants /\ Log!EventStoreConstants /\
  Schema!SchemaConstants /\ Codex!CodexConstants /\ Views!ViewConstants /\ Life!LifeConstants /\ Spans!SpanConstants /\
  Admin!AdminTriggerConstants /\ Cockpit!CockpitConstants /\ IDE!IDEConstants /\ LSP!LSPConstants
  /\ Plans!PlanConstants /\ Steps!StepToolsConstants /\ Talks!ProviderConstants /\
  Desk!DeskConstants /\ Dev!DevConstants /\ Sink!SinkConstants

codexPart == <<xCaller, xGate, xClosed, xProcess, xLive, xInitialized, xTurn, xInbox, xServer,
               xWire, xLedger>>
driverPart == <<dTransport, dTurn, dGroup, dStray, dPipe, dOutput, dStage, dScan, dLive, dEdited,
                dWrites>>
lifePart == <<wCfg, wPc, wStore, wRunners, wCancelled, wSignalled, wRecovery, wStopped, wRequest,
              wCron, wAbandoned, wResult>>
textPart == <<tAlphabet, tText, tLo, tMode, tBusy, tEscaped, tMatched, tShown, tMisread>>
adminPart == <<aPlan, aRequest, aSlots, aKey, aPushed, aLost, aStopping>>
plansPart == <<pAt, pNode, pPlan, pPlans, pSetting, pGroups, pMux, pOptions>>
stepsPart == <<nStack, nParked, nOpen, nReached, nFaults, nOutcome>>
talksPart == <<hSetup, hTalk, hCall, hGot, hTool, hIntents, hEffects, hFaults>>
devPart == <<fReload, fTree, fCancelled, fLoop, fRunner, fWatcher, fEarly>>

\* The parts that do not run have one initial state.
Init ==
  /\ chosen \in {"keys", "journal", "log", "schema", "codex", "driver", "views", "life", "text",
              "spans", "admin", "cockpit", "ide", "lsp", "plans", "steps", "talks", "desk", "dev",
              "sink"}
  /\ Keys!KeyInit
  /\ chosen # "keys" => kBackend = "memory"
  /\ Journal!JournalInit
  /\ chosen # "journal" => jBackend = "memory"
  /\ Log!EventStoreInit
  /\ chosen # "log" => lBackend = "memory"
  /\ Schema!SchemaInit
  /\ chosen # "schema" => mBackend = "sqlite" /\ mVersion = 0 /\ mProc = [p \in Processes |-> Schema!Fresh("auto")]
  /\ Codex!CodexInit
  /\ Driver!DriverInit
  /\ chosen # "driver" => dTransport = "codex"
  /\ Views!ViewInit
  /\ chosen # "views" => vBackend = "none"
  /\ Life!LifeInit
  /\ chosen # "life" => wCfg = PlainConfig
  /\ Text!TextInit
  /\ chosen # "text" => tAlphabet = {"c", "d", "e"}
  /\ Spans!SpanInit
  /\ Admin!AdminInit
  /\ chosen # "admin" => aPlan = StreamPlan
  /\ Cockpit!CockpitInit
  /\ IDE!IDEInit
  /\ chosen # "ide" => iGopls.pc = "none"
  /\ LSP!LSPInit
  /\ Plans!PlanInit
  /\ Steps!StepToolsInit
  /\ Talks!ProviderInit
  /\ chosen # "talks" => hSetup = [models |-> <<"openai">>, deltas |-> FALSE, named |-> FALSE]
  /\ Desk!DeskInit
  /\ chosen # "desk" => qBackend = "memory"
  /\ Dev!DevInit
  /\ chosen # "dev" => fReload = FALSE
  /\ Sink!SinkInit
  /\ chosen # "sink" => bPlatform = "linux" /\ bEntry = Old

\* The parts beside the one that runs.
Others(part) ==
  /\ part = "keys" \/ UNCHANGED keysPart
  /\ part = "journal" \/ UNCHANGED journalPart
  /\ part = "log" \/ UNCHANGED logPart
  /\ part = "schema" \/ UNCHANGED schemaPart
  /\ part = "codex" \/ UNCHANGED codexPart
  /\ part = "driver" \/ UNCHANGED driverPart
  /\ part = "views" \/ UNCHANGED viewsPart
  /\ part = "life" \/ UNCHANGED lifePart
  /\ part = "text" \/ UNCHANGED textPart
  /\ part = "spans" \/ UNCHANGED spansPart
  /\ part = "admin" \/ UNCHANGED adminPart
  /\ part = "cockpit" \/ UNCHANGED cockpitPart
  /\ part = "ide" \/ UNCHANGED idePart
  /\ part = "lsp" \/ UNCHANGED lspPart
  /\ part = "plans" \/ UNCHANGED plansPart
  /\ part = "steps" \/ UNCHANGED stepsPart
  /\ part = "talks" \/ UNCHANGED talksPart
  /\ part = "desk" \/ UNCHANGED deskPart
  /\ part = "dev" \/ UNCHANGED devPart
  /\ part = "sink" \/ UNCHANGED sinkPart

Next ==
  /\ chosen' = chosen /\ Others(chosen)
  /\ \/ chosen = "keys" /\ Keys!KeyNext
     \/ chosen = "journal" /\ Journal!JournalNext
     \/ chosen = "log" /\ Log!EventStoreNext
     \/ chosen = "schema" /\ Schema!SchemaNext
     \/ chosen = "codex" /\ Codex!CodexNext
     \/ chosen = "driver" /\ Driver!DriverNext
     \/ chosen = "views" /\ Views!ViewStep
     \/ chosen = "life" /\ Life!LifeStep
     \/ chosen = "text" /\ Text!TextStep
     \/ chosen = "spans" /\ Spans!SpanNext
     \/ chosen = "admin" /\ Admin!AdminNext
     \/ chosen = "cockpit" /\ Cockpit!CockpitNext
     \/ chosen = "ide" /\ IDE!IDENext
     \/ chosen = "lsp" /\ LSP!LSPNext
     \/ chosen = "plans" /\ Plans!PlanNext
     \/ chosen = "steps" /\ Steps!StepToolsNext
     \/ chosen = "talks" /\ Talks!ProviderNext
     \/ chosen = "desk" /\ Desk!DeskNext
     \/ chosen = "dev" /\ Dev!DevNext
     \/ chosen = "sink" /\ Sink!SinkNext

vars == <<chosen, keysPart, journalPart, logPart, schemaPart, codexPart, driverPart,
          viewsPart, lifePart, textPart, spansPart, adminPart, cockpitPart, idePart,
          lspPart, plansPart, stepsPart, talksPart, deskPart, devPart, sinkPart>>
Spec == Init /\ [][Next]_vars

\* The variables of every part keep their types.
TypeOK ==
  /\ chosen = "keys" => Keys!TypeOK
  /\ chosen = "journal" => Journal!TypeOK
  /\ chosen = "log" => Log!TypeOK
  /\ chosen = "schema" => Schema!TypeOK
  /\ chosen = "codex" => Codex!CodexTypeOK
  /\ chosen = "driver" => Driver!DriverTypeOK
  /\ chosen = "views" => Views!ViewTypeOK
  /\ chosen = "life" => Life!LifeTypeOK
  /\ chosen = "text" => Text!TextTypeOK
  /\ chosen = "spans" => Spans!SpanTypeOK
  /\ chosen = "admin" => Admin!AdminTypeOK
  /\ chosen = "cockpit" => Cockpit!CockpitTypeOK
  /\ chosen = "ide" => IDE!IDETypeOK
  /\ chosen = "lsp" => LSP!LSPTypeOK
  /\ chosen = "plans" => Plans!PlanTypeOK
  /\ chosen = "steps" => Steps!StepToolsTypeOK
  /\ chosen = "talks" => Talks!ProviderTypeOK
  /\ chosen = "desk" => Desk!DeskTypeOK
  /\ chosen = "dev" => Dev!DevTypeOK
  /\ chosen = "sink" => Sink!SinkTypeOK

\* Stores: a key is granted to one call, a parked run can go on, no stored event is skipped, a
\* process serves the schema it needs, one decision is taken of an approval, and the output of a
\* run is whole and stays (IdempotencyStore, JournalStore, EventStore, SchemaMigration,
\* ApprovalDesk, FileSink).
StoresAgree ==
  /\ chosen = "keys" => Keys!GrantedToOne /\ Keys!AnswersLinear
  /\ chosen = "journal" => Journal!ReplayGoesOn /\ Journal!ParkedKeepsJournal
  /\ chosen = "log" => Log!CounterAbove /\ Log!NoneMissed
  /\ chosen = "schema" =>
        /\ Schema!ServesFullSchema
        /\ Schema!VersionHonest
        /\ Schema!LockPreventsRaces
  /\ chosen = "desk" => Desk!DecidedOnce
  /\ chosen = "sink" =>
        /\ Sink!FileIsWhole
        /\ Sink!WrittenStays
        /\ Sink!ErrorsAreTold
        /\ Sink!NothingIsLeft

\* Work: a worker runs what its pipelines declare and every step with its own tool sessions; the
\* answer of a model is the one it sent, what is shown of it is its text, no cut in it shows a part
\* of a secret, and its effects are known to a recovery; tokens are billed once, only scanned
\* files are imported, a trigger that was accepted happened, a run is replayed by the plan that
\* began it, an approved run goes on and a denied one ends, and one worker of a project runs and
\* has its saves (PlanCompile, StepTools, ProviderStream, TextRedactor, CodexAppServer,
\* ExternalDriver, AdminTrigger, WorkerLifecycle, ApprovalDesk, DevLoop).
WorkIsAccounted ==
  /\ chosen = "codex" =>
        /\ Codex!TokensBilledOnce
        /\ Codex!TextReportedOnce
        /\ Codex!NoProcessLeft
        /\ Codex!OpenTurnAwaitsResult
  /\ chosen = "driver" =>
        /\ Driver!ImportedIsScanned
        /\ Driver!FailedLeavesWorker
        /\ Driver!ImportedIsRecorded
  /\ chosen = "admin" =>
        /\ Admin!AcceptedHappened
        /\ Admin!RepeatsAreLostAnswers
        /\ Admin!SlotsAreHeld
  /\ chosen = "life" => Life!NeverOpenUnasked /\ Life!StoreOutlivesWork /\ Life!ReplaysOwnRuns
  /\ chosen = "plans" => Plans!PlansKeepTheirContracts /\ Plans!ServesWhatItDeclares
  /\ chosen = "steps" => Steps!SessionsFollowSteps
  /\ chosen = "talks" =>
        /\ Talks!AnswerIsWhatWasSent
        /\ Talks!ShownIsAnswered
        /\ Talks!RequestsArePaired
        /\ Talks!NamedEffectsBlockReplay
  /\ chosen = "text" => Text!CutsShowNothing
  /\ chosen = "desk" => Desk!ApprovedGoesOn /\ Desk!NothingIsDropped /\ Desk!DeniedIsOver
  /\ chosen = "dev" => Dev!OneWorker /\ Dev!NoSaveLost

\* Observers: a client that polls misses no event, a running operation is measured, a span is its
\* operation's own, the cards of the cockpit are those of the turn, a decision is about the card on
\* screen, the editor's marks are about the text they stand beside, and a language server that was
\* given up is not left running (TraceViews, SpanExport, Cockpit, WorkerIDE, LanguageClient).
ViewsAreTrue ==
  /\ chosen = "views" => Views!NoneSkipped /\ Views!RunningIsMeasured
  /\ chosen = "spans" => Spans!SpansAreOwn /\ Spans!OpenIsRunning /\ Spans!ExportedOnce
  /\ chosen = "cockpit" => Cockpit!DecisionFits /\ Cockpit!CardsAreTrue
  /\ chosen = "ide" => IDE!CleanIsKnown /\ IDE!AuditIsOfDisk /\ IDE!ItemsFit
  /\ chosen = "lsp" => LSP!NoOrphanServer

\* Steps: a successful outcome of a key is never replaced, a prune spares a live run, no counter
\* a scraper reads falls while the process lives, a call that needs an approval runs after it, a
\* queued prompt follows a turn that succeeded, and diagnostics are shown in their order
\* (IdempotencyStore, JournalStore, TraceViews, Cockpit, LanguageClient).
HistoryStays ==
  /\ Keys!SuccessIsFinal /\ Journal!PruneSparesLive /\ Views!CountersNeverFall
  /\ Cockpit!RanIsApproved /\ Cockpit!FollowUpAfterSuccess /\ LSP!ShownGoesForward

\* Each part, under its own fairness: start-up, a completion, a cancelled turn, the run of a
\* worker, a trigger request, a cancelled prompt of the cockpit, a request to a language server
\* and a pipeline end, and a save reaches a worker (SchemaMigration, CodexAppServer,
\* ExternalDriver, WorkerLifecycle, AdminTrigger, Cockpit, LanguageClient, StepTools, DevLoop).
PlatformProgress ==
  /\ chosen = "schema" /\ Schema!SchemaFairness => Schema!StartupEnds
  /\ chosen = "codex" /\ Codex!CodexFairness => Codex!CompleteReturns
  /\ chosen = "driver" /\ Driver!DriverFairness => Driver!CancelledTurnEnds
  /\ chosen = "life" /\ Life!LifeFairness => Life!RunReturns
  /\ chosen = "admin" /\ Admin!AdminFairness => Admin!TriggersEnd
  /\ chosen = "cockpit" /\ Cockpit!CockpitFairness => Cockpit!CancelledTurnEnds
  /\ chosen = "lsp" /\ LSP!LSPFairness => LSP!CallsReturn
  /\ chosen = "steps" /\ Steps!StepToolsFairness => Steps!PipelineReturns
  /\ chosen = "dev" /\ Dev!DevFairness => Dev!SavesAreServed

(***************************************************************************)
(* A behaviour of these parts is one of each of them: their steps are      *)
(* steps of the chosen part and leave the others alone, so what is proved  *)
(* of a store holds of all.                                                *)
(***************************************************************************)
LEMMA PlatformRunsStores == Spec => /\ KeysSafety /\ JournalSafety /\ LogSafety
                                    /\ SchemaSafety /\ DeskSafety /\ SinkSafety
  <1>1. Init => /\ Keys!KeyInit /\ Journal!JournalInit /\ Log!EventStoreInit
                /\ Schema!SchemaInit /\ Desk!DeskInit /\ Sink!SinkInit
    BY DEF Init
  <1>2. [Next]_vars => [Keys!KeyNext]_keysPart
    BY DEF Next, Others, vars, keysPart
  <1>3. [Next]_vars => [Journal!JournalNext]_journalPart
    BY DEF Next, Others, vars, journalPart
  <1>4. [Next]_vars => [Log!EventStoreNext]_logPart
    BY DEF Next, Others, vars, logPart
  <1>5. [Next]_vars => [Schema!SchemaNext]_schemaPart
    BY DEF Next, Others, vars, schemaPart
  <1>6. [Next]_vars => [Desk!DeskNext]_deskPart
    BY DEF Next, Others, vars, deskPart
  <1>7. [Next]_vars => [Sink!SinkNext]_sinkPart
    BY DEF Next, Others, vars, sinkPart
  <1> QED BY <1>1, <1>2, <1>3, <1>4, <1>5, <1>6, <1>7, PTL
          DEF Spec, KeysSafety, JournalSafety, LogSafety, SchemaSafety, DeskSafety, SinkSafety

\* Whichever store a worker has and however its callers, sweepers, processes, operators and
\* writers interleave and fail, the stores agree with what those were told.
THEOREM StoresStayAgreed == Spec => []StoresAgree
  <1>1. /\ KeysSafety => [](Keys!GrantedToOne /\ Keys!AnswersLinear)
        /\ JournalSafety => [](Journal!ReplayGoesOn /\ Journal!ParkedKeepsJournal)
        /\ LogSafety => [](Log!CounterAbove /\ Log!NoneMissed)
    BY PlatformConstants, KeysAreGrantedOnce, JournalsAreKept, NoEventIsMissed, PTL
  <1>2. /\ SchemaSafety => [](/\ Schema!ServesFullSchema /\ Schema!VersionHonest
                              /\ Schema!LockPreventsRaces)
        /\ DeskSafety => []Desk!DecidedOnce
        /\ SinkSafety => [](/\ Sink!FileIsWhole /\ Sink!WrittenStays /\ Sink!ErrorsAreTold
                            /\ Sink!NothingIsLeft)
    BY PlatformConstants, SchemaIsServed, DecisionsAreKept, FilesAreWhole, PTL
  <1>3. Keys!GrantedToOne /\ Keys!AnswersLinear /\ Journal!ReplayGoesOn
          /\ Journal!ParkedKeepsJournal /\ Log!CounterAbove /\ Log!NoneMissed
          /\ Schema!ServesFullSchema /\ Schema!VersionHonest /\ Schema!LockPreventsRaces
          /\ Desk!DecidedOnce /\ Sink!FileIsWhole /\ Sink!WrittenStays /\ Sink!ErrorsAreTold
          /\ Sink!NothingIsLeft
          => StoresAgree
    BY Zenon DEF StoresAgree
  <1> QED BY <1>1, <1>2, <1>3, PlatformRunsStores, PTL

\* So it is one of each view and of each screen.
LEMMA PlatformRunsViews == Spec => /\ SpansSafety /\ ViewsSafety /\ EditorSafety
                                   /\ LanguageSafety /\ CockpitSafety
  <1>1. Init => /\ Spans!SpanInit /\ Views!ViewInit /\ IDE!IDEInit /\ LSP!LSPInit
                /\ Cockpit!CockpitInit
    BY DEF Init
  <1>2. [Next]_vars => [Spans!SpanNext]_spansPart
    BY DEF Next, Others, vars, spansPart
  <1>3. [Next]_vars => [Views!ViewStep]_viewsPart
    BY DEF Next, Others, vars, viewsPart
  <1>4. [Next]_vars => [IDE!IDENext]_idePart
    BY DEF Next, Others, vars, idePart
  <1>5. [Next]_vars => [LSP!LSPNext]_lspPart
    BY DEF Next, Others, vars, lspPart
  <1>6. [Next]_vars => [Cockpit!CockpitNext]_cockpitPart
    BY DEF Next, Others, vars, cockpitPart
  <1> QED BY <1>1, <1>2, <1>3, <1>4, <1>5, <1>6, PTL
          DEF Spec, SpansSafety, ViewsSafety, EditorSafety, LanguageSafety, CockpitSafety

\* Whatever a client polls, an operation does twice, an operator types, saves and decides, and
\* however their servers and streams answer, what is shown is what happened.
THEOREM ViewsStayTrue == Spec => []ViewsAreTrue
  <1>1. /\ ViewsSafety => [](Views!NoneSkipped /\ Views!RunningIsMeasured)
        /\ SpansSafety => [](Spans!SpansAreOwn /\ Spans!OpenIsRunning /\ Spans!ExportedOnce)
        /\ CockpitSafety => [](Cockpit!DecisionFits /\ Cockpit!CardsAreTrue)
    BY PlatformConstants, EventsAreShown, SpansAreTrue, CockpitIsTrue, PTL
  <1>2. /\ EditorSafety => [](IDE!CleanIsKnown /\ IDE!AuditIsOfDisk /\ IDE!ItemsFit)
        /\ LanguageSafety => []LSP!NoOrphanServer
    BY PlatformConstants, EditorIsTrue, LanguageIsTrue, PTL
  <1>3. Views!NoneSkipped /\ Views!RunningIsMeasured /\ Spans!SpansAreOwn
          /\ Spans!OpenIsRunning /\ Spans!ExportedOnce /\ Cockpit!DecisionFits
          /\ Cockpit!CardsAreTrue /\ IDE!CleanIsKnown /\ IDE!AuditIsOfDisk /\ IDE!ItemsFit
          /\ LSP!NoOrphanServer
          => ViewsAreTrue
    BY Zenon DEF ViewsAreTrue
  <1> QED BY <1>1, <1>2, <1>3, PlatformRunsViews, PTL

\* Of what no step may do: a key that succeeded is not reserved again, a prune spares a live run
\* outside Postgres, no counter shown falls, a gated call runs after its yes, a follow-up after a
\* turn that ended well, and diagnostics are shown in their order.
THEOREM HistoryIsKept == Spec => HistoryStays
  <1>1. Spec => Keys!SuccessIsFinal /\ Journal!PruneSparesLive
    BY PlatformConstants, KeysAreGrantedOnce, JournalsAreKept, PlatformRunsStores, PTL
  <1>2. Spec => Views!CountersNeverFall /\ LSP!ShownGoesForward
    BY PlatformConstants, EventsAreShown, LanguageIsTrue, PlatformRunsViews, PTL
  <1>3. Spec => Cockpit!RanIsApproved /\ Cockpit!FollowUpAfterSuccess
    BY PlatformConstants, CockpitIsTrue, PlatformRunsViews, PTL
  <1> QED BY <1>1, <1>2, <1>3, PTL DEF HistoryStays
=============================================================================
