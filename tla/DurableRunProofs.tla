-------------------------- MODULE DurableRunProofs --------------------------
(***************************************************************************)
(* What DurableRun promises for every plan, any number of legs and hosts,  *)
(* and any bounds on crashes and stalls: its types, its lease, and the     *)
(* journal a recovery reads.                                               *)
(*                                                                         *)
(* A proof has one step per action, and an action changes the leg that     *)
(* takes it and one or two rows.  So the lemmas of the first part say what *)
(* the updates make of a leg (GoesTo, EndsIn, BeginsAt, Takes, ReplaysAt,  *)
(* Suspends ...) and of the rows (LeaseRows, IntentRows, FailedRow ...).   *)
(* Above them every layer has its shapes of steps, one lemma that every    *)
(* action has one of these shapes, and one that the shapes preserve the    *)
(* invariant of the layer:                                                 *)
(*   Typed      the types, and that the record a leg parks is its last one;*)
(*   Fenced     no leg has a fence the row did not grant, no two legs have *)
(*              the same, and unless a heartbeat stalls a leg with a fence *)
(*              has the current one on an unexpired lease;                 *)
(*   Beginning  what nobody has done before the run has its journal.       *)
(* SoleExecutor is not inductive without Fenced, nor JournalOutlivesRun    *)
(* without Beginning.                                                      *)
(***************************************************************************)
EXTENDS DurableRun, TLAPS

----------------------------------------------------------------------------
(* What a leg makes of itself. *)

\* Only this leg takes a step, ...
OnlyLeg(l) == leg' \in [Legs -> Leg] /\ \A m \in Legs : m # l => leg'[m] = leg[m]

\* ... and keeps its fence and its record.
Stays(l) == OnlyLeg(l) /\ leg'[l].fence = leg[l].fence /\ leg'[l].approval = leg[l].approval

\* A leg is given another value.
LEMMA Becomes ==
    ASSUME leg \in [Legs -> Leg], NEW l \in Legs, NEW h \in Leg, leg' = [leg EXCEPT ![l] = h]
    PROVE  OnlyLeg(l) /\ leg'[l] = h
  BY DEF OnlyLeg

\* A leg that goes on changes its phase and nothing else.
LEMMA GoesTo ==
    ASSUME leg \in [Legs -> Leg], NEW l \in Legs, NEW pc \in PCs, Goes(l, pc)
    PROVE  /\ Stays(l)
           /\ leg'[l].pc = pc /\ leg'[l].step = leg[l].step /\ leg'[l].lost = leg[l].lost
           /\ leg'[l].ending = leg[l].ending
  BY DEF Goes, OnlyLeg, Leg, Stays

\* A leg that ends comes to the settlement of the trigger.
LEMMA EndsIn ==
    ASSUME leg \in [Legs -> Leg], NEW l \in Legs, NEW e \in {"completed", "failed",
           "delivered"}, Ends(l, e)
    PROVE  /\ Stays(l)
           /\ leg'[l].pc = "resolve" /\ leg'[l].step = leg[l].step /\ leg'[l].lost = leg[l].lost
           /\ leg'[l].ending = e
  <1> DEFINE h == [leg[l] EXCEPT !.pc = "resolve"]
             g == [h EXCEPT !.ending = e]
  <1>1. /\ h \in Leg /\ h.pc = "resolve" /\ h.step = leg[l].step /\ h.lost = leg[l].lost
        /\ h.fence = leg[l].fence /\ h.approval = leg[l].approval
    BY DEF Leg, PCs
  <1> HIDE DEF h
  <1>2. /\ g \in Leg /\ g.pc = "resolve" /\ g.step = leg[l].step /\ g.lost = leg[l].lost
        /\ g.fence = leg[l].fence /\ g.approval = leg[l].approval /\ g.ending = e
    BY <1>1 DEF Leg
  <1>3. leg' = [leg EXCEPT ![l] = g]
    BY DEF Ends, h
  <1> HIDE DEF g
  <1> QED BY <1>2, <1>3 DEF OnlyLeg, Stays

\* A leg begins a call at its entry, and the terminal at its confirm.
LEMMA BeginsAt ==
    ASSUME leg \in [Legs -> Leg], NEW l \in Legs, NEW k \in Calls, Begins(l, k)
    PROVE  /\ Stays(l)
           /\ leg'[l].pc = (IF k = Terminal THEN "confirm" ELSE "enter") /\ leg'[l].step = k
           /\ leg'[l].lost = leg[l].lost
  <1> DEFINE h == [leg[l] EXCEPT !.step = k]
             pc == IF k = Terminal THEN "confirm" ELSE "enter"
             g == [h EXCEPT !.pc = pc]
  <1>1. /\ h \in Leg /\ h.step = k /\ h.lost = leg[l].lost
        /\ h.fence = leg[l].fence /\ h.approval = leg[l].approval
    BY DEF Leg
  <1>2. pc \in PCs
    BY DEF PCs
  <1> HIDE DEF h, pc
  <1>3. /\ g \in Leg /\ g.pc = pc /\ g.step = k /\ g.lost = leg[l].lost
        /\ g.fence = leg[l].fence /\ g.approval = leg[l].approval
    BY <1>1, <1>2 DEF Leg
  <1>4. leg' = [leg EXCEPT ![l] = g]
    BY DEF Begins, AtStep, h, pc
  <1> HIDE DEF g
  <1>5. Stays(l) /\ leg'[l] = g
    BY <1>3, <1>4 DEF OnlyLeg, Stays
  <1> QED BY <1>3, <1>5 DEF pc

\* A leg that rests is at rest: an operator's is spent, the others may start again.
LEMMA RestsNow ==
    ASSUME leg \in [Legs -> Leg], NEW l \in Legs, leg' = [leg EXCEPT ![l] = Rested(l)]
    PROVE  /\ OnlyLeg(l)
           /\ leg'[l] = Rested(l) /\ leg'[l].pc = (IF l \in Operators THEN "spent" ELSE "off")
           /\ leg'[l].fence = 0 /\ leg'[l].lost = FALSE
  <1>1. Rested(l) \in Leg
    BY DEF Rested, Rest, Leg, PCs, Calls, Terminal
  <1> QED BY <1>1 DEF Rested, Rest, OnlyLeg

\* Whoever takes the lease has the next fence, and so has the row.
LEMMA Takes ==
    ASSUME leg \in [Legs -> Leg], lease \in LeaseRow, NEW l \in Legs, NEW pc \in PCs,
           TakesLease(l, pc)
    PROVE  /\ OnlyLeg(l)
           /\ leg'[l].pc = pc /\ leg'[l].step = leg[l].step /\ leg'[l].fence = lease.fence + 1
           /\ leg'[l].lost = leg[l].lost /\ leg'[l].approval = leg[l].approval
           /\ lease' \in LeaseRow /\ lease'.fence = lease.fence + 1 /\ lease'.live = TRUE
           /\ lease' = [fence |-> lease.fence + 1, live |-> TRUE]
           /\ lease.live = FALSE
  <1> DEFINE h == [leg[l] EXCEPT !.pc = pc]
             g == [h EXCEPT !.fence = lease.fence + 1]
  <1>0. /\ h \in Leg /\ h.pc = pc /\ h.step = leg[l].step /\ h.lost = leg[l].lost
        /\ h.approval = leg[l].approval
    BY DEF Leg
  <1>2. leg' = [leg EXCEPT ![l] = g]
    BY DEF TakesLease
  <1> HIDE DEF h
  <1>3. /\ g \in Leg /\ g.pc = pc /\ g.step = leg[l].step /\ g.fence = lease.fence + 1
        /\ g.lost = leg[l].lost /\ g.approval = leg[l].approval
    BY <1>0 DEF Leg, LeaseRow
  <1>4. lease' = [fence |-> lease.fence + 1, live |-> TRUE] /\ ~lease.live
    BY DEF TakesLease, Free
  <1> HIDE DEF g
  <1> QED BY <1>2, <1>3, <1>4 DEF OnlyLeg, LeaseRow

\* A leg that learns that its lease is lost changes nothing else.
LEMMA Loses ==
    ASSUME leg \in [Legs -> Leg], NEW l \in Legs, leg' = [leg EXCEPT ![l].lost = TRUE]
    PROVE  /\ Stays(l)
           /\ leg'[l].pc = leg[l].pc /\ leg'[l].step = leg[l].step
           /\ leg'[l].lost = TRUE /\ leg'[l].ending = leg[l].ending
  BY DEF Stays, OnlyLeg, Leg

\* A replay starts after the checkpoint, or at the step of an approved record.
LEMMA ReplaysAt ==
    ASSUME TypeOK, NEW l \in Legs, Replays(l), run.ckpt + 1 \in Calls
    PROVE  /\ OnlyLeg(l)
           /\ leg'[l].pc = (IF run.ckpt + 1 = Terminal THEN "confirm" ELSE "enter")
           /\ leg'[l].step = run.ckpt + 1
           /\ leg'[l].fence = leg[l].fence /\ leg'[l].lost = leg[l].lost
           /\ leg'[l].approval = Approval
           /\ \/ Approval = 0
              \/ Approval \in DOMAIN approvals /\ approvals[Approval].status = "approved"
  <1> DEFINE h == [leg[l] EXCEPT !.approval = Approval]
             g == [h EXCEPT !.step = run.ckpt + 1]
             e == [g EXCEPT !.pc = IF run.ckpt + 1 = Terminal THEN "confirm" ELSE "enter"]
  <1>0. /\ Approval \in Nat
        /\ \/ Approval = 0
           \/ Approval \in DOMAIN approvals /\ approvals[Approval].status = "approved"
    <2>1. Approved # {} => Approval \in Approved
      BY DEF Approval
    <2>2. \A a \in Approved :
             a \in DOMAIN approvals /\ a \in Nat /\ approvals[a].status = "approved"
      BY DEF TypeOK, Approved
    <2>3. Approved = {} => Approval = 0
      BY DEF Approval
    <2> QED BY <2>1, <2>2, <2>3
  <1>1. /\ h \in Leg /\ h.approval = Approval /\ h.fence = leg[l].fence /\ h.lost = leg[l].lost
    BY <1>0 DEF Leg, TypeOK
  <1> HIDE DEF h
  <1>2. /\ g \in Leg /\ g.approval = Approval /\ g.fence = leg[l].fence /\ g.lost = leg[l].lost
        /\ g.step = run.ckpt + 1
    BY <1>1 DEF Leg
  <1> HIDE DEF g
  <1>3. /\ e \in Leg /\ e.approval = Approval /\ e.fence = leg[l].fence /\ e.lost = leg[l].lost
        /\ e.step = run.ckpt + 1
        /\ e.pc = (IF run.ckpt + 1 = Terminal THEN "confirm" ELSE "enter")
    BY <1>2 DEF Leg, PCs
  <1>4. leg' = [leg EXCEPT ![l] = e]
    BY DEF Replays, AtStep, h, g
  <1> HIDE DEF e
  <1> QED BY <1>0, <1>3, <1>4 DEF OnlyLeg, TypeOK

\* A suspension appends one record, waiting, at the step and the fence of the leg.
LEMMA Suspends ==
    ASSUME TypeOK, NEW l \in Legs, Suspend(l)
    PROVE  /\ OnlyLeg(l)
           /\ leg'[l].pc = "parking" /\ leg'[l].step = leg[l].step
           /\ leg'[l].fence = leg[l].fence /\ leg'[l].lost = leg[l].lost
           /\ leg'[l].approval = Len(approvals) + 1
           /\ approvals' \in Seq(Approvals) /\ Len(approvals') = Len(approvals) + 1
           /\ DOMAIN approvals' = 1 .. Len(approvals) + 1
           /\ \A i \in DOMAIN approvals : approvals'[i] = approvals[i]
           /\ approvals'[Len(approvals) + 1].status = "pending"
           /\ approvals'[Len(approvals) + 1].step = leg[l].step
           /\ approvals'[Len(approvals) + 1].fence = leg[l].fence
  <1> DEFINE h == [leg[l] EXCEPT !.pc = "parking"]
             g == [h EXCEPT !.approval = Len(approvals) + 1]
             a == [status |-> "pending", step |-> leg[l].step, fence |-> leg[l].fence]
  <1>0. Len(approvals) \in Nat /\ leg[l] \in Leg
    BY DEF TypeOK
  <1>1. /\ h \in Leg /\ h.pc = "parking" /\ h.step = leg[l].step /\ h.fence = leg[l].fence
        /\ h.lost = leg[l].lost
    BY <1>0 DEF Leg, PCs
  <1> HIDE DEF h
  <1>2. /\ g \in Leg /\ g.pc = "parking" /\ g.step = leg[l].step /\ g.fence = leg[l].fence
        /\ g.lost = leg[l].lost
        /\ g.approval = Len(approvals) + 1
    BY <1>0, <1>1 DEF Leg
  <1>3. leg' = [leg EXCEPT ![l] = g] /\ approvals' = Append(approvals, a)
    BY DEF Suspend, h
  <1>4. a \in Approvals /\ a.status = "pending" /\ a.step = leg[l].step /\ a.fence = leg[l].fence
    BY <1>0 DEF Approvals, Leg
  <1> HIDE DEF g, a
  <1>5. /\ approvals' \in Seq(Approvals) /\ Len(approvals') = Len(approvals) + 1
        /\ DOMAIN approvals' = 1 .. Len(approvals) + 1
        /\ \A i \in DOMAIN approvals : approvals'[i] = approvals[i]
        /\ approvals'[Len(approvals) + 1] = a
    BY <1>3, <1>4 DEF TypeOK
  <1> QED BY <1>2, <1>3, <1>4, <1>5 DEF OnlyLeg, TypeOK

\* A leg at rest.
LEMMA RestIsLeg ==
    ASSUME NEW l \in Legs
    PROVE  /\ Rested(l) \in Leg /\ Rested(l).pc = (IF l \in Operators THEN "spent" ELSE "off")
           /\ Rested(l).fence = 0 /\ Rested(l).lost = FALSE
  BY PlanAssumption DEF Rested, Rest, Leg, PCs, Calls, Terminal

\* A decision changes the status of one record.
LEMMA Decided ==
    ASSUME TypeOK, NEW i \in DOMAIN approvals, NEW s \in {"approved", "denied"},
           approvals' = [approvals EXCEPT ![i].status = s]
    PROVE  /\ approvals' \in Seq(Approvals) /\ DOMAIN approvals' = DOMAIN approvals
           /\ Len(approvals') = Len(approvals)
           /\ approvals'[i].status = s
           /\ \A j \in DOMAIN approvals : /\ approvals'[j].step = approvals[j].step
                                          /\ approvals'[j].fence = approvals[j].fence
                                          /\ j # i => approvals'[j] = approvals[j]
  <1> DEFINE a == [approvals[i] EXCEPT !.status = s]
  <1>0. approvals[i] \in Approvals
    BY DEF TypeOK
  <1>1. /\ a \in Approvals /\ a.status = s /\ a.step = approvals[i].step
        /\ a.fence = approvals[i].fence
    BY <1>0 DEF Approvals
  <1>2. approvals' = [approvals EXCEPT ![i] = a]
    OBVIOUS
  <1> HIDE DEF a
  <1> QED BY <1>1, <1>2 DEF TypeOK

\* The resume of an approved record starts at the step of the record.
LEMMA ResumeStarts ==
    ASSUME TypeOK, NEW i \in DOMAIN approvals, NEW r \in Legs,
           leg' = [leg EXCEPT ![r].pc = "acquiring", ![r].approval = i,
                              ![r].step = approvals[i].step]
    PROVE  /\ OnlyLeg(r)
           /\ leg'[r].pc = "acquiring" /\ leg'[r].approval = i
           /\ leg'[r].step = approvals[i].step
           /\ leg'[r].fence = leg[r].fence /\ leg'[r].lost = leg[r].lost
  <1> DEFINE h == [leg[r] EXCEPT !.pc = "acquiring"]
             g == [h EXCEPT !.approval = i]
             e == [g EXCEPT !.step = approvals[i].step]
  <1>0. /\ i \in Nat /\ approvals[i] \in Approvals /\ leg[r] \in Leg
        /\ leg \in [Legs -> Leg]
    BY DEF TypeOK
  <1>1. h \in Leg /\ h.pc = "acquiring" /\ h.fence = leg[r].fence /\ h.lost = leg[r].lost
    BY <1>0 DEF Leg, PCs
  <1> HIDE DEF h
  <1>2. /\ g \in Leg /\ g.pc = "acquiring" /\ g.fence = leg[r].fence /\ g.lost = leg[r].lost
        /\ g.approval = i
    BY <1>0, <1>1 DEF Leg
  <1> HIDE DEF g
  <1>3. /\ e \in Leg /\ e.pc = "acquiring" /\ e.fence = leg[r].fence /\ e.lost = leg[r].lost
        /\ e.approval = i /\ e.step = approvals[i].step
    BY <1>0, <1>2 DEF Leg, Approvals
  <1>4. leg' = [leg EXCEPT ![r] = e]
    BY DEF h, g
  <1> HIDE DEF e
  <1>5. leg'[r] = e /\ OnlyLeg(r)
    BY <1>0, <1>3, <1>4, Becomes
  <1> QED BY <1>3, <1>5

----------------------------------------------------------------------------
(* The values the rows can take. *)

\* Every update of the rows of the run is a row of the run.
LEMMA RunRows ==
    ASSUME NEW r \in Run
    PROVE  /\ \A s \in Statuses : [r EXCEPT !.status = s] \in Run
           /\ \A n \in 0 .. Len(Plan) : [r EXCEPT !.ckpt = n] \in Run
           /\ \A I \in SUBSET Intents : [r EXCEPT !.intents = I] \in Run
           /\ \A o \in Outcomes : [r EXCEPT !.trigger = o] \in Run
           /\ [r EXCEPT !.journal = TRUE] \in Run
  <1>1. \A s \in Statuses : [r EXCEPT !.status = s] \in Run
    BY DEF Run
  <1>2. \A n \in 0 .. Len(Plan) : [r EXCEPT !.ckpt = n] \in Run
    BY DEF Run
  <1>3. \A I \in SUBSET Intents : [r EXCEPT !.intents = I] \in Run
    BY DEF Run
  <1>4. \A o \in Outcomes : [r EXCEPT !.trigger = o] \in Run
    BY DEF Run
  <1>5. [r EXCEPT !.journal = TRUE] \in Run
    BY DEF Run
  <1> QED BY <1>1, <1>2, <1>3, <1>4, <1>5

\* So is every update of the books.
LEMMA BookRows ==
    ASSUME past \in Books
    PROVE  /\ \A k \in Calls : Counted(k) \in Books
           /\ \A why \in SUBSET {"scan", "resume", "forced"} : Excused(why) \in Books
           /\ [past EXCEPT !.journaled = TRUE] \in Books
           /\ [past EXCEPT !.acked = TRUE] \in Books
  <1>1. ASSUME NEW k \in Calls PROVE Counted(k) \in Books
    <2> DEFINE n == IF past.effects[k] < 2 THEN past.effects[k] + 1 ELSE 2
               e == [past.effects EXCEPT ![k] = n]
    <2>1. past.effects \in [Calls -> 0 .. 2] /\ past.effects[k] \in 0 .. 2
      BY DEF Books
    <2>2. n \in 0 .. 2
      BY <2>1
    <2>3. e \in [Calls -> 0 .. 2]
      BY <2>1, <2>2
    <2>4. Counted(k) = [past EXCEPT !.effects = e]
      BY DEF Counted
    <2> HIDE DEF e
    <2> QED BY <2>3, <2>4 DEF Books
  <1>2. ASSUME NEW why \in SUBSET {"scan", "resume", "forced"} PROVE Excused(why) \in Books
    BY DEF Excused, Books
  <1>3. [past EXCEPT !.journaled = TRUE] \in Books
    BY DEF Books
  <1>4. [past EXCEPT !.acked = TRUE] \in Books
    BY DEF Books
  <1> QED BY <1>1, <1>2, <1>3, <1>4

\* The row of the lease: extended, or ended by the leg that holds it.
LEMMA LeaseRows ==
    ASSUME lease \in LeaseRow, NEW l \in Legs
    PROVE  /\ Extended \in LeaseRow /\ Extended.fence = lease.fence /\ Extended.live = TRUE
           /\ Extended = [fence |-> lease.fence, live |-> TRUE]
           /\ Tombstoned(l) =
                 (IF Holds(l) THEN [fence |-> lease.fence, live |-> FALSE] ELSE lease)
           /\ Tombstoned(l) \in LeaseRow /\ Tombstoned(l).fence = lease.fence
           /\ Tombstoned(l).live = (IF Holds(l) THEN FALSE ELSE lease.live)
  <1> DEFINE e == [lease EXCEPT !.live = TRUE]
             t == [lease EXCEPT !.live = FALSE]
  <1>0. /\ e \in LeaseRow /\ e.fence = lease.fence /\ e.live = TRUE
        /\ t \in LeaseRow /\ t.fence = lease.fence /\ t.live = FALSE
        /\ Extended = e /\ Tombstoned(l) = IF Holds(l) THEN t ELSE lease
    BY DEF Extended, Tombstoned, LeaseRow
  <1> HIDE DEF e, t
  <1>r. e = [fence |-> e.fence, live |-> e.live] /\ t = [fence |-> t.fence, live |-> t.live]
    BY <1>0 DEF LeaseRow
  <1>1. Extended = [fence |-> lease.fence, live |-> TRUE]
    BY <1>0, <1>r
  <1>2. Tombstoned(l) = IF Holds(l) THEN [fence |-> lease.fence, live |-> FALSE] ELSE lease
    BY <1>0, <1>r
  <1>3. lease.fence \in Nat /\ lease.live \in BOOLEAN
    BY DEF LeaseRow
  <1> QED BY <1>1, <1>2, <1>3 DEF LeaseRow

\* The intent of a call replaces an earlier one of the same call.
LEMMA IntentRows ==
    ASSUME TypeOK, NEW l \in Legs, NEW d \in BOOLEAN
    PROVE  /\ WithIntent(l, d) \in Run
           /\ WithIntent(l, d).status = run.status /\ WithIntent(l, d).journal = run.journal
           /\ WithIntent(l, d).ckpt = run.ckpt /\ WithIntent(l, d).trigger = run.trigger
           /\ \E j \in WithIntent(l, d).intents : j.step = leg[l].step
           /\ \A k \in Calls : (\E j \in run.intents : j.step = k)
                 => \E j \in WithIntent(l, d).intents : j.step = k
  <1> DEFINE new == {i \in run.intents : i.step # leg[l].step \/ i.id # CallId(l)}
                    \cup {Intent(l, d)}
  <1>1. run \in Run /\ leg[l] \in Leg /\ leg[l].step \in Calls /\ CallId(l) \in Nat
    BY DEF TypeOK, Leg, CallId
  <1>2. Intent(l, d) \in Intents /\ Intent(l, d).step = leg[l].step
    BY <1>1 DEF Intent, Intents
  <1>3. new \in SUBSET Intents /\ \E j \in new : j.step = leg[l].step
    BY <1>1, <1>2 DEF Run
  <1>4. ASSUME NEW k \in Calls, NEW i \in run.intents, i.step = k PROVE \E j \in new : j.step = k
    BY <1>2, <1>4
  <1>5. WithIntent(l, d) = [run EXCEPT !.intents = new]
    BY DEF WithIntent
  <1> HIDE DEF new
  <1>6. /\ WithIntent(l, d) \in Run /\ WithIntent(l, d).intents = new
        /\ WithIntent(l, d).status = run.status /\ WithIntent(l, d).journal = run.journal
        /\ WithIntent(l, d).ckpt = run.ckpt /\ WithIntent(l, d).trigger = run.trigger
    BY <1>1, <1>3, <1>5 DEF Run
  <1> QED BY <1>3, <1>4, <1>6

\* The outcome of the trigger is settled once, and nothing else changes.
LEMMA ResolvedRow ==
    ASSUME run \in Run, NEW o \in Outcomes
    PROVE  /\ Resolved(o) \in Run
           /\ Resolved(o).status = run.status /\ Resolved(o).journal = run.journal
           /\ Resolved(o).ckpt = run.ckpt /\ Resolved(o).intents = run.intents
           /\ Resolved(o).trigger = (IF run.trigger = "pending" THEN o ELSE run.trigger)
  BY DEF Resolved, Run

\* What failing and pruning make of the rows.
LEMMA FailedRow ==
    ASSUME NEW r \in Run
    PROVE  /\ Failed(r) \in Run
           /\ Failed(r).status = (IF r.status = "running" THEN "failed" ELSE r.status)
           /\ Failed(r).journal = r.journal /\ Failed(r).ckpt = r.ckpt
           /\ Failed(r).intents = r.intents /\ Failed(r).trigger = r.trigger
  BY RunRows DEF Failed, Run, Statuses

\* Pruning takes the journal and leaves the execution.
LEMMA PrunedRow ==
    ASSUME NEW r \in Run
    PROVE  /\ Pruned(r) \in Run /\ Pruned(r).status = r.status /\ Pruned(r).trigger = r.trigger
           /\ Prunable(r) => ~Pruned(r).journal /\ Pruned(r).ckpt = 0 /\ Pruned(r).intents = {}
           /\ ~Prunable(r) => Pruned(r) = r
  <1> DEFINE a == [r EXCEPT !.journal = FALSE]
             b == [a EXCEPT !.ckpt = 0]
             c == [b EXCEPT !.intents = {}]
  <1>1. a \in Run /\ a.status = r.status /\ a.trigger = r.trigger /\ ~a.journal
    BY DEF Run
  <1> HIDE DEF a
  <1>2. /\ b \in Run /\ b.status = r.status /\ b.trigger = r.trigger /\ ~b.journal
        /\ b.ckpt = 0
    BY <1>1, PlanAssumption DEF Run
  <1> HIDE DEF b
  <1>3. /\ c \in Run /\ c.status = r.status /\ c.trigger = r.trigger /\ ~c.journal
        /\ c.ckpt = 0 /\ c.intents = {}
    BY <1>2 DEF Run
  <1>4. Pruned(r) = IF Prunable(r) THEN c ELSE r
    BY DEF Pruned, a, b
  <1> HIDE DEF c
  <1> QED BY <1>3, <1>4

\* What counting and excusing make of the books.
LEMMA CountedBooks ==
    ASSUME past \in Books, NEW k \in Calls
    PROVE  /\ Counted(k).acked = past.acked /\ Counted(k).journaled = past.journaled
           /\ Counted(k).excuses = past.excuses
           /\ \A j \in Calls : j # k => Counted(k).effects[j] = past.effects[j]
           /\ Counted(k).effects[k] = (IF past.effects[k] < 2 THEN past.effects[k] + 1 ELSE 2)
           /\ Counted(k).effects \in [Calls -> 0 .. 2]
  <1> DEFINE n == IF past.effects[k] < 2 THEN past.effects[k] + 1 ELSE 2
             e == [past.effects EXCEPT ![k] = n]
  <1>1. past.effects \in [Calls -> 0 .. 2] /\ past.effects[k] \in 0 .. 2
    BY DEF Books
  <1>2. /\ e \in [Calls -> 0 .. 2] /\ e[k] = n
        /\ \A j \in Calls : j # k => e[j] = past.effects[j]
    BY <1>1
  <1>3. Counted(k) = [past EXCEPT !.effects = e]
    BY DEF Counted
  <1> HIDE DEF e
  <1>4. /\ Counted(k).effects = e /\ Counted(k).acked = past.acked
        /\ Counted(k).journaled = past.journaled /\ Counted(k).excuses = past.excuses
    BY <1>3 DEF Books
  <1> QED BY <1>2, <1>4

\* An excuse adds to the excuses and to nothing else.
LEMMA ExcusedBooks ==
    ASSUME past \in Books, NEW why \in SUBSET {"scan", "resume", "forced"}
    PROVE  /\ Excused(why).acked = past.acked /\ Excused(why).journaled = past.journaled
           /\ Excused(why).effects = past.effects
           /\ Excused(why).excuses = past.excuses \cup why
  BY DEF Excused, Books

\* The journaling of the run and the acknowledgement of its trigger change one mark each.
LEMMA MarkedBooks ==
    ASSUME past \in Books
    PROVE  /\ [past EXCEPT !.journaled = TRUE].journaled = TRUE
           /\ [past EXCEPT !.journaled = TRUE].acked = past.acked
           /\ [past EXCEPT !.journaled = TRUE].effects = past.effects
           /\ [past EXCEPT !.journaled = TRUE].excuses = past.excuses
           /\ [past EXCEPT !.acked = TRUE].acked = TRUE
           /\ [past EXCEPT !.acked = TRUE].journaled = past.journaled
           /\ [past EXCEPT !.acked = TRUE].effects = past.effects
           /\ [past EXCEPT !.acked = TRUE].excuses = past.excuses
  BY DEF Books

\* What the other updates make of the row.
LEMMA StatusRow ==
    ASSUME run \in Run, NEW s \in Statuses
    PROVE  /\ [run EXCEPT !.status = s].status = s
           /\ [run EXCEPT !.status = s].journal = run.journal
           /\ [run EXCEPT !.status = s].ckpt = run.ckpt
           /\ [run EXCEPT !.status = s].intents = run.intents
           /\ [run EXCEPT !.status = s].trigger = run.trigger
  BY DEF Run

\* A checkpoint advances the row to the step, and nothing else.
LEMMA CheckpointRow ==
    ASSUME run \in Run, NEW n \in 0 .. Len(Plan)
    PROVE  /\ [run EXCEPT !.ckpt = n].ckpt = n
           /\ [run EXCEPT !.ckpt = n].journal = run.journal
           /\ [run EXCEPT !.ckpt = n].status = run.status
           /\ [run EXCEPT !.ckpt = n].intents = run.intents
           /\ [run EXCEPT !.ckpt = n].trigger = run.trigger
  BY DEF Run

\* Saving the journal gives the row its journal, and nothing else.
LEMMA JournalRow ==
    ASSUME run \in Run
    PROVE  /\ [run EXCEPT !.journal = TRUE].journal = TRUE
           /\ [run EXCEPT !.journal = TRUE].ckpt = run.ckpt
           /\ [run EXCEPT !.journal = TRUE].status = run.status
           /\ [run EXCEPT !.journal = TRUE].intents = run.intents
           /\ [run EXCEPT !.journal = TRUE].trigger = run.trigger
  BY DEF Run

----------------------------------------------------------------------------
(* Types. *)

\* A leg on its way to park has made its record.
ParkingRecorded ==
    \A l \in Legs : leg[l].pc = "parking" => leg[l].approval \in DOMAIN approvals

\* The types, strengthened by what the step that parks reads.
Typed == TypeOK /\ ParkingRecorded

\* What the types say of the parts of the state.
LEMMA Fields ==
    ASSUME TypeOK
    PROVE  /\ leg \in [Legs -> Leg] /\ lease \in LeaseRow /\ run \in Run /\ past \in Books
           /\ \A l \in Legs : /\ leg[l] \in Leg /\ leg[l].pc \in PCs /\ leg[l].step \in Calls
                              /\ leg[l].fence \in Nat /\ leg[l].lost \in BOOLEAN
                              /\ leg[l].approval \in Nat
           /\ lease.fence \in Nat /\ lease.live \in BOOLEAN
           /\ run.ckpt \in 0 .. Len(Plan) /\ run.ckpt + 1 \in Calls
           /\ run.status \in Statuses /\ run.trigger \in Outcomes /\ run.journal \in BOOLEAN
           /\ past.effects \in [Calls -> 0 .. 2]
           /\ approvals \in Seq(Approvals) /\ DOMAIN approvals = 1 .. Len(approvals)
           /\ \A i \in DOMAIN approvals : approvals[i] \in Approvals
           /\ Len(approvals) \in Nat
           /\ Len(Plan) \in Nat /\ Terminal = Len(Plan) + 1 /\ Calls = 1 .. Len(Plan) + 1
  <1>1. Len(Plan) \in Nat /\ Terminal = Len(Plan) + 1 /\ Calls = 1 .. Len(Plan) + 1
    BY PlanAssumption DEF Terminal, Calls
  <1>2. \A l \in Legs : /\ leg[l] \in Leg /\ leg[l].pc \in PCs /\ leg[l].step \in Calls
                        /\ leg[l].fence \in Nat /\ leg[l].lost \in BOOLEAN
                        /\ leg[l].approval \in Nat
    BY DEF TypeOK, Leg
  <1>3. /\ lease.fence \in Nat /\ lease.live \in BOOLEAN
        /\ run.ckpt \in 0 .. Len(Plan) /\ run.ckpt + 1 \in Calls
        /\ run.status \in Statuses /\ run.trigger \in Outcomes /\ run.journal \in BOOLEAN
        /\ past.effects \in [Calls -> 0 .. 2]
    BY <1>1 DEF TypeOK, LeaseRow, Run, Books
  <1> QED BY <1>1, <1>2, <1>3 DEF TypeOK

\* A leg that does not go to park leaves what is recorded of the others.
LEMMA LegMoves ==
    ASSUME ParkingRecorded, NEW l \in Legs, OnlyLeg(l), approvals' = approvals,
           \/ leg'[l].pc # "parking"
           \/ leg'[l].pc = leg[l].pc /\ leg'[l].approval = leg[l].approval
    PROVE  leg' \in [Legs -> Leg] /\ ParkingRecorded'
  <1>1. leg' \in [Legs -> Leg] /\ \A m \in Legs : m # l => leg'[m] = leg[m]
    BY DEF OnlyLeg
  <1>2. ASSUME NEW m \in Legs, leg'[m].pc = "parking" PROVE leg'[m].approval \in DOMAIN approvals
    BY <1>1, <1>2 DEF ParkingRecorded
  <1> QED BY <1>1, <1>2 DEF ParkingRecorded

\* Every step of a leg keeps the types.
LEMMA LegTyped ==
    ASSUME Typed, NEW l \in Legs,
           \/ Call(l) \/ Finish(l) \/ Recover(l) \/ Scan(l) \/ Inspect(l) \/ Heartbeat(l)
           \/ Resume(l)
    PROVE  Typed'
  <1>0. /\ leg \in [Legs -> Leg] /\ lease \in LeaseRow /\ run \in Run /\ past \in Books
        /\ leg[l] \in Leg /\ leg[l].step \in Calls /\ run.ckpt \in 0 .. Len(Plan)
        /\ Len(Plan) \in Nat /\ Terminal = Len(Plan) + 1 /\ Calls = 1 .. Len(Plan) + 1
        /\ run.ckpt + 1 \in Calls
        /\ \A m \in Legs : leg[m].pc = "parking" => leg[m].approval \in DOMAIN approvals
        /\ TypeOK /\ ParkingRecorded
    BY Fields DEF Typed, ParkingRecorded
  <1> USE DEF Typed, TypeOK, Stays, OnlyLeg, PCs, Statuses, Outcomes
  <1>1. ASSUME ReadOnlyCall(l) PROVE Typed'
    BY <1>0, <1>1, GoesTo DEF ReadOnlyCall, ParkingRecorded
  <1>2. ASSUME ReserveIdempotency(l) PROVE Typed'
    BY <1>0, <1>2, GoesTo DEF ReserveIdempotency, ParkingRecorded
  <1>3. ASSUME SkipDuplicate(l) PROVE Typed'
    BY <1>0, <1>3, GoesTo DEF SkipDuplicate, ParkingRecorded
  <1>4. ASSUME BeginToolIntent(l) PROVE Typed'
    <2> HIDE DEF Typed, TypeOK
    <2>1. OnlyLeg(l) /\ leg'[l].pc # "parking"
      BY <1>0, <1>4, GoesTo DEF BeginToolIntent
    <2>2. leg' \in [Legs -> Leg] /\ ParkingRecorded'
      BY <1>0, <1>4, <2>1, LegMoves DEF BeginToolIntent
    <2>3. run' \in Run
      BY <1>0, <1>4, IntentRows DEF BeginToolIntent
    <2> QED BY <1>0, <1>4, <2>2, <2>3 DEF BeginToolIntent, Typed, TypeOK
  <1>5. ASSUME Effect(l) PROVE Typed'
    <2> HIDE DEF Typed, TypeOK
    <2>1. OnlyLeg(l) /\ leg'[l].pc # "parking"
      BY <1>0, <1>5, GoesTo DEF Effect
    <2>2. leg' \in [Legs -> Leg] /\ ParkingRecorded'
      BY <1>0, <1>5, <2>1, LegMoves DEF Effect
    <2>3. past' \in Books
      BY <1>0, <1>5, BookRows DEF Effect
    <2> QED BY <1>0, <1>5, <2>2, <2>3 DEF Effect, Typed, TypeOK
  <1>6. ASSUME CompleteToolIntent(l) PROVE Typed'
    <2> HIDE DEF Typed, TypeOK
    <2>1. OnlyLeg(l) /\ leg'[l].pc # "parking"
      BY <1>0, <1>6, GoesTo DEF CompleteToolIntent
    <2>2. leg' \in [Legs -> Leg] /\ ParkingRecorded'
      BY <1>0, <1>6, <2>1, LegMoves DEF CompleteToolIntent
    <2>3. run' \in Run
      BY <1>0, <1>6, IntentRows DEF CompleteToolIntent
    <2> QED BY <1>0, <1>6, <2>2, <2>3 DEF CompleteToolIntent, Typed, TypeOK
  <1>7. ASSUME SettleIdempotency(l) PROVE Typed'
    <2> HIDE DEF Typed, TypeOK
    <2>1. OnlyLeg(l) /\ leg'[l].pc # "parking"
      BY <1>0, <1>7, GoesTo DEF SettleIdempotency
    <2>2. leg' \in [Legs -> Leg] /\ ParkingRecorded'
      BY <1>0, <1>7, <2>1, LegMoves DEF SettleIdempotency
    <2> QED BY <1>0, <1>7, <2>2 DEF SettleIdempotency, Typed, TypeOK
  <1>8. ASSUME Checkpoint(l) PROVE Typed'
    <2> DEFINE n == IF run.ckpt < leg[l].step THEN leg[l].step ELSE run.ckpt
    <2>1. leg[l].step + 1 \in Calls /\ n \in 0 .. Len(Plan) /\ run' = [run EXCEPT !.ckpt = n]
      BY <1>0, <1>8 DEF Checkpoint
    <2>2. leg' \in [Legs -> Leg] /\ ParkingRecorded'
      BY <1>0, <1>8, <2>1, BeginsAt DEF Checkpoint, ParkingRecorded
    <2>3. run' \in Run
      BY <1>0, <2>1, RunRows
    <2> QED BY <1>8, <2>2, <2>3 DEF Checkpoint
  <1>9. ASSUME CallFails(l) PROVE Typed'
    BY <1>0, <1>9, EndsIn DEF CallFails, ParkingRecorded
  <1>10. ASSUME Suspend(l) PROVE Typed'
    <2>1. /\ leg' \in [Legs -> Leg] /\ approvals' \in Seq(Approvals)
          /\ Len(approvals') = Len(approvals) + 1 /\ Len(approvals) \in Nat
          /\ DOMAIN approvals' = 1 .. Len(approvals')
          /\ leg'[l].pc = "parking" /\ leg'[l].approval = Len(approvals) + 1
          /\ \A m \in Legs : m # l => leg'[m] = leg[m]
      BY <1>0, <1>10, Suspends
    <2>2. parked' \in [Hosts -> SUBSET (1 .. Len(approvals'))]
      BY <1>10, <2>1 DEF Suspend
    <2>3. ParkingRecorded'
      BY <1>0, <2>1 DEF ParkingRecorded
    <2> QED BY <1>10, <2>1, <2>2, <2>3 DEF Suspend
  <1>11. ASSUME Park(l) PROVE Typed'
    <2>1. leg' \in [Legs -> Leg] /\ ParkingRecorded'
      BY <1>0, <1>11, GoesTo DEF Park, ParkingRecorded
    <2>2. leg[l].approval \in 1 .. Len(approvals)
      BY <1>0, <1>11 DEF Park, ParkingRecorded
    <2>3. parked' \in [Hosts -> SUBSET (1 .. Len(approvals))]
      BY <1>11, <2>2 DEF Park, Hosts
    <2> QED BY <1>11, <2>1, <2>3 DEF Park
  <1>12. ASSUME Confirm(l) PROVE Typed'
    <2> HIDE DEF Typed, TypeOK
    <2>1. OnlyLeg(l) /\ leg'[l].pc # "parking"
      BY <1>0, <1>12, GoesTo DEF Confirm
    <2>2. leg' \in [Legs -> Leg] /\ ParkingRecorded'
      BY <1>0, <1>12, <2>1, LegMoves DEF Confirm
    <2>3. lease' \in LeaseRow
      BY <1>0, <1>12, LeaseRows DEF Confirm
    <2> QED BY <1>0, <1>12, <2>2, <2>3 DEF Confirm, Typed, TypeOK
  <1>13. ASSUME ConfirmFails(l) PROVE Typed'
    BY <1>0, <1>13, EndsIn DEF ConfirmFails, ParkingRecorded
  <1>14. ASSUME SettleTrigger(l) PROVE Typed'
    <2> HIDE DEF Typed, TypeOK
    <2>1. OnlyLeg(l) /\ leg'[l].pc # "parking"
      BY <1>0, <1>14, GoesTo DEF SettleTrigger
    <2>2. leg' \in [Legs -> Leg] /\ ParkingRecorded'
      BY <1>0, <1>14, <2>1, LegMoves DEF SettleTrigger
    <2>3. run' \in Run
      BY <1>0, <1>14, ResolvedRow DEF SettleTrigger
    <2>4. past' \in Books
      BY <1>0, <1>14, BookRows DEF SettleTrigger
    <2> QED BY <1>0, <1>14, <2>2, <2>3, <2>4 DEF SettleTrigger, Typed, TypeOK
  <1>15. ASSUME StopAndConfirm(l) PROVE Typed'
    <2> HIDE DEF Typed, TypeOK
    <2>1. OnlyLeg(l) /\ leg'[l].pc # "parking"
      BY <1>0, <1>15, EndsIn DEF StopAndConfirm
    <2>2. leg' \in [Legs -> Leg] /\ ParkingRecorded'
      BY <1>0, <1>15, <2>1, LegMoves DEF StopAndConfirm
    <2>3. lease' \in LeaseRow
      BY <1>0, <1>15, LeaseRows DEF StopAndConfirm
    <2> QED BY <1>0, <1>15, <2>2, <2>3 DEF StopAndConfirm, Typed, TypeOK
  <1>16. ASSUME ProofFails(l) PROVE Typed'
    BY <1>0, <1>16, EndsIn DEF ProofFails, ParkingRecorded
  <1>17. ASSUME ResolveTrigger(l) PROVE Typed'
    <2> HIDE DEF Typed, TypeOK
    <2>1. OnlyLeg(l) /\ leg'[l].pc # "parking"
      BY <1>0, <1>17, GoesTo DEF ResolveTrigger
    <2>2. leg' \in [Legs -> Leg] /\ ParkingRecorded'
      BY <1>0, <1>17, <2>1, LegMoves DEF ResolveTrigger
    <2>3. run' \in Run
      BY <1>0, <1>17, ResolvedRow DEF ResolveTrigger, TriggerOutcome
    <2> QED BY <1>0, <1>17, <2>2, <2>3 DEF ResolveTrigger, Typed, TypeOK
  <1>18. ASSUME SaveOutcome(l) PROVE Typed'
    <2> HIDE DEF Typed, TypeOK
    <2>1. OnlyLeg(l) /\ leg'[l].pc # "parking"
      BY <1>0, <1>18, GoesTo DEF SaveOutcome
    <2>2. leg' \in [Legs -> Leg] /\ ParkingRecorded'
      BY <1>0, <1>18, <2>1, LegMoves DEF SaveOutcome
    <2>3. run' \in Run
      BY <1>0, <1>18, RunRows DEF SaveOutcome
    <2> QED BY <1>0, <1>18, <2>2, <2>3 DEF SaveOutcome, Typed, TypeOK
  <1>19. ASSUME PruneRunJournal(l) PROVE Typed'
    <2> HIDE DEF Typed, TypeOK
    <2>1. OnlyLeg(l) /\ leg'[l].pc # "parking"
      BY <1>0, <1>19, GoesTo DEF PruneRunJournal
    <2>2. leg' \in [Legs -> Leg] /\ ParkingRecorded'
      BY <1>0, <1>19, <2>1, LegMoves DEF PruneRunJournal
    <2>3. run' \in Run
      BY <1>0, <1>19, PrunedRow DEF PruneRunJournal
    <2> QED BY <1>0, <1>19, <2>2, <2>3 DEF PruneRunJournal, Typed, TypeOK
  <1>20. ASSUME Release(l) PROVE Typed'
    BY <1>0, <1>20, RestsNow, LeaseRows, FailedRow DEF Release, ParkingRecorded
  <1>21. ASSUME Claim(l) PROVE Typed'
    <2> HIDE DEF Typed, TypeOK
    <2>1. OnlyLeg(l) /\ leg'[l].pc # "parking"
      BY <1>0, <1>21, Takes DEF Claim
    <2>2. leg' \in [Legs -> Leg] /\ ParkingRecorded'
      BY <1>0, <1>21, <2>1, LegMoves DEF Claim
    <2>3. lease' \in LeaseRow
      BY <1>0, <1>21, Takes DEF Claim
    <2> QED BY <1>0, <1>21, <2>2, <2>3 DEF Claim, Typed, TypeOK
  <1>22. ASSUME RunActive(l) PROVE Typed'
    BY <1>0, <1>22, RestsNow DEF RunActive, ParkingRecorded
  <1>23. ASSUME RecheckApprovals(l) PROVE Typed'
    BY <1>0, <1>23, GoesTo DEF RecheckApprovals, ParkingRecorded
  <1>24. ASSUME LeaveClaim(l) PROVE Typed'
    BY <1>0, <1>24, GoesTo DEF LeaveClaim, ParkingRecorded
  <1>25. ASSUME Abandon(l) PROVE Typed'
    <2>1. leg' \in [Legs -> Leg] /\ ParkingRecorded'
      BY <1>0, <1>25, GoesTo DEF Abandon, ParkingRecorded
    <2>2. Failed(run) \in Run /\ Pruned(Failed(run)) \in Run
      BY <1>0, FailedRow, PrunedRow
    <2> QED BY <1>25, <2>1, <2>2 DEF Abandon
  <1>26. ASSUME FailLoudly(l) PROVE Typed'
    <2> HIDE DEF Typed, TypeOK
    <2>1. OnlyLeg(l) /\ leg'[l].pc # "parking"
      BY <1>0, <1>26, GoesTo DEF FailLoudly
    <2>2. leg' \in [Legs -> Leg] /\ ParkingRecorded'
      BY <1>0, <1>26, <2>1, LegMoves DEF FailLoudly
    <2>3. run' \in Run
      BY <1>0, <1>26, FailedRow DEF FailLoudly
    <2> QED BY <1>0, <1>26, <2>2, <2>3 DEF FailLoudly, Typed, TypeOK
  <1>27. ASSUME Replay(l) PROVE Typed'
    <2>1. leg' \in [Legs -> Leg] /\ ParkingRecorded'
      BY <1>0, <1>27, ReplaysAt DEF Replay, ParkingRecorded
    <2>2. past' \in Books
      BY <1>0, <1>27, BookRows DEF Replay
    <2> QED BY <1>27, <2>1, <2>2 DEF Replay
  <1>28. ASSUME ForcedReplay(l) PROVE Typed'
    <2>1. leg' \in [Legs -> Leg] /\ ParkingRecorded'
      BY <1>0, <1>28, ReplaysAt DEF ForcedReplay, ParkingRecorded
    <2>2. past' \in Books /\ run' \in Run
      BY <1>0, <1>28, BookRows, RunRows DEF ForcedReplay
    <2> QED BY <1>28, <2>1, <2>2 DEF ForcedReplay
  <1>29. ASSUME Scan(l) PROVE Typed'
    <2> HIDE DEF Typed, TypeOK
    <2>1. OnlyLeg(l) /\ leg'[l].pc # "parking"
      BY <1>0, <1>29, GoesTo DEF Scan
    <2>2. leg' \in [Legs -> Leg] /\ ParkingRecorded'
      BY <1>0, <1>29, <2>1, LegMoves DEF Scan
    <2> QED BY <1>0, <1>29, <2>2 DEF Scan, Typed, TypeOK
  <1>30. ASSUME Inspect(l) PROVE Typed'
    <2> HIDE DEF Typed, TypeOK
    <2>1. OnlyLeg(l) /\ leg'[l].pc # "parking"
      BY <1>0, <1>30, GoesTo DEF Inspect
    <2>2. leg' \in [Legs -> Leg] /\ ParkingRecorded'
      BY <1>0, <1>30, <2>1, LegMoves DEF Inspect
    <2> QED BY <1>0, <1>30, <2>2 DEF Inspect, Typed, TypeOK
  <1>31. ASSUME Renew(l) PROVE Typed'
    BY <1>0, <1>31, LeaseRows DEF Renew, ParkingRecorded
  <1>32. ASSUME MarkLost(l) PROVE Typed'
    <2> HIDE DEF Typed, TypeOK
    <2>1. OnlyLeg(l) /\ leg'[l].pc = leg[l].pc /\ leg'[l].approval = leg[l].approval
      BY <1>0, <1>32, Loses DEF MarkLost
    <2>2. leg' \in [Legs -> Leg] /\ ParkingRecorded'
      BY <1>0, <1>32, <2>1, LegMoves DEF MarkLost
    <2> QED BY <1>0, <1>32, <2>2 DEF MarkLost, Typed, TypeOK
  <1>33. ASSUME RenewalErrs(l) PROVE Typed'
    <2>0. OnlyLeg(l) /\ leg'[l].pc = leg[l].pc /\ leg'[l].approval = leg[l].approval
      BY <1>0, <1>33, Loses DEF RenewalErrs
    <2>1. leg' \in [Legs -> Leg] /\ ParkingRecorded'
      BY <1>0, <1>33, <2>0, LegMoves DEF RenewalErrs
    <2>2. faults' \in [crashes : 0 .. MaxCrashes, stalls : 0 .. MaxStalls]
      BY <1>33, BoundsAssumption DEF RenewalErrs
    <2> QED BY <1>33, <2>1, <2>2 DEF RenewalErrs
  <1>34. ASSUME AcquireResume(l) PROVE Typed'
    BY <1>0, <1>34, Takes, BookRows DEF AcquireResume, ParkingRecorded
  <1>35. ASSUME GiveUp(l) PROVE Typed'
    BY <1>0, <1>35, RestsNow DEF GiveUp, ParkingRecorded
  <1> QED
    BY <1>1, <1>2, <1>3, <1>4, <1>5, <1>6, <1>7, <1>8, <1>9, <1>10, <1>11, <1>12, <1>13, <1>14,
       <1>15, <1>16, <1>17, <1>18, <1>19, <1>20, <1>21, <1>22, <1>23, <1>24, <1>25, <1>26, <1>27,
       <1>28, <1>29, <1>30, <1>31, <1>32, <1>33, <1>34, <1>35
       DEF Call, Finish, Recover, Heartbeat, Resume

\* Every step keeps the types.
LEMMA NextTyped == Typed /\ [Next]_vars => Typed'
  <1> SUFFICES ASSUME Typed, [Next]_vars PROVE Typed'
    OBVIOUS
  <1>0. /\ leg \in [Legs -> Leg] /\ lease \in LeaseRow /\ run \in Run /\ past \in Books
        /\ Live \in Legs /\ 1 \in Calls
        /\ \A m \in Legs : leg[m].pc = "parking" => leg[m].approval \in DOMAIN approvals
        /\ TypeOK /\ ParkingRecorded
    BY Fields DEF Typed, ParkingRecorded, Legs
  <1> USE DEF Typed, TypeOK, ParkingRecorded
  <1>1. CASE UNCHANGED vars
    BY <1>0, <1>1 DEF vars
  <1>2. CASE Start
    <2> USE DEF Stays, OnlyLeg, PCs, Statuses
    <2>1. ASSUME SaveExecution PROVE Typed'
      <3> HIDE DEF Typed, TypeOK, ParkingRecorded
      <3>1. OnlyLeg(Live) /\ leg'[Live].pc # "parking"
        BY <1>0, <2>1, GoesTo DEF SaveExecution
      <3>2. leg' \in [Legs -> Leg] /\ ParkingRecorded'
        BY <1>0, <2>1, <3>1, LegMoves DEF SaveExecution
      <3>3. run' \in Run
        BY <1>0, <2>1, RunRows DEF SaveExecution
      <3> QED BY <1>0, <2>1, <3>2, <3>3 DEF SaveExecution, Typed, TypeOK
    <2>2. ASSUME AcquireRunLease PROVE Typed'
      <3> HIDE DEF Typed, TypeOK, ParkingRecorded
      <3>1. OnlyLeg(Live) /\ leg'[Live].pc # "parking" /\ lease' \in LeaseRow
        BY <1>0, <2>2, Takes DEF AcquireRunLease
      <3>2. leg' \in [Legs -> Leg] /\ ParkingRecorded'
        BY <1>0, <2>2, <3>1, LegMoves DEF AcquireRunLease
      <3> QED BY <1>0, <2>2, <3>1, <3>2 DEF AcquireRunLease, Typed, TypeOK
    <2>3. ASSUME SaveRunJournal PROVE Typed'
      BY <1>0, <2>3, BeginsAt, RunRows, BookRows DEF SaveRunJournal
    <2>4. ASSUME StartFails PROVE Typed'
      BY <1>0, <2>4, EndsIn DEF StartFails
    <2> QED BY <1>2, <2>1, <2>2, <2>3, <2>4 DEF Start
  <1>3. ASSUME NEW l \in Legs,
               \/ Call(l) \/ Finish(l) \/ Recover(l) \/ Scan(l) \/ Inspect(l) \/ Heartbeat(l)
               \/ Resume(l)
        PROVE  Typed'
    BY <1>0, <1>3, LegTyped
  <1>4. ASSUME NEW i \in DOMAIN approvals, Deny(i) PROVE Typed'
    BY <1>0, <1>4, Decided, FailedRow DEF Deny
  <1>5. ASSUME NEW i \in DOMAIN approvals, NEW h \in Hosts, Approve(i, h) PROVE Typed'
    <2>1. /\ approvals' \in Seq(Approvals) /\ DOMAIN approvals' = DOMAIN approvals
          /\ Len(approvals') = Len(approvals)
      BY <1>0, <1>5, Decided DEF Approve
    <2>2. parked' \in [Hosts -> SUBSET (1 .. Len(approvals))]
      BY <1>0, <1>5 DEF Approve
    <2>3. \/ UNCHANGED leg
          \/ \E r \in Legs : OnlyLeg(r) /\ leg'[r].pc = "acquiring"
      <3> HIDE DEF Typed, ParkingRecorded
      <3>1. CASE UNCHANGED leg
        BY <3>1
      <3>2. ASSUME NEW r \in Resumes,
                   leg' = [leg EXCEPT ![r].pc = "acquiring", ![r].approval = i,
                                      ![r].step = approvals[i].step]
            PROVE  r \in Legs /\ OnlyLeg(r) /\ leg'[r].pc = "acquiring"
        <4>1. r \in Legs
          BY DEF Legs
        <4> QED BY <1>0, <3>2, <4>1, ResumeStarts
      <3> QED BY <1>5, <3>1, <3>2 DEF Approve
    <2>4. leg' \in [Legs -> Leg] /\ ParkingRecorded'
      BY <1>0, <2>1, <2>3 DEF OnlyLeg
    <2> QED BY <1>5, <2>1, <2>2, <2>4 DEF Approve
  <1>6. CASE Expire
    <2>1. lease' \in LeaseRow
      BY <1>0, <1>6 DEF Expire, LeaseRow
    <2>2. faults' \in [crashes : 0 .. MaxCrashes, stalls : 0 .. MaxStalls]
      BY <1>6, BoundsAssumption DEF Expire, Stall
    <2> QED BY <1>0, <1>6, <2>1, <2>2 DEF Expire
  <1>7. CASE RetentionSweep
    BY <1>0, <1>7, PrunedRow DEF RetentionSweep
  <1>8. ASSUME NEW h \in Hosts, Crash(h) PROVE Typed'
    <2>1. leg' \in [Legs -> Leg] /\ \A l \in Legs : leg'[l] = leg[l] \/ leg'[l] = Rested(l)
      BY <1>0, <1>8, RestIsLeg DEF Crash
    <2>2. faults' \in [crashes : 0 .. MaxCrashes, stalls : 0 .. MaxStalls]
      BY <1>8, BoundsAssumption DEF Crash
    <2>3. parked' \in [Hosts -> SUBSET (1 .. Len(approvals))]
      BY <1>8 DEF Crash
    <2> QED BY <1>0, <1>8, <2>1, <2>2, <2>3, RestIsLeg DEF Crash
  <1> QED BY <1>1, <1>2, <1>3, <1>4, <1>5, <1>6, <1>7, <1>8 DEF Next

\* The types and the parked records hold in every reachable state.
LEMMA TypedAlways == Spec => []Typed
  <1>1. Init => Typed
    <2> SUFFICES ASSUME Init PROVE Typed
      OBVIOUS
    <2>1. \A l \in Legs : Rest("off") \in Leg /\ Rest("off").pc = "off"
      BY PlanAssumption DEF Rest, Leg, PCs, Calls, Terminal
    <2>2. lease \in LeaseRow /\ run \in Run /\ past \in Books /\ keys \in [Calls -> Outcomes]
      BY PlanAssumption DEF Init, LeaseRow, Run, Books, Statuses, Outcomes
    <2>3. approvals = <<>> /\ approvals \in Seq(Approvals)
      BY DEF Init
    <2>4. parked \in [Hosts -> SUBSET (1 .. Len(approvals))]
      BY DEF Init
    <2>5. faults \in [crashes : 0 .. MaxCrashes, stalls : 0 .. MaxStalls]
      BY BoundsAssumption DEF Init
    <2> QED BY <2>1, <2>2, <2>3, <2>4, <2>5 DEF Init, Typed, TypeOK, ParkingRecorded
  <1> QED BY <1>1, NextTyped, PTL DEF Spec

\* The rows, the legs and the books keep their types, for every plan, any number of legs and
\* hosts, and any bounds on crashes and stalls.
THEOREM TypeCorrect == Spec => []TypeOK
  BY TypedAlways, PTL DEF Typed

----------------------------------------------------------------------------
(* Fences: who presents the current one. *)

\* The runs without a stall: every heartbeat renews in time.
NoStalls == faults.stalls = 0

\* A leg that is about to begin the terminal, which it confirmed its lease for.
Launching(l) == leg[l].pc = "enter" /\ leg[l].step = Terminal

\* The phases in which a leg has no fence.
Unleased == {"off", "spent", "saved", "seen", "acquiring"}

\* No leg presents a fence the row did not grant.
FencesGranted == \A l \in Legs : leg[l].fence <= lease.fence

\* No two legs present the same fence.
FencesUnique ==
    \A l, m \in Legs : leg[l].fence # 0 /\ leg[l].fence = leg[m].fence => l = m

\* A leg has a fence as long as it executes, and none before it acquires the lease.
FencesByPhase ==
    \A l \in Legs : /\ leg[l].pc \in Renewing => leg[l].fence # 0
                    /\ leg[l].pc \in Unleased => leg[l].fence = 0 /\ ~leg[l].lost

\* Unless a heartbeat stalls, a leg with a fence holds the lease and knows it.
LeaseKept ==
    NoStalls => \A l \in Legs : leg[l].fence # 0 => Current(l) /\ lease.live /\ ~leg[l].lost

\* The order of the fences.
Fenced == FencesGranted /\ FencesUnique /\ FencesByPhase /\ LeaseKept

\* What a step does about the lease: a leg goes on under the fence it has, ...
GoesOn(l) ==
    /\ OnlyLeg(l)
    /\ leg'[l].fence = leg[l].fence /\ leg'[l].lost = leg[l].lost
    /\ leg'[l].pc \in Renewing => leg[l].pc \in Renewing
    /\ leg'[l].pc \in Unleased => leg[l].pc \in Unleased
    /\ lease' = lease \/ (Holds(l) /\ lease' = [fence |-> lease.fence, live |-> TRUE])
    /\ faults' = faults

\* ... acquires the lease, ...
Acquires(l) ==
    /\ OnlyLeg(l)
    /\ leg[l].pc \in Unleased /\ leg'[l].pc \in Renewing /\ leg'[l].lost = leg[l].lost
    /\ ~lease.live /\ lease' = [fence |-> lease.fence + 1, live |-> TRUE]
    /\ leg'[l].fence = lease.fence + 1
    /\ faults' = faults

\* ... is over, ...
Rests(l) ==
    /\ OnlyLeg(l)
    /\ leg'[l].fence = 0 /\ leg'[l].lost = FALSE /\ leg'[l].pc \in Unleased
    /\ lease' = IF Holds(l) THEN [fence |-> lease.fence, live |-> FALSE] ELSE lease
    /\ faults' = faults

\* ... or learns that it lost the lease, ...
Learns(l) ==
    /\ OnlyLeg(l)
    /\ leg'[l].fence = leg[l].fence /\ leg'[l].pc = leg[l].pc /\ leg[l].pc \in Renewing
    /\ lease' = lease
    /\ \/ ~Current(l) /\ leg[l].fence # 0 /\ faults' = faults
       \/ faults'.stalls > 0

\* ... or the row runs out, which takes a stalled heartbeat if a leg holds it, ...
RunsOut ==
    /\ leg' = leg
    /\ lease.live /\ lease' = [fence |-> lease.fence, live |-> FALSE]
    /\ \/ (\A l \in Legs : ~Holds(l)) /\ faults' = faults
       \/ (\E l \in Legs : Holds(l) /\ ~Launching(l)) /\ faults'.stalls > 0

\* ... or the legs of a replica are gone.
Vanish ==
    /\ \A l \in Legs : leg'[l] = leg[l] \/ leg'[l] = Rested(l)
    /\ lease' = lease /\ faults'.stalls = faults.stalls

\* Every step is one of these.
LeaseStep ==
    \/ \E l \in Legs : GoesOn(l) \/ Acquires(l) \/ Rests(l) \/ Learns(l)
    \/ RunsOut \/ Vanish
    \/ leg' = leg /\ lease' = lease /\ faults' = faults

\* Every step is one of these.
LEMMA NextLeaseStep ==
    Typed /\ FencesByPhase /\ [Next]_vars => LeaseStep
  <1> SUFFICES ASSUME Typed, FencesByPhase, [Next]_vars PROVE LeaseStep
    OBVIOUS
  <1>0. /\ TypeOK /\ leg \in [Legs -> Leg] /\ lease \in LeaseRow
        /\ lease.fence \in Nat /\ lease.live \in BOOLEAN
        /\ \A l \in Legs : leg[l].pc \in PCs /\ leg[l].step \in Calls /\ leg[l] \in Leg
        /\ run.ckpt + 1 \in Calls /\ Terminal = Len(Plan) + 1 /\ Calls = 1 .. Len(Plan) + 1
        /\ Len(Plan) \in Nat /\ faults.stalls \in Nat
        /\ Live \in Legs /\ 1 \in Calls
        /\ \A m \in Resumes : m \in Legs
    BY Fields DEF Typed, TypeOK, Legs
  <1> USE DEF LeaseStep, Stays, PCs, Renewing, Executing, InCall, Unleased
  <1>1. ASSUME NEW l \in Legs,
               ReadOnlyCall(l) \/ ReserveIdempotency(l) \/ SkipDuplicate(l) \/ BeginToolIntent(l)
        PROVE  LeaseStep
    BY <1>0, <1>1, GoesTo DEF ReadOnlyCall, ReserveIdempotency, SkipDuplicate, BeginToolIntent,
       GoesOn
  <1>2. ASSUME NEW l \in Legs,
               Effect(l) \/ CompleteToolIntent(l) \/ SettleIdempotency(l) \/ Park(l)
        PROVE  LeaseStep
    BY <1>0, <1>2, GoesTo DEF Effect, CompleteToolIntent, SettleIdempotency, Park, GoesOn
  <1>3. ASSUME NEW l \in Legs, Checkpoint(l) PROVE LeaseStep
    BY <1>0, <1>3, BeginsAt DEF Checkpoint, GoesOn
  <1>4. ASSUME NEW l \in Legs, CallFails(l) \/ ConfirmFails(l) \/ ProofFails(l)
        PROVE  LeaseStep
    BY <1>0, <1>4, EndsIn DEF CallFails, ConfirmFails, ProofFails, GoesOn
  <1>5. ASSUME NEW l \in Legs, Suspend(l) PROVE LeaseStep
    BY <1>0, <1>5, Suspends DEF Suspend, GoesOn
  <1>6. ASSUME NEW l \in Legs,
               SettleTrigger(l) \/ ResolveTrigger(l) \/ SaveOutcome(l) \/ PruneRunJournal(l)
        PROVE  LeaseStep
    BY <1>0, <1>6, GoesTo DEF SettleTrigger, ResolveTrigger, SaveOutcome, PruneRunJournal, GoesOn
  <1>7. ASSUME NEW l \in Legs, Confirm(l) PROVE LeaseStep
    <2>1. Holds(l)
      BY <1>7 DEF Confirm, FencesByPhase, Holds
    <2>2. GoesOn(l)
      BY <1>0, <1>7, <2>1, GoesTo, LeaseRows DEF Confirm, GoesOn
    <2> QED BY <2>2
  <1>8. ASSUME NEW l \in Legs, StopAndConfirm(l) PROVE LeaseStep
    <2>1. Holds(l)
      BY <1>8 DEF StopAndConfirm, FencesByPhase, Holds
    <2>2. GoesOn(l)
      BY <1>0, <1>8, <2>1, EndsIn, LeaseRows DEF StopAndConfirm, GoesOn
    <2> QED BY <2>2
  <1>9. ASSUME NEW l \in Legs, Release(l) PROVE LeaseStep
    <2>1. Rests(l)
      BY <1>0, <1>9, RestsNow, LeaseRows DEF Release, Rests
    <2> QED BY <2>1 DEF LeaseStep
  <1>10. ASSUME NEW l \in Legs, Claim(l) PROVE LeaseStep
    BY <1>0, <1>10, Takes DEF Claim, Acquires
  <1>11. ASSUME NEW l \in Legs, AcquireResume(l) PROVE LeaseStep
    BY <1>0, <1>11, Takes DEF AcquireResume, Acquires
  <1>12. ASSUME NEW l \in Legs, RunActive(l) \/ GiveUp(l)
        PROVE  LeaseStep
    <2>1. Rests(l)
      BY <1>0, <1>12, RestsNow DEF RunActive, GiveUp, Rests, FencesByPhase, Holds
    <2> QED BY <2>1 DEF LeaseStep
  <1>13. ASSUME NEW l \in Legs,
                RecheckApprovals(l) \/ LeaveClaim(l) \/ Abandon(l) \/ FailLoudly(l)
        PROVE  LeaseStep
    BY <1>0, <1>13, GoesTo DEF RecheckApprovals, LeaveClaim, Abandon, FailLoudly, GoesOn
  <1>14. ASSUME NEW l \in Legs, Replay(l) PROVE LeaseStep
    BY <1>0, <1>14, ReplaysAt DEF Replay, GoesOn
  <1>15. ASSUME NEW l \in Legs, ForcedReplay(l) PROVE LeaseStep
    BY <1>0, <1>15, ReplaysAt DEF ForcedReplay, GoesOn
  <1>16. ASSUME NEW l \in Legs, Scan(l) \/ Inspect(l)
        PROVE  LeaseStep
    BY <1>0, <1>16, GoesTo DEF Scan, Inspect, GoesOn
  <1>17. ASSUME NEW l \in Legs, Renew(l) PROVE LeaseStep
    <2>1. GoesOn(l)
      BY <1>0, <1>17, LeaseRows DEF Renew, OnlyLeg, GoesOn
    <2> QED BY <2>1 DEF LeaseStep
  <1>18. ASSUME NEW l \in Legs, MarkLost(l) PROVE LeaseStep
    <2>1. Learns(l)
      BY <1>0, <1>18, Loses DEF MarkLost, FencesByPhase, Learns
    <2> QED BY <2>1 DEF LeaseStep
  <1>19. ASSUME NEW l \in Legs, RenewalErrs(l) PROVE LeaseStep
    <2>0. faults'.stalls > 0
      BY <1>0, <1>19 DEF RenewalErrs, TypeOK
    <2>1. Learns(l)
      BY <1>0, <1>19, <2>0, Loses DEF RenewalErrs, Learns
    <2> QED BY <2>1 DEF LeaseStep
  <1>31. CASE UNCHANGED vars
    BY <1>0, <1>31 DEF vars
  <1>32. CASE SaveExecution \/ StartFails
    BY <1>0, <1>32, GoesTo, EndsIn DEF SaveExecution, StartFails, GoesOn
  <1>33. CASE AcquireRunLease
    BY <1>0, <1>33, Takes DEF AcquireRunLease, Acquires
  <1>34. CASE SaveRunJournal
    BY <1>0, <1>34, BeginsAt DEF SaveRunJournal, GoesOn
  <1>35. ASSUME NEW i \in DOMAIN approvals, NEW h \in Hosts, Approve(i, h) PROVE LeaseStep
    <2>1. CASE leg' = leg
      BY <1>35, <2>1 DEF Approve
    <2>2. CASE leg' # leg
      <3>1. PICK r \in Resumes :
               /\ leg[r].pc = "off"
               /\ leg' = [leg EXCEPT ![r].pc = "acquiring", ![r].approval = i,
                                     ![r].step = approvals[i].step]
        BY <1>35, <2>2 DEF Approve
      <3>2. GoesOn(r)
        <4>1. r \in Legs /\ lease' = lease
          BY <1>0, <1>35 DEF Approve
        <4>2. /\ OnlyLeg(r) /\ leg'[r].pc = "acquiring"
              /\ leg'[r].fence = leg[r].fence /\ leg'[r].lost = leg[r].lost
          BY <1>0, <3>1, <4>1, ResumeStarts
        <4> QED BY <1>0, <1>35, <3>1, <4>1, <4>2 DEF GoesOn, Approve
      <3> QED BY <1>0, <3>2
    <2> QED BY <2>1, <2>2
  <1>36. ASSUME NEW i \in DOMAIN approvals, Deny(i) PROVE LeaseStep
    BY <1>0, <1>36 DEF Deny
  <1>37. CASE Expire
    <2>1. lease.live /\ lease' = [fence |-> lease.fence, live |-> FALSE] /\ leg' = leg
      BY <1>0, <1>37 DEF Expire, LeaseRow
    <2>2. \/ (\A l \in Legs : ~Holds(l)) /\ faults' = faults
          \/ (\E l \in Legs : Holds(l) /\ ~Launching(l)) /\ faults'.stalls > 0
      <3>1. CASE \E l \in Legs : Stall(l)
        <4>1. /\ faults' = [faults EXCEPT !.stalls = @ + 1]
              /\ \E l \in Legs : Holds(l) /\ ~Launching(l)
          BY <3>1 DEF Stall, Launching
        <4>2. faults'.stalls > 0
          BY <1>0, <4>1 DEF TypeOK
        <4> QED BY <4>1, <4>2
      <3>2. CASE ~\E l \in Legs : Stall(l)
        BY <1>37, <3>2 DEF Expire
      <3> QED BY <3>1, <3>2
    <2> QED BY <2>1, <2>2 DEF RunsOut
  <1>38. CASE RetentionSweep
    BY <1>0, <1>38 DEF RetentionSweep
  <1>39. ASSUME NEW h \in Hosts, Crash(h) PROVE LeaseStep
    BY <1>0, <1>39 DEF Crash, Vanish
  <1> QED BY <1>1, <1>2, <1>3, <1>4, <1>5, <1>6, <1>7, <1>8, <1>9, <1>10, <1>11, <1>12, <1>13,
     <1>14, <1>15, <1>16, <1>17, <1>18, <1>19, <1>31, <1>32, <1>33, <1>34, <1>35, <1>36, <1>37,
     <1>38, <1>39 DEF Next, Start, Call, Finish, Recover, Heartbeat, Resume

\* Every step keeps the order of the fences.
LEMMA NextFenced == Typed /\ Fenced /\ [Next]_vars => Fenced'
  <1> SUFFICES ASSUME Typed, Fenced, [Next]_vars PROVE Fenced'
    OBVIOUS
  <1>0. /\ lease.fence \in Nat
        /\ \A l \in Legs : leg[l].fence \in Nat
        /\ faults.stalls \in Nat
    BY Fields DEF Typed, TypeOK
  <1>1. LeaseStep
    BY NextLeaseStep DEF Fenced
  <1> USE DEF Fenced, FencesGranted, FencesUnique, FencesByPhase, LeaseKept, NoStalls, OnlyLeg,
              Current, Holds
  <1>2. ASSUME NEW l \in Legs, GoesOn(l) PROVE Fenced'
    BY <1>0, <1>2 DEF GoesOn
  <1>3. ASSUME NEW l \in Legs, Acquires(l) PROVE Fenced'
    <2>1. \A m \in Legs : m # l => leg[m].fence <= lease.fence /\ leg'[m] = leg[m]
      BY <1>3 DEF Acquires
    <2>2. NoStalls => \A m \in Legs : leg[m].fence = 0
      BY <1>3 DEF Acquires
    <2>3. leg'[l].pc \notin Unleased /\ ~leg[l].lost
      BY <1>3 DEF Acquires, Unleased, Renewing, Executing, InCall
    <2> QED BY <1>0, <1>3, <2>1, <2>2, <2>3 DEF Acquires
  <1>4. ASSUME NEW l \in Legs, Rests(l) PROVE Fenced'
    BY <1>0, <1>4 DEF Rests, Unleased, Renewing, Executing, InCall
  <1>5. ASSUME NEW l \in Legs, Learns(l) PROVE Fenced'
    BY <1>0, <1>5 DEF Learns, Unleased, Renewing, Executing, InCall
  <1>6. CASE RunsOut
    BY <1>0, <1>6 DEF RunsOut
  <1>7. CASE Vanish
    <2>1. \A l \in Legs : leg'[l] = leg[l] \/ ( /\ leg'[l].fence = 0 /\ ~leg'[l].lost
                                                /\ leg'[l].pc \notin Renewing)
      BY <1>7, RestIsLeg DEF Vanish, Renewing, Executing, InCall
    <2> QED BY <1>0, <1>7, <2>1 DEF Vanish
  <1>8. CASE leg' = leg /\ lease' = lease /\ faults' = faults
    BY <1>0, <1>8
  <1> QED BY <1>1, <1>2, <1>3, <1>4, <1>5, <1>6, <1>7, <1>8 DEF LeaseStep

\* The order of the fences holds in every reachable state.
LEMMA FencedAlways == Spec => [](Typed /\ Fenced)
  <1>1. Init => Fenced
    BY DEF Init, Fenced, FencesGranted, FencesUnique, FencesByPhase, LeaseKept, Rest, Renewing,
           Executing, InCall
  <1>2. Typed /\ Fenced /\ [Next]_vars => Typed' /\ Fenced'
    BY NextTyped, NextFenced
  <1> QED BY <1>1, <1>2, TypedAlways, PTL DEF Spec

\* As long as no heartbeat stalls, the lease makes the legs take turns: whatever crashes, is
\* approved, scanned or forced by an operator, no two of them execute the plan at once.
THEOREM OneExecutor == Spec => [](faults.stalls = 0 => SoleExecutor)
  <1>1. Typed /\ Fenced => (faults.stalls = 0 => SoleExecutor)
    <2> SUFFICES ASSUME Typed, Fenced, faults.stalls = 0 PROVE SoleExecutor
      OBVIOUS
    <2>1. \A l \in Legs :
             leg[l].pc \in Executing => leg[l].fence # 0 /\ leg[l].fence = lease.fence
      BY DEF Fenced, FencesByPhase, LeaseKept, NoStalls, Renewing, Current
    <2> QED BY <2>1 DEF Fenced, FencesUnique, SoleExecutor
  <1> QED BY <1>1, FencedAlways, PTL

----------------------------------------------------------------------------
(* The lease of the run, seen from outside. *)

\* The row of the run and the fences of its legs behave like the abstract lease: whatever a leg
\* does, only the one that presents the current fence extends the row or ends it, and whoever
\* acquires it gets the next fence.
THEOREM RunImplementsLease == Spec => ImplementsFencedLease
  <1> DEFINE token == [l \in Legs |-> leg[l].fence]
             Hidden == UNCHANGED Abstract!leaseVars
  <1>1. Init => Abstract!LeaseInit
    BY DEF Init, Abstract!LeaseInit, Abstract!Unheld, Rest
  <1>2. Typed /\ Typed' /\ Fenced /\ [Next]_vars => [Abstract!LeaseNext]_(Abstract!leaseVars)
    <2> SUFFICES ASSUME Typed, Typed', Fenced, [Next]_vars
                 PROVE  Abstract!LeaseNext \/ Hidden
      BY DEF Abstract!leaseVars
    <2>0. /\ \A l \in Legs : token[l] = leg[l].fence
          /\ \A l \in Legs : leg[l].pc \in Unleased => leg[l].fence = 0
      BY DEF Fenced, FencesByPhase
    <2>1. LeaseStep
      BY NextLeaseStep DEF Fenced
    <2>2. ASSUME NEW l \in Legs, OnlyLeg(l), leg'[l].fence = leg[l].fence PROVE token' = token
      BY <2>2 DEF OnlyLeg
    <2>3. ASSUME NEW l \in Legs, OnlyLeg(l), NEW f, leg'[l].fence = f
          PROVE  token' = [token EXCEPT ![l] = f]
      BY <2>3 DEF OnlyLeg
    <2>4. ASSUME NEW l \in Legs, GoesOn(l) PROVE Abstract!LeaseNext \/ Hidden
      <3>1. token' = token
        BY <2>2, <2>4 DEF GoesOn
      <3>2. CASE lease' = lease
        BY <3>1, <3>2 DEF Abstract!leaseVars
      <3>3. CASE Holds(l) /\ lease' = [fence |-> lease.fence, live |-> TRUE]
        <4>1. Abstract!RenewLease(l)
          BY <2>0, <3>1, <3>3 DEF Holds, Current, Abstract!RenewLease, Abstract!Extended
        <4> QED BY <4>1 DEF Abstract!LeaseNext
      <3> QED BY <2>4, <3>2, <3>3 DEF GoesOn
    <2>5. ASSUME NEW l \in Legs, Acquires(l) PROVE Abstract!AcquireLease(l)
      BY <2>3, <2>5 DEF Acquires, Abstract!AcquireLease, Abstract!Granted
    <2>6. ASSUME NEW l \in Legs, Rests(l) PROVE Abstract!ReleaseLease(l) \/ Hidden
      <3>1. token' = [token EXCEPT ![l] = 0]
        BY <2>3, <2>6 DEF Rests
      <3>2. CASE leg[l].fence = 0
        <4>1. token' = token
          BY <2>2, <2>6, <3>2 DEF Rests
        <4> QED BY <2>6, <3>2, <4>1 DEF Rests, Holds, Abstract!leaseVars
      <3>3. CASE leg[l].fence # 0
        BY <2>0, <2>6, <3>1, <3>3 DEF Rests, Holds, Current, Abstract!ReleaseLease,
           Abstract!ReleasedBy, Abstract!Ended
      <3> QED BY <3>2, <3>3
    <2>7. ASSUME NEW l \in Legs, Learns(l) PROVE Hidden
      BY <2>2, <2>7 DEF Learns, Abstract!leaseVars
    <2>8. CASE RunsOut
      <3>1. Abstract!ExpireLease
        BY <2>8 DEF RunsOut, Abstract!ExpireLease, Abstract!Ended
      <3> QED BY <3>1 DEF Abstract!LeaseNext
    <2>9. CASE Vanish
      <3>1. PICK gone \in SUBSET Legs :
               \A l \in Legs : leg'[l].fence = IF l \in gone THEN 0 ELSE leg[l].fence
        <4> DEFINE silent == {l \in Legs : leg'[l].fence = 0}
        <4>1. \A l \in Legs : leg'[l].fence = IF l \in silent THEN 0 ELSE leg[l].fence
          BY <2>9, RestIsLeg DEF Vanish
        <4>2. silent \in SUBSET Legs
          OBVIOUS
        <4> HIDE DEF silent
        <4> QED BY <4>1, <4>2
      <3>2. token' = [l \in Legs |-> IF l \in gone THEN 0 ELSE token[l]]
        BY <2>0, <3>1
      <3>3. Abstract!ForgetLease(gone)
        BY <2>9, <3>2 DEF Vanish, Abstract!ForgetLease
      <3> QED BY <3>3 DEF Abstract!LeaseNext
    <2>10. CASE leg' = leg /\ lease' = lease /\ faults' = faults
      BY <2>10 DEF Abstract!leaseVars
    <2> QED BY <2>1, <2>4, <2>5, <2>6, <2>7, <2>8, <2>9, <2>10 DEF LeaseStep, Abstract!LeaseNext
  <1>3. Typed /\ Fenced /\ [Next]_vars => Typed'
    BY NextTyped
  <1> QED BY <1>1, <1>2, <1>3, FencedAlways, PTL
             DEF Spec, ImplementsFencedLease, Abstract!LeaseSpec

----------------------------------------------------------------------------
(* The beginning of the run, and its journal. *)

\* Before there was a journal nothing happened, and nobody but the live run was there.
Untouched ==
    /\ ~run.journal /\ run.ckpt = 0 /\ run.intents = {}
    /\ approvals = <<>>
    /\ \A k \in Calls : past.effects[k] = 0
    /\ ~past.acked
    /\ \A l \in Legs :
          leg[l].pc = "off" \/ (l = Live /\ leg[l].pc \in {"saved", "journaling"} \cup Finishing)

\* A leg begins the run once, and ends without a fence only when it never began.
Beginning ==
    /\ run.status = "none" => ~past.journaled /\ leg[Live].pc = "off"
    /\ \A l \in Legs : leg[l].pc \in {"saved", "journaling"} => l = Live /\ ~past.journaled
    /\ \A l \in Legs : leg[l].pc \in Finishing /\ leg[l].fence = 0 => ~past.journaled
    /\ ~past.journaled => Untouched

\* Once there was a journal no leg begins the run, ...
Continues(l) ==
    /\ OnlyLeg(l)
    /\ past.journaled /\ past'.journaled
    /\ run'.status # "none"
    /\ leg'[l].pc \notin {"saved", "journaling"}
    /\ leg'[l].pc \in Finishing => leg'[l].fence # 0

\* The steps of a leg that needs a journal are taken when there was one.
LEMMA LegContinues ==
    ASSUME Typed, Fenced, Beginning, NEW l \in Legs,
           \/ Call(l) \/ Confirm(l) \/ ConfirmFails(l) \/ SettleTrigger(l) \/ StopAndConfirm(l)
           \/ ProofFails(l) \/ Recover(l) \/ Scan(l) \/ Inspect(l) \/ Resume(l)
    PROVE  Continues(l)
  <1>0. /\ TypeOK /\ leg \in [Legs -> Leg] /\ lease \in LeaseRow /\ run \in Run /\ past \in Books
        /\ leg[l].pc \in PCs /\ leg[l].step \in Calls /\ leg[l] \in Leg
        /\ run.ckpt + 1 \in Calls /\ Terminal = Len(Plan) + 1 /\ Calls = 1 .. Len(Plan) + 1
        /\ Len(Plan) \in Nat /\ run.ckpt \in 0 .. Len(Plan)
        /\ leg[l].pc \in Renewing => leg[l].fence # 0
    BY Fields DEF Typed, Fenced, FencesByPhase
  <1>a. past.journaled
    <2> SUFFICES ASSUME ~past.journaled PROVE FALSE
      OBVIOUS
    <2>1. Untouched
      BY DEF Beginning
    <2>2. leg[l].pc = "off" \/ (l = Live /\ leg[l].pc \in {"saved", "journaling"} \cup Finishing)
      BY <2>1 DEF Untouched
    <2> QED BY <2>1, <2>2
               DEF Untouched, Finishing, InCall, Call, Recover, Resume, ReadOnlyCall,
                   ReserveIdempotency, SkipDuplicate, BeginToolIntent, Effect, CompleteToolIntent,
                   SettleIdempotency, Checkpoint, CallFails, Suspend, Park, Confirm, ConfirmFails,
                   SettleTrigger, StopAndConfirm, ProofFails, Claim, RunActive, RecheckApprovals,
                   LeaveClaim, Abandon, FailLoudly, Replay, ForcedReplay, Scan, Inspect,
                   AcquireResume, GiveUp
  <1>b. run.status # "none" /\ leg[l].pc \notin {"saved", "journaling"}
    BY <1>a DEF Beginning
  <1> USE DEF Continues, Stays, PCs, Renewing, Executing, InCall, Finishing
  <1>1. ASSUME ReadOnlyCall(l) PROVE Continues(l)
    BY <1>0, <1>a, <1>b, <1>1, GoesTo DEF ReadOnlyCall
  <1>2. ASSUME ReserveIdempotency(l) PROVE Continues(l)
    BY <1>0, <1>a, <1>b, <1>2, GoesTo DEF ReserveIdempotency
  <1>3. ASSUME SkipDuplicate(l) PROVE Continues(l)
    BY <1>0, <1>a, <1>b, <1>3, GoesTo DEF SkipDuplicate
  <1>4. ASSUME BeginToolIntent(l) PROVE Continues(l)
    BY <1>0, <1>a, <1>b, <1>4, GoesTo, IntentRows DEF BeginToolIntent
  <1>5. ASSUME Effect(l) PROVE Continues(l)
    BY <1>0, <1>a, <1>b, <1>5, GoesTo, CountedBooks DEF Effect
  <1>6. ASSUME CompleteToolIntent(l) PROVE Continues(l)
    BY <1>0, <1>a, <1>b, <1>6, GoesTo, IntentRows DEF CompleteToolIntent
  <1>7. ASSUME SettleIdempotency(l) PROVE Continues(l)
    BY <1>0, <1>a, <1>b, <1>7, GoesTo DEF SettleIdempotency
  <1>8. ASSUME Checkpoint(l) PROVE Continues(l)
    BY <1>0, <1>a, <1>b, <1>8, BeginsAt, CheckpointRow DEF Checkpoint
  <1>9. ASSUME CallFails(l) PROVE Continues(l)
    BY <1>0, <1>a, <1>b, <1>9, EndsIn DEF CallFails
  <1>10. ASSUME Suspend(l) PROVE Continues(l)
    BY <1>0, <1>a, <1>b, <1>10, Suspends DEF Suspend
  <1>11. ASSUME Park(l) PROVE Continues(l)
    BY <1>0, <1>a, <1>b, <1>11, GoesTo DEF Park
  <1>12. ASSUME Confirm(l) PROVE Continues(l)
    BY <1>0, <1>a, <1>b, <1>12, GoesTo DEF Confirm
  <1>13. ASSUME ConfirmFails(l) PROVE Continues(l)
    BY <1>0, <1>a, <1>b, <1>13, EndsIn DEF ConfirmFails
  <1>14. ASSUME SettleTrigger(l) PROVE Continues(l)
    BY <1>0, <1>a, <1>b, <1>14, GoesTo, ResolvedRow, MarkedBooks DEF SettleTrigger, Outcomes
  <1>15. ASSUME StopAndConfirm(l) PROVE Continues(l)
    BY <1>0, <1>a, <1>b, <1>15, EndsIn DEF StopAndConfirm
  <1>16. ASSUME ProofFails(l) PROVE Continues(l)
    BY <1>0, <1>a, <1>b, <1>16, EndsIn DEF ProofFails
  <1>17. ASSUME Claim(l) PROVE Continues(l)
    BY <1>0, <1>a, <1>b, <1>17, Takes DEF Claim
  <1>18. ASSUME RunActive(l) PROVE Continues(l)
    BY <1>0, <1>a, <1>b, <1>18, RestsNow DEF RunActive
  <1>19. ASSUME RecheckApprovals(l) PROVE Continues(l)
    BY <1>0, <1>a, <1>b, <1>19, GoesTo DEF RecheckApprovals
  <1>20. ASSUME LeaveClaim(l) PROVE Continues(l)
    BY <1>0, <1>a, <1>b, <1>20, GoesTo DEF LeaveClaim
  <1>21. ASSUME Abandon(l) PROVE Continues(l)
    BY <1>0, <1>a, <1>b, <1>21, GoesTo, FailedRow, PrunedRow DEF Abandon
  <1>22. ASSUME FailLoudly(l) PROVE Continues(l)
    BY <1>0, <1>a, <1>b, <1>22, GoesTo, FailedRow DEF FailLoudly
  <1>23. ASSUME Replay(l) PROVE Continues(l)
    BY <1>0, <1>a, <1>b, <1>23, ReplaysAt, ExcusedBooks DEF Replay
  <1>24. ASSUME ForcedReplay(l) PROVE Continues(l)
    BY <1>0, <1>a, <1>b, <1>24, ReplaysAt, StatusRow, ExcusedBooks DEF ForcedReplay, Statuses
  <1>25. ASSUME Scan(l) PROVE Continues(l)
    BY <1>0, <1>a, <1>b, <1>25, GoesTo DEF Scan
  <1>26. ASSUME Inspect(l) PROVE Continues(l)
    BY <1>0, <1>a, <1>b, <1>26, GoesTo DEF Inspect
  <1>27. ASSUME AcquireResume(l) PROVE Continues(l)
    BY <1>0, <1>a, <1>b, <1>27, Takes, ExcusedBooks DEF AcquireResume
  <1>28. ASSUME GiveUp(l) PROVE Continues(l)
    BY <1>0, <1>a, <1>b, <1>28, RestsNow DEF GiveUp
  <1> QED BY <1>1, <1>2, <1>3, <1>4, <1>5, <1>6, <1>7, <1>8, <1>9, <1>10, <1>11, <1>12, <1>13,
     <1>14, <1>15, <1>16, <1>17, <1>18, <1>19, <1>20, <1>21, <1>22, <1>23, <1>24, <1>25, <1>26,
     <1>27, <1>28 DEF Call, Recover, Resume

\* Every step keeps the beginning in order.
LEMMA NextBeginning == Typed /\ Fenced /\ Beginning /\ [Next]_vars => Beginning'
  <1> SUFFICES ASSUME Typed, Fenced, Beginning, [Next]_vars PROVE Beginning'
    OBVIOUS
  <1>0. /\ TypeOK /\ leg \in [Legs -> Leg] /\ lease \in LeaseRow /\ run \in Run /\ past \in Books
        /\ \A l \in Legs : leg[l].pc \in PCs /\ leg[l] \in Leg
        /\ run.status \in Statuses /\ Live \in Legs /\ 1 \in Calls
        /\ Len(Plan) \in Nat /\ Terminal = Len(Plan) + 1 /\ Calls = 1 .. Len(Plan) + 1
        /\ \A l \in Legs : leg[l].pc \in Unleased => leg[l].fence = 0
        /\ \A l \in Legs : leg[l].pc \in Renewing => leg[l].fence # 0
        /\ \A r \in Resumes : r # Live
        /\ \A i \in DOMAIN approvals : past.journaled
    <2>1. \A i \in DOMAIN approvals : past.journaled
      BY DEF Beginning, Untouched
    <2> QED BY <2>1, Fields, LegsAssumption DEF Typed, Fenced, FencesByPhase, Legs
  <1> USE DEF Beginning, Untouched
  <1>1. ASSUME NEW l \in Legs, Continues(l) PROVE Beginning'
    BY <1>0, <1>1 DEF Continues, OnlyLeg
  <1>2. CASE SaveExecution
    BY <1>0, <1>2, GoesTo, StatusRow DEF SaveExecution, Stays, OnlyLeg, PCs, Statuses, Finishing
  <1>3. CASE AcquireRunLease
    <2>1. OnlyLeg(Live) /\ leg'[Live].pc = "journaling"
      BY <1>0, <1>3, Takes DEF AcquireRunLease, PCs
    <2>2. ~past.journaled /\ UNCHANGED <<run, past, approvals>>
      BY <1>0, <1>3 DEF AcquireRunLease
    <2>3. \A l \in Legs : l # Live => leg'[l] = leg[l]
      BY <2>1 DEF OnlyLeg
    <2> QED BY <1>0, <1>3, <2>1, <2>2, <2>3 DEF AcquireRunLease, Finishing
  <1>4. CASE SaveRunJournal
    <2>1. OnlyLeg(Live) /\ leg'[Live].pc \in {"enter", "confirm"} /\ run.status # "none"
      BY <1>0, <1>4, BeginsAt DEF SaveRunJournal, Stays
    <2>2. run'.status = run.status /\ past'.journaled
      BY <1>0, <1>4, JournalRow, MarkedBooks DEF SaveRunJournal
    <2>3. \A l \in Legs : l # Live => leg'[l].pc = "off"
      BY <1>0, <1>4, <2>1 DEF SaveRunJournal, OnlyLeg
    <2> QED BY <2>1, <2>2, <2>3 DEF Finishing
  <1>5. CASE StartFails
    BY <1>0, <1>5, EndsIn DEF StartFails, Stays, OnlyLeg, Finishing
  <1>6. ASSUME NEW l \in Legs, ResolveTrigger(l) PROVE Beginning'
    <2>1. /\ Stays(l) /\ leg[l].pc \in Finishing /\ leg'[l].pc \in Finishing
      BY <1>0, <1>6, GoesTo DEF ResolveTrigger, Finishing, PCs
    <2>2. /\ run'.status = run.status /\ run'.journal = run.journal
          /\ run'.ckpt = run.ckpt /\ run'.intents = run.intents
      BY <1>0, <1>6, ResolvedRow DEF ResolveTrigger, TriggerOutcome, Outcomes
    <2> QED BY <1>0, <1>6, <2>1, <2>2 DEF ResolveTrigger, Stays, OnlyLeg, Finishing
  <1>7. ASSUME NEW l \in Legs, SaveOutcome(l) PROVE Beginning'
    <2>1. /\ Stays(l) /\ leg[l].pc \in Finishing /\ leg'[l].pc \in Finishing
      BY <1>0, <1>7, GoesTo DEF SaveOutcome, Finishing, PCs
    <2>2. /\ run'.status # "none" /\ run'.journal = run.journal
          /\ run'.ckpt = run.ckpt /\ run'.intents = run.intents
      BY <1>0, <1>7, StatusRow DEF SaveOutcome, Statuses
    <2> QED BY <1>0, <1>7, <2>1, <2>2 DEF SaveOutcome, Stays, OnlyLeg, Finishing
  <1>8. ASSUME NEW l \in Legs, PruneRunJournal(l) PROVE Beginning'
    <2>1. /\ Stays(l) /\ leg[l].pc \in Finishing /\ leg'[l].pc \in Finishing
      BY <1>0, <1>8, GoesTo DEF PruneRunJournal, Finishing, PCs
    <2>2. /\ run'.status = run.status
          /\ ~run.journal => run' = run
      BY <1>0, <1>8, PrunedRow DEF PruneRunJournal, Prunable
    <2>3. ~run.journal \/ past.journaled
      OBVIOUS
    <2> QED BY <1>0, <1>8, <2>1, <2>2, <2>3 DEF PruneRunJournal, Stays, OnlyLeg, Finishing
  <1>9. ASSUME NEW l \in Legs, Release(l) PROVE Beginning'
    <2>1. /\ OnlyLeg(l) /\ leg'[l].pc \in {"off", "spent"} /\ (leg'[l].pc = "spent" => l # Live)
      BY <1>0, <1>9, RestsNow, LegsAssumption DEF Release, Recoverers
    <2>2. /\ run'.status = "none" => run.status = "none"
          /\ run'.journal = run.journal
          /\ run'.ckpt = run.ckpt /\ run'.intents = run.intents
      BY <1>0, <1>9, FailedRow DEF Release
    <2>3. ~past.journaled => l = Live /\ leg'[l].pc = "off"
      BY <1>0, <1>9, <2>1 DEF Release
    <2> QED BY <1>0, <1>9, <2>1, <2>2, <2>3 DEF Release, OnlyLeg, Finishing
  <1>10. ASSUME NEW l \in Legs, Renew(l) PROVE Beginning'
    BY <1>0, <1>10 DEF Renew
  <1>11. ASSUME NEW l \in Legs, MarkLost(l) \/ RenewalErrs(l) PROVE Beginning'
    <2>1. Stays(l) /\ leg'[l].pc = leg[l].pc
      BY <1>0, <1>11, Loses DEF MarkLost, RenewalErrs
    <2>2. UNCHANGED <<run, past, approvals>>
      BY <1>11 DEF MarkLost, RenewalErrs
    <2> QED BY <1>0, <2>1, <2>2 DEF Stays, OnlyLeg
  <1>12. CASE UNCHANGED vars
    BY <1>12 DEF vars
  <1>13. ASSUME NEW i \in DOMAIN approvals, NEW h \in Hosts, Approve(i, h) PROVE Beginning'
    <2>1. CASE leg' = leg
      BY <1>0, <1>13, <2>1 DEF Approve
    <2>2. CASE leg' # leg
      <3>1. PICK r \in Resumes :
               /\ leg[r].pc = "off"
               /\ leg' = [leg EXCEPT ![r].pc = "acquiring", ![r].approval = i,
                                     ![r].step = approvals[i].step]
        BY <1>13, <2>2 DEF Approve
      <3>2. OnlyLeg(r) /\ leg'[r].pc = "acquiring" /\ r # Live /\ r \in Legs
        BY <1>0, <1>13, <3>1, ResumeStarts DEF Legs
      <3>3. past.journaled /\ past' = past /\ run' = run
        BY <1>0, <1>13 DEF Approve
      <3> QED BY <1>0, <3>2, <3>3 DEF OnlyLeg, Finishing
    <2> QED BY <2>1, <2>2
  <1>14. ASSUME NEW i \in DOMAIN approvals, Deny(i) PROVE Beginning'
    BY <1>0, <1>14, FailedRow DEF Deny
  <1>15. CASE Expire
    BY <1>0, <1>15 DEF Expire
  <1>16. CASE RetentionSweep
    <2>1. run.journal /\ run'.status = run.status
      BY <1>0, <1>16, PrunedRow DEF RetentionSweep, Prunable
    <2> QED BY <1>0, <1>16, <2>1 DEF RetentionSweep
  <1>17. ASSUME NEW h \in Hosts, Crash(h) PROVE Beginning'
    <2>1. \A l \in Legs : leg'[l] = leg[l] \/ ( /\ leg'[l].pc \in {"off", "spent"}
                                                /\ leg[l].pc # "off"
                                                /\ leg'[l].pc = "spent" => l \in Operators)
      BY <1>17, RestIsLeg DEF Crash
    <2>2. ~past.journaled => \A l \in Legs : leg'[l] = leg[l] \/ leg'[l].pc = "off"
      BY <1>0, <2>1, LegsAssumption DEF Recoverers
    <2> QED BY <1>0, <1>17, <2>1, <2>2, LegsAssumption DEF Crash, Finishing, Recoverers
  <1> QED BY <1>1, <1>2, <1>3, <1>4, <1>5, <1>6, <1>7, <1>8, <1>9, <1>10, <1>11, <1>12, <1>13,
     <1>14, <1>15, <1>16, <1>17, LegContinues DEF Next, Start, Call, Finish, Heartbeat

\* The beginning is in order in every reachable state.
LEMMA BegunAlways == Spec => [](Typed /\ Fenced /\ Beginning)
  <1>1. Init => Beginning
    BY DEF Init, Beginning, Untouched, Rest, Finishing, Legs
  <1>2. Typed /\ Fenced /\ Beginning /\ [Next]_vars => Beginning'
    BY NextBeginning
  <1> QED BY <1>1, <1>2, FencedAlways, PTL DEF Spec

\* A step of a leg keeps the journal that a recovery is going to read.
LEMMA LegKeepsJournal ==
    ASSUME Typed, Beginning, JournalOutlivesRun, NEW l \in Legs,
           \/ Call(l) \/ Finish(l) \/ Recover(l) \/ Scan(l) \/ Inspect(l) \/ Heartbeat(l)
           \/ Resume(l)
    PROVE  JournalOutlivesRun'
  <1>0. /\ TypeOK /\ run \in Run /\ past \in Books /\ leg[l].step \in Calls
        /\ Len(Plan) \in Nat /\ Terminal = Len(Plan) + 1 /\ Calls = 1 .. Len(Plan) + 1
        /\ run.ckpt \in 0 .. Len(Plan)
    BY Fields DEF Typed
  <1> USE DEF JournalOutlivesRun
  <1>1. ASSUME ReadOnlyCall(l) \/ ReserveIdempotency(l) \/ SkipDuplicate(l)
        PROVE  JournalOutlivesRun'
    BY <1>0, <1>1 DEF ReadOnlyCall, ReserveIdempotency, SkipDuplicate
  <1>2. ASSUME BeginToolIntent(l) PROVE JournalOutlivesRun'
    BY <1>0, <1>2, IntentRows DEF BeginToolIntent
  <1>3. ASSUME Effect(l) PROVE JournalOutlivesRun'
    BY <1>0, <1>3, CountedBooks DEF Effect
  <1>4. ASSUME CompleteToolIntent(l) PROVE JournalOutlivesRun'
    BY <1>0, <1>4, IntentRows DEF CompleteToolIntent
  <1>5. ASSUME \/ SettleIdempotency(l) \/ CallFails(l) \/ Suspend(l) \/ Park(l) \/ Confirm(l)
               \/ ConfirmFails(l) \/ StopAndConfirm(l) \/ ProofFails(l)
        PROVE  JournalOutlivesRun'
    BY <1>0, <1>5 DEF SettleIdempotency, CallFails, Suspend, Park, Confirm, ConfirmFails,
       StopAndConfirm, ProofFails
  <1>6. ASSUME Checkpoint(l) PROVE JournalOutlivesRun'
    BY <1>0, <1>6, CheckpointRow DEF Checkpoint
  <1>7. ASSUME SettleTrigger(l) PROVE JournalOutlivesRun'
    BY <1>0, <1>7, ResolvedRow, MarkedBooks DEF SettleTrigger, Outcomes
  <1>8. ASSUME ResolveTrigger(l) PROVE JournalOutlivesRun'
    BY <1>0, <1>8, ResolvedRow DEF ResolveTrigger, Outcomes, TriggerOutcome
  <1>9. ASSUME SaveOutcome(l) PROVE JournalOutlivesRun'
    BY <1>0, <1>9, StatusRow DEF SaveOutcome, Statuses
  <1>10. ASSUME PruneRunJournal(l) PROVE JournalOutlivesRun'
    BY <1>0, <1>10, PrunedRow DEF PruneRunJournal, Prunable
  <1>11. ASSUME Release(l) PROVE JournalOutlivesRun'
    BY <1>0, <1>11, FailedRow DEF Release
  <1>12. ASSUME \/ Claim(l) \/ RunActive(l) \/ RecheckApprovals(l) \/ LeaveClaim(l) \/ Scan(l)
                \/ Inspect(l) \/ GiveUp(l) \/ Renew(l) \/ MarkLost(l) \/ RenewalErrs(l)
         PROVE  JournalOutlivesRun'
    BY <1>0, <1>12 DEF Claim, RunActive, RecheckApprovals, LeaveClaim, Scan, Inspect, GiveUp,
       Renew, MarkLost, RenewalErrs
  <1>13. ASSUME Abandon(l) PROVE JournalOutlivesRun'
    <2>1. Failed(run) \in Run /\ Failed(run).status # "running"
      BY <1>0, FailedRow
    <2>2. run'.status # "running"
      BY <1>13, <2>1, PrunedRow DEF Abandon
    <2> QED BY <2>2
  <1>14. ASSUME FailLoudly(l) PROVE JournalOutlivesRun'
    BY <1>0, <1>14, FailedRow DEF FailLoudly
  <1>15. ASSUME Replay(l) PROVE JournalOutlivesRun'
    BY <1>0, <1>15, ExcusedBooks DEF Replay
  <1>16. ASSUME ForcedReplay(l) PROVE JournalOutlivesRun'
    BY <1>0, <1>16, StatusRow, ExcusedBooks DEF ForcedReplay, Statuses
  <1>17. ASSUME AcquireResume(l) PROVE JournalOutlivesRun'
    BY <1>0, <1>17, ExcusedBooks DEF AcquireResume
  <1> QED BY <1>1, <1>2, <1>3, <1>4, <1>5, <1>6, <1>7, <1>8, <1>9, <1>10, <1>11, <1>12, <1>13,
     <1>14, <1>15, <1>16, <1>17 DEF Call, Finish, Recover, Heartbeat, Resume

\* A journaled run that is running and that nobody restarted still has its journal: no finish, no
\* prune, no abandoned recovery and no retention sweep takes what a recovery is going to read.
THEOREM JournalOutlives == Spec => []JournalOutlivesRun
  <1>1. Init => JournalOutlivesRun
    BY DEF Init, JournalOutlivesRun
  <1>2. Typed /\ Fenced /\ Beginning /\ JournalOutlivesRun /\ [Next]_vars => JournalOutlivesRun'
    <2> SUFFICES ASSUME Typed, Beginning, JournalOutlivesRun, [Next]_vars
                 PROVE  JournalOutlivesRun'
      OBVIOUS
    <2>0. run \in Run /\ past \in Books
      BY Fields DEF Typed
    <2> USE DEF JournalOutlivesRun
    <2>1. CASE SaveExecution
      BY <2>1 DEF SaveExecution, Beginning
    <2>2. CASE AcquireRunLease \/ StartFails
      BY <2>2 DEF AcquireRunLease, StartFails
    <2>3. CASE SaveRunJournal
      BY <2>0, <2>3, JournalRow DEF SaveRunJournal
    <2>4. ASSUME NEW i \in DOMAIN approvals, Deny(i) \/ \E h \in Hosts : Approve(i, h)
          PROVE  JournalOutlivesRun'
      BY <2>0, <2>4, FailedRow DEF Deny, Approve
    <2>5. CASE Expire \/ (\E h \in Hosts : Crash(h)) \/ UNCHANGED vars
      BY <2>5 DEF Expire, Crash, vars
    <2>6. CASE RetentionSweep
      BY <2>0, <2>6, PrunedRow DEF RetentionSweep, Prunable
    <2> QED BY <2>1, <2>2, <2>3, <2>4, <2>5, <2>6, LegKeepsJournal DEF Next, Start
  <1> QED BY <1>1, <1>2, BegunAlways, PTL DEF Spec

----------------------------------------------------------------------------
(* The records of approval. *)

\* A record is about a gated call of some tenure of the lease.
RecordsGranted ==
    \A i \in DOMAIN approvals : /\ approvals[i].fence \in 1 .. lease.fence
                                /\ Kind(approvals[i].step) = "gated"

\* A tenure makes one record at most, and ends with it.
RecordsEndTenures ==
    \A l \in Legs : leg[l].pc \in Renewing \ {"parking"} =>
        \A i \in DOMAIN approvals : approvals[i].fence # leg[l].fence

\* A resume in wait is the resume of a record that was approved.
ResumesApproved ==
    \A l \in Legs : leg[l].pc = "acquiring" =>
        /\ leg[l].approval \in DOMAIN approvals
        /\ leg[l].step = approvals[leg[l].approval].step
        /\ approvals[leg[l].approval].status = "approved"

\* A leg that would make a record, or start a replay that might, ...
Fresh(l) == leg[l].pc = "policy" \/ (leg[l].pc \in Executing /\ leg[l].approval = 0)

\* ... does so while nobody has a decision to make, unless a heartbeat stalls.
NoneUndecided == NoStalls => \A l \in Legs : Fresh(l) => ~Pending

\* So there is one decision to make at a time.
OneUndecided == NoStalls => OneParkedApproval

\* The records are in order.
Recorded == /\ RecordsGranted /\ RecordsEndTenures /\ ResumesApproved
            /\ NoneUndecided /\ OneUndecided

\* What a leg does, as far as the records go: it handles them, ...
Handles(l) ==
    /\ OnlyLeg(l) /\ approvals' = approvals
    /\ leg'[l].pc \notin {"acquiring", "parking"}
    /\ leg'[l].pc \in Renewing =>
          \/ leg'[l].fence = lease.fence + 1
          \/ leg[l].pc \in Renewing \ {"parking"} /\ leg'[l].fence = leg[l].fence
    /\ Fresh(l)' => Fresh(l) \/ ~Pending

\* ... or its heartbeat does something, ...
Beats(l) ==
    /\ OnlyLeg(l) /\ approvals' = approvals
    /\ leg'[l].pc = leg[l].pc /\ leg'[l].fence = leg[l].fence
    /\ leg'[l].step = leg[l].step /\ leg'[l].approval = leg[l].approval

\* ... or it makes one.
Records(l) ==
    /\ OnlyLeg(l)
    /\ leg[l].pc = "enter" /\ leg[l].approval = 0
    /\ leg'[l].pc = "parking" /\ leg'[l].fence = leg[l].fence
    /\ leg'[l].approval = Len(approvals) + 1
    /\ approvals' \in Seq(Approvals) /\ Len(approvals') = Len(approvals) + 1
    /\ DOMAIN approvals' = 1 .. Len(approvals) + 1
    /\ \A i \in DOMAIN approvals : approvals'[i] = approvals[i]
    /\ approvals'[Len(approvals) + 1].status = "pending"
    /\ approvals'[Len(approvals) + 1].step = leg[l].step
    /\ Kind(leg[l].step) = "gated"
    /\ approvals'[Len(approvals) + 1].fence = leg[l].fence

\* A decision settles one record, and approving it may start its resume.
Decides(i, s) ==
    /\ approvals[i].status = "pending"
    /\ approvals' \in Seq(Approvals) /\ DOMAIN approvals' = DOMAIN approvals
    /\ approvals'[i].status = s
    /\ \A j \in DOMAIN approvals : /\ approvals'[j].step = approvals[j].step
                                   /\ approvals'[j].fence = approvals[j].fence
                                   /\ j # i => approvals'[j] = approvals[j]
    /\ \/ leg' = leg
       \/ /\ s = "approved"
          /\ \E r \in Resumes : /\ OnlyLeg(r) /\ leg[r].pc = "off"
                                /\ leg'[r].pc = "acquiring" /\ leg'[r].approval = i
                                /\ leg'[r].step = approvals[i].step

\* Every step is one of these, or leaves the records alone.
RecordStep ==
    \/ \E l \in Legs : Handles(l) \/ Beats(l) \/ Records(l)
    \/ \E i \in DOMAIN approvals, s \in {"approved", "denied"} : Decides(i, s)
    \/ /\ approvals' = approvals
       /\ \A l \in Legs : leg'[l] = leg[l] \/ leg'[l].pc \in {"off", "spent"}

\* The steps of a leg are of these kinds.
LEMMA LegRecordStep ==
    ASSUME Typed, Recorded, NEW l \in Legs,
           \/ Call(l) \/ Finish(l) \/ Recover(l) \/ Scan(l) \/ Inspect(l) \/ Heartbeat(l)
           \/ Resume(l)
    PROVE  RecordStep
  <1>0. /\ TypeOK /\ leg \in [Legs -> Leg] /\ lease \in LeaseRow
        /\ leg[l].pc \in PCs /\ leg[l].step \in Calls /\ leg[l] \in Leg
        /\ run.ckpt + 1 \in Calls /\ Terminal = Len(Plan) + 1 /\ Calls = 1 .. Len(Plan) + 1
        /\ Len(Plan) \in Nat /\ Len(approvals) \in Nat
        /\ DOMAIN approvals = 1 .. Len(approvals)
    BY Fields DEF Typed
  <1> USE DEF RecordStep, Stays, PCs, Renewing, Executing, InCall
  <1>1. ASSUME ReadOnlyCall(l) \/ ReserveIdempotency(l) \/ SkipDuplicate(l) \/ BeginToolIntent(l)
        PROVE  RecordStep
    <2>1. CASE ReadOnlyCall(l)
      BY <1>0, <2>1, GoesTo DEF ReadOnlyCall, Handles, Fresh
    <2>2. CASE ReserveIdempotency(l)
      BY <1>0, <2>2, GoesTo DEF ReserveIdempotency, Handles, Fresh
    <2>3. CASE SkipDuplicate(l)
      BY <1>0, <2>3, GoesTo DEF SkipDuplicate, Handles, Fresh
    <2>4. CASE BeginToolIntent(l)
      BY <1>0, <2>4, GoesTo DEF BeginToolIntent, Handles, Fresh
    <2> QED BY <1>1, <2>1, <2>2, <2>3, <2>4
  <1>2. ASSUME Effect(l) \/ CompleteToolIntent(l) \/ SettleIdempotency(l) \/ Park(l)
        PROVE  RecordStep
    <2>1. CASE Effect(l)
      BY <1>0, <2>1, GoesTo DEF Effect, Handles, Fresh
    <2>2. CASE CompleteToolIntent(l)
      BY <1>0, <2>2, GoesTo DEF CompleteToolIntent, Handles, Fresh
    <2>3. CASE SettleIdempotency(l)
      BY <1>0, <2>3, GoesTo DEF SettleIdempotency, Handles, Fresh
    <2>4. CASE Park(l)
      BY <1>0, <2>4, GoesTo DEF Park, Handles, Fresh
    <2> QED BY <1>2, <2>1, <2>2, <2>3, <2>4
  <1>3. ASSUME Checkpoint(l) PROVE RecordStep
    BY <1>0, <1>3, BeginsAt DEF Checkpoint, Handles, Fresh
  <1>4. ASSUME CallFails(l) \/ ConfirmFails(l) PROVE RecordStep
    BY <1>0, <1>4, EndsIn DEF CallFails, ConfirmFails, Handles, Fresh
  <1>5. ASSUME ProofFails(l) \/ StopAndConfirm(l) PROVE RecordStep
    BY <1>0, <1>5, EndsIn DEF ProofFails, StopAndConfirm, Handles, Fresh
  <1>6. ASSUME Confirm(l) PROVE RecordStep
    BY <1>0, <1>6, GoesTo DEF Confirm, Handles, Fresh
  <1>7. ASSUME SettleTrigger(l) \/ ResolveTrigger(l) \/ SaveOutcome(l) \/ PruneRunJournal(l)
        PROVE  RecordStep
    BY <1>0, <1>7, GoesTo DEF SettleTrigger, ResolveTrigger, SaveOutcome, PruneRunJournal,
       Handles, Fresh
  <1>8. ASSUME Release(l) PROVE RecordStep
    BY <1>0, <1>8, RestsNow DEF Release, Handles, Fresh
  <1>9. ASSUME Claim(l) PROVE RecordStep
    BY <1>0, <1>9, Takes DEF Claim, Handles, Fresh
  <1>10. ASSUME RunActive(l) \/ GiveUp(l) PROVE RecordStep
    BY <1>0, <1>10, RestsNow DEF RunActive, GiveUp, Handles, Fresh
  <1>11. ASSUME RecheckApprovals(l) \/ LeaveClaim(l) PROVE RecordStep
    BY <1>0, <1>11, GoesTo DEF RecheckApprovals, LeaveClaim, Handles, Fresh
  <1>12. ASSUME Abandon(l) \/ FailLoudly(l) PROVE RecordStep
    BY <1>0, <1>12, GoesTo DEF Abandon, FailLoudly, Handles, Fresh
  <1>13. ASSUME Replay(l) PROVE RecordStep
    BY <1>0, <1>13, ReplaysAt DEF Replay, Handles, Fresh
  <1>14. ASSUME ForcedReplay(l) PROVE RecordStep
    BY <1>0, <1>14, ReplaysAt DEF ForcedReplay, Handles, Fresh
  <1>15. ASSUME Scan(l) \/ Inspect(l) PROVE RecordStep
    BY <1>0, <1>15, GoesTo DEF Scan, Inspect, Handles, Fresh
  <1>16. ASSUME AcquireResume(l) PROVE RecordStep
    <2>1. leg[l].approval # 0
      BY <1>0, <1>16 DEF AcquireResume, Recorded, ResumesApproved
    <2>2. Handles(l)
      BY <1>0, <1>16, <2>1, Takes DEF AcquireResume, Handles, Fresh
    <2> QED BY <2>2
  <1>17. ASSUME Suspend(l) PROVE RecordStep
    <2>1. Records(l)
      BY <1>0, <1>17, Suspends DEF Suspend, Authorized, Records
    <2> QED BY <2>1
  <1>18. ASSUME Renew(l) PROVE RecordStep
    BY <1>0, <1>18 DEF Renew
  <1>19. ASSUME MarkLost(l) \/ RenewalErrs(l) PROVE RecordStep
    <2>1. Beats(l)
      BY <1>0, <1>19, Loses DEF MarkLost, RenewalErrs, Beats
    <2> QED BY <2>1
  <1> QED BY <1>1, <1>2, <1>3, <1>4, <1>5, <1>6, <1>7, <1>8, <1>9, <1>10, <1>11, <1>12, <1>13,
     <1>14, <1>15, <1>16, <1>17, <1>18, <1>19 DEF Call, Finish, Recover, Heartbeat, Resume

\* Every step is of one of these kinds.
LEMMA NextRecordStep == Typed /\ Beginning /\ Recorded /\ [Next]_vars => RecordStep
  <1> SUFFICES ASSUME Typed, Beginning, Recorded, [Next]_vars PROVE RecordStep
    OBVIOUS
  <1>0. /\ TypeOK /\ leg \in [Legs -> Leg] /\ lease \in LeaseRow
        /\ Live \in Legs /\ 1 \in Calls /\ (\A r \in Resumes : r \in Legs)
        /\ Len(Plan) \in Nat /\ Calls = 1 .. Len(Plan) + 1
        /\ \A i \in DOMAIN approvals : approvals[i] \in Approvals
    BY Fields DEF Typed, Legs
  <1> USE DEF RecordStep
  <1>1. CASE SaveExecution \/ StartFails
    BY <1>0, <1>1, GoesTo, EndsIn
       DEF SaveExecution, StartFails, Handles, Stays, Fresh, PCs, Renewing, Executing, InCall
  <1>2. CASE AcquireRunLease
    BY <1>0, <1>2, Takes DEF AcquireRunLease, Handles, Fresh, PCs, Executing, InCall
  <1>3. CASE SaveRunJournal
    <2>1. ~Pending
      BY <1>0, <1>3 DEF SaveRunJournal, Pending, Beginning, Untouched
    <2>2. Handles(Live)
      BY <1>0, <1>3, <2>1, BeginsAt DEF SaveRunJournal, Handles, Stays, Fresh, Renewing
    <2> QED BY <1>0, <2>2
  <1>4. ASSUME NEW i \in DOMAIN approvals, NEW h \in Hosts, Approve(i, h) PROVE RecordStep
    <2>1. /\ approvals' = [approvals EXCEPT ![i].status = "approved"]
          /\ approvals[i].status = "pending"
      BY <1>4 DEF Approve
    <2>2. \/ leg' = leg
          \/ \E r \in Resumes : /\ OnlyLeg(r) /\ leg[r].pc = "off"
                                /\ leg'[r].pc = "acquiring" /\ leg'[r].approval = i
                                /\ leg'[r].step = approvals[i].step
      <3> SUFFICES ASSUME leg' # leg
                   PROVE  \E r \in Resumes : /\ OnlyLeg(r) /\ leg[r].pc = "off"
                                             /\ leg'[r].pc = "acquiring" /\ leg'[r].approval = i
                                             /\ leg'[r].step = approvals[i].step
        OBVIOUS
      <3>1. PICK r \in Resumes :
               /\ leg[r].pc = "off"
               /\ leg' = [leg EXCEPT ![r].pc = "acquiring", ![r].approval = i,
                                     ![r].step = approvals[i].step]
        BY <1>4 DEF Approve
      <3> QED BY <1>0, <3>1, ResumeStarts
    <2>3. Decides(i, "approved")
      BY <1>0, <2>1, <2>2, Decided DEF Decides
    <2> QED BY <2>3
  <1>5. ASSUME NEW i \in DOMAIN approvals, Deny(i) PROVE RecordStep
    <2>1. Decides(i, "denied")
      BY <1>0, <1>5, Decided DEF Deny, Decides
    <2> QED BY <2>1
  <1>6. CASE Expire \/ RetentionSweep \/ UNCHANGED vars
    BY <1>6 DEF Expire, RetentionSweep, vars
  <1>7. ASSUME NEW h \in Hosts, Crash(h) PROVE RecordStep
    BY <1>7, RestIsLeg DEF Crash
  <1> QED BY <1>1, <1>2, <1>3, <1>4, <1>5, <1>6, <1>7, LegRecordStep DEF Next, Start

\* The fence of the row never falls, and a stall is not forgotten.
LEMMA FencesGrow ==
    ASSUME Typed, Typed', LeaseStep
    PROVE  /\ lease'.fence \in {lease.fence, lease.fence + 1}
           /\ NoStalls' => NoStalls
  <1>0. faults.stalls \in Nat /\ faults'.stalls \in Nat
    BY BoundsAssumption DEF Typed, TypeOK
  <1> USE DEF NoStalls
  <1>1. ASSUME NEW l \in Legs, GoesOn(l) \/ Acquires(l) \/ Rests(l) \/ Learns(l)
        PROVE  /\ lease'.fence \in {lease.fence, lease.fence + 1}
               /\ NoStalls' => NoStalls
    <2>1. CASE GoesOn(l)
      BY <2>1 DEF GoesOn
    <2>2. CASE Acquires(l)
      BY <2>2 DEF Acquires
    <2>3. CASE Rests(l)
      BY <2>3 DEF Rests
    <2>4. CASE Learns(l)
      BY <1>0, <2>4 DEF Learns
    <2> QED BY <1>1, <2>1, <2>2, <2>3, <2>4
  <1>2. CASE RunsOut
    BY <1>0, <1>2 DEF RunsOut
  <1>3. CASE Vanish
    BY <1>3 DEF Vanish
  <1> QED BY <1>1, <1>2, <1>3 DEF LeaseStep

\* Unless a heartbeat stalls, one leg at a time has a fence.
LEMMA OneFence ==
    ASSUME Fenced, NoStalls, NEW l \in Legs, NEW m \in Legs,
           leg[l].fence # 0, leg[m].fence # 0
    PROVE  l = m
  BY DEF Fenced, FencesUnique, LeaseKept, Current

\* Every step keeps the records in order.
LEMMA NextRecorded ==
    Typed /\ Typed' /\ Fenced /\ Beginning /\ Recorded /\ [Next]_vars => Recorded'
  <1> SUFFICES ASSUME Typed, Typed', Fenced, Beginning, Recorded, [Next]_vars PROVE Recorded'
    OBVIOUS
  <1>0. /\ lease.fence \in Nat /\ (\A l \in Legs : leg[l].fence \in Nat)
        /\ lease'.fence \in {lease.fence, lease.fence + 1}
        /\ NoStalls' => NoStalls
        /\ Len(approvals) \in Nat /\ DOMAIN approvals = 1 .. Len(approvals)
        /\ \A r \in Resumes : r \in Legs
        /\ \A l \in Legs : leg[l].pc \in Renewing => leg[l].fence # 0
        /\ \A l \in Legs : leg[l].fence <= lease.fence
        /\ \A l \in Legs : Fresh(l) => leg[l].pc \in Renewing
    BY NextLeaseStep, FencesGrow, Fields
       DEF Typed, Fenced, FencesGranted, FencesByPhase, Legs, Fresh, Renewing
  <1>1. RecordStep
    BY NextRecordStep
  <1>2. ASSUME NEW l \in Legs, Handles(l) \/ Beats(l) PROVE Recorded'
    <2>1. /\ OnlyLeg(l) /\ approvals' = approvals /\ Pending' = Pending
          /\ OneParkedApproval' = OneParkedApproval
      BY <1>2 DEF Handles, Beats, Pending, OneParkedApproval
    <2>2. RecordsGranted'
      BY <1>0, <2>1 DEF Recorded, RecordsGranted
    <2>3. RecordsEndTenures'
      <3>1. leg'[l].pc \in Renewing \ {"parking"} =>
              \A i \in DOMAIN approvals : approvals[i].fence # leg'[l].fence
        BY <1>0, <1>2 DEF Handles, Beats, Recorded, RecordsEndTenures, RecordsGranted
      <3> QED BY <2>1, <3>1 DEF OnlyLeg, Recorded, RecordsEndTenures
    <2>4. ResumesApproved'
      BY <1>2, <2>1 DEF Handles, Beats, OnlyLeg, Recorded, ResumesApproved
    <2>5. NoneUndecided'
      <3>1. Fresh(l)' => Fresh(l) \/ ~Pending
        BY <1>2 DEF Handles, Beats, Fresh
      <3>2. \A m \in Legs : m # l => Fresh(m)' = Fresh(m)
        BY <2>1 DEF OnlyLeg, Fresh
      <3> QED BY <1>0, <2>1, <3>1, <3>2 DEF Recorded, NoneUndecided
    <2>6. OneUndecided'
      BY <1>0, <2>1 DEF Recorded, OneUndecided
    <2> QED BY <2>2, <2>3, <2>4, <2>5, <2>6 DEF Recorded
  <1>3. ASSUME NEW l \in Legs, Records(l) PROVE Recorded'
    <2> DEFINE n == Len(approvals) + 1
    <2>0. /\ leg[l].fence # 0 /\ leg[l].fence \in 1 .. lease.fence
          /\ DOMAIN approvals' = DOMAIN approvals \cup {n} /\ n \notin DOMAIN approvals
          /\ \A m \in Legs : m # l => leg'[m] = leg[m]
          /\ Fresh(l)
      BY <1>0, <1>3 DEF Records, OnlyLeg, Renewing, Executing, InCall, Fresh
    <2> HIDE DEF n
    <2>1. RecordsGranted'
      BY <1>0, <1>3, <2>0 DEF Records, Recorded, RecordsGranted, n
    <2>2. RecordsEndTenures'
      BY <1>0, <1>3, <2>0 DEF Records, Fenced, FencesUnique, Recorded, RecordsEndTenures, n
    <2>3. ResumesApproved'
      <3>1. \A m \in Legs : leg'[m].pc = "acquiring" => m # l /\ leg'[m] = leg[m]
        BY <1>3, <2>0 DEF Records
      <3>2. \A j \in DOMAIN approvals : approvals'[j] = approvals[j] /\ j \in DOMAIN approvals'
        BY <1>3, <2>0 DEF Records
      <3> QED BY <3>1, <3>2 DEF Recorded, ResumesApproved
    <2>4. NoneUndecided'
      <3>1. ~Fresh(l)'
        BY <1>0, <1>3 DEF Records, Fresh
      <3>2. \A m \in Legs : m # l => Fresh(m)' = Fresh(m)
        BY <2>0 DEF Fresh
      <3> QED BY <1>0, <2>0, <3>1, <3>2, OneFence DEF NoneUndecided
    <2>5. OneUndecided'
      <3>1. NoStalls => ~Pending
        BY <2>0 DEF Recorded, NoneUndecided
      <3> QED BY <1>0, <1>3, <2>0, <3>1 DEF Records, OneUndecided, OneParkedApproval, Pending
    <2> QED BY <2>1, <2>2, <2>3, <2>4, <2>5 DEF Recorded
  <1>4. ASSUME NEW i \in DOMAIN approvals, NEW s \in {"approved", "denied"}, Decides(i, s)
        PROVE  Recorded'
    <2>0. \A l \in Legs : leg'[l] = leg[l] \/ (leg[l].pc = "off" /\ leg'[l].pc = "acquiring")
      BY <1>4 DEF Decides, OnlyLeg
    <2>1. RecordsGranted'
      BY <1>0, <1>4 DEF Decides, Recorded, RecordsGranted
    <2>2. RecordsEndTenures'
      BY <1>4, <2>0 DEF Decides, Recorded, RecordsEndTenures, Renewing, Executing, InCall
    <2>3. ResumesApproved'
      <3>1. \A l \in Legs :
               leg'[l] = leg[l] \/ (leg'[l].approval = i /\ leg'[l].step = approvals[i].step
                                    /\ s = "approved")
        BY <1>0, <1>4 DEF Decides, OnlyLeg
      <3> QED BY <1>4, <3>1 DEF Decides, Recorded, ResumesApproved
    <2>4. Pending' => Pending
      BY <1>4 DEF Decides, Pending
    <2>5. NoneUndecided'
      <3>1. \A l \in Legs : Fresh(l)' => Fresh(l)
        BY <2>0 DEF Fresh, Executing, InCall
      <3> QED BY <1>0, <2>4, <3>1 DEF Recorded, NoneUndecided
    <2>6. OneUndecided'
      BY <1>0, <1>4 DEF Decides, Recorded, OneUndecided, OneParkedApproval
    <2> QED BY <2>1, <2>2, <2>3, <2>5, <2>6 DEF Recorded
  <1>5. CASE /\ approvals' = approvals
             /\ \A l \in Legs : leg'[l] = leg[l] \/ leg'[l].pc \in {"off", "spent"}
    <2>1. RecordsGranted' /\ ResumesApproved'
      BY <1>0, <1>5 DEF Recorded, RecordsGranted, ResumesApproved
    <2>2. RecordsEndTenures'
      BY <1>5 DEF Recorded, RecordsEndTenures, Renewing, Executing, InCall
    <2>3. \A l \in Legs : Fresh(l)' => Fresh(l)
      BY <1>5 DEF Fresh, Executing, InCall
    <2>4. NoneUndecided' /\ OneUndecided'
      BY <1>0, <1>5, <2>3
         DEF Recorded, NoneUndecided, OneUndecided, OneParkedApproval, Pending
    <2> QED BY <2>1, <2>2, <2>4 DEF Recorded
  <1> QED BY <1>1, <1>2, <1>3, <1>4, <1>5 DEF RecordStep

\* The records are in order in every reachable state.
LEMMA RecordedAlways == Spec => [](Typed /\ Fenced /\ Beginning /\ Recorded)
  <1>1. Init => Recorded
    <2> SUFFICES ASSUME Init PROVE Recorded
      OBVIOUS
    <2>1. DOMAIN approvals = {} /\ \A l \in Legs : leg[l].pc = "off"
      BY DEF Init, Rest
    <2> QED BY <2>1 DEF Recorded, RecordsGranted, RecordsEndTenures, ResumesApproved,
               NoneUndecided, OneUndecided, OneParkedApproval, Fresh, Renewing, Executing, InCall
  <1>2. Typed /\ Fenced /\ Beginning /\ Recorded /\ [Next]_vars => Recorded'
    BY NextTyped, NextRecorded
  <1> QED BY <1>1, <1>2, BegunAlways, PTL DEF Spec

\* As long as no heartbeat stalls a run waits for one decision at a time: neither a scan nor an
\* operator replays a parked run, whatever happened between their look and their claim.
THEOREM OneDecisionAtATime == Spec => [](faults.stalls = 0 => OneParkedApproval)
  <1>1. Recorded => (faults.stalls = 0 => OneParkedApproval)
    BY DEF Recorded, OneUndecided, NoStalls
  <1> QED BY <1>1, RecordedAlways, PTL

----------------------------------------------------------------------------
(* What the journal knows of the calls. *)

\* Nobody forced a replay, and no leg started from a stale reading.
NoExcuses == past.excuses = {}

\* A call that was made, or that a leg is about to make, ...
Tried(k) == past.effects[k] # 0 \/ \E l \in Legs : leg[l].pc = "open" /\ leg[l].step = k

\* ... is behind the checkpoint, or has an intent.
Known(k) == run.ckpt >= k \/ \E j \in run.intents : j.step = k

\* As long as the run is running and nobody restarted it, its journal tells what was tried.
Written == NoExcuses /\ run.status = "running" => \A k \in Calls : Tried(k) => Known(k)

\* A step that tries nothing and takes nothing from the journal of a running run.
TriesNothing(l) ==
    /\ OnlyLeg(l)
    /\ run'.status = "running" /\ NoExcuses' =>
          /\ NoExcuses /\ run.status = "running"
          /\ run'.ckpt = run.ckpt /\ run'.intents = run.intents
          /\ past'.effects = past.effects
          /\ leg'[l].pc = "open" => leg[l].pc = "open" /\ leg'[l].step = leg[l].step

\* Most steps of a leg try nothing the journal does not know of.
LEMMA LegTriesNothing ==
    ASSUME Typed, NEW l \in Legs,
           \/ ReadOnlyCall(l) \/ ReserveIdempotency(l) \/ SkipDuplicate(l) \/ SettleIdempotency(l)
           \/ CallFails(l) \/ Suspend(l) \/ Park(l) \/ Finish(l) \/ Recover(l) \/ Scan(l)
           \/ Inspect(l) \/ MarkLost(l) \/ RenewalErrs(l) \/ Resume(l)
    PROVE  TriesNothing(l)
  <1>0. /\ TypeOK /\ leg \in [Legs -> Leg] /\ lease \in LeaseRow /\ run \in Run /\ past \in Books
        /\ leg[l].pc \in PCs /\ leg[l].step \in Calls /\ leg[l] \in Leg
        /\ run.ckpt + 1 \in Calls /\ Terminal = Len(Plan) + 1 /\ Calls = 1 .. Len(Plan) + 1
        /\ Len(Plan) \in Nat
    BY Fields DEF Typed
  <1> USE DEF TriesNothing, NoExcuses, Stays, PCs
  <1>1. ASSUME ReadOnlyCall(l) \/ ReserveIdempotency(l) PROVE TriesNothing(l)
    BY <1>0, <1>1, GoesTo DEF ReadOnlyCall, ReserveIdempotency
  <1>2. ASSUME SkipDuplicate(l) \/ SettleIdempotency(l) PROVE TriesNothing(l)
    BY <1>0, <1>2, GoesTo DEF SkipDuplicate, SettleIdempotency
  <1>3. ASSUME CallFails(l) \/ ConfirmFails(l) PROVE TriesNothing(l)
    BY <1>0, <1>3, EndsIn DEF CallFails, ConfirmFails
  <1>4. ASSUME Suspend(l) PROVE TriesNothing(l)
    BY <1>0, <1>4, Suspends DEF Suspend
  <1>5. ASSUME Park(l) \/ Confirm(l) PROVE TriesNothing(l)
    BY <1>0, <1>5, GoesTo DEF Park, Confirm
  <1>6. ASSUME SettleTrigger(l) PROVE TriesNothing(l)
    BY <1>0, <1>6, GoesTo, ResolvedRow, MarkedBooks DEF SettleTrigger, Outcomes
  <1>7. ASSUME StopAndConfirm(l) PROVE TriesNothing(l)
    BY <1>0, <1>7, EndsIn DEF StopAndConfirm
  <1>8. ASSUME ProofFails(l) PROVE TriesNothing(l)
    BY <1>0, <1>8, EndsIn DEF ProofFails
  <1>9. ASSUME ResolveTrigger(l) PROVE TriesNothing(l)
    BY <1>0, <1>9, GoesTo, ResolvedRow DEF ResolveTrigger, Outcomes, TriggerOutcome
  <1>10. ASSUME SaveOutcome(l) PROVE TriesNothing(l)
    BY <1>0, <1>10, GoesTo, StatusRow DEF SaveOutcome, Statuses
  <1>11. ASSUME PruneRunJournal(l) PROVE TriesNothing(l)
    BY <1>0, <1>11, GoesTo, PrunedRow DEF PruneRunJournal, Prunable
  <1>12. ASSUME Release(l) PROVE TriesNothing(l)
    BY <1>0, <1>12, RestsNow, FailedRow DEF Release
  <1>13. ASSUME Claim(l) PROVE TriesNothing(l)
    BY <1>0, <1>13, Takes DEF Claim
  <1>14. ASSUME RunActive(l) PROVE TriesNothing(l)
    BY <1>0, <1>14, RestsNow DEF RunActive
  <1>15. ASSUME RecheckApprovals(l) \/ LeaveClaim(l) PROVE TriesNothing(l)
    BY <1>0, <1>15, GoesTo DEF RecheckApprovals, LeaveClaim
  <1>16. ASSUME Abandon(l) PROVE TriesNothing(l)
    <2>1. Failed(run) \in Run /\ Failed(run).status # "running"
      BY <1>0, FailedRow
    <2>2. run'.status # "running"
      BY <1>16, <2>1, PrunedRow DEF Abandon
    <2>3. OnlyLeg(l)
      BY <1>0, <1>16, GoesTo DEF Abandon
    <2> QED BY <2>2, <2>3
  <1>17. ASSUME FailLoudly(l) PROVE TriesNothing(l)
    BY <1>0, <1>17, GoesTo, FailedRow DEF FailLoudly
  <1>18. ASSUME Replay(l) PROVE TriesNothing(l)
    <2>1. OnlyLeg(l) /\ leg'[l].pc # "open"
      BY <1>0, <1>18, ReplaysAt DEF Replay
    <2>2. past'.effects = past.effects /\ past.excuses \subseteq past'.excuses
      BY <1>0, <1>18, ExcusedBooks DEF Replay
    <2> QED BY <1>18, <2>1, <2>2 DEF Replay
  <1>19. ASSUME ForcedReplay(l) PROVE TriesNothing(l)
    <2>1. OnlyLeg(l)
      BY <1>0, <1>19, ReplaysAt DEF ForcedReplay
    <2>2. "forced" \in past'.excuses
      BY <1>0, <1>19, ExcusedBooks DEF ForcedReplay
    <2> QED BY <2>1, <2>2
  <1>20. ASSUME Scan(l) \/ Inspect(l) PROVE TriesNothing(l)
    BY <1>0, <1>20, GoesTo DEF Scan, Inspect
  <1>21. ASSUME MarkLost(l) \/ RenewalErrs(l) PROVE TriesNothing(l)
    BY <1>0, <1>21, Loses DEF MarkLost, RenewalErrs
  <1>22. ASSUME AcquireResume(l) PROVE TriesNothing(l)
    <2>1. OnlyLeg(l) /\ leg'[l].pc # "open"
      BY <1>0, <1>22, Takes DEF AcquireResume
    <2>2. past'.effects = past.effects /\ past.excuses \subseteq past'.excuses
      BY <1>0, <1>22, ExcusedBooks DEF AcquireResume
    <2> QED BY <1>22, <2>1, <2>2 DEF AcquireResume
  <1>23. ASSUME GiveUp(l) PROVE TriesNothing(l)
    BY <1>0, <1>23, RestsNow DEF GiveUp
  <1> QED BY <1>1, <1>2, <1>3, <1>4, <1>5, <1>6, <1>7, <1>8, <1>9, <1>10, <1>11, <1>12, <1>13,
     <1>14, <1>15, <1>16, <1>17, <1>18, <1>19, <1>20, <1>21, <1>22, <1>23 DEF Finish, Recover,
     Resume

\* The steps that write to the journal, or try what it knows.
LEMMA CallWritten ==
    ASSUME Typed, Written, NEW l \in Legs,
           BeginToolIntent(l) \/ Effect(l) \/ CompleteToolIntent(l) \/ Checkpoint(l)
    PROVE  Written'
  <1>0. /\ TypeOK /\ leg \in [Legs -> Leg] /\ run \in Run /\ past \in Books
        /\ leg[l].pc \in PCs /\ leg[l].step \in Calls /\ leg[l] \in Leg
        /\ run.ckpt \in 0 .. Len(Plan) /\ Len(Plan) \in Nat
        /\ Terminal = Len(Plan) + 1 /\ Calls = 1 .. Len(Plan) + 1
    BY Fields DEF Typed
  <1>1. CASE BeginToolIntent(l) \/ CompleteToolIntent(l)
    <2>1. /\ OnlyLeg(l) /\ leg'[l].step = leg[l].step /\ past' = past
          /\ run'.status = run.status /\ run'.ckpt = run.ckpt
          /\ \E j \in run'.intents : j.step = leg[l].step
          /\ \A k \in Calls :
                (\E j \in run.intents : j.step = k) => \E j \in run'.intents : j.step = k
      <3>1. OnlyLeg(l) /\ leg'[l].step = leg[l].step
        <4>1. CASE BeginToolIntent(l)
          BY <1>0, <4>1, GoesTo DEF BeginToolIntent, Stays, PCs
        <4>2. CASE CompleteToolIntent(l)
          BY <1>0, <4>2, GoesTo DEF CompleteToolIntent, Stays, PCs
        <4> QED BY <1>1, <4>1, <4>2
      <3>2. PICK d \in BOOLEAN : run' = WithIntent(l, d) /\ past' = past
        BY <1>1 DEF BeginToolIntent, CompleteToolIntent
      <3> QED BY <1>0, <3>1, <3>2, IntentRows
    <2>2. \A k \in Calls : Tried(k)' => Tried(k) \/ k = leg[l].step
      BY <2>1 DEF Tried, OnlyLeg
    <2>3. \A k \in Calls : (Known(k) => Known(k)') /\ (k = leg[l].step => Known(k)')
      BY <2>1 DEF Known
    <2> QED BY <2>1, <2>2, <2>3 DEF Written, NoExcuses
  <1>2. CASE Effect(l)
    <2>1. OnlyLeg(l) /\ leg'[l].pc # "open" /\ run' = run
      BY <1>0, <1>2, GoesTo DEF Effect, Stays, PCs
    <2>2. /\ past'.excuses = past.excuses
          /\ \A k \in Calls : k # leg[l].step => past'.effects[k] = past.effects[k]
      BY <1>0, <1>2, CountedBooks DEF Effect
    <2>3. leg[l].pc = "open"
      BY <1>2 DEF Effect
    <2>4. \A k \in Calls : Tried(k)' => Tried(k)
      BY <2>1, <2>2, <2>3 DEF Tried, OnlyLeg
    <2>5. \A k \in Calls : Known(k)' = Known(k)
      BY <2>1 DEF Known
    <2> QED BY <2>1, <2>2, <2>4, <2>5 DEF Written, NoExcuses
  <1>3. CASE Checkpoint(l)
    <2> DEFINE n == IF run.ckpt < leg[l].step THEN leg[l].step ELSE run.ckpt
    <2>1. /\ n \in 0 .. Len(Plan) /\ n >= run.ckpt /\ run' = [run EXCEPT !.ckpt = n]
          /\ leg[l].step + 1 \in Calls
      BY <1>0, <1>3 DEF Checkpoint
    <2> HIDE DEF n
    <2>2. run'.ckpt = n /\ run'.status = run.status /\ run'.intents = run.intents
      BY <1>0, <2>1, CheckpointRow
    <2>3. OnlyLeg(l) /\ leg'[l].pc # "open" /\ past' = past
      BY <1>0, <1>3, <2>1, BeginsAt DEF Checkpoint, Stays
    <2>4. \A k \in Calls : Tried(k)' => Tried(k)
      BY <2>3 DEF Tried, OnlyLeg
    <2>5. \A k \in Calls : Known(k) => Known(k)'
      BY <1>0, <2>1, <2>2 DEF Known
    <2> QED BY <2>2, <2>3, <2>4, <2>5 DEF Written, NoExcuses
  <1> QED BY <1>1, <1>2, <1>3

\* Every step keeps what was tried in the journal.
LEMMA NextWritten == Typed /\ Beginning /\ Written /\ [Next]_vars => Written'
  <1> SUFFICES ASSUME Typed, Beginning, Written, [Next]_vars PROVE Written'
    OBVIOUS
  <1>0. /\ TypeOK /\ leg \in [Legs -> Leg] /\ run \in Run /\ past \in Books /\ lease \in LeaseRow
        /\ Live \in Legs /\ 1 \in Calls /\ Len(Plan) \in Nat /\ Calls = 1 .. Len(Plan) + 1
        /\ \A r \in Resumes : r \in Legs
        /\ \A i \in DOMAIN approvals : approvals[i] \in Approvals
    BY Fields DEF Typed, Legs
  <1>1. ASSUME NEW l \in Legs, TriesNothing(l) PROVE Written'
    <2> SUFFICES ASSUME NoExcuses', run'.status = "running"
                 PROVE  \A k \in Calls : Tried(k)' => Known(k)'
      BY DEF Written
    <2>1. \A k \in Calls : (Tried(k)' => Tried(k)) /\ Known(k)' = Known(k)
      BY <1>1 DEF TriesNothing, OnlyLeg, Tried, Known
    <2> QED BY <1>1, <2>1 DEF TriesNothing, Written
  <1>2. ASSUME \A l \in Legs : leg'[l] = leg[l] \/ leg'[l].pc # "open", past' = past,
               run' = run
        PROVE  Written'
    BY <1>2 DEF Written, Tried, Known, NoExcuses
  <1>3. CASE SaveExecution
    <2>1. \A l \in Legs : leg'[l].pc # "open"
      BY <1>0, <1>3, GoesTo
         DEF SaveExecution, Beginning, Untouched, Finishing, Stays, OnlyLeg, PCs
    <2>2. \A k \in Calls : past'.effects[k] = 0
      BY <1>3 DEF SaveExecution, Beginning, Untouched
    <2> QED BY <2>1, <2>2 DEF Written, Tried
  <1>4. CASE AcquireRunLease
    BY <1>0, <1>2, <1>4, Takes DEF AcquireRunLease, OnlyLeg, PCs
  <1>5. CASE SaveRunJournal
    <2>1. \A l \in Legs : leg'[l].pc # "open"
      BY <1>0, <1>5, BeginsAt
         DEF SaveRunJournal, Beginning, Untouched, Finishing, Stays, OnlyLeg
    <2>2. \A k \in Calls : past'.effects[k] = 0
      BY <1>0, <1>5, MarkedBooks DEF SaveRunJournal, Beginning, Untouched
    <2> QED BY <2>1, <2>2 DEF Written, Tried
  <1>6. CASE StartFails
    BY <1>0, <1>2, <1>6, EndsIn DEF StartFails, Stays, OnlyLeg
  <1>7. ASSUME NEW i \in DOMAIN approvals, NEW h \in Hosts, Approve(i, h) PROVE Written'
    <2>1. \A l \in Legs : leg'[l] = leg[l] \/ leg'[l].pc # "open"
      <3> SUFFICES ASSUME leg' # leg PROVE \A l \in Legs : leg'[l] = leg[l] \/ leg'[l].pc # "open"
        OBVIOUS
      <3>1. PICK r \in Resumes :
               leg' = [leg EXCEPT ![r].pc = "acquiring", ![r].approval = i,
                                  ![r].step = approvals[i].step]
        BY <1>7 DEF Approve
      <3> QED BY <1>0, <3>1, ResumeStarts DEF OnlyLeg
    <2> QED BY <1>2, <1>7, <2>1 DEF Approve
  <1>8. ASSUME NEW i \in DOMAIN approvals, Deny(i) PROVE Written'
    <2>1. run'.status # "running"
      BY <1>0, <1>8, FailedRow DEF Deny
    <2> QED BY <2>1 DEF Written
  <1>9. CASE Expire \/ UNCHANGED vars \/ \E l \in Legs : Renew(l)
    BY <1>2, <1>9 DEF Expire, vars, Renew
  <1>10. CASE RetentionSweep
    <2>1. run'.status # "running"
      BY <1>0, <1>10, PrunedRow DEF RetentionSweep, Prunable
    <2> QED BY <2>1 DEF Written
  <1>11. ASSUME NEW h \in Hosts, Crash(h) PROVE Written'
    BY <1>2, <1>11, RestIsLeg DEF Crash
  <1> QED BY <1>1, <1>3, <1>4, <1>5, <1>6, <1>7, <1>8, <1>9, <1>10, <1>11, LegTriesNothing,
             CallWritten DEF Next, Start, Call, Heartbeat

----------------------------------------------------------------------------
(* Effects: what is still ahead of a leg was not done yet. *)

\* The calls a leg has not made yet: those of the steps to come, and the one of its own step.
Ahead(l, k) == \/ k > leg[l].step
               \/ k = leg[l].step /\ leg[l].pc \in {"enter", "open", "parking", "confirm"}

\* Nobody made them before.
Safely(l) == \A k \in Calls : SideEffecting(k) /\ Ahead(l, k) => past.effects[k] = 0

\* As long as no heartbeat stalls and nobody restarted the run from a stale reading or by force,
\* a leg that executes has nothing ahead of it that was done, ...
NothingAhead == NoStalls /\ NoExcuses => \A l \in Legs : leg[l].pc \in Executing => Safely(l)

\* ... nor has the leg that will resume the run, if its record is of the last tenure, ...
NothingAfterRecord ==
    NoStalls /\ NoExcuses => \A i \in DOMAIN approvals : approvals[i].fence = lease.fence =>
        \A k \in Calls : SideEffecting(k) /\ k >= approvals[i].step => past.effects[k] = 0

\* ... so that nothing is done twice.
DoneOnce == NoStalls /\ NoExcuses => \A k \in Calls : SideEffecting(k) => past.effects[k] <= 1

\* Side effects are done once.
Once == NothingAhead /\ NothingAfterRecord /\ DoneOnce

\* A leg goes on from where it was, or starts where nothing is ahead.
Follows(l) ==
    /\ OnlyLeg(l) /\ approvals' = approvals /\ past'.effects = past.effects
    /\ NoExcuses' => NoExcuses
    /\ leg'[l].pc \in Executing /\ NoStalls /\ NoExcuses' =>
          \/ /\ leg[l].pc \in Executing
             /\ \A k \in Calls : SideEffecting(k) /\ Ahead(l, k)' => Ahead(l, k)
          \/ Safely(l)'

\* Most steps of a leg leave what is ahead of the legs untried.
LEMMA LegFollows ==
    ASSUME Typed, Recorded, Written, Once, NEW l \in Legs,
           \/ ReadOnlyCall(l) \/ ReserveIdempotency(l) \/ SkipDuplicate(l) \/ BeginToolIntent(l)
           \/ CompleteToolIntent(l) \/ SettleIdempotency(l) \/ Checkpoint(l) \/ CallFails(l)
           \/ Park(l) \/ Finish(l) \/ Recover(l) \/ Scan(l) \/ Inspect(l) \/ Resume(l)
    PROVE  Follows(l)
  <1>0. /\ TypeOK /\ leg \in [Legs -> Leg] /\ lease \in LeaseRow /\ past \in Books
        /\ leg[l].pc \in PCs /\ leg[l].step \in Calls /\ leg[l] \in Leg
        /\ run.ckpt + 1 \in Calls /\ Terminal = Len(Plan) + 1 /\ Calls = 1 .. Len(Plan) + 1
        /\ Len(Plan) \in Nat /\ run.ckpt \in 0 .. Len(Plan)
    BY Fields DEF Typed
  <1> USE DEF Follows, Once, NoExcuses, Stays, PCs
  <1>1. ASSUME ReadOnlyCall(l) PROVE Follows(l)
    <2>1. /\ OnlyLeg(l) /\ leg'[l].step = leg[l].step /\ leg[l].pc \in Executing
          /\ past'.effects = past.effects /\ past'.excuses = past.excuses
          /\ approvals' = approvals
      BY <1>0, <1>1, GoesTo
         DEF ReadOnlyCall, Executing, InCall
    <2>2. \A k \in Calls : SideEffecting(k) /\ Ahead(l, k)' => Ahead(l, k)
      BY <1>0, <1>1, <2>1, GoesTo DEF ReadOnlyCall, Ahead, SideEffecting
    <2> QED BY <2>1, <2>2
  <1>2. ASSUME ReserveIdempotency(l) PROVE Follows(l)
    <2>1. /\ OnlyLeg(l) /\ leg'[l].step = leg[l].step /\ leg[l].pc \in Executing
          /\ past'.effects = past.effects /\ past'.excuses = past.excuses
          /\ approvals' = approvals
      BY <1>0, <1>2, GoesTo
         DEF ReserveIdempotency, Executing, InCall
    <2>2. \A k \in Calls : SideEffecting(k) /\ Ahead(l, k)' => Ahead(l, k)
      BY <1>0, <1>2, <2>1, GoesTo DEF ReserveIdempotency, Ahead, SideEffecting
    <2> QED BY <2>1, <2>2
  <1>3. ASSUME SkipDuplicate(l) PROVE Follows(l)
    <2>1. /\ OnlyLeg(l) /\ leg'[l].step = leg[l].step /\ leg[l].pc \in Executing
          /\ past'.effects = past.effects /\ past'.excuses = past.excuses
          /\ approvals' = approvals
      BY <1>0, <1>3, GoesTo
         DEF SkipDuplicate, Executing, InCall
    <2>2. \A k \in Calls : SideEffecting(k) /\ Ahead(l, k)' => Ahead(l, k)
      BY <1>0, <1>3, <2>1, GoesTo DEF SkipDuplicate, Ahead, SideEffecting
    <2> QED BY <2>1, <2>2
  <1>4. ASSUME BeginToolIntent(l) PROVE Follows(l)
    <2>1. /\ OnlyLeg(l) /\ leg'[l].step = leg[l].step /\ leg[l].pc \in Executing
          /\ past'.effects = past.effects /\ past'.excuses = past.excuses
          /\ approvals' = approvals
      BY <1>0, <1>4, GoesTo
         DEF BeginToolIntent, Executing, InCall
    <2>2. \A k \in Calls : SideEffecting(k) /\ Ahead(l, k)' => Ahead(l, k)
      BY <1>0, <1>4, <2>1, GoesTo DEF BeginToolIntent, Ahead, SideEffecting
    <2> QED BY <2>1, <2>2
  <1>5. ASSUME CompleteToolIntent(l) PROVE Follows(l)
    <2>1. /\ OnlyLeg(l) /\ leg'[l].step = leg[l].step /\ leg[l].pc \in Executing
          /\ past'.effects = past.effects /\ past'.excuses = past.excuses
          /\ approvals' = approvals
      BY <1>0, <1>5, GoesTo
         DEF CompleteToolIntent, Executing, InCall
    <2>2. \A k \in Calls : SideEffecting(k) /\ Ahead(l, k)' => Ahead(l, k)
      BY <1>0, <1>5, <2>1, GoesTo DEF CompleteToolIntent, Ahead, SideEffecting
    <2> QED BY <2>1, <2>2
  <1>6. ASSUME SettleIdempotency(l) PROVE Follows(l)
    <2>1. /\ OnlyLeg(l) /\ leg'[l].step = leg[l].step /\ leg[l].pc \in Executing
          /\ past'.effects = past.effects /\ past'.excuses = past.excuses
          /\ approvals' = approvals
      BY <1>0, <1>6, GoesTo
         DEF SettleIdempotency, Executing, InCall
    <2>2. \A k \in Calls : SideEffecting(k) /\ Ahead(l, k)' => Ahead(l, k)
      BY <1>0, <1>6, <2>1, GoesTo DEF SettleIdempotency, Ahead, SideEffecting
    <2> QED BY <2>1, <2>2
  <1>7. ASSUME Checkpoint(l) PROVE Follows(l)
    <2>1. leg[l].step + 1 \in Calls
      BY <1>0, <1>7 DEF Checkpoint
    <2>2. OnlyLeg(l) /\ leg'[l].step = leg[l].step + 1
      BY <1>0, <1>7, <2>1, BeginsAt DEF Checkpoint
    <2>3. \A k \in Calls : Ahead(l, k)' => Ahead(l, k)
      BY <1>0, <2>2 DEF Ahead
    <2> QED BY <1>7, <2>2, <2>3 DEF Checkpoint, Executing, InCall
  <1>8. ASSUME CallFails(l) PROVE Follows(l)
    BY <1>0, <1>8, EndsIn DEF CallFails, Executing, InCall
  <1>9. ASSUME Park(l) PROVE Follows(l)
    BY <1>0, <1>9, GoesTo DEF Park, Executing, InCall
  <1>10. ASSUME Confirm(l) PROVE Follows(l)
    <2>1. /\ OnlyLeg(l) /\ leg'[l].step = leg[l].step /\ leg[l].pc \in Executing
          /\ past'.effects = past.effects /\ past'.excuses = past.excuses
          /\ approvals' = approvals
      BY <1>0, <1>10, GoesTo
         DEF Confirm, Executing, InCall
    <2>2. \A k \in Calls : SideEffecting(k) /\ Ahead(l, k)' => Ahead(l, k)
      BY <1>0, <1>10, <2>1, GoesTo DEF Confirm, Ahead, SideEffecting
    <2> QED BY <2>1, <2>2
  <1>11. ASSUME ConfirmFails(l) PROVE Follows(l)
    BY <1>0, <1>11, EndsIn DEF ConfirmFails, Executing, InCall
  <1>12. ASSUME SettleTrigger(l) PROVE Follows(l)
    <2>1. /\ OnlyLeg(l) /\ leg'[l].step = leg[l].step /\ leg[l].pc \in Executing
          /\ past'.effects = past.effects /\ past'.excuses = past.excuses
          /\ approvals' = approvals
      BY <1>0, <1>12, GoesTo, MarkedBooks
         DEF SettleTrigger, Executing, InCall
    <2>2. \A k \in Calls : SideEffecting(k) /\ Ahead(l, k)' => Ahead(l, k)
      BY <1>0, <1>12, <2>1, GoesTo DEF SettleTrigger, Ahead, SideEffecting
    <2> QED BY <2>1, <2>2
  <1>13. ASSUME StopAndConfirm(l) PROVE Follows(l)
    BY <1>0, <1>13, EndsIn DEF StopAndConfirm, Executing, InCall
  <1>14. ASSUME ProofFails(l) PROVE Follows(l)
    BY <1>0, <1>14, EndsIn DEF ProofFails, Executing, InCall
  <1>15. ASSUME ResolveTrigger(l) PROVE Follows(l)
    BY <1>0, <1>15, GoesTo DEF ResolveTrigger, Executing, InCall
  <1>16. ASSUME SaveOutcome(l) PROVE Follows(l)
    BY <1>0, <1>16, GoesTo DEF SaveOutcome, Executing, InCall
  <1>17. ASSUME PruneRunJournal(l) PROVE Follows(l)
    BY <1>0, <1>17, GoesTo DEF PruneRunJournal, Executing, InCall
  <1>18. ASSUME Release(l) PROVE Follows(l)
    BY <1>0, <1>18, RestsNow DEF Release, Executing, InCall
  <1>19. ASSUME Claim(l) PROVE Follows(l)
    BY <1>0, <1>19, Takes DEF Claim, Executing, InCall
  <1>20. ASSUME RunActive(l) PROVE Follows(l)
    BY <1>0, <1>20, RestsNow DEF RunActive, Executing, InCall
  <1>21. ASSUME RecheckApprovals(l) PROVE Follows(l)
    BY <1>0, <1>21, GoesTo DEF RecheckApprovals, Executing, InCall
  <1>22. ASSUME LeaveClaim(l) PROVE Follows(l)
    BY <1>0, <1>22, GoesTo DEF LeaveClaim, Executing, InCall
  <1>23. ASSUME Abandon(l) PROVE Follows(l)
    BY <1>0, <1>23, GoesTo DEF Abandon, Executing, InCall
  <1>24. ASSUME FailLoudly(l) PROVE Follows(l)
    BY <1>0, <1>24, GoesTo DEF FailLoudly, Executing, InCall
  <1>25. ASSUME Replay(l) PROVE Follows(l)
    <2>1. OnlyLeg(l) /\ leg'[l].step = run.ckpt + 1
      BY <1>0, <1>25, ReplaysAt DEF Replay
    <2>2. /\ past'.effects = past.effects /\ past.excuses \subseteq past'.excuses
          /\ NoExcuses' => run.status = "running"
      BY <1>0, <1>25, ExcusedBooks DEF Replay
    <2>3. ASSUME NoExcuses' PROVE Safely(l)'
      <3>1. \A k \in Calls : Tried(k) => Known(k)
        BY <2>2, <2>3 DEF Written
      <3>2. \A k \in Calls : SideEffecting(k) /\ k > run.ckpt => ~Known(k)
        <4> SUFFICES ASSUME NEW k \in Calls, SideEffecting(k), k > run.ckpt,
                            NEW j \in run.intents, j.step = k
                     PROVE  FALSE
          BY <1>0 DEF Known
        <4> QED BY <1>25 DEF Replay, Blocked, SideEffecting
      <3> QED BY <1>0, <2>1, <2>2, <3>1, <3>2 DEF Safely, Ahead, Tried
    <2> QED BY <1>25, <2>1, <2>2, <2>3 DEF Replay
  <1>26. ASSUME ForcedReplay(l) PROVE Follows(l)
    <2>1. OnlyLeg(l)
      BY <1>0, <1>26, ReplaysAt DEF ForcedReplay
    <2>2. "forced" \in past'.excuses /\ past'.effects = past.effects
      BY <1>0, <1>26, ExcusedBooks DEF ForcedReplay
    <2> QED BY <1>26, <2>1, <2>2 DEF ForcedReplay
  <1>27. ASSUME Scan(l) PROVE Follows(l)
    BY <1>0, <1>27, GoesTo DEF Scan, Executing, InCall
  <1>28. ASSUME Inspect(l) PROVE Follows(l)
    BY <1>0, <1>28, GoesTo DEF Inspect, Executing, InCall
  <1>29. ASSUME AcquireResume(l) PROVE Follows(l)
    <2>1. OnlyLeg(l) /\ leg'[l].pc = "enter" /\ leg'[l].step = leg[l].step
      BY <1>0, <1>29, Takes DEF AcquireResume
    <2>2. /\ past'.effects = past.effects /\ past.excuses \subseteq past'.excuses
          /\ NoExcuses' => lease.fence = approvals[leg[l].approval].fence
      BY <1>0, <1>29, ExcusedBooks DEF AcquireResume
    <2>3. leg[l].approval \in DOMAIN approvals /\ leg[l].step = approvals[leg[l].approval].step
      BY <1>29 DEF AcquireResume, Recorded, ResumesApproved
    <2>4. ASSUME NoStalls, NoExcuses' PROVE Safely(l)'
      BY <1>0, <2>1, <2>2, <2>3, <2>4 DEF NothingAfterRecord, Safely, Ahead
    <2> QED BY <1>29, <2>1, <2>2, <2>4 DEF AcquireResume
  <1>30. ASSUME GiveUp(l) PROVE Follows(l)
    BY <1>0, <1>30, RestsNow DEF GiveUp, Executing, InCall
  <1> QED BY <1>1, <1>2, <1>3, <1>4, <1>5, <1>6, <1>7, <1>8, <1>9, <1>10, <1>11, <1>12, <1>13,
     <1>14, <1>15, <1>16, <1>17, <1>18, <1>19, <1>20, <1>21, <1>22, <1>23, <1>24, <1>25, <1>26,
     <1>27, <1>28, <1>29, <1>30 DEF Finish, Recover, Resume

\* Every step keeps side effects to one.
LEMMA NextOnce ==
    /\ Typed /\ Typed' /\ Fenced /\ Beginning /\ Recorded /\ Written /\ Once
    /\ [Next]_vars
    => Once'
  <1> SUFFICES ASSUME Typed, Typed', Fenced, Beginning, Recorded, Written, Once, [Next]_vars
               PROVE  Once'
    OBVIOUS
  <1>0. /\ TypeOK /\ leg \in [Legs -> Leg] /\ past \in Books /\ run \in Run /\ lease \in LeaseRow
        /\ \A l \in Legs : leg[l].pc \in PCs /\ leg[l].step \in Calls
        /\ lease.fence \in Nat /\ lease'.fence \in {lease.fence, lease.fence + 1}
        /\ NoStalls' => NoStalls
        /\ \A i \in DOMAIN approvals : approvals[i].fence <= lease.fence
        /\ past.effects \in [Calls -> 0 .. 2]
        /\ Live \in Legs /\ 1 \in Calls /\ Calls = 1 .. Len(Plan) + 1 /\ Len(Plan) \in Nat
        /\ DOMAIN approvals = 1 .. Len(approvals) /\ Len(approvals) \in Nat
        /\ \A i \in DOMAIN approvals : approvals[i] \in Approvals
        /\ \A r \in Resumes : r \in Legs
    BY NextLeaseStep, FencesGrow, Fields DEF Typed, Fenced, Recorded, RecordsGranted, Legs
  <1>1. ASSUME NEW l \in Legs, Follows(l) PROVE Once'
    <2>1. NothingAhead'
      <3> SUFFICES ASSUME NoStalls, NoExcuses, NoExcuses', NEW m \in Legs,
                          leg'[m].pc \in Executing
                   PROVE  Safely(m)'
        BY <1>0, <1>1 DEF NothingAhead, Follows
      <3>1. CASE m = l
        BY <1>1, <3>1 DEF Follows, Once, NothingAhead, Safely
      <3>2. CASE m # l
        BY <1>1, <3>2 DEF Follows, OnlyLeg, Once, NothingAhead, Safely, Ahead
      <3> QED BY <3>1, <3>2
    <2>2. NothingAfterRecord'
      BY <1>0, <1>1 DEF Follows, Once, NothingAfterRecord
    <2>3. DoneOnce'
      BY <1>0, <1>1 DEF Follows, Once, DoneOnce
    <2> QED BY <2>1, <2>2, <2>3 DEF Once
  <1>2. ASSUME past'.effects = past.effects, past'.excuses = past.excuses,
               DOMAIN approvals' = DOMAIN approvals,
               \A i \in DOMAIN approvals : /\ approvals'[i].step = approvals[i].step
                                           /\ approvals'[i].fence = approvals[i].fence,
               \A l \in Legs : \/ leg'[l].pc = leg[l].pc /\ leg'[l].step = leg[l].step
                               \/ leg'[l].pc \notin Executing
        PROVE  Once'
    <2>1. NothingAhead'
      <3>1. \A l \in Legs : leg'[l].pc \in Executing =>
               leg[l].pc \in Executing /\ (Safely(l) => Safely(l)')
        BY <1>2 DEF Safely, Ahead
      <3> QED BY <1>0, <1>2, <3>1 DEF Once, NothingAhead, NoExcuses
    <2>2. NothingAfterRecord' /\ DoneOnce'
      BY <1>0, <1>2 DEF Once, NothingAfterRecord, DoneOnce, NoExcuses
    <2> QED BY <2>1, <2>2 DEF Once
  <1>3. ASSUME NEW l \in Legs, Effect(l) PROVE Once'
    <2>1. /\ OnlyLeg(l) /\ leg'[l].step = leg[l].step /\ leg'[l].pc = "done"
          /\ leg[l].pc = "open" /\ approvals' = approvals /\ lease' = lease
      BY <1>0, <1>3, GoesTo DEF Effect, Stays, PCs
    <2>2. /\ past'.excuses = past.excuses
          /\ \A k \in Calls : k # leg[l].step => past'.effects[k] = past.effects[k]
          /\ past.effects[leg[l].step] = 0 => past'.effects[leg[l].step] = 1
      BY <1>0, <1>3, CountedBooks DEF Effect
    <2>3. leg[l].pc \in Renewing \ {"parking"} /\ leg[l].pc \in Executing /\ leg[l].fence # 0
      BY <2>1 DEF Renewing, Executing, InCall, Fenced, FencesByPhase
    <2>4. NothingAhead'
      <3> SUFFICES ASSUME NoStalls, NoExcuses, NEW m \in Legs, leg'[m].pc \in Executing
                   PROVE  Safely(m)'
        BY <1>0, <2>2 DEF NothingAhead, NoExcuses
      <3>1. m = l
        <4> SUFFICES ASSUME m # l PROVE FALSE
          OBVIOUS
        <4>1. leg[m].fence # 0
          BY <2>1 DEF OnlyLeg, Renewing, Fenced, FencesByPhase
        <4> QED BY <2>3, <4>1, OneFence
      <3> QED BY <1>0, <2>1, <2>2, <2>3, <3>1 DEF Once, NothingAhead, Safely, Ahead
    <2>5. NothingAfterRecord'
      <3>1. NoStalls => \A i \in DOMAIN approvals : approvals[i].fence # lease.fence
        BY <2>3 DEF Fenced, LeaseKept, Current, Recorded, RecordsEndTenures
      <3> QED BY <1>0, <2>1, <3>1 DEF NothingAfterRecord
    <2>6. DoneOnce'
      <3>1. NoStalls /\ NoExcuses /\ SideEffecting(leg[l].step) => past.effects[leg[l].step] = 0
        BY <1>0, <2>1, <2>3 DEF Once, NothingAhead, Safely, Ahead
      <3> QED BY <1>0, <2>2, <3>1 DEF Once, DoneOnce, NoExcuses
    <2> QED BY <2>4, <2>5, <2>6 DEF Once
  <1>4. ASSUME NEW l \in Legs, Suspend(l) PROVE Once'
    <2> DEFINE n == Len(approvals) + 1
    <2>1. /\ OnlyLeg(l) /\ leg'[l].step = leg[l].step /\ leg'[l].pc = "parking"
          /\ leg[l].pc = "enter"
          /\ DOMAIN approvals' = DOMAIN approvals \cup {n}
          /\ \A i \in DOMAIN approvals : approvals'[i] = approvals[i]
          /\ approvals'[n].step = leg[l].step
          /\ past' = past /\ lease' = lease
      <3>1. leg[l].pc = "enter" /\ past' = past /\ lease' = lease
        BY <1>4 DEF Suspend
      <3>2. /\ OnlyLeg(l) /\ leg'[l].step = leg[l].step /\ leg'[l].pc = "parking"
            /\ DOMAIN approvals' = 1 .. n
            /\ \A i \in DOMAIN approvals : approvals'[i] = approvals[i]
            /\ approvals'[n].step = leg[l].step
        BY <1>0, <1>4, Suspends
      <3> QED BY <1>0, <3>1, <3>2
    <2> HIDE DEF n
    <2>2. leg[l].pc \in Executing
      BY <2>1 DEF Executing, InCall
    <2>3. NothingAhead'
      <3>1. \A m \in Legs : leg'[m].pc \in Executing =>
               leg[m].pc \in Executing /\ (Safely(m) => Safely(m)')
        BY <2>1, <2>2 DEF OnlyLeg, Safely, Ahead
      <3> QED BY <1>0, <2>1, <3>1 DEF Once, NothingAhead, NoExcuses
    <2>4. NothingAfterRecord'
      <3>1. NoStalls /\ NoExcuses =>
              \A k \in Calls : SideEffecting(k) /\ k >= leg[l].step => past.effects[k] = 0
        BY <1>0, <2>1, <2>2 DEF Once, NothingAhead, Safely, Ahead
      <3> QED BY <1>0, <2>1, <3>1 DEF Once, NothingAfterRecord, NoExcuses
    <2>5. DoneOnce'
      BY <1>0, <2>1 DEF Once, DoneOnce, NoExcuses
    <2> QED BY <2>3, <2>4, <2>5 DEF Once
  <1>5. CASE SaveExecution
    BY <1>0, <1>2, <1>5, GoesTo DEF SaveExecution, Stays, OnlyLeg, PCs, Executing, InCall
  <1>6. CASE AcquireRunLease
    BY <1>0, <1>2, <1>6, Takes DEF AcquireRunLease, OnlyLeg, PCs, Executing, InCall
  <1>7. CASE SaveRunJournal
    <2>1. /\ \A k \in Calls : past'.effects[k] = 0
          /\ past'.excuses = past.excuses
      BY <1>0, <1>7, MarkedBooks DEF SaveRunJournal, Beginning, Untouched
    <2>2. \A l \in Legs : Safely(l)'
      BY <2>1 DEF Safely
    <2> QED BY <2>1, <2>2 DEF Once, NothingAhead, NothingAfterRecord, DoneOnce
  <1>8. CASE StartFails
    BY <1>0, <1>2, <1>8, EndsIn DEF StartFails, Stays, OnlyLeg, Executing, InCall
  <1>9. ASSUME NEW i \in DOMAIN approvals, NEW h \in Hosts, Approve(i, h) PROVE Once'
    <2>1. \A l \in Legs : leg'[l] = leg[l] \/ leg'[l].pc \notin Executing
      <3> SUFFICES ASSUME leg' # leg
                   PROVE  \A l \in Legs : leg'[l] = leg[l] \/ leg'[l].pc \notin Executing
        OBVIOUS
      <3>1. PICK r \in Resumes :
               leg' = [leg EXCEPT ![r].pc = "acquiring", ![r].approval = i,
                                  ![r].step = approvals[i].step]
        BY <1>9 DEF Approve
      <3> QED BY <1>0, <3>1, ResumeStarts DEF OnlyLeg, Executing, InCall
    <2>2. /\ DOMAIN approvals' = DOMAIN approvals /\ past' = past
          /\ \A j \in DOMAIN approvals : /\ approvals'[j].step = approvals[j].step
                                         /\ approvals'[j].fence = approvals[j].fence
      BY <1>0, <1>9, Decided DEF Approve
    <2> QED BY <1>2, <2>1, <2>2
  <1>10. ASSUME NEW i \in DOMAIN approvals, Deny(i) PROVE Once'
    <2>1. /\ DOMAIN approvals' = DOMAIN approvals /\ past' = past /\ leg' = leg
          /\ \A j \in DOMAIN approvals : /\ approvals'[j].step = approvals[j].step
                                         /\ approvals'[j].fence = approvals[j].fence
      BY <1>0, <1>10, Decided DEF Deny
    <2> QED BY <1>2, <2>1
  <1>11. CASE Expire \/ RetentionSweep \/ UNCHANGED vars \/ \E l \in Legs : Renew(l)
    BY <1>2, <1>11 DEF Expire, RetentionSweep, vars, Renew
  <1>12. ASSUME NEW l \in Legs, MarkLost(l) \/ RenewalErrs(l) PROVE Once'
    <2>1. OnlyLeg(l) /\ leg'[l].pc = leg[l].pc /\ leg'[l].step = leg[l].step
      BY <1>0, <1>12, Loses DEF MarkLost, RenewalErrs, Stays
    <2>2. past' = past /\ approvals' = approvals
      BY <1>12 DEF MarkLost, RenewalErrs
    <2> QED BY <1>2, <2>1, <2>2 DEF OnlyLeg
  <1>13. ASSUME NEW h \in Hosts, Crash(h) PROVE Once'
    BY <1>2, <1>13, RestIsLeg DEF Crash, Executing, InCall
  <1> QED BY <1>1, <1>3, <1>4, <1>5, <1>6, <1>7, <1>8, <1>9, <1>10, <1>11, <1>12, <1>13,
             LegFollows
          DEF Next, Start, Call, Heartbeat

\* Side effects are done once in every reachable state.
LEMMA OnceAlways ==
    Spec => [](Typed /\ Fenced /\ Beginning /\ Recorded /\ Written /\ Once)
  <1>1. Init => Written /\ Once
    <2> SUFFICES ASSUME Init PROVE Written /\ Once
      OBVIOUS
    <2>1. /\ run.status = "none" /\ DOMAIN approvals = {}
          /\ \A l \in Legs : leg[l].pc = "off"
          /\ \A k \in Calls : past.effects[k] = 0
      BY DEF Init, Rest
    <2> QED BY <2>1
               DEF Written, Once, NothingAhead, NothingAfterRecord, DoneOnce, Executing, InCall
  <1>2. /\ Typed /\ Fenced /\ Beginning /\ Recorded /\ Written /\ Once
        /\ [Next]_vars
        => Written' /\ Once'
    BY NextTyped, NextWritten, NextOnce
  <1> QED BY <1>1, <1>2, RecordedAlways, PTL DEF Spec

\* As long as no heartbeat stalls a side-effecting call happens once, unless an operator forced
\* a replay or a leg started from a stale reading of the run: a scan replays only what the journal
\* shows to be untried, and a resume continues right after the tenure that was parked.
THEOREM NothingTwice == Spec => [](faults.stalls = 0 => NoAutoDuplicate)
  <1>1. Typed /\ Once => (faults.stalls = 0 => NoAutoDuplicate)
    <2> SUFFICES ASSUME Typed, Once, faults.stalls = 0, NEW k \in Calls, Duplicated(k)
                 PROVE  past.excuses # {}
      BY DEF NoAutoDuplicate
    <2>1. past.effects[k] \in Int /\ past.effects[k] > 1 /\ SideEffecting(k)
      BY Fields DEF Typed, Duplicated
    <2> QED BY <2>1 DEF Once, DoneOnce, NoStalls, NoExcuses
  <1> QED BY <1>1, OnceAlways, PTL

----------------------------------------------------------------------------
(* The terminal, even when heartbeats stall and two legs execute. *)

\* The leg is executing the terminal: its intent is open.
Launched(l) == leg[l].pc = "open" /\ leg[l].step = Terminal

\* A leg that has the answer of the terminal.
Passed(l) == leg[l].pc \in {"done", "settling", "called"} /\ leg[l].step = Terminal

\* A leg that has not come to the terminal yet.
Before(l) ==
    /\ leg[l].pc \in Executing
    /\ ~(leg[l].step = Terminal /\ leg[l].pc \in {"open", "done", "called", "proof"})

\* The lease is held and unexpired from the confirm to the beginning of the terminal.
Confirmed == \A l \in Legs : Launching(l) => Holds(l) /\ lease.live

\* Under the current fence, a leg that has not come to the terminal finds it untried, ...
FreshTenure == NoExcuses => \A l \in Legs : Holds(l) /\ Before(l) => ~Tried(Terminal)

\* ... and so will a resume whose record is of the last tenure.
FreshRecord ==
    NoExcuses => \A i \in DOMAIN approvals : approvals[i].fence = lease.fence => ~Tried(Terminal)

\* So it is launched once.
OneLaunch ==
    NoExcuses => /\ \A l \in Legs : Launched(l) => past.effects[Terminal] = 0
                 /\ \A l, m \in Legs : Launched(l) /\ Launched(m) => l = m
                 /\ past.effects[Terminal] <= 1

\* Its answer is the answer of an effect.
Delivered == \A l \in Legs : Passed(l) => past.effects[Terminal] # 0

\* The terminal is launched once.
Launches == Confirmed /\ FreshTenure /\ FreshRecord /\ OneLaunch /\ Delivered

\* A leg comes no nearer to the terminal than it may, ...
Nears(l) ==
    /\ OnlyLeg(l) /\ approvals' = approvals /\ lease'.fence = lease.fence
    /\ past'.effects[Terminal] = past.effects[Terminal]
    /\ NoExcuses' => NoExcuses
    /\ lease.live => lease'.live \/ Holds(l)
    /\ leg'[l].fence \in {leg[l].fence, 0}
    /\ Launched(l)' => Launched(l)
    /\ Passed(l)' => Passed(l)
    /\ Launching(l)' => Holds(l)' /\ lease'.live
    /\ Before(l)' /\ NoExcuses' => Before(l) \/ ~Tried(Terminal)

\* ... or acquires the lease.
Retakes(l) ==
    /\ OnlyLeg(l) /\ approvals' = approvals
    /\ ~lease.live /\ lease'.fence = lease.fence + 1 /\ leg'[l].fence = lease.fence + 1
    /\ past'.effects = past.effects
    /\ NoExcuses' => NoExcuses
    /\ ~Launched(l)' /\ ~Launching(l)' /\ ~Passed(l)'
    /\ Before(l)' /\ NoExcuses' => ~Tried(Terminal)

\* The steps of a leg other than its launch of the terminal and its suspension.
LEMMA LegNears ==
    ASSUME Typed, Fenced, Written, NEW l \in Legs,
           \/ ReadOnlyCall(l) \/ ReserveIdempotency(l) \/ SkipDuplicate(l)
           \/ (BeginToolIntent(l) \/ Effect(l)) /\ leg[l].step # Terminal
           \/ CompleteToolIntent(l) \/ SettleIdempotency(l) \/ Checkpoint(l) \/ CallFails(l)
           \/ Park(l) \/ Finish(l) \/ (Recover(l) /\ ~Claim(l))
           \/ Scan(l) \/ Inspect(l) \/ GiveUp(l)
    PROVE  Nears(l)
  <1>0. /\ TypeOK /\ leg \in [Legs -> Leg] /\ lease \in LeaseRow /\ past \in Books
        /\ leg[l].pc \in PCs /\ leg[l].step \in Calls /\ leg[l] \in Leg
        /\ run.ckpt + 1 \in Calls /\ Terminal = Len(Plan) + 1 /\ Calls = 1 .. Len(Plan) + 1
        /\ Len(Plan) \in Nat /\ run.ckpt \in 0 .. Len(Plan) /\ Terminal \in Calls
        /\ leg[l].pc \in Renewing => leg[l].fence # 0
    BY Fields DEF Typed, Fenced, FencesByPhase
  <1> USE DEF Nears, NoExcuses, Launched, Launching, Passed, Stays, PCs
  <1>1. ASSUME ReadOnlyCall(l) PROVE Nears(l)
    <2>1. /\ OnlyLeg(l) /\ leg'[l].fence = leg[l].fence /\ leg'[l].step = leg[l].step
          /\ leg'[l].pc # "enter" /\ (leg'[l].pc = "open" => leg[l].step # Terminal)
          /\ leg[l].pc \in InCall
      BY <1>0, <1>1, GoesTo DEF ReadOnlyCall, InCall
    <2>2. /\ past'.effects[Terminal] = past.effects[Terminal]
          /\ past'.excuses = past.excuses /\ lease' = lease /\ approvals' = approvals
      BY <1>0, <1>1 DEF ReadOnlyCall
    <2>3. Before(l)' => Before(l)
      BY <1>0, <1>1, <2>1, GoesTo DEF ReadOnlyCall, Before, Executing, InCall, Kind
    <2>4. Passed(l)' => Passed(l)
      BY <1>0, <1>1, <2>1, GoesTo DEF ReadOnlyCall, Kind, InCall
    <2> QED BY <2>1, <2>2, <2>3, <2>4
  <1>2. ASSUME ReserveIdempotency(l) PROVE Nears(l)
    <2>1. /\ OnlyLeg(l) /\ leg'[l].fence = leg[l].fence /\ leg'[l].step = leg[l].step
          /\ leg'[l].pc # "enter" /\ (leg'[l].pc = "open" => leg[l].step # Terminal)
          /\ leg[l].pc \in InCall
      BY <1>0, <1>2, GoesTo DEF ReserveIdempotency, InCall
    <2>2. /\ past'.effects[Terminal] = past.effects[Terminal]
          /\ past'.excuses = past.excuses /\ lease' = lease /\ approvals' = approvals
      BY <1>0, <1>2 DEF ReserveIdempotency
    <2>3. Before(l)' => Before(l)
      BY <1>0, <1>2, <2>1, GoesTo DEF ReserveIdempotency, Before, Executing, InCall, Kind
    <2>4. Passed(l)' => Passed(l)
      BY <1>0, <1>2, <2>1, GoesTo DEF ReserveIdempotency, Kind, InCall
    <2> QED BY <2>1, <2>2, <2>3, <2>4
  <1>3. ASSUME SkipDuplicate(l) PROVE Nears(l)
    <2>1. /\ OnlyLeg(l) /\ leg'[l].fence = leg[l].fence /\ leg'[l].step = leg[l].step
          /\ leg'[l].pc # "enter" /\ (leg'[l].pc = "open" => leg[l].step # Terminal)
          /\ leg[l].pc \in InCall
      BY <1>0, <1>3, GoesTo DEF SkipDuplicate, InCall
    <2>2. /\ past'.effects[Terminal] = past.effects[Terminal]
          /\ past'.excuses = past.excuses /\ lease' = lease /\ approvals' = approvals
      BY <1>0, <1>3 DEF SkipDuplicate
    <2>3. Before(l)' => Before(l)
      BY <1>0, <1>3, <2>1, GoesTo DEF SkipDuplicate, Before, Executing, InCall, Kind
    <2>4. Passed(l)' => Passed(l)
      BY <1>0, <1>3, <2>1, GoesTo DEF SkipDuplicate, Kind, InCall
    <2> QED BY <2>1, <2>2, <2>3, <2>4
  <1>4. ASSUME BeginToolIntent(l), leg[l].step # Terminal PROVE Nears(l)
    <2>1. /\ OnlyLeg(l) /\ leg'[l].fence = leg[l].fence /\ leg'[l].step = leg[l].step
          /\ leg'[l].pc # "enter" /\ (leg'[l].pc = "open" => leg[l].step # Terminal)
          /\ leg[l].pc \in InCall
      BY <1>0, <1>4, GoesTo DEF BeginToolIntent, InCall
    <2>2. /\ past'.effects[Terminal] = past.effects[Terminal]
          /\ past'.excuses = past.excuses /\ lease' = lease /\ approvals' = approvals
      BY <1>0, <1>4 DEF BeginToolIntent
    <2>3. Before(l)' => Before(l)
      BY <1>0, <1>4, <2>1, GoesTo DEF BeginToolIntent, Before, Executing, InCall, Kind
    <2>4. Passed(l)' => Passed(l)
      BY <1>0, <1>4, <2>1, GoesTo DEF BeginToolIntent, Kind, InCall
    <2> QED BY <2>1, <2>2, <2>3, <2>4
  <1>5. ASSUME Effect(l), leg[l].step # Terminal PROVE Nears(l)
    <2>1. /\ OnlyLeg(l) /\ leg'[l].fence = leg[l].fence /\ leg'[l].step = leg[l].step
          /\ leg'[l].pc # "enter" /\ (leg'[l].pc = "open" => leg[l].step # Terminal)
          /\ leg[l].pc \in InCall
      BY <1>0, <1>5, GoesTo DEF Effect, InCall
    <2>2. /\ past'.effects[Terminal] = past.effects[Terminal]
          /\ past'.excuses = past.excuses /\ lease' = lease /\ approvals' = approvals
      BY <1>0, <1>5, CountedBooks DEF Effect
    <2>3. Before(l)' => Before(l)
      BY <1>0, <1>5, <2>1, GoesTo DEF Effect, Before, Executing, InCall, Kind
    <2>4. Passed(l)' => Passed(l)
      BY <1>0, <1>5, <2>1, GoesTo DEF Effect, Kind, InCall
    <2> QED BY <2>1, <2>2, <2>3, <2>4
  <1>6. ASSUME CompleteToolIntent(l) PROVE Nears(l)
    <2>1. /\ OnlyLeg(l) /\ leg'[l].fence = leg[l].fence /\ leg'[l].step = leg[l].step
          /\ leg'[l].pc # "enter" /\ (leg'[l].pc = "open" => leg[l].step # Terminal)
          /\ leg[l].pc \in InCall
      BY <1>0, <1>6, GoesTo DEF CompleteToolIntent, InCall
    <2>2. /\ past'.effects[Terminal] = past.effects[Terminal]
          /\ past'.excuses = past.excuses /\ lease' = lease /\ approvals' = approvals
      BY <1>0, <1>6 DEF CompleteToolIntent
    <2>3. Before(l)' => Before(l)
      BY <1>0, <1>6, <2>1, GoesTo DEF CompleteToolIntent, Before, Executing, InCall, Kind
    <2>4. Passed(l)' => Passed(l)
      BY <1>0, <1>6, <2>1, GoesTo DEF CompleteToolIntent, Kind, InCall
    <2> QED BY <2>1, <2>2, <2>3, <2>4
  <1>7. ASSUME SettleIdempotency(l) PROVE Nears(l)
    <2>1. /\ OnlyLeg(l) /\ leg'[l].fence = leg[l].fence /\ leg'[l].step = leg[l].step
          /\ leg'[l].pc # "enter" /\ (leg'[l].pc = "open" => leg[l].step # Terminal)
          /\ leg[l].pc \in InCall
      BY <1>0, <1>7, GoesTo DEF SettleIdempotency, InCall
    <2>2. /\ past'.effects[Terminal] = past.effects[Terminal]
          /\ past'.excuses = past.excuses /\ lease' = lease /\ approvals' = approvals
      BY <1>0, <1>7 DEF SettleIdempotency
    <2>3. Before(l)' => Before(l)
      BY <1>0, <1>7, <2>1, GoesTo DEF SettleIdempotency, Before, Executing, InCall, Kind
    <2>4. Passed(l)' => Passed(l)
      BY <1>0, <1>7, <2>1, GoesTo DEF SettleIdempotency, Kind, InCall
    <2> QED BY <2>1, <2>2, <2>3, <2>4
  <1>8. ASSUME Checkpoint(l) PROVE Nears(l)
    <2>1. leg[l].step + 1 \in Calls
      BY <1>0, <1>8 DEF Checkpoint
    <2>2. /\ OnlyLeg(l) /\ leg'[l].fence = leg[l].fence
          /\ leg'[l].pc \notin {"open", "done", "settling", "called"}
          /\ ~(leg'[l].pc = "enter" /\ leg'[l].step = Terminal)
      BY <1>0, <1>8, <2>1, BeginsAt DEF Checkpoint
    <2>3. Before(l)
      BY <1>8 DEF Checkpoint, Before, Executing, InCall
    <2> QED BY <1>8, <2>2, <2>3 DEF Checkpoint
  <1>9. ASSUME CallFails(l) PROVE Nears(l)
    BY <1>0, <1>9, EndsIn DEF CallFails, Before, Executing, InCall
  <1>10. ASSUME Park(l) PROVE Nears(l)
    BY <1>0, <1>10, GoesTo DEF Park, Before, Executing, InCall
  <1>11. ASSUME Confirm(l) PROVE Nears(l)
    <2>1. Holds(l) /\ leg[l].pc = "confirm"
      BY <1>0, <1>11 DEF Confirm, Holds, Renewing, Executing
    <2>2. Before(l)
      BY <2>1 DEF Before, Executing
    <2>3. OnlyLeg(l) /\ leg'[l].fence = leg[l].fence /\ leg'[l].pc = "enter"
      BY <1>0, <1>11, GoesTo DEF Confirm
    <2>4. lease'.fence = lease.fence /\ lease'.live
      BY <1>0, <1>11, LeaseRows DEF Confirm
    <2> QED BY <1>11, <2>1, <2>2, <2>3, <2>4 DEF Confirm, Holds, Current
  <1>12. ASSUME ConfirmFails(l) PROVE Nears(l)
    BY <1>0, <1>12, EndsIn DEF ConfirmFails, Before, Executing, InCall
  <1>13. ASSUME SettleTrigger(l) PROVE Nears(l)
    BY <1>0, <1>13, GoesTo, MarkedBooks DEF SettleTrigger, Before, Executing, InCall
  <1>14. ASSUME StopAndConfirm(l) PROVE Nears(l)
    BY <1>0, <1>14, EndsIn, LeaseRows DEF StopAndConfirm, Before, Executing, InCall
  <1>15. ASSUME ProofFails(l) PROVE Nears(l)
    BY <1>0, <1>15, EndsIn DEF ProofFails, Before, Executing, InCall
  <1>16. ASSUME ResolveTrigger(l) PROVE Nears(l)
    BY <1>0, <1>16, GoesTo DEF ResolveTrigger, Before, Executing, InCall
  <1>17. ASSUME SaveOutcome(l) PROVE Nears(l)
    BY <1>0, <1>17, GoesTo DEF SaveOutcome, Before, Executing, InCall
  <1>18. ASSUME PruneRunJournal(l) PROVE Nears(l)
    BY <1>0, <1>18, GoesTo DEF PruneRunJournal, Before, Executing, InCall
  <1>19. ASSUME Release(l) PROVE Nears(l)
    BY <1>0, <1>19, RestsNow, LeaseRows DEF Release, Before, Executing, InCall
  <1>20. ASSUME RunActive(l) PROVE Nears(l)
    BY <1>0, <1>20, RestsNow DEF RunActive, Before, Executing, InCall
  <1>21. ASSUME RecheckApprovals(l) PROVE Nears(l)
    BY <1>0, <1>21, GoesTo DEF RecheckApprovals, Before, Executing, InCall
  <1>22. ASSUME LeaveClaim(l) PROVE Nears(l)
    BY <1>0, <1>22, GoesTo DEF LeaveClaim, Before, Executing, InCall
  <1>23. ASSUME Abandon(l) PROVE Nears(l)
    BY <1>0, <1>23, GoesTo DEF Abandon, Before, Executing, InCall
  <1>24. ASSUME FailLoudly(l) PROVE Nears(l)
    BY <1>0, <1>24, GoesTo DEF FailLoudly, Before, Executing, InCall
  <1>25. ASSUME Replay(l) PROVE Nears(l)
    <2>1. /\ OnlyLeg(l) /\ leg'[l].fence = leg[l].fence
          /\ leg'[l].pc \notin {"open", "done", "settling", "called"}
          /\ ~(leg'[l].pc = "enter" /\ leg'[l].step = Terminal)
      BY <1>0, <1>25, ReplaysAt DEF Replay
    <2>2. /\ past'.effects = past.effects /\ past.excuses \subseteq past'.excuses
          /\ NoExcuses' => run.status = "running"
      BY <1>0, <1>25, ExcusedBooks DEF Replay
    <2>3. ASSUME NoExcuses' PROVE ~Tried(Terminal)
      <3>1. Tried(Terminal) => Known(Terminal)
        BY <1>0, <2>2, <2>3 DEF Written
      <3>2. ~Known(Terminal)
        <4> SUFFICES ASSUME NEW j \in run.intents, j.step = Terminal PROVE FALSE
          BY <1>0 DEF Known
        <4>1. Kind(Terminal) = "effect" /\ Terminal > run.ckpt
          BY <1>0 DEF Kind
        <4> QED BY <1>25, <4>1 DEF Replay, Blocked
      <3> QED BY <3>1, <3>2
    <2> QED BY <1>25, <2>1, <2>2, <2>3 DEF Replay
  <1>26. ASSUME ForcedReplay(l) PROVE Nears(l)
    <2>1. /\ OnlyLeg(l) /\ leg'[l].fence = leg[l].fence
          /\ leg'[l].pc \notin {"open", "done", "settling", "called"}
          /\ ~(leg'[l].pc = "enter" /\ leg'[l].step = Terminal)
      BY <1>0, <1>26, ReplaysAt DEF ForcedReplay
    <2>2. "forced" \in past'.excuses /\ past'.effects = past.effects
      BY <1>0, <1>26, ExcusedBooks DEF ForcedReplay
    <2> QED BY <1>26, <2>1, <2>2 DEF ForcedReplay
  <1>27. ASSUME Scan(l) PROVE Nears(l)
    BY <1>0, <1>27, GoesTo DEF Scan, Before, Executing, InCall
  <1>28. ASSUME Inspect(l) PROVE Nears(l)
    BY <1>0, <1>28, GoesTo DEF Inspect, Before, Executing, InCall
  <1>29. ASSUME GiveUp(l) PROVE Nears(l)
    BY <1>0, <1>29, RestsNow DEF GiveUp, Before, Executing, InCall
  <1> QED BY <1>1, <1>2, <1>3, <1>4, <1>5, <1>6, <1>7, <1>8, <1>9, <1>10, <1>11, <1>12, <1>13,
     <1>14, <1>15, <1>16, <1>17, <1>18, <1>19, <1>20, <1>21, <1>22, <1>23, <1>24, <1>25, <1>26,
     <1>27, <1>28, <1>29 DEF Finish, Recover, Resume

\* The acquisitions: a live run, a recovery, and a resume that starts at its record.
LEMMA LegRetakes ==
    ASSUME Typed, Recorded, Launches, NEW l \in Legs,
           (AcquireRunLease /\ l = Live) \/ Claim(l) \/ AcquireResume(l)
    PROVE  Retakes(l)
  <1>0. /\ leg \in [Legs -> Leg] /\ lease \in LeaseRow /\ past \in Books
        /\ leg[l].pc \in PCs /\ leg[l].step \in Calls
        /\ Terminal = Len(Plan) + 1 /\ Len(Plan) \in Nat
    BY Fields DEF Typed
  <1> USE DEF Retakes, NoExcuses, Launched, Launching, Passed, Before
  <1>1. CASE AcquireRunLease /\ l = Live
    BY <1>0, <1>1, Takes DEF AcquireRunLease, PCs, Executing, InCall
  <1>2. CASE Claim(l)
    BY <1>0, <1>2, Takes DEF Claim, PCs, Executing, InCall
  <1>3. CASE AcquireResume(l)
    <2>1. /\ OnlyLeg(l) /\ leg'[l].pc = "enter" /\ leg'[l].step = leg[l].step
          /\ ~lease.live /\ lease'.fence = lease.fence + 1 /\ leg'[l].fence = lease.fence + 1
      BY <1>0, <1>3, Takes DEF AcquireResume, PCs
    <2>2. /\ past'.effects = past.effects /\ past.excuses \subseteq past'.excuses
          /\ NoExcuses' => lease.fence = approvals[leg[l].approval].fence
      BY <1>0, <1>3, ExcusedBooks DEF AcquireResume
    <2>3. leg[l].approval \in DOMAIN approvals /\ leg[l].step = approvals[leg[l].approval].step
      BY <1>3 DEF AcquireResume, Recorded, ResumesApproved
    <2>4. leg[l].step # Terminal
      BY <2>3 DEF Recorded, RecordsGranted, Kind
    <2>5. NoExcuses' => ~Tried(Terminal)
      BY <2>2, <2>3 DEF Launches, FreshRecord
    <2> QED BY <1>3, <2>1, <2>2, <2>4, <2>5 DEF AcquireResume
  <1> QED BY <1>1, <1>2, <1>3

\* Every step keeps the terminal to one launch.
LEMMA NextLaunches ==
    /\ Typed /\ Typed' /\ Fenced /\ Beginning /\ Recorded /\ Written /\ Launches
    /\ [Next]_vars
    => Launches'
  <1> SUFFICES ASSUME Typed, Typed', Fenced, Beginning, Recorded, Written, Launches, [Next]_vars
               PROVE  Launches'
    OBVIOUS
  <1>0. /\ TypeOK /\ leg \in [Legs -> Leg] /\ past \in Books /\ lease \in LeaseRow
        /\ \A l \in Legs : leg[l].pc \in PCs /\ leg[l].step \in Calls /\ leg[l].fence \in Nat
        /\ \A l \in Legs : leg[l].fence <= lease.fence
        /\ \A l \in Legs : leg[l].pc \in Renewing => leg[l].fence # 0
        /\ \A l, m \in Legs : Holds(l) /\ Holds(m) => l = m
        /\ lease.fence \in Nat /\ lease.live \in BOOLEAN
        /\ \A i \in DOMAIN approvals : approvals[i].fence <= lease.fence
        /\ past.effects \in [Calls -> 0 .. 2]
        /\ Live \in Legs /\ 1 \in Calls /\ Terminal \in Calls
        /\ Terminal = Len(Plan) + 1 /\ Calls = 1 .. Len(Plan) + 1 /\ Len(Plan) \in Nat
        /\ DOMAIN approvals = 1 .. Len(approvals) /\ Len(approvals) \in Nat
        /\ \A i \in DOMAIN approvals : approvals[i] \in Approvals
        /\ \A r \in Resumes : r \in Legs
    <2>1. \A l, m \in Legs : Holds(l) /\ Holds(m) => l = m
      BY DEF Holds, Current, Fenced, FencesUnique
    <2>2. \A i \in DOMAIN approvals : approvals[i].fence <= lease.fence
      BY Fields DEF Typed, Recorded, RecordsGranted
    <2> QED BY <2>1, <2>2, Fields DEF Typed, Fenced, FencesGranted, FencesByPhase, Legs
  <1>1. ASSUME NEW l \in Legs, Nears(l) PROVE Launches'
    <2>0. /\ OnlyLeg(l) /\ approvals' = approvals /\ lease'.fence = lease.fence
          /\ past'.effects[Terminal] = past.effects[Terminal] /\ (NoExcuses' => NoExcuses)
          /\ \A m \in Legs : m # l => leg'[m] = leg[m]
      BY <1>1 DEF Nears, OnlyLeg
    <2>1. \A m \in Legs : Launched(m)' => Launched(m)
      BY <1>1, <2>0 DEF Nears, Launched
    <2>2. Tried(Terminal)' => Tried(Terminal)
      BY <2>0, <2>1 DEF Tried, Launched
    <2>3. Confirmed'
      <3> SUFFICES ASSUME NEW m \in Legs, Launching(m)' PROVE Holds(m)' /\ lease'.live
        BY DEF Confirmed
      <3>1. CASE m = l
        BY <1>1, <3>1 DEF Nears
      <3>2. CASE m # l
        <4>1. Launching(m) /\ Holds(m) /\ lease.live
          BY <2>0, <3>2 DEF Launching, Launches, Confirmed
        <4>2. ~Holds(l)
          BY <1>0, <3>2, <4>1
        <4> QED BY <1>1, <2>0, <3>2, <4>1, <4>2 DEF Nears, Holds, Current
      <3> QED BY <3>1, <3>2
    <2>4. FreshTenure'
      <3> SUFFICES ASSUME NoExcuses', NEW m \in Legs, Holds(m)', Before(m)'
                   PROVE  ~Tried(Terminal)'
        BY DEF FreshTenure
      <3>1. CASE m # l
        BY <2>0, <2>2, <3>1 DEF Holds, Current, Before, Launches, FreshTenure
      <3>2. CASE m = l
        BY <1>1, <2>0, <2>2, <3>2 DEF Nears, Holds, Current, Launches, FreshTenure
      <3> QED BY <3>1, <3>2
    <2>5. FreshRecord'
      BY <2>0, <2>2 DEF Launches, FreshRecord
    <2>6. OneLaunch'
      BY <2>0, <2>1 DEF Launches, OneLaunch
    <2>7. Delivered'
      BY <1>1, <2>0 DEF Nears, Launches, Delivered, Passed
    <2> QED BY <2>3, <2>4, <2>5, <2>6, <2>7 DEF Launches
  <1>2. ASSUME NEW l \in Legs, Retakes(l) PROVE Launches'
    <2>0. /\ OnlyLeg(l) /\ approvals' = approvals /\ lease'.fence = lease.fence + 1
          /\ past'.effects[Terminal] = past.effects[Terminal] /\ (NoExcuses' => NoExcuses)
          /\ \A m \in Legs : m # l => leg'[m] = leg[m]
      BY <1>2 DEF Retakes, OnlyLeg
    <2>1. \A m \in Legs : Launched(m)' => Launched(m)
      BY <1>2, <2>0 DEF Retakes, Launched
    <2>2. Tried(Terminal)' => Tried(Terminal)
      BY <2>0, <2>1 DEF Tried, Launched
    <2>3. Confirmed'
      <3>1. \A m \in Legs : ~Launching(m)
        BY <1>2 DEF Retakes, Launches, Confirmed
      <3> QED BY <1>2, <2>0, <3>1 DEF Retakes, Confirmed, Launching
    <2>4. FreshTenure'
      <3> SUFFICES ASSUME NoExcuses', NEW m \in Legs, Holds(m)', Before(m)'
                   PROVE  ~Tried(Terminal)'
        BY DEF FreshTenure
      <3>1. m = l
        BY <1>0, <2>0 DEF Holds, Current
      <3> QED BY <1>2, <2>2, <3>1 DEF Retakes
    <2>5. FreshRecord'
      BY <1>0, <2>0 DEF FreshRecord
    <2>6. OneLaunch'
      BY <2>0, <2>1 DEF Launches, OneLaunch
    <2>7. Delivered'
      BY <1>2, <2>0 DEF Retakes, Launches, Delivered, Passed
    <2> QED BY <2>3, <2>4, <2>5, <2>6, <2>7 DEF Launches
  <1>3. ASSUME NEW l \in Legs, BeginToolIntent(l), leg[l].step = Terminal PROVE Launches'
    <2>1. /\ OnlyLeg(l) /\ leg'[l].fence = leg[l].fence /\ leg'[l].step = Terminal
          /\ leg'[l].pc = "open" /\ leg[l].pc = "enter"
          /\ past' = past /\ approvals' = approvals /\ lease' = lease
      <3>1. leg[l].pc = "enter"
        BY <1>3 DEF BeginToolIntent, Kind
      <3> QED BY <1>0, <1>3, <3>1, GoesTo DEF BeginToolIntent, Stays, PCs
    <2>2. Holds(l) /\ Before(l)
      BY <1>3, <2>1 DEF Launching, Launches, Confirmed, Before, Executing, InCall
    <2>3. NoExcuses => ~Tried(Terminal)
      BY <2>2 DEF Launches, FreshTenure
    <2>4. \A m \in Legs : m # l => leg'[m] = leg[m]
      BY <2>1 DEF OnlyLeg
    <2>5. Confirmed'
      BY <2>1, <2>4 DEF Launches, Confirmed, Launching, Holds, Current
    <2>6. FreshTenure'
      <3>1. \A m \in Legs : Holds(m)' => m = l
        BY <1>0, <2>1, <2>2, <2>4 DEF Holds, Current
      <3>2. ~Before(l)'
        BY <2>1 DEF Before
      <3> QED BY <3>1, <3>2 DEF FreshTenure
    <2>7. FreshRecord'
      <3>1. \A i \in DOMAIN approvals : approvals[i].fence # lease.fence
        BY <2>1, <2>2 DEF Holds, Current, Recorded, RecordsEndTenures, Renewing, Executing, InCall
      <3> QED BY <2>1, <3>1 DEF FreshRecord
    <2>8. OneLaunch'
      <3>1. NoExcuses => past.effects[Terminal] = 0 /\ \A m \in Legs : ~Launched(m)
        BY <2>3 DEF Tried, Launched
      <3>2. \A m \in Legs : m # l => Launched(m)' = Launched(m)
        BY <2>4 DEF Launched
      <3> QED BY <2>1, <3>1, <3>2 DEF OneLaunch, NoExcuses
    <2>9. Delivered'
      BY <2>1, <2>4 DEF Launches, Delivered, Passed
    <2> QED BY <2>5, <2>6, <2>7, <2>8, <2>9 DEF Launches
  <1>4. ASSUME NEW l \in Legs, Effect(l), leg[l].step = Terminal PROVE Launches'
    <2>1. /\ OnlyLeg(l) /\ leg'[l].fence = leg[l].fence /\ leg'[l].step = Terminal
          /\ leg'[l].pc = "done" /\ leg[l].pc = "open"
          /\ approvals' = approvals /\ lease' = lease
          /\ past'.excuses = past.excuses
          /\ past.effects[Terminal] = 0 => past'.effects[Terminal] = 1
          /\ past'.effects[Terminal] # 0
      <3>1. /\ leg[l].pc = "open" /\ Goes(l, "done") /\ past' = Counted(leg[l].step)
            /\ approvals' = approvals /\ lease' = lease /\ "done" \in PCs
        BY <1>4 DEF Effect, PCs
      <3>2. /\ OnlyLeg(l) /\ leg'[l].fence = leg[l].fence /\ leg'[l].step = Terminal
            /\ leg'[l].pc = "done"
        BY <1>0, <1>4, <3>1, GoesTo DEF Stays
      <3>3. /\ past'.excuses = past.excuses
            /\ past.effects[Terminal] = 0 => past'.effects[Terminal] = 1
            /\ past'.effects[Terminal] # 0
        <4>1. Terminal \in Calls /\ past \in Books /\ past' = Counted(Terminal)
          BY <1>0, <1>4, <3>1
        <4>2. past.effects[Terminal] \in 0 .. 2
          BY <4>1 DEF Books
        <4> QED BY <4>1, <4>2, CountedBooks
      <3> QED BY <3>1, <3>2, <3>3
    <2>2. \A m \in Legs : m # l => leg'[m] = leg[m]
      BY <2>1 DEF OnlyLeg
    <2>3. Tried(Terminal)
      BY <1>4, <2>1 DEF Tried
    <2>4. Confirmed'
      BY <2>1, <2>2 DEF Launches, Confirmed, Launching, Holds, Current
    <2>5. FreshTenure'
      <3>1. \A m \in Legs : Holds(m)' /\ Before(m)' => Holds(m) /\ Before(m)
        BY <2>1, <2>2 DEF Holds, Current, Before
      <3> QED BY <2>1, <2>3, <3>1 DEF Launches, FreshTenure, NoExcuses
    <2>6. FreshRecord'
      BY <2>1, <2>3 DEF Launches, FreshRecord, NoExcuses
    <2>7. OneLaunch'
      <3>1. NoExcuses => past.effects[Terminal] = 0 /\ \A m \in Legs : Launched(m) => m = l
        BY <1>4, <2>1 DEF Launches, OneLaunch, Launched
      <3>2. \A m \in Legs : Launched(m)' => m # l /\ Launched(m)
        BY <2>1, <2>2 DEF Launched
      <3> QED BY <2>1, <3>1, <3>2 DEF OneLaunch, NoExcuses
    <2>8. Delivered'
      BY <2>1 DEF Delivered
    <2> QED BY <2>4, <2>5, <2>6, <2>7, <2>8 DEF Launches
  <1>5. ASSUME NEW l \in Legs, Suspend(l) PROVE Launches'
    <2> DEFINE n == Len(approvals) + 1
    <2>1. leg[l].pc = "enter" /\ past' = past /\ lease' = lease /\ leg[l].step # Terminal
      BY <1>5 DEF Suspend, Authorized, Kind
    <2>2. /\ OnlyLeg(l) /\ leg'[l].step = leg[l].step /\ leg'[l].pc = "parking"
          /\ leg'[l].fence = leg[l].fence
          /\ DOMAIN approvals' = 1 .. n
          /\ \A i \in DOMAIN approvals : approvals'[i] = approvals[i]
          /\ approvals'[n].fence = leg[l].fence
      BY <1>0, <1>5, Suspends
    <2>3. DOMAIN approvals' = DOMAIN approvals \cup {n}
      BY <1>0, <2>2
    <2> HIDE DEF n
    <2>4. Before(l) /\ leg[l].fence # 0
      BY <1>0, <2>1 DEF Before, Renewing, Executing, InCall
    <2>5. \A m \in Legs : m # l => leg'[m] = leg[m]
      BY <2>2 DEF OnlyLeg
    <2>6. Tried(Terminal)' = Tried(Terminal) /\ \A m \in Legs : Launched(m)' = Launched(m)
      BY <2>1, <2>2, <2>5 DEF Tried, Launched
    <2>7. Confirmed'
      BY <2>1, <2>2, <2>5 DEF Launches, Confirmed, Launching, Holds, Current
    <2>8. FreshTenure'
      <3>1. \A m \in Legs : Holds(m)' /\ Before(m)' => Holds(m) /\ Before(m)
        BY <2>1, <2>2, <2>4, <2>5 DEF Holds, Current, Before
      <3> QED BY <2>1, <2>6, <3>1 DEF Launches, FreshTenure, NoExcuses
    <2>9. FreshRecord'
      <3>1. NoExcuses /\ leg[l].fence = lease.fence => ~Tried(Terminal)
        BY <2>4 DEF Launches, FreshTenure, Holds, Current
      <3> QED BY <2>1, <2>2, <2>3, <2>6, <3>1 DEF Launches, FreshRecord, NoExcuses
    <2>10. OneLaunch'
      BY <2>1, <2>6 DEF Launches, OneLaunch, NoExcuses
    <2>11. Delivered'
      BY <2>1, <2>2, <2>5 DEF Launches, Delivered, Passed
    <2> QED BY <2>7, <2>8, <2>9, <2>10, <2>11 DEF Launches
  <1>6. ASSUME lease'.fence = lease.fence,
               lease.live => lease'.live \/ \A l \in Legs : ~Launching(l),
               past'.effects = past.effects, past'.excuses = past.excuses,
               DOMAIN approvals' = DOMAIN approvals,
               \A i \in DOMAIN approvals : approvals'[i].fence = approvals[i].fence,
               \A l \in Legs : \/ /\ leg'[l].pc = leg[l].pc /\ leg'[l].step = leg[l].step
                                  /\ leg'[l].fence = leg[l].fence
                               \/ leg'[l].pc \notin Executing
        PROVE  Launches'
    <2>1. \A l \in Legs : /\ Launched(l)' => Launched(l)
                          /\ Launching(l)' => Launching(l) /\ Holds(l)' = Holds(l)
                          /\ Before(l)' => Before(l) /\ Holds(l)' = Holds(l)
      BY <1>6 DEF Launched, Launching, Before, Holds, Current, Executing, InCall
    <2>2. Tried(Terminal)' => Tried(Terminal)
      BY <1>0, <1>6, <2>1 DEF Tried, Launched
    <2>3. Confirmed'
      BY <1>6, <2>1 DEF Launches, Confirmed
    <2>4. FreshTenure' /\ FreshRecord'
      BY <1>6, <2>1, <2>2 DEF Launches, FreshTenure, FreshRecord, NoExcuses
    <2>5. OneLaunch'
      BY <1>6, <2>1 DEF Launches, OneLaunch, NoExcuses
    <2>6. Delivered'
      BY <1>6 DEF Launches, Delivered, Passed, Executing, InCall
    <2> QED BY <2>3, <2>4, <2>5, <2>6 DEF Launches
  <1>7. CASE SaveExecution
    BY <1>0, <1>6, <1>7, GoesTo DEF SaveExecution, Stays, OnlyLeg, PCs, Executing, InCall
  <1>8. CASE SaveRunJournal
    <2>0. ~past.journaled
      BY <1>0, <1>8 DEF SaveRunJournal, Beginning
    <2>1. \A k \in Calls : past.effects[k] = 0
      BY <1>0, <2>0 DEF Beginning, Untouched
    <2>2. \A m \in Legs : leg[m].pc # "open"
      BY <1>0, <2>0 DEF Beginning, Untouched, Finishing
    <2>3. /\ OnlyLeg(Live) /\ leg'[Live].fence = leg[Live].fence
          /\ leg'[Live].pc \notin {"open", "done", "settling", "called"}
          /\ ~(leg'[Live].pc = "enter" /\ leg'[Live].step = Terminal)
      BY <1>0, <1>8, BeginsAt DEF SaveRunJournal, Stays
    <2>4. past'.effects = past.effects /\ past'.excuses = past.excuses
      BY <1>0, <1>8, MarkedBooks DEF SaveRunJournal
    <2>5. Nears(Live)
      BY <1>0, <1>8, <2>1, <2>2, <2>3, <2>4
         DEF SaveRunJournal, Nears, Tried, Launched, Launching, Passed, NoExcuses
    <2> QED BY <1>0, <1>1, <2>5
  <1>9. CASE StartFails
    BY <1>0, <1>6, <1>9, EndsIn DEF StartFails, Stays, OnlyLeg, Executing, InCall
  <1>10. ASSUME NEW i \in DOMAIN approvals, NEW h \in Hosts, Approve(i, h) PROVE Launches'
    <2>1. \A l \in Legs : leg'[l] = leg[l] \/ leg'[l].pc \notin Executing
      <3> SUFFICES ASSUME leg' # leg
                   PROVE  \A l \in Legs : leg'[l] = leg[l] \/ leg'[l].pc \notin Executing
        OBVIOUS
      <3>1. PICK r \in Resumes :
               leg' = [leg EXCEPT ![r].pc = "acquiring", ![r].approval = i,
                                  ![r].step = approvals[i].step]
        BY <1>10 DEF Approve
      <3> QED BY <1>0, <3>1, ResumeStarts DEF OnlyLeg, Executing, InCall
    <2>2. /\ DOMAIN approvals' = DOMAIN approvals /\ past' = past /\ lease' = lease
          /\ \A j \in DOMAIN approvals : approvals'[j].fence = approvals[j].fence
      BY <1>0, <1>10, Decided DEF Approve
    <2> QED BY <1>6, <2>1, <2>2
  <1>11. ASSUME NEW i \in DOMAIN approvals, Deny(i) PROVE Launches'
    <2>1. /\ DOMAIN approvals' = DOMAIN approvals /\ past' = past /\ leg' = leg /\ lease' = lease
          /\ \A j \in DOMAIN approvals : approvals'[j].fence = approvals[j].fence
      BY <1>0, <1>11, Decided DEF Deny
    <2> QED BY <1>6, <2>1
  <1>12. CASE RetentionSweep \/ UNCHANGED vars
    BY <1>6, <1>12 DEF RetentionSweep, vars
  <1>13. ASSUME NEW l \in Legs, Renew(l) PROVE Launches'
    BY <1>0, <1>6, <1>13, LeaseRows DEF Renew
  <1>14. CASE Expire
    <2>1. \A l \in Legs : ~Launching(l)
      <3>1. CASE \A l \in Legs : ~Holds(l)
        BY <3>1 DEF Launches, Confirmed
      <3>2. CASE \E l \in Legs : Stall(l)
        BY <1>0, <3>2 DEF Stall, Launching, Launches, Confirmed
      <3> QED BY <1>14, <3>1, <3>2 DEF Expire
    <2>2. lease'.fence = lease.fence
      BY <1>0, <1>14 DEF Expire, LeaseRow
    <2> QED BY <1>6, <1>14, <2>1, <2>2 DEF Expire
  <1>15. ASSUME NEW l \in Legs, MarkLost(l) \/ RenewalErrs(l) PROVE Launches'
    <2>1. /\ OnlyLeg(l) /\ leg'[l].pc = leg[l].pc /\ leg'[l].step = leg[l].step
          /\ leg'[l].fence = leg[l].fence
      BY <1>0, <1>15, Loses DEF MarkLost, RenewalErrs, Stays
    <2>2. past' = past /\ approvals' = approvals /\ lease' = lease
      BY <1>15 DEF MarkLost, RenewalErrs
    <2> QED BY <1>6, <2>1, <2>2 DEF OnlyLeg
  <1>16. ASSUME NEW h \in Hosts, Crash(h) PROVE Launches'
    BY <1>6, <1>16, RestIsLeg DEF Crash, Executing, InCall
  <1> QED BY <1>1, <1>2, <1>3, <1>4, <1>5, <1>7, <1>8, <1>9, <1>10, <1>11, <1>12, <1>13, <1>14,
             <1>15, <1>16, <1>0, LegNears, LegRetakes
          DEF Next, Start, Call, Recover, Resume, Heartbeat

\* The terminal is launched once in every reachable state.
LEMMA LaunchesAlways ==
    Spec => [](Typed /\ Fenced /\ Beginning /\ Recorded /\ Written /\ Launches)
  <1>1. Init => Launches
    <2> SUFFICES ASSUME Init PROVE Launches
      OBVIOUS
    <2>1. /\ DOMAIN approvals = {} /\ \A l \in Legs : leg[l].pc = "off"
          /\ past.effects = [k \in Calls |-> 0]
      BY DEF Init, Rest
    <2>2. Terminal \in Calls
      BY PlanAssumption DEF Terminal, Calls
    <2> QED BY <2>1, <2>2
               DEF Launches, Confirmed, FreshTenure, FreshRecord, OneLaunch, Delivered, Passed,
                   Launching,
               Launched, Before, Executing, InCall
  <1>2. /\ Typed /\ Fenced /\ Beginning /\ Recorded /\ Written /\ Launches
        /\ [Next]_vars
        => Launches'
    BY NextTyped, NextLaunches
  <1> QED BY <1>1, <1>2, OnceAlways, PTL DEF Spec

\* Even when heartbeats stall and two legs execute at once, the terminal Push or Sink happens
\* once, unless an operator forced a replay or a leg started from a stale reading: nobody comes
\* to it without having renewed its lease, and the renewal is refused under an old fence.
THEOREM OneTerminal == Spec => []TerminalOnce
  <1>1. Typed /\ Launches => TerminalOnce
    <2> SUFFICES ASSUME Typed, Launches, Duplicated(Terminal) PROVE past.excuses # {}
      BY DEF TerminalOnce
    <2>1. Terminal \in Calls /\ past.effects \in [Calls -> 0 .. 2]
      BY Fields DEF Typed
    <2>2. past.effects[Terminal] \in Int /\ past.effects[Terminal] > 1
      BY <2>1 DEF Duplicated
    <2> QED BY <2>2 DEF Launches, OneLaunch, NoExcuses
  <1> QED BY <1>1, LaunchesAlways, PTL

----------------------------------------------------------------------------
(* The acknowledgement of the trigger. *)

\* Once the terminal returned success only the leg that made it executes, on its way out, ...
ProofIsLeft == \A l \in Legs : leg[l].pc \in Executing => leg[l].pc = "proof"

\* ... no leg is about to settle the trigger as failed, ...
NoneFails == \A l \in Legs : leg[l].pc = "resolve" => leg[l].ending # "failed"

\* ... and no record is of the last tenure.
RecordsPassed == \A i \in DOMAIN approvals : approvals[i].fence # lease.fence

\* An acknowledged run is on its way out.
Acknowledged ==
    past.acked /\ NoStalls /\ NoExcuses =>
        ProofIsLeft /\ NoneFails /\ RecordsPassed /\ past.effects[Terminal] # 0

\* Nothing that follows executes a call or fails the trigger, unless it is excused.
WindsUp(l) ==
    /\ OnlyLeg(l) /\ approvals' = approvals /\ past'.effects = past.effects
    /\ lease'.fence \in {lease.fence, lease.fence + 1}
    /\ NoExcuses' => /\ leg'[l].pc \in Executing => leg'[l].pc = "proof"
                     /\ leg'[l].pc = "resolve" => leg'[l].ending # "failed"
    /\ run'.trigger = "failed" => run.trigger = "failed"

\* The steps of the legs wind up an acknowledged run.
LEMMA LegWindsUp ==
    ASSUME Typed, Recorded, Written, Acknowledged, past.acked, NoStalls, NoExcuses,
           NEW l \in Legs,
           \/ Call(l) \/ Finish(l) \/ Recover(l) \/ Scan(l) \/ Inspect(l)
           \/ Heartbeat(l) \/ Resume(l)
    PROVE  WindsUp(l)
  <1>0. /\ TypeOK /\ leg \in [Legs -> Leg] /\ lease \in LeaseRow /\ run \in Run /\ past \in Books
        /\ leg[l].pc \in PCs /\ leg[l].step \in Calls /\ leg[l] \in Leg
        /\ run.ckpt + 1 \in Calls /\ Terminal = Len(Plan) + 1 /\ Calls = 1 .. Len(Plan) + 1
        /\ Len(Plan) \in Nat /\ run.ckpt \in 0 .. Len(Plan) /\ Terminal \in Calls
        /\ leg[l].pc \in Executing => leg[l].pc = "proof"
        /\ leg[l].pc = "resolve" => leg[l].ending # "failed"
    BY Fields DEF Typed, Acknowledged, ProofIsLeft, NoneFails
  <1> USE DEF WindsUp, NoExcuses, Stays, PCs, Executing, InCall
  <1>1. CASE Call(l)
    BY <1>0, <1>1
       DEF Call, ReadOnlyCall, ReserveIdempotency, SkipDuplicate, BeginToolIntent, Effect,
           CompleteToolIntent, SettleIdempotency, Checkpoint, CallFails, Suspend, Park
  <1>2. CASE Confirm(l) \/ ConfirmFails(l) \/ SettleTrigger(l)
    BY <1>0, <1>2 DEF Confirm, ConfirmFails, SettleTrigger
  <1>3. CASE StopAndConfirm(l)
    BY <1>0, <1>3, EndsIn, LeaseRows DEF StopAndConfirm
  <1>4. CASE ProofFails(l)
    BY <1>0, <1>4, EndsIn DEF ProofFails
  <1>5. CASE ResolveTrigger(l)
    <2>1. OnlyLeg(l) /\ leg'[l].pc = "save"
      BY <1>0, <1>5, GoesTo DEF ResolveTrigger
    <2>2. TriggerOutcome(leg[l].ending) = "succeeded"
      BY <1>0, <1>5 DEF ResolveTrigger, TriggerOutcome
    <2>3. run'.trigger = "failed" => run.trigger = "failed"
      BY <1>0, <1>5, <2>2, ResolvedRow DEF ResolveTrigger, Outcomes
    <2> QED BY <1>0, <1>5, <2>1, <2>3 DEF ResolveTrigger
  <1>6. CASE SaveOutcome(l)
    BY <1>0, <1>6, GoesTo, StatusRow DEF SaveOutcome, Statuses
  <1>7. CASE PruneRunJournal(l)
    BY <1>0, <1>7, GoesTo, PrunedRow DEF PruneRunJournal
  <1>8. CASE Release(l)
    <2>1. OnlyLeg(l) /\ leg'[l].pc \in {"off", "spent"}
      BY <1>0, <1>8, RestsNow DEF Release
    <2>2. run'.trigger = run.trigger /\ lease'.fence = lease.fence
      BY <1>0, <1>8, FailedRow, LeaseRows DEF Release
    <2> QED BY <1>8, <2>1, <2>2 DEF Release
  <1>9. CASE Claim(l)
    BY <1>0, <1>9, Takes DEF Claim
  <1>10. CASE RunActive(l) \/ GiveUp(l)
    BY <1>0, <1>10, RestsNow DEF RunActive, GiveUp
  <1>11. CASE RecheckApprovals(l) \/ LeaveClaim(l)
    BY <1>0, <1>11, GoesTo DEF RecheckApprovals, LeaveClaim
  <1>12. CASE Abandon(l)
    <2>1. OnlyLeg(l) /\ leg'[l].pc = "release"
      BY <1>0, <1>12, GoesTo DEF Abandon
    <2>2. Failed(run) \in Run /\ Failed(run).trigger = run.trigger
      BY <1>0, FailedRow
    <2>3. run'.trigger = run.trigger
      BY <1>12, <2>2, PrunedRow DEF Abandon
    <2> QED BY <1>12, <2>1, <2>3 DEF Abandon
  <1>13. CASE FailLoudly(l)
    BY <1>0, <1>13, GoesTo, FailedRow DEF FailLoudly
  <1>14. CASE Replay(l)
    <2>1. OnlyLeg(l)
      BY <1>0, <1>14, ReplaysAt DEF Replay
    <2>2. past'.effects = past.effects /\ (NoExcuses' => run.status = "running")
      BY <1>0, <1>14, ExcusedBooks DEF Replay
    <2>3. run.status # "running"
      <3>1. run.status = "running" => Known(Terminal)
        BY <1>0 DEF Written, Tried, Acknowledged
      <3>2. ~Known(Terminal)
        <4> SUFFICES ASSUME NEW j \in run.intents, j.step = Terminal PROVE FALSE
          BY <1>0 DEF Known
        <4>1. Kind(Terminal) = "effect" /\ Terminal > run.ckpt
          BY <1>0 DEF Kind
        <4> QED BY <1>14, <4>1 DEF Replay, Blocked
      <3> QED BY <3>1, <3>2
    <2> QED BY <1>14, <2>1, <2>2, <2>3 DEF Replay
  <1>15. CASE ForcedReplay(l)
    <2>1. OnlyLeg(l)
      BY <1>0, <1>15, ReplaysAt DEF ForcedReplay
    <2>2. "forced" \in past'.excuses /\ past'.effects = past.effects
      BY <1>0, <1>15, ExcusedBooks DEF ForcedReplay
    <2>3. run'.trigger = run.trigger
      BY <1>0, <1>15, StatusRow DEF ForcedReplay, Statuses
    <2> QED BY <1>15, <2>1, <2>2, <2>3 DEF ForcedReplay
  <1>16. CASE Scan(l) \/ Inspect(l)
    BY <1>0, <1>16, GoesTo DEF Scan, Inspect
  <1>17. CASE Renew(l)
    BY <1>0, <1>17, LeaseRows DEF Renew, OnlyLeg
  <1>18. CASE MarkLost(l) \/ RenewalErrs(l)
    BY <1>0, <1>18, Loses DEF MarkLost, RenewalErrs
  <1>19. CASE AcquireResume(l)
    <2>1. OnlyLeg(l) /\ lease'.fence = lease.fence + 1
      BY <1>0, <1>19, Takes DEF AcquireResume
    <2>2. past'.effects = past.effects
          /\ (NoExcuses' => approvals[leg[l].approval].fence = lease.fence)
      BY <1>0, <1>19, ExcusedBooks DEF AcquireResume
    <2>3. leg[l].approval \in DOMAIN approvals
      BY <1>19 DEF AcquireResume, Recorded, ResumesApproved
    <2>4. ~NoExcuses'
      BY <2>2, <2>3 DEF Acknowledged, RecordsPassed
    <2> QED BY <1>19, <2>1, <2>2, <2>4 DEF AcquireResume
  <1> QED BY <1>1, <1>2, <1>3, <1>4, <1>5, <1>6, <1>7, <1>8, <1>9, <1>10, <1>11, <1>12, <1>13,
             <1>14, <1>15, <1>16, <1>17, <1>18, <1>19 DEF Finish, Recover, Heartbeat, Resume

\* The steps that write in the books.
LEMMA PastSteps ==
    ASSUME [Next]_vars, past' # past
    PROVE  \/ SaveRunJournal
           \/ \E l \in Legs : \/ Effect(l) \/ SettleTrigger(l)
                              \/ Replay(l) \/ ForcedReplay(l) \/ AcquireResume(l)
  <1>1. ASSUME NEW l \in Legs, Call(l), ~Effect(l) PROVE past' = past
    BY <1>1 DEF Call, ReadOnlyCall, ReserveIdempotency, SkipDuplicate, BeginToolIntent,
                CompleteToolIntent, SettleIdempotency, Checkpoint, CallFails, Suspend, Park
  <1>2. ASSUME NEW l \in Legs, Finish(l), ~SettleTrigger(l) PROVE past' = past
    BY <1>2 DEF Finish, Confirm, ConfirmFails, StopAndConfirm, ProofFails, ResolveTrigger,
                SaveOutcome, PruneRunJournal, Release
  <1>3. ASSUME NEW l \in Legs, Recover(l), ~Replay(l), ~ForcedReplay(l) PROVE past' = past
    BY <1>3 DEF Recover, Claim, RunActive, RecheckApprovals, LeaveClaim, Abandon, FailLoudly
  <1>4. ASSUME NEW l \in Legs, Scan(l) \/ Inspect(l) \/ Heartbeat(l) \/ GiveUp(l)
        PROVE  past' = past
    BY <1>4 DEF Scan, Inspect, Heartbeat, Renew, MarkLost, RenewalErrs, GiveUp
  <1>5. SaveExecution \/ AcquireRunLease \/ StartFails => past' = past
    BY DEF SaveExecution, AcquireRunLease, StartFails
  <1>6. (\E i \in DOMAIN approvals : Deny(i) \/ \E h \in Hosts : Approve(i, h)) => past' = past
    BY DEF Deny, Approve
  <1>7. Expire \/ RetentionSweep \/ (\E h \in Hosts : Crash(h)) \/ UNCHANGED vars => past' = past
    BY DEF Expire, RetentionSweep, Crash, vars
  <1> QED BY <1>1, <1>2, <1>3, <1>4, <1>5, <1>6, <1>7 DEF Next, Start, Resume

\* No step forgets an excuse, and only the terminal's success acknowledges the trigger.
LEMMA BooksGrow ==
    ASSUME Typed, [Next]_vars
    PROVE  /\ NoExcuses' => NoExcuses
           /\ past'.acked => past.acked \/ \E l \in Legs : SettleTrigger(l)
  <1>0. /\ TypeOK /\ leg \in [Legs -> Leg] /\ past \in Books
        /\ \A l \in Legs : leg[l].step \in Calls
    BY Fields DEF Typed
  <1> USE DEF NoExcuses
  <1>1. ASSUME NEW l \in Legs, Effect(l)
        PROVE  past'.excuses = past.excuses /\ past'.acked = past.acked
    BY <1>0, <1>1, CountedBooks DEF Effect
  <1>2. ASSUME NEW l \in Legs, Replay(l) \/ ForcedReplay(l) \/ AcquireResume(l)
        PROVE  past.excuses \subseteq past'.excuses /\ past'.acked = past.acked
    <2>1. ASSUME NEW why \in SUBSET {"scan", "resume", "forced"}, past' = Excused(why)
          PROVE  past.excuses \subseteq past'.excuses /\ past'.acked = past.acked
      BY <1>0, <2>1, ExcusedBooks
    <2>2. CASE Replay(l)
      BY <2>1, <2>2 DEF Replay
    <2>3. CASE ForcedReplay(l)
      BY <2>1, <2>3 DEF ForcedReplay
    <2>4. CASE AcquireResume(l)
      BY <2>1, <2>4 DEF AcquireResume
    <2> QED BY <1>2, <2>2, <2>3, <2>4
  <1>3. ASSUME NEW l \in Legs, SettleTrigger(l) PROVE past'.excuses = past.excuses
    BY <1>0, <1>3, MarkedBooks DEF SettleTrigger
  <1>4. CASE SaveRunJournal
    BY <1>0, <1>4, MarkedBooks DEF SaveRunJournal
  <1>5. CASE past' = past
    BY <1>5
  <1> QED BY <1>1, <1>2, <1>3, <1>4, <1>5, PastSteps

\* Every step keeps the acknowledgement.
LEMMA NextAcknowledged ==
    ASSUME Typed, Typed', Fenced, Beginning, Recorded, Written, Launches, Acknowledged,
           [Next]_vars
    PROVE  /\ Acknowledged'
           /\ past.acked /\ NoStalls /\ NoExcuses /\ run'.trigger = "failed"
                => run.trigger = "failed"
  <1>0. /\ TypeOK /\ leg \in [Legs -> Leg] /\ run \in Run /\ past \in Books /\ lease \in LeaseRow
        /\ \A l \in Legs : leg[l].pc \in PCs /\ leg[l].step \in Calls
        /\ \A l \in Legs : leg[l].pc \in Renewing => leg[l].fence # 0
        /\ lease.fence \in Nat /\ Live \in Legs
        /\ \A i \in DOMAIN approvals : approvals[i].fence \in 1 .. lease.fence
        /\ \A r \in Resumes : r \in Legs
    BY Fields DEF Typed, Fenced, FencesByPhase, Recorded, RecordsGranted, Legs
  <1>g. /\ NoExcuses' => NoExcuses
        /\ NoStalls' => NoStalls
        /\ past'.acked => past.acked \/ \E l \in Legs : SettleTrigger(l)
    BY BooksGrow, FencesGrow, NextLeaseStep DEF Fenced
  <1>1. ASSUME NEW l \in Legs, SettleTrigger(l), ~past.acked PROVE Acknowledged'
    <2> SUFFICES ASSUME NoStalls', NoExcuses' PROVE Acknowledged'
      BY DEF Acknowledged
    <2>0. /\ leg[l].pc = "called" /\ leg[l].step = Terminal
          /\ lease' = lease /\ approvals' = approvals
      BY <1>1 DEF SettleTrigger
    <2>1. leg[l].fence # 0 /\ Current(l)
      BY <1>0, <1>g, <2>0 DEF Renewing, Executing, InCall, Fenced, LeaseKept
    <2>2. OnlyLeg(l) /\ leg'[l].pc = "proof"
      BY <1>0, <1>1, GoesTo DEF SettleTrigger, PCs, Stays
    <2>3. ASSUME NEW m \in Legs, m # l PROVE leg'[m].pc \notin Executing \cup {"resolve"}
      <3>1. leg'[m] = leg[m] /\ leg[m].fence = 0
        BY <1>g, <2>1, <2>2, <2>3, OneFence DEF OnlyLeg
      <3>2. past.journaled
        BY <1>1, LegContinues DEF Continues
      <3>3. leg[m].pc \notin Finishing
        BY <3>1, <3>2 DEF Beginning
      <3> QED BY <1>0, <3>1, <3>3 DEF Renewing, Finishing
    <2>4. ProofIsLeft' /\ NoneFails'
      BY <2>2, <2>3 DEF ProofIsLeft, NoneFails
    <2>5. RecordsPassed'
      BY <2>0, <2>1 DEF RecordsPassed, Current, Recorded, RecordsEndTenures, Renewing, Executing,
                        InCall
    <2>6. past'.effects[Terminal] # 0
      <3>1. past.effects[Terminal] # 0
        BY <2>0 DEF Launches, Delivered, Passed
      <3> QED BY <1>0, <1>1, <3>1, MarkedBooks DEF SettleTrigger
    <2> QED BY <2>4, <2>5, <2>6 DEF Acknowledged
  <1> DEFINE Goal == /\ Acknowledged'
                     /\ run'.trigger = "failed" => run.trigger = "failed"
  <1>2. ASSUME past.acked, NoStalls, NoExcuses, NEW l \in Legs, WindsUp(l) PROVE Goal
    <2>0. /\ ProofIsLeft /\ NoneFails /\ RecordsPassed /\ past.effects[Terminal] # 0
          /\ past'.effects = past.effects /\ approvals' = approvals
          /\ \A m \in Legs : m # l => leg'[m] = leg[m]
      BY <1>2 DEF Acknowledged, WindsUp, OnlyLeg
    <2>1. NoExcuses' => ProofIsLeft' /\ NoneFails'
      BY <1>2, <2>0 DEF ProofIsLeft, NoneFails, WindsUp
    <2>2. RecordsPassed'
      <3>1. lease'.fence \in {lease.fence, lease.fence + 1}
        BY <1>2 DEF WindsUp
      <3> QED BY <1>0, <2>0, <3>1 DEF RecordsPassed
    <2> QED BY <1>2, <2>0, <2>1, <2>2 DEF Acknowledged, WindsUp
  <1>3. ASSUME past.acked, NoStalls, NoExcuses,
               lease'.fence = lease.fence, past' = past, run'.trigger = run.trigger,
               DOMAIN approvals' = DOMAIN approvals,
               \A i \in DOMAIN approvals : approvals'[i].fence = approvals[i].fence,
               \A m \in Legs : leg'[m] = leg[m] \/ leg'[m].pc \notin Executing \cup {"resolve"}
        PROVE  Goal
    BY <1>3 DEF Acknowledged, ProofIsLeft, NoneFails, RecordsPassed
  <1>4. ASSUME past.acked, Start PROVE FALSE
    <2>1. ~past.journaled
      BY <1>0, <1>4 DEF Start, SaveExecution, AcquireRunLease, SaveRunJournal, StartFails,
                        Beginning
    <2> QED BY <1>4, <2>1 DEF Beginning, Untouched
  <1>5. ASSUME past.acked, NoStalls, NoExcuses,
               NEW i \in DOMAIN approvals, NEW h \in Hosts, Approve(i, h)
        PROVE  Goal
    <2>1. \A l \in Legs : leg'[l] = leg[l] \/ leg'[l].pc \notin Executing \cup {"resolve"}
      <3> SUFFICES ASSUME leg' # leg
                   PROVE  \A l \in Legs : \/ leg'[l] = leg[l]
                                          \/ leg'[l].pc \notin Executing \cup {"resolve"}
        OBVIOUS
      <3>1. PICK r \in Resumes :
               leg' = [leg EXCEPT ![r].pc = "acquiring", ![r].approval = i,
                                  ![r].step = approvals[i].step]
        BY <1>5 DEF Approve
      <3> QED BY <1>0, <3>1, ResumeStarts DEF OnlyLeg, Executing, InCall
    <2>2. /\ DOMAIN approvals' = DOMAIN approvals /\ past' = past /\ lease' = lease /\ run' = run
          /\ \A j \in DOMAIN approvals : approvals'[j].fence = approvals[j].fence
      BY <1>0, <1>5, Decided DEF Approve
    <2> HIDE DEF Goal
    <2> QED BY <1>3, <1>5, <2>1, <2>2
  <1>6. ASSUME past.acked, NoStalls, NoExcuses, NEW i \in DOMAIN approvals, Deny(i) PROVE Goal
    <2>1. /\ DOMAIN approvals' = DOMAIN approvals /\ past' = past /\ leg' = leg /\ lease' = lease
          /\ \A j \in DOMAIN approvals : approvals'[j].fence = approvals[j].fence
      BY <1>0, <1>6, Decided DEF Deny
    <2>2. run'.trigger = run.trigger
      BY <1>0, <1>6, FailedRow DEF Deny
    <2> HIDE DEF Goal
    <2> QED BY <1>3, <1>6, <2>1, <2>2
  <1> HIDE DEF Goal
  <1>7. ASSUME past.acked, NoStalls, NoExcuses, RetentionSweep \/ UNCHANGED vars PROVE Goal
    <2>1. run'.trigger = run.trigger
      BY <1>0, <1>7, PrunedRow DEF RetentionSweep, vars
    <2> QED BY <1>3, <1>7, <2>1 DEF RetentionSweep, vars
  <1>8. ASSUME past.acked, NoStalls, NoExcuses, Expire PROVE Goal
    <2>1. lease'.fence = lease.fence
      BY <1>0, <1>8 DEF Expire, LeaseRow
    <2> QED BY <1>3, <1>8, <2>1 DEF Expire
  <1>9. ASSUME past.acked, NoStalls, NoExcuses, NEW h \in Hosts, Crash(h) PROVE Goal
    <2>1. \A m \in Legs : leg'[m] = leg[m] \/ leg'[m].pc \notin Executing \cup {"resolve"}
      BY <1>9, RestIsLeg DEF Crash, Executing, InCall
    <2> QED BY <1>3, <1>9, <2>1 DEF Crash
  <1>10. ASSUME past.acked, NoStalls, NoExcuses PROVE Goal
    <2>1. ASSUME NEW l \in Legs,
                 \/ Call(l) \/ Finish(l) \/ Recover(l) \/ Scan(l) \/ Inspect(l)
                 \/ Heartbeat(l) \/ Resume(l)
          PROVE  Goal
      BY <1>2, <1>10, <2>1, LegWindsUp
    <2> QED BY <1>4, <1>5, <1>6, <1>7, <1>8, <1>9, <1>10, <2>1 DEF Next
  <1>11. ASSUME past.acked, ~(NoStalls /\ NoExcuses) PROVE Acknowledged'
    BY <1>g, <1>11 DEF Acknowledged
  <1>12. ASSUME ~past.acked PROVE Acknowledged'
    BY <1>1, <1>g, <1>12 DEF Acknowledged
  <1> QED BY <1>10, <1>11, <1>12 DEF Goal

\* The acknowledgement is kept in every reachable state.
LEMMA AcknowledgedAlways ==
    Spec => [](/\ Typed /\ Fenced /\ Beginning /\ Recorded /\ Written /\ Launches
               /\ Acknowledged)
  <1>1. Init => Acknowledged
    BY DEF Init, Acknowledged
  <1>2. /\ Typed /\ Typed' /\ Fenced /\ Beginning /\ Recorded /\ Written /\ Launches
        /\ Acknowledged /\ [Next]_vars
        => Acknowledged'
    BY NextAcknowledged
  <1> QED BY <1>1, <1>2, LaunchesAlways, PTL DEF Spec

\* As long as no heartbeat stalls, what an acknowledged terminal left behind is not turned around:
\* neither its own failed proof, nor a scan, nor the resume of an earlier record, nor a denial
\* makes the trigger's key failed, which would let the request run again.
THEOREM AckedStays == ASSUME MaxStalls = 0 PROVE Spec => AckedNeverReopens
  <1>1. /\ Typed /\ Typed' /\ Fenced /\ Beginning /\ Recorded /\ Written /\ Launches
        /\ Acknowledged /\ [Next]_vars
        => [past.acked /\ past.excuses = {} /\ run'.trigger = "failed"
               => run.trigger = "failed"]_vars
    <2> SUFFICES ASSUME Typed, Typed', Fenced, Beginning, Recorded, Written, Launches,
                        Acknowledged, [Next]_vars,
                        past.acked, past.excuses = {}, run'.trigger = "failed"
                 PROVE  run.trigger = "failed"
      OBVIOUS
    <2>1. NoStalls
      BY DEF NoStalls, Typed, TypeOK
    <2> QED BY <2>1, NextAcknowledged DEF NoExcuses
  <1> QED BY <1>1, AcknowledgedAlways, TypedAlways, PTL DEF Spec, AckedNeverReopens

----------------------------------------------------------------------------
(* The keys of the idempotent calls. *)

\* A leg inside an idempotent call, from its reservation to its settlement.
Reserves(l) == /\ leg[l].pc \in {"reserved", "open", "done", "settling"}
               /\ Kind(leg[l].step) = "idempotent"

\* Only idempotent calls have keys, ...
KeyedCalls ==
    /\ \A k \in Calls : keys[k] # "none" => Kind(k) = "idempotent"
    /\ \A l \in Legs : leg[l].pc \in {"reserved", "settling"} => Kind(leg[l].step) = "idempotent"

\* ... and unless a heartbeat stalls, the key of a call that is being made is pending.
KeysPending == NoStalls => \A l \in Legs : Reserves(l) => keys[leg[l].step] = "pending"

\* The keys are in order.
Keyed == KeyedCalls /\ KeysPending

\* A leg leaves the keys alone and enters no idempotent call, ...
SparesKeys(l) ==
    /\ OnlyLeg(l) /\ keys' = keys
    /\ leg'[l].pc \in {"reserved", "settling"} => Kind(leg'[l].step) = "idempotent"
    /\ Reserves(l)' => Reserves(l) /\ leg'[l].step = leg[l].step

\* ... or it reserves one that has not succeeded, ...
TakesKey(l) ==
    /\ OnlyLeg(l) /\ leg'[l].pc = "reserved" /\ leg'[l].step = leg[l].step
    /\ leg[l].fence # 0 /\ leg'[l].fence = leg[l].fence
    /\ Kind(leg[l].step) = "idempotent" /\ keys[leg[l].step] # "succeeded"
    /\ keys' = [keys EXCEPT ![leg[l].step] = "pending"]

\* ... or it settles the one it reserved.
SettlesKey(l) ==
    /\ OnlyLeg(l) /\ Reserves(l) /\ ~Reserves(l)' /\ leg'[l].pc \notin {"reserved", "settling"}
    /\ leg[l].fence # 0
    /\ \E o \in Outcomes \ {"none"} : keys' = [keys EXCEPT ![leg[l].step] = o]

\* The steps of the legs are of these kinds.
LEMMA LegKeys ==
    ASSUME Typed, Fenced, Keyed, NEW l \in Legs,
           \/ Call(l) \/ Finish(l) \/ Recover(l) \/ Scan(l) \/ Inspect(l)
           \/ Heartbeat(l) \/ Resume(l)
    PROVE  SparesKeys(l) \/ TakesKey(l) \/ SettlesKey(l)
  <1>0. /\ TypeOK /\ leg \in [Legs -> Leg] /\ lease \in LeaseRow
        /\ leg[l].pc \in PCs /\ leg[l].step \in Calls /\ leg[l] \in Leg
        /\ run.ckpt + 1 \in Calls /\ Terminal = Len(Plan) + 1 /\ Calls = 1 .. Len(Plan) + 1
        /\ Len(Plan) \in Nat /\ run.ckpt \in 0 .. Len(Plan)
        /\ leg[l].pc \in Renewing => leg[l].fence # 0
        /\ leg[l].pc \in {"reserved", "settling"} => Kind(leg[l].step) = "idempotent"
    BY Fields DEF Typed, Fenced, FencesByPhase, Keyed, KeyedCalls
  <1> USE DEF SparesKeys, Reserves, Stays, PCs, Renewing, Executing, InCall
  <1>1. CASE ReserveIdempotency(l)
    BY <1>0, <1>1, GoesTo DEF ReserveIdempotency, Enterable, TakesKey
  <1>2. CASE SettleIdempotency(l)
    BY <1>0, <1>2, GoesTo DEF SettleIdempotency, SettlesKey, Outcomes
  <1>3. CASE CallFails(l)
    BY <1>0, <1>3, EndsIn DEF CallFails, SettlesKey, Outcomes
  <1>4. CASE ReadOnlyCall(l) \/ SkipDuplicate(l) \/ Effect(l) \/ Park(l)
    BY <1>0, <1>4, GoesTo DEF ReadOnlyCall, SkipDuplicate, Effect, Park
  <1>5. CASE BeginToolIntent(l)
    BY <1>0, <1>5, GoesTo DEF BeginToolIntent
  <1>6. CASE CompleteToolIntent(l)
    BY <1>0, <1>6, GoesTo DEF CompleteToolIntent
  <1>7. CASE Checkpoint(l)
    <2>1. leg[l].step + 1 \in Calls
      BY <1>0, <1>7 DEF Checkpoint
    <2> QED BY <1>0, <1>7, <2>1, BeginsAt DEF Checkpoint
  <1>8. CASE Suspend(l)
    BY <1>0, <1>8, Suspends DEF Suspend
  <1>9. CASE Confirm(l) \/ SettleTrigger(l) \/ ResolveTrigger(l)
    BY <1>0, <1>9, GoesTo DEF Confirm, SettleTrigger, ResolveTrigger
  <1>10. CASE ConfirmFails(l) \/ StopAndConfirm(l) \/ ProofFails(l)
    BY <1>0, <1>10, EndsIn DEF ConfirmFails, StopAndConfirm, ProofFails
  <1>11. CASE SaveOutcome(l) \/ PruneRunJournal(l)
    BY <1>0, <1>11, GoesTo DEF SaveOutcome, PruneRunJournal
  <1>12. CASE Release(l) \/ RunActive(l) \/ GiveUp(l)
    BY <1>0, <1>12, RestsNow DEF Release, RunActive, GiveUp
  <1>13. CASE Claim(l) \/ AcquireResume(l)
    BY <1>0, <1>13, Takes DEF Claim, AcquireResume
  <1>14. CASE RecheckApprovals(l) \/ LeaveClaim(l) \/ Abandon(l) \/ FailLoudly(l)
    BY <1>0, <1>14, GoesTo DEF RecheckApprovals, LeaveClaim, Abandon, FailLoudly
  <1>15. CASE Replay(l) \/ ForcedReplay(l)
    BY <1>0, <1>15, ReplaysAt DEF Replay, ForcedReplay
  <1>16. CASE Scan(l) \/ Inspect(l)
    BY <1>0, <1>16, GoesTo DEF Scan, Inspect
  <1>17. CASE Renew(l)
    BY <1>0, <1>17 DEF Renew, OnlyLeg
  <1>18. CASE MarkLost(l) \/ RenewalErrs(l)
    BY <1>0, <1>18, Loses DEF MarkLost, RenewalErrs
  <1> QED BY <1>1, <1>2, <1>3, <1>4, <1>5, <1>6, <1>7, <1>8, <1>9, <1>10, <1>11, <1>12, <1>13,
             <1>14, <1>15, <1>16, <1>17, <1>18 DEF Call, Finish, Recover, Heartbeat, Resume

\* Every step keeps the keys, and without a stall a success on record stays.
LEMMA NextKeyed ==
    ASSUME Typed, Typed', Fenced, Keyed, [Next]_vars
    PROVE  /\ Keyed'
           /\ NoStalls => \A k \in Calls : keys[k] = "succeeded" => keys'[k] = "succeeded"
  <1>0. /\ TypeOK /\ leg \in [Legs -> Leg] /\ keys \in [Calls -> Outcomes]
        /\ \A l \in Legs : leg[l].pc \in PCs /\ leg[l].step \in Calls
        /\ \A l \in Legs : leg[l].pc \in Renewing => leg[l].fence # 0
        /\ Live \in Legs /\ 1 \in Calls
        /\ \A r \in Resumes : r \in Legs
        /\ NoStalls' => NoStalls
    <2>1. /\ TypeOK /\ leg \in [Legs -> Leg]
          /\ \A l \in Legs : leg[l].pc \in PCs /\ leg[l].step \in Calls
      BY Fields DEF Typed
    <2>2. keys \in [Calls -> Outcomes] /\ 1 \in Calls
      BY Fields DEF Typed, TypeOK
    <2>3. FencesByPhase /\ \A l \in Legs : leg[l].pc \in Renewing => leg[l].fence # 0
      BY DEF Fenced, FencesByPhase
    <2>4. Live \in Legs /\ \A r \in Resumes : r \in Legs
      BY DEF Legs
    <2>5. NoStalls' => NoStalls
      BY <2>3, FencesGrow, NextLeaseStep
    <2> QED BY <2>1, <2>2, <2>3, <2>4, <2>5
  <1> DEFINE Goal == /\ Keyed'
                     /\ NoStalls => \A k \in Calls : keys[k] = "succeeded"
                                                        => keys'[k] = "succeeded"
  <1>1. ASSUME NEW l \in Legs, SparesKeys(l) PROVE Goal
    <2>1. /\ keys' = keys /\ \A m \in Legs : m # l => leg'[m] = leg[m]
          /\ leg'[l].pc \in {"reserved", "settling"} => Kind(leg'[l].step) = "idempotent"
          /\ Reserves(l)' => Reserves(l) /\ leg'[l].step = leg[l].step
      BY <1>1 DEF SparesKeys, OnlyLeg
    <2>2. KeyedCalls'
      BY <2>1 DEF Keyed, KeyedCalls
    <2>3. KeysPending'
      BY <1>0, <2>1 DEF Keyed, KeysPending, Reserves
    <2> QED BY <2>1, <2>2, <2>3 DEF Keyed
  <1>2. ASSUME NEW l \in Legs, TakesKey(l) \/ SettlesKey(l) PROVE Goal
    <2>1. /\ OnlyLeg(l) /\ leg[l].fence # 0 /\ Kind(leg[l].step) = "idempotent"
          /\ NoStalls => keys[leg[l].step] # "succeeded"
          /\ \A m \in Legs : m # l => leg'[m] = leg[m]
      BY <1>2 DEF TakesKey, SettlesKey, OnlyLeg, Reserves, Keyed, KeysPending
    <2>2. PICK o \in Outcomes \ {"none"} : /\ keys' = [keys EXCEPT ![leg[l].step] = o]
                                           /\ Reserves(l)' => o = "pending"
      BY <1>2 DEF TakesKey, SettlesKey, Outcomes
    <2>3. /\ keys'[leg[l].step] = o
          /\ \A k \in Calls : k # leg[l].step => keys'[k] = keys[k]
      BY <1>0, <2>2
    <2>4. KeyedCalls'
      <3>1. leg'[l].pc \in {"reserved", "settling"} => Kind(leg'[l].step) = "idempotent"
        BY <1>2 DEF TakesKey, SettlesKey
      <3> QED BY <2>1, <2>3, <3>1 DEF Keyed, KeyedCalls
    <2>5. KeysPending'
      <3> SUFFICES ASSUME NoStalls', NEW m \in Legs, Reserves(m)'
                   PROVE  keys'[leg'[m].step] = "pending"
        BY DEF KeysPending
      <3>1. CASE m = l
        BY <1>2, <2>2, <2>3, <3>1 DEF TakesKey, SettlesKey
      <3>2. CASE m # l
        <4>1. Reserves(m) /\ leg[m].fence # 0
          BY <1>0, <2>1, <3>2 DEF Reserves, Renewing, Executing, InCall
        <4> QED BY <1>0, <2>1, <3>2, <4>1, OneFence
      <3> QED BY <3>1, <3>2
    <2> QED BY <2>1, <2>3, <2>4, <2>5 DEF Keyed
  <1>3. ASSUME keys' = keys,
               \A m \in Legs : leg'[m] = leg[m]
                               \/ leg'[m].pc \notin {"reserved", "open", "done", "settling"}
        PROVE  Goal
    BY <1>0, <1>3 DEF Keyed, KeyedCalls, KeysPending, Reserves
  <1>4. ASSUME NEW i \in DOMAIN approvals, NEW h \in Hosts, Approve(i, h) PROVE Goal
    <2>1. \A l \in Legs : \/ leg'[l] = leg[l]
                          \/ leg'[l].pc \notin {"reserved", "open", "done", "settling"}
      <3> SUFFICES ASSUME leg' # leg
                   PROVE  \A l \in Legs :
                             \/ leg'[l] = leg[l]
                             \/ leg'[l].pc \notin {"reserved", "open", "done", "settling"}
        OBVIOUS
      <3>1. PICK r \in Resumes :
               leg' = [leg EXCEPT ![r].pc = "acquiring", ![r].approval = i,
                                  ![r].step = approvals[i].step]
        BY <1>4 DEF Approve
      <3> QED BY <1>0, <3>1, ResumeStarts DEF OnlyLeg
    <2> HIDE DEF Goal
    <2> QED BY <1>3, <1>4, <2>1 DEF Approve
  <1> HIDE DEF Goal
  <1>5. ASSUME Start PROVE Goal
    <2>1. OnlyLeg(Live) /\ leg'[Live].pc \notin {"reserved", "open", "done", "settling"}
      <3>1. CASE SaveExecution
        BY <1>0, <3>1, GoesTo DEF SaveExecution, PCs, Stays
      <3>2. CASE AcquireRunLease
        BY <1>0, <3>2, Takes, Fields DEF AcquireRunLease, PCs
      <3>3. CASE SaveRunJournal
        BY <1>0, <3>3, BeginsAt DEF SaveRunJournal, Stays
      <3>4. CASE StartFails
        BY <1>0, <3>4, EndsIn DEF StartFails, Stays
      <3> QED BY <1>5, <3>1, <3>2, <3>3, <3>4 DEF Start
    <2>2. keys' = keys
      BY <1>5 DEF Start, SaveExecution, AcquireRunLease, SaveRunJournal, StartFails
    <2>3. \A m \in Legs : \/ leg'[m] = leg[m]
                          \/ leg'[m].pc \notin {"reserved", "open", "done", "settling"}
      BY <2>1 DEF OnlyLeg
    <2> QED BY <1>3, <2>2, <2>3
  <1>6. ASSUME \/ \E i \in DOMAIN approvals : Deny(i)
               \/ Expire \/ RetentionSweep \/ UNCHANGED vars
        PROVE  Goal
    <2>1. leg' = leg /\ keys' = keys
      BY <1>6 DEF Deny, Expire, RetentionSweep, vars
    <2> QED BY <1>3, <2>1
  <1>7. ASSUME NEW h \in Hosts, Crash(h) PROVE Goal
    <2>1. \A m \in Legs : \/ leg'[m] = leg[m]
                          \/ leg'[m].pc \notin {"reserved", "open", "done", "settling"}
      BY <1>7, RestIsLeg DEF Crash
    <2> QED BY <1>3, <1>7, <2>1 DEF Crash
  <1>8. ASSUME NEW l \in Legs,
               \/ Call(l) \/ Finish(l) \/ Recover(l) \/ Scan(l) \/ Inspect(l)
               \/ Heartbeat(l) \/ Resume(l)
        PROVE  Goal
    BY <1>1, <1>2, <1>8, LegKeys
  <1>9. Goal
    BY <1>4, <1>5, <1>6, <1>7, <1>8 DEF Next
  <1> QED BY <1>9 DEF Goal

\* The keys are in order in every reachable state.
LEMMA KeyedAlways == Spec => [](Typed /\ Fenced /\ Keyed)
  <1>1. Init => Keyed
    BY DEF Init, Rest, Keyed, KeyedCalls, KeysPending, Reserves
  <1>2. Typed /\ Typed' /\ Fenced /\ Keyed /\ [Next]_vars => Keyed'
    BY NextKeyed
  <1> QED BY <1>1, <1>2, FencedAlways, PTL DEF Spec

\* A step does nothing but what a leg is about to do.
LEMMA EffectsOpen ==
    ASSUME Typed, [Next]_vars, NEW k \in Calls, past'.effects[k] # past.effects[k]
    PROVE  \E l \in Legs : leg[l].pc = "open" /\ leg[l].step = k /\ keys' = keys
  <1>0. /\ TypeOK /\ past \in Books /\ \A l \in Legs : leg[l].step \in Calls
    BY Fields DEF Typed
  <1>1. ASSUME NEW l \in Legs, Effect(l)
        PROVE  leg[l].pc = "open" /\ keys' = keys /\ leg[l].step = k
    BY <1>0, <1>1, CountedBooks DEF Effect
  <1>2. ASSUME NEW l \in Legs, Replay(l) \/ ForcedReplay(l) \/ AcquireResume(l) PROVE FALSE
    <2>1. ASSUME NEW why \in SUBSET {"scan", "resume", "forced"}, past' = Excused(why)
          PROVE  FALSE
      BY <1>0, <2>1, ExcusedBooks
    <2>2. CASE Replay(l)
      BY <2>1, <2>2 DEF Replay
    <2>3. CASE ForcedReplay(l)
      BY <2>1, <2>3 DEF ForcedReplay
    <2>4. CASE AcquireResume(l)
      BY <2>1, <2>4 DEF AcquireResume
    <2> QED BY <1>2, <2>2, <2>3, <2>4
  <1>3. ASSUME NEW l \in Legs, SettleTrigger(l) PROVE FALSE
    BY <1>0, <1>3, MarkedBooks DEF SettleTrigger
  <1>4. CASE SaveRunJournal
    BY <1>0, <1>4, MarkedBooks DEF SaveRunJournal
  <1>5. past' # past
    OBVIOUS
  <1> QED BY <1>1, <1>2, <1>3, <1>4, <1>5, PastSteps

\* As long as no heartbeat stalls, an idempotent call whose success is on record is not made
\* again, and no scan, resume or operator's replay takes the record away: whoever is inside the
\* call found its key free, and nobody else was inside it.
THEOREM SettledStays == ASSUME MaxStalls = 0 PROVE Spec => SettledCallNotRepeated
  <1>1. Typed /\ Typed' /\ Fenced /\ Keyed /\ [Next]_vars
        => [\A k \in Calls : keys[k] = "succeeded" =>
               keys'[k] = "succeeded" /\ past'.effects[k] = past.effects[k]]_vars
    <2> SUFFICES ASSUME Typed, Typed', Fenced, Keyed, [Next]_vars,
                        NEW k \in Calls, keys[k] = "succeeded"
                 PROVE  keys'[k] = "succeeded" /\ past'.effects[k] = past.effects[k]
      OBVIOUS
    <2>1. NoStalls
      BY DEF NoStalls, Typed, TypeOK
    <2>2. keys'[k] = "succeeded"
      BY <2>1, NextKeyed
    <2>3. past'.effects[k] = past.effects[k]
      <3> SUFFICES ASSUME past'.effects[k] # past.effects[k] PROVE FALSE
        OBVIOUS
      <3>1. PICK l \in Legs : leg[l].pc = "open" /\ leg[l].step = k
        BY EffectsOpen
      <3>2. Reserves(l)
        BY <3>1 DEF Reserves, Keyed, KeyedCalls
      <3> QED BY <2>1, <3>1, <3>2 DEF Keyed, KeysPending
    <2> QED BY <2>2, <2>3
  <1> QED BY <1>1, KeyedAlways, TypedAlways, PTL DEF Spec, SettledCallNotRepeated
=============================================================================
