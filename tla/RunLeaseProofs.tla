--------------------------- MODULE RunLeaseProofs ---------------------------
(***************************************************************************)
(* What RunLease promises for every number of heartbeats and replicas,     *)
(* every TTL and every bound on the fences.                                *)
(*                                                                         *)
(* ProofExclusive is not inductive: it needs to know that a good proof is  *)
(* backed by the row (ProofBacked), that no fence was handed out ahead of  *)
(* the row (FencesGranted) or twice (TokensUnique), and what a heartbeat   *)
(* in each phase can still have outstanding (PhaseOK).                     *)
(***************************************************************************)
EXTENDS RunLease, TLAPS

\* What is outstanding in each phase.
Coherent(h) ==
    /\ h.phase = "idle" => h = Idle
    /\ h.phase # "idle" => h.fence # 0
    /\ h.phase \in {"released", "crashed"} => h.proven = Past
    /\ h.phase = "released" => h.renewer = "off"

PhaseOK == \A c \in Heartbeats : Coherent(hb[c])

\* Every fence in use was granted by the row, the current one to its holder.
FencesGranted ==
    \A c \in Heartbeats :
        /\ hb[c].fence <= row.fence
        /\ InTenure(c) /\ hb[c].fence = row.fence => Owns(c)

\* A good proof is backed by the row: current fence, and at least as long to go.
ProofBacked == \A c \in Heartbeats : Proven(c) => Owns(c) /\ hb[c].proven <= row.left

IInv ==
    /\ TypeOK
    /\ PhaseOK
    /\ FencesGranted
    /\ TokensUnique
    /\ ProofBacked
    /\ ReleasedStaysFree

\* The invariant holds of an empty lease table and idle heartbeats.
LEMMA InitIInv == Init => IInv
  BY TTLAssumption, HolderAssumption
  DEF Init, IInv, TypeOK, Row, Heartbeat, PhaseOK, Coherent, FencesGranted, TokensUnique,
      ProofBacked, ReleasedStaysFree, Idle, Past, Phases, Renewers, Proven, InTenure

----------------------------------------------------------------------------
(* What each operation makes of the record of a heartbeat, and of the row. *)

\* The values a heartbeat can take are heartbeats.
LEMMA HeartbeatTypes ==
    ASSUME NEW h \in Heartbeat
    PROVE  /\ Idle \in Heartbeat
           /\ \A n \in Nat : Started(n) \in Heartbeat
           /\ Sending(h) \in Heartbeat
           /\ Stopped(h) \in Heartbeat
           /\ Confirmed(h) \in Heartbeat
           /\ Lost(h) \in Heartbeat
           /\ Renewed(h) \in Heartbeat
           /\ Finished(h) \in Heartbeat
           /\ Dead(h) \in Heartbeat
           /\ Aged(h) \in Heartbeat
  <1>1. ASSUME NEW g \in Heartbeat
        PROVE  /\ Sending(g) \in Heartbeat
               /\ Stopped(g) \in Heartbeat
               /\ Confirmed(g) \in Heartbeat
               /\ Unproven(g) \in Heartbeat
               /\ Lost(g) \in Heartbeat
               /\ [g EXCEPT !.renewer = "waiting"] \in Heartbeat
               /\ [g EXCEPT !.phase = "released"] \in Heartbeat
               /\ [g EXCEPT !.phase = "crashed"] \in Heartbeat
               /\ Aged(g) \in Heartbeat
    BY TTLAssumption
    DEF Sending, Stopped, Confirmed, Unproven, Lost, Aged, Sooner, Heartbeat, Phases, Renewers, Past
  <1>2. Idle \in Heartbeat /\ \A n \in Nat : Started(n) \in Heartbeat
    BY TTLAssumption DEF Idle, Started, Heartbeat, Phases, Renewers, Past
  <1>3. Renewed(h) \in Heartbeat
    BY <1>1 DEF Renewed
  <1>4. Finished(h) \in Heartbeat
    BY <1>1 DEF Finished
  <1>5. Dead(h) \in Heartbeat
    BY <1>1 DEF Dead, Silenced
  <1> QED BY <1>1, <1>2, <1>3, <1>4, <1>5

\* What they leave alone, and what becomes of the proof.
LEMMA HeartbeatFields ==
    ASSUME NEW h \in Heartbeat
    PROVE  /\ \A g \in {Sending(h), Stopped(h), Lost(h), Confirmed(h), Renewed(h),
                        Finished(h), Dead(h), Aged(h)} : g.fence = h.fence
           /\ \A g \in {Sending(h), Stopped(h), Lost(h)} : g.proven = h.proven
           /\ \A g \in {Sending(h), Stopped(h), Confirmed(h), Renewed(h), Aged(h)} :
                 g.phase = h.phase
           /\ Confirmed(h).proven = TTL /\ Renewed(h).proven = TTL
           /\ Finished(h).proven = Past /\ Dead(h).proven = Past
           /\ Aged(h).proven = Sooner(h.proven)
           /\ Lost(h).phase = "lost" /\ Finished(h).phase = "released" /\ Dead(h).phase = "crashed"
           /\ Stopped(h).renewer = "off"
           /\ \A g \in {Lost(h), Confirmed(h), Finished(h), Aged(h)} : g.renewer = h.renewer
  BY DEF Heartbeat, Sending, Stopped, Lost, Confirmed, Unproven, Renewed, Finished, Silenced,
         Dead, Aged

----------------------------------------------------------------------------
(* The invariant. *)

\* A step inside a tenure keeps the invariant when it extends the row only for
\* the owner, claims a proof only with such an extension, ends the row only
\* with the owner's proof, and leaves no live row behind a release.
LEMMA TenureStep ==
    ASSUME IInv,
           NEW c \in Heartbeats, InTenure(c),
           NEW h \in Heartbeat, Coherent(h), h.fence = hb[c].fence,
           hb' = [hb EXCEPT ![c] = h],
           row' \in Row, row'.holder = row.holder, row'.fence = row.fence,
           \/ row'.left = row.left
           \/ row'.left = TTL /\ Owns(c) /\ h.phase # "released"
           \/ row'.left = Past /\ Owns(c) /\ h.proven = Past,
           \/ h.proven \in {Past, hb[c].proven}
           \/ h.proven = TTL /\ Owns(c) /\ row'.left = TTL,
           h.phase = "released" => row'.left = Past \/ ~Owns(c)
    PROVE  IInv'
  <1> USE DEF Past, InTenure, Proven, Owns
  <1>1. TypeOK'
    BY DEF IInv, TypeOK
  <1>2. hb'[c] = h /\ \A d \in Heartbeats : d # c => hb'[d] = hb[d]
    BY DEF IInv, TypeOK
  <1>3. PhaseOK' /\ FencesGranted'
    BY <1>2 DEF IInv, PhaseOK, FencesGranted, Coherent, Idle
  <1>4. TokensUnique'
    BY <1>2 DEF IInv, TokensUnique
  <1>5. ProofBacked'
    <2> SUFFICES ASSUME NEW d \in Heartbeats, Proven(d)'
                 PROVE  Owns(d)' /\ hb'[d].proven <= row'.left
      BY DEF ProofBacked
    <2>1. row'.left = Past \/ row'.left >= row.left
      BY TTLAssumption DEF IInv, TypeOK, Row
    <2>2. CASE d = c
      BY <1>2, <2>1, <2>2, TTLAssumption DEF IInv, ProofBacked, TypeOK, Row, Heartbeat
    <2>3. CASE d # c
      <3>1. hb'[d] = hb[d] /\ Owns(d) /\ hb[d].proven <= row.left
        BY <1>2, <2>3 DEF IInv, ProofBacked
      <3>2. ~Owns(c)
        BY <3>1, <2>3 DEF IInv, TokensUnique
      <3> QED BY <3>1, <3>2, TTLAssumption DEF IInv, TypeOK, Row, Heartbeat
    <2> QED BY <2>2, <2>3
  <1>6. ReleasedStaysFree'
    <2> SUFFICES ASSUME NEW d \in Heartbeats, hb'[d].phase = "released",
                        row'.fence = hb'[d].fence
                 PROVE  row'.left < 0
      BY DEF ReleasedStaysFree, Expired
    <2>1. CASE d = c
      BY <1>2, <2>1 DEF IInv, FencesGranted
    <2>2. CASE d # c
      <3>1. hb[d].phase = "released" /\ row.fence = hb[d].fence /\ row.left < 0
        BY <1>2, <2>2 DEF IInv, ReleasedStaysFree, Expired
      <3>2. ~Owns(c)
        BY <3>1, <2>2 DEF IInv, TokensUnique
      <3> QED BY <3>1, <3>2
    <2> QED BY <2>1, <2>2
  <1> QED BY <1>1, <1>3, <1>4, <1>5, <1>6 DEF IInv

\* Acquire opens a tenure above every other.
LEMMA AcquireStep == ASSUME IInv, NEW c \in Heartbeats, Acquire(c) PROVE IInv'
  <1> USE DEF Past, InTenure, Proven, Owns
  <1>1. hb' = [hb EXCEPT ![c] = Started(row.fence + 1)] /\ row' = Taken(c) /\ row.left < 0
    BY DEF Acquire, Expired
  <1>2. row.fence \in Nat /\ Started(row.fence + 1) \in Heartbeat /\ row' \in Row
    <2>1. row.fence \in Nat
      BY DEF IInv, TypeOK, Row
    <2>2. Started(row.fence + 1) \in Heartbeat
      BY <2>1, TTLAssumption DEF Started, Heartbeat, Phases, Renewers
    <2>3. Taken(c) \in Row
      BY <2>1, TTLAssumption, HolderAssumption DEF Taken, Row
    <2> QED BY <1>1, <2>1, <2>2, <2>3
  <1>3. TypeOK'
    BY <1>1, <1>2 DEF IInv, TypeOK
  <1>4. hb'[c] = Started(row.fence + 1) /\ \A d \in Heartbeats : d # c => hb'[d] = hb[d]
    BY <1>1 DEF IInv, TypeOK
  <1>5. \A d \in Heartbeats : d # c => hb[d].fence <= row.fence /\ hb[d].fence \in Nat
    BY DEF IInv, FencesGranted, TypeOK, Heartbeat
  <1>6. PhaseOK' /\ FencesGranted' /\ TokensUnique'
    BY <1>1, <1>2, <1>4, <1>5
    DEF IInv, PhaseOK, Coherent, FencesGranted, TokensUnique, Started, Taken
  <1>7. ProofBacked'
    <2>1. \A d \in Heartbeats : ~Proven(d)
      BY <1>1 DEF IInv, ProofBacked, TypeOK, Row, Heartbeat
    <2> QED BY <1>1, <1>4, <2>1, TTLAssumption DEF ProofBacked, Started, Taken
  <1>8. ReleasedStaysFree'
    BY <1>1, <1>2, <1>4, <1>5 DEF ReleasedStaysFree, Started, Taken
  <1> QED BY <1>3, <1>6, <1>7, <1>8 DEF IInv

\* A new start forgets the fence of the finished tenure.
LEMMA StartAgainStep == ASSUME IInv, NEW c \in Heartbeats, StartAgain(c) PROVE IInv'
  <1>1. hb'[c] = Idle /\ Idle \in Heartbeat /\ row' = row
        /\ \A d \in Heartbeats : d # c => hb'[d] = hb[d]
    BY TTLAssumption DEF StartAgain, IInv, TypeOK, Idle, Heartbeat, Phases, Renewers, Past
  <1>2. TypeOK'
    BY <1>1 DEF StartAgain, IInv, TypeOK
  <1>3. PhaseOK' /\ FencesGranted' /\ TokensUnique' /\ ProofBacked' /\ ReleasedStaysFree'
    BY <1>1 DEF IInv, TypeOK, Row, PhaseOK, Coherent, FencesGranted, TokensUnique, ProofBacked,
                ReleasedStaysFree, Idle, InTenure, Proven, Owns, Past, Expired
  <1> QED BY <1>2, <1>3 DEF IInv

\* Time shortens the row and every proof alike.
LEMMA TickStep == ASSUME IInv, Tick PROVE IInv'
  <1>1. \A c \in Heartbeats : hb[c] \in Heartbeat /\ hb'[c] = Aged(hb[c]) /\ hb'[c] \in Heartbeat
    BY HeartbeatTypes DEF Tick, IInv, TypeOK
  <1>2. \A c \in Heartbeats : /\ hb'[c].proven = Sooner(hb[c].proven)
                              /\ hb'[c].fence = hb[c].fence
                              /\ hb'[c].phase = hb[c].phase
                              /\ hb'[c].renewer = hb[c].renewer
    BY <1>1, HeartbeatFields
  <1>3. /\ row' \in Row /\ row'.left = row.left - 1
        /\ row'.fence = row.fence /\ row'.holder = row.holder
    <2>1. row \in Row /\ row' = [row EXCEPT !.left = Sooner(@)] /\ row.left > Past
      BY DEF Tick, IInv, TypeOK
    <2>2. row.left \in Past .. TTL /\ row.left - 1 \in Past .. TTL
      BY <2>1, TTLAssumption DEF Row, Past
    <2>3. row' = [row EXCEPT !.left = row.left - 1]
      BY <2>1 DEF Sooner
    <2> QED BY <2>1, <2>2, <2>3 DEF Row
  <1>4. TypeOK'
    BY <1>1, <1>3 DEF Tick, TypeOK
  <1>5. PhaseOK'
    <2> SUFFICES ASSUME NEW c \in Heartbeats PROVE Coherent(hb[c])'
      BY DEF PhaseOK
    <2>1. CASE hb[c].phase = "idle"
      BY <1>1, <2>1 DEF IInv, PhaseOK, Coherent, Idle, Aged, Sooner, Past
    <2>2. CASE hb[c].phase # "idle"
      BY <1>2, <2>2 DEF IInv, PhaseOK, Coherent, Sooner, Past
    <2> QED BY <2>1, <2>2
  <1>6. FencesGranted' /\ TokensUnique'
    BY <1>2, <1>3 DEF IInv, FencesGranted, TokensUnique, InTenure, Owns
  <1>7. ProofBacked' /\ ReleasedStaysFree'
    BY <1>1, <1>2, <1>3
    DEF IInv, ProofBacked, ReleasedStaysFree, Proven, Owns, Expired, Sooner, Past, TypeOK, Row,
        Heartbeat
  <1> QED BY <1>4, <1>5, <1>6, <1>7 DEF IInv

\* The steps inside a tenure, each by TenureStep.
LEMMA OwnerStep ==
    ASSUME IInv, NEW c \in Heartbeats,
           \/ SendRenewal(c) \/ RenewalSucceeds(c) \/ RenewalFails(c) \/ StopRenewing(c)
           \/ Confirm(c) \/ ConfirmFails(c) \/ Release(c) \/ Crash(c)
    PROVE  IInv'
  <1> DEFINE h == hb[c]
  <1>1. h \in Heartbeat /\ row \in Row /\ Coherent(h)
    BY DEF IInv, TypeOK, PhaseOK
  <1>2. Extended \in Row /\ [row EXCEPT !.left = Past] \in Row
    BY <1>1, TTLAssumption DEF Extended, Row, Past
  <1>3. /\ Extended.left = TTL /\ Extended.holder = row.holder /\ Extended.fence = row.fence
        /\ [row EXCEPT !.left = Past].left = Past
        /\ [row EXCEPT !.left = Past].holder = row.holder
        /\ [row EXCEPT !.left = Past].fence = row.fence
    BY <1>1 DEF Extended, Row
  <1>4. h.phase \in {"held", "lost"} \/ h.renewer = "sent"
    BY DEF SendRenewal, RenewalSucceeds, RenewalFails, StopRenewing, Confirm, ConfirmFails,
           CanConfirm, Release, Crash
  <1>5. h.phase \in {"held", "lost", "crashed"} /\ InTenure(c)
    BY <1>1, <1>4 DEF Coherent, Idle, Heartbeat, Phases, InTenure
  <1>6. MayBeExtended(c) => /\ row' \in Row /\ row'.holder = row.holder /\ row'.fence = row.fence
                            /\ row'.left = row.left \/ (row'.left = TTL /\ Owns(c))
    BY <1>1, <1>2, <1>3 DEF MayBeExtended
  <1>7. CASE SendRenewal(c)
    <2>1. Sending(h) \in Heartbeat /\ Sending(h).fence = h.fence /\ Sending(h).phase = h.phase
          /\ Sending(h).proven = h.proven
      BY <1>1, HeartbeatTypes, HeartbeatFields
    <2>2. h.phase \in {"held", "lost"} /\ hb' = [hb EXCEPT ![c] = Sending(h)] /\ row' = row
      BY <1>7 DEF SendRenewal
    <2>3. Coherent(Sending(h))
      BY <1>1, <2>1, <2>2 DEF Coherent
    <2> QED BY <1>1, <1>5, <2>1, <2>2, <2>3, TenureStep
  <1>8. CASE RenewalSucceeds(c)
    <2> DEFINE g == IF h.phase = "crashed" THEN Stopped(h) ELSE Renewed(h)
    <2>1. g \in Heartbeat /\ g.fence = h.fence /\ g.phase = h.phase
          /\ (g.phase = "crashed" => g.proven = h.proven)
          /\ (g.phase # "crashed" => g.proven = TTL)
      <3>1. Stopped(h) \in Heartbeat /\ Stopped(h).fence = h.fence
            /\ Stopped(h).proven = h.proven /\ Stopped(h).phase = h.phase
        BY <1>1, HeartbeatTypes, HeartbeatFields
      <3>2. Renewed(h) \in Heartbeat /\ Renewed(h).fence = h.fence
            /\ Renewed(h).proven = TTL /\ Renewed(h).phase = h.phase
        BY <1>1, HeartbeatTypes, HeartbeatFields
      <3> QED BY <3>1, <3>2
    <2>2. Coherent(g)
      BY <1>1, <1>5, <2>1 DEF Coherent
    <2>3. hb' = [hb EXCEPT ![c] = g] /\ row' = Extended /\ Owns(c)
      BY <1>8 DEF RenewalSucceeds
    <2> QED BY <1>2, <1>3, <1>5, <2>1, <2>2, <2>3, TenureStep
  <1>9. CASE RenewalFails(c)
    <2> DEFINE g == IF h.phase = "crashed" THEN Stopped(h) ELSE Lost(Stopped(h))
    <2>1. g \in Heartbeat /\ g.fence = h.fence /\ g.proven = h.proven
          /\ g.phase = (IF h.phase = "crashed" THEN "crashed" ELSE "lost")
      <3>1. Stopped(h) \in Heartbeat /\ Stopped(h).fence = h.fence
            /\ Stopped(h).proven = h.proven /\ Stopped(h).phase = h.phase
        BY <1>1, HeartbeatTypes, HeartbeatFields
      <3>2. CASE h.phase = "crashed"
        BY <3>1, <3>2
      <3>3. CASE h.phase # "crashed"
        BY <3>1, <3>3, HeartbeatTypes, HeartbeatFields
      <3> QED BY <3>2, <3>3
    <2>2. Coherent(g)
      BY <1>1, <1>5, <2>1 DEF Coherent
    <2>3. hb' = [hb EXCEPT ![c] = g] /\ MayBeExtended(c)
      BY <1>9 DEF RenewalFails
    <2> QED BY <1>5, <1>6, <2>1, <2>2, <2>3, TenureStep
  <1>10. CASE StopRenewing(c)
    <2>1. Stopped(h) \in Heartbeat /\ Stopped(h).fence = h.fence /\ Stopped(h).phase = h.phase
          /\ Stopped(h).proven = h.proven
      BY <1>1, HeartbeatTypes, HeartbeatFields
    <2>2. Coherent(Stopped(h))
      BY <1>1, <1>5, <2>1 DEF Coherent
    <2>3. hb' = [hb EXCEPT ![c] = Stopped(h)] /\ (row' = row \/ MayBeExtended(c))
      BY <1>10 DEF StopRenewing
    <2> QED BY <1>1, <1>5, <1>6, <2>1, <2>2, <2>3, TenureStep
  <1>11. CASE Confirm(c)
    <2>1. Confirmed(h) \in Heartbeat /\ Confirmed(h).fence = h.fence
          /\ Confirmed(h).phase = h.phase /\ Confirmed(h).proven = TTL
      BY <1>1, HeartbeatTypes, HeartbeatFields
    <2>2. h.phase = "held" /\ hb' = [hb EXCEPT ![c] = Confirmed(h)] /\ row' = Extended /\ Owns(c)
      BY <1>11 DEF Confirm, CanConfirm
    <2>3. Coherent(Confirmed(h))
      BY <1>1, <2>1, <2>2 DEF Coherent
    <2> QED BY <1>2, <1>3, <1>5, <2>1, <2>2, <2>3, TenureStep
  <1>12. CASE ConfirmFails(c)
    <2>1. Lost(h) \in Heartbeat /\ Lost(h).fence = h.fence /\ Lost(h).phase = "lost"
          /\ Lost(h).proven = h.proven
      BY <1>1, HeartbeatTypes, HeartbeatFields
    <2>2. Coherent(Lost(h))
      BY <1>1, <1>5, <2>1 DEF Coherent
    <2>3. MayBeExtended(c) /\ (hb' = [hb EXCEPT ![c] = h] \/ hb' = [hb EXCEPT ![c] = Lost(h)])
      BY <1>12 DEF ConfirmFails, IInv, TypeOK
    <2> QED BY <1>1, <1>5, <1>6, <2>1, <2>2, <2>3, TenureStep
  <1>13. CASE Release(c)
    <2>1. Finished(h) \in Heartbeat /\ Finished(h).fence = h.fence /\ Finished(h).proven = Past
          /\ Finished(h).phase = "released" /\ Finished(h).renewer = h.renewer
      BY <1>1, HeartbeatTypes, HeartbeatFields
    <2>2. h.renewer = "off" /\ hb' = [hb EXCEPT ![c] = Finished(h)] /\ row' = Tombstoned(c)
      BY <1>13 DEF Release
    <2>3. Coherent(Finished(h))
      BY <1>5, <2>1, <2>2 DEF Coherent, InTenure
    <2>4. CASE Owns(c)
      BY <1>2, <1>3, <1>5, <2>1, <2>2, <2>3, <2>4, TenureStep DEF Tombstoned
    <2>5. CASE ~Owns(c)
      BY <1>1, <1>5, <2>1, <2>2, <2>3, <2>5, TenureStep DEF Tombstoned
    <2> QED BY <2>4, <2>5
  <1>14. CASE Crash(c)
    <2>1. Dead(h) \in Heartbeat /\ Dead(h).fence = h.fence /\ Dead(h).proven = Past
          /\ Dead(h).phase = "crashed"
      BY <1>1, HeartbeatTypes, HeartbeatFields
    <2>2. hb' = [hb EXCEPT ![c] = Dead(h)] /\ row' = row
      BY <1>14 DEF Crash
    <2>3. Coherent(Dead(h))
      BY <1>5, <2>1 DEF Coherent, InTenure
    <2> QED BY <1>1, <1>5, <2>1, <2>2, <2>3, TenureStep
  <1> QED BY <1>7, <1>8, <1>9, <1>10, <1>11, <1>12, <1>13, <1>14

\* Every step of the store, a heartbeat or the clock keeps the invariant.
LEMMA NextIInv == IInv /\ [Next]_vars => IInv'
  <1> SUFFICES ASSUME IInv, [Next]_vars PROVE IInv'
    OBVIOUS
  <1>1. CASE UNCHANGED vars
    BY <1>1 DEF vars, IInv, TypeOK, PhaseOK, FencesGranted, TokensUnique, ProofBacked,
                ReleasedStaysFree, Proven, Owns, InTenure, Expired
  <1>2. CASE Tick
    BY <1>2, TickStep
  <1>3. CASE \E c \in Heartbeats : Acquire(c) \/ StartAgain(c)
    BY <1>3, AcquireStep, StartAgainStep
  <1>4. CASE \E c \in Heartbeats :
                \/ SendRenewal(c) \/ RenewalSucceeds(c) \/ RenewalFails(c) \/ StopRenewing(c)
                \/ Confirm(c) \/ ConfirmFails(c) \/ Release(c) \/ Crash(c)
    BY <1>4, OwnerStep
  <1> QED BY <1>1, <1>2, <1>3, <1>4 DEF Next

LEMMA Invariance == Spec => []IInv
  BY InitIInv, NextIInv, PTL DEF Spec

----------------------------------------------------------------------------
(* The results. *)

\* The lease row and every heartbeat keep their types.
THEOREM TypeCorrect == Spec => []TypeOK
  BY Invariance, PTL DEF IInv

\* At most one heartbeat is within the TTL of its last proof of ownership,
\* whatever is renewed late, lost, crashed or taken over.
THEOREM OneProvenOwner == Spec => []ProofExclusive
  <1>1. IInv => ProofExclusive
    BY DEF IInv, ProofBacked, ProofExclusive, TokensUnique, PhaseOK, Coherent, Idle, Proven,
           Owns, InTenure, Past
  <1> QED BY <1>1, Invariance, PTL

\* No fence is ever shared by two tenures.
THEOREM FencesNeverShared == Spec => []TokensUnique
  BY Invariance, PTL DEF IInv

\* No late renewal brings a released lease back to life.
THEOREM ReleaseIsFinal == Spec => []ReleasedStaysFree
  BY Invariance, PTL DEF IInv

\* A takeover never cuts a proven window short.
THEOREM NoEarlyTakeover == Spec => TakeoverSparesProofs
  <1>1. IInv /\ [Next]_vars => [row'.fence # row.fence => \A c \in Heartbeats : ~Proven(c)]_vars
    <2> SUFFICES ASSUME IInv, Next, row'.fence # row.fence
                 PROVE  \A c \in Heartbeats : ~Proven(c)
      OBVIOUS
    <2>1. row \in Row
      BY DEF IInv, TypeOK
    <2>2. PICK d \in Heartbeats : Acquire(d)
      BY <2>1 DEF Next, Acquire, SendRenewal, RenewalSucceeds, RenewalFails, StopRenewing, Confirm,
                  ConfirmFails, CanConfirm, Release, Crash, StartAgain, Tick, MayBeExtended,
                  Extended, Tombstoned, Row
    <2> QED BY <2>1, <2>2 DEF Acquire, Expired, IInv, ProofBacked, Proven, TypeOK, Row, Heartbeat, Past
  <1> QED BY <1>1, Invariance, PTL DEF Spec, TakeoverSparesProofs

\* The row and its heartbeats implement the abstract lease: a takeover, an
\* extension, a tombstone and an expiry are its steps; the rest is invisible.
THEOREM ImplementsLease == Spec => ImplementsFencedLease
  <1> DEFINE lease == LeaseOf(row)
             token == [c \in Heartbeats |-> TokenOf(hb[c])]
             Hidden == lease' = lease /\ token' = token
  <1>1. Init => Abstract!LeaseInit
    <2> SUFFICES ASSUME Init PROVE Abstract!LeaseInit
      OBVIOUS
    <2>1. row.fence = 0 /\ row.left = -1
      BY DEF Init, Past
    <2>2. (row.left >= 0) = FALSE
      BY <2>1
    <2>3. \A c \in Heartbeats : TokenOf(hb[c]) = 0
      BY DEF Init, Idle, TokenOf, InUse
    <2> QED BY <2>1, <2>2, <2>3 DEF Abstract!LeaseInit, Abstract!Unheld, LeaseOf
  <1>2. IInv /\ [Next]_vars => [Abstract!LeaseNext]_(Abstract!leaseVars)
    <2> SUFFICES ASSUME IInv, [Next]_vars
                 PROVE  Abstract!LeaseNext \/ Hidden
      BY DEF Abstract!leaseVars
    <2>1. row \in Row /\ hb \in [Heartbeats -> Heartbeat] /\ PhaseOK
      BY DEF IInv, TypeOK
    <2>2. ASSUME NEW c \in Heartbeats, NEW h, hb' = [hb EXCEPT ![c] = h],
                 TokenOf(h) = TokenOf(hb[c])
          PROVE  token' = token
      BY <2>1, <2>2
    <2>3. ASSUME NEW c \in Heartbeats, InUse(hb[c]), Owns(c), row' = Extended, token' = token
          PROVE  Abstract!RenewLease(c)
      <3>1. hb[c].fence # 0 /\ token[c] = hb[c].fence /\ token[c] = row.fence
        BY <2>1, <2>3 DEF PhaseOK, Coherent, InUse, TokenOf, Owns
      <3>2. row'.fence = row.fence /\ row'.left = TTL
        BY <2>1, <2>3 DEF Extended, Row
      <3>3. (row'.left >= 0) = TRUE
        BY <3>2, TTLAssumption
      <3>4. lease' = [fence |-> row.fence, live |-> TRUE]
        BY <3>2, <3>3 DEF LeaseOf
      <3> QED BY <2>3, <3>1, <3>4 DEF Abstract!RenewLease, Abstract!Extended, LeaseOf
    <2>4. CASE UNCHANGED vars
      BY <2>4 DEF vars
    <2>5. CASE Tick
      <3>1. row'.fence = row.fence /\ row.left >= 0 /\ row'.left = row.left - 1
        BY <2>1, <2>5 DEF Tick, Sooner, Row, Past
      <3>2. \A c \in Heartbeats : TokenOf(hb'[c]) = TokenOf(hb[c])
        BY <2>1, <2>5, HeartbeatFields DEF Tick, TokenOf, InUse
      <3>3. token' = token
        BY <3>2
      <3>4. CASE row.left = 0
        <4>1. (row.left >= 0) = TRUE /\ (row'.left >= 0) = FALSE
          BY <3>1, <3>4
        <4>2. Abstract!ExpireLease
          BY <3>1, <3>3, <4>1 DEF Abstract!ExpireLease, Abstract!Ended, LeaseOf
        <4> QED BY <4>2 DEF Abstract!LeaseNext
      <3>5. CASE row.left # 0
        <4>1. (row.left >= 0) = TRUE /\ (row'.left >= 0) = TRUE
          BY <2>1, <3>1, <3>5 DEF Row, Past
        <4> QED BY <3>1, <3>3, <4>1 DEF LeaseOf
      <3> QED BY <3>4, <3>5
    <2>6. ASSUME NEW c \in Heartbeats, Acquire(c) PROVE Abstract!AcquireLease(c)
      <3>1. hb[c].phase = "idle" /\ row.left < 0 /\ row' = Taken(c)
            /\ hb' = [hb EXCEPT ![c] = Started(row.fence + 1)]
        BY <2>6 DEF Acquire, Expired
      <3>2. (row.left >= 0) = FALSE /\ (row'.left >= 0) = TRUE /\ row'.fence = row.fence + 1
        BY <2>1, <3>1, TTLAssumption DEF Taken, Row
      <3>3. TokenOf(Started(row.fence + 1)) = row.fence + 1
        BY DEF TokenOf, InUse, Started
      <3>4. token' = [token EXCEPT ![c] = row.fence + 1]
        BY <2>1, <3>1, <3>3
      <3> QED BY <3>2, <3>4 DEF Abstract!AcquireLease, Abstract!Granted, LeaseOf
    <2>7. ASSUME NEW c \in Heartbeats, Release(c) PROVE Abstract!ReleaseLease(c)
      <3>1. hb[c].phase \in {"held", "lost"} /\ row' = Tombstoned(c)
            /\ hb' = [hb EXCEPT ![c] = Finished(hb[c])]
        BY <2>7 DEF Release
      <3>2. token[c] = hb[c].fence /\ token[c] # 0
        BY <2>1, <3>1 DEF TokenOf, InUse, PhaseOK, Coherent
      <3>3. token' = [token EXCEPT ![c] = 0]
        BY <2>1, <3>1, HeartbeatFields DEF TokenOf, InUse
      <3>4. CASE Owns(c)
        <4>1. row'.fence = row.fence /\ row'.left = -1
          BY <2>1, <3>1, <3>4 DEF Tombstoned, Row, Past
        <4>2. (row'.left >= 0) = FALSE
          BY <4>1
        <4>3. lease' = [fence |-> row.fence, live |-> FALSE]
          BY <4>1, <4>2 DEF LeaseOf
        <4> QED BY <3>2, <3>3, <3>4, <4>3
            DEF Abstract!ReleaseLease, Abstract!ReleasedBy, Abstract!Ended, LeaseOf, Owns
      <3>5. CASE ~Owns(c)
        <4>1. row' = row /\ row.fence # hb[c].fence
          BY <2>1, <3>1, <3>2, <3>5 DEF Tombstoned, IInv, FencesGranted, InTenure
        <4>2. lease' = lease /\ lease.fence # token[c]
          BY <3>2, <4>1 DEF LeaseOf
        <4> QED BY <3>2, <3>3, <4>2 DEF Abstract!ReleaseLease, Abstract!ReleasedBy
      <3> QED BY <3>4, <3>5
    <2>8. ASSUME NEW c \in Heartbeats, StartAgain(c) PROVE Abstract!ForgetLease({c}) \/ Hidden
      <3>1. row' = row /\ token' = [token EXCEPT ![c] = 0]
        BY <2>1, <2>8 DEF StartAgain, Idle, TokenOf, InUse
      <3>2. CASE token[c] = 0
        BY <3>1, <3>2
      <3>3. CASE token[c] # 0
        <4>1. token' = [d \in Heartbeats |-> IF d \in {c} THEN 0 ELSE token[d]]
          BY <3>1
        <4> QED BY <3>1, <4>1 DEF Abstract!ForgetLease
      <3> QED BY <3>2, <3>3
    <2>9. ASSUME NEW c \in Heartbeats,
                  \/ SendRenewal(c) \/ RenewalSucceeds(c) \/ RenewalFails(c)
                  \/ StopRenewing(c) \/ Confirm(c) \/ ConfirmFails(c) \/ Crash(c)
           PROVE  Abstract!RenewLease(c) \/ Hidden
      <3>1. hb[c].phase \in {"held", "lost", "crashed"}
        BY <2>1, <2>9 DEF SendRenewal, RenewalSucceeds, RenewalFails, StopRenewing, Confirm,
             ConfirmFails, CanConfirm, Crash, PhaseOK, Coherent, Idle, Heartbeat, Phases
      <3>2. row' = row \/ (Owns(c) /\ row' = Extended)
        BY <2>9 DEF SendRenewal, RenewalSucceeds, RenewalFails, StopRenewing, Confirm,
             ConfirmFails, Crash, MayBeExtended
      <3>3. token' = token
        <4>1. \A h \in {Sending(hb[c]), Stopped(hb[c]), Renewed(hb[c]), Confirmed(hb[c]),
                        Lost(hb[c]), Lost(Stopped(hb[c])), Dead(hb[c])} :
                 TokenOf(h) = TokenOf(hb[c])
          <5>1. hb[c] \in Heartbeat /\ Stopped(hb[c]) \in Heartbeat /\ InUse(hb[c])
            BY <2>1, <3>1, HeartbeatTypes DEF InUse
          <5>2. \A h \in {Sending(hb[c]), Stopped(hb[c]), Renewed(hb[c]), Confirmed(hb[c])} :
                   h.fence = hb[c].fence /\ h.phase = hb[c].phase
            BY <5>1, HeartbeatFields
          <5>3. \A h \in {Lost(hb[c]), Dead(hb[c])} : h.fence = hb[c].fence /\ InUse(h)
            BY <5>1, HeartbeatFields DEF InUse
          <5>4. Lost(Stopped(hb[c])).fence = hb[c].fence /\ InUse(Lost(Stopped(hb[c])))
            BY <5>1, <5>2, HeartbeatFields DEF InUse
          <5> QED BY <5>1, <5>2, <5>3, <5>4 DEF TokenOf, InUse
        <4>2. hb' = hb \/ \E h \in {Sending(hb[c]), Stopped(hb[c]), Renewed(hb[c]),
                          Confirmed(hb[c]), Lost(hb[c]), Lost(Stopped(hb[c])), Dead(hb[c])} :
                             hb' = [hb EXCEPT ![c] = h]
          BY <2>9 DEF SendRenewal, RenewalSucceeds, RenewalFails, StopRenewing, Confirm,
               ConfirmFails, Crash
        <4> QED BY <2>2, <4>1, <4>2
      <3>4. CASE row' = row
        BY <3>3, <3>4
      <3>5. CASE Owns(c) /\ row' = Extended
        BY <2>3, <3>1, <3>3, <3>5 DEF InUse
      <3> QED BY <3>2, <3>4, <3>5
    <2> QED
      BY <2>4, <2>5, <2>6, <2>7, <2>8, <2>9 DEF Next, Abstract!LeaseNext
  <1> QED BY <1>1, <1>2, Invariance, PTL DEF Spec, ImplementsFencedLease, Abstract!LeaseSpec
============================================================================
