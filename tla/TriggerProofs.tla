---------------------------- MODULE TriggerProofs ----------------------------
(***************************************************************************)
(* Proofs about the two triggers that run a plan for somebody outside of   *)
(* the process: an HTTP request (HttpServing) and a message of a stream    *)
(* (StreamTrigger).  They share no variable; each has an inductive         *)
(* invariant of its own, ServingInv and StreamInv, and the theorems        *)
(* assume no more than what the modules ask of their constants.  There may *)
(* be any number of requests, keys, messages and goroutines.               *)
(***************************************************************************)
EXTENDS HttpServing, StreamTrigger, FiniteSetTheorems, TLAPS

----------------------------------------------------------------------------
(* Requests, their runs and the shutdown (HttpServing).                    *)

ServingSafety == ServingInit /\ [][ServingNext]_servingVars

Handler == [pc : HandlerPCs, key : Keys \cup {"nokey"}, gone : BOOLEAN]
Reservation == [outcome : {"none", "pending", "succeeded", "failed"},
                owner : Requests \cup {"noone"}]

Holders == {r \in Requests : HoldsSlot(r)}

\* The slots are counted by a set that grows and shrinks one request at a time.
SlotsCounted == IsFiniteSet(Holders) /\ slots = Cardinality(Holders)

\* A run begins with the admission of its request, and a handler that answers
\* in its own time waits for it.
RunsFollowRequests ==
    \A r \in Requests :
        /\ request[r].pc # "none" => request[r].key \in Keys
        /\ job[r] # "none" => request[r].pc \in {"waiting", "answered"}
        /\ route = "sync" /\ JobActive(r) => request[r].pc = "waiting"
        /\ route = "async" => request[r].pc # "waiting"

\* A pending key belongs to a request for that key which will settle it.
Settling(r) == request[r].pc \in {"reserved", "admitted", "full", "refused"} \/ JobActive(r)
KeysAreOwned ==
    storeOpen => \A k \in Keys : trigger[k].outcome = "pending" =>
        \E r \in Requests : trigger[k].owner = r /\ request[r].key = k /\ Settling(r)

\* What a listener that stopped in time has waited for.
ListenersWait ==
    /\ ~timedOut /\ listener["public"] \in {"stopping", "returned"} =>
          \A r \in Requests : ~InHandler(r)
    /\ ~timedOut /\ listener["public"] = "returned" /\ route = "async" =>
          \A r \in Requests : ~JobActive(r)
    /\ ~storeOpen => listener["public"] = "returned"

ServingInv ==
    /\ ServingTypeOK
    /\ SlotsCounted
    /\ RunsFollowRequests
    /\ KeysAreOwned
    /\ ListenersWait

\* What a phase change makes of a request.
LEMMA RequestGoes ==
    ASSUME request \in [Requests -> Handler], NEW r \in Requests, NEW pc \in HandlerPCs,
           Goes(r, pc)
    PROVE  /\ request' \in [Requests -> Handler]
           /\ request'[r].pc = pc /\ request'[r].key = request[r].key
           /\ \A s \in Requests : s # r => request'[s] = request[s]
  BY DEF Goes, Handler

\* Nobody begins or ends to hold a slot.
LEMMA SlotsStay ==
    ASSUME SlotsCounted, \A r \in Requests : HoldsSlot(r)' <=> HoldsSlot(r), slots' = slots
    PROVE  SlotsCounted'
  <1>1. Holders' = Holders
    BY DEF Holders
  <1> QED BY <1>1 DEF SlotsCounted

\* One request begins to.
LEMMA SlotTaken ==
    ASSUME SlotsCounted, NEW r \in Requests, ~HoldsSlot(r), HoldsSlot(r)',
           \A s \in Requests : s # r => (HoldsSlot(s)' <=> HoldsSlot(s)), slots' = slots + 1
    PROVE  SlotsCounted'
  <1>1. Holders' = Holders \cup {r} /\ r \notin Holders
    BY DEF Holders
  <1> QED BY <1>1, FS_AddElement DEF SlotsCounted

\* One gives its slot back.
LEMMA SlotReturned ==
    ASSUME SlotsCounted, NEW r \in Requests, HoldsSlot(r), ~HoldsSlot(r)',
           \A s \in Requests : s # r => (HoldsSlot(s)' <=> HoldsSlot(s)), slots' = slots - 1
    PROVE  SlotsCounted'
  <1>1. Holders' = Holders \ {r} /\ r \in Holders
    BY DEF Holders
  <1> QED BY <1>1, FS_RemoveElement DEF SlotsCounted

\* Who gives one back finds one to give back.
LEMMA SlotHeld == ASSUME SlotsCounted, NEW r \in Requests, HoldsSlot(r) PROVE slots >= 1
  <1>1. IsFiniteSet(Holders) /\ r \in Holders /\ slots = Cardinality(Holders)
    BY DEF SlotsCounted, Holders
  <1>2. Cardinality(Holders \ {r}) = Cardinality(Holders) - 1
        /\ Cardinality(Holders \ {r}) \in Nat /\ Cardinality(Holders) \in Nat
    BY <1>1, FS_RemoveElement, FS_CardinalityType
  <1> QED BY <1>1, <1>2

\* A key that the finish of a run, or a rejection, settles, or leaves as it is.
LEMMA KeySettled ==
    ASSUME trigger \in [Keys -> Reservation], NEW r \in Requests, request[r].key \in Keys,
           NEW outcome \in {"succeeded", "failed"}, Settles(r, outcome)
    PROVE  /\ trigger' \in [Keys -> Reservation]
           /\ \A k \in Keys : k # request[r].key => trigger'[k] = trigger[k]
           /\ \A k \in Keys : trigger'[k].outcome = "pending" => trigger'[k] = trigger[k]
           /\ storeOpen => trigger'[request[r].key] # [outcome |-> "pending", owner |-> r]
  <1> DEFINE k == request[r].key
  <1>1. CASE storeOpen /\ trigger[k] = [outcome |-> "pending", owner |-> r]
    <2>1. trigger' = [trigger EXCEPT ![k].outcome = outcome]
      BY <1>1 DEF Settles
    <2> QED BY <2>1 DEF Reservation
  <1>2. CASE ~(storeOpen /\ trigger[k] = [outcome |-> "pending", owner |-> r])
    <2>1. trigger' = trigger
      BY <1>2 DEF Settles
    <2> QED BY <1>2, <2>1
  <1> QED BY <1>1, <1>2

\* The invariant holds of a server that just started.
LEMMA ServingBegins == ASSUME ServingConstants PROVE ServingInit => ServingInv
  <1> SUFFICES ASSUME ServingInit PROVE ServingInv
    OBVIOUS
  <1>0. NoRequest \in Handler /\ FreeKey \in Reservation /\ 0 \in 0 .. PoolSize
    BY DEF NoRequest, FreeKey, Handler, Reservation, HandlerPCs, ServingConstants
  <1>1. ServingTypeOK
    BY <1>0 DEF ServingInit, ServingTypeOK, JobPCs, Listeners, Handler, Reservation
  <1>2. Holders = {}
    BY DEF Holders, HoldsSlot, JobActive, ServingInit, NoRequest
  <1>3. SlotsCounted
    BY <1>2, FS_EmptySet DEF SlotsCounted, ServingInit
  <1>4. RunsFollowRequests /\ KeysAreOwned /\ ListenersWait
    BY DEF RunsFollowRequests, KeysAreOwned, ListenersWait, JobActive, InHandler, Listeners,
           ServingInit, NoRequest, FreeKey
  <1> QED BY <1>1, <1>3, <1>4 DEF ServingInv

\* The steps of a handler, of a run and of a client keep it.
LEMMA RequestKeeps ==
    ASSUME ServingConstants, ServingInv, NEW r \in Requests,
           (\E k \in Keys : Arrive(r, k)) \/ HandlerStep(r) \/ JobStep(r) \/ ClientLeaves(r)
    PROVE  ServingInv'
  <1> USE DEF HandlerPCs, JobPCs
  <1>0. /\ request \in [Requests -> Handler] /\ job \in [Requests -> JobPCs]
        /\ trigger \in [Keys -> Reservation] /\ slots \in 0 .. PoolSize /\ PoolSize \in Nat
        /\ route \in Kinds /\ SlotsCounted /\ ServingTypeOK
    BY DEF ServingInv, ServingTypeOK, Handler, Reservation, ServingConstants
  <1>1. ASSUME NEW k \in Keys, Arrive(r, k) PROVE ServingInv'
    <2>1. /\ request' \in [Requests -> Handler]
          /\ request'[r].pc = "reading" /\ request'[r].key = k
          /\ \A s \in Requests : s # r => request'[s] = request[s]
      BY <1>0, <1>1 DEF Arrive, Handler, NoRequest
    <2>2. /\ request[r].pc = "none" /\ listener["public"] = "serving" /\ job[r] = "none"
          /\ ServerUnchanged /\ UNCHANGED <<job, slots, trigger>>
      BY <1>0, <1>1 DEF Arrive, ServingInv, RunsFollowRequests
    <2>3. \A s \in Requests : HoldsSlot(s)' <=> HoldsSlot(s)
      BY <2>1, <2>2 DEF HoldsSlot, JobActive
    <2>4. ServingTypeOK'
      BY <1>0, <2>1, <2>2 DEF ServingTypeOK, ServerUnchanged, Handler
    <2>5. SlotsCounted'
      BY <1>0, <2>2, <2>3, SlotsStay
    <2>6. RunsFollowRequests' /\ KeysAreOwned' /\ ListenersWait'
      BY <2>1, <2>2 DEF ServingInv, RunsFollowRequests, KeysAreOwned, ListenersWait, Settling,
                        JobActive, InHandler, ServerUnchanged
    <2> QED BY <2>4, <2>5, <2>6 DEF ServingInv
  <1>2. ASSUME ReserveKey(r) PROVE ServingInv'
    <2> DEFINE k == request[r].key
    <2>1. /\ request[r].pc = "reading" /\ k \in Keys /\ job[r] = "none"
          /\ ServerUnchanged /\ UNCHANGED <<job, slots>>
      BY <1>0, <1>2 DEF ReserveKey, ServingInv, RunsFollowRequests
    <2>2. PICK pc \in {"reserved", "answered"} : Goes(r, pc)
      BY <1>2 DEF ReserveKey
    <2>3. /\ request' \in [Requests -> Handler]
          /\ request'[r].pc = pc /\ request'[r].key = k
          /\ \A s \in Requests : s # r => request'[s] = request[s]
      BY <1>0, <2>2, RequestGoes
    <2>4. \/ /\ pc = "answered" /\ trigger' = trigger
          \/ /\ pc = "reserved" /\ trigger[k].outcome \in {"none", "failed"}
             /\ trigger' = [trigger EXCEPT ![k] = [outcome |-> "pending", owner |-> r]]
      <3>1. CASE trigger' = trigger /\ Goes(r, "answered")
        BY <1>0, <2>2, <2>3, <3>1, RequestGoes
      <3>2. CASE /\ trigger[k].outcome \in {"none", "failed"} /\ Goes(r, "reserved")
                 /\ trigger' = [trigger EXCEPT ![k] = [outcome |-> "pending", owner |-> r]]
        BY <1>0, <2>2, <2>3, <3>2, RequestGoes
      <3> QED BY <1>2, <3>1, <3>2 DEF ReserveKey
    <2>5. trigger' \in [Keys -> Reservation]
      BY <1>0, <2>1, <2>4 DEF Reservation
    <2>6. \A s \in Requests : HoldsSlot(s)' <=> HoldsSlot(s)
      BY <2>1, <2>3 DEF HoldsSlot, JobActive
    <2>7. ServingTypeOK'
      BY <1>0, <2>1, <2>3, <2>5 DEF ServingTypeOK, ServerUnchanged, Handler, Reservation
    <2>8. SlotsCounted'
      BY <1>0, <2>1, <2>6, SlotsStay
    <2>9. RunsFollowRequests' /\ ListenersWait'
      BY <2>1, <2>3 DEF ServingInv, RunsFollowRequests, ListenersWait, JobActive, InHandler,
                        ServerUnchanged
    <2>10. KeysAreOwned'
      <3>1. CASE pc = "answered" /\ trigger' = trigger
        BY <2>1, <2>3, <3>1 DEF ServingInv, KeysAreOwned, Settling, JobActive, ServerUnchanged
      <3>2. CASE /\ pc = "reserved"
                 /\ trigger' = [trigger EXCEPT ![k] = [outcome |-> "pending", owner |-> r]]
        <4>1. trigger'[k].owner = r /\ \A l \in Keys : l # k => trigger'[l] = trigger[l]
          BY <1>0, <2>1, <3>2
        <4> QED BY <2>1, <2>3, <3>2, <4>1
            DEF ServingInv, KeysAreOwned, Settling, JobActive, ServerUnchanged
      <3> QED BY <2>4, <3>1, <3>2
    <2> QED BY <2>7, <2>8, <2>9, <2>10 DEF ServingInv
  <1>3. ASSUME ReserveEventFails(r) PROVE ServingInv'
    <2> DEFINE k == request[r].key
    <2>1. /\ request[r].pc = "reading" /\ k \in Keys /\ job[r] = "none"
          /\ ServerUnchanged /\ UNCHANGED <<job, slots>> /\ Goes(r, "answered")
          /\ trigger' = [trigger EXCEPT ![k] = [outcome |-> "failed", owner |-> r]]
      BY <1>0, <1>3 DEF ReserveEventFails, ServingInv, RunsFollowRequests
    <2>2. /\ request' \in [Requests -> Handler]
          /\ request'[r].pc = "answered" /\ request'[r].key = k
          /\ \A s \in Requests : s # r => request'[s] = request[s]
      BY <1>0, <2>1, RequestGoes
    <2>3. trigger' \in [Keys -> Reservation] /\ trigger'[k].outcome = "failed"
          /\ \A l \in Keys : l # k => trigger'[l] = trigger[l]
      BY <1>0, <2>1 DEF Reservation
    <2>4. \A s \in Requests : HoldsSlot(s)' <=> HoldsSlot(s)
      BY <2>1, <2>2 DEF HoldsSlot, JobActive
    <2>5. ServingTypeOK'
      BY <1>0, <2>1, <2>2, <2>3 DEF ServingTypeOK, ServerUnchanged, Handler, Reservation
    <2>6. SlotsCounted'
      BY <1>0, <2>1, <2>4, SlotsStay
    <2>7. RunsFollowRequests' /\ ListenersWait' /\ KeysAreOwned'
      BY <2>1, <2>2, <2>3 DEF ServingInv, RunsFollowRequests, ListenersWait, KeysAreOwned,
                              Settling, JobActive, InHandler, ServerUnchanged
    <2> QED BY <2>5, <2>6, <2>7 DEF ServingInv
  <1>4. ASSUME Admit(r) PROVE ServingInv'
    <2>1. /\ request[r].pc = "reserved" /\ job[r] = "none"
          /\ ServerUnchanged /\ UNCHANGED <<job, trigger>>
      BY <1>0, <1>4 DEF Admit, ServingInv, RunsFollowRequests
    <2>2. PICK pc \in {"admitted", "full"} :
             /\ Goes(r, pc)
             /\ pc = "admitted" => slots < PoolSize /\ slots' = slots + 1
             /\ pc = "full" => slots' = slots
      BY <1>4 DEF Admit
    <2>3. /\ request' \in [Requests -> Handler]
          /\ request'[r].pc = pc /\ request'[r].key = request[r].key
          /\ \A s \in Requests : s # r => request'[s] = request[s]
      BY <1>0, <2>2, RequestGoes
    <2>4. slots' \in 0 .. PoolSize
      BY <1>0, <2>2
    <2>5. ServingTypeOK'
      BY <1>0, <2>1, <2>3, <2>4 DEF ServingTypeOK, ServerUnchanged, Handler
    <2>6. SlotsCounted'
      <3>1. \A s \in Requests : s # r => (HoldsSlot(s)' <=> HoldsSlot(s))
        BY <2>1, <2>3 DEF HoldsSlot, JobActive
      <3>2. ~HoldsSlot(r) /\ (HoldsSlot(r)' <=> pc = "admitted")
        BY <2>1, <2>3 DEF HoldsSlot, JobActive
      <3>3. CASE pc = "admitted"
        BY <1>0, <2>2, <3>1, <3>2, <3>3, SlotTaken
      <3>4. CASE pc = "full"
        BY <1>0, <2>2, <3>1, <3>2, <3>4, SlotsStay
      <3> QED BY <3>3, <3>4
    <2>7. RunsFollowRequests' /\ ListenersWait' /\ KeysAreOwned'
      BY <2>1, <2>3 DEF ServingInv, RunsFollowRequests, ListenersWait, KeysAreOwned,
                        Settling, JobActive, InHandler, ServerUnchanged
    <2> QED BY <2>5, <2>6, <2>7 DEF ServingInv
  <1>5. ASSUME Start(r) PROVE ServingInv'
    <2>1. /\ request[r].pc = "admitted" /\ job[r] = "none" /\ HoldsSlot(r)
          /\ ServerUnchanged /\ UNCHANGED trigger
      BY <1>0, <1>5 DEF Start, ServingInv, RunsFollowRequests, HoldsSlot
    <2>2. CASE route = "async" /\ stopped
      <3>1. slots' = slots - 1 /\ Goes(r, "refused") /\ job' = job
        BY <1>5, <2>2 DEF Start
      <3>2. /\ request' \in [Requests -> Handler]
            /\ request'[r].pc = "refused" /\ request'[r].key = request[r].key
            /\ \A s \in Requests : s # r => request'[s] = request[s]
        BY <1>0, <3>1, RequestGoes
      <3>3. slots' \in 0 .. PoolSize
        BY <1>0, <2>1, <3>1, SlotHeld
      <3>4. ServingTypeOK'
        BY <1>0, <2>1, <3>1, <3>2, <3>3 DEF ServingTypeOK, ServerUnchanged, Handler
      <3>5. ~HoldsSlot(r)' /\ \A s \in Requests : s # r => (HoldsSlot(s)' <=> HoldsSlot(s))
        BY <2>1, <3>1, <3>2 DEF HoldsSlot, JobActive
      <3>6. SlotsCounted'
        BY <1>0, <2>1, <3>1, <3>5, SlotReturned
      <3>7. RunsFollowRequests' /\ ListenersWait' /\ KeysAreOwned'
        BY <2>1, <3>1, <3>2 DEF ServingInv, RunsFollowRequests, ListenersWait, KeysAreOwned,
                                Settling, JobActive, InHandler, ServerUnchanged
      <3> QED BY <3>4, <3>6, <3>7 DEF ServingInv
    <2>3. CASE ~(route = "async" /\ stopped)
      <3>1. /\ job' = [job EXCEPT ![r] = "running"] /\ slots' = slots
            /\ Goes(r, IF route = "async" THEN "answered" ELSE "waiting")
        BY <1>5, <2>3 DEF Start
      <3>2. PICK pc \in {"answered", "waiting"} :
               Goes(r, pc) /\ pc = IF route = "async" THEN "answered" ELSE "waiting"
        BY <3>1
      <3>3. /\ request' \in [Requests -> Handler]
            /\ request'[r].pc = pc /\ request'[r].key = request[r].key
            /\ \A s \in Requests : s # r => request'[s] = request[s]
        BY <1>0, <3>2, RequestGoes
      <3>4. /\ job' \in [Requests -> JobPCs] /\ job'[r] = "running"
            /\ \A s \in Requests : s # r => job'[s] = job[s]
        BY <1>0, <3>1
      <3>5. ServingTypeOK'
        BY <1>0, <2>1, <3>1, <3>3, <3>4 DEF ServingTypeOK, ServerUnchanged, Handler
      <3>6. \A s \in Requests : HoldsSlot(s)' <=> HoldsSlot(s)
        BY <2>1, <3>3, <3>4 DEF HoldsSlot, JobActive
      <3>7. SlotsCounted'
        BY <1>0, <3>1, <3>6, SlotsStay
      <3>8. RunsFollowRequests' /\ KeysAreOwned'
        BY <2>1, <3>2, <3>3, <3>4 DEF ServingInv, RunsFollowRequests, KeysAreOwned,
                                Settling, JobActive, ServerUnchanged
      <3>9. ListenersWait'
        BY <2>1, <3>3, <3>4 DEF ServingInv, ListenersWait, JobActive, InHandler, ServerUnchanged
      <3> QED BY <3>5, <3>7, <3>8, <3>9 DEF ServingInv
    <2> QED BY <2>2, <2>3
  <1>6. ASSUME Reject(r) PROVE ServingInv'
    <2>1. /\ request[r].pc \in {"full", "refused"} /\ job[r] = "none" /\ request[r].key \in Keys
          /\ ServerUnchanged /\ UNCHANGED <<job, slots>>
          /\ Settles(r, "failed") /\ Goes(r, "answered")
      BY <1>0, <1>6 DEF Reject, ServingInv, RunsFollowRequests
    <2>2. /\ request' \in [Requests -> Handler]
          /\ request'[r].pc = "answered" /\ request'[r].key = request[r].key
          /\ \A s \in Requests : s # r => request'[s] = request[s]
      BY <1>0, <2>1, RequestGoes
    <2>3. /\ trigger' \in [Keys -> Reservation]
          /\ \A k \in Keys : trigger'[k].outcome = "pending" => trigger'[k] = trigger[k]
          /\ storeOpen => trigger'[request[r].key] # [outcome |-> "pending", owner |-> r]
      BY <1>0, <2>1, KeySettled
    <2>4. \A s \in Requests : HoldsSlot(s)' <=> HoldsSlot(s)
      BY <2>1, <2>2 DEF HoldsSlot, JobActive
    <2>5. ServingTypeOK'
      BY <1>0, <2>1, <2>2, <2>3 DEF ServingTypeOK, ServerUnchanged, Handler, Reservation
    <2>6. SlotsCounted'
      BY <1>0, <2>1, <2>4, SlotsStay
    <2>7. RunsFollowRequests' /\ ListenersWait'
      BY <2>1, <2>2 DEF ServingInv, RunsFollowRequests, ListenersWait, JobActive, InHandler,
                        ServerUnchanged
    <2>8. KeysAreOwned'
      BY <2>1, <2>2, <2>3 DEF ServingInv, KeysAreOwned, Settling, JobActive, ServerUnchanged,
                              Reservation
    <2> QED BY <2>5, <2>6, <2>7, <2>8 DEF ServingInv
  <1>7. ASSUME Answer(r) \/ ClientLeaves(r) PROVE ServingInv'
    <2>1. /\ request' \in [Requests -> Handler]
          /\ request'[r].key = request[r].key
          /\ \/ request'[r].pc = request[r].pc
             \/ request[r].pc = "waiting" /\ request'[r].pc = "answered"
          /\ \A s \in Requests : s # r => request'[s] = request[s]
      <3>1. CASE Answer(r)
        BY <1>0, <3>1, RequestGoes DEF Answer
      <3>2. CASE ClientLeaves(r)
        BY <1>0, <3>2 DEF ClientLeaves, Handler
      <3> QED BY <1>7, <3>1, <3>2
    <2>2. ServerUnchanged /\ UNCHANGED <<job, slots, trigger>>
      BY <1>7 DEF Answer, ClientLeaves
    <2>3. request'[r].pc # request[r].pc => job[r] = "finished" \/ route = "sse"
      BY <1>0, <1>7 DEF Answer, ClientLeaves, Handler
    <2>4. \A s \in Requests : HoldsSlot(s)' <=> HoldsSlot(s)
      BY <2>1, <2>2 DEF HoldsSlot, JobActive
    <2>5. ServingTypeOK'
      BY <1>0, <2>1, <2>2 DEF ServingTypeOK, ServerUnchanged, Handler
    <2>6. SlotsCounted'
      BY <1>0, <2>2, <2>4, SlotsStay
    <2>7. RunsFollowRequests' /\ ListenersWait'
      BY <2>1, <2>2, <2>3 DEF ServingInv, RunsFollowRequests, ListenersWait, JobActive, InHandler,
                              ServerUnchanged
    <2>8. KeysAreOwned'
      BY <2>1, <2>2 DEF ServingInv, KeysAreOwned, Settling, JobActive, ServerUnchanged
    <2> QED BY <2>5, <2>6, <2>7, <2>8 DEF ServingInv
  <1>8. ASSUME RunPlan(r) \/ PlanFails(r) PROVE ServingInv'
    <2>1. /\ job[r] = "running" /\ ServerUnchanged /\ UNCHANGED <<request, slots, trigger>>
          /\ \E outcome \in {"failed", "succeeded"} : job' = [job EXCEPT ![r] = outcome]
      BY <1>8 DEF RunPlan, PlanFails
    <2>2. /\ job' \in [Requests -> JobPCs] /\ job'[r] \in {"failed", "succeeded"}
          /\ \A s \in Requests : s # r => job'[s] = job[s]
      BY <1>0, <2>1
    <2>3. \A s \in Requests : JobActive(s)' <=> JobActive(s)
      BY <2>1, <2>2 DEF JobActive
    <2>4. SlotsCounted'
      BY <1>0, <2>1, <2>3, SlotsStay DEF HoldsSlot
    <2>5. ServingTypeOK'
      BY <1>0, <2>1, <2>2 DEF ServingTypeOK, ServerUnchanged
    <2>6. RunsFollowRequests'
      BY <2>1, <2>2, <2>3 DEF ServingInv, RunsFollowRequests, ServerUnchanged
    <2>7. ListenersWait' /\ KeysAreOwned'
      BY <2>1, <2>3 DEF ServingInv, ListenersWait, KeysAreOwned, Settling, InHandler,
                        ServerUnchanged
    <2> QED BY <2>4, <2>5, <2>6, <2>7 DEF ServingInv
  <1>9. ASSUME FinishPlan(r) PROVE ServingInv'
    <2>1. /\ job[r] \in {"succeeded", "failed"} /\ Settles(r, job[r]) /\ slots' = slots - 1
          /\ ServerUnchanged /\ UNCHANGED request
          /\ job' = [job EXCEPT ![r] = "finished"]
      BY <1>9 DEF FinishPlan
    <2>2. /\ job' \in [Requests -> JobPCs] /\ job'[r] = "finished"
          /\ \A s \in Requests : s # r => job'[s] = job[s]
      BY <1>0, <2>1
    <2>3. request[r].pc \in {"waiting", "answered"} /\ request[r].key \in Keys
      BY <2>1 DEF ServingInv, RunsFollowRequests
    <2>4. /\ trigger' \in [Keys -> Reservation]
          /\ \A k \in Keys : trigger'[k].outcome = "pending" => trigger'[k] = trigger[k]
          /\ storeOpen => trigger'[request[r].key] # [outcome |-> "pending", owner |-> r]
      BY <1>0, <2>1, <2>3, KeySettled
    <2>5. /\ HoldsSlot(r) /\ ~HoldsSlot(r)'
          /\ \A s \in Requests : s # r => (HoldsSlot(s)' <=> HoldsSlot(s))
      BY <2>1, <2>2, <2>3 DEF HoldsSlot, JobActive
    <2>6. SlotsCounted'
      BY <1>0, <2>1, <2>5, SlotReturned
    <2>7. slots' \in 0 .. PoolSize
      BY <1>0, <2>1, <2>5, SlotHeld
    <2>8. ServingTypeOK'
      BY <1>0, <2>1, <2>2, <2>4, <2>7 DEF ServingTypeOK, ServerUnchanged, Reservation
    <2>9. RunsFollowRequests' /\ ListenersWait'
      BY <2>1, <2>2, <2>3 DEF ServingInv, RunsFollowRequests, ListenersWait, JobActive, InHandler,
                              ServerUnchanged
    <2>10. KeysAreOwned'
      BY <2>1, <2>2, <2>3, <2>4 DEF ServingInv, KeysAreOwned, Settling, JobActive,
                                    ServerUnchanged, Reservation
    <2> QED BY <2>6, <2>8, <2>9, <2>10 DEF ServingInv
  <1> QED
    BY <1>1, <1>2, <1>3, <1>4, <1>5, <1>6, <1>7, <1>8, <1>9 DEF HandlerStep, JobStep

\* So do those of the shutdown.
LEMMA ShutdownKeeps ==
    ASSUME ServingConstants, ServingInv,
           Terminate \/ CloseRuntime \/ \E l \in Listeners : ShutdownStep(l)
    PROVE  ServingInv'
  <1>0. /\ WorkUnchanged /\ (timedOut => timedOut')
        /\ listener \in [Listeners -> {"serving", "draining", "stopping", "returned"}]
    BY DEF ServingInv, ServingTypeOK, Terminate, CloseRuntime, ShutdownStep, BeginShutdown,
           StopGroup, GroupDrained, ShutdownTimesOut
  <1>1. ServingTypeOK'
    BY <1>0 DEF ServingInv, ServingTypeOK, WorkUnchanged, Terminate, CloseRuntime, ShutdownStep,
         BeginShutdown, StopGroup, GroupDrained, ShutdownTimesOut, Enters
  <1>2. \A s \in Requests : /\ JobActive(s)' <=> JobActive(s)
                            /\ InHandler(s)' <=> InHandler(s)
                            /\ HoldsSlot(s)' <=> HoldsSlot(s)
    BY <1>0 DEF WorkUnchanged, JobActive, InHandler, HoldsSlot
  <1>3. SlotsCounted'
    BY <1>0, <1>2, SlotsStay DEF ServingInv, WorkUnchanged
  <1>4. RunsFollowRequests'
    BY <1>0 DEF ServingInv, RunsFollowRequests, WorkUnchanged, JobActive
  <1>5. KeysAreOwned'
    <2>1. storeOpen' => storeOpen
      BY DEF Terminate, CloseRuntime, ShutdownStep, BeginShutdown, StopGroup, GroupDrained,
             ShutdownTimesOut
    <2> QED BY <1>0, <2>1 DEF ServingInv, KeysAreOwned, Settling, WorkUnchanged, JobActive
  <1>6. ListenersWait'
    <2>1. CASE Terminate
      BY <1>0, <1>2, <2>1 DEF Terminate, ServingInv, ListenersWait, WorkUnchanged
    <2>2. CASE CloseRuntime
      BY <1>0, <1>2, <2>2 DEF CloseRuntime, ServingInv, ListenersWait, WorkUnchanged, Listeners
    <2>3. ASSUME NEW l \in Listeners, BeginShutdown(l) PROVE ListenersWait'
      BY <1>0, <1>2, <2>3 DEF BeginShutdown, Enters, ServingInv, ListenersWait, WorkUnchanged,
                              Listeners
    <2>4. ASSUME NEW l \in Listeners, StopGroup(l) PROVE ListenersWait'
      BY <1>0, <1>2, <2>4 DEF StopGroup, Enters, ServingInv, ListenersWait, WorkUnchanged,
                              Listeners
    <2>5. ASSUME NEW l \in Listeners, GroupDrained(l) PROVE ListenersWait'
      BY <1>0, <1>2, <2>5 DEF GroupDrained, Enters, ServingInv, ListenersWait, WorkUnchanged,
                              Listeners
    <2>6. ASSUME NEW l \in Listeners, ShutdownTimesOut(l) PROVE ListenersWait'
      BY <1>0, <1>2, <2>6 DEF ShutdownTimesOut, Enters, ServingInv, ListenersWait, WorkUnchanged,
                              Listeners
    <2> QED BY <2>1, <2>2, <2>3, <2>4, <2>5, <2>6 DEF ShutdownStep
  <1> QED BY <1>1, <1>3, <1>4, <1>5, <1>6 DEF ServingInv

\* The invariant holds of every reachable state.
LEMMA ServingInvariance == ASSUME ServingConstants PROVE ServingSafety => []ServingInv
  <1>1. ServingInv /\ [ServingNext]_servingVars => ServingInv'
    <2> SUFFICES ASSUME ServingInv, [ServingNext]_servingVars PROVE ServingInv'
      OBVIOUS
    <2>1. ASSUME NEW r \in Requests,
                 (\E k \in Keys : Arrive(r, k)) \/ HandlerStep(r) \/ JobStep(r) \/ ClientLeaves(r)
          PROVE  ServingInv'
      BY <2>1, RequestKeeps
    <2>2. CASE Terminate \/ CloseRuntime \/ \E l \in Listeners : ShutdownStep(l)
      BY <2>2, ShutdownKeeps
    <2>3. CASE UNCHANGED servingVars
      <3>1. SlotsCounted'
        BY <2>3, SlotsStay DEF servingVars, ServingInv, HoldsSlot, JobActive
      <3> QED BY <2>3, <3>1 DEF servingVars, ServingInv, ServingTypeOK, RunsFollowRequests,
                 KeysAreOwned, ListenersWait, Settling, JobActive, InHandler
    <2> QED BY <2>1, <2>2, <2>3 DEF ServingNext
  <1> QED BY <1>1, ServingBegins, PTL DEF ServingSafety

\* The variables of the server keep their types, for any requests, keys and pool.
THEOREM ServingTyped == ASSUME ServingConstants PROVE ServingSafety => []ServingTypeOK
  BY ServingInvariance, PTL DEF ServingInv

\* However requests end - full, refused, cancelled, abandoned by their client, cut
\* off by a shutdown - no slot of the pool is lost or given back twice.
THEOREM SlotsAreConserved == ASSUME ServingConstants PROVE ServingSafety => []PoolConserved
  <1>1. ServingInv => PoolConserved
    BY DEF ServingInv, SlotsCounted, PoolConserved, Holders
  <1> QED BY <1>1, ServingInvariance, PTL

\* No path through the handler leaves a trigger key pending behind it.
THEOREM PendingIsOwned == ASSUME ServingConstants PROVE ServingSafety => []PendingHasOwner
  <1>1. ServingInv => PendingHasOwner
    BY DEF ServingInv, KeysAreOwned, Settling, PendingHasOwner
  <1> QED BY <1>1, ServingInvariance, PTL

\* The store outlives the handlers and the runs of the async group.
THEOREM StoreClosedLast == ASSUME ServingConstants PROVE ServingSafety => []CloseAfterWork
  <1>1. ServingInv => CloseAfterWork
    BY DEF ServingInv, ServingTypeOK, Kinds, RunsFollowRequests, ListenersWait, InHandler,
           JobActive, CloseAfterWork
  <1> QED BY <1>1, ServingInvariance, PTL

----------------------------------------------------------------------------
(* Messages of a stream, their keys and their effects (StreamTrigger).     *)

StreamSafety == StreamInit /\ [][StreamNext]_streamVars

Task == [pc : TaskPCs, msg : 0 .. NumMessages, attempt : Nat]
LoopState == [pc : {"idle", "reading", "holding", "draining", "returned"},
              from : 0 .. NumMessages, held : 0 .. NumMessages, stop : BOOLEAN]

\* Between the reservation of a key and its settlement.
Owning(w) == task[w].pc \in {"running", "confirmed"}

\* Whoever is busy is so with a message of the stream.
TasksHaveMessages ==
    /\ \A w \in Runners : task[w].pc # "idle" => task[w].msg \in Messages
    /\ loop.pc = "holding" => loop.held \in Messages

\* A key that is free or failed stands for no effect, a pending one for a run
\* that had it, at most one at a time and none after its effect.
KeysCountEffects ==
    HasID =>
        /\ \A m \in Messages :
              /\ key[m] \in {"none", "failed"} => effects[m] = 0
              /\ key[m] = "succeeded" => effects[m] > 0
              /\ effects[m] <= 1
        /\ \A w \in Runners : Owning(w) => key[task[w].msg] = "pending"
        /\ \A w \in Runners : task[w].pc = "running" => effects[task[w].msg] = 0
        /\ \A v, w \in Runners : Owning(v) /\ Owning(w) /\ task[v].msg = task[w].msg => v = w

\* Success is reported only of a message that had its effect.
SuccessIsEffect ==
    \A w \in Runners : task[w].pc \in {"confirmed", "ok"} => effects[task[w].msg] > 0

StreamInv ==
    /\ StreamTypeOK
    /\ TasksHaveMessages
    /\ KeysCountEffects
    /\ SuccessIsEffect
    /\ AckedIsHandled

\* What a task can become.
LEMMA TaskMoves ==
    ASSUME task \in [Runners -> Task], NEW w \in Runners, NEW pc \in TaskPCs, Moves(w, pc)
    PROVE  /\ task' \in [Runners -> Task]
           /\ task'[w].pc = pc /\ task'[w].msg = task[w].msg
           /\ \A v \in Runners : v # w => task'[v] = task[v]
  BY DEF Moves, Task

LEMMA TaskFrees ==
    ASSUME StreamConstants, task \in [Runners -> Task], NEW w \in Runners, Frees(w)
    PROVE  /\ task' \in [Runners -> Task]
           /\ task'[w].pc = "idle"
           /\ \A v \in Runners : v # w => task'[v] = task[v]
  BY DEF Frees, Task, NoTask, TaskPCs, StreamConstants

LEMMA TaskReplays ==
    ASSUME StreamConstants, task \in [Runners -> Task], NEW m \in Messages,
           task' = [task EXCEPT !["replay"] = Replaying(m)]
    PROVE  /\ task' \in [Runners -> Task]
           /\ task'["replay"].pc = "reserving" /\ task'["replay"].msg = m
           /\ \A v \in Runners : v # "replay" => task'[v] = task[v]
  <1>1. m \in 0 .. NumMessages /\ 0 \in Nat
    BY DEF Messages, StreamConstants
  <1>2. Replaying(m) \in Task /\ Replaying(m).pc = "reserving" /\ Replaying(m).msg = m
    BY <1>1 DEF Replaying, Task, NoTask, TaskPCs
  <1> QED BY <1>2 DEF Runners

\* What the loop can become: at another place of the stream, or told to stop.
LEMMA LoopGoes ==
    ASSUME loop \in LoopState, NEW h \in 0 .. NumMessages, NEW f \in 0 .. NumMessages,
           NEW pc \in {"idle", "reading", "holding", "draining", "returned"}
    PROVE  /\ loop' = [loop EXCEPT !.pc = pc, !.held = h, !.from = f]
                => loop' \in LoopState /\ loop'.pc = pc /\ loop'.held = h
           /\ loop' = [loop EXCEPT !.pc = pc, !.from = f] => loop' \in LoopState /\ loop'.pc = pc
           /\ loop' = [loop EXCEPT !.pc = pc, !.held = h] => loop' \in LoopState /\ loop'.pc = pc
           /\ loop' = [loop EXCEPT !.pc = pc, !.stop = TRUE]
                => loop' \in LoopState /\ loop'.pc = pc
  <1>1. ASSUME loop' = [loop EXCEPT !.pc = pc, !.held = h, !.from = f]
        PROVE  loop' \in LoopState /\ loop'.pc = pc /\ loop'.held = h
    BY <1>1 DEF LoopState
  <1>2. ASSUME loop' = [loop EXCEPT !.pc = pc, !.from = f]
        PROVE  loop' \in LoopState /\ loop'.pc = pc
    BY <1>2 DEF LoopState
  <1>3. ASSUME loop' = [loop EXCEPT !.pc = pc, !.held = h]
        PROVE  loop' \in LoopState /\ loop'.pc = pc
    BY <1>3 DEF LoopState
  <1>4. ASSUME loop' = [loop EXCEPT !.pc = pc, !.stop = TRUE]
        PROVE  loop' \in LoopState /\ loop'.pc = pc
    BY <1>4 DEF LoopState
  <1> QED BY <1>1, <1>2, <1>3, <1>4

LEMMA LoopStopped ==
    ASSUME loop \in LoopState, Fatal
    PROVE  loop' \in LoopState /\ loop'.pc = loop.pc /\ loop'.held = loop.held
  BY DEF Fatal, LoopState

\* What a step does to keys and effects when it settles nothing: the tasks it
\* touches end up outside of their plan and claim no success they did not have.
LEMMA KeysStay ==
    ASSUME StreamInv, UNCHANGED <<broker, key, effects>>,
           \A w \in Runners : \/ task'[w] = task[w]
                              \/ task'[w].pc \in TaskPCs \ {"running", "confirmed", "ok"}
    PROVE  KeysCountEffects' /\ SuccessIsEffect'
  BY DEF StreamInv, KeysCountEffects, SuccessIsEffect, Owning, HasID

\* The invariant holds of an empty stream.
LEMMA StreamBegins == ASSUME StreamConstants PROVE StreamInit => StreamInv
  <1> SUFFICES ASSUME StreamInit PROVE StreamInv
    OBVIOUS
  <1>1. StreamTypeOK
    BY DEF StreamInit, StreamTypeOK, StreamConstants, NoLoop, NoTask, TaskPCs, None
  <1>2. \A w \in Runners : task[w].pc = "idle"
    BY DEF StreamInit, NoTask
  <1>3. KeysCountEffects /\ SuccessIsEffect
    BY <1>2 DEF KeysCountEffects, SuccessIsEffect, Owning, StreamInit
  <1>4. TasksHaveMessages /\ AckedIsHandled
    BY <1>2 DEF TasksHaveMessages, AckedIsHandled, StreamInit, NoLoop
  <1> QED BY <1>1, <1>3, <1>4 DEF StreamInv

\* The receive loop and the producer touch neither keys nor effects.
LEMMA LoopKeeps ==
    ASSUME StreamConstants, StreamInv,
           \/ Produce \/ Receive \/ Deliver \/ StopReceiving \/ ReceiveFails \/ LoopReturns
           \/ Cancel \/ \E w \in Workers : Dispatch(w)
    PROVE  StreamInv'
  <1>0. /\ loop \in LoopState /\ task \in [Runners -> Task] /\ NumMessages \in Nat
        /\ appended \in 0 .. NumMessages /\ cursor \in {None} \cup 0 .. NumMessages
        /\ StreamTypeOK /\ deliveries \in 0 .. MaxDeliveries /\ MaxDeliveries \in Nat
    BY DEF StreamInv, StreamTypeOK, StreamConstants, Task, LoopState
  <1>00. 0 \in 0 .. NumMessages
    BY <1>0
  <1>1. ASSUME UNCHANGED <<broker, key, effects, acked, routed, task>>, StreamTypeOK',
               loop'.pc = "holding" => loop'.held \in Messages
        PROVE  StreamInv'
    <2>1. KeysCountEffects' /\ SuccessIsEffect'
      BY <1>1, KeysStay
    <2> QED BY <1>1, <2>1 DEF StreamInv, TasksHaveMessages, AckedIsHandled
  <1>2. CASE Produce
    <2>1. StreamTypeOK'
      BY <1>0, <1>2 DEF Produce, StreamTypeOK, historyVars
    <2> QED BY <1>1, <1>2, <2>1 DEF Produce, historyVars, StreamInv, TasksHaveMessages
  <1>3. CASE Receive
    <2>1. ReadFrom \in 0 .. NumMessages
      BY <1>0 DEF ReadFrom
    <2>2. loop' \in LoopState /\ loop'.pc = "reading"
      <3>1. loop' = [loop EXCEPT !.pc = "reading", !.from = ReadFrom]
        BY <1>3 DEF Receive
      <3> QED BY <1>0, <1>00, <2>1, <3>1, LoopGoes
    <2>3. StreamTypeOK'
      BY <1>0, <1>3, <2>2 DEF Receive, LoopOnly, StreamTypeOK, LoopState, historyVars
    <2> QED BY <1>1, <1>3, <2>2, <2>3 DEF Receive, LoopOnly, historyVars
  <1>4. CASE Deliver
    <2>1. loop.from + 1 \in Messages /\ loop.from + 1 \in 0 .. NumMessages
      <3>1. loop.from \in 0 .. NumMessages /\ loop.from < appended
        BY <1>0, <1>4 DEF Deliver, LoopState
      <3> QED BY <1>0, <3>1 DEF Messages
    <2>2. loop' \in LoopState /\ loop'.pc = "holding" /\ loop'.held = loop.from + 1
      <3>1. loop' = [loop EXCEPT !.pc = "holding", !.held = loop.from + 1, !.from = 0]
        BY <1>4 DEF Deliver
      <3> QED BY <1>0, <1>00, <2>1, <3>1, LoopGoes
    <2>3. deliveries' \in 0 .. MaxDeliveries /\ cursor' \in {None} \cup 0 .. NumMessages
      BY <1>0, <1>4, <2>1 DEF Deliver
    <2>4. StreamTypeOK'
      BY <1>0, <1>4, <2>2, <2>3 DEF Deliver, LoopOnly, StreamTypeOK, LoopState, historyVars
    <2> QED BY <1>1, <1>4, <2>1, <2>2, <2>4 DEF Deliver, LoopOnly, historyVars
  <1>5. CASE StopReceiving \/ ReceiveFails \/ LoopReturns \/ Cancel
    <2>1. loop' \in LoopState /\ (loop'.pc = "holding" => loop'.held \in Messages)
      <3>1. CASE StopReceiving
        BY <1>0, <1>00, <3>1, LoopGoes DEF StopReceiving
      <3>2. CASE ReceiveFails
        BY <1>0, <1>00, <3>2, LoopGoes DEF ReceiveFails
      <3>3. CASE LoopReturns
        BY <1>0, <1>00, <3>3, LoopGoes DEF LoopReturns
      <3>4. CASE Cancel
        BY <1>0, <3>4, LoopStopped DEF Cancel, Fatal, StreamInv, TasksHaveMessages
      <3> QED BY <1>5, <3>1, <3>2, <3>3, <3>4
    <2>2. LoopOnly /\ UNCHANGED <<cursor, task, deliveries>>
      BY <1>5 DEF StopReceiving, ReceiveFails, LoopReturns, Cancel
    <2>3. StreamTypeOK'
      BY <1>0, <2>1, <2>2 DEF LoopOnly, StreamTypeOK, LoopState, historyVars
    <2> QED BY <1>1, <2>1, <2>2, <2>3 DEF LoopOnly, historyVars
  <1>6. ASSUME NEW w \in Workers, Dispatch(w) PROVE StreamInv'
    <2>1. w \in Runners /\ loop.held \in Messages /\ loop.held \in 0 .. NumMessages
          /\ LoopOnly /\ UNCHANGED <<cursor, deliveries>>
      BY <1>0, <1>6 DEF Dispatch, Runners, StreamInv, TasksHaveMessages, Messages
    <2> DEFINE t == [NoTask EXCEPT !.pc = "started", !.msg = loop.held]
    <2>2. t \in Task /\ t.pc = "started" /\ t.msg = loop.held
      BY <2>1 DEF NoTask, Task, TaskPCs
    <2>3. /\ task' \in [Runners -> Task]
          /\ task'[w].pc = "started" /\ task'[w].msg = loop.held
          /\ \A v \in Runners : v # w => task'[v] = task[v]
      BY <1>0, <1>6, <2>1, <2>2 DEF Dispatch
    <2>4. loop' \in LoopState /\ loop'.pc = "idle"
      BY <1>0, <1>00, <1>6, LoopGoes DEF Dispatch
    <2>5. KeysCountEffects' /\ SuccessIsEffect'
      BY <2>1, <2>3, KeysStay DEF LoopOnly, historyVars, TaskPCs
    <2>6. StreamTypeOK'
      BY <1>0, <2>1, <2>3, <2>4 DEF LoopOnly, historyVars, StreamTypeOK, LoopState, Task
    <2>7. TasksHaveMessages' /\ AckedIsHandled'
      BY <2>1, <2>3, <2>4 DEF StreamInv, TasksHaveMessages, AckedIsHandled, LoopOnly, historyVars
    <2> QED BY <2>5, <2>6, <2>7 DEF StreamInv
  <1> QED BY <1>2, <1>3, <1>4, <1>5, <1>6

\* The plan of a message: its key, its effect, and what becomes of both.
LEMMA RunKeeps ==
    ASSUME StreamConstants, StreamInv, NEW w \in Runners, RunStep(w)
    PROVE  StreamInv'
  <1> DEFINE m == task[w].msg
  <1>0. /\ task \in [Runners -> Task] /\ m \in Messages
        /\ key \in [Messages -> {"none", "pending", "succeeded", "failed"}]
        /\ effects \in [Messages -> 0 .. MaxAttempts] /\ MaxAttempts \in Nat \ {0}
        /\ RunOnly /\ StreamTypeOK
    BY DEF StreamInv, StreamTypeOK, TasksHaveMessages, RunStep, Reserve, ReserveFails, Execute,
           Confirm, Task, StreamConstants
  <1> HIDE DEF m
  <1>1. PICK pc \in {"running", "pending", "ok", "failed", "confirmed", "interrupted"} :
              Moves(w, pc)
    BY DEF RunStep, Reserve, ReserveFails, Execute, Confirm
  <1>2. /\ task' \in [Runners -> Task]
        /\ task'[w].pc = pc /\ task'[w].msg = task[w].msg
        /\ \A v \in Runners : v # w => task'[v] = task[v]
    BY <1>0, <1>1, TaskMoves DEF TaskPCs
  <1>3. ASSUME NEW o \in {"none", "pending", "succeeded", "failed"}, key' = [key EXCEPT ![m] = o]
        PROVE  /\ key' \in [Messages -> {"none", "pending", "succeeded", "failed"}]
               /\ key'[m] = o /\ \A n \in Messages : n # m => key'[n] = key[n]
    BY <1>0, <1>3
  <1>4. ASSUME key' \in [Messages -> {"none", "pending", "succeeded", "failed"}],
               effects' \in [Messages -> 0 .. MaxAttempts],
               \A n \in Messages : effects'[n] >= effects[n]
        PROVE  StreamTypeOK' /\ TasksHaveMessages' /\ AckedIsHandled'
    <2>1. StreamTypeOK'
      BY <1>0, <1>2, <1>4 DEF StreamTypeOK, RunOnly, brokerVars, Task
    <2>2. TasksHaveMessages'
      BY <1>0, <1>2 DEF StreamInv, TasksHaveMessages, RunOnly, m
    <2>3. AckedIsHandled'
      BY <1>0, <1>4 DEF StreamInv, StreamTypeOK, AckedIsHandled, RunOnly
    <2> QED BY <2>1, <2>2, <2>3
  <1>5. (HasID' <=> HasID) /\ (HasID \/ ~HasID)
    BY <1>0 DEF HasID, RunOnly, brokerVars
  <1>6. /\ HasID => /\ key[m] \in {"none", "failed"} => effects[m] = 0
                    /\ key[m] = "succeeded" => effects[m] > 0
                    /\ \A n \in Messages : effects[n] <= 1
                    /\ task[w].pc \in {"running", "confirmed"} => key[m] = "pending"
                    /\ task[w].pc = "running" => effects[m] = 0
        /\ task[w].pc \in {"confirmed", "ok"} => effects[m] > 0
    BY <1>0 DEF StreamInv, KeysCountEffects, SuccessIsEffect, Owning, m
  \* Neither a key nor an effect moves: a duplicate, or a key that another delivery holds.
  <1>7. ASSUME UNCHANGED <<key, effects>>, pc \in {"ok", "pending", "running"},
               pc = "ok" => effects[m] > 0, pc = "running" => ~HasID
        PROVE  KeysCountEffects' /\ SuccessIsEffect'
    <2>1. KeysCountEffects'
      BY <1>0, <1>2, <1>5, <1>7 DEF StreamInv, KeysCountEffects, Owning, m
    <2>2. SuccessIsEffect'
      BY <1>0, <1>2, <1>7 DEF StreamInv, SuccessIsEffect, m
    <2> QED BY <2>1, <2>2
  \* Its key moves, or its effect happens, while nobody else owns the key.
  <1>8. ASSUME HasID => \A v \in Runners : v # w /\ Owning(v) => task[v].msg # m,
               \A n \in Messages : n # m => key'[n] = key[n] /\ effects'[n] = effects[n],
               effects'[m] >= effects[m], effects' \in [Messages -> 0 .. MaxAttempts],
               HasID => /\ key'[m] \in {"none", "failed"} => effects'[m] = 0
                        /\ key'[m] = "succeeded" => effects'[m] > 0
                        /\ effects'[m] <= 1
                        /\ pc \in {"running", "confirmed"} => key'[m] = "pending"
                        /\ pc = "running" => effects'[m] = 0,
               pc \in {"confirmed", "ok"} => effects'[m] > 0
        PROVE  KeysCountEffects' /\ SuccessIsEffect'
    <2>1. \A v \in Runners : v # w => (Owning(v)' <=> Owning(v)) /\ task'[v] = task[v]
      BY <1>2 DEF Owning
    <2>2. Owning(w)' => pc \in {"running", "confirmed"}
      BY <1>2 DEF Owning
    <2>3. \A v \in Runners : Owning(v) => task[v].msg \in Messages
      BY DEF StreamInv, TasksHaveMessages, Owning
    <2>4. ASSUME HasID PROVE KeysCountEffects'
      <3>1. \A n \in Messages : /\ key'[n] \in {"none", "failed"} => effects'[n] = 0
                                /\ key'[n] = "succeeded" => effects'[n] > 0
                                /\ effects'[n] <= 1
        BY <1>8, <2>4 DEF StreamInv, KeysCountEffects
      <3>2. \A v \in Runners : Owning(v)' => key'[task'[v].msg] = "pending"
        BY <1>2, <1>8, <2>1, <2>2, <2>3, <2>4 DEF StreamInv, KeysCountEffects, m
      <3>3. \A v \in Runners : task'[v].pc = "running" => effects'[task'[v].msg] = 0
        BY <1>2, <1>8, <2>1, <2>3, <2>4 DEF StreamInv, KeysCountEffects, Owning, m
      <3>4. \A u, v \in Runners :
              Owning(u)' /\ Owning(v)' /\ task'[u].msg = task'[v].msg => u = v
        BY <1>2, <1>8, <2>1, <2>4 DEF StreamInv, KeysCountEffects, m
      <3> QED BY <3>1, <3>2, <3>3, <3>4 DEF KeysCountEffects
    <2>5. ASSUME ~HasID PROVE KeysCountEffects'
      BY <1>5, <2>5 DEF KeysCountEffects
    <2>6. ASSUME NEW v \in Runners, task'[v].pc \in {"confirmed", "ok"}
          PROVE  effects'[task'[v].msg] > 0
      <3>1. CASE v = w
        BY <1>2, <1>8, <2>6, <3>1 DEF m
      <3>2. CASE v # w
        <4>1. task'[v] = task[v] /\ task[v].msg \in Messages /\ effects[task[v].msg] > 0
          BY <2>1, <2>6, <3>2 DEF StreamInv, TasksHaveMessages, SuccessIsEffect
        <4>2. effects'[task[v].msg] >= effects[task[v].msg]
          BY <1>8, <1>0, <4>1
        <4> QED BY <1>0, <1>8, <4>1, <4>2
      <3> QED BY <3>1, <3>2
    <2> QED BY <1>5, <2>4, <2>5, <2>6 DEF SuccessIsEffect
  <1>9. pc = task'[w].pc
    BY <1>2
  <1>10. HasID => \A v \in Runners : v # w /\ Owning(v) /\ (Owning(w) \/ key[m] # "pending")
                                    => task[v].msg # m
    BY DEF StreamInv, KeysCountEffects, m
  <1>11. CASE Reserve(w)
    <2>0. UNCHANGED effects
      BY <1>11 DEF Reserve
    <2>1. ASSUME key' = key, pc \in {"ok", "pending", "running"}, pc = "ok" => effects[m] > 0,
                 pc = "running" => ~HasID
          PROVE  StreamInv'
      <3>1. KeysCountEffects' /\ SuccessIsEffect'
        BY <1>7, <2>0, <2>1
      <3> QED BY <1>0, <1>4, <2>0, <2>1, <3>1 DEF StreamInv
    <2>2. CASE HasID /\ key[m] \in {"none", "failed"} /\ key' = [key EXCEPT ![m] = "pending"]
                /\ Moves(w, "running")
      <3>1. pc = "running"
        BY <1>0, <1>9, <2>2 DEF Moves, Task
      <3>2. key' \in [Messages -> {"none", "pending", "succeeded", "failed"}]
            /\ key'[m] = "pending" /\ \A n \in Messages : n # m => key'[n] = key[n]
        BY <1>3, <2>2
      <3>3. KeysCountEffects' /\ SuccessIsEffect'
        BY <1>0, <1>6, <1>8, <1>10, <2>0, <2>2, <3>1, <3>2
      <3> QED BY <1>0, <1>4, <2>0, <3>2, <3>3 DEF StreamInv
    <2>3. CASE ~HasID /\ Moves(w, "running") /\ key' = key
      BY <1>0, <1>9, <2>1, <2>3 DEF Moves, Task
    <2>4. CASE HasID /\ key[m] = "pending" /\ Moves(w, "pending") /\ key' = key
      BY <1>0, <1>9, <2>1, <2>4 DEF Moves, Task
    <2>5. CASE HasID /\ key[m] = "succeeded" /\ Moves(w, "ok") /\ key' = key
      BY <1>0, <1>6, <1>9, <2>1, <2>5 DEF Moves, Task
    <2> QED BY <1>11, <2>2, <2>3, <2>4, <2>5 DEF Reserve, m
  <1>12. CASE ReserveFails(w)
    <2>1. /\ HasID /\ key[m] \in {"none", "failed"} /\ key' = [key EXCEPT ![m] = "failed"]
          /\ Moves(w, "failed") /\ UNCHANGED effects
      BY <1>12 DEF ReserveFails, m
    <2>2. pc = "failed"
      BY <1>0, <1>9, <2>1 DEF Moves, Task
    <2>3. key' \in [Messages -> {"none", "pending", "succeeded", "failed"}]
          /\ key'[m] = "failed" /\ \A n \in Messages : n # m => key'[n] = key[n]
      BY <1>3, <2>1
    <2>4. KeysCountEffects' /\ SuccessIsEffect'
      BY <1>0, <1>6, <1>8, <1>10, <2>1, <2>2, <2>3
    <2> QED BY <1>0, <1>4, <2>1, <2>3, <2>4 DEF StreamInv
  <1>13. CASE Execute(w)
    <2>0. task[w].pc = "running" /\ Owning(w)
      BY <1>13 DEF Execute, Owning
    <2>1. ASSUME effects' = [effects EXCEPT ![m] = Saturated(@ + 1)], Moves(w, "confirmed"),
                 UNCHANGED key
          PROVE  StreamInv'
      <3>1. pc = "confirmed"
        BY <1>0, <1>9, <2>1 DEF Moves, Task
      <3>2. /\ Saturated(effects[m] + 1) \in 0 .. MaxAttempts
            /\ Saturated(effects[m] + 1) >= effects[m] /\ Saturated(effects[m] + 1) > 0
            /\ HasID => Saturated(effects[m] + 1) = 1
        BY <1>0, <1>6, <2>0 DEF Saturated
      <3>3. /\ effects' \in [Messages -> 0 .. MaxAttempts]
            /\ effects'[m] = Saturated(effects[m] + 1)
            /\ \A n \in Messages : n # m => effects'[n] = effects[n]
        BY <1>0, <2>1, <3>2
      <3>4. effects'[m] >= effects[m] /\ effects'[m] > 0 /\ (HasID => effects'[m] = 1)
        BY <3>2, <3>3
      <3>5. HasID => key[m] = "pending"
        BY <1>6, <2>0
      <3>6. KeysCountEffects' /\ SuccessIsEffect'
        BY <1>8, <1>10, <2>0, <2>1, <3>1, <3>3, <3>4, <3>5
      <3>7. \A n \in Messages : effects'[n] >= effects[n]
        BY <1>0, <3>3, <3>4
      <3> QED BY <1>0, <1>4, <2>1, <3>3, <3>6, <3>7 DEF StreamInv
    <2>2. ASSUME KeyFails(m), NEW p \in {"failed", "interrupted"}, Moves(w, p), UNCHANGED effects
          PROVE  StreamInv'
      <3>1. pc = p
        BY <1>0, <1>9, <2>2 DEF Moves, Task
      <3>2. /\ key' \in [Messages -> {"none", "pending", "succeeded", "failed"}]
            /\ HasID => key'[m] = "failed"
            /\ \A n \in Messages : n # m => key'[n] = key[n]
        BY <1>0, <1>3, <2>2 DEF KeyFails
      <3>3. KeysCountEffects' /\ SuccessIsEffect'
        BY <1>0, <1>6, <1>8, <1>10, <2>0, <2>2, <3>1, <3>2
      <3> QED BY <1>0, <1>4, <2>2, <3>2, <3>3 DEF StreamInv
    <2> QED BY <1>13, <2>1, <2>2 DEF Execute, m
  <1>14. CASE Confirm(w)
    <2>1. /\ task[w].pc = "confirmed" /\ Owning(w) /\ UNCHANGED effects
          /\ key' = IF HasID THEN [key EXCEPT ![m] = "succeeded"] ELSE key
      BY <1>14 DEF Confirm, Owning, m
    <2>2. pc \in {"ok", "failed"}
      BY <1>0, <1>9, <1>14 DEF Confirm, Moves, Task
    <2>3. /\ key' \in [Messages -> {"none", "pending", "succeeded", "failed"}]
          /\ HasID => key'[m] = "succeeded"
          /\ \A n \in Messages : n # m => key'[n] = key[n]
      BY <1>0, <1>3, <2>1
    <2>4. KeysCountEffects' /\ SuccessIsEffect'
      BY <1>0, <1>6, <1>8, <1>10, <2>1, <2>2, <2>3
    <2> QED BY <1>0, <1>4, <2>1, <2>3, <2>4 DEF StreamInv
  <1> QED BY <1>11, <1>12, <1>13, <1>14 DEF RunStep

\* What settles a delivery, a replay and a restart touch neither keys nor effects.
LEMMA SettlingKeeps ==
    ASSUME StreamInv, StreamTypeOK', UNCHANGED <<broker, key, effects>>,
           \A w \in Runners : \/ task'[w] = task[w]
                              \/ task'[w].pc = "idle"
                              \/ task'[w].pc = "reserving" /\ task'[w].msg \in Messages,
           loop'.pc = "holding" => loop.pc = "holding" /\ loop'.held = loop.held,
           routed \subseteq routed',
           \A m \in acked' : m \in acked \/ effects[m] > 0 \/ m \in routed'
    PROVE  StreamInv'
  <1>1. KeysCountEffects' /\ SuccessIsEffect'
    BY KeysStay DEF TaskPCs
  <1>2. TasksHaveMessages'
    BY DEF StreamInv, TasksHaveMessages
  <1>3. AckedIsHandled'
    BY DEF StreamInv, AckedIsHandled
  <1> QED BY <1>1, <1>2, <1>3 DEF StreamInv

\* The end of a delivery: acknowledged, rejected, parked, dead-lettered or dropped.
LEMMA SettleKeeps ==
    ASSUME StreamConstants, StreamInv, NEW w \in Workers,
           \/ Count(w) \/ Acknowledge(w) \/ LeaveUnacked(w) \/ AckFails(w) \/ Park(w) \/ Retry(w)
           \/ GiveUp(w) \/ DeadLetter(w) \/ Abort(w)
    PROVE  StreamInv'
  <1> DEFINE m == task[w].msg
  <1>0. /\ w \in Runners /\ task \in [Runners -> Task] /\ m \in Messages /\ loop \in LoopState
        /\ attempts \in [Messages -> 0 .. MaxAttempts] /\ MaxAttempts \in Nat \ {0}
        /\ NumMessages \in Nat /\ m - 1 \in 0 .. NumMessages /\ m \in 0 .. NumMessages
        /\ dlq \in Seq(Messages) /\ acked \subseteq Messages /\ routed \subseteq Messages
        /\ cursor \in {None} \cup 0 .. NumMessages /\ committed \in 0 .. NumMessages
    <2>1. w \in Runners /\ task[w].pc # "idle"
      BY DEF Runners, Count, Acknowledge, LeaveUnacked, AckFails, Park, Retry, GiveUp, DeadLetter,
             Abort
    <2>2. m \in Messages
      BY <2>1 DEF StreamInv, TasksHaveMessages
    <2>3. NumMessages \in Nat /\ MaxAttempts \in Nat \ {0}
      BY DEF StreamConstants
    <2>4. m \in 0 .. NumMessages /\ m - 1 \in 0 .. NumMessages
      BY <2>2, <2>3 DEF Messages
    <2>5. /\ task \in [Runners -> Task] /\ loop \in LoopState /\ dlq \in Seq(Messages)
          /\ attempts \in [Messages -> 0 .. MaxAttempts]
          /\ acked \subseteq Messages /\ routed \subseteq Messages
          /\ cursor \in {None} \cup 0 .. NumMessages /\ committed \in 0 .. NumMessages
      BY DEF StreamInv, StreamTypeOK, Task, LoopState
    <2> QED BY <2>1, <2>2, <2>3, <2>4, <2>5
  <1>1. task[w].pc = "ok" => effects[m] > 0
    BY <1>0 DEF StreamInv, SuccessIsEffect
  <1> HIDE DEF m
  <1>2. ASSUME AckMoves(m)
        PROVE  /\ cursor' \in {None} \cup 0 .. NumMessages /\ committed' \in 0 .. NumMessages
               /\ acked' = acked \cup {m}
    BY <1>0, <1>2 DEF AckMoves
  <1>3. ASSUME NackMoves(m)
        PROVE  /\ cursor' \in {None} \cup 0 .. NumMessages /\ committed' = committed
               /\ acked' = acked
    BY <1>0, <1>3 DEF NackMoves
  <1>4. ASSUME Routes(m)
        PROVE  dlq' \in Seq(Messages) /\ routed' = routed \cup {m}
    BY <1>0, <1>4 DEF Routes
  <1>5. ASSUME Clears(m) PROVE attempts' \in [Messages -> 0 .. MaxAttempts]
    <2>1. 0 \in 0 .. MaxAttempts
      BY <1>0
    <2> QED BY <1>0, <1>5, <2>1 DEF Clears
  <1>6. ASSUME Fatal PROVE loop' \in LoopState /\ loop'.pc = loop.pc /\ loop'.held = loop.held
    BY <1>0, <1>6, LoopStopped
  \* What the ways to end a delivery have in common.
  <1>7. ASSUME Frees(w), SettleOnly,
               loop' \in LoopState /\ loop'.pc = loop.pc /\ loop'.held = loop.held,
               attempts' \in [Messages -> 0 .. MaxAttempts],
               cursor' \in {None} \cup 0 .. NumMessages, committed' \in 0 .. NumMessages,
               dlq' \in Seq(Messages), routed' \in {routed, routed \cup {m}},
               acked' \in {acked, acked \cup {m}},
               acked' # acked => effects[m] > 0 \/ m \in routed'
        PROVE  StreamInv'
    <2>1. /\ task' \in [Runners -> Task] /\ task'[w].pc = "idle"
          /\ \A v \in Runners : v # w => task'[v] = task[v]
      BY <1>0, <1>7, TaskFrees
    <2>2. acked' \subseteq Messages /\ routed' \subseteq Messages
      BY <1>0, <1>7
    <2>3. StreamTypeOK'
      BY <1>7, <2>1, <2>2 DEF StreamInv, StreamTypeOK, SettleOnly, Task, LoopState
    <2>4. /\ routed \subseteq routed'
          /\ \A n \in acked' : n \in acked \/ effects[n] > 0 \/ n \in routed'
      BY <1>7
    <2>5. UNCHANGED <<broker, key, effects>>
      BY <1>7 DEF SettleOnly
    <2> QED BY <1>7, <2>1, <2>3, <2>4, <2>5, SettlingKeeps
  <1>8. CASE Count(w)
    <2> DEFINE n == IF HasID THEN Saturated(attempts[m] + 1) ELSE 1
    <2>1. n \in 0 .. MaxAttempts /\ n \in Nat
      BY <1>0 DEF Saturated
    <2>2. attempts' \in [Messages -> 0 .. MaxAttempts]
      <3>1. attempts' = IF HasID THEN [attempts EXCEPT ![m] = n] ELSE attempts
        BY <1>8 DEF Count, m
      <3> HIDE DEF n
      <3> QED BY <1>0, <2>1, <3>1
    <2>3. /\ task' \in [Runners -> Task]
          /\ task'[w].pc = "reserving" /\ task'[w].msg = m
          /\ \A v \in Runners : v # w => task'[v] = task[v]
      <3>1. task' = [task EXCEPT ![w].pc = "reserving", ![w].attempt = n]
        BY <1>8 DEF Count, m
      <3>2. task[w] \in Task /\ task[w].msg = m
        BY <1>0 DEF m
      <3> HIDE DEF n
      <3>3. task'[w] = [task[w] EXCEPT !.pc = "reserving", !.attempt = n]
        BY <1>0, <3>1
      <3>4. task'[w] \in Task /\ task'[w].pc = "reserving" /\ task'[w].msg = m
        BY <2>1, <3>2, <3>3 DEF Task, TaskPCs
      <3> QED BY <1>0, <3>1, <3>4
    <2>4. UNCHANGED <<brokerVars, budget, loop, key, dlq, todo, historyVars, deliveries, replays,
                      restarts>>
      BY <1>8 DEF Count
    <2>5. StreamTypeOK'
      BY <2>2, <2>3, <2>4 DEF StreamInv, StreamTypeOK, brokerVars, historyVars, Task
    <2> QED BY <1>0, <2>3, <2>4, <2>5, SettlingKeeps DEF brokerVars, historyVars
  <1>9. CASE Acknowledge(w)
    BY <1>0, <1>1, <1>2, <1>5, <1>7, <1>9 DEF Acknowledge, m
  <1>10. CASE LeaveUnacked(w)
    BY <1>0, <1>5, <1>7, <1>10 DEF LeaveUnacked, m
  <1>11. CASE AckFails(w)
    BY <1>0, <1>1, <1>2, <1>3, <1>4, <1>5, <1>6, <1>7, <1>11 DEF AckFails, m
  <1>12. CASE Park(w) \/ Retry(w)
    BY <1>0, <1>3, <1>7, <1>12 DEF Park, Retry, m
  <1>13. CASE GiveUp(w)
    BY <1>0, <1>3, <1>5, <1>7, <1>13 DEF GiveUp, m
  <1>14. CASE DeadLetter(w)
    BY <1>0, <1>2, <1>3, <1>4, <1>5, <1>6, <1>7, <1>14 DEF DeadLetter, m
  <1>15. CASE Abort(w)
    BY <1>0, <1>6, <1>7, <1>15 DEF Abort
  <1> QED BY <1>8, <1>9, <1>10, <1>11, <1>12, <1>13, <1>14, <1>15

\* A replay and a restart.
LEMMA ReplayKeeps ==
    ASSUME StreamConstants, StreamInv, Drain \/ ReplayNext \/ ReplayStops \/ Restart
    PROVE  StreamInv'
  <1>0. /\ "replay" \in Runners /\ task \in [Runners -> Task]
        /\ dlq \in Seq(Messages) /\ todo \in Seq(Messages) /\ routed \subseteq Messages
        /\ <<>> \in Seq(Messages) /\ replays \in 0 .. MaxReplays /\ MaxReplays \in Nat
    BY DEF StreamInv, StreamTypeOK, StreamConstants, Task, Runners
  \* What a replay step may do.
  <1>1. ASSUME ReplayOnly, NEW m \in Messages,
               Frees("replay") \/ task' = [task EXCEPT !["replay"] = Replaying(m)],
               dlq' \in Seq(Messages), todo' \in Seq(Messages), replays' \in 0 .. MaxReplays,
               routed \subseteq routed', routed' \subseteq Messages
        PROVE  StreamInv'
    <2>1. /\ task' \in [Runners -> Task]
          /\ \A v \in Runners : \/ task'[v] = task[v]
                                \/ task'[v].pc = "idle"
                                \/ task'[v].pc = "reserving" /\ task'[v].msg \in Messages
      <3>1. CASE Frees("replay")
        BY <1>0, <3>1, TaskFrees
      <3>2. CASE task' = [task EXCEPT !["replay"] = Replaying(m)]
        BY <1>0, <3>2, TaskReplays
      <3> QED BY <1>1, <3>1, <3>2
    <2>2. StreamTypeOK'
      BY <1>1, <2>1 DEF StreamInv, StreamTypeOK, ReplayOnly, brokerVars, Task
    <2> QED BY <1>1, <2>1, <2>2, SettlingKeeps DEF ReplayOnly, brokerVars
  <1>2. CASE Drain
    <2>1. Head(dlq) \in Messages /\ Tail(dlq) \in Seq(Messages)
      BY <1>0, <1>2 DEF Drain
    <2>2. /\ ReplayOnly /\ dlq' = <<>> /\ todo' = Tail(dlq) /\ routed' = routed
          /\ task' = [task EXCEPT !["replay"] = Replaying(Head(dlq))]
          /\ replays' \in 0 .. MaxReplays
      BY <1>0, <1>2 DEF Drain
    <2> QED BY <1>0, <1>1, <2>1, <2>2
  <1>3. CASE ReplayNext
    <2>1. task["replay"].msg \in Messages
      BY <1>0, <1>3 DEF ReplayNext, StreamInv, TasksHaveMessages
    <2>2. todo # <<>> => Head(todo) \in Messages /\ Tail(todo) \in Seq(Messages)
      BY <1>0
    <2> QED BY <1>0, <1>1, <1>3, <2>1, <2>2 DEF ReplayNext
  <1>4. CASE ReplayStops
    <2> DEFINE m == task["replay"].msg
    <2>1. m \in Messages
      BY <1>0, <1>4 DEF ReplayStops, StreamInv, TasksHaveMessages
    <2>2. Append(dlq, m) \in Seq(Messages)
      BY <1>0, <2>1
    <2> QED BY <1>0, <1>1, <1>4, <2>1, <2>2 DEF ReplayStops, Routes
  <1>5. CASE Restart
    <2>1. NoLoop \in LoopState /\ NoTask \in Task /\ NoTask.pc = "idle" /\ NoLoop.pc = "idle"
          /\ 0 \in 0 .. MaxAttempts /\ 0 \in 0 .. NumMessages
      BY DEF NoLoop, NoTask, LoopState, Task, TaskPCs, StreamConstants
    <2>2. task' \in [Runners -> Task] /\ \A w \in Runners : task'[w].pc = "idle"
      BY <1>5, <2>1 DEF Restart
    <2>3. /\ loop' \in LoopState /\ loop'.pc = "idle"
          /\ attempts' \in [Messages -> 0 .. MaxAttempts]
          /\ dlq' \in Seq(Messages) /\ todo' \in Seq(Messages)
          /\ restarts' \in 0 .. MaxRestarts /\ cursor' \in {None} \cup 0 .. NumMessages
      BY <1>0, <1>5, <2>1 DEF Restart, StreamInv, StreamTypeOK, StreamConstants
    <2>4. UNCHANGED <<broker, appended, committed, budget, key, effects, acked, routed,
                      deliveries, replays>>
      BY <1>5 DEF Restart
    <2>5. StreamTypeOK'
      BY <2>2, <2>3, <2>4 DEF StreamInv, StreamTypeOK, Task, LoopState
    <2> QED BY <2>2, <2>3, <2>4, <2>5, SettlingKeeps
  <1> QED BY <1>2, <1>3, <1>4, <1>5

\* Every step keeps it, so it holds of every reachable state.
LEMMA StreamInvariance == ASSUME StreamConstants PROVE StreamSafety => []StreamInv
  <1>1. StreamInit => StreamInv
    BY StreamBegins
  <1>2. ASSUME StreamInv, [StreamNext]_streamVars PROVE StreamInv'
    <2>1. CASE StreamNext
      <3>1. "replay" \in Runners /\ Workers \subseteq Runners
        BY DEF Runners
      <3> QED BY <1>2, <2>1, <3>1, LoopKeeps, RunKeeps, SettleKeeps, ReplayKeeps
              DEF StreamNext, WorkerStep
    <2>2. CASE UNCHANGED streamVars
      <3>1. UNCHANGED <<broker, appended, cursor, committed, budget, loop, task, attempts, key,
                        dlq, todo, effects, acked, routed, deliveries, replays, restarts>>
        BY <2>2 DEF streamVars, brokerVars, historyVars
      <3>2. StreamTypeOK'
        BY <1>2, <3>1 DEF StreamInv, StreamTypeOK
      <3> QED BY <1>2, <3>1, <3>2, SettlingKeeps
    <2> QED BY <1>2, <2>1, <2>2
  <1> QED BY <1>1, <1>2, PTL DEF StreamSafety

\* The variables of a stream trigger keep their types.
THEOREM StreamTyped == ASSUME StreamConstants PROVE StreamSafety => []StreamTypeOK
  BY StreamInvariance, PTL DEF StreamInv

\* A message with an identity has its terminal effect at most once, however often the
\* broker delivers it, a replay drains it or the process restarts: a run begins only with
\* a key that is free or failed, and no such key stands for an effect.
THEOREM EffectsHappenOnce == ASSUME StreamConstants PROVE StreamSafety => []EffectAtMostOnce
  <1>1. StreamInv => EffectAtMostOnce
    BY DEF StreamInv, KeysCountEffects, EffectAtMostOnce
  <1> QED BY <1>1, StreamInvariance, PTL

\* The broker is told to forget a message only after its effect, or once the dead-letter
\* target has it.
THEOREM AcknowledgedIsHandled == ASSUME StreamConstants PROVE StreamSafety => []AckedIsHandled
  BY StreamInvariance, PTL DEF StreamInv
=============================================================================
