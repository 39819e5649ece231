--------------------------- MODULE JobQueueProofs ---------------------------
(***************************************************************************)
(* Theorems about JobQueue for any number of items, direct requests and    *)
(* history slots.                                                          *)
(***************************************************************************)
EXTENDS JobQueue, SequenceTheorems, TLAPS

USE TokensAssumption, BodyAssumption, CapAssumption

-----------------------------------------------------------------------------
(* Sequences *)

(* Deleting a position leaves a sequence of the same elements' type. *)
LEMMA WithoutType ==
    ASSUME NEW q \in Seq(Items), NEW n \in 1..Len(q)
    PROVE  Without(q, n) \in Seq(Items)
<1>1. SubSeq(q, 1, n - 1) \in Seq(Items)
  BY SubSeqProperties
<1>2. SubSeq(q, n + 1, Len(q)) \in Seq(Items)
  BY SubSeqProperties
<1> QED BY <1>1, <1>2, ConcatProperties DEF Without

(* The history stays a sequence of items within its cap. *)
LEMMA PushedType ==
    ASSUME NEW h \in Seq(Items), NEW q \in Seq(Items)
    PROVE  Pushed(h, q) \in Seq(Items) /\ Len(Pushed(h, q)) <= HISTORY_CAP
<1> DEFINE newest == [n \in 1..Len(q) |-> q[Len(q) + 1 - n]]
           all == newest \o h
           keep == IF Len(all) < HISTORY_CAP THEN Len(all) ELSE HISTORY_CAP
<1>1. newest \in Seq(Items)
  <2>1. \A n \in 1..Len(q) : q[Len(q) + 1 - n] \in Items
    BY ElementOfSeq
  <2> QED BY <2>1, IsASeq, LenProperties
<1>2. all \in Seq(Items)
  BY <1>1, ConcatProperties
<1>3. keep \in 0..Len(all) /\ keep <= HISTORY_CAP
  BY <1>2, LenProperties
<1> HIDE DEF all
<1>4. SubSeq(all, 1, keep) \in Seq(Items) /\ Len(SubSeq(all, 1, keep)) = keep
  BY <1>2, <1>3, SubSeqProperties
<1>5. Pushed(h, q) = SubSeq(all, 1, keep)
  BY DEF Pushed, all
<1> QED BY <1>3, <1>4, <1>5

-----------------------------------------------------------------------------
(* The registry *)

(* The transformers of the registry map its states to its states. *)
LEMMA RegisteredType ==
    ASSUME NEW c \in Controls, NEW t \in Tokens
    PROVE  Registered(c, t) \in Controls
  BY DEF Controls, Registered, JobStates, ProgressStates

LEMMA ClosedType ==
    ASSUME NEW c \in Controls, NEW t \in Tokens \cup {NoToken},
           NEW final \in {"done", "error", "cancelled"}
    PROVE  Closed(c, t, final) \in Controls
  BY DEF Controls, Closed, JobStates, ProgressStates

LEMMA CancelRequestedType ==
    ASSUME NEW c \in Controls, NEW t \in Tokens
    PROVE  CancelRequested(c, t) \in Controls
  BY DEF Controls, CancelRequested, JobStates, ProgressStates

-----------------------------------------------------------------------------
(* Type correctness *)

(* The worker's inner loop is entered with well-typed arguments and leaves *)
(* a well-typed state, whatever it starts or fails.                        *)
LEMMA DrainType ==
    ASSUME TypeOK, NEW h \in Seq(Items), NEW s \in [Items -> Statuses],
           NEW c \in Controls, NEW w \in BOOLEAN, Drain(h, s, c, w)
    PROVE  TypeOK'
<1> USE DEF TypeOK
<1>1. PICK k \in 0..Len(pending) :
        /\ Settles(s, c, k) \/ Starts(s, c, w, k)
        /\ history' = Pushed(h, SubSeq(pending, 1, k))
  BY DEF Drain
<1>2. /\ Len(pending) \in Nat
      /\ \A n \in 1..Len(pending) : pending[n] \in Items
  BY LenProperties, ElementOfSeq
<1>3. \A m \in Nat, n \in 0..Len(pending) : m > 0 => SubSeq(pending, m, n) \in Seq(Items)
  BY <1>2, SubSeqProperties
<1>4. history' \in Seq(Items) /\ Len(history') <= HISTORY_CAP
  <2>1. SubSeq(pending, 1, k) \in Seq(Items)
    BY <1>2, <1>3
  <2> QED BY <1>1, <2>1, PushedType
<1>5. AfterRejecting(s, k) \in [Items -> Statuses]
  BY DEF AfterRejecting, Statuses, Settled
<1>6. CASE Settles(s, c, k)
  <2>1. pending' \in Seq(Items)
    BY <1>2, <1>3, <1>6 DEF Settles
  <2> QED BY <1>4, <1>5, <1>6, <2>1 DEF Settles, Drain, WorkerStates
<1>7. CASE Starts(s, c, w, k)
  <2>1. pending' \in Seq(Items)
    BY <1>2, <1>3, <1>7 DEF Starts
  <2>2. pending[k + 1] \in Items
    BY <1>2, <1>7 DEF Starts
  <2>3. status' \in [Items -> Statuses]
    BY <1>5, <1>7 DEF Starts, Statuses, Settled
  <2>4. ctl' \in Controls
    BY <1>7, <2>2, RegisteredType DEF Starts
  <2> QED BY <1>4, <1>7, <2>1, <2>2, <2>3, <2>4 DEF Starts, Drain, WorkerStates
<1> QED BY <1>1, <1>6, <1>7

(* A handler outcome is reported to the registry as a final status. *)
LEMMA FinalProgressType ==
    ASSUME NEW r \in Settled
    PROVE  FinalProgress(r) \in {"done", "error", "cancelled"}
  BY DEF FinalProgress, Settled

(* TypeOK alone is not inductive: that the item entered in the history is  *)
(* an item, and not None, is FlagsAgree.                                   *)
LEMMA TypeStep == TypeOK /\ FlagsAgree /\ [Next]_vars => TypeOK'
<1> SUFFICES ASSUME TypeOK, FlagsAgree, [Next]_vars PROVE TypeOK'
  OBVIOUS
<1> USE DEF TypeOK
<1>1. ASSUME NEW i \in Items, Enqueue(i) PROVE TypeOK'
  <2>1. pending' \in Seq(Items)
    BY <1>1, AppendProperties DEF Enqueue
  <2> QED BY <1>1, <2>1 DEF Enqueue, Statuses
<1>2. ASSUME NEW n \in 1..Len(pending), RemovePending(n) PROVE TypeOK'
  BY <1>2, WithoutType DEF RemovePending
<1>3. ASSUME NEW n \in 1..Len(pending), CancelPending(n) PROVE TypeOK'
  <2>1. pending[n] \in Items
    BY ElementOfSeq
  <2>2. <<pending[n]>> \in Seq(Items)
    BY <2>1
  <2>3. pending' \in Seq(Items)
    BY <1>3, WithoutType DEF CancelPending
  <2>4. history' \in Seq(Items) /\ Len(history') <= HISTORY_CAP
    BY <1>3, <2>2, PushedType DEF CancelPending
  <2> QED BY <1>3, <2>3, <2>4 DEF CancelPending, Statuses, Settled
<1>4. CASE ClearPending
  BY <1>4, EmptySeq DEF ClearPending
<1>5. CASE CancelRunning
  BY <1>5, CancelRequestedType DEF CancelRunning
<1>6. ASSUME NEW t \in Tokens, CancelToken(t) PROVE TypeOK'
  BY <1>6, CancelRequestedType DEF CancelToken
<1>7. CASE WorkerResumes
  BY <1>7, DrainType DEF WorkerResumes
<1>8. ASSUME NEW r \in Settled, QueuedReturns(r) PROVE TypeOK'
  <2>1. ctl' \in Controls
    BY <1>8, FinalProgressType, ClosedType DEF QueuedReturns
  <2> QED BY <1>8, <2>1 DEF QueuedReturns, WorkerStates
<1>9. CASE QueuedRaises
  <2>1. running \in Items
    BY <1>9 DEF QueuedRaises, FlagsAgree
  <2>2. Pushed(history, <<running>>) \in Seq(Items)
    <3>1. <<running>> \in Seq(Items)
      BY <2>1
    <3> QED BY <3>1, PushedType
  <2>3. [status EXCEPT ![running] = "failed"] \in [Items -> Statuses]
    BY DEF Statuses, Settled
  <2>4. Closed(ctl, running, "error") \in Controls
    BY ClosedType
  <2> QED BY <1>9, <2>2, <2>3, <2>4, DrainType DEF QueuedRaises
<1>10. CASE QueuedRecorded
  <2>1. running \in Items
    BY <1>10 DEF QueuedRecorded, FlagsAgree
  <2>2. Pushed(history, <<running>>) \in Seq(Items)
    <3>1. <<running>> \in Seq(Items)
      BY <2>1
    <3> QED BY <3>1, PushedType
  <2>3. [status EXCEPT ![running] = outcome] \in [Items -> Statuses]
    BY DEF Statuses, NoOutcome
  <2> QED BY <1>10, <2>2, <2>3, DrainType DEF QueuedRecorded
<1>11. ASSUME NEW d \in Directs, DirectRefused(d) PROVE TypeOK'
  BY <1>11 DEF DirectRefused, DirectStates
<1>12. ASSUME NEW d \in Directs, DirectBegins(d) PROVE TypeOK'
  BY <1>12, RegisteredType DEF DirectBegins, DirectStates
<1>13. ASSUME NEW d \in Directs, NEW r \in Settled, DirectReturns(d, r) PROVE TypeOK'
  <2>1. ctl' \in Controls
    BY <1>13, FinalProgressType, ClosedType DEF DirectReturns
  <2> QED BY <1>13, <2>1 DEF DirectReturns, DirectStates
<1>14. ASSUME NEW d \in Directs, DirectRaises(d) PROVE TypeOK'
  BY <1>14, ClosedType DEF DirectRaises, EndDirect, DirectStates
<1>15. ASSUME NEW d \in Directs, DirectRecorded(d) PROVE TypeOK'
  BY <1>15 DEF DirectRecorded, EndDirect, DirectStates
<1>16. CASE UNCHANGED vars
  BY <1>16 DEF vars
<1> QED BY <1>1, <1>2, <1>3, <1>4, <1>5, <1>6, <1>7, <1>8, <1>9, <1>10, <1>11,
           <1>12, <1>13, <1>14, <1>15, <1>16
        DEF Next, QueueRequest, WorkerStep, DirectStep
-----------------------------------------------------------------------------
(* One operation at a time *)

(* The inner loop leaves the direct side alone, holds an item exactly when *)
(* it does not wait, starts one only on a free slot, and waits beside a    *)
(* waiting item only while a direct request holds the slot.                *)
LEMMA DrainSlots ==
    ASSUME TypeOK, NEW h, NEW s, NEW c, NEW w, Drain(h, s, c, w)
    PROVE  /\ UNCHANGED <<directBusy, gate, direct>>
           /\ running' # NoToken <=> worker' # "waiting"
           /\ running' # NoToken => ~directBusy
           /\ worker' = "waiting" /\ ~directBusy => pending' = <<>>
<1>1. PICK k \in 0..Len(pending) : Settles(s, c, k) \/ Starts(s, c, w, k)
  BY DEF Drain
<1>2. /\ Len(pending) \in Nat
      /\ \A n \in 1..Len(pending) : pending[n] \in Items
  BY LenProperties, ElementOfSeq DEF TypeOK
<1>3. CASE Settles(s, c, k)
  <2>1. k = Len(pending) => pending' = <<>>
    BY <1>2, <1>3, SubSeqEmpty DEF Settles
  <2> QED BY <1>3, <2>1 DEF Settles, Drain
<1>4. CASE Starts(s, c, w, k)
  <2>1. pending[k + 1] \in Items
    BY <1>2, <1>4 DEF Starts
  <2> QED BY <1>4, <2>1 DEF Starts, Drain
<1> QED BY <1>1, <1>3, <1>4

SlotInv == FlagsAgree /\ SingleFlight

LEMMA SlotStep == TypeOK /\ SlotInv /\ [Next]_vars => SlotInv'
<1> SUFFICES ASSUME TypeOK, SlotInv, [Next]_vars PROVE SlotInv'
  OBVIOUS
<1> USE DEF TypeOK, SlotInv, FlagsAgree, SingleFlight, Active
<1>1. ASSUME NEW i \in Items, Enqueue(i) PROVE SlotInv'
  BY <1>1 DEF Enqueue
<1>2. ASSUME NEW n \in 1..Len(pending), RemovePending(n) \/ CancelPending(n) PROVE SlotInv'
  BY <1>2 DEF RemovePending, CancelPending
<1>3. CASE ClearPending \/ CancelRunning
  BY <1>3 DEF ClearPending, CancelRunning
<1>4. ASSUME NEW t \in Tokens, CancelToken(t) PROVE SlotInv'
  BY <1>4 DEF CancelToken
<1>5. CASE WorkerResumes
  BY <1>5, DrainSlots DEF WorkerResumes
<1>6. ASSUME NEW r \in Settled, QueuedReturns(r) PROVE SlotInv'
  BY <1>6 DEF QueuedReturns
<1>7. CASE QueuedRaises
  BY <1>7, DrainSlots DEF QueuedRaises
<1>8. CASE QueuedRecorded
  BY <1>8, DrainSlots DEF QueuedRecorded
<1>9. ASSUME NEW d \in Directs, DirectRefused(d) PROVE SlotInv'
  BY <1>9 DEF DirectRefused
<1>10. ASSUME NEW d \in Directs, DirectBegins(d) PROVE SlotInv'
  BY <1>10 DEF DirectBegins, Busy
<1>11. ASSUME NEW d \in Directs, NEW r \in Settled, DirectReturns(d, r) PROVE SlotInv'
  BY <1>11 DEF DirectReturns
<1>12. ASSUME NEW d \in Directs, DirectRaises(d) \/ DirectRecorded(d) PROVE SlotInv'
  BY <1>12 DEF DirectRaises, DirectRecorded, EndDirect
<1>13. CASE UNCHANGED vars
  BY <1>13 DEF vars
<1> QED BY <1>1, <1>2, <1>3, <1>4, <1>5, <1>6, <1>7, <1>8, <1>9, <1>10, <1>11,
           <1>12, <1>13
        DEF Next, QueueRequest, WorkerStep, DirectStep

LEMMA InitFacts == Init => TypeOK /\ SlotInv
<1> SUFFICES ASSUME Init PROVE TypeOK /\ SlotInv
  OBVIOUS
<1>1. <<>> \in Seq(Items) /\ Len(<<>>) <= HISTORY_CAP
  BY EmptySeq
<1>2. EmptyControl \in Controls
  BY DEF EmptyControl, Controls, JobStates, ProgressStates
<1> QED BY <1>1, <1>2
        DEF Init, TypeOK, SlotInv, FlagsAgree, SingleFlight, Active, Statuses,
            WorkerStates, DirectStates, NoOutcome

(* Every reachable state is well typed. *)
THEOREM TypeCorrect == Spec => []TypeOK
<1>1. TypeOK /\ SlotInv /\ [Next]_vars => (TypeOK /\ SlotInv)'
  BY TypeStep, SlotStep DEF SlotInv
<1> QED BY <1>1, InitFacts, PTL DEF Spec

(* However many requests arrive and in whatever order the coroutines are   *)
(* resumed, two operations never overlap (job_queue.py:58, 228, main.py:225). *)
THEOREM OneAtATime == Spec => []SingleFlight
<1>1. TypeOK /\ SlotInv /\ [Next]_vars => (TypeOK /\ SlotInv)'
  BY TypeStep, SlotStep DEF SlotInv
<1>2. SlotInv => SingleFlight
  BY DEF SlotInv
<1> QED BY <1>1, <1>2, InitFacts, PTL DEF Spec

(* No exit path of an operation leaves the slot taken by nobody, or free   *)
(* under somebody.                                                         *)
THEOREM FlagsNeverStale == Spec => []FlagsAgree
<1>1. TypeOK /\ SlotInv /\ [Next]_vars => (TypeOK /\ SlotInv)'
  BY TypeStep, SlotStep DEF SlotInv
<1>2. SlotInv => FlagsAgree
  BY DEF SlotInv
<1> QED BY <1>1, <1>2, InitFacts, PTL DEF Spec
-----------------------------------------------------------------------------
(* No lost wake-up *)

(* The worker clears the flag only when it then looks at the deque, and    *)
(* every step that could leave it asleep beside an item sets the flag.     *)
LEMMA WakeupStep ==
    TypeOK /\ SlotInv /\ NoLostWakeup /\ [Next]_vars => NoLostWakeup'
<1> SUFFICES ASSUME TypeOK, SlotInv, NoLostWakeup, [Next]_vars PROVE NoLostWakeup'
  OBVIOUS
<1> USE DEF NoLostWakeup
<1>1. ASSUME NEW i \in Items, Enqueue(i) PROVE NoLostWakeup'
  BY <1>1 DEF Enqueue
<1>2. ASSUME NEW n \in 1..Len(pending), RemovePending(n) \/ CancelPending(n)
      PROVE  NoLostWakeup'
  <2>1. pending # <<>>
    BY EmptySeq
  <2> QED BY <1>2, <2>1 DEF RemovePending, CancelPending
<1>3. CASE ClearPending \/ CancelRunning
  BY <1>3 DEF ClearPending, CancelRunning
<1>4. ASSUME NEW t \in Tokens, CancelToken(t) PROVE NoLostWakeup'
  BY <1>4 DEF CancelToken
<1>5. CASE WorkerResumes \/ QueuedRaises \/ QueuedRecorded
  <2>1. worker' = "waiting" /\ ~directBusy => pending' = <<>>
    BY <1>5, DrainSlots DEF WorkerResumes, QueuedRaises, QueuedRecorded
  <2>2. directBusy' = directBusy
    BY <1>5, DrainSlots DEF WorkerResumes, QueuedRaises, QueuedRecorded
  <2> QED BY <2>1, <2>2
<1>6. ASSUME NEW r \in Settled, QueuedReturns(r) PROVE NoLostWakeup'
  BY <1>6 DEF QueuedReturns
<1>7. ASSUME NEW d \in Directs, DirectRefused(d) \/ DirectBegins(d) PROVE NoLostWakeup'
  BY <1>7 DEF DirectRefused, DirectBegins
<1>8. ASSUME NEW d \in Directs, NEW r \in Settled, DirectReturns(d, r) PROVE NoLostWakeup'
  BY <1>8 DEF DirectReturns
<1>9. ASSUME NEW d \in Directs, DirectRaises(d) \/ DirectRecorded(d) PROVE NoLostWakeup'
  BY <1>9 DEF DirectRaises, DirectRecorded, EndDirect
<1>10. CASE UNCHANGED vars
  BY <1>10 DEF vars
<1> QED BY <1>1, <1>2, <1>3, <1>4, <1>5, <1>6, <1>7, <1>8, <1>9, <1>10
        DEF Next, QueueRequest, WorkerStep, DirectStep

(* The worker is never asleep, unsignalled, beside a waiting item and an   *)
(* idle engine (job_queue.py:232-236 against :105, :77 and :225).          *)
THEOREM WakeupsNotLost == Spec => []NoLostWakeup
<1>1. Init => NoLostWakeup
  BY DEF Init, NoLostWakeup
<1>2. TypeOK /\ SlotInv /\ [Next]_vars => (TypeOK /\ SlotInv)'
  BY TypeStep, SlotStep DEF SlotInv
<1> QED BY <1>1, <1>2, WakeupStep, InitFacts, PTL DEF Spec

-----------------------------------------------------------------------------
(* Cancellation reaches its job *)

(* What the registry looks like when the worker's inner loop suspends.     *)
LEMMA DrainRegistry ==
    ASSUME TypeOK, NEW h, NEW s, NEW c \in Controls, NEW w, Drain(h, s, c, w)
    PROVE  /\ worker' = "waiting" => ctl' = c
           /\ worker' # "waiting" /\ InFlight(c) = {} =>
                                     /\ worker' = "handler"
                                     /\ InFlight(ctl') = {running'}
                                     /\ ctl'.bound = running'
<1>1. PICK k \in 0..Len(pending) : Settles(s, c, k) \/ Starts(s, c, w, k)
  BY DEF Drain
<1>2. /\ Len(pending) \in Nat
      /\ \A n \in 1..Len(pending) : pending[n] \in Items
  BY LenProperties, ElementOfSeq DEF TypeOK
<1>3. CASE Settles(s, c, k)
  BY <1>3 DEF Settles
<1>4. CASE Starts(s, c, w, k)
  <2>1. pending[k + 1] \in Tokens
    BY <1>2, <1>4 DEF Starts
  <2>2. InFlight(c) = {} => InFlight(Registered(c, pending[k + 1])) = {pending[k + 1]}
    BY <2>1 DEF InFlight, Registered, Controls
  <2> QED BY <1>4, <2>2 DEF Starts, Registered
<1> QED BY <1>1, <1>3, <1>4

(* So from an empty registry the loop re-establishes the invariant. *)
LEMMA DrainRestores ==
    ASSUME TypeOK, NEW h, NEW s, NEW c \in Controls, NEW w, Drain(h, s, c, w),
           InFlight(c) = {}, c.bound = NoToken, \A d \in Directs : direct[d] # "handler"
    PROVE  CancelReachesItsJob'
<1> USE DEF CancelReachesItsJob
<1>1. \A d \in Directs : direct'[d] # "handler"
  BY DrainSlots
<1>2. CASE worker' = "waiting"
  <2>1. ctl' = c
    BY <1>2, DrainRegistry
  <2> QED BY <1>1, <1>2, <2>1
<1>3. CASE worker' # "waiting"
  <2>1. worker' = "handler" /\ InFlight(ctl') = {running'} /\ ctl'.bound = running'
    BY <1>3, DrainRegistry
  <2> QED BY <1>1, <2>1
<1> QED BY <1>2, <1>3

(* Closing the only registered token empties the registry. *)
LEMMA ClosedEmpties ==
    ASSUME NEW c \in Controls, NEW t \in Tokens, NEW final,
           InFlight(c) = {t}, c.bound = t
    PROVE  InFlight(Closed(c, t, final)) = {} /\ Closed(c, t, final).bound = NoToken
  BY DEF InFlight, Closed, Controls

(* A cancel request registers nobody and changes no binding. *)
LEMMA CancelKeepsFlight ==
    ASSUME NEW c \in Controls, NEW t \in Tokens
    PROVE  /\ InFlight(CancelRequested(c, t)) = InFlight(c)
           /\ CancelRequested(c, t).bound = c.bound
  BY DEF InFlight, CancelRequested, Controls

LEMMA RegistryStep ==
    TypeOK /\ SlotInv /\ CancelReachesItsJob /\ [Next]_vars => CancelReachesItsJob'
<1> SUFFICES ASSUME TypeOK, SlotInv, CancelReachesItsJob, [Next]_vars
             PROVE  CancelReachesItsJob'
  OBVIOUS
<1> USE DEF TypeOK, SlotInv, FlagsAgree, SingleFlight, Active, CancelReachesItsJob
<1>1. ASSUME NEW i \in Items, Enqueue(i) PROVE CancelReachesItsJob'
  BY <1>1 DEF Enqueue
<1>2. ASSUME NEW n \in 1..Len(pending), RemovePending(n) \/ CancelPending(n)
      PROVE  CancelReachesItsJob'
  BY <1>2 DEF RemovePending, CancelPending
<1>3. CASE ClearPending
  BY <1>3 DEF ClearPending
<1>4. CASE CancelRunning
  BY <1>4, CancelKeepsFlight DEF CancelRunning
<1>5. ASSUME NEW t \in Tokens, CancelToken(t) PROVE CancelReachesItsJob'
  BY <1>5, CancelKeepsFlight DEF CancelToken
<1>6. CASE WorkerResumes
  <2>1. Drain(history, status, ctl, FALSE) /\ worker = "waiting"
    BY <1>6 DEF WorkerResumes
  <2>2. CASE directBusy
    BY <2>1, <2>2, DrainRegistry, DrainSlots
  <2>3. CASE ~directBusy
    <3>1. InFlight(ctl) = {} /\ ctl.bound = NoToken
      BY <2>1, <2>3
    <3> QED BY <2>1, <2>3, <3>1, DrainRestores
  <2> QED BY <2>2, <2>3
<1>7. ASSUME NEW r \in Settled, QueuedReturns(r) PROVE CancelReachesItsJob'
  BY <1>7, ClosedEmpties DEF QueuedReturns, WorkerStates
<1>8. CASE QueuedRaises
  <2>1. worker = "handler" /\ running \in Tokens
    BY <1>8 DEF QueuedRaises
  <2>2. InFlight(ctl) = {running} /\ ctl.bound = running
    BY <2>1
  <2>3. /\ InFlight(Closed(ctl, running, "error")) = {}
        /\ Closed(ctl, running, "error").bound = NoToken
        /\ Closed(ctl, running, "error") \in Controls
    BY <2>1, <2>2, ClosedEmpties, ClosedType
  <2> QED BY <1>8, <2>1, <2>3, DrainRestores DEF QueuedRaises
<1>9. CASE QueuedRecorded
  <2>1. InFlight(ctl) = {} /\ ctl.bound = NoToken
    BY <1>9 DEF QueuedRecorded
  <2> QED BY <1>9, <2>1, DrainRestores DEF QueuedRecorded
<1>10. ASSUME NEW d \in Directs, DirectRefused(d) PROVE CancelReachesItsJob'
  BY <1>10 DEF DirectRefused
<1>11. ASSUME NEW d \in Directs, DirectBegins(d) PROVE CancelReachesItsJob'
  BY <1>11 DEF DirectBegins, Busy, Registered, InFlight, Controls
<1>12. ASSUME NEW d \in Directs, NEW r \in Settled, DirectReturns(d, r)
       PROVE  CancelReachesItsJob'
  BY <1>12, ClosedEmpties DEF DirectReturns
<1>13. ASSUME NEW d \in Directs, DirectRaises(d) PROVE CancelReachesItsJob'
  BY <1>13, ClosedEmpties DEF DirectRaises, EndDirect
<1>14. ASSUME NEW d \in Directs, DirectRecorded(d) PROVE CancelReachesItsJob'
  BY <1>14 DEF DirectRecorded, EndDirect
<1>15. CASE UNCHANGED vars
  BY <1>15 DEF vars
<1> QED BY <1>1, <1>2, <1>3, <1>4, <1>5, <1>6, <1>7, <1>8, <1>9, <1>10, <1>11,
           <1>12, <1>13, <1>14, <1>15
        DEF Next, QueueRequest, WorkerStep, DirectStep

(* Exactly the operation whose handler runs is registered and bound, so a  *)
(* cancel request never stops another one (op_runner.py:34, 79;            *)
(* job_control.py:77, 128).                                                *)
THEOREM CancelNeverStrays == Spec => []CancelReachesItsJob
<1>1. Init => CancelReachesItsJob
  BY DEF Init, CancelReachesItsJob, InFlight, EmptyControl
<1>2. TypeOK /\ SlotInv /\ [Next]_vars => (TypeOK /\ SlotInv)'
  BY TypeStep, SlotStep DEF SlotInv
<1> QED BY <1>1, <1>2, RegistryStep, InitFacts, PTL DEF Spec

-----------------------------------------------------------------------------
(* The line: no item stands in it twice. *)

Distinct(q) == \A m, n \in 1..Len(q) : q[m] = q[n] => m = n

LEMMA AppendLine ==
    ASSUME NEW q \in Seq(Items), NEW i \in Items, i \notin Elements(q), Distinct(q)
    PROVE  /\ Distinct(Append(q, i))
           /\ Elements(Append(q, i)) = Elements(q) \cup {i}
<1> DEFINE a == Append(q, i)
<1>1. /\ Len(q) \in Nat /\ Len(a) = Len(q) + 1 /\ a[Len(q) + 1] = i
      /\ \A n \in 1..Len(q) : a[n] = q[n]
  BY AppendProperties, LenProperties
<1> HIDE DEF a
<1>2. Distinct(a)
  <2> SUFFICES ASSUME NEW m \in 1..Len(a), NEW n \in 1..Len(a), a[m] = a[n] PROVE m = n
    BY DEF Distinct
  <2>1. CASE m \in 1..Len(q) /\ n \in 1..Len(q)
    BY <1>1, <2>1 DEF Distinct
  <2>2. CASE m = Len(q) + 1 \/ n = Len(q) + 1
    BY <1>1, <2>2 DEF Elements
  <2> QED BY <1>1, <2>1, <2>2
<1>3. Elements(a) = Elements(q) \cup {i}
  BY <1>1 DEF Elements
<1> QED BY <1>2, <1>3 DEF a

LEMMA WithoutLine ==
    ASSUME NEW q \in Seq(Items), NEW n \in 1..Len(q), Distinct(q)
    PROVE  /\ Distinct(Without(q, n))
           /\ Elements(Without(q, n)) = Elements(q) \ {q[n]}
<1> DEFINE a == SubSeq(q, 1, n - 1)
           b == SubSeq(q, n + 1, Len(q))
           w == Without(q, n)
<1>1. Len(q) \in Nat /\ n \in Nat /\ 1 <= n /\ n <= Len(q)
  BY LenProperties
<1>2. a \in Seq(Items) /\ Len(a) = n - 1 /\ \A m \in 1..(n - 1) : a[m] = q[m]
  BY <1>1, SubSeqProperties
<1>3. /\ b \in Seq(Items) /\ Len(b) = Len(q) - n
      /\ \A m \in 1..(Len(q) - n) : b[m] = q[n + m]
  BY <1>1, SubSeqProperties
<1>4. w = a \o b
  BY DEF Without
<1> HIDE DEF a, b, w
<1>5. /\ Len(w) = Len(q) - 1
      /\ \A m \in 1..(n - 1) : w[m] = q[m]
      /\ \A m \in n..(Len(q) - 1) : w[m] = q[m + 1]
  <2>0. a \in Seq(Items) /\ b \in Seq(Items)
    BY <1>2, <1>3
  <2>1. Len(w) = Len(a) + Len(b)
    BY <1>4, <2>0, ConcatProperties
  <2>2. \A m \in 1..Len(w) : w[m] = IF m <= Len(a) THEN a[m] ELSE b[m - Len(a)]
    BY <1>4, <2>0, <2>1, ConcatProperties
  <2>3. ASSUME NEW m \in 1..(n - 1) PROVE w[m] = q[m]
    <3>1. m \in 1..Len(w) /\ m <= Len(a)
      BY <1>1, <1>2, <1>3, <2>1
    <3> QED BY <1>2, <2>2, <3>1
  <2>4. ASSUME NEW m \in n..(Len(q) - 1) PROVE w[m] = q[m + 1]
    <3>1. m \in 1..Len(w) /\ ~(m <= Len(a)) /\ m - Len(a) = m - n + 1
      BY <1>1, <1>2, <1>3, <2>1
    <3>2. w[m] = b[m - n + 1]
      BY <2>2, <3>1
    <3>3. m - n + 1 \in 1..(Len(q) - n) /\ n + (m - n + 1) = m + 1
      BY <1>1
    <3> QED BY <1>3, <3>2, <3>3
  <2>5. Len(w) = Len(q) - 1
    BY <1>1, <1>2, <1>3, <2>1
  <2> QED BY <2>3, <2>4, <2>5
<1>6. \A m \in 1..Len(w) : \E l \in 1..Len(q) :
         w[m] = q[l] /\ l = IF m < n THEN m ELSE m + 1
  BY <1>1, <1>5
<1>7. Distinct(w)
  <2> SUFFICES ASSUME NEW m \in 1..Len(w), NEW l \in 1..Len(w), w[m] = w[l] PROVE m = l
    BY DEF Distinct
  <2> QED BY <1>1, <1>5, <1>6 DEF Distinct
<1>8. Elements(w) \subseteq Elements(q) \ {q[n]}
  <2> SUFFICES ASSUME NEW m \in 1..Len(w) PROVE w[m] \in Elements(q) /\ w[m] # q[n]
    BY DEF Elements
  <2> QED BY <1>1, <1>5, <1>6 DEF Distinct, Elements
<1>9. ASSUME NEW l \in 1..Len(q), l # n PROVE q[l] \in Elements(w)
  <2>1. CASE l < n
    BY <1>1, <1>5, <2>1 DEF Elements
  <2>2. CASE l > n
    <3>1. l - 1 \in n..(Len(q) - 1) /\ l - 1 \in 1..Len(w) /\ (l - 1) + 1 = l
      BY <1>1, <1>5, <2>2
    <3>2. w[l - 1] = q[l]
      BY <1>5, <3>1
    <3> QED BY <3>1, <3>2 DEF Elements
  <2> QED BY <1>1, <1>9, <2>1, <2>2
<1>10. Elements(q) \ {q[n]} \subseteq Elements(w)
  BY <1>9 DEF Elements
<1> QED BY <1>7, <1>8, <1>10 DEF w

LEMMA TailLine ==
    ASSUME NEW q \in Seq(Items), NEW k \in 0..Len(q), Distinct(q)
    PROVE  /\ Distinct(SubSeq(q, k + 1, Len(q)))
           /\ Elements(SubSeq(q, k + 1, Len(q))) = Elements(q) \ {q[n] : n \in 1..k}
<1> DEFINE r == SubSeq(q, k + 1, Len(q))
<1>1. Len(q) \in Nat /\ k \in Nat /\ k <= Len(q)
  BY LenProperties
<1>2. Len(r) = Len(q) - k /\ \A m \in 1..(Len(q) - k) : r[m] = q[k + m]
  BY <1>1, SubSeqProperties
<1> HIDE DEF r
<1>3. Distinct(r)
  <2> SUFFICES ASSUME NEW m \in 1..Len(r), NEW l \in 1..Len(r), r[m] = r[l] PROVE m = l
    BY DEF Distinct
  <2>1. k + m \in 1..Len(q) /\ k + l \in 1..Len(q) /\ q[k + m] = q[k + l]
    BY <1>1, <1>2
  <2>2. k + m = k + l
    BY <2>1 DEF Distinct
  <2> QED BY <1>1, <1>2, <2>2
<1>4. ASSUME NEW m \in 1..Len(r) PROVE r[m] \in Elements(q) \ {q[n] : n \in 1..k}
  <2>1. k + m \in 1..Len(q) /\ r[m] = q[k + m]
    BY <1>1, <1>2
  <2>2. \A n \in 1..k : n \in 1..Len(q) /\ n # k + m
    BY <1>1, <1>2
  <2> QED BY <2>1, <2>2 DEF Distinct, Elements
<1>5. ASSUME NEW l \in 1..Len(q), l \notin 1..k PROVE q[l] \in Elements(r)
  <2>1. l - k \in 1..(Len(q) - k) /\ k + (l - k) = l
    BY <1>1, <1>5
  <2>2. r[l - k] = q[l]
    BY <1>2, <2>1
  <2> QED BY <1>2, <2>1, <2>2 DEF Elements
<1>6. Elements(r) = Elements(q) \ {q[n] : n \in 1..k}
  <2>1. Elements(r) \subseteq Elements(q) \ {q[n] : n \in 1..k}
    BY <1>4 DEF Elements
  <2>2. Elements(q) \ {q[n] : n \in 1..k} \subseteq Elements(r)
    BY <1>5 DEF Elements
  <2> QED BY <2>1, <2>2
<1> QED BY <1>3, <1>6 DEF r

-----------------------------------------------------------------------------
(* The queue and the endpoint implement SerialExecutor.  An item is in the *)
(* line once, not while it is held, and never without a status.            *)

LineInv ==
    /\ Distinct(pending)
    /\ \A i \in Elements(pending) : status[i] # "none"
    /\ running # NoToken => running \notin Elements(pending) /\ status[running] # "none"
    /\ worker = "recording" => outcome \in Settled

(* What a step of the executor does with the line and its holder. *)
Serves(k) ==
    IF k = Len(pending)
    THEN pending' = <<>> /\ running' = NoToken
    ELSE pending' = SubSeq(pending, k + 2, Len(pending)) /\ running' = pending[k + 1]

LEMMA DrainLine ==
    ASSUME TypeOK, LineInv, NEW h, NEW s \in [Items -> Statuses], NEW c, NEW w,
           \A i \in Elements(pending) : s[i] # "none", Drain(h, s, c, w)
    PROVE  /\ directBusy => pending' = pending /\ running' = NoToken
           /\ ~directBusy => \E k \in 0..Len(pending) : Serves(k)
           /\ \A i \in Items : status'[i] = "none" <=> s[i] = "none"
           /\ worker' # "recording"
<1>1. PICK k \in 0..Len(pending) :
        (directBusy => k = 0) /\ (Settles(s, c, k) \/ Starts(s, c, w, k))
  BY DEF Drain
<1>2. /\ Len(pending) \in Nat /\ pending \in Seq(Items)
      /\ \A n \in 1..Len(pending) : pending[n] \in Items
  BY LenProperties, ElementOfSeq DEF TypeOK
<1>3. \A i \in Items : AfterRejecting(s, k)[i] = "none" <=> s[i] = "none"
  <2>1. \A n \in 1..k : pending[n] \in Elements(pending)
    BY <1>2 DEF Elements
  <2> QED BY <2>1 DEF AfterRejecting
<1>4. CASE Settles(s, c, k)
  <2>1. directBusy => pending' = pending
    <3>1. SubSeq(pending, 1, Len(pending)) = pending
      BY <1>2, SubSeqFull
    <3> QED BY <1>1, <1>4, <3>1 DEF Settles
  <2>2. ~directBusy => Serves(k)
    <3>1. ~directBusy => k = Len(pending)
      BY <1>4 DEF Settles
    <3>2. k = Len(pending) => SubSeq(pending, k + 1, Len(pending)) = <<>>
      BY <1>2, SubSeqEmpty
    <3> QED BY <1>4, <3>1, <3>2 DEF Settles, Serves
  <2> QED BY <1>3, <1>4, <2>1, <2>2 DEF Settles
<1>5. CASE Starts(s, c, w, k)
  <2>1. ~directBusy /\ Serves(k) /\ worker' = "handler"
    BY <1>2, <1>5 DEF Starts, Serves
  <2>2. \A i \in Items : status'[i] = "none" <=> s[i] = "none"
    <3>1. pending[k + 1] \in Items /\ pending[k + 1] \in Elements(pending)
      BY <1>2, <1>5 DEF Starts, Elements
    <3>2. AfterRejecting(s, k) \in [Items -> Statuses]
      BY DEF AfterRejecting, Statuses, Settled
    <3>3. status' = [AfterRejecting(s, k) EXCEPT ![pending[k + 1]] = "running"]
      BY <1>5 DEF Starts
    <3> QED BY <1>3, <3>1, <3>2, <3>3
  <2> QED BY <2>1, <2>2
<1> QED BY <1>1, <1>4, <1>5

(* The line that is left, and what is in it. *)
LEMMA ServedLine ==
    ASSUME NEW k \in 0..Len(pending), Serves(k), pending \in Seq(Items), Distinct(pending)
    PROVE  /\ Distinct(pending')
           /\ running' # NoToken => running' \in Items /\ running' \in Elements(pending)
           /\ running' \notin Elements(pending')
           /\ Elements(pending) =
                {pending[n] : n \in 1..k} \cup Elements(pending') \cup ({running'} \ {NoToken})
           /\ \A n \in 1..k : pending[n] \notin Elements(pending') \cup {running'}
<1>1. Len(pending) \in Nat /\ \A n \in 1..Len(pending) : pending[n] \in Items
  BY LenProperties, ElementOfSeq
<1>2. CASE k = Len(pending)
  <2>1. pending' = <<>> /\ running' = NoToken /\ Elements(<<>>) = {} /\ Distinct(<<>>)
    BY <1>2 DEF Serves, Elements, Distinct
  <2> QED BY <1>1, <1>2, <2>1 DEF Elements
<1>3. CASE k # Len(pending)
  <2>1. /\ pending' = SubSeq(pending, (k + 1) + 1, Len(pending)) /\ running' = pending[k + 1]
        /\ k + 1 \in 0..Len(pending) /\ k + 1 \in 1..Len(pending)
    BY <1>1, <1>3 DEF Serves
  <2>2. /\ Distinct(pending')
        /\ Elements(pending') = Elements(pending) \ {pending[n] : n \in 1..(k + 1)}
    BY <2>1, TailLine
  <2>3. running' \in Items /\ running' \in Elements(pending)
    BY <1>1, <2>1 DEF Elements
  <2>4. {pending[n] : n \in 1..(k + 1)} = {pending[n] : n \in 1..k} \cup {running'}
    BY <1>1, <2>1
  <2>5. \A n \in 1..k : pending[n] \in Elements(pending) /\ pending[n] # running'
    BY <1>1, <2>1 DEF Elements, Distinct
  <2> DEFINE first == {pending[n] : n \in 1..k}
  <2>6. first \subseteq Elements(pending) /\ \A n \in 1..k : pending[n] \in first
    BY <2>5
  <2>7. Elements(pending') = Elements(pending) \ (first \cup {running'})
    BY <2>2, <2>4
  <2> HIDE DEF first
  <2>8. Elements(pending) = first \cup Elements(pending') \cup ({running'} \ {NoToken})
    BY <2>3, <2>6, <2>7
  <2>9. \A n \in 1..k : pending[n] \notin Elements(pending') \cup {running'}
    BY <2>5, <2>6, <2>7
  <2> QED BY <2>2, <2>3, <2>7, <2>8, <2>9 DEF first
<1> QED BY <1>2, <1>3

LEMMA InitLine == Init => LineInv
BY DEF Init, LineInv, Distinct, Elements

LEMMA DrainLineInv ==
    ASSUME TypeOK, LineInv, NEW h, NEW s \in [Items -> Statuses], NEW c, NEW w,
           \A i \in Elements(pending) : s[i] # "none", Drain(h, s, c, w)
    PROVE  LineInv'
<1>1. pending \in Seq(Items) /\ Distinct(pending) /\ Elements(pending) \subseteq Items
  BY ElementOfSeq DEF TypeOK, LineInv, Elements
<1>2. CASE directBusy
  <2>1. pending' = pending /\ running' = NoToken /\ worker' # "recording"
    BY <1>2, DrainLine
  <2>2. \A i \in Items : status'[i] = "none" <=> s[i] = "none"
    BY DrainLine
  <2> QED BY <1>1, <2>1, <2>2 DEF LineInv
<1>3. CASE ~directBusy
  <2>1. PICK k \in 0..Len(pending) : Serves(k)
    BY <1>3, DrainLine
  <2>2. /\ Distinct(pending')
        /\ running' # NoToken => running' \in Elements(pending)
        /\ running' \notin Elements(pending')
        /\ Elements(pending') \subseteq Elements(pending)
    BY <1>1, <2>1, ServedLine
  <2>3. \A i \in Elements(pending) : status'[i] # "none"
    BY <1>1, DrainLine
  <2>4. worker' # "recording"
    BY DrainLine
  <2> QED BY <2>2, <2>3, <2>4 DEF LineInv
<1> QED BY <1>2, <1>3

LEMMA LineStep == TypeOK /\ SlotInv /\ LineInv /\ [Next]_vars => LineInv'
<1> SUFFICES ASSUME TypeOK, SlotInv, LineInv, [Next]_vars PROVE LineInv'
  OBVIOUS
<1>0. /\ pending \in Seq(Items) /\ status \in [Items -> Statuses]
      /\ \A n \in 1..Len(pending) : pending[n] \in Items
      /\ Elements(pending) \subseteq Items
      /\ running # NoToken => running \in Items
  BY ElementOfSeq DEF TypeOK, Elements
<1>1. ASSUME NEW i \in Items, Enqueue(i) PROVE LineInv'
  <2>1. /\ pending' = Append(pending, i) /\ status[i] = "none"
        /\ status' = [status EXCEPT ![i] = "pending"]
        /\ UNCHANGED <<running, worker, outcome>>
    BY <1>1 DEF Enqueue
  <2>2. i \notin Elements(pending) /\ running # i
    BY <2>1 DEF LineInv
  <2>3. Distinct(pending') /\ Elements(pending') = Elements(pending) \cup {i}
    BY <1>0, <2>1, <2>2, AppendLine DEF LineInv
  <2> QED BY <1>0, <2>1, <2>2, <2>3 DEF LineInv
<1>2. ASSUME NEW n \in 1..Len(pending), RemovePending(n) \/ CancelPending(n) PROVE LineInv'
  <2>1. /\ pending' = Without(pending, n) /\ UNCHANGED <<running, worker, outcome>>
        /\ \/ status' = status
           \/ status' = [status EXCEPT ![pending[n]] = "cancelled"]
    BY <1>2 DEF RemovePending, CancelPending
  <2>2. Distinct(pending') /\ Elements(pending') = Elements(pending) \ {pending[n]}
    BY <1>0, <2>1, WithoutLine DEF LineInv
  <2>3. \A i \in Items : status[i] # "none" => status'[i] # "none"
    BY <1>0, <2>1
  <2> QED BY <1>0, <2>1, <2>2, <2>3 DEF LineInv
<1>3. CASE ClearPending
  <2>1. /\ pending' = <<>> /\ UNCHANGED <<running, status, worker, outcome>>
        /\ Elements(<<>>) = {} /\ Distinct(<<>>)
    BY <1>3 DEF ClearPending, Elements, Distinct
  <2> QED BY <2>1 DEF LineInv
<1>4. ASSUME UNCHANGED <<pending, running, status, worker, outcome>> PROVE LineInv'
  BY <1>4 DEF LineInv
<1>5. CASE WorkerResumes
  BY <1>0, <1>5, DrainLineInv DEF WorkerResumes, LineInv
<1>6. ASSUME NEW r \in Settled, QueuedReturns(r) PROVE LineInv'
  BY <1>6 DEF QueuedReturns, LineInv
<1>7. CASE QueuedRaises
  <2>1. running \in Items
    BY <1>0, <1>7 DEF QueuedRaises, SlotInv, FlagsAgree
  <2> DEFINE s == [status EXCEPT ![running] = "failed"]
  <2>2. s \in [Items -> Statuses] /\ \A i \in Elements(pending) : s[i] # "none"
    BY <1>0, <2>1 DEF LineInv, Statuses, Settled
  <2> HIDE DEF s
  <2> QED BY <1>7, <2>2, DrainLineInv DEF QueuedRaises, s
<1>8. CASE QueuedRecorded
  <2>1. running \in Items /\ outcome \in Settled
    BY <1>0, <1>8 DEF QueuedRecorded, SlotInv, FlagsAgree, LineInv
  <2> DEFINE s == [status EXCEPT ![running] = outcome]
  <2>2. s \in [Items -> Statuses] /\ \A i \in Elements(pending) : s[i] # "none"
    BY <1>0, <2>1 DEF LineInv, Statuses, Settled
  <2> HIDE DEF s
  <2> QED BY <1>8, <2>2, DrainLineInv DEF QueuedRecorded, s
<1>9. CASE CancelRunning \/ (\E t \in Tokens : CancelToken(t)) \/ UNCHANGED vars
  BY <1>4, <1>9 DEF CancelRunning, CancelToken, vars
<1>10. ASSUME NEW d \in Directs, DirectRefused(d) \/ DirectBegins(d) \/ DirectStep(d)
       PROVE  LineInv'
  BY <1>4, <1>10 DEF DirectRefused, DirectBegins, DirectStep, DirectReturns, DirectRaises,
                     DirectRecorded, EndDirect
<1> QED BY <1>1, <1>2, <1>3, <1>5, <1>6, <1>7, <1>8, <1>9, <1>10
        DEF Next, QueueRequest, WorkerStep

-----------------------------------------------------------------------------
(* Who holds the slot, and who is over. *)

Holder ==
    /\ running # NoToken => SlotHolder = running /\ running \in Items
    /\ directBusy => /\ SlotHolder \in Directs /\ Active(SlotHolder) /\ running = NoToken
                     /\ \A d \in Directs : Active(d) => SlotHolder = d
    /\ ~directBusy => (\A d \in Directs : ~Active(d))
    /\ running = NoToken /\ ~directBusy => SlotHolder = NoToken

LEMMA HolderFacts == TypeOK /\ SlotInv => Holder
<1> SUFFICES ASSUME TypeOK, SlotInv PROVE Holder
  OBVIOUS
<1>1. /\ running \in Items \cup {NoToken} /\ ~(running # NoToken /\ directBusy)
      /\ directBusy <=> \E d \in Directs : Active(d)
      /\ \A d, e \in Directs : Active(d) /\ Active(e) => d = e
  BY DEF TypeOK, SlotInv, FlagsAgree, SingleFlight
<1>2. CASE directBusy
  <2>1. running = NoToken /\ SlotHolder = CHOOSE d \in Directs : Active(d)
    BY <1>1, <1>2 DEF SlotHolder
  <2>2. SlotHolder \in Directs /\ Active(SlotHolder)
    BY <1>1, <1>2, <2>1
  <2> QED BY <1>1, <1>2, <2>1, <2>2 DEF Holder
<1>3. CASE ~directBusy
  BY <1>1, <1>3 DEF Holder, SlotHolder
<1> QED BY <1>2, <1>3

LEMMA HolderAfter == TypeOK' /\ SlotInv' => Holder'
BY HolderFacts, PTL

LEMMA GoneFacts ==
    /\ Gone \subseteq Items \cup Directs
    /\ \A i \in Items : i \in Gone <=>
          status[i] # "none" /\ i \notin Elements(pending) /\ running # i
    /\ \A d \in Directs : d \in Gone <=> direct[d] \in {"answered", "refused"}
BY DEF Gone, Owed

LEMMA GoneAfter ==
    /\ Gone' \subseteq Items \cup Directs
    /\ \A i \in Items : i \in Gone' <=>
          status'[i] # "none" /\ i \notin Elements(pending') /\ running' # i
    /\ \A d \in Directs : d \in Gone' <=> direct'[d] \in {"answered", "refused"}
BY DEF Gone, Owed

LEMMA ServeStep ==
    ASSUME TypeOK, SlotInv, LineInv, TypeOK', SlotInv', ~directBusy,
           UNCHANGED <<directBusy, direct>>, NEW k \in 0..Len(pending), Serves(k),
           \A i \in Items : status'[i] = "none" <=> status[i] = "none"
    PROVE  Executor!Serve
<1> DEFINE first == {pending[n] : n \in 1..k}
<1>1. /\ pending \in Seq(Items) /\ Distinct(pending) /\ Elements(pending) \subseteq Items
      /\ running \in Items \cup {NoToken} /\ running \notin Elements(pending)
      /\ \A i \in Elements(pending) : status[i] # "none"
      /\ running # NoToken => status[running] # "none"
  BY ElementOfSeq DEF TypeOK, LineInv, Elements
<1>2. SlotHolder = running /\ SlotHolder' = running'
  BY HolderFacts, HolderAfter DEF Holder
<1>3. /\ running' # NoToken => running' \in Items /\ running' \in Elements(pending)
      /\ Elements(pending) = first \cup Elements(pending') \cup ({running'} \ {NoToken})
      /\ \A i \in first : i \notin Elements(pending') /\ i # running'
  BY <1>1, ServedLine
<1>4. Gone' = Gone \cup ({running} \ {NoToken}) \cup first
  <2> HIDE DEF first
  <2>1. ASSUME NEW i \in Items
        PROVE  i \in Gone' <=> i \in Gone \/ i = running \/ i \in first
    BY <1>1, <1>3, GoneFacts, GoneAfter
  <2>2. \A d \in Directs : d \in Gone' <=> d \in Gone
    BY GoneFacts, GoneAfter
  <2>3. first \subseteq Items /\ ({running} \ {NoToken}) \subseteq Items
    BY <1>1, <1>3
  <2> QED BY <2>1, <2>2, <2>3, GoneFacts, GoneAfter
<1> QED BY <1>1, <1>2, <1>4 DEF Executor!Serve, Serves

LEMMA ExecutorInit == Init => Executor!Init
BY DEF Init, Executor!Init, SlotHolder, Gone, Owed, Elements

LEMMA ExecutorStep ==
    TypeOK /\ SlotInv /\ LineInv /\ TypeOK' /\ SlotInv' /\ [Next]_vars
        => [Executor!Next]_(Executor!lineVars)
<1> SUFFICES ASSUME TypeOK, SlotInv, LineInv, TypeOK', SlotInv', [Next]_vars
             PROVE  Executor!Next \/ UNCHANGED <<pending, SlotHolder, Gone>>
  BY DEF Executor!lineVars
<1>0. /\ pending \in Seq(Items) /\ Distinct(pending) /\ Elements(pending) \subseteq Items
      /\ running \in Items \cup {NoToken} /\ running \notin Elements(pending)
      /\ \A i \in Elements(pending) : status[i] # "none"
      /\ running # NoToken => status[running] # "none"
      /\ status \in [Items -> Statuses]
      /\ \A n \in 1..Len(pending) : pending[n] \in Elements(pending)
      /\ Executor!Standing = Elements(pending)
      /\ Holder /\ Holder'
  BY ElementOfSeq, HolderFacts, HolderAfter DEF TypeOK, LineInv, Elements, Executor!Standing
<1>1. ASSUME NEW i \in Items, Enqueue(i) PROVE Executor!Next
  <2>1. /\ pending' = Append(pending, i) /\ status[i] = "none"
        /\ status' = [status EXCEPT ![i] = "pending"]
        /\ UNCHANGED <<running, directBusy, direct>>
    BY <1>1 DEF Enqueue
  <2>2. i \notin Elements(pending) /\ i # running /\ i \notin Gone
    BY <1>0, <2>1, GoneFacts
  <2>3. i # SlotHolder
    BY <1>0, <2>2 DEF Holder
  <2>4. SlotHolder' = SlotHolder
    BY <2>1 DEF SlotHolder, Active
  <2>5. Elements(pending') = Elements(pending) \cup {i}
    BY <1>0, <2>1, <2>2, AppendLine
  <2>6. Gone' = Gone
    <3>1. \A j \in Items : j \in Gone' <=> j \in Gone
      BY <1>0, <2>1, <2>2, <2>5, GoneFacts, GoneAfter
    <3> QED BY <2>1, <3>1, GoneFacts, GoneAfter
  <2> QED BY <1>0, <2>1, <2>2, <2>3, <2>4, <2>6 DEF Executor!Next, Executor!Join
<1>2. ASSUME NEW n \in 1..Len(pending), RemovePending(n) \/ CancelPending(n)
      PROVE  Executor!Next
  <2>1. /\ pending' = Without(pending, n) /\ UNCHANGED <<running, directBusy, direct>>
        /\ \A i \in Items : status'[i] = "none" <=> status[i] = "none"
    BY <1>0, <1>2 DEF RemovePending, CancelPending
  <2>2. Elements(pending') = Elements(pending) \ {pending[n]}
    BY <1>0, <2>1, WithoutLine
  <2>3. SlotHolder' = SlotHolder
    BY <2>1 DEF SlotHolder, Active
  <2>4. Gone' = Gone \cup {pending[n]}
    <3>1. \A j \in Items : j \in Gone' <=> j \in Gone \cup {pending[n]}
      BY <1>0, <2>1, <2>2, GoneFacts, GoneAfter
    <3> QED BY <1>0, <2>1, <3>1, GoneFacts, GoneAfter
  <2> QED BY <2>1, <2>3, <2>4 DEF Executor!Next, Executor!Leave, Without
<1>3. CASE ClearPending
  <2>1. /\ pending' = <<>> /\ UNCHANGED <<running, directBusy, direct, status>>
        /\ Elements(<<>>) = {}
    BY <1>3 DEF ClearPending, Elements
  <2>2. SlotHolder' = SlotHolder
    BY <2>1 DEF SlotHolder, Active
  <2>3. Gone' = Gone \cup Elements(pending)
    <3>1. \A j \in Items : j \in Gone' <=> j \in Gone \cup Elements(pending)
      BY <1>0, <2>1, GoneFacts, GoneAfter
    <3> QED BY <1>0, <2>1, <3>1, GoneFacts, GoneAfter
  <2> QED BY <1>0, <2>1, <2>2, <2>3 DEF Executor!Next, Executor!Disperse
<1>4. ASSUME UNCHANGED <<pending, running, directBusy, status>>,
             \A d \in Directs : Active(d)' <=> Active(d),
             \A d \in Directs : direct'[d] \in {"answered", "refused"}
                                  <=> direct[d] \in {"answered", "refused"}
      PROVE  UNCHANGED <<pending, SlotHolder, Gone>>
  <2>1. SlotHolder' = SlotHolder
    BY <1>0, <1>4 DEF Holder
  <2>2. Gone' = Gone
    BY <1>4, GoneFacts, GoneAfter
  <2> QED BY <1>4, <2>1, <2>2
<1>5. CASE WorkerResumes
  <2>1. /\ running = NoToken /\ Drain(history, status, ctl, FALSE)
        /\ UNCHANGED <<directBusy, direct>>
    BY <1>5 DEF WorkerResumes, SlotInv, FlagsAgree, Drain
  <2>2. \A i \in Items : status'[i] = "none" <=> status[i] = "none"
    BY <1>0, <2>1, DrainLine
  <2>3. CASE directBusy
    <3>1. pending' = pending /\ running' = running
      BY <1>0, <2>1, <2>3, DrainLine
    <3>2. SlotHolder' = SlotHolder
      BY <2>1, <3>1 DEF SlotHolder, Active
    <3>3. Gone' = Gone
      BY <2>1, <2>2, <3>1, GoneFacts, GoneAfter
    <3> QED BY <3>1, <3>2, <3>3
  <2>4. CASE ~directBusy
    <3>1. PICK k \in 0..Len(pending) : Serves(k)
      BY <1>0, <2>1, <2>4, DrainLine
    <3> QED BY <2>1, <2>2, <2>4, <3>1, ServeStep DEF Executor!Next
  <2> QED BY <2>3, <2>4
<1>6. CASE QueuedRaises \/ QueuedRecorded
  <2>1. PICK r \in Settled :
           \E h, c : Drain(h, [status EXCEPT ![running] = r], c, TRUE)
    <3>1. QueuedRecorded => outcome \in Settled
      BY DEF QueuedRecorded, LineInv
    <3>2. "failed" \in Settled
      BY DEF Settled
    <3> QED BY <1>6, <3>1, <3>2 DEF QueuedRaises, QueuedRecorded
  <2>2. running \in Items /\ ~directBusy
    BY <1>0, <1>6 DEF QueuedRaises, QueuedRecorded, SlotInv, FlagsAgree
  <2> DEFINE s == [status EXCEPT ![running] = r]
  <2>3. /\ s \in [Items -> Statuses] /\ \A i \in Elements(pending) : s[i] # "none"
        /\ \A i \in Items : s[i] = "none" <=> status[i] = "none"
    BY <1>0, <2>2 DEF Statuses, Settled
  <2>4. PICK h, c : Drain(h, s, c, TRUE)
    BY <2>1
  <2> HIDE DEF s
  <2>5. PICK k \in 0..Len(pending) : Serves(k)
    BY <2>2, <2>3, <2>4, DrainLine
  <2>6. \A i \in Items : status'[i] = "none" <=> status[i] = "none"
    BY <2>3, <2>4, DrainLine
  <2>7. UNCHANGED <<directBusy, direct>>
    BY <2>4 DEF Drain
  <2> QED BY <2>2, <2>5, <2>6, <2>7, ServeStep DEF Executor!Next
<1>7. ASSUME NEW r \in Settled, QueuedReturns(r) PROVE UNCHANGED <<pending, SlotHolder, Gone>>
  BY <1>4, <1>7 DEF QueuedReturns, Active
<1>8. ASSUME NEW d \in Directs, DirectRefused(d) PROVE Executor!Next
  <2>1. /\ direct[d] = "idle" /\ Busy /\ direct' = [direct EXCEPT ![d] = "refused"]
        /\ UNCHANGED <<pending, running, directBusy, status>>
    BY <1>8 DEF DirectRefused
  <2>2. direct \in [Directs -> DirectStates] /\ d \notin Items /\ d # NoToken
    BY DEF TypeOK
  <2>3. SlotHolder # NoToken /\ SlotHolder # d
    <3>1. running # NoToken \/ directBusy
      BY <2>1 DEF Busy, SlotInv, FlagsAgree
    <3> QED BY <1>0, <2>1, <2>2, <3>1 DEF Holder, Active
  <2>4. SlotHolder' = SlotHolder
    <3>1. \A e \in Directs : Active(e)' <=> Active(e)
      BY <2>1, <2>2 DEF Active
    <3> QED BY <1>0, <2>1, <3>1 DEF Holder
  <2>5. d \notin Gone /\ Gone' = Gone \cup {d}
    <3>1. d \notin Gone
      BY <2>1, GoneFacts
    <3>2. \A i \in Items : i \in Gone' <=> i \in Gone
      BY <2>1, GoneFacts, GoneAfter
    <3>3. \A e \in Directs : e \in Gone' <=> e \in Gone \/ e = d
      BY <2>1, <2>2, GoneFacts, GoneAfter
    <3> QED BY <3>1, <3>2, <3>3, GoneFacts, GoneAfter
  <2> QED BY <2>1, <2>3, <2>4, <2>5 DEF Executor!Next, Executor!TurnAway
<1>9. ASSUME NEW d \in Directs, DirectBegins(d) PROVE Executor!Next
  <2>1. /\ direct[d] = "idle" /\ ~Busy /\ direct' = [direct EXCEPT ![d] = "handler"]
        /\ directBusy' = TRUE /\ UNCHANGED <<pending, running, status>>
    BY <1>9 DEF DirectBegins
  <2>2. direct \in [Directs -> DirectStates]
    BY DEF TypeOK
  <2>3. SlotHolder = NoToken /\ SlotHolder' = d
    <3>1. Active(d)'
      BY <2>1, <2>2 DEF Active
    <3> QED BY <1>0, <2>1, <3>1 DEF Holder, Busy
  <2>4. d \notin Gone /\ Gone' = Gone
    <3>1. \A e \in Directs : direct'[e] \in {"answered", "refused"}
                              <=> direct[e] \in {"answered", "refused"}
      BY <2>1, <2>2
    <3> QED BY <2>1, <3>1, GoneFacts, GoneAfter
  <2> QED BY <2>1, <2>3, <2>4 DEF Executor!Next, Executor!Take
<1>10. ASSUME NEW d \in Directs, NEW r \in Settled, DirectReturns(d, r)
       PROVE  UNCHANGED <<pending, SlotHolder, Gone>>
  <2>1. direct \in [Directs -> DirectStates]
    BY DEF TypeOK
  <2> QED BY <1>4, <1>10, <2>1 DEF DirectReturns, Active
<1>11. ASSUME NEW d \in Directs, DirectRaises(d) \/ DirectRecorded(d) PROVE Executor!Next
  <2>1. /\ Active(d) /\ direct' = [direct EXCEPT ![d] = "answered"]
        /\ directBusy' = FALSE /\ UNCHANGED <<pending, running, status>>
    BY <1>11 DEF DirectRaises, DirectRecorded, EndDirect, Active
  <2>2. direct \in [Directs -> DirectStates]
    BY DEF TypeOK
  <2>3. SlotHolder = d /\ SlotHolder' = NoToken
    BY <1>0, <2>1 DEF Holder
  <2>4. Gone' = Gone \cup {d}
    <3>1. \A i \in Items : i \in Gone' <=> i \in Gone
      BY <2>1, GoneFacts, GoneAfter
    <3>2. \A e \in Directs : e \in Gone' <=> e \in Gone \/ e = d
      BY <2>1, <2>2, GoneFacts, GoneAfter
    <3> QED BY <3>1, <3>2, GoneFacts, GoneAfter
  <2> QED BY <2>1, <2>3, <2>4 DEF Executor!Next, Executor!Release
<1>12. CASE CancelRunning \/ (\E t \in Tokens : CancelToken(t)) \/ UNCHANGED vars
  BY <1>4, <1>12 DEF CancelRunning, CancelToken, vars, Active
<1> QED BY <1>1, <1>2, <1>3, <1>5, <1>6, <1>7, <1>8, <1>9, <1>10, <1>11, <1>12
        DEF Next, QueueRequest, WorkerStep, DirectStep

(* The queue and the endpoint, with all their flags, events and suspension *)
(* points (job_queue.py, main.py:201-250), behave like one slot with a     *)
(* line before it, for any number of items and requests.                   *)
THEOREM QueueIsSerialExecutor == Spec => ImplementsSerialExecutor
<1>1. TypeOK /\ SlotInv /\ [Next]_vars => (TypeOK /\ SlotInv)'
  BY TypeStep, SlotStep DEF SlotInv
<1>2. Spec => [](TypeOK /\ SlotInv /\ LineInv)
  BY <1>1, InitFacts, InitLine, LineStep, PTL DEF Spec
<1>3. Spec => Executor!Spec
  BY <1>1, <1>2, ExecutorInit, ExecutorStep, PTL DEF Spec, Executor!Spec
<1> QED BY <1>3 DEF ImplementsSerialExecutor
=============================================================================
