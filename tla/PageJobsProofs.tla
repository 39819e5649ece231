--------------------------- MODULE PageJobsProofs ---------------------------
(***************************************************************************)
(* Theorems about what the page asks of the server: its jobs, one at a     *)
(* time (ClientJobs), and the repairs of its media index (MediaRepair).    *)
(***************************************************************************)
EXTENDS ClientJobs, MediaRepair, TLAPS, SequenceTheorems, FiniteSetTheorems, WellFoundedInduction

(***************************************************************************)
(* ClientJobs, for a batch of any length, any number of cancellations and  *)
(* broken connections, and any patience of the polls.                      *)
(***************************************************************************)
USE BatchAssumption, BoundAssumption

AtServer == {"sent", "running", "cancelling"}

(* What the page says of a job it says after it has posted it. *)
ToldIsPosted == \A j \in Jobs : told[j] # "nothing" => j < next

(* Without a hard cancel and a broken connection the page gives up on      *)
(* nothing: the server holds no job but the one whose answer is awaited.   *)
Quiet == Hards = {} /\ broken = {}
Awaited ==
    Quiet => /\ aborted = {}
             /\ \A j \in Jobs : server[j] # "refused"
             /\ \A j \in Jobs : server[j] \in AtServer => j = run /\ step = "posted"

(* A cancel request names a job. *)
Aimed == \A c \in Cancels : cancel[c].state # "unsent" => cancel[c].target \in Jobs

IInv == TypeOK /\ OneServerJob /\ ToldIsPosted /\ OkIsDone /\ Awaited /\ Aimed

LEMMA InitIInv == Init => IInv
<1> SUFFICES ASSUME Init PROVE IInv
  OBVIOUS
<1>1. [c \in Cancels |-> Unsent] \in
        [Cancels -> [state : {"unsent", "sent", "arrived", "answered"},
                     target : 0..Batch, soft : BOOLEAN]]
  BY DEF Unsent, NoJob
<1>2. TypeOK
  <2>1. /\ [j \in Jobs |-> "nothing"] \in [Jobs -> {"nothing", "ok", "cancelled", "failed"}]
        /\ [j \in Jobs |-> "none"] \in [Jobs -> {"none"}]
    OBVIOUS
  <2>2. 1 \in 1..(Batch + 1) /\ 0 \in 0..Batch /\ 0 \in 0..Polls
    OBVIOUS
  <2>3. server \in [Jobs -> {"none", "sent", "lost", "running", "cancelling", "refused"} \cup Over]
    BY <2>1 DEF Init
  <2>4. stopping \in BOOLEAN
    BY Zenon DEF Init
  <2> QED BY <1>1, <2>1, <2>2, <2>3, <2>4 DEF Init, TypeOK, NoJob
<1>3. OneServerJob /\ ToldIsPosted /\ OkIsDone /\ Awaited /\ Aimed
  BY DEF Init, OneServerJob, Holding, ToldIsPosted, OkIsDone, Awaited, AtServer, Aimed, Unsent
<1> QED BY <1>2, <1>3 DEF IInv

-----------------------------------------------------------------------------
(* Steps of runOpWithCancel *)

LEMMA PageIInv ==
    ASSUME IInv, Start \/ Page \/ Breaks
    PROVE  IInv'
<1> USE DEF IInv, Jobs, NoJob, Over, Returns, page, Serves, Held, Holding
<1>1. CASE Start
  <2>1. TypeOK'
    <3>1. run' \in 0..Batch /\ next' \in 1..(Batch + 1) /\ run' < next' /\ polled' \in 0..Polls
      BY <1>1 DEF TypeOK, Start
    <3>2. run' = NoJob <=> step' = "idle"
      BY <1>1 DEF TypeOK, Start
    <3>4. stopping' \in BOOLEAN
      BY <1>1, Zenon DEF Start
    <3>3. server' \in [Jobs -> {"none", "sent", "lost", "running", "cancelling", "refused"} \cup Over]
      BY <1>1 DEF TypeOK, Start
    <3> QED BY <1>1, <3>1, <3>2, <3>3, <3>4 DEF TypeOK, Start
  <2>2. OneServerJob'
    BY <1>1 DEF TypeOK, OneServerJob, Start
  <2>3. ToldIsPosted'
    BY <1>1 DEF TypeOK, ToldIsPosted, Start
  <2>4. OkIsDone'
    BY <1>1 DEF TypeOK, ToldIsPosted, OkIsDone, Start
  <2>5. Awaited'
    BY <1>1 DEF TypeOK, Awaited, Quiet, Hards, AtServer, Start
  <2>6. Aimed'
    BY <1>1 DEF TypeOK, Aimed, Start
  <2> QED BY <2>1, <2>2, <2>3, <2>4, <2>5, <2>6
<1>2. CASE Answered
  <2>1. TypeOK'
    BY <1>2 DEF TypeOK, Answered
  <2>2. OneServerJob'
    BY <1>2 DEF TypeOK, OneServerJob, Answered
  <2>3. ToldIsPosted'
    BY <1>2 DEF TypeOK, ToldIsPosted, Answered
  <2>4. OkIsDone'
    BY <1>2 DEF TypeOK, ToldIsPosted, OkIsDone, Answered
  <2>5. Awaited'
    BY <1>2 DEF TypeOK, Awaited, Quiet, Hards, AtServer, Answered
  <2>6. Aimed'
    BY <1>2 DEF TypeOK, Aimed, Answered
  <2> QED BY <2>1, <2>2, <2>3, <2>4, <2>5, <2>6
<1>3. CASE AbortSeen
  <2>1. TypeOK'
    BY <1>3 DEF TypeOK, AbortSeen
  <2>2. OneServerJob'
    BY <1>3 DEF TypeOK, OneServerJob, AbortSeen
  <2>3. ToldIsPosted'
    BY <1>3 DEF TypeOK, ToldIsPosted, AbortSeen
  <2>4. OkIsDone'
    BY <1>3 DEF TypeOK, ToldIsPosted, OkIsDone, AbortSeen
  <2>5. Awaited'
    BY <1>3 DEF TypeOK, Awaited, Quiet, Hards, AtServer, AbortSeen
  <2>6. Aimed'
    BY <1>3 DEF TypeOK, Aimed, AbortSeen
  <2> QED BY <2>1, <2>2, <2>3, <2>4, <2>5, <2>6
<1>4. CASE Breaks
  <2>1. TypeOK'
    <3>1. run \in Jobs
      BY <1>4 DEF TypeOK, Breaks, Jobs, NoJob
    <3>2. broken' \subseteq Jobs /\ server' \in [Jobs -> {"none", "sent", "lost", "running", "cancelling", "refused"} \cup Over]
      BY <1>4, <3>1 DEF TypeOK, Breaks
    <3> QED BY <1>4, <3>1, <3>2 DEF TypeOK, Breaks, Returns
  <2>2. OneServerJob'
    BY <1>4 DEF TypeOK, OneServerJob, Breaks
  <2>3. ToldIsPosted'
    BY <1>4 DEF TypeOK, ToldIsPosted, Breaks
  <2>4. OkIsDone'
    BY <1>4 DEF TypeOK, ToldIsPosted, OkIsDone, Breaks
  <2>5. Awaited'
    BY <1>4 DEF TypeOK, Awaited, Quiet, Hards, AtServer, Breaks
  <2>6. Aimed'
    BY <1>4 DEF TypeOK, Aimed, Breaks
  <2> QED BY <2>1, <2>2, <2>3, <2>4, <2>5, <2>6
<1>5. CASE Poll
  <2>1. TypeOK'
    BY <1>5 DEF TypeOK, Poll
  <2>2. OneServerJob'
    BY <1>5 DEF TypeOK, OneServerJob, Poll
  <2>3. ToldIsPosted'
    BY <1>5 DEF TypeOK, ToldIsPosted, Poll
  <2>4. OkIsDone'
    BY <1>5 DEF TypeOK, ToldIsPosted, OkIsDone, Poll
  <2>5. Awaited'
    BY <1>5 DEF TypeOK, Awaited, Quiet, Hards, AtServer, Poll
  <2>6. Aimed'
    BY <1>5 DEF TypeOK, Aimed, Poll
  <2> QED BY <2>1, <2>2, <2>3, <2>4, <2>5, <2>6
<1>6. CASE Close
  <2>1. TypeOK'
    <3>1. run' \in 0..Batch /\ run' < next'
      BY <1>6 DEF TypeOK, Close
    <3>2. stopping' \in BOOLEAN
      BY <1>6, Zenon DEF Close
    <3> QED BY <1>6, <3>1, <3>2 DEF TypeOK, Close
  <2>2. OneServerJob'
    BY <1>6 DEF TypeOK, OneServerJob, Close
  <2>3. ToldIsPosted'
    BY <1>6 DEF TypeOK, ToldIsPosted, Close
  <2>4. OkIsDone'
    BY <1>6 DEF TypeOK, ToldIsPosted, OkIsDone, Close
  <2>5. Awaited'
    BY <1>6 DEF TypeOK, Awaited, Quiet, Hards, AtServer, Close
  <2>6. Aimed'
    BY <1>6 DEF TypeOK, Aimed, Close
  <2> QED BY <2>1, <2>2, <2>3, <2>4, <2>5, <2>6
<1> QED BY <1>1, <1>2, <1>3, <1>4, <1>5, <1>6 DEF Page

-----------------------------------------------------------------------------
(* Steps of abortMainJob *)

LEMMA CancelIInv ==
    ASSUME IInv, NEW c \in Cancels,
           (\E soft \in BOOLEAN : Cancel(c, soft)) \/ CancelArrives(c) \/ CancelAnswered(c)
    PROVE  IInv'
<1> USE DEF IInv, Jobs, NoJob, Over, Returns, page, Serves, Held, Holding
<1>1. ASSUME NEW soft \in BOOLEAN, Cancel(c, soft) PROVE IInv'
  <2>1. TypeOK'
    BY <1>1 DEF TypeOK, Cancel
  <2>2. OneServerJob'
    BY <1>1 DEF TypeOK, OneServerJob, Cancel
  <2>3. ToldIsPosted'
    BY <1>1 DEF TypeOK, ToldIsPosted, Cancel
  <2>4. OkIsDone'
    BY <1>1 DEF TypeOK, ToldIsPosted, OkIsDone, Cancel
  <2>5. Awaited'
    BY <1>1 DEF TypeOK, Awaited, Quiet, Hards, AtServer, Cancel
  <2>6. Aimed'
    BY <1>1 DEF TypeOK, Aimed, Cancel
  <2> QED BY <2>1, <2>2, <2>3, <2>4, <2>5, <2>6
<1>2. CASE CancelArrives(c)
  <2>1. TypeOK'
    <3>1. cancel' \in [Cancels -> [state : {"unsent", "sent", "arrived", "answered"},
                                   target : 0..Batch, soft : BOOLEAN]]
      BY <1>2 DEF TypeOK, CancelArrives
    <3> QED BY <1>2, <3>1 DEF TypeOK, Aimed, CancelArrives
  <2>2. OneServerJob'
    BY <1>2 DEF TypeOK, OneServerJob, CancelArrives
  <2>3. ToldIsPosted'
    BY <1>2 DEF TypeOK, ToldIsPosted, CancelArrives
  <2>4. OkIsDone'
    BY <1>2 DEF TypeOK, ToldIsPosted, OkIsDone, CancelArrives
  <2>5. Awaited'
    BY <1>2 DEF TypeOK, Awaited, Quiet, Hards, AtServer, CancelArrives
  <2>6. Aimed'
    BY <1>2 DEF TypeOK, Aimed, CancelArrives
  <2> QED BY <2>1, <2>2, <2>3, <2>4, <2>5, <2>6
<1>3. CASE CancelAnswered(c)
  <2>1. TypeOK'
    <3>1. cancel' \in [Cancels -> [state : {"unsent", "sent", "arrived", "answered"},
                                   target : 0..Batch, soft : BOOLEAN]]
      BY <1>3 DEF TypeOK, CancelAnswered
    <3> QED BY <1>3, <3>1 DEF TypeOK, CancelAnswered
  <2>2. OneServerJob'
    BY <1>3 DEF TypeOK, OneServerJob, CancelAnswered
  <2>3. ToldIsPosted'
    BY <1>3 DEF TypeOK, ToldIsPosted, CancelAnswered
  <2>4. OkIsDone'
    BY <1>3 DEF TypeOK, ToldIsPosted, OkIsDone, CancelAnswered
  <2>5. Awaited'
    BY <1>3 DEF TypeOK, Awaited, Quiet, Hards, AtServer, CancelAnswered
  <2>6. Aimed'
    BY <1>3 DEF TypeOK, Aimed, CancelAnswered
  <2> QED BY <2>1, <2>2, <2>3, <2>4, <2>5, <2>6
<1> QED BY <1>1, <1>2, <1>3

-----------------------------------------------------------------------------
(* Steps of the server *)

LEMMA ServerIInv ==
    ASSUME IInv, NEW j \in Jobs, Arrives(j) \/ Ends(j)
    PROVE  IInv'
<1> USE DEF IInv, Jobs, NoJob, Over, Returns, page, Serves, Held, Holding
<1>1. CASE Arrives(j)
  <2>1. TypeOK'
    BY <1>1 DEF TypeOK, Arrives
  <2>2. OneServerJob'
    BY <1>1 DEF TypeOK, OneServerJob, Arrives
  <2>3. ToldIsPosted'
    BY <1>1 DEF TypeOK, ToldIsPosted, Arrives
  <2>4. OkIsDone'
    BY <1>1 DEF TypeOK, ToldIsPosted, OkIsDone, Arrives
  <2>5. Awaited'
    BY <1>1 DEF TypeOK, Awaited, Quiet, Hards, AtServer, Arrives
  <2>6. Aimed'
    BY <1>1 DEF TypeOK, Aimed, Arrives
  <2> QED BY <2>1, <2>2, <2>3, <2>4, <2>5, <2>6
<1>2. CASE Ends(j)
  <2>1. TypeOK'
    BY <1>2 DEF TypeOK, Ends
  <2>2. OneServerJob'
    BY <1>2 DEF TypeOK, OneServerJob, Ends
  <2>3. ToldIsPosted'
    BY <1>2 DEF TypeOK, ToldIsPosted, Ends
  <2>4. OkIsDone'
    BY <1>2 DEF TypeOK, ToldIsPosted, OkIsDone, Ends
  <2>5. Awaited'
    BY <1>2 DEF TypeOK, Awaited, Quiet, Hards, AtServer, Ends
  <2>6. Aimed'
    BY <1>2 DEF TypeOK, Aimed, Ends
  <2> QED BY <2>1, <2>2, <2>3, <2>4, <2>5, <2>6
<1> QED BY <1>1, <1>2

LEMMA Invariance == Spec => []IInv
<1>1. IInv /\ [Next]_vars => IInv'
  <2>1. IInv /\ UNCHANGED vars => IInv'
    BY DEF vars, page, IInv, TypeOK, OneServerJob, Holding, ToldIsPosted, OkIsDone, Awaited, Quiet, Hards, Aimed
  <2> QED BY <2>1, PageIInv, CancelIInv, ServerIInv DEF Next
<1> QED BY <1>1, InitIInv, PTL DEF Spec

-----------------------------------------------------------------------------
(* The results *)

(* Every variable keeps to its type; activeJob is set exactly while        *)
(* runOpWithCancel is between its first and its last step.                 *)
THEOREM TypeCorrect == Spec => []TypeOK
<1>1. IInv => TypeOK
  BY DEF IInv
<1> QED BY <1>1, Invariance, PTL

(* The server never runs two jobs of the page at a time, whatever the page *)
(* gave up on.                                                             *)
THEOREM OneJobAtServer == Spec => []OneServerJob
<1>1. IInv => OneServerJob
  BY DEF IInv
<1> QED BY <1>1, Invariance, PTL

(* A run reported as a success was completed by the server, also when the  *)
(* page learned of it by polling.                                          *)
THEOREM SuccessIsReal == Spec => []OkIsDone
<1>1. IInv => OkIsDone
  BY DEF IInv
<1> QED BY <1>1, Invariance, PTL

(* As long as nobody presses Stop and no connection breaks, no job of the  *)
(* page is refused by the gate, however many soft cancels there are.       *)
THEOREM SoftCancelsWait == Spec => []SoftIsNeverRefused
<1>1. IInv => SoftIsNeverRefused
  BY DEF IInv, Awaited, Quiet, SoftIsNeverRefused
<1> QED BY <1>1, Invariance, PTL

(* SlotHolder names the one job that the server runs. *)
LEMMA HolderIs ==
    ASSUME OneServerJob
    PROVE  /\ \A j \in Jobs : Holding(j) => SlotHolder = j
           /\ (\A j \in Jobs : ~Holding(j)) => SlotHolder = NoJob
BY DEF OneServerJob, SlotHolder, Held

LEMMA EndpointInit == Init => Endpoint!Init
BY DEF Init, Endpoint!Init, SlotHolder, Served, Held, Holding, Over

(* What has not been posted is not at the server. *)
ServerWaits == \A j \in Jobs : j >= next => server[j] = "none"

LEMMA WaitsStep == IInv /\ ServerWaits /\ [Next]_vars => ServerWaits'
<1> SUFFICES ASSUME IInv, ServerWaits, [Next]_vars PROVE ServerWaits'
  OBVIOUS
<1>0. next \in Nat /\ Batch \in Nat /\ DOMAIN server = Jobs /\ \A j \in Jobs : j \in Nat
  BY DEF IInv, TypeOK, Jobs
<1>1. CASE Start
  BY <1>0, <1>1 DEF ServerWaits, Start
<1>2. CASE UNCHANGED server /\ UNCHANGED next
  BY <1>2 DEF ServerWaits
<1>3. ASSUME NEW j, NEW x, server[j] # "none", server' = [server EXCEPT ![j] = x], UNCHANGED next
      PROVE  ServerWaits'
  BY <1>0, <1>3 DEF ServerWaits
<1>4. CASE Breaks
  BY <1>2, <1>3, <1>4 DEF Breaks, Returns
<1>5. CASE Page \/ UNCHANGED vars
  BY <1>2, <1>5 DEF Page, Answered, AbortSeen, Poll, Close, Returns, vars, page
<1>6. ASSUME NEW c \in Cancels, NEW soft, CancelArrives(c) \/ CancelAnswered(c) \/ Cancel(c, soft)
      PROVE  ServerWaits'
  BY <1>2, <1>3, <1>6 DEF CancelArrives, CancelAnswered, Cancel, page
<1>7. ASSUME NEW j \in Jobs, Arrives(j) \/ Ends(j) PROVE ServerWaits'
  BY <1>2, <1>3, <1>7 DEF Arrives, Ends, Serves, page
<1> QED BY <1>1, <1>4, <1>5, <1>6, <1>7 DEF Next

LEMMA WaitsAlways == Spec => []ServerWaits
<1>1. Init => ServerWaits
  BY DEF Init, ServerWaits
<1> QED BY <1>1, Invariance, WaitsStep, PTL DEF Spec

LEMMA EndpointStep == IInv /\ IInv' /\ ServerWaits /\ [Next]_vars => [Endpoint!Next]_(Endpoint!lineVars)
<1> SUFFICES ASSUME IInv, IInv', ServerWaits, [Next]_vars
             PROVE  Endpoint!Next \/ UNCHANGED <<SlotHolder, Served>>
  BY DEF Endpoint!lineVars
<1>0. server \in [Jobs -> {"none", "sent", "lost", "running", "cancelling", "refused"} \cup Over]
  BY DEF IInv, TypeOK
<1>1. /\ \A j \in Jobs : Holding(j) => SlotHolder = j
      /\ (\A j \in Jobs : ~Holding(j)) => SlotHolder = NoJob
  BY HolderIs DEF IInv
<1>2. /\ \A j \in Jobs : Holding(j)' => SlotHolder' = j
      /\ (\A j \in Jobs : ~Holding(j)') => SlotHolder' = NoJob
  BY HolderIs DEF IInv, OneServerJob, SlotHolder, Held
<1>3. NoJob \notin Jobs
  BY DEF NoJob, Jobs
<1>4. ASSUME NEW j \in Jobs, Arrives(j), Held PROVE Endpoint!Next
  <2>1. server[j] = "sent" /\ server' = [server EXCEPT ![j] = "refused"]
    BY <1>4 DEF Arrives, Serves
  <2>2. PICK k \in Jobs : Holding(k)
    BY <1>4 DEF Held
  <2>3. Holding(k)' /\ k # j
    BY <1>0, <2>1, <2>2 DEF Holding
  <2>4. SlotHolder = k /\ SlotHolder' = k
    BY <1>1, <1>2, <2>2, <2>3
  <2>5. j \notin Served /\ Served' = Served \cup {j}
    BY <1>0, <2>1 DEF Served, Over
  <2> QED BY <1>3, <2>3, <2>4, <2>5 DEF Endpoint!Next, Endpoint!TurnAway
<1>5. ASSUME NEW j \in Jobs, Arrives(j), ~Held PROVE Endpoint!Next
  <2>1. server[j] = "sent" /\ server' = [server EXCEPT ![j] = "running"]
    BY <1>5 DEF Arrives, Serves
  <2>2. SlotHolder = NoJob
    BY <1>5 DEF SlotHolder
  <2>3. Holding(j)'
    BY <1>0, <2>1 DEF Holding
  <2>4. SlotHolder' = j
    BY <1>2, <2>3
  <2>5. j \notin Served /\ Served' = Served
    BY <1>0, <2>1 DEF Served, Over
  <2> QED BY <2>2, <2>4, <2>5 DEF Endpoint!Next, Endpoint!Take
<1>6. ASSUME NEW j \in Jobs, Ends(j) PROVE Endpoint!Next
  <2>1. PICK to \in Over : Holding(j) /\ server' = [server EXCEPT ![j] = to]
    BY <1>6 DEF Ends, Serves, Over, Holding
  <2>2. SlotHolder = j
    BY <1>1, <2>1
  <2>3. \A k \in Jobs : ~Holding(k)'
    BY <1>0, <2>1 DEF IInv, OneServerJob, Holding, Over
  <2>4. SlotHolder' = NoJob
    BY <1>2, <2>3
  <2>5. Served' = Served \cup {j}
    BY <1>0, <2>1 DEF Served, Over
  <2> QED BY <2>2, <2>4, <2>5 DEF Endpoint!Next, Endpoint!Release
<1>7. ASSUME \/ UNCHANGED server
             \/ next <= Batch /\ server' = [server EXCEPT ![next] = "sent"] /\ server[next] = "none"
             \/ \E j : server[j] = "sent" /\ server' = [server EXCEPT ![j] = "lost"]
             \/ \E j : server[j] = "running" /\ server' = [server EXCEPT ![j] = "cancelling"]
      PROVE  UNCHANGED <<SlotHolder, Served>>
  <2>1. \A j \in Jobs : Holding(j)' <=> Holding(j)
    BY <1>0, <1>7 DEF Holding, Over
  <2>2. \A j \in Jobs : server'[j] \in Over \cup {"refused"} <=> server[j] \in Over \cup {"refused"}
    BY <1>0, <1>7 DEF Over
  <2>3. SlotHolder' = SlotHolder
    BY <1>1, <1>2, <2>1
  <2> QED BY <2>2, <2>3 DEF Served
<1>8. CASE Start
  <2>1. next \in Jobs /\ next >= next
    BY <1>8 DEF Start, IInv, TypeOK, Jobs
  <2>2. server[next] = "none"
    BY <2>1 DEF ServerWaits
  <2> QED BY <1>7, <1>8, <2>2 DEF Start
<1>9. CASE Breaks
  BY <1>7, <1>9 DEF Breaks
<1>10. CASE Page \/ UNCHANGED vars
  BY <1>7, <1>10 DEF Page, Answered, AbortSeen, Poll, Close, vars
<1>11. ASSUME NEW c \in Cancels, CancelArrives(c) PROVE UNCHANGED <<SlotHolder, Served>>
  BY <1>7, <1>11 DEF CancelArrives
<1>12. ASSUME NEW c \in Cancels, CancelAnswered(c) \/ \E soft \in BOOLEAN : Cancel(c, soft)
       PROVE  UNCHANGED <<SlotHolder, Served>>
  BY <1>7, <1>12 DEF CancelAnswered, Cancel
<1> QED BY <1>4, <1>5, <1>6, <1>8, <1>9, <1>10, <1>11, <1>12 DEF Next

(* What the page meets at the other end of its POSTs is the slot that the  *)
(* queue and the endpoint implement (JobQueueProofs), for a batch of any   *)
(* length and any Stops, soft cancels and broken connections.              *)
THEOREM PageMeetsSerialExecutor == Spec => ServerIsSerialExecutor
<1>1. Spec => Endpoint!Spec
  BY Invariance, WaitsAlways, EndpointInit, EndpointStep, PTL DEF Spec, Endpoint!Spec
<1> QED BY <1>1 DEF ServerIsSerialExecutor

(***************************************************************************)
(* MediaRepair, for any files and any limits of the queues.                *)
(***************************************************************************)
USE CapAssumption, SizeAssumption, PathsAssumption, AskAssumption

-----------------------------------------------------------------------------
(* The state that the operators rewrite                                    *)

Requests == [path : Paths, slot : Slots, live : BOOLEAN]
Records == [st : [Slots -> Statuses], hash : BOOLEAN, meta : BOOLEAN]

PageState ==
    [rec : [Paths -> Records], item : [Paths -> Items],
     queue : [Kinds -> Seq(Paths)], flight : [Kinds -> Seq(Requests)]]

(* At most Cap requests of a kind are under way, and none waits while a    *)
(* slot is free.                                                           *)
Bounded(t, k) ==
    /\ Len(t.flight[k]) <= Cap[k]
    /\ Len(t.queue[k]) > 0 => Len(t.flight[k]) = Cap[k]

(* What is shown as queued or repairing is. *)
Truthful(t, k) ==
    \A p \in Paths :
        /\ t.rec[p].st[k] = "queued" => \E i \in 1..Len(t.queue[k]) : t.queue[k][i] = p
        /\ t.rec[p].st[k] = "repairing" => \E n \in 1..Len(t.flight[k]) : t.flight[k][n].path = p

(* A file is once in the queue of hashes or once under way, *)
Apart(t) ==
    LET q == t.queue["hash"]
        f == t.flight["hash"]
    IN  /\ \A i, j \in 1..Len(q) : q[i] = q[j] => i = j
        /\ \A n, m \in 1..Len(f) : f[n].path = f[m].path => n = m
        /\ \A n \in 1..Len(f), i \in 1..Len(q) : q[i] # f[n].path

(* and what is under way cannot be asked for again. *)
Guarded(t, p) ==
    \/ t.rec[p].st["hash"] = "repairing"
    \/ t.rec[p].st["hash"] = "known" /\ t.rec[p].hash

Single(t) == Apart(t) /\ \A n \in 1..Len(t.flight["hash"]) : Guarded(t, t.flight["hash"][n].path)

Sound(t, k) ==
    /\ k \in {"hash", "probe"} => Truthful(t, k)
    /\ k = "hash" => Single(t)
    /\ k = "thumb" => \A n \in 1..Len(t.flight[k]) : t.flight[k][n].slot \in Sizes

Fit(t, k) == Bounded(t, k) /\ Sound(t, k)

(* Nothing that belongs to kind k differs. *)
Same(t, u, k) ==
    /\ u.queue[k] = t.queue[k] /\ u.flight[k] = t.flight[k]
    /\ \A p \in Paths : /\ u.rec[p].hash = t.rec[p].hash
                        /\ k # "thumb" => u.rec[p].st[k] = t.rec[p].st[k]

(* A hash or probe that is known or has failed and that nobody waits for   *)
Settled(t, p, s) ==
    /\ t.rec[p].st[s] \in {"known", "failed"}
    /\ \A i \in 1..Len(t.queue[s]) : t.queue[s][i] # p

(* stays so. *)
Calm(t, u) ==
    \A p \in Paths, s \in {"hash", "probe"} : Settled(t, p, s) => Settled(u, p, s)

-----------------------------------------------------------------------------
LEMMA StateIs ==
    ASSUME NEW t \in PageState
    PROVE  /\ t.rec \in [Paths -> Records] /\ t.item \in [Paths -> Items]
           /\ t.queue \in [Kinds -> Seq(Paths)] /\ t.flight \in [Kinds -> Seq(Requests)]
           /\ \A p \in Paths : /\ t.rec[p] \in Records /\ t.item[p] \in Items
                               /\ t.rec[p].st \in [Slots -> Statuses]
                               /\ t.rec[p].hash \in BOOLEAN /\ t.rec[p].meta \in BOOLEAN
           /\ \A k \in Kinds :
                /\ t.queue[k] \in Seq(Paths) /\ t.flight[k] \in Seq(Requests)
                /\ Len(t.queue[k]) \in Nat /\ Len(t.flight[k]) \in Nat
                /\ \A i \in 1..Len(t.queue[k]) : t.queue[k][i] \in Paths
                /\ \A n \in 1..Len(t.flight[k]) :
                     /\ t.flight[k][n] \in Requests
                     /\ t.flight[k][n].path \in Paths /\ t.flight[k][n].slot \in Slots
<1>1. /\ t.rec \in [Paths -> Records] /\ t.item \in [Paths -> Items]
      /\ t.queue \in [Kinds -> Seq(Paths)] /\ t.flight \in [Kinds -> Seq(Requests)]
  BY DEF PageState
<1>2. ASSUME NEW k \in Kinds
      PROVE  /\ t.queue[k] \in Seq(Paths) /\ t.flight[k] \in Seq(Requests)
             /\ Len(t.queue[k]) \in Nat /\ Len(t.flight[k]) \in Nat
             /\ \A i \in 1..Len(t.queue[k]) : t.queue[k][i] \in Paths
             /\ \A n \in 1..Len(t.flight[k]) : t.flight[k][n] \in Requests
  BY <1>1, LenProperties, ElementOfSeq
<1>3. \A p \in Paths : /\ t.rec[p] \in Records /\ t.item[p] \in Items
  BY <1>1
<1>4. \A r \in Records : r.st \in [Slots -> Statuses] /\ r.hash \in BOOLEAN /\ r.meta \in BOOLEAN
  BY DEF Records
<1>5. \A f \in Requests : f.path \in Paths /\ f.slot \in Slots
  BY DEF Requests
<1> QED BY <1>1, <1>2, <1>3, <1>4, <1>5

LEMMA Domains ==
    ASSUME NEW t \in PageState, NEW k \in Kinds
    PROVE  DOMAIN t.queue[k] = 1..Len(t.queue[k]) /\ DOMAIN t.flight[k] = 1..Len(t.flight[k])
BY StateIs, LenProperties

LEMMA SlotIs ==
    ASSUME size \in Sizes, NEW k \in Kinds
    PROVE  /\ Slot(k) \in Slots
           /\ \A j \in {"hash", "probe"} : Slot(k) = j <=> k = j
BY DEF Slot, Slots, Kinds

LEMMA SameFit ==
    ASSUME NEW t, NEW u, NEW k \in Kinds, t \in PageState, Same(t, u, k)
    PROVE  (Fit(t, k) => Fit(u, k)) /\ (Sound(t, k) => Sound(u, k))
<1>1. Bounded(t, k) => Bounded(u, k)
  BY DEF Same, Bounded
<1>2. k \in {"hash", "probe"} /\ Truthful(t, k) => Truthful(u, k)
  BY DEF Same, Truthful
<1>3. ASSUME k = "hash", Single(t) PROVE Single(u)
  <2>1. /\ u.queue["hash"] = t.queue["hash"] /\ u.flight["hash"] = t.flight["hash"]
        /\ \A p \in Paths : u.rec[p].hash = t.rec[p].hash /\ u.rec[p].st["hash"] = t.rec[p].st["hash"]
    BY <1>3 DEF Same
  <2>2. \A n \in 1..Len(t.flight["hash"]) : t.flight["hash"][n].path \in Paths
    BY <1>3, StateIs
  <2>3. ASSUME NEW n \in 1..Len(t.flight["hash"])
        PROVE  \/ u.rec[t.flight["hash"][n].path].st["hash"] = "repairing"
               \/ /\ u.rec[t.flight["hash"][n].path].st["hash"] = "known"
                  /\ u.rec[t.flight["hash"][n].path].hash
    BY <1>3, <2>1, <2>2 DEF Single, Guarded
  <2>4. Apart(u)
    BY <1>3, <2>1, Zenon DEF Single, Apart
  <2> QED BY <2>1, <2>3, <2>4 DEF Single, Guarded
<1>4. u.flight[k] = t.flight[k]
  BY DEF Same
<1> QED BY <1>1, <1>2, <1>3, <1>4 DEF Fit, Sound

LEMMA SameSelf == \A t, k : Same(t, t, k)
BY DEF Same

LEMMA SameTrans ==
    ASSUME NEW t, NEW u, NEW v, NEW k, Same(t, u, k), Same(u, v, k)
    PROVE  Same(t, v, k)
BY DEF Same

LEMMA CalmSelf == \A t : Calm(t, t)
BY DEF Calm

LEMMA CalmTrans == ASSUME NEW t, NEW u, NEW v, Calm(t, u), Calm(u, v) PROVE Calm(t, v)
BY DEF Calm

(* One status is written. *)
LEMMA MarkIs ==
    ASSUME NEW t \in PageState, NEW p \in Paths, NEW slot \in Slots, NEW st \in Statuses
    PROVE  LET u == Mark(t, p, slot, st)
           IN  /\ u \in PageState
               /\ u.item = t.item /\ u.queue = t.queue /\ u.flight = t.flight
               /\ \A x \in Paths : /\ u.rec[x].hash = t.rec[x].hash /\ u.rec[x].meta = t.rec[x].meta
                                   /\ \A s \in Slots : u.rec[x].st[s] =
                                        IF x = p /\ s = slot THEN st ELSE t.rec[x].st[s]
<1> DEFINE ss == [t.rec[p].st EXCEPT ![slot] = st]
           r == [t.rec[p] EXCEPT !.st = ss]
           u == [t EXCEPT !.rec[p] = r]
<1>1. t.rec \in [Paths -> Records] /\ t.rec[p] \in Records /\ t.rec[p].st \in [Slots -> Statuses]
  BY StateIs
<1>2. ss \in [Slots -> Statuses] /\ \A s \in Slots : ss[s] = IF s = slot THEN st ELSE t.rec[p].st[s]
  BY <1>1
<1>3. Mark(t, p, slot, st) = u
  BY <1>1 DEF Mark, PageState, Records
<1> HIDE DEF ss
<1>4. r \in Records /\ r.st = ss /\ r.hash = t.rec[p].hash /\ r.meta = t.rec[p].meta
  BY <1>1, <1>2 DEF Records
<1> HIDE DEF r
<1>5. /\ u \in PageState /\ u.item = t.item /\ u.queue = t.queue /\ u.flight = t.flight
      /\ u.rec = [t.rec EXCEPT ![p] = r]
  BY <1>4 DEF PageState
<1> HIDE DEF u
<1> QED BY <1>1, <1>2, <1>3, <1>4, <1>5

(* A free slot is taken by the head of the queue. *)
Loose(t, k) ==
    /\ Len(t.flight[k]) <= Cap[k]
    /\ Len(t.queue[k]) > 1 => Len(t.flight[k]) >= Cap[k] - 1

(* What Take does when it does something. *)
LEMMA TakenIs ==
    ASSUME NEW t \in PageState, NEW k \in Kinds, NEW pl, size \in Sizes,
           Len(t.queue[k]) > 0, Len(t.flight[k]) # Cap[k]
    PROVE  LET u == Take(t, k, pl)
               p == t.queue[k][1]
               l == Len(t.flight[k])
               m == Mark(t, p, Slot(k), "repairing")
           IN  /\ u \in PageState
               /\ p \in Paths
               /\ u.item = t.item /\ u.rec = m.rec
               /\ \A j \in Kinds \ {k} : u.queue[j] = t.queue[j] /\ u.flight[j] = t.flight[j]
               /\ Len(u.queue[k]) = Len(t.queue[k]) - 1
               /\ \A i \in 1..Len(u.queue[k]) : u.queue[k][i] = t.queue[k][i + 1]
               /\ Len(u.flight[k]) = l + 1
               /\ \A n \in 1..l : u.flight[k][n] = t.flight[k][n]
               /\ u.flight[k][l + 1].path = p /\ u.flight[k][l + 1].slot = Slot(k)
<1> DEFINE p == t.queue[k][1]
           m == Mark(t, p, Slot(k), "repairing")
           f == [path |-> p, slot |-> Slot(k), live |-> p \in pl]
           q2 == Tail(t.queue[k])
           f2 == Append(t.flight[k], f)
           u == [m EXCEPT !.queue[k] = q2, !.flight[k] = f2]
<1>1. /\ t.queue[k] \in Seq(Paths) /\ t.flight[k] \in Seq(Requests)
      /\ Len(t.queue[k]) \in Nat /\ Len(t.flight[k]) \in Nat
      /\ t.queue[k] # <<>>
  BY StateIs
<1>2. p \in Paths /\ Head(t.queue[k]) = p
  BY <1>1, StateIs
<1>3. f \in Requests /\ f.path = p /\ f.slot = Slot(k)
  BY <1>2, SlotIs DEF Requests
<1>4. m \in PageState /\ m.item = t.item /\ m.queue = t.queue /\ m.flight = t.flight
  BY <1>2, SlotIs, MarkIs DEF Statuses
<1> HIDE DEF f, m
<1>5. /\ q2 \in Seq(Paths) /\ Len(q2) = Len(t.queue[k]) - 1
      /\ \A i \in 1..Len(q2) : q2[i] = t.queue[k][i + 1]
  BY <1>1, HeadTailProperties
<1>6. /\ f2 \in Seq(Requests) /\ Len(f2) = Len(t.flight[k]) + 1
      /\ \A n \in 1..Len(t.flight[k]) : f2[n] = t.flight[k][n]
      /\ f2[Len(t.flight[k]) + 1] = f
  BY <1>1, <1>3, AppendProperties
<1>7. Take(t, k, pl) = u
  BY <1>1, <1>2, <1>4 DEF Take, m, f
<1> HIDE DEF q2, f2
<1>8. /\ u \in PageState /\ u.item = m.item /\ u.rec = m.rec
      /\ u.queue = [t.queue EXCEPT ![k] = q2] /\ u.flight = [t.flight EXCEPT ![k] = f2]
  BY <1>4, <1>5, <1>6 DEF PageState
<1>9. /\ u.queue[k] = q2 /\ u.flight[k] = f2
      /\ \A j \in Kinds \ {k} : u.queue[j] = t.queue[j] /\ u.flight[j] = t.flight[j]
  BY <1>8, StateIs
<1> HIDE DEF u
<1> QED BY <1>2, <1>3, <1>4, <1>5, <1>6, <1>7, <1>8, <1>9 DEF m

LEMMA TakeIs ==
    ASSUME NEW t \in PageState, NEW k \in Kinds, NEW pl, size \in Sizes,
           Loose(t, k), Sound(t, k)
    PROVE  LET u == Take(t, k, pl)
           IN  /\ u \in PageState
               /\ u.item = t.item
               /\ \A j \in Kinds \ {k} : Same(t, u, j)
               /\ Fit(u, k)
               /\ Calm(t, u)
<1> DEFINE u == Take(t, k, pl)
<1>1. Len(t.queue[k]) \in Nat /\ Len(t.flight[k]) \in Nat /\ Cap[k] \in Nat
  BY StateIs
<1>2. CASE Len(t.queue[k]) = 0 \/ Len(t.flight[k]) = Cap[k]
  <2>1. u = t
    BY <1>1, <1>2, StateIs, EmptySeq DEF Take
  <2>2. Bounded(t, k)
    BY <1>1, <1>2 DEF Loose, Bounded
  <2> QED BY <2>1, <2>2, SameSelf, CalmSelf DEF Fit
<1>3. CASE Len(t.queue[k]) > 0 /\ Len(t.flight[k]) # Cap[k]
  <2> DEFINE p == t.queue[k][1]
             l == Len(t.flight[k])
  <2>1. /\ u \in PageState /\ p \in Paths /\ u.item = t.item
        /\ \A j \in Kinds \ {k} : u.queue[j] = t.queue[j] /\ u.flight[j] = t.flight[j]
        /\ Len(u.queue[k]) = Len(t.queue[k]) - 1
        /\ \A i \in 1..Len(u.queue[k]) : u.queue[k][i] = t.queue[k][i + 1]
        /\ Len(u.flight[k]) = l + 1
        /\ \A n \in 1..l : u.flight[k][n] = t.flight[k][n]
        /\ u.flight[k][l + 1].path = p /\ u.flight[k][l + 1].slot = Slot(k)
    BY <1>3, TakenIs
  <2>2. \A x \in Paths : /\ u.rec[x].hash = t.rec[x].hash
                         /\ \A s \in Slots : u.rec[x].st[s] =
                              IF x = p /\ s = Slot(k) THEN "repairing" ELSE t.rec[x].st[s]
    <3>1. u.rec = Mark(t, p, Slot(k), "repairing").rec
      BY <1>3, TakenIs
    <3>2. Slot(k) \in Slots /\ "repairing" \in Statuses /\ p \in Paths
      BY <2>1, SlotIs DEF Statuses
    <3> HIDE DEF p, u
    <3> QED BY <3>1, <3>2, MarkIs
  <2> HIDE DEF u
  <2>3. \A x \in Paths, j \in {"hash", "probe"} :
            u.rec[x].st[j] = IF x = p /\ k = j THEN "repairing" ELSE t.rec[x].st[j]
    BY <2>2, SlotIs DEF Slots
  <2>4. \A j \in Kinds \ {k} : Same(t, u, j)
    BY <2>1, <2>2, <2>3 DEF Same, Kinds
  <2>5. Bounded(u, k)
    BY <1>1, <1>3, <2>1 DEF Loose, Bounded
  <2>6. Calm(t, u)
    <3> SUFFICES ASSUME NEW x \in Paths, NEW s \in {"hash", "probe"}, Settled(t, x, s)
                 PROVE  Settled(u, x, s)
      BY DEF Calm
    <3>1. CASE s # k
      BY <3>1, <2>1, <2>3 DEF Settled, Kinds
    <3>2. CASE s = k
      <4>1. x # p
        BY <1>1, <1>3, <3>2 DEF Settled
      <4>2. \A i \in 1..Len(u.queue[s]) : u.queue[s][i] # x
        <5> SUFFICES ASSUME NEW i \in 1..Len(u.queue[k]) PROVE u.queue[k][i] # x
          BY <3>2
        <5>1. Len(u.queue[k]) = Len(t.queue[k]) - 1 /\ Len(t.queue[k]) \in Nat
              /\ u.queue[k][i] = t.queue[k][i + 1]
          BY <1>1, <2>1
        <5>2. i + 1 \in 1..Len(t.queue[k])
          BY <5>1
        <5> QED BY <3>2, <5>1, <5>2 DEF Settled
      <4> QED BY <2>3, <4>1, <4>2 DEF Settled
    <3> QED BY <3>1, <3>2
  <2>7. ASSUME k \in {"hash", "probe"} PROVE Truthful(u, k)
    <3> SUFFICES ASSUME NEW x \in Paths
                 PROVE  /\ u.rec[x].st[k] = "queued" => \E i \in 1..Len(u.queue[k]) : u.queue[k][i] = x
                        /\ u.rec[x].st[k] = "repairing" => \E n \in 1..Len(u.flight[k]) : u.flight[k][n].path = x
      BY DEF Truthful
    <3>1. CASE x = p
      <4>1. l + 1 \in 1..Len(u.flight[k]) /\ u.flight[k][l + 1].path = x
        BY <1>1, <2>1, <3>1
      <4>2. u.rec[x].st[k] = "repairing"
        BY <2>3, <2>7, <3>1
      <4> QED BY <4>1, <4>2
    <3>2. CASE x # p
      <4>1. u.rec[x].st[k] = t.rec[x].st[k]
        BY <2>3, <2>7, <3>2
      <4>2. ASSUME u.rec[x].st[k] = "queued" PROVE \E i \in 1..Len(u.queue[k]) : u.queue[k][i] = x
        <5>1. PICK i \in 1..Len(t.queue[k]) : t.queue[k][i] = x
          BY <2>7, <4>1, <4>2 DEF Sound, Truthful
        <5>2. i - 1 \in 1..Len(u.queue[k]) /\ u.queue[k][i - 1] = t.queue[k][i]
          BY <1>1, <2>1, <3>2, <5>1
        <5> QED BY <5>1, <5>2
      <4>3. ASSUME u.rec[x].st[k] = "repairing" PROVE \E n \in 1..Len(u.flight[k]) : u.flight[k][n].path = x
        <5>1. PICK n \in 1..Len(t.flight[k]) : t.flight[k][n].path = x
          BY <2>7, <4>1, <4>3 DEF Sound, Truthful
        <5>2. n \in 1..Len(u.flight[k]) /\ u.flight[k][n] = t.flight[k][n]
          BY <1>1, <2>1, <5>1
        <5> QED BY <5>1, <5>2
      <4> QED BY <4>2, <4>3
    <3> QED BY <3>1, <3>2
  <2>8. ASSUME k = "hash" PROVE Single(u)
    <3> DEFINE q == t.queue["hash"]
               f == t.flight["hash"]
               v == u.queue["hash"]
               g == u.flight["hash"]
    <3>1. /\ \A i, j \in 1..Len(q) : q[i] = q[j] => i = j
          /\ \A n, m \in 1..Len(f) : f[n].path = f[m].path => n = m
          /\ \A n \in 1..Len(f) :
               /\ \A i \in 1..Len(q) : q[i] # f[n].path
               /\ \/ t.rec[f[n].path].st["hash"] = "repairing"
                  \/ t.rec[f[n].path].st["hash"] = "known" /\ t.rec[f[n].path].hash
      BY <2>8 DEF Sound, Single, Apart, Guarded
    <3>2. /\ Len(v) = Len(q) - 1 /\ \A i \in 1..Len(v) : v[i] = q[i + 1]
          /\ Len(g) = Len(f) + 1 /\ \A n \in 1..Len(f) : g[n] = f[n] /\ g[Len(f) + 1].path = q[1]
      BY <2>1, <2>8
    <3>3. \A n \in 1..Len(f) : f[n].path \in Paths
      BY StateIs, <2>8
    <3>4. p = q[1] /\ Len(q) \in Nat /\ Len(f) \in Nat /\ Len(q) > 0
      BY <1>1, <1>3, <2>8
    <3>5. \A x \in Paths : /\ u.rec[x].hash = t.rec[x].hash
                           /\ u.rec[x].st["hash"] = IF x = p THEN "repairing" ELSE t.rec[x].st["hash"]
      BY <2>2, <2>3, <2>8
    <3>6. g[Len(f) + 1].path = p
      BY <2>1, <2>8
    <3> HIDE DEF q, f, v, g, p
    <3>7. \A i, j \in 1..Len(v) : v[i] = v[j] => i = j
      BY <3>1, <3>2, <3>4
    <3>8. \A n \in 1..Len(f) : f[n].path # p
      BY <3>1, <3>4
    <3>9. \A n, m \in 1..Len(g) : g[n].path = g[m].path => n = m
      <4> SUFFICES ASSUME NEW n \in 1..Len(g), NEW m \in 1..Len(g), g[n].path = g[m].path PROVE n = m
        OBVIOUS
      <4>1. (n \in 1..Len(f) \/ n = Len(f) + 1) /\ (m \in 1..Len(f) \/ m = Len(f) + 1)
        BY <3>2, <3>4
      <4> QED BY <3>1, <3>2, <3>6, <3>8, <4>1
    <3>10. ASSUME NEW n \in 1..Len(g)
           PROVE  /\ \A i \in 1..Len(v) : v[i] # g[n].path
                  /\ \/ u.rec[g[n].path].st["hash"] = "repairing"
                     \/ u.rec[g[n].path].st["hash"] = "known" /\ u.rec[g[n].path].hash
      <4>1. CASE n = Len(f) + 1
        <5>1. p \in Paths /\ g[n].path = p
          BY <2>1, <3>6, <4>1
        <5>2. \A i \in 1..Len(v) : i + 1 \in 1..Len(q) /\ i + 1 # 1
          BY <3>2, <3>4
        <5>3. \A i \in 1..Len(v) : v[i] # p
          BY <3>1, <3>2, <3>4, <5>2
        <5> QED BY <3>5, <5>1, <5>3
      <4>2. CASE n \in 1..Len(f)
        <5>1. g[n].path = f[n].path /\ f[n].path \in Paths /\ f[n].path # p
          BY <3>2, <3>3, <3>8, <4>2
        <5>2. \A i \in 1..Len(v) : i + 1 \in 1..Len(q)
          BY <3>2, <3>4
        <5>3. \A i \in 1..Len(v) : v[i] # f[n].path
          BY <3>1, <3>2, <4>2, <5>2
        <5>4. \/ t.rec[f[n].path].st["hash"] = "repairing"
              \/ t.rec[f[n].path].st["hash"] = "known" /\ t.rec[f[n].path].hash
          BY <3>1, <4>2
        <5> QED BY <3>5, <5>1, <5>3, <5>4
      <4> QED BY <3>2, <3>4, <4>1, <4>2
    <3> QED BY <3>7, <3>9, <3>10 DEF Single, Apart, Guarded, v, g
  <2>9. ASSUME k = "thumb" PROVE \A n \in 1..Len(u.flight[k]) : u.flight[k][n].slot \in Sizes
    <3>1. Slot(k) \in Sizes
      BY <2>9 DEF Slot
    <3>2. \A n \in 1..l : t.flight[k][n].slot \in Sizes
      BY <2>9 DEF Sound
    <3>3. \A n \in 1..Len(u.flight[k]) : n \in 1..l \/ n = l + 1
      BY <1>1, <2>1
    <3> QED BY <2>1, <3>1, <3>2, <3>3
  <2> QED BY <2>1, <2>4, <2>5, <2>6, <2>7, <2>8, <2>9 DEF Fit, Sound, u
<1> QED BY <1>1, <1>2, <1>3

(* A repair joins the queue of its kind. *)
Queued(t, k, p) == [Mark(t, p, Slot(k), "queued") EXCEPT !.queue[k] = Append(@, p)]

LEMMA QueuedIs ==
    ASSUME NEW t \in PageState, NEW k \in Kinds, NEW p \in Paths, size \in Sizes
    PROVE  LET u == Queued(t, k, p)
               l == Len(t.queue[k])
           IN  /\ u \in PageState
               /\ u.item = t.item /\ u.flight = t.flight
               /\ \A j \in Kinds \ {k} : u.queue[j] = t.queue[j]
               /\ Len(u.queue[k]) = l + 1
               /\ \A i \in 1..l : u.queue[k][i] = t.queue[k][i]
               /\ u.queue[k][l + 1] = p
               /\ \A x \in Paths, j \in {"hash", "probe"} :
                    u.rec[x].st[j] = IF x = p /\ k = j THEN "queued" ELSE t.rec[x].st[j]
               /\ \A x \in Paths : u.rec[x].hash = t.rec[x].hash
<1> DEFINE m == Mark(t, p, Slot(k), "queued")
           q2 == Append(t.queue[k], p)
           u == [m EXCEPT !.queue[k] = q2]
<1>1. t.queue[k] \in Seq(Paths) /\ Slot(k) \in Slots /\ "queued" \in Statuses
  BY StateIs, SlotIs DEF Statuses
<1>2. /\ m \in PageState /\ m.item = t.item /\ m.queue = t.queue /\ m.flight = t.flight
      /\ \A x \in Paths : /\ m.rec[x].hash = t.rec[x].hash
                          /\ \A s \in Slots : m.rec[x].st[s] =
                               IF x = p /\ s = Slot(k) THEN "queued" ELSE t.rec[x].st[s]
  BY <1>1, MarkIs
<1>3. \A x \in Paths, j \in {"hash", "probe"} :
          m.rec[x].st[j] = IF x = p /\ k = j THEN "queued" ELSE t.rec[x].st[j]
  BY <1>2, SlotIs DEF Slots
<1>5. Queued(t, k, p) = u
  BY <1>2 DEF Queued
<1> HIDE DEF m
<1>4. /\ q2 \in Seq(Paths) /\ Len(q2) = Len(t.queue[k]) + 1
      /\ \A i \in 1..Len(t.queue[k]) : q2[i] = t.queue[k][i]
      /\ q2[Len(t.queue[k]) + 1] = p
  BY <1>1, AppendProperties
<1> HIDE DEF q2
<1>6. /\ u \in PageState /\ u.item = m.item /\ u.rec = m.rec /\ u.flight = m.flight
      /\ u.queue = [t.queue EXCEPT ![k] = q2]
  BY <1>2, <1>4 DEF PageState
<1>7. u.queue[k] = q2 /\ \A j \in Kinds \ {k} : u.queue[j] = t.queue[j]
  BY <1>6, StateIs
<1> HIDE DEF u
<1> QED BY <1>2, <1>3, <1>4, <1>5, <1>6, <1>7

LEMMA EnqueuedIs ==
    ASSUME NEW t \in PageState, NEW want \in BOOLEAN, NEW k \in Kinds, NEW p \in Paths, NEW pl,
           size \in Sizes, Fit(t, k)
    PROVE  LET u == Enqueued(t, want, k, p, pl)
           IN  /\ u \in PageState
               /\ u.item = t.item
               /\ \A j \in Kinds \ {k} : Same(t, u, j)
               /\ Fit(u, k)
               /\ (k = "thumb" \/ ~want \/ t.rec[p].st[k] = "missing") => Calm(t, u)
<1> DEFINE u == Queued(t, k, p)
<1>1. CASE ~(want /\ ~Refused(t, k, p))
  BY <1>1, SameSelf, CalmSelf DEF Enqueued
<1>2. CASE want /\ ~Refused(t, k, p)
  <2> DEFINE l == Len(t.queue[k])
  <2>1. /\ u \in PageState /\ u.item = t.item /\ u.flight = t.flight
        /\ \A j \in Kinds \ {k} : u.queue[j] = t.queue[j]
        /\ Len(u.queue[k]) = l + 1
        /\ \A i \in 1..l : u.queue[k][i] = t.queue[k][i]
        /\ u.queue[k][l + 1] = p
        /\ \A x \in Paths, j \in {"hash", "probe"} :
             u.rec[x].st[j] = IF x = p /\ k = j THEN "queued" ELSE t.rec[x].st[j]
        /\ \A x \in Paths : u.rec[x].hash = t.rec[x].hash
    BY QueuedIs
  <2>2. Enqueued(t, want, k, p, pl) = Take(u, k, pl)
    BY <1>2 DEF Enqueued, Queued
  <2> HIDE DEF u
  <2>3. l \in Nat /\ Len(t.flight[k]) \in Nat /\ Cap[k] \in Nat \ {0}
    BY StateIs
  <2>4. Loose(u, k)
    BY <2>1, <2>3 DEF Loose, Fit, Bounded
  <2>5. \A i \in 1..l : t.queue[k][i] # p
    BY <1>2, Domains DEF Refused, ToSet
  <2>6. ASSUME k \in {"hash", "probe"} PROVE Truthful(u, k)
    <3> SUFFICES ASSUME NEW x \in Paths
                 PROVE  /\ u.rec[x].st[k] = "queued" => \E i \in 1..Len(u.queue[k]) : u.queue[k][i] = x
                        /\ u.rec[x].st[k] = "repairing" => \E n \in 1..Len(u.flight[k]) : u.flight[k][n].path = x
      BY DEF Truthful
    <3>1. CASE x = p
      <4>1. l + 1 \in 1..Len(u.queue[k]) /\ u.queue[k][l + 1] = x
        BY <2>1, <2>3, <3>1
      <4>2. u.rec[x].st[k] = "queued"
        BY <2>1, <2>6, <3>1
      <4> QED BY <4>1, <4>2
    <3>2. CASE x # p
      <4>1. u.rec[x].st[k] = t.rec[x].st[k]
        BY <2>1, <2>6, <3>2
      <4>2. ASSUME u.rec[x].st[k] = "queued" PROVE \E i \in 1..Len(u.queue[k]) : u.queue[k][i] = x
        <5>1. PICK i \in 1..Len(t.queue[k]) : t.queue[k][i] = x
          BY <2>6, <4>1, <4>2 DEF Fit, Sound, Truthful
        <5>2. i \in 1..Len(u.queue[k]) /\ u.queue[k][i] = x
          BY <2>1, <2>3, <5>1
        <5> QED BY <5>2
      <4>3. u.rec[x].st[k] = "repairing" => \E n \in 1..Len(u.flight[k]) : u.flight[k][n].path = x
        BY <2>1, <2>6, <4>1 DEF Fit, Sound, Truthful
      <4> QED BY <4>2, <4>3
    <3> QED BY <3>1, <3>2
  <2>7. ASSUME k = "hash" PROVE Single(u)
    <3> DEFINE q == t.queue["hash"]
               f == t.flight["hash"]
               v == u.queue["hash"]
    <3>1. /\ \A i, j \in 1..Len(q) : q[i] = q[j] => i = j
          /\ \A n, m \in 1..Len(f) : f[n].path = f[m].path => n = m
          /\ \A n \in 1..Len(f) :
               /\ \A i \in 1..Len(q) : q[i] # f[n].path
               /\ \/ t.rec[f[n].path].st["hash"] = "repairing"
                  \/ t.rec[f[n].path].st["hash"] = "known" /\ t.rec[f[n].path].hash
      BY <2>7 DEF Fit, Sound, Single, Apart, Guarded
    <3>2. \A n \in 1..Len(f) : f[n].path \in Paths
      BY StateIs, <2>7
    <3>3. ~(t.rec[p].st["hash"] = "repairing")
      BY <1>2, <2>7 DEF Refused, Status, Slot
    <3>4. ~(t.rec[p].st["hash"] = "known" /\ t.rec[p].hash)
      BY <1>2, <2>7 DEF Refused, Status, Slot
    <3>5. Len(v) = Len(q) + 1 /\ v[Len(q) + 1] = p /\ Len(q) \in Nat /\ \A i \in 1..Len(q) : v[i] = q[i] /\ q[i] # p
      BY <2>1, <2>3, <2>5, <2>7
    <3>6. u.flight["hash"] = f
      BY <2>1
    <3>7. \A x \in Paths \ {p} : u.rec[x].hash = t.rec[x].hash /\ u.rec[x].st["hash"] = t.rec[x].st["hash"]
      BY <2>1
    <3> HIDE DEF q, f, v
    <3>8. \A n \in 1..Len(f) : f[n].path # p
      BY <3>1, <3>3, <3>4
    <3>9. \A i, j \in 1..Len(v) : v[i] = v[j] => i = j
      <4>1. \A i \in 1..Len(v) : i \in 1..Len(q) \/ i = Len(q) + 1
        BY <3>5
      <4> QED BY <3>1, <3>5, <4>1
    <3>10. ASSUME NEW n \in 1..Len(f) PROVE \A i \in 1..Len(v) : v[i] # f[n].path
      <4>1. \A i \in 1..Len(v) : i \in 1..Len(q) \/ i = Len(q) + 1
        BY <3>5
      <4> QED BY <3>1, <3>5, <3>8, <4>1
    <3>11. ASSUME NEW n \in 1..Len(f)
           PROVE  \/ u.rec[f[n].path].st["hash"] = "repairing"
                  \/ u.rec[f[n].path].st["hash"] = "known" /\ u.rec[f[n].path].hash
      BY <3>1, <3>2, <3>7, <3>8
    <3> QED BY <3>1, <3>6, <3>9, <3>10, <3>11 DEF Single, Apart, Guarded, v
  <2>8. k = "thumb" => \A n \in 1..Len(u.flight[k]) : u.flight[k][n].slot \in Sizes
    BY <2>1 DEF Fit, Sound
  <2>9. \A j \in Kinds \ {k} : Same(t, u, j)
    BY <2>1 DEF Same, Kinds
  <2>10. ASSUME k = "thumb" \/ t.rec[p].st[k] = "missing"
         PROVE  Calm(t, u)
    <3> SUFFICES ASSUME NEW x \in Paths, NEW s \in {"hash", "probe"}, Settled(t, x, s)
                 PROVE  Settled(u, x, s)
      BY DEF Calm
    <3>1. CASE s # k
      BY <3>1, <2>1 DEF Settled, Kinds
    <3>2. CASE s = k
      <4>1. x # p
        BY <2>10, <3>2 DEF Settled
      <4>2. \A i \in 1..Len(u.queue[s]) : u.queue[s][i] # x
        <5>1. \A i \in 1..Len(u.queue[s]) : i \in 1..l \/ i = l + 1
          BY <2>1, <2>3, <3>2
        <5> QED BY <2>1, <3>2, <4>1, <5>1 DEF Settled
      <4> QED BY <2>1, <4>1, <4>2 DEF Settled
    <3> QED BY <3>1, <3>2
  <2> DEFINE v == Take(u, k, pl)
  <2>11. Sound(u, k)
    BY <2>6, <2>7, <2>8 DEF Sound
  <2>12. /\ v \in PageState /\ v.item = u.item
         /\ \A j \in Kinds \ {k} : Same(u, v, j)
         /\ Fit(v, k)
         /\ Calm(u, v)
    BY <2>1, <2>4, <2>11, TakeIs
  <2> HIDE DEF v
  <2>13. \A j \in Kinds \ {k} : Same(t, v, j)
    BY <2>9, <2>12, SameTrans
  <2>14. (k = "thumb" \/ t.rec[p].st[k] = "missing") => Calm(t, v)
    BY <2>10, <2>12, CalmTrans
  <2> QED BY <1>2, <2>1, <2>2, <2>12, <2>13, <2>14 DEF v
<1> QED BY <1>1, <1>2

-----------------------------------------------------------------------------
(* Several repairs *)

AllFit(t) == \A k \in Kinds : Fit(t, k)

(* Queues and requests stay, and no status becomes busier or loses what    *)
(* keeps a request from being made twice.                                  *)
Eased(t, u) ==
    /\ u.queue = t.queue
    /\ \A k \in Kinds :
         /\ Len(u.flight[k]) = Len(t.flight[k])
         /\ \A n \in 1..Len(t.flight[k]) : /\ u.flight[k][n].path = t.flight[k][n].path
                                          /\ u.flight[k][n].slot = t.flight[k][n].slot
    /\ \A p \in Paths :
         /\ \A s \in {"hash", "probe"}, st \in {"queued", "repairing"} :
              u.rec[p].st[s] = st => t.rec[p].st[s] = st
         /\ Guarded(t, p) => Guarded(u, p)

LEMMA EasedFits ==
    ASSUME NEW t \in PageState, NEW u \in PageState, Eased(t, u), AllFit(t)
    PROVE  AllFit(u)
<1> SUFFICES ASSUME NEW k \in Kinds PROVE Fit(u, k)
  BY DEF AllFit
<1>1. Fit(t, k)
  BY DEF AllFit
<1>2. /\ u.queue[k] = t.queue[k] /\ Len(u.flight[k]) = Len(t.flight[k])
      /\ \A n \in 1..Len(t.flight[k]) : /\ u.flight[k][n].path = t.flight[k][n].path
                                       /\ u.flight[k][n].slot = t.flight[k][n].slot
  BY DEF Eased
<1>3. Bounded(u, k)
  BY <1>1, <1>2 DEF Fit, Bounded
<1>4. ASSUME k \in {"hash", "probe"} PROVE Truthful(u, k)
  <2>1. Truthful(t, k)
    BY <1>1, <1>4 DEF Fit, Sound
  <2>2. ASSUME NEW p \in Paths, NEW st \in {"queued", "repairing"}, u.rec[p].st[k] = st
        PROVE  t.rec[p].st[k] = st
    BY <1>4, <2>2 DEF Eased
  <2>3. ASSUME NEW p \in Paths, u.rec[p].st[k] = "queued"
        PROVE  \E i \in 1..Len(u.queue[k]) : u.queue[k][i] = p
    BY <1>2, <2>1, <2>2, <2>3 DEF Truthful
  <2>4. ASSUME NEW p \in Paths, u.rec[p].st[k] = "repairing"
        PROVE  \E n \in 1..Len(u.flight[k]) : u.flight[k][n].path = p
    <3>1. t.rec[p].st[k] = "repairing"
      BY <2>2, <2>4
    <3>2. PICK n \in 1..Len(t.flight[k]) : t.flight[k][n].path = p
      BY <2>1, <3>1 DEF Truthful
    <3> QED BY <1>2, <3>2
  <2> QED BY <2>3, <2>4 DEF Truthful
<1>5. ASSUME k = "hash" PROVE Single(u)
  <2>1. Single(t)
    BY <1>1, <1>5 DEF Fit, Sound
  <2>2. Apart(u)
    <3> DEFINE q == t.queue["hash"]
               f == t.flight["hash"]
               g == u.flight["hash"]
    <3>1. /\ \A i, j \in 1..Len(q) : q[i] = q[j] => i = j
          /\ \A n, m \in 1..Len(f) : f[n].path = f[m].path => n = m
          /\ \A n \in 1..Len(f), i \in 1..Len(q) : q[i] # f[n].path
      BY <2>1 DEF Single, Apart
    <3>2. /\ u.queue["hash"] = q /\ Len(g) = Len(f)
          /\ \A n \in 1..Len(f) : g[n].path = f[n].path
      BY <1>2, <1>5
    <3> HIDE DEF q, f
    <3>3. \A n, m \in 1..Len(g) : g[n].path = g[m].path => n = m
      BY <3>1, <3>2
    <3> QED BY <3>1, <3>2, <3>3 DEF Apart
  <2>3. ASSUME NEW n \in 1..Len(u.flight["hash"]) PROVE Guarded(u, u.flight["hash"][n].path)
    <3>1. /\ n \in 1..Len(t.flight["hash"])
          /\ u.flight["hash"][n].path = t.flight["hash"][n].path
          /\ t.flight["hash"][n].path \in Paths
      BY <1>2, <1>5, StateIs
    <3>2. Guarded(t, t.flight["hash"][n].path)
      BY <2>1, <3>1 DEF Single
    <3> QED BY <3>1, <3>2 DEF Eased
  <2> QED BY <2>2, <2>3 DEF Single
<1>6. k = "thumb" => \A n \in 1..Len(u.flight[k]) : u.flight[k][n].slot \in Sizes
  BY <1>1, <1>2 DEF Fit, Sound
<1> QED BY <1>3, <1>4, <1>5, <1>6 DEF Fit, Sound

LEMMA EnqueuedFits ==
    ASSUME NEW t \in PageState, NEW want \in BOOLEAN, NEW k \in Kinds, NEW p \in Paths, NEW pl,
           size \in Sizes, AllFit(t)
    PROVE  LET u == Enqueued(t, want, k, p, pl)
           IN  /\ u \in PageState /\ AllFit(u)
               /\ u.item = t.item
               /\ \A j \in Kinds \ {k} : Same(t, u, j)
               /\ ~want => u = t
               /\ (k = "thumb" \/ ~want \/ t.rec[p].st[k] = "missing") => Calm(t, u)
<1> DEFINE u == Enqueued(t, want, k, p, pl)
<1>1. /\ u \in PageState /\ u.item = t.item
      /\ \A j \in Kinds \ {k} : Same(t, u, j)
      /\ Fit(u, k)
      /\ (k = "thumb" \/ ~want \/ t.rec[p].st[k] = "missing") => Calm(t, u)
  BY EnqueuedIs DEF AllFit
<1> HIDE DEF u
<1>2. \A j \in Kinds \ {k} : Fit(u, j)
  BY <1>1, SameFit DEF AllFit
<1>3. AllFit(u)
  BY <1>1, <1>2 DEF AllFit
<1>4. ~want => u = t
  BY DEF u, Enqueued
<1> QED BY <1>1, <1>3, <1>4 DEF u

LEMMA WantMissingIs ==
    ASSUME NEW t \in PageState, NEW ks, NEW p \in Paths, NEW pl, size \in Sizes, AllFit(t)
    PROVE  LET u == WantMissing(t, ks, p, pl)
           IN  /\ u \in PageState /\ AllFit(u) /\ u.item = t.item /\ Calm(t, u)
               /\ "hash" \notin ks => Same(t, u, "hash")
<1> DEFINE Wanted(x, k) == k \in ks /\ Status(x, k, p) = "missing"
           h == Enqueued(t, Wanted(t, "hash"), "hash", p, pl)
           m == Enqueued(h, Wanted(h, "probe"), "probe", p, pl)
           u == Enqueued(m, Wanted(m, "thumb"), "thumb", p, pl)
<1>1. "hash" \in Kinds /\ "probe" \in Kinds /\ "thumb" \in Kinds
  BY DEF Kinds
<1>2. \A x, k : /\ Wanted(x, k) \in BOOLEAN
                /\ (k = "thumb" \/ ~Wanted(x, k) \/ x.rec[p].st[k] = "missing")
  BY DEF Status, Slot
<1>0. "hash" \notin ks => ~Wanted(t, "hash")
  OBVIOUS
<1> HIDE DEF Wanted
<1>3. /\ h \in PageState /\ AllFit(h) /\ h.item = t.item /\ Calm(t, h)
      /\ "hash" \notin ks => h = t
  BY <1>0, <1>1, <1>2, EnqueuedFits
<1> HIDE DEF h
<1>4. m \in PageState /\ AllFit(m) /\ m.item = h.item /\ Calm(h, m) /\ Same(h, m, "hash")
  BY <1>1, <1>2, <1>3, EnqueuedFits
<1> HIDE DEF m
<1>5. u \in PageState /\ AllFit(u) /\ u.item = m.item /\ Calm(m, u) /\ Same(m, u, "hash")
  BY <1>1, <1>2, <1>4, EnqueuedFits
<1> HIDE DEF u
<1>6. Calm(t, u)
  BY <1>3, <1>4, <1>5, CalmTrans
<1>7. "hash" \notin ks => Same(t, u, "hash")
  BY <1>3, <1>4, <1>5, SameSelf, SameTrans
<1>8. WantMissing(t, ks, p, pl) = u
  BY DEF WantMissing, u, m, h, Wanted
<1> QED BY <1>3, <1>4, <1>5, <1>6, <1>7, <1>8

LEMMA ForgivenIs ==
    ASSUME NEW t \in PageState, NEW p \in Paths, NEW pl, AllFit(t)
    PROVE  Forgiven(t, p, pl) \in PageState /\ AllFit(Forgiven(t, p, pl))
<1> DEFINE st == [s \in Slots |-> IF s \in {"hash", "probe", size} /\ t.rec[p].st[s] = "failed"
                                  THEN "missing" ELSE t.rec[p].st[s]]
           r == [t.rec[p] EXCEPT !.st = st]
           i == [t.item[p] EXCEPT !.err = t.item[p].err /\ p \notin pl]
           u == [t EXCEPT !.rec[p] = r, !.item[p] = i]
<1>1. t.rec[p] \in Records /\ t.item[p] \in Items /\ t.rec[p].st \in [Slots -> Statuses]
  BY StateIs
<1>2. st \in [Slots -> Statuses]
  BY <1>1 DEF Statuses
<1>3. \A s \in {"hash", "probe"} :
          st[s] = IF t.rec[p].st[s] = "failed" THEN "missing" ELSE t.rec[p].st[s]
  BY DEF Slots
<1>4. Forgiven(t, p, pl) = u
  BY <1>1 DEF Forgiven, PageState, Records, Items
<1> HIDE DEF st
<1>5. r \in Records /\ r.st = st /\ r.hash = t.rec[p].hash
  BY <1>1, <1>2 DEF Records
<1>6. i \in Items
  BY <1>1 DEF Items
<1> HIDE DEF r, i
<1>7. /\ u \in PageState /\ u.queue = t.queue /\ u.flight = t.flight
      /\ u.rec = [t.rec EXCEPT ![p] = r]
  BY <1>5, <1>6 DEF PageState
<1> HIDE DEF u
<1>8. \A x \in Paths : /\ u.rec[x].hash = t.rec[x].hash
                       /\ \A s \in {"hash", "probe"} :
                            \/ u.rec[x].st[s] = t.rec[x].st[s]
                            \/ u.rec[x].st[s] = "missing" /\ t.rec[x].st[s] = "failed"
  BY <1>3, <1>5, <1>7, StateIs
<1>9. Eased(t, u)
  BY <1>7, <1>8 DEF Eased, Guarded
<1> QED BY <1>4, <1>7, <1>9, EasedFits

LEMMA RepairItemIs ==
    ASSUME NEW t \in PageState, NEW p \in Paths, NEW force \in BOOLEAN, NEW pl,
           size \in Sizes, AllFit(t)
    PROVE  RepairItem(t, p, force, pl) \in PageState /\ AllFit(RepairItem(t, p, force, pl))
<1> DEFINE f == IF force THEN Forgiven(t, p, pl) ELSE t
           h == Enqueued(f, ~f.rec[p].hash, "hash", p, pl)
           m == Enqueued(h, Status(h, "probe", p) # "known", "probe", p, pl)
           u == Enqueued(m, Status(m, "thumb", p) # "known", "thumb", p, pl)
<1>1. "hash" \in Kinds /\ "probe" \in Kinds /\ "thumb" \in Kinds
  BY DEF Kinds
<1>2. f \in PageState /\ AllFit(f)
  BY ForgivenIs
<1> HIDE DEF f
<1>3. h \in PageState /\ AllFit(h)
  BY <1>1, <1>2, EnqueuedFits
<1> HIDE DEF h
<1>4. m \in PageState /\ AllFit(m)
  BY <1>1, <1>3, EnqueuedFits
<1> HIDE DEF m
<1>5. u \in PageState /\ AllFit(u)
  BY <1>1, <1>4, EnqueuedFits
<1> HIDE DEF u
<1>6. RepairItem(t, p, force, pl) = u
  BY DEF RepairItem, u, m, h, f
<1> QED BY <1>5, <1>6

-----------------------------------------------------------------------------
(* The whole pool                                                          *)

LEMMA Induct ==
    ASSUME NEW T \in SUBSET Nat, 0 \in T, \A n \in T : n + 1 \in T
    PROVE  T = Nat
<1> SUFFICES ASSUME Nat \ T # {} PROVE FALSE
  OBVIOUS
<1> DEFINE R == OpToRel(<, Nat)
<1>1. IsWellFoundedOn(R, Nat)
  BY NatLessThanWellFounded
<1> HIDE DEF R
<1>2. PICK x \in Nat \ T : \A y \in Nat \ T : ~(<<y, x>> \in R)
  BY <1>1, WFMin, Zenon
<1>3. \A y \in Nat \ T : <<y, x>> \in R <=> y < x
  BY DEF R, OpToRel
<1>4. \A y \in Nat \ T : ~(y < x)
  BY <1>2, <1>3, Zenon
<1>5. x - 1 \in Nat /\ x - 1 \notin Nat \ T
  BY <1>2, <1>4
<1> QED BY <1>2, <1>5

(* One turn of the walk over the pool, and the state after the items of s. *)
Turn(t, scan, p, pl) ==
    IF scan THEN WantMissing(t, Kinds, p, pl) ELSE RepairItem(t, p, FALSE, pl)

Chosen(s) == CHOOSE x \in s : TRUE

Turns(g, s, t, scan, pl) ==
    IF s = {} THEN t ELSE Turn(g[s \ {Chosen(s)}], scan, Chosen(s), pl)

LEMMA Smaller ==
    ASSUME NEW pl \in SUBSET Paths, NEW s \in SUBSET pl
    PROVE  /\ Cardinality(s) \in Nat
           /\ Cardinality(s) <= 0 => s = {}
           /\ s # {} => /\ Chosen(s) \in s
                        /\ s \ {Chosen(s)} \in SUBSET pl
                        /\ Cardinality(s \ {Chosen(s)}) = Cardinality(s) - 1
<1>1. IsFiniteSet(s)
  BY FS_Subset
<1>2. s # {} => Chosen(s) \in s
  BY DEF Chosen
<1>3. Cardinality(s) \in Nat /\ (Cardinality(s) = 0 => s = {})
  BY <1>1, FS_CardinalityType, FS_EmptySet
<1>4. s # {} => Cardinality(s \ {Chosen(s)}) = Cardinality(s) - 1
  <2>1. \A x \in s : Cardinality(s \ {x}) = Cardinality(s) - 1
    BY <1>1, FS_RemoveElement
  <2> QED BY <1>2, <2>1
<1>5. \A x : s \ {x} \in SUBSET pl
  OBVIOUS
<1>6. Cardinality(s) <= 0 => s = {}
  BY <1>3
<1> QED BY <1>2, <1>3, <1>4, <1>5, <1>6

(* The walk is well defined. *)
LEMMA WalkExists ==
    ASSUME NEW t, NEW scan, NEW pl \in SUBSET Paths
    PROVE  \E g : g = [s \in SUBSET pl |-> Turns(g, s, t, scan, pl)]
<1> DEFINE Agrees(g, n) == \A s \in SUBSET pl : Cardinality(s) <= n => g[s] = Turns(g, s, t, scan, pl)
           T == {n \in Nat : \E g : g = [s \in SUBSET pl |-> g[s]] /\ Agrees(g, n)}
<1>1. 0 \in T
  <2> DEFINE g == [s \in SUBSET pl |-> t]
  <2>1. ASSUME NEW s \in SUBSET pl, Cardinality(s) <= 0 PROVE g[s] = Turns(g, s, t, scan, pl)
    <3>1. s = {}
      BY <2>1, Smaller
    <3> QED BY <3>1 DEF Turns
  <2>2. g = [s \in SUBSET pl |-> g[s]]
    OBVIOUS
  <2>3. Agrees(g, 0)
    BY <2>1
  <2> HIDE DEF g, Agrees
  <2> QED BY <2>2, <2>3
<1>2. ASSUME NEW n \in T PROVE n + 1 \in T
  <2>1. PICK g : g = [s \in SUBSET pl |-> g[s]] /\ Agrees(g, n)
    OBVIOUS
  <2> DEFINE h == [s \in SUBSET pl |-> Turns(g, s, t, scan, pl)]
  <2>2. ASSUME NEW s \in SUBSET pl, Cardinality(s) <= n + 1 PROVE h[s] = Turns(h, s, t, scan, pl)
    <3>1. CASE s = {}
      BY <3>1 DEF Turns
    <3>2. CASE s # {}
      <4> DEFINE r == s \ {Chosen(s)}
      <4>1. r \in SUBSET pl /\ Cardinality(r) <= n
        BY <2>2, <3>2, Smaller
      <4>2. g[r] = h[r]
        BY <2>1, <4>1
      <4> QED BY <3>2, <4>2 DEF Turns
    <3> QED BY <3>1, <3>2
  <2>3. Agrees(h, n + 1)
    BY <2>2
  <2>4. h = [s \in SUBSET pl |-> h[s]]
    OBVIOUS
  <2> HIDE DEF h, Agrees
  <2>5. \E f : f = [s \in SUBSET pl |-> f[s]] /\ Agrees(f, n + 1)
    BY <2>3, <2>4, Zenon
  <2>6. n + 1 \in Nat
    OBVIOUS
  <2> QED BY <2>5, <2>6, Zenon
<1> HIDE DEF Agrees
<1>3. T = Nat
  <2>1. T \in SUBSET Nat
    OBVIOUS
  <2> HIDE DEF T
  <2> QED BY <1>1, <1>2, <2>1, Induct
<1>4. Cardinality(pl) \in Nat /\ \A s \in SUBSET pl : Cardinality(s) <= Cardinality(pl)
  BY FS_Subset, FS_CardinalityType
<1>5. PICK g : g = [s \in SUBSET pl |-> g[s]] /\ Agrees(g, Cardinality(pl))
  BY <1>3, <1>4
<1>6. \A s \in SUBSET pl : g[s] = Turns(g, s, t, scan, pl)
  BY <1>4, <1>5 DEF Agrees
<1>7. g = [s \in SUBSET pl |-> Turns(g, s, t, scan, pl)]
  BY <1>5, <1>6
<1> QED BY <1>7

(* What every turn keeps, the walk keeps. *)
LEMMA RepairEachIs ==
    ASSUME NEW t \in PageState, NEW scan \in BOOLEAN, NEW pl \in SUBSET Paths,
           size \in Sizes, AllFit(t)
    PROVE  LET u == RepairEach(t, scan, pl)
           IN  u \in PageState /\ AllFit(u) /\ (scan => Calm(t, u))
<1> DEFINE g == CHOOSE g : g = [s \in SUBSET pl |-> Turns(g, s, t, scan, pl)]
<1>1. g = [s \in SUBSET pl |-> Turns(g, s, t, scan, pl)]
  BY WalkExists
<1>2. RepairEach(t, scan, pl) = g[pl]
  BY DEF RepairEach, FoldSet, MapThenFoldSet, Turns, Turn, Chosen
<1> HIDE DEF g
<1> DEFINE Good(u) == u \in PageState /\ AllFit(u) /\ (scan => Calm(t, u))
           T == {n \in Nat : \A s \in SUBSET pl : Cardinality(s) <= n => Good(g[s])}
<1>3. ASSUME NEW u, NEW p \in Paths, Good(u) PROVE Good(Turn(u, scan, p, pl))
  <2>1. CASE scan
    <3>1. /\ WantMissing(u, Kinds, p, pl) \in PageState /\ AllFit(WantMissing(u, Kinds, p, pl))
          /\ Calm(u, WantMissing(u, Kinds, p, pl))
      BY <1>3, WantMissingIs
    <3> QED BY <1>3, <2>1, <3>1, CalmTrans DEF Turn
  <2>2. CASE ~scan
    BY <1>3, <2>2, RepairItemIs DEF Turn
  <2> QED BY <2>1, <2>2
<1>4. Good(t)
  BY CalmSelf
<1> HIDE DEF Good
<1>5. 0 \in T
  <2>1. ASSUME NEW s \in SUBSET pl, Cardinality(s) <= 0 PROVE Good(g[s])
    <3>1. s = {}
      BY <2>1, Smaller
    <3>2. g[s] = t
      BY <1>1, <3>1 DEF Turns
    <3> QED BY <1>4, <3>2
  <2> QED BY <2>1
<1>6. ASSUME NEW n \in T PROVE n + 1 \in T
  <2>1. ASSUME NEW s \in SUBSET pl, Cardinality(s) <= n + 1 PROVE Good(g[s])
    <3>1. CASE s = {}
      BY <1>1, <1>4, <3>1 DEF Turns
    <3>2. CASE s # {}
      <4> DEFINE r == s \ {Chosen(s)}
      <4>1. r \in SUBSET pl /\ Cardinality(r) <= n /\ Chosen(s) \in Paths
        BY <2>1, <3>2, Smaller
      <4>2. Good(g[r])
        BY <4>1
      <4>3. g[s] = Turn(g[r], scan, Chosen(s), pl)
        BY <1>1, <3>2 DEF Turns
      <4> QED BY <1>3, <4>1, <4>2, <4>3
    <3> QED BY <3>1, <3>2
  <2> QED BY <2>1
<1>7. T = Nat
  <2>1. T \in SUBSET Nat
    OBVIOUS
  <2> HIDE DEF T
  <2> QED BY <1>5, <1>6, <2>1, Induct
<1>8. Cardinality(pl) \in Nat /\ pl \in SUBSET pl
  BY Smaller
<1>9. Good(g[pl])
  BY <1>7, <1>8
<1> QED BY <1>2, <1>9 DEF Good

-----------------------------------------------------------------------------
(* Painting: every record learns what its item says                        *)

LEMMA PutIs ==
    ASSUME NEW i \in Items, NEW r \in Records
    PROVE  /\ Put(i, r) \in Records
           /\ \A s \in {"hash", "probe"} :
                /\ Put(i, r).st[s] \in {"known", "missing", "failed", r.st[s]}
                /\ r.st[s] = "failed" => Put(i, r).st[s] \in {"known", "failed"}
           /\ r.st["hash"] = "repairing" \/ (r.st["hash"] = "known" /\ r.hash) =>
                 \/ Put(i, r).st["hash"] = "repairing"
                 \/ Put(i, r).st["hash"] = "known" /\ Put(i, r).hash
<1> DEFINE st == [s \in Slots |-> IF s = "hash" THEN HashPut(i, r)
                                  ELSE IF s = "probe" THEN MetaPut(i, r)
                                  ELSE ThumbPut(i, r.st[s])]
<1>1. /\ i.hash \in BOOLEAN /\ i.meta \in BOOLEAN /\ r.hash \in BOOLEAN /\ r.meta \in BOOLEAN
      /\ r.st \in [Slots -> Statuses]
  BY DEF Items, Records
<1>2. "hash" \in Slots /\ "probe" \in Slots
  BY DEF Slots
<1>3. /\ HashPut(i, r) \in Statuses /\ MetaPut(i, r) \in Statuses
      /\ \A s \in Slots : ThumbPut(i, r.st[s]) \in Statuses
  BY <1>1, <1>2 DEF HashPut, MetaPut, ThumbPut, Statuses
<1>4. st \in [Slots -> Statuses] /\ st["hash"] = HashPut(i, r) /\ st["probe"] = MetaPut(i, r)
  BY <1>2, <1>3
<1> HIDE DEF st
<1>5. Put(i, r) = [st |-> st, hash |-> r.hash \/ i.hash, meta |-> r.meta \/ i.meta]
  BY DEF Put, st
<1>6. Put(i, r) \in Records
  BY <1>1, <1>4, <1>5 DEF Records
<1>7. /\ Put(i, r).st["hash"] = HashPut(i, r) /\ Put(i, r).st["probe"] = MetaPut(i, r)
      /\ Put(i, r).hash = (r.hash \/ i.hash)
  BY <1>4, <1>5
<1> QED BY <1>1, <1>6, <1>7 DEF HashPut, MetaPut

LEMMA PutAllIs ==
    ASSUME NEW t \in PageState, NEW ps, AllFit(t)
    PROVE  LET u == PutAll(t, ps)
           IN  /\ u \in PageState /\ AllFit(u)
               /\ u.item = t.item /\ u.queue = t.queue /\ u.flight = t.flight
               /\ \A p \in Paths, s \in {"hash", "probe"} :
                    t.rec[p].st[s] = "failed" => u.rec[p].st[s] \in {"known", "failed"}
<1> DEFINE rs == [p \in Paths |-> IF p \in ps THEN Put(t.item[p], t.rec[p]) ELSE t.rec[p]]
           u == [t EXCEPT !.rec = rs]
<1>1. PutAll(t, ps) = u
  BY DEF PutAll, PageState
<1>2. \A p \in Paths : t.item[p] \in Items /\ t.rec[p] \in Records
  BY StateIs
<1>3. rs \in [Paths -> Records]
  BY <1>2, PutIs
<1>4. \A p \in Paths : rs[p] = t.rec[p] \/ rs[p] = Put(t.item[p], t.rec[p])
  OBVIOUS
<1> HIDE DEF rs
<1>5. u \in PageState /\ u.item = t.item /\ u.queue = t.queue /\ u.flight = t.flight /\ u.rec = rs
  BY <1>3 DEF PageState
<1> HIDE DEF u
<1>6. ASSUME NEW p \in Paths
      PROVE  /\ \A s \in {"hash", "probe"} :
                  /\ u.rec[p].st[s] \in {"known", "missing", "failed", t.rec[p].st[s]}
                  /\ t.rec[p].st[s] = "failed" => u.rec[p].st[s] \in {"known", "failed"}
             /\ Guarded(t, p) => Guarded(u, p)
  <2>1. CASE rs[p] = t.rec[p]
    BY <1>5, <2>1 DEF Guarded
  <2>2. CASE rs[p] = Put(t.item[p], t.rec[p])
    BY <1>2, <1>5, <2>2, PutIs DEF Guarded
  <2> QED BY <1>4, <2>1, <2>2
<1>7. Eased(t, u)
  BY <1>5, <1>6 DEF Eased
<1> QED BY <1>1, <1>5, <1>6, <1>7, EasedFits

-----------------------------------------------------------------------------
(* Answers                                                                 *)

LEMMA RemoveAtIs ==
    ASSUME NEW S, NEW s \in Seq(S), NEW k \in 1..Len(s)
    PROVE  /\ RemoveAt(s, k) \in Seq(S)
           /\ Len(RemoveAt(s, k)) = Len(s) - 1
           /\ \A i \in 1..(Len(s) - 1) :
                RemoveAt(s, k)[i] = IF i < k THEN s[i] ELSE s[i + 1]
<1> DEFINE a == SubSeq(s, 1, k - 1)
           b == SubSeq(s, k + 1, Len(s))
<1>0. Len(s) \in Nat /\ k \in Nat /\ k >= 1 /\ k <= Len(s)
  BY LenProperties
<1>1. a \in Seq(S) /\ Len(a) = k - 1 /\ \A i \in 1..(k - 1) : a[i] = s[i]
  <2>1. \A i \in 1..(k - 1) : s[i] \in S
    BY <1>0, ElementOfSeq
  <2> QED BY <1>0, <2>1, SubSeqProperties
<1>2. b \in Seq(S) /\ Len(b) = Len(s) - k /\ \A i \in 1..(Len(s) - k) : b[i] = s[k + i]
  <2>1. \A i \in (k + 1)..Len(s) : s[i] \in S
    BY <1>0, ElementOfSeq
  <2> QED BY <1>0, <2>1, SubSeqProperties
<1>3. RemoveAt(s, k) = a \o b
  BY DEF RemoveAt
<1> HIDE DEF a, b
<1>4. /\ a \o b \in Seq(S) /\ Len(a \o b) = Len(s) - 1
      /\ \A i \in 1..(Len(s) - 1) : (a \o b)[i] = IF i <= k - 1 THEN a[i] ELSE b[i - (k - 1)]
  <2>1. Len(a) + Len(b) = Len(s) - 1
    BY <1>0, <1>1, <1>2
  <2>2. /\ a \o b \in Seq(S) /\ Len(a \o b) = Len(a) + Len(b)
        /\ \A i \in 1..(Len(a) + Len(b)) :
             (a \o b)[i] = IF i <= Len(a) THEN a[i] ELSE b[i - Len(a)]
    <3>1. a \in Seq(S) /\ b \in Seq(S)
      BY <1>1, <1>2
    <3> QED BY <3>1, ConcatProperties
  <2>3. Len(a) = k - 1
    BY <1>1
  <2> QED BY <2>1, <2>2, <2>3
<1>5. ASSUME NEW i \in 1..(Len(s) - 1)
      PROVE  (a \o b)[i] = IF i < k THEN s[i] ELSE s[i + 1]
  BY <1>0, <1>1, <1>2, <1>4
<1> QED BY <1>3, <1>4, <1>5

LEMMA CalmWhen ==
    ASSUME NEW t, NEW u, u.queue = t.queue,
           \A p \in Paths, s \in {"hash", "probe"} :
              u.rec[p].st[s] = t.rec[p].st[s] \/ u.rec[p].st[s] \in {"known", "failed"}
    PROVE  Calm(t, u)
BY DEF Calm, Settled

(* Request n of kind k has been answered and may be taken off. *)
Ready(t, k, n) ==
    /\ n \in 1..Len(t.flight[k])
    /\ \A j \in Kinds \ {k} : Fit(t, j)
    /\ Bounded(t, k)
    /\ k \in {"hash", "probe"} => /\ Truthful(t, k)
                                /\ t.rec[t.flight[k][n].path].st[k] # "repairing"
    /\ k = "hash" => /\ Apart(t)
                     /\ \A m \in 1..Len(t.flight[k]) : m # n => Guarded(t, t.flight[k][m].path)
    /\ k = "thumb" => \A m \in 1..Len(t.flight[k]) : t.flight[k][m].slot \in Sizes

LEMMA ReadyWhen ==
    ASSUME NEW t, NEW k \in Kinds, NEW n \in 1..Len(t.flight[k]), AllFit(t),
           k \in {"hash", "probe"} => t.rec[t.flight[k][n].path].st[k] # "repairing"
    PROVE  Ready(t, k, n)
<1>1. \A j \in Kinds : Bounded(t, j) /\ Sound(t, j)
  BY DEF AllFit, Fit
<1>2. k = "hash" => Apart(t) /\ \A m \in 1..Len(t.flight[k]) : Guarded(t, t.flight[k][m].path)
  BY <1>1 DEF Sound, Single
<1> QED BY <1>1, <1>2 DEF AllFit, Ready, Sound

LEMMA ReleasedIs ==
    ASSUME NEW t \in PageState, NEW k \in Kinds, NEW n, NEW pl, size \in Sizes, Ready(t, k, n)
    PROVE  LET u == Released(t, k, n, pl)
           IN  u \in PageState /\ AllFit(u) /\ Calm(t, u)
<1> DEFINE f == t.flight[k]
           g == RemoveAt(f, n)
           w == [t EXCEPT !.flight[k] = g]
           u == Take(w, k, pl)
<1>1. /\ f \in Seq(Requests) /\ Len(f) \in Nat /\ n \in 1..Len(f)
      /\ Len(t.queue[k]) \in Nat /\ Cap[k] \in Nat
  BY StateIs DEF Ready
<1>2. /\ g \in Seq(Requests) /\ Len(g) = Len(f) - 1
      /\ \A i \in 1..(Len(f) - 1) : g[i] = IF i < n THEN f[i] ELSE f[i + 1]
  BY <1>1, RemoveAtIs
<1>3. Released(t, k, n, pl) = u
  BY DEF Released
<1> HIDE DEF g
<1>4. /\ w \in PageState /\ w.item = t.item /\ w.queue = t.queue /\ w.rec = t.rec
      /\ w.flight = [t.flight EXCEPT ![k] = g]
  BY <1>2 DEF PageState
<1>5. w.flight[k] = g /\ \A j \in Kinds \ {k} : w.flight[j] = t.flight[j]
  BY <1>4, StateIs
<1> HIDE DEF w
<1>6. \A j \in Kinds \ {k} : Same(t, w, j)
  BY <1>4, <1>5 DEF Same
<1>7. Loose(w, k)
  BY <1>1, <1>2, <1>4, <1>5 DEF Ready, Bounded, Loose
(* what is still under way, and where it was *)
<1>8. \A i \in 1..Len(g) : \E m \in 1..Len(f) : m # n /\ g[i] = f[m] /\ m = IF i < n THEN i ELSE i + 1
  BY <1>1, <1>2
<1>9. \A m \in 1..Len(f) : m # n => \E i \in 1..Len(g) : g[i] = f[m]
  <2> SUFFICES ASSUME NEW m \in 1..Len(f), m # n PROVE \E i \in 1..Len(g) : g[i] = f[m]
    OBVIOUS
  <2>1. CASE m < n
    <3>1. m \in 1..Len(g) /\ g[m] = f[m]
      BY <1>1, <1>2, <2>1
    <3> QED BY <3>1
  <2>2. CASE m > n
    <3>1. m - 1 \in 1..Len(g) /\ g[m - 1] = f[m]
      BY <1>1, <1>2, <2>2
    <3> QED BY <3>1
  <2> QED BY <1>1, <2>1, <2>2
<1>10. ASSUME k \in {"hash", "probe"} PROVE Truthful(w, k)
  <2>1. Truthful(t, k) /\ t.rec[f[n].path].st[k] # "repairing"
    BY <1>10 DEF Ready
  <2>2. ASSUME NEW p \in Paths, w.rec[p].st[k] = "repairing"
        PROVE  \E i \in 1..Len(w.flight[k]) : w.flight[k][i].path = p
    <3>1. PICK m \in 1..Len(f) : f[m].path = p
      BY <1>4, <2>1, <2>2 DEF Truthful
    <3>2. m # n
      BY <1>4, <2>1, <2>2, <3>1
    <3>3. PICK i \in 1..Len(g) : g[i] = f[m]
      BY <1>9, <3>1, <3>2
    <3> QED BY <1>5, <3>1, <3>3
  <2> QED BY <1>4, <2>1, <2>2 DEF Truthful
<1>11. ASSUME k = "hash" PROVE Single(w)
  <2>1. Apart(t) /\ \A m \in 1..Len(f) : m # n => Guarded(t, f[m].path)
    BY <1>11 DEF Ready
  <2> DEFINE q == t.queue["hash"]
  <2>2. /\ \A i, j \in 1..Len(q) : q[i] = q[j] => i = j
        /\ \A i, m \in 1..Len(f) : f[i].path = f[m].path => i = m
        /\ \A m \in 1..Len(f), i \in 1..Len(q) : q[i] # f[m].path
    BY <1>11, <2>1 DEF Apart
  <2>3. w.queue["hash"] = q /\ w.flight["hash"] = g
    BY <1>4, <1>5, <1>11
  <2> HIDE DEF q, f
  <2>4. \A i, j \in 1..Len(g) : g[i].path = g[j].path => i = j
    <3> SUFFICES ASSUME NEW i \in 1..Len(g), NEW j \in 1..Len(g), g[i].path = g[j].path PROVE i = j
      OBVIOUS
    <3>1. PICK a \in 1..Len(f) : g[i] = f[a] /\ a = IF i < n THEN i ELSE i + 1
      BY <1>8
    <3>2. PICK b \in 1..Len(f) : g[j] = f[b] /\ b = IF j < n THEN j ELSE j + 1
      BY <1>8
    <3>3. a = b
      BY <2>2, <3>1, <3>2
    <3> QED BY <1>1, <1>2, <3>1, <3>2, <3>3
  <2>5. \A j \in 1..Len(g), i \in 1..Len(q) : q[i] # g[j].path
    BY <1>8, <2>2
  <2>6. \A j \in 1..Len(g) : Guarded(w, g[j].path)
    BY <1>4, <1>8, <2>1 DEF Guarded
  <2>7. Apart(w)
    BY <2>2, <2>3, <2>4, <2>5 DEF Apart
  <2> QED BY <2>3, <2>6, <2>7 DEF Single
<1>12. ASSUME k = "thumb" PROVE \A i \in 1..Len(w.flight[k]) : w.flight[k][i].slot \in Sizes
  BY <1>5, <1>8, <1>12 DEF Ready
<1>13. Sound(w, k)
  BY <1>10, <1>11, <1>12 DEF Sound
<1>14. /\ u \in PageState /\ Fit(u, k) /\ Calm(w, u)
       /\ \A j \in Kinds \ {k} : Same(w, u, j)
  BY <1>4, <1>7, <1>13, TakeIs
<1> HIDE DEF u
<1>15. ASSUME NEW j \in Kinds \ {k} PROVE Fit(u, j)
  <2>1. Fit(t, j) /\ Same(t, u, j)
    BY <1>6, <1>14, SameTrans DEF Ready
  <2> QED BY <2>1, SameFit
<1>16. Calm(t, u)
  <2>1. Calm(t, w)
    BY <1>4, CalmWhen
  <2> QED BY <1>14, <2>1, CalmTrans
<1> QED BY <1>3, <1>14, <1>15, <1>16 DEF AllFit

LEMMA OnItemIs ==
    ASSUME NEW t \in PageState, NEW f \in Requests, NEW i \in Items
    PROVE  LET u == OnItem(t, f, i)
           IN  u \in PageState /\ u.rec = t.rec /\ u.queue = t.queue /\ u.flight = t.flight
<1>1. f.path \in Paths
  BY DEF Requests
<1> QED BY <1>1 DEF OnItem, PageState

LEMMA HashKnownIs ==
    ASSUME NEW t \in PageState, NEW p \in Paths
    PROVE  LET u == HashKnown(t, p)
           IN  /\ u \in PageState
               /\ u.item = t.item /\ u.queue = t.queue /\ u.flight = t.flight
               /\ u.rec[p].st["hash"] = "known" /\ u.rec[p].hash
               /\ u.rec[p].st["probe"] = t.rec[p].st["probe"]
               /\ \A x \in Paths : x # p => u.rec[x] = t.rec[x]
<1> DEFINE st == [t.rec[p].st EXCEPT !["hash"] = "known"]
           r == [t.rec[p] EXCEPT !.st = st, !.hash = TRUE]
           u == [t EXCEPT !.rec[p] = r]
<1>1. t.rec \in [Paths -> Records] /\ t.rec[p] \in Records /\ t.rec[p].st \in [Slots -> Statuses]
  BY StateIs
<1>2. st \in [Slots -> Statuses] /\ st["hash"] = "known" /\ st["probe"] = t.rec[p].st["probe"]
  BY <1>1 DEF Slots, Statuses
<1>3. HashKnown(t, p) = u
  BY <1>1 DEF HashKnown, Mark, PageState, Records
<1> HIDE DEF st
<1>4. r \in Records /\ r.st = st /\ r.hash = TRUE
  BY <1>1, <1>2 DEF Records
<1> HIDE DEF r
<1>5. /\ u \in PageState /\ u.item = t.item /\ u.queue = t.queue /\ u.flight = t.flight
      /\ u.rec = [t.rec EXCEPT ![p] = r]
  BY <1>4 DEF PageState
<1> HIDE DEF u
<1> QED BY <1>1, <1>2, <1>3, <1>4, <1>5

LEMMA MetaKnownIs ==
    ASSUME NEW t \in PageState, NEW p \in Paths
    PROVE  LET u == MetaKnown(t, p)
           IN  /\ u \in PageState
               /\ u.item = t.item /\ u.queue = t.queue /\ u.flight = t.flight
               /\ u.rec[p].st["probe"] = "known"
               /\ u.rec[p].st["hash"] = t.rec[p].st["hash"] /\ u.rec[p].hash = t.rec[p].hash
               /\ \A x \in Paths : x # p => u.rec[x] = t.rec[x]
<1> DEFINE st == [t.rec[p].st EXCEPT !["probe"] = "known"]
           r == [t.rec[p] EXCEPT !.st = st, !.meta = TRUE]
           u == [t EXCEPT !.rec[p] = r]
<1>1. t.rec \in [Paths -> Records] /\ t.rec[p] \in Records /\ t.rec[p].st \in [Slots -> Statuses]
  BY StateIs
<1>2. st \in [Slots -> Statuses] /\ st["probe"] = "known" /\ st["hash"] = t.rec[p].st["hash"]
  BY <1>1 DEF Slots, Statuses
<1>3. MetaKnown(t, p) = u
  BY <1>1 DEF MetaKnown, Mark, PageState, Records
<1> HIDE DEF st
<1>4. r \in Records /\ r.st = st /\ r.hash = t.rec[p].hash
  BY <1>1, <1>2 DEF Records
<1> HIDE DEF r
<1>5. /\ u \in PageState /\ u.item = t.item /\ u.queue = t.queue /\ u.flight = t.flight
      /\ u.rec = [t.rec EXCEPT ![p] = r]
  BY <1>4 DEF PageState
<1> HIDE DEF u
<1> QED BY <1>1, <1>2, <1>3, <1>4, <1>5

LEMMA HashAnswerIs ==
    ASSUME NEW t \in PageState, NEW n \in 1..Len(t.flight["hash"]), NEW ok \in BOOLEAN, NEW pl,
           size \in Sizes, AllFit(t)
    PROVE  LET u == HashAnswer(t, t.flight["hash"][n], ok, pl)
           IN  u \in PageState /\ Ready(u, "hash", n) /\ Calm(t, u)
<1> DEFINE f == t.flight["hash"][n]
           p == f.path
           i == t.item[p]
           u == HashAnswer(t, f, ok, pl)
<1>0. "hash" \in Kinds
  BY DEF Kinds
<1>1. f \in Requests /\ p \in Paths /\ i \in Items
  BY <1>0, StateIs
<1>2. CASE ok
  <2> DEFINE j == [i EXCEPT !.hash = TRUE]
             v == HashKnown(t, p)
             w == OnItem(v, f, j)
  <2>1. j \in Items
    BY <1>1 DEF Items
  <2>2. /\ v \in PageState /\ v.queue = t.queue /\ v.flight = t.flight
        /\ v.rec[p].st["hash"] = "known" /\ v.rec[p].hash
        /\ v.rec[p].st["probe"] = t.rec[p].st["probe"]
        /\ \A x \in Paths : x # p => v.rec[x] = t.rec[x]
    BY <1>1, HashKnownIs
  <2>3. u = WantMissing(w, {"probe", "thumb"}, p, pl)
    BY <1>2 DEF HashAnswer
  <2> HIDE DEF v, j
  <2>4. w \in PageState /\ w.rec = v.rec /\ w.queue = t.queue /\ w.flight = t.flight
    <3> HIDE DEF f, p, i
    <3>1. w \in PageState /\ w.rec = v.rec /\ w.queue = v.queue /\ w.flight = v.flight
      BY <1>1, <2>1, <2>2, OnItemIs
    <3> QED BY <2>2, <3>1
  <2> HIDE DEF w, f
  <2>5. Eased(t, w)
    BY <2>2, <2>4 DEF Eased, Guarded
  <2>6. AllFit(w)
    BY <2>4, <2>5, EasedFits
  <2>7. Calm(t, w)
    BY <2>2, <2>4, CalmWhen
  <2>8. u \in PageState /\ AllFit(u) /\ Calm(w, u) /\ Same(w, u, "hash")
    <3> DEFINE ks == {"probe", "thumb"}
    <3>1. "hash" \notin ks
      OBVIOUS
    <3>2. w \in PageState /\ AllFit(w) /\ p \in Paths
      BY <1>1, <2>4, <2>6
    <3> HIDE DEF ks
    <3>3. LET v2 == WantMissing(w, ks, p, pl)
          IN  /\ v2 \in PageState /\ AllFit(v2) /\ Calm(w, v2)
              /\ "hash" \notin ks => Same(w, v2, "hash")
      BY <3>2, WantMissingIs
    <3> QED BY <2>3, <3>1, <3>3 DEF ks
  <2> HIDE DEF u
  <2>9. u.flight["hash"] = t.flight["hash"] /\ u.rec[p].st["hash"] = "known"
    BY <1>1, <2>2, <2>4, <2>8 DEF Same
  <2>10. Ready(u, "hash", n)
    BY <1>0, <2>8, <2>9, ReadyWhen DEF f
  <2>11. Calm(t, u)
    BY <2>7, <2>8, CalmTrans
  <2> QED BY <2>8, <2>10, <2>11 DEF u, f
<1>3. CASE ~ok
  <2> DEFINE j == [i EXCEPT !.err = TRUE]
             v == Mark(t, p, "hash", "failed")
  <2>1. j \in Items
    BY <1>1 DEF Items
  <2>2. /\ v \in PageState /\ v.queue = t.queue /\ v.flight = t.flight
        /\ \A x \in Paths : /\ v.rec[x].hash = t.rec[x].hash
                            /\ \A s \in Slots : v.rec[x].st[s] =
                                 IF x = p /\ s = "hash" THEN "failed" ELSE t.rec[x].st[s]
    <3>1. "hash" \in Slots /\ "failed" \in Statuses
      BY DEF Slots, Statuses
    <3> QED BY <1>1, <3>1, MarkIs
  <2>3. u = OnItem(v, f, j)
    BY <1>3 DEF HashAnswer
  <2> HIDE DEF v, j
  <2>4. u \in PageState /\ u.rec = v.rec /\ u.queue = t.queue /\ u.flight = t.flight
    BY <1>1, <2>1, <2>2, <2>3, OnItemIs
  <2> HIDE DEF u
  <2>5. \A x \in Paths : /\ u.rec[x].hash = t.rec[x].hash
                         /\ u.rec[x].st["probe"] = t.rec[x].st["probe"]
                         /\ u.rec[x].st["hash"] = IF x = p THEN "failed" ELSE t.rec[x].st["hash"]
    BY <2>2, <2>4 DEF Slots
  <2>6. \A k \in Kinds \ {"hash"} : Fit(u, k)
    <3> SUFFICES ASSUME NEW k \in Kinds \ {"hash"} PROVE Fit(u, k)
      OBVIOUS
    <3>1. Same(t, u, k)
      BY <2>4, <2>5 DEF Same, Kinds
    <3> QED BY <3>1, SameFit DEF AllFit
  <2>7. Bounded(t, "hash") /\ Truthful(t, "hash") /\ Single(t)
    BY <1>0 DEF AllFit, Fit, Sound
  <2>8. Bounded(u, "hash") /\ Apart(u)
    BY <2>4, <2>7 DEF Bounded, Single, Apart
  <2>9. Truthful(u, "hash")
    BY <2>4, <2>5, <2>7 DEF Truthful
  <2>10. ASSUME NEW m \in 1..Len(t.flight["hash"]), m # n PROVE Guarded(u, t.flight["hash"][m].path)
    <3>1. t.flight["hash"][m].path \in Paths /\ Guarded(t, t.flight["hash"][m].path)
      BY <1>0, <2>7, StateIs DEF Single
    <3>2. t.flight["hash"][m].path # p
      BY <2>7, <2>10 DEF Single, Apart
    <3> QED BY <2>5, <3>1, <3>2 DEF Guarded
  <2>11. u.rec[p].st["hash"] # "repairing"
    BY <1>1, <2>5
  <2>12. Ready(u, "hash", n)
    BY <2>4, <2>6, <2>8, <2>9, <2>10, <2>11 DEF Ready
  <2>13. Calm(t, u)
    BY <2>4, <2>5, CalmWhen
  <2> QED BY <2>4, <2>12, <2>13 DEF u
<1> QED BY <1>2, <1>3

LEMMA ProbeAnswerIs ==
    ASSUME NEW t \in PageState, NEW n \in 1..Len(t.flight["probe"]), NEW ok \in BOOLEAN,
           NEW hashed \in BOOLEAN, AllFit(t)
    PROVE  LET u == ProbeAnswer(t, t.flight["probe"][n], ok, hashed)
           IN  u \in PageState /\ Ready(u, "probe", n) /\ Calm(t, u)
<1> DEFINE f == t.flight["probe"][n]
           p == f.path
           i == t.item[p]
           u == ProbeAnswer(t, f, ok, hashed)
<1>0. "probe" \in Kinds
  BY DEF Kinds
<1>1. f \in Requests /\ p \in Paths /\ i \in Items
  BY <1>0, StateIs
<1>2. /\ u \in PageState /\ u.queue = t.queue /\ u.flight = t.flight
      /\ u.rec[p].st["probe"] \in {"known", "failed"}
      /\ \/ u.rec[p].st["hash"] = t.rec[p].st["hash"] /\ u.rec[p].hash = t.rec[p].hash
         \/ u.rec[p].st["hash"] = "known" /\ u.rec[p].hash
      /\ \A x \in Paths : x # p => /\ u.rec[x].hash = t.rec[x].hash
                                  /\ \A s \in {"hash", "probe"} : u.rec[x].st[s] = t.rec[x].st[s]
  <2>1. CASE ok
    <3> DEFINE v == MetaKnown(t, p)
               w == IF hashed THEN HashKnown(v, p) ELSE v
               j == [i EXCEPT !.meta = TRUE, !.hash = i.hash \/ hashed, !.err = FALSE]
    <3>1. j \in Items
      BY <1>1 DEF Items
    <3>2. u = OnItem(w, f, j)
      BY <2>1 DEF ProbeAnswer
    <3>3. /\ v \in PageState /\ v.queue = t.queue /\ v.flight = t.flight
          /\ v.rec[p].st["probe"] = "known"
          /\ v.rec[p].st["hash"] = t.rec[p].st["hash"] /\ v.rec[p].hash = t.rec[p].hash
          /\ \A x \in Paths : x # p => v.rec[x] = t.rec[x]
      BY <1>1, MetaKnownIs
    <3> HIDE DEF v, j
    <3>4. /\ w \in PageState /\ w.queue = t.queue /\ w.flight = t.flight
          /\ w.rec[p].st["probe"] = "known"
          /\ \/ w.rec[p].st["hash"] = t.rec[p].st["hash"] /\ w.rec[p].hash = t.rec[p].hash
             \/ w.rec[p].st["hash"] = "known" /\ w.rec[p].hash
          /\ \A x \in Paths : x # p => w.rec[x] = t.rec[x]
      <4> HIDE DEF u, f
      <4>1. CASE hashed
        <5> DEFINE z == HashKnown(v, p)
        <5>1. /\ z \in PageState /\ z.queue = v.queue /\ z.flight = v.flight
              /\ z.rec[p].st["hash"] = "known" /\ z.rec[p].hash
              /\ z.rec[p].st["probe"] = v.rec[p].st["probe"]
              /\ \A x \in Paths : x # p => z.rec[x] = v.rec[x]
          BY <1>1, <3>3, HashKnownIs
        <5>2. w = z
          BY <4>1
        <5> HIDE DEF z, w
        <5> QED BY <3>3, <5>1, <5>2
      <4>2. CASE ~hashed
        BY <3>3, <4>2
      <4> QED BY <4>1, <4>2
    <3> HIDE DEF w
    <3>5. u \in PageState /\ u.rec = w.rec /\ u.queue = w.queue /\ u.flight = w.flight
      <4>1. w \in PageState
        BY <3>4
      <4> HIDE DEF u, f
      <4> QED BY <1>1, <3>1, <3>2, <4>1, OnItemIs
    <3> QED BY <3>4, <3>5
  <2>2. CASE ~ok
    <3> DEFINE v == Mark(t, p, "probe", "failed")
               j == [i EXCEPT !.err = TRUE]
    <3>1. j \in Items
      BY <1>1 DEF Items
    <3>2. u = OnItem(v, f, j)
      BY <2>2 DEF ProbeAnswer
    <3>3. /\ v \in PageState /\ v.queue = t.queue /\ v.flight = t.flight
          /\ \A x \in Paths : /\ v.rec[x].hash = t.rec[x].hash
                              /\ \A s \in Slots : v.rec[x].st[s] =
                                   IF x = p /\ s = "probe" THEN "failed" ELSE t.rec[x].st[s]
      <4>1. "probe" \in Slots /\ "failed" \in Statuses
        BY DEF Slots, Statuses
      <4> QED BY <1>1, <4>1, MarkIs
    <3> HIDE DEF v, j
    <3>4. u \in PageState /\ u.rec = v.rec /\ u.queue = t.queue /\ u.flight = t.flight
      <4>1. v \in PageState
        BY <3>3
      <4> HIDE DEF u, f
      <4>2. u \in PageState /\ u.rec = v.rec /\ u.queue = v.queue /\ u.flight = v.flight
        BY <1>1, <3>1, <3>2, <4>1, OnItemIs
      <4> QED BY <3>3, <4>2
    <3> HIDE DEF u, f
    <3> QED BY <1>1, <3>3, <3>4 DEF Slots
  <2> QED BY <2>1, <2>2
<1> HIDE DEF u, f
<1>3. Eased(t, u)
  <2> SUFFICES ASSUME NEW x \in Paths
               PROVE  /\ \A s \in {"hash", "probe"}, st \in {"queued", "repairing"} :
                           u.rec[x].st[s] = st => t.rec[x].st[s] = st
                      /\ Guarded(t, x) => Guarded(u, x)
    BY <1>2 DEF Eased
  <2> QED BY <1>2 DEF Guarded
<1>4. AllFit(u)
  BY <1>2, <1>3, EasedFits
<1>5. Ready(u, "probe", n)
  <2>1. u.rec[u.flight["probe"][n].path].st["probe"] # "repairing"
    BY <1>2 DEF f
  <2> QED BY <1>0, <1>2, <1>4, <2>1, ReadyWhen
<1>6. Calm(t, u)
  BY <1>2, CalmWhen
<1> QED BY <1>2, <1>5, <1>6 DEF u, f

LEMMA ThumbAnswerIs ==
    ASSUME NEW t \in PageState, NEW n \in 1..Len(t.flight["thumb"]), NEW ok \in BOOLEAN,
           NEW lost \in BOOLEAN, AllFit(t)
    PROVE  LET u == ThumbAnswer(t, t.flight["thumb"][n], ok, lost)
           IN  u \in PageState /\ Ready(u, "thumb", n) /\ Calm(t, u)
<1> DEFINE f == t.flight["thumb"][n]
           p == f.path
           i == t.item[p]
           st == IF ok THEN "known" ELSE "failed"
           v == Mark(t, p, f.slot, st)
           j == IF ok THEN [i EXCEPT !.thumb = "shown"] ELSE [i EXCEPT !.tfail = TRUE]
           u == ThumbAnswer(t, f, ok, lost)
<1>0. "thumb" \in Kinds
  BY DEF Kinds
<1>1. f \in Requests /\ p \in Paths /\ i \in Items /\ f.slot \in Slots /\ st \in Statuses
  BY <1>0, StateIs DEF Statuses
<1>2. f.slot \in Sizes
  BY <1>0 DEF AllFit, Fit, Sound
<1>3. j \in Items
  BY <1>1 DEF Items
<1>4. /\ v \in PageState /\ v.queue = t.queue /\ v.flight = t.flight
      /\ \A x \in Paths : /\ v.rec[x].hash = t.rec[x].hash
                          /\ \A s \in {"hash", "probe"} : v.rec[x].st[s] = t.rec[x].st[s]
  <2> HIDE DEF st, f
  <2>1. \A s \in {"hash", "probe"} : s \in Slots /\ s # f.slot
    BY <1>2 DEF Slots
  <2> QED BY <1>1, <2>1, MarkIs
<1>5. u = v \/ u = OnItem(v, f, j)
  BY DEF ThumbAnswer
<1> HIDE DEF v, j
<1>6. u \in PageState /\ u.rec = v.rec /\ u.queue = t.queue /\ u.flight = t.flight
  BY <1>1, <1>3, <1>4, <1>5, OnItemIs
<1> HIDE DEF u
<1>7. Eased(t, u)
  BY <1>4, <1>6 DEF Eased, Guarded
<1>8. AllFit(u)
  BY <1>6, <1>7, EasedFits
<1>9. Ready(u, "thumb", n)
  BY <1>0, <1>6, <1>8, ReadyWhen
<1>10. Calm(t, u)
  BY <1>4, <1>6, CalmWhen
<1> QED BY <1>6, <1>9, <1>10 DEF u

-----------------------------------------------------------------------------
(* The page                                                                *)

Gate == /\ pool \subseteq Paths /\ size \in Sizes
        /\ {hydrated, window, started, timer} \subseteq BOOLEAN
        /\ asks \in 0..MaxAsks

RepairInv == Now \in PageState /\ AllFit(Now) /\ Gate

(* What has failed and waits in no queue is not asked for. *)
Patient(t, u) ==
    \A p \in Paths, s \in {"hash", "probe"} :
        /\ t.rec[p].st[s] = "failed"
        /\ \A i \in 1..Len(t.queue[s]) : t.queue[s][i] # p
        => u.rec[p].st[s] \in {"known", "failed"}

LEMMA CalmIsPatient == ASSUME NEW t, NEW u, Calm(t, u) PROVE Patient(t, u)
BY DEF Calm, Settled, Patient

LEMMA NowIs ==
    Now.rec = rec /\ Now.item = item /\ Now.queue = queue /\ Now.flight = flight
BY DEF Now

LEMMA BecomesIs ==
    ASSUME NEW t \in PageState, AllFit(t), Becomes(t)
    PROVE  Now' = t /\ Now' \in PageState /\ AllFit(Now)'
<1>1. Now' = t
  BY DEF Becomes, Now, PageState
<1>2. AllFit(Now')
  BY <1>1
<1> QED BY <1>1, <1>2 DEF AllFit, Fit, Bounded, Sound, Truthful, Single, Apart, Guarded

LEMMA InitRepairInv == RepairInit => RepairInv
<1> SUFFICES ASSUME RepairInit PROVE RepairInv
  OBVIOUS
<1>1. EmptyRecord \in Records /\ NewItem \in Items
  <2>1. [s \in Slots |-> "missing"] \in [Slots -> Statuses]
    BY DEF Statuses
  <2> QED BY <2>1 DEF EmptyRecord, Records, NewItem, Items
<1>2. Now \in PageState
  <2>1. rec \in [Paths -> Records] /\ item \in [Paths -> Items]
    BY <1>1 DEF RepairInit
  <2>2. queue \in [Kinds -> Seq(Paths)] /\ flight \in [Kinds -> Seq(Requests)]
    BY EmptySeq DEF RepairInit
  <2> QED BY <2>1, <2>2 DEF Now, PageState
<1>3. ASSUME NEW k \in Kinds PROVE Fit(Now, k)
  <2>1. Len(Now.queue[k]) = 0 /\ Len(Now.flight[k]) = 0 /\ Cap[k] \in Nat
    BY NowIs, EmptySeq DEF RepairInit
  <2>2. \A p \in Paths, s \in {"hash", "probe"} : Now.rec[p].st[s] = "missing"
    BY NowIs DEF RepairInit, EmptyRecord, Slots
  <2>3. Bounded(Now, k)
    BY <2>1 DEF Bounded
  <2>4. k \in {"hash", "probe"} => Truthful(Now, k)
    BY <2>2 DEF Truthful
  <2>5. k = "hash" => Single(Now)
    BY <2>1 DEF Single, Apart
  <2> QED BY <2>1, <2>3, <2>4, <2>5 DEF Fit, Sound
<1>4. Gate
  <2>1. pool \subseteq Paths /\ size \in Sizes /\ asks \in 0..MaxAsks
    BY DEF RepairInit
  <2>2. hydrated \in BOOLEAN /\ window \in BOOLEAN /\ started \in BOOLEAN /\ timer \in BOOLEAN
    BY Zenon DEF RepairInit
  <2> QED BY <2>1, <2>2 DEF Gate
<1> QED BY <1>2, <1>3, <1>4 DEF RepairInv, AllFit

-----------------------------------------------------------------------------
(* Steps of the page on its own *)

LEMMA AnswerStep ==
    ASSUME RepairInv, NEW k \in Kinds, Answer(k)
    PROVE  RepairInv' /\ Patient(Now, Now')
<1>1. PICK n \in 1..Len(flight[k]), ok \in BOOLEAN, other \in BOOLEAN :
        LET f == flight[k][n]
        IN  /\ Becomes(Released(CASE k = "hash" -> HashAnswer(Now, f, ok, pool)
                                  [] k = "probe" -> ProbeAnswer(Now, f, ok, other)
                                  [] k = "thumb" -> ThumbAnswer(Now, f, ok, other), k, n, pool))
            /\ UNCHANGED <<pool, size, gate, asks>>
  BY DEF Answer
<1> DEFINE f == flight[k][n]
           t == CASE k = "hash" -> HashAnswer(Now, f, ok, pool)
                  [] k = "probe" -> ProbeAnswer(Now, f, ok, other)
                  [] k = "thumb" -> ThumbAnswer(Now, f, ok, other)
           u == Released(t, k, n, pool)
<1>2. Now \in PageState /\ AllFit(Now) /\ size \in Sizes /\ n \in 1..Len(Now.flight[k]) /\ f = Now.flight[k][n]
  BY NowIs DEF RepairInv, Gate
<1>3. t \in PageState /\ Ready(t, k, n) /\ Calm(Now, t)
  <2>1. CASE k = "hash"
    <3>1. t = HashAnswer(Now, f, ok, pool)
      BY <2>1
    <3> QED BY <1>2, <2>1, <3>1, HashAnswerIs
  <2>2. CASE k = "probe"
    <3>1. t = ProbeAnswer(Now, f, ok, other)
      BY <2>2
    <3> QED BY <1>2, <2>2, <3>1, ProbeAnswerIs
  <2>3. CASE k = "thumb"
    <3>1. t = ThumbAnswer(Now, f, ok, other)
      BY <2>3
    <3> QED BY <1>2, <2>3, <3>1, ThumbAnswerIs
  <2> QED BY <2>1, <2>2, <2>3 DEF Kinds
<1>4. Becomes(u) /\ UNCHANGED <<pool, size, gate, asks>>
  BY <1>1
<1> HIDE DEF t
<1>5. u \in PageState /\ AllFit(u) /\ Calm(t, u)
  BY <1>2, <1>3, ReleasedIs
<1> HIDE DEF u
<1>6. Now' = u /\ Now' \in PageState /\ AllFit(Now)'
  BY <1>4, <1>5, BecomesIs
<1>7. Patient(Now, Now')
  BY <1>3, <1>5, <1>6, CalmTrans, CalmIsPatient
<1>8. Gate'
  BY <1>4 DEF RepairInv, Gate, gate
<1> QED BY <1>6, <1>7, <1>8 DEF RepairInv

LEMMA RenderStep ==
    ASSUME RepairInv, Render
    PROVE  RepairInv' /\ Patient(Now, Now')
<1>1. PICK ps \in SUBSET pool \ {{}} : Becomes(PutAll(Now, ps))
  BY DEF Render
<1>2. /\ PutAll(Now, ps) \in PageState /\ AllFit(PutAll(Now, ps))
      /\ \A p \in Paths, s \in {"hash", "probe"} :
           Now.rec[p].st[s] = "failed" => PutAll(Now, ps).rec[p].st[s] \in {"known", "failed"}
  BY PutAllIs DEF RepairInv
<1>3. Now' = PutAll(Now, ps) /\ Now' \in PageState /\ AllFit(Now)'
  BY <1>1, <1>2, BecomesIs
<1>4. Gate'
  BY DEF Render, ScheduleIdleStart, CanStartIdle, RepairInv, Gate
<1> QED BY <1>2, <1>3, <1>4 DEF RepairInv, Patient

LEMMA IdleStartStep ==
    ASSUME RepairInv, IdleStart
    PROVE  RepairInv' /\ Patient(Now, Now')
<1>1. Now \in PageState /\ AllFit(Now) /\ pool \in SUBSET Paths /\ size \in Sizes
  BY DEF RepairInv, Gate
<1>2. Gate'
  BY DEF IdleStart, CanStartIdle, RepairInv, Gate, work
<1>3. CASE Becomes(RepairEach(Now, TRUE, pool))
  <2>1. /\ RepairEach(Now, TRUE, pool) \in PageState /\ AllFit(RepairEach(Now, TRUE, pool))
        /\ Calm(Now, RepairEach(Now, TRUE, pool))
    BY <1>1, RepairEachIs
  <2>2. Now' = RepairEach(Now, TRUE, pool) /\ Now' \in PageState /\ AllFit(Now)'
    BY <1>3, <2>1, BecomesIs
  <2> QED BY <1>2, <2>1, <2>2, CalmIsPatient DEF RepairInv
<1>4. CASE UNCHANGED work
  <2>1. Now' = Now
    BY <1>4 DEF work, Now
  <2>2. Becomes(Now)
    BY <1>4 DEF work, Now, Becomes
  <2>3. Now' \in PageState /\ AllFit(Now)'
    BY <1>1, <2>2, BecomesIs
  <2> QED BY <1>2, <2>1, <2>3, CalmSelf, CalmIsPatient DEF RepairInv
<1> QED BY <1>3, <1>4 DEF IdleStart

-----------------------------------------------------------------------------
(* Steps of the user *)

LEMMA OrphanedIs ==
    ASSUME Now \in PageState, NEW ps
    PROVE  /\ Orphaned(ps) \in [Kinds -> Seq(Requests)]
           /\ \A k \in Kinds :
                /\ Len(Orphaned(ps)[k]) = Len(flight[k])
                /\ \A n \in 1..Len(flight[k]) :
                     /\ Orphaned(ps)[k][n].path = flight[k][n].path
                     /\ Orphaned(ps)[k][n].slot = flight[k][n].slot
<1> SUFFICES ASSUME NEW k \in Kinds
             PROVE  /\ Orphaned(ps)[k] \in Seq(Requests)
                    /\ Len(Orphaned(ps)[k]) = Len(flight[k])
                    /\ \A n \in 1..Len(flight[k]) :
                         /\ Orphaned(ps)[k][n].path = flight[k][n].path
                         /\ Orphaned(ps)[k][n].slot = flight[k][n].slot
  BY DEF Orphaned
<1> DEFINE l == Len(flight[k])
           g == [n \in 1..l |-> [flight[k][n] EXCEPT !.live = flight[k][n].live /\ flight[k][n].path \notin ps]]
<1>1. l \in Nat /\ DOMAIN flight[k] = 1..l /\ \A n \in 1..l : flight[k][n] \in Requests
  BY StateIs, Domains, NowIs
<1>2. Orphaned(ps)[k] = g
  BY <1>1 DEF Orphaned
<1>3. ASSUME NEW n \in 1..l
      PROVE  g[n] \in Requests /\ g[n].path = flight[k][n].path /\ g[n].slot = flight[k][n].slot
  <2>1. flight[k][n] \in Requests
    BY <1>1
  <2>2. g[n] = [flight[k][n] EXCEPT !.live = flight[k][n].live /\ flight[k][n].path \notin ps]
    OBVIOUS
  <2> QED BY <2>1, <2>2 DEF Requests
<1>4. g \in [1..l -> Requests]
  BY <1>3
<1> HIDE DEF g
<1>5. g \in Seq(Requests) /\ Len(g) = l
  BY <1>1, <1>4
<1> QED BY <1>2, <1>3, <1>5

LEMMA RestoreStep ==
    ASSUME RepairInv, Restore
    PROVE  RepairInv' /\ (asks' = asks => Patient(Now, Now'))
<1>0. PICK ps \in SUBSET Paths : \E saved \in [ps -> SavedItems] :
        LET t == [Now EXCEPT !.item = [p \in Paths |-> IF p \in ps THEN saved[p] ELSE NewItem],
                             !.flight = Orphaned(Paths)]
        IN  /\ ~hydrated \/ asks < MaxAsks
            /\ asks' = IF hydrated THEN asks + 1 ELSE asks
            /\ Becomes(PutAll(t, ps))
            /\ pool' = ps
            /\ hydrated' = TRUE
            /\ ScheduleIdleStart(TRUE, window)
            /\ UNCHANGED <<size, window, started>>
  BY DEF Restore
<1>1. PICK saved \in [ps -> SavedItems] :
        LET t == [Now EXCEPT !.item = [p \in Paths |-> IF p \in ps THEN saved[p] ELSE NewItem],
                             !.flight = Orphaned(Paths)]
        IN  /\ ~hydrated \/ asks < MaxAsks
            /\ asks' = IF hydrated THEN asks + 1 ELSE asks
            /\ Becomes(PutAll(t, ps))
            /\ pool' = ps
            /\ hydrated' = TRUE
            /\ ScheduleIdleStart(TRUE, window)
            /\ UNCHANGED <<size, window, started>>
  BY <1>0
<1> DEFINE j == [p \in Paths |-> IF p \in ps THEN saved[p] ELSE NewItem]
           t == [Now EXCEPT !.item = j, !.flight = Orphaned(Paths)]
           u == PutAll(t, ps)
<1>2. SavedItems \subseteq Items /\ NewItem \in Items
  <2>1. NewItem \in Items
    BY DEF NewItem, Items
  <2> DEFINE x == [NewItem EXCEPT !.thumb = "absent"]
  <2>2. x \in Items
    BY <2>1 DEF Items
  <2> HIDE DEF x
  <2>3. /\ [x EXCEPT !.hash = TRUE, !.meta = TRUE, !.thumb = "shown"] \in Items
        /\ [x EXCEPT !.hash = TRUE, !.meta = TRUE] \in Items
        /\ [x EXCEPT !.err = TRUE, !.tfail = TRUE] \in Items
    BY <2>2 DEF Items
  <2> QED BY <2>1, <2>2, <2>3 DEF SavedItems, x
<1>3. j \in [Paths -> Items]
  BY <1>2
<1>4. Becomes(u)
  BY <1>1
<1> HIDE DEF j
<1>5. t \in PageState /\ t.rec = Now.rec /\ t.queue = Now.queue /\ t.flight = Orphaned(Paths)
  BY <1>3, OrphanedIs DEF RepairInv, PageState
<1> HIDE DEF t
<1>6. Eased(Now, t)
  BY <1>5, OrphanedIs, NowIs DEF RepairInv, Eased, Guarded
<1>7. AllFit(t)
  BY <1>5, <1>6, EasedFits DEF RepairInv
<1>8. /\ u \in PageState /\ AllFit(u)
      /\ \A p \in Paths, s \in {"hash", "probe"} :
           t.rec[p].st[s] = "failed" => u.rec[p].st[s] \in {"known", "failed"}
  BY <1>5, <1>7, PutAllIs
<1> HIDE DEF u
<1>9. Now' = u /\ Now' \in PageState /\ AllFit(Now)'
  BY <1>4, <1>8, BecomesIs
<1>10. Gate'
  BY <1>1 DEF ScheduleIdleStart, CanStartIdle, RepairInv, Gate
<1>11. Patient(Now, Now')
  BY <1>5, <1>8, <1>9 DEF Patient
<1> QED BY <1>9, <1>10, <1>11 DEF RepairInv

LEMMA ImportStep ==
    ASSUME RepairInv, NEW q \in Paths, Import(q)
    PROVE  RepairInv' /\ asks' # asks
<1>1. PICK found \in FoundItems :
        LET pl == pool \cup {q}
            t == RepairItem(PutAll([Now EXCEPT !.item[q] = NewItem], {q}), q, TRUE, pl)
        IN  /\ q \notin pool
            /\ Asked
            /\ pool' = pl
            /\ Becomes([t EXCEPT !.item[q] = found])
            /\ UNCHANGED <<size, gate>>
  BY DEF Import
<1> DEFINE pl == pool \cup {q}
           x == [Now EXCEPT !.item[q] = NewItem]
           y == PutAll(x, {q})
           t == RepairItem(y, q, TRUE, pl)
           u == [t EXCEPT !.item[q] = found]
<1>2. found \in Items /\ NewItem \in Items
  <2>1. NewItem \in Items
    BY DEF NewItem, Items
  <2>2. /\ [NewItem EXCEPT !.hash = TRUE, !.thumb = "absent"] \in Items
        /\ [NewItem EXCEPT !.hash = TRUE, !.thumb = "shown"] \in Items
    BY <2>1 DEF Items
  <2> QED BY <2>1, <2>2 DEF FoundItems
<1>3. Becomes(u)
  BY <1>1
<1>4. x \in PageState /\ x.rec = Now.rec /\ x.queue = Now.queue /\ x.flight = Now.flight
  BY <1>2 DEF RepairInv, PageState
<1> HIDE DEF x
<1>5. AllFit(x)
  BY <1>4, EasedFits DEF RepairInv, Eased, Guarded
<1>6. y \in PageState /\ AllFit(y)
  BY <1>4, <1>5, PutAllIs
<1> HIDE DEF y
<1>7. t \in PageState /\ AllFit(t)
  BY <1>6, RepairItemIs DEF RepairInv, Gate
<1> HIDE DEF t
<1>8. u \in PageState /\ u.rec = t.rec /\ u.queue = t.queue /\ u.flight = t.flight
  BY <1>2, <1>7 DEF PageState
<1> HIDE DEF u
<1>9. AllFit(u)
  BY <1>7, <1>8, EasedFits DEF Eased, Guarded
<1>10. Now' \in PageState /\ AllFit(Now)'
  BY <1>3, <1>8, <1>9, BecomesIs
<1>11. Gate' /\ asks' # asks
  BY <1>1 DEF Asked, RepairInv, Gate, gate
<1> QED BY <1>10, <1>11 DEF RepairInv

LEMMA RemoveItemStep ==
    ASSUME RepairInv, NEW q \in Paths, RemoveItem(q)
    PROVE  RepairInv' /\ asks' # asks
<1> DEFINE u == [Now EXCEPT !.item[q] = NewItem, !.flight = Orphaned({q})]
<1>1. NewItem \in Items
  BY DEF NewItem, Items
<1>2. Becomes(u)
  BY DEF RemoveItem
<1>3. u \in PageState /\ u.rec = Now.rec /\ u.queue = Now.queue /\ u.flight = Orphaned({q})
  BY <1>1, OrphanedIs DEF RepairInv, PageState
<1> HIDE DEF u
<1>4. Eased(Now, u)
  BY <1>3, OrphanedIs, NowIs DEF RepairInv, Eased, Guarded
<1>5. AllFit(u)
  BY <1>3, <1>4, EasedFits DEF RepairInv
<1>6. Now' \in PageState /\ AllFit(Now)'
  BY <1>2, <1>3, <1>5, BecomesIs
<1>7. Gate' /\ asks' # asks
  BY DEF RemoveItem, Asked, RepairInv, Gate, gate
<1> QED BY <1>6, <1>7 DEF RepairInv

LEMMA AskStep ==
    ASSUME RepairInv, RepairAll \/ (\E p \in Paths : Retry(p)) \/ (\E s \in Sizes : SetSize(s))
    PROVE  RepairInv' /\ asks' # asks
<1>1. Now \in PageState /\ AllFit(Now) /\ pool \in SUBSET Paths /\ size \in Sizes
  BY DEF RepairInv, Gate
<1>2. CASE RepairAll
  <2>1. RepairEach(Now, FALSE, pool) \in PageState /\ AllFit(RepairEach(Now, FALSE, pool))
    BY <1>1, RepairEachIs
  <2>2. Now' \in PageState /\ AllFit(Now)'
    BY <1>2, <2>1, BecomesIs DEF RepairAll
  <2> QED BY <1>2, <2>2 DEF RepairAll, Asked, RepairInv, Gate, gate
<1>3. ASSUME NEW p \in Paths, Retry(p) PROVE RepairInv' /\ asks' # asks
  <2>1. RepairItem(Now, p, TRUE, pool) \in PageState /\ AllFit(RepairItem(Now, p, TRUE, pool))
    BY <1>1, RepairItemIs
  <2>2. Now' \in PageState /\ AllFit(Now)'
    BY <1>3, <2>1, BecomesIs DEF Retry
  <2> QED BY <1>3, <2>2 DEF Retry, Asked, RepairInv, Gate, gate
<1>4. ASSUME NEW s \in Sizes, SetSize(s) PROVE RepairInv' /\ asks' # asks
  <2>1. Becomes(Now)
    BY <1>4 DEF SetSize, work, Now, Becomes
  <2>2. Now' \in PageState /\ AllFit(Now)'
    BY <1>1, <2>1, BecomesIs
  <2> QED BY <1>4, <2>2 DEF SetSize, Asked, RepairInv, Gate, gate
<1> QED BY <1>2, <1>3, <1>4

LEMMA StepRepairInv == ASSUME RepairInv, [RepairNext]_repairVars
                  PROVE  RepairInv' /\ (asks' = asks => Patient(Now, Now'))
<1>1. CASE RepairNext
  <2>1. CASE \E k \in Kinds : Answer(k)
    BY <2>1, AnswerStep
  <2>2. CASE Restore
    BY <2>2, RestoreStep
  <2>3. CASE Render
    BY <2>3, RenderStep
  <2>4. CASE IdleStart
    BY <2>4, IdleStartStep
  <2>5. CASE \E p \in Paths : Import(p) \/ RemoveItem(p) \/ Retry(p)
    BY <2>5, ImportStep, RemoveItemStep, AskStep
  <2>6. CASE RepairAll \/ \E s \in Sizes : SetSize(s)
    BY <2>6, AskStep
  <2> QED BY <1>1, <2>1, <2>2, <2>3, <2>4, <2>5, <2>6 DEF RepairNext
<1>2. CASE UNCHANGED repairVars
  <2>1. Becomes(Now) /\ Now' = Now
    BY <1>2 DEF repairVars, work, Becomes, Now
  <2>2. Now' \in PageState /\ AllFit(Now)'
    BY <2>1, BecomesIs DEF RepairInv
  <2>3. Gate'
    BY <1>2 DEF repairVars, gate, RepairInv, Gate
  <2> QED BY <2>1, <2>2, <2>3, CalmSelf, CalmIsPatient DEF RepairInv
<1> QED BY <1>1, <1>2

LEMMA RepairInvariance == RepairSpec => []RepairInv
<1>1. RepairInv /\ [RepairNext]_repairVars => RepairInv'
  BY StepRepairInv
<1> QED BY InitRepairInv, <1>1, PTL DEF RepairSpec

-----------------------------------------------------------------------------
(* The results *)

(* The records of the index, the items, the queues and the requests keep   *)
(* to their types.                                                         *)
THEOREM RepairTypeCorrect == RepairSpec => []RepairTypeOK
<1>1. RepairInv => RepairTypeOK
  <2> SUFFICES ASSUME RepairInv PROVE RepairTypeOK
    OBVIOUS
  <2>1. /\ rec \in [Paths -> Records] /\ item \in [Paths -> Items]
        /\ queue \in [Kinds -> Seq(Paths)] /\ flight \in [Kinds -> Seq(Requests)]
    BY StateIs, NowIs DEF RepairInv
  <2>2. Gate
    BY DEF RepairInv
  <2> QED BY <2>1, <2>2 DEF RepairTypeOK, Records, Requests, Gate
<1> QED BY RepairInvariance, <1>1, PTL

(* A record that says its hash or its metadata is queued or being fetched  *)
(* tells the truth, so that no file is locked out of later repairs.        *)
THEOREM BusyMeansHeld == RepairSpec => []BusyIsHeld
<1>1. RepairInv => BusyIsHeld
  <2> SUFFICES ASSUME RepairInv, NEW p \in Paths, NEW s \in {"hash", "probe"}
               PROVE  /\ rec[p].st[s] = "queued" => p \in ToSet(queue[s])
                      /\ rec[p].st[s] = "repairing" => p \in InFlight(s)
    BY DEF BusyIsHeld
  <2>1. s \in Kinds /\ Now \in PageState
    BY DEF RepairInv, Kinds
  <2>2. Truthful(Now, s)
    BY <2>1 DEF RepairInv, AllFit, Fit, Sound
  <2>3. DOMAIN queue[s] = 1..Len(queue[s]) /\ DOMAIN flight[s] = 1..Len(flight[s])
    BY <2>1, Domains, NowIs
  <2>4. rec[p].st[s] = "queued" => p \in ToSet(queue[s])
    BY <2>2, <2>3, NowIs DEF Truthful, ToSet
  <2>5. rec[p].st[s] = "repairing" => p \in InFlight(s)
    BY <2>2, <2>3, NowIs DEF Truthful, InFlight
  <2> QED BY <2>4, <2>5
<1> QED BY RepairInvariance, <1>1, PTL

(* However often the user asks and the cards are painted, a file is hashed *)
(* by at most one request at a time.                                       *)
THEOREM HashedOnce == RepairSpec => []OneHashRequest
<1>1. RepairInv => OneHashRequest
  <2> SUFFICES ASSUME RepairInv, NEW p \in Paths
               PROVE  Cardinality({n \in DOMAIN flight["hash"] : flight["hash"][n].path = p}) <= 1
    BY DEF OneHashRequest
  <2> DEFINE F == {n \in DOMAIN flight["hash"] : flight["hash"][n].path = p}
  <2>1. "hash" \in Kinds /\ Now \in PageState
    BY DEF RepairInv, Kinds
  <2>2. Apart(Now)
    BY <2>1 DEF RepairInv, AllFit, Fit, Sound, Single
  <2>3. DOMAIN flight["hash"] = 1..Len(flight["hash"])
    BY <2>1, Domains, NowIs
  <2>4. \A n, m \in F : n = m
    BY <2>2, <2>3, NowIs DEF Apart
  <2> HIDE DEF F
  <2>5. F = {} \/ \E n : F = {n}
    BY <2>4
  <2>6. Cardinality(F) <= 1
    <3>1. Cardinality({}) = 0 /\ \A n : Cardinality({n}) = 1
      BY FS_EmptySet, FS_Singleton
    <3>2. CASE F = {}
      BY <3>1, <3>2
    <3>3. ASSUME NEW n, F = {n} PROVE Cardinality(F) <= 1
      <4>1. Cardinality({n}) = 1
        BY <3>1
      <4> QED BY <3>3, <4>1
    <3> QED BY <2>5, <3>2, <3>3
  <2> QED BY <2>6 DEF F
<1> QED BY RepairInvariance, <1>1, PTL

(* The queues are bounded by their limits and never idle while work waits. *)
THEOREM SlotsAreUsed == RepairSpec => []NoIdleSlot
<1>1. RepairInv => NoIdleSlot
  <2> SUFFICES ASSUME RepairInv, NEW k \in Kinds
               PROVE  /\ Len(flight[k]) <= Cap[k]
                      /\ queue[k] # <<>> => Len(flight[k]) = Cap[k]
    BY DEF NoIdleSlot
  <2>1. Bounded(Now, k) /\ Now \in PageState
    BY DEF RepairInv, AllFit, Fit
  <2>2. queue[k] # <<>> => Len(queue[k]) > 0
    BY <2>1, StateIs, NowIs, EmptySeq
  <2> QED BY <2>1, <2>2, NowIs DEF Bounded
<1> QED BY RepairInvariance, <1>1, PTL

(* A failed hash or probe is asked for again only when the user asks.      *)
THEOREM FailureWaits == RepairSpec => FailedWaitsForUser
<1>1. ASSUME RepairInv, [RepairNext]_repairVars
      PROVE  [\A p \in Paths, s \in {"hash", "probe"} :
                rec[p].st[s] = "failed" /\ rec'[p].st[s] \in {"queued", "repairing"} /\
                p \notin ToSet(queue[s])
                   => asks' # asks]_repairVars
  <2> SUFFICES ASSUME asks' = asks, NEW p \in Paths, NEW s \in {"hash", "probe"},
                      rec[p].st[s] = "failed", p \notin ToSet(queue[s])
               PROVE  rec'[p].st[s] \notin {"queued", "repairing"}
    OBVIOUS
  <2>1. Patient(Now, Now')
    BY <1>1, StepRepairInv
  <2>2. s \in Kinds /\ Now \in PageState
    BY <1>1 DEF RepairInv, Kinds
  <2>3. \A i \in 1..Len(queue[s]) : queue[s][i] # p
    BY <2>2, Domains, NowIs DEF ToSet
  <2>4. Now'.rec = rec'
    BY DEF Now
  <2> QED BY <2>1, <2>3, <2>4, NowIs DEF Patient
<1> QED BY RepairInvariance, <1>1, PTL DEF RepairSpec, FailedWaitsForUser
=============================================================================
