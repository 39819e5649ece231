--------------------------- MODULE SerialExecutor ---------------------------
(***************************************************************************)
(* What the queue and the direct endpoint promise together: one execution  *)
(* slot, a line of items served first in first out, and callers that go    *)
(* straight to the slot or are turned away.  While items stand in line a   *)
(* served item is followed by the next one with no gap in which a direct   *)
(* caller could take the slot; whoever is over never returns.              *)
(***************************************************************************)
EXTENDS Integers, Sequences

CONSTANTS Queued, Callers, Nobody

VARIABLES
    line,      \* items waiting, in order of arrival
    active,    \* who holds the slot
    over       \* who was served, dropped or turned away

lineVars == <<line, active, over>>

Standing == {line[n] : n \in 1..Len(line)}

Init == line = <<>> /\ active = Nobody /\ over = {}

Join(i) ==
    /\ i \notin over \cup Standing \cup {active}
    /\ line' = Append(line, i)
    /\ UNCHANGED <<active, over>>

(* One item leaves its place, or everyone leaves. *)
Leave(n) ==
    /\ line' = SubSeq(line, 1, n - 1) \o SubSeq(line, n + 1, Len(line))
    /\ over' = over \cup {line[n]}
    /\ UNCHANGED active

Disperse ==
    /\ line' = <<>>
    /\ over' = over \cup Standing
    /\ UNCHANGED active

(* The slot passes from an item, or from nobody, to the first of the line  *)
(* that can be served; those before it are sent away.  It becomes free     *)
(* only when the line is empty.                                            *)
Serve ==
    /\ active \in Queued \cup {Nobody}
    /\ \E k \in 0..Len(line) :
         /\ over' = over \cup ({active} \ {Nobody}) \cup {line[n] : n \in 1..k}
         /\ IF k = Len(line)
            THEN line' = <<>> /\ active' = Nobody
            ELSE line' = SubSeq(line, k + 2, Len(line)) /\ active' = line[k + 1]

Take(d) ==
    /\ active = Nobody
    /\ d \notin over
    /\ active' = d
    /\ UNCHANGED <<line, over>>

TurnAway(d) ==
    /\ active # Nobody
    /\ d \notin over \cup {active}
    /\ over' = over \cup {d}
    /\ UNCHANGED <<line, active>>

Release(d) ==
    /\ active = d
    /\ active' = Nobody
    /\ over' = over \cup {d}
    /\ UNCHANGED line

Next ==
    \/ \E i \in Queued : Join(i)
    \/ \E n \in 1..Len(line) : Leave(n)
    \/ Disperse
    \/ Serve
    \/ \E d \in Callers : Take(d) \/ TurnAway(d) \/ Release(d)

Spec == Init /\ [][Next]_lineVars
=============================================================================
