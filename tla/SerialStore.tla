---------------------------- MODULE SerialStore ----------------------------
(***************************************************************************)
(* What the runs of one market may rely on when they persist their         *)
(* societies: the store looks as if they had done so one after the other,  *)
(* each of them at once.                                                   *)
(***************************************************************************)
CONSTANTS
    Runs,
    Needs       \* of a run: the contents its personas refer to

VARIABLES
    saved,      \* the runs whose society is stored
    records,    \* of the contents, with the run that wrote each
    links       \* of a run: the records its personas refer to

vars == <<saved, records, links>>

Init == saved = {} /\ records = {} /\ links = [r \in Runs |-> {}]

\* What the run is the first to bring.
New(r) == {c \in Needs[r] : \A q \in Runs : <<c, q>> \notin records}

\* A record for each new content, and links to the records of all it needs.
Save(r) ==
    /\ r \notin saved
    /\ saved' = saved \cup {r}
    /\ records' = records \cup (New(r) \X {r})
    /\ links' = [links EXCEPT ![r] = {rec \in records' : rec[1] \in Needs[r]}]

Next == \E r \in Runs : Save(r)

Spec == Init /\ [][Next]_vars
=============================================================================
