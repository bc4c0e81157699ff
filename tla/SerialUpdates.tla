----------------------------- MODULE SerialUpdates -----------------------------
(* What the lock promises the work it protects: the calls hold the document   *)
(* one at a time, and a write adds the writer's update to all earlier ones,   *)
(* until a holder is robbed of its lock or a call goes ahead without one.     *)
EXTENDS Naturals

CONSTANT Calls

VARIABLES
    holding,   \* the calls between taking the lock and giving it back
    doc,       \* the updates that the document has
    weakened   \* a holder was robbed, or a call went without: no more promises

serial == <<holding, doc, weakened>>

Init == holding = {} /\ doc = {} /\ weakened = FALSE

Enter(t) ==
    /\ holding = {} \/ weakened
    /\ holding' = holding \cup {t}
    /\ UNCHANGED <<doc, weakened>>

Update(t) ==
    /\ t \in holding /\ doc' = doc \cup {t}
    /\ UNCHANGED <<holding, weakened>>

\* The lock is given back, or the holder dies.
Leave(t) ==
    /\ t \in holding /\ holding' = holding \ {t}
    /\ UNCHANGED <<doc, weakened>>

Weaken ==
    /\ weakened' = TRUE
    /\ UNCHANGED <<holding, doc>>

\* A write from an older copy loses the updates in between.
Overwrite ==
    /\ weakened /\ doc' \in SUBSET Calls
    /\ UNCHANGED <<holding, weakened>>

Next == Weaken \/ Overwrite \/ \E t \in Calls : Enter(t) \/ Update(t) \/ Leave(t)

Spec == Init /\ [][Next]_serial
================================================================================
