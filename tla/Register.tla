------------------------------ MODULE Register ------------------------------
(***************************************************************************)
(* What a saved file promises: a save takes effect at once or not at all,  *)
(* a reader gets one whole content, and after a power cut the file holds a *)
(* content it held before, whole.                                          *)
(***************************************************************************)
CONSTANTS Readers, Contents, Initial

VARIABLES
    value,      \* the content a reader gets
    onDisk,     \* the content a power cut leaves
    seen        \* what each reader got last

Init == value = Initial /\ onDisk = Initial /\ seen = [r \in Readers |-> Initial]

Save == value' \in Contents /\ UNCHANGED <<onDisk, seen>>
Settle == onDisk' = value /\ UNCHANGED <<value, seen>>
Load(r) == seen' = [seen EXCEPT ![r] = value] /\ UNCHANGED <<value, onDisk>>
PowerCut == value' = onDisk /\ UNCHANGED <<onDisk, seen>>

Next == Save \/ Settle \/ PowerCut \/ \E r \in Readers : Load(r)
Spec == Init /\ [][Next]_<<value, onDisk, seen>>
=============================================================================
