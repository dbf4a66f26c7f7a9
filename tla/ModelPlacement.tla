--------------------------- MODULE ModelPlacement ---------------------------
(***************************************************************************)
(* What moving a model promises whoever pulls it, without the copying, the *)
(* worker or the requests: the model has one place, which holds all of it; *)
(* it goes from there to another place in one step, and only to one that   *)
(* already holds all of it.  Copies elsewhere come and go.                 *)
(***************************************************************************)
CONSTANT Places

VARIABLES
    place,  \* where the model is
    whole   \* the places that hold a whole copy

Init == whole \in SUBSET Places /\ place \in whole

(* A copy becomes whole: it has been written, or renamed into place. *)
Complete(p) ==
    /\ whole' = whole \union {p}
    /\ UNCHANGED place

(* A copy the model is not served from is damaged or removed. *)
Lose(p) ==
    /\ p # place
    /\ whole' = whole \ {p}
    /\ UNCHANGED place

(* The switch. *)
Switch(p) ==
    /\ p \in whole
    /\ place' = p
    /\ UNCHANGED whole

Next == \E p \in Places : Complete(p) \/ Lose(p) \/ Switch(p)

Spec == Init /\ [][Next]_<<place, whole>>
=============================================================================
