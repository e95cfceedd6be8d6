------------------------------ MODULE BatchLoad ------------------------------
(***************************************************************************)
(* What both loaders (tools/upload1brc, tools/tsbsrw) promise about the    *)
(* batches they cut from a file: a batch is stored at most once however    *)
(* often it is sent, a batch counted as accepted is stored, and the        *)
(* summary appears only when every batch cut so far is accounted for.      *)
(* A batch counted as rejected or failed may still be in the table: the    *)
(* loader only knows the answers it saw.                                   *)
(***************************************************************************)
EXTENDS Naturals

CONSTANT Batches            \* the indices a batch can have, 0 .. n

VARIABLES offered,          \* batches 0 .. offered-1 have been cut
          outcome,          \* what the loader counted each batch as
          stored,           \* the batches the table holds
          status            \* "loading", "reported" or "died"

vars == <<offered, outcome, stored, status>>

Cut == 0 .. offered - 1

Init ==
    /\ offered = 0
    /\ outcome = [b \in Batches |-> "none"]
    /\ stored = {}
    /\ status = "loading"

Offer ==
    /\ status = "loading"
    /\ offered \in Batches
    /\ offered' = offered + 1
    /\ UNCHANGED <<outcome, stored, status>>

\* The server may still commit a request the loader has given up.
Store(b) ==
    /\ b \in Cut \ stored
    /\ stored' = stored \cup {b}
    /\ UNCHANGED <<offered, outcome, status>>

Resolve(b, o) ==
    /\ status = "loading"
    /\ b \in Cut /\ outcome[b] = "none"
    /\ o = "accepted" => b \in stored
    /\ outcome' = [outcome EXCEPT ![b] = o]
    /\ UNCHANGED <<offered, stored, status>>

Report ==
    /\ status = "loading"
    /\ \A b \in Cut : outcome[b] # "none"
    /\ status' = "reported"
    /\ UNCHANGED <<offered, outcome, stored>>

Die ==
    /\ status = "loading"
    /\ status' = "died"
    /\ UNCHANGED <<offered, outcome, stored>>

Next ==
    \/ Offer \/ Report \/ Die
    \/ \E b \in Batches : Store(b)
    \/ \E b \in Batches, o \in {"accepted", "rejected", "failed"} : Resolve(b, o)

Spec == Init /\ [][Next]_vars
=============================================================================
