------------------------ MODULE InvestigationStatus ------------------------
(***************************************************************************)
(* What the API promises about the status of an investigation: it is       *)
(* accepted once, as "planning"; it settles once, as "complete" or         *)
(* "failed"; and a settled investigation stays as it is (db/repository.py  *)
(* calls both "terminal status").                                          *)
(***************************************************************************)
VARIABLE status

Init == status = "none"

Accept == status = "none" /\ status' = "planning"

Settle == status = "planning" /\ status' \in {"complete", "failed"}

Spec == Init /\ [][Accept \/ Settle]_status
=============================================================================
