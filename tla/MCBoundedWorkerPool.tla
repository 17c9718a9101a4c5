------------------------ MODULE MCBoundedWorkerPool ------------------------
(***************************************************************************)
(* Instance for TLC.  Jobs are numbers and are handed over in increasing   *)
(* order.  The pool treats all jobs alike, so renaming jobs turns any      *)
(* behaviour into one of this form: the restriction is a symmetry          *)
(* reduction that, unlike SYMMETRY, TLC may combine with liveness.  It     *)
(* only cuts SubmitBegins, for which no fairness is assumed.               *)
(***************************************************************************)
EXTENDS BoundedWorkerPool

InOrder == Known \ {NoJob} = 1 .. Cardinality(Known \ {NoJob})

MCNext == Next /\ InOrder'

MCSpec == Init /\ [][MCNext]_vars /\ Fairness
=============================================================================
