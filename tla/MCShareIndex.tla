---------------------------- MODULE MCShareIndex ----------------------------
(* ShareIndex on small instances: a folder with an image, a video or both.  *)
EXTENDS ShareIndex, TLC

KindByName == [p \in Path |-> CASE p = "photo" -> "image"
                               [] p = "clip"  -> "video"
                               [] OTHER       -> "other"]

(* Task ids are not symmetric: NewTask chooses one. *)
Symmetry == Permutations(Worker)

(* Where every statement and call succeeds. *)
UnfailingNext ==
  \/ \E s \in Share : Request(s)
  \/ \E w \in Worker : WorkerStep(w)
  \/ Restart

UnfailingSpec == Init /\ [][UnfailingNext]_vars /\ Fairness
=============================================================================
