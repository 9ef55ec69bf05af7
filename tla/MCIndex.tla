------------------------------- MODULE MCIndex -------------------------------
(* What indexing writes, on small instances: the rows, the connections     *)
(* they are written by, the posters beside the images.  No property speaks *)
(* of two of these parts and they share no variable, so that a behaviour   *)
(* of one part, chosen at the start, shows all that their interleavings    *)
(* would.  Workers, images and makers are alike.                           *)
EXTENDS MCShareIndex, SharesDb, PosterSidecar

VARIABLE part

indexVars == <<vars, dbVars, posterVars, part>>

IndexTypeOK ==
  /\ part \in {"rows", "connections", "posters"}
  /\ TypeOK /\ DbTypeOK /\ PosterTypeOK

IndexInit ==
  /\ part \in {"rows", "connections", "posters"}
  /\ Init /\ DbInit /\ PosterInit

OfRows        == part = "rows"        /\ UNCHANGED <<dbVars, posterVars, part>>
OfConnections == part = "connections" /\ UNCHANGED <<vars, posterVars, part>>
OfPosters     == part = "posters"     /\ UNCHANGED <<vars, dbVars, part>>

IndexNext ==
  \/ \E s \in Share : OfRows /\ Request(s)
  \/ \E w \in Worker : OfRows /\ WorkerStep(w)
  \/ \E w \in Worker : OfRows /\ StatementRaises(w)
  \/ \E w \in Worker : OfRows /\ MarkDies(w)
  \/ \E w \in Worker, t \in Task : OfRows /\ ClaimDies(w, t)
  \/ \E s \in Share : OfRows /\ RequestFails(s)
  \/ OfRows /\ Restart
  \/ \E t \in Connection :
       \/ OfConnections /\ Select(t)
       \/ OfConnections /\ TurnsTo(t)
       \/ OfConnections /\ Writes(t)
       \/ OfConnections /\ TurnedAway(t)
       \/ OfConnections /\ Refused(t)
       \/ OfConnections /\ RolledBack(t)
       \/ OfConnections /\ ThreadEnds(t)
  \/ OfConnections /\ NodeStarts
  \/ \E i \in Image : OfPosters /\ EnqueuePoster(i)
  \/ \E m \in Maker :
       \/ OfPosters /\ Makes(m)
       \/ OfPosters /\ CannotStart(m)
       \/ OfPosters /\ SaveFails(m)
  \/ OfPosters /\ MakersStop
  \/ \E i \in Image, keepsTime \in BOOLEAN : OfPosters /\ Edit(i, keepsTime)

IndexSpec == IndexInit /\ [][IndexNext]_indexVars

AllSymmetric ==
  Symmetry \cup Permutations(Image) \cup Permutations(Maker)
=============================================================================
