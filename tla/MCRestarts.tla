----------------------------- MODULE MCRestarts -----------------------------
(* Instances of Restarts for TLC. *)
EXTENDS Restarts, TLC

CONSTANTS old, new1, new2

\* Two containers of the newer image and one of the older.
MCHead == (old :> 2 @@ new1 :> 3 @@ new2 :> 3)

\* Two commands for one robot, one for another, and one that does not verify; the
\* last command is fresh only after the others are stale.
MCRobot == ("first" :> "arm" @@ "second" :> "arm" @@ "other" :> "dog" @@ "forged" :> "arm")
MCSeq == ("first" :> 1 @@ "second" :> 2 @@ "other" :> 1 @@ "forged" :> 3)
MCSignedAt == ("first" :> 0 @@ "second" :> 1 @@ "other" :> 3 @@ "forged" :> 0)

Symmetric == Permutations({new1, new2}) \cup Permutations(Handlers)
=============================================================================
