---------------------------- MODULE MCVisibility ----------------------------
(* An instance of Visibility for TLC. *)
EXTENDS Visibility, TLC

Player == [type |-> "player", id |-> "c1"]
Tree == [type |-> "tree", id |-> "t1"]
Rock == [type |-> "rock", id |-> "r1"]

ThreeObjects == {Player, Tree, Rock}
TheTree == {Tree}

At(x, z, nan) == [shown |-> TRUE, known |-> TRUE, x |-> x, y |-> 0, z |-> z, nan |-> nan]

Unknown(x) == [At(x, 0, "none") EXCEPT !.known = FALSE]
Hidden(x) == [At(x, 0, "none") EXCEPT !.shown = FALSE]

(* Positions on both sides of the origin, at the edge of a radius and beyond
   it, not finite, and unknown; an object that hides. *)
FewStates ==
    (Player :> {At(0, 0, "none"), At(-1, 0, "none"), At(0, 0, "plane"), Unknown(0)})
    @@ (Tree :> {At(1, 0, "none"), At(-2, 2, "none"), At(0, 0, "plane")})
    @@ (Rock :> {At(0, 0, "depth"), Hidden(1)})

FewConfigs ==
    {[radius |-> 0, includeSelf |-> TRUE, depth |-> TRUE],
     [radius |-> 1, includeSelf |-> FALSE, depth |-> FALSE],
     [radius |-> 2, includeSelf |-> TRUE, depth |-> FALSE],
     [radius |-> Unlimited, includeSelf |-> TRUE, depth |-> TRUE]}
=============================================================================
