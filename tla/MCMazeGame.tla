------------------------------ MODULE MCMazeGame ------------------------------
(***************************************************************************)
(* Model checking of MazeGame in a maze of 2 x 2 rooms (3 x 3 squares).     *)
(***************************************************************************)
EXTENDS MazeGame

Layout(f, e) == [fruit |-> f, exit |-> e]

\* The fruit where the player starts, or across the maze from it.
NearAndFar == {Layout(<<1, 1>>, <<3, 1>>), Layout(<<3, 3>>, <<1, 1>>)}

Far == {Layout(<<3, 3>>, <<1, 1>>)}

=============================================================================
