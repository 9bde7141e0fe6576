------------------------------ MODULE MCMazeLevel ------------------------------
(* An instance of MazeLevel: blocks of 3 x 3 pixels, a window of 8 x 5. *)
EXTENDS MazeLevel

\* The player's image is a diagonal.
Diagonal == {<<0, 0>>, <<1, 1>>}

=============================================================================
