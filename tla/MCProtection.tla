---------------------------- MODULE MCProtection -----------------------------
(***************************************************************************)
(* TLC's instance of Protection: a directory of seven entries, in which the *)
(* program's, the one after it and vidmap's are apart as in the code, frames *)
(* for three processes, and of every kind of page one.                      *)
(***************************************************************************)
EXTENDS Protection

\* The first page, the screen, a backing page, the kernel, a program's page
\* and two of the region that vidmap uses.
WatchedPages == {<<0, 0>>, <<0, 1>>, <<0, 2>>, <<1, 3>>, <<2, 1>>, <<4, 0>>, <<4, 1>>}

BothBoots == {TRUE, FALSE}
=============================================================================
