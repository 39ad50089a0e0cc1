------------------------------ MODULE MCMemory ------------------------------
(* An instance of Memory for TLC. *)
EXTENDS Memory

CONSTANTS boot, p1, p2

\* No executable; one page; two segments in one region that share a page; two
\* regions; a program that claims the page of the stack.
Programs == {<<>>,
             << <<<<<<"user", 1>>, 0>>>> >>,
             << <<<<<<"user", 1>>, 0>>, <<<<"user", 1>>, 1>>>>, <<<<<<"user", 1>>, 1>>>> >>,
             << <<<<<<"user", 1>>, 0>>, <<<<"user", 2>>, 0>>>> >>,
             << <<<<<<"user", 2>>, RegionPages - 1>>>> >>}
=============================================================================
