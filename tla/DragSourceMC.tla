----------------------------- MODULE DragSourceMC ------------------------------
EXTENDS DragSource, TLC
\* The system may refuse to register the format.
MCPngFormats == {"49161", NoFormat}
\* Of three characters, two pixels by one: with and without alpha, and of
\* sixteen bits a channel.
MCRequests == {[path |-> 3, width |-> 2, height |-> 1, pixels |-> n] : n \in {8, 6, 16}}
Symmetry == Permutations(Addresses)
================================================================================
