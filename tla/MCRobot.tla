------------------------------ MODULE MCRobot ------------------------------
EXTENDS Robot

\* Two faces that differ in both coordinates, so that halves of two are seen.
MCFaces == {<<1, 2>>, <<3, 4>>}

=============================================================================
