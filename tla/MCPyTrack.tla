----------------------------- MODULE MCPyTrack -----------------------------
EXTENDS PyTrack

Box(l, x, y, a) == [label |-> l, at |-> <<x, y>>, area |-> a]

\* Nobody; one person in a corner or near the centre; two people, the larger first,
\* or one as large as the other; a person who comes last, with others beside.
MCScenes ==
    { <<>>,
      <<Box("person", 0, 80, 1)>>,
      <<Box("person", 45, 58, 1)>>,
      <<Box("person", 100, 50, 2), Box("person", 10, 50, 1)>>,
      <<Box("person", 30, 80, 1), Box("person", 60, 50, 1)>>,
      <<Box("other", 0, 0, 4), Box("person", 90, 50, 2), Box("person", 15, 50, 3)>> }
=============================================================================
