--------------------------- MODULE MCAccessCache ----------------------------
EXTENDS AccessCache, TLC

MCRows == {[until |-> 1, deep |-> TRUE]}
MCClosures ==
    LET flat == {<<u, u>> : u \in Units}
    IN  {flat, flat \cup {<<Asked, u>> : u \in Units}}

=============================================================================
