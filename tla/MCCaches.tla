------------------------------- MODULE MCCaches -------------------------------
EXTENDS CacheLayers

\* One row is written; the other is only read, and tells hits from misses.
Edited == CHOOSE r \in Row : TRUE
OneIsEdited ==
  /\ \A e \in Editor : editor'[e].row = Edited
  /\ \A c \in late' : c.row = Edited

MCSpec == Init /\ [][Next /\ OneIsEdited]_cacheVars
=============================================================================
