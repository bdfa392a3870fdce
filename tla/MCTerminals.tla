----------------------------- MODULE MCTerminals -----------------------------
EXTENDS Terminals

\* A folder is within itself, and the one folder is within no other.
Alone == {<<f, f>> : f \in DevFolders \cup Sessions \cup {NoFolder}}
==============================================================================
