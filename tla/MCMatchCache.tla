---------------------------- MODULE MCMatchCache ----------------------------
\* One CHD: its header names it, and so does its container.
EXTENDS MatchCache
CONSTANT chd
OneFile == {chd}
BothKinds == [p \in OneFile |-> {"embedded", "file"}]
Lists == {{<<1, "embedded">>}, {<<1, "file">>}}
=============================================================================
