--------------------------- MODULE MCFileSystems ---------------------------
EXTENDS FileSystems

\* One file system with a directory that holds a file.
MCTree == [A |-> [root |-> [d |-> "dir"], dir |-> [f |-> "file"], file |-> <<>>]]
MCPaths == {<<"/", "m", "d", "f">>, <<"/", "m">>, <<"d", "f">>}
MCTargets == {<<"/", "m">>}
MCFifoData == {<<"a", "b">>}
MCTmpData == {<<"a">>, <<"b", "a">>}
=============================================================================
