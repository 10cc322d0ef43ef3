------------------------------ MODULE MCGitExec ------------------------------
EXTENDS GitExec, TLC

CONSTANTS x, y, here

Together == [c \in Calls |-> here]

\* Writes, one of them behind a global flag, reads that look like one, and a read.
Writes == {<<"-c", "a=b", "commit">>, <<"apply", "--index">>}
Reads == {<<"log">>, <<"submodule", "status">>, <<"apply", "--check">>,
          <<"--no-pager", "-C", "d", "stash", "show">>}
Every == Writes \cup Reads
=============================================================================
