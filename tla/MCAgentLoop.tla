---------------------------- MODULE MCAgentLoop ----------------------------
(* Instances of AgentLoop for TLC. *)
EXTENDS AgentLoop

ReadA   == [tool |-> "Read", path |-> <<"a">>]
ReadAll == [tool |-> "Read", path |-> <<>>]
WriteA  == [tool |-> "Write", path |-> <<"a">>]
Bash    == [tool |-> "Bash", path |-> <<>>]

MCActs == {ReadA, ReadAll, WriteA, Bash}
MCReplies == {<<ReadA>>, <<Bash>>, <<ReadAll, WriteA>>}
MCHistories == {<<"user", "assistant", "user">>}
=============================================================================
