------------------------------ MODULE MCProcess ------------------------------
EXTENDS Process, TLC

BothEndpoints ==
  [help |-> FALSE, invalid |-> FALSE, file |-> TRUE, address |-> TRUE, works |-> TRUE]
UnixOnly == [BothEndpoints EXCEPT !.address = FALSE]
TcpOnly == [BothEndpoints EXCEPT !.file = FALSE]
NoEndpoint == [TcpOnly EXCEPT !.address = FALSE]
BrokenLogger == [UnixOnly EXCEPT !.works = FALSE]
Help == [UnixOnly EXCEPT !.help = TRUE, !.invalid = TRUE]
Invalid == [UnixOnly EXCEPT !.invalid = TRUE]

SoundCommands == {BothEndpoints, UnixOnly, TcpOnly}
AllCommands == SoundCommands \cup {NoEndpoint, BrokenLogger, Help, Invalid}
===============================================================================
