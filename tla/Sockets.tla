------------------------------ MODULE Sockets ------------------------------
(***************************************************************************)
(* The connections between the clients and the server, one per client.     *)
(* Both ends write a message with one send.  The stream keeps the order    *)
(* and loses nothing, but a read may return before all of a message is     *)
(* there (ShortReads).                                                     *)
(***************************************************************************)
EXTENDS Wire

CONSTANTS
  Client,
  ShortReads \* BOOLEAN: may a read return a part of a message?

VARIABLES
  listening, \* the server's socket accepts connections
  backlog,   \* clients whose connection waits to be accepted, oldest first
  conn       \* [Client -> [up, down]]: the messages under way, or NULL

sockets == <<listening, backlog, conn>>

Closed == [up |-> NULL, down |-> NULL]

SocketsInit ==
  /\ listening = TRUE
  /\ backlog = <<>>
  /\ conn = [c \in Client |-> Closed]

\* What a read returns to the server, and to the client.
RequestRead(c) == {conn[c].up} \cup (IF ShortReads THEN RequestParts(conn[c].up) ELSE {})

ReplyRead(c) == {conn[c].down} \cup (IF ShortReads THEN ReplyParts(conn[c].down) ELSE {})

=============================================================================
