------------------------------- MODULE Client -------------------------------
(***************************************************************************)
(* client.cc: the functions of cache.h as one connection each.  A call     *)
(* connects, sends its request, reads once for the reply and closes;       *)
(* destroy_cache closes without reading.  A failed connect or read fails   *)
(* an assertion, which ends the client's program.                          *)
(*                                                                         *)
(* Undefined behaviour: a request that overruns its buffer by a byte does  *)
(* no harm or ends the program when the heap is used next.                 *)
(***************************************************************************)
EXTENDS Sockets

CONSTANT CallsOf \* [Client -> set of calls]: what each client may ask for

\* NULL is no client and no message.
ASSUME ClientAssumption ==
  /\ NULL \notin Client
  /\ \A c \in Client : \A call \in CallsOf[c] : MakeHttpRequest(call) # NULL

VARIABLE client \* [Client -> [st, call, ret]]: ret is what the last call returned

Waiting(c) == client[c].st \in {"connected", "sent"}

ClientInit ==
  client = [c \in Client |-> [st |-> "idle", call |-> NULL, ret |-> NULL]]

\* start_socket
Connect(c, call) ==
  /\ client[c].st = "idle"
  /\ listening
  /\ client' = [client EXCEPT ![c].st = "connected", ![c].call = call, ![c].ret = NULL]
  /\ backlog' = Append(backlog, c)
  /\ UNCHANGED <<listening, conn>>

ConnectRefused(c) ==
  /\ client[c].st = "idle"
  /\ ~listening
  /\ client' = [client EXCEPT ![c].st = "failed", ![c].ret = NULL]
  /\ UNCHANGED sockets

Send(c) ==
  /\ client[c].st = "connected"
  /\ listening
  /\ conn' = [conn EXCEPT ![c].up = MakeHttpRequest(client[c].call)]
  /\ client' = [client EXCEPT
       ![c].st = IF client[c].call.op = "destroy" THEN "gone" ELSE "sent"]
  /\ UNCHANGED <<listening, backlog>>

\* The program ends in a cache_set that has overrun its buffer: the memory is
\* allocated from and given back to only after the send.
Crash(c) ==
  /\ client[c].st = "sent"
  /\ Overruns(client[c].call)
  /\ client' = [client EXCEPT ![c] = [st |-> "failed", call |-> NULL, ret |-> NULL]]
  /\ conn' = [conn EXCEPT ![c].down = NULL]
  /\ UNCHANGED <<listening, backlog>>

\* The server's program has ended without a reply: its sockets are reset.
Reset(c) ==
  /\ Waiting(c)
  /\ ~listening
  /\ conn[c].down = NULL
  /\ client' = [client EXCEPT ![c] = [st |-> "failed", call |-> NULL, ret |-> NULL]]
  /\ conn' = [conn EXCEPT ![c] = Closed]
  /\ UNCHANGED <<listening, backlog>>

Receive(c) ==
  /\ client[c].st = "sent"
  /\ conn[c].down # NULL
  /\ \E p \in ReplyRead(c) :
       client' = [client EXCEPT
         ![c] = [st |-> "idle", call |-> NULL, ret |-> AnswerTo(client[c].call, p)]]
  /\ conn' = [conn EXCEPT ![c] = Closed]
  /\ UNCHANGED <<listening, backlog>>

\* The rest of a call that has connected.
Proceed(c) == Send(c) \/ Reset(c) \/ Receive(c)

ClientNext(c) ==
  \/ \E call \in CallsOf[c] : Connect(c, call)
  \/ ConnectRefused(c)
  \/ Crash(c)
  \/ Proceed(c)

=============================================================================
