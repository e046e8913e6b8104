------------------------------- MODULE Server -------------------------------
(***************************************************************************)
(* server.cc: one thread that waits for a connection, reads one request,   *)
(* serves it from its cache, replies, and closes the connection.  The      *)
(* cache is Cache, the library the server is linked with.                  *)
(*                                                                         *)
(* Between the read and the reply nothing outside the thread matters, so a *)
(* request is served in one action; a PUT takes the steps of a cache_set.  *)
(* A step of the library that would be undefined behaviour is not taken:   *)
(* the thread is then stuck inside the request.                            *)
(***************************************************************************)
EXTENDS Sockets

CONSTANTS
  Key, KeySize, ValSize, Hash, HIGH_BIT, HASH_MULTIPLIER,
  INIT_ENTRY_CAPACITY, MAX_ENTRY_CAPACITY, \* of Cache
  Capacities \* the memory limits that can be asked for, all of them valid

VARIABLES
  mem_total, entry_capacity, entry_total, dead_total, key_hashes, bookmarks,
  entries, book, list, pc, arg, at, old, ret, \* the cache
  mem_capacity, \* the memory limit it was created with
  is_unset, \* nothing has been stored in the cache since it was created
  phase,    \* "poll", "read", "set" (in cache_set), "udp" or "exited"
  cur,      \* the client whose connection new_socket is, or NULL
  udp       \* a datagram waits at the UDP socket

cache == <<mem_total, entry_capacity, entry_total, dead_total, key_hashes, bookmarks,
           entries, book, list, pc, arg, at, old, ret, mem_capacity>>
thread == <<is_unset, phase, cur, udp>>

\* The library, on a cache created with the limit max_mem.
Lib(max_mem) == INSTANCE Cache WITH
  MEM_CAPACITY <- max_mem, ValuesOf <- [k \in Key |-> Value]

ServerInit ==
  /\ \E max_mem \in Capacities : mem_capacity = max_mem /\ Lib(max_mem)!Init
  /\ is_unset = TRUE
  /\ phase = "poll"
  /\ cur = NULL
  /\ udp = FALSE

-----------------------------------------------------------------------------
(* Waiting for something to do.  The TCP socket is looked at first.        *)

\* (a variant: the accepted connection stays in the backlog)
AcceptAgain ==
  /\ phase = "poll"
  /\ backlog # <<>>
  /\ cur' = Head(backlog)
  /\ phase' = "read"
  /\ UNCHANGED <<cache, sockets, is_unset, udp>>

Accept ==
  /\ phase = "poll"
  /\ backlog # <<>>
  /\ cur' = Head(backlog)
  /\ backlog' = Tail(backlog)
  /\ phase' = "read"
  /\ UNCHANGED <<cache, listening, conn, is_unset, udp>>

\* (a variant: the UDP socket is looked at first)
PollUdpFirst ==
  /\ phase = "poll"
  /\ udp
  /\ phase' = "udp"
  /\ UNCHANGED <<cache, sockets, is_unset, cur, udp>>

PollUdp ==
  /\ phase = "poll"
  /\ backlog = <<>>
  /\ udp
  /\ phase' = "udp"
  /\ UNCHANGED <<cache, sockets, is_unset, cur, udp>>

\* accept fails on a UDP socket, and read and send fail on its result: the
\* 413 reaches nobody and the datagram stays where it is.
ServeUdp ==
  /\ phase = "udp"
  /\ phase' = "poll"
  /\ UNCHANGED <<cache, sockets, is_unset, cur, udp>>

-----------------------------------------------------------------------------
(* Serving a request, from a cache of limit max_mem.                       *)

\* What the request in hand may be taken for; nothing before it is there.
Received ==
  IF phase = "read" /\ conn[cur].up # NULL
  THEN UNION {Parse(r) : r \in RequestRead(cur)} ELSE {}

\* send and close
Respond(code, val, number) ==
  /\ conn' = [conn EXCEPT ![cur] = [up |-> NULL, down |-> Reply(code, val, number)]]
  /\ phase' = "poll"
  /\ cur' = NULL
  /\ UNCHANGED <<listening, backlog, udp>>

ServeGet(max_mem, cmd) ==
  /\ cmd.op = "get"
  /\ Lib(max_mem)!Get(cmd.key)
  /\ IF ret'.val = NULL THEN Respond(404, NULL, NULL)
     ELSE IF Len(cmd.key) + Len(ret'.val) >= MAX_MESSAGE_SIZE THEN Respond(413, NULL, NULL)
     ELSE Respond(200, ret'.val, NULL)
  /\ UNCHANGED <<mem_capacity, is_unset>>

ServeSpace(max_mem, cmd) ==
  /\ cmd.op = "space"
  /\ Lib(max_mem)!SpaceUsed
  /\ Respond(200, NULL, ret'.code)
  /\ UNCHANGED <<mem_capacity, is_unset>>

ServeDelete(max_mem, cmd) ==
  /\ cmd.op = "delete"
  /\ Lib(max_mem)!Delete(cmd.key)
  /\ Respond(IF ret'.code < 0 THEN 404 ELSE 200, NULL, NULL)
  /\ UNCHANGED <<mem_capacity, is_unset>>

\* (a variant: the result of cache_set is not tested for failure)
RefusePutSilently(max_mem, cmd) ==
  /\ cmd.op = "set"
  /\ Lib(max_mem)!SetTooLarge(cmd.key, cmd.val)
  /\ Respond(200, NULL, NULL)
  /\ UNCHANGED <<mem_capacity, is_unset>>

\* cache_set refuses the value.
RefusePut(max_mem, cmd) ==
  /\ cmd.op = "set"
  /\ Lib(max_mem)!SetTooLarge(cmd.key, cmd.val)
  /\ Respond(413, NULL, NULL)
  /\ UNCHANGED <<mem_capacity, is_unset>>

BeginPut(max_mem, cmd) ==
  /\ cmd.op = "set"
  /\ Lib(max_mem)!SetExisting(cmd.key, cmd.val) \/ Lib(max_mem)!SetNew(cmd.key, cmd.val)
  /\ phase' = "set"
  /\ UNCHANGED <<sockets, mem_capacity, is_unset, cur, udp>>

\* (a variant: the flag is kept)
ContinuePutUnset(max_mem) ==
  /\ phase = "set"
  /\ Lib(max_mem)!Continue
  /\ IF pc' = "idle" THEN Respond(IF ret'.code = 0 THEN 201 ELSE 200, NULL, NULL)
                     ELSE UNCHANGED <<sockets, phase, cur, udp>>
  /\ UNCHANGED <<mem_capacity, is_unset>>

\* cache_set goes on; the reply follows its last step.
ContinuePut(max_mem) ==
  /\ phase = "set"
  /\ Lib(max_mem)!Continue
  /\ IF pc' = "idle"
     THEN /\ Respond(IF ret'.code = 0 THEN 201 ELSE 200, NULL, NULL)
          /\ is_unset' = (is_unset /\ ret'.code # 0)
     ELSE UNCHANGED <<sockets, thread>>
  /\ UNCHANGED mem_capacity

\* create_cache
CreateCache(max_mem) ==
  LET Page == 0 .. INIT_ENTRY_CAPACITY - 1
      Slot == 0 .. Lib(max_mem)!GetHashTableCapacity(INIT_ENTRY_CAPACITY) - 1
  IN
  /\ mem_total' = 0
  /\ entry_capacity' = INIT_ENTRY_CAPACITY
  /\ entry_total' = 0
  /\ dead_total' = 0
  /\ key_hashes' = [i \in Slot |-> Lib(max_mem)!EMPTY]
  /\ bookmarks' = [i \in Slot |-> JUNK]
  /\ entries' = [p \in Page |-> Lib(max_mem)!JunkEntry]
  /\ book' = Lib(max_mem)!CreateBook(Page)
  /\ list' = Lib(max_mem)!EmptyList(Page)
  /\ mem_capacity' = max_mem
  /\ UNCHANGED <<pc, arg, at, old, ret>>

\* The cache is destroyed, and another one takes its place.
Recreate(max_mem, new_max_mem) ==
  /\ \A i \in Lib(max_mem)!LiveSlots : Lib(max_mem)!Removable(i)
  /\ CreateCache(new_max_mem)

ServeMemsize(max_mem, cmd) ==
  /\ cmd.op = "memsize"
  /\ IF is_unset /\ cmd.number \in Capacities
     THEN Recreate(max_mem, cmd.number) /\ Respond(200, NULL, NULL)
     ELSE UNCHANGED cache /\ Respond(405, NULL, NULL)
  /\ UNCHANGED is_unset

ServeOther(cmd) ==
  /\ cmd.op \in {"head", "bad", "too_large"}
  /\ Respond(CASE cmd.op = "head" -> 200 [] cmd.op = "bad" -> 400
               [] cmd.op = "too_large" -> 413, NULL, NULL)
  /\ UNCHANGED <<cache, is_unset>>

\* (a variant: the reply is sent and the loop goes on)
ShutdownContinues(cmd) ==
  /\ cmd.op = "shutdown"
  /\ Respond(200, NULL, NULL)
  /\ UNCHANGED <<cache, is_unset>>

\* The reply is sent, then the program ends; connections that wait are reset.
Shutdown(cmd) ==
  /\ cmd.op = "shutdown"
  /\ conn' = [conn EXCEPT ![cur] = [up |-> NULL, down |-> Reply(200, NULL, NULL)]]
  /\ phase' = "exited"
  /\ cur' = NULL
  /\ listening' = FALSE
  /\ backlog' = <<>>
  /\ UNCHANGED <<cache, is_unset, udp>>

Serve(max_mem, cmd) ==
  \/ ServeGet(max_mem, cmd) \/ ServeSpace(max_mem, cmd) \/ ServeDelete(max_mem, cmd)
  \/ RefusePut(max_mem, cmd) \/ BeginPut(max_mem, cmd) \/ ServeMemsize(max_mem, cmd)
  \/ ServeOther(cmd) \/ Shutdown(cmd)

ServerNext ==
  \/ Accept \/ PollUdp \/ ServeUdp
  \/ \E max_mem \in {mem_capacity} :
       ContinuePut(max_mem) \/ \E cmd \in Received : Serve(max_mem, cmd)

=============================================================================
