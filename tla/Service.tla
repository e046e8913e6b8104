------------------------------ MODULE Service ------------------------------
(***************************************************************************)
(* Clients and the server together: what the clients see of the cache that *)
(* server.cc keeps for them, and the properties of the whole.              *)
(***************************************************************************)
EXTENDS Server, Client, FiniteSets

\* What the messages of the clients may be taken for.
Commands ==
  UNION {UNION {Parse(r) : r \in {m} \cup (IF ShortReads THEN RequestParts(m) ELSE {})} :
         m \in {MakeHttpRequest(call) : call \in UNION {CallsOf[c] : c \in Client}}}

\* What Cache assumes of its constants for each limit (its other assumptions
\* hold through the type of index_type).  Every text that may be read as a key
\* or as a value is one.
ASSUME ServiceAssumption ==
  /\ HIGH_BIT \in Nat
  /\ KeySize \in [Key -> Nat \ {0}]
  /\ ValSize \in [Value -> Nat]
  /\ Hash \in [Key -> 0 .. 2 * HIGH_BIT - 1]
  /\ NULL \notin Value
  /\ Capacities \subseteq 1 .. HIGH_BIT - 1
  /\ \A cmd \in Commands :
       /\ cmd.op \in {"get", "delete", "set"} => cmd.key \in Key
       /\ cmd.op = "set" => cmd.val \in Value

vars == <<cache, thread, sockets, client>>

Init == SocketsInit /\ ServerInit /\ ClientInit

\* Anybody may send a datagram.
Datagram ==
  /\ phase # "exited"
  /\ ~udp
  /\ udp' = TRUE
  /\ UNCHANGED <<cache, is_unset, phase, cur, sockets, client>>

Next ==
  \/ ServerNext /\ UNCHANGED client
  \/ \E c \in Client : ClientNext(c) /\ UNCHANGED <<cache, thread>>
  \/ Datagram

\* The server's thread goes on while it can, and so does a client inside a
\* call.  Nobody has to make a call, and datagrams may come all the time.
Fairness ==
  /\ WF_vars(ServerNext /\ UNCHANGED client)
  /\ \A c \in Client : WF_vars(Proceed(c) /\ UNCHANGED <<cache, thread>>)

Spec == Init /\ [][Next]_vars /\ Fairness

-----------------------------------------------------------------------------
\* The server still has to deal with this connection.
Unserved(c) ==
  \/ client[c].st = "connected"
  \/ client[c].st \in {"sent", "gone", "failed"} /\ conn[c].up # NULL

(* While the server runs, each connection that is not yet served is at one *)
(* place only: once in the backlog, or in the server's hands.  No reply    *)
(* overtakes its request, and no connection is answered twice.             *)
ConnectionsExact ==
  /\ listening <=> phase # "exited"
  /\ cur # NULL <=> phase \in {"read", "set"}
  /\ listening => {c \in Client : Unserved(c)} = ToSet(backlog) \cup ({cur} \ {NULL})
  /\ IsInjective(backlog) /\ cur \notin ToSet(backlog)
  /\ \A c \in Client : conn[c].down # NULL =>
       conn[c].up = NULL /\ client[c].st \in {"sent", "gone", "failed"}

(* No client waits for ever: its call returns, or it is told by a reset    *)
(* connection that the server has ended.  Datagrams nobody reads keep the  *)
(* poll loop busy but never keep a waiting connection from being accepted. *)
EveryCallReturns == \A c \in Client : []<>~Waiting(c)

(* destroy_cache closes its socket without waiting for a reply; its        *)
(* request is served all the same, and the server ends.  (Who is gone      *)
(* stays so.)                                                              *)
DestroyEndsServer == []<>((\E c \in Client : client[c].st = "gone") => ~listening)

(* A change of the memory limit, which destroys the cache, never loses a   *)
(* value: whenever is_unset would let the server destroy it, its table     *)
(* holds no entry, whatever was set, evicted and deleted before.           *)
UnsetIsEmpty ==
  is_unset /\ phase # "set" =>
    \A i \in DOMAIN key_hashes : ~Lib(0)!IsLive(key_hashes[i])

\* The value the table holds under the key, whatever the limit is.
Stored(k) ==
  LET under_k == {i \in DOMAIN key_hashes :
                    Lib(0)!IsLive(key_hashes[i]) /\ entries[bookmarks[i]].key = k}
  IN IF under_k = {} THEN NULL ELSE entries[bookmarks[CHOOSE i \in under_k : TRUE]].value

\* The values under a key that its clients ask to be stored.
ValuesSet(k) ==
  {call.val : call \in {a \in UNION {CallsOf[c] : c \in Client} : a.op = "set" /\ a.key = k}}

(* What is stored under a key is what some caller set under it, whole and  *)
(* with nothing added: a deep copy of the value, as cache.h asks.          *)
StoresWhatWasSet == \A k \in Key : Stored(k) \in ValuesSet(k) \cup {NULL}

-----------------------------------------------------------------------------
(* Refinement.                                                             *)

CallState(c) ==
  CASE client[c].st = "sent" /\ conn[c].down # NULL -> "answered"
    [] Waiting(c) /\ conn[c].down = NULL -> "waiting"
    [] OTHER -> client[c].st

TooLongToSend == {a \in Key \X Value : 13 + Len(a[1]) + Len(a[2]) >= MAX_MESSAGE_SIZE}

OverrunningCalls == {call \in UNION {CallsOf[c] : c \in Client} : Overruns(call)}

Shared == INSTANCE SharedCache WITH
  Unsendable <- TooLongToSend,
  Fatal      <- OverrunningCalls,
  store      <- [k \in Key |-> Stored(k)],
  touched    <- ~is_unset,
  open       <- listening,
  calls      <- [c \in Client |->
    [st   |-> CallState(c),
     call |-> client[c].call,
     ret  |-> IF CallState(c) = "answered" THEN AnswerTo(client[c].call, conn[c].down)
                                           ELSE client[c].ret]]

(* The clients see one cache: each call takes effect at one moment between *)
(* its begin and its return and answers what that moment says, the limit   *)
(* changes only while nothing has ever been stored, and calls fail only    *)
(* once the cache has been destroyed.                                      *)
ServesAsOneCache == Shared!Spec

=============================================================================
