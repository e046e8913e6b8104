---------------------------- MODULE SharedCache ----------------------------
(***************************************************************************)
(* What the clients of a server may expect: one cache, on which every call *)
(* takes effect at one moment between its begin and its return, and which  *)
(* forgets a value only for want of room, as cache.h asks.  The space used *)
(* is answered as cache.cc counts it, keys included; cache.h asks for the  *)
(* values only.                                                            *)
(***************************************************************************)
EXTENDS Sizes

CONSTANTS
  Client,
  CallsOf,    \* [Client -> set of calls]
  Capacities, \* the memory limits the cache may have
  Unsendable, \* pairs <<key, value>> too long for a message
  Fatal       \* calls that may end the program that makes them

VARIABLES
  store,        \* the value of each key, NULL when it has none
  mem_capacity, \* the memory limit
  touched,      \* something has been stored since the cache was created
  open,         \* the cache has not been destroyed
  calls         \* [Client -> [st, call, ret]]

vars == <<store, mem_capacity, touched, open, calls>>

Init ==
  /\ store = [k \in Key |-> NULL]
  /\ mem_capacity \in Capacities
  /\ touched = FALSE
  /\ open = TRUE
  /\ calls = [c \in Client |-> [st |-> "idle", call |-> NULL, ret |-> NULL]]

Begin(c, call) ==
  /\ open
  /\ calls[c].st = "idle"
  /\ calls' = [calls EXCEPT ![c] = [st |-> "waiting", call |-> call, ret |-> NULL]]
  /\ UNCHANGED <<store, mem_capacity, touched, open>>

-----------------------------------------------------------------------------
(* The moment a call takes effect.                                         *)

Answered(c, code, val) ==
  calls' = [calls EXCEPT ![c].st = "answered", ![c].ret = [code |-> code, val |-> val]]

TakeSet(c) == LET k == calls[c].call.key
                  v == calls[c].call.val IN
  /\ calls[c].call.op = "set"
  /\ <<k, v>> \notin Unsendable
  /\ store' = [store EXCEPT ![k] = v]
  /\ Used(store') <= mem_capacity
  /\ touched' = TRUE
  /\ Answered(c, 0, NULL)
  /\ UNCHANGED <<mem_capacity, open>>

RefuseSet(c) == LET k == calls[c].call.key
                    v == calls[c].call.val IN
  /\ calls[c].call.op = "set"
  /\ <<k, v>> \in Unsendable \/ Size(k, v) > mem_capacity
  /\ Answered(c, -1, NULL)
  /\ UNCHANGED <<store, mem_capacity, touched, open>>

TakeGet(c) ==
  /\ calls[c].call.op = "get"
  /\ Answered(c, 0, store[calls[c].call.key])
  /\ UNCHANGED <<store, mem_capacity, touched, open>>

TakeDelete(c) == LET k == calls[c].call.key IN
  /\ calls[c].call.op = "delete"
  /\ store' = [store EXCEPT ![k] = NULL]
  /\ Answered(c, IF store[k] = NULL THEN -1 ELSE 0, NULL)
  /\ UNCHANGED <<mem_capacity, touched, open>>

\* (unlike cache.h, line 42: the keys count too)
TakeSpace(c) ==
  /\ calls[c].call.op = "space"
  /\ Answered(c, Used(store), NULL)
  /\ UNCHANGED <<store, mem_capacity, touched, open>>

\* The limit may be changed, to a valid one, until something is stored.
TakeMemsize(c) == LET max_mem == calls[c].call.number IN
  /\ calls[c].call.op = "memsize"
  /\ IF ~touched /\ max_mem \in Capacities
     THEN mem_capacity' = max_mem /\ Answered(c, 0, NULL)
     ELSE UNCHANGED mem_capacity /\ Answered(c, -1, NULL)
  /\ UNCHANGED <<store, touched, open>>

TakeOther(c) ==
  /\ calls[c].call.op \in {"head", "nothing"}
  /\ Answered(c, IF calls[c].call.op = "head" THEN 0 ELSE -1, NULL)
  /\ UNCHANGED <<store, mem_capacity, touched, open>>

-----------------------------------------------------------------------------
\* A key loses its value only while a set of another key lacks the room: what
\* cache.h allows a set to do, which is less than what cache_set does.
Forget(k) ==
  /\ open
  /\ \E c \in Client :
       /\ calls[c].st = "waiting"
       /\ calls[c].call.op = "set"
       /\ calls[c].call.key # k
       /\ Used([store EXCEPT ![calls[c].call.key] = calls[c].call.val]) > mem_capacity
  /\ store' = [store EXCEPT ![k] = NULL]
  /\ UNCHANGED <<mem_capacity, touched, open, calls>>

Return(c) ==
  /\ calls[c].st = "answered"
  /\ calls' = [calls EXCEPT ![c].st = "idle", ![c].call = NULL]
  /\ UNCHANGED <<store, mem_capacity, touched, open>>

\* destroy_cache returns at once; the cache is closed some time later.
Leave(c) ==
  /\ calls[c].st = "waiting"
  /\ calls[c].call.op = "destroy"
  /\ calls' = [calls EXCEPT ![c].st = "gone"]
  /\ UNCHANGED <<store, mem_capacity, touched, open>>

Close ==
  /\ open
  /\ \E c \in Client : calls[c].st = "gone"
  /\ open' = FALSE
  /\ UNCHANGED <<store, mem_capacity, touched, calls>>

\* Only a cache that has been destroyed fails its callers.
Fail(c) ==
  /\ ~open
  /\ calls[c].st \in {"idle", "waiting"}
  /\ calls' = [calls EXCEPT ![c] = [st |-> "failed", call |-> NULL, ret |-> NULL]]
  /\ UNCHANGED <<store, mem_capacity, touched, open>>

Crash(c) ==
  /\ calls[c].st \in {"waiting", "answered"}
  /\ calls[c].call \in Fatal
  /\ calls' = [calls EXCEPT ![c] = [st |-> "failed", call |-> NULL, ret |-> NULL]]
  /\ UNCHANGED <<store, mem_capacity, touched, open>>

Take(c) ==
  /\ open
  /\ calls[c].st = "waiting"
  /\ \/ TakeSet(c) \/ RefuseSet(c) \/ TakeGet(c) \/ TakeDelete(c)
     \/ TakeSpace(c) \/ TakeMemsize(c) \/ TakeOther(c)

Next ==
  \/ \E c \in Client : \/ \E call \in CallsOf[c] : Begin(c, call)
                       \/ Take(c) \/ Return(c) \/ Leave(c) \/ Fail(c) \/ Crash(c)
  \/ \E k \in Key : Forget(k)
  \/ Close

Spec == Init /\ [][Next]_vars

=============================================================================
