--------------------------- MODULE Service_proofs ---------------------------
(***************************************************************************)
(* For any number of clients, any calls and any delivery of the messages,  *)
(* short reads included: connections are served once each, and a change of *)
(* the memory limit loses nothing.                                         *)
(***************************************************************************)
EXTENDS Service, TLAPS

-----------------------------------------------------------------------------
(* The backlog as a sequence.                                              *)

\* What accept leaves of the backlog.
LEMMA TailExact ==
  ASSUME NEW S, NEW s \in Seq(S), s # <<>>, IsInjective(s)
  PROVE  /\ Head(s) \in S /\ Tail(s) \in Seq(S)
         /\ IsInjective(Tail(s))
         /\ Head(s) \notin ToSet(Tail(s))
         /\ ToSet(s) = ToSet(Tail(s)) \cup {Head(s)}
<1>1. /\ Len(s) \in Nat \ {0} /\ Head(s) = s[1] /\ Head(s) \in S
      /\ DOMAIN s = 1 .. Len(s)
  OBVIOUS
<1>2. /\ Tail(s) \in Seq(S) /\ DOMAIN Tail(s) = 1 .. Len(s) - 1
      /\ \A i \in 1 .. Len(s) - 1 : Tail(s)[i] = s[i + 1]
  BY <1>1
<1>3. IsInjective(Tail(s))
  BY <1>1, <1>2 DEF IsInjective
<1>4. Head(s) \notin ToSet(Tail(s))
  BY <1>1, <1>2 DEF IsInjective, ToSet
<1>5. ToSet(s) \subseteq ToSet(Tail(s)) \cup {Head(s)}
  <2>1. SUFFICES ASSUME NEW i \in 1 .. Len(s), i # 1
                 PROVE  s[i] \in ToSet(Tail(s))
    BY <1>1 DEF ToSet
  <2>2. i - 1 \in 1 .. Len(s) - 1 /\ Tail(s)[i - 1] = s[i]
    BY <1>1, <1>2, <2>1
  <2> QED
    BY <1>2, <2>2 DEF ToSet
<1>6. ToSet(Tail(s)) \cup {Head(s)} \subseteq ToSet(s)
  BY <1>1, <1>2 DEF ToSet
<1> QED
  BY <1>1, <1>2, <1>3, <1>4, <1>5, <1>6

\* What connect makes of the backlog.
LEMMA AppendExact ==
  ASSUME NEW S, NEW s \in Seq(S), NEW x \in S, IsInjective(s), x \notin ToSet(s)
  PROVE  /\ Append(s, x) \in Seq(S)
         /\ IsInjective(Append(s, x))
         /\ ToSet(Append(s, x)) = ToSet(s) \cup {x}
<1>1. /\ Len(s) \in Nat /\ DOMAIN s = 1 .. Len(s)
      /\ Append(s, x) \in Seq(S) /\ DOMAIN Append(s, x) = 1 .. Len(s) + 1
      /\ Append(s, x)[Len(s) + 1] = x
      /\ \A i \in 1 .. Len(s) : Append(s, x)[i] = s[i]
  OBVIOUS
<1>2. \A i \in 1 .. Len(s) : s[i] # x
  BY <1>1 DEF ToSet
<1>3. IsInjective(Append(s, x))
  BY <1>1, <1>2 DEF IsInjective
<1>4. ToSet(Append(s, x)) = ToSet(s) \cup {x}
  BY <1>1 DEF ToSet
<1> QED
  BY <1>1, <1>3, <1>4

-----------------------------------------------------------------------------
(* The inductive invariant.                                                *)

States == {"idle", "connected", "sent", "gone", "failed"}

\* The fields of the records, whatever they hold.
Shape ==
  /\ client = [c \in Client |-> client[c]]
  /\ conn = [c \in Client |-> conn[c]]
  /\ \A c \in Client :
       /\ client[c] = [st |-> client[c].st, call |-> client[c].call, ret |-> client[c].ret]
       /\ client[c].st \in States
       /\ conn[c] = [up |-> conn[c].up, down |-> conn[c].down]

ServerTypes ==
  /\ listening \in BOOLEAN
  /\ backlog \in Seq(Client)
  /\ cur \in Client \cup {NULL}
  /\ phase \in {"poll", "read", "set", "udp", "exited"}

\* What a connection holds tells how far its call is; the server is inside
\* cache_set only for a request that has been read.
Progress ==
  /\ \A c \in Client : client[c].st = "connected" => client[c].call \in CallsOf[c]
  /\ \A c \in Client : conn[c].up # NULL => client[c].st \in {"sent", "gone", "failed"}
  /\ phase = "set" => conn[cur].up # NULL

IInv == Shape /\ ServerTypes /\ Progress /\ ConnectionsExact

LEMMA IInvInit == Init => IInv
<1> SUFFICES ASSUME Init PROVE IInv
  OBVIOUS
<1> USE DEF Init, SocketsInit, ServerInit, ClientInit, Closed
<1>1. Shape
  BY DEF Shape, States
<1>2. ServerTypes
  BY DEF ServerTypes
<1>3. Progress
  BY DEF Progress
<1>4. ToSet(backlog) = {} /\ IsInjective(backlog)
  BY DEF ToSet, IsInjective
<1>5. {c \in Client : Unserved(c)} = {}
  BY DEF Unserved
<1>6. ConnectionsExact
  BY <1>4, <1>5 DEF ConnectionsExact
<1> QED
  BY <1>1, <1>2, <1>3, <1>6 DEF IInv

-----------------------------------------------------------------------------
(* The server's steps.                                                     *)

LEMMA AcceptKeeps ==
  ASSUME IInv, Accept, UNCHANGED client PROVE IInv'
<1> USE DEF IInv
<1>1. /\ Head(backlog) \in Client /\ Tail(backlog) \in Seq(Client)
      /\ IsInjective(Tail(backlog))
      /\ Head(backlog) \notin ToSet(Tail(backlog))
      /\ ToSet(backlog) = ToSet(Tail(backlog)) \cup {Head(backlog)}
  BY TailExact DEF ServerTypes, ConnectionsExact, Accept
<1>2. /\ cur = NULL /\ listening
      /\ cur' = Head(backlog) /\ backlog' = Tail(backlog) /\ phase' = "read"
      /\ UNCHANGED <<listening, conn, client>>
  BY DEF ServerTypes, ConnectionsExact, Accept
<1>3. Shape'
  BY <1>2 DEF Shape
<1>4. ServerTypes'
  BY <1>1, <1>2 DEF ServerTypes
<1>5. Progress'
  BY <1>2 DEF Progress
<1>6. ConnectionsExact'
  <2>1. {c \in Client : Unserved(c)}' = ToSet(backlog') \cup ({cur'} \ {NULL})
    BY <1>1, <1>2, ClientAssumption DEF ConnectionsExact, Unserved
  <2> QED
    BY <1>1, <1>2, <2>1, ClientAssumption DEF ConnectionsExact
<1> QED
  BY <1>3, <1>4, <1>5, <1>6

\* Steps that leave the connections as they are; a PUT is begun only for a
\* request that has been read.
LEMMA InternalKeeps ==
  ASSUME IInv, UNCHANGED <<sockets, client, cur>>,
         \/ UNCHANGED phase
         \/ phase \in {"poll", "udp"} /\ phase' \in {"poll", "udp"}
         \/ phase = "read" /\ phase' = "set" /\ conn[cur].up # NULL
  PROVE  IInv'
<1> USE DEF IInv, sockets
<1>1. Shape'
  BY DEF Shape
<1>2. ServerTypes'
  BY DEF ServerTypes
<1>3. Progress'
  BY DEF Progress
<1>4. ConnectionsExact'
  BY DEF ConnectionsExact, Unserved
<1> QED
  BY <1>1, <1>2, <1>3, <1>4

\* The request in hand has been answered with d.
Replied(d) ==
  /\ phase \in {"read", "set"}
  /\ conn[cur].up # NULL
  /\ conn' = [conn EXCEPT ![cur] = [up |-> NULL, down |-> d]]
  /\ cur' = NULL

LEMMA RepliedShape ==
  ASSUME IInv, NEW d, Replied(d), UNCHANGED client
  PROVE  /\ cur \in Client /\ Shape'
         /\ conn'[cur].up = NULL /\ client[cur].st \in {"sent", "gone", "failed"}
         /\ \A c \in Client \ {cur} : conn'[c] = conn[c]
<1> USE DEF IInv
<1>1. cur \in Client
  BY DEF Replied, ConnectionsExact, ServerTypes
<1>2. client[cur].st \in {"sent", "gone", "failed"}
  BY <1>1 DEF Progress, Replied
<1>3. /\ conn'[cur] = [up |-> NULL, down |-> d]
      /\ \A c \in Client \ {cur} : conn'[c] = conn[c]
      /\ DOMAIN conn' = Client
  BY <1>1 DEF Replied, Shape
<1>4. conn' = [c \in Client |-> conn'[c]]
  BY DEF Replied, Shape
<1>5. Shape'
  BY <1>1, <1>3, <1>4 DEF Shape
<1> QED
  BY <1>1, <1>2, <1>3, <1>5

LEMMA RespondKeeps ==
  ASSUME IInv, NEW d, Replied(d), phase' = "poll",
         UNCHANGED <<listening, backlog, client>>
  PROVE  IInv'
<1> USE DEF IInv
<1>1. /\ cur \in Client /\ Shape'
      /\ conn'[cur].up = NULL /\ client[cur].st \in {"sent", "gone", "failed"}
      /\ \A c \in Client \ {cur} : conn'[c] = conn[c]
  BY RepliedShape
<1>2. listening /\ cur' = NULL
  BY DEF Replied, ConnectionsExact
<1>3. ServerTypes'
  BY <1>2 DEF ServerTypes
<1>4. Progress'
  BY <1>1 DEF Progress
<1>5. \A c \in Client : Unserved(c)' <=> Unserved(c) /\ c # cur
  BY <1>1 DEF Unserved
<1>6. {c \in Client : Unserved(c)}' = ToSet(backlog)
  BY <1>1, <1>2, <1>5 DEF ConnectionsExact
<1>7. NULL \notin ToSet(backlog)
  BY ClientAssumption DEF ServerTypes, ToSet
<1>8. \A c \in Client :
        conn'[c].down # NULL => conn'[c].up = NULL /\ client[c].st \in {"sent", "gone", "failed"}
  BY <1>1 DEF ConnectionsExact
<1>9. ConnectionsExact'
  BY <1>2, <1>6, <1>7, <1>8 DEF ConnectionsExact
<1> QED
  BY <1>1, <1>3, <1>4, <1>9

LEMMA ShutdownKeeps ==
  ASSUME IInv, NEW cmd \in Received, Shutdown(cmd), UNCHANGED client PROVE IInv'
<1> USE DEF IInv
<1>1. Replied(Reply(200, NULL, NULL)) /\ phase' = "exited" /\ ~listening' /\ backlog' = <<>>
  BY DEF Shutdown, Replied, Received
<1>2. /\ cur \in Client /\ Shape'
      /\ conn'[cur].up = NULL /\ client[cur].st \in {"sent", "gone", "failed"}
      /\ \A c \in Client \ {cur} : conn'[c] = conn[c]
  BY <1>1, RepliedShape
<1>3. listening' = FALSE /\ cur' = NULL
  BY <1>1 DEF Shutdown
<1>4. ServerTypes'
  <2>1. backlog' \in Seq(Client)
    BY <1>1
  <2> QED
    BY <1>1, <1>3, <2>1 DEF ServerTypes
<1>5. Progress'
  BY <1>1, <1>2 DEF Progress
<1>6. ToSet(backlog') = {} /\ IsInjective(backlog')
  BY <1>1 DEF ToSet, IsInjective
<1>7. \A c \in Client :
        conn'[c].down # NULL => conn'[c].up = NULL /\ client[c].st \in {"sent", "gone", "failed"}
  BY <1>2 DEF ConnectionsExact
<1>8. ConnectionsExact'
  BY <1>1, <1>3, <1>6, <1>7 DEF ConnectionsExact
<1> QED
  BY <1>2, <1>4, <1>5, <1>8

\* What has been received is in hand.
LEMMA ReceivedInHand ==
  ASSUME Received # {} PROVE phase = "read" /\ conn[cur].up # NULL
BY DEF Received

LEMMA ResponseKeeps ==
  ASSUME IInv, phase \in {"read", "set"}, conn[cur].up # NULL, UNCHANGED client,
         NEW code, NEW val, NEW number, Respond(code, val, number)
  PROVE  IInv'
<1>1. Replied(Reply(code, val, number)) /\ phase' = "poll" /\ UNCHANGED <<listening, backlog>>
  BY DEF Respond, Replied
<1> QED
  BY <1>1, RespondKeeps

LEMMA ServeKeeps ==
  ASSUME IInv, NEW max_mem, NEW cmd \in Received, Serve(max_mem, cmd), UNCHANGED client
  PROVE  IInv'
<1>1. phase = "read" /\ conn[cur].up # NULL
  BY ReceivedInHand
<1>2. CASE ServeGet(max_mem, cmd)
  <2>1. \/ Respond(404, NULL, NULL)
        \/ Respond(413, NULL, NULL)
        \/ Respond(200, ret'.val, NULL)
    BY <1>2 DEF ServeGet
  <2> QED
    BY <1>1, <2>1, ResponseKeeps
<1>3. CASE ServeSpace(max_mem, cmd)
  BY <1>1, <1>3, ResponseKeeps DEF ServeSpace
<1>4. CASE ServeDelete(max_mem, cmd)
  BY <1>1, <1>4, ResponseKeeps DEF ServeDelete
<1>5. CASE RefusePut(max_mem, cmd)
  BY <1>1, <1>5, ResponseKeeps DEF RefusePut
<1>6. CASE BeginPut(max_mem, cmd)
  <2>1. phase' = "set" /\ UNCHANGED <<sockets, cur>>
    BY <1>6 DEF BeginPut
  <2> QED
    BY <1>1, <2>1, InternalKeeps
<1>7. CASE ServeMemsize(max_mem, cmd)
  BY <1>1, <1>7, ResponseKeeps DEF ServeMemsize
<1>8. CASE ServeOther(cmd)
  BY <1>1, <1>8, ResponseKeeps DEF ServeOther
<1>9. CASE Shutdown(cmd)
  BY <1>9, ShutdownKeeps
<1> QED
  BY <1>2, <1>3, <1>4, <1>5, <1>6, <1>7, <1>8, <1>9 DEF Serve

LEMMA ServerKeeps ==
  ASSUME IInv, ServerNext, UNCHANGED client PROVE IInv'
<1>1. CASE Accept
  BY <1>1, AcceptKeeps
<1>2. CASE PollUdp \/ ServeUdp
  BY <1>2, InternalKeeps DEF PollUdp, ServeUdp
<1>3. ASSUME NEW max_mem, ContinuePut(max_mem) PROVE IInv'
  <2>1. phase = "set" /\ conn[cur].up # NULL
    BY <1>3 DEF ContinuePut, IInv, Progress
  <2>2. \/ Respond(IF ret'.code = 0 THEN 201 ELSE 200, NULL, NULL)
        \/ UNCHANGED <<sockets, thread>>
    BY <1>3 DEF ContinuePut
  <2> QED
    BY <2>1, <2>2, ResponseKeeps, InternalKeeps DEF thread
<1>4. ASSUME NEW max_mem, NEW cmd \in Received, Serve(max_mem, cmd) PROVE IInv'
  BY <1>4, ServeKeeps
<1> QED
  BY <1>1, <1>2, <1>3, <1>4 DEF ServerNext

-----------------------------------------------------------------------------
(* The clients' steps.                                                     *)

LEMMA ConnectKeeps ==
  ASSUME IInv, NEW c \in Client, NEW call \in CallsOf[c], Connect(c, call),
         UNCHANGED <<cur, phase>>
  PROVE  IInv'
<1> USE DEF IInv
<1>1. /\ client[c].st = "idle" /\ listening
      /\ client'[c].st = "connected" /\ client'[c].call = call
      /\ \A b \in Client \ {c} : client'[b] = client[b]
      /\ backlog' = Append(backlog, c)
      /\ UNCHANGED <<listening, conn, cur, phase>>
  BY DEF Connect, Shape
<1>2. ~Unserved(c) /\ c # cur /\ c \notin ToSet(backlog)
  BY <1>1, ClientAssumption DEF ConnectionsExact, Unserved
<1>3. /\ Append(backlog, c) \in Seq(Client)
      /\ IsInjective(Append(backlog, c))
      /\ ToSet(Append(backlog, c)) = ToSet(backlog) \cup {c}
  BY <1>2, AppendExact DEF ServerTypes, ConnectionsExact
<1>4. Shape'
  BY <1>1 DEF Shape, Connect, States
<1>5. ServerTypes'
  BY <1>1, <1>3 DEF ServerTypes
<1>6. conn[c].up = NULL /\ conn[c].down = NULL
  BY <1>1 DEF Progress, ConnectionsExact
<1>7. Progress'
  BY <1>1, <1>6 DEF Progress
<1>8. \A b \in Client : Unserved(b)' <=> Unserved(b) \/ b = c
  BY <1>1 DEF Unserved
<1>9. {b \in Client : Unserved(b)}' = ToSet(backlog') \cup ({cur'} \ {NULL})
  BY <1>1, <1>3, <1>8 DEF ConnectionsExact
<1>10. \A b \in Client :
         conn'[b].down # NULL => conn'[b].up = NULL /\ client'[b].st \in {"sent", "gone", "failed"}
  BY <1>1, <1>6 DEF ConnectionsExact
<1>11. ConnectionsExact'
  BY <1>1, <1>2, <1>3, <1>9, <1>10 DEF ConnectionsExact
<1> QED
  BY <1>4, <1>5, <1>7, <1>11

\* The other steps of a client keep the backlog.
LEMMA OwnStepKeeps ==
  ASSUME IInv, NEW c \in Client, Shape', UNCHANGED <<listening, backlog, cur, phase>>,
         \A b \in Client \ {c} : client'[b] = client[b] /\ conn'[b] = conn[b],
         client'[c].st # "connected",
         conn'[c].up # NULL => client'[c].st \in {"sent", "gone", "failed"},
         conn'[c].down # NULL => conn'[c].up = NULL /\ client'[c].st \in {"sent", "gone", "failed"},
         listening => (Unserved(c)' <=> Unserved(c))
  PROVE  IInv'
<1> USE DEF IInv
<1>1. ServerTypes'
  BY DEF ServerTypes
<1>2. phase = "set" => cur \in Client /\ listening /\ Unserved(cur)
  BY DEF ConnectionsExact, ServerTypes
<1>3. phase' = "set" => conn'[cur'].up # NULL
  BY <1>2 DEF Progress, Unserved
<1>4. Progress'
  BY <1>3 DEF Progress
<1>5. listening => \A b \in Client : Unserved(b)' <=> Unserved(b)
  BY DEF Unserved
<1>6. ConnectionsExact'
  BY <1>5 DEF ConnectionsExact
<1> QED
  BY <1>1, <1>4, <1>6

LEMMA ClientKeeps ==
  ASSUME IInv, NEW c \in Client, ClientNext(c), UNCHANGED <<cache, thread>>
  PROVE  IInv'
<1> USE DEF IInv
<1>1. UNCHANGED <<cur, phase>>
  BY DEF thread
<1>2. CASE \E call \in CallsOf[c] : Connect(c, call)
  BY <1>1, <1>2, ConnectKeeps
<1>3. CASE ConnectRefused(c)
  <2>1. /\ ~listening /\ client[c].st = "idle" /\ client'[c].st = "failed"
        /\ \A b \in Client \ {c} : client'[b] = client[b]
        /\ UNCHANGED <<listening, backlog, conn>>
    BY <1>3 DEF ConnectRefused, Shape, sockets
  <2>2. Shape'
    BY <1>3, <2>1 DEF ConnectRefused, Shape, States
  <2>3. conn[c].up = NULL /\ conn[c].down = NULL
    BY <2>1 DEF Progress, ConnectionsExact
  <2> QED
    BY <1>1, <2>1, <2>2, <2>3, OwnStepKeeps
<1>4. CASE Send(c)
  <2>1. MakeHttpRequest(client[c].call) # NULL
    BY <1>4, ClientAssumption DEF Send, Progress
  <2>2. /\ client[c].st = "connected" /\ client'[c].st \in {"sent", "gone", "failed"}
        /\ conn'[c].up # NULL /\ conn'[c].down = conn[c].down
        /\ \A b \in Client \ {c} : client'[b] = client[b] /\ conn'[b] = conn[b]
        /\ UNCHANGED <<listening, backlog>>
    BY <1>4, <2>1 DEF Send, Shape
  <2>3. Shape'
    BY <1>4 DEF Send, Shape, States
  <2>4. conn[c].down = NULL
    BY <2>2 DEF ConnectionsExact
  <2>5. Unserved(c) /\ Unserved(c)'
    BY <2>2 DEF Unserved
  <2> QED
    BY <1>1, <2>2, <2>3, <2>4, <2>5, OwnStepKeeps
<1>7. CASE Crash(c)
  <2>1. /\ client[c].st = "sent" /\ client'[c].st = "failed"
        /\ conn'[c].up = conn[c].up /\ conn'[c].down = NULL
        /\ \A b \in Client \ {c} : client'[b] = client[b] /\ conn'[b] = conn[b]
        /\ UNCHANGED <<listening, backlog>>
    BY <1>7 DEF Crash, Shape
  <2>2. Shape'
    BY <1>7, <2>1 DEF Crash, Shape, States
  <2>3. Unserved(c)' <=> Unserved(c)
    BY <2>1 DEF Unserved
  <2> QED
    BY <1>1, <2>1, <2>2, <2>3, OwnStepKeeps
<1>5. CASE Reset(c)
  <2>1. /\ ~listening /\ client'[c].st = "failed"
        /\ conn'[c].up = NULL /\ conn'[c].down = NULL
        /\ \A b \in Client \ {c} : client'[b] = client[b] /\ conn'[b] = conn[b]
        /\ UNCHANGED <<listening, backlog>>
    BY <1>5 DEF Reset, Shape, Closed
  <2>2. client'[c] = [st |-> "failed", call |-> NULL, ret |-> NULL]
    BY <1>5 DEF Reset, Shape
  <2>3. conn'[c] = [up |-> NULL, down |-> NULL]
    BY <1>5 DEF Reset, Shape, Closed
  <2>4. client' = [b \in Client |-> client'[b]] /\ conn' = [b \in Client |-> conn'[b]]
    BY <1>5 DEF Reset, Shape
  <2>5. Shape'
    BY <2>1, <2>2, <2>3, <2>4 DEF Shape, States
  <2> QED
    BY <1>1, <2>1, <2>5, OwnStepKeeps
<1>6. CASE Receive(c)
  <2>1. /\ client[c].st = "sent" /\ conn[c].down # NULL
        /\ client'[c].st = "idle"
        /\ conn'[c].up = NULL /\ conn'[c].down = NULL
        /\ \A b \in Client \ {c} : client'[b] = client[b] /\ conn'[b] = conn[b]
        /\ UNCHANGED <<listening, backlog>>
    BY <1>6 DEF Receive, Shape, Closed
  <2>2. PICK answer : client'[c] = [st |-> "idle", call |-> NULL, ret |-> answer]
    BY <1>6 DEF Receive, Shape
  <2>3. conn'[c] = [up |-> NULL, down |-> NULL]
    BY <1>6 DEF Receive, Shape, Closed
  <2>4. client' = [b \in Client |-> client'[b]] /\ conn' = [b \in Client |-> conn'[b]]
    BY <1>6 DEF Receive, Shape
  <2>5. Shape'
    BY <2>1, <2>2, <2>3, <2>4 DEF Shape, States
  <2>6. ~Unserved(c) /\ ~Unserved(c)'
    BY <2>1 DEF ConnectionsExact, Unserved
  <2> QED
    BY <1>1, <2>1, <2>5, <2>6, OwnStepKeeps
<1> QED
  BY <1>2, <1>3, <1>4, <1>5, <1>6, <1>7 DEF ClientNext, Proceed

-----------------------------------------------------------------------------
(* The theorems.                                                           *)

LEMMA IInvStep == IInv /\ [Next]_vars => IInv'
<1> SUFFICES ASSUME IInv, [Next]_vars PROVE IInv'
  OBVIOUS
<1>1. CASE ServerNext /\ UNCHANGED client
  BY <1>1, ServerKeeps
<1>2. CASE \E c \in Client : ClientNext(c) /\ UNCHANGED <<cache, thread>>
  BY <1>2, ClientKeeps
<1>3. CASE Datagram
  BY <1>3, InternalKeeps DEF Datagram
<1>4. CASE UNCHANGED vars
  BY <1>4, InternalKeeps DEF vars, thread
<1> QED
  BY <1>1, <1>2, <1>3, <1>4 DEF Next

(* Whatever clients ask, send and fail to read, every open connection is   *)
(* in the backlog or in the server's hands, once, and is answered once.    *)
THEOREM ServiceConnectionsExact == Spec => []ConnectionsExact
<1>1. IInv => ConnectionsExact
  BY DEF IInv
<1> QED
  BY <1>1, IInvInit, IInvStep, PTL DEF Spec

-----------------------------------------------------------------------------
(* The memory limit.                                                       *)

NoLive == \A i \in DOMAIN key_hashes : ~Lib(0)!IsLive(key_hashes[i])

\* Until cache_set has inserted an entry, the table holds none; the entry is
\* in the table, and the flag still set, while the table grows.
UInv == is_unset /\ (phase # "set" \/ pc \notin {"grow", "rehash"}) => NoLive

\* A mark of a deleted slot is as good as none.
LEMMA RemovalKeepsNoLive ==
  ASSUME NoLive, NEW max_mem, NEW i, NEW l, Lib(max_mem)!RemoveEntry(i, l)
  PROVE  NoLive'
<1>1. key_hashes' = [key_hashes EXCEPT ![i] = 1]
  BY DEF Lib!RemoveEntry, Lib!DELETED
<1> QED
  BY <1>1 DEF NoLive, Lib!IsLive, Lib!EMPTY, Lib!DELETED

LEMMA ServeKeepsUnset ==
  ASSUME UInv, phase = "read", NEW max_mem, NEW cmd, Serve(max_mem, cmd)
  PROVE  UInv'
<1>1. ASSUME UNCHANGED <<key_hashes, is_unset>> PROVE UInv'
  BY <1>1 DEF UInv, NoLive
<1>2. CASE ServeGet(max_mem, cmd)
  BY <1>1, <1>2 DEF ServeGet, Lib!Get, Lib!GetHit, Lib!GetMiss, Lib!memory
<1>3. CASE ServeSpace(max_mem, cmd)
  BY <1>1, <1>3 DEF ServeSpace, Lib!SpaceUsed, Lib!memory
<1>4. CASE ServeDelete(max_mem, cmd)
  <2>1. CASE Lib(max_mem)!DeleteHit(cmd.key)
    <3>1. PICK i : Lib(max_mem)!RemoveEntry(i, list)
      BY <2>1 DEF Lib!DeleteHit
    <3> QED
      BY <1>4, <3>1, RemovalKeepsNoLive DEF ServeDelete, UInv
  <2>2. CASE Lib(max_mem)!DeleteMiss(cmd.key)
    BY <1>1, <1>4, <2>2 DEF ServeDelete, Lib!DeleteMiss, Lib!memory
  <2> QED
    BY <1>4, <2>1, <2>2 DEF ServeDelete, Lib!Delete
<1>5. CASE RefusePut(max_mem, cmd)
  BY <1>1, <1>5 DEF RefusePut, Lib!SetTooLarge, Lib!memory
<1>6. CASE BeginPut(max_mem, cmd)
  BY <1>1, <1>6 DEF BeginPut, Lib!SetExisting, Lib!SetNew, Lib!memory
<1>7. CASE ServeMemsize(max_mem, cmd)
  <2>1. CASE UNCHANGED cache
    BY <1>1, <1>7, <2>1 DEF ServeMemsize, cache
  <2>2. CASE Recreate(max_mem, cmd.number)
    <3>1. NoLive'
      BY <2>2 DEF Recreate, CreateCache, NoLive, Lib!IsLive, Lib!EMPTY
    <3> QED
      BY <3>1 DEF UInv
  <2> QED
    BY <1>7, <2>1, <2>2 DEF ServeMemsize
<1>8. CASE ServeOther(cmd) \/ Shutdown(cmd)
  BY <1>1, <1>8 DEF ServeOther, Shutdown, cache
<1> QED
  BY <1>2, <1>3, <1>4, <1>5, <1>6, <1>7, <1>8 DEF Serve

\* The flag is cleared by the step that ends an insertion.
LEMMA ContinueKeepsUnset ==
  ASSUME UInv, NEW max_mem, ContinuePut(max_mem) PROVE UInv'
<1>1. /\ phase = "set" /\ Lib(max_mem)!Continue
      /\ pc' = "idle" => is_unset' = (is_unset /\ ret'.code # 0)
      /\ pc' # "idle" => phase' = "set" /\ UNCHANGED is_unset
  BY DEF ContinuePut, thread
<1>2. CASE Lib(max_mem)!Evict
  <2>1. pc \in {"update", "insert"} /\ pc' = pc
    BY <1>2 DEF Lib!Evict, Lib!Evicting
  <2>2. PICK i, l : Lib(max_mem)!RemoveEntry(i, l)
    BY <1>2 DEF Lib!Evict
  <2> QED
    BY <1>1, <2>1, <2>2, RemovalKeepsNoLive DEF UInv
<1>3. CASE Lib(max_mem)!FinishUpdate
  BY <1>1, <1>3 DEF Lib!FinishUpdate, UInv, NoLive
<1>4. CASE Lib(max_mem)!FinishInsert
  <2>1. \/ pc' = "grow"
        \/ pc' = "idle" /\ ret'.code = 0
    BY <1>4 DEF Lib!FinishInsert, Lib!Returned
  <2> QED
    BY <1>1, <2>1 DEF UInv
<1>5. CASE Lib(max_mem)!Grow
  <2>1. \/ pc' = "rehash"
        \/ pc' = "idle" /\ ret'.code = 0
    BY <1>5 DEF Lib!Grow, Lib!GrowArena, Lib!RehashSkip, Lib!RehashEntry, Lib!RehashDone,
                Lib!Rehashing, Lib!Returned
  <2> QED
    BY <1>1, <2>1 DEF UInv
<1> QED
  BY <1>1, <1>2, <1>3, <1>4, <1>5 DEF Lib!Continue

LEMMA UInvStep == UInv /\ [Next]_vars => UInv'
<1> SUFFICES ASSUME UInv, [Next]_vars PROVE UInv'
  OBVIOUS
<1>1. ASSUME UNCHANGED <<key_hashes, is_unset, pc>>,
             UNCHANGED phase \/ (phase # "set" /\ phase' # "set")
      PROVE  UInv'
  BY <1>1 DEF UInv, NoLive
<1>2. CASE ServerNext
  <2>1. CASE Accept \/ PollUdp \/ ServeUdp
    BY <1>1, <2>1 DEF Accept, PollUdp, ServeUdp, cache
  <2>2. ASSUME NEW max_mem, ContinuePut(max_mem) PROVE UInv'
    BY <2>2, ContinueKeepsUnset
  <2>3. ASSUME NEW max_mem, NEW cmd \in Received, Serve(max_mem, cmd) PROVE UInv'
    BY <2>3, ReceivedInHand, ServeKeepsUnset
  <2> QED
    BY <1>2, <2>1, <2>2, <2>3 DEF ServerNext
<1>3. ASSUME UNCHANGED <<cache, is_unset, phase>> PROVE UInv'
  <2>1. UNCHANGED <<key_hashes, is_unset, pc>> /\ UNCHANGED phase
    BY <1>3 DEF cache
  <2> QED
    BY <2>1 DEF UInv, NoLive
<1>4. CASE \E c \in Client : ClientNext(c) /\ UNCHANGED <<cache, thread>>
  <2>1. UNCHANGED <<cache, thread>>
    BY <1>4
  <2> QED
    BY <1>3, <2>1 DEF thread
<1>5. CASE Datagram
  BY <1>3, <1>5 DEF Datagram
<1>6. CASE UNCHANGED vars
  <2>1. UNCHANGED <<cache, thread>>
    BY <1>6 DEF vars
  <2> QED
    BY <1>3, <2>1 DEF thread
<1> QED
  BY <1>2, <1>4, <1>5, <1>6 DEF Next

(* As long as the server allows its cache to be replaced, the table of the *)
(* library's cache holds no entry: POST /memsize/ never throws away what a *)
(* client has stored.                                                      *)
THEOREM ServiceUnsetIsEmpty == Spec => []UnsetIsEmpty
<1>1. Init => UInv
  BY DEF Init, ServerInit, Lib!Init, UInv, NoLive, Lib!IsLive, Lib!EMPTY
<1>2. UInv => UnsetIsEmpty
  BY DEF UInv, UnsetIsEmpty, NoLive
<1> QED
  BY <1>1, <1>2, UInvStep, PTL DEF Spec

=============================================================================
