-------------------------------- MODULE Wire --------------------------------
(***************************************************************************)
(* The messages between client.cc and server.cc.  A request is the verb    *)
(* and the resource it begins with, the characters that follow them, the   *)
(* binary number that may follow, and its size in bytes.  A reply is its   *)
(* status code and what its body holds.                                    *)
(***************************************************************************)
EXTENDS Integers, Sequences, SequencesExt

CONSTANTS
  Value,            \* the texts that are values
  NextChar,         \* [Value -> character]: what follows the value in its caller's memory
  MAX_MESSAGE_SIZE, \* 2^10 in the code
  JUNK, NULL

\* The characters that end something; any other string is itself.
SLASH   == "/"
NEWLINE == "newline"
NUL     == "nul"

\* What a caller asks for: a function of cache.h, or a request of a program
\* other than client.cc.
Call(op, key, val, number) == [op |-> op, key |-> key, val |-> val, number |-> number]

Request(verb, resource, rest, number, size) ==
  [verb |-> verb, resource |-> resource, rest |-> rest, number |-> number, size |-> size]

Reply(code, val, number) == [code |-> code, val |-> val, number |-> number]

-----------------------------------------------------------------------------
(* Client: makeHttpRequest and its callers.                                *)

\* The characters of a text before its terminator.
CString(text) ==
  LET ends == {i \in 1 .. Len(text) : text[i] = NUL}
  IN IF ends = {} THEN text
     ELSE SubSeq(text, 1, (CHOOSE i \in ends : \A j \in ends : i <= j) - 1)

\* sprintf prints the value as a string of at most one character more than
\* its size: valLength has been incremented before, for the slash.
Printed(val) == CString(Append(val, NextChar[val]))

\* The buffer has room for the value, two newlines and a terminator.  A value
\* printed longer than its size shifts them: sprintf then writes one byte past
\* the buffer.
TooLong(val) == Len(Printed(val)) > Len(val)

Overruns(call) == call.op = "set" /\ TooLong(call.val)

\* The last byte of the buffer is overwritten by a terminator in any case.
Ending(val) == IF TooLong(val) THEN <<NEWLINE, NUL>> ELSE <<NEWLINE, NEWLINE, NUL>>

KeyRequest(verb, size, key) ==
  Request(verb, "/key/", key \o <<NEWLINE, NEWLINE, NUL>>, NULL, size + Len(key) + 3)

PutRequest(key, val) ==
  Request("PUT ", "/key/", key \o <<SLASH>> \o Printed(val) \o Ending(val), NULL,
          9 + Len(key) + 1 + Len(val) + 3)

MakeHttpRequest(call) ==
  CASE call.op = "set"     -> PutRequest(call.key, call.val)
    [] call.op = "get"     -> KeyRequest("GET ", 9, call.key)
    [] call.op = "delete"  -> KeyRequest("DELETE ", 12, call.key)
    [] call.op = "space"   -> Request("GET ", "/memsize", <<NEWLINE, NEWLINE, NUL>>, NULL, 15)
    [] call.op = "destroy" -> Request("POST ", "/shutdown", <<NEWLINE, NEWLINE, NUL>>, NULL, 17)
    \* requests client.cc does not make
    [] call.op = "memsize" -> Request("POST ", "/memsize/", <<>>, call.number, 18)
    [] call.op = "head"    -> KeyRequest("HEAD ", 10, call.key)
    [] call.op = "nothing" -> Request("", "", <<>>, NULL, 0)

-----------------------------------------------------------------------------
(* Server: the dispatch on the text of a request.                          *)

\* get_item_size
ItemSize(text) ==
  LET stops == {i \in 1 .. Len(text) : text[i] \in {SLASH, NEWLINE}}
  IN IF stops = {} THEN Len(text)
     ELSE (CHOOSE i \in stops : \A j \in stops : i <= j) - 1

Item(text) == SubSeq(text, 1, ItemSize(text))

AfterItem(text) == SubSeq(text, ItemSize(text) + 2, Len(text))

\* The values a PUT may be read to have.  If the key ends the message,
\* message_size falls below zero and the scan for the value runs on over what
\* the buffer held before.
PutValues(text) ==
  IF ItemSize(text) = Len(text) THEN Value \cup {<<>>} ELSE {Item(AfterItem(text))}

Command(op, key, val, number) == Call(op, key, val, number)

BadRequest == Command("bad", NULL, NULL, NULL)

KeyCommand(op, text) ==
  IF ItemSize(text) > 0 THEN Command(op, CString(Item(text)), NULL, NULL) ELSE BadRequest

PutCommand(text, val) ==
  IF ItemSize(text) > 0 /\ val # <<>>
  THEN Command("set", CString(Item(text)), val, NULL) ELSE BadRequest

\* What the server may take a request for.
Parse(r) ==
  CASE r.size >= MAX_MESSAGE_SIZE -> {Command("too_large", NULL, NULL, NULL)}
    [] r.size < MAX_MESSAGE_SIZE ->
       CASE r.verb = "GET " /\ r.resource = "/key/" -> {KeyCommand("get", r.rest)}
         [] r.verb = "GET " /\ r.resource \in {"/memsize", "/memsize/"} ->
              {Command("space", NULL, NULL, NULL)}
         [] r.verb = "PUT " /\ r.resource = "/key/" ->
              {PutCommand(r.rest, val) : val \in PutValues(r.rest)}
         [] r.verb = "DELETE " /\ r.resource = "/key/" -> {KeyCommand("delete", r.rest)}
         [] r.verb = "HEAD " /\ r.resource = "/key/" -> {Command("head", NULL, NULL, NULL)}
         [] r.verb = "POST " /\ r.resource = "/shutdown" ->
              {Command("shutdown", NULL, NULL, NULL)}
         [] r.verb = "POST " /\ r.resource = "/memsize/" /\ r.number # NULL ->
              {Command("memsize", NULL, NULL, r.number)}
         [] OTHER -> {BadRequest}

-----------------------------------------------------------------------------
(* What one read returns of a message that the stream may deliver in       *)
(* pieces: the message, or a part of it that has arrived.                  *)

RequestParts(r) ==
  {[r EXCEPT !.rest = SubSeq(r.rest, 1, n), !.number = NULL,
             !.size = r.size - (Len(r.rest) - n)] : n \in 0 .. Len(r.rest) - 1}
  \cup {Request("", "", <<>>, NULL, 1)}

\* (the client looks at bytes of its buffer that no reply was read into)
ReplyParts(p) == {Reply(code, val, JUNK) : code \in {p.code, 0}, val \in Value}

-----------------------------------------------------------------------------
(* Client: handleStatusCode, readMessage, parseMessageForGet.              *)

Answer(code, val) == [code |-> code, val |-> val]

Success(p) == p.code \in {200, 201}

AnswerTo(call, p) ==
  CASE call.op = "get"   -> Answer(0, IF Success(p) THEN p.val ELSE NULL)
    [] call.op = "space" -> Answer(IF Success(p) THEN p.number ELSE 0, NULL)
    [] OTHER             -> Answer(IF Success(p) THEN 0 ELSE -1, NULL)

=============================================================================
