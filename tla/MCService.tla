----------------------------- MODULE MCService -----------------------------
(***************************************************************************)
(* A small service for TLC: two keys, one a prefix of the other, that do   *)
(* not both fit, each with values of one size and a home slot of its own.  *)
(***************************************************************************)
EXTENDS Service, TLC

CONSTANTS alice, bob

A  == <<"a">>
AB == <<"a", "b">>

X   == <<"x">>
Y   == <<"y">>
YY  == <<"y", "y">>
YYZ == <<"y", "y", "z">>
BIG == <<"x", "x", "x", "x", "x">>

MCClient  == {alice, bob}
MCKey     == {A, AB}
MCKeySize == [k \in MCKey |-> Len(k) + 1]
MCHash    == A :> 0 @@ AB :> 1

Set(k, v)  == Call("set", k, v, NULL)
Get(k)     == Call("get", k, NULL, NULL)
Delete(k)  == Call("delete", k, NULL, NULL)
Memsize(n) == Call("memsize", NULL, NULL, n)
Other(op)  == Call(op, NULL, NULL, NULL)

-----------------------------------------------------------------------------
\* What is stored is followed by a terminator in its caller's memory.  BIG is
\* not, but its message is too long; YY is too large for the smaller limit.
MCValue    == {X, Y, YY, BIG}
MCValSize  == [v \in MCValue |-> Len(v)]
MCNextChar == [v \in MCValue |-> IF v = BIG THEN "x" ELSE NUL]
MCCallsOf  ==
  alice :> {Set(A, X), Set(AB, YY), Get(A), Memsize(4)} @@
  bob   :> {Set(A, Y), Set(A, BIG), Delete(A), Other("space"),
            Other("destroy")}

\* For short reads: a beginning of YY is a value, a beginning of AB a key.
CutValue    == {Y, YY}
CutValSize  == [v \in CutValue |-> Len(v)]
CutNextChar == [v \in CutValue |-> NUL]
CutCallsOf  ==
  alice :> {Set(A, YY), Get(A), Call("head", A, NULL, NULL)} @@
  bob   :> {Set(AB, YY), Other("space"), Other("nothing")}

\* A value that is a part of more memory than its own.
BlobValue    == {YY, YYZ}
BlobValSize  == [v \in BlobValue |-> Len(v)]
BlobNextChar == YY :> "z" @@ YYZ :> NUL
BlobCallsOf  == alice :> {Set(A, YY), Get(A)} @@ bob :> {Delete(A)}

=============================================================================
