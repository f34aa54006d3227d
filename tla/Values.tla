------------------------------- MODULE Values -------------------------------
(***************************************************************************)
(* One value on its way through the server, along the moves of Wire: a     *)
(* request is validated against its schema, an accepted value is stored in *)
(* a column, read back into an answer, which its schema must describe, and *)
(* sent again in a later request.                                          *)
(***************************************************************************)
EXTENDS Naturals

CONSTANTS Place, TypeOf(_), Table, Moved, Origins, Accepts(_, _), Bytes(_)  \* see Wire

VARIABLES
  field,  \* the field the value is in
  origin, \* where it came in
  value,  \* what it is made of, and its size
  met,    \* sent, accepted, or refused by the field
  kept    \* it is still what it was at its origin

vars == <<field, origin, value, met, kept>>

Alphabets ==
  {"hex", "base64", "base64url", "uuid", "mail", "digits", "plain", "wide", "control", "nul", "number"}

\* BOUND: the smallest and the largest a field takes, and one more.
Tried(p) ==
  LET t == TypeOf(p) IN
  [of : Alphabets, size : {t.min, t.max, t.max + 1}]

InitWith(p, v) ==
  /\ origin = p /\ field = p /\ value = v
  /\ met = "sent" /\ kept = TRUE

Init == \E p \in Origins : \E v \in Tried(p) : InitWith(p, v)

-----------------------------------------------------------------------------
\* A character of a text in a JSON string, in bytes at most.
Escaped(of) == IF of \in {"control", "nul"} THEN 6 ELSE IF of = "wide" THEN 3 ELSE 2

\* The token a session id is signed into: JSON with two account ids, the invite's
\* id and the connection's, in base64url, and the signature.
Signed(v) == [of |-> "plain", size |-> ((266 + v.size * Escaped(v.of)) * 4) \div 3 + 45]

\* Numbers are written in decimal, and parseInt reads them back.
Decimal(v) == [of |-> "digits", size |-> (v.size * 3) \div 10 + 1]
ParseInt(v) == [of |-> "number", size |-> (v.size * 10) \div 3 + 1]

\* Buffer.from(_, "base64") skips what it does not know and never fails.
Decoded(v) == [v EXCEPT !.of = "base64"]

Converted(v, to) ==
  IF to[2] = "relayClaimToken" THEN Signed(v)
  ELSE IF v.of = "number" /\ "number" \notin TypeOf(to).of THEN Decimal(v)
  ELSE IF to = <<"newer", "version">> /\ v.of = "digits" THEN ParseInt(v)
  ELSE IF to = <<"syncObjects", "payload">> THEN Decoded(v)
  ELSE v

-----------------------------------------------------------------------------
\* The validation of a request, the check of an answer by its reader, or the
\* statement that writes a row.  A long index entry fits when it compresses.
Arrive ==
  LET t == TypeOf(field)
      compressed == [t EXCEPT !.bytes = Bytes(value)] IN
  /\ met = "sent"
  /\ met' \in {IF Accepts(t, value) THEN "accepted" ELSE "refused"}
                \cup IF field[1] \in Table /\ Accepts(compressed, value) THEN {"accepted"} ELSE {}
  /\ UNCHANGED <<field, origin, value, kept>>

\* The handler, or the client, passes the value on.
Move(to) ==
  /\ met = "accepted" /\ <<field, to>> \in Moved
  /\ field' = to /\ met' = "sent"
  /\ value' = Converted(value, to)
  /\ kept' = (kept /\ (to = <<"syncObjects", "payload">> => value.of \in {"hex", "base64"}))
  /\ UNCHANGED origin

Next == Arrive \/ \E to \in Place : Move(to)

-----------------------------------------------------------------------------
TypeOK ==
  /\ field \in Place /\ origin \in Place /\ value \in [of : Alphabets, size : Nat]
  /\ met \in {"sent", "accepted", "refused"} /\ kept \in BOOLEAN

\* The columns whose index a schema lets a client overfill.
Unlimited == {<<"syncObjects", "entityId">>, <<"syncClients", "clientId">>, <<"pushTokens", "deviceToken">>,
              <<"adminUsers", "email">>}

\* What one schema has let in is nowhere refused later: not by the table, which
\* would answer 500, not by the schema of the answer, not by a schema that takes
\* the same thing elsewhere, so what was made can be named, used and revoked.
\* Not so: texts with a NUL, four indexed columns no schema bounds in bytes, a
\* cursor the client made up, and a token that signs a session id of characters
\* JSON escapes.  And what comes back is what was sent, except payloads that are
\* not base64.
ValuesTravel ==
  /\ met = "refused" =>
       \/ field = origin
       \/ value.of = "nul" /\ field[1] \in Table
       \/ field \in Unlimited /\ Bytes(value) > TypeOf(field).bytes
       \/ field = <<"newer", "version">> /\ origin = <<"pull", "cursor">>
       \/ field[2] = "relayClaimToken" /\ value.size > 2048
  /\ ~kept => origin = <<"mutation", "payload">>

-----------------------------------------------------------------------------
(* What the fields carry.  A load is a set of values: alphabets and sizes,  *)
(* with where they came in and the field that has accepted them.            *)

Load(from, at, of, min, max) == [from |-> from, at |-> at, of |-> of, min |-> min, max |-> max]
Within(x, v) == v.of \in x.of /\ v.size \in x.min..x.max

\* What becomes of the shortest and of the longest values of a load.
Ends(x, to) == {Converted([of |-> o, size |-> n], to) : o \in x.of, n \in {x.min, x.max}}

\* The load a move makes of a load.  No table takes a NUL.
Carry(x, to) ==
  LET sizes == {v.size : v \in Ends(x, to)} IN
  Load(x.from, to,
       {v.of : v \in Ends(x, to)} \ (IF to[1] \in Table THEN {"nul"} ELSE {}),
       CHOOSE n \in sizes : \A k \in sizes : n <= k,
       CHOOSE n \in sizes : \A k \in sizes : n >= k)

\* The loads after n moves, and after as many as make no new ones (BOUND: 8).
Reach[n \in Nat] ==
  IF n = 0
  THEN {Load(p, p, TypeOf(p).of, TypeOf(p).min, TypeOf(p).max) : p \in Origins}
  ELSE LET before == Reach[n - 1] IN
       before \cup UNION {{Carry(x, m[2]) : m \in {m \in Moved : m[1] = x.at}} : x \in before}
Loads == Reach[8]

\* A move takes load x into load y whole, but for texts with a NUL.
Covers(x, y, to) ==
  /\ y.from = x.from /\ y.at = to
  /\ \A v \in Ends(x, to) :
       /\ v.size \in y.min..y.max
       /\ v.of \in y.of \/ (v.of = "nul" /\ to[1] \in Table /\ "nul" \notin TypeOf(to).of)

\* The field that load y arrives at takes every value of it, or which it does not
\* take is among the exceptions of ValuesTravel.
Taken(y) ==
  LET t == TypeOf(y.at)
      largest == IF "wide" \in y.of THEN 3 * y.max ELSE y.max IN
  \/ y.at = <<"newer", "version">> /\ y.from = <<"pull", "cursor">>
  \/ /\ y.of \subseteq t.of /\ t.min <= y.min
     /\ \/ y.max <= t.max /\ (largest <= t.bytes \/ y.at \in Unlimited)
        \/ y.at[2] = "relayClaimToken" /\ t.max = 2048 /\ t.max <= t.bytes /\ "wide" \notin y.of

\* A set of loads that has what comes in, and with a load all that its moves make
\* of it; of payloads, only what a mutation brought is decoded.
Sound(loads) ==
  /\ \A x \in loads : x.of \subseteq Alphabets /\ x.min \in Nat /\ x.max \in Nat
  /\ \A p \in Origins : Load(p, p, TypeOf(p).of, TypeOf(p).min, TypeOf(p).max) \in loads
  /\ \A x \in loads : \A m \in Moved : m[1] = x.at =>
       /\ \E y \in loads : Covers(x, y, m[2]) /\ Taken(y)
       /\ m[2] = <<"syncObjects", "payload">> => x.from = <<"mutation", "payload">>
=============================================================================
