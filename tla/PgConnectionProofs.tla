------------------------- MODULE PgConnectionProofs -------------------------
(***************************************************************************)
(* Proofs about PgConnection: what m_query_ready means, what init decides, *)
(* and that calls return what the server answers.                          *)
(***************************************************************************)
EXTENDS PgConnection, TLAPS

----------------------------------------------------------------------------
(* Sequences of units and of messages *)

Listing(s) == s \in Seq({s[i] : i \in DOMAIN s})

Lengths == {INT_32_OCTETS, INT_32_OCTETS + 1}

\* No unit of s is the header of one of these types.
Free(s, types) ==
    /\ Listing(s)
    /\ \A i \in 1..Len(s) : s[i].part = "head" =>
           s[i].length \in Lengths /\ s[i].type \notin types

\* A ReadyForQuery in s is its last message.
LastZ(s) ==
    /\ Listing(s)
    /\ \A i \in 1..Len(s) : s[i].part = "head" =>
           /\ s[i].length \in Lengths
           /\ s[i].type = "Z" => i + 1 >= Len(s) /\ s[i].length = INT_32_OCTETS + 1

\* The messages of the extended protocol carry what they should.
Typed(m) == /\ m.type = "B" => m.data \in Statements
            /\ m.type = "E" => m.data \in Nat

Only(msgs, types) ==
    /\ Listing(msgs)
    /\ \A i \in 1..Len(msgs) : msgs[i].type \in types /\ Typed(msgs[i])

----------------------------------------------------------------------------
(* init *)

Good == \/ config.method = "trust"
        \/ config.method \in {"password", "scram"} /\ config.client = config.server

Bad == \/ config.method \in {"other_sasl", "md5"}
       \/ config.method # "trust" /\ config.client # config.server

Stage(stage) == [Idle EXCEPT !.stage = stage]
Reply(data) == <<[type |-> "p", data |-> data]>>
InFlight(msgs) == IF up THEN msgs ELSE <<>>

ClientFirst == <<"user", <<"c">>>>
ServerNonce == <<"c", "s">>
ServerFirst(salt) == <<ServerNonce, base64_encode(salt), IterationText>>
FirstScram == generate_client_first_msg(EmptyScram, "user", <<"c">>)
Resolved(salt) == resolve_server_first_msg(FirstScram, ServerFirst(salt))
FinalStage(salt) ==
    [stage |-> "final", portal |-> <<>>, salt |-> salt,
     signed |-> <<ClientFirst, ServerFirst(salt), ServerNonce>>]

\* The server's request of this kind is on its way, or what is left of it.
Requested(data) ==
    /\ inbox = <<>>
    /\ \/ wire = Auth(data)
       \/ ~up /\ wire \in {<<>>, <<Header("R", 1)>>}

\* The client's answer is on its way.
Replied(data) == inbox = InFlight(Reply(data)) /\ wire = <<>>

AtStartup ==
    /\ srv = Stage("startup")
    /\ scr = EmptyScram
    /\ inbox = InFlight(<<[type |-> "startup", data |-> "user"]>>)
    /\ wire = <<>>

AtPassword ==
    /\ srv = Stage("password")
    /\ scr = EmptyScram
    /\ \/ config.method = "password" /\ Requested([auth |-> "CLEAR_TEXT_PASSWORD"])
       \/ config.method = "password" /\ Replied(config.client)
       \/ config.method = "md5" /\ Requested([auth |-> "MD5"])
       \/ /\ config.method = "other_sasl"
          /\ Requested([auth |-> "SASL", mechanisms |-> "OTHER"])

AtFirst ==
    /\ srv = Stage("first")
    /\ config.method = "scram"
    /\ \/ /\ Requested([auth |-> "SASL", mechanisms |-> "SCRAM-SHA-256"])
          /\ scr = EmptyScram
       \/ Replied(ClientFirst) /\ scr = FirstScram

AtFinal ==
    /\ config.method = "scram"
    /\ \E salt \in Salts :
          /\ srv = FinalStage(salt)
          /\ \/ /\ Requested([auth |-> "SASL_CONTINUE", params |-> ServerFirst(salt)])
                /\ scr = FirstScram
             \/ /\ Replied([nonce |-> ServerNonce,
                            proof |-> ClientProof(Resolved(salt), config.client)])
                /\ scr = ExpectServerFinal(Resolved(salt), config.client)

\* What the server may say once it has decided: at odd places the headers, at
\* even places the payloads.
Verdict(s) ==
    /\ Listing(s)
    /\ \A i \in 1..Len(s) :
          /\ i % 2 = 0 => s[i].part = "body"
          /\ i % 2 = 1 =>
                /\ s[i].part = "head"
                /\ s[i].length = INT_32_OCTETS + 1
                /\ s[i].type \in {"R", "N", "S", "K", "Z", "E"}
                /\ s[i].type = "Z" => Good
                /\ s[i].type = "E" => (RoundTrip => Bad)
                /\ s[i].type = "R" /\ i + 1 <= Len(s) =>
                      \/ s[i + 1].data.auth = "OK"
                      \/ /\ s[i + 1].data.auth = "SASL_FINAL"
                         /\ RoundTrip =>
                               verify_server_final_msg(scr, s[i + 1].data.signature)

Decided ==
    /\ srv = Idle
    /\ inbox = <<>>
    /\ Verdict(wire)
    /\ LastZ(wire)

Greeting == AtStartup \/ AtPassword \/ AtFirst \/ AtFinal \/ Decided

----------------------------------------------------------------------------
(* After init *)

\* All that was asked for has been sent, up to a last ReadyForQuery.
Answered == inbox = <<>> /\ held = <<>> /\ srv = Idle /\ LastZ(wire)

Asks == {"P", "B", "E", "H", "C"}

QueryDue ==
    \/ /\ Len(inbox) = 1 /\ Listing(inbox)
       /\ inbox[1].type = "Q" /\ inbox[1].data \in Queries
       /\ Listing(answer) /\ Len(answer) <= Len(inbox[1].data)
       /\ held = <<>> /\ srv = Idle /\ Free(wire, {"Z"})
    \/ Answered

SyncDue ==
    \/ /\ Listing(inbox) /\ inbox # <<>> /\ inbox[Len(inbox)].type = "S"
       /\ \A i \in 1..(Len(inbox) - 1) : inbox[i].type \in Asks /\ Typed(inbox[i])
       /\ Free(wire, {"Z"})
    \/ Answered

NothingDue == Only(inbox, Asks) /\ Free(wire, {"Z"})

OpenPortals == {p \in [st : Statements, done : Nat] : p.done <= p.st.rows}
ServerStates == [stage : {"ready", "skipping"}, salt : {<<>>},
                 portal : {<<>>} \cup {<<p>> : p \in OpenPortals}]

\* While m_query_ready is set there is no portal, and none is asked for.
NoPortal ==
    /\ srv.portal = <<>>
    /\ out = <<>>
    /\ Listing(inbox) /\ \A i \in 1..Len(inbox) : inbox[i].type # "B"
    /\ Free(wire, {"s"}) /\ Free(held, {"s"})

Serving ==
    /\ Free(held, {"Z"})
    /\ Only(out, {"P", "B"})
    /\ pc # "idle" => out = <<>>
    /\ srv \in ServerStates
    /\ m_query_ready => NoPortal
    /\ pc = "query" => ~m_query_ready /\ QueryDue
    /\ pc = "sync" => SyncDue
    /\ pc \in {"idle", "execute"} => NothingDue
    /\ pc = "idle" /\ m_query_ready =>
           inbox = <<>> /\ held = <<>> /\ wire = <<>> /\ srv = Idle

Closed == pc = "closed" /\ scr = EmptyScram /\ (up => (RoundTrip => Bad))

Fresh ==
    /\ pc = "new" /\ ~m_query_ready /\ scr = EmptyScram /\ srv = Stage("startup")
    /\ held = <<>> /\ out = <<>> /\ wire = <<>> /\ inbox = <<>>

Greeted == pc = "init" /\ ~m_query_ready /\ held = <<>> /\ out = <<>> /\ Greeting

Calls == {"idle", "query", "execute", "sync"}
Later == pc \in Calls /\ scr = EmptyScram /\ Good /\ (up => Serving)

Inv ==
    /\ config.method \in AllMethods
    /\ m_query_ready \in BOOLEAN /\ up \in BOOLEAN
    /\ Closed \/ Fresh \/ Greeted \/ Later

----------------------------------------------------------------------------
(* Facts about sequences *)

LEMMA ListOf == ASSUME NEW S, NEW s \in Seq(S) PROVE Listing(s)
  <1>1. Len(s) \in Nat /\ DOMAIN s = 1..Len(s) /\ s = [i \in 1..Len(s) |-> s[i]]
    OBVIOUS
  <1> QED
    BY <1>1 DEF Listing

LEMMA ListLen ==
    ASSUME NEW s, Listing(s)
    PROVE  Len(s) \in Nat /\ DOMAIN s = 1..Len(s) /\ (s # <<>> => Len(s) >= 1)
  BY DEF Listing

LEMMA ListConcat ==
    ASSUME NEW a, NEW b, Listing(a), Listing(b)
    PROVE  /\ Listing(a \o b)
           /\ Len(a) \in Nat /\ Len(b) \in Nat /\ Len(a \o b) = Len(a) + Len(b)
           /\ \A i \in 1..Len(a) : (a \o b)[i] = a[i]
           /\ \A i \in (Len(a) + 1)..(Len(a) + Len(b)) : (a \o b)[i] = b[i - Len(a)]
  <1> DEFINE S == {a[i] : i \in DOMAIN a} \cup {b[i] : i \in DOMAIN b}
  <1>1. a \in Seq(S) /\ b \in Seq(S)
    BY DEF Listing
  <1> HIDE DEF S
  <1>2. a \o b \in Seq(S)
    BY <1>1
  <1>3. Listing(a \o b)
    BY <1>2, ListOf
  <1> QED
    BY <1>1, <1>3

LEMMA ListPart ==
    ASSUME NEW s, Listing(s), NEW j \in 1..(Len(s) + 1), NEW k \in 0..Len(s), j <= k + 1
    PROVE  /\ Listing(SubSeq(s, j, k)) /\ Len(SubSeq(s, j, k)) = k - j + 1
           /\ \A i \in 1..(k - j + 1) :
                  i + j - 1 \in 1..Len(s) /\ SubSeq(s, j, k)[i] = s[i + j - 1]
  <1> DEFINE S == {s[i] : i \in DOMAIN s}
  <1>1. s \in Seq(S)
    BY DEF Listing
  <1> HIDE DEF S
  <1>2. Len(s) \in Nat
    BY <1>1
  <1>3. SubSeq(s, j, k) \in Seq(S) /\ Len(SubSeq(s, j, k)) = k - j + 1
    BY <1>1, <1>2
  <1>4. Listing(SubSeq(s, j, k))
    BY <1>3, ListOf
  <1>5. ASSUME NEW i \in 1..(k - j + 1)
        PROVE  i + j - 1 \in 1..Len(s) /\ SubSeq(s, j, k)[i] = s[i + j - 1]
    <2>1. i + j - 1 \in 1..Len(s) /\ i + j - 1 = j + i - 1
      BY <1>2
    <2> QED
      BY <1>1, <1>2, <2>1
  <1> QED
    BY <1>3, <1>4, <1>5

LEMMA ListTail ==
    ASSUME NEW s, Listing(s), s # <<>>
    PROVE  /\ Tail(s) = SubSeq(s, 2, Len(s)) /\ Len(s) \in Nat \ {0} /\ Head(s) = s[1]
           /\ Len(Tail(s)) = Len(s) - 1 /\ Listing(Tail(s))
           /\ \A i \in 1..(Len(s) - 1) : i + 1 \in 1..Len(s) /\ Tail(s)[i] = s[i + 1]
  <1> DEFINE S == {s[i] : i \in DOMAIN s}
  <1>1. s \in Seq(S)
    BY DEF Listing
  <1> HIDE DEF S
  <1>2. Len(s) \in Nat \ {0} /\ Head(s) = s[1] /\ Tail(s) \in Seq(S)
    BY <1>1
  <1>3. Len(Tail(s)) = Len(s) - 1 /\ \A i \in 1..(Len(s) - 1) : Tail(s)[i] = s[i + 1]
    BY <1>1, <1>2
  <1>4. Tail(s) = SubSeq(s, 2, Len(s))
    BY <1>1, <1>2
  <1>5. Listing(Tail(s))
    BY <1>2, ListOf
  <1> QED
    BY <1>2, <1>3, <1>4, <1>5

----------------------------------------------------------------------------
(* Units without certain headers *)

LEMMA FreeConcat ==
    ASSUME NEW a, NEW b, NEW types, Free(a, types), Free(b, types)
    PROVE  Free(a \o b, types)
  <1>1. Listing(a) /\ Listing(b)
    BY DEF Free
  <1>2. /\ Listing(a \o b)
        /\ Len(a) \in Nat /\ Len(b) \in Nat /\ Len(a \o b) = Len(a) + Len(b)
        /\ \A i \in 1..Len(a) : (a \o b)[i] = a[i]
        /\ \A i \in (Len(a) + 1)..(Len(a) + Len(b)) : (a \o b)[i] = b[i - Len(a)]
    BY <1>1, ListConcat
  <1>3. ASSUME NEW i \in 1..Len(a \o b), (a \o b)[i].part = "head"
        PROVE  (a \o b)[i].length \in Lengths /\ (a \o b)[i].type \notin types
    <2>1. CASE i \in 1..Len(a)
      BY <1>2, <1>3, <2>1 DEF Free
    <2>2. CASE i \in (Len(a) + 1)..(Len(a) + Len(b))
      <3>1. i - Len(a) \in 1..Len(b)
        BY <1>2, <2>2
      <3> QED
        BY <1>2, <1>3, <2>2, <3>1 DEF Free
    <2> QED
      BY <1>2, <2>1, <2>2
  <1> QED
    BY <1>2, <1>3 DEF Free

LEMMA FreePart ==
    ASSUME NEW s, NEW types, Free(s, types), NEW j \in 1..(Len(s) + 1)
    PROVE  Free(SubSeq(s, j, Len(s)), types)
  <1> DEFINE t == SubSeq(s, j, Len(s))
  <1>1. Listing(s) /\ Len(s) \in Nat
    BY ListLen DEF Free
  <1>2. /\ Listing(t) /\ Len(t) = Len(s) - j + 1
        /\ \A i \in 1..(Len(s) - j + 1) : i + j - 1 \in 1..Len(s) /\ t[i] = s[i + j - 1]
    BY <1>1, ListPart
  <1> QED
    BY <1>2 DEF Free

LEMMA FreeEmpty == \A types : Free(<<>>, types)
  <1>1. <<>> \in Seq({}) /\ Len(<<>>) = 0
    OBVIOUS
  <1>2. Listing(<<>>)
    BY <1>1, ListOf
  <1> QED
    BY <1>1, <1>2 DEF Free

LEMMA FreeMessage ==
    ASSUME NEW type, NEW data, NEW types, type \notin types
    PROVE  Free(Message(type, data), types)
  <1> DEFINE h == Header(type, 1)
             b == [part |-> "body", data |-> data]
  <1>1. h.part = "head" /\ h.type = type /\ h.length \in Lengths /\ b.part = "body"
    BY DEF Header, Lengths, INT_32_OCTETS
  <1> HIDE DEF h, b
  <1>2. <<h, b>> \in Seq({h, b}) /\ Len(<<h, b>>) = 2 /\ <<h, b>>[1] = h /\ <<h, b>>[2] = b
    OBVIOUS
  <1>3. Listing(<<h, b>>)
    BY <1>2, ListOf
  <1>4. \A i \in 1..2 : i = 1 \/ i = 2
    OBVIOUS
  <1>5. Free(<<h, b>>, types)
    BY <1>1, <1>2, <1>3, <1>4 DEF Free
  <1> QED
    BY <1>5 DEF Message, h, b

LEMMA FreeBare ==
    ASSUME NEW type, NEW types, type \notin types
    PROVE  Free(Bare(type), types)
  <1> DEFINE h == Header(type, 0)
  <1>1. h.part = "head" /\ h.type = type /\ h.length \in Lengths
    BY DEF Header, Lengths, INT_32_OCTETS
  <1> HIDE DEF h
  <1>2. <<h>> \in Seq({h}) /\ Len(<<h>>) = 1 /\ <<h>>[1] = h
    OBVIOUS
  <1>3. Listing(<<h>>)
    BY <1>2, ListOf
  <1>4. \A i \in 1..1 : i = 1
    OBVIOUS
  <1>5. Free(<<h>>, types)
    BY <1>1, <1>2, <1>3, <1>4 DEF Free
  <1> QED
    BY <1>5 DEF Bare, h

\* Rows are messages of type D.
LEMMA FreeRows ==
    ASSUME NEW rows, Len(rows) \in Nat, NEW types, "D" \notin types
    PROVE  Free(DataRows(rows), types)
  <1> DEFINE n == 2 * Len(rows)
             unit(u) == Message("D", rows[(u + 1) \div 2])[2 - (u % 2)]
             s == [u \in 1..n |-> unit(u)]
  <1>1. n \in Nat
    OBVIOUS
  <1>2. ASSUME NEW u \in 1..n
        PROVE  unit(u).part = "head" => unit(u).length \in Lengths /\ unit(u).type \notin types
    <2> DEFINE d == rows[(u + 1) \div 2]
               h == Header("D", 1)
               b == [part |-> "body", data |-> d]
    <2>1. h.part = "head" /\ h.type = "D" /\ h.length \in Lengths /\ b.part = "body"
      BY DEF Header, Lengths, INT_32_OCTETS
    <2> HIDE DEF d, h, b
    <2>2. 2 - (u % 2) = 1 \/ 2 - (u % 2) = 2
      BY <1>1
    <2>3. <<h, b>>[1] = h /\ <<h, b>>[2] = b
      OBVIOUS
    <2>4. <<h, b>>[2 - (u % 2)] = h \/ <<h, b>>[2 - (u % 2)] = b
      BY <2>2, <2>3
    <2>5. unit(u) = <<h, b>>[2 - (u % 2)]
      BY DEF Message, d, h, b
    <2> HIDE DEF unit
    <2> QED
      BY <2>1, <2>4, <2>5
  <1>3. s = DataRows(rows)
    BY DEF DataRows
  <1> HIDE DEF unit, n
  <1>4. s \in Seq({unit(u) : u \in 1..n}) /\ Len(s) = n
    BY <1>1
  <1>5. \A u \in 1..n : s[u] = unit(u)
    OBVIOUS
  <1> HIDE DEF s
  <1>6. Listing(s)
    BY <1>4, ListOf
  <1>7. Free(s, types)
    BY <1>2, <1>4, <1>5, <1>6 DEF Free
  <1> QED
    BY <1>3, <1>7

LEMMA FreeEnding ==
    ASSUME NEW st, NEW types, types \cap {"E", "S", "C", "N"} = {}
    PROVE  Free(Ending(st), types)
  <1>1. /\ Free(Message("E", 0), types) /\ Free(Message("S", 0), types)
        /\ Free(Message("C", 0), types) /\ Free(Message("N", 0), types)
    BY FreeMessage
  <1>2. /\ Free(Message("S", 0) \o Message("C", 0), types)
        /\ Free(Message("N", 0) \o Message("C", 0), types)
    BY <1>1, FreeConcat
  <1> QED
    BY <1>1, <1>2 DEF Ending

----------------------------------------------------------------------------
(* A last ReadyForQuery *)

LEMMA LastZPart ==
    ASSUME NEW s, LastZ(s), NEW j \in 1..(Len(s) + 1)
    PROVE  LastZ(SubSeq(s, j, Len(s)))
  <1> DEFINE t == SubSeq(s, j, Len(s))
  <1>1. Listing(s) /\ Len(s) \in Nat
    BY ListLen DEF LastZ
  <1>2. /\ Listing(t) /\ Len(t) = Len(s) - j + 1
        /\ \A i \in 1..(Len(s) - j + 1) : i + j - 1 \in 1..Len(s) /\ t[i] = s[i + j - 1]
    BY <1>1, ListPart
  <1> HIDE DEF t
  <1>3. ASSUME NEW i \in 1..Len(t), t[i].part = "head"
        PROVE  /\ t[i].length \in Lengths
               /\ t[i].type = "Z" => i + 1 >= Len(t) /\ t[i].length = INT_32_OCTETS + 1
    <2>1. i + j - 1 \in 1..Len(s) /\ t[i] = s[i + j - 1]
      BY <1>2
    <2>2. /\ t[i].length \in Lengths
          /\ t[i].type = "Z" => (i + j - 1) + 1 >= Len(s) /\ t[i].length = INT_32_OCTETS + 1
      BY <1>3, <2>1 DEF LastZ
    <2> QED
      BY <1>1, <1>2, <2>2
  <1>4. LastZ(t)
    BY <1>2, <1>3 DEF LastZ
  <1> QED
    BY <1>4 DEF t

\* The same of a part that is left when the connection breaks.
LEMMA LastZPrefix ==
    ASSUME NEW s, LastZ(s), NEW n \in 0..Len(s)
    PROVE  LastZ(SubSeq(s, 1, n))
  <1> DEFINE t == SubSeq(s, 1, n)
  <1>1. Listing(s) /\ Len(s) \in Nat
    BY ListLen DEF LastZ
  <1>2. /\ Listing(t) /\ Len(t) = n - 1 + 1
        /\ \A i \in 1..(n - 1 + 1) : i + 1 - 1 \in 1..Len(s) /\ t[i] = s[i + 1 - 1]
    BY <1>1, ListPart
  <1> HIDE DEF t
  <1>3. ASSUME NEW i \in 1..Len(t), t[i].part = "head"
        PROVE  /\ t[i].length \in Lengths
               /\ t[i].type = "Z" => i + 1 >= Len(t) /\ t[i].length = INT_32_OCTETS + 1
    <2>1. i + 1 - 1 = i /\ Len(t) = n
      BY <1>1, <1>2
    <2>2. i \in 1..Len(s) /\ t[i] = s[i]
      BY <1>2, <2>1
    <2>3. /\ t[i].length \in Lengths
          /\ t[i].type = "Z" => i + 1 >= Len(s) /\ t[i].length = INT_32_OCTETS + 1
      BY <1>3, <2>2 DEF LastZ
    <2> QED
      BY <1>1, <2>1, <2>3
  <1>4. LastZ(t)
    BY <1>2, <1>3 DEF LastZ
  <1> QED
    BY <1>4 DEF t

LEMMA FreeLastZ == ASSUME NEW s, Free(s, {"Z"}) PROVE LastZ(s)
  BY DEF Free, LastZ

LEMMA AppendZ ==
    ASSUME NEW s, Free(s, {"Z"})
    PROVE  LastZ(s \o Message("Z", 0))
  <1> DEFINE h == Header("Z", 1)
             b == [part |-> "body", data |-> 0]
             m == <<h, b>>
             t == s \o m
  <1>1. /\ h.part = "head" /\ h.type = "Z" /\ b.part = "body"
        /\ h.length = INT_32_OCTETS + 1 /\ h.length \in Lengths
    BY DEF Header, Lengths, INT_32_OCTETS
  <1>2. m = Message("Z", 0)
    BY DEF Message
  <1> HIDE DEF h, b
  <1>3. m \in Seq({h, b}) /\ Len(m) = 2 /\ m[1] = h /\ m[2] = b
    OBVIOUS
  <1> HIDE DEF m
  <1>4. Listing(m) /\ Listing(s)
    BY <1>3, ListOf DEF Free
  <1>5. /\ Listing(t) /\ Len(s) \in Nat /\ Len(t) = Len(s) + 2
        /\ \A i \in 1..Len(s) : t[i] = s[i]
        /\ \A i \in (Len(s) + 1)..(Len(s) + 2) : t[i] = m[i - Len(s)]
    <2>1. /\ Listing(s \o m) /\ Len(s) \in Nat /\ Len(s \o m) = Len(s) + Len(m)
          /\ \A i \in 1..Len(s) : (s \o m)[i] = s[i]
          /\ \A i \in (Len(s) + 1)..(Len(s) + Len(m)) : (s \o m)[i] = m[i - Len(s)]
      BY <1>4, ListConcat
    <2> QED
      BY <1>3, <2>1
  <1>6. t[Len(s) + 1] = m[1] /\ t[Len(s) + 2] = m[2]
    <2>1. /\ Len(s) + 1 \in (Len(s) + 1)..(Len(s) + 2) /\ (Len(s) + 1) - Len(s) = 1
          /\ Len(s) + 2 \in (Len(s) + 1)..(Len(s) + 2) /\ (Len(s) + 2) - Len(s) = 2
      BY <1>5
    <2> HIDE DEF t
    <2> QED
      BY <1>5, <2>1
  <1> HIDE DEF t
  <1>7. ASSUME NEW i \in 1..Len(t), t[i].part = "head"
        PROVE  /\ t[i].length \in Lengths
               /\ t[i].type = "Z" => i + 1 >= Len(t) /\ t[i].length = INT_32_OCTETS + 1
    <2>1. CASE i \in 1..Len(s)
      BY <1>5, <1>7, <2>1 DEF Free
    <2>2. CASE i = Len(s) + 1
      BY <1>1, <1>3, <1>5, <1>6, <2>2
    <2>3. CASE i = Len(s) + 2
      BY <1>1, <1>3, <1>5, <1>6, <1>7, <2>3
    <2> QED
      BY <1>5, <2>1, <2>2, <2>3
  <1>8. LastZ(t)
    BY <1>5, <1>7 DEF LastZ
  <1> QED
    BY <1>2, <1>8 DEF t

\* Units before a last ReadyForQuery.
LEMMA LastZConcat ==
    ASSUME NEW a, NEW b, Free(a, {"Z"}), LastZ(b)
    PROVE  LastZ(a \o b)
  <1> DEFINE s == a \o b
  <1>1. Listing(a) /\ Listing(b)
    BY DEF Free, LastZ
  <1>2. /\ Listing(s)
        /\ Len(a) \in Nat /\ Len(b) \in Nat /\ Len(s) = Len(a) + Len(b)
        /\ \A i \in 1..Len(a) : s[i] = a[i]
        /\ \A i \in (Len(a) + 1)..(Len(a) + Len(b)) : s[i] = b[i - Len(a)]
    BY <1>1, ListConcat
  <1> HIDE DEF s
  <1>3. ASSUME NEW i \in 1..Len(s), s[i].part = "head"
        PROVE  /\ s[i].length \in Lengths
               /\ s[i].type = "Z" => i + 1 >= Len(s) /\ s[i].length = INT_32_OCTETS + 1
    <2>1. CASE i \in 1..Len(a)
      BY <1>2, <1>3, <2>1 DEF Free
    <2>2. CASE i \in (Len(a) + 1)..(Len(a) + Len(b))
      <3> DEFINE k == i - Len(a)
      <3>1. k \in 1..Len(b) /\ i = Len(a) + k /\ s[i] = b[k]
        <4>1. k \in 1..Len(b) /\ i = Len(a) + k
          BY <1>2, <2>2
        <4>2. s[i] = b[i - Len(a)]
          BY <1>2, <2>2
        <4> QED
          BY <4>1, <4>2
      <3> HIDE DEF k
      <3>2. /\ b[k].length \in Lengths
            /\ b[k].type = "Z" => k + 1 >= Len(b) /\ b[k].length = INT_32_OCTETS + 1
        BY <1>3, <3>1 DEF LastZ
      <3>3. k + 1 >= Len(b) => i + 1 >= Len(s)
        BY <1>2, <3>1
      <3> QED
        BY <3>1, <3>2, <3>3
    <2> QED
      BY <1>2, <2>1, <2>2
  <1>4. LastZ(s)
    BY <1>2, <1>3 DEF LastZ
  <1> QED
    BY <1>4 DEF s

----------------------------------------------------------------------------
(* What a read leaves *)

LEMMA SkipLeaves ==
    ASSUME LastZ(wire), wire # <<>>, Head(wire).part = "head", Skip
    PROVE  /\ \E j \in 1..(Len(wire) + 1) : wire' = SubSeq(wire, j, Len(wire))
           /\ Head(wire).type = "Z" => wire' = <<>>
  <1>1. Listing(wire)
    BY DEF LastZ
  <1>2. Len(wire) \in Nat \ {0} /\ Head(wire) = wire[1] /\ 1 \in 1..Len(wire)
    BY <1>1, ListTail
  <1>3. /\ Head(wire).length \in Lengths
        /\ Head(wire).type = "Z" => 2 >= Len(wire) /\ Head(wire).length = INT_32_OCTETS + 1
    BY <1>2 DEF LastZ
  <1>4. m_size \in {0, 1} /\ (Head(wire).type = "Z" => m_size = 1)
    BY <1>3 DEF m_size, Lengths, INT_32_OCTETS
  <1>5. Len(wire) > m_size /\ wire' = SubSeq(wire, 2 + m_size, Len(wire))
    BY DEF Skip, Whole
  <1>6. 2 + m_size \in 1..(Len(wire) + 1)
    BY <1>2, <1>4, <1>5
  <1>7. ASSUME Head(wire).type = "Z" PROVE wire' = <<>>
    <2>1. m_size = 1 /\ Len(wire) = 2
      <3>1. m_size = 1 /\ 2 >= Len(wire)
        BY <1>3, <1>4, <1>7
      <3>2. Len(wire) > 1
        BY <1>5, <3>1
      <3> QED
        BY <1>2, <3>1, <3>2
    <2> DEFINE j == 2 + m_size
               k == Len(wire)
    <2>2. /\ wire' = SubSeq(wire, j, k) /\ k - j + 1 = 0
          /\ j \in 1..(Len(wire) + 1) /\ k \in 0..Len(wire) /\ j <= k + 1
      BY <1>5, <1>6, <2>1
    <2> HIDE DEF j, k
    <2>3. Listing(SubSeq(wire, j, k)) /\ Len(SubSeq(wire, j, k)) = k - j + 1
      BY <1>1, <2>2, ListPart
    <2>4. SubSeq(wire, j, k) # <<>> => Len(SubSeq(wire, j, k)) >= 1
      BY <2>3, ListLen
    <2> QED
      BY <2>2, <2>3, <2>4
  <1> QED
    BY <1>5, <1>6, <1>7

LEMMA HeaderLeaves ==
    ASSUME Listing(wire), wire # <<>>, HeaderRead
    PROVE  \E j \in 1..(Len(wire) + 1) : wire' = SubSeq(wire, j, Len(wire))
  <1>1. Len(wire) \in Nat \ {0} /\ wire' = SubSeq(wire, 2, Len(wire))
    BY ListTail DEF HeaderRead
  <1>2. 2 \in 1..(Len(wire) + 1)
    BY <1>1
  <1> QED
    BY <1>1, <1>2

\* Until ReadyForQuery a call only reads.
LEMMA ReadsOn ==
    ASSUME Serving, pc \in {"query", "execute", "sync"},
           NEW j \in 1..(Len(wire) + 1), wire' = SubSeq(wire, j, Len(wire)),
           UNCHANGED <<m_query_ready, pc, out, inbox, server>>
    PROVE  Serving'
  <1> USE DEF server
  <1>1. ASSUME NEW types, Free(wire, types) PROVE Free(wire', types)
    BY <1>1, FreePart
  <1>2. LastZ(wire) => LastZ(wire')
    BY LastZPart
  <1>3. Answered => Answered'
    BY <1>2 DEF Answered
  <1>4. QueryDue => QueryDue'
    BY <1>1, <1>3 DEF QueryDue
  <1>5. SyncDue => SyncDue'
    BY <1>1, <1>3 DEF SyncDue
  <1>6. NothingDue => NothingDue'
    BY <1>1 DEF NothingDue
  <1>7. NoPortal => NoPortal'
    BY <1>1 DEF NoPortal
  <1> QED
    BY <1>4, <1>5, <1>6, <1>7 DEF Serving

\* After ReadyForQuery nothing is left.
LEMMA ReadyLeaves ==
    ASSUME Serving, pc \in {"query", "sync"}, Response({"Z"}), Skip,
           m_query_ready' = TRUE, pc' = "idle", UNCHANGED <<out, inbox, server>>
    PROVE  Serving'
  <1> USE DEF server
  <1>1. /\ wire # <<>> /\ Head(wire).part = "head" /\ Head(wire).type = "Z"
        /\ QueryDue \/ SyncDue
    BY DEF Response, Serving
  <1>2. ~Free(wire, {"Z"})
    <2>1. Listing(wire) => 1 \in 1..Len(wire) /\ Head(wire) = wire[1]
      BY <1>1, ListTail
    <2> QED
      BY <1>1, <2>1 DEF Free
  <1>3. Answered
    BY <1>1, <1>2 DEF QueryDue, SyncDue
  <1>4. wire' = <<>>
    BY <1>1, <1>3, SkipLeaves DEF Answered
  <1>5. /\ inbox' = <<>> /\ held' = <<>> /\ out' = <<>> /\ srv' = Idle
        /\ Only(out, {"P", "B"}) /\ srv \in ServerStates
    BY <1>3 DEF Answered, Serving
  <1>6. Free(<<>>, {"Z"}) /\ Free(<<>>, {"s"}) /\ Listing(<<>>)
    BY FreeEmpty DEF Free
  <1>7. NoPortal' /\ NothingDue'
    <2>1. Len(<<>>) = 0 /\ Idle.portal = <<>>
      BY DEF Idle
    <2> QED
      BY <1>4, <1>5, <1>6, <2>1 DEF NoPortal, NothingDue, Only
  <1> QED
    BY <1>4, <1>5, <1>6, <1>7 DEF Serving

----------------------------------------------------------------------------
(* What a call sends *)

LEMMA OnlyConcat ==
    ASSUME NEW a, NEW b, NEW types, Only(a, types), Only(b, types)
    PROVE  Only(a \o b, types)
  <1>1. Listing(a) /\ Listing(b)
    BY DEF Only
  <1>2. /\ Listing(a \o b)
        /\ Len(a) \in Nat /\ Len(b) \in Nat /\ Len(a \o b) = Len(a) + Len(b)
        /\ \A i \in 1..Len(a) : (a \o b)[i] = a[i]
        /\ \A i \in (Len(a) + 1)..(Len(a) + Len(b)) : (a \o b)[i] = b[i - Len(a)]
    BY <1>1, ListConcat
  <1>3. ASSUME NEW i \in 1..Len(a \o b)
        PROVE  (a \o b)[i].type \in types /\ Typed((a \o b)[i])
    <2>1. CASE i \in 1..Len(a)
      BY <1>2, <2>1 DEF Only
    <2>2. CASE i \in (Len(a) + 1)..(Len(a) + Len(b))
      <3>1. i - Len(a) \in 1..Len(b)
        BY <1>2, <2>2
      <3> QED
        BY <1>2, <2>2, <3>1 DEF Only
    <2> QED
      BY <1>2, <2>1, <2>2
  <1> QED
    BY <1>2, <1>3 DEF Only

LEMMA OnlyWider ==
    ASSUME NEW a, NEW types, NEW more, types \subseteq more, Only(a, types)
    PROVE  Only(a, more)
  BY DEF Only

LEMMA OnlyPair ==
    ASSUME NEW x, NEW y, NEW types, x.type \in types, y.type \in types, Typed(x), Typed(y)
    PROVE  Only(<<x, y>>, types)
  <1>1. <<x, y>> \in Seq({x, y}) /\ Len(<<x, y>>) = 2 /\ <<x, y>>[1] = x /\ <<x, y>>[2] = y
    OBVIOUS
  <1>2. Listing(<<x, y>>)
    BY <1>1, ListOf
  <1>3. \A i \in 1..2 : i = 1 \/ i = 2
    OBVIOUS
  <1> QED
    BY <1>1, <1>2, <1>3 DEF Only

LEMMA OnlyEmpty == \A types : Only(<<>>, types)
  <1>1. Listing(<<>>) /\ Len(<<>>) = 0
    BY FreeEmpty DEF Free
  <1> QED
    BY <1>1 DEF Only

LEMMA ConcatEmpty == ASSUME NEW s, Listing(s) PROVE s \o <<>> = s /\ <<>> \o s = s
  BY DEF Listing

\* Types that a call may send without a portal: all but Bind.
Unbound == Asks \ {"B"}

\* Messages of the extended protocol, and after them a Sync.
SyncLast(msgs, types) ==
    /\ Listing(msgs) /\ msgs # <<>> /\ msgs[Len(msgs)].type = "S"
    /\ \A i \in 1..(Len(msgs) - 1) : msgs[i].type \in types /\ Typed(msgs[i])

LEMMA SyncAppended ==
    ASSUME NEW a, NEW types, Only(a, types), "C" \in types
    PROVE  SyncLast(a \o SyncMessages, types)
  <1> DEFINE x == [type |-> "C", data |-> 0]
             y == [type |-> "S", data |-> 0]
             b == <<x, y>>
             s == a \o b
  <1>1. x.type = "C" /\ y.type = "S" /\ Typed(x)
    BY DEF Typed
  <1>2. b = SyncMessages
    BY DEF SyncMessages
  <1> HIDE DEF x, y
  <1>3. b \in Seq({x, y}) /\ Len(b) = 2 /\ b[1] = x /\ b[2] = y
    OBVIOUS
  <1> HIDE DEF b
  <1>4. Listing(a) /\ Listing(b)
    BY <1>3, ListOf DEF Only
  <1>5. /\ Listing(s) /\ Len(a) \in Nat /\ Len(s) = Len(a) + 2
        /\ \A i \in 1..Len(a) : s[i] = a[i]
        /\ \A i \in (Len(a) + 1)..(Len(a) + 2) : s[i] = b[i - Len(a)]
    <2>1. /\ Listing(a \o b) /\ Len(a) \in Nat /\ Len(a \o b) = Len(a) + Len(b)
          /\ \A i \in 1..Len(a) : (a \o b)[i] = a[i]
          /\ \A i \in (Len(a) + 1)..(Len(a) + Len(b)) : (a \o b)[i] = b[i - Len(a)]
      BY <1>4, ListConcat
    <2> QED
      BY <1>3, <2>1
  <1> HIDE DEF s
  <1>6. s[Len(a) + 1] = x /\ s[Len(a) + 2] = y
    <2>1. /\ Len(a) + 1 \in (Len(a) + 1)..(Len(a) + 2) /\ (Len(a) + 1) - Len(a) = 1
          /\ Len(a) + 2 \in (Len(a) + 1)..(Len(a) + 2) /\ (Len(a) + 2) - Len(a) = 2
      BY <1>5
    <2> QED
      BY <1>3, <1>5, <2>1
  <1>7. ASSUME NEW i \in 1..(Len(s) - 1) PROVE s[i].type \in types /\ Typed(s[i])
    <2>1. CASE i \in 1..Len(a)
      BY <1>5, <2>1 DEF Only
    <2>2. CASE i = Len(a) + 1
      BY <1>1, <1>6, <2>2
    <2> QED
      BY <1>5, <2>1, <2>2
  <1>8. s # <<>>
    <2>1. Len(<<>>) = 0
      OBVIOUS
    <2> QED
      BY <1>5, <2>1
  <1>9. SyncLast(s, types)
    BY <1>1, <1>5, <1>6, <1>7, <1>8 DEF SyncLast
  <1> QED
    BY <1>2, <1>9 DEF s

\* Without a portal, what is on its way and what is written asks for none.
LEMMA NoBind ==
    ASSUME Serving, m_query_ready, NothingDue
    PROVE  out = <<>> /\ Only(inbox, Unbound) /\ inbox \o out = inbox
  <1>1. out = <<>> /\ Only(inbox, Asks) /\ \A i \in 1..Len(inbox) : inbox[i].type # "B"
    BY DEF Serving, NoPortal, NothingDue
  <1>2. Only(inbox, Unbound)
    BY <1>1 DEF Only, Unbound
  <1> QED
    BY <1>1, <1>2, ConcatEmpty DEF Only

\* execute sends what was written, Execute and Flush.
LEMMA ExecuteSends ==
    ASSUME Serving, up, NEW n \in Limits, ExecuteCall(n)
    PROVE  Serving'
  <1>1. /\ pc = "idle" /\ pc' = "execute" /\ out' = <<>> /\ m_query_ready' = m_query_ready
        /\ inbox' = inbox \o out \o ExecuteMessages(n)
        /\ held' = held /\ srv' = srv /\ wire' = wire
    BY DEF ExecuteCall, Called, Send
  <1>2. NothingDue /\ Only(out, {"P", "B"})
    BY <1>1 DEF Serving
  <1>3. ASSUME NEW types, {"E", "H"} \subseteq types PROVE Only(ExecuteMessages(n), types)
    <2> DEFINE x == [type |-> "E", data |-> n]
               y == [type |-> "H", data |-> 0]
    <2>1. x.type \in types /\ y.type \in types /\ Typed(x) /\ Typed(y)
      BY <1>3, PgConnectionAssumption DEF Typed
    <2> HIDE DEF x, y
    <2>2. Only(<<x, y>>, types)
      BY <2>1, OnlyPair
    <2> QED
      BY <2>2 DEF ExecuteMessages, x, y
  <1>4. Only(inbox \o out \o ExecuteMessages(n), Asks)
    <2>1. Only(inbox, Asks) /\ Only(out, Asks)
      BY <1>2, OnlyWider DEF NothingDue, Asks
    <2>2. Only(inbox \o out, Asks)
      BY <2>1, OnlyConcat
    <2>3. Only(ExecuteMessages(n), Asks)
      BY <1>3 DEF Asks
    <2> QED
      BY <2>2, <2>3, OnlyConcat
  <1>5. NothingDue'
    BY <1>1, <1>2, <1>4 DEF NothingDue
  <1>6. m_query_ready' => NoPortal'
    <2> SUFFICES ASSUME m_query_ready PROVE NoPortal'
      BY <1>1
    <2>1. out = <<>> /\ Only(inbox, Unbound) /\ inbox \o out = inbox
      BY <1>2, NoBind
    <2>2. Only(ExecuteMessages(n), Unbound)
      BY <1>3 DEF Unbound, Asks
    <2>3. Only(inbox \o ExecuteMessages(n), Unbound)
      BY <2>1, <2>2, OnlyConcat
    <2>4. inbox' = inbox \o ExecuteMessages(n)
      BY <1>1, <2>1
    <2>5. Listing(inbox') /\ \A i \in 1..Len(inbox') : inbox'[i].type # "B"
      BY <2>3, <2>4 DEF Only, Unbound
    <2>6. NoPortal
      BY DEF Serving
    <2> QED
      BY <1>1, <2>5, <2>6 DEF NoPortal
  <1>7. Only(out', {"P", "B"})
    BY <1>1, OnlyEmpty
  <1> QED
    BY <1>1, <1>5, <1>6, <1>7 DEF Serving

\* close_sync sends what was written, Close and Sync.
LEMMA SyncSends ==
    ASSUME Serving, pc \in {"idle", "execute"}, pc' = "sync", out' = <<>>,
           inbox' = inbox \o out \o SyncMessages, UNCHANGED <<m_query_ready, held, srv>>,
           Free(wire, {"Z"}) => Free(wire', {"Z"}), Free(wire, {"s"}) => Free(wire', {"s"})
    PROVE  Serving'
  <1>1. NothingDue /\ Only(out, {"P", "B"})
    BY DEF Serving
  <1>2. Only(inbox \o out, Asks)
    <2>1. Only(inbox, Asks) /\ Only(out, Asks)
      BY <1>1, OnlyWider DEF NothingDue, Asks
    <2> QED
      BY <2>1, OnlyConcat
  <1>3. SyncLast(inbox \o out \o SyncMessages, Asks)
    BY <1>2, SyncAppended DEF Asks
  <1>4. SyncDue'
    BY <1>1, <1>3 DEF SyncDue, SyncLast, NothingDue
  <1>5. m_query_ready' => NoPortal'
    <2> SUFFICES ASSUME m_query_ready PROVE NoPortal'
      OBVIOUS
    <2>1. Only(inbox, Unbound) /\ inbox \o out = inbox
      BY <1>1, NoBind
    <2>2. SyncLast(inbox \o SyncMessages, Unbound)
      BY <2>1, SyncAppended DEF Unbound, Asks
    <2>3. SyncLast(inbox', Unbound)
      BY <2>1, <2>2
    <2>4. Listing(inbox') /\ Len(inbox') \in Nat
      BY <2>3, ListLen DEF SyncLast
    <2>5. ASSUME NEW i \in 1..Len(inbox') PROVE inbox'[i].type # "B"
      <3>1. i = Len(inbox') \/ i \in 1..(Len(inbox') - 1)
        BY <2>4
      <3> QED
        BY <2>3, <3>1 DEF SyncLast, Unbound
    <2>6. NoPortal
      BY DEF Serving
    <2> QED
      BY <2>4, <2>5, <2>6 DEF NoPortal
  <1>6. Only(out', {"P", "B"})
    BY OnlyEmpty
  <1> QED
    BY <1>4, <1>5, <1>6 DEF Serving

LEMMA QuerySends ==
    ASSUME Serving, up, NEW q \in Queries, QueryCall(q)
    PROVE  Serving'
  <1> DEFINE x == [type |-> "Q", data |-> q]
  <1>1. /\ pc = "idle" /\ pc' = "query" /\ out' = <<>> /\ m_query_ready /\ ~m_query_ready'
        /\ inbox' = inbox \o out \o <<x>> /\ answer' = <<>>
        /\ held' = held /\ srv' = srv /\ wire' = wire
    BY DEF QueryCall, Called, Send
  <1>2. x.type = "Q" /\ x.data = q
    OBVIOUS
  <1> HIDE DEF x
  <1>3. /\ inbox = <<>> /\ out = <<>> /\ held = <<>> /\ wire = <<>> /\ srv = Idle
        /\ srv \in ServerStates
    BY <1>1 DEF Serving, NoPortal
  <1>4. inbox' = <<x>>
    BY <1>1, <1>3
  <1>5. <<x>> \in Seq({x}) /\ Len(<<x>>) = 1 /\ <<x>>[1] = x
    OBVIOUS
  <1>6. Listing(<<x>>) /\ Listing(<<>>) /\ Free(<<>>, {"Z"})
    BY <1>5, ListOf, FreeEmpty DEF Free
  <1>7. Len(<<>>) = 0 /\ Len(q) \in Nat
    BY DEF Queries
  <1>8. QueryDue'
    BY <1>1, <1>2, <1>3, <1>4, <1>5, <1>6, <1>7 DEF QueryDue
  <1>9. Only(out', {"P", "B"})
    BY <1>1, OnlyEmpty
  <1> QED
    BY <1>1, <1>3, <1>6, <1>8, <1>9 DEF Serving

LEMMA PrepareWrites ==
    ASSUME Serving, up, NEW st \in Statements, PrepareQuery(st)
    PROVE  Serving'
  <1> DEFINE x == [type |-> "P", data |-> st]
             y == [type |-> "B", data |-> st]
  <1>1. /\ pc = "idle" /\ pc' = "idle" /\ out' = out \o <<x, y>> /\ ~m_query_ready'
        /\ inbox' = inbox /\ held' = held /\ srv' = srv /\ wire' = wire
    BY DEF PrepareQuery, Unready, server
  <1>2. x.type \in {"P", "B"} /\ y.type \in {"P", "B"} /\ Typed(x) /\ Typed(y)
    BY DEF Typed
  <1> HIDE DEF x, y
  <1>3. Only(<<x, y>>, {"P", "B"})
    BY <1>2, OnlyPair
  <1>4. Only(out', {"P", "B"})
    BY <1>1, <1>3, OnlyConcat DEF Serving
  <1>5. NothingDue'
    BY <1>1 DEF Serving, NothingDue
  <1> QED
    BY <1>1, <1>4, <1>5 DEF Serving

----------------------------------------------------------------------------
(* What the server does after init *)

\* It handles a message of the extended protocol other than Sync.
Passes(units) ==
    /\ inbox # <<>> /\ Head(inbox).type \in Asks /\ inbox' = Tail(inbox)
    /\ Free(units, {"Z"})
    /\ Hold(units) \/ Deliver(units)
    /\ srv' \in ServerStates
    /\ Head(inbox).type # "B" /\ srv.portal = <<>> =>
           srv'.portal = <<>> /\ Free(units, {"s"})
    /\ UNCHANGED <<m_query_ready, pc, out>>

LEMMA PassesOn ==
    ASSUME Serving, pc \in {"idle", "query", "execute", "sync"}, NEW units, Passes(units)
    PROVE  Serving'
  <1>1. /\ inbox # <<>> /\ Head(inbox).type \in Asks /\ inbox' = Tail(inbox)
        /\ m_query_ready' = m_query_ready /\ pc' = pc /\ out' = out /\ srv' \in ServerStates
    BY DEF Passes
  <1>2. ASSUME NEW types, Free(held, types), Free(units, types) PROVE Free(held', types)
    <2>1. Free(held \o units, types) /\ Free(<<>>, types)
      BY <1>2, FreeConcat, FreeEmpty
    <2> QED
      BY <2>1 DEF Passes, Hold, Deliver
  <1>3. ASSUME NEW types, Free(wire, types), Free(held, types), Free(units, types)
        PROVE  Free(wire', types)
    <2>1. Free(wire \o held, types)
      BY <1>3, FreeConcat
    <2>2. Free(wire \o held \o units, types)
      BY <1>3, <2>1, FreeConcat
    <2> QED
      BY <1>3, <2>2 DEF Passes, Hold, Deliver
  <1>4. Free(held, {"Z"}) /\ Free(units, {"Z"})
    BY DEF Serving, Passes
  <1>5. ASSUME Listing(inbox)
        PROVE  /\ Head(inbox) = inbox[1] /\ Len(inbox) \in Nat \ {0}
               /\ Listing(inbox') /\ Len(inbox') = Len(inbox) - 1
               /\ \A i \in 1..Len(inbox') : i + 1 \in 1..Len(inbox) /\ inbox'[i] = inbox[i + 1]
    BY <1>1, <1>5, ListTail
  <1>6. pc # "query"
    <2>1. ASSUME QueryDue PROVE FALSE
      <3>1. Listing(inbox) /\ inbox[1].type = "Q"
        BY <1>1, <2>1 DEF QueryDue, Answered
      <3>2. inbox[1].type \in Asks
        BY <1>1, <1>5, <3>1
      <3> QED
        BY <3>1, <3>2 DEF Asks
    <2> QED
      BY <2>1 DEF Serving
  <1>7. NothingDue => NothingDue'
    <2> SUFFICES ASSUME NothingDue PROVE NothingDue'
      OBVIOUS
    <2>1. Listing(inbox)
      BY DEF NothingDue, Only
    <2>2. Only(inbox', Asks)
      BY <1>5, <2>1 DEF NothingDue, Only
    <2> QED
      BY <1>3, <1>4, <2>2 DEF NothingDue
  <1>8. SyncDue => SyncDue'
    <2> SUFFICES ASSUME SyncDue PROVE SyncDue'
      OBVIOUS
    <2>1. /\ Listing(inbox) /\ inbox[Len(inbox)].type = "S" /\ Free(wire, {"Z"})
          /\ \A i \in 1..(Len(inbox) - 1) : inbox[i].type \in Asks /\ Typed(inbox[i])
      BY <1>1 DEF SyncDue, Answered
    <2>2. Len(inbox) # 1
      <3>1. inbox[1].type # "S"
        BY <1>1, <1>5, <2>1 DEF Asks
      <3> QED
        BY <2>1, <3>1
    <2>3. Len(inbox') \in Nat \ {0} /\ Len(inbox') + 1 = Len(inbox) /\ Listing(inbox')
      BY <1>5, <2>1, <2>2
    <2>4. inbox'[Len(inbox')].type = "S"
      <3>1. Len(inbox') \in 1..Len(inbox')
        BY <2>3
      <3>2. inbox'[Len(inbox')] = inbox[Len(inbox') + 1]
        BY <1>5, <2>1, <3>1
      <3> QED
        BY <2>1, <2>3, <3>2
    <2>5. ASSUME NEW i \in 1..(Len(inbox') - 1)
          PROVE  inbox'[i].type \in Asks /\ Typed(inbox'[i])
      <3>1. i \in 1..Len(inbox') /\ i + 1 \in 1..(Len(inbox) - 1)
        BY <2>3
      <3>2. inbox'[i] = inbox[i + 1]
        BY <1>5, <2>1, <3>1
      <3> QED
        BY <2>1, <3>1, <3>2
    <2>6. inbox' # <<>>
      <3>1. Len(<<>>) = 0
        OBVIOUS
      <3> QED
        BY <2>3, <3>1
    <2> QED
      BY <1>3, <1>4, <2>1, <2>3, <2>4, <2>5, <2>6 DEF SyncDue
  <1>9. NoPortal => NoPortal'
    <2> SUFFICES ASSUME NoPortal PROVE NoPortal'
      OBVIOUS
    <2>1. /\ srv.portal = <<>> /\ out = <<>> /\ Listing(inbox)
          /\ \A i \in 1..Len(inbox) : inbox[i].type # "B"
          /\ Free(wire, {"s"}) /\ Free(held, {"s"})
      BY DEF NoPortal
    <2>2. Head(inbox).type # "B"
      <3>1. Head(inbox) = inbox[1] /\ 1 \in 1..Len(inbox)
        BY <1>5, <2>1
      <3> QED
        BY <2>1, <3>1
    <2>3. srv'.portal = <<>> /\ Free(units, {"s"})
      BY <2>1, <2>2 DEF Passes
    <2>4. Listing(inbox') /\ \A i \in 1..Len(inbox') : inbox'[i].type # "B"
      BY <1>5, <2>1
    <2> QED
      BY <1>1, <1>2, <1>3, <2>1, <2>3, <2>4 DEF NoPortal
  <1>10. Free(held', {"Z"})
    BY <1>2, <1>4
  <1> QED
    BY <1>1, <1>6, <1>7, <1>8, <1>9, <1>10 DEF Serving

LEMMA TailOfOne == ASSUME NEW s, Listing(s), Len(s) = 1 PROVE Tail(s) = <<>>
  <1>1. s # <<>>
    <2>1. Len(<<>>) = 0
      OBVIOUS
    <2> QED
      BY <2>1
  <1>2. Listing(Tail(s)) /\ Len(Tail(s)) = Len(s) - 1
    BY <1>1, ListTail
  <1>3. Len(Tail(s)) = 0
    BY <1>2
  <1> DEFINE t == Tail(s)
  <1> HIDE DEF t
  <1>4. Listing(t) /\ Len(t) = 0
    BY <1>2, <1>3 DEF t
  <1>5. t = <<>>
    BY <1>4 DEF Listing
  <1> QED
    BY <1>5 DEF t

LEMMA HeadTyped ==
    ASSUME Serving, pc \in {"idle", "query", "execute", "sync"}, inbox # <<>>,
           Head(inbox).type \in Asks
    PROVE  Typed(Head(inbox))
  <1>1. CASE NothingDue
    <2>1. Listing(inbox)
      BY <1>1 DEF NothingDue, Only
    <2>2. Head(inbox) = inbox[1] /\ 1 \in 1..Len(inbox)
      BY <2>1, ListTail
    <2> QED
      BY <1>1, <2>2 DEF NothingDue, Only
  <1>2. CASE SyncDue
    <2>1. /\ Listing(inbox) /\ inbox[Len(inbox)].type = "S"
          /\ \A i \in 1..(Len(inbox) - 1) : inbox[i].type \in Asks /\ Typed(inbox[i])
      BY <1>2 DEF SyncDue, Answered
    <2>2. Head(inbox) = inbox[1] /\ Len(inbox) \in Nat \ {0}
      BY <2>1, ListTail
    <2>3. 1 \in 1..(Len(inbox) - 1)
      BY <2>1, <2>2 DEF Asks
    <2> QED
      BY <2>1, <2>2, <2>3
  <1>3. CASE QueryDue
    <2>1. Listing(inbox) /\ inbox[1].type = "Q"
      BY <1>3 DEF QueryDue, Answered
    <2>2. Head(inbox) = inbox[1]
      BY <2>1, ListTail
    <2> QED
      BY <2>1, <2>2 DEF Asks
  <1> QED
    BY <1>1, <1>2, <1>3 DEF Serving

LEMMA StatementRows == \A st \in Statements : st.rows \in Nat
  BY PgConnectionAssumption DEF Statements

LEMMA RowsLen ==
    ASSUME NEW i, NEW from \in Nat, NEW to \in Nat, from <= to
    PROVE  Len(RowsOf(i, from, to)) \in Nat
  <1>1. to - from \in Nat
    OBVIOUS
  <1> QED
    BY <1>1 DEF RowsOf

\* An error of the extended protocol.
LEMMA ErrorPasses ==
    ASSUME Serving, inbox # <<>>, Head(inbox).type \in Asks, inbox' = Tail(inbox), ServeError,
           UNCHANGED <<m_query_ready, pc, out>>
    PROVE  Passes(Refuse)
  <1>1. Free(Refuse, {"Z"}) /\ Free(Refuse, {"s"})
    BY FreeMessage DEF Refuse
  <1>2. srv' = [srv EXCEPT !.stage = "skipping"] /\ srv \in ServerStates /\ Hold(Refuse)
    BY DEF ServeError, Serving
  <1>3. srv' \in ServerStates /\ srv'.portal = srv.portal
    BY <1>2 DEF ServerStates
  <1> QED
    BY <1>1, <1>2, <1>3 DEF Passes

\* Execute: rows, and the end of the portal or its suspension.
LEMMA ExecutePasses ==
    ASSUME Serving, pc \in {"idle", "query", "execute", "sync"}, ServeExecute
    PROVE  \E units : Passes(units)
  <1> DEFINE max == Head(inbox).data
             st == srv.portal[1].st
             done == srv.portal[1].done
             full == max > 0 /\ st.rows - done >= max
             end == IF full THEN done + max ELSE st.rows
             rows == RowsOf(1, done, end)
             units == DataRows(rows) \o IF full THEN Bare("s") ELSE Ending(st)
  <1>1. /\ inbox # <<>> /\ Head(inbox).type = "E" /\ inbox' = Tail(inbox)
        /\ UNCHANGED <<m_query_ready, pc, out>> /\ srv \in ServerStates
    BY DEF ServeExecute, Handles, client, Serving
  <1>2. CASE srv.portal = <<>>
    <2>1. ServeError
      BY <1>2 DEF ServeExecute
    <2> QED
      BY <1>1, <2>1, ErrorPasses DEF Asks
  <1>3. CASE srv.portal # <<>>
    <2>1. PICK p \in OpenPortals : srv.portal = <<p>>
      BY <1>1, <1>3 DEF ServerStates
    <2>2. /\ p = [st |-> st, done |-> done] /\ st \in Statements
          /\ st.rows \in Nat /\ done \in Nat /\ done <= st.rows
      BY <2>1, StatementRows DEF OpenPortals
    <2>3. max \in Nat
      BY <1>1, HeadTyped DEF Typed, Asks
    <2>4. end \in Nat /\ done <= end /\ end <= st.rows
      BY <2>2, <2>3
    <2>5. /\ Hold(units)
          /\ srv' = [srv EXCEPT !.portal[1].done = end,
                                !.stage = IF ~full /\ st.kind = "fail" THEN "skipping" ELSE @]
      BY <1>3 DEF ServeExecute
    <2> HIDE DEF end, full, st, done, max
    <2>6. Len(rows) \in Nat
      BY <2>2, <2>4, RowsLen
    <2> HIDE DEF rows
    <2>7. Free(units, {"Z"})
      <3>1. /\ Free(DataRows(rows), {"Z"}) /\ Free(Bare("s"), {"Z"}) /\ Free(Ending(st), {"Z"})
        BY <2>6, FreeRows, FreeBare, FreeEnding
      <3> QED
        BY <3>1, FreeConcat
    <2> HIDE DEF units
    <2>8. srv' \in ServerStates
      <3> DEFINE stage == IF ~full /\ st.kind = "fail" THEN "skipping" ELSE srv.stage
                 portal == [<<p>> EXCEPT ![1].done = end]
                 r == [p EXCEPT !.done = end]
      <3>1. srv' = [srv EXCEPT !.portal = [srv.portal EXCEPT ![1].done = end], !.stage = stage]
        BY <1>1, <2>5 DEF ServerStates
      <3>2. r \in OpenPortals
        BY <2>1, <2>2, <2>4 DEF OpenPortals
      <3>3. portal = <<r>>
        OBVIOUS
      <3>4. stage \in {"ready", "skipping"}
        BY <1>1 DEF ServerStates
      <3>5. srv' = [srv EXCEPT !.portal = <<r>>, !.stage = stage]
        BY <2>1, <3>1, <3>3
      <3> HIDE DEF r, stage, portal
      <3> QED
        BY <1>1, <3>2, <3>4, <3>5 DEF ServerStates
    <2> QED
      BY <1>1, <1>3, <2>5, <2>7, <2>8 DEF Passes, Asks
  <1> QED
    BY <1>2, <1>3

LEMMA ServerPasses ==
    ASSUME Serving, pc \in {"idle", "query", "execute", "sync"},
           ServeParse \/ ServeBind \/ ServeExecute \/ ServeFlush \/ ServeClose \/ ServeSkips
    PROVE  \E units : Passes(units)
  <1>0. srv \in ServerStates /\ Free(<<>>, {"Z"}) /\ Free(<<>>, {"s"})
    BY FreeEmpty DEF Serving
  <1>1. CASE ServeParse
    <2>1. /\ inbox # <<>> /\ Head(inbox).type = "P" /\ inbox' = Tail(inbox)
          /\ UNCHANGED <<m_query_ready, pc, out>>
          /\ ServeError \/ (Hold(Bare("1")) /\ srv' = srv)
      BY <1>1 DEF ServeParse, Handles, client
    <2>2. CASE ServeError
      BY <2>1, <2>2, ErrorPasses DEF Asks
    <2>3. CASE Hold(Bare("1")) /\ srv' = srv
      <3>1. Free(Bare("1"), {"Z"}) /\ Free(Bare("1"), {"s"})
        BY FreeBare
      <3> QED
        BY <1>0, <2>1, <2>3, <3>1 DEF Passes, Asks
    <2> QED
      BY <2>1, <2>2, <2>3
  <1>2. CASE ServeBind
    <2> DEFINE p == [st |-> Head(inbox).data, done |-> 0]
    <2>1. /\ inbox # <<>> /\ Head(inbox).type = "B" /\ inbox' = Tail(inbox)
          /\ UNCHANGED <<m_query_ready, pc, out>>
          /\ Hold(Bare("2")) /\ srv' = [srv EXCEPT !.portal = <<p>>]
      BY <1>2 DEF ServeBind, Handles, client
    <2>2. Head(inbox).data \in Statements
      BY <2>1, HeadTyped DEF Typed, Asks
    <2>3. p \in OpenPortals
      BY <2>2, StatementRows DEF OpenPortals
    <2> HIDE DEF p
    <2>4. srv' \in ServerStates
      BY <1>0, <2>1, <2>3 DEF ServerStates
    <2>5. Free(Bare("2"), {"Z"})
      BY FreeBare
    <2> QED
      BY <2>1, <2>4, <2>5 DEF Passes, Asks
  <1>3. CASE ServeExecute
    BY <1>3, ExecutePasses
  <1>4. CASE ServeFlush \/ ServeSkips
    <2>1. /\ inbox # <<>> /\ Head(inbox).type \in Asks /\ inbox' = Tail(inbox)
          /\ UNCHANGED <<m_query_ready, pc, out>> /\ Deliver(<<>>) /\ srv' = srv
      BY <1>4 DEF ServeFlush, ServeSkips, Handles, client, Asks
    <2> QED
      BY <1>0, <2>1 DEF Passes
  <1>5. CASE ServeClose
    <2>1. /\ inbox # <<>> /\ Head(inbox).type = "C" /\ inbox' = Tail(inbox)
          /\ UNCHANGED <<m_query_ready, pc, out>>
          /\ Hold(Bare("3")) /\ srv' = [srv EXCEPT !.portal = <<>>]
      BY <1>5 DEF ServeClose, Handles, client
    <2>2. srv' \in ServerStates /\ srv'.portal = <<>>
      BY <1>0, <2>1 DEF ServerStates
    <2>3. Free(Bare("3"), {"Z"}) /\ Free(Bare("3"), {"s"})
      BY FreeBare
    <2> QED
      BY <2>1, <2>2, <2>3 DEF Passes, Asks
  <1> QED
    BY <1>1, <1>2, <1>3, <1>4, <1>5

\* Sync is answered with ReadyForQuery, and it is the last message.
LEMMA SyncServed ==
    ASSUME Serving, pc \in {"idle", "query", "execute", "sync"}, ServeSync
    PROVE  Serving'
  <1>1. /\ inbox # <<>> /\ Head(inbox).type = "S" /\ inbox' = Tail(inbox)
        /\ UNCHANGED <<m_query_ready, pc, out>> /\ srv' = Idle
        /\ wire' = wire \o held \o Message("Z", 0) /\ held' = <<>>
    BY DEF ServeSync, Handles, client, Deliver
  <1>2. ~NothingDue /\ ~QueryDue
    <2>1. Listing(inbox) => Head(inbox) = inbox[1] /\ 1 \in 1..Len(inbox)
      BY <1>1, ListTail
    <2>2. ~NothingDue
      BY <1>1, <2>1 DEF NothingDue, Only, Asks
    <2>3. ~QueryDue
      BY <1>1, <2>1 DEF QueryDue, Answered
    <2> QED
      BY <2>2, <2>3
  <1>3. pc = "sync" /\ SyncDue
    BY <1>2 DEF Serving
  <1>4. /\ Listing(inbox) /\ Free(wire, {"Z"})
        /\ \A i \in 1..(Len(inbox) - 1) : inbox[i].type \in Asks /\ Typed(inbox[i])
    BY <1>1, <1>3 DEF SyncDue, Answered
  <1>5. inbox' = <<>>
    <2>1. Head(inbox) = inbox[1] /\ Len(inbox) \in Nat \ {0}
      BY <1>1, <1>4, ListTail
    <2>2. Len(inbox) = 1
      <3>1. 1 \notin 1..(Len(inbox) - 1)
        BY <1>1, <1>4, <2>1 DEF Asks
      <3>2. \A n \in Nat \ {0} : 1 \notin 1..(n - 1) => n = 1
        OBVIOUS
      <3> QED
        BY <2>1, <3>1, <3>2
    <2> QED
      BY <1>1, <1>4, <2>2, TailOfOne
  <1>6. Answered'
    <2>1. Free(wire \o held, {"Z"})
      BY <1>4, FreeConcat DEF Serving
    <2>2. LastZ(wire')
      BY <1>1, <2>1, AppendZ
    <2> QED
      BY <1>1, <1>5, <2>2 DEF Answered
  <1>7. m_query_ready' => NoPortal'
    <2> SUFFICES ASSUME m_query_ready PROVE NoPortal'
      BY <1>1
    <2>1. NoPortal
      BY DEF Serving
    <2>2. Free(wire \o held \o Message("Z", 0), {"s"})
      <3>1. Free(Message("Z", 0), {"s"})
        BY FreeMessage
      <3>2. Free(wire \o held, {"s"})
        BY <2>1, FreeConcat DEF NoPortal
      <3> QED
        BY <3>1, <3>2, FreeConcat
    <2>3. Listing(<<>>) /\ Len(<<>>) = 0 /\ Free(<<>>, {"s"}) /\ Idle.portal = <<>>
      BY FreeEmpty DEF Free, Idle
    <2>4. /\ srv'.portal = <<>> /\ out' = <<>> /\ inbox' = <<>>
          /\ Free(wire', {"s"}) /\ Free(held', {"s"})
      BY <1>1, <1>5, <2>1, <2>2, <2>3 DEF NoPortal
    <2> QED
      BY <2>3, <2>4 DEF NoPortal
  <1>8. srv' \in ServerStates /\ Free(held', {"Z"})
    BY <1>1, FreeEmpty DEF ServerStates, Idle
  <1> QED
    BY <1>1, <1>3, <1>6, <1>7, <1>8 DEF Serving, SyncDue

\* The server runs the statements of a query and answers with ReadyForQuery.
LEMMA QueryServed ==
    ASSUME Serving, pc \in {"idle", "query", "execute", "sync"}, ServeStatement \/ ServeQuery
    PROVE  Serving'
  <1>1. /\ inbox # <<>> /\ Head(inbox).type = "Q"
        /\ UNCHANGED <<m_query_ready, pc, out>> /\ srv' = srv
    BY DEF ServeStatement, ServeQuery, Handles, client
  <1>2. pc = "query" /\ QueryDue /\ ~m_query_ready
    <2>1. Listing(inbox) => Head(inbox) = inbox[1] /\ Len(inbox) \in Nat \ {0}
      BY <1>1, ListTail
    <2>2. ~NothingDue
      <3>1. Listing(inbox) => 1 \in 1..Len(inbox)
        BY <2>1
      <3> QED
        BY <1>1, <2>1, <3>1 DEF NothingDue, Only, Asks
    <2>3. ~SyncDue
      <3> SUFFICES ASSUME SyncDue PROVE FALSE
        OBVIOUS
      <3>1. /\ Listing(inbox) /\ inbox[Len(inbox)].type = "S"
            /\ \A i \in 1..(Len(inbox) - 1) : inbox[i].type \in Asks
        BY <1>1 DEF SyncDue, Answered
      <3>2. Len(inbox) # 1 => 1 \in 1..(Len(inbox) - 1)
        <4>1. \A n \in Nat \ {0} : n # 1 => 1 \in 1..(n - 1)
          OBVIOUS
        <4>2. Len(inbox) \in Nat \ {0}
          BY <2>1, <3>1
        <4> QED
          BY <4>1, <4>2
      <3> QED
        BY <1>1, <2>1, <3>1, <3>2 DEF Asks
    <2> QED
      BY <2>2, <2>3 DEF Serving
  <1> DEFINE q == Head(inbox).data
  <1>3. /\ Listing(inbox) /\ Len(inbox) = 1 /\ Head(inbox) = inbox[1] /\ q \in Queries
        /\ Listing(answer) /\ Len(answer) \in Nat /\ Len(answer) <= Len(q)
        /\ held = <<>> /\ srv = Idle /\ Free(wire, {"Z"}) /\ srv \in ServerStates
    <2>1. /\ Listing(inbox) /\ Len(inbox) = 1 /\ inbox[1].data \in Queries
          /\ Listing(answer) /\ Len(answer) <= Len(inbox[1].data)
          /\ held = <<>> /\ srv = Idle /\ Free(wire, {"Z"}) /\ srv \in ServerStates
      BY <1>1, <1>2 DEF QueryDue, Answered, Serving
    <2>2. Head(inbox) = inbox[1]
      BY <1>1, <2>1, ListTail
    <2>3. Len(answer) \in Nat
      BY <2>1, ListLen
    <2> QED
      BY <2>1, <2>2, <2>3
  <1>4. Free(wire \o held, {"Z"}) /\ Free(<<>>, {"Z"})
    BY <1>3, FreeConcat, FreeEmpty DEF Serving
  <1>5. CASE ServeStatement
    <2> DEFINE i == Len(answer) + 1
               st == q[i]
               rows == RowsOf(i, 0, st.rows)
               first == IF st.kind = "select" THEN Message("T", 0) ELSE <<>>
    <2>1. /\ ~Ran(q) /\ inbox' = inbox
          /\ wire' = wire \o held \o (first \o DataRows(rows) \o Ending(st)) /\ held' = <<>>
          /\ answer' = Append(answer, [type |-> EndType(st), rows |-> rows])
      BY <1>5 DEF ServeStatement, Deliver
    <2>2. i \in 1..Len(q) /\ Len(q) \in Nat
      <3>1. Len(q) \in Nat
        BY <1>3 DEF Queries
      <3>2. Len(answer) # Len(q)
        BY <2>1 DEF Ran
      <3> QED
        BY <1>3, <3>1, <3>2
    <2>3. st \in Statements
      BY <1>3, <2>2 DEF Queries
    <2> HIDE DEF st, q
    <2>4. Len(rows) \in Nat
      BY <2>3, StatementRows, RowsLen
    <2> HIDE DEF rows
    <2>5. Free(first \o DataRows(rows) \o Ending(st), {"Z"})
      <3>1. Free(Message("T", 0), {"Z"}) /\ Free(DataRows(rows), {"Z"}) /\ Free(Ending(st), {"Z"})
        BY <2>4, FreeMessage, FreeRows, FreeEnding
      <3>2. Free(first, {"Z"})
        BY <1>4, <3>1
      <3> HIDE DEF first
      <3>3. Free(first \o DataRows(rows), {"Z"})
        BY <3>1, <3>2, FreeConcat
      <3> QED
        BY <3>1, <3>3, FreeConcat
    <2>6. Free(wire', {"Z"})
      BY <1>4, <2>1, <2>5, FreeConcat
    <2>7. Listing(answer') /\ Len(answer') <= Len(q)
      <3> DEFINE e == [type |-> EndType(st), rows |-> rows]
                 S == {answer[k] : k \in DOMAIN answer} \cup {e}
      <3> HIDE DEF e
      <3>1. answer \in Seq(S) /\ e \in S
        BY <1>3 DEF Listing
      <3> HIDE DEF S
      <3>2. Append(answer, e) \in Seq(S) /\ Len(Append(answer, e)) = i
        BY <3>1
      <3>3. answer' = Append(answer, e)
        BY <2>1 DEF e
      <3>4. Listing(Append(answer, e))
        BY <3>2, ListOf
      <3> QED
        BY <2>2, <3>2, <3>3, <3>4
    <2>8. QueryDue'
      BY <1>1, <1>2, <1>3, <2>1, <2>6, <2>7 DEF QueryDue, q
    <2> QED
      BY <1>1, <1>2, <1>3, <1>4, <2>1, <2>8 DEF Serving
  <1>6. CASE ServeQuery
    <2> DEFINE first == IF q = <<>> THEN Bare("I") ELSE <<>>
    <2>1. /\ inbox' = Tail(inbox)
          /\ wire' = wire \o held \o (first \o Message("Z", 0)) /\ held' = <<>>
      BY <1>6 DEF ServeQuery, Handles, Deliver
    <2>2. Free(Bare("I"), {"Z"})
      BY FreeBare
    <2>3. Free(first, {"Z"})
      BY <1>4, <2>2
    <2> HIDE DEF first
    <2>4. LastZ(wire')
      <3> DEFINE a == wire \o held
                 z == Message("Z", 0)
      <3>1. Free(a \o first, {"Z"})
        BY <1>4, <2>3, FreeConcat
      <3>2. LastZ((a \o first) \o z)
        BY <3>1, AppendZ
      <3>3. Listing(a) /\ Listing(first) /\ Listing(z)
        BY <1>4, <2>3, FreeMessage DEF Free
      <3> HIDE DEF a, z
      <3>4. (a \o first) \o z = a \o (first \o z)
        <4> DEFINE S == ({a[k] : k \in DOMAIN a} \cup {first[k] : k \in DOMAIN first})
                            \cup {z[k] : k \in DOMAIN z}
        <4>1. a \in Seq(S) /\ first \in Seq(S) /\ z \in Seq(S)
          BY <3>3 DEF Listing
        <4> HIDE DEF S
        <4> QED
          BY <4>1
      <3> QED
        BY <2>1, <3>2, <3>4 DEF a, z
    <2>5. inbox' = <<>>
      BY <1>3, <2>1, TailOfOne
    <2>6. QueryDue'
      BY <1>1, <1>3, <2>1, <2>4, <2>5 DEF QueryDue, Answered
    <2> QED
      BY <1>1, <1>2, <1>3, <1>4, <2>1, <2>6 DEF Serving
  <1> QED
    BY <1>5, <1>6

----------------------------------------------------------------------------
(* Steps after init *)

LEMMA ConfigFixed == [Next]_vars => config' = config /\ up' \in {up, FALSE}
  <1> SUFFICES ASSUME [Next]_vars PROVE config' = config /\ up' \in {up, FALSE}
    OBVIOUS
  <1>1. CASE Call
    BY <1>1 DEF Call, InitCall, CloseSyncCall, CallFails, QueryCall, PrepareQuery, ExecuteCall,
       Called
  <1>2. CASE ClientStep
    BY <1>2 DEF ClientStep, SkipNotice, ReadFails, FlushFails, GiveUp, InitError, InitSkips,
       InitReady, HandleAuth, RowWhole, RowCut, QueryTag, QueryError, QueryOther, QueryReady,
       ExecuteOther, ExecuteEnds, ExecuteSuspends, SyncSkips, SyncReady
  <1>3. CASE ServerStep
    BY <1>3 DEF ServerStep, ServeStartup, ServePassword, ServeFirst, ServeFinal,
       ServeStatement, ServeQuery, ServeParse, ServeBind, ServeExecute, ServeFlush,
       ServeClose, ServeSkips, ServeSync, Handles
  <1>4. CASE Lose
    BY <1>4 DEF Lose
  <1>5. CASE UNCHANGED vars
    BY <1>5 DEF vars
  <1> QED
    BY <1>1, <1>2, <1>3, <1>4, <1>5 DEF Next

\* The server changes nothing of the client's.
LEMMA ServerFrame == ServerStep => UNCHANGED <<client, up, config>>
  BY DEF ServerStep, ServeStartup, ServePassword, ServeFirst, ServeFinal, ServeStatement,
     ServeQuery, ServeParse, ServeBind, ServeExecute, ServeFlush, ServeClose, ServeSkips,
     ServeSync, Handles

LEMMA LaterFrame ==
    ASSUME pc \in Calls, [Next]_vars
    PROVE  /\ pc' \in Calls /\ scr' \in {scr, EmptyScram}
           /\ m_query_ready' \in {m_query_ready, TRUE, FALSE}
  <1> USE DEF Calls
  <1>1. CASE Call
    BY <1>1 DEF Call, InitCall, CloseSyncCall, CallFails, GiveUp, QueryCall, PrepareQuery,
       Unready, ExecuteCall, Called
  <1>2. CASE ClientStep
    BY <1>2 DEF ClientStep, SkipNotice, ReadFails, FlushFails, GiveUp, InitError, InitSkips,
       InitReady, HandleAuth, RowWhole, RowCut, QueryTag, QueryError, QueryOther, QueryReady,
       ExecuteOther, ExecuteEnds, ExecuteSuspends, SyncSkips, SyncReady, client
  <1>3. CASE ServerStep
    BY <1>3, ServerFrame DEF client
  <1>4. CASE Lose
    BY <1>4 DEF Lose, client
  <1>5. CASE UNCHANGED vars
    BY <1>5 DEF vars
  <1> QED
    BY <1>1, <1>2, <1>3, <1>4, <1>5 DEF Next

\* While the connection exists, every step keeps Serving.
LEMMA ServingStep ==
    ASSUME pc \in Calls, up, up', Serving, [Next]_vars
    PROVE  Serving'
  <1>1. CASE Call
    <2>1. CASE CloseSyncCall
      <3>1. /\ pc = "idle" /\ pc' = "sync" /\ out' = <<>>
            /\ inbox' = inbox \o out \o SyncMessages
            /\ UNCHANGED <<m_query_ready, held, srv, wire>>
        BY <2>1 DEF CloseSyncCall, Called, Send
      <3> QED
        BY <3>1, SyncSends
    <2>2. ASSUME NEW q \in Queries, QueryCall(q) PROVE Serving'
      BY <2>2, QuerySends
    <2>3. ASSUME NEW st \in Statements, PrepareQuery(st) PROVE Serving'
      BY <2>3, PrepareWrites
    <2>4. ASSUME NEW n \in Limits, ExecuteCall(n) PROVE Serving'
      BY <2>4, ExecuteSends
    <2>5. ~InitCall /\ ~CallFails
      BY DEF InitCall, CallFails, Calls
    <2> QED
      BY <1>1, <2>1, <2>2, <2>3, <2>4, <2>5 DEF Call
  <1>2. CASE ClientStep
    <2>0. pc # "idle" => LastZ(wire)
      BY FreeLastZ DEF Serving, QueryDue, SyncDue, NothingDue, Answered, Calls
    <2>1. CASE SkipNotice \/ RowWhole \/ QueryTag \/ QueryError \/ SyncSkips
      <3>1. /\ pc \in {"query", "execute", "sync"}
            /\ wire # <<>> /\ Head(wire).part = "head" /\ Skip
            /\ UNCHANGED <<m_query_ready, pc, out, inbox, server>>
        BY <2>1 DEF SkipNotice, RowWhole, QueryTag, QueryError, SyncSkips, Reading, Response,
           OtherResponse, client, Calls
      <3>2. PICK j \in 1..(Len(wire) + 1) : wire' = SubSeq(wire, j, Len(wire))
        BY <2>0, <3>1, SkipLeaves
      <3> QED
        BY <3>1, <3>2, ReadsOn
    <2>2. CASE RowCut \/ QueryOther \/ ExecuteOther
      <3>1. /\ pc \in {"query", "execute", "sync"} /\ wire # <<>> /\ HeaderRead
            /\ UNCHANGED <<m_query_ready, pc, out, inbox, server>>
        BY <2>2 DEF RowCut, QueryOther, ExecuteOther, Response, OtherResponse, client
      <3>2. PICK j \in 1..(Len(wire) + 1) : wire' = SubSeq(wire, j, Len(wire))
        BY <2>0, <3>1, HeaderLeaves DEF LastZ
      <3> QED
        BY <3>1, <3>2, ReadsOn
    <2>3. CASE QueryReady \/ SyncReady
      BY <2>3, ReadyLeaves DEF QueryReady, SyncReady
    <2>4. CASE ExecuteEnds
      <3>1. /\ pc = "execute" /\ pc' = "sync" /\ out' = <<>>
            /\ inbox' = inbox \o out \o SyncMessages
            /\ wire # <<>> /\ Head(wire).part = "head" /\ Skip
            /\ UNCHANGED <<m_query_ready, held, srv>>
        BY <2>4 DEF ExecuteEnds, Response, Send, server
      <3>2. PICK j \in 1..(Len(wire) + 1) : wire' = SubSeq(wire, j, Len(wire))
        BY <2>0, <3>1, SkipLeaves
      <3>3. ASSUME NEW types, Free(wire, types) PROVE Free(wire', types)
        BY <3>2, <3>3, FreePart
      <3> QED
        BY <3>1, <3>3, SyncSends
    <2>5. CASE ExecuteSuspends
      <3>1. /\ pc = "execute" /\ pc' = "idle" /\ wire # <<>> /\ HeaderRead
            /\ Head(wire).part = "head" /\ Head(wire).type = "s"
            /\ UNCHANGED <<m_query_ready, out, inbox, held, srv>>
        BY <2>5 DEF ExecuteSuspends, Response, server
      <3>2. PICK j \in 1..(Len(wire) + 1) : wire' = SubSeq(wire, j, Len(wire))
        BY <2>0, <3>1, HeaderLeaves DEF LastZ
      <3>3. ~m_query_ready
        <4>1. Head(wire) = wire[1] /\ 1 \in 1..Len(wire)
          BY <2>0, <3>1, ListTail DEF LastZ
        <4>2. ~Free(wire, {"s"})
          BY <3>1, <4>1 DEF Free
        <4> QED
          BY <4>2 DEF Serving, NoPortal
      <3>4. NothingDue /\ Free(wire', {"Z"})
        BY <3>1, <3>2, FreePart DEF Serving, NothingDue
      <3> QED
        BY <3>1, <3>3, <3>4 DEF Serving, NothingDue
    <2>6. /\ ~ReadFails /\ ~FlushFails
          /\ ~InitError /\ ~InitSkips /\ ~InitReady /\ ~HandleAuth
      BY DEF ReadFails, FlushFails, InitError, InitSkips, InitReady, HandleAuth, Calls
    <2> QED
      BY <1>2, <2>1, <2>2, <2>3, <2>4, <2>5, <2>6 DEF ClientStep
  <1>3. CASE ServerStep
    <2>1. ~ServeStartup /\ ~ServePassword /\ ~ServeFirst /\ ~ServeFinal
      <3>1. srv.stage \in {"ready", "skipping"}
        BY DEF Serving, ServerStates
      <3> QED
        BY <3>1 DEF ServeStartup, ServePassword, ServeFirst, ServeFinal
    <2>2. CASE ServeStatement \/ ServeQuery
      BY <2>2, QueryServed DEF Calls
    <2>3. CASE ServeSync
      BY <2>3, SyncServed DEF Calls
    <2>4. CASE ServeParse \/ ServeBind \/ ServeExecute \/ ServeFlush \/ ServeClose \/ ServeSkips
      <3>1. PICK units : Passes(units)
        BY <2>4, ServerPasses DEF Calls
      <3> QED
        BY <3>1, PassesOn DEF Calls
    <2> QED
      BY <1>3, <2>1, <2>2, <2>3, <2>4 DEF ServerStep
  <1>4. CASE Lose
    BY <1>4 DEF Lose
  <1>5. CASE UNCHANGED vars
    BY <1>5 DEF vars, Serving, NoPortal, QueryDue, SyncDue, NothingDue, Answered
  <1> QED
    BY <1>1, <1>2, <1>3, <1>4, <1>5 DEF Next

----------------------------------------------------------------------------
(* What the server says when it has decided *)

LEMMA VerdictConcat ==
    ASSUME NEW a, NEW b, Verdict(a), Verdict(b), Len(a) % 2 = 0
    PROVE  Verdict(a \o b)
  <1> DEFINE s == a \o b
  <1>1. Listing(a) /\ Listing(b)
    BY DEF Verdict
  <1>2. /\ Listing(s)
        /\ Len(a) \in Nat /\ Len(b) \in Nat /\ Len(s) = Len(a) + Len(b)
        /\ \A i \in 1..Len(a) : s[i] = a[i]
        /\ \A i \in (Len(a) + 1)..(Len(a) + Len(b)) : s[i] = b[i - Len(a)]
    BY <1>1, ListConcat
  <1> HIDE DEF s
  <1>3. ASSUME NEW i \in 1..Len(s)
        PROVE  /\ i % 2 = 0 => s[i].part = "body"
               /\ i % 2 = 1 =>
                     /\ s[i].part = "head"
                     /\ s[i].length = INT_32_OCTETS + 1
                     /\ s[i].type \in {"R", "N", "S", "K", "Z", "E"}
                     /\ s[i].type = "Z" => Good
                     /\ s[i].type = "E" => (RoundTrip => Bad)
                     /\ s[i].type = "R" /\ i + 1 <= Len(s) =>
                           \/ s[i + 1].data.auth = "OK"
                           \/ /\ s[i + 1].data.auth = "SASL_FINAL"
                              /\ RoundTrip =>
                                    verify_server_final_msg(scr, s[i + 1].data.signature)
    <2>1. CASE i \in 1..Len(a)
      <3>1. s[i] = a[i]
        BY <1>2, <2>1
      <3>2. i % 2 = 1 => i + 1 \in 1..Len(a) /\ i + 1 <= Len(a)
        BY <1>2, <2>1
      <3>3. i % 2 = 1 => s[i + 1] = a[i + 1]
        BY <1>2, <3>2
      <3> QED
        BY <2>1, <3>1, <3>2, <3>3 DEF Verdict
    <2>2. CASE i \in (Len(a) + 1)..(Len(a) + Len(b))
      <3> DEFINE k == i - Len(a)
      <3>0. k \in 1..Len(b) /\ i = Len(a) + k
        <4>1. \A x, y \in Nat : \A z \in (x + 1)..(x + y) : z - x \in 1..y /\ z = x + (z - x)
          OBVIOUS
        <4>2. Len(a) \in Nat /\ Len(b) \in Nat
          BY <1>2
        <4> QED
          BY <2>2, <4>1, <4>2
      <3>1. k \in 1..Len(b) /\ s[i] = b[k]
        <4>1. s[i] = b[i - Len(a)]
          BY <1>2, <2>2
        <4> QED
          BY <3>0, <4>1
      <3>2. k % 2 = i % 2
        <4>1. \A x, y \in Nat : x % 2 = 0 => (x + y) % 2 = y % 2
          OBVIOUS
        <4>2. k \in Nat
          BY <1>2, <3>0
        <4> HIDE DEF k
        <4> QED
          BY <1>2, <3>0, <4>1, <4>2
      <3>3. i + 1 <= Len(s) => k + 1 <= Len(b) /\ s[i + 1] = b[k + 1]
        <4> SUFFICES ASSUME i + 1 <= Len(s) PROVE k + 1 <= Len(b) /\ s[i + 1] = b[k + 1]
          OBVIOUS
        <4>1. i + 1 \in (Len(a) + 1)..(Len(a) + Len(b)) /\ (i + 1) - Len(a) = k + 1
          BY <1>2, <2>2
        <4> QED
          BY <1>2, <4>1
      <3> HIDE DEF k
      <3> QED
        BY <3>1, <3>2, <3>3 DEF Verdict
    <2> QED
      BY <1>2, <2>1, <2>2
  <1>4. Verdict(s)
    BY <1>2, <1>3 DEF Verdict
  <1> QED
    BY <1>4 DEF s

LEMMA VerdictMessage ==
    ASSUME NEW type \in {"R", "N", "S", "K", "Z", "E"}, NEW data,
           type = "Z" => Good, type = "E" => (RoundTrip => Bad),
           type = "R" =>
               \/ data.auth = "OK"
               \/ /\ data.auth = "SASL_FINAL"
                  /\ RoundTrip => verify_server_final_msg(scr, data.signature)
    PROVE  Verdict(Message(type, data)) /\ Len(Message(type, data)) = 2
  <1> DEFINE h == Header(type, 1)
             b == [part |-> "body", data |-> data]
             s == <<h, b>>
  <1>1. /\ h.part = "head" /\ h.type = type /\ h.length = INT_32_OCTETS + 1
        /\ b.part = "body" /\ b.data = data
    BY DEF Header, INT_32_OCTETS
  <1> HIDE DEF h, b
  <1>2. s \in Seq({h, b}) /\ Len(s) = 2 /\ s[1] = h /\ s[2] = b
    OBVIOUS
  <1> HIDE DEF s
  <1>3. Listing(s)
    BY <1>2, ListOf
  <1>4. \A i \in 1..Len(s) : i = 1 \/ i = 2
    BY <1>2
  <1>5. 1 % 2 = 1 /\ 2 % 2 = 0 /\ 1 + 1 = 2
    OBVIOUS
  <1>6. Verdict(s)
    BY <1>1, <1>2, <1>3, <1>4, <1>5 DEF Verdict
  <1> QED
    BY <1>2, <1>6 DEF s, h, b, Message

LEMMA VerdictPart ==
    ASSUME NEW s, Verdict(s), Len(s) >= 2
    PROVE  Verdict(SubSeq(s, 3, Len(s)))
  <1> DEFINE t == SubSeq(s, 3, Len(s))
  <1>1. Listing(s) /\ Len(s) \in Nat
    BY ListLen DEF Verdict
  <1>2. /\ Listing(t) /\ Len(t) = Len(s) - 3 + 1
        /\ \A i \in 1..(Len(s) - 3 + 1) : i + 3 - 1 \in 1..Len(s) /\ t[i] = s[i + 3 - 1]
    <2>1. 3 \in 1..(Len(s) + 1) /\ Len(s) \in 0..Len(s) /\ 3 <= Len(s) + 1
      BY <1>1
    <2> QED
      BY <1>1, <2>1, ListPart
  <1> HIDE DEF t
  <1>3. ASSUME NEW i \in 1..Len(t)
        PROVE  /\ i + 2 \in 1..Len(s) /\ t[i] = s[i + 2] /\ (i + 2) % 2 = i % 2
               /\ i + 1 <= Len(t) => (i + 2) + 1 <= Len(s) /\ t[i + 1] = s[(i + 2) + 1]
    <2>1. i + 3 - 1 = i + 2 /\ (i + 2) % 2 = i % 2 /\ i \in 1..(Len(s) - 3 + 1)
      BY <1>1, <1>2
    <2>2. i + 1 <= Len(t) =>
              i + 1 \in 1..(Len(s) - 3 + 1) /\ (i + 1) + 3 - 1 = (i + 2) + 1 /\ (i + 2) + 1 <= Len(s)
      BY <1>1, <1>2
    <2> QED
      BY <1>2, <2>1, <2>2
  <1>4. Verdict(t)
    BY <1>2, <1>3 DEF Verdict
  <1> QED
    BY <1>4 DEF t

LEMMA VerdictPrefix ==
    ASSUME NEW s, Verdict(s), NEW n \in 0..Len(s)
    PROVE  Verdict(SubSeq(s, 1, n))
  <1> DEFINE t == SubSeq(s, 1, n)
  <1>1. Listing(s) /\ Len(s) \in Nat
    BY ListLen DEF Verdict
  <1>2. /\ Listing(t) /\ Len(t) = n - 1 + 1
        /\ \A i \in 1..(n - 1 + 1) : i + 1 - 1 \in 1..Len(s) /\ t[i] = s[i + 1 - 1]
    <2>1. 1 \in 1..(Len(s) + 1) /\ 1 <= n + 1
      BY <1>1
    <2> QED
      BY <1>1, <2>1, ListPart
  <1> HIDE DEF t
  <1>3. ASSUME NEW i \in 1..Len(t)
        PROVE  /\ i \in 1..Len(s) /\ t[i] = s[i]
               /\ i + 1 <= Len(t) => i + 1 <= Len(s) /\ t[i + 1] = s[i + 1]
    <2>1. i + 1 - 1 = i /\ i \in 1..(n - 1 + 1) /\ Len(t) = n
      BY <1>1, <1>2
    <2>2. i + 1 <= Len(t) => i + 1 \in 1..(n - 1 + 1) /\ (i + 1) + 1 - 1 = i + 1 /\ i + 1 <= Len(s)
      BY <1>1, <2>1
    <2> QED
      BY <1>2, <2>1, <2>2
  <1>4. Verdict(t)
    BY <1>2, <1>3 DEF Verdict
  <1> QED
    BY <1>4 DEF t

LEMMA VerdictRefuse ==
    ASSUME RoundTrip => Bad
    PROVE  Verdict(Refuse) /\ LastZ(Refuse)
  <1>1. Verdict(Message("E", 0))
    BY VerdictMessage
  <1>2. Free(Message("E", 0), {"Z"})
    BY FreeMessage
  <1>3. LastZ(Message("E", 0))
    BY <1>2, FreeLastZ
  <1> QED
    BY <1>1, <1>3 DEF Refuse

LEMMA VerdictWelcome ==
    ASSUME Good
    PROVE  Verdict(Welcome) /\ LastZ(Welcome)
  <1> DEFINE r == Message("R", [auth |-> "OK"])
             n == Message("N", 0)
             s == Message("S", 0)
             k == Message("K", 0)
             z == Message("Z", 0)
  <1>1. /\ Verdict(r) /\ Len(r) = 2 /\ Free(r, {"Z"})
        /\ Verdict(n) /\ Len(n) = 2 /\ Free(n, {"Z"})
        /\ Verdict(s) /\ Len(s) = 2 /\ Free(s, {"Z"})
        /\ Verdict(k) /\ Len(k) = 2 /\ Free(k, {"Z"})
        /\ Verdict(z)
    <2>1. [auth |-> "OK"].auth = "OK"
      OBVIOUS
    <2>2. Verdict(r) /\ Len(r) = 2 /\ Free(r, {"Z"})
      BY <2>1, VerdictMessage, FreeMessage
    <2> QED
      BY <2>2, VerdictMessage, FreeMessage
  <1>2. Welcome = r \o n \o s \o k \o z
    BY DEF Welcome, Auth
  <1> HIDE DEF r, n, s, k
  <1>3. ASSUME NEW a, NEW b, Verdict(a), Len(a) % 2 = 0, Free(a, {"Z"}),
               Verdict(b), Len(b) = 2, Free(b, {"Z"})
        PROVE  Verdict(a \o b) /\ Len(a \o b) % 2 = 0 /\ Free(a \o b, {"Z"})
    <2>1. Len(a \o b) = Len(a) + Len(b) /\ Len(a) \in Nat
      BY <1>3, ListConcat DEF Verdict
    <2>2. Len(a \o b) % 2 = 0
      BY <1>3, <2>1
    <2> QED
      BY <1>3, <2>2, VerdictConcat, FreeConcat
  <1>4. Len(r) % 2 = 0
    BY <1>1
  <1>5. Verdict(r \o n) /\ Len(r \o n) % 2 = 0 /\ Free(r \o n, {"Z"})
    BY <1>1, <1>3, <1>4
  <1>6. Verdict(r \o n \o s) /\ Len(r \o n \o s) % 2 = 0 /\ Free(r \o n \o s, {"Z"})
    BY <1>1, <1>3, <1>5
  <1>7. /\ Verdict(r \o n \o s \o k) /\ Len(r \o n \o s \o k) % 2 = 0
        /\ Free(r \o n \o s \o k, {"Z"})
    BY <1>1, <1>3, <1>6
  <1>8. Verdict(r \o n \o s \o k \o z)
    BY <1>1, <1>7, VerdictConcat
  <1>9. LastZ(r \o n \o s \o k \o z)
    BY <1>7, AppendZ
  <1> QED
    BY <1>2, <1>8, <1>9

----------------------------------------------------------------------------
(* SCRAM: equal proofs come from equal passwords *)

\* The parts of terms.
LEMMA Terms ==
    /\ \A x, y : hmac(x, y)[2] = x
    /\ \A p, s, i : salted_password(p, s, i)[1] = "pbkdf2" /\ salted_password(p, s, i)[2] = p
    /\ \A x : sha(x)[1] = "sha"
    /\ \A a, b, c, d : xor(a, b) = xor(c, d) => a = c \/ a = d
    /\ "pbkdf2" # "sha"
  BY DEF hmac, salted_password, sha, xor

\* What the server checks and what it signs with.
ServerKey == LET salted == salted_password(config.server, srv.salt, Iterations)
             IN  hmac(salted, "Client Key")
Expected == xor(ServerKey, hmac(sha(ServerKey), srv.signed))
Signature == LET salted == salted_password(config.server, srv.salt, Iterations)
             IN  hmac(hmac(salted, "Server Key"), srv.signed)

LEMMA ResolvedFields ==
    ASSUME NEW salt \in Salts
    PROVE  LET s == Resolved(salt)
           IN  /\ s.m_salt = base64_decode(base64_encode(salt))
               /\ s.m_iterations = convert_to_num(IterationText)
               /\ auth_message(s.m_client_first_msg_bare, s.m_server_first_msg, s.m_server_nonce)
                      = FinalStage(salt).signed
               /\ s.m_server_first_msg # <<>>
  <1>1. /\ ServerFirst(salt)[1] = ServerNonce /\ ServerFirst(salt)[2] = base64_encode(salt)
        /\ ServerFirst(salt)[3] = IterationText
    BY DEF ServerFirst
  <1>2. /\ FirstScram.m_client_first_msg_bare = ClientFirst
        /\ {"m_server_first_msg", "m_server_nonce", "m_salt", "m_iterations"} \subseteq DOMAIN FirstScram
    BY DEF FirstScram, generate_client_first_msg, EmptyScram, ClientFirst
  <1>3. ServerFirst(salt) # <<>>
    <2>1. Len(ServerFirst(salt)) = 3 /\ Len(<<>>) = 0
      BY DEF ServerFirst
    <2> QED
      BY <2>1
  <1> HIDE DEF FirstScram, ServerFirst
  <1> DEFINE s == Resolved(salt)
  <1>4. /\ s.m_salt = base64_decode(ServerFirst(salt)[2])
        /\ s.m_iterations = convert_to_num(ServerFirst(salt)[3])
        /\ s.m_client_first_msg_bare = FirstScram.m_client_first_msg_bare
        /\ s.m_server_first_msg = ServerFirst(salt)
        /\ s.m_server_nonce = ServerFirst(salt)[1]
    BY <1>2 DEF Resolved, resolve_server_first_msg, FirstScram, generate_client_first_msg, EmptyScram
  <1>5. FinalStage(salt).signed = <<ClientFirst, ServerFirst(salt), ServerNonce>>
    BY DEF FinalStage
  <1> QED
    BY <1>1, <1>2, <1>3, <1>4, <1>5 DEF auth_message

LEMMA ProofDecides ==
    ASSUME NEW salt \in Salts, srv = FinalStage(salt)
    PROVE  LET proof == ClientProof(Resolved(salt), config.client)
           IN  /\ proof = Expected => config.client = config.server
               /\ RoundTrip /\ config.client = config.server => proof = Expected
               /\ RoundTrip /\ config.client = config.server =>
                     verify_server_final_msg(ExpectServerFinal(Resolved(salt), config.client),
                                             Signature)
  <1> DEFINE s == Resolved(salt)
             a == auth_message(s.m_client_first_msg_bare, s.m_server_first_msg, s.m_server_nonce)
  <1>1. /\ s.m_salt = base64_decode(base64_encode(salt))
        /\ s.m_iterations = convert_to_num(IterationText)
        /\ a = srv.signed /\ srv.salt = salt
    BY ResolvedFields DEF FinalStage
  <1>2. "m_expected_server_final_msg" \in DOMAIN s
    BY DEF Resolved, resolve_server_first_msg, FirstScram, generate_client_first_msg, EmptyScram
  <1>3. RoundTrip => s.m_salt = srv.salt /\ s.m_iterations = Iterations
    BY <1>1 DEF RoundTrip
  <1>4. ASSUME ClientProof(s, config.client) = Expected PROVE config.client = config.server
    <2> DEFINE k == hmac(salted_password(config.client, s.m_salt, s.m_iterations), "Client Key")
               l == hmac(salted_password(config.server, srv.salt, Iterations), "Client Key")
    <2>1. ClientProof(s, config.client) = xor(k, hmac(sha(k), a))
      BY DEF ClientProof
    <2>2. Expected = xor(l, hmac(sha(l), srv.signed))
      BY DEF Expected, ServerKey
    <2>3. xor(k, hmac(sha(k), a)) = xor(l, hmac(sha(l), srv.signed))
      BY <1>4, <2>1, <2>2
    <2> HIDE DEF s, a
    <2>4. k[2][1] = "pbkdf2" /\ k[2][2] = config.client /\ l[2][2] = config.server
      <3> DEFINE p == salted_password(config.client, s.m_salt, s.m_iterations)
                 q == salted_password(config.server, srv.salt, Iterations)
      <3>1. p[1] = "pbkdf2" /\ p[2] = config.client /\ q[2] = config.server
        BY DEF salted_password
      <3> HIDE DEF p, q
      <3>2. hmac(p, "Client Key")[2] = p /\ hmac(q, "Client Key")[2] = q
        BY DEF hmac
      <3>3. k = hmac(p, "Client Key") /\ l = hmac(q, "Client Key")
        BY DEF p, q
      <3> HIDE DEF k, l
      <3> QED
        BY <3>1, <3>2, <3>3
    <2> HIDE DEF k, l
    <2>5. k = l \/ k = hmac(sha(l), srv.signed)
      BY <2>3, Terms
    <2>6. hmac(sha(l), srv.signed)[2][1] = "sha"
      BY Terms
    <2> QED
      BY <2>4, <2>5, <2>6, Terms
  <1>5. ASSUME RoundTrip, config.client = config.server
        PROVE  ClientProof(s, config.client) = Expected
    BY <1>1, <1>3, <1>5 DEF ClientProof, Expected, ServerKey
  <1>6. ASSUME RoundTrip, config.client = config.server
        PROVE  verify_server_final_msg(ExpectServerFinal(s, config.client), Signature)
    <2> DEFINE e == hmac(hmac(salted_password(config.client, s.m_salt, s.m_iterations),
                              "Server Key"), a)
    <2>1. ExpectServerFinal(s, config.client) = [s EXCEPT !.m_expected_server_final_msg = e]
      BY DEF ExpectServerFinal
    <2>2. e = Signature
      BY <1>1, <1>3, <1>6 DEF Signature
    <2> HIDE DEF e, s
    <2> QED
      BY <1>2, <2>1, <2>2 DEF verify_server_final_msg
  <1> QED
    BY <1>4, <1>5, <1>6

----------------------------------------------------------------------------
(* Steps of init *)

\* The connection is gone and init throws.
Closing == ~up /\ pc' = "closed" /\ scr' = EmptyScram /\ UNCHANGED <<m_query_ready, up, config>>

LEMMA InitSteps ==
    ASSUME pc = "init", ClientStep
    PROVE  Closing \/ SkipNotice \/ InitError \/ InitSkips \/ InitReady \/ HandleAuth
  <1>1. ReadFails \/ FlushFails => Closing
    BY DEF ReadFails, FlushFails, GiveUp, Closing
  <1> QED
    BY <1>1 DEF ClientStep, RowWhole, RowCut, QueryTag, QueryError, QueryOther, QueryReady,
       ExecuteOther, ExecuteEnds, ExecuteSuspends, SyncSkips, SyncReady

LEMMA NothingToRead == ASSUME pc = "init", wire = <<>>, ClientStep PROVE Closing
  BY InitSteps DEF SkipNotice, InitError, InitSkips, InitReady, HandleAuth, Response, OtherResponse

\* The units of a request.
LEMMA RequestUnits ==
    ASSUME NEW data, NEW s, s = Auth(data)
    PROVE  /\ Listing(s) /\ Len(s) = 2 /\ s # <<>> /\ Head(s) = s[1]
           /\ s[1] = Header("R", 1) /\ s[2].data = data
           /\ s[1].part = "head" /\ s[1].type = "R" /\ s[1].length = INT_32_OCTETS + 1
           /\ LastZ(s)
  <1> DEFINE h == Header("R", 1)
             b == [part |-> "body", data |-> data]
  <1>1. s = <<h, b>>
    BY DEF Auth, Message
  <1>2. h.part = "head" /\ h.type = "R" /\ h.length = INT_32_OCTETS + 1 /\ b.data = data
    BY DEF Header, INT_32_OCTETS
  <1>3. Free(Message("R", data), {"Z"})
    BY FreeMessage
  <1>4. LastZ(s)
    BY <1>3, FreeLastZ DEF Auth
  <1> HIDE DEF h, b
  <1>5. Len(<<h, b>>) = 2 /\ <<h, b>>[1] = h /\ <<h, b>>[2] = b /\ <<h, b>> # <<>>
        /\ Head(<<h, b>>) = h
    OBVIOUS
  <1> QED
    BY <1>1, <1>2, <1>4, <1>5 DEF LastZ, h

LEMMA RequestRead ==
    ASSUME NEW data, pc = "init", wire = Auth(data), ClientStep
    PROVE  \/ Closing
           \/ wire' = <<>> /\ AuthReply(data) /\ UNCHANGED <<m_query_ready, held, srv, up, config>>
  <1> SUFFICES ASSUME ~Closing
               PROVE  /\ wire' = <<>> /\ AuthReply(data)
                      /\ UNCHANGED <<m_query_ready, held, srv, up, config>>
    OBVIOUS
  <1>1. /\ Listing(wire) /\ Len(wire) = 2 /\ wire # <<>> /\ Head(wire) = wire[1]
        /\ wire[2].data = data
        /\ wire[1].part = "head" /\ wire[1].type = "R" /\ wire[1].length = INT_32_OCTETS + 1
    BY RequestUnits
  <1>2. m_size = 1 /\ Whole
    BY <1>1 DEF m_size, Whole, INT_32_OCTETS
  <1>3. HandleAuth
    BY <1>1, InitSteps DEF SkipNotice, InitError, InitSkips, InitReady, Response, OtherResponse
  <1>4. wire' = SubSeq(wire, 3, 2)
    BY <1>1, <1>2, <1>3 DEF HandleAuth, Skip
  <1>5. wire' = <<>>
    <2> DEFINE t == SubSeq(wire, 3, 2)
    <2>0. 3 \in 1..(Len(wire) + 1) /\ 2 \in 0..Len(wire) /\ 3 <= 2 + 1
      BY <1>1
    <2>1. Listing(t) /\ Len(t) = 2 - 3 + 1
      BY <1>1, <2>0, ListPart
    <2> HIDE DEF t
    <2>2. t = <<>>
      BY <2>1 DEF Listing
    <2> QED
      BY <1>4, <2>2 DEF t
  <1> QED
    BY <1>1, <1>3, <1>5 DEF HandleAuth, server

\* Half a request cannot be read.
LEMMA RequestCut ==
    ASSUME pc = "init", wire = <<Header("R", 1)>>, ClientStep
    PROVE  Closing
  <1> DEFINE h == Header("R", 1)
  <1>1. h.part = "head" /\ h.type = "R" /\ h.length = INT_32_OCTETS + 1
    BY DEF Header, INT_32_OCTETS
  <1> HIDE DEF h
  <1>2. wire = <<h>> /\ Len(<<h>>) = 1 /\ <<h>> # <<>> /\ Head(<<h>>) = h
    BY DEF h
  <1>3. ~Whole
    BY <1>1, <1>2 DEF Whole, m_size, INT_32_OCTETS
  <1> QED
    BY <1>1, <1>2, <1>3, InitSteps DEF SkipNotice, InitError, InitSkips, InitReady, HandleAuth,
       Skip, OtherResponse

LEMMA RequestedRead ==
    ASSUME NEW data, pc = "init", Requested(data), ClientStep
    PROVE  \/ Closing
           \/ wire' = <<>> /\ AuthReply(data) /\ UNCHANGED <<m_query_ready, held, srv, up, config>>
  BY NothingToRead, RequestRead, RequestCut DEF Requested

LEMMA RequestedLost ==
    ASSUME NEW data, Requested(data), Lose
    PROVE  Requested(data)'
  <1>1. /\ inbox' = <<>> /\ ~up' /\ up
        /\ \E n \in 0..Len(wire) : wire' = SubSeq(wire, 1, n)
    BY DEF Lose
  <1>2. wire = Auth(data)
    BY <1>1 DEF Requested
  <1>3. Listing(wire) /\ Len(wire) = 2 /\ wire[1] = Header("R", 1)
    BY <1>2, RequestUnits
  <1>4. PICK n \in 0..2 : wire' = SubSeq(wire, 1, n)
    BY <1>1, <1>3
  <1> DEFINE t == SubSeq(wire, 1, n)
             h == Header("R", 1)
  <1>5. /\ Listing(t) /\ Len(t) = n - 1 + 1
        /\ \A i \in 1..(n - 1 + 1) : t[i] = wire[i + 1 - 1]
    <2>1. 1 \in 1..(Len(wire) + 1) /\ n \in 0..Len(wire) /\ 1 <= n + 1
      BY <1>3
    <2> QED
      BY <1>3, <2>1, ListPart
  <1> HIDE DEF t, h
  <1>6. CASE n = 0
    <2>1. t = <<>>
      BY <1>5, <1>6 DEF Listing
    <2> QED
      BY <1>1, <1>4, <2>1 DEF Requested, t
  <1>7. CASE n = 1
    <2>1. Len(t) = 1 /\ t[1] = h
      <3>1. t[1] = wire[1 + 1 - 1] /\ Len(t) = 1
        BY <1>5, <1>7
      <3> QED
        BY <1>3, <3>1 DEF h
    <2>2. t = <<h>>
      <3>1. t \in Seq({t[i] : i \in DOMAIN t}) /\ <<h>> \in Seq({h})
        BY <1>5 DEF Listing
      <3>2. t = [i \in 1..1 |-> t[i]]
        BY <2>1, <3>1
      <3>3. \A i \in 1..1 : t[i] = h
        BY <2>1
      <3>4. t = [i \in 1..1 |-> h]
        BY <3>2, <3>3
      <3>5. <<h>> = [i \in 1..1 |-> h]
        OBVIOUS
      <3> QED
        BY <3>4, <3>5
    <2> QED
      BY <1>1, <1>4, <2>2 DEF Requested, t, h
  <1>8. CASE n = 2
    <2>1. t = wire
      BY <1>3, <1>8 DEF Listing, t
    <2> QED
      BY <1>1, <1>2, <1>4, <2>1 DEF Requested, t
  <1> QED
    BY <1>6, <1>7, <1>8

\* Losing an empty wire.
LEMMA NothingLost == ASSUME wire = <<>>, Lose PROVE wire' = <<>> /\ inbox' = <<>> /\ ~up'
  <1>1. Len(<<>>) = 0 /\ SubSeq(<<>>, 1, 0) = <<>>
    OBVIOUS
  <1>2. \A n \in 0..0 : n = 0
    OBVIOUS
  <1> QED
    BY <1>1, <1>2 DEF Lose

\* The server answers when nothing is on its way.
LEMMA DeliverAlone ==
    ASSUME NEW units, Listing(units), wire = <<>>, held = <<>>, Deliver(units)
    PROVE  wire' = units /\ held' = <<>>
  <1>1. <<>> \o <<>> \o units = units
    BY DEF Listing
  <1> QED
    BY <1>1 DEF Deliver

Starting == /\ pc = "init" /\ ~m_query_ready /\ held = <<>> /\ out = <<>>
            /\ up \in BOOLEAN /\ config.method \in AllMethods

LEMMA ClosingCloses == Closing => Closed'
  BY DEF Closing, Closed

\* The server answers, and the client is where it was.
LEMMA StillStarting ==
    ASSUME Starting, UNCHANGED <<client, up, config>>, held' = <<>>, Greeting'
    PROVE  Greeted'
  BY DEF Starting, Greeted, client

LEMMA StillDecided ==
    ASSUME Starting, UNCHANGED <<client, up, config>>, held' = <<>>, srv' = Idle, inbox' = <<>>,
           Verdict(wire'), LastZ(wire')
    PROVE  Greeted'
  <1>1. Verdict(wire)'
    BY DEF Verdict, Good, Bad, client
  <1>2. Decided'
    BY <1>1 DEF Decided
  <1> QED
    BY <1>2, StillStarting DEF Greeting

LEMMA StartupServed ==
    ASSUME Starting, AtStartup, ServeStartup
    PROVE  Greeted'
  <1>1. /\ srv = Stage("startup") /\ wire = <<>> /\ held = <<>>
        /\ scr = EmptyScram /\ config.method \in AllMethods
    BY DEF AtStartup, Starting
  <1>2. UNCHANGED <<client, up, config>> /\ inbox # <<>> /\ inbox' = Tail(inbox)
    BY DEF ServeStartup, Handles
  <1>3. inbox' = <<>>
    <2> DEFINE m == [type |-> "startup", data |-> "user"]
    <2>1. inbox = <<m>>
      BY <1>2 DEF AtStartup, InFlight
    <2> HIDE DEF m
    <2> QED
      BY <1>2, <2>1
  <1>4. CASE config.method = "trust"
    <2>1. Deliver(Welcome) /\ srv' = [srv EXCEPT !.stage = "ready"]
      BY <1>4 DEF ServeStartup
    <2>2. srv' = Idle
      BY <1>1, <2>1 DEF Stage, Idle
    <2>3. Verdict(Welcome) /\ LastZ(Welcome)
      BY <1>4, VerdictWelcome DEF Good
    <2>4. wire' = Welcome /\ held' = <<>>
      BY <1>1, <2>1, <2>3, DeliverAlone DEF LastZ
    <2>5. Verdict(wire') /\ LastZ(wire')
      BY <2>3, <2>4
    <2> QED
      BY <1>2, <1>3, <2>2, <2>4, <2>5, StillDecided
  <1>5. ASSUME NEW data, Deliver(Auth(data)) PROVE Requested(data)' /\ held' = <<>>
    <2>1. Listing(Auth(data))
      BY RequestUnits
    <2>2. wire' = Auth(data) /\ held' = <<>>
      BY <1>1, <1>5, <2>1, DeliverAlone
    <2> QED
      BY <1>3, <2>2 DEF Requested
  <1>6. CASE config.method = "password"
    <2>1. /\ Deliver(Auth([auth |-> "CLEAR_TEXT_PASSWORD"]))
          /\ srv' = [srv EXCEPT !.stage = "password"]
      BY <1>6 DEF ServeStartup
    <2>2. srv' = Stage("password")
      BY <1>1, <2>1 DEF Stage, Idle
    <2>3. Requested([auth |-> "CLEAR_TEXT_PASSWORD"])' /\ held' = <<>>
      BY <1>5, <2>1
    <2>4. AtPassword'
      BY <1>1, <1>2, <1>6, <2>2, <2>3 DEF AtPassword, client
    <2> QED
      BY <1>2, <2>3, <2>4, StillStarting DEF Greeting
  <1>7. CASE config.method = "md5"
    <2>1. Deliver(Auth([auth |-> "MD5"])) /\ srv' = [srv EXCEPT !.stage = "password"]
      BY <1>7 DEF ServeStartup
    <2>2. srv' = Stage("password")
      BY <1>1, <2>1 DEF Stage, Idle
    <2>3. Requested([auth |-> "MD5"])' /\ held' = <<>>
      BY <1>5, <2>1
    <2>4. AtPassword'
      BY <1>1, <1>2, <1>7, <2>2, <2>3 DEF AtPassword, client
    <2> QED
      BY <1>2, <2>3, <2>4, StillStarting DEF Greeting
  <1>8. CASE config.method = "other_sasl"
    <2>1. /\ Deliver(Auth([auth |-> "SASL", mechanisms |-> "OTHER"]))
          /\ srv' = [srv EXCEPT !.stage = "password"]
      BY <1>8 DEF ServeStartup
    <2>2. srv' = Stage("password")
      BY <1>1, <2>1 DEF Stage, Idle
    <2>3. Requested([auth |-> "SASL", mechanisms |-> "OTHER"])' /\ held' = <<>>
      BY <1>5, <2>1
    <2>4. AtPassword'
      BY <1>1, <1>2, <1>8, <2>2, <2>3 DEF AtPassword, client
    <2> QED
      BY <1>2, <2>3, <2>4, StillStarting DEF Greeting
  <1>9. CASE config.method = "scram"
    <2>1. /\ Deliver(Auth([auth |-> "SASL", mechanisms |-> "SCRAM-SHA-256"]))
          /\ srv' = [srv EXCEPT !.stage = "first"]
      BY <1>9 DEF ServeStartup
    <2>2. srv' = Stage("first")
      BY <1>1, <2>1 DEF Stage, Idle
    <2>3. Requested([auth |-> "SASL", mechanisms |-> "SCRAM-SHA-256"])' /\ held' = <<>>
      BY <1>5, <2>1
    <2>4. AtFirst'
      BY <1>1, <1>2, <1>9, <2>2, <2>3 DEF AtFirst, client
    <2> QED
      BY <1>2, <2>3, <2>4, StillStarting DEF Greeting
  <1> QED
    BY <1>1, <1>4, <1>6, <1>7, <1>8, <1>9 DEF AllMethods

\* The one message in flight.
LEMMA OneReply ==
    ASSUME NEW data, Replied(data), inbox # <<>>, inbox' = Tail(inbox)
    PROVE  inbox' = <<>> /\ Head(inbox).data = data /\ wire = <<>>
  <1> DEFINE m == [type |-> "p", data |-> data]
  <1>1. inbox = <<m>> /\ wire = <<>>
    BY DEF Replied, InFlight, Reply
  <1>2. m.data = data
    OBVIOUS
  <1> HIDE DEF m
  <1> QED
    BY <1>1, <1>2

LEMMA PasswordServed ==
    ASSUME Starting, AtPassword, ServePassword
    PROVE  Greeted'
  <1>1. /\ UNCHANGED <<client, up, config>> /\ inbox # <<>> /\ inbox' = Tail(inbox) /\ srv' = Idle
        /\ Deliver(IF Head(inbox).data = config.server THEN Welcome ELSE Refuse)
    BY DEF ServePassword, Handles
  <1>2. config.method = "password" /\ Replied(config.client)
    BY <1>1 DEF AtPassword, Requested
  <1>3. inbox' = <<>> /\ Head(inbox).data = config.client /\ wire = <<>>
    BY <1>1, <1>2, OneReply
  <1> DEFINE units == IF config.client = config.server THEN Welcome ELSE Refuse
  <1>4. Verdict(units) /\ LastZ(units)
    <2>1. CASE config.client = config.server
      <3>1. Verdict(Welcome) /\ LastZ(Welcome)
        BY <1>2, <2>1, VerdictWelcome DEF Good
      <3> QED
        BY <2>1, <3>1
    <2>2. CASE config.client # config.server
      <3>1. Verdict(Refuse) /\ LastZ(Refuse)
        BY <1>2, <2>2, VerdictRefuse DEF Bad
      <3> QED
        BY <2>2, <3>1
    <2> QED
      BY <2>1, <2>2
  <1>5. Deliver(units)
    BY <1>1, <1>3
  <1> HIDE DEF units
  <1>6. wire' = units /\ held' = <<>>
    BY <1>3, <1>4, <1>5, DeliverAlone DEF LastZ, Starting
  <1>7. Verdict(wire') /\ LastZ(wire')
    BY <1>4, <1>6
  <1> QED
    BY <1>1, <1>3, <1>6, <1>7, StillDecided

LEMMA FirstServed ==
    ASSUME Starting, AtFirst, ServeFirst
    PROVE  Greeted'
  <1>1. /\ UNCHANGED <<client, up, config>> /\ inbox # <<>> /\ inbox' = Tail(inbox)
    BY DEF ServeFirst, Handles
  <1>2. config.method = "scram" /\ Replied(ClientFirst) /\ scr = FirstScram
    BY <1>1 DEF AtFirst, Requested
  <1>3. inbox' = <<>> /\ Head(inbox).data = ClientFirst /\ wire = <<>>
    BY <1>1, <1>2, OneReply
  <1>4. Append(ClientFirst[2], "s") = ServerNonce
    <2>1. ClientFirst[2] = <<"c">>
      BY DEF ClientFirst
    <2>2. \A x, y : Append(<<x>>, y) = <<x, y>>
      <3> TAKE x, y
      <3>1. <<x>> \in Seq({x, y}) /\ Len(<<x>>) = 1 /\ <<x>>[1] = x
        OBVIOUS
      <3> DEFINE a == Append(<<x>>, y)
                 b == <<x, y>>
      <3>2. /\ a \in Seq({x, y}) /\ Len(a) = 2 /\ a[1] = x /\ a[2] = y
            /\ b \in Seq({x, y}) /\ Len(b) = 2 /\ b[1] = x /\ b[2] = y
        BY <3>1
      <3> HIDE DEF a, b
      <3>3. a = [i \in 1..2 |-> a[i]] /\ b = [i \in 1..2 |-> b[i]]
        BY <3>2
      <3>4. \A i \in 1..2 : a[i] = b[i]
        BY <3>2
      <3>5. a = b
        BY <3>3, <3>4
      <3> QED
        BY <3>5 DEF a, b
    <2> QED
      BY <2>1, <2>2 DEF ServerNonce
  <1>5. PICK salt \in Salts :
           LET params == <<Append(Head(inbox).data[2], "s"), base64_encode(salt), IterationText>>
           IN  /\ Deliver(Auth([auth |-> "SASL_CONTINUE", params |-> params]))
               /\ srv' = [stage |-> "final", portal |-> <<>>, salt |-> salt,
                          signed |-> <<Head(inbox).data, params, params[1]>>]
    BY DEF ServeFirst
  <1>6. <<Append(Head(inbox).data[2], "s"), base64_encode(salt), IterationText>> = ServerFirst(salt)
    BY <1>3, <1>4 DEF ServerFirst
  <1>7. ServerFirst(salt)[1] = ServerNonce
    BY DEF ServerFirst
  <1>8. /\ Deliver(Auth([auth |-> "SASL_CONTINUE", params |-> ServerFirst(salt)]))
        /\ srv' = FinalStage(salt)
    BY <1>3, <1>5, <1>6, <1>7 DEF FinalStage
  <1> DEFINE data == [auth |-> "SASL_CONTINUE", params |-> ServerFirst(salt)]
  <1>9. Requested(data)' /\ held' = <<>>
    <2>1. Listing(Auth(data))
      BY RequestUnits
    <2>2. wire' = Auth(data) /\ held' = <<>>
      BY <1>3, <1>8, <2>1, DeliverAlone DEF Starting
    <2> QED
      BY <1>3, <2>2 DEF Requested
  <1>10. scr' = FirstScram
    BY <1>1, <1>2 DEF client
  <1>11. AtFinal'
    BY <1>1, <1>2, <1>8, <1>9, <1>10 DEF AtFinal
  <1> QED
    BY <1>1, <1>9, <1>11, StillStarting DEF Greeting

LEMMA FinalServed ==
    ASSUME Starting, AtFinal, ServeFinal
    PROVE  Greeted'
  <1>1. /\ UNCHANGED <<client, up, config>> /\ inbox # <<>> /\ inbox' = Tail(inbox) /\ srv' = Idle
        /\ Deliver(IF Head(inbox).data.proof = Expected
                   THEN Auth([auth |-> "SASL_FINAL", signature |-> Signature]) \o Welcome
                   ELSE Refuse)
    BY DEF ServeFinal, Handles, Expected, ServerKey, Signature
  <1>2. PICK salt \in Salts :
           /\ srv = FinalStage(salt)
           /\ Replied([nonce |-> ServerNonce,
                       proof |-> ClientProof(Resolved(salt), config.client)])
           /\ scr = ExpectServerFinal(Resolved(salt), config.client)
    BY <1>1 DEF AtFinal, Requested
  <1> DEFINE proof == ClientProof(Resolved(salt), config.client)
             data == [nonce |-> ServerNonce, proof |-> proof]
             final == Auth([auth |-> "SASL_FINAL", signature |-> Signature])
             units == IF proof = Expected THEN final \o Welcome ELSE Refuse
  <1>3. inbox' = <<>> /\ Head(inbox).data = data /\ wire = <<>>
    BY <1>1, <1>2, OneReply
  <1>4. /\ proof = Expected => config.client = config.server
        /\ RoundTrip /\ config.client = config.server => proof = Expected
        /\ RoundTrip /\ config.client = config.server => verify_server_final_msg(scr, Signature)
    BY <1>2, ProofDecides
  <1>5. config.method = "scram"
    BY DEF AtFinal
  <1>6. Deliver(units)
    <2>1. Head(inbox).data.proof = proof
      BY <1>3
    <2> QED
      BY <1>1, <2>1
  <1> HIDE DEF proof
  <1>7. Verdict(units) /\ LastZ(units)
    <2>1. CASE proof = Expected
      <3>1. Verdict(Welcome) /\ LastZ(Welcome)
        BY <1>4, <1>5, <2>1, VerdictWelcome DEF Good
      <3> DEFINE d == [auth |-> "SASL_FINAL", signature |-> Signature]
      <3>2. d.auth = "SASL_FINAL" /\ (RoundTrip => verify_server_final_msg(scr, d.signature))
        BY <1>4, <2>1
      <3> HIDE DEF d
      <3>3. Verdict(Message("R", d)) /\ Len(Message("R", d)) = 2 /\ Free(Message("R", d), {"Z"})
        BY <3>2, VerdictMessage, FreeMessage
      <3>4. final = Message("R", d)
        BY DEF d, Auth
      <3> HIDE DEF final
      <3>5. Verdict(final) /\ Len(final) = 2 /\ Free(final, {"Z"}) /\ Len(final) % 2 = 0
        <4>1. Verdict(final) /\ Len(final) = 2 /\ Free(final, {"Z"})
          BY <3>3, <3>4
        <4>2. 2 % 2 = 0
          OBVIOUS
        <4> QED
          BY <4>1, <4>2
      <3>6. Verdict(final \o Welcome)
        BY <3>1, <3>5, VerdictConcat
      <3>7. LastZ(final \o Welcome)
        BY <3>1, <3>5, LastZConcat
      <3> QED
        BY <2>1, <3>6, <3>7
    <2>2. CASE proof # Expected
      <3>1. Verdict(Refuse) /\ LastZ(Refuse)
        BY <1>4, <1>5, <2>2, VerdictRefuse DEF Bad
      <3> QED
        BY <2>2, <3>1
    <2> QED
      BY <2>1, <2>2
  <1> HIDE DEF units
  <1>8. wire' = units /\ held' = <<>>
    BY <1>3, <1>6, <1>7, DeliverAlone DEF LastZ, Starting
  <1>9. Verdict(wire') /\ LastZ(wire')
    BY <1>7, <1>8
  <1> QED
    BY <1>1, <1>3, <1>8, <1>9, StillDecided

----------------------------------------------------------------------------
(* The client's side of init *)

\* The client answers when nothing else is on its way.
LEMMA Answers ==
    ASSUME NEW data, inbox = <<>>, out = <<>>, Send(Reply(data))
    PROVE  inbox' = InFlight(Reply(data)) /\ out' = <<>>
  <1> DEFINE m == [type |-> "p", data |-> data]
  <1> HIDE DEF m
  <1>1. <<>> \o <<>> \o <<m>> = <<m>>
    OBVIOUS
  <1> QED
    BY <1>1 DEF Send, InFlight, Reply, m

\* init throws at a request it cannot meet.
LEMMA Throws ==
    ASSUME InitThrow, UNCHANGED config, RoundTrip => Bad
    PROVE  Closed'
  BY DEF InitThrow, Closed, Bad

LEMMA PasswordStep ==
    ASSUME Starting, AtPassword, ClientStep
    PROVE  Greeted' \/ Closed'
  <1>0. pc = "init" /\ inbox = inbox /\ out = <<>>
    BY DEF Starting
  <1>1. CASE config.method = "password" /\ Requested([auth |-> "CLEAR_TEXT_PASSWORD"])
    <2> DEFINE data == [auth |-> "CLEAR_TEXT_PASSWORD"]
    <2>1. CASE Closing
      BY <2>1, ClosingCloses
    <2>2. CASE /\ wire' = <<>> /\ AuthReply(data)
               /\ UNCHANGED <<m_query_ready, held, srv, up, config>>
      <3>1. Send(Reply(config.client)) /\ UNCHANGED <<pc, scr>>
        BY <2>2 DEF AuthReply, Reply
      <3>2. inbox = <<>>
        BY <1>1 DEF Requested
      <3>3. inbox' = InFlight(Reply(config.client)) /\ out' = <<>>
        BY <1>0, <3>1, <3>2, Answers
      <3>4. Replied(config.client)'
        BY <2>2, <3>3 DEF Replied, InFlight, Reply
      <3>5. AtPassword'
        BY <1>1, <2>2, <3>1, <3>4 DEF AtPassword
      <3> QED
        BY <2>2, <3>1, <3>3, <3>5 DEF Greeted, Greeting, Starting
    <2> QED
      BY <1>0, <1>1, <2>1, <2>2, RequestedRead
  <1>2. CASE config.method = "password" /\ Replied(config.client)
    BY <1>0, <1>2, NothingToRead, ClosingCloses DEF Replied
  <1>3. CASE config.method = "md5" /\ Requested([auth |-> "MD5"])
    <2> DEFINE data == [auth |-> "MD5"]
    <2>1. CASE Closing
      BY <2>1, ClosingCloses
    <2>2. CASE AuthReply(data) /\ UNCHANGED config
      <3>1. InitThrow
        BY <2>2 DEF AuthReply
      <3> QED
        BY <1>3, <2>2, <3>1, Throws DEF Bad
    <2> QED
      BY <1>0, <1>3, <2>1, <2>2, RequestedRead
  <1>4. CASE /\ config.method = "other_sasl"
             /\ Requested([auth |-> "SASL", mechanisms |-> "OTHER"])
    <2> DEFINE data == [auth |-> "SASL", mechanisms |-> "OTHER"]
    <2>1. CASE Closing
      BY <2>1, ClosingCloses
    <2>2. CASE AuthReply(data) /\ UNCHANGED config
      <3>1. InitThrow
        BY <2>2 DEF AuthReply
      <3> QED
        BY <1>4, <2>2, <3>1, Throws DEF Bad
    <2> QED
      BY <1>0, <1>4, <2>1, <2>2, RequestedRead
  <1> QED
    BY <1>1, <1>2, <1>3, <1>4 DEF AtPassword

LEMMA FirstStep ==
    ASSUME Starting, AtFirst, ClientStep
    PROVE  Greeted' \/ Closed'
  <1>0. pc = "init" /\ out = <<>> /\ config.method = "scram"
    BY DEF Starting, AtFirst
  <1> DEFINE data == [auth |-> "SASL", mechanisms |-> "SCRAM-SHA-256"]
  <1>1. CASE Requested(data) /\ scr = EmptyScram
    <2>1. CASE Closing
      BY <2>1, ClosingCloses
    <2>2. CASE /\ wire' = <<>> /\ AuthReply(data)
               /\ UNCHANGED <<m_query_ready, held, srv, up, config>>
      <3>1. /\ scr' = FirstScram
            /\ Send(Reply(FirstScram.m_client_first_msg_bare)) /\ UNCHANGED pc
        BY <1>1, <2>2 DEF AuthReply, Reply, FirstScram
      <3>2. FirstScram.m_client_first_msg_bare = ClientFirst
        BY DEF FirstScram, ClientFirst, generate_client_first_msg, EmptyScram
      <3>3. inbox = <<>>
        BY <1>1 DEF Requested
      <3>4. inbox' = InFlight(Reply(ClientFirst)) /\ out' = <<>>
        BY <1>0, <3>1, <3>2, <3>3, Answers
      <3>5. Replied(ClientFirst)'
        BY <2>2, <3>4 DEF Replied, InFlight
      <3>6. AtFirst'
        BY <1>0, <2>2, <3>1, <3>5 DEF AtFirst
      <3> QED
        BY <2>2, <3>1, <3>4, <3>6 DEF Greeted, Greeting, Starting
    <2> QED
      BY <1>0, <1>1, <2>1, <2>2, RequestedRead
  <1>2. CASE Replied(ClientFirst)
    BY <1>0, <1>2, NothingToRead, ClosingCloses DEF Replied
  <1> QED
    BY <1>1, <1>2 DEF AtFirst

\* The server's nonce begins with the client's.
LEMMA FirstAccepted ==
    ASSUME NEW salt
    PROVE  ServerFirstMsgOK(FirstScram, ServerFirst(salt)) /\ Resolved(salt).m_server_nonce = ServerNonce
  <1>1. FirstScram.m_client_nonce = <<"c">>
    BY DEF FirstScram, generate_client_first_msg, EmptyScram
  <1>2. Len(ServerFirst(salt)) = 3 /\ ServerFirst(salt)[1] = ServerNonce
    BY DEF ServerFirst
  <1>3. Len(<<"c">>) = 1 /\ <<"c">>[1] = "c" /\ <<"c">> \in Seq({"c", "s"})
    OBVIOUS
  <1>4. /\ ServerNonce \in Seq({"c", "s"}) /\ Len(ServerNonce) = 2 /\ ServerNonce[1] = "c"
    BY DEF ServerNonce
  <1>5. SubSeq(ServerNonce, 1, 1) = <<"c">>
    <2> DEFINE a == SubSeq(ServerNonce, 1, 1)
    <2>1. a \in Seq({"c", "s"}) /\ Len(a) = 1 /\ a[1] = "c"
      BY <1>4
    <2> HIDE DEF a
    <2>2. a = [i \in 1..1 |-> a[i]] /\ <<"c">> = [i \in 1..1 |-> <<"c">>[i]]
      BY <1>3, <2>1
    <2>3. \A i \in 1..1 : a[i] = <<"c">>[i]
      BY <1>3, <2>1
    <2>4. a = <<"c">>
      BY <2>2, <2>3
    <2> QED
      BY <2>4 DEF a
  <1>6. ServerFirstMsgOK(FirstScram, ServerFirst(salt))
    BY <1>1, <1>2, <1>3, <1>4, <1>5 DEF ServerFirstMsgOK
  <1>7. Resolved(salt).m_server_nonce = ServerFirst(salt)[1]
    BY DEF Resolved, resolve_server_first_msg, FirstScram, generate_client_first_msg, EmptyScram
  <1> QED
    BY <1>2, <1>6, <1>7

LEMMA FinalStep ==
    ASSUME Starting, AtFinal, ClientStep
    PROVE  Greeted' \/ Closed'
  <1>0. pc = "init" /\ out = <<>> /\ config.method = "scram"
    BY DEF Starting, AtFinal
  <1>1. PICK salt \in Salts :
           /\ srv = FinalStage(salt)
           /\ \/ /\ Requested([auth |-> "SASL_CONTINUE", params |-> ServerFirst(salt)])
                 /\ scr = FirstScram
              \/ Replied([nonce |-> ServerNonce,
                          proof |-> ClientProof(Resolved(salt), config.client)])
    BY DEF AtFinal
  <1> DEFINE first == ServerFirst(salt)
             data == [auth |-> "SASL_CONTINUE", params |-> first]
             proof == [nonce |-> ServerNonce, proof |-> ClientProof(Resolved(salt), config.client)]
  <1>2. CASE Requested(data) /\ scr = FirstScram
    <2>1. CASE Closing
      BY <2>1, ClosingCloses
    <2>2. CASE /\ wire' = <<>> /\ AuthReply(data)
               /\ UNCHANGED <<m_query_ready, held, srv, up, config>>
      <3>0. data.auth = "SASL_CONTINUE" /\ data.params = first
        OBVIOUS
      <3> HIDE DEF data
      <3>1. ServerFirstMsgOK(scr, first) /\ Resolved(salt).m_server_nonce = ServerNonce
        BY <1>2, FirstAccepted
      <3>2. Resolved(salt) = resolve_server_first_msg(scr, first)
        BY <1>2 DEF Resolved
      <3> HIDE DEF first
      <3>3. /\ scr' = ExpectServerFinal(Resolved(salt), config.client)
            /\ Send(Reply(proof)) /\ UNCHANGED pc
        BY <2>2, <3>0, <3>1, <3>2 DEF AuthReply, Reply
      <3>4. inbox = <<>>
        BY <1>2 DEF Requested
      <3>5. inbox' = InFlight(Reply(proof)) /\ out' = <<>>
        BY <1>0, <3>3, <3>4, Answers
      <3>6. /\ Replied([nonce |-> ServerNonce,
                         proof |-> ClientProof(Resolved(salt), config.client)])'
            /\ scr' = ExpectServerFinal(Resolved(salt), config'.client)
        BY <2>2, <3>3, <3>5 DEF Replied, InFlight, Reply
      <3>7. AtFinal'
        BY <1>0, <1>1, <2>2, <3>6 DEF AtFinal
      <3> QED
        BY <2>2, <3>3, <3>5, <3>7 DEF Greeted, Greeting, Starting
    <2> QED
      BY <1>0, <1>2, <2>1, <2>2, RequestedRead
  <1>3. CASE Replied(proof)
    BY <1>0, <1>3, NothingToRead, ClosingCloses DEF Replied
  <1> QED
    BY <1>1, <1>2, <1>3

\* The server has decided: init reads what it says to the end.
LEMMA DecidedStep ==
    ASSUME Starting, Decided, ClientStep
    PROVE  Greeted' \/ Closed' \/ Later'
  <1>0. /\ pc = "init" /\ ~m_query_ready /\ held = <<>> /\ out = <<>>
        /\ srv = Idle /\ inbox = <<>> /\ Verdict(wire) /\ LastZ(wire)
    BY DEF Starting, Decided
  <1>1. Closing \/ SkipNotice \/ InitError \/ InitSkips \/ InitReady \/ HandleAuth
    BY <1>0, InitSteps
  <1>2. CASE Closing
    BY <1>2, ClosingCloses
  <1>3. ASSUME wire # <<>>
        PROVE  /\ Len(wire) \in Nat \ {0} /\ Head(wire) = wire[1] /\ wire[1].part = "head"
               /\ wire[1].length = INT_32_OCTETS + 1 /\ m_size = 1
               /\ wire[1].type \in {"R", "N", "S", "K", "Z", "E"}
               /\ wire[1].type = "Z" => Good
               /\ wire[1].type = "E" => (RoundTrip => Bad)
               /\ wire[1].type = "R" /\ 2 <= Len(wire) =>
                     \/ wire[2].data.auth = "OK"
                     \/ /\ wire[2].data.auth = "SASL_FINAL"
                        /\ RoundTrip => verify_server_final_msg(scr, wire[2].data.signature)
    <2>1. Len(wire) \in Nat \ {0} /\ Head(wire) = wire[1]
      BY <1>0, <1>3, ListTail DEF Verdict
    <2>2. 1 \in 1..Len(wire) /\ 1 % 2 = 1 /\ 1 + 1 = 2
      BY <2>1
    <2>3. /\ wire[1].part = "head"
          /\ wire[1].length = INT_32_OCTETS + 1
          /\ wire[1].type \in {"R", "N", "S", "K", "Z", "E"}
          /\ wire[1].type = "Z" => Good
          /\ wire[1].type = "E" => (RoundTrip => Bad)
          /\ wire[1].type = "R" /\ 2 <= Len(wire) =>
                \/ wire[2].data.auth = "OK"
                \/ /\ wire[2].data.auth = "SASL_FINAL"
                   /\ RoundTrip => verify_server_final_msg(scr, wire[2].data.signature)
      BY <1>0, <2>2 DEF Verdict
    <2>4. m_size = 1
      BY <2>1, <2>3 DEF m_size, INT_32_OCTETS
    <2> QED
      BY <2>1, <2>3, <2>4
  <1>4. ASSUME wire # <<>>, Skip
        PROVE  2 <= Len(wire) /\ Verdict(wire') /\ LastZ(wire')
    <2>1. 2 <= Len(wire) /\ wire' = SubSeq(wire, 3, Len(wire)) /\ Len(wire) \in Nat
      BY <1>3, <1>4 DEF Skip, Whole
    <2>2. 3 \in 1..(Len(wire) + 1)
      BY <2>1
    <2>3. Verdict(SubSeq(wire, 3, Len(wire)))
      BY <1>0, <2>1, VerdictPart
    <2>4. LastZ(SubSeq(wire, 3, Len(wire)))
      BY <1>0, <2>2, LastZPart
    <2> QED
      BY <2>1, <2>3, <2>4
  <1>5. CASE SkipNotice \/ InitSkips
    <2>1. wire # <<>> /\ Skip /\ UNCHANGED <<client, server, inbox, up, config>>
      BY <1>5 DEF SkipNotice, InitSkips, Response
    <2>2. Verdict(wire') /\ LastZ(wire')
      BY <1>4, <2>1
    <2> QED
      BY <1>0, <2>1, <2>2, StillDecided DEF server
  <1>6. CASE HandleAuth
    <2>1. /\ wire # <<>> /\ Head(wire).type = "R" /\ Skip /\ AuthReply(wire[2].data)
          /\ UNCHANGED <<m_query_ready, results, got, server, up, config>>
      BY <1>6 DEF HandleAuth, Response
    <2>2. Verdict(wire') /\ LastZ(wire') /\ 2 <= Len(wire)
      BY <1>4, <2>1
    <2>3. \/ wire[2].data.auth = "OK"
          \/ /\ wire[2].data.auth = "SASL_FINAL"
             /\ RoundTrip => verify_server_final_msg(scr, wire[2].data.signature)
      BY <1>3, <2>1, <2>2
    <2>4. CASE UNCHANGED <<pc, scr, out, inbox>>
      <3>1. UNCHANGED <<client, server, inbox, up, config>>
        BY <2>1, <2>4 DEF client
      <3> QED
        BY <1>0, <2>2, <3>1, StillDecided DEF server
    <2>5. CASE InitThrow /\ ~verify_server_final_msg(scr, wire[2].data.signature)
               /\ wire[2].data.auth = "SASL_FINAL"
      BY <2>1, <2>3, <2>5, Throws
    <2>6. CASE wire[2].data.auth = "OK"
      <3>1. UNCHANGED <<pc, scr, out, inbox>>
        BY <2>1, <2>6 DEF AuthReply
      <3> QED
        BY <2>4, <3>1
    <2>7. CASE wire[2].data.auth = "SASL_FINAL"
      <3> DEFINE d == wire[2].data
      <3>1. \/ UNCHANGED <<pc, scr, out, inbox>>
            \/ InitThrow /\ ~verify_server_final_msg(scr, d.signature)
        <4>1. AuthReply(d) /\ d.auth = "SASL_FINAL"
          BY <2>1, <2>7
        <4> HIDE DEF d
        <4> QED
          BY <4>1 DEF AuthReply
      <3> QED
        BY <2>4, <2>5, <2>7, <3>1
    <2> QED
      BY <2>3, <2>6, <2>7
  <1>7. CASE InitError
    <2>1. /\ wire # <<>> /\ Head(wire).type \notin {"R", "K", "S", "Z", "N"} /\ InitThrow
          /\ UNCHANGED config
      BY <1>7 DEF InitError, OtherResponse
    <2>2. RoundTrip => Bad
      BY <1>3, <2>1
    <2> QED
      BY <2>1, <2>2, Throws
  <1>8. CASE InitReady
    <2>1. /\ wire # <<>> /\ Head(wire).type = "Z" /\ Head(wire).part = "head" /\ Skip
          /\ m_query_ready' = TRUE /\ pc' = "idle" /\ scr' = EmptyScram
          /\ UNCHANGED <<out, inbox, held, srv, up, config>>
      BY <1>8 DEF InitReady, Response, server
    <2>2. Good /\ wire' = <<>>
      BY <1>0, <1>3, <2>1, SkipLeaves
    <2>3. Good'
      BY <2>1, <2>2 DEF Good
    <2>4. Free(<<>>, {"Z"}) /\ Free(<<>>, {"s"}) /\ Listing(<<>>) /\ Len(<<>>) = 0
      BY FreeEmpty DEF Free
    <2>5. Only(<<>>, {"P", "B"}) /\ Only(<<>>, Asks)
      BY OnlyEmpty
    <2>6. Idle \in ServerStates /\ Idle.portal = <<>>
      BY DEF Idle, ServerStates
    <2>7. NoPortal'
      <3>1. \A i \in 1..0 : FALSE
        OBVIOUS
      <3> QED
        BY <1>0, <2>1, <2>2, <2>4, <2>6, <3>1 DEF NoPortal
    <2>8. Serving'
      BY <1>0, <2>1, <2>2, <2>4, <2>5, <2>6, <2>7 DEF Serving, NothingDue
    <2> QED
      BY <2>1, <2>3, <2>8 DEF Later, Calls
  <1> QED
    BY <1>1, <1>2, <1>5, <1>6, <1>7, <1>8

----------------------------------------------------------------------------
(* The steps of init together *)

\* The connection breaks while init waits.
LEMMA GreetingLost ==
    ASSUME Starting, Greeting, Lose
    PROVE  Greeted'
  <1>1. /\ UNCHANGED <<client, srv, config>> /\ held' = <<>> /\ inbox' = <<>> /\ up /\ ~up'
        /\ \E n \in 0..Len(wire) : wire' = SubSeq(wire, 1, n)
    BY DEF Lose
  <1>2. ASSUME NEW data, Replied(data) PROVE wire' = <<>> /\ inbox' = <<>> /\ ~up'
    BY <1>2, NothingLost DEF Replied
  <1>3. AtStartup => AtStartup'
    BY <1>1, NothingLost DEF AtStartup, InFlight, client
  <1>4. AtPassword => AtPassword'
    <2>1. CASE \E data : Replied(data)
      <3>1. wire' = <<>> /\ inbox' = <<>> /\ ~up'
        BY <1>2, <2>1
      <3>2. Replied(config.client)'
        BY <3>1 DEF Replied, InFlight
      <3> QED
        BY <1>1, <3>2, RequestedLost DEF AtPassword, client
    <2>2. CASE ~ \E data : Replied(data)
      BY <1>1, <2>2, RequestedLost DEF AtPassword, client
    <2> QED
      BY <2>1, <2>2
  <1>5. AtFirst => AtFirst'
    <2>1. Replied(ClientFirst) => Replied(ClientFirst)'
      BY <1>2 DEF Replied, InFlight
    <2> QED
      BY <1>1, <2>1, RequestedLost DEF AtFirst, client
  <1>6. AtFinal => AtFinal'
    <2> SUFFICES ASSUME AtFinal PROVE AtFinal'
      OBVIOUS
    <2>1. PICK salt \in Salts :
             /\ srv = FinalStage(salt)
             /\ \/ /\ Requested([auth |-> "SASL_CONTINUE", params |-> ServerFirst(salt)])
                   /\ scr = FirstScram
                \/ /\ Replied([nonce |-> ServerNonce,
                               proof |-> ClientProof(Resolved(salt), config.client)])
                   /\ scr = ExpectServerFinal(Resolved(salt), config.client)
      BY DEF AtFinal
    <2>2. CASE /\ Requested([auth |-> "SASL_CONTINUE", params |-> ServerFirst(salt)])
               /\ scr = FirstScram
      <3>1. Requested([auth |-> "SASL_CONTINUE", params |-> ServerFirst(salt)])'
        BY <2>2, RequestedLost
      <3> QED
        BY <1>1, <2>1, <2>2, <3>1 DEF AtFinal, client
    <2>3. CASE /\ Replied([nonce |-> ServerNonce,
                           proof |-> ClientProof(Resolved(salt), config.client)])
               /\ scr = ExpectServerFinal(Resolved(salt), config.client)
      <3>1. Replied([nonce |-> ServerNonce,
                     proof |-> ClientProof(Resolved(salt), config.client)])'
        BY <1>2, <2>3 DEF Replied, InFlight
      <3>2. scr' = ExpectServerFinal(Resolved(salt), config.client)'
        BY <1>1, <2>3 DEF client
      <3> QED
        BY <1>1, <2>1, <3>1, <3>2 DEF AtFinal
    <2> QED
      BY <2>1, <2>2, <2>3
  <1>7. Decided => Decided'
    <2> SUFFICES ASSUME Decided PROVE Decided'
      OBVIOUS
    <2>1. Verdict(wire') /\ LastZ(wire')
      <3>1. PICK n \in 0..Len(wire) : wire' = SubSeq(wire, 1, n)
        BY <1>1
      <3> QED
        BY <3>1, VerdictPrefix, LastZPrefix DEF Decided
    <2>2. Verdict(wire)'
      BY <1>1, <2>1 DEF Verdict, Good, Bad, client
    <2> QED
      BY <1>1, <2>1, <2>2 DEF Decided
  <1>8. Greeting'
    BY <1>3, <1>4, <1>5, <1>6, <1>7 DEF Greeting
  <1> QED
    BY <1>1, <1>8 DEF Starting, Greeted, client

\* The server handles a message only at its own stage.
LEMMA GreetingServed ==
    ASSUME Starting, Greeting, ServerStep
    PROVE  Greeted'
  <1>1. inbox # <<>>
    BY DEF ServerStep, ServeStartup, ServePassword, ServeFirst, ServeFinal, ServeStatement,
       ServeQuery, ServeParse, ServeBind, ServeExecute, ServeFlush, ServeClose, ServeSkips,
       ServeSync, Handles
  <1>2. ASSUME srv.stage \notin {"ready", "skipping"}
        PROVE  ServeStartup \/ ServePassword \/ ServeFirst \/ ServeFinal
    BY <1>2 DEF ServerStep, ServeStatement, ServeQuery, ServeParse, ServeBind, ServeExecute,
       ServeFlush, ServeClose, ServeSkips, ServeSync
  <1>3. CASE AtStartup
    <2>1. srv.stage = "startup"
      BY <1>3 DEF AtStartup, Stage, Idle
    <2> QED
      BY <1>2, <1>3, <2>1, StartupServed DEF ServePassword, ServeFirst, ServeFinal
  <1>4. CASE AtPassword
    <2>1. srv.stage = "password"
      BY <1>4 DEF AtPassword, Stage, Idle
    <2> QED
      BY <1>2, <1>4, <2>1, PasswordServed DEF ServeStartup, ServeFirst, ServeFinal
  <1>5. CASE AtFirst
    <2>1. srv.stage = "first"
      BY <1>5 DEF AtFirst, Stage, Idle
    <2> QED
      BY <1>2, <1>5, <2>1, FirstServed DEF ServeStartup, ServePassword, ServeFinal
  <1>6. CASE AtFinal
    <2>1. srv.stage = "final"
      BY <1>6 DEF AtFinal, FinalStage
    <2> QED
      BY <1>2, <1>6, <2>1, FinalServed DEF ServeStartup, ServePassword, ServeFirst
  <1> QED
    BY <1>1, <1>3, <1>4, <1>5, <1>6 DEF Greeting, Decided

LEMMA GreetedStep ==
    ASSUME Starting, Greeting, [Next]_vars
    PROVE  Greeted' \/ Closed' \/ Later'
  <1>1. CASE Call
    BY <1>1 DEF Call, InitCall, CloseSyncCall, CallFails, QueryCall, PrepareQuery, ExecuteCall,
       Called, Starting
  <1>2. CASE ClientStep
    <2>1. CASE AtStartup
      BY <1>2, <2>1, NothingToRead, ClosingCloses DEF AtStartup, Starting
    <2> QED
      BY <1>2, <2>1, PasswordStep, FirstStep, FinalStep, DecidedStep DEF Greeting
  <1>3. CASE ServerStep
    BY <1>3, GreetingServed
  <1>4. CASE Lose
    BY <1>4, GreetingLost
  <1>5. CASE UNCHANGED vars
    <2>1. UNCHANGED <<m_query_ready, pc, scr, out, inbox, held, wire, srv, up, config>>
      BY <1>5 DEF vars
    <2>2. Greeting'
      BY <2>1 DEF Greeting, AtStartup, AtPassword, AtFirst, AtFinal, Decided, Requested, Replied,
         InFlight, Reply, Verdict, Good, Bad
    <2> QED
      BY <2>1, <2>2 DEF Greeted, Starting
  <1> QED
    BY <1>1, <1>2, <1>3, <1>4, <1>5 DEF Next

----------------------------------------------------------------------------
(* The invariant *)

\* Before init is called the connection can break, and then init may throw at once.
LEMMA FreshStep ==
    ASSUME Fresh, up \in BOOLEAN, config.method \in AllMethods, [Next]_vars
    PROVE  Fresh' \/ Greeted' \/ Closed'
  <1>0. /\ pc = "new" /\ ~m_query_ready /\ scr = EmptyScram /\ srv = Stage("startup")
        /\ held = <<>> /\ out = <<>> /\ wire = <<>> /\ inbox = <<>>
    BY DEF Fresh
  <1>1. CASE CallFails
    BY <1>0, <1>1 DEF CallFails, GiveUp, Closed
  <1>2. CASE Call /\ ~CallFails
    <2>1. InitCall
      BY <1>0, <1>2 DEF Call, CloseSyncCall, QueryCall, PrepareQuery, ExecuteCall, Called
    <2> DEFINE m == [type |-> "startup", data |-> "user"]
    <2>2. /\ pc' = "init" /\ inbox' = (IF up THEN inbox \o out \o <<m>> ELSE inbox) /\ out' = <<>>
          /\ UNCHANGED <<m_query_ready, scr, held, srv, wire, up, config>>
      BY <2>1 DEF InitCall, Send, server
    <2> HIDE DEF m
    <2>3. <<>> \o <<>> \o <<m>> = <<m>>
      OBVIOUS
    <2>4. inbox' = IF up' THEN <<m>> ELSE <<>>
      BY <1>0, <2>2, <2>3
    <2>5. AtStartup'
      BY <1>0, <2>2, <2>4 DEF AtStartup, InFlight, m
    <2> QED
      BY <1>0, <2>2, <2>5 DEF Greeted, Greeting
  <1>3. CASE ClientStep
    BY <1>0, <1>3 DEF ClientStep, SkipNotice, ReadFails, FlushFails, GiveUp, Reading,
       InitError, InitSkips, InitReady, HandleAuth, RowWhole, RowCut, QueryTag, QueryError,
       QueryOther, QueryReady, ExecuteOther, ExecuteEnds, ExecuteSuspends, SyncSkips, SyncReady
  <1>4. CASE ServerStep
    BY <1>0, <1>4 DEF ServerStep, ServeStartup, ServePassword, ServeFirst, ServeFinal,
       ServeStatement, ServeQuery, ServeParse, ServeBind, ServeExecute, ServeFlush, ServeClose,
       ServeSkips, ServeSync, Handles
  <1>5. CASE Lose
    BY <1>0, <1>5, NothingLost DEF Lose, Fresh, client
  <1>6. CASE UNCHANGED vars
    BY <1>0, <1>6 DEF Fresh, vars
  <1> QED
    BY <1>1, <1>2, <1>3, <1>4, <1>5, <1>6 DEF Next

\* Nothing is called on a connection whose init has thrown.
LEMMA ClosedStep ==
    ASSUME Closed, up \in BOOLEAN, [Next]_vars
    PROVE  Closed' /\ m_query_ready' = m_query_ready
  <1>1. UNCHANGED client
    <2>1. CASE Call
      BY <2>1 DEF Call, InitCall, CloseSyncCall, CallFails, QueryCall, PrepareQuery,
         ExecuteCall, Called, Closed
    <2>2. CASE ClientStep
      BY <2>2 DEF ClientStep, SkipNotice, ReadFails, FlushFails, GiveUp, Reading, InitError,
         InitSkips, InitReady, HandleAuth, RowWhole, RowCut, QueryTag, QueryError, QueryOther,
         QueryReady, ExecuteOther, ExecuteEnds, ExecuteSuspends, SyncSkips, SyncReady, Closed
    <2>3. CASE ServerStep
      BY <2>3, ServerFrame
    <2>4. CASE Lose \/ UNCHANGED vars
      BY <2>4 DEF Lose, vars, client
    <2> QED
      BY <2>1, <2>2, <2>3, <2>4 DEF Next
  <1>2. config' = config /\ (up' => up)
    <2>1. config' = config /\ (up' = up \/ up' = FALSE)
      BY ConfigFixed
    <2>2. up' \in BOOLEAN
      BY <2>1
    <2> QED
      BY <2>1, <2>2
  <1>3. Bad => Bad'
    BY <1>2 DEF Bad
  <1>4. pc' = pc /\ scr' = scr /\ m_query_ready' = m_query_ready
    BY <1>1 DEF client
  <1> QED
    BY <1>2, <1>3, <1>4 DEF Closed

\* After init.
LEMMA LaterStep ==
    ASSUME Later, up \in BOOLEAN, m_query_ready \in BOOLEAN, [Next]_vars
    PROVE  Later' /\ m_query_ready' \in BOOLEAN
  <1>1. config' = config /\ up' \in {up, FALSE}
    BY ConfigFixed
  <1>2. /\ pc' \in Calls /\ scr' \in {scr, EmptyScram}
        /\ m_query_ready' \in {m_query_ready, TRUE, FALSE}
    BY LaterFrame DEF Later
  <1>3. up' => Serving'
    BY <1>1, ServingStep DEF Later
  <1>4. Good'
    BY <1>1 DEF Later, Good
  <1> QED
    BY <1>2, <1>3, <1>4 DEF Later

\* Before and during init m_query_ready is only set.
LEMMA QuerySet ==
    ASSUME pc \in {"new", "init"}, [Next]_vars
    PROVE  m_query_ready' \in {m_query_ready, TRUE}
  <1>1. CASE Call
    BY <1>1 DEF Call, InitCall, CloseSyncCall, CallFails, QueryCall, PrepareQuery, ExecuteCall,
       Called
  <1>2. CASE ClientStep
    BY <1>2 DEF ClientStep, SkipNotice, ReadFails, FlushFails, GiveUp, InitError, InitSkips,
       InitReady, HandleAuth, RowWhole, RowCut, QueryTag, QueryError, QueryOther, QueryReady,
       ExecuteOther, ExecuteEnds, ExecuteSuspends, SyncSkips, SyncReady, client
  <1>3. CASE ServerStep
    BY <1>3, ServerFrame DEF client
  <1>4. CASE Lose \/ UNCHANGED vars
    BY <1>4 DEF Lose, vars, client
  <1> QED
    BY <1>1, <1>2, <1>3, <1>4 DEF Next

LEMMA InvInit == Init => Inv
  <1> SUFFICES ASSUME Init PROVE Inv
    OBVIOUS
  <1>1. config.method \in AllMethods
    BY PgConnectionAssumption DEF Init
  <1>2. Fresh
    BY DEF Init, Fresh, Stage
  <1> QED
    BY <1>1, <1>2 DEF Inv, Init, Fresh

LEMMA InvStep == Inv /\ [Next]_vars => Inv'
  <1> SUFFICES ASSUME Inv, [Next]_vars PROVE Inv'
    OBVIOUS
  <1>1. config' = config /\ up' \in {up, FALSE}
    BY ConfigFixed
  <1>2. config.method \in AllMethods /\ m_query_ready \in BOOLEAN /\ up \in BOOLEAN
    BY DEF Inv
  <1>3. config'.method \in AllMethods /\ up' \in BOOLEAN
    BY <1>1, <1>2
  <1>4. CASE Closed
    BY <1>2, <1>3, <1>4, ClosedStep DEF Inv
  <1>5. CASE Fresh
    <2>1. m_query_ready' \in BOOLEAN
      BY <1>2, <1>5, QuerySet DEF Fresh
    <2> QED
      BY <1>2, <1>3, <1>5, <2>1, FreshStep DEF Inv
  <1>6. CASE Greeted
    <2>1. Starting /\ Greeting
      BY <1>2, <1>6 DEF Starting, Greeted
    <2>2. Greeted' \/ Closed' \/ Later'
      BY <2>1, GreetedStep
    <2>3. m_query_ready' \in BOOLEAN
      BY <1>2, <1>6, QuerySet DEF Greeted
    <2> QED
      BY <1>3, <2>2, <2>3 DEF Inv
  <1>7. CASE Later
    BY <1>2, <1>3, <1>7, LaterStep DEF Inv
  <1> QED
    BY <1>4, <1>5, <1>6, <1>7 DEF Inv

\* The states of a connection are those of the invariant: init has not been
\* called, is at one of the stages of its exchange with the server, has thrown,
\* or has succeeded; and after that what is still to come ends in at most one
\* ReadyForQuery, and only if the call under way waits for it.
THEOREM InvInductive == Spec => []Inv
  BY InvInit, InvStep, PTL DEF Spec

\* For every set of statements, of limits and of salts: between two calls a
\* connection whose m_query_ready is set has nothing of the earlier calls left,
\* at either end or on the way, whether the rows were read or left unread by
\* populate_result, and whatever failed.
THEOREM ReadyIdle == Spec => []ReadyMeansIdle
  <1>1. Inv => ReadyMeansIdle
    BY DEF Inv, Closed, Fresh, Greeted, Later, Serving, NoPortal, ReadyMeansIdle
  <1> QED
    BY <1>1, InvInductive, PTL

\* For every set of salts: init succeeds only with a server that needs no
\* password or has the client's.  Nothing is assumed of base64.
THEOREM AuthSound ==
    Spec => [](pc \in Calls => Good)
  <1>1. Inv => (pc \in Calls => Good)
    BY DEF Inv, Closed, Fresh, Greeted, Later, Calls
  <1> QED
    BY <1>1, InvInductive, PTL

\* If base64_decode undoes base64_encode on the salts and the number of
\* iterations is read as it was written, init decides rightly both ways: it
\* succeeds only with the right password, and while the connection lasts it
\* throws only for the wrong one or for a method that is not supported.
THEOREM AuthDecided ==
    ASSUME RoundTrip
    PROVE  Spec => []AuthDecides
  <1>1. Inv => AuthDecides
    <2>1. pc = "closed" => pc \notin Calls
      BY DEF Calls
    <2> QED
      BY <2>1 DEF Inv, Closed, Fresh, Greeted, Later, AuthDecides, Good, Bad, Calls
  <1> QED
    BY <1>1, InvInductive, PTL

\* Under the same hypothesis, once the client has resolved the server's first
\* message it computes its proof from the salt and the iterations that the
\* server will check it with.
THEOREM SaltsAgree ==
    ASSUME RoundTrip
    PROVE  Spec => []SaltAgrees
  <1>1. Inv => SaltAgrees
    <2> SUFFICES ASSUME Inv, scr.m_server_first_msg # <<>>, srv.stage = "final"
                 PROVE  scr.m_salt = srv.salt /\ scr.m_iterations = Iterations
      BY DEF SaltAgrees
    <2>1. scr # EmptyScram
      BY DEF EmptyScram
    <2>2. Greeting
      BY <2>1 DEF Inv, Closed, Fresh, Greeted, Later
    <2>3. AtFinal
      BY <2>2 DEF Greeting, AtStartup, AtPassword, AtFirst, Decided, Stage, Idle
    <2>4. scr # FirstScram
      BY DEF FirstScram, generate_client_first_msg, EmptyScram
    <2>5. PICK salt \in Salts : /\ srv = FinalStage(salt)
                                /\ scr = ExpectServerFinal(Resolved(salt), config.client)
      BY <2>3, <2>4 DEF AtFinal
    <2>6. /\ Resolved(salt).m_salt = base64_decode(base64_encode(salt))
          /\ Resolved(salt).m_iterations = convert_to_num(IterationText)
      BY ResolvedFields
    <2>7. scr.m_salt = Resolved(salt).m_salt /\ scr.m_iterations = Resolved(salt).m_iterations
      BY <2>5 DEF ExpectServerFinal, Resolved, resolve_server_first_msg, FirstScram,
         generate_client_first_msg, EmptyScram
    <2>8. srv.salt = salt
      BY <2>5 DEF FinalStage
    <2> QED
      BY <2>6, <2>7, <2>8 DEF RoundTrip
  <1> QED
    BY <1>1, InvInductive, PTL

----------------------------------------------------------------------------
(* What a call returns *)

\* Messages that say nothing of a result, and those that end one.
Silent == {"T", "N", "S", "1", "2"}
Ends == {"C", "E", "I", "s"}
Outcome(type) == CASE type = "C" -> "SUCCESS"
                   [] type = "s" -> "SUSPENDED"
                   [] OTHER      -> "ERROR"

\* With x[1] results complete and x[2] rows of the next one read, a message of
\* this type leads to y, if the results are to become a.
Moves(type, data, x, y, a) ==
    LET c == x[1] + 1
    IN  /\ type \in Silent \cup Ends \cup {"D", "Z"}
        /\ type \in Silent => y = x
        /\ type = "D" => /\ c \in 1..Len(a) /\ x[2] + 1 \in 1..Len(a[c].rows)
                         /\ data = a[c].rows[x[2] + 1]
                         /\ y = <<x[1], x[2] + 1>>
        /\ type \in Ends => /\ c \in 1..Len(a) /\ x[2] = Len(a[c].rows)
                            /\ a[c].type = Outcome(type)
                            /\ y = <<c, 0>>
        /\ type = "Z" => x = <<Len(a), 0>> /\ y = x

\* The units of the message with this header.
Width(h) == h.length - INT_32_OCTETS + 1

Payload(s, i) == IF Width(s[i]) = 2 THEN s[i + 1].data ELSE 0

\* P says for each place in s how far the client is there.
Unit(s, P, a, i) ==
    s[i].part = "head" =>
        LET n == Width(s[i])
        IN  /\ n \in {1, 2} /\ i + n <= Len(s) + 1
            /\ n = 2 => s[i + 1].part = "body"
            /\ s[i].type = "D" => n = 2
            /\ Moves(s[i].type, Payload(s, i), P[i], P[i + n], a)

Follows(s, P, a) ==
    /\ Listing(s) /\ P \in [Nat -> Nat \X Nat]
    /\ \A i \in 1..Len(s) : Unit(s, P, a, i)

Leads(s, x, y, a) == \E P : Follows(s, P, a) /\ P[1] = x /\ P[Len(s) + 1] = y

ResultSets == [type : {"PENDING", "SUCCESS", "ERROR", "SUSPENDED"},
               rows : Seq(Nat \X Nat)]

\* The results so far are the answer's, and the last is a beginning of the next.
Built ==
    LET n == Len(results)
        r == results[n]
    IN  /\ results \in Seq(ResultSets) /\ answer \in Seq(ResultSets) /\ n > 0
        /\ \A k \in 1..n - 1 : k \in 1..Len(answer) /\ results[k] = answer[k]
        /\ r.type = "PENDING"
        /\ r.rows # <<>> => n \in 1..Len(answer)
        /\ \A j \in 1..Len(r.rows) : /\ j \in 1..Len(answer[n].rows)
                                     /\ r.rows[j] = answer[n].rows[j]

Point == <<Len(results) - 1, Len(results[Len(results)].rows)>>

\* Reading w leads from x to the whole answer.  After a break there is a rest
\* that never comes.
Remaining(w, x) ==
    \E rest : /\ Listing(rest) /\ (up => rest = held)
              /\ Leads(w \o rest, x, <<Len(answer), 0>>, answer)

Underway == Built /\ Remaining(wire, Point)

\* execute has one result.
Alone == Len(results) = 1 /\ Len(answer) <= 1

LastS(s) == \A i \in 1..Len(s) : s[i].part = "head" /\ s[i].type = "s" => i = Len(s)

\* Execute and Flush have not been handled.
Asked ==
    LET n == Len(inbox)
    IN  /\ answer = <<>> /\ srv.stage = "ready" /\ n >= 2
        /\ inbox[n].type = "H" /\ inbox[n - 1].type = "E"
        /\ \A i \in 1..n - 2 : inbox[i].type \in {"P", "B"}

ToFlush == Len(inbox) = 1 /\ inbox[1].type = "H"

Executing ==
    /\ Alone /\ LastS(wire)
    /\ up => /\ \/ Asked
                \/ Len(answer) = 1 /\ srv.stage = "skipping"
                \/ /\ Len(answer) = 1 /\ srv.stage = "ready"
                   /\ ToFlush \/ (inbox = <<>> /\ held = <<>>)
             /\ ~Free(wire, {"s"}) => inbox = <<>> /\ srv.stage = "ready"
             /\ LastS(held)
             /\ ~Free(held, {"s"}) => ToFlush /\ srv.stage = "ready"

\* Nothing that the server still has to handle changes the answer.
Final ==
    \/ srv.stage = "skipping"
    \/ \A i \in 1..Len(inbox) : inbox[i].type \notin {"P", "B", "E"}

\* The result under way, when a message of this type ends it.
Ended(type) == [Last(results) EXCEPT !.type = Outcome(type)]

Broken == ~up => inbox = <<>> /\ held = <<>>

Matched ==
    /\ got # <<>> => pc = "idle" /\ got[1] = answer
    /\ Broken
    /\ pc = "idle" =>
           /\ wire = <<>>
           /\ up => inbox = <<>> /\ held = <<>> /\ srv.stage = "ready"
    /\ pc \in {"query", "execute", "sync"} => LastZ(wire)
    /\ pc \in {"query", "execute"} => Underway
    /\ pc = "query" => Free(wire, {"s"})
    /\ pc = "execute" => Executing
    /\ pc = "sync" /\ results # <<>> => results = answer /\ (up => Final)

----------------------------------------------------------------------------
(* Where messages lead *)

LEMMA UnitMoved ==
    ASSUME NEW s, NEW P, NEW a, NEW i \in Nat, Unit(s, P, a, i), Len(s) \in Nat,
           NEW u, NEW R, NEW k \in Nat,
           u[k] = s[i], i + 1 <= Len(s) => u[k + 1] = s[i + 1], R[k] = P[i],
           \A j \in {1, 2} : i + j <= Len(s) + 1 =>
               k + j <= Len(u) + 1 /\ R[k + j] = P[i + j]
    PROVE  Unit(u, R, a, k)
  <1> DEFINE n == Width(s[i])
  <1> SUFFICES ASSUME s[i].part = "head"
               PROVE  /\ n \in {1, 2} /\ k + n <= Len(u) + 1
                      /\ n = 2 => u[k + 1].part = "body"
                      /\ s[i].type = "D" => n = 2
                      /\ Moves(s[i].type, Payload(u, k), R[k], R[k + n], a)
    BY DEF Unit
  <1>1. /\ n \in {1, 2} /\ i + n <= Len(s) + 1
        /\ n = 2 => s[i + 1].part = "body"
        /\ s[i].type = "D" => n = 2
        /\ Moves(s[i].type, Payload(s, i), P[i], P[i + n], a)
    BY DEF Unit
  <1>2. Payload(s, i) = IF n = 2 THEN s[i + 1].data ELSE 0
    BY DEF Payload
  <1>3. Payload(u, k) = IF n = 2 THEN u[k + 1].data ELSE 0
    BY DEF Payload
  <1> HIDE DEF n
  <1>4. n = 2 => u[k + 1] = s[i + 1]
    BY <1>1
  <1>5. Payload(u, k) = Payload(s, i)
    BY <1>2, <1>3, <1>4
  <1>6. k + n <= Len(u) + 1 /\ R[k + n] = P[i + n]
    BY <1>1
  <1> QED
    BY <1>1, <1>4, <1>5, <1>6

LEMMA LeadsList == ASSUME NEW s, NEW x, NEW y, NEW a, Leads(s, x, y, a)
                   PROVE  Listing(s) /\ x \in Nat \X Nat /\ Len(s) \in Nat
  <1>1. PICK P : Follows(s, P, a) /\ P[1] = x
    BY DEF Leads
  <1>2. Listing(s) /\ P \in [Nat -> Nat \X Nat]
    BY <1>1 DEF Follows
  <1> QED
    BY <1>1, <1>2, ListLen

LEMMA LeadsEmpty == ASSUME NEW x \in Nat \X Nat, NEW a PROVE Leads(<<>>, x, x, a)
  <1> DEFINE P == [i \in Nat |-> x]
  <1>1. P \in [Nat -> Nat \X Nat] /\ P[1] = x
    OBVIOUS
  <1>2. Listing(<<>>) /\ Len(<<>>) = 0
    BY FreeEmpty DEF Free
  <1>3. \A i \in 1..Len(<<>>) : FALSE
    BY <1>2
  <1>4. Follows(<<>>, P, a)
    BY <1>1, <1>2, <1>3 DEF Follows
  <1>5. P[Len(<<>>) + 1] = x
    BY <1>2
  <1> HIDE DEF P
  <1> QED
    BY <1>1, <1>4, <1>5 DEF Leads

LEMMA LeadsConcat ==
    ASSUME NEW s, NEW t, NEW x, NEW y, NEW z, NEW a, Leads(s, x, y, a), Leads(t, y, z, a)
    PROVE  Leads(s \o t, x, z, a)
  <1>1. PICK P : Follows(s, P, a) /\ P[1] = x /\ P[Len(s) + 1] = y
    BY DEF Leads
  <1>2. PICK Q : Follows(t, Q, a) /\ Q[1] = y /\ Q[Len(t) + 1] = z
    BY DEF Leads
  <1> DEFINE u == s \o t
             n == Len(s)
             m == Len(t)
             R == [i \in Nat |-> IF i <= n + 1 THEN P[i] ELSE Q[i - n]]
  <1>3. /\ Listing(s) /\ Listing(t)
        /\ P \in [Nat -> Nat \X Nat] /\ Q \in [Nat -> Nat \X Nat]
        /\ \A i \in 1..n : Unit(s, P, a, i)
        /\ \A i \in 1..m : Unit(t, Q, a, i)
    BY <1>1, <1>2 DEF Follows
  <1>4. /\ Listing(u) /\ n \in Nat /\ m \in Nat /\ Len(u) = n + m
        /\ \A i \in 1..n : u[i] = s[i]
        /\ \A i \in (n + 1)..(n + m) : u[i] = t[i - n]
    BY <1>3, ListConcat
  <1>5. \A i \in 1..m : u[n + i] = t[i]
    <2> TAKE i \in 1..m
    <2>1. n + i \in (n + 1)..(n + m) /\ (n + i) - n = i
      BY <1>4
    <2> QED
      BY <1>4, <2>1
  <1> HIDE DEF u, m
  <1>6. /\ \A i \in 1..n + 1 : R[i] = P[i]
        /\ \A i \in Nat : i >= 1 => R[n + i] = Q[i]
    <2>1. \A i \in 1..n + 1 : R[i] = P[i]
      BY <1>4
    <2>2. ASSUME NEW i \in Nat, i >= 1
          PROVE  R[n + i] = Q[i]
      <3>1. n + i \in Nat /\ (n + i) - n = i
        BY <1>4
      <3>2. CASE i = 1
        BY <1>1, <1>2, <1>4, <3>2
      <3>3. CASE i # 1
        <4>1. ~(n + i <= n + 1)
          BY <1>4, <2>2, <3>3
        <4> QED
          BY <3>1, <4>1
      <3> QED
        BY <3>2, <3>3
    <2> QED
      BY <2>1, <2>2
  <1>7. R \in [Nat -> Nat \X Nat]
    <2>1. \A i \in Nat : ~(i <= n + 1) => i - n \in Nat
      BY <1>4
    <2> QED
      BY <1>3, <2>1
  <1> HIDE DEF R, n
  <1>8. ASSUME NEW i \in 1..Len(u)
        PROVE  Unit(u, R, a, i)
    <2>1. CASE i <= n
      <3>1. i \in 1..n /\ i \in Nat /\ i \in 1..n + 1
        BY <1>4, <2>1
      <3>2. i + 1 <= n => u[i + 1] = s[i + 1]
        <4>1. i + 1 <= n => i + 1 \in 1..n
          BY <1>4, <3>1
        <4> QED
          BY <1>4, <4>1
      <3>3. \A j \in {1, 2} : i + j <= n + 1 => i + j <= Len(u) + 1 /\ R[i + j] = P[i + j]
        <4> TAKE j \in {1, 2}
        <4>1. i + j <= n + 1 => i + j \in 1..n + 1 /\ i + j <= Len(u) + 1
          BY <1>4, <3>1
        <4> QED
          BY <1>6, <4>1
      <3>4. Unit(s, P, a, i) /\ u[i] = s[i] /\ R[i] = P[i]
        BY <1>3, <1>4, <1>6, <3>1
      <3> QED
        BY <1>4, <3>1, <3>2, <3>3, <3>4, UnitMoved DEF n
    <2>2. CASE ~(i <= n)
      <3> DEFINE k == i - n
      <3>1. k \in 1..m /\ k \in Nat /\ i = n + k /\ i \in Nat /\ k >= 1
        BY <1>4, <2>2
      <3> HIDE DEF k
      <3>2. k + 1 <= m => u[i + 1] = t[k + 1]
        <4>1. k + 1 <= m => k + 1 \in 1..m /\ n + (k + 1) = i + 1
          BY <1>4, <3>1
        <4> QED
          BY <1>5, <4>1
      <3>3. \A j \in {1, 2} : k + j <= m + 1 => i + j <= Len(u) + 1 /\ R[i + j] = Q[k + j]
        <4> TAKE j \in {1, 2}
        <4>1. k + j \in Nat /\ k + j >= 1 /\ n + (k + j) = i + j
          BY <1>4, <3>1
        <4>2. k + j <= m + 1 => i + j <= Len(u) + 1
          BY <1>4, <3>1
        <4>3. R[n + (k + j)] = Q[k + j]
          BY <1>6, <4>1
        <4> QED
          BY <4>1, <4>2, <4>3
      <3>4. Unit(t, Q, a, k) /\ u[i] = t[k] /\ R[i] = Q[k]
        BY <1>3, <1>5, <1>6, <3>1
      <3> QED
        BY <1>4, <3>1, <3>2, <3>3, <3>4, UnitMoved DEF m
    <2> QED
      BY <2>1, <2>2
  <1>9. Follows(u, R, a)
    BY <1>4, <1>7, <1>8 DEF Follows
  <1>10. R[1] = x /\ R[Len(u) + 1] = z
    <2>1. 1 \in 1..n + 1 /\ m + 1 \in Nat /\ m + 1 >= 1 /\ n + (m + 1) = Len(u) + 1
      BY <1>4
    <2>2. R[1] = P[1] /\ R[n + (m + 1)] = Q[m + 1]
      BY <1>6, <2>1
    <2> QED
      BY <1>1, <1>2, <2>1, <2>2 DEF m
  <1>11. Leads(u, x, z, a)
    BY <1>9, <1>10 DEF Leads
  <1> QED
    BY <1>11 DEF u

\* A longer answer allows the same, if nothing ends the call.
LEMMA MovesGrown ==
    ASSUME NEW type, NEW data, NEW x, NEW y, NEW a, NEW b, Moves(type, data, x, y, a),
           type # "Z", Len(a) \in Nat, Len(b) \in Nat, Len(a) <= Len(b),
           \A k \in 1..Len(a) : b[k] = a[k]
    PROVE  Moves(type, data, x, y, b)
  <1> DEFINE c == x[1] + 1
  <1>1. /\ type \in Silent \cup Ends \cup {"D", "Z"}
        /\ type \in Silent => y = x
        /\ type = "D" => /\ c \in 1..Len(a) /\ x[2] + 1 \in 1..Len(a[c].rows)
                         /\ data = a[c].rows[x[2] + 1]
                         /\ y = <<x[1], x[2] + 1>>
        /\ type \in Ends => /\ c \in 1..Len(a) /\ x[2] = Len(a[c].rows)
                            /\ a[c].type = Outcome(type)
                            /\ y = <<c, 0>>
    BY DEF Moves
  <1>2. c \in 1..Len(a) => c \in 1..Len(b) /\ b[c] = a[c]
    <2> HIDE DEF c
    <2>1. c \in 1..Len(a) => c \in 1..Len(b)
      OBVIOUS
    <2> QED
      BY <2>1
  <1> QED
    BY <1>1, <1>2 DEF Moves

LEMMA LeadsGrown ==
    ASSUME NEW s, NEW x, NEW y, NEW a, NEW b, Leads(s, x, y, a), Free(s, {"Z"}),
           Len(a) \in Nat, Len(b) \in Nat, Len(a) <= Len(b),
           \A k \in 1..Len(a) : b[k] = a[k]
    PROVE  Leads(s, x, y, b)
  <1>1. PICK P : Follows(s, P, a) /\ P[1] = x /\ P[Len(s) + 1] = y
    BY DEF Leads
  <1>2. ASSUME NEW i \in 1..Len(s) PROVE Unit(s, P, b, i)
    <2> DEFINE n == Width(s[i])
    <2> SUFFICES ASSUME s[i].part = "head"
                 PROVE  /\ n \in {1, 2} /\ i + n <= Len(s) + 1
                        /\ n = 2 => s[i + 1].part = "body"
                        /\ s[i].type = "D" => n = 2
                        /\ Moves(s[i].type, Payload(s, i), P[i], P[i + n], b)
      BY DEF Unit
    <2>1. Unit(s, P, a, i)
      BY <1>1 DEF Follows
    <2>2. /\ n \in {1, 2} /\ i + n <= Len(s) + 1
          /\ n = 2 => s[i + 1].part = "body"
          /\ s[i].type = "D" => n = 2
          /\ Moves(s[i].type, Payload(s, i), P[i], P[i + n], a)
      BY <2>1 DEF Unit
    <2>3. s[i].type # "Z"
      BY DEF Free
    <2> HIDE DEF n
    <2>4. Moves(s[i].type, Payload(s, i), P[i], P[i + n], b)
      BY <2>2, <2>3, MovesGrown
    <2> QED
      BY <2>2, <2>4
  <1>3. Follows(s, P, b)
    BY <1>1, <1>2 DEF Follows
  <1> QED
    BY <1>1, <1>3 DEF Leads

LEMMA LeadsMessage ==
    ASSUME NEW type, NEW data, NEW x \in Nat \X Nat, NEW y \in Nat \X Nat, NEW a,
           Moves(type, data, x, y, a)
    PROVE  Leads(Message(type, data), x, y, a)
  <1> DEFINE h == Header(type, 1)
             b == [part |-> "body", data |-> data]
             s == <<h, b>>
             P == [i \in Nat |-> IF i = 1 THEN x ELSE y]
  <1>1. /\ h.part = "head" /\ h.type = type /\ Width(h) = 2
        /\ b.part = "body" /\ b.data = data
    BY DEF Header, Width, INT_32_OCTETS
  <1>2. s = Message(type, data)
    BY DEF Message
  <1> HIDE DEF h, b
  <1>3. s \in Seq({h, b}) /\ Len(s) = 2 /\ s[1] = h /\ s[2] = b
    OBVIOUS
  <1> HIDE DEF s
  <1>4. Listing(s)
    BY <1>3, ListOf
  <1>5. P \in [Nat -> Nat \X Nat] /\ P[1] = x /\ P[3] = y
    OBVIOUS
  <1> HIDE DEF P
  <1>6. Payload(s, 1) = data
    BY <1>1, <1>3 DEF Payload
  <1>7. Unit(s, P, a, 1)
    <2>1. 1 + 2 = 3 /\ 1 + 1 = 2 /\ 3 <= Len(s) + 1
      BY <1>3
    <2>2. s[1 + 1].part = "body"
      BY <1>1, <1>3, <2>1
    <2>3. Moves(s[1].type, Payload(s, 1), P[1], P[1 + 2], a)
      BY <1>1, <1>3, <1>5, <1>6, <2>1
    <2>4. Width(s[1]) = 2
      BY <1>1, <1>3
    <2> QED
      BY <2>1, <2>2, <2>3, <2>4 DEF Unit
  <1>8. Unit(s, P, a, 2)
    BY <1>1, <1>3 DEF Unit
  <1>9. \A i \in 1..Len(s) : i = 1 \/ i = 2
    BY <1>3
  <1>10. Follows(s, P, a)
    BY <1>4, <1>5, <1>7, <1>8, <1>9 DEF Follows
  <1>11. Leads(s, x, y, a)
    <2>1. Len(s) + 1 = 3
      BY <1>3
    <2>2. P[Len(s) + 1] = y
      BY <1>5, <2>1
    <2> QED
      BY <1>5, <1>10, <2>2 DEF Leads
  <1> QED
    BY <1>2, <1>11

LEMMA LeadsBare ==
    ASSUME NEW type, NEW x \in Nat \X Nat, NEW y \in Nat \X Nat, NEW a,
           Moves(type, 0, x, y, a), type # "D"
    PROVE  Leads(Bare(type), x, y, a)
  <1> DEFINE h == Header(type, 0)
             s == <<h>>
             P == [i \in Nat |-> IF i = 1 THEN x ELSE y]
  <1>1. h.part = "head" /\ h.type = type /\ Width(h) = 1
    BY DEF Header, Width, INT_32_OCTETS
  <1>2. s = Bare(type)
    BY DEF Bare
  <1> HIDE DEF h
  <1>3. s \in Seq({h}) /\ Len(s) = 1 /\ s[1] = h
    OBVIOUS
  <1> HIDE DEF s
  <1>4. Listing(s)
    BY <1>3, ListOf
  <1>5. P \in [Nat -> Nat \X Nat] /\ P[1] = x /\ P[2] = y
    OBVIOUS
  <1> HIDE DEF P
  <1>6. Payload(s, 1) = 0
    BY <1>1, <1>3 DEF Payload
  <1>7. Unit(s, P, a, 1)
    <2>1. 1 + 1 = 2 /\ 2 <= Len(s) + 1
      BY <1>3
    <2>2. Moves(s[1].type, Payload(s, 1), P[1], P[1 + 1], a)
      BY <1>1, <1>3, <1>5, <1>6, <2>1
    <2>3. Width(s[1]) = 1 /\ s[1].type # "D"
      BY <1>1, <1>3
    <2> QED
      BY <2>1, <2>2, <2>3 DEF Unit
  <1>8. \A i \in 1..Len(s) : i = 1
    BY <1>3
  <1>9. Follows(s, P, a)
    BY <1>4, <1>5, <1>7, <1>8 DEF Follows
  <1>10. Leads(s, x, y, a)
    <2>1. Len(s) + 1 = 2
      BY <1>3
    <2>2. P[Len(s) + 1] = y
      BY <1>5, <2>1
    <2> QED
      BY <1>5, <1>9, <2>2 DEF Leads
  <1> QED
    BY <1>2, <1>10

LEMMA LeadsRows ==
    ASSUME NEW rows, Len(rows) \in Nat, NEW a, NEW c \in 1..Len(a), Len(a) \in Nat,
           a[c].rows = rows
    PROVE  Leads(DataRows(rows), <<c - 1, 0>>, <<c - 1, Len(rows)>>, a)
  <1> DEFINE n == 2 * Len(rows)
             unit(u) == Message("D", rows[(u + 1) \div 2])[2 - (u % 2)]
             s == [u \in 1..n |-> unit(u)]
             P == [i \in Nat |-> <<c - 1, i \div 2>>]
  <1>1. n \in Nat
    OBVIOUS
  <1>2. P \in [Nat -> Nat \X Nat] /\ P[1] = <<c - 1, 0>> /\ P[n + 1] = <<c - 1, Len(rows)>>
    <2>1. c - 1 \in Nat /\ (\A i \in Nat : i \div 2 \in Nat) /\ (n + 1) \div 2 = Len(rows)
          /\ 1 \div 2 = 0 /\ n + 1 \in Nat
      OBVIOUS
    <2> QED
      BY <2>1
  <1>3. ASSUME NEW u \in 1..n, u % 2 = 0
        PROVE  unit(u).part = "body" /\ unit(u).data = rows[(u + 1) \div 2]
    <2>1. 2 - (u % 2) = 2
      BY <1>3
    <2> QED
      BY <2>1 DEF Message
  <1>4. ASSUME NEW u \in 1..n, u % 2 # 0
        PROVE  unit(u) = Header("D", 1)
    <2>1. 2 - (u % 2) = 1
      BY <1>1, <1>4
    <2> QED
      BY <2>1 DEF Message
  <1>5. s = DataRows(rows)
    BY DEF DataRows
  <1> HIDE DEF unit
  <1>6. s \in Seq({unit(u) : u \in 1..n}) /\ Len(s) = n /\ \A u \in 1..n : s[u] = unit(u)
    BY <1>1
  <1> HIDE DEF s
  <1>7. Listing(s)
    BY <1>6, ListOf
  <1>8. ASSUME NEW i \in 1..Len(s) PROVE Unit(s, P, a, i)
    <2>1. i \in 1..n /\ s[i] = unit(i)
      BY <1>6
    <2>2. CASE i % 2 = 0
      BY <1>3, <2>1, <2>2 DEF Unit
    <2>3. CASE i % 2 # 0
      <3> DEFINE k == (i + 1) \div 2
      <3>1. /\ k \in 1..Len(rows) /\ i + 2 <= n + 1 /\ i + 1 \in 1..n /\ (i + 1) % 2 = 0
            /\ ((i + 1) + 1) \div 2 = k /\ i \div 2 = k - 1 /\ (i + 2) \div 2 = k
            /\ i \in Nat /\ i + 2 \in Nat /\ (k - 1) + 1 = k /\ (c - 1) + 1 = c
        BY <2>1, <2>3
      <3> HIDE DEF k
      <3>2. s[i + 1].part = "body" /\ s[i + 1].data = rows[k]
        <4>1. s[i + 1] = unit(i + 1)
          BY <1>6, <3>1
        <4> QED
          BY <1>3, <3>1, <4>1
      <3>3. P[i] = <<c - 1, k - 1>> /\ P[i + 2] = <<c - 1, k>>
        BY <3>1
      <3>4. s[i] = Header("D", 1)
        BY <1>4, <2>1, <2>3
      <3>5. /\ s[i].part = "head" /\ s[i].type = "D" /\ Width(s[i]) = 2
        BY <3>4 DEF Header, Width, INT_32_OCTETS
      <3>6. Payload(s, i) = rows[k]
        BY <3>2, <3>5 DEF Payload
      <3>7. Moves("D", rows[k], <<c - 1, k - 1>>, <<c - 1, k>>, a)
        <4>1. "D" \notin Silent /\ "D" \notin Ends /\ "D" # "Z"
          BY DEF Silent, Ends
        <4> QED
          BY <3>1, <4>1 DEF Moves
      <3>8. i + 2 <= Len(s) + 1
        BY <1>6, <3>1
      <3> HIDE DEF P
      <3> QED
        BY <3>2, <3>3, <3>5, <3>6, <3>7, <3>8 DEF Unit
    <2> QED
      BY <2>2, <2>3
  <1> HIDE DEF P, n
  <1>9. Follows(s, P, a)
    BY <1>2, <1>7, <1>8 DEF Follows
  <1>10. Leads(s, <<c - 1, 0>>, <<c - 1, Len(rows)>>, a)
    BY <1>2, <1>6, <1>9 DEF Leads
  <1> QED
    BY <1>5, <1>10

LEMMA SameList ==
    ASSUME NEW s, NEW t, Listing(s), Listing(t), Len(s) = Len(t),
           \A i \in 1..Len(s) : s[i] = t[i]
    PROVE  s = t
  <1>1. DOMAIN s = 1..Len(s) /\ DOMAIN t = 1..Len(t)
    BY ListLen
  <1>2. s = [i \in 1..Len(s) |-> s[i]] /\ t = [i \in 1..Len(t) |-> t[i]]
    BY DEF Listing
  <1> QED
    BY <1>2

\* The message at the front, and where the rest leads.
LEMMA LeadsNext ==
    ASSUME NEW v, NEW x, NEW y, NEW a, Leads(v, x, y, a), v # <<>>, v[1].part = "head",
           NEW n, n = Width(v[1])
    PROVE  /\ n \in {1, 2} /\ n <= Len(v) /\ Len(v) \in Nat
           /\ n = 2 => v[2].part = "body"
           /\ v[1].type = "D" => n = 2
           /\ \E z \in Nat \X Nat : /\ Moves(v[1].type, Payload(v, 1), x, z, a)
                                    /\ Leads(SubSeq(v, n + 1, Len(v)), z, y, a)
  <1>1. PICK P : Follows(v, P, a) /\ P[1] = x /\ P[Len(v) + 1] = y
    BY DEF Leads
  <1>2. Listing(v) /\ P \in [Nat -> Nat \X Nat] /\ \A i \in 1..Len(v) : Unit(v, P, a, i)
    BY <1>1 DEF Follows
  <1>3. Len(v) \in Nat /\ Len(v) >= 1 /\ 1 \in 1..Len(v)
    BY <1>2, ListLen
  <1>4. /\ n \in {1, 2} /\ 1 + n <= Len(v) + 1
        /\ n = 2 => v[1 + 1].part = "body"
        /\ v[1].type = "D" => n = 2
        /\ Moves(v[1].type, Payload(v, 1), P[1], P[1 + n], a)
    <2>1. Unit(v, P, a, 1)
      BY <1>2, <1>3
    <2> QED
      BY <2>1 DEF Unit
  <1> DEFINE t == SubSeq(v, n + 1, Len(v))
             Q == [k \in Nat |-> P[n + k]]
  <1>5. /\ Listing(t) /\ Len(t) = Len(v) - n
        /\ \A k \in 1..Len(t) : n + k \in 1..Len(v) /\ t[k] = v[n + k]
    <2> DEFINE j == n + 1
               l == Len(v)
    <2>1. j \in 1..(Len(v) + 1) /\ l \in 0..Len(v) /\ j <= l + 1 /\ l - j + 1 = Len(v) - n
      BY <1>3, <1>4
    <2>2. \A k \in 1..(Len(v) - n) : k + j - 1 = n + k
      BY <1>3, <1>4
    <2> HIDE DEF j, l
    <2>3. /\ Listing(SubSeq(v, j, l)) /\ Len(SubSeq(v, j, l)) = l - j + 1
          /\ \A k \in 1..(l - j + 1) : k + j - 1 \in 1..Len(v) /\ SubSeq(v, j, l)[k] = v[k + j - 1]
      BY <1>2, <2>1, ListPart
    <2>4. t = SubSeq(v, j, l)
      BY DEF j, l
    <2> HIDE DEF t
    <2> QED
      BY <2>1, <2>2, <2>3, <2>4
  <1>6. Q \in [Nat -> Nat \X Nat] /\ \A k \in Nat : Q[k] = P[n + k]
    <2>1. \A k \in Nat : n + k \in Nat
      BY <1>4
    <2> QED
      BY <1>2, <2>1
  <1> HIDE DEF t, Q
  <1>7. ASSUME NEW k \in 1..Len(t) PROVE Unit(t, Q, a, k)
    <2>1. /\ n + k \in 1..Len(v) /\ t[k] = v[n + k] /\ n + k \in Nat /\ k \in Nat
      BY <1>3, <1>4, <1>5
    <2>2. Unit(v, P, a, n + k) /\ Q[k] = P[n + k]
      BY <1>2, <1>6, <2>1
    <2>3. (n + k) + 1 <= Len(v) => t[k + 1] = v[(n + k) + 1]
      <3>1. (n + k) + 1 <= Len(v) => k + 1 \in 1..Len(t) /\ n + (k + 1) = (n + k) + 1
        BY <1>3, <1>4, <1>5, <2>1
      <3> QED
        BY <1>5, <3>1
    <2>4. \A j \in {1, 2} : (n + k) + j <= Len(v) + 1 =>
              k + j <= Len(t) + 1 /\ Q[k + j] = P[(n + k) + j]
      <3> TAKE j \in {1, 2}
      <3>0. n \in Nat /\ j \in Nat /\ k \in Nat /\ Len(v) \in Nat /\ Len(t) = Len(v) - n
        BY <1>3, <1>4, <1>5, <2>1
      <3>1. k + j \in Nat /\ n + (k + j) = (n + k) + j
        BY <3>0
      <3>2. (n + k) + j <= Len(v) + 1 => k + j <= Len(t) + 1
        <4>1. \A b, c, d, l \in Nat : (b + c) + d <= l + 1 => c + d <= (l - b) + 1
          OBVIOUS
        <4>2. (n + k) + j <= Len(v) + 1 => k + j <= (Len(v) - n) + 1
          BY <3>0, <4>1
        <4> QED
          BY <3>0, <4>2
      <3>3. Q[k + j] = P[n + (k + j)]
        BY <1>6, <3>1
      <3> QED
        BY <3>1, <3>2, <3>3
    <2> QED
      BY <1>3, <2>1, <2>2, <2>3, <2>4, UnitMoved
  <1>8. Follows(t, Q, a)
    BY <1>5, <1>6, <1>7 DEF Follows
  <1>9. Q[1] = P[1 + n] /\ Q[Len(t) + 1] = y /\ P[1 + n] \in Nat \X Nat
    <2>1. Len(t) + 1 \in Nat /\ n + (Len(t) + 1) = Len(v) + 1 /\ n + 1 = 1 + n /\ 1 + n \in Nat
      BY <1>3, <1>4, <1>5
    <2>2. Q[1] = P[n + 1] /\ Q[Len(t) + 1] = P[n + (Len(t) + 1)]
      BY <1>6, <2>1
    <2> QED
      BY <1>1, <1>2, <2>1, <2>2
  <1>10. Leads(t, P[1 + n], y, a)
    BY <1>8, <1>9 DEF Leads
  <1>11. /\ Moves(v[1].type, Payload(v, 1), x, P[1 + n], a)
         /\ n \in {1, 2} /\ n <= Len(v) /\ 1 + 1 = 2
    BY <1>1, <1>3, <1>4
  <1> QED
    BY <1>3, <1>4, <1>9, <1>10, <1>11 DEF t

\* Of a message that takes the client no further its header may be read alone.
LEMMA LeadsHeader ==
    ASSUME NEW v, NEW x, NEW y, NEW a, Leads(v, x, y, a), v # <<>>, v[1].part = "head",
           Width(v[1]) = 1 => v[1].type \in Silent \cup {"D", "Z"}
    PROVE  Leads(Tail(v), x, y, a)
  <1> DEFINE n == Width(v[1])
  <1>1. /\ n \in {1, 2} /\ n <= Len(v) /\ Len(v) \in Nat
        /\ n = 2 => v[2].part = "body"
        /\ v[1].type = "D" => n = 2
        /\ \E z \in Nat \X Nat : /\ Moves(v[1].type, Payload(v, 1), x, z, a)
                                 /\ Leads(SubSeq(v, n + 1, Len(v)), z, y, a)
    BY LeadsNext
  <1>2. PICK P : Follows(v, P, a) /\ P[1] = x /\ P[Len(v) + 1] = y
    BY DEF Leads
  <1>3. Listing(v) /\ P \in [Nat -> Nat \X Nat] /\ \A i \in 1..Len(v) : Unit(v, P, a, i)
    BY <1>2 DEF Follows
  <1>4. /\ Tail(v) = SubSeq(v, 2, Len(v)) /\ Len(Tail(v)) = Len(v) - 1 /\ Listing(Tail(v))
        /\ \A i \in 1..(Len(v) - 1) : i + 1 \in 1..Len(v) /\ Tail(v)[i] = v[i + 1]
    BY <1>3, ListTail
  <1>5. CASE n = 1
    <2>1. PICK z \in Nat \X Nat : /\ Moves(v[1].type, Payload(v, 1), x, z, a)
                                  /\ Leads(SubSeq(v, n + 1, Len(v)), z, y, a)
      BY <1>1
    <2>2. v[1].type \in Silent \cup {"Z"}
      BY <1>1, <1>5
    <2>3. z = x
      BY <2>1, <2>2 DEF Moves
    <2>4. n + 1 = 2
      BY <1>5
    <2> QED
      BY <1>4, <2>1, <2>3, <2>4
  <1>6. CASE n = 2
    <2> DEFINE t == Tail(v)
               Q == [k \in Nat |-> IF k = 1 THEN x ELSE P[k + 1]]
    <2>1. x \in Nat \X Nat
      BY <1>2, <1>3
    <2>2. Q \in [Nat -> Nat \X Nat] /\ Q[1] = x /\ \A k \in Nat : k # 1 => Q[k] = P[k + 1]
      <3>1. \A k \in Nat : k + 1 \in Nat
        OBVIOUS
      <3> QED
        BY <1>3, <2>1, <3>1
    <2> HIDE DEF t, Q, n
    <2>3. ASSUME NEW k \in 1..Len(t) PROVE Unit(t, Q, a, k)
      <3>1. k \in 1..(Len(v) - 1)
        BY <1>4 DEF t
      <3>2. k + 1 \in 1..Len(v) /\ t[k] = v[k + 1] /\ k \in Nat /\ k + 1 \in Nat
        BY <1>1, <1>4, <3>1 DEF t
      <3>3. CASE k = 1
        <4>1. t[k].part = "body"
          <5>1. k + 1 = 2
            BY <3>3
          <5> QED
            BY <1>1, <1>6, <3>2, <5>1
        <4> QED
          BY <4>1 DEF Unit
      <3>4. CASE k # 1
        <4>1. Unit(v, P, a, k + 1) /\ Q[k] = P[k + 1]
          BY <1>3, <2>2, <3>2, <3>4
        <4>2. (k + 1) + 1 <= Len(v) => t[k + 1] = v[(k + 1) + 1]
          <5>1. (k + 1) + 1 <= Len(v) => k + 1 \in 1..(Len(v) - 1)
            BY <1>1, <3>1
          <5> QED
            BY <1>4, <5>1 DEF t
        <4>3. \A j \in {1, 2} : (k + 1) + j <= Len(v) + 1 =>
                  k + j <= Len(t) + 1 /\ Q[k + j] = P[(k + 1) + j]
          <5> TAKE j \in {1, 2}
          <5>1. k + j \in Nat /\ k + j # 1 /\ (k + j) + 1 = (k + 1) + j
            BY <3>1
          <5>2. Len(t) = Len(v) - 1
            BY <1>4 DEF t
          <5>3. (k + 1) + j <= Len(v) + 1 => k + j <= Len(t) + 1
            BY <1>1, <3>1, <5>2
          <5>4. Q[k + j] = P[(k + j) + 1]
            BY <2>2, <5>1
          <5> QED
            BY <5>1, <5>3, <5>4
        <4> QED
          BY <1>1, <3>2, <4>1, <4>2, <4>3, UnitMoved
      <3> QED
        BY <3>3, <3>4
    <2>4. Listing(t) /\ Len(t) = Len(v) - 1
      BY <1>4 DEF t
    <2>5. Follows(t, Q, a)
      BY <2>2, <2>3, <2>4 DEF Follows
    <2>6. Q[Len(t) + 1] = y
      <3>1. Len(t) + 1 \in Nat /\ Len(t) + 1 # 1 /\ (Len(t) + 1) + 1 = Len(v) + 1
        BY <1>1, <1>6, <2>4
      <3> QED
        BY <1>2, <2>2, <3>1
    <2>7. Leads(t, x, y, a)
      BY <2>2, <2>5, <2>6 DEF Leads
    <2> QED
      BY <2>7 DEF t
  <1> QED
    BY <1>1, <1>5, <1>6

\* Taking units from the front leaves what comes after them.
LEMMA PartConcat ==
    ASSUME NEW s, NEW t, Listing(s), Listing(t), NEW j \in 1..(Len(s) + 1)
    PROVE  SubSeq(s \o t, j, Len(s \o t)) = SubSeq(s, j, Len(s)) \o t
  <1> DEFINE v == s \o t
             n == Len(s)
             m == Len(t)
             l == n + m
             p == SubSeq(s, j, n)
             e == SubSeq(v, j, l)
             w == p \o t
  <1>1. /\ Listing(v) /\ n \in Nat /\ m \in Nat /\ Len(v) = l
        /\ \A i \in 1..n : v[i] = s[i]
        /\ \A i \in (n + 1)..l : v[i] = t[i - n]
    BY ListConcat
  <1> HIDE DEF v
  <1>2. j \in 1..(n + 1) /\ j \in 1..(Len(v) + 1) /\ l \in 0..Len(v) /\ j <= l + 1
        /\ n \in 0..Len(s) /\ j <= n + 1
    BY <1>1
  <1>3. /\ Listing(p) /\ Len(p) = n - j + 1
        /\ \A i \in 1..(n - j + 1) : i + j - 1 \in 1..n /\ p[i] = s[i + j - 1]
    BY <1>1, <1>2, ListPart
  <1>4. /\ Listing(e) /\ Len(e) = l - j + 1
        /\ \A i \in 1..(l - j + 1) : i + j - 1 \in 1..Len(v) /\ e[i] = v[i + j - 1]
    <2> HIDE DEF l
    <2> QED
      BY <1>1, <1>2, ListPart
  <1> HIDE DEF p, e
  <1>5. /\ Listing(w) /\ Len(w) = Len(p) + m
        /\ \A i \in 1..Len(p) : w[i] = p[i]
        /\ \A i \in (Len(p) + 1)..(Len(p) + m) : w[i] = t[i - Len(p)]
    BY <1>3, ListConcat
  <1> HIDE DEF w, n, m
  <1>6. Len(e) = Len(w)
    BY <1>1, <1>2, <1>3, <1>4, <1>5
  <1>7. ASSUME NEW i \in 1..Len(e) PROVE e[i] = w[i]
    <2>1. i \in 1..(l - j + 1) /\ e[i] = v[i + j - 1]
      BY <1>4
    <2>2. CASE i <= Len(p)
      <3>1. i \in 1..Len(p) /\ i \in 1..(n - j + 1) /\ i + j - 1 \in 1..n
        BY <1>1, <1>2, <1>3, <2>1, <2>2
      <3>2. w[i] = p[i] /\ p[i] = s[i + j - 1] /\ v[i + j - 1] = s[i + j - 1]
        BY <1>1, <1>3, <1>5, <3>1
      <3> QED
        BY <2>1, <3>2
    <2>3. CASE ~(i <= Len(p))
      <3>1. /\ i \in (Len(p) + 1)..(Len(p) + m) /\ i + j - 1 \in (n + 1)..l
            /\ (i + j - 1) - n = i - Len(p)
        BY <1>1, <1>2, <1>3, <2>1, <2>3
      <3>2. w[i] = t[i - Len(p)] /\ v[i + j - 1] = t[(i + j - 1) - n]
        BY <1>1, <1>5, <3>1
      <3> QED
        BY <2>1, <3>1, <3>2
    <2> QED
      BY <2>2, <2>3
  <1>8. e = w
    BY <1>4, <1>5, <1>6, <1>7, SameList
  <1>9. SubSeq(v, j, Len(v)) = e
    BY <1>1 DEF e
  <1> QED
    BY <1>8, <1>9 DEF v, w, p, n

\* Whichever way round two concatenations are made.
Regroups(a, b, c) == (a \o b) \o c = a \o (b \o c)

LEMMA ListAssoc ==
    ASSUME NEW a, NEW b, NEW c, Listing(a), Listing(b), Listing(c)
    PROVE  Regroups(a, b, c)
  <1> DEFINE S == ({a[k] : k \in DOMAIN a} \cup {b[k] : k \in DOMAIN b})
                      \cup {c[k] : k \in DOMAIN c}
  <1>1. a \in Seq(S) /\ b \in Seq(S) /\ c \in Seq(S)
    BY DEF Listing
  <1> HIDE DEF S
  <1> QED
    BY <1>1 DEF Regroups

LEMMA ListSplit ==
    ASSUME NEW s, Listing(s), NEW n \in 0..Len(s)
    PROVE  SubSeq(s, 1, n) \o SubSeq(s, n + 1, Len(s)) = s
  <1> DEFINE l == Len(s)
             j == n + 1
             p == SubSeq(s, 1, n)
             q == SubSeq(s, j, l)
             w == p \o q
  <1>1. l \in Nat /\ 1 \in 1..(Len(s) + 1) /\ 1 <= n + 1 /\ n - 1 + 1 = n
        /\ j \in 1..(Len(s) + 1) /\ l \in 0..Len(s) /\ j <= l + 1 /\ l - j + 1 = l - n
    BY ListLen
  <1>2. Listing(p) /\ Len(p) = n /\ \A i \in 1..n : i + 1 - 1 \in 1..Len(s) /\ p[i] = s[i + 1 - 1]
    <2>1. /\ Listing(p) /\ Len(p) = n - 1 + 1
          /\ \A i \in 1..(n - 1 + 1) : i + 1 - 1 \in 1..Len(s) /\ p[i] = s[i + 1 - 1]
      BY <1>1, ListPart
    <2> QED
      BY <1>1, <2>1
  <1> HIDE DEF j
  <1>3. /\ Listing(q) /\ Len(q) = l - n
        /\ \A i \in 1..(l - n) : i + j - 1 \in 1..Len(s) /\ q[i] = s[i + j - 1]
    <2> HIDE DEF l
    <2>1. /\ Listing(q) /\ Len(q) = l - j + 1
          /\ \A i \in 1..(l - j + 1) : i + j - 1 \in 1..Len(s) /\ q[i] = s[i + j - 1]
      BY <1>1, ListPart
    <2> QED
      BY <1>1, <2>1
  <1> HIDE DEF p, q
  <1>4. /\ Listing(w) /\ Len(w) = Len(p) + Len(q)
        /\ \A i \in 1..Len(p) : w[i] = p[i]
        /\ \A i \in (Len(p) + 1)..(Len(p) + Len(q)) : w[i] = q[i - Len(p)]
    BY <1>2, <1>3, ListConcat
  <1> HIDE DEF w
  <1>5. Len(w) = Len(s)
    BY <1>1, <1>2, <1>3, <1>4
  <1>6. ASSUME NEW i \in 1..Len(w) PROVE w[i] = s[i]
    <2>1. CASE i <= n
      <3>1. i \in 1..n /\ i + 1 - 1 = i
        BY <1>1, <1>5, <2>1
      <3> QED
        BY <1>2, <1>4, <3>1
    <2>2. CASE ~(i <= n)
      <3>1. /\ i \in (Len(p) + 1)..(Len(p) + Len(q)) /\ i - n \in 1..(l - n)
            /\ (i - n) + j - 1 = i
        BY <1>1, <1>2, <1>3, <1>5, <2>2 DEF j
      <3>2. w[i] = q[i - n] /\ q[i - n] = s[(i - n) + j - 1]
        BY <1>2, <1>3, <1>4, <3>1
      <3> QED
        BY <3>1, <3>2
    <2> QED
      BY <2>1, <2>2
  <1>7. w = s
    BY <1>4, <1>5, <1>6, SameList
  <1> QED
    BY <1>7 DEF w, p, q, j

----------------------------------------------------------------------------
(* Reading what remains *)

LEMMA FrontOfRest ==
    ASSUME NEW x, LastZ(wire), wire # <<>>, Head(wire).part = "head",
           NEW rest, Listing(rest), NEW y, Leads(wire \o rest, x, y, answer)
    PROVE  LET v == wire \o rest
           IN  /\ v # <<>> /\ v[1] = Head(wire) /\ Head(wire) = wire[1]
               /\ Len(wire) \in Nat \ {0} /\ Listing(wire)
               /\ m_size \in {0, 1} /\ Width(v[1]) = m_size + 1
               /\ \A i \in 1..Len(wire) : v[i] = wire[i]
               /\ Head(wire).type \in Silent \cup Ends \cup {"D", "Z"}
  <1> DEFINE v == wire \o rest
  <1>1. Listing(wire)
    BY DEF LastZ
  <1>2. Len(wire) \in Nat \ {0} /\ Head(wire) = wire[1] /\ 1 \in 1..Len(wire)
    BY <1>1, ListTail
  <1>3. Listing(v) /\ Len(v) = Len(wire) + Len(rest) /\ Len(rest) \in Nat
        /\ \A i \in 1..Len(wire) : v[i] = wire[i]
    BY <1>1, ListConcat
  <1> HIDE DEF v
  <1>4. v # <<>>
    <2>1. Len(<<>>) = 0
      OBVIOUS
    <2> QED
      BY <1>2, <1>3, <2>1
  <1>5. Head(wire).length \in Lengths
    BY <1>2 DEF LastZ
  <1>6. m_size \in {0, 1} /\ Width(Head(wire)) = m_size + 1
    BY <1>5 DEF m_size, Lengths, Width, INT_32_OCTETS
  <1>7. v[1] = Head(wire)
    BY <1>2, <1>3
  <1>8. PICK z \in Nat \X Nat : Moves(v[1].type, Payload(v, 1), x, z, answer)
    BY <1>4, <1>7, LeadsNext DEF v
  <1> QED
    BY <1>1, <1>2, <1>3, <1>4, <1>6, <1>7, <1>8 DEF v, Moves

\* A whole message is read.
LEMMA SkipRead ==
    ASSUME NEW x, Remaining(wire, x), LastZ(wire), wire # <<>>, Head(wire).part = "head", Skip
    PROVE  \E data, z : /\ z \in Nat \X Nat
                        /\ Moves(Head(wire).type, data, x, z, answer)
                        /\ Head(wire).type = "D" => data = wire[2].data
                        /\ Remaining(wire', z)
  <1>1. PICK rest : /\ Listing(rest) /\ (up => rest = held)
                    /\ Leads(wire \o rest, x, <<Len(answer), 0>>, answer)
    BY DEF Remaining
  <1> DEFINE v == wire \o rest
             n == Width(v[1])
             y == <<Len(answer), 0>>
  <1>2. /\ v # <<>> /\ v[1] = Head(wire) /\ Head(wire) = wire[1]
        /\ Len(wire) \in Nat \ {0} /\ Listing(wire)
        /\ m_size \in {0, 1} /\ n = m_size + 1
        /\ \A i \in 1..Len(wire) : v[i] = wire[i]
    BY <1>1, FrontOfRest
  <1>3. Leads(v, x, y, answer) /\ v[1].part = "head"
    BY <1>1, <1>2
  <1> HIDE DEF v, y
  <1>4. /\ v[1].type = "D" => n = 2
        /\ \E z \in Nat \X Nat : /\ Moves(v[1].type, Payload(v, 1), x, z, answer)
                                 /\ Leads(SubSeq(v, n + 1, Len(v)), z, y, answer)
    BY <1>2, <1>3, LeadsNext
  <1>5. PICK z \in Nat \X Nat : /\ Moves(v[1].type, Payload(v, 1), x, z, answer)
                                /\ Leads(SubSeq(v, n + 1, Len(v)), z, y, answer)
    BY <1>4
  <1>6. Len(wire) > m_size /\ wire' = SubSeq(wire, 2 + m_size, Len(wire))
    BY DEF Skip, Whole
  <1>7. SubSeq(v, n + 1, Len(v)) = wire' \o rest
    <2>1. n + 1 = 2 + m_size /\ n + 1 \in 1..(Len(wire) + 1)
      BY <1>2, <1>6
    <2> DEFINE j == n + 1
    <2>2. SubSeq(wire \o rest, j, Len(wire \o rest)) = SubSeq(wire, j, Len(wire)) \o rest
      <3> HIDE DEF j
      <3>1. j \in 1..(Len(wire) + 1)
        BY <2>1 DEF j
      <3> QED
        BY <1>1, <1>2, <3>1, PartConcat
    <2> QED
      BY <1>6, <2>1, <2>2 DEF v
  <1>8. Head(wire).type = "D" => Payload(v, 1) = wire[2].data
    <2> SUFFICES ASSUME Head(wire).type = "D" PROVE Payload(v, 1) = wire[2].data
      OBVIOUS
    <2>1. n = 2
      BY <1>2, <1>4
    <2>2. m_size = 1
      BY <1>2, <2>1
    <2>3. 2 \in 1..Len(wire) /\ 1 + 1 = 2
      BY <1>2, <1>6, <2>2
    <2>4. v[2] = wire[2]
      BY <1>2, <2>3
    <2> QED
      BY <2>1, <2>3, <2>4 DEF Payload
  <1>9. Remaining(wire', z)
    BY <1>1, <1>5, <1>7 DEF Remaining, y
  <1> QED
    BY <1>2, <1>5, <1>8, <1>9

\* Only the header is read, of a message that ends no result.
LEMMA HeaderSame ==
    ASSUME NEW x, Remaining(wire, x), LastZ(wire), wire # <<>>, Head(wire).part = "head",
           HeaderRead, Head(wire).type \notin Ends
    PROVE  Remaining(wire', x)
  <1>1. PICK rest : /\ Listing(rest) /\ (up => rest = held)
                    /\ Leads(wire \o rest, x, <<Len(answer), 0>>, answer)
    BY DEF Remaining
  <1> DEFINE v == wire \o rest
             y == <<Len(answer), 0>>
  <1>2. /\ v # <<>> /\ v[1] = Head(wire) /\ Head(wire) = wire[1]
        /\ Len(wire) \in Nat \ {0} /\ Listing(wire)
        /\ Head(wire).type \in Silent \cup Ends \cup {"D", "Z"}
    BY <1>1, FrontOfRest
  <1>3. Leads(v, x, y, answer) /\ v[1].part = "head"
    BY <1>1, <1>2
  <1>4. Leads(Tail(v), x, y, answer)
    <2> HIDE DEF v, y
    <2> QED
      BY <1>2, <1>3, LeadsHeader
  <1>5. Tail(v) = wire' \o rest
    <2>1. 2 \in 1..(Len(wire) + 1)
      BY <1>2
    <2>2. SubSeq(wire \o rest, 2, Len(wire \o rest)) = SubSeq(wire, 2, Len(wire)) \o rest
      BY <1>1, <1>2, <2>1, PartConcat
    <2>3. Tail(wire) = SubSeq(wire, 2, Len(wire)) /\ wire' = Tail(wire)
      BY <1>2, ListTail DEF HeaderRead
    <2>4. Listing(v)
      BY <1>1, <1>2, ListConcat
    <2> HIDE DEF v
    <2>5. Tail(v) = SubSeq(v, 2, Len(v))
      BY <1>2, <2>4, ListTail
    <2> QED
      BY <2>2, <2>3, <2>5 DEF v
  <1> QED
    BY <1>1, <1>4, <1>5 DEF Remaining

\* The server goes on with its answer.
LEMMA Arrives ==
    ASSUME NEW x, Remaining(wire, x), up, up' = up, Free(wire, {"Z"}), Free(held, {"Z"}),
           NEW units, Listing(units), Hold(units) \/ Deliver(units),
           Leads(units, <<Len(answer), 0>>, <<Len(answer'), 0>>, answer'),
           Len(answer) \in Nat, Len(answer') \in Nat, Len(answer) <= Len(answer'),
           \A k \in 1..Len(answer) : answer'[k] = answer[k]
    PROVE  Remaining(wire, x)'
  <1> PICK y, z, a, b : /\ y = <<Len(answer), 0>> /\ z = <<Len(answer'), 0>>
                        /\ a = answer /\ b = answer'
    OBVIOUS
  <1>1. Leads(wire \o held, x, y, a)
    BY DEF Remaining
  <1>2. Listing(wire) /\ Listing(held)
    BY DEF Free
  <1>3. Free(wire \o held, {"Z"})
    BY FreeConcat
  <1>4. Leads(wire \o held, x, y, b)
    BY <1>1, <1>3, LeadsGrown
  <1>5. Leads((wire \o held) \o units, x, z, b)
    BY <1>4, LeadsConcat
  <1>6. CASE Hold(units)
    <2>1. held' = held \o units /\ wire' = wire
      BY <1>6 DEF Hold
    <2>2. Listing(held \o units)
      BY <1>2, ListConcat
    <2>3. (wire \o held) \o units = wire \o (held \o units)
      <3>1. Regroups(wire, held, units)
        BY <1>2, ListAssoc
      <3> QED
        BY <3>1 DEF Regroups
    <2> QED
      BY <1>5, <2>1, <2>2, <2>3 DEF Remaining
  <1>7. CASE Deliver(units)
    <2>1. held' = <<>> /\ wire' = (wire \o held) \o units
      BY <1>7 DEF Deliver
    <2>2. Listing(<<>>)
      BY FreeEmpty DEF Free
    <2>3. Listing((wire \o held) \o units)
      <3>1. Listing(wire \o held)
        BY <1>2, ListConcat
      <3> QED
        BY <3>1, ListConcat
    <2>4. wire' \o <<>> = (wire \o held) \o units
      BY <2>1, <2>3, ConcatEmpty
    <2> QED
      BY <1>5, <2>1, <2>2, <2>4 DEF Remaining
  <1> QED
    BY <1>6, <1>7

\* What was on its way when the connection broke still leads there.
LEMMA RemainingLost ==
    ASSUME NEW x, Remaining(wire, x), Listing(wire), Lose
    PROVE  Remaining(wire, x)'
  <1>1. PICK rest : Listing(rest) /\ Leads(wire \o rest, x, <<Len(answer), 0>>, answer)
    BY DEF Remaining
  <1>2. PICK n \in 0..Len(wire) : wire' = SubSeq(wire, 1, n)
    BY DEF Lose
  <1> DEFINE p == SubSeq(wire, 1, n)
             q == SubSeq(wire, n + 1, Len(wire))
  <1>3. Len(wire) \in Nat
    BY ListLen
  <1>4. Listing(p)
    <2>1. 1 \in 1..(Len(wire) + 1) /\ 1 <= n + 1
      BY <1>3
    <2> QED
      BY <2>1, ListPart
  <1>5. Listing(q)
    <2> DEFINE j == n + 1
               l == Len(wire)
    <2>1. j \in 1..(Len(wire) + 1) /\ l \in 0..Len(wire) /\ j <= l + 1
      BY <1>3
    <2> HIDE DEF j, l
    <2>2. Listing(SubSeq(wire, j, l))
      BY <2>1, ListPart
    <2> QED
      BY <2>2 DEF j, l
  <1>6. p \o q = wire
    <2>1. Listing(wire) /\ n \in 0..Len(wire)
      OBVIOUS
    <2> QED
      BY <2>1, ListSplit, Zenon
  <1> HIDE DEF p, q
  <1>7. Listing(q \o rest) /\ p \o (q \o rest) = wire \o rest
    <2>1. (p \o q) \o rest = p \o (q \o rest)
      <3>1. Regroups(p, q, rest)
        BY <1>1, <1>4, <1>5, ListAssoc
      <3> QED
        BY <3>1 DEF Regroups
    <2>2. Listing(q \o rest)
      BY <1>1, <1>5, ListConcat
    <2> QED
      BY <1>6, <2>1, <2>2
  <1>8. ~up' /\ answer' = answer /\ wire' = p
    BY <1>2 DEF Lose, p
  <1> QED
    BY <1>1, <1>7, <1>8 DEF Remaining

----------------------------------------------------------------------------
(* The results that are being built *)

LEMMA BuiltFacts ==
    ASSUME Built, NEW n, n = Len(results), NEW r, r = results[n]
    PROVE  /\ n \in Nat \ {0} /\ n \in 1..n /\ Last(results) = r /\ r \in ResultSets
           /\ r.rows \in Seq(Nat \X Nat) /\ Len(r.rows) \in Nat /\ r.type = "PENDING"
           /\ Point = <<n - 1, Len(r.rows)>> /\ (n - 1) + 1 = n
           /\ results \in Seq(ResultSets) /\ answer \in Seq(ResultSets)
           /\ Listing(results) /\ Listing(answer) /\ Len(answer) \in Nat
           /\ \A q : /\ Len(Back(q)) = n /\ Back(q)[n] = q
                     /\ \A k \in 1..n - 1 : Back(q)[k] = results[k]
                     /\ q \in ResultSets => Back(q) \in Seq(ResultSets)
  <1>1. /\ results \in Seq(ResultSets) /\ answer \in Seq(ResultSets)
        /\ n > 0 /\ r.type = "PENDING"
    BY DEF Built
  <1>2. n \in Nat \ {0} /\ n \in 1..n /\ (n - 1) + 1 = n
    BY <1>1
  <1>3. r \in ResultSets /\ Last(results) = r
    BY <1>1, <1>2 DEF Last
  <1>4. r.rows \in Seq(Nat \X Nat)
    BY <1>3 DEF ResultSets
  <1>5. Len(r.rows) \in Nat /\ Len(answer) \in Nat
    BY <1>1, <1>4
  <1>6. Point = <<n - 1, Len(r.rows)>>
    BY DEF Point
  <1>7. ASSUME NEW q
        PROVE  /\ Len(Back(q)) = n /\ Back(q)[n] = q
               /\ \A k \in 1..n - 1 : Back(q)[k] = results[k]
               /\ q \in ResultSets => Back(q) \in Seq(ResultSets)
    <2>1. Back(q) = [results EXCEPT ![n] = q]
      BY DEF Back
    <2>2. DOMAIN results = 1..n /\ n \in DOMAIN results
      BY <1>1, <1>2
    <2>3. Back(q)[n] = q /\ \A k \in 1..n - 1 : Back(q)[k] = results[k]
      <3>1. \A k \in 1..n - 1 : k \in 1..n /\ k # n
        BY <1>2
      <3> QED
        BY <2>1, <2>2, <3>1
    <2>4. Back(q) \in Seq(ResultSets \cup {q}) /\ Len(Back(q)) = n
      <3>1. results \in Seq(ResultSets \cup {q})
        BY <1>1
      <3> QED
        BY <2>1, <2>2, <3>1
    <2>5. q \in ResultSets => Back(q) \in Seq(ResultSets)
      BY <1>1, <2>1, <2>2
    <2> QED
      BY <2>3, <2>4, <2>5
  <1>8. Listing(results) /\ Listing(answer)
    BY <1>1, ListOf
  <1> QED
    BY <1>1, <1>2, <1>3, <1>4, <1>5, <1>6, <1>7, <1>8

LEMMA BuiltNext ==
    ASSUME NEW n, NEW r, n = Len(results'), r = results'[n], n > 0,
           results' \in Seq(ResultSets), answer' = answer, answer \in Seq(ResultSets),
           \A k \in 1..n - 1 : k \in 1..Len(answer) /\ results'[k] = answer[k],
           r.type = "PENDING", r.rows # <<>> => n \in 1..Len(answer),
           \A j \in 1..Len(r.rows) : /\ j \in 1..Len(answer[n].rows)
                                     /\ r.rows[j] = answer[n].rows[j]
    PROVE  Built' /\ Point' = <<n - 1, Len(r.rows)>>
  <1>1. Point' = <<n - 1, Len(r.rows)>>
    BY DEF Point
  <1>2. Built'
    BY DEF Built
  <1> QED
    BY <1>1, <1>2

\* A row is the answer's next.
LEMMA RowAdded ==
    ASSUME Built, NEW data, NEW z, Moves("D", data, Point, z, answer),
           results' = Back(add_row(Last(results), data)), answer' = answer
    PROVE  Built' /\ Point' = z
  <1> PICK n, r : n = Len(results) /\ r = results[n]
    OBVIOUS
  <1>1. /\ n \in Nat \ {0} /\ n \in 1..n /\ Last(results) = r /\ r \in ResultSets
        /\ r.rows \in Seq(Nat \X Nat) /\ Len(r.rows) \in Nat /\ r.type = "PENDING"
        /\ Point = <<n - 1, Len(r.rows)>> /\ (n - 1) + 1 = n
        /\ results \in Seq(ResultSets) /\ answer \in Seq(ResultSets)
        /\ \A q : /\ Len(Back(q)) = n /\ Back(q)[n] = q
                  /\ \A k \in 1..n - 1 : Back(q)[k] = results[k]
                  /\ q \in ResultSets => Back(q) \in Seq(ResultSets)
    BY BuiltFacts
  <1> PICK m : m = Len(r.rows) + 1
    OBVIOUS
  <1>2. /\ n \in 1..Len(answer) /\ m \in 1..Len(answer[n].rows)
        /\ data = answer[n].rows[m] /\ z = <<n - 1, m>>
    <2>1. Point[1] = n - 1 /\ Point[2] = Len(r.rows)
      BY <1>1
    <2> QED
      BY <1>1, <2>1 DEF Moves
  <1>3. data \in Nat \X Nat
    <2>1. \A S : \A s \in Seq(S) : \A i \in 1..Len(s) : s[i] \in S
      OBVIOUS
    <2>2. answer \in Seq(ResultSets) /\ n \in 1..Len(answer)
      BY <1>1, <1>2
    <2>3. answer[n] \in ResultSets
      BY <2>1, <2>2
    <2>4. answer[n].rows \in Seq(Nat \X Nat)
      BY <2>3 DEF ResultSets
    <2>5. m \in 1..Len(answer[n].rows) /\ data = answer[n].rows[m]
      BY <1>2
    <2> QED
      BY <2>1, <2>4, <2>5
  <1> DEFINE rows == Append(r.rows, data)
             q == [r EXCEPT !.rows = rows]
  <1>4. /\ rows \in Seq(Nat \X Nat) /\ Len(rows) = m /\ rows[m] = data
        /\ \A j \in 1..m - 1 : rows[j] = r.rows[j]
    BY <1>1, <1>3
  <1> HIDE DEF rows
  <1>5. q \in ResultSets /\ q.type = "PENDING" /\ q.rows = rows
    BY <1>1, <1>4 DEF ResultSets
  <1>6. results' = Back(q)
    BY <1>1 DEF add_row, rows
  <1> HIDE DEF q
  <1>7. /\ Len(results') = n /\ results'[n] = q /\ results' \in Seq(ResultSets)
        /\ \A k \in 1..n - 1 : results'[k] = results[k]
    BY <1>1, <1>5, <1>6
  <1>8. ASSUME NEW j \in 1..m
        PROVE  j \in 1..Len(answer[n].rows) /\ rows[j] = answer[n].rows[j]
    <2>1. CASE j = m
      BY <1>2, <1>4, <2>1
    <2>2. CASE j # m
      <3>1. j \in 1..m - 1 /\ j \in 1..Len(r.rows)
        BY <1>1, <2>2
      <3>2. j \in 1..Len(answer[n].rows) /\ r.rows[j] = answer[n].rows[j]
        BY <3>1 DEF Built
      <3> QED
        BY <1>4, <3>1, <3>2
    <2> QED
      BY <2>1, <2>2
  <1>9. \A k \in 1..n - 1 : k \in 1..Len(answer) /\ results'[k] = answer[k]
    BY <1>7 DEF Built
  <1>10. n > 0 /\ Len(q.rows) = m /\ answer \in Seq(ResultSets)
    BY <1>1, <1>4, <1>5
  <1> PICK e : e = q
    OBVIOUS
  <1>11. /\ \A j \in 1..Len(e.rows) : /\ j \in 1..Len(answer[n].rows)
                                      /\ e.rows[j] = answer[n].rows[j]
         /\ e.type = "PENDING" /\ e = results'[n] /\ n = Len(results')
         /\ n \in 1..Len(answer) /\ n > 0 /\ answer \in Seq(ResultSets) /\ answer' = answer
         /\ results' \in Seq(ResultSets)
    BY <1>2, <1>5, <1>7, <1>8, <1>10
  <1>12. Built' /\ Point' = <<n - 1, Len(e.rows)>>
    BY <1>9, <1>11, BuiltNext
  <1> QED
    BY <1>2, <1>10, <1>12

\* A message that ends a result ends the answer's, and with its outcome.
LEMMA ResultEnded ==
    ASSUME Built, NEW type \in Ends, NEW data, NEW z, Moves(type, data, Point, z, answer),
           NEW q, q = Ended(type),
           NEW n, n = Len(results)
    PROVE  /\ n \in 1..Len(answer) /\ n \in Nat \ {0} /\ z = <<n, 0>>
           /\ q = answer[n] /\ Len(Back(q)) = n /\ Back(q) \in Seq(ResultSets)
           /\ \A k \in 1..n : k \in 1..Len(answer) /\ Back(q)[k] = answer[k]
  <1> PICK r : r = results[n]
    OBVIOUS
  <1>1. /\ n \in Nat \ {0} /\ n \in 1..n /\ Last(results) = r /\ r \in ResultSets
        /\ r.rows \in Seq(Nat \X Nat) /\ Len(r.rows) \in Nat
        /\ Point = <<n - 1, Len(r.rows)>> /\ (n - 1) + 1 = n
        /\ answer \in Seq(ResultSets) /\ Len(answer) \in Nat
    BY BuiltFacts
  <1>2. /\ Len(Back(q)) = n /\ Back(q)[n] = q
        /\ \A k \in 1..n - 1 : Back(q)[k] = results[k]
        /\ q \in ResultSets => Back(q) \in Seq(ResultSets)
    BY BuiltFacts
  <1>3. /\ n \in 1..Len(answer) /\ Len(r.rows) = Len(answer[n].rows)
        /\ answer[n].type = Outcome(type) /\ z = <<n, 0>>
    <2>1. Point[1] = n - 1 /\ Point[2] = Len(r.rows)
      BY <1>1
    <2> QED
      BY <1>1, <2>1 DEF Moves
  <1>4. answer[n] \in ResultSets
    BY <1>1, <1>3
  <1>5. answer[n].rows \in Seq(Nat \X Nat)
    BY <1>4 DEF ResultSets
  <1>6. r.rows = answer[n].rows
    <2>1. \A j \in 1..Len(r.rows) : r.rows[j] = answer[n].rows[j]
      BY DEF Built
    <2> PICK s, t : s = r.rows /\ t = answer[n].rows
      OBVIOUS
    <2>2. s \in Seq(Nat \X Nat) /\ t \in Seq(Nat \X Nat) /\ Len(s) = Len(t)
      BY <1>1, <1>3, <1>5
    <2>3. Listing(s) /\ Listing(t)
      BY <2>2, ListOf
    <2>4. s = t
      BY <2>1, <2>2, <2>3, SameList
    <2> QED
      BY <2>4
  <1>7. q = answer[n]
    <2> PICK b : b = answer[n]
      OBVIOUS
    <2>1. b \in ResultSets /\ b.rows = r.rows /\ b.type = Outcome(type)
      BY <1>3, <1>4, <1>6
    <2>2. q = [r EXCEPT !.type = b.type]
      BY <1>1, <2>1 DEF Ended
    <2>3. /\ b = [type |-> b.type, rows |-> b.rows]
          /\ r = [type |-> r.type, rows |-> r.rows]
      BY <1>1, <2>1 DEF ResultSets
    <2>4. q = [type |-> b.type, rows |-> r.rows]
      BY <2>2, <2>3
    <2>5. q = b
      BY <2>1, <2>3, <2>4
    <2> QED
      BY <2>5
  <1>8. ASSUME NEW k \in 1..n PROVE k \in 1..Len(answer) /\ Back(q)[k] = answer[k]
    <2>1. CASE k = n
      BY <1>2, <1>3, <1>7, <2>1
    <2>2. CASE k # n
      <3>1. k \in 1..n - 1
        BY <1>1, <2>2
      <3>2. k \in 1..Len(answer) /\ results[k] = answer[k]
        BY <3>1 DEF Built
      <3> QED
        BY <1>2, <3>1, <3>2
    <2> QED
      BY <2>1, <2>2
  <1> QED
    BY <1>1, <1>2, <1>3, <1>4, <1>7, <1>8

\* And the next one is begun.
LEMMA ResultAdded ==
    ASSUME Built, NEW type \in Ends, NEW data, NEW z, Moves(type, data, Point, z, answer),
           NEW q, q = Ended(type),
           results' = Append(Back(q), Pending), answer' = answer
    PROVE  Built' /\ Point' = z
  <1> PICK n : n = Len(results)
    OBVIOUS
  <1> PICK s : s = Back(q)
    OBVIOUS
  <1>1. /\ n \in 1..Len(answer) /\ n \in Nat \ {0} /\ z = <<n, 0>>
        /\ Len(s) = n /\ s \in Seq(ResultSets)
        /\ \A k \in 1..n : k \in 1..Len(answer) /\ s[k] = answer[k]
    BY ResultEnded
  <1>2. Pending \in ResultSets /\ Pending.type = "PENDING" /\ Pending.rows = <<>>
    BY DEF Pending, ResultSets
  <1>3. answer \in Seq(ResultSets)
    BY DEF Built
  <1> PICK p : p = Pending
    OBVIOUS
  <1> DEFINE t == Append(s, p)
  <1>4. /\ t \in Seq(ResultSets) /\ Len(t) = n + 1 /\ t[n + 1] = p
        /\ \A k \in 1..n : t[k] = s[k]
    BY <1>1, <1>2
  <1> HIDE DEF t
  <1>5. results' = t
    BY DEF t
  <1> PICK m : m = n + 1
    OBVIOUS
  <1>6. m - 1 = n /\ m > 0 /\ Len(<<>>) = 0 /\ m = Len(results') /\ p = results'[m]
    BY <1>1, <1>4, <1>5
  <1>7. \A j \in 1..Len(p.rows) : FALSE
    BY <1>2, <1>6
  <1>8. \A k \in 1..m - 1 : k \in 1..Len(answer) /\ results'[k] = answer[k]
    BY <1>1, <1>4, <1>5, <1>6
  <1>9. results' \in Seq(ResultSets)
    BY <1>4, <1>5
  <1>10. Built' /\ Point' = <<m - 1, Len(p.rows)>>
    BY <1>2, <1>3, <1>6, <1>7, <1>8, <1>9, BuiltNext
  <1> QED
    BY <1>1, <1>2, <1>6, <1>10

\* When all is read the results are the answer.
LEMMA AllBuilt ==
    ASSUME Built, Point = <<Len(answer), 0>>
    PROVE  Front(results) = answer
  <1> PICK n, r : n = Len(results) /\ r = results[n]
    OBVIOUS
  <1>1. /\ n \in Nat \ {0} /\ Point = <<n - 1, Len(r.rows)>>
        /\ Listing(results) /\ Listing(answer)
    BY BuiltFacts
  <1>2. n - 1 = Len(answer)
    BY <1>1
  <1> PICK m : m = n - 1
    OBVIOUS
  <1>3. m \in 0..Len(results) /\ 1 \in 1..(Len(results) + 1) /\ 1 <= m + 1 /\ m - 1 + 1 = m
    BY <1>1
  <1> PICK s : s = SubSeq(results, 1, m)
    OBVIOUS
  <1>4. /\ Listing(s) /\ Len(s) = m - 1 + 1
        /\ \A i \in 1..(m - 1 + 1) : s[i] = results[i + 1 - 1]
    BY <1>1, <1>3, ListPart
  <1>5. Len(s) = Len(answer)
    BY <1>2, <1>3, <1>4
  <1>6. ASSUME NEW i \in 1..Len(s) PROVE s[i] = answer[i]
    <2>1. i \in 1..m /\ i + 1 - 1 = i
      BY <1>3, <1>4
    <2>2. results[i] = answer[i]
      BY <2>1 DEF Built
    <2> QED
      BY <1>3, <1>4, <2>1, <2>2
  <1>7. s = answer
    BY <1>1, <1>4, <1>5, <1>6, SameList
  <1> QED
    BY <1>7 DEF Front

----------------------------------------------------------------------------
(* Reading an answer *)

LEMMA RemainingSame ==
    ASSUME NEW x, Remaining(wire', x), UNCHANGED <<up, held, answer>>,
           Built', Point' = x
    PROVE  Underway'
  <1>1. Remaining(wire, Point)'
    BY DEF Remaining
  <1> QED
    BY <1>1 DEF Underway

LEMMA BuiltSame ==
    ASSUME Built, UNCHANGED <<results, answer>>
    PROVE  Built' /\ Point' = Point
  BY DEF Built, Point

\* The message at the front, for a call that reads an answer.
Front1(types) == wire # <<>> /\ Head(wire).part = "head" /\ Head(wire).type \in types

LEMMA SkipBuilt ==
    ASSUME Underway, LastZ(wire), Front1(Silent), Skip, UNCHANGED <<results, up, held, answer>>
    PROVE  Underway'
  <1>1. Built /\ Remaining(wire, Point)
    BY DEF Underway
  <1>2. PICK data, z : Moves(Head(wire).type, data, Point, z, answer) /\ Remaining(wire', z)
    BY <1>1, SkipRead DEF Front1
  <1>3. z = Point
    BY <1>2 DEF Front1, Moves
  <1> QED
    BY <1>1, <1>2, <1>3, BuiltSame, RemainingSame

LEMMA HeaderBuilt ==
    ASSUME Underway, LastZ(wire), wire # <<>>, Head(wire).part = "head", HeaderRead,
           Head(wire).type \notin Ends, UNCHANGED <<results, up, held, answer>>
    PROVE  Underway'
  <1>1. Built /\ Remaining(wire, Point)
    BY DEF Underway
  <1>2. Remaining(wire', Point)
    BY <1>1, HeaderSame
  <1> QED
    BY <1>1, <1>2, BuiltSame, RemainingSame

LEMMA RowBuilt ==
    ASSUME Underway, LastZ(wire), Front1({"D"}), Skip, UNCHANGED <<up, held, answer>>,
           results' = Back(add_row(Last(results), wire[2].data))
    PROVE  Underway'
  <1>1. Built /\ Remaining(wire, Point)
    BY DEF Underway
  <1>2. PICK data, z : /\ Moves(Head(wire).type, data, Point, z, answer)
                       /\ Head(wire).type = "D" => data = wire[2].data
                       /\ Remaining(wire', z)
    BY <1>1, SkipRead DEF Front1
  <1>3. Head(wire).type = "D"
    BY DEF Front1
  <1>4. Built' /\ Point' = z
    BY <1>1, <1>2, <1>3, RowAdded
  <1> QED
    BY <1>2, <1>4, RemainingSame

LEMMA EndBuilt ==
    ASSUME Underway, LastZ(wire), Front1(Ends), Skip, UNCHANGED <<up, held, answer>>,
           NEW q, q = Ended(Head(wire).type),
           results' = Append(Back(q), Pending)
    PROVE  Underway'
  <1>1. Built /\ Remaining(wire, Point)
    BY DEF Underway
  <1>2. PICK data, z : /\ Moves(Head(wire).type, data, Point, z, answer)
                       /\ Remaining(wire', z)
    BY <1>1, SkipRead DEF Front1
  <1>3. Head(wire).type \in Ends
    BY DEF Front1
  <1>4. Built' /\ Point' = z
    BY <1>1, <1>2, <1>3, ResultAdded
  <1> QED
    BY <1>2, <1>4, RemainingSame

\* ReadyForQuery comes when the results are the answer.
LEMMA ReadyBuilt ==
    ASSUME Underway, LastZ(wire), Front1({"Z"}), Skip
    PROVE  Front(results) = answer /\ wire' = <<>>
  <1>1. Built /\ Remaining(wire, Point)
    BY DEF Underway
  <1>2. PICK data, z : Moves(Head(wire).type, data, Point, z, answer)
    BY <1>1, SkipRead DEF Front1
  <1>3. Point = <<Len(answer), 0>>
    BY <1>2 DEF Front1, Moves
  <1> QED
    BY <1>1, <1>3, AllBuilt, SkipLeaves DEF Front1

\* What ends the last result of execute leaves the answer.
LEMMA LastBuilt ==
    ASSUME Built, NEW type \in Ends, NEW data, NEW z, Moves(type, data, Point, z, answer),
           NEW q, q = Ended(type),
           Alone
    PROVE  Back(q) = answer /\ Len(answer) = 1
  <1> PICK n : n = Len(results)
    OBVIOUS
  <1> PICK s : s = Back(q)
    OBVIOUS
  <1>1. /\ n \in 1..Len(answer) /\ Len(s) = n /\ s \in Seq(ResultSets)
        /\ \A k \in 1..n : s[k] = answer[k]
    BY ResultEnded
  <1>2. answer \in Seq(ResultSets)
    BY DEF Built
  <1>3. Len(answer) \in Nat
    BY <1>2
  <1>4. Len(answer) = 1 /\ n = 1
    <2>1. Len(results) = 1 /\ Len(answer) <= 1
      BY DEF Alone
    <2>2. \A k \in Nat : 1 \in 1..k /\ k <= 1 => k = 1
      OBVIOUS
    <2>3. n = 1 /\ Len(answer) <= 1
      BY <2>1
    <2>4. 1 \in 1..Len(answer)
      BY <1>1, <2>3
    <2> QED
      BY <1>3, <2>2, <2>3, <2>4
  <1>5. s = answer
    BY <1>1, <1>2, <1>4, ListOf, SameList
  <1> QED
    BY <1>4, <1>5

----------------------------------------------------------------------------
(* Steps that concern no answer *)

LEMMA InCalls == ASSUME Inv, pc \in Calls PROVE Later /\ (up => Serving)
  BY DEF Inv, Closed, Fresh, Greeted, Calls, Later

LEMMA ServingLastZ == ASSUME Serving, pc \in {"query", "execute", "sync"} PROVE LastZ(wire)
  BY FreeLastZ DEF Serving, QueryDue, SyncDue, NothingDue, Answered

LEMMA ServerReads == ServerStep => inbox # <<>>
  <1>1. \A types : Handles(types) => inbox # <<>>
    BY DEF Handles
  <1>2. ServeStartup => inbox # <<>>
    BY <1>1 DEF ServeStartup
  <1>3. ServePassword => inbox # <<>>
    BY <1>1 DEF ServePassword
  <1>4. ServeFirst => inbox # <<>>
    BY <1>1 DEF ServeFirst
  <1>5. ServeFinal => inbox # <<>>
    BY Zenon DEF ServeFinal, Handles
  <1>6. ServeStatement \/ ServeQuery => inbox # <<>>
    BY <1>1 DEF ServeStatement, ServeQuery
  <1>7. ServeParse \/ ServeBind \/ ServeExecute => inbox # <<>>
    BY <1>1 DEF ServeParse, ServeBind, ServeExecute
  <1>8. ServeFlush \/ ServeClose \/ ServeSkips \/ ServeSync => inbox # <<>>
    BY <1>1 DEF ServeFlush, ServeClose, ServeSkips, ServeSync
  <1> QED
    BY <1>2, <1>3, <1>4, <1>5, <1>6, <1>7, <1>8 DEF ServerStep

\* Once the connection is broken nothing is sent any more.
LEMMA BrokenStep == ASSUME Broken, up \in BOOLEAN, [Next]_vars PROVE Broken'
  <1>1. CASE Call
    <2>1. held' = held /\ up' = up /\ (~up => inbox' = inbox)
      BY <1>1 DEF Call, InitCall, CloseSyncCall, CallFails, QueryCall, PrepareQuery,
         ExecuteCall, Called, Send, server
    <2> QED
      BY <2>1 DEF Broken
  <1>2. CASE ClientStep
    <2>1. held' = held /\ up' = up
      BY <1>2 DEF ClientStep, SkipNotice, ReadFails, FlushFails, GiveUp, InitError, InitSkips,
         InitReady, HandleAuth, RowWhole, RowCut, QueryTag, QueryError, QueryOther, QueryReady,
         ExecuteOther, ExecuteEnds, ExecuteSuspends, SyncSkips, SyncReady, server
    <2>2. CASE HandleAuth
      <3>1. PICK data : AuthReply(data)
        BY <2>2 DEF HandleAuth
      <3>2. ~up => inbox' = inbox
        BY <3>1 DEF AuthReply, Send
      <3> QED
        BY <2>1, <3>2 DEF Broken
    <2>3. CASE ~HandleAuth
      <3>1. ~up => inbox' = inbox
        BY <1>2, <2>3 DEF ClientStep, SkipNotice, ReadFails, FlushFails, GiveUp, InitError,
           InitSkips, InitReady, RowWhole, RowCut, QueryTag, QueryError, QueryOther,
           QueryReady, ExecuteOther, ExecuteEnds, ExecuteSuspends, SyncSkips, SyncReady, Send
      <3> QED
        BY <2>1, <3>1 DEF Broken
    <2> QED
      BY <2>2, <2>3
  <1>3. CASE ServerStep
    BY <1>3, ServerReads, ServerFrame DEF Broken
  <1>4. CASE Lose
    BY <1>4 DEF Lose, Broken
  <1>5. CASE UNCHANGED vars
    BY <1>5 DEF vars, Broken
  <1> QED
    BY <1>1, <1>2, <1>3, <1>4, <1>5 DEF Next

----------------------------------------------------------------------------
(* The calls that read an answer *)

LEMMA UnderwayNext ==
    ASSUME NEW x, Remaining(wire, x)', Built', Point' = x
    PROVE  Underway'
  <1>1. Remaining(wire, Point)'
    BY DEF Remaining
  <1> QED
    BY <1>1 DEF Underway

LEMMA StillReading ==
    ASSUME pc' \in {"query", "execute"}, got' = <<>>, Broken', LastZ(wire'), Underway',
           pc' = "query" => Free(wire', {"s"}), pc' = "execute" => Executing'
    PROVE  Matched'
  BY DEF Matched

LEMMA Rests ==
    ASSUME pc' = "idle", Broken', got' # <<>> => got'[1] = answer', wire' = <<>>,
           up' => inbox' = <<>> /\ held' = <<>> /\ srv'.stage = "ready"
    PROVE  Matched'
  BY DEF Matched

LEMMA LaterPart ==
    ASSUME LastZ(wire), wire # <<>>, Head(wire).part = "head", Skip \/ HeaderRead
    PROVE  \E j \in 1..(Len(wire) + 1) : wire' = SubSeq(wire, j, Len(wire))
  <1>1. Listing(wire)
    BY DEF LastZ
  <1> QED
    BY <1>1, SkipLeaves, HeaderLeaves

\* Reads that do not end the call.
Ongoing == \/ SkipNotice \/ RowWhole \/ RowCut \/ ExecuteOther
           \/ QueryTag \/ QueryError \/ QueryOther

LEMMA OngoingBuilt ==
    ASSUME Underway, LastZ(wire), pc \in {"query", "execute"}, Ongoing,
           QueryOther => Free(wire, {"s"})
    PROVE  /\ Underway' /\ LastZ(wire')
           /\ \E j \in 1..(Len(wire) + 1) : wire' = SubSeq(wire, j, Len(wire))
           /\ UNCHANGED <<pc, got, inbox, held, srv, up, answer>>
  <1>0. UNCHANGED <<pc, got, inbox, held, srv, up, answer>>
    BY DEF Ongoing, SkipNotice, RowWhole, RowCut, ExecuteOther, QueryTag, QueryError, QueryOther,
       client, server
  <1>1. wire # <<>> /\ Head(wire).part = "head" /\ (Skip \/ HeaderRead)
    BY DEF Ongoing, SkipNotice, RowWhole, RowCut, ExecuteOther, QueryTag, QueryError, QueryOther,
       Response, OtherResponse
  <1>2. PICK j \in 1..(Len(wire) + 1) : wire' = SubSeq(wire, j, Len(wire))
    BY <1>1, LaterPart
  <1>3. LastZ(wire')
    BY <1>2, LastZPart
  <1>4. CASE SkipNotice
    <2>1. Front1(Silent) /\ Skip /\ UNCHANGED <<results, up, held, answer>>
      BY <1>4 DEF SkipNotice, Response, Front1, Silent, client, server
    <2> QED
      BY <1>0, <1>2, <1>3, <2>1, SkipBuilt
  <1>5. CASE RowWhole
    <2>1. Skip /\ UNCHANGED <<up, held, answer>>
      BY <1>5 DEF RowWhole, server
    <2>2. CASE Head(wire).type = "D"
      <3>1. Front1({"D"}) /\ results' = Back(add_row(Last(results), wire[2].data))
        BY <1>5, <2>2 DEF RowWhole, Response, Front1
      <3> QED
        BY <1>0, <1>2, <1>3, <2>1, <3>1, RowBuilt
    <2>3. CASE Head(wire).type # "D"
      <3>1. Front1(Silent) /\ results' = results
        BY <1>5, <2>3 DEF RowWhole, Response, Front1, Silent
      <3> QED
        BY <1>0, <1>2, <1>3, <2>1, <3>1, SkipBuilt
    <2> QED
      BY <2>2, <2>3
  <1>6. CASE RowCut \/ ExecuteOther \/ QueryOther
    <2>1. HeaderRead /\ UNCHANGED <<results, up, held, answer>>
      BY <1>6 DEF RowCut, ExecuteOther, QueryOther, client, server
    <2>2. Head(wire).type \notin Ends
      <3>1. CASE RowCut \/ ExecuteOther
        BY <3>1 DEF RowCut, ExecuteOther, Response, OtherResponse, Ends
      <3>2. CASE QueryOther
        <4>1. Listing(wire)
          BY DEF LastZ
        <4>2. Head(wire) = wire[1] /\ 1 \in 1..Len(wire)
          BY <1>1, <4>1, ListTail
        <4>3. Head(wire).type # "s"
          BY <1>1, <3>2, <4>2 DEF Free
        <4> QED
          BY <3>2, <4>3 DEF QueryOther, OtherResponse, Ends
      <3> QED
        BY <1>6, <3>1, <3>2
    <2> QED
      BY <1>0, <1>1, <1>2, <1>3, <2>1, <2>2, HeaderBuilt
  <1>7. CASE QueryTag
    <2>1. Head(wire).type = "C" /\ Front1(Ends) /\ Skip /\ UNCHANGED <<up, held, answer>>
      BY <1>7 DEF QueryTag, Response, Front1, Ends, server
    <2>2. set_command_tag(Last(results)) = Ended("C")
      BY DEF set_command_tag, Ended, Outcome
    <2>3. results' = Append(Back(Ended("C")), Pending)
      BY <1>7, <2>2 DEF QueryTag
    <2> QED
      BY <1>0, <1>2, <1>3, <2>1, <2>3, EndBuilt
  <1>8. CASE QueryError
    <2>1. Head(wire).type \in {"E", "I"} /\ Front1(Ends) /\ Skip /\ UNCHANGED <<up, held, answer>>
      BY <1>8 DEF QueryError, Response, Front1, Ends, server
    <2>2. set_error(Last(results)) = Ended(Head(wire).type)
      BY <2>1 DEF set_error, Ended, Outcome
    <2>3. results' = Append(Back(Ended(Head(wire).type)), Pending)
      BY <1>8, <2>2 DEF QueryError
    <2> QED
      BY <1>0, <1>2, <1>3, <2>1, <2>3, EndBuilt
  <1> QED
    BY <1>4, <1>5, <1>6, <1>7, <1>8 DEF Ongoing

LEMMA QueryReads ==
    ASSUME Matched, Broken', pc = "query", ClientStep, up' => Serving'
    PROVE  Matched'
  <1>1. got = <<>> /\ LastZ(wire) /\ Underway /\ Free(wire, {"s"})
    BY DEF Matched
  <1>2. Ongoing \/ ReadFails \/ QueryReady
    BY DEF ClientStep, FlushFails, InitError, InitSkips, InitReady, HandleAuth, ExecuteOther,
       ExecuteEnds, ExecuteSuspends, SyncSkips, SyncReady, Ongoing
  <1>3. CASE Ongoing
    <2>1. /\ Underway' /\ LastZ(wire') /\ pc' = pc /\ got' = got
          /\ \E j \in 1..(Len(wire) + 1) : wire' = SubSeq(wire, j, Len(wire))
      BY <1>1, <1>3, OngoingBuilt
    <2>2. Free(wire', {"s"})
      BY <1>1, <2>1, FreePart
    <2> QED
      BY <1>1, <2>1, <2>2, StillReading
  <1>4. CASE ReadFails
    <2>1. ~up' /\ pc' = "idle" /\ wire' = <<>> /\ got' = <<>>
      BY <1>1, <1>4 DEF ReadFails, GiveUp
    <2> QED
      BY <2>1, Rests
  <1>5. CASE QueryReady
    <2>1. /\ Front1({"Z"}) /\ Skip /\ m_query_ready' /\ pc' = "idle" /\ answer' = answer
          /\ got' = <<Front(results)>>
      BY <1>5 DEF QueryReady, Response, Front1, server
    <2>2. Front(results) = answer /\ wire' = <<>>
      BY <1>1, <2>1, ReadyBuilt
    <2>3. got'[1] = answer'
      BY <2>1, <2>2
    <2>4. up' => inbox' = <<>> /\ held' = <<>> /\ srv'.stage = "ready"
      BY <2>1 DEF Serving, Idle
    <2> QED
      BY <2>1, <2>2, <2>3, <2>4, Rests
  <1> QED
    BY <1>2, <1>3, <1>4, <1>5

LEMMA LastSPrefix ==
    ASSUME NEW s, Listing(s), LastS(s), NEW n \in 0..Len(s)
    PROVE  LastS(SubSeq(s, 1, n))
  <1> DEFINE t == SubSeq(s, 1, n)
  <1>1. Len(s) \in Nat
    BY ListLen
  <1>2. 1 \in 1..(Len(s) + 1) /\ 1 <= n + 1 /\ n - 1 + 1 = n
    BY <1>1
  <1>3. /\ Len(t) = n - 1 + 1
        /\ \A i \in 1..(n - 1 + 1) : i + 1 - 1 \in 1..Len(s) /\ t[i] = s[i + 1 - 1]
    BY <1>2, ListPart
  <1> HIDE DEF t
  <1>4. ASSUME NEW i \in 1..Len(t), t[i].part = "head", t[i].type = "s" PROVE i = Len(t)
    <2>1. i \in 1..n /\ i + 1 - 1 = i /\ Len(t) = n
      BY <1>2, <1>3
    <2>2. i \in 1..Len(s) /\ t[i] = s[i]
      BY <1>2, <1>3, <2>1
    <2>3. i = Len(s)
      BY <1>4, <2>2 DEF LastS
    <2>4. \A l, m, k \in Nat : m <= l /\ k <= m /\ k = l => k = m
      OBVIOUS
    <2>5. n \in Nat /\ i \in Nat /\ n <= Len(s) /\ i <= n
      BY <1>1, <2>1
    <2>6. i = n
      BY <1>1, <2>3, <2>4, <2>5
    <2> QED
      BY <2>1, <2>6
  <1>5. LastS(t)
    BY <1>4 DEF LastS
  <1> QED
    BY <1>5 DEF t

LEMMA FreePrefix ==
    ASSUME NEW s, NEW types, Free(s, types), NEW n \in 0..Len(s)
    PROVE  Free(SubSeq(s, 1, n), types)
  <1> DEFINE t == SubSeq(s, 1, n)
  <1>1. Listing(s) /\ Len(s) \in Nat
    BY ListLen DEF Free
  <1>2. 1 \in 1..(Len(s) + 1) /\ 1 <= n + 1 /\ n - 1 + 1 = n
    BY <1>1
  <1>3. /\ Listing(t) /\ Len(t) = n - 1 + 1
        /\ \A i \in 1..(n - 1 + 1) : i + 1 - 1 \in 1..Len(s) /\ t[i] = s[i + 1 - 1]
    BY <1>1, <1>2, ListPart
  <1> HIDE DEF t
  <1>4. ASSUME NEW i \in 1..Len(t) PROVE i \in 1..Len(s) /\ t[i] = s[i]
    BY <1>2, <1>3
  <1>5. Free(t, types)
    BY <1>3, <1>4 DEF Free
  <1> QED
    BY <1>5 DEF t

\* A break while a call reads an answer.
LEMMA MatchedLost ==
    ASSUME Matched, Broken', pc \in Calls, Lose
    PROVE  Matched'
  <1>1. /\ ~up' /\ UNCHANGED <<pc, got, results, answer>>
        /\ \E n \in 0..Len(wire) : wire' = SubSeq(wire, 1, n)
    BY DEF Lose, client
  <1>2. CASE pc = "idle"
    <2>1. wire' = <<>>
      BY <1>2, NothingLost DEF Matched
    <2> QED
      BY <1>1, <1>2, <2>1 DEF Matched
  <1>3. ASSUME pc # "idle" PROVE LastZ(wire) /\ LastZ(wire') /\ got' = <<>>
    BY <1>1, <1>3, LastZPrefix DEF Matched, Calls
  <1>4. CASE pc = "sync"
    BY <1>1, <1>3, <1>4 DEF Matched
  <1>5. CASE pc \in {"query", "execute"}
    <2>1. Built /\ Remaining(wire, Point) /\ LastZ(wire) /\ LastZ(wire') /\ got' = <<>>
      BY <1>3, <1>5 DEF Matched, Underway
    <2>2. Underway'
      <3> PICK x : x = Point
        OBVIOUS
      <3>1. Remaining(wire, x)'
        BY <2>1, RemainingLost DEF LastZ
      <3>2. Built' /\ Point' = x
        BY <1>1, <2>1, BuiltSame
      <3> QED
        BY <3>1, <3>2, UnderwayNext
    <2>3. pc = "query" => Free(wire', {"s"})
      BY <1>1, FreePrefix DEF Matched
    <2>4. pc = "execute" => Executing'
      <3> SUFFICES ASSUME pc = "execute" PROVE Executing'
        OBVIOUS
      <3>1. Alone /\ LastS(wire) /\ Listing(wire)
        BY <2>1 DEF Matched, Executing, LastZ
      <3>2. LastS(wire') /\ Alone'
        BY <1>1, <3>1, LastSPrefix DEF Alone
      <3> QED
        BY <1>1, <3>2 DEF Executing
    <2> QED
      BY <1>1, <1>5, <2>1, <2>2, <2>3, <2>4, StillReading
  <1> QED
    BY <1>2, <1>4, <1>5 DEF Calls

\* A call that returns results begins with none.
LEMMA NewCall ==
    ASSUME Matched, pc = "idle", results' = <<Pending>>, answer' = <<>>,
           UNCHANGED <<wire, held, up>>
    PROVE  Underway' /\ wire' = <<>> /\ (up' => held' = <<>>)
  <1>1. wire' = <<>> /\ (up' => held' = <<>>)
    BY DEF Matched
  <1> PICK p, x : p = Pending /\ x = <<0, 0>>
    OBVIOUS
  <1>2. p \in ResultSets /\ p.type = "PENDING" /\ p.rows = <<>>
    BY DEF Pending, ResultSets
  <1>3. /\ <<p>> \in Seq(ResultSets) /\ Len(<<p>>) = 1 /\ <<p>>[1] = p
        /\ <<>> \in Seq(ResultSets) /\ Len(<<>>) = 0 /\ 1 - 1 = 0 /\ 1 > 0
    BY <1>2
  <1>4. Point' = x
    BY <1>2, <1>3 DEF Point
  <1>5. \A k \in 1..0 : FALSE
    OBVIOUS
  <1>6. Built'
    BY <1>2, <1>3, <1>5 DEF Built
  <1>7. Remaining(wire, x)'
    <2>1. Listing(<<>>) /\ <<>> \o <<>> = <<>>
      BY FreeEmpty DEF Free
    <2>2. Leads(<<>>, x, x, <<>>)
      <3>1. x \in Nat \X Nat
        OBVIOUS
      <3> QED
        BY <3>1, LeadsEmpty
    <2>3. <<Len(answer'), 0>> = x
      BY <1>3
    <2> QED
      BY <1>1, <2>1, <2>2, <2>3 DEF Remaining
  <1> QED
    BY <1>1, <1>4, <1>6, <1>7, UnderwayNext

LEMMA AskedAppended ==
    ASSUME NEW a, Only(a, {"P", "B"}), NEW limit, NEW s, s = a \o ExecuteMessages(limit),
           NEW n, n = Len(s)
    PROVE  /\ n \in Nat /\ n >= 2 /\ s[n].type = "H" /\ s[n - 1].type = "E"
           /\ \A i \in 1..n - 2 : s[i].type \in {"P", "B"}
  <1> PICK x, y : x = [type |-> "E", data |-> limit] /\ y = [type |-> "H", data |-> 0]
    OBVIOUS
  <1> PICK b : b = <<x, y>>
    OBVIOUS
  <1> PICK m : m = Len(a)
    OBVIOUS
  <1>1. x.type = "E" /\ y.type = "H" /\ b = ExecuteMessages(limit)
    BY DEF ExecuteMessages
  <1>2. b \in Seq({x, y}) /\ Len(b) = 2 /\ b[1] = x /\ b[2] = y
    OBVIOUS
  <1>3. Listing(a) /\ Listing(b)
    BY <1>2, ListOf DEF Only
  <1>4. /\ m \in Nat /\ Len(s) = m + 2
        /\ \A i \in 1..m : s[i] = a[i]
        /\ \A i \in (m + 1)..(m + 2) : s[i] = b[i - m]
    <2>1. /\ Len(a) \in Nat /\ Len(a \o b) = Len(a) + Len(b)
          /\ \A i \in 1..Len(a) : (a \o b)[i] = a[i]
          /\ \A i \in (Len(a) + 1)..(Len(a) + Len(b)) : (a \o b)[i] = b[i - Len(a)]
      BY <1>3, ListConcat
    <2>2. s = a \o b
      BY <1>1
    <2> QED
      BY <1>2, <2>1, <2>2
  <1>5. n \in Nat /\ n >= 2 /\ n = m + 2 /\ n - 1 = m + 1 /\ n - 2 = m
    BY <1>2, <1>4
  <1>6. s[m + 1] = x /\ s[m + 2] = y
    <2>1. /\ m + 1 \in (m + 1)..(m + 2) /\ (m + 1) - m = 1
          /\ m + 2 \in (m + 1)..(m + 2) /\ (m + 2) - m = 2
      BY <1>4
    <2> QED
      BY <1>2, <1>4, <2>1
  <1>7. \A i \in 1..m : s[i].type \in {"P", "B"}
    BY <1>4 DEF Only
  <1> QED
    BY <1>1, <1>5, <1>6, <1>7

LEMMA IdleCalls ==
    ASSUME Matched, Broken', pc = "idle", Call, up => Serving
    PROVE  Matched'
  <1>1. /\ wire = <<>>
        /\ up => inbox = <<>> /\ held = <<>> /\ srv.stage = "ready"
    BY DEF Matched
  <1>2. Free(<<>>, {"s"}) /\ Free(<<>>, {"Z"}) /\ LastZ(<<>>) /\ Len(<<>>) = 0
    BY FreeEmpty, FreeLastZ
  <1>3. CASE CloseSyncCall
    <2>1. pc' = "sync" /\ got' = <<>> /\ results' = <<>> /\ wire' = wire
      BY <1>3 DEF CloseSyncCall, Called
    <2> QED
      BY <1>1, <1>2, <2>1 DEF Matched
  <1>4. CASE \E q \in Queries : QueryCall(q)
    <2>1. /\ pc' = "query" /\ got' = <<>> /\ results' = <<Pending>> /\ answer' = <<>>
          /\ UNCHANGED <<wire, held, up>>
      BY <1>4 DEF QueryCall, Called
    <2>2. Underway' /\ wire' = <<>>
      BY <2>1, NewCall
    <2> QED
      BY <1>2, <2>1, <2>2, StillReading
  <1>5. CASE \E st \in Statements : PrepareQuery(st)
    <2>1. UNCHANGED <<pc, got, answer, wire, inbox, held, srv, up>>
      BY <1>5 DEF PrepareQuery, server
    <2> QED
      BY <2>1 DEF Matched
  <1>6. CASE \E limit \in Limits : ExecuteCall(limit)
    <2>1. PICK limit : ExecuteCall(limit)
      BY <1>6
    <2>2. /\ pc' = "execute" /\ got' = <<>> /\ results' = <<Pending>> /\ answer' = <<>>
          /\ UNCHANGED <<wire, held, up, srv>>
          /\ up => inbox' = inbox \o out \o ExecuteMessages(limit)
      BY <2>1 DEF ExecuteCall, Called, Send
    <2>3. Underway' /\ wire' = <<>> /\ (up' => held' = <<>>)
      BY <2>2, NewCall
    <2>4. up' => Asked'
      <3> SUFFICES ASSUME up PROVE Asked'
        BY <2>2
      <3>1. Only(out, {"P", "B"}) /\ Listing(out)
        BY DEF Serving, Only
      <3>2. <<>> \o out = out
        BY <3>1, ConcatEmpty
      <3>3. inbox' = out \o ExecuteMessages(limit)
        BY <1>1, <2>2, <3>2
      <3> PICK n, s : n = Len(s) /\ s = inbox'
        OBVIOUS
      <3>4. /\ n >= 2 /\ s[n].type = "H" /\ s[n - 1].type = "E"
            /\ \A i \in 1..n - 2 : s[i].type \in {"P", "B"}
        BY <3>1, <3>3, AskedAppended
      <3> QED
        BY <1>1, <2>2, <3>4 DEF Asked
    <2>5. Alone'
      <3>1. Len(<<Pending>>) = 1
        OBVIOUS
      <3> QED
        BY <1>2, <2>2, <3>1 DEF Alone
    <2>6. LastS(<<>>)
      <3>1. \A i \in 1..0 : FALSE
        OBVIOUS
      <3> QED
        BY <1>2, <3>1 DEF LastS
    <2>7. Executing'
      BY <1>2, <2>3, <2>4, <2>5, <2>6 DEF Executing
    <2> QED
      BY <1>2, <2>2, <2>3, <2>7, StillReading
  <1>7. CASE CallFails
    <2>1. ~up' /\ pc' = "idle" /\ wire' = <<>> /\ got' = <<>>
      BY <1>1, <1>7 DEF CallFails, GiveUp
    <2> QED
      BY <2>1, Rests
  <1>8. ~InitCall
    BY DEF InitCall
  <1> QED
    BY <1>3, <1>4, <1>5, <1>6, <1>7, <1>8 DEF Call

LEMMA LastSPart ==
    ASSUME NEW s, Listing(s), LastS(s), NEW j \in 1..(Len(s) + 1)
    PROVE  LastS(SubSeq(s, j, Len(s)))
  <1> PICK l : l = Len(s)
    OBVIOUS
  <1> PICK t : t = SubSeq(s, j, l)
    OBVIOUS
  <1>1. l \in Nat /\ j \in 1..(l + 1) /\ l \in 0..l /\ j <= l + 1
    BY ListLen
  <1>2. /\ Len(t) = l - j + 1
        /\ \A i \in 1..(l - j + 1) : i + j - 1 \in 1..l /\ t[i] = s[i + j - 1]
    BY <1>1, ListPart
  <1>3. ASSUME NEW i \in 1..Len(t), t[i].part = "head", t[i].type = "s" PROVE i = Len(t)
    <2>1. i \in 1..(l - j + 1) /\ i + j - 1 \in 1..l /\ t[i] = s[i + j - 1]
      BY <1>2
    <2>2. i + j - 1 = l
      BY <1>3, <2>1 DEF LastS
    <2>3. i = l - j + 1
      <3>1. i \in Nat /\ j \in Nat /\ l \in Nat
        BY <1>1, <2>1
      <3>2. \A a, b, c \in Nat : a + b - 1 = c => a = c - b + 1
        OBVIOUS
      <3> QED
        BY <2>2, <3>1, <3>2
    <2> QED
      BY <1>2, <2>3
  <1> QED
    BY <1>3 DEF LastS

LEMMA FrontMoves ==
    ASSUME NEW x, Remaining(wire, x), LastZ(wire), wire # <<>>, Head(wire).part = "head"
    PROVE  \E data, z : Moves(Head(wire).type, data, x, z, answer)
  <1>1. PICK rest : Listing(rest) /\ Leads(wire \o rest, x, <<Len(answer), 0>>, answer)
    BY DEF Remaining
  <1> DEFINE v == wire \o rest
             y == <<Len(answer), 0>>
  <1>2. v # <<>> /\ v[1] = Head(wire)
    BY <1>1, FrontOfRest
  <1>3. Leads(v, x, y, answer) /\ v[1].part = "head"
    BY <1>1, <1>2
  <1> HIDE DEF v, y
  <1>4. \E z : Moves(v[1].type, Payload(v, 1), x, z, answer)
    BY <1>2, <1>3, LeadsNext
  <1> QED
    BY <1>2, <1>4

\* What the server may still do changes nothing once execute's last result has
\* ended: the answer is complete, so Execute has been handled.
LEMMA ExecutedFinal ==
    ASSUME Executing, up, Len(answer) = 1, Listing(inbox), inbox' = inbox \o SyncMessages,
           srv' = srv
    PROVE  Final'
  <1>1. \/ srv.stage = "skipping"
        \/ ToFlush \/ inbox = <<>>
    <2>1. ~Asked
      <3>1. Len(<<>>) = 0 /\ 0 # 1
        OBVIOUS
      <3>2. answer # <<>>
        BY <3>1
      <3> QED
        BY <3>2 DEF Asked
    <2> QED
      BY <2>1 DEF Executing
  <1>2. CASE srv.stage = "skipping"
    BY <1>2 DEF Final
  <1>3. CASE ToFlush \/ inbox = <<>>
    <2> PICK x, y : x = [type |-> "C", data |-> 0] /\ y = [type |-> "S", data |-> 0]
      OBVIOUS
    <2> PICK b : b = <<x, y>>
      OBVIOUS
    <2>1. x.type = "C" /\ y.type = "S" /\ b = SyncMessages
      BY DEF SyncMessages
    <2>2. b \in Seq({x, y}) /\ Len(b) = 2 /\ b[1] = x /\ b[2] = y
      OBVIOUS
    <2>3. Listing(b) /\ \A k \in 1..2 : b[k] \in {x, y}
      <3>1. \A k \in 1..2 : k = 1 \/ k = 2
        OBVIOUS
      <3> QED
        BY <2>2, <3>1, ListOf
    <2> PICK m, s : m = Len(inbox) /\ s = inbox \o b
      OBVIOUS
    <2>4. /\ m \in Nat /\ Len(s) = m + 2
          /\ \A i \in 1..m : s[i] = inbox[i]
          /\ \A i \in (m + 1)..(m + 2) : s[i] = b[i - m]
      <3>1. /\ Len(inbox) \in Nat /\ Len(inbox \o b) = Len(inbox) + Len(b)
            /\ \A i \in 1..Len(inbox) : (inbox \o b)[i] = inbox[i]
            /\ \A i \in (Len(inbox) + 1)..(Len(inbox) + Len(b)) :
                   (inbox \o b)[i] = b[i - Len(inbox)]
        BY <2>3, ListConcat
      <3> QED
        BY <2>2, <3>1
    <2>5. \A i \in 1..m : inbox[i].type = "H"
      <3>1. CASE inbox = <<>>
        <4>1. m = 0
          BY <3>1
        <4> QED
          BY <4>1
      <3>2. CASE ToFlush
        BY <3>2 DEF ToFlush
      <3> QED
        BY <1>3, <3>1, <3>2
    <2>6. ASSUME NEW i \in 1..Len(s) PROVE s[i].type \notin {"P", "B", "E"}
      <3>1. CASE i \in 1..m
        BY <2>4, <2>5, <3>1
      <3>2. CASE i \notin 1..m
        <4>1. i \in (m + 1)..(m + 2) /\ i - m \in 1..2
          BY <2>4, <3>2
        <4>2. s[i] \in {x, y}
          BY <2>3, <2>4, <4>1
        <4> QED
          BY <2>1, <4>2
      <3> QED
        BY <3>1, <3>2
    <2>7. inbox' = s
      BY <2>1
    <2> QED
      BY <2>6, <2>7 DEF Final
  <1> QED
    BY <1>1, <1>2, <1>3

LEMMA ExecuteReads ==
    ASSUME Matched, Broken', pc = "execute", ClientStep, up => Serving
    PROVE  Matched'
  <1>1. got = <<>> /\ LastZ(wire) /\ Underway /\ Executing /\ Alone
    BY DEF Matched, Executing
  <1>2. Built /\ Remaining(wire, Point) /\ Listing(wire)
    BY <1>1 DEF Underway, LastZ
  <1>3. Ongoing \/ ReadFails \/ FlushFails \/ ExecuteEnds \/ ExecuteSuspends
    BY DEF ClientStep, InitError, InitSkips, InitReady, HandleAuth, QueryTag, QueryError,
       QueryOther, QueryReady, SyncSkips, SyncReady, Ongoing
  <1>4. CASE Ongoing
    <2>1. ~QueryOther /\ ~QueryTag /\ ~QueryError
      BY DEF QueryOther, QueryTag, QueryError
    <2>2. /\ Underway' /\ LastZ(wire')
          /\ \E j \in 1..(Len(wire) + 1) : wire' = SubSeq(wire, j, Len(wire))
          /\ UNCHANGED <<pc, got, inbox, held, srv, up, answer>>
      BY <1>1, <1>4, <2>1, OngoingBuilt
    <2>3. Len(results') = 1
      <3>1. Len(results) = 1 /\ \A q : Len(Back(q)) = 1
        BY <1>1, <1>2, BuiltFacts DEF Alone
      <3>2. results' = results \/ \E q : results' = Back(q)
        BY <1>4, <2>1 DEF Ongoing, SkipNotice, RowWhole, RowCut, ExecuteOther, client
      <3> QED
        BY <3>1, <3>2
    <2>4. LastS(wire') /\ (Free(wire, {"s"}) => Free(wire', {"s"}))
      BY <1>1, <1>2, <2>2, LastSPart, FreePart DEF Executing
    <2>5. Asked => Asked'
      BY <2>2 DEF Asked
    <2>6. Executing'
      BY <1>1, <2>2, <2>3, <2>4, <2>5 DEF Executing, Alone, ToFlush
    <2> QED
      BY <1>1, <2>2, <2>6, StillReading
  <1>5. CASE ReadFails \/ FlushFails
    <2>1. ~up' /\ pc' = "idle" /\ wire' = <<>> /\ got' = <<>>
      BY <1>1, <1>5 DEF ReadFails, FlushFails, GiveUp
    <2> QED
      BY <2>1, Rests
  <1>6. CASE ExecuteEnds
    <2> PICK type : type = Head(wire).type
      OBVIOUS
    <2>1. /\ wire # <<>> /\ Head(wire).part = "head" /\ type \in {"E", "I", "C"} /\ Skip
          /\ UNCHANGED <<got, held, srv, up, answer>> /\ pc' = "sync"
          /\ Send(SyncMessages)
          /\ results' = Back(IF type = "C" THEN set_command_tag(Last(results))
                             ELSE set_error(Last(results)))
      BY <1>6 DEF ExecuteEnds, Response, server
    <2>2. PICK data, z : Moves(type, data, Point, z, answer)
      BY <1>1, <1>2, <2>1, FrontMoves
    <2>3. type \in Ends /\ results' = Back(Ended(type))
      <3>1. CASE type = "C"
        <4>1. set_command_tag(Last(results)) = Ended(type)
          BY <3>1 DEF set_command_tag, Ended, Outcome
        <4> QED
          BY <2>1, <3>1, <4>1 DEF Ends
      <3>2. CASE type # "C"
        <4>1. set_error(Last(results)) = Ended(type)
          BY <2>1, <3>2 DEF set_error, Ended, Outcome
        <4> QED
          BY <2>1, <3>2, <4>1 DEF Ends
      <3> QED
        BY <3>1, <3>2
    <2>4. results' = answer' /\ Len(answer) = 1
      BY <1>1, <1>2, <2>1, <2>2, <2>3, LastBuilt
    <2>5. PICK j \in 1..(Len(wire) + 1) : wire' = SubSeq(wire, j, Len(wire))
      BY <1>1, <2>1, LaterPart
    <2>6. LastZ(wire')
      BY <1>1, <2>5, LastZPart
    <2>7. up' => Final'
      <3> SUFFICES ASSUME up PROVE Final'
        BY <2>1
      <3>1. out = <<>> /\ Listing(inbox)
        BY DEF Serving, NothingDue, Only
      <3>2. inbox' = inbox \o SyncMessages
        <4>1. inbox \o <<>> = inbox
          BY <3>1, ConcatEmpty
        <4> QED
          BY <2>1, <3>1, <4>1 DEF Send
      <3> QED
        BY <1>1, <2>1, <2>4, <3>1, <3>2, ExecutedFinal
    <2> QED
      BY <1>1, <2>1, <2>4, <2>6, <2>7 DEF Matched
  <1>7. CASE ExecuteSuspends
    <2>1. /\ wire # <<>> /\ Head(wire).part = "head" /\ Head(wire).type = "s" /\ HeaderRead
          /\ UNCHANGED <<inbox, held, srv, up, answer>> /\ pc' = "idle"
          /\ got' = <<Back(set_suspended(Last(results)))>>
      BY <1>7 DEF ExecuteSuspends, Response, server
    <2>2. PICK data, z : Moves("s", data, Point, z, answer)
      BY <1>1, <1>2, <2>1, FrontMoves
    <2>3. set_suspended(Last(results)) = Ended("s") /\ "s" \in Ends
      BY DEF set_suspended, Ended, Outcome, Ends
    <2>4. Back(Ended("s")) = answer
      BY <1>1, <1>2, <2>2, <2>3, LastBuilt
    <2>5. got'[1] = answer'
      BY <2>1, <2>3, <2>4
    <2>6. Head(wire) = wire[1] /\ Len(wire) \in Nat \ {0} /\ 1 \in 1..Len(wire)
      BY <1>2, <2>1, ListTail
    <2>7. wire' = <<>>
      <3>1. Len(wire) = 1
        BY <1>1, <2>1, <2>6 DEF Executing, LastS
      <3> QED
        BY <1>2, <2>1, <3>1, TailOfOne DEF HeaderRead
    <2>8. ~Free(wire, {"s"})
      BY <2>1, <2>6 DEF Free
    <2>9. up => inbox = <<>> /\ held = <<>> /\ srv.stage = "ready"
      <3>1. Len(<<>>) = 0
        OBVIOUS
      <3> QED
        BY <1>1, <2>8, <3>1 DEF Executing, Asked, ToFlush
    <2> QED
      BY <2>1, <2>5, <2>7, <2>9, Rests
  <1> QED
    BY <1>3, <1>4, <1>5, <1>6, <1>7

LEMMA SyncReads ==
    ASSUME Matched, Broken', pc = "sync", ClientStep, up' => Serving'
    PROVE  Matched'
  <1>1. got = <<>> /\ LastZ(wire) /\ (results # <<>> => results = answer /\ (up => Final))
    BY DEF Matched
  <1>2. SkipNotice \/ SyncSkips \/ ReadFails \/ SyncReady
    BY DEF ClientStep, FlushFails, InitError, InitSkips, InitReady, HandleAuth, RowWhole,
       RowCut, QueryTag, QueryError, QueryOther, QueryReady, ExecuteOther, ExecuteEnds,
       ExecuteSuspends
  <1>3. CASE SkipNotice \/ SyncSkips
    <2>1. /\ wire # <<>> /\ Head(wire).part = "head" /\ Skip
          /\ UNCHANGED <<pc, got, results, inbox, srv, up, answer>>
      BY <1>3 DEF SkipNotice, SyncSkips, Response, OtherResponse, client, server
    <2>2. LastZ(wire')
      BY <1>1, <2>1, LaterPart, LastZPart
    <2>3. (up => Final) => (up' => Final')
      BY <2>1 DEF Final
    <2> QED
      BY <1>1, <2>1, <2>2, <2>3 DEF Matched
  <1>4. CASE ReadFails
    <2>1. ~up' /\ pc' = "idle" /\ wire' = <<>> /\ got' = <<>>
      BY <1>1, <1>4 DEF ReadFails, GiveUp
    <2> QED
      BY <2>1, Rests
  <1>5. CASE SyncReady
    <2>1. /\ Front1({"Z"}) /\ Skip /\ m_query_ready' /\ pc' = "idle" /\ answer' = answer
          /\ got' = IF results = <<>> THEN <<>> ELSE <<results>>
      BY <1>5 DEF SyncReady, Response, Front1, server
    <2>2. wire' = <<>>
      BY <1>1, <2>1, SkipLeaves DEF Front1
    <2>3. got' # <<>> => got'[1] = answer'
      BY <1>1, <2>1
    <2>4. up' => inbox' = <<>> /\ held' = <<>> /\ srv'.stage = "ready"
      BY <2>1 DEF Serving, Idle
    <2> QED
      BY <2>1, <2>2, <2>3, <2>4, Rests
  <1> QED
    BY <1>2, <1>3, <1>4, <1>5

----------------------------------------------------------------------------
(* What the server answers *)

LEMMA BuiltGrown ==
    ASSUME Built, results' = results, answer' \in Seq(ResultSets), Len(answer) <= Len(answer'),
           \A k \in 1..Len(answer) : answer'[k] = answer[k]
    PROVE  Built' /\ Point' = Point
  <1> PICK n, r : n = Len(results) /\ r = results[n]
    OBVIOUS
  <1> PICK a, b : a = answer /\ b = answer'
    OBVIOUS
  <1> PICK m : m = Len(a)
    OBVIOUS
  <1>1. /\ results \in Seq(ResultSets) /\ n > 0 /\ r.type = "PENDING"
        /\ \A k \in 1..n - 1 : k \in 1..m /\ results[k] = a[k]
        /\ r.rows # <<>> => n \in 1..m
        /\ \A j \in 1..Len(r.rows) : j \in 1..Len(a[n].rows) /\ r.rows[j] = a[n].rows[j]
    BY DEF Built
  <1>2. m \in Nat /\ Len(b) \in Nat /\ m <= Len(b) /\ (\A k \in 1..m : b[k] = a[k])
        /\ b \in Seq(ResultSets) /\ n \in Nat
    <2>1. answer \in Seq(ResultSets) /\ results \in Seq(ResultSets)
      BY DEF Built
    <2> QED
      BY <2>1
  <1>3. \A k \in 1..m : k \in 1..Len(b)
    BY <1>2
  <1>4. \A k \in 1..n - 1 : k \in 1..Len(b) /\ results[k] = b[k]
    BY <1>1, <1>2, <1>3
  <1>5. r.rows # <<>> => n \in 1..Len(b) /\ b[n] = a[n]
    BY <1>1, <1>2, <1>3
  <1>6. \A j \in 1..Len(r.rows) : j \in 1..Len(b[n].rows) /\ r.rows[j] = b[n].rows[j]
    <2>1. CASE r.rows = <<>>
      <3>1. Len(r.rows) = 0
        BY <2>1
      <3> QED
        BY <3>1
    <2>2. CASE r.rows # <<>>
      BY <1>1, <1>5, <2>2
    <2> QED
      BY <2>1, <2>2
  <1>7. Built'
    BY <1>1, <1>2, <1>4, <1>5, <1>6 DEF Built
  <1> QED
    BY <1>7 DEF Point

LEMMA ArrivesBuilt ==
    ASSUME Underway, up, up' = up, Free(wire, {"Z"}), Free(held, {"Z"}), results' = results,
           NEW units, Listing(units), Hold(units) \/ Deliver(units),
           Leads(units, <<Len(answer), 0>>, <<Len(answer'), 0>>, answer'),
           answer' \in Seq(ResultSets), Len(answer) <= Len(answer'),
           \A k \in 1..Len(answer) : answer'[k] = answer[k]
    PROVE  Underway'
  <1> PICK x : x = Point
    OBVIOUS
  <1>1. Built /\ Remaining(wire, x)
    BY DEF Underway
  <1>2. answer \in Seq(ResultSets)
    BY <1>1 DEF Built
  <1>3. Len(answer) \in Nat /\ Len(answer') \in Nat
    BY <1>2
  <1>4. Remaining(wire, x)'
    BY <1>1, <1>3, Arrives
  <1>5. Built' /\ Point' = x
    BY <1>1, BuiltGrown
  <1> QED
    BY <1>4, <1>5, UnderwayNext

LEMMA RowsType ==
    ASSUME NEW i \in Nat, NEW from \in Nat, NEW to \in Nat, from <= to
    PROVE  RowsOf(i, from, to) \in Seq(Nat \X Nat)
  <1> DEFINE n == to - from
             row(k) == <<i, from + k>>
             s == [k \in 1..n |-> row(k)]
  <1>1. n \in Nat
    OBVIOUS
  <1>2. \A k \in 1..n : row(k) \in Nat \X Nat
    BY <1>1
  <1>3. s = RowsOf(i, from, to)
    BY DEF RowsOf, Row
  <1> HIDE DEF n, row
  <1>4. s \in Seq(Nat \X Nat)
    BY <1>1, <1>2
  <1> QED
    BY <1>3, <1>4

LEMMA ListMessage ==
    ASSUME NEW type, NEW data
    PROVE  Listing(Message(type, data)) /\ Listing(Bare(type))
  <1>1. Free(Message(type, data), {}) /\ Free(Bare(type), {})
    BY FreeMessage, FreeBare
  <1> QED
    BY <1>1 DEF Free

\* A message that says nothing of a result.
LEMMA LeadsSilent ==
    ASSUME NEW type \in Silent, NEW x \in Nat \X Nat, NEW a
    PROVE  Leads(Message(type, 0), x, x, a) /\ Leads(Bare(type), x, x, a)
  <1>1. type \notin Ends /\ type # "D" /\ type # "Z"
    BY DEF Silent, Ends
  <1>2. Moves(type, 0, x, x, a)
    BY <1>1 DEF Moves
  <1> QED
    BY <1>1, <1>2, LeadsMessage, LeadsBare

\* One that ends a result of which all rows have been sent.
LEMMA LeadsEnd ==
    ASSUME NEW type \in Ends, NEW a, NEW c \in 1..Len(a), Len(a) \in Nat,
           NEW m \in Nat, m = Len(a[c].rows), a[c].type = Outcome(type)
    PROVE  /\ Leads(Message(type, 0), <<c - 1, m>>, <<c, 0>>, a)
           /\ Leads(Bare(type), <<c - 1, m>>, <<c, 0>>, a)
  <1> PICK x, y : x = <<c - 1, m>> /\ y = <<c, 0>>
    OBVIOUS
  <1>1. type \notin Silent /\ type # "D" /\ type # "Z"
    BY DEF Silent, Ends
  <1>2. x \in Nat \X Nat /\ y \in Nat \X Nat /\ x[1] + 1 = c /\ x[2] = m
    OBVIOUS
  <1>3. Moves(type, 0, x, y, a)
    BY <1>1, <1>2 DEF Moves
  <1>4. Leads(Message(type, 0), x, y, a) /\ Leads(Bare(type), x, y, a)
    BY <1>1, <1>2, <1>3, LeadsMessage, LeadsBare
  <1> QED
    BY <1>4

LEMMA LeadsEnding ==
    ASSUME NEW st, NEW a, NEW c \in 1..Len(a), Len(a) \in Nat,
           NEW m \in Nat, m = Len(a[c].rows), a[c].type = EndType(st)
    PROVE  Leads(Ending(st), <<c - 1, m>>, <<c, 0>>, a)
  <1> PICK x, y : x = <<c - 1, m>> /\ y = <<c, 0>>
    OBVIOUS
  <1>1. x \in Nat \X Nat
    OBVIOUS
  <1>2. CASE st.kind = "fail"
    <2>1. a[c].type = Outcome("E") /\ "E" \in Ends
      BY <1>2 DEF EndType, Outcome, Ends
    <2>2. Leads(Message("E", 0), x, y, a)
      BY <2>1, LeadsEnd
    <2> QED
      BY <1>2, <2>2 DEF Ending
  <1>3. CASE st.kind # "fail"
    <2>1. a[c].type = Outcome("C") /\ "C" \in Ends
      BY <1>3 DEF EndType, Outcome, Ends
    <2>2. Leads(Message("C", 0), x, y, a)
      BY <2>1, LeadsEnd
    <2>3. Leads(Message("S", 0), x, x, a) /\ Leads(Message("N", 0), x, x, a)
      BY <1>1, LeadsSilent DEF Silent
    <2>4. /\ Leads(Message("S", 0) \o Message("C", 0), x, y, a)
          /\ Leads(Message("N", 0) \o Message("C", 0), x, y, a)
      BY <2>2, <2>3, LeadsConcat
    <2> QED
      BY <1>3, <2>2, <2>4 DEF Ending
  <1> QED
    BY <1>2, <1>3

\* The rows of a result and what ends it.
LEMMA LeadsResult ==
    ASSUME NEW a, NEW c \in 1..Len(a), Len(a) \in Nat, NEW rows, a[c].rows = rows,
           Len(rows) \in Nat, NEW ending, Leads(ending, <<c - 1, Len(rows)>>, <<c, 0>>, a)
    PROVE  Leads(DataRows(rows) \o ending, <<c - 1, 0>>, <<c, 0>>, a)
  <1> PICK x, y, z : x = <<c - 1, 0>> /\ y = <<c - 1, Len(rows)>> /\ z = <<c, 0>>
    OBVIOUS
  <1>1. Leads(DataRows(rows), x, y, a)
    BY LeadsRows
  <1>2. Leads(ending, y, z, a)
    OBVIOUS
  <1>3. Leads(DataRows(rows) \o ending, x, z, a)
    BY <1>1, <1>2, LeadsConcat
  <1> QED
    BY <1>3

\* An error in the extended protocol is the only result.
LEMMA ErrorAnswer ==
    ASSUME NEW e, e = [type |-> "ERROR", rows |-> <<>>], NEW a, a = <<e>>
    PROVE  /\ a \in Seq(ResultSets) /\ Len(a) = 1 /\ a[1] = e
           /\ Leads(Refuse, <<0, 0>>, <<1, 0>>, a) /\ Leads(Bare("I"), <<0, 0>>, <<1, 0>>, a)
  <1>1. e \in ResultSets
    BY DEF ResultSets
  <1>2. a \in Seq(ResultSets) /\ Len(a) = 1 /\ a[1] = e
    BY <1>1
  <1>3. e.type = Outcome("E") /\ e.type = Outcome("I") /\ Len(e.rows) = 0
        /\ "E" \in Ends /\ "I" \in Ends
    BY DEF Outcome, Ends
  <1> PICK c, m : c = 1 /\ m = 0
    OBVIOUS
  <1>4. /\ c \in 1..Len(a) /\ Len(a) \in Nat /\ m \in Nat /\ m = Len(a[c].rows)
        /\ a[c].type = Outcome("E") /\ a[c].type = Outcome("I") /\ c - 1 = 0
    BY <1>2, <1>3
  <1>5. Leads(Message("E", 0), <<c - 1, m>>, <<c, 0>>, a)
    BY <1>3, <1>4, LeadsEnd
  <1>6. Leads(Bare("I"), <<c - 1, m>>, <<c, 0>>, a)
    BY <1>3, <1>4, LeadsEnd
  <1> QED
    BY <1>2, <1>4, <1>5, <1>6 DEF Refuse

----------------------------------------------------------------------------
(* The server and query *)

StatementUnits(st, i) ==
    (IF st.kind = "select" THEN Message("T", 0) ELSE <<>>)
        \o DataRows(RowsOf(i, 0, st.rows)) \o Ending(st)
StatementResult(st, i) == [type |-> EndType(st), rows |-> RowsOf(i, 0, st.rows)]

\* These units tell of what b has more than a.
Adds(units, a, b) ==
    /\ b \in Seq(ResultSets) /\ Len(a) <= Len(b)
    /\ \A k \in 1..Len(a) : b[k] = a[k]
    /\ Listing(units) /\ Leads(units, <<Len(a), 0>>, <<Len(b), 0>>, b)

\* A statement's units lead to one more result.
LEMMA StatementLeads ==
    ASSUME NEW a \in Seq(ResultSets), NEW st \in Statements, NEW i, i = Len(a) + 1,
           NEW b, b = Append(a, StatementResult(st, i)),
           NEW units, units = StatementUnits(st, i)
    PROVE  Adds(units, a, b) /\ Free(units, {"s"})
  <1> PICK rows : rows = RowsOf(i, 0, st.rows)
    OBVIOUS
  <1> PICK first : first = IF st.kind = "select" THEN Message("T", 0) ELSE <<>>
    OBVIOUS
  <1> PICK e : e = StatementResult(st, i)
    OBVIOUS
  <1>0. units = first \o DataRows(rows) \o Ending(st)
    BY DEF StatementUnits
  <1>1. rows \in Seq(Nat \X Nat) /\ Len(rows) \in Nat
    <2>1. st.rows \in Nat /\ 0 <= st.rows /\ Len(a) \in Nat
      BY StatementRows
    <2>2. i \in Nat
      BY <2>1
    <2>3. RowsOf(i, 0, st.rows) \in Seq(Nat \X Nat)
      BY <2>1, <2>2, RowsType
    <2> QED
      BY <2>3
  <1>2. e \in ResultSets /\ e.rows = rows /\ e.type = EndType(st)
    BY <1>1 DEF ResultSets, EndType, StatementResult
  <1>3. /\ b \in Seq(ResultSets) /\ Len(a) \in Nat /\ Len(b) = i /\ i \in Nat \ {0}
        /\ b[i] = e /\ i - 1 = Len(a) /\ Len(a) <= Len(b) /\ i \in 1..Len(b)
        /\ \A k \in 1..Len(a) : b[k] = a[k]
    BY <1>2
  <1> PICK x, y, z : x = <<i - 1, 0>> /\ y = <<i - 1, Len(rows)>> /\ z = <<i, 0>>
    OBVIOUS
  <1>4. Leads(DataRows(rows), x, y, b)
    BY <1>1, <1>2, <1>3, LeadsRows
  <1>5. Leads(Ending(st), y, z, b)
    BY <1>1, <1>2, <1>3, LeadsEnding
  <1>6. Leads(first, x, x, b)
    <2>1. x \in Nat \X Nat
      BY <1>3
    <2>2. Leads(Message("T", 0), x, x, b) /\ Leads(<<>>, x, x, b)
      BY <2>1, LeadsSilent, LeadsEmpty DEF Silent
    <2> QED
      BY <2>2
  <1>7. Leads(first \o DataRows(rows), x, y, b)
    BY <1>4, <1>6, LeadsConcat
  <1>8. Leads(first \o DataRows(rows) \o Ending(st), x, z, b)
    BY <1>5, <1>7, LeadsConcat
  <1>9. x = <<Len(a), 0>> /\ z = <<Len(b), 0>>
    BY <1>3
  <1>10. Free(first \o DataRows(rows) \o Ending(st), {"s"})
    <2>1. Free(Message("T", 0), {"s"}) /\ Free(<<>>, {"s"})
      BY FreeMessage, FreeEmpty
    <2>2. Free(first, {"s"})
      BY <2>1
    <2>3. Free(DataRows(rows), {"s"}) /\ Free(Ending(st), {"s"})
      BY <1>1, FreeRows, FreeEnding
    <2>4. Free(first \o DataRows(rows), {"s"})
      BY <2>2, <2>3, FreeConcat
    <2> QED
      BY <2>3, <2>4, FreeConcat
  <1>11. Free(units, {"s"}) /\ Leads(units, x, z, b)
    BY <1>0, <1>8, <1>10
  <1>12. Listing(units)
    BY <1>11 DEF Free
  <1> QED
    BY <1>3, <1>9, <1>11, <1>12 DEF Adds

\* ReadyForQuery comes when all results have.
LEMMA ReadyLeads ==
    ASSUME NEW a, Len(a) \in Nat, NEW x, x = <<Len(a), 0>>
    PROVE  Leads(Message("Z", 0), x, x, a)
  <1>1. x \in Nat \X Nat
    OBVIOUS
  <1>2. Moves("Z", 0, x, x, a)
    BY DEF Moves, Silent, Ends
  <1> QED
    BY <1>1, <1>2, LeadsMessage

LEMMA AddsBuilt ==
    ASSUME Underway, up, up' = up, Free(wire, {"Z"}), Free(held, {"Z"}), results' = results,
           NEW units, Hold(units) \/ Deliver(units), Adds(units, answer, answer')
    PROVE  Underway'
  BY ArrivesBuilt DEF Adds

LEMMA DeliveredFree ==
    ASSUME NEW types, Free(wire, types), Free(held, types), NEW units, Free(units, types),
           Deliver(units) \/ Hold(units)
    PROVE  Free(wire', types) /\ Free(held', types)
  <1>1. Free(wire \o held, types) /\ Free(held \o units, types) /\ Free(<<>>, types)
    BY FreeConcat, FreeEmpty
  <1>2. Free(wire \o held \o units, types)
    BY <1>1, FreeConcat
  <1> QED
    BY <1>1, <1>2 DEF Deliver, Hold

\* What the server is asked while query reads.
LEMMA QueryInbox ==
    ASSUME pc = "query", Serving, ServerStep
    PROVE  /\ Len(inbox) = 1 /\ Head(inbox).type = "Q" /\ Head(inbox).data \in Queries
           /\ Len(answer) <= Len(Head(inbox).data)
           /\ held = <<>> /\ Free(wire, {"Z"}) /\ srv.stage = "ready"
           /\ ServeStatement \/ ServeQuery
  <1>1. inbox # <<>> /\ QueryDue
    BY ServerReads DEF Serving
  <1>2. /\ Len(inbox) = 1 /\ Listing(inbox)
        /\ inbox[1].type = "Q" /\ inbox[1].data \in Queries
        /\ Len(answer) <= Len(inbox[1].data)
        /\ held = <<>> /\ srv = Idle /\ Free(wire, {"Z"})
    BY <1>1 DEF QueryDue, Answered
  <1>3. Head(inbox) = inbox[1] /\ srv.stage = "ready"
    BY <1>1, <1>2, ListTail DEF Idle
  <1>4. ServeStatement \/ ServeQuery
    BY <1>2, <1>3 DEF ServerStep, ServeStartup, ServePassword, ServeFirst, ServeFinal,
       ServeParse, ServeBind, ServeExecute, ServeFlush, ServeClose, ServeSkips, ServeSync, Handles
  <1> QED
    BY <1>2, <1>3, <1>4

LEMMA QueryServes ==
    ASSUME Matched, Broken', pc = "query", up, ServerStep, Serving, Serving'
    PROVE  Matched'
  <1> PICK q : q = Head(inbox).data
    OBVIOUS
  <1>1. got = <<>> /\ Underway /\ Free(wire, {"s"}) /\ answer \in Seq(ResultSets)
    BY DEF Matched, Underway, Built
  <1>2. UNCHANGED <<pc, got, results, up>>
    BY ServerFrame DEF client
  <1>3. LastZ(wire')
    BY <1>2, FreeLastZ DEF Serving, QueryDue, Answered
  <1>4. /\ q \in Queries /\ Len(answer) <= Len(q)
        /\ held = <<>> /\ Free(wire, {"Z"}) /\ srv.stage = "ready"
        /\ ServeStatement \/ ServeQuery
    BY QueryInbox
  <1>5. Free(held, {"Z"}) /\ Free(held, {"s"})
    BY <1>4, FreeEmpty
  <1>6. \E units : Deliver(units) /\ Free(units, {"s"}) /\ Adds(units, answer, answer')
    <2>1. CASE ServeStatement
      <3> PICK i : i = Len(answer) + 1
        OBVIOUS
      <3> PICK st : st = q[i]
        OBVIOUS
      <3>1. ~Ran(q) /\ Deliver(StatementUnits(st, i))
            /\ answer' = Append(answer, StatementResult(st, i))
        BY <2>1 DEF ServeStatement, StatementUnits, StatementResult
      <3>2. st \in Statements
        <4>1. Len(q) \in Nat /\ Len(answer) \in Nat /\ \A k \in 1..Len(q) : q[k] \in Statements
          BY <1>1, <1>4 DEF Queries
        <4>2. Len(answer) # Len(q)
          BY <3>1 DEF Ran
        <4>3. i \in 1..Len(q)
          BY <1>4, <4>1, <4>2
        <4> QED
          BY <4>1, <4>3
      <3> PICK a : a = answer
        OBVIOUS
      <3> PICK b : b = answer'
        OBVIOUS
      <3> PICK units : units = StatementUnits(st, i)
        OBVIOUS
      <3>3. a \in Seq(ResultSets) /\ i = Len(a) + 1 /\ b = Append(a, StatementResult(st, i))
        BY <1>1, <3>1
      <3>4. Adds(units, a, b) /\ Free(units, {"s"})
        BY <3>2, <3>3, StatementLeads
      <3>5. Deliver(units)
        BY <3>1
      <3> QED
        BY <3>4, <3>5
    <2>2. CASE ServeQuery
      <3>1. /\ Ran(q) /\ Deliver((IF q = <<>> THEN Bare("I") ELSE <<>>) \o Message("Z", 0))
            /\ answer' = IF q = <<>> THEN <<[type |-> "ERROR", rows |-> <<>>]>> ELSE answer
        BY <2>2 DEF ServeQuery
      <3>2. Free(Message("Z", 0), {"s"}) /\ Free(Bare("I"), {"s"}) /\ Len(answer) \in Nat
        BY <1>1, FreeMessage, FreeBare
      <3>3. CASE q = <<>>
        <4> PICK x, e, b : x = <<0, 0>> /\ e = [type |-> "ERROR", rows |-> <<>>] /\ b = <<e>>
          OBVIOUS
        <4>1. Len(answer) = 0 /\ answer' = b
          <5>1. Len(<<>>) = 0
            OBVIOUS
          <5> QED
            BY <1>4, <3>1, <3>2, <3>3, <5>1
        <4>2. /\ b \in Seq(ResultSets) /\ Len(b) = 1
              /\ Leads(Bare("I"), <<0, 0>>, <<1, 0>>, b)
          BY ErrorAnswer
        <4>3. Leads(Message("Z", 0), <<1, 0>>, <<1, 0>>, b)
          BY <4>2, ReadyLeads
        <4>4. Leads(Bare("I") \o Message("Z", 0), <<0, 0>>, <<1, 0>>, b)
          BY <4>2, <4>3, LeadsConcat
        <4>5. Free(Bare("I") \o Message("Z", 0), {"s"})
          BY <3>2, FreeConcat
        <4>8. Listing(Bare("I") \o Message("Z", 0))
          BY <4>5 DEF Free
        <4>6. Deliver(Bare("I") \o Message("Z", 0))
          BY <3>1, <3>3
        <4>7. Len(answer) <= Len(b) /\ \A k \in 1..Len(answer) : b[k] = answer[k]
          BY <4>1, <4>2
        <4>9. Adds(Bare("I") \o Message("Z", 0), answer, answer')
          BY <4>1, <4>2, <4>4, <4>7, <4>8 DEF Adds
        <4> QED
          BY <4>5, <4>6, <4>9
      <3>4. CASE q # <<>>
        <4>1. answer' = answer /\ Deliver(<<>> \o Message("Z", 0))
          BY <3>1, <3>4
        <4>2. <<>> \o Message("Z", 0) = Message("Z", 0) /\ Listing(Message("Z", 0))
          BY <3>2, ConcatEmpty DEF Free
        <4>3. Leads(Message("Z", 0), <<Len(answer), 0>>, <<Len(answer), 0>>, answer)
          BY <3>2, ReadyLeads
        <4>4. Deliver(Message("Z", 0))
          BY <4>1, <4>2
        <4>5. Adds(Message("Z", 0), answer, answer')
          BY <1>1, <3>2, <4>1, <4>2, <4>3 DEF Adds
        <4> QED
          BY <3>2, <4>4, <4>5
      <3> QED
        BY <3>3, <3>4
    <2> QED
      BY <1>4, <2>1, <2>2
  <1>7. PICK units : Deliver(units) /\ Free(units, {"s"}) /\ Adds(units, answer, answer')
    BY <1>6
  <1>8. Underway'
    BY <1>1, <1>2, <1>4, <1>5, <1>7, AddsBuilt
  <1>9. Free(wire', {"s"})
    BY <1>1, <1>5, <1>7, DeliveredFree
  <1> QED
    BY <1>1, <1>2, <1>3, <1>8, <1>9, StillReading

----------------------------------------------------------------------------
(* The server and execute *)

LEMMA FreeLastS == ASSUME NEW s, Free(s, {"s"}) PROVE LastS(s)
  BY DEF Free, LastS

LEMMA LastSConcat ==
    ASSUME NEW a, NEW b, Free(a, {"s"}), Listing(b), LastS(b)
    PROVE  LastS(a \o b)
  <1> PICK l, m : l = Len(a) /\ m = Len(b)
    OBVIOUS
  <1> PICK s : s = a \o b
    OBVIOUS
  <1>1. /\ l \in Nat /\ m \in Nat /\ Len(s) = l + m
        /\ \A i \in 1..l : s[i] = a[i]
        /\ \A i \in (l + 1)..(l + m) : s[i] = b[i - l]
    <2>1. Listing(a)
      BY DEF Free
    <2>2. /\ Len(a) \in Nat /\ Len(b) \in Nat /\ Len(a \o b) = Len(a) + Len(b)
          /\ \A i \in 1..Len(a) : (a \o b)[i] = a[i]
          /\ \A i \in (Len(a) + 1)..(Len(a) + Len(b)) : (a \o b)[i] = b[i - Len(a)]
      BY <2>1, ListConcat
    <2> QED
      BY <2>2
  <1>2. ASSUME NEW i \in 1..Len(s), s[i].part = "head", s[i].type = "s" PROVE i = Len(s)
    <2>1. CASE i \in 1..l
      BY <1>1, <1>2, <2>1 DEF Free
    <2>2. CASE i \in (l + 1)..(l + m)
      <3>1. i - l \in 1..m /\ s[i] = b[i - l]
        BY <1>1, <2>2
      <3>2. i - l = m
        BY <1>2, <3>1 DEF LastS
      <3>3. i \in Nat /\ \A x, y, z \in Nat : x - y = z => x = y + z
        BY <2>2, <1>1
      <3> QED
        BY <1>1, <3>2, <3>3
    <2> QED
      BY <1>1, <2>1, <2>2
  <1>3. LastS(s)
    BY <1>2 DEF LastS
  <1> QED
    BY <1>3

\* PortalSuspended is one unit.
LEMMA LastSBare == LastS(Bare("s")) /\ Listing(Bare("s"))
  <1> PICK h : h = Header("s", 0)
    OBVIOUS
  <1>1. <<h>> \in Seq({h}) /\ Len(<<h>>) = 1
    OBVIOUS
  <1>2. \A i \in 1..1 : i = 1
    OBVIOUS
  <1>3. LastS(<<h>>)
    BY <1>1, <1>2 DEF LastS
  <1> QED
    BY <1>3, ListMessage DEF Bare

\* A portal's rows, and its end or its suspension.
LEMMA PortalAdds ==
    ASSUME NEW rows \in Seq(Nat \X Nat), NEW type, NEW e, e = [type |-> type, rows |-> rows],
           NEW b, b = <<e>>, NEW ending,
           \/ type = "SUSPENDED" /\ ending = Bare("s")
           \/ \E st : type = EndType(st) /\ ending = Ending(st)
    PROVE  Adds(DataRows(rows) \o ending, <<>>, b) /\ Len(b) = 1
  <1>1. type \in {"SUCCESS", "ERROR", "SUSPENDED"}
    BY DEF EndType
  <1>2. e \in ResultSets /\ e.type = type /\ e.rows = rows
    BY <1>1 DEF ResultSets
  <1> PICK c, m : c = 1 /\ m = Len(rows)
    OBVIOUS
  <1>3. /\ b \in Seq(ResultSets) /\ Len(b) = 1 /\ c \in 1..Len(b) /\ b[c] = e
        /\ m \in Nat /\ m = Len(b[c].rows) /\ b[c].rows = rows /\ Len(b) \in Nat
    BY <1>2
  <1>4. Leads(ending, <<c - 1, m>>, <<c, 0>>, b) /\ Listing(ending)
    <2>1. CASE type = "SUSPENDED" /\ ending = Bare("s")
      <3>1. b[c].type = Outcome("s") /\ "s" \in Ends
        BY <1>2, <1>3, <2>1 DEF Outcome, Ends
      <3>2. Leads(Bare("s"), <<c - 1, m>>, <<c, 0>>, b)
        BY <1>3, <3>1, LeadsEnd
      <3> QED
        BY <2>1, <3>2, LastSBare
    <2>2. ASSUME NEW st, type = EndType(st), ending = Ending(st)
          PROVE  Leads(ending, <<c - 1, m>>, <<c, 0>>, b) /\ Listing(ending)
      <3>1. b[c].type = EndType(st)
        BY <1>2, <1>3, <2>2
      <3>2. Leads(Ending(st), <<c - 1, m>>, <<c, 0>>, b)
        BY <1>3, <3>1, LeadsEnding
      <3>3. Free(Ending(st), {})
        BY FreeEnding
      <3> QED
        BY <2>2, <3>2, <3>3 DEF Free
    <2> QED
      BY <2>1, <2>2
  <1>5. Leads(DataRows(rows) \o ending, <<c - 1, 0>>, <<c, 0>>, b)
    BY <1>3, <1>4, LeadsResult
  <1>6. Listing(DataRows(rows) \o ending)
    <2>1. Free(DataRows(rows), {})
      BY <1>3, FreeRows
    <2>2. Listing(DataRows(rows))
      BY <2>1 DEF Free
    <2> QED
      BY <1>4, <2>2, ListConcat
  <1>7. Len(<<>>) = 0 /\ c - 1 = 0 /\ c = Len(b) /\ Len(<<>>) <= Len(b) /\ \A k \in 1..0 : FALSE
    BY <1>3
  <1>8. Leads(DataRows(rows) \o ending, <<Len(<<>>), 0>>, <<Len(b), 0>>, b)
    BY <1>5, <1>7
  <1> QED
    BY <1>3, <1>6, <1>7, <1>8 DEF Adds

LEMMA ErrorAdds ==
    ASSUME ServeError, answer = <<>>
    PROVE  /\ Hold(Refuse) /\ Adds(Refuse, answer, answer') /\ Len(answer') = 1
           /\ Free(Refuse, {"s"})
  <1> PICK e : e = [type |-> "ERROR", rows |-> <<>>]
    OBVIOUS
  <1> PICK b : b = <<e>>
    OBVIOUS
  <1>1. Hold(Refuse) /\ answer' = b
    BY DEF ServeError
  <1>2. b \in Seq(ResultSets) /\ Len(b) = 1 /\ Leads(Refuse, <<0, 0>>, <<1, 0>>, b)
    BY ErrorAnswer
  <1>3. Free(Refuse, {"s"}) /\ Listing(Refuse)
    BY FreeMessage, ListMessage DEF Refuse
  <1>4. Len(<<>>) = 0 /\ \A k \in 1..0 : FALSE
    OBVIOUS
  <1>5. Adds(Refuse, <<>>, b)
    BY <1>2, <1>3, <1>4 DEF Adds
  <1> QED
    BY <1>1, <1>2, <1>3, <1>5

\* Execute is answered with one result, which is the last if it is suspended.
LEMMA ExecuteAdds ==
    ASSUME Serving, pc = "execute", ServeExecute, answer = <<>>
    PROVE  /\ inbox # <<>> /\ inbox' = Tail(inbox) /\ Len(answer') = 1
           /\ \E units : /\ Hold(units) /\ Adds(units, answer, answer')
                         /\ \/ srv'.stage = srv.stage /\ LastS(units)
                            \/ srv'.stage = "skipping" /\ Free(units, {"s"})
  <1> DEFINE max == Head(inbox).data
             st == srv.portal[1].st
             done == srv.portal[1].done
             full == max > 0 /\ st.rows - done >= max
             end == IF full THEN done + max ELSE st.rows
             rows == RowsOf(1, done, end)
             ending == IF full THEN Bare("s") ELSE Ending(st)
             type == IF full THEN "SUSPENDED" ELSE EndType(st)
             units == DataRows(rows) \o ending
  <1>1. /\ inbox # <<>> /\ Head(inbox).type = "E" /\ inbox' = Tail(inbox)
        /\ srv \in ServerStates
    BY DEF ServeExecute, Handles, Serving
  <1>2. CASE srv.portal = <<>>
    <2>1. ServeError
      BY <1>2 DEF ServeExecute
    <2>2. srv'.stage = "skipping"
      BY <1>1, <2>1 DEF ServeError, ServerStates
    <2> QED
      BY <1>1, <2>1, <2>2, ErrorAdds
  <1>3. CASE srv.portal # <<>>
    <2>1. PICK p \in OpenPortals : srv.portal = <<p>>
      BY <1>1, <1>3 DEF ServerStates
    <2>2. /\ p = [st |-> st, done |-> done] /\ st \in Statements
          /\ st.rows \in Nat /\ done \in Nat /\ done <= st.rows
      BY <2>1, StatementRows DEF OpenPortals
    <2>3. max \in Nat
      BY <1>1, HeadTyped DEF Typed, Asks
    <2>4. end \in Nat /\ done <= end
      BY <2>2, <2>3
    <2>5. /\ Hold(units) /\ answer' = <<[type |-> type, rows |-> rows]>>
          /\ srv' = [srv EXCEPT !.portal[1].done = end,
                                !.stage = IF ~full /\ st.kind = "fail" THEN "skipping" ELSE @]
      BY <1>3 DEF ServeExecute
    <2>6. srv'.stage = IF ~full /\ st.kind = "fail" THEN "skipping" ELSE srv.stage
      BY <1>1, <2>5 DEF ServerStates
    <2>7. rows \in Seq(Nat \X Nat)
      BY <2>2, <2>4, RowsType
    <2>8. \/ type = "SUSPENDED" /\ ending = Bare("s")
          \/ type = EndType(st) /\ ending = Ending(st)
      OBVIOUS
    <2>9. LastS(ending) /\ (full \/ Free(ending, {"s"})) /\ Listing(ending)
      <3>1. CASE full
        BY <3>1, LastSBare
      <3>2. CASE ~full
        <4>1. Free(Ending(st), {"s"})
          BY FreeEnding
        <4>2. Free(ending, {"s"})
          BY <3>2, <4>1
        <4> HIDE DEF ending
        <4>3. LastS(ending)
          BY <4>2, FreeLastS
        <4>4. Listing(ending)
          BY <4>2 DEF Free
        <4> QED
          BY <4>2, <4>3, <4>4
      <3> QED
        BY <3>1, <3>2
    <2> HIDE DEF rows, ending, type, end, full, st, done, max
    <2>10. Adds(units, <<>>, answer') /\ Len(answer') = 1
      BY <2>5, <2>7, <2>8, PortalAdds
    <2>11. Free(DataRows(rows), {"s"})
      BY <2>7, FreeRows
    <2>12. LastS(units) /\ (full \/ Free(units, {"s"}))
      BY <2>9, <2>11, LastSConcat, FreeConcat
    <2> HIDE DEF units
    <2> QED
      BY <1>1, <2>5, <2>6, <2>10, <2>12
  <1> QED
    BY <1>2, <1>3

\* While Execute has not been handled, what comes before it is Parse or Bind.
LEMMA AskedHead ==
    ASSUME Asked, Listing(inbox), NEW s, s = Tail(inbox)
    PROVE  /\ inbox # <<>>
           /\ \/ /\ Head(inbox).type = "E" /\ Len(s) = 1 /\ s[1].type = "H"
              \/ /\ Head(inbox).type \in {"P", "B"} /\ Len(s) >= 2
                 /\ s[Len(s)].type = "H" /\ s[Len(s) - 1].type = "E"
                 /\ \A i \in 1..Len(s) - 2 : s[i].type \in {"P", "B"}
  <1> PICK n : n = Len(inbox)
    OBVIOUS
  <1>1. /\ n >= 2 /\ inbox[n].type = "H" /\ inbox[n - 1].type = "E"
        /\ \A i \in 1..n - 2 : inbox[i].type \in {"P", "B"}
    BY DEF Asked
  <1>2. inbox # <<>>
    <2>1. Len(<<>>) = 0
      OBVIOUS
    <2> QED
      BY <1>1, <2>1
  <1>3. /\ n \in Nat /\ Head(inbox) = inbox[1] /\ Len(s) = n - 1
        /\ \A i \in 1..(n - 1) : s[i] = inbox[i + 1]
    BY <1>2, ListTail
  <1>4. CASE n = 2
    <2>1. Len(s) = 1 /\ s[1] = inbox[2] /\ n - 1 = 1
      BY <1>3, <1>4
    <2> QED
      BY <1>1, <1>2, <1>3, <1>4, <2>1
  <1>5. CASE n # 2
    <2>1. Len(s) \in 1..(n - 1) /\ Len(s) - 1 \in 1..(n - 1) /\ Len(s) >= 2
          /\ 1 \in 1..n - 2 /\ Len(s) + 1 = n /\ (Len(s) - 1) + 1 = n - 1
      BY <1>1, <1>3, <1>5
    <2>2. s[Len(s)] = inbox[n] /\ s[Len(s) - 1] = inbox[n - 1]
      BY <1>3, <2>1
    <2>3. ASSUME NEW i \in 1..Len(s) - 2 PROVE s[i].type \in {"P", "B"}
      <3>1. i \in 1..(n - 1) /\ i + 1 \in 1..n - 2
        BY <1>3, <2>1
      <3> QED
        BY <1>1, <1>3, <3>1
    <2> QED
      BY <1>1, <1>2, <1>3, <2>1, <2>2, <2>3
  <1> QED
    BY <1>4, <1>5

LEMMA AskedStill ==
    ASSUME Asked, Listing(inbox), Head(inbox).type # "E", inbox' = Tail(inbox),
           answer' = answer, srv'.stage = "ready"
    PROVE  Asked'
  <1> PICK s : s = Tail(inbox)
    OBVIOUS
  <1>1. /\ Len(s) >= 2 /\ s[Len(s)].type = "H" /\ s[Len(s) - 1].type = "E"
        /\ \A i \in 1..Len(s) - 2 : s[i].type \in {"P", "B"}
    BY AskedHead
  <1>2. inbox' = s /\ answer' = <<>>
    BY DEF Asked
  <1> QED
    BY <1>1, <1>2 DEF Asked

LEMMA NothingAdded ==
    ASSUME NEW a \in Seq(ResultSets), NEW units, Listing(units),
           units = <<>> \/ \E type \in Silent : units = Bare(type)
    PROVE  Adds(units, a, a)
  <1> PICK x : x = <<Len(a), 0>>
    OBVIOUS
  <1>1. x \in Nat \X Nat /\ Len(a) <= Len(a)
    OBVIOUS
  <1>2. Leads(units, x, x, a)
    BY <1>1, LeadsEmpty, LeadsSilent
  <1> QED
    BY <1>1, <1>2 DEF Adds

\* The server's steps while execute reads.
ExecuteAnswer(units) ==
    /\ Hold(units) \/ Deliver(units)
    /\ Adds(units, answer, answer')
    /\ Executing'

\* What holds before each of them.
ExecuteServing ==
    /\ Executing /\ NothingDue /\ Listing(inbox) /\ inbox # <<>>
    /\ answer \in Seq(ResultSets) /\ Len(results') = 1
    /\ up /\ up' = up /\ srv \in ServerStates

LEMMA ExecuteAnswers ==
    ASSUME ExecuteServing,
           NEW units, Listing(units), LastS(units), Hold(units),
           Adds(units, answer, answer'), Free(held, {"s"}), Free(wire, {"s"}),
           Len(answer') <= 1,
           Free(units, {"s"}) \/ (ToFlush /\ srv.stage = "ready")',
           Asked' \/ (Len(answer') = 1 /\ (srv'.stage = "skipping" \/ (ToFlush /\ srv.stage = "ready")'))
    PROVE  ExecuteAnswer(units)
  <1>1. wire' = wire /\ held' = held \o units
    BY DEF Hold
  <1>2. LastS(held') /\ LastS(wire') /\ Free(wire', {"s"})
    BY <1>1, LastSConcat, FreeLastS
  <1>3. Free(held', {"s"}) \/ (ToFlush /\ srv.stage = "ready")'
    BY <1>1, FreeConcat
  <1>4. Alone'
    BY DEF Alone, ExecuteServing
  <1>5. Executing'
    BY <1>2, <1>3, <1>4 DEF Executing
  <1> QED
    BY <1>5 DEF ExecuteAnswer

LEMMA ExecuteParse ==
    ASSUME ExecuteServing, Asked, Free(held, {"s"}), Free(wire, {"s"}),
           ServeParse \/ ServeBind
    PROVE  \E units : ExecuteAnswer(units)
  <1>1. answer = <<>> /\ srv.stage = "ready" /\ Len(<<>>) = 0 /\ Listing(inbox)
    BY DEF Asked, ExecuteServing
  <1>2. ASSUME NEW type \in {"1", "2"}, Hold(Bare(type)), answer' = answer, srv'.stage = "ready",
               Head(inbox).type # "E", inbox' = Tail(inbox)
        PROVE  ExecuteAnswer(Bare(type))
    <2>1. Free(Bare(type), {"s"}) /\ Listing(Bare(type))
      BY FreeBare, ListMessage
    <2>2. Adds(Bare(type), answer, answer')
      <3>1. answer \in Seq(ResultSets) /\ type \in Silent
        BY DEF ExecuteServing, Silent
      <3> QED
        BY <1>2, <2>1, <3>1, NothingAdded
    <2>3. Asked'
      BY <1>1, <1>2, AskedStill
    <2>4. LastS(Bare(type))
      BY <2>1, FreeLastS
    <2>5. Len(answer') <= 1
      BY <1>1, <1>2
    <2> QED
      BY <1>2, <2>1, <2>2, <2>3, <2>4, <2>5, ExecuteAnswers
  <1>3. CASE ServeParse
    <2>1. /\ Head(inbox).type # "E" /\ inbox' = Tail(inbox)
          /\ ServeError \/ (Hold(Bare("1")) /\ UNCHANGED <<srv, answer>>)
      BY <1>3 DEF ServeParse, Handles
    <2>2. CASE ServeError
      <3>1. /\ Hold(Refuse) /\ Adds(Refuse, answer, answer') /\ Len(answer') = 1
            /\ Free(Refuse, {"s"})
        BY <1>1, <2>2, ErrorAdds
      <3>2. srv'.stage = "skipping"
        BY <2>2 DEF ServeError, ExecuteServing, ServerStates
      <3>3. LastS(Refuse) /\ Listing(Refuse)
        BY <3>1, FreeLastS DEF Adds
      <3>4. ExecuteAnswer(Refuse)
        BY <3>1, <3>2, <3>3, ExecuteAnswers
      <3> QED
        BY <3>4
    <2>3. CASE Hold(Bare("1")) /\ UNCHANGED <<srv, answer>>
      BY <1>1, <1>2, <2>1, <2>3
    <2> QED
      BY <2>1, <2>2, <2>3
  <1>4. CASE ServeBind
    <2>1. /\ Head(inbox).type # "E" /\ inbox' = Tail(inbox) /\ Hold(Bare("2"))
          /\ srv' = [srv EXCEPT !.portal = <<[st |-> Head(inbox).data, done |-> 0]>>]
          /\ answer' = answer
      BY <1>4 DEF ServeBind, Handles
    <2>2. srv'.stage = "ready"
      BY <1>1, <2>1 DEF ExecuteServing, ServerStates
    <2> QED
      BY <1>2, <2>1, <2>2
  <1> QED
    BY <1>3, <1>4

LEMMA ExecuteExecutes ==
    ASSUME ExecuteServing, Asked, Free(held, {"s"}), Free(wire, {"s"}), Serving, pc = "execute",
           ServeExecute
    PROVE  \E units : ExecuteAnswer(units)
  <1>1. answer = <<>> /\ srv.stage = "ready" /\ Listing(inbox)
    BY DEF Asked, ExecuteServing
  <1>2. PICK units : /\ Hold(units) /\ Adds(units, answer, answer')
                     /\ \/ srv'.stage = srv.stage /\ LastS(units)
                        \/ srv'.stage = "skipping" /\ Free(units, {"s"})
    BY <1>1, ExecuteAdds
  <1>3. inbox' = Tail(inbox) /\ Len(answer') = 1 /\ Head(inbox).type = "E"
    BY <1>1, ExecuteAdds DEF ServeExecute, Handles
  <1>4. ToFlush'
    BY <1>1, <1>3, AskedHead DEF ToFlush
  <1>5. Listing(units) /\ LastS(units)
    BY <1>2, FreeLastS DEF Adds
  <1>6. ExecuteAnswer(units)
    <2>1. CASE srv'.stage = "skipping" /\ Free(units, {"s"})
      BY <1>2, <1>3, <1>5, <2>1, ExecuteAnswers
    <2>2. CASE srv'.stage = srv.stage
      <3>1. (ToFlush /\ srv.stage = "ready")'
        BY <1>1, <1>4, <2>2
      <3> QED
        BY <1>2, <1>3, <1>5, <3>1, ExecuteAnswers
    <2> QED
      BY <1>2, <2>1, <2>2
  <1> QED
    BY <1>6

\* Flush, or what is passed over.
LEMMA ExecuteFlushes ==
    ASSUME ExecuteServing, Free(wire, {"s"}), Len(answer) = 1, Listing(held), LastS(held),
           Deliver(<<>>), UNCHANGED <<srv, answer>>,
           \/ srv.stage = "skipping" /\ Free(held, {"s"})
           \/ srv.stage = "ready" /\ inbox' = <<>>
    PROVE  \E units : ExecuteAnswer(units)
  <1>1. wire' = wire \o held /\ held' = <<>>
    <2>1. wire' = wire \o held \o <<>> /\ held' = <<>>
      BY DEF Deliver
    <2>2. Listing(wire \o held)
      <3>1. Listing(wire)
        BY DEF Free
      <3> QED
        BY <3>1, ListConcat
    <2>3. (wire \o held) \o <<>> = wire \o held
      BY <2>2, ConcatEmpty
    <2> QED
      BY <2>1, <2>3
  <1>2. LastS(wire') /\ (Free(held, {"s"}) => Free(wire', {"s"}))
    BY <1>1, LastSConcat, FreeConcat
  <1>3. Free(<<>>, {"s"}) /\ Listing(<<>>)
    BY FreeEmpty DEF Free
  <1>4. LastS(held') /\ Free(held', {"s"})
    BY <1>1, <1>3, FreeLastS
  <1>5. Alone'
    <2>1. Len(results') = 1 /\ Len(answer') <= 1
      <3>1. Len(answer') = 1 /\ 1 <= 1
        OBVIOUS
      <3> QED
        BY <3>1 DEF ExecuteServing
    <2> QED
      BY <2>1 DEF Alone
  <1>6. Executing'
    BY <1>1, <1>2, <1>4, <1>5 DEF Executing
  <1>7. Adds(<<>>, answer, answer')
    BY <1>3, NothingAdded DEF ExecuteServing
  <1> QED
    BY <1>6, <1>7 DEF ExecuteAnswer

LEMMA ExecuteServes ==
    ASSUME Matched, Broken', pc = "execute", up, ServerStep, Serving, Serving'
    PROVE  Matched'
  <1>1. got = <<>> /\ Underway /\ Executing /\ answer \in Seq(ResultSets) /\ Alone
    BY DEF Matched, Underway, Built, Executing
  <1>2. UNCHANGED <<pc, got, results, up>>
    BY ServerFrame DEF client
  <1>3. NothingDue /\ srv \in ServerStates /\ Free(wire, {"Z"}) /\ Free(held, {"Z"})
    BY DEF Serving, NothingDue
  <1>4. LastZ(wire')
    BY <1>2, FreeLastZ DEF Serving, NothingDue
  <1>5. inbox # <<>> /\ Listing(inbox) /\ Head(inbox) = inbox[1] /\ Len(inbox) \in Nat \ {0}
    BY <1>3, ServerReads, ListTail DEF NothingDue, Only
  <1>6. ExecuteServing
    BY <1>1, <1>2, <1>3, <1>5 DEF ExecuteServing, Alone
  <1>7. Head(inbox).type \in Asks
    BY <1>3, <1>5 DEF NothingDue, Only
  <1>8. /\ Free(wire, {"s"}) /\ LastS(held) /\ Listing(held)
        /\ Free(held, {"s"}) \/ (ToFlush /\ srv.stage = "ready")
    BY <1>1, <1>3, <1>5 DEF Executing, Free
  <1>9. \E units : ExecuteAnswer(units)
    <2>1. CASE Asked
      <3>1. srv.stage = "ready" /\ Head(inbox).type \in {"P", "B", "E"} /\ ~ToFlush
        BY <1>5, <2>1, AskedHead DEF Asked, ToFlush
      <3>2. Free(held, {"s"})
        BY <1>8, <3>1
      <3>3. ServeParse \/ ServeBind \/ ServeExecute
        BY <3>1 DEF ServerStep, ServeStartup, ServePassword, ServeFirst, ServeFinal,
           ServeStatement, ServeQuery, ServeFlush, ServeClose, ServeSkips, ServeSync, Handles
      <3> QED
        BY <1>6, <1>8, <2>1, <3>2, <3>3, ExecuteParse, ExecuteExecutes
    <2>2. CASE Len(answer) = 1 /\ srv.stage = "skipping"
      <3>1. ServeSkips
        BY <1>7, <2>2 DEF ServerStep, ServeStartup, ServePassword, ServeFirst, ServeFinal,
           ServeStatement, ServeQuery, ServeParse, ServeBind, ServeExecute, ServeFlush,
           ServeClose, ServeSync, Handles, Asks
      <3>2. Deliver(<<>>) /\ UNCHANGED <<srv, answer>>
        BY <3>1 DEF ServeSkips
      <3> QED
        BY <1>6, <1>8, <2>2, <3>2, ExecuteFlushes
    <2>3. CASE Len(answer) = 1 /\ srv.stage = "ready" /\ ToFlush
      <3>1. Head(inbox).type = "H" /\ Len(inbox) = 1
        BY <1>5, <2>3 DEF ToFlush
      <3>2. ServeFlush
        BY <2>3, <3>1 DEF ServerStep, ServeStartup, ServePassword, ServeFirst, ServeFinal,
           ServeStatement, ServeQuery, ServeParse, ServeBind, ServeExecute, ServeSkips,
           ServeClose, ServeSync, Handles
      <3>3. Deliver(<<>>) /\ UNCHANGED <<srv, answer>> /\ inbox' = Tail(inbox)
        BY <3>2 DEF ServeFlush, Handles
      <3>4. inbox' = <<>>
        BY <1>5, <3>1, <3>3, TailOfOne
      <3> QED
        BY <1>6, <1>8, <2>3, <3>3, <3>4, ExecuteFlushes
    <2> QED
      BY <1>1, <1>5, <2>1, <2>2, <2>3 DEF Executing
  <1>10. PICK units : ExecuteAnswer(units)
    BY <1>9
  <1>11. Underway'
    BY <1>1, <1>2, <1>3, <1>10, AddsBuilt DEF ExecuteAnswer
  <1> QED
    BY <1>1, <1>2, <1>4, <1>10, <1>11, StillReading DEF ExecuteAnswer

----------------------------------------------------------------------------
(* The server and close_sync *)

LEMMA FinalTail ==
    ASSUME Listing(inbox), inbox # <<>>, inbox' = Tail(inbox),
           \A i \in 1..Len(inbox) : inbox[i].type \notin {"P", "B", "E"}
    PROVE  Final'
  <1> PICK s : s = Tail(inbox)
    OBVIOUS
  <1>1. /\ Len(inbox) \in Nat \ {0} /\ Len(s) = Len(inbox) - 1
        /\ \A i \in 1..(Len(inbox) - 1) : i + 1 \in 1..Len(inbox) /\ s[i] = inbox[i + 1]
    BY ListTail
  <1>2. \A i \in 1..Len(s) : s[i].type \notin {"P", "B", "E"}
    BY <1>1
  <1> QED
    BY <1>2 DEF Final

LEMMA SyncServes ==
    ASSUME Matched, Broken', pc = "sync", up, ServerStep, Serving, Serving'
    PROVE  Matched'
  <1>1. got = <<>> /\ (results # <<>> => results = answer /\ Final)
    BY DEF Matched
  <1>2. UNCHANGED <<pc, got, results, up>>
    BY ServerFrame DEF client
  <1>3. LastZ(wire')
    BY <1>2, FreeLastZ DEF Serving, SyncDue, Answered
  <1>4. SyncDue /\ srv \in ServerStates /\ inbox # <<>>
    BY ServerReads DEF Serving
  <1>5. /\ Listing(inbox) /\ inbox[Len(inbox)].type = "S"
        /\ \A i \in 1..(Len(inbox) - 1) : inbox[i].type \in Asks
    BY <1>4 DEF SyncDue, Answered
  <1>6. Len(inbox) \in Nat \ {0} /\ Head(inbox) = inbox[1] /\ 1 \in 1..Len(inbox)
    BY <1>4, <1>5, ListTail
  <1>7. Head(inbox).type \in Asks \cup {"S"}
    <2>1. Len(inbox) = 1 \/ 1 \in 1..(Len(inbox) - 1)
      BY <1>6
    <2> QED
      BY <1>5, <1>6, <2>1
  <1>8. ASSUME Final PROVE answer' = answer /\ Final'
    <2>1. CASE srv.stage = "skipping"
      <3>1. ServeSkips \/ ServeSync
        BY <1>7, <2>1 DEF ServerStep, ServeStartup, ServePassword, ServeFirst, ServeFinal,
           ServeStatement, ServeQuery, ServeParse, ServeBind, ServeExecute, ServeFlush,
           ServeClose
      <3>2. CASE ServeSkips
        <4>1. srv' = srv /\ answer' = answer
          BY <3>2 DEF ServeSkips
        <4> QED
          BY <2>1, <4>1 DEF Final
      <3>3. CASE ServeSync
        <4>1. answer' = answer /\ inbox' = Tail(inbox) /\ Head(inbox).type = "S"
          BY <3>3 DEF ServeSync, Handles
        <4>2. Len(inbox) = 1
          <5>1. 1 \notin 1..(Len(inbox) - 1)
            BY <1>5, <1>6, <4>1 DEF Asks
          <5>2. \A n \in Nat \ {0} : 1 \notin 1..(n - 1) => n = 1
            OBVIOUS
          <5> QED
            BY <1>6, <5>1, <5>2
        <4>3. \A i \in 1..Len(inbox) : inbox[i].type \notin {"P", "B", "E"}
          <5>1. \A i \in 1..1 : i = 1
            OBVIOUS
          <5> QED
            BY <1>6, <4>1, <4>2, <5>1
        <4> QED
          BY <1>4, <1>5, <4>1, <4>3, FinalTail
      <3> QED
        BY <3>1, <3>2, <3>3
    <2>2. CASE srv.stage # "skipping"
      <3>1. \A i \in 1..Len(inbox) : inbox[i].type \notin {"P", "B", "E"}
        BY <1>8, <2>2 DEF Final
      <3>2. srv.stage = "ready" /\ Head(inbox).type \in {"H", "C", "S"}
        BY <1>4, <1>6, <1>7, <2>2, <3>1 DEF ServerStates, Asks
      <3>3. ServeFlush \/ ServeClose \/ ServeSync
        BY <3>2 DEF ServerStep, ServeStartup, ServePassword, ServeFirst, ServeFinal,
           ServeStatement, ServeQuery, ServeParse, ServeBind, ServeExecute, ServeSkips, Handles
      <3>4. answer' = answer /\ inbox' = Tail(inbox)
        BY <3>3 DEF ServeFlush, ServeClose, ServeSync, Handles
      <3> QED
        BY <1>4, <1>5, <3>1, <3>4, FinalTail
    <2> QED
      BY <2>1, <2>2
  <1> QED
    BY <1>1, <1>2, <1>3, <1>8 DEF Matched

----------------------------------------------------------------------------
(* What is returned is the answer *)

\* init returns when there is nothing left to read.
LEMMA InitReturns ==
    ASSUME Greeted, InitReady
    PROVE  wire' = <<>> /\ inbox' = <<>> /\ held' = <<>> /\ srv' = Idle
  <1>1. /\ wire # <<>> /\ Head(wire).part = "head" /\ Head(wire).type = "Z" /\ Skip
        /\ inbox' = inbox /\ held' = held /\ srv' = srv /\ held = <<>>
    BY DEF InitReady, Response, server, Greeted
  <1>2. \A data : ~Requested(data)
    <2>1. \A data : Head(Auth(data)).type = "R"
      BY RequestUnits
    <2>2. Head(<<Header("R", 1)>>).type = "R"
      BY DEF Header
    <2> QED
      BY <1>1, <2>1, <2>2 DEF Requested
  <1>3. Decided
    BY <1>1, <1>2 DEF Greeted, Greeting, AtStartup, AtPassword, AtFirst, AtFinal, Replied
  <1>4. wire' = <<>>
    BY <1>1, <1>3, SkipLeaves DEF Decided
  <1> QED
    BY <1>1, <1>3, <1>4 DEF Decided

\* Before a call, and after init has thrown.
LEMMA MatchedOutside ==
    ASSUME Inv, Matched, Broken', pc \notin Calls, [Next]_vars
    PROVE  Matched'
  <1>1. got = <<>> /\ pc \in {"new", "init", "closed"}
    BY DEF Matched, Inv, Closed, Fresh, Greeted, Later, Calls
  <1>2. ASSUME got' = <<>>, pc' \in {"new", "init", "closed"} PROVE Matched'
    BY <1>2 DEF Matched
  <1>3. CASE Call
    BY <1>1, <1>2, <1>3 DEF Call, InitCall, CloseSyncCall, CallFails, GiveUp, QueryCall,
       PrepareQuery, ExecuteCall, Called
  <1>4. CASE ClientStep
    <2>1. Greeted
      BY <1>1, <1>4 DEF Inv, Closed, Fresh, Greeted, Later, Calls, ClientStep, SkipNotice,
         ReadFails, FlushFails, InitError, InitSkips, InitReady, HandleAuth, RowWhole, RowCut,
         QueryTag, QueryError, QueryOther, QueryReady, ExecuteOther, ExecuteEnds, ExecuteSuspends,
         SyncSkips, SyncReady, Reading
    <2>2. \/ SkipNotice \/ ReadFails \/ FlushFails
          \/ InitError \/ InitSkips \/ InitReady \/ HandleAuth
      BY <1>4, <2>1 DEF Greeted, ClientStep, RowWhole, RowCut, QueryTag, QueryError, QueryOther,
         QueryReady, ExecuteOther, ExecuteEnds, ExecuteSuspends, SyncSkips, SyncReady
    <2>3. CASE InitReady
      <3>1. wire' = <<>> /\ inbox' = <<>> /\ held' = <<>> /\ srv' = Idle
        BY <2>1, <2>3, InitReturns
      <3>2. pc' = "idle" /\ got' = <<>>
        BY <1>1, <2>3 DEF InitReady
      <3> QED
        BY <3>1, <3>2, Rests DEF Idle
    <2>4. CASE HandleAuth
      <3>1. got' = <<>> /\ AuthReply(wire[2].data) /\ pc = "init"
        BY <1>1, <2>4 DEF HandleAuth
      <3>2. pc' = pc \/ pc' = "closed"
        BY <3>1 DEF AuthReply, InitThrow
      <3> QED
        BY <1>2, <3>1, <3>2
    <2>5. CASE SkipNotice \/ ReadFails \/ FlushFails \/ InitError \/ InitSkips
      BY <1>1, <1>2, <2>1, <2>5 DEF SkipNotice, ReadFails, FlushFails, GiveUp, InitError,
         InitSkips, InitThrow, client, Greeted
    <2> QED
      BY <2>2, <2>3, <2>4, <2>5
  <1>5. CASE ServerStep
    BY <1>1, <1>2, <1>5, ServerFrame DEF client
  <1>6. CASE Lose \/ UNCHANGED vars
    BY <1>1, <1>2, <1>6 DEF Lose, vars, client
  <1> QED
    BY <1>3, <1>4, <1>5, <1>6 DEF Next

LEMMA MatchedInit == Init => Matched
  BY DEF Init, Matched, Broken

LEMMA MatchedSame == ASSUME Matched, UNCHANGED vars PROVE Matched'
  <1>1. UNCHANGED <<pc, results, got, inbox, held, wire, srv, up, answer>>
    BY DEF vars
  <1>2. Underway => Underway'
    <2> SUFFICES ASSUME Underway PROVE Underway'
      OBVIOUS
    <2> PICK x : x = Point
      OBVIOUS
    <2>1. Remaining(wire', x) /\ Built' /\ Point' = x
      BY <1>1, BuiltSame DEF Underway
    <2> QED
      BY <1>1, <2>1, RemainingSame
  <1>3. Executing => Executing'
    BY <1>1 DEF Executing, Alone, Asked, ToFlush
  <1>4. Final => Final'
    BY <1>1 DEF Final
  <1> QED
    BY <1>1, <1>2, <1>3, <1>4 DEF Matched, Broken

LEMMA MatchedStep == Inv /\ Matched /\ [Next]_vars => Matched'
  <1> SUFFICES ASSUME Inv, Matched, [Next]_vars PROVE Matched'
    OBVIOUS
  <1>1. up \in BOOLEAN /\ up' \in {up, FALSE}
    BY ConfigFixed DEF Inv
  <1>2. Broken'
    BY <1>1, BrokenStep DEF Matched
  <1>3. CASE pc \notin Calls
    BY <1>2, <1>3, MatchedOutside
  <1>4. CASE pc \in Calls
    <2>1. up => Serving
      BY <1>4, InCalls
    <2>2. up' => Serving'
      BY <1>1, <1>4, <2>1, ServingStep
    <2>3. pc \in {"idle", "query", "execute", "sync"}
      BY <1>4 DEF Calls
    <2>4. CASE Call
      <3>1. pc = "idle"
        BY <2>3, <2>4 DEF Call, InitCall, CloseSyncCall, CallFails, QueryCall, PrepareQuery,
           ExecuteCall, Called
      <3> QED
        BY <1>2, <2>1, <2>4, <3>1, IdleCalls
    <2>5. CASE ClientStep
      <3>1. pc # "idle"
        BY <2>3, <2>5 DEF ClientStep, SkipNotice, ReadFails, FlushFails, GiveUp, InitError,
           InitSkips, InitReady, HandleAuth, RowWhole, RowCut, QueryTag, QueryError,
           QueryOther, QueryReady, ExecuteOther, ExecuteEnds, ExecuteSuspends, SyncSkips,
           SyncReady, Reading
      <3> QED
        BY <1>2, <2>1, <2>2, <2>3, <2>5, <3>1, QueryReads, ExecuteReads, SyncReads
    <2>6. CASE ServerStep
      <3>1. inbox # <<>> /\ up' = up
        BY <2>6, ServerReads, ServerFrame
      <3>2. up
        BY <1>1, <3>1 DEF Matched, Broken
      <3>3. pc # "idle"
        BY <3>1, <3>2 DEF Matched
      <3> QED
        BY <1>2, <2>1, <2>2, <2>3, <2>6, <3>1, <3>2, <3>3, QueryServes, ExecuteServes, SyncServes
    <2>7. CASE Lose
      BY <1>2, <1>4, <2>7, MatchedLost
    <2>8. CASE UNCHANGED vars
      BY <2>8, MatchedSame
    <2> QED
      BY <2>4, <2>5, <2>6, <2>7, <2>8 DEF Next
  <1> QED
    BY <1>3, <1>4

\* What has been read and what is still to come are together the results that
\* the server has, whatever is lost of it.
THEOREM MatchedInductive == Spec => []Matched
  BY MatchedInit, MatchedStep, InvInductive, PTL DEF Spec

\* For every set of statements and of limits: a call that returns has one
\* result for each statement the server ran, with all its rows, in order, and
\* with the outcome the server had.
THEOREM ResultsRight == Spec => []ResultsMatch
  <1>1. Matched => ResultsMatch
    BY DEF Matched, ResultsMatch
  <1> QED
    BY <1>1, MatchedInductive, PTL

============================================================================
