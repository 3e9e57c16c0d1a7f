---------------------------- MODULE PgConnection ----------------------------
(***************************************************************************)
(* cppevent_postgres: pg_connection, its messages and the results it       *)
(* returns, against a model of the PostgreSQL server.                      *)
(*                                                                         *)
(* What the server sends is a sequence of units: the header of a message,  *)
(* with its type and length, and after it one unit for a payload that is   *)
(* not empty.  A step handles one message.  A read that is awaited takes   *)
(* its bytes whenever they come; populate_result is not awaited, and takes *)
(* a row only if the kernel has already delivered it: either may be so.    *)
(* When a payload is about to be read as a header the model stops.         *)
(*                                                                         *)
(* One coroutine at a time uses a connection (PgPool, Exclusive).          *)
(***************************************************************************)
EXTENDS Scram, SequencesExt

CONSTANTS
    Kinds,          \* kinds of statements, among AllKinds
    MaxRows,        \* bound on the rows of a statement
    MaxStatements,  \* bound on the statements of a query
    Limits,         \* arguments of execute; 0 is no limit
    Methods,        \* authentication methods, among AllMethods
    SaltOctets,     \* the octets of salts
    MaxSalt         \* bound on the octets of a salt

AllKinds == {"select", "command", "notice", "set", "fail"}
AllMethods == {"trust", "password", "scram", "other_sasl", "md5"}

ASSUME PgConnectionAssumption ==
    /\ Kinds \subseteq AllKinds /\ Methods \subseteq AllMethods
    /\ MaxRows \in Nat /\ MaxStatements \in Nat /\ MaxSalt \in Nat
    /\ Limits \subseteq Nat /\ SaltOctets \subseteq 0..255

VARIABLES
    m_query_ready,  \* pg_connection::m_query_ready
    pc,             \* the call that is under way
    scr,            \* the scram object of init
    results,        \* the results of the call under way
    got,            \* what the last call returned, if it has returned
    out,            \* written and not flushed
    inbox,          \* messages the server has not handled
    held,           \* the server's answers that it has not flushed
    wire,           \* units sent to the client and not read
    srv,            \* the server: its stage, its portal, what it signs with
    up,             \* does the connection exist?
    answer,         \* history: the results of this call as the server has them
    config          \* passwords at both ends, the server's method

vars == <<m_query_ready, pc, scr, results, got, out, inbox, held, wire, srv,
          up, answer, config>>
client == <<m_query_ready, pc, scr, results, got, out>>
server == <<held, srv, answer>>

INT_32_OCTETS == 4

\* response_header::set_type, set_size: the length counts itself.
Header(type, size) ==
    [part |-> "head", type |-> type, length |-> size + INT_32_OCTETS]
Message(type, data) == <<Header(type, 1), [part |-> "body", data |-> data]>>
Bare(type) == <<Header(type, 0)>>

\* pg_result.
Pending == [type |-> "PENDING", rows |-> <<>>]
add_row(r, row) == [r EXCEPT !.rows = Append(@, row)]
set_error(r) == [r EXCEPT !.type = "ERROR"]
set_suspended(r) == [r EXCEPT !.type = "SUSPENDED"]
set_command_tag(r) == [r EXCEPT !.type = "SUCCESS"]

\* What a query asks for.  One that fails may do so after some rows.
Statements == {st \in [kind : Kinds, rows : 0..MaxRows] :
                   st.kind \in {"select", "fail"} \/ st.rows = 0}
Queries == UNION {[1..n -> Statements] : n \in 0..MaxStatements}
Salts == UNION {[1..n -> SaltOctets] : n \in 0..MaxSalt}

Idle == [stage |-> "ready", portal |-> <<>>, salt |-> <<>>]

Init ==
    /\ m_query_ready = FALSE
    /\ pc = "new"
    /\ scr = EmptyScram
    /\ results = <<>>
    /\ got = <<>>
    /\ out = <<>>
    /\ inbox = <<>>
    /\ held = <<>>
    /\ wire = <<>>
    /\ srv = [Idle EXCEPT !.stage = "startup"]
    /\ up = TRUE
    /\ answer = <<>>
    /\ config \in [client : {"pw"}, server : {"pw", "other"}, method : Methods]

----------------------------------------------------------------------------
(* Reading and writing *)

Reading == pc \in {"init", "query", "execute", "sync"}

\* get_response_info has read a header of one of these types.
Response(types) ==
    /\ wire # <<>>
    /\ Head(wire).part = "head"
    /\ Head(wire).type \in types

\* It has read one of any other type.  It never returns a notice.
OtherResponse(types) ==
    /\ wire # <<>>
    /\ Head(wire).part = "head"
    /\ Head(wire).type \notin types \cup {"N"}

m_size == Head(wire).length - INT_32_OCTETS
Whole == Len(wire) > m_size

\* Past the header, and past the payload too.
HeaderRead == wire' = Tail(wire)
Skip == Whole /\ wire' = SubSeq(wire, 2 + m_size, Len(wire))

\* get_response_info reads on after a notice.
SkipNotice ==
    /\ Reading
    /\ Response({"N"})
    /\ Skip
    /\ UNCHANGED <<client, server, inbox, up, config>>

\* socket::write and flush of messages, after what was written before.
Send(msgs) ==
    /\ inbox' = IF up THEN inbox \o out \o msgs ELSE inbox
    /\ out' = <<>>

\* The call under way throws: init's leads the pool to destroy the connection.
GiveUp ==
    /\ pc' = IF pc \in {"new", "init"} THEN "closed" ELSE "idle"
    /\ results' = <<>>
    /\ scr' = EmptyScram

\* A read reports the end of the stream or an error, and the call throws.
ReadFails ==
    /\ Reading
    /\ ~up
    /\ wire # <<>> => Head(wire).part = "head" /\ ~Whole
    /\ wire' = <<>>
    /\ GiveUp
    /\ UNCHANGED <<m_query_ready, got, out, inbox, server, up, config>>

\* The call throws in a write that it makes after a read: handle_auth's reply,
\* or the close_sync of execute.  What it has read was the last to come.
FlushFails ==
    /\ ~up
    /\ \/ pc = "init" /\ Response({"R"})
       \/ pc = "execute" /\ Response({"E", "I", "C"})
    /\ Whole
    /\ wire' = <<>>
    /\ pc = "init" => wire[2].data.auth \in
                          {"CLEAR_TEXT_PASSWORD", "SASL", "SASL_CONTINUE"}
    /\ GiveUp
    /\ UNCHANGED <<m_query_ready, got, out, inbox, server, up, config>>

----------------------------------------------------------------------------
(* init *)

InitCall ==
    /\ pc = "new"
    /\ pc' = "init"
    /\ Send(<<[type |-> "startup", data |-> "user"]>>)
    /\ UNCHANGED <<m_query_ready, scr, results, got, server, wire, up, config>>

\* init throws, and the pool destroys the connection.
InitThrow == pc' = "closed" /\ scr' = EmptyScram

\* ErrorResponse, NegotiateProtocolVersion and types init does not know.
InitError ==
    /\ pc = "init"
    /\ OtherResponse({"R", "K", "S", "Z"})
    /\ InitThrow
    /\ UNCHANGED <<m_query_ready, results, got, out, inbox, server, wire, up,
                   config>>

InitSkips ==
    /\ pc = "init"
    /\ Response({"K", "S"})
    /\ Skip
    /\ UNCHANGED <<client, server, inbox, up, config>>

InitReady ==
    /\ pc = "init"
    /\ Response({"Z"})
    /\ Skip
    /\ m_query_ready' = TRUE
    /\ pc' = "idle"
    /\ scr' = EmptyScram
    /\ UNCHANGED <<results, got, out, inbox, server, up, config>>

\* handle_auth, by the auth_type.
AuthReply(data) ==
    CASE data.auth = "OK" -> UNCHANGED <<pc, scr, out, inbox>>
      [] data.auth = "CLEAR_TEXT_PASSWORD" ->
            Send(<<[type |-> "p", data |-> config.client]>>)
            /\ UNCHANGED <<pc, scr>>
      [] data.auth = "SASL" /\ data.mechanisms = "SCRAM-SHA-256" ->
            /\ scr' = generate_client_first_msg(scr, "user", <<"c">>)
            /\ Send(<<[type |-> "p", data |-> scr'.m_client_first_msg_bare]>>)
            /\ UNCHANGED pc
      [] data.auth = "SASL_CONTINUE" /\ ServerFirstMsgOK(scr, data.params) ->
            LET s == resolve_server_first_msg(scr, data.params)
            IN  /\ scr' = ExpectServerFinal(s, config.client)
                /\ Send(<<[type |-> "p",
                           data |-> [nonce |-> s.m_server_nonce,
                                     proof |-> ClientProof(s, config.client)]]>>)
                /\ UNCHANGED pc
      [] data.auth = "SASL_FINAL" /\ verify_server_final_msg(scr, data.signature) ->
            UNCHANGED <<pc, scr, out, inbox>>
      [] OTHER -> InitThrow /\ UNCHANGED <<out, inbox>>

HandleAuth ==
    /\ pc = "init"
    /\ Response({"R"})
    /\ Skip
    /\ AuthReply(wire[2].data)
    /\ UNCHANGED <<m_query_ready, results, got, server, up, config>>

----------------------------------------------------------------------------
(* query *)

\* A call refused because m_query_ready is false changes nothing.
Called(msgs, to) ==
    /\ pc = "idle"
    /\ pc' = to
    /\ Send(msgs)
    /\ got' = <<>>
    /\ answer' = <<>>
    /\ UNCHANGED <<scr, held, srv, wire, up, config>>

QueryCall(q) ==
    /\ m_query_ready
    /\ Called(<<[type |-> "Q", data |-> q]>>, "query")
    /\ m_query_ready' = FALSE
    /\ results' = <<Pending>>

\* The first write or flush of any call reports an error: the call throws before
\* it touches m_query_ready.  What it leaves written can reach nobody.
CallFails ==
    /\ ~up
    /\ pc \in {"new", "idle"}
    /\ GiveUp
    /\ out' = <<>>
    /\ got' = <<>>
    /\ answer' = <<>>
    /\ UNCHANGED <<m_query_ready, inbox, held, srv, wire, up, config>>

Back(r) == [results EXCEPT ![Len(results)] = r]

\* populate_result, its read answered from the buffer.
RowWhole ==
    /\ pc \in {"query", "execute"}
    /\ Response({"T", "D"})
    /\ Skip
    /\ results' = IF Head(wire).type = "D"
                  THEN Back(add_row(Last(results), wire[2].data)) ELSE results
    /\ UNCHANGED <<m_query_ready, pc, scr, got, out, inbox, server, up, config>>

\* populate_result suspends in its read.  Nothing awaits it: the task is
\* destroyed, and what it has not read is left.
RowCut ==
    /\ pc \in {"query", "execute"}
    /\ Response({"T", "D"})
    /\ HeaderRead
    /\ UNCHANGED <<client, server, inbox, up, config>>

\* CommandComplete.
QueryTag ==
    /\ pc = "query"
    /\ Response({"C"})
    /\ Skip
    /\ results' = Append(Back(set_command_tag(Last(results))), Pending)
    /\ UNCHANGED <<m_query_ready, pc, scr, got, out, inbox, server, up, config>>

\* Mutant: the next statement's results would be added to the failed one's.
QueryError_same ==
    /\ pc = "query"
    /\ Response({"E", "I"})
    /\ Skip
    /\ results' = Back(set_error(Last(results)))
    /\ UNCHANGED <<m_query_ready, pc, scr, got, out, inbox, server, up, config>>

\* EmptyQueryResponse and ErrorResponse.
QueryError ==
    /\ pc = "query"
    /\ Response({"E", "I"})
    /\ Skip
    /\ results' = Append(Back(set_error(Last(results))), Pending)
    /\ UNCHANGED <<m_query_ready, pc, scr, got, out, inbox, server, up, config>>

\* A type the switch has no case for: only the header has been read.
QueryOther ==
    /\ pc = "query"
    /\ OtherResponse({"C", "T", "D", "I", "E", "Z"})
    /\ HeaderRead
    /\ UNCHANGED <<client, server, inbox, up, config>>

QueryReady ==
    /\ pc = "query"
    /\ Response({"Z"})
    /\ Skip
    /\ m_query_ready' = TRUE
    /\ pc' = "idle"
    /\ got' = <<Front(results)>>
    /\ results' = <<>>
    /\ UNCHANGED <<scr, out, inbox, server, up, config>>

----------------------------------------------------------------------------
(* prepare_query, execute, close_sync *)

\* Mutant: the connection still counts as ready.
Unready_not == UNCHANGED m_query_ready

Unready == m_query_ready' = FALSE

PrepareQuery(st) ==
    /\ pc = "idle"
    /\ m_query_ready
    /\ out' = out \o <<[type |-> "P", data |-> st], [type |-> "B", data |-> st]>>
    /\ Unready
    /\ UNCHANGED <<pc, scr, results, got, server, inbox, wire, up, config>>

\* Mutant: the server is not asked to flush its answers.
ExecuteMessages_no_flush(max_rows) == <<[type |-> "E", data |-> max_rows]>>

ExecuteMessages(max_rows) ==
    <<[type |-> "E", data |-> max_rows], [type |-> "H", data |-> 0]>>

ExecuteCall(max_rows) ==
    /\ Called(ExecuteMessages(max_rows), "execute")
    /\ results' = <<Pending>>
    /\ UNCHANGED m_query_ready

\* ParseComplete and BindComplete have no payload; other types are not
\* handled, and neither is what follows their header.
ExecuteOther ==
    /\ pc = "execute"
    /\ OtherResponse({"I", "E", "T", "D", "C", "s"})
    /\ HeaderRead
    /\ UNCHANGED <<client, server, inbox, up, config>>

SyncMessages == <<[type |-> "C", data |-> 0], [type |-> "S", data |-> 0]>>

\* The loop ends with an error or a tag, and close_sync is called.
ExecuteEnds ==
    /\ pc = "execute"
    /\ Response({"E", "I", "C"})
    /\ Skip
    /\ results' = Back(IF Head(wire).type = "C" THEN set_command_tag(Last(results))
                       ELSE set_error(Last(results)))
    /\ pc' = "sync"
    /\ Send(SyncMessages)
    /\ UNCHANGED <<m_query_ready, scr, got, server, up, config>>

\* PortalSuspended: the result is returned and the portal stays open.
ExecuteSuspends ==
    /\ pc = "execute"
    /\ Response({"s"})
    /\ HeaderRead
    /\ got' = <<Back(set_suspended(Last(results)))>>
    /\ results' = <<>>
    /\ pc' = "idle"
    /\ UNCHANGED <<m_query_ready, scr, out, inbox, server, up, config>>

CloseSyncCall ==
    /\ Called(SyncMessages, "sync")
    /\ results' = <<>>
    /\ UNCHANGED m_query_ready

\* close_sync reads whatever comes before ReadyForQuery.
SyncSkips ==
    /\ pc = "sync"
    /\ OtherResponse({"Z"})
    /\ Skip
    /\ UNCHANGED <<client, server, inbox, up, config>>

SyncReady ==
    /\ pc = "sync"
    /\ Response({"Z"})
    /\ Skip
    /\ m_query_ready' = TRUE
    /\ pc' = "idle"
    /\ got' = IF results = <<>> THEN <<>> ELSE <<results>>
    /\ results' = <<>>
    /\ UNCHANGED <<scr, out, inbox, server, up, config>>

----------------------------------------------------------------------------
(* The server *)

Handles(types) ==
    /\ inbox # <<>>
    /\ Head(inbox).type \in types
    /\ inbox' = Tail(inbox)
    /\ UNCHANGED <<client, up, config>>

Hold(units) == held' = held \o units /\ UNCHANGED wire
Deliver(units) == wire' = wire \o held \o units /\ held' = <<>>

Auth(data) == Message("R", data)
Welcome == Auth([auth |-> "OK"]) \o Message("N", 0) \o Message("S", 0)
               \o Message("K", 0) \o Message("Z", 0)
Refuse == Message("E", 0)

ServeStartup ==
    /\ srv.stage = "startup"
    /\ Handles({"startup"})
    /\ Deliver(CASE config.method = "trust" -> Welcome
                 [] config.method = "password" ->
                        Auth([auth |-> "CLEAR_TEXT_PASSWORD"])
                 [] config.method = "scram" ->
                        Auth([auth |-> "SASL", mechanisms |-> "SCRAM-SHA-256"])
                 [] config.method = "other_sasl" ->
                        Auth([auth |-> "SASL", mechanisms |-> "OTHER"])
                 [] config.method = "md5" -> Auth([auth |-> "MD5"]))
    /\ srv' = [srv EXCEPT !.stage =
                  CASE config.method = "trust" -> "ready"
                    [] config.method = "scram" -> "first"
                    [] OTHER -> "password"]
    /\ UNCHANGED answer

ServePassword ==
    /\ srv.stage = "password"
    /\ Handles({"p"})
    /\ Deliver(IF Head(inbox).data = config.server THEN Welcome ELSE Refuse)
    /\ srv' = Idle
    /\ UNCHANGED answer

\* "4096" and its value.
IterationText == <<52, 48, 57, 54>>
Iterations == 4096

ServeFirst ==
    /\ srv.stage = "first"
    /\ Handles({"p"})
    /\ \E salt \in Salts :
          LET params == <<Append(Head(inbox).data[2], "s"),
                          base64_encode(salt), IterationText>>
          IN  /\ Deliver(Auth([auth |-> "SASL_CONTINUE", params |-> params]))
              /\ srv' = [stage |-> "final", portal |-> <<>>, salt |-> salt,
                         signed |-> <<Head(inbox).data, params, params[1]>>]
    /\ UNCHANGED answer

\* The proof is right if it hides the key that the password leads to.
ServeFinal ==
    LET salted == salted_password(config.server, srv.salt, Iterations)
        key == hmac(salted, "Client Key")
        good == Head(inbox).data.proof = xor(key, hmac(sha(key), srv.signed))
    IN  /\ srv.stage = "final"
        /\ Handles({"p"})
        /\ Deliver(IF good
                   THEN Auth([auth |-> "SASL_FINAL",
                              signature |-> hmac(hmac(salted, "Server Key"),
                                                 srv.signed)]) \o Welcome
                   ELSE Refuse)
        /\ srv' = Idle
        /\ UNCHANGED answer

Row(i, j) == <<i, j>>
RowsOf(i, from, to) == [k \in 1..(to - from) |-> Row(i, from + k)]
DataRows(rows) == [u \in 1..(2 * Len(rows)) |->
                       Message("D", rows[(u + 1) \div 2])[2 - (u % 2)]]

Ending(st) == CASE st.kind = "fail"   -> Message("E", 0)
                [] st.kind = "set"    -> Message("S", 0) \o Message("C", 0)
                [] st.kind = "notice" -> Message("N", 0) \o Message("C", 0)
                [] OTHER              -> Message("C", 0)
EndType(st) == IF st.kind = "fail" THEN "ERROR" ELSE "SUCCESS"

\* The statements of a query are run until one fails, and answered one by one.
Ran(q) == Len(answer) = Len(q) \/ \E i \in DOMAIN answer : answer[i].type = "ERROR"

ServeStatement ==
    LET q == Head(inbox).data
        i == Len(answer) + 1
        st == q[i]
        rows == RowsOf(i, 0, st.rows)
    IN  /\ srv.stage = "ready"
        /\ inbox # <<>>
        /\ Head(inbox).type = "Q"
        /\ ~Ran(q)
        /\ Deliver((IF st.kind = "select" THEN Message("T", 0) ELSE <<>>)
                       \o DataRows(rows) \o Ending(st))
        /\ answer' = Append(answer, [type |-> EndType(st), rows |-> rows])
        /\ UNCHANGED <<client, srv, inbox, up, config>>

\* ReadyForQuery; before it, EmptyQueryResponse if there was no statement.
ServeQuery ==
    LET q == Head(inbox).data
    IN  /\ srv.stage = "ready"
        /\ Handles({"Q"})
        /\ Ran(q)
        /\ Deliver((IF q = <<>> THEN Bare("I") ELSE <<>>) \o Message("Z", 0))
        /\ answer' = IF q = <<>> THEN <<[type |-> "ERROR", rows |-> <<>>]>> ELSE answer
        /\ UNCHANGED srv

\* An error in the extended protocol: all but Sync is passed over.
ServeError ==
    /\ Hold(Refuse)
    /\ srv' = [srv EXCEPT !.stage = "skipping"]
    /\ answer' = <<[type |-> "ERROR", rows |-> <<>>]>>

ServeParse ==
    /\ srv.stage = "ready"
    /\ Handles({"P"})
    /\ IF Head(inbox).data.kind = "fail" /\ Head(inbox).data.rows = 0
       THEN ServeError
       ELSE Hold(Bare("1")) /\ UNCHANGED <<srv, answer>>

ServeBind ==
    /\ srv.stage = "ready"
    /\ Handles({"B"})
    /\ Hold(Bare("2"))
    /\ srv' = [srv EXCEPT !.portal = <<[st |-> Head(inbox).data, done |-> 0]>>]
    /\ UNCHANGED answer

ServeExecute ==
    LET max == Head(inbox).data
        st == srv.portal[1].st
        done == srv.portal[1].done
        full == max > 0 /\ st.rows - done >= max
        end == IF full THEN done + max ELSE st.rows
        rows == RowsOf(1, done, end)
    IN  /\ srv.stage = "ready"
        /\ Handles({"E"})
        /\ IF srv.portal = <<>> THEN ServeError
           ELSE /\ Hold(DataRows(rows) \o IF full THEN Bare("s") ELSE Ending(st))
                /\ srv' = [srv EXCEPT
                      !.portal[1].done = end,
                      !.stage = IF ~full /\ st.kind = "fail" THEN "skipping"
                                ELSE @]
                /\ answer' = <<[type |-> IF full THEN "SUSPENDED" ELSE EndType(st),
                                rows |-> rows]>>

ServeFlush ==
    /\ srv.stage = "ready"
    /\ Handles({"H"})
    /\ Deliver(<<>>)
    /\ UNCHANGED <<srv, answer>>

ServeClose ==
    /\ srv.stage = "ready"
    /\ Handles({"C"})
    /\ Hold(Bare("3"))
    /\ srv' = [srv EXCEPT !.portal = <<>>]
    /\ UNCHANGED answer

\* An error is flushed at once.
ServeSkips ==
    /\ srv.stage = "skipping"
    /\ Handles({"P", "B", "E", "H", "C"})
    /\ Deliver(<<>>)
    /\ UNCHANGED <<srv, answer>>

ServeSync ==
    /\ srv.stage \in {"ready", "skipping"}
    /\ Handles({"S"})
    /\ Deliver(Message("Z", 0))
    /\ srv' = Idle
    /\ UNCHANGED answer

\* The connection breaks, with any part of the answer still to be read.
Lose ==
    /\ up
    /\ up' = FALSE
    /\ inbox' = <<>>
    /\ held' = <<>>
    /\ \E n \in 0..Len(wire) : wire' = SubSeq(wire, 1, n)
    /\ UNCHANGED <<client, srv, answer, config>>

----------------------------------------------------------------------------
Call ==
    \/ InitCall \/ CloseSyncCall \/ CallFails
    \/ \E q \in Queries : QueryCall(q)
    \/ \E st \in Statements : PrepareQuery(st)
    \/ \E n \in Limits : ExecuteCall(n)

ClientStep ==
    \/ SkipNotice \/ ReadFails \/ FlushFails
    \/ InitError \/ InitSkips \/ InitReady \/ HandleAuth
    \/ RowWhole \/ RowCut
    \/ QueryTag \/ QueryError \/ QueryOther \/ QueryReady
    \/ ExecuteOther \/ ExecuteEnds \/ ExecuteSuspends
    \/ SyncSkips \/ SyncReady

ServerStep ==
    \/ ServeStartup \/ ServePassword \/ ServeFirst \/ ServeFinal
    \/ ServeStatement \/ ServeQuery
    \/ ServeParse \/ ServeBind \/ ServeExecute
    \/ ServeFlush \/ ServeClose \/ ServeSkips \/ ServeSync

Next == Call \/ ClientStep \/ ServerStep \/ Lose

\* The loop resumes the call when there is something to read, and the server
\* handles what it is sent.
Spec == Init /\ [][Next]_vars /\ WF_vars(ClientStep) /\ WF_vars(ServerStep)

----------------------------------------------------------------------------
(* Properties *)

\* Every payload is consumed with its message: what is read as a header is one.
InStep == Reading /\ wire # <<>> => Head(wire).part = "head"

\* A call that returns has one result for each statement the server ran, in
\* order, each with all its rows and with the outcome the server had.
ResultsMatch == got # <<>> => got[1] = answer

\* While m_query_ready is set and no call is under way, nothing of an earlier
\* call is left: not written, not handled, not sent, not read, no open portal
\* and no error that a Sync should clear.
ReadyMeansIdle ==
    up /\ m_query_ready /\ pc = "idle" =>
        /\ out = <<>> /\ inbox = <<>> /\ held = <<>> /\ wire = <<>>
        /\ srv = Idle

\* init succeeds only if the server needs no password or has the client's, and
\* fails only if it has not, if the method is not supported, or if the
\* connection breaks.
AuthDecides ==
    /\ pc \notin {"new", "init", "closed"} =>
           \/ config.method = "trust"
           \/ config.method \in {"password", "scram"} /\ config.client = config.server
    /\ pc = "closed" /\ up =>
           \/ config.method \in {"other_sasl", "md5"}
           \/ config.method # "trust" /\ config.client # config.server

\* What the client derives its keys from is the server's salt, octet for octet,
\* and its number of iterations.
SaltAgrees ==
    scr.m_server_first_msg # <<>> /\ srv.stage = "final" =>
        scr.m_salt = srv.salt /\ scr.m_iterations = Iterations

\* Not a property of behaviours but of the conversions SCRAM relies on:
\* base64_decode undoes base64_encode on every salt, whatever its padding, and
\* convert_to_num reads the number of iterations as it was written.
RoundTrip ==
    /\ \A salt \in Salts : base64_decode(base64_encode(salt)) = salt
    /\ convert_to_num(IterationText) = Iterations

\* No call waits for ever: client and server never both wait for the other.
CallEnds == Reading ~> ~Reading \/ ~InStep

============================================================================
