----------------------------- MODULE HttpServer -----------------------------
(***************************************************************************)
(* cppevent_http: http_server, one connection of it, with http_line,       *)
(* http_request, http_body and http_output, over a router.                 *)
(*                                                                         *)
(* What the client sends is a sequence of tokens: lines, with what their   *)
(* parsing tells apart, and bytes of bodies.  Lines and bodies may come in *)
(* any pieces (Socket): one step reads one line, or what one round of a    *)
(* read takes.  The endpoint is code of the program: it makes any calls.   *)
(***************************************************************************)
EXTENDS HttpRouter

CONSTANTS
    Scenarios,  \* what is registered and requested: [routes, requests]
    Sizes,      \* sizes of the calls an endpoint makes
    MaxCalls    \* bound on those calls

\* A request: bad names the part of it that is malformed.
ClientRequests ==
    {r \in [method : STRING, path : Seq(STRING), version : {"1.0", "1.1"},
            connection : {"", "close", "keep-alive"},
            framing : {"none", "length", "chunked"}, chunks : Seq(Nat),
            trailers : Nat, bad : {"", "line", "header", "length"}] :
        CASE r.framing = "none"    -> r.chunks = <<>>
          [] r.framing = "length"  -> Len(r.chunks) = 1
          [] r.framing = "chunked" -> \A j \in DOMAIN r.chunks : r.chunks[j] > 0}

\* What get and post register.
Routes == [method : {"GET", "POST"}, path : Seq(Segments)]

ASSUME HttpServerAssumption ==
    /\ Sizes \subseteq Nat \ {0} /\ MaxCalls \in Nat
    /\ \A s \in Scenarios : /\ s.requests \in Seq(ClientRequests)
                            /\ s.routes \in Seq(Routes)

VARIABLES
    scenario,
    router,     \* m_router
    phase,      \* where on_connection is
    input,      \* the tokens the client sends
    pos,        \* tokens read
    req,        \* the request line, and the headers the server looks at
    body,       \* http_body: m_incoming, m_ended
    call,       \* the read or skip that is under way
    res,        \* http_output
    out,        \* the tokens written
    calls,      \* calls made by endpoints
    cut,        \* has the client closed its end?
    \* History.
    begun,      \* requests begun
    taken       \* bytes of this request's body that have been read

vars == <<scenario, router, phase, input, pos, req, body, call, res, out,
          calls, cut, begun, taken>>
keeps == <<scenario, router, input>>

NoCall == [kind |-> "none", size |-> 0, left |-> 0, dest |-> <<>>, rounds |-> 0]
NoResponse == [m_status |-> "200", m_headers |-> {}, m_length |-> 0,
               m_headers_written |-> FALSE, m_chunked_encoding |-> FALSE]
NoRequest == [method |-> "GET", version |-> "1.1", path |-> <<>>,
              connection |-> "", length |-> "", chunked |-> FALSE]

----------------------------------------------------------------------------
(* The client's tokens *)

Line(kind, value) == [t |-> kind, value |-> value]
Blank == Line("blank", 0)
Bytes(k, from, n) == [i \in 1..n |-> [t |-> "byte", value |-> <<k, from + i>>]]

\* The bytes of chunks before chunk j.
Before(chunks, j) ==
    LET sum[i \in 1..Len(chunks) + 1] ==
            IF i = 1 THEN 0 ELSE sum[i - 1] + chunks[i - 1]
    IN  sum[j]

Heading(r) ==
    <<Line("request", r)>>
        \o (IF r.connection = "" THEN <<>> ELSE <<Line("header", "connection")>>)
        \o (IF r.framing = "none" THEN <<>> ELSE <<Line("header", r.framing)>>)
        \o (IF r.bad = "header" THEN <<Line("junk", 0)>> ELSE <<>>)
        \o <<Blank>>

Chunk(k, r, j) ==
    <<Line("size", r.chunks[j])>>
        \o Bytes(k, Before(r.chunks, j), r.chunks[j])
        \o <<Blank>>

Ending(r) ==
    <<Line("size", 0)>> \o [i \in 1..r.trailers |-> Line("trailer", 0)] \o <<Blank>>

Tokens(k, r) ==
    Heading(r)
        \o CASE r.framing = "none" -> <<>>
             [] r.framing = "length" -> Bytes(k, 0, r.chunks[1])
             [] r.framing = "chunked" ->
                   FlattenSeq([j \in DOMAIN r.chunks |-> Chunk(k, r, j)]) \o Ending(r)

Init ==
    /\ scenario \in Scenarios
    /\ router = EmptyRouter
    /\ phase = "setup"
    /\ input = FlattenSeq([k \in DOMAIN scenario.requests |->
                              Tokens(k, scenario.requests[k])])
    /\ pos = 0
    /\ req = NoRequest
    /\ body = [m_incoming |-> 0, m_ended |-> TRUE]
    /\ call = NoCall
    /\ res = NoResponse
    /\ out = <<>>
    /\ calls = 0
    /\ cut = FALSE
    /\ begun = 0
    /\ taken = <<>>

\* The routes are registered one after the other; an exception is caught.
Register ==
    /\ phase = "setup"
    /\ calls < Len(scenario.routes)
    /\ LET r == scenario.routes[calls + 1]
       IN  router' = set_endpoint(router, r.method, r.path, calls + 1)
    /\ calls' = calls + 1
    /\ UNCHANGED <<scenario, phase, input, pos, req, body, call, res, out, cut,
                   begun, taken>>

Connect ==
    /\ phase = "setup"
    /\ calls = Len(scenario.routes)
    /\ phase' = "line"
    /\ calls' = 0
    /\ UNCHANGED <<keeps, pos, req, body, call, res, out, cut, begun, taken>>

\* The client closes: nothing comes after what has been read.
Cut ==
    /\ phase \notin {"setup", "closed", "dropped"}
    /\ ~cut
    /\ cut' = TRUE
    /\ UNCHANGED <<keeps, phase, pos, req, body, call, res, out, calls, begun,
                   taken>>

----------------------------------------------------------------------------
(* http_line *)

\* read_http_line at the token after p; past the end no line is received.
LineAt(p) == IF cut \/ p >= Len(input) THEN Line("none", 0) ELSE input[p + 1]
has_value(line) == line.t \notin {"none", "blank"}
is_last_line(line) == line.t = "blank"
After(p) == IF LineAt(p).t = "none" THEN p ELSE p + 1

----------------------------------------------------------------------------
(* on_connection, up to the endpoint *)

\* process_req_line: three parts, a known method and a known version.
RequestLineOK(line) == line.t = "request" /\ line.value.bad # "line"
process_req_line(line) ==
    [NoRequest EXCEPT !.method = line.value.method,
                      !.version = line.value.version,
                      !.path = line.value.path]

ReadRequestLine ==
    LET line == LineAt(pos)
        good == has_value(line) /\ RequestLineOK(line)
    IN  /\ phase = "line"
        /\ pos' = After(pos)
        /\ begun' = IF line.t = "request" THEN begun + 1 ELSE begun
        /\ phase' = IF good THEN "headers" ELSE "closed"
        /\ req' = IF good THEN process_req_line(line) ELSE NoRequest
        /\ taken' = <<>>
        /\ UNCHANGED <<keeps, body, call, res, out, calls, cut>>

\* process_header_line: a name and a value around a colon; of the headers
\* on_connection asks for, the value.
HeaderLineOK(line) == line.t = "header"
process_header_line(line) ==
    LET r == scenario.requests[begun]
    IN  CASE line.value = "connection" -> [req EXCEPT !.connection = r.connection]
          [] line.value = "chunked"    -> [req EXCEPT !.chunked = TRUE]
          [] line.value = "length"     ->
                 [req EXCEPT !.length = IF r.bad = "length" THEN "bad" ELSE "good"]

\* One round of the loop over the headers, or the test behind it.
ReadHeaderLine ==
    LET line == LineAt(pos)
        good == has_value(line) /\ HeaderLineOK(line)
    IN  /\ phase = "headers"
        /\ pos' = After(pos)
        /\ phase' = CASE good               -> "headers"
                      [] is_last_line(line) -> "match"
                      [] OTHER              -> "closed"
        /\ req' = IF good THEN process_header_line(line) ELSE req
        /\ UNCHANGED <<keeps, body, call, res, out, calls, cut, begun, taken>>

\* The body's length, the match, and 404 when there is none.
Match ==
    LET bad == req.length = "bad"
        n == IF req.length # "" THEN scenario.requests[begun].chunks[1] ELSE 0
        endpoint == match(router, req.method, req.path)
    IN  /\ phase = "match"
        /\ body' = [m_incoming |-> n,
                    m_ended |-> req.length # "" \/ ~req.chunked]
        /\ phase' = IF bad THEN "closed"
                    ELSE IF MatchThrows(router, req.method, req.path) THEN "dropped"
                    ELSE IF endpoint = NoEndpoint THEN "end" ELSE "serve"
        /\ res' = IF endpoint # NoEndpoint THEN NoResponse
                  ELSE [NoResponse EXCEPT !.m_status = "404",
                                          !.m_headers = {"length"}]
        /\ UNCHANGED <<keeps, pos, req, call, out, calls, cut, begun, taken>>

----------------------------------------------------------------------------
(* http_body *)

\* Mutant: the line after the last chunk is not read.
LastChunk_no_line(p) == p

\* The one line that has_incoming reads after a chunk of size 0.
LastChunk(p) == After(p)

\* has_incoming: the new position and m_incoming, or an exception.
HasIncoming ==
    LET first == LineAt(pos)
        p == IF is_last_line(first) THEN After(pos) ELSE pos
        line == LineAt(p)
        n == line.value
    IN  IF body.m_incoming > 0 \/ body.m_ended
        THEN [throws |-> FALSE, pos |-> pos, body |-> body]
        ELSE IF line.t # "size"
        THEN [throws |-> TRUE, pos |-> After(p), body |-> body]
        ELSE [throws |-> FALSE,
              pos |-> IF n = 0 THEN LastChunk(After(p)) ELSE After(p),
              body |-> [m_incoming |-> n, m_ended |-> n = 0]]

\* Mutant: the string is overwritten from its start.
Store_overwrite(c, bytes) ==
    bytes \o SubSeq(c.dest, Len(bytes) + 1, Len(c.dest))

\* A string grows; memory is written from its start by every round; what is
\* skipped is stored nowhere.
Store(c, bytes) ==
    CASE c.kind = "string" -> c.dest \o bytes
      [] c.kind = "memory" -> bytes \o SubSeq(c.dest, Len(bytes) + 1, Len(c.dest))
      [] c.kind = "skip"   -> <<>>

\* One round of read or skip.
ReadRound ==
    LET h == HasIncoming
        n == Min({call.left, h.body.m_incoming})
        end == h.pos + n
        bytes == [i \in 1..n |-> input[h.pos + i].value]
    IN  /\ phase = "reading"
        /\ IF h.throws \/ (n > 0 /\ (cut \/ end > Len(input)))
           THEN /\ phase' = "dropped"
                /\ UNCHANGED <<pos, body, call, taken>>
           ELSE /\ pos' = end
                /\ body' = [h.body EXCEPT !.m_incoming = @ - n]
                /\ taken' = taken \o bytes
                /\ call' = [call EXCEPT !.left = @ - n, !.dest = Store(call, bytes),
                                        !.rounds = @ + 1]
                /\ phase' = IF n = 0 \/ n = call.left THEN "read" ELSE "reading"
        /\ UNCHANGED <<keeps, req, res, out, calls, cut, begun>>

\* The call returns to the endpoint.
ReadReturns ==
    /\ phase = "read"
    /\ phase' = "serve"
    /\ call' = NoCall
    /\ UNCHANGED <<keeps, pos, req, body, res, out, calls, cut, begun, taken>>

----------------------------------------------------------------------------
(* http_output *)

\* write_headers: what the client sees of them decides m_chunked_encoding.
write_headers(r) ==
    [r EXCEPT !.m_headers_written = TRUE,
              !.m_chunked_encoding = IF r.m_headers_written THEN @
                                     ELSE "chunked" \in r.m_headers]
HeaderTokens(r) ==
    IF r.m_headers_written THEN <<>>
    ELSE <<[t |-> "head", status |-> r.m_status, headers |-> r.m_headers,
            n |-> r.m_length]>>

WriteTokens(r, n) ==
    LET data == [i \in 1..n |-> [t |-> "data"]]
    IN  IF r.m_chunked_encoding
        THEN <<[t |-> "size", n |-> n]>> \o data \o <<[t |-> "crlf"]>>
        ELSE data

\* Mutant: the last chunk is not written.
LastTokens_none(r) == <<>>

LastTokens(r) == IF r.m_chunked_encoding
                 THEN <<[t |-> "size", n |-> 0], [t |-> "crlf"]>> ELSE <<>>

----------------------------------------------------------------------------
(* The endpoint's calls *)

Calling == phase = "serve" /\ calls < MaxCalls /\ calls' = calls + 1

Read(kind, n) ==
    /\ Calling
    /\ phase' = "reading"
    /\ call' = [kind |-> kind, size |-> n, left |-> n, dest |-> <<>>, rounds |-> 0]
    /\ UNCHANGED <<keeps, pos, req, body, res, out, cut, begun, taken>>

\* set_header of transfer-encoding, set_content_length.
SetHeader(name, n) ==
    /\ Calling
    /\ res' = [res EXCEPT !.m_headers = @ \cup {name},
                          !.m_length = IF name = "length" THEN n ELSE @]
    /\ UNCHANGED <<keeps, phase, pos, req, body, call, out, cut, begun, taken>>

Write(n) ==
    /\ Calling
    /\ res' = write_headers(res)
    /\ out' = out \o HeaderTokens(res) \o WriteTokens(res', n)
    /\ UNCHANGED <<keeps, phase, pos, req, body, call, cut, begun, taken>>

EndpointReturns ==
    /\ phase = "serve"
    /\ phase' = "end"
    /\ UNCHANGED <<keeps, pos, req, body, call, res, out, calls, cut, begun, taken>>

\* The endpoint throws, out of on_connection too: the frame is destroyed.
EndpointThrows ==
    /\ phase = "serve"
    /\ phase' = "dropped"
    /\ UNCHANGED <<keeps, pos, req, body, call, res, out, calls, cut, begun, taken>>

----------------------------------------------------------------------------
(* on_connection, after the endpoint *)

\* res.end().
End ==
    /\ phase = "end"
    /\ res' = write_headers(res)
    /\ out' = out \o HeaderTokens(res) \o LastTokens(res')
    /\ phase' = "keep"
    /\ UNCHANGED <<keeps, pos, req, body, call, calls, cut, begun, taken>>

\* The socket's flush throws.
EndFails ==
    /\ phase = "end"
    /\ phase' = "dropped"
    /\ UNCHANGED <<keeps, pos, req, body, call, res, out, calls, cut, begun, taken>>

\* Mutant: every version closes unless asked not to.
get_default_conn_type_close(version) == "close"

get_default_conn_type(version) == IF version = "1.0" THEN "close" ELSE "keep-alive"

KeepAlive ==
    "keep-alive" = IF req.connection # "" THEN req.connection
                   ELSE get_default_conn_type(req.version)

\* keep_conn: has_incoming may read the next chunk's header.
Keep ==
    /\ phase = "keep"
    /\ pos' = HasIncoming.pos
    /\ body' = HasIncoming.body
    /\ phase' = IF HasIncoming.throws THEN "dropped"
                ELSE IF body'.m_incoming = 0 /\ KeepAlive THEN "line" ELSE "closed"
    /\ UNCHANGED <<keeps, req, call, res, out, calls, cut, begun, taken>>

\* A recv reports an error where more of the request has to come: the socket
\* throws, out of on_connection too.
RecvFails ==
    /\ \/ phase \in {"line", "headers"}
       \/ phase = "reading" /\ (body.m_incoming > 0 \/ ~body.m_ended)
       \/ phase = "keep" /\ body.m_incoming = 0 /\ ~body.m_ended
    /\ phase' = "dropped"
    /\ UNCHANGED <<keeps, pos, req, body, call, res, out, calls, cut, begun, taken>>

Next ==
    \/ Register \/ Connect \/ Cut
    \/ ReadRequestLine \/ ReadHeaderLine \/ Match
    \/ ReadRound \/ ReadReturns
    \/ \E n \in Sizes : \/ Write(n)
                        \/ SetHeader("length", n)
                        \/ \E kind \in {"string", "memory", "skip"} : Read(kind, n)
    \/ SetHeader("chunked", 0)
    \/ EndpointReturns \/ EndpointThrows
    \/ End \/ EndFails \/ Keep \/ RecvFails

Spec == Init /\ [][Next]_vars

----------------------------------------------------------------------------
(* Properties *)

Requests == scenario.requests

\* The positions at which requests start, and the end.
Starts == {Len(FlattenSeq([j \in 1..k |-> Tokens(j, Requests[j])])) :
               k \in 0..Len(Requests)}

\* The loop goes back to read a request line only at the first byte of a
\* request, whatever part of the body the endpoint has read and however it was
\* split, unless the client sent trailers, of which one line is read.
AtBoundary ==
    phase = "line" /\ ~cut =>
        \/ pos \in Starts
        \/ /\ begun > 0 /\ Requests[begun].trailers > 0
           /\ input[pos + 1].t \in {"trailer", "blank"}

\* The calls of an endpoint consume the bytes of its own request's body, in
\* order, each once, across chunks, and a call gets less than it asks for only
\* at the body's end.  A string receives just what its call consumed.  Memory
\* does so only if the read took one round: in every round read writes at the
\* start, so of one that spans two chunks nothing is said here.
BodyInOrder ==
    /\ \A i \in DOMAIN taken : taken[i] = <<begun, i>>
    /\ call.kind = "string" \/ (call.kind = "memory" /\ call.rounds <= 1) =>
           LET n == call.size - call.left
           IN  call.dest = SubSeq(taken, Len(taken) - n + 1, Len(taken))
    /\ phase = "read" /\ call.left > 0 =>
           Len(taken) = Before(Requests[begun].chunks,
                               Len(Requests[begun].chunks) + 1)

\* What the parameters of a registered path stand for in the request's path.
Values(path) ==
    LET params == {i \in DOMAIN path : path[i].param}
    IN  [k \in {path[i].name : i \in params} |->
            req.path[Max({i \in params : path[i].name = k})]]

\* match finds the most exact path that covers a request's, and gives its
\* endpoint the values of its parameters under the names it registered.  It
\* finds none only if none covers it, or if every one that does is shadowed by
\* a branch of the tree that leads nowhere: match does not go back, and a
\* branch may be left by a registration that failed.
RightEndpoint ==
    phase = "match" /\ req.method \in {"GET", "POST"} =>
        LET found == match(router, req.method, req.path)
            covering == {e \in router.endpoints :
                             e.method = req.method /\ Covers(e.node, req.path)}
        IN  IF found = NoEndpoint
            THEN \A e \in covering : \E n \in router.nodes :
                     /\ Shadows(n, e.node)
                     /\ Len(n) <= Len(req.path)
                     /\ Covers(n, SubSeq(req.path, 1, Len(n)))
            ELSE /\ \E e \in covering :
                        e.to = found /\ \A f \in covering : ~Shadows(f.node, e.node)
                 /\ path_params(router, req.path) = Values(scenario.routes[found].path)

\* The response whose head is token i of s ends with token end.
Response(s, i, end) ==
    /\ s[i].t = "head"
    /\ \A j \in (i+1)..end : s[j].t # "head"
    /\ end < Len(s) => s[end + 1].t = "head"

\* A client that follows the framing of that response reads to its end and not
\* further: each chunk leads to another one, and only the last, of size 0, to
\* the end.  Without chunks there is nothing but data, and as much as is
\* declared if the server itself declares it.
Framed(s, i, end) ==
    LET sizes == {j \in (i+1)..end : s[j].t = "size"}
    IN  IF "chunked" \in s[i].headers
        THEN /\ i + 1 \in sizes
             /\ \A j \in sizes : IF s[j].n = 0 THEN end = j + 1
                                 ELSE j + s[j].n + 2 \in sizes
        ELSE /\ \A j \in (i+1)..end : s[j].t = "data"
             /\ s[i].status = "404" => end = i + s[i].n

\* A response ends where its framing says, so that the client finds the next
\* one behind it, whatever calls of http_output the endpoint has made.
ResponseFramed ==
    phase \in {"keep", "line"} =>
        \A i \in DOMAIN out : \A end \in i..Len(out) :
            Response(out, i, end) => Framed(out, i, end)

\* The connection is closed in good order only at the end of the client's
\* requests, or if a request is malformed, asks for it, leaves a part of its
\* body unread or has trailers: no request behind a good one is dropped.
NoRequestDropped ==
    phase = "closed" /\ ~cut =>
        \/ pos = Len(input)
        \/ LET r == Requests[begun]
           IN  \/ r.bad # "" \/ r.trailers > 0 \/ body.m_incoming > 0
               \/ r.connection = "close"
               \/ r.version = "1.0" /\ r.connection = ""

============================================================================
