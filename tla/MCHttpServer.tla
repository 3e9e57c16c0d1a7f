---------------------------- MODULE MCHttpServer ----------------------------
(***************************************************************************)
(* What is registered and requested in the run of HttpServer: every set of *)
(* routes with plain requests, and every request with one plain route.     *)
(***************************************************************************)
EXTENDS HttpServer

Name(n) == [param |-> FALSE, name |-> n]
Par(n) == [param |-> TRUE, name |-> n]
Get(path) == [method |-> "GET", path |-> path]

\* A GET of a path, without a body.
Plain(path) ==
    [method |-> "GET", path |-> path, version |-> "1.1", connection |-> "",
     framing |-> "none", chunks |-> <<>>, trailers |-> 0, bad |-> ""]

\* Exact names and parameters, in both orders; a node without an endpoint that
\* hides a parameter; a clash of names and a nameless parameter, with what they
\* leave behind; one name twice; a duplicate; the other method.
Routings == {
    <<Get(<<Par("p")>>), Get(<<Name("a")>>)>>,
    <<Get(<<Name("a"), Name("b")>>), Get(<<Par("p"), Name("c")>>)>>,
    <<Get(<<Name("a"), Par(NoName)>>), Get(<<Par("p")>>)>>,
    <<Get(<<Name("a"), Name("b")>>), Get(<<Par("p")>>)>>,
    <<Get(<<Par("p"), Name("b")>>), Get(<<Par("q"), Name("c")>>)>>,
    <<Get(<<Name("a"), Par("p")>>), Get(<<Par("q"), Name("b")>>)>>,
    <<Get(<<Par("p"), Par("p")>>), Get(<<>>)>>,
    <<Get(<<Name("a")>>), Get(<<Name("a")>>),
      [method |-> "POST", path |-> <<Name("a")>>]>>}

Paths == {<<>>} \cup {<<a>> : a \in {"a", "b"}}
            \cup {<<a, b>> : a \in {"a", "b"}, b \in {"b", "c"}}

Simple == <<Get(<<Name("a")>>)>>
Base == Plain(<<"a">>)
Length(n) == [Base EXCEPT !.framing = "length", !.chunks = <<n>>]
Chunked(chunks, n) ==
    [Base EXCEPT !.framing = "chunked", !.chunks = chunks, !.trailers = n]

\* Each kind of request, before a plain one.
Kinds == {Length(0), Length(2),
          Chunked(<<>>, 0), Chunked(<<2>>, 0), Chunked(<<1, 2>>, 0),
          Chunked(<<1>>, 1), Chunked(<<1>>, 2)}
         \cup {[Base EXCEPT !.version = v, !.connection = c] :
                   v \in {"1.0", "1.1"}, c \in {"", "close", "keep-alive"}}
         \cup {[Base EXCEPT !.bad = b] : b \in {"line", "header"}}
         \cup {[Length(2) EXCEPT !.bad = "length"],
               [Base EXCEPT !.method = "HEAD"]}

MCScenarios ==
    {[routes |-> r, requests |-> <<Plain(p)>>] : r \in Routings, p \in Paths}
    \cup {[routes |-> Simple, requests |-> <<k, Base>>] : k \in Kinds}
    \cup {[routes |-> Simple, requests |-> <<Chunked(<<1, 2>>, 0), Length(2)>>]}

============================================================================
