----------------------------- MODULE HttpRouter -----------------------------
(***************************************************************************)
(* cppevent_http: http_router, a tree of path segments, as functions of    *)
(* the tree.                                                               *)
(*                                                                         *)
(* A path is the sequence of its segments: split_path drops the slashes    *)
(* before a segment, so empty segments do not exist.  A segment of a       *)
(* registered path is [param, name]; ":" alone is a parameter with no      *)
(* name.  A node of the tree is the sequence of edges that leads to it; an *)
(* edge is a segment's name, or Param.                                     *)
(***************************************************************************)
EXTENDS Naturals, Sequences, FiniteSets, SequencesExt, FiniteSetsExt

Param == ":"
NoName == ""
NoEndpoint == 0

\* An http_router without routes.
EmptyRouter == [nodes |-> {<<>>}, m_path_param |-> [n \in {<<>>} |-> NoName],
                endpoints |-> {}]

Edges(path) ==
    [i \in DOMAIN path |-> IF path[i].param THEN Param ELSE path[i].name]

\* The node that a walk along a registered path is at before segment i.
NodeAt(path, i) == SubSeq(Edges(path), 1, i - 1)

\* set_endpoint throws at segment i: the parameter has no name, or another
\* name than the one the node has.
Clash(r, path, i) ==
    /\ path[i].param
    /\ \/ path[i].name = NoName
       \/ /\ NodeAt(path, i) \in r.nodes
          /\ r.m_path_param[NodeAt(path, i)] \notin {NoName, path[i].name}

\* Segments walked before the exception, or all of them.
Walked(r, path) ==
    IF \E i \in DOMAIN path : Clash(r, path, i)
    THEN Min({i \in DOMAIN path : Clash(r, path, i)}) - 1
    ELSE Len(path)

Registered(r, method, path) ==
    /\ Walked(r, path) = Len(path)
    /\ ~\E e \in r.endpoints : e.node = Edges(path) /\ e.method = method

\* get, post.  Nodes that an exception leaves behind stay in the tree.
set_endpoint(r, method, path, endpoint) ==
    LET new == {SubSeq(Edges(path), 1, i) : i \in 0..Walked(r, path)}
        nodes == r.nodes \cup new
        named == {i \in 1..Walked(r, path) : path[i].param}
        old(n) == IF n \in r.nodes THEN r.m_path_param[n] ELSE NoName
    IN  [nodes |-> nodes,
         m_path_param |-> [n \in nodes |->
             IF \E i \in named : NodeAt(path, i) = n
             THEN path[CHOOSE i \in named : NodeAt(path, i) = n].name
             ELSE old(n)],
         endpoints |-> r.endpoints \cup
             IF Registered(r, method, path)
             THEN {[node |-> Edges(path), method |-> method, to |-> endpoint]}
             ELSE {}]

\* Mutant: the parameter is tried first.
Step_param_first(r, node, segment) ==
    IF r.m_path_param[node] # NoName THEN <<Append(node, Param)>>
    ELSE IF Append(node, segment) \in r.nodes THEN <<Append(node, segment)>>
    ELSE <<>>

\* One step of match: the child for a segment of the request, if there is one.
Step(r, node, segment) ==
    IF Append(node, segment) \in r.nodes THEN <<Append(node, segment)>>
    ELSE IF r.m_path_param[node] # NoName THEN <<Append(node, Param)>>
    ELSE <<>>

\* The node that match is at behind each number of segments, in a sequence of
\* its own, or nothing.
Stages(r, segments) ==
    LET at[i \in 0..Len(segments)] ==
            IF i = 0 THEN <<<<>>>>
            ELSE IF at[i - 1] = <<>> THEN <<>>
            ELSE Step(r, at[i - 1][1], segments[i])
    IN  at

\* The node that match ends at, or nothing.
Walk(r, segments) == Stages(r, segments)[Len(segments)]

\* path_params: the nodes at which match takes the parameter give it the name
\* under which it stores the segment; of equal names the last one is kept.
path_params(r, segments) ==
    LET node(i) == Stages(r, segments)[i][1]
        taken == {i \in DOMAIN segments : node(i)[i] = Param}
        name(i) == r.m_path_param[node(i - 1)]
    IN  [k \in {name(i) : i \in taken} |->
            segments[Max({i \in taken : name(i) = k})]]

\* get_endpoint_var throws for a method that no endpoint can have.
MatchThrows(r, method, segments) ==
    Walk(r, segments) # <<>> /\ method \notin {"GET", "POST"}

match(r, method, segments) ==
    LET hits == {e \in r.endpoints : Walk(r, segments) = <<e.node>>
                                         /\ e.method = method}
    IN  IF hits = {} THEN NoEndpoint ELSE (CHOOSE e \in hits : TRUE).to

\* A segment of a registered path: what begins with a colon is a parameter.
Segments ==
    {s \in [param : BOOLEAN, name : STRING] : s.param \/ s.name # Param}

----------------------------------------------------------------------------
(* What matching should mean *)

\* A registered path covers a request's path, parameters standing for anything.
Covers(node, segments) ==
    /\ Len(node) = Len(segments)
    /\ \A i \in DOMAIN node : node[i] \in {Param, segments[i]}

\* Another path is more exact: it has a name where this one has a parameter,
\* after the same beginning.
Shadows(other, node) ==
    \E i \in DOMAIN node :
        /\ Len(other) >= i
        /\ SubSeq(other, 1, i - 1) = SubSeq(node, 1, i - 1)
        /\ node[i] = Param /\ other[i] # Param

============================================================================
