-------------------------- MODULE HttpServerProofs --------------------------
(***************************************************************************)
(* Theorems about HttpServer, for every set of scenarios, every size of a  *)
(* call and every number of calls.                                         *)
(***************************************************************************)
EXTENDS HttpServer, WellFoundedInduction, TLAPS

----------------------------------------------------------------------------
(* Flattened sequences *)

\* Every set of numbers has a least one: the way to induction here.
LEMMA Least ==
    ASSUME NEW T, T \subseteq Nat, T # {}
    PROVE  \E x \in T : \A y \in T : x <= y
  <1> DEFINE R == OpToRel(<, Nat)
  <1>1. IsWellFoundedOn(R, Nat)
    BY NatLessThanWellFounded
  <1>2. \A x, y \in Nat : x < y => <<x, y>> \in R
    BY DEF OpToRel
  <1> HIDE DEF R
  <1>3. PICK x \in T : \A y \in T : ~(<<y, x>> \in R)
    BY <1>1, WFMin
  <1>4. \A y \in T : ~(y < x)
    BY <1>2, <1>3, Zenon
  <1>5. \A y \in T : x <= y
    BY <1>4
  <1> QED
    BY <1>5

\* The recursive function inside FlattenSeq.
Steps(q, n, f) == f = [i \in 1..n |-> IF i = 1 THEN q[i] ELSE f[i - 1] \o q[i]]

\* It exists: a shorter one can be made longer.
LEMMA StepsExist ==
    ASSUME NEW q, NEW n \in Nat
    PROVE  \E f : Steps(q, n, f)
  <1> DEFINE Bad == {m \in Nat : ~\E f : Steps(q, m, f)}
  <1> SUFFICES ASSUME n \in Bad
               PROVE  FALSE
    OBVIOUS
  <1>1. PICK m \in Bad : \A y \in Bad : m <= y
    <2>1. Bad \subseteq Nat /\ Bad # {}
      OBVIOUS
    <2> HIDE DEF Bad
    <2> QED
      BY <2>1, Least
  <1>2. m \in Nat
    OBVIOUS
  <1>3. CASE m = 0
    <2> DEFINE e == [i \in 1..0 |-> 0]
    <2>1. Steps(q, 0, e)
      <3>1. 1..0 = {}
        OBVIOUS
      <3> QED
        BY <3>1 DEF Steps
    <2> QED
      BY <1>3, <2>1
  <1>4. CASE m # 0
    <2>1. m - 1 \in Nat /\ ~(m <= m - 1)
      BY <1>2, <1>4
    <2>2. m - 1 \notin Bad
      BY <1>1, <2>1
    <2>3. PICK f : Steps(q, m - 1, f)
      BY <2>1, <2>2
    <2> DEFINE g == [i \in 1..m |->
                       IF i < m THEN f[i]
                       ELSE IF m = 1 THEN q[m] ELSE f[m - 1] \o q[m]]
    <2>4. \A i \in 1..m : g[i] = IF i = 1 THEN q[i] ELSE g[i - 1] \o q[i]
      <3> TAKE i \in 1..m
      <3>1. CASE i < m
        <4>1. i \in 1..(m-1)
          BY <1>2, <3>1
        <4>2. f[i] = IF i = 1 THEN q[i] ELSE f[i - 1] \o q[i]
          BY <2>3, <4>1 DEF Steps
        <4>3. i # 1 => i - 1 \in 1..m /\ i - 1 < m
          BY <1>2, <3>1
        <4>4. g[i] = f[i] /\ (i # 1 => g[i - 1] = f[i - 1])
          BY <3>1, <4>3
        <4> HIDE DEF g
        <4> QED
          BY <4>2, <4>4
      <3>2. CASE i = m
        <4>1. m # 1 => m - 1 \in 1..m /\ m - 1 < m
          BY <1>2, <3>2
        <4>2. m # 1 => g[m - 1] = f[m - 1]
          BY <4>1
        <4>3. g[m] = IF m = 1 THEN q[m] ELSE f[m - 1] \o q[m]
          BY <1>2, <1>4
        <4> HIDE DEF g
        <4> QED
          BY <3>2, <4>2, <4>3
      <3> QED
        BY <1>2, <3>1, <3>2
    <2>5. Steps(q, m, g)
      <3>1. g = [i \in 1..m |-> g[i]]
        OBVIOUS
      <3> HIDE DEF g
      <3> QED
        BY <2>4, <3>1 DEF Steps
    <2>6. \E h : Steps(q, m, h)
      BY <2>5
    <2> QED
      BY <1>1, <2>6
  <1> QED
    BY <1>3, <1>4

\* Two of them agree where both are defined.
LEMMA StepsAgree ==
    ASSUME NEW p, NEW q, NEW n \in Nat, NEW m \in Nat, n <= m,
           \A i \in 1..n : p[i] = q[i],
           NEW f, Steps(p, n, f), NEW g, Steps(q, m, g)
    PROVE  \A i \in 1..n : f[i] = g[i]
  <1> DEFINE Bad == {i \in 1..n : f[i] # g[i]}
  <1> SUFFICES ASSUME Bad # {}
               PROVE  FALSE
    OBVIOUS
  <1>1. PICK j \in Bad : \A y \in Bad : j <= y
    <2>1. Bad \subseteq Nat
      OBVIOUS
    <2> HIDE DEF Bad
    <2> QED
      BY <2>1, Least
  <1>2. j \in 1..n /\ j \in 1..m
    OBVIOUS
  <1>3. f[j] = IF j = 1 THEN p[j] ELSE f[j - 1] \o p[j]
    BY <1>2 DEF Steps
  <1>4. g[j] = IF j = 1 THEN q[j] ELSE g[j - 1] \o q[j]
    BY <1>2 DEF Steps
  <1>5. p[j] = q[j]
    BY <1>2
  <1>6. CASE j = 1
    BY <1>3, <1>4, <1>5, <1>6
  <1>7. CASE j # 1
    <2>1. j - 1 \in 1..n /\ ~(j <= j - 1)
      BY <1>2, <1>7
    <2>2. f[j - 1] = g[j - 1]
      BY <1>1, <2>1
    <2> QED
      BY <1>3, <1>4, <1>5, <1>7, <2>2
  <1> QED
    BY <1>6, <1>7

\* FlattenSeq is the last value of any of them.
LEMMA FlattenSteps ==
    ASSUME NEW q, NEW n \in Nat \ {0}, Len(q) = n, NEW f, Steps(q, n, f)
    PROVE  FlattenSeq(q) = f[n]
  <1> DEFINE g == CHOOSE h : h = [i \in 1..Len(q) |->
                                   IF i = 1 THEN q[i] ELSE h[i - 1] \o q[i]]
  <1>1. FlattenSeq(q) = g[n]
    BY DEF FlattenSeq
  <1>2. Steps(q, n, g)
    <2>1. \E h : h = [i \in 1..Len(q) |-> IF i = 1 THEN q[i] ELSE h[i - 1] \o q[i]]
      BY DEF Steps
    <2> QED
      BY <2>1 DEF Steps
  <1> HIDE DEF g
  <1>3. f[n] = g[n]
    BY <1>2, StepsAgree
  <1> QED
    BY <1>1, <1>3

\* Where the elements of a concatenation come from.
LEMMA ConcatPlaces ==
    ASSUME NEW X, NEW s \in Seq(X), NEW t \in Seq(X)
    PROVE  /\ s \o t \in Seq(X)
           /\ Len(s \o t) = Len(s) + Len(t)
           /\ Len(s) \in Nat /\ Len(t) \in Nat /\ Len(s \o t) \in Nat
           /\ \A i \in 1..Len(s) : (s \o t)[i] = s[i] /\ i <= Len(s \o t)
           /\ \A i \in 1..Len(t) : (s \o t)[Len(s) + i] = t[i]
  OBVIOUS

\* The first k of a sequence of sequences, joined.
Joint(q, k) == FlattenSeq([j \in 1..k |-> q[j]])

\* It grows by one piece at a time.
LEMMA JointSteps ==
    ASSUME NEW X, NEW q \in Seq(Seq(X))
    PROVE  /\ Joint(q, 0) = <<>>
           /\ Joint(q, Len(q)) = FlattenSeq(q)
           /\ \A k \in 1..Len(q) : Joint(q, k) = Joint(q, k - 1) \o q[k]
  <1> DEFINE N == Len(q)
             pre(k) == [j \in 1..k |-> q[j]]
  <1>1. N \in Nat /\ q = [j \in 1..N |-> q[j]] /\ \A j \in 1..N : q[j] \in Seq(X)
    OBVIOUS
  <1>2. Joint(q, 0) = <<>>
    <2>1. pre(0) = <<>> /\ Len(<<>>) = 0
      OBVIOUS
    <2> QED
      BY <2>1 DEF Joint, FlattenSeq
  <1>3. PICK f : Steps(q, N, f)
    BY <1>1, StepsExist
  <1>4. \A k \in 1..N : Joint(q, k) = f[k]
    <2> TAKE k \in 1..N
    <2>1. /\ k \in Nat \ {0} /\ k <= N /\ Len(pre(k)) = k
          /\ \A i \in 1..k : pre(k)[i] = q[i]
      BY <1>1
    <2> HIDE DEF pre
    <2>2. PICK g : Steps(pre(k), k, g)
      BY <2>1, StepsExist
    <2>3. FlattenSeq(pre(k)) = g[k]
      BY <2>1, <2>2, FlattenSteps
    <2>4. g[k] = f[k]
      <3> DEFINE p == pre(k)
      <3>1. Steps(p, k, g) /\ \A i \in 1..k : p[i] = q[i]
        BY <2>1, <2>2
      <3> HIDE DEF p, N
      <3>2. k \in Nat /\ N \in Nat /\ k <= N
        BY <1>1, <2>1
      <3>4. Steps(q, N, f)
        BY <1>3
      <3>5. \A i \in 1..k : g[i] = f[i]
        BY <3>1, <3>2, <3>4, StepsAgree
      <3>3. k \in 1..k
        BY <2>1
      <3> QED
        BY <3>3, <3>5
    <2> QED
      BY <2>3, <2>4 DEF Joint, pre
  <1>5. Joint(q, N) = FlattenSeq(q)
    BY <1>1 DEF Joint
  <1>6. \A k \in 1..N : Joint(q, k) = Joint(q, k - 1) \o q[k]
    <2> TAKE k \in 1..N
    <2>1. f[k] = IF k = 1 THEN q[k] ELSE f[k - 1] \o q[k]
      BY <1>3 DEF Steps
    <2>2. CASE k = 1
      <3>1. <<>> \o q[k] = q[k]
        BY <1>1
      <3>2. Joint(q, k - 1) = <<>>
        BY <1>2, <2>2
      <3> QED
        BY <1>4, <2>1, <2>2, <3>1, <3>2
    <2>3. CASE k # 1
      <3>1. k - 1 \in 1..N
        BY <1>1, <2>3
      <3> QED
        BY <1>4, <2>1, <2>3, <3>1
    <2> QED
      BY <2>2, <2>3
  <1> QED
    BY <1>2, <1>5, <1>6

\* Where the pieces of a flattened sequence are.
LEMMA JointPlaces ==
    ASSUME NEW X, NEW q \in Seq(Seq(X))
    PROVE  /\ FlattenSeq(q) \in Seq(X)
           /\ Len(Joint(q, 0)) = 0
           /\ Len(Joint(q, Len(q))) = Len(FlattenSeq(q))
           /\ \A k \in 0..Len(q) : Joint(q, k) \in Seq(X)
           /\ \A k \in 1..Len(q) :
                  /\ Len(Joint(q, k)) = Len(Joint(q, k - 1)) + Len(q[k])
                  /\ \A i \in 1..Len(q[k]) :
                         LET a == Len(Joint(q, k - 1)) + i
                         IN  FlattenSeq(q)[a] = q[k][i] /\ a <= Len(FlattenSeq(q))
  <1> DEFINE N == Len(q)
  <1>1. /\ Joint(q, 0) = <<>> /\ Joint(q, N) = FlattenSeq(q)
        /\ \A k \in 1..N : Joint(q, k) = Joint(q, k - 1) \o q[k]
        /\ N \in Nat /\ \A k \in 1..N : q[k] \in Seq(X)
    <2>1. N \in Nat /\ \A k \in 1..N : q[k] \in Seq(X)
      OBVIOUS
    <2> QED
      BY <2>1, JointSteps
  <1> HIDE DEF N
  <1>2. \A k \in 0..N : Joint(q, k) \in Seq(X)
    <2> DEFINE Bad == {k \in 0..N : Joint(q, k) \notin Seq(X)}
    <2> SUFFICES ASSUME Bad # {}
                 PROVE  FALSE
      OBVIOUS
    <2>1. PICK k \in Bad : \A y \in Bad : k <= y
      <3>1. Bad \subseteq Nat
        BY <1>1
      <3> HIDE DEF Bad
      <3> QED
        BY <3>1, Least
    <2>2. CASE k = 0
      <3>1. <<>> \in Seq(X)
        OBVIOUS
      <3> QED
        BY <1>1, <2>2, <3>1
    <2>3. CASE k # 0
      <3>1. k \in 1..N /\ k - 1 \in 0..N /\ ~(k <= k - 1)
        BY <1>1, <2>3
      <3>2. Joint(q, k - 1) \in Seq(X)
        BY <2>1, <3>1
      <3>3. q[k] \in Seq(X) /\ Joint(q, k) = Joint(q, k - 1) \o q[k]
        BY <1>1, <3>1
      <3>4. Joint(q, k) \in Seq(X)
        BY <3>2, <3>3, ConcatPlaces
      <3> QED
        BY <3>4
    <2> QED
      BY <2>2, <2>3
  <1>3. \A k \in 1..N : /\ Len(Joint(q, k)) = Len(Joint(q, k - 1)) + Len(q[k])
                        /\ \A i \in 1..Len(q[k]) :
                               Joint(q, k)[Len(Joint(q, k - 1)) + i] = q[k][i]
    <2> TAKE k \in 1..N
    <2>1. k - 1 \in 0..N
      BY <1>1
    <2>2. Joint(q, k - 1) \in Seq(X) /\ q[k] \in Seq(X)
      BY <1>1, <1>2, <2>1
    <2>3. Joint(q, k) = Joint(q, k - 1) \o q[k]
      BY <1>1
    <2>4. \A s, t \in Seq(X) : /\ Len(s \o t) = Len(s) + Len(t)
                               /\ \A i \in 1..Len(t) : (s \o t)[Len(s) + i] = t[i]
      BY ConcatPlaces
    <2> QED
      BY <2>2, <2>3, <2>4
  <1>4. ASSUME NEW k \in 1..N, NEW i \in 1..Len(q[k])
        PROVE  LET a == Len(Joint(q, k - 1)) + i
               IN  \A m \in k..N :
                       Joint(q, m)[a] = q[k][i] /\ ~(a > Len(Joint(q, m)))
    <2> DEFINE a == Len(Joint(q, k - 1)) + i
               Bad == {m \in k..N : Joint(q, m)[a] # q[k][i] \/ a > Len(Joint(q, m))}
    <2> SUFFICES ASSUME Bad # {}
                 PROVE  FALSE
      OBVIOUS
    <2>1. PICK m \in Bad : \A y \in Bad : m <= y
      <3>1. Bad \subseteq Nat
        BY <1>1
      <3> HIDE DEF Bad
      <3> QED
        BY <3>1, Least
    <2>2. k - 1 \in 0..N /\ k \in 0..N
      BY <1>1
    <2>3. a \in Nat \ {0}
      <3>1. Joint(q, k - 1) \in Seq(X)
        BY <1>2, <2>2
      <3> QED
        BY <3>1
    <2>4. CASE m = k
      <3>1. Joint(q, k)[a] = q[k][i]
        BY <1>3
      <3>2. a <= Len(Joint(q, k))
        <4>1. Joint(q, k - 1) \in Seq(X) /\ q[k] \in Seq(X)
          BY <1>1, <1>2, <2>2
        <4>2. Len(Joint(q, k)) = Len(Joint(q, k - 1)) + Len(q[k])
          BY <1>3
        <4> QED
          BY <4>1, <4>2
      <3>3. Len(Joint(q, k)) \in Nat
        <4>1. Joint(q, k) \in Seq(X)
          BY <1>2, <2>2
        <4> QED
          BY <4>1
      <3> HIDE DEF a
      <3> QED
        BY <2>3, <2>4, <3>1, <3>2, <3>3
    <2>5. CASE m # k
      <3>1. m \in 1..N /\ m - 1 \in k..N /\ m - 1 \in 0..N /\ ~(m <= m - 1)
        BY <1>1, <2>5
      <3>2. m - 1 \notin Bad
        BY <2>1, <3>1
      <3>3. Joint(q, m - 1)[a] = q[k][i] /\ ~(a > Len(Joint(q, m - 1)))
        BY <3>1, <3>2
      <3>4. Joint(q, m - 1) \in Seq(X) /\ q[m] \in Seq(X)
        BY <1>1, <1>2, <3>1
      <3>5. Joint(q, m) = Joint(q, m - 1) \o q[m]
        BY <1>1, <3>1
      <3> HIDE DEF a
      <3>6. a \in 1..Len(Joint(q, m - 1))
        BY <2>3, <3>3, <3>4
      <3>7. Joint(q, m)[a] = Joint(q, m - 1)[a] /\ a <= Len(Joint(q, m))
            /\ Len(Joint(q, m)) \in Nat
        <4>1. \A s, t \in Seq(X) : \A b \in 1..Len(s) :
                  (s \o t)[b] = s[b] /\ b <= Len(s \o t) /\ Len(s \o t) \in Nat
          BY ConcatPlaces
        <4> HIDE DEF Bad
        <4> QED
          BY <3>4, <3>5, <3>6, <4>1, Zenon
      <3> QED
        BY <2>3, <3>3, <3>7
    <2> QED
      BY <2>4, <2>5
  <1>5. \A k \in 1..N : \A i \in 1..Len(q[k]) :
            LET a == Len(Joint(q, k - 1)) + i
            IN  FlattenSeq(q)[a] = q[k][i] /\ a <= Len(FlattenSeq(q))
    <2> TAKE k \in 1..N
    <2> TAKE i \in 1..Len(q[k])
    <2>1. N \in k..N
      BY <1>1
    <2> DEFINE a == Len(Joint(q, k - 1)) + i
    <2>2. Joint(q, N)[a] = q[k][i] /\ ~(a > Len(Joint(q, N)))
      BY <1>4, <2>1
    <2>3. a \in Nat /\ Len(Joint(q, N)) \in Nat
      <3>1. k - 1 \in 0..N /\ N \in 0..N
        BY <1>1
      <3>2. Joint(q, k - 1) \in Seq(X) /\ Joint(q, N) \in Seq(X)
        BY <1>2, <3>1
      <3> QED
        BY <3>2
    <2> HIDE DEF a
    <2>4. a <= Len(Joint(q, N))
      BY <2>2, <2>3
    <2> QED
      BY <1>1, <2>2, <2>4 DEF a
  <1>6. Len(Joint(q, 0)) = 0
    BY <1>1
  <1>7. FlattenSeq(q) \in Seq(X)
    <2>1. N \in 0..N
      BY <1>1
    <2> QED
      BY <1>1, <1>2, <2>1
  <1> QED
    BY <1>1, <1>2, <1>3, <1>5, <1>6, <1>7 DEF N

----------------------------------------------------------------------------
(* What http_output has written *)

\* What http_output writes.
OutTokens ==
    [t : {"head"}, status : {"200", "404"}, headers : SUBSET {"length", "chunked"},
     n : Nat]
    \cup [t : {"size"}, n : Nat]
    \cup [t : {"data", "crlf"}]

\* An http_output before res.end().
Responses ==
    [m_status : {"200", "404"}, m_headers : SUBSET {"length", "chunked"},
     m_length : Nat, m_headers_written : BOOLEAN, m_chunked_encoding : BOOLEAN]

\* The phases in which the endpoint runs or waits for a body.
Serving == {"serve", "reading", "read"}

\* A response without its last chunk: s ends inside of it, behind a whole chunk.
Begun(s, i) ==
    LET sizes == {j \in (i+1)..Len(s) : s[j].t = "size"}
    IN  IF "chunked" \in s[i].headers
        THEN /\ i + 1 \in sizes \/ i = Len(s)
             /\ \A j \in sizes :
                    /\ s[j].n > 0
                    /\ j + s[j].n + 2 \in sizes \/ j + s[j].n + 1 = Len(s)
        ELSE /\ \A j \in (i+1)..Len(s) : s[j].t = "data"
             /\ s[i].status = "404" => Len(s) = i + s[i].n

\* The headers of the current request's response have been written, and
\* res.end() has not.
Writing == phase \in Serving \cup {"end"} /\ res.m_headers_written

\* Every response but one that is being written is whole.
Whole ==
    \A i \in DOMAIN out : \A end \in i..Len(out) :
        Response(out, i, end) /\ (end < Len(out) \/ ~Writing) =>
            Framed(out, i, end)

\* The one that is being written goes on the way its headers say, whatever
\* headers have been set since.
Current ==
    Writing =>
        \A i \in DOMAIN out :
            Response(out, i, Len(out)) =>
                /\ Begun(out, i)
                /\ res.m_chunked_encoding <=> "chunked" \in out[i].headers
                /\ out[i].status = "200"

\* An endpoint's status is 200; the server's own answer has no body.
Answered ==
    /\ phase \in Serving => res.m_status = "200"
    /\ phase = "end" /\ res.m_status = "404" =>
           ~res.m_headers_written /\ res.m_length = 0 /\ res.m_headers = {"length"}

Responding ==
    /\ out \in Seq(OutTokens)
    /\ res \in Responses
    /\ phase # "dropped" => Whole /\ Current
    /\ Answered

----------------------------------------------------------------------------
(* Sequences of tokens *)

\* Where the tokens of a concatenation come from.
LEMMA Joined ==
    ASSUME NEW s \in Seq(OutTokens), NEW w \in Seq(OutTokens)
    PROVE  /\ s \o w \in Seq(OutTokens)
           /\ Len(s \o w) = Len(s) + Len(w)
           /\ DOMAIN (s \o w) = 1..(Len(s) + Len(w))
           /\ \A j \in 1..Len(s) : (s \o w)[j] = s[j]
           /\ \A j \in 1..Len(w) : (s \o w)[Len(s) + j] = w[j]
           /\ \A j \in (Len(s)+1)..(Len(s) + Len(w)) : (s \o w)[j] = w[j - Len(s)]
  OBVIOUS

\* A head that is written ends the response before it and begins one.
LEMMA HeadAppended ==
    ASSUME NEW s \in Seq(OutTokens), NEW h \in OutTokens, h.t = "head",
           NEW i \in DOMAIN (s \o <<h>>), NEW end \in i..Len(s \o <<h>>),
           Response(s \o <<h>>, i, end)
    PROVE  \/ /\ i \in DOMAIN s /\ end \in i..Len(s)
              /\ Response(s, i, end)
           \/ i = Len(s \o <<h>>) /\ end = Len(s \o <<h>>)
  <1> DEFINE u == s \o <<h>>
  <1>1. /\ Len(u) = Len(s) + 1
        /\ DOMAIN u = 1..(Len(s) + 1)
        /\ DOMAIN s = 1..Len(s)
        /\ Len(s) \in Nat
        /\ \A j \in 1..Len(s) : u[j] = s[j]
        /\ u[Len(s) + 1] = h
    OBVIOUS
  <1>2. CASE i = Len(s) + 1
    BY <1>1, <1>2
  <1>3. CASE i # Len(s) + 1
    <2>1. i \in 1..Len(s)
      BY <1>1, <1>3
    <2>2. end # Len(s) + 1
      <3>1. SUFFICES ASSUME end = Len(s) + 1
                     PROVE  FALSE
        OBVIOUS
      <3>2. Len(s) + 1 \in (i+1)..end
        BY <3>1, <2>1, <1>1
      <3>3. u[Len(s) + 1].t # "head"
        BY <3>2 DEF Response
      <3> QED
        BY <3>3, <1>1
    <2>3. end \in i..Len(s)
      BY <2>2, <1>1, <2>1
    <2> HIDE DEF u
    <2>4. Response(u, i, end)
      BY DEF u
    <2>5. Response(s, i, end)
      BY <2>4, <2>3, <2>1, <1>1 DEF Response
    <2> QED
      BY <2>1, <2>3, <2>5, <1>1
  <1> QED
    BY <1>2, <1>3

\* Tokens that are not heads make the last response longer and leave the ones
\* before it.
LEMMA Lengthened ==
    ASSUME NEW s \in Seq(OutTokens), NEW w \in Seq(OutTokens),
           \A j \in 1..Len(w) : w[j].t # "head",
           NEW i \in DOMAIN (s \o w), NEW end \in i..Len(s \o w),
           Response(s \o w, i, end)
    PROVE  /\ i \in DOMAIN s
           /\ \/ end \in i..Len(s) /\ end < Len(s) /\ Response(s, i, end)
              \/ end = Len(s \o w) /\ Response(s, i, Len(s))
  <1> DEFINE u == s \o w
  <1>1. /\ Len(u) = Len(s) + Len(w)
        /\ DOMAIN u = 1..(Len(s) + Len(w))
        /\ DOMAIN s = 1..Len(s)
        /\ Len(s) \in Nat /\ Len(w) \in Nat
        /\ \A j \in 1..Len(s) : u[j] = s[j]
        /\ \A j \in (Len(s)+1)..(Len(s) + Len(w)) : u[j].t # "head"
    OBVIOUS
  <1>2. Response(u, i, end) /\ i \in DOMAIN u /\ end \in i..Len(u)
    OBVIOUS
  <1> HIDE DEF u
  <1>3. i \in 1..Len(s)
    BY <1>1, <1>2 DEF Response
  <1>4. CASE end < Len(s)
    BY <1>1, <1>2, <1>3, <1>4 DEF Response
  <1>5. CASE end >= Len(s)
    <2>1. end = Len(u)
      <3>1. SUFFICES ASSUME end < Len(u)
                     PROVE  FALSE
        <4>1. Len(u) \in Nat /\ end \in Nat /\ end <= Len(u)
          BY <1>1, <1>2, <1>3
        <4> QED
          BY <4>1
      <3>2. end + 1 \in (Len(s)+1)..(Len(s) + Len(w))
        BY <1>1, <1>2, <1>3, <1>5, <3>1
      <3> QED
        BY <1>1, <1>2, <3>1, <3>2 DEF Response
    <2>2. \A j \in (i+1)..Len(s) : j \in (i+1)..end /\ j \in 1..Len(s)
      BY <1>1, <1>2, <1>3, <1>5
    <2>3. s[i].t = "head"
      BY <1>1, <1>2, <1>3 DEF Response
    <2>4. Response(s, i, Len(s))
      BY <1>1, <1>2, <2>2, <2>3 DEF Response
    <2> QED
      BY <1>1, <1>3, <2>1, <2>4 DEF u
  <1> QED
    BY <1>1, <1>2, <1>3, <1>4, <1>5

\* What is behind a response does not matter to it.
LEMMA FramedOn ==
    ASSUME NEW s \in Seq(OutTokens), NEW w \in Seq(OutTokens),
           NEW i \in DOMAIN s, NEW end \in i..Len(s), Framed(s, i, end)
    PROVE  Framed(s \o w, i, end)
  <1> DEFINE u == s \o w
  <1>1. \A j \in i..end : u[j] = s[j]
    BY Joined
  <1>2. i \in i..end /\ \A j \in (i+1)..end : j \in i..end
    OBVIOUS
  <1> HIDE DEF u
  <1>3. {j \in (i+1)..end : u[j].t = "size"} = {j \in (i+1)..end : s[j].t = "size"}
    BY <1>1, <1>2
  <1>4. \A j \in {k \in (i+1)..end : s[k].t = "size"} : u[j].n = s[j].n
    BY <1>1, <1>2
  <1>5. u[i] = s[i]
    BY <1>1, <1>2
  <1>6. Framed(u, i, end)
    <2>1. CASE "chunked" \in s[i].headers
      BY <1>3, <1>4, <1>5, <2>1 DEF Framed
    <2>2. CASE "chunked" \notin s[i].headers
      BY <1>1, <1>2, <1>5, <2>2 DEF Framed
    <2> QED
      BY <2>1, <2>2
  <1> QED
    BY <1>6 DEF u

----------------------------------------------------------------------------
(* http_output *)

\* The headers of a response, if they have not been written yet.
LEMMA HeaderSound ==
    ASSUME NEW r \in Responses
    PROVE  /\ write_headers(r) \in Responses
           /\ write_headers(r).m_headers_written
           /\ write_headers(r).m_status = r.m_status
           /\ r.m_headers_written =>
                  /\ HeaderTokens(r) = <<>>
                  /\ write_headers(r).m_chunked_encoding = r.m_chunked_encoding
           /\ ~r.m_headers_written =>
                  /\ HeaderTokens(r) =
                         <<[t |-> "head", status |-> r.m_status,
                            headers |-> r.m_headers, n |-> r.m_length]>>
                  /\ [t |-> "head", status |-> r.m_status,
                      headers |-> r.m_headers, n |-> r.m_length] \in OutTokens
                  /\ write_headers(r).m_chunked_encoding
                         <=> "chunked" \in r.m_headers
  <1> DEFINE u == write_headers(r)
             chunked == IF r.m_headers_written THEN r.m_chunked_encoding
                        ELSE "chunked" \in r.m_headers
  <1>1. chunked \in BOOLEAN
    <2>1. CASE r.m_headers_written
      BY <2>1 DEF Responses
    <2>2. CASE ~r.m_headers_written
      <3>1. CASE "chunked" \in r.m_headers
        BY <2>2, <3>1
      <3>2. CASE "chunked" \notin r.m_headers
        BY <2>2, <3>2
      <3> QED
        BY <3>1, <3>2
    <2> QED
      BY <2>1, <2>2
  <1>2. u = [r EXCEPT !.m_headers_written = TRUE, !.m_chunked_encoding = chunked]
    BY DEF write_headers
  <1> HIDE DEF chunked, u
  <1>3. /\ u \in Responses
        /\ u.m_headers_written /\ u.m_status = r.m_status
        /\ u.m_chunked_encoding = chunked
    BY <1>1, <1>2 DEF Responses
  <1>4. r.m_headers_written => chunked = r.m_chunked_encoding
    BY DEF chunked
  <1>5. ~r.m_headers_written => (chunked <=> "chunked" \in r.m_headers)
    BY DEF chunked
  <1>6. ~r.m_headers_written => (u.m_chunked_encoding <=> "chunked" \in r.m_headers)
    BY <1>3, <1>5
  <1>7. [t |-> "head", status |-> r.m_status,
         headers |-> r.m_headers, n |-> r.m_length] \in OutTokens
    BY DEF Responses, OutTokens
  <1> QED
    BY <1>3, <1>4, <1>6, <1>7 DEF HeaderTokens, u

\* The token behind a chunk at the end of a sequence.
LEMMA Behind ==
    \A j, n, len \in Nat : j + n + 1 = len => j + n + 2 = len + 1
  OBVIOUS

\* A call of write: a whole chunk, or data.
LEMMA WriteSound ==
    ASSUME NEW r \in Responses, NEW n \in Nat \ {0}
    PROVE  LET w == WriteTokens(r, n)
           IN  /\ w \in Seq(OutTokens)
               /\ \A j \in 1..Len(w) : w[j].t # "head"
               /\ r.m_chunked_encoding =>
                      /\ Len(w) = n + 2
                      /\ w[1].t = "size" /\ w[1].n = n
                      /\ \A j \in 2..Len(w) : w[j].t # "size"
               /\ ~r.m_chunked_encoding => \A j \in 1..Len(w) : w[j].t = "data"
  <1> DEFINE data == [i \in 1..n |-> [t |-> "data"]]
             size == [t |-> "size", n |-> n]
             crlf == [t |-> "crlf"]
  <1>1. /\ data \in Seq(OutTokens) /\ Len(data) = n
        /\ \A j \in 1..n : data[j] = [t |-> "data"]
    <2>1. \A j \in 1..n : [t |-> "data"] \in OutTokens
      BY DEF OutTokens
    <2> QED
      BY <2>1
  <1>2. size \in OutTokens /\ crlf \in OutTokens
    BY DEF OutTokens
  <1>3. size.t = "size" /\ size.n = n /\ crlf.t = "crlf"
    OBVIOUS
  <1>4. CASE ~r.m_chunked_encoding
    <2>1. WriteTokens(r, n) = data
      BY <1>4 DEF WriteTokens
    <2> QED
      BY <1>1, <1>4, <2>1
  <1>5. CASE r.m_chunked_encoding
    <2> DEFINE w == <<size>> \o data \o <<crlf>>
    <2>1. WriteTokens(r, n) = w
      BY <1>5 DEF WriteTokens
    <2>2. \A j \in 1..n : data[j].t = "data"
      BY <1>1
    <2> HIDE DEF data, size, crlf
    <2>3. /\ <<size>> \o data \in Seq(OutTokens)
          /\ Len(<<size>> \o data) = n + 1
          /\ (<<size>> \o data)[1] = size
          /\ \A j \in 2..(n+1) : (<<size>> \o data)[j] = data[j-1]
      BY <1>1, <1>2
    <2>4. /\ w \in Seq(OutTokens)
          /\ Len(w) = n + 2
          /\ w[1] = size
          /\ \A j \in 2..(n+1) : w[j] = data[j-1]
          /\ w[n + 2] = crlf
      BY <1>2, <2>3
    <2> HIDE DEF w
    <2>5. \A j \in 2..(n+1) : w[j].t = "data"
      BY <2>2, <2>4
    <2>6. \A j \in 2..(n+2) : w[j].t # "size" /\ w[j].t # "head"
      <3> TAKE j \in 2..(n+2)
      <3> QED
        BY <1>3, <2>4, <2>5
    <2> QED
      BY <1>3, <1>5, <2>1, <2>4, <2>6
  <1> QED
    BY <1>4, <1>5

\* What end writes: a chunk of size 0, or nothing.
LEMMA LastSound ==
    ASSUME NEW r \in Responses
    PROVE  LET w == LastTokens(r)
           IN  /\ w \in Seq(OutTokens)
               /\ \A j \in 1..Len(w) : w[j].t # "head"
               /\ r.m_chunked_encoding =>
                      /\ Len(w) = 2
                      /\ w[1].t = "size" /\ w[1].n = 0
                      /\ w[2].t # "size"
               /\ ~r.m_chunked_encoding => Len(w) = 0
  <1> DEFINE size == [t |-> "size", n |-> 0]
             crlf == [t |-> "crlf"]
  <1>1. size \in OutTokens /\ crlf \in OutTokens
    BY DEF OutTokens
  <1>2. size.t = "size" /\ size.n = 0 /\ crlf.t = "crlf"
    OBVIOUS
  <1>3. LastTokens(r) = IF r.m_chunked_encoding THEN <<size, crlf>> ELSE <<>>
    BY DEF LastTokens
  <1> HIDE DEF size, crlf
  <1> QED
    BY <1>1, <1>2, <1>3

\* A chunk, or data, makes a response that was begun longer.
LEMMA BegunOn ==
    ASSUME NEW s \in Seq(OutTokens), NEW w \in Seq(OutTokens), NEW n \in Nat \ {0},
           NEW i \in DOMAIN s, Begun(s, i), s[i].status = "200",
           "chunked" \in s[i].headers =>
               /\ Len(w) = n + 2
               /\ w[1].t = "size" /\ w[1].n = n
               /\ \A j \in 2..Len(w) : w[j].t # "size",
           "chunked" \notin s[i].headers => \A j \in 1..Len(w) : w[j].t = "data"
    PROVE  Begun(s \o w, i)
  <1> DEFINE u == s \o w
  <1>1. /\ Len(u) = Len(s) + Len(w)
        /\ Len(s) \in Nat /\ Len(w) \in Nat /\ i \in 1..Len(s)
        /\ \A j \in 1..Len(s) : u[j] = s[j]
        /\ \A j \in (Len(s)+1)..(Len(s) + Len(w)) : u[j] = w[j - Len(s)]
    BY Joined
  <1> HIDE DEF u
  <1>2. u[i] = s[i]
    BY <1>1
  <1>3. CASE "chunked" \notin s[i].headers
    <2>1. \A j \in (i+1)..Len(s) : s[j].t = "data"
      BY <1>3 DEF Begun
    <2>2. \A j \in (i+1)..Len(u) : u[j].t = "data"
      <3> TAKE j \in (i+1)..Len(u)
      <3>1. CASE j \in 1..Len(s)
        BY <1>1, <2>1, <3>1
      <3>2. CASE j \in (Len(s)+1)..(Len(s) + Len(w))
        <4>1. j - Len(s) \in 1..Len(w)
          BY <1>1, <3>2
        <4> QED
          BY <1>1, <1>3, <3>2, <4>1
      <3> QED
        BY <1>1, <3>1, <3>2
    <2> QED
      BY <1>2, <1>3, <2>2 DEF Begun, u
  <1>4. CASE "chunked" \in s[i].headers
    <2> DEFINE old == {j \in (i+1)..Len(s) : s[j].t = "size"}
               new == {j \in (i+1)..Len(u) : u[j].t = "size"}
    <2>1. /\ i + 1 \in old \/ i = Len(s)
          /\ \A j \in old : /\ s[j].n > 0
                            /\ j + s[j].n + 2 \in old \/ j + s[j].n + 1 = Len(s)
      BY <1>4 DEF Begun
    <2>2. /\ Len(w) = n + 2
          /\ w[1].t = "size" /\ w[1].n = n
          /\ \A j \in 2..Len(w) : w[j].t # "size"
      BY <1>4
    <2>3. u[Len(s) + 1].t = "size" /\ u[Len(s) + 1].n = n
      <3>1. Len(s) + 1 \in (Len(s)+1)..(Len(s) + Len(w)) /\ (Len(s) + 1) - Len(s) = 1
        BY <1>1, <2>2
      <3> QED
        BY <1>1, <2>2, <3>1
    <2>4. \A j \in (Len(s)+2)..Len(u) : u[j].t # "size"
      <3> TAKE j \in (Len(s)+2)..Len(u)
      <3>1. j \in (Len(s)+1)..(Len(s) + Len(w)) /\ j - Len(s) \in 2..Len(w)
        BY <1>1
      <3> QED
        BY <1>1, <2>2, <3>1
    <2>5. \A j \in old : u[j] = s[j]
      BY <1>1
    <2>6. new = old \cup {Len(s) + 1}
      <3>1. Len(s) + 1 \in new
        BY <1>1, <2>2, <2>3
      <3>2. old \subseteq new
        BY <1>1, <2>2, <2>5
      <3>3. \A j \in new : j \in old \/ j = Len(s) + 1
        <4> TAKE j \in new
        <4>1. CASE j \in 1..Len(s)
          BY <1>1, <4>1
        <4>2. CASE j \in (Len(s)+2)..Len(u)
          BY <2>4, <4>2
        <4>3. j \in (i+1)..Len(u)
          OBVIOUS
        <4> HIDE DEF old, new
        <4> QED
          BY <1>1, <4>1, <4>2, <4>3
      <3> QED
        BY <3>1, <3>2, <3>3
    <2>7. i + 1 \in new
      BY <2>1, <2>6
    <2>8. \A j \in new : /\ u[j].n > 0
                         /\ j + u[j].n + 2 \in new \/ j + u[j].n + 1 = Len(u)
      <3> TAKE j \in new
      <3>1. CASE j = Len(s) + 1
        <4> HIDE DEF new
        <4>1. u[j].n = n
          BY <2>3, <3>1
        <4>2. j + n + 1 = Len(u)
          BY <1>1, <2>2, <3>1
        <4> QED
          BY <4>1, <4>2
      <3>2. CASE j \in old
        <4>1. u[j].n = s[j].n /\ s[j].n > 0
          BY <2>1, <2>5, <3>2
        <4>2. j + s[j].n + 2 \in old \/ j + s[j].n + 2 = Len(s) + 1
          <5>1. j + s[j].n + 2 \in old \/ j + s[j].n + 1 = Len(s)
            BY <2>1, <3>2
          <5>2. j \in Nat /\ s[j].n \in Nat
            <6>1. s[j] \in OutTokens /\ s[j].t = "size"
              BY <3>2
            <6> QED
              BY <6>1, <3>2, <1>1 DEF OutTokens
          <5> HIDE DEF old, new
          <5> QED
            BY <5>1, <5>2, <1>1, Behind
        <4> QED
          BY <2>6, <4>1, <4>2
      <3> QED
        BY <2>6, <3>1, <3>2
    <2> QED
      BY <1>2, <1>4, <2>7, <2>8 DEF Begun, u
  <1> QED
    BY <1>3, <1>4

\* The last chunk, or nothing, makes one that was begun whole.
LEMMA BegunEnds ==
    ASSUME NEW s \in Seq(OutTokens), NEW w \in Seq(OutTokens),
           NEW i \in DOMAIN s, Begun(s, i),
           "chunked" \in s[i].headers =>
               /\ Len(w) = 2
               /\ w[1].t = "size" /\ w[1].n = 0
               /\ w[2].t # "size",
           "chunked" \notin s[i].headers => Len(w) = 0
    PROVE  Framed(s \o w, i, Len(s \o w))
  <1> DEFINE u == s \o w
  <1>1. /\ Len(u) = Len(s) + Len(w)
        /\ Len(s) \in Nat /\ Len(w) \in Nat /\ i \in 1..Len(s)
        /\ \A j \in 1..Len(s) : u[j] = s[j]
        /\ \A j \in (Len(s)+1)..(Len(s) + Len(w)) : u[j] = w[j - Len(s)]
    BY Joined
  <1> HIDE DEF u
  <1>2. u[i] = s[i]
    BY <1>1
  <1>3. CASE "chunked" \notin s[i].headers
    <2>1. Len(u) = Len(s)
      BY <1>1, <1>3
    <2>2. \A j \in (i+1)..Len(u) : u[j] = s[j]
      BY <1>1, <2>1
    <2> QED
      BY <1>2, <1>3, <2>1, <2>2 DEF Begun, Framed, u
  <1>4. CASE "chunked" \in s[i].headers
    <2> DEFINE old == {j \in (i+1)..Len(s) : s[j].t = "size"}
               new == {j \in (i+1)..Len(u) : u[j].t = "size"}
    <2>1. /\ i + 1 \in old \/ i = Len(s)
          /\ \A j \in old : /\ s[j].n > 0
                            /\ j + s[j].n + 2 \in old \/ j + s[j].n + 1 = Len(s)
      BY <1>4 DEF Begun
    <2>2. /\ Len(w) = 2
          /\ w[1].t = "size" /\ w[1].n = 0
          /\ w[2].t # "size"
      BY <1>4
    <2>3. /\ u[Len(s) + 1].t = "size" /\ u[Len(s) + 1].n = 0
          /\ u[Len(s) + 2].t # "size"
      <3>1. /\ Len(s) + 1 \in (Len(s)+1)..(Len(s) + Len(w))
            /\ Len(s) + 2 \in (Len(s)+1)..(Len(s) + Len(w))
            /\ (Len(s) + 1) - Len(s) = 1 /\ (Len(s) + 2) - Len(s) = 2
        BY <1>1, <2>2
      <3> QED
        BY <1>1, <2>2, <3>1
    <2>4. \A j \in old : u[j] = s[j]
      BY <1>1
    <2>5. new = old \cup {Len(s) + 1}
      <3>1. Len(s) + 1 \in new
        BY <1>1, <2>2, <2>3
      <3>2. old \subseteq new
        BY <1>1, <2>2, <2>4
      <3>3. \A j \in new : j \in old \/ j = Len(s) + 1
        <4> TAKE j \in new
        <4>1. CASE j \in 1..Len(s)
          BY <1>1, <4>1
        <4>2. CASE j = Len(s) + 2
          BY <2>3, <4>2
        <4>3. j \in 1..Len(s) \/ j = Len(s) + 1 \/ j = Len(s) + 2
          <5>1. Len(u) = Len(s) + 2 /\ Len(s) \in Nat /\ i \in Nat
            BY <1>1, <2>2
          <5>2. j \in (i+1)..Len(u)
            OBVIOUS
          <5>3. \A l, a \in Nat : \A k \in (a+1)..(l + 2) :
                    k \in 1..l \/ k = l + 1 \/ k = l + 2
            OBVIOUS
          <5> QED
            BY <5>1, <5>2, <5>3
        <4> QED
          BY <4>1, <4>2, <4>3
      <3> QED
        BY <3>1, <3>2, <3>3
    <2>6. i + 1 \in new
      BY <2>1, <2>5
    <2>7. \A j \in new : IF u[j].n = 0 THEN Len(u) = j + 1
                         ELSE j + u[j].n + 2 \in new
      <3> TAKE j \in new
      <3>1. CASE j = Len(s) + 1
        BY <1>1, <2>2, <2>3, <3>1
      <3>2. CASE j \in old
        <4>1. u[j].n = s[j].n /\ s[j].n > 0
          BY <2>1, <2>4, <3>2
        <4>2. j + s[j].n + 2 \in old \/ j + s[j].n + 2 = Len(s) + 1
          <5>1. j + s[j].n + 2 \in old \/ j + s[j].n + 1 = Len(s)
            BY <2>1, <3>2
          <5>2. j \in Nat /\ s[j].n \in Nat
            <6>1. s[j] \in OutTokens /\ s[j].t = "size"
              BY <3>2
            <6> QED
              BY <6>1, <3>2, <1>1 DEF OutTokens
          <5> HIDE DEF old, new
          <5> QED
            BY <5>1, <5>2, <1>1, Behind
        <4>3. s[j].n # 0
          <5>1. s[j] \in OutTokens /\ s[j].t = "size"
            BY <3>2
          <5>2. s[j].n \in Nat
            BY <5>1 DEF OutTokens
          <5> QED
            BY <4>1, <5>2
        <4> QED
          BY <2>5, <4>1, <4>2, <4>3
      <3> QED
        BY <2>5, <3>1, <3>2
    <2>8. Framed(u, i, Len(u))
      BY <1>2, <1>4, <2>6, <2>7 DEF Framed
    <2> QED
      BY <2>8 DEF u
  <1> QED
    BY <1>3, <1>4

----------------------------------------------------------------------------
(* The invariant *)

\* s ends inside of the response that r writes, and all before it are whole.
Opened(s, r) ==
    /\ \A i \in DOMAIN s : \A end \in i..Len(s) :
           Response(s, i, end) /\ end < Len(s) => Framed(s, i, end)
    /\ \A i \in DOMAIN s :
           Response(s, i, Len(s)) =>
               /\ Begun(s, i)
               /\ r.m_chunked_encoding <=> "chunked" \in s[i].headers
               /\ s[i].status = r.m_status

\* After write_headers there is a response to go on with.
LEMMA HeadersOpen ==
    ASSUME Responding, phase \in Serving \cup {"end"}
    PROVE  /\ out \o HeaderTokens(res) \in Seq(OutTokens)
           /\ Opened(out \o HeaderTokens(res), write_headers(res))
  <1> DEFINE s == out \o HeaderTokens(res)
             r == write_headers(res)
  <1>1. out \in Seq(OutTokens) /\ res \in Responses /\ Whole /\ Current /\ Answered
    BY DEF Responding, Serving
  <1>2. CASE res.m_headers_written
    <2>1. Writing
      BY <1>2 DEF Writing
    <2>2. s = out
      <3>1. HeaderTokens(res) = <<>>
        BY <1>2 DEF HeaderTokens
      <3> QED
        BY <1>1, <3>1
    <2>3. res.m_status = "200"
      BY <1>1, <1>2 DEF Answered, Responses
    <2>4. r.m_chunked_encoding = res.m_chunked_encoding /\ r.m_status = res.m_status
      BY <1>1, <1>2, HeaderSound
    <2> HIDE DEF s, r
    <2>5. \A i \in DOMAIN s : \A end \in i..Len(s) :
              Response(s, i, end) /\ end < Len(s) => Framed(s, i, end)
      BY <1>1, <2>2 DEF Whole
    <2>6. \A i \in DOMAIN s :
              Response(s, i, Len(s)) =>
                  /\ Begun(s, i)
                  /\ r.m_chunked_encoding <=> "chunked" \in s[i].headers
                  /\ s[i].status = r.m_status
      <3> SUFFICES ASSUME NEW i \in DOMAIN s, Response(s, i, Len(s))
                   PROVE  /\ Begun(s, i)
                          /\ r.m_chunked_encoding <=> "chunked" \in s[i].headers
                          /\ s[i].status = r.m_status
        OBVIOUS
      <3>1. /\ Begun(out, i)
            /\ res.m_chunked_encoding <=> "chunked" \in out[i].headers
            /\ out[i].status = "200"
        BY <1>1, <2>1, <2>2 DEF Current
      <3> QED
        BY <3>1, <2>2, <2>3, <2>4
    <2>7. Opened(s, r)
      BY <2>5, <2>6 DEF Opened
    <2> QED
      BY <1>1, <2>2, <2>7 DEF s, r
  <1>3. CASE ~res.m_headers_written
    <2> DEFINE h == [t |-> "head", status |-> res.m_status,
                     headers |-> res.m_headers, n |-> res.m_length]
    <2>1. /\ s = out \o <<h>> /\ h \in OutTokens
          /\ r.m_chunked_encoding <=> "chunked" \in h.headers
          /\ r.m_status = h.status
      BY <1>1, <1>3, HeaderSound
    <2>2. h.t = "head" /\ (h.status = "404" => h.n = 0)
      BY <1>1 DEF Answered
    <2> HIDE DEF h, s, r
    <2>3. /\ s \in Seq(OutTokens) /\ Len(s) = Len(out) + 1 /\ Len(out) \in Nat
          /\ DOMAIN s = 1..Len(s) /\ s[Len(s)] = h
      BY <1>1, <2>1
    <2>4. \A i \in DOMAIN s : \A end \in i..Len(s) :
              Response(s, i, end) =>
                  Framed(s, i, end) \/ (i = Len(s) /\ end = Len(s))
      <3> SUFFICES ASSUME NEW i \in DOMAIN s, NEW end \in i..Len(s),
                          Response(s, i, end), ~(i = Len(s) /\ end = Len(s))
                   PROVE  Framed(s, i, end)
        OBVIOUS
      <3>1. i \in DOMAIN out /\ end \in i..Len(out) /\ Response(out, i, end)
        BY <1>1, <2>1, <2>2, HeadAppended
      <3>2. ~Writing
        BY <1>3 DEF Writing
      <3>3. Framed(out, i, end)
        BY <1>1, <3>1, <3>2 DEF Whole
      <3>4. <<h>> \in Seq(OutTokens)
        BY <2>1
      <3> QED
        BY <1>1, <2>1, <3>1, <3>3, <3>4, FramedOn
    <2>5. \A i \in DOMAIN s : Response(s, i, Len(s)) => i = Len(s)
      <3> SUFFICES ASSUME NEW i \in DOMAIN s, Response(s, i, Len(s)), i # Len(s)
                   PROVE  FALSE
        OBVIOUS
      <3>1. Len(s) \in (i+1)..Len(s)
        BY <2>3
      <3> QED
        BY <2>2, <2>3, <3>1 DEF Response
    <2>6. Begun(s, Len(s))
      <3>1. (Len(s)+1)..Len(s) = {}
        BY <2>3
      <3> QED
        BY <2>2, <2>3, <3>1 DEF Begun
    <2>7. Opened(s, r)
      <3>1. \A i \in DOMAIN s : \A end \in i..Len(s) :
                Response(s, i, end) /\ end < Len(s) => Framed(s, i, end)
        BY <2>3, <2>4
      <3>2. \A i \in DOMAIN s :
                Response(s, i, Len(s)) =>
                    /\ Begun(s, i)
                    /\ r.m_chunked_encoding <=> "chunked" \in s[i].headers
                    /\ s[i].status = r.m_status
        BY <2>1, <2>3, <2>5, <2>6
      <3> QED
        BY <3>1, <3>2 DEF Opened
    <2> QED
      BY <2>3, <2>7 DEF s, r
  <1> QED
    BY <1>2, <1>3

\* A call of write keeps the invariant.
LEMMA WriteResponding ==
    ASSUME Responding, NEW n \in Sizes, Write(n)
    PROVE  Responding'
  <1> DEFINE s == out \o HeaderTokens(res)
             r == write_headers(res)
             w == WriteTokens(r, n)
  <1>1. phase = "serve" /\ phase' = "serve" /\ res' = r /\ out' = s \o w
    BY DEF Write, Calling
  <1>2. n \in Nat \ {0}
    BY HttpServerAssumption
  <1>3. s \in Seq(OutTokens) /\ Opened(s, r)
    BY <1>1, HeadersOpen DEF Serving
  <1>4. /\ r \in Responses /\ r.m_headers_written /\ r.m_status = "200"
    BY <1>1, HeaderSound DEF Responding, Answered, Serving
  <1>5. /\ w \in Seq(OutTokens)
        /\ \A j \in 1..Len(w) : w[j].t # "head"
        /\ r.m_chunked_encoding =>
               /\ Len(w) = n + 2
               /\ w[1].t = "size" /\ w[1].n = n
               /\ \A j \in 2..Len(w) : w[j].t # "size"
        /\ ~r.m_chunked_encoding => \A j \in 1..Len(w) : w[j].t = "data"
    BY <1>2, <1>4, WriteSound
  <1> HIDE DEF s, r, w
  <1>6. out' \in Seq(OutTokens) /\ Len(out') >= Len(s) /\ Len(s) \in Nat
    BY <1>1, <1>3, <1>5
  <1>7. Writing'
    BY <1>1, <1>4 DEF Writing, Serving
  <1>8. Whole'
    <2> SUFFICES ASSUME NEW i \in DOMAIN out', NEW end \in i..Len(out'),
                        Response(out', i, end), end < Len(out')
                 PROVE  Framed(out', i, end)
      BY <1>7 DEF Whole
    <2>1. /\ i \in DOMAIN s /\ end \in i..Len(s) /\ end < Len(s)
          /\ Response(s, i, end)
      <3>1. /\ i \in DOMAIN (s \o w) /\ end \in i..Len(s \o w)
            /\ Response(s \o w, i, end) /\ end # Len(s \o w)
        BY <1>1
      <3> QED
        BY <1>3, <1>5, <3>1, Lengthened
    <2>2. Framed(s, i, end)
      BY <1>3, <2>1 DEF Opened
    <2> QED
      BY <1>1, <1>3, <1>5, <2>1, <2>2, FramedOn
  <1>9. Current'
    <2> SUFFICES ASSUME NEW i \in DOMAIN out', Response(out', i, Len(out'))
                 PROVE  /\ Begun(out', i)
                        /\ res'.m_chunked_encoding <=> "chunked" \in out'[i].headers
                        /\ out'[i].status = "200"
      BY DEF Current
    <2>1. i \in DOMAIN s /\ Response(s, i, Len(s))
      <3>1. Len(out') \in i..Len(out')
        BY <1>6
      <3>2. ~(Len(out') < Len(s))
        BY <1>6
      <3> QED
        BY <1>1, <1>3, <1>5, <3>1, <3>2, Lengthened
    <2>2. /\ Begun(s, i)
          /\ r.m_chunked_encoding <=> "chunked" \in s[i].headers
          /\ s[i].status = "200"
      BY <1>3, <1>4, <2>1 DEF Opened
    <2>3. out'[i] = s[i]
      BY <1>1, <1>3, <1>5, <2>1, Joined
    <2>4. Begun(out', i)
      BY <1>1, <1>2, <1>3, <1>5, <2>1, <2>2, BegunOn
    <2> QED
      BY <1>1, <2>2, <2>3, <2>4
  <1>10. Answered'
    BY <1>1, <1>4 DEF Answered
  <1> QED
    BY <1>1, <1>4, <1>6, <1>8, <1>9, <1>10 DEF Responding

\* res.end() leaves only whole responses.
LEMMA EndResponding ==
    ASSUME Responding, End
    PROVE  Responding'
  <1> DEFINE s == out \o HeaderTokens(res)
             r == write_headers(res)
             w == LastTokens(r)
  <1>1. phase = "end" /\ phase' = "keep" /\ res' = r /\ out' = s \o w
    BY DEF End
  <1>2. s \in Seq(OutTokens) /\ Opened(s, r)
    BY <1>1, HeadersOpen
  <1>3. r \in Responses
    BY HeaderSound DEF Responding
  <1>4. /\ w \in Seq(OutTokens)
        /\ \A j \in 1..Len(w) : w[j].t # "head"
        /\ r.m_chunked_encoding =>
               /\ Len(w) = 2
               /\ w[1].t = "size" /\ w[1].n = 0
               /\ w[2].t # "size"
        /\ ~r.m_chunked_encoding => Len(w) = 0
    BY <1>3, LastSound
  <1> HIDE DEF s, r, w
  <1>5. out' \in Seq(OutTokens)
    BY <1>1, <1>2, <1>4
  <1>6. ~Writing' /\ Current' /\ Answered'
    BY <1>1 DEF Writing, Current, Answered, Serving
  <1>7. Whole'
    <2> SUFFICES ASSUME NEW i \in DOMAIN out', NEW end \in i..Len(out'),
                        Response(out', i, end)
                 PROVE  Framed(out', i, end)
      BY DEF Whole
    <2>1. /\ i \in DOMAIN s
          /\ \/ end \in i..Len(s) /\ end < Len(s) /\ Response(s, i, end)
             \/ end = Len(out') /\ Response(s, i, Len(s))
      BY <1>1, <1>2, <1>4, Lengthened
    <2>2. CASE end \in i..Len(s) /\ end < Len(s) /\ Response(s, i, end)
      <3>1. Framed(s, i, end)
        BY <1>2, <2>1, <2>2 DEF Opened
      <3> QED
        BY <1>1, <1>2, <1>4, <2>1, <2>2, <3>1, FramedOn
    <2>3. CASE end = Len(out') /\ Response(s, i, Len(s))
      <3>1. /\ Begun(s, i)
            /\ r.m_chunked_encoding <=> "chunked" \in s[i].headers
        BY <1>2, <2>1, <2>3 DEF Opened
      <3> QED
        BY <1>1, <1>2, <1>4, <2>1, <2>3, <3>1, BegunEnds
    <2> QED
      BY <2>1, <2>2, <2>3
  <1> QED
    BY <1>1, <1>3, <1>5, <1>6, <1>7 DEF Responding

\* A step that writes nothing and leaves the response to the same request.
LEMMA QuietResponding ==
    ASSUME Responding, out' = out, res' = res,
           \/ phase' = "dropped"
           \/ phase' = phase
           \/ phase \in Serving /\ phase' \in Serving \cup {"end"}
           \/ phase \notin {"dropped", "end"} \cup Serving
              /\ phase' \notin {"end"} \cup Serving
    PROVE  Responding'
  <1>1. CASE phase' = "dropped"
    BY <1>1 DEF Responding, Answered, Serving
  <1>2. CASE phase' = phase
    BY <1>2 DEF Responding, Answered, Whole, Current, Writing
  <1>3. CASE phase \in Serving /\ phase' \in Serving \cup {"end"}
    <2>1. Writing' <=> Writing
      BY <1>3 DEF Writing
    <2>2. Whole /\ Current
      BY <1>3 DEF Responding, Serving
    <2>3. Whole' /\ Current'
      BY <2>1, <2>2 DEF Whole, Current
    <2>4. Answered'
      BY <1>3 DEF Responding, Answered
    <2> QED
      BY <2>3, <2>4 DEF Responding
  <1>4. CASE /\ phase \notin {"dropped", "end"} \cup Serving
             /\ phase' \notin {"end"} \cup Serving
    <2>1. ~Writing /\ ~Writing'
      BY <1>4 DEF Writing
    <2>2. Whole' /\ Current'
      BY <1>4, <2>1 DEF Responding, Whole, Current
    <2> QED
      BY <1>4, <2>2 DEF Responding, Answered
  <1> QED
    BY <1>1, <1>2, <1>3, <1>4

\* A response to a new request is begun.
LEMMA MatchResponding ==
    ASSUME Responding, Match
    PROVE  Responding'
  <1>1. /\ phase = "match" /\ out' = out
        /\ phase' \in {"closed", "dropped", "end", "serve"}
    BY DEF Match
  <1>2. /\ res' \in Responses /\ ~res'.m_headers_written
        /\ phase' = "serve" => res'.m_status = "200"
        /\ res'.m_status = "404" => res'.m_length = 0 /\ res'.m_headers = {"length"}
    <2>1. CASE match(router, req.method, req.path) # NoEndpoint
      <3>1. res' = NoResponse
        BY <2>1 DEF Match
      <3> QED
        BY <3>1 DEF NoResponse, Responses
    <2>2. CASE match(router, req.method, req.path) = NoEndpoint
      <3>1. res' = [NoResponse EXCEPT !.m_status = "404", !.m_headers = {"length"}]
        BY <2>2 DEF Match
      <3>2. phase' # "serve"
        BY <2>2 DEF Match
      <3> QED
        BY <3>1, <3>2 DEF NoResponse, Responses
    <2> QED
      BY <2>1, <2>2
  <1>3. ~Writing /\ ~Writing'
    BY <1>1, <1>2 DEF Writing, Serving
  <1>4. Whole' /\ Current'
    BY <1>1, <1>3 DEF Responding, Whole, Current
  <1>5. Answered'
    BY <1>1, <1>2 DEF Answered, Serving
  <1> QED
    BY <1>1, <1>2, <1>4, <1>5 DEF Responding

\* Setting a header changes nothing of what has been written.
LEMMA SetHeaderResponding ==
    ASSUME Responding, NEW name \in {"length", "chunked"}, NEW n \in Nat,
           SetHeader(name, n)
    PROVE  Responding'
  <1>1. phase = "serve" /\ phase' = phase /\ out' = out
    BY DEF SetHeader, Calling
  <1>2. /\ res' \in Responses
        /\ res'.m_headers_written = res.m_headers_written
        /\ res'.m_chunked_encoding = res.m_chunked_encoding
        /\ res'.m_status = res.m_status
    BY DEF SetHeader, Responding, Responses
  <1>3. Writing' <=> Writing
    BY <1>1, <1>2 DEF Writing
  <1>4. Whole' /\ Current'
    BY <1>1, <1>2, <1>3 DEF Responding, Whole, Current
  <1>5. Answered'
    BY <1>1, <1>2 DEF Responding, Answered, Serving
  <1> QED
    BY <1>1, <1>2, <1>4, <1>5 DEF Responding

\* Every step keeps the invariant.
LEMMA RespondingStep ==
    ASSUME Responding, [Next]_vars
    PROVE  Responding'
  <1>1. CASE Register \/ Connect \/ Cut \/ ReadRequestLine \/ ReadHeaderLine \/ Keep
    <2>1. out' = out /\ res' = res
      BY <1>1 DEF Register, Connect, Cut, ReadRequestLine, ReadHeaderLine, Keep
    <2>2. \/ phase' = phase
          \/ phase' = "dropped"
          \/ /\ phase \in {"setup", "line", "headers", "keep"}
             /\ phase' \in {"line", "headers", "match", "closed"}
      BY <1>1 DEF Register, Connect, Cut, ReadRequestLine, ReadHeaderLine, Keep
    <2> QED
      BY <2>1, <2>2, QuietResponding DEF Serving
  <1>2. CASE \/ ReadRound \/ ReadReturns \/ EndpointReturns \/ EndpointThrows
             \/ EndFails \/ RecvFails
    <2>1. out' = out /\ res' = res
      BY <1>2 DEF ReadRound, ReadReturns, EndpointReturns, EndpointThrows, EndFails, RecvFails
    <2>2. \/ phase' = "dropped"
          \/ phase \in Serving /\ phase' \in Serving \cup {"end"}
      BY <1>2 DEF ReadRound, ReadReturns, EndpointReturns, EndpointThrows,
                  EndFails, RecvFails, Serving
    <2> QED
      BY <2>1, <2>2, QuietResponding
  <1>3. ASSUME NEW n \in Sizes, NEW kind \in {"string", "memory", "skip"},
               Read(kind, n)
        PROVE  Responding'
    <2>1. out' = out /\ res' = res /\ phase = "serve" /\ phase' = "reading"
      BY <1>3 DEF Read, Calling
    <2> QED
      BY <2>1, QuietResponding DEF Serving
  <1>4. CASE Match
    BY <1>4, MatchResponding
  <1>5. ASSUME NEW n \in Sizes, Write(n)
        PROVE  Responding'
    BY <1>5, WriteResponding
  <1>6. ASSUME NEW n \in Sizes, SetHeader("length", n)
        PROVE  Responding'
    <2>1. n \in Nat
      BY HttpServerAssumption
    <2> QED
      BY <1>6, <2>1, SetHeaderResponding
  <1>7. CASE SetHeader("chunked", 0)
    BY <1>7, SetHeaderResponding
  <1>8. CASE End
    BY <1>8, EndResponding
  <1>9. CASE UNCHANGED vars
    BY <1>9, QuietResponding DEF vars
  <1> QED
    BY <1>1, <1>2, <1>3, <1>4, <1>5, <1>6, <1>7, <1>8, <1>9 DEF Next

\* What http_output has written, and where in a response it is, stays described
\* by Responding, whatever the endpoints call.
THEOREM RespondingInductive == Spec => []Responding
  <1>1. Init => Responding
    <2> SUFFICES ASSUME Init
                 PROVE  Responding
      OBVIOUS
    <2>1. out = <<>> /\ res = NoResponse /\ phase = "setup"
      BY DEF Init
    <2>2. res \in Responses
      BY <2>1 DEF NoResponse, Responses
    <2>3. Whole /\ Current
      BY <2>1 DEF Whole, Current
    <2> QED
      BY <2>1, <2>2, <2>3 DEF Responding, Answered, Serving
  <1>2. Responding /\ [Next]_vars => Responding'
    BY RespondingStep
  <1> QED
    BY <1>1, <1>2, PTL DEF Spec

\* When the loop comes back to read a request, or is about to decide whether it
\* does, every response that http_output has written ends where its framing
\* says.
THEOREM ResponsesFramed == Spec => []ResponseFramed
  <1>1. Responding => ResponseFramed
    BY DEF Responding, Whole, Writing, Serving, ResponseFramed
  <1> QED
    BY <1>1, RespondingInductive, PTL

----------------------------------------------------------------------------
(* What a client sends *)

\* The tokens of a client.
InTokens ==
    [t : {"request"}, value : ClientRequests]
    \cup [t : {"header"}, value : {"connection", "length", "chunked"}]
    \cup [t : {"blank", "junk", "trailer"}, value : {0}]
    \cup [t : {"size"}, value : Nat]
    \cup [t : {"byte"}, value : Nat \X Nat]

\* The recursive function inside Before.
Sums(c, n, f) == f = [i \in 1..n + 1 |-> IF i = 1 THEN 0 ELSE f[i - 1] + c[i - 1]]

\* It exists for the first n chunks, and its values are numbers.
LEMMA SumsExist ==
    ASSUME NEW c \in Seq(Nat), NEW n \in 0..Len(c)
    PROVE  \E f \in [1..n + 1 -> Nat] : Sums(c, n, f)
  <1> DEFINE Bad == {m \in 0..Len(c) : ~\E f \in [1..m + 1 -> Nat] : Sums(c, m, f)}
  <1> SUFFICES ASSUME n \in Bad
               PROVE  FALSE
    OBVIOUS
  <1>1. PICK m \in Bad : \A y \in Bad : m <= y
    <2>1. Bad \subseteq Nat /\ Bad # {}
      OBVIOUS
    <2> HIDE DEF Bad
    <2> QED
      BY <2>1, Least
  <1>2. m \in 0..Len(c) /\ Len(c) \in Nat
    OBVIOUS
  <1>3. CASE m = 0
    <2> DEFINE e == [i \in 1..1 |-> 0]
    <2>1. e \in [1..0 + 1 -> Nat]
      OBVIOUS
    <2>2. e = [i \in 1..0 + 1 |-> IF i = 1 THEN 0 ELSE e[i - 1] + c[i - 1]]
      <3>1. 1..0 + 1 = {1} /\ 1..1 = {1}
        OBVIOUS
      <3> QED
        BY <3>1
    <2>3. Sums(c, 0, e)
      BY <2>2 DEF Sums
    <2> QED
      BY <1>3, <2>1, <2>3
  <1>4. CASE m # 0
    <2>1. m - 1 \in 0..Len(c) /\ ~(m <= m - 1)
      BY <1>2, <1>4
    <2>2. m - 1 \notin Bad
      BY <1>1, <2>1
    <2>3. PICK f \in [1..(m - 1) + 1 -> Nat] : Sums(c, m - 1, f)
      BY <2>1, <2>2
    <2>4. (m - 1) + 1 = m
      BY <1>2
    <2>5. f \in [1..m -> Nat] /\ \A i \in 1..m : f[i] = IF i = 1 THEN 0 ELSE f[i - 1] + c[i - 1]
      BY <2>3, <2>4 DEF Sums
    <2> DEFINE g == [i \in 1..m + 1 |-> IF i = m + 1 THEN f[m] + c[m] ELSE f[i]]
    <2>6. m \in 1..m /\ c[m] \in Nat
      BY <1>2, <1>4
    <2>7. \A i \in 1..m : i \in 1..m + 1 /\ i # m + 1 /\ g[i] = f[i]
      BY <1>2
    <2>8. g \in [1..m + 1 -> Nat]
      <3>1. f[m] + c[m] \in Nat
        BY <2>5, <2>6
      <3>2. \A i \in 1..m + 1 : i # m + 1 => i \in 1..m
        BY <1>2
      <3> QED
        BY <2>5, <3>1, <3>2
    <2>9. g[m + 1] = f[m] + c[m]
      BY <1>2
    <2> HIDE DEF g
    <2>10. \A i \in 1..m + 1 : g[i] = IF i = 1 THEN 0 ELSE g[i - 1] + c[i - 1]
      <3> TAKE i \in 1..m + 1
      <3>1. CASE i = m + 1
        <4>1. i # 1 /\ i - 1 = m
          BY <1>2, <1>4, <3>1
        <4> QED
          BY <2>6, <2>7, <2>9, <3>1, <4>1
      <3>2. CASE i # m + 1
        <4>1. i \in 1..m /\ (i # 1 => i - 1 \in 1..m)
          BY <1>2, <3>2
        <4> QED
          BY <2>5, <2>7, <4>1
      <3> QED
        BY <3>1, <3>2
    <2>11. Sums(c, m, g)
      BY <2>8, <2>10 DEF Sums
    <2> QED
      BY <2>8, <2>11
  <1> QED
    BY <1>3, <1>4

\* Before adds up the chunks.
LEMMA BeforeSums ==
    ASSUME NEW c \in Seq(Nat)
    PROVE  /\ Before(c, 1) = 0
           /\ \A j \in 1..Len(c) + 1 : Before(c, j) \in Nat
           /\ \A j \in 1..Len(c) : Before(c, j + 1) = Before(c, j) + c[j]
  <1> DEFINE g == CHOOSE f : f = [i \in 1..Len(c) + 1 |->
                                   IF i = 1 THEN 0 ELSE f[i - 1] + c[i - 1]]
  <1>1. Len(c) \in 0..Len(c) /\ Len(c) \in Nat
    OBVIOUS
  <1>2. PICK f \in [1..Len(c) + 1 -> Nat] : Sums(c, Len(c), f)
    BY <1>1, SumsExist
  <1>3. \A j : Before(c, j) = g[j]
    BY DEF Before
  <1>4. Sums(c, Len(c), g)
    <2>1. \E h : h = [i \in 1..Len(c) + 1 |-> IF i = 1 THEN 0 ELSE h[i - 1] + c[i - 1]]
      BY <1>2 DEF Sums
    <2> QED
      BY <2>1 DEF Sums
  <1> HIDE DEF g
  <1>5. \A i \in 1..Len(c) + 1 : g[i] = IF i = 1 THEN 0 ELSE g[i - 1] + c[i - 1]
    BY <1>4 DEF Sums
  <1>6. \A i \in 1..Len(c) + 1 : f[i] = IF i = 1 THEN 0 ELSE f[i - 1] + c[i - 1]
    BY <1>2 DEF Sums
  <1>7. \A i \in 1..Len(c) + 1 : g[i] = f[i]
    <2> DEFINE Bad == {i \in 1..Len(c) + 1 : g[i] # f[i]}
    <2> SUFFICES ASSUME Bad # {}
                 PROVE  FALSE
      OBVIOUS
    <2>1. PICK j \in Bad : \A y \in Bad : j <= y
      <3>1. Bad \subseteq Nat
        OBVIOUS
      <3> HIDE DEF Bad
      <3> QED
        BY <3>1, Least
    <2>2. j \in 1..Len(c) + 1
      OBVIOUS
    <2>3. j # 1
      BY <1>5, <1>6, <2>1, <2>2
    <2>4. j - 1 \in 1..Len(c) + 1 /\ ~(j <= j - 1)
      BY <1>1, <2>2, <2>3
    <2>5. g[j - 1] = f[j - 1]
      BY <2>1, <2>4
    <2> QED
      BY <1>5, <1>6, <2>1, <2>2, <2>3, <2>5
  <1>8. Before(c, 1) = 0
    <2>1. 1 \in 1..Len(c) + 1
      BY <1>1
    <2> QED
      BY <1>3, <1>5, <2>1
  <1>9. \A j \in 1..Len(c) : Before(c, j + 1) = Before(c, j) + c[j]
    <2> TAKE j \in 1..Len(c)
    <2>1. j + 1 \in 1..Len(c) + 1 /\ j + 1 # 1 /\ (j + 1) - 1 = j
      BY <1>1
    <2> QED
      BY <1>3, <1>5, <2>1
  <1> QED
    BY <1>2, <1>3, <1>7, <1>8, <1>9

\* A sequence that is empty, or x alone.
OneOrNone(X, w, x) == w = <<>> \/ (w = <<x>> /\ x \in X)

\* u is s, with no more behind it than x.
Grown(X, s, w, x, u) ==
    /\ u \in Seq(X)
    /\ Len(s) \in Nat /\ Len(u) \in Nat /\ Len(s) <= Len(u)
    /\ \A i \in 1..Len(s) : u[i] = s[i]
    /\ w # <<>> => \E i \in Len(s) + 1..Len(u) : u[i] = x
    /\ \A i \in Len(s) + 1..Len(u) : u[i] = x /\ w # <<>>

LEMMA Optional ==
    ASSUME NEW X, NEW s \in Seq(X), NEW x, NEW w, OneOrNone(X, w, x)
    PROVE  Grown(X, s, w, x, s \o w)
  <1>1. CASE w = <<>>
    <2>1. s \o w = s /\ Len(s) \in Nat
      BY <1>1
    <2> QED
      BY <1>1, <2>1 DEF Grown
  <1>2. CASE w = <<x>> /\ x \in X
    <2>1. /\ s \o w \in Seq(X) /\ Len(s \o w) = Len(s) + 1 /\ Len(s) \in Nat
          /\ \A i \in 1..Len(s) : (s \o w)[i] = s[i]
          /\ (s \o w)[Len(s) + 1] = x
      BY <1>2
    <2>2. w # <<>>
      BY <1>2
    <2>3. \A i \in Len(s) + 1..Len(s \o w) : i = Len(s) + 1
      BY <2>1
    <2>4. Len(s) + 1 \in Len(s) + 1..Len(s \o w)
      BY <2>1
    <2> QED
      BY <2>1, <2>2, <2>3, <2>4 DEF Grown
  <1> QED
    BY <1>1, <1>2 DEF OneOrNone

\* s is a, then elements b, c and d if B, C and D are not empty, then e.
Headed(X, s, a, b, c, d, e, B, C, D) ==
    /\ s \in Seq(X)
    /\ Len(s) \in Nat /\ Len(s) >= 2
    /\ s[1] = a
    /\ s[Len(s)] = e
    /\ \A i \in 2..Len(s) - 1 : \/ s[i] = b /\ B # <<>>
                                \/ s[i] = c /\ C # <<>>
                                \/ s[i] = d /\ D # <<>>
    /\ B # <<>> => \E i \in 2..Len(s) - 1 : s[i] = b
    /\ C # <<>> => \E i \in 2..Len(s) - 1 : s[i] = c
    /\ D # <<>> => \E i \in 2..Len(s) - 1 : s[i] = d

LEMMA HeadingShape ==
    ASSUME NEW X, NEW a \in X, NEW b, NEW c, NEW d, NEW e \in X,
           NEW B, NEW C, NEW D,
           OneOrNone(X, B, b), OneOrNone(X, C, c), OneOrNone(X, D, d),
           NEW s, s = <<a>> \o B \o C \o D \o <<e>>
    PROVE  Headed(X, s, a, b, c, d, e, B, C, D)
  <1> DEFINE T == <<a>>
             E == <<e>>
             U == T \o B
             V == U \o C
             W == V \o D
  <1>1. T \in Seq(X) /\ Len(T) = 1 /\ T[1] = a
    OBVIOUS
  <1>2. E \in Seq(X) /\ Len(E) = 1 /\ E[1] = e
    OBVIOUS
  <1>3. s = W \o E
    OBVIOUS
  <1>4. Grown(X, T, B, b, U)
    BY <1>1, Optional
  <1>5. Grown(X, U, C, c, V)
    <2>1. U \in Seq(X)
      BY <1>4 DEF Grown
    <2> HIDE DEF U
    <2> QED
      BY <2>1, Optional
  <1>6. Grown(X, V, D, d, W)
    <2>1. V \in Seq(X)
      BY <1>5 DEF Grown
    <2> HIDE DEF V
    <2> QED
      BY <2>1, Optional
  <1> HIDE DEF T, E, U, V, W
  <1>7. /\ U \in Seq(X) /\ V \in Seq(X) /\ W \in Seq(X)
        /\ Len(U) \in Nat /\ Len(V) \in Nat /\ Len(W) \in Nat
        /\ 1 <= Len(U) /\ Len(U) <= Len(V) /\ Len(V) <= Len(W)
    BY <1>1, <1>4, <1>5, <1>6 DEF Grown
  <1>8. /\ s \in Seq(X) /\ Len(s) = Len(W) + 1 /\ s[Len(W) + 1] = e
        /\ \A i \in 1..Len(W) : s[i] = W[i]
    <2>1. /\ W \o E \in Seq(X) /\ Len(W \o E) = Len(W) + Len(E)
          /\ \A i \in 1..Len(W) : (W \o E)[i] = W[i]
          /\ \A i \in 1..Len(E) : (W \o E)[Len(W) + i] = E[i]
      <3>1. W \in Seq(X) /\ E \in Seq(X)
        BY <1>2, <1>7
      <3> QED
        BY ONLY <3>1, ConcatPlaces
    <2>2. 1 \in 1..Len(E)
      BY <1>2
    <2> QED
      BY <1>2, <1>3, <2>1, <2>2
  <1>9. Len(s) - 1 = Len(W) /\ Len(s) \in Nat /\ Len(s) >= 2
    BY <1>7, <1>8
  <1>10. \A i \in 1..Len(U) :
             s[i] = U[i] /\ (i # 1 => i \in 2..Len(W)) /\ i \in 1..Len(W)
    <2>1. \A i \in 1..Len(U) :
              i \in 1..Len(V) /\ i \in 1..Len(W) /\ (i # 1 => i \in 2..Len(W))
      BY <1>7
    <2> QED
      BY <1>5, <1>6, <1>8, <2>1 DEF Grown
  <1>11. \A i \in Len(U) + 1..Len(V) : s[i] = V[i] /\ i \in 2..Len(W)
    <2>1. \A i \in Len(U) + 1..Len(V) :
              i \in 1..Len(V) /\ i \in 1..Len(W) /\ i \in 2..Len(W)
      BY <1>7
    <2> QED
      BY <1>6, <1>8, <2>1 DEF Grown
  <1>12. \A i \in Len(V) + 1..Len(W) : s[i] = W[i] /\ i \in 2..Len(W)
    <2>1. \A i \in Len(V) + 1..Len(W) : i \in 1..Len(W) /\ i \in 2..Len(W)
      BY <1>7
    <2> QED
      BY <1>8, <2>1
  <1>13. \A i \in 2..Len(W) : \/ i \in 2..Len(U) /\ i \in 1..Len(U)
                              \/ i \in Len(U) + 1..Len(V)
                              \/ i \in Len(V) + 1..Len(W)
    BY <1>7
  <1>14. s[1] = a
    <2>1. 1 \in 1..Len(U) /\ 1 \in 1..Len(T)
      BY <1>1, <1>7
    <2> QED
      BY <1>1, <1>4, <1>10, <2>1 DEF Grown
  <1>15. Len(T) + 1 = 2
    BY <1>1
  <1>16. /\ \A i \in 2..Len(U) : U[i] = b /\ B # <<>>
         /\ \A i \in Len(U) + 1..Len(V) : V[i] = c /\ C # <<>>
         /\ \A i \in Len(V) + 1..Len(W) : W[i] = d /\ D # <<>>
    BY <1>4, <1>5, <1>6, <1>15 DEF Grown
  <1>17. \A i \in 2..Len(W) : \/ s[i] = b /\ B # <<>>
                              \/ s[i] = c /\ C # <<>>
                              \/ s[i] = d /\ D # <<>>
    BY <1>10, <1>11, <1>12, <1>13, <1>16
  <1>18. B # <<>> => \E i \in 2..Len(W) : s[i] = b
    <2> SUFFICES ASSUME B # <<>>
                 PROVE  \E i \in 2..Len(W) : s[i] = b
      OBVIOUS
    <2>1. PICK i \in 2..Len(U) : U[i] = b
      BY <1>4, <1>15 DEF Grown
    <2>2. i \in 1..Len(U) /\ i # 1
      BY <1>7
    <2> QED
      BY <1>10, <2>1, <2>2
  <1>19. C # <<>> => \E i \in 2..Len(W) : s[i] = c
    BY <1>5, <1>11 DEF Grown
  <1>20. D # <<>> => \E i \in 2..Len(W) : s[i] = d
    BY <1>6, <1>12 DEF Grown
  <1> QED
    BY <1>8, <1>9, <1>14, <1>17, <1>18, <1>19, <1>20 DEF Headed

\* A request's heading: its request line, the header lines there are, and a
\* blank line.
LEMMA HeadingPlaces ==
    ASSUME NEW r \in ClientRequests
    PROVE  LET h == Len(Heading(r))
               line(i) == Heading(r)[i]
           IN  /\ Heading(r) \in Seq(InTokens)
               /\ h \in Nat /\ h >= 2
               /\ line(1) = Line("request", r)
               /\ line(h) = Blank
               /\ \A i \in 2..h - 1 :
                      \/ line(i) = Line("header", "connection") /\ r.connection # ""
                      \/ line(i) = Line("header", r.framing) /\ r.framing # "none"
                      \/ line(i) = Line("junk", 0) /\ r.bad = "header"
               /\ r.connection # "" =>
                      \E i \in 2..h - 1 : line(i) = Line("header", "connection")
               /\ r.framing # "none" =>
                      \E i \in 2..h - 1 : line(i) = Line("header", r.framing)
               /\ r.bad = "header" => \E i \in 2..h - 1 : line(i) = Line("junk", 0)
  <1> DEFINE a == Line("request", r)
             b == Line("header", "connection")
             c == Line("header", r.framing)
             d == Line("junk", 0)
             B == IF r.connection = "" THEN <<>> ELSE <<b>>
             C == IF r.framing = "none" THEN <<>> ELSE <<c>>
             D == IF r.bad = "header" THEN <<d>> ELSE <<>>
             U == <<a>> \o B
             V == U \o C
             W == V \o D
  <1>1. a \in InTokens /\ b \in InTokens /\ d \in InTokens /\ Blank \in InTokens
    BY DEF InTokens, Line, Blank
  <1>2. r.framing # "none" => c \in InTokens
    BY DEF InTokens, Line, ClientRequests
  <1>3. Heading(r) = W \o <<Blank>>
    BY DEF Heading
  <1>4. OneOrNone(InTokens, B, b) /\ OneOrNone(InTokens, C, c) /\ OneOrNone(InTokens, D, d)
    BY <1>1, <1>2 DEF OneOrNone
  <1>5. /\ B # <<>> <=> r.connection # ""
        /\ C # <<>> <=> r.framing # "none"
        /\ D # <<>> <=> r.bad = "header"
    OBVIOUS
  <1> HIDE DEF a, b, c, d, B, C, D, W, V, U
  <1>6. Headed(InTokens, Heading(r), a, b, c, d, Blank, B, C, D)
    <2>1. Heading(r) = <<a>> \o B \o C \o D \o <<Blank>>
      BY <1>3 DEF U, V, W
    <2> QED
      BY <1>1, <1>4, <2>1, HeadingShape, Zenon
  <1> QED
    BY <1>5, <1>6 DEF a, b, c, d, Headed

\* The bytes of a body or of a chunk.
LEMMA BytesPlaces ==
    ASSUME NEW k \in Nat, NEW from \in Nat, NEW n \in Nat
    PROVE  /\ Bytes(k, from, n) \in Seq(InTokens)
           /\ Len(Bytes(k, from, n)) = n
           /\ \A i \in 1..n : Bytes(k, from, n)[i] = [t |-> "byte", value |-> <<k, from + i>>]
  <1>1. \A i \in 1..n : [t |-> "byte", value |-> <<k, from + i>>] \in InTokens
    BY DEF InTokens
  <1> QED
    BY <1>1 DEF Bytes

\* A chunk: its size, its bytes, a blank line.
LEMMA ChunkPlaces ==
    ASSUME NEW r \in ClientRequests, NEW k \in Nat, NEW j \in DOMAIN r.chunks
    PROVE  LET c == Chunk(k, r, j)
               n == r.chunks[j]
           IN  /\ n \in Nat
               /\ c \in Seq(InTokens) /\ Len(c) = n + 2
               /\ c[1] = Line("size", n)
               /\ \A i \in 1..n :
                      c[1 + i] = [t |-> "byte", value |-> <<k, Before(r.chunks, j) + i>>]
               /\ c[n + 2] = Blank
  <1> DEFINE n == r.chunks[j]
             m == Before(r.chunks, j)
             bytes == Bytes(k, m, n)
             size == Line("size", n)
             u == <<size>> \o bytes
  <1>1. r.chunks \in Seq(Nat)
    BY DEF ClientRequests
  <1>2. n \in Nat /\ m \in Nat
    <2>1. j \in 1..Len(r.chunks) + 1 /\ n \in Nat
      BY <1>1
    <2> QED
      BY <1>1, <2>1, BeforeSums
  <1>3. size \in InTokens /\ Blank \in InTokens
    BY <1>2 DEF InTokens, Line, Blank
  <1>4. /\ bytes \in Seq(InTokens) /\ Len(bytes) = n
        /\ \A i \in 1..n : bytes[i] = [t |-> "byte", value |-> <<k, m + i>>]
    BY <1>2, BytesPlaces
  <1>5. Chunk(k, r, j) = u \o <<Blank>>
    BY DEF Chunk
  <1> HIDE DEF bytes, size, n, m
  <1>6. /\ u \in Seq(InTokens) /\ Len(u) = n + 1 /\ u[1] = size
        /\ \A i \in 1..n : u[1 + i] = bytes[i]
    BY <1>2, <1>3, <1>4
  <1> HIDE DEF u
  <1>7. /\ u \o <<Blank>> \in Seq(InTokens) /\ Len(u \o <<Blank>>) = n + 2
        /\ (u \o <<Blank>>)[n + 2] = Blank
        /\ \A i \in 1..n + 1 : (u \o <<Blank>>)[i] = u[i]
    BY <1>2, <1>3, <1>6
  <1>8. 1 \in 1..n + 1 /\ \A i \in 1..n : 1 + i \in 1..n + 1
    BY <1>2
  <1> QED
    BY <1>2, <1>4, <1>5, <1>6, <1>7, <1>8 DEF size, n, m

\* The end of a chunked body: a chunk of size 0, trailers, a blank line.
LEMMA EndingPlaces ==
    ASSUME NEW r \in ClientRequests
    PROVE  LET e == Ending(r)
           IN  /\ r.trailers \in Nat
               /\ e \in Seq(InTokens) /\ Len(e) = r.trailers + 2
               /\ e[1] = Line("size", 0)
               /\ \A i \in 1..r.trailers : e[1 + i] = Line("trailer", 0)
               /\ e[r.trailers + 2] = Blank
  <1> DEFINE n == r.trailers
             size == Line("size", 0)
             trailer == Line("trailer", 0)
             lines == [i \in 1..n |-> trailer]
             u == <<size>> \o lines
  <1>1. n \in Nat
    BY DEF ClientRequests
  <1>2. size \in InTokens /\ Blank \in InTokens /\ trailer \in InTokens
    BY DEF InTokens, Line, Blank
  <1>3. Ending(r) = u \o <<Blank>>
    BY DEF Ending
  <1> HIDE DEF size, trailer, n
  <1>4. /\ lines \in Seq(InTokens) /\ Len(lines) = n
        /\ \A i \in 1..n : lines[i] = trailer
    BY <1>1, <1>2
  <1> HIDE DEF lines
  <1>5. /\ u \in Seq(InTokens) /\ Len(u) = n + 1 /\ u[1] = size
        /\ \A i \in 1..n : u[1 + i] = lines[i]
    BY <1>1, <1>2, <1>4
  <1> HIDE DEF u
  <1>6. /\ u \o <<Blank>> \in Seq(InTokens) /\ Len(u \o <<Blank>>) = n + 2
        /\ (u \o <<Blank>>)[n + 2] = Blank
        /\ \A i \in 1..n + 1 : (u \o <<Blank>>)[i] = u[i]
    BY <1>1, <1>2, <1>5
  <1>7. 1 \in 1..n + 1 /\ \A i \in 1..n : 1 + i \in 1..n + 1
    BY <1>1
  <1> QED
    BY <1>1, <1>3, <1>4, <1>5, <1>6, <1>7 DEF size, trailer, n

----------------------------------------------------------------------------
(* Where things are in what the client sends *)

Sent == [k \in DOMAIN Requests |-> Tokens(k, Requests[k])]

\* Request k ends at At(k), where the next one starts.
At(k) == Len(Joint(Sent, k))

\* Its body starts here, and here a chunk ends, after its blank line.
BodyFrom(k) == At(k - 1) + Len(Heading(Requests[k]))
Chunks(k) == [j \in DOMAIN Requests[k].chunks |-> Chunk(k, Requests[k], j)]
ChunkEnd(k, j) == BodyFrom(k) + Len(Joint(Chunks(k), j))

Count(k) == Len(Requests[k].chunks)
Total(k) == Before(Requests[k].chunks, Count(k) + 1)

----------------------------------------------------------------------------
(* What has been read *)

\* One line of the trailers has been read, and others follow: the rest of them,
\* or the blank line behind.
Strayed ==
    /\ begun > 0 /\ Requests[begun].trailers > 0
    /\ pos < Len(input) /\ input[pos + 1].t \in {"trailer", "blank"}

\* Has this line been read among the first n of request k's heading?
Seen(k, n, line) == \E i \in 1..n : Heading(Requests[k])[i] = line

\* The request line and n - 1 lines behind it have been read.
InHeading(n) ==
    LET r == Requests[begun]
    IN  /\ pos = At(begun - 1) + n
        /\ req.version = r.version
        /\ req.connection = IF Seen(begun, n, Line("header", "connection"))
                            THEN r.connection ELSE ""
        /\ req.chunked <=> Seen(begun, n, Line("header", "chunked"))
        /\ req.length = IF Seen(begun, n, Line("header", "length"))
                        THEN IF r.bad = "length" THEN "bad" ELSE "good"
                        ELSE ""

\* All of it has been read.
Known ==
    LET r == Requests[begun]
    IN  /\ req.version = r.version
        /\ req.connection = r.connection
        /\ req.chunked <=> r.framing = "chunked"
        /\ req.length = IF r.framing = "length"
                        THEN IF r.bad = "length" THEN "bad" ELSE "good"
                        ELSE ""

\* Chunk j has been begun, and left bytes of it have not been read; chunk 0
\* stands for the place before the first one.
InChunk(k, j, p, left, n) ==
    /\ n + left = Before(Requests[k].chunks, j + 1)
    /\ IF j = 0 THEN left = 0 /\ p = BodyFrom(k)
       ELSE left <= Requests[k].chunks[j] /\ p + left + 1 = ChunkEnd(k, j)

\* At position p, with http_body b, n bytes of request k's body have been read.
InBody(k, p, b, n) ==
    LET r == Requests[k]
    IN  /\ p \in Nat /\ n \in Nat
        /\ b \in [m_incoming : Nat, m_ended : BOOLEAN]
        /\ r.framing = "none" => b.m_ended /\ b.m_incoming = 0 /\ p = At(k) /\ n = 0
        /\ r.framing = "length" =>
               b.m_ended /\ p + b.m_incoming = At(k) /\ n + b.m_incoming = Total(k)
        /\ r.framing = "chunked" /\ b.m_ended =>
               b.m_incoming = 0 /\ n = Total(k) /\ p = ChunkEnd(k, Count(k)) + 2
        /\ r.framing = "chunked" /\ ~b.m_ended =>
               \E j \in 0..Count(k) : InChunk(k, j, p, b.m_incoming, n)

Reading ==
    /\ phase \in {"setup", "line"} =>
           pos \in Nat /\ (pos = At(begun) \/ Strayed)
    /\ phase = "headers" =>
           /\ begun > 0 /\ taken = <<>>
           /\ \E n \in 1..Len(Heading(Requests[begun])) - 1 : InHeading(n)
    /\ phase = "match" => begun > 0 /\ Known /\ taken = <<>> /\ pos = BodyFrom(begun)
    /\ phase \in Serving \cup {"end", "keep"} =>
           begun > 0 /\ Known /\ InBody(begun, pos, body, Len(taken))

\* The last n bytes that have been read.
Latest(n) == SubSeq(taken, Len(taken) - n + 1, Len(taken))

\* A read or a skip, or none.
CallRecords ==
    [kind : {"none", "string", "memory", "skip"}, size : Nat, left : Nat,
     dest : Seq(Nat \X Nat), rounds : Nat]

\* What the call has read and where it has put it.
Called ==
    LET n == call.size - call.left
    IN  /\ call \in CallRecords
        /\ call.left <= call.size /\ n <= Len(taken)
        /\ call.kind = "string" => call.dest = Latest(n)
        /\ call.kind = "memory" /\ call.rounds = 0 => n = 0 /\ call.dest = <<>>
        /\ call.kind = "memory" /\ call.rounds = 1 => call.dest = Latest(n)

Calls ==
    /\ phase \notin {"reading", "read", "dropped"} => call = NoCall
    /\ Called
    /\ phase = "reading" => call.kind # "none" /\ call.left > 0
    /\ phase = "read" /\ call.left > 0 => Len(taken) = Total(begun)

\* An http_request, as far as the server looks at it.
HttpRequests ==
    [method : STRING \cup {NoRequest.method}, version : {"1.0", "1.1"},
     path : Seq(STRING), connection : {"", "close", "keep-alive"},
     length : {"", "good", "bad"}, chunked : BOOLEAN]

\* What is never changed.
Given == scenario \in Scenarios /\ input = FlattenSeq(Sent)

Received ==
    /\ Given
    /\ begun \in 0..Len(Requests)
    /\ req \in HttpRequests
    /\ taken \in Seq(Nat \X Nat)
    /\ \A i \in DOMAIN taken : taken[i] = <<begun, i>>
    /\ Reading
    /\ Calls
    /\ NoRequestDropped

----------------------------------------------------------------------------
(* The tokens of one request *)

\* The chunks of a body, one after the other.
LEMMA ChunksPlaces ==
    ASSUME NEW r \in ClientRequests, NEW k \in Nat
    PROVE  LET q == [j \in DOMAIN r.chunks |-> Chunk(k, r, j)]
           IN  /\ q \in Seq(Seq(InTokens)) /\ Len(q) = Len(r.chunks)
               /\ Len(q) \in Nat
               /\ \A j \in 1..Len(q) : q[j] = Chunk(k, r, j)
  <1>1. r.chunks \in Seq(Nat)
    BY DEF ClientRequests
  <1>2. DOMAIN r.chunks = 1..Len(r.chunks) /\ Len(r.chunks) \in Nat
    BY <1>1
  <1>3. \A j \in DOMAIN r.chunks : Chunk(k, r, j) \in Seq(InTokens)
    BY ChunkPlaces
  <1> QED
    BY <1>2, <1>3

\* What follows the heading.
Rest(k, r) ==
    CASE r.framing = "none" -> <<>>
      [] r.framing = "length" -> Bytes(k, 0, r.chunks[1])
      [] r.framing = "chunked" ->
             FlattenSeq([j \in DOMAIN r.chunks |-> Chunk(k, r, j)]) \o Ending(r)

LEMMA RestPlaces ==
    ASSUME NEW r \in ClientRequests, NEW k \in Nat
    PROVE  LET s == Rest(k, r)
               all == FlattenSeq([j \in DOMAIN r.chunks |-> Chunk(k, r, j)])
           IN  /\ s \in Seq(InTokens)
               /\ r.framing = "none" => Len(s) = 0
               /\ r.framing = "length" =>
                      /\ Len(s) = r.chunks[1] /\ r.chunks[1] \in Nat
                      /\ \A i \in 1..r.chunks[1] :
                             s[i] = [t |-> "byte", value |-> <<k, i>>]
               /\ r.framing = "chunked" =>
                      /\ Len(all) \in Nat
                      /\ Len(s) = Len(all) + (r.trailers + 2)
                      /\ \A i \in 1..Len(all) : s[i] = all[i]
                      /\ \A i \in 1..r.trailers + 2 : s[Len(all) + i] = Ending(r)[i]
  <1> DEFINE all == FlattenSeq([j \in DOMAIN r.chunks |-> Chunk(k, r, j)])
  <1>1. r.framing \in {"none", "length", "chunked"} /\ r.chunks \in Seq(Nat)
    BY DEF ClientRequests
  <1>2. CASE r.framing = "none"
    <2>1. Rest(k, r) = <<>>
      BY <1>2 DEF Rest
    <2> QED
      BY <1>2, <2>1
  <1>3. CASE r.framing = "length"
    <2> DEFINE n == r.chunks[1]
    <2>1. Rest(k, r) = Bytes(k, 0, n)
      BY <1>3 DEF Rest
    <2>2. Len(r.chunks) = 1
      BY <1>3 DEF ClientRequests
    <2>3. r.chunks[1] \in Nat
      BY <1>1, <2>2
    <2>4. /\ Bytes(k, 0, n) \in Seq(InTokens) /\ Len(Bytes(k, 0, n)) = n
          /\ \A i \in 1..n : Bytes(k, 0, n)[i] = [t |-> "byte", value |-> <<k, 0 + i>>]
      <3>1. n \in Nat /\ 0 \in Nat
        BY <2>3
      <3> HIDE DEF n
      <3> QED
        BY <3>1, BytesPlaces
    <2>5. /\ Rest(k, r) \in Seq(InTokens) /\ Len(Rest(k, r)) = n
          /\ \A i \in 1..n : Rest(k, r)[i] = [t |-> "byte", value |-> <<k, i>>]
      <3>1. \A i \in 1..n : 0 + i = i
        BY <2>3
      <3> HIDE DEF n, all
      <3>2. \A i \in 1..n :
                [t |-> "byte", value |-> <<k, 0 + i>>] = [t |-> "byte", value |-> <<k, i>>]
        BY <3>1
      <3> QED
        BY <2>1, <2>4, <3>2, Zenon
    <2> QED
      BY <1>3, <2>3, <2>5
  <1>4. CASE r.framing = "chunked"
    <2>1. Rest(k, r) = all \o Ending(r)
      BY <1>4 DEF Rest
    <2>2. all \in Seq(InTokens)
      BY ChunksPlaces, JointPlaces
    <2>3. Ending(r) \in Seq(InTokens) /\ Len(Ending(r)) = r.trailers + 2
      BY EndingPlaces
    <2> HIDE DEF all
    <2>4. /\ Rest(k, r) \in Seq(InTokens)
          /\ Len(all) \in Nat
          /\ Len(Rest(k, r)) = Len(all) + (r.trailers + 2)
          /\ \A i \in 1..Len(all) : Rest(k, r)[i] = all[i]
          /\ \A i \in 1..r.trailers + 2 : Rest(k, r)[Len(all) + i] = Ending(r)[i]
      BY <2>1, <2>2, <2>3, ConcatPlaces
    <2> QED
      BY <1>4, <2>4 DEF all
  <1> QED
    BY <1>1, <1>2, <1>3, <1>4

LEMMA TokensPlaces ==
    ASSUME NEW r \in ClientRequests, NEW k \in Nat
    PROVE  LET s == Tokens(k, r)
               h == Len(Heading(r))
           IN  /\ s \in Seq(InTokens)
               /\ Len(s) \in Nat /\ h \in Nat /\ Len(Rest(k, r)) \in Nat
               /\ Len(s) = h + Len(Rest(k, r))
               /\ \A i \in 1..h : s[i] = Heading(r)[i]
               /\ \A i \in 1..Len(Rest(k, r)) : s[h + i] = Rest(k, r)[i]
  <1>1. Tokens(k, r) = Heading(r) \o Rest(k, r)
    BY DEF Tokens, Rest
  <1>2. Heading(r) \in Seq(InTokens)
    BY HeadingPlaces
  <1>3. Rest(k, r) \in Seq(InTokens)
    BY RestPlaces
  <1> QED
    BY <1>1, <1>2, <1>3, ConcatPlaces

----------------------------------------------------------------------------
(* The tokens of all *)

LEMMA RequestsGiven ==
    ASSUME Given
    PROVE  /\ Len(Requests) \in Nat
           /\ DOMAIN Requests = 1..Len(Requests)
           /\ \A k \in 1..Len(Requests) : Requests[k] \in ClientRequests
  <1>1. Requests \in Seq(ClientRequests)
    BY HttpServerAssumption DEF Given, Requests
  <1> QED
    BY <1>1

LEMMA SentPlaces ==
    ASSUME Given
    PROVE  /\ At(0) = 0 /\ At(Len(Requests)) = Len(input)
           /\ Len(input) \in Nat
           /\ \A k \in 0..Len(Requests) : At(k) \in Nat
           /\ \A k \in 1..Len(Requests) :
                  /\ At(k) = At(k - 1) + Len(Tokens(k, Requests[k]))
                  /\ \A i \in 1..Len(Tokens(k, Requests[k])) :
                         /\ input[At(k - 1) + i] = Tokens(k, Requests[k])[i]
                         /\ At(k - 1) + i <= Len(input)
  <1>1. /\ Len(Requests) \in Nat /\ DOMAIN Requests = 1..Len(Requests)
        /\ \A k \in 1..Len(Requests) : Requests[k] \in ClientRequests
    BY RequestsGiven
  <1>2. \A k \in 1..Len(Requests) : Tokens(k, Requests[k]) \in Seq(InTokens)
    BY <1>1, TokensPlaces
  <1>3. /\ Sent \in Seq(Seq(InTokens)) /\ Len(Sent) = Len(Requests)
        /\ \A k \in 1..Len(Requests) : Sent[k] = Tokens(k, Requests[k])
    BY <1>1, <1>2 DEF Sent
  <1>4. input = FlattenSeq(Sent)
    BY DEF Given
  <1>5. /\ FlattenSeq(Sent) \in Seq(InTokens)
        /\ At(0) = 0 /\ At(Len(Sent)) = Len(FlattenSeq(Sent))
        /\ \A k \in 0..Len(Sent) : Joint(Sent, k) \in Seq(InTokens)
        /\ \A k \in 1..Len(Sent) :
               /\ At(k) = At(k - 1) + Len(Sent[k])
               /\ \A i \in 1..Len(Sent[k]) :
                      LET a == At(k - 1) + i
                      IN  FlattenSeq(Sent)[a] = Sent[k][i] /\ a <= Len(FlattenSeq(Sent))
    BY <1>3, JointPlaces DEF At
  <1>6. \A k \in 0..Len(Requests) : At(k) \in Nat
    BY <1>3, <1>5 DEF At
  <1>7. Len(input) \in Nat
    BY <1>4, <1>5
  <1> QED
    BY <1>3, <1>4, <1>5, <1>6, <1>7

\* A request in the input: its heading, and what follows it.
LEMMA Laid ==
    ASSUME Given, NEW k \in 1..Len(Requests)
    PROVE  LET r == Requests[k]
               h == Len(Heading(r))
           IN  /\ r \in ClientRequests /\ k \in Nat
               /\ h \in Nat /\ h >= 2
               /\ At(k - 1) \in Nat /\ BodyFrom(k) \in Nat /\ At(k) \in Nat
               /\ BodyFrom(k) = At(k - 1) + h
               /\ Len(Rest(k, r)) \in Nat
               /\ At(k) = BodyFrom(k) + Len(Rest(k, r))
               /\ Len(input) \in Nat /\ At(k) <= Len(input)
               /\ \A i \in 1..h : input[At(k - 1) + i] = Heading(r)[i]
               /\ \A i \in 1..Len(Rest(k, r)) : input[BodyFrom(k) + i] = Rest(k, r)[i]
  <1> DEFINE r == Requests[k]
             h == Len(Heading(r))
             s == Tokens(k, r)
             w == Rest(k, r)
             a == At(k - 1)
  <1>1. r \in ClientRequests /\ k \in Nat /\ k - 1 \in 0..Len(Requests)
        /\ k \in 0..Len(Requests)
    BY RequestsGiven
  <1>2. h \in Nat /\ h >= 2
    BY <1>1, HeadingPlaces
  <1>3. /\ Len(s) \in Nat /\ Len(w) \in Nat
        /\ Len(s) = h + Len(w)
        /\ \A i \in 1..h : s[i] = Heading(r)[i]
        /\ \A i \in 1..Len(w) : s[h + i] = w[i]
    BY <1>1, TokensPlaces
  <1>4. /\ Len(input) \in Nat /\ a \in Nat /\ At(k) \in Nat
        /\ At(k) = a + Len(s)
        /\ \A i \in 1..Len(s) : input[a + i] = s[i] /\ a + i <= Len(input)
    BY <1>1, SentPlaces
  <1>5. BodyFrom(k) = a + h
    BY DEF BodyFrom
  <1> HIDE DEF r, h, s, w, a
  <1>6. At(k) <= Len(input)
    <2>1. Len(s) \in 1..Len(s)
      BY <1>2, <1>3
    <2> QED
      BY <1>4, <2>1
  <1>7. \A i \in 1..h : i \in 1..Len(s)
    BY <1>2, <1>3
  <1>8. \A i \in 1..Len(w) : h + i \in 1..Len(s) /\ a + (h + i) = BodyFrom(k) + i
    BY <1>2, <1>3, <1>4, <1>5
  <1>9. \A i \in 1..h : input[a + i] = Heading(r)[i]
    BY <1>3, <1>4, <1>7
  <1>10. \A i \in 1..Len(w) : input[BodyFrom(k) + i] = w[i]
    <2> TAKE i \in 1..Len(w)
    <2>1. input[a + (h + i)] = s[h + i]
      BY <1>4, <1>8
    <2>2. s[h + i] = w[i]
      BY <1>3
    <2>3. a + (h + i) = BodyFrom(k) + i
      BY <1>8
    <2> QED
      BY <2>1, <2>2, <2>3
  <1>11. BodyFrom(k) \in Nat /\ At(k) = BodyFrom(k) + Len(w)
    BY <1>2, <1>3, <1>4, <1>5
  <1> QED
    BY <1>1, <1>2, <1>3, <1>4, <1>5, <1>6, <1>9, <1>10, <1>11 DEF r, h, s, w, a

\* No body, or one of a length.
LEMMA LengthLaid ==
    ASSUME Given, NEW k \in 1..Len(Requests)
    PROVE  /\ Requests[k].framing = "none" => At(k) = BodyFrom(k) /\ Total(k) = 0
           /\ Requests[k].framing = "length" =>
                  /\ Total(k) = Requests[k].chunks[1] /\ Total(k) \in Nat
                  /\ At(k) = BodyFrom(k) + Total(k)
                  /\ \A i \in 1..Total(k) : input[BodyFrom(k) + i].value = <<k, i>>
  <1> DEFINE r == Requests[k]
             w == Rest(k, r)
  <1>1. /\ r \in ClientRequests /\ k \in Nat /\ BodyFrom(k) \in Nat
        /\ At(k) = BodyFrom(k) + Len(w)
        /\ \A i \in 1..Len(w) : input[BodyFrom(k) + i] = w[i]
    BY Laid
  <1>2. r.chunks \in Seq(Nat)
    BY <1>1 DEF ClientRequests
  <1>3. CASE r.framing = "none"
    <2>1. r.chunks = <<>>
      BY <1>1, <1>3 DEF ClientRequests
    <2>2. Total(k) = 0
      <3>1. Before(r.chunks, 1) = 0
        BY <1>2, BeforeSums
      <3>2. Len(r.chunks) + 1 = 1
        BY <2>1
      <3> QED
        BY <3>1, <3>2 DEF Total, Count
    <2>3. Len(w) = 0
      BY <1>1, <1>3, RestPlaces
    <2> HIDE DEF w
    <2>4. At(k) = BodyFrom(k)
      BY <1>1, <2>3
    <2> QED
      BY <1>3, <2>2, <2>4
  <1>4. CASE r.framing = "length"
    <2> DEFINE n == r.chunks[1]
    <2>1. Len(r.chunks) = 1
      BY <1>1, <1>4 DEF ClientRequests
    <2>2. n \in Nat
      BY <1>2, <2>1
    <2>3. Total(k) = n
      <3>1. Before(r.chunks, 1) = 0
        BY <1>2, BeforeSums
      <3>2. 1 \in 1..Len(r.chunks) /\ Len(r.chunks) + 1 = 1 + 1
        BY <2>1
      <3>3. Before(r.chunks, 1 + 1) = Before(r.chunks, 1) + n
        BY <1>2, <3>2, BeforeSums
      <3> HIDE DEF n
      <3>4. Before(r.chunks, 1 + 1) = n
        BY <2>2, <3>1, <3>3
      <3> QED
        BY <3>2, <3>4 DEF Total, Count
    <2>4. Len(w) = n /\ \A i \in 1..n : w[i] = [t |-> "byte", value |-> <<k, i>>]
      BY <1>1, <1>4, RestPlaces
    <2> HIDE DEF w, n
    <2>5. \A i \in 1..n : input[BodyFrom(k) + i].value = <<k, i>>
      BY <1>1, <2>4
    <2> QED
      BY <1>1, <1>4, <2>2, <2>3, <2>4, <2>5 DEF n
  <1> QED
    BY <1>3, <1>4

\* A chunk in the input: its size, its bytes, a blank line.
ChunkLaid(k, j) ==
    LET c == Requests[k].chunks
        from == ChunkEnd(k, j - 1)
    IN  /\ c[j] \in Nat \ {0}
        /\ Before(c, j) \in Nat /\ Before(c, j + 1) = Before(c, j) + c[j]
        /\ from \in Nat /\ ChunkEnd(k, j) = from + c[j] + 2
        /\ input[from + 1] = Line("size", c[j])
        /\ \A i \in 1..c[j] : input[from + 1 + i].value = <<k, Before(c, j) + i>>
        /\ input[ChunkEnd(k, j)] = Blank

LEMMA ChunksLaid ==
    ASSUME Given, NEW k \in 1..Len(Requests), Requests[k].framing = "chunked"
    PROVE  /\ Count(k) \in Nat
           /\ ChunkEnd(k, 0) = BodyFrom(k) /\ Before(Requests[k].chunks, 1) = 0
           /\ \A j \in 0..Count(k) : ChunkEnd(k, j) \in Nat
           /\ ChunkEnd(k, Count(k)) = BodyFrom(k) + Len(FlattenSeq(Chunks(k)))
           /\ \A j \in 1..Count(k) : ChunkLaid(k, j)
  <1> DEFINE r == Requests[k]
             c == r.chunks
             w == Rest(k, r)
             q == Chunks(k)
             all == FlattenSeq(q)
             b == BodyFrom(k)
             E(j) == ChunkEnd(k, j)
  <1>1. /\ r \in ClientRequests /\ k \in Nat /\ b \in Nat
        /\ Len(w) \in Nat
        /\ \A i \in 1..Len(w) : input[b + i] = w[i]
    BY Laid
  <1>2. c \in Seq(Nat) /\ \A j \in DOMAIN c : c[j] > 0
    BY <1>1 DEF ClientRequests
  <1>3. /\ q \in Seq(Seq(InTokens)) /\ Len(q) = Count(k) /\ Count(k) \in Nat
        /\ \A j \in 1..Count(k) : q[j] = Chunk(k, r, j)
    BY <1>1, ChunksPlaces DEF Chunks, Count
  <1>4. /\ Len(all) \in Nat /\ Len(w) = Len(all) + (r.trailers + 2)
        /\ \A i \in 1..Len(all) : w[i] = all[i]
    BY <1>1, RestPlaces DEF Chunks
  <1>5. r.trailers \in Nat
    BY <1>1 DEF ClientRequests
  <1>6. \A j \in 0..Count(k) : Len(Joint(q, j)) \in Nat
    <2>1. \A j \in 0..Len(q) : Joint(q, j) \in Seq(InTokens)
      BY <1>3, JointPlaces
    <2> QED
      BY <1>3, <2>1
  <1>7. Len(Joint(q, 0)) = 0 /\ Len(Joint(q, Count(k))) = Len(all)
    BY <1>3, JointPlaces
  <1>8. \A j \in 1..Count(k) :
            /\ Len(Joint(q, j)) = Len(Joint(q, j - 1)) + Len(q[j])
            /\ \A i \in 1..Len(q[j]) :
                   LET a == Len(Joint(q, j - 1)) + i
                   IN  all[a] = q[j][i] /\ a <= Len(all)
    <2> HIDE DEF q
    <2> QED
      BY <1>3, JointPlaces
  <1>9. \A j \in 0..Count(k) : E(j) = b + Len(Joint(q, j))
    BY DEF ChunkEnd
  <1>10. DOMAIN c = 1..Count(k)
    BY <1>2 DEF Count
  <1>11. /\ Before(c, 1) = 0
         /\ \A j \in 1..Count(k) + 1 : Before(c, j) \in Nat
         /\ \A j \in 1..Count(k) : Before(c, j + 1) = Before(c, j) + c[j]
    BY <1>2, BeforeSums DEF Count
  <1>12. \A j \in DOMAIN c : c[j] \in Nat /\ c[j] > 0
    BY <1>2
  <1>13. Count(k) \in Nat /\ b \in Nat
    BY <1>1, <1>3
  <1> HIDE DEF E, q, all, w, b
  <1>14. \A j \in 0..Count(k) : E(j) \in Nat
    BY <1>6, <1>9, <1>13
  <1>15. E(0) = b /\ E(Count(k)) = b + Len(all)
    BY <1>7, <1>9, <1>13
  <1>16. ASSUME NEW j \in 1..Count(k)
         PROVE  ChunkLaid(k, j)
    <2> DEFINE n == c[j]
               m == Before(c, j)
               e == E(j - 1)
               d == Len(Joint(q, j - 1))
               x == Chunk(k, r, j)
    <2>1. n \in Nat /\ n > 0
      BY <1>10, <1>12
    <2>2. /\ Len(x) = n + 2
          /\ x[1] = Line("size", n)
          /\ \A i \in 1..n : x[1 + i] = [t |-> "byte", value |-> <<k, m + i>>]
          /\ x[n + 2] = Blank
      <3>1. r \in ClientRequests /\ k \in Nat /\ j \in DOMAIN r.chunks
        BY <1>1, <1>10
      <3> QED
        BY <3>1, ChunkPlaces
    <2>3. m \in Nat /\ Before(c, j + 1) = m + n
      <3>1. j \in 1..Count(k) + 1
        BY <1>13
      <3> QED
        BY <1>11, <3>1
    <2>4. j - 1 \in 0..Count(k) /\ j \in 0..Count(k)
      BY <1>13
    <2>5. e \in Nat /\ d \in Nat /\ e = b + d /\ E(j) = b + Len(Joint(q, j))
      BY <1>6, <1>9, <1>14, <2>4
    <2>6. /\ q[j] = x
          /\ Len(Joint(q, j)) = d + Len(q[j])
          /\ \A i \in 1..Len(q[j]) : all[d + i] = q[j][i] /\ d + i <= Len(all)
      BY <1>3, <1>8
    <2> HIDE DEF c, n, m, e, d, x, r
    <2>7. E(j) = e + n + 2
      BY <1>13, <2>1, <2>2, <2>5, <2>6
    <2>8. \A i \in 1..n + 2 : input[e + i] = x[i]
      <3> TAKE i \in 1..n + 2
      <3>1. all[d + i] = x[i] /\ d + i <= Len(all)
        BY <2>2, <2>6
      <3>2. d + i \in 1..Len(all) /\ d + i \in 1..Len(w) /\ e + i = b + (d + i)
        <4>1. Len(all) \in Nat /\ Len(w) \in Nat /\ Len(all) <= Len(w)
          BY <1>1, <1>4, <1>5
        <4>2. i \in Nat /\ i >= 1
          BY <2>1
        <4> QED
          BY <1>13, <2>5, <3>1, <4>1, <4>2
      <3> QED
        BY <1>1, <1>4, <3>1, <3>2
    <2>9. 1 \in 1..n + 2 /\ n + 2 \in 1..n + 2 /\ e + (n + 2) = e + n + 2
      BY <2>1, <2>5
    <2>10. \A i \in 1..n : 1 + i \in 1..n + 2 /\ e + (1 + i) = e + 1 + i
      BY <2>1, <2>5
    <2>11. input[e + 1] = Line("size", n)
      BY <2>2, <2>8, <2>9
    <2>12. input[E(j)] = Blank
      BY <2>2, <2>7, <2>8, <2>9
    <2>13. \A i \in 1..n : input[e + 1 + i].value = <<k, m + i>>
      <3> TAKE i \in 1..n
      <3>1. input[e + (1 + i)] = x[1 + i]
        BY <2>8, <2>10
      <3>2. x[1 + i] = [t |-> "byte", value |-> <<k, m + i>>]
        BY <2>2
      <3>3. input[e + 1 + i] = [t |-> "byte", value |-> <<k, m + i>>]
        BY <2>10, <3>1, <3>2
      <3> QED
        BY <3>3
    <2>14. n \in Nat \ {0}
      BY <2>1
    <2> QED
      BY <2>3, <2>5, <2>7, <2>11, <2>12, <2>13, <2>14 DEF ChunkLaid, c, n, m, e, r, E
  <1> QED
    BY <1>11, <1>13, <1>14, <1>15, <1>16 DEF E, b, all, q

\* Behind them: a chunk of size 0, trailers, a blank line.
LEMMA EndingLaid ==
    ASSUME Given, NEW k \in 1..Len(Requests), Requests[k].framing = "chunked"
    PROVE  LET e == ChunkEnd(k, Count(k))
               n == Requests[k].trailers
           IN  /\ e \in Nat /\ n \in Nat
               /\ At(k) = e + 2 + n
               /\ input[e + 1] = Line("size", 0)
               /\ \A i \in 1..n : input[e + 1 + i] = Line("trailer", 0)
               /\ input[At(k)] = Blank
  <1> DEFINE r == Requests[k]
             w == Rest(k, r)
             all == FlattenSeq(Chunks(k))
             b == BodyFrom(k)
             e == ChunkEnd(k, Count(k))
             n == r.trailers
             s == Ending(r)
  <1>1. /\ r \in ClientRequests /\ k \in Nat /\ b \in Nat
        /\ Len(w) \in Nat /\ At(k) = b + Len(w)
        /\ \A i \in 1..Len(w) : input[b + i] = w[i]
    BY Laid
  <1>2. /\ Len(all) \in Nat /\ Len(w) = Len(all) + (n + 2)
        /\ \A i \in 1..n + 2 : w[Len(all) + i] = s[i]
    BY <1>1, RestPlaces DEF Chunks
  <1>3. e = b + Len(all)
    BY ChunksLaid
  <1>4. /\ n \in Nat
        /\ s[1] = Line("size", 0)
        /\ \A i \in 1..n : s[1 + i] = Line("trailer", 0)
        /\ s[n + 2] = Blank
    BY <1>1, EndingPlaces
  <1> HIDE DEF w, all, b, e, n, s, r
  <1>5. \A i \in 1..n + 2 : input[e + i] = s[i]
    <2> TAKE i \in 1..n + 2
    <2>1. Len(all) + i \in 1..Len(w) /\ b + (Len(all) + i) = e + i
      BY <1>1, <1>2, <1>3, <1>4
    <2> QED
      BY <1>1, <1>2, <2>1
  <1>6. /\ 1 \in 1..n + 2 /\ n + 2 \in 1..n + 2
        /\ At(k) = e + 2 + n /\ At(k) = e + (n + 2) /\ e \in Nat
        /\ \A i \in 1..n : 1 + i \in 1..n + 2 /\ e + (1 + i) = e + 1 + i
    BY <1>1, <1>2, <1>3, <1>4
  <1>7. input[e + 1] = Line("size", 0) /\ input[At(k)] = Blank
    BY <1>4, <1>5, <1>6
  <1>8. \A i \in 1..n : input[e + 1 + i] = Line("trailer", 0)
    BY <1>4, <1>5, <1>6
  <1> QED
    BY <1>4, <1>6, <1>7, <1>8 DEF e, n, r

----------------------------------------------------------------------------
(* A body *)

\* has_incoming, where it must read: behind chunk j the next one begins.
LEMMA NextChunk ==
    ASSUME Given, begun \in 1..Len(Requests), Requests[begun].framing = "chunked",
           NEW n, NEW j \in 0..Count(begun), pos \in Nat,
           InChunk(begun, j, pos, 0, n),
           body.m_incoming = 0, ~body.m_ended, ~HasIncoming.throws
    PROVE  LET p == ChunkEnd(begun, j)
               size == IF j < Count(begun) THEN Requests[begun].chunks[j + 1] ELSE 0
           IN  /\ p \in Nat /\ size \in Nat /\ (size = 0 <=> j = Count(begun))
               /\ HasIncoming.pos = IF size = 0 THEN p + 2 ELSE p + 1
               /\ HasIncoming.body = [m_incoming |-> size, m_ended |-> size = 0]
  <1> DEFINE k == begun
             e == ChunkEnd(k, j)
             size == IF j < Count(k) THEN Requests[k].chunks[j + 1] ELSE 0
             first == LineAt(pos)
             p == IF is_last_line(first) THEN After(pos) ELSE pos
  <1>1. Count(k) \in Nat /\ e \in Nat /\ ChunkEnd(k, 0) = BodyFrom(k)
    BY ChunksLaid
  <1>2. /\ size \in Nat /\ (size = 0 <=> j = Count(k))
        /\ input[e + 1] = Line("size", size)
    <2>1. CASE j < Count(k)
      <3>1. j + 1 \in 1..Count(k) /\ (j + 1) - 1 = j
        BY <1>1, <2>1
      <3>2. ChunkLaid(k, j + 1)
        BY <3>1, ChunksLaid
      <3> QED
        BY <1>1, <2>1, <3>1, <3>2 DEF ChunkLaid
    <2>2. CASE ~(j < Count(k))
      <3>1. j = Count(k)
        BY <1>1, <2>2
      <3>2. input[e + 1] = Line("size", 0)
        BY <3>1, EndingLaid
      <3> QED
        BY <1>1, <2>2, <3>1, <3>2
    <2> QED
      BY <2>1, <2>2
  <1>3. Line("size", size).t = "size" /\ Line("size", size).value = size /\ Blank.t = "blank"
        /\ Line("none", 0).t = "none"
    BY DEF Line, Blank
  <1>4. HasIncoming =
            IF LineAt(p).t # "size"
            THEN [throws |-> TRUE, pos |-> After(p), body |-> body]
            ELSE [throws |-> FALSE,
                  pos |-> IF LineAt(p).value = 0 THEN LastChunk(After(p)) ELSE After(p),
                  body |-> [m_incoming |-> LineAt(p).value, m_ended |-> LineAt(p).value = 0]]
    BY DEF HasIncoming
  <1>5. LineAt(p).t = "size"
    <2> HIDE DEF p
    <2> QED
      BY <1>4
  <1>6. p = e
    <2>1. CASE j = 0
      <3>1. pos = e
        BY <1>1, <2>1 DEF InChunk
      <3>2. ~is_last_line(first)
        BY <1>2, <1>3, <3>1 DEF LineAt, is_last_line
      <3> QED
        BY <3>1, <3>2
    <2>2. CASE j # 0
      <3>1. pos + 1 = e
        BY <2>2 DEF InChunk
      <3>2. input[pos + 1] = Blank
        <4>1. j \in 1..Count(k)
          BY <1>1, <2>2
        <4>2. ChunkLaid(k, j)
          BY <4>1, ChunksLaid
        <4> QED
          BY <3>1, <4>2 DEF ChunkLaid
      <3>3. first = Blank \/ first = Line("none", 0)
        BY <3>2 DEF LineAt
      <3>4. CASE first = Line("none", 0)
        <4>1. p = pos
          BY <1>3, <3>4 DEF is_last_line
        <4>2. LineAt(p).t = "none"
          BY <1>3, <3>4, <4>1
        <4> QED
          BY <1>5, <4>2
      <3>5. CASE first = Blank
        BY <1>3, <3>1, <3>5 DEF is_last_line, After
      <3> QED
        BY <3>3, <3>4, <3>5
    <2> QED
      BY <2>1, <2>2
  <1> HIDE DEF p, first
  <1>7. ~cut /\ LineAt(e) = Line("size", size)
    <2>1. LineAt(e) # Line("none", 0)
      BY <1>3, <1>5, <1>6
    <2> QED
      BY <1>2, <2>1 DEF LineAt
  <1> HIDE DEF size
  <1>8. After(e) = e + 1
    BY <1>3, <1>7 DEF After
  <1>9. size = 0 => LastChunk(e + 1) = e + 2
    <2> SUFFICES ASSUME size = 0
                 PROVE  LastChunk(e + 1) = e + 2
      OBVIOUS
    <2> DEFINE m == Requests[k].trailers
    <2>1. /\ m \in Nat /\ At(k) = e + 2 + m
          /\ \A i \in 1..m : input[e + 1 + i] = Line("trailer", 0)
          /\ input[At(k)] = Blank
      BY <1>2, EndingLaid
    <2>2. At(k) <= Len(input) /\ Len(input) \in Nat
      BY Laid
    <2> HIDE DEF e, m, k
    <2>3. ~(e + 1 >= Len(input)) /\ e + 1 + 1 = e + 2
      BY <1>1, <2>1, <2>2
    <2>4. input[e + 2] = Blank \/ input[e + 2] = Line("trailer", 0)
      <3>1. CASE m = 0
        <4>1. At(k) = e + 2
          BY <1>1, <2>1, <3>1
        <4> QED
          BY <2>1, <4>1
      <3>2. CASE m # 0
        <4>1. 1 \in 1..m
          BY <2>1, <3>2
        <4> QED
          BY <2>1, <2>3, <4>1
      <3> QED
        BY <3>1, <3>2
    <2>5. LineAt(e + 1) = input[e + 2]
      BY <1>7, <2>3 DEF LineAt
    <2>6. LineAt(e + 1).t # "none"
      BY <2>4, <2>5 DEF Blank, Line
    <2> QED
      BY <2>3, <2>6 DEF LastChunk, After
  <1>10. LineAt(p).t = "size" /\ LineAt(p).value = size
    BY <1>3, <1>6, <1>7
  <1>11. /\ HasIncoming.pos = IF size = 0 THEN LastChunk(After(p)) ELSE After(p)
         /\ HasIncoming.body = [m_incoming |-> size, m_ended |-> size = 0]
    BY <1>4, <1>10
  <1>12. HasIncoming.pos = IF size = 0 THEN e + 2 ELSE e + 1
    BY <1>6, <1>8, <1>9, <1>11
  <1> QED
    BY <1>1, <1>2, <1>11, <1>12 DEF size

\* has_incoming keeps its place in the body, or throws.
LEMMA Advances ==
    ASSUME Given, begun \in 1..Len(Requests), NEW n,
           InBody(begun, pos, body, n), ~HasIncoming.throws
    PROVE  /\ InBody(begun, HasIncoming.pos, HasIncoming.body, n)
           /\ HasIncoming.body.m_incoming = 0 => HasIncoming.body.m_ended
  <1> DEFINE k == begun
             r == Requests[k]
             h == HasIncoming
  <1>1. body \in [m_incoming : Nat, m_ended : BOOLEAN] /\ pos \in Nat /\ n \in Nat
    BY DEF InBody
  <1>2. r.framing \in {"none", "length", "chunked"}
    BY Laid DEF ClientRequests
  <1>3. CASE body.m_incoming > 0 \/ body.m_ended
    <2>1. h.pos = pos /\ h.body = body
      BY <1>3 DEF HasIncoming
    <2>2. body.m_incoming = 0 => body.m_ended
      BY <1>1, <1>3
    <2> QED
      BY <2>1, <2>2
  <1>4. CASE ~(body.m_incoming > 0 \/ body.m_ended)
    <2>1. body.m_incoming = 0 /\ ~body.m_ended
      BY <1>1, <1>4
    <2>2. r.framing = "chunked"
      BY <1>2, <2>1 DEF InBody
    <2>3. PICK j \in 0..Count(k) : InChunk(k, j, pos, 0, n)
      BY <2>1, <2>2 DEF InBody
    <2> DEFINE p == ChunkEnd(k, j)
               size == IF j < Count(k) THEN r.chunks[j + 1] ELSE 0
    <2>4. /\ p \in Nat /\ size \in Nat /\ (size = 0 <=> j = Count(k))
          /\ h.pos = IF size = 0 THEN p + 2 ELSE p + 1
          /\ h.body = [m_incoming |-> size, m_ended |-> size = 0]
      BY <1>1, <2>1, <2>2, <2>3, NextChunk
    <2>5. n = Before(r.chunks, j + 1)
      BY <1>1, <2>3 DEF InChunk
    <2>6. Count(k) \in Nat
      BY <2>2, ChunksLaid
    <2>7. CASE j = Count(k)
      <3>1. h.pos = p + 2 /\ h.body = [m_incoming |-> 0, m_ended |-> TRUE]
        BY <2>4, <2>7
      <3>2. n = Total(k) /\ p = ChunkEnd(k, Count(k))
        BY <2>5, <2>7 DEF Total
      <3> HIDE DEF h, p, r, k
      <3> QED
        BY <1>1, <2>2, <2>4, <3>1, <3>2 DEF InBody, h, r, k
    <2>8. CASE j # Count(k)
      <3>1. j + 1 \in 1..Count(k) /\ (j + 1) - 1 = j /\ j < Count(k) /\ j + 1 \in 0..Count(k)
            /\ j + 1 # 0
        BY <2>6, <2>8
      <3>2. ChunkLaid(k, j + 1)
        BY <2>2, <3>1, ChunksLaid
      <3>3. size = r.chunks[j + 1] /\ size # 0
        BY <2>4, <2>8, <3>1
      <3>4. h.pos = p + 1 /\ h.body = [m_incoming |-> size, m_ended |-> FALSE]
        BY <2>4, <3>3
      <3>5. /\ Before(r.chunks, (j + 1) + 1) = n + size
            /\ ChunkEnd(k, j + 1) = p + size + 2
        BY <2>5, <3>1, <3>2, <3>3 DEF ChunkLaid
      <3>6. size <= r.chunks[j + 1] /\ p + 1 + size + 1 = ChunkEnd(k, j + 1)
        <4> HIDE DEF size, p
        <4>1. size <= size /\ p + 1 + size + 1 = p + size + 2
          BY <2>4
        <4> QED
          BY <3>3, <3>5, <4>1
      <3> HIDE DEF h, p, size, k, r
      <3>7. InChunk(k, j + 1, h.pos, size, n)
        BY <3>1, <3>4, <3>5, <3>6 DEF InChunk, r
      <3>8. h.pos \in Nat /\ h.body \in [m_incoming : Nat, m_ended : BOOLEAN]
        BY <2>4, <3>4
      <3>9. h.body.m_incoming = size /\ ~h.body.m_ended
        BY <3>4
      <3>10. InBody(k, h.pos, h.body, n)
        BY <1>1, <2>2, <3>1, <3>7, <3>8, <3>9 DEF InBody, r
      <3> QED
        BY <3>3, <3>9, <3>10 DEF h, k
    <2> QED
      BY <2>7, <2>8
  <1> QED
    BY <1>3, <1>4

\* What is read of what is left of a chunk, or of the body, is what comes next.
LEMMA Taking ==
    ASSUME Given, NEW k \in 1..Len(Requests), NEW p, NEW b, NEW m,
           InBody(k, p, b, m), NEW n \in 0..b.m_incoming
    PROVE  /\ InBody(k, p + n, [b EXCEPT !.m_incoming = @ - n], m + n)
           /\ \A i \in 1..n : input[p + i].value = <<k, m + i>>
  <1> DEFINE r == Requests[k]
             left == b.m_incoming
             a == [b EXCEPT !.m_incoming = @ - n]
  <1>1. b \in [m_incoming : Nat, m_ended : BOOLEAN] /\ p \in Nat /\ m \in Nat
    BY DEF InBody
  <1>2. r.framing \in {"none", "length", "chunked"}
    BY Laid DEF ClientRequests
  <1>3. n \in Nat /\ left \in Nat /\ n <= left /\ left - n \in Nat
        /\ p + n \in Nat /\ m + n \in Nat
    BY <1>1
  <1>4. /\ a \in [m_incoming : Nat, m_ended : BOOLEAN]
        /\ a.m_incoming = left - n /\ a.m_ended = b.m_ended
    BY <1>1, <1>3
  <1> HIDE DEF a
  <1>5. CASE left = 0
    <2>1. n = 0 /\ p + n = p /\ m + n = m
      BY <1>1, <1>3, <1>5
    <2>2. a = b
      BY <1>1, <1>5, <2>1 DEF a
    <2> QED
      BY <2>1, <2>2 DEF a
  <1>6. CASE left # 0 /\ r.framing = "length"
    <2>1. p + left = At(k) /\ m + left = Total(k) /\ b.m_ended
      BY <1>6 DEF InBody
    <2>2. Total(k) \in Nat /\ At(k) = BodyFrom(k) + Total(k)
      BY <1>6, LengthLaid
    <2>3. \A i \in 1..Total(k) : input[BodyFrom(k) + i].value = <<k, i>>
      BY <1>6, LengthLaid
    <2>4. BodyFrom(k) \in Nat
      BY Laid
    <2> HIDE DEF left
    <2>5. p = BodyFrom(k) + m /\ m + left = Total(k)
      BY <1>1, <1>3, <2>1, <2>2, <2>4
    <2>6. \A i \in 1..n : m + i \in 1..Total(k) /\ p + i = BodyFrom(k) + (m + i)
      <3> TAKE i \in 1..n
      <3>1. i \in Nat /\ 1 <= i /\ i <= n
        BY <1>3
      <3> QED
        BY <1>1, <1>3, <2>2, <2>4, <2>5, <3>1
    <2>7. \A i \in 1..n : input[p + i].value = <<k, m + i>>
      BY <2>3, <2>6
    <2>8. p + n + (left - n) = At(k) /\ m + n + (left - n) = Total(k)
      BY <1>1, <1>3, <2>1
    <2>9. InBody(k, p + n, a, m + n)
      BY <1>3, <1>4, <1>6, <2>1, <2>8 DEF InBody
    <2> QED
      BY <2>7, <2>9 DEF a
  <1>7. CASE left # 0 /\ r.framing = "chunked"
    <2>1. ~b.m_ended
      BY <1>7 DEF InBody
    <2>2. PICK j \in 0..Count(k) : InChunk(k, j, p, left, m)
      BY <1>7, <2>1 DEF InBody
    <2>3. j # 0 /\ j \in 1..Count(k)
      <3>1. j # 0
        BY <1>7, <2>2 DEF InChunk
      <3>2. Count(k) \in Nat
        BY <1>7, ChunksLaid
      <3> QED
        BY <3>1, <3>2
    <2> DEFINE c == r.chunks[j]
               from == ChunkEnd(k, j - 1)
               sum == Before(r.chunks, j)
    <2>4. /\ c \in Nat /\ sum \in Nat /\ Before(r.chunks, j + 1) = sum + c
          /\ from \in Nat /\ ChunkEnd(k, j) = from + c + 2
          /\ \A i \in 1..c : input[from + 1 + i].value = <<k, sum + i>>
      BY <1>7, <2>3, ChunksLaid DEF ChunkLaid
    <2>5. /\ m + left = sum + c
          /\ left <= c /\ p + left + 1 = from + c + 2
      BY <2>2, <2>3, <2>4 DEF InChunk
    <2> HIDE DEF left, c, from, sum
    <2>6. \A i \in 1..n : /\ (c - left) + i \in 1..c
                          /\ p + i = from + 1 + ((c - left) + i)
                          /\ m + i = sum + ((c - left) + i)
      BY <1>1, <1>3, <2>4, <2>5
    <2>7. \A i \in 1..n : input[p + i].value = <<k, m + i>>
      BY <2>4, <2>6
    <2>8. /\ m + n + (left - n) = Before(r.chunks, j + 1)
          /\ left - n <= c /\ p + n + (left - n) + 1 = ChunkEnd(k, j)
      BY <1>1, <1>3, <2>4, <2>5
    <2>9. InChunk(k, j, p + n, left - n, m + n)
      BY <2>3, <2>8 DEF InChunk, c
    <2>10. InBody(k, p + n, a, m + n)
      BY <1>3, <1>4, <1>7, <2>1, <2>9 DEF InBody
    <2> QED
      BY <2>7, <2>10 DEF a
  <1>8. CASE left # 0 /\ r.framing = "none"
    BY <1>8 DEF InBody
  <1> QED
    BY <1>2, <1>5, <1>6, <1>7, <1>8

\* Behind a whole body is the next request, or the rest of the trailers.
LEMMA BodyBehind ==
    ASSUME Given, NEW k \in 1..Len(Requests), NEW p, NEW b, NEW n,
           InBody(k, p, b, n), b = [m_incoming |-> 0, m_ended |-> TRUE]
    PROVE  /\ n = Total(k)
           /\ \/ p = At(k)
              \/ /\ Requests[k].trailers > 0
                 /\ p < Len(input) /\ input[p + 1].t \in {"trailer", "blank"}
  <1> DEFINE r == Requests[k]
  <1>1. r.framing \in {"none", "length", "chunked"}
    BY Laid DEF ClientRequests
  <1>2. p \in Nat /\ n \in Nat
    BY DEF InBody
  <1>3. CASE r.framing = "none"
    BY <1>3, LengthLaid DEF InBody
  <1>4. CASE r.framing = "length"
    <2>1. p + 0 = At(k) /\ n + 0 = Total(k)
      BY <1>4 DEF InBody
    <2> QED
      BY <1>2, <2>1
  <1>5. CASE r.framing = "chunked"
    <2> DEFINE e == ChunkEnd(k, Count(k))
               m == r.trailers
    <2>1. n = Total(k) /\ p = e + 2
      BY <1>5 DEF InBody
    <2>2. /\ e \in Nat /\ m \in Nat /\ At(k) = e + 2 + m
          /\ \A i \in 1..m : input[e + 1 + i] = Line("trailer", 0)
          /\ input[At(k)] = Blank
      BY <1>5, EndingLaid
    <2>3. At(k) <= Len(input) /\ Len(input) \in Nat
      BY Laid
    <2> HIDE DEF e, m
    <2>4. CASE m = 0
      <3>1. p = At(k)
        BY <2>1, <2>2, <2>4
      <3> QED
        BY <2>1, <3>1
    <2>5. CASE m # 0
      <3>1. m > 0 /\ p < Len(input)
        BY <2>1, <2>2, <2>3, <2>5
      <3>2. input[p + 1] = Blank \/ input[p + 1] = Line("trailer", 0)
        <4>1. CASE m = 1
          <5>1. p + 1 = At(k)
            BY <2>1, <2>2, <4>1
          <5> QED
            BY <2>2, <5>1
        <4>2. CASE m # 1
          <5>1. 2 \in 1..m /\ p + 1 = e + 1 + 2
            BY <2>1, <2>2, <2>5, <4>2
          <5> QED
            BY <2>2, <5>1
        <4> QED
          BY <4>1, <4>2
      <3>3. input[p + 1].t \in {"trailer", "blank"}
        BY <3>2 DEF Blank, Line
      <3> QED
        BY <2>1, <3>1, <3>3 DEF m
    <2> QED
      BY <2>4, <2>5
  <1> QED
    BY <1>1, <1>3, <1>4, <1>5

----------------------------------------------------------------------------
(* A heading *)

\* The lines of a heading.
LEMMA HeadingLines ==
    ASSUME Given, NEW k \in 1..Len(Requests)
    PROVE  LET r == Requests[k]
               h == Len(Heading(r))
           IN  /\ Heading(r)[1] = Line("request", r)
               /\ Heading(r)[h] = Blank
               /\ \A n \in 1..h - 2 :
                      \/ \E v \in {"connection", "chunked", "length"} :
                             Heading(r)[n + 1] = Line("header", v)
                      \/ Heading(r)[n + 1] = Line("junk", 0) /\ r.bad = "header"
  <1> DEFINE r == Requests[k]
             h == Len(Heading(r))
  <1>1. r \in ClientRequests /\ h \in Nat /\ h >= 2
    BY Laid
  <1>2. r.framing \in {"none", "length", "chunked"}
    BY <1>1 DEF ClientRequests
  <1>3. /\ Heading(r)[1] = Line("request", r)
        /\ Heading(r)[h] = Blank
        /\ \A i \in 2..h - 1 :
               \/ Heading(r)[i] = Line("header", "connection")
               \/ Heading(r)[i] = Line("header", r.framing) /\ r.framing # "none"
               \/ Heading(r)[i] = Line("junk", 0) /\ r.bad = "header"
    BY <1>1, HeadingPlaces
  <1> HIDE DEF r, h
  <1>4. \A n \in 1..h - 2 : n + 1 \in 2..h - 1
    BY <1>1
  <1> QED
    BY <1>2, <1>3, <1>4 DEF r, h

\* Which headers have been seen: none behind the request line, all at the end.
LEMMA SeenLines ==
    ASSUME Given, NEW k \in 1..Len(Requests)
    PROVE  LET r == Requests[k]
               h == Len(Heading(r))
           IN  /\ \A v : ~Seen(k, 1, Line("header", v))
               /\ \A n \in 1..h - 1 : \A line :
                      Seen(k, n + 1, line) <=> Seen(k, n, line) \/ Heading(r)[n + 1] = line
               /\ r.connection # "" => Seen(k, h - 1, Line("header", "connection"))
               /\ \A v \in {"length", "chunked"} :
                      Seen(k, h - 1, Line("header", v)) <=> r.framing = v
  <1> DEFINE r == Requests[k]
             h == Len(Heading(r))
             s == Heading(r)
  <1>1. r \in ClientRequests /\ h \in Nat /\ h >= 2
    BY Laid
  <1>2. /\ s[1] = Line("request", r)
        /\ \A i \in 2..h - 1 :
               \/ s[i] = Line("header", "connection")
               \/ s[i] = Line("header", r.framing) /\ r.framing # "none"
               \/ s[i] = Line("junk", 0)
        /\ r.connection # "" => \E i \in 2..h - 1 : s[i] = Line("header", "connection")
        /\ r.framing # "none" => \E i \in 2..h - 1 : s[i] = Line("header", r.framing)
    BY <1>1, HeadingPlaces
  <1>3. \A n, line : Seen(k, n, line) <=> \E i \in 1..n : s[i] = line
    BY DEF Seen
  <1> HIDE DEF s, h
  <1>4. \A v : s[1] # Line("header", v)
    <2>1. s[1].t = "request" /\ \A v : Line("header", v).t = "header"
      <3>1. s[1] = Line("request", r)
        BY <1>2
      <3> QED
        BY <3>1 DEF Line
    <2> QED
      BY <2>1
  <1>5. \A v : ~Seen(k, 1, Line("header", v))
    <2>1. \A i \in 1..1 : i = 1
      OBVIOUS
    <2> QED
      BY <1>3, <1>4, <2>1
  <1>6. \A n \in 1..h - 1 : \A line :
            Seen(k, n + 1, line) <=> Seen(k, n, line) \/ s[n + 1] = line
    <2> TAKE n \in 1..h - 1
    <2> TAKE line
    <2>1. /\ n + 1 \in 1..n + 1 /\ \A i \in 1..n : i \in 1..n + 1
          /\ \A i \in 1..n + 1 : i \in 1..n \/ i = n + 1
      BY <1>1
    <2>2. Seen(k, n + 1, line) <=> \E i \in 1..n + 1 : s[i] = line
      BY <1>3
    <2>3. Seen(k, n, line) <=> \E i \in 1..n : s[i] = line
      BY <1>3
    <2> QED
      BY <2>1, <2>2, <2>3
  <1>7. \A i \in 2..h - 1 : i \in 1..h - 1
    BY <1>1
  <1>8. r.connection # "" => Seen(k, h - 1, Line("header", "connection"))
    BY <1>2, <1>3, <1>7
  <1>9. \A v \in {"length", "chunked"} :
            Seen(k, h - 1, Line("header", v)) <=> r.framing = v
    <2> TAKE v \in {"length", "chunked"}
    <2>1. r.framing = v => Seen(k, h - 1, Line("header", v))
      BY <1>2, <1>3, <1>7
    <2>2. ASSUME NEW i \in 1..h - 1, s[i] = Line("header", v)
          PROVE  r.framing = v
      <3>1. i # 1
        BY <1>4, <2>2
      <3>2. i \in 2..h - 1
        BY <1>1, <2>2, <3>1
      <3>3. \/ Line("header", v) = Line("header", "connection")
            \/ Line("header", v) = Line("header", r.framing)
            \/ Line("header", v) = Line("junk", 0)
        BY <1>2, <2>2, <3>2
      <3>4. Line("header", v) # Line("header", "connection")
        BY DEF Line
      <3>5. Line("header", v) # Line("junk", 0)
        BY DEF Line
      <3> QED
        BY <3>3, <3>4, <3>5 DEF Line
    <2> QED
      BY <1>3, <2>1, <2>2
  <1> QED
    BY <1>5, <1>6, <1>8, <1>9 DEF s, h

----------------------------------------------------------------------------
(* Steps *)

\* What the client sends stays what it is.
LEMMA Frozen ==
    ASSUME Given, UNCHANGED <<scenario, input>>
    PROVE  /\ Given' /\ Requests' = Requests
           /\ \A k : At(k)' = At(k)
           /\ \A k : BodyFrom(k)' = BodyFrom(k)
           /\ \A k : Total(k)' = Total(k)
           /\ \A k, n, line : Seen(k, n, line)' <=> Seen(k, n, line)
           /\ \A k, p, b, n : InBody(k, p, b, n)' <=> InBody(k, p, b, n)
  <1>1. Requests' = Requests
    BY DEF Requests
  <1>2. Sent' = Sent
    BY <1>1 DEF Sent
  <1>3. \A k : At(k)' = At(k)
    BY <1>2 DEF At
  <1>4. \A k : BodyFrom(k)' = BodyFrom(k)
    BY <1>1, <1>3 DEF BodyFrom
  <1>5. \A k : Count(k)' = Count(k)
    BY <1>1 DEF Count
  <1>6. \A k : Total(k)' = Total(k)
    BY <1>1, <1>5 DEF Total
  <1>7. \A k : Chunks(k)' = Chunks(k)
    BY <1>1 DEF Chunks
  <1>8. \A k, j : ChunkEnd(k, j)' = ChunkEnd(k, j)
    BY <1>4, <1>7 DEF ChunkEnd
  <1>9. \A k, n, line : Seen(k, n, line)' <=> Seen(k, n, line)
    BY <1>1 DEF Seen
  <1>10. \A k, j, p, left, n : InChunk(k, j, p, left, n)' <=> InChunk(k, j, p, left, n)
    BY <1>1, <1>4, <1>8 DEF InChunk
  <1>11. \A k, p, b, n : InBody(k, p, b, n)' <=> InBody(k, p, b, n)
    BY <1>1, <1>3, <1>5, <1>6, <1>8, <1>10 DEF InBody
  <1>12. Given'
    BY <1>2 DEF Given
  <1> QED
    BY <1>1, <1>3, <1>4, <1>6, <1>9, <1>11, <1>12

\* No call is under way.
LEMMA Uncalled ==
    ASSUME taken' \in Seq(Nat \X Nat), call' = NoCall, phase' \notin {"reading", "read"}
    PROVE  Calls'
  <1>1. \A X : <<>> \in Seq(X)
    OBVIOUS
  <1>2. /\ call'.size = 0 /\ call'.left = 0 /\ call'.rounds = 0
        /\ call'.kind = "none"
        /\ call' \in CallRecords
    BY <1>1 DEF NoCall, CallRecords
  <1>3. Len(taken') \in Nat
    OBVIOUS
  <1> QED
    BY <1>2, <1>3 DEF Calls, Called

\* Steps that read nothing.
LEMMA StillReceived ==
    ASSUME Received, Calls',
           UNCHANGED <<scenario, input, pos, req, body, begun, taken>>,
           \/ phase' = phase /\ (phase = "closed" => cut' = cut)
           \/ phase = "setup" /\ phase' = "line"
           \/ phase \in Serving /\ phase' \in Serving \cup {"end"}
           \/ phase = "end" /\ phase' = "keep"
           \/ phase' = "dropped"
    PROVE  Received'
  <1>1. Given /\ req \in HttpRequests
    BY DEF Received
  <1>2. /\ Given' /\ Requests' = Requests
        /\ At(begun)' = At(begun)
        /\ BodyFrom(begun)' = BodyFrom(begun)
        /\ \A k, p, b, n : InBody(k, p, b, n)' <=> InBody(k, p, b, n)
        /\ \A k, n, line : Seen(k, n, line)' <=> Seen(k, n, line)
        /\ \A k : At(k)' = At(k)
    BY <1>1, Frozen
  <1>3. Strayed' <=> Strayed
    BY <1>2 DEF Strayed
  <1>4. Known' <=> Known
    BY <1>2 DEF Known
  <1>5. \A n : InHeading(n)' <=> InHeading(n)
    BY <1>2 DEF InHeading
  <1>6. InBody(begun, pos, body, Len(taken))' <=> InBody(begun, pos, body, Len(taken))
    BY <1>2
  <1>7. Reading'
    <2>1. Reading
      BY DEF Received
    <2> QED
      BY <1>2, <1>3, <1>4, <1>5, <1>6, <2>1 DEF Reading, Serving
  <1>8. NoRequestDropped'
    BY <1>2 DEF Received, NoRequestDropped, Serving
  <1> QED
    BY <1>1, <1>2, <1>7, <1>8 DEF Received

\* And do nothing to a call.
LEMMA QuietReceived ==
    ASSUME Received, UNCHANGED <<scenario, input, pos, req, body, call, begun, taken>>,
           \/ phase' = phase /\ (phase = "closed" => cut' = cut)
           \/ phase = "setup" /\ phase' = "line"
           \/ phase = "serve" /\ phase' = "end"
           \/ phase = "end" /\ phase' = "keep"
           \/ phase' = "dropped"
    PROVE  Received'
  <1>1. Calls
    BY DEF Received
  <1>2. Called'
    BY <1>1 DEF Calls, Called, Latest
  <1>3. Total(begun)' = Total(begun)
    BY Frozen DEF Received
  <1>4. Calls'
    BY <1>1, <1>2, <1>3 DEF Calls
  <1> QED
    BY <1>4, StillReceived DEF Serving

LEMMA NoRequestTyped == NoRequest \in HttpRequests
  <1>1. \A X : <<>> \in Seq(X)
    OBVIOUS
  <1>2. NoRequest.method \in STRING \cup {NoRequest.method}
    OBVIOUS
  <1> QED
    BY <1>1, <1>2 DEF NoRequest, HttpRequests

\* on_connection reads the first line of a request, or comes to the end.
LEMMA RequestLineReceived ==
    ASSUME Received, ReadRequestLine
    PROVE  Received'
  <1> DEFINE line == LineAt(pos)
             good == has_value(line) /\ RequestLineOK(line)
  <1>1. /\ phase = "line"
        /\ pos' = After(pos)
        /\ begun' = IF line.t = "request" THEN begun + 1 ELSE begun
        /\ phase' = IF good THEN "headers" ELSE "closed"
        /\ req' = IF good THEN process_req_line(line) ELSE NoRequest
        /\ taken' = <<>>
        /\ UNCHANGED <<scenario, input, body, call, cut>>
    BY DEF ReadRequestLine, keeps
  <1> HIDE DEF line, good
  <1>2. /\ Given /\ begun \in 0..Len(Requests) /\ pos \in Nat
        /\ pos = At(begun) \/ Strayed
        /\ call = NoCall
    BY <1>1 DEF Received, Reading, Calls
  <1>3. /\ Given' /\ Requests' = Requests
        /\ \A k : At(k)' = At(k)
        /\ \A k, n, l : Seen(k, n, l)' <=> Seen(k, n, l)
    BY <1>1, <1>2, Frozen
  <1>4. /\ taken' \in Seq(Nat \X Nat)
        /\ \A i \in DOMAIN taken' : taken'[i] = <<begun', i>>
    BY <1>1
  <1>5. Calls'
    <2>1. phase' \notin {"reading", "read"} /\ call' = NoCall
      BY <1>1, <1>2
    <2> QED
      BY <1>4, <2>1, Uncalled
  <1>6. /\ Len(input) \in Nat /\ At(begun) \in Nat
        /\ At(Len(Requests)) = Len(input) /\ Len(Requests) \in Nat
    BY <1>2, SentPlaces, RequestsGiven
  <1>7. ASSUME ~good, begun' \in 0..Len(Requests), NoRequestDropped'
        PROVE  Received'
    <2>1. Reading'
      BY <1>1, <1>7 DEF Reading, Serving
    <2>2. req' \in HttpRequests
      BY <1>1, <1>7, NoRequestTyped
    <2> QED
      BY <1>3, <1>4, <1>5, <1>7, <2>1, <2>2 DEF Received
  <1>8. CASE cut \/ pos >= Len(input)
    <2>1. line.t = "none"
      BY <1>8 DEF line, LineAt, Line
    <2>2. ~good /\ pos' = pos
      BY <1>1, <2>1 DEF good, has_value, After, line
    <2>3. cut \/ pos = Len(input)
      <3>1. CASE pos = At(begun)
        <4>1. At(begun) <= Len(input)
          <5>1. CASE begun = 0
            BY <1>2, <1>6, <5>1, SentPlaces
          <5>2. CASE begun # 0
            <6>1. begun \in 1..Len(Requests)
              BY <1>2, <1>6, <5>2
            <6> QED
              BY <1>2, <6>1, Laid
          <5> QED
            BY <5>1, <5>2
        <4> QED
          BY <1>2, <1>6, <1>8, <3>1, <4>1
      <3>2. CASE Strayed
        BY <1>2, <1>6, <1>8, <3>2 DEF Strayed
      <3> QED
        BY <1>2, <3>1, <3>2
    <2>4. NoRequestDropped'
      BY <1>1, <2>2, <2>3 DEF NoRequestDropped
    <2> QED
      BY <1>1, <1>2, <1>7, <2>1, <2>2, <2>4
  <1>9. CASE ~cut /\ ~(pos >= Len(input)) /\ Strayed
    <2>1. line.t \in {"trailer", "blank"}
      BY <1>9 DEF line, LineAt, Strayed
    <2>2. ~good /\ begun' = begun /\ phase' = "closed"
      BY <1>1, <2>1 DEF good, RequestLineOK
    <2>3. NoRequestDropped'
      BY <1>3, <1>9, <2>2 DEF NoRequestDropped, Strayed
    <2> QED
      BY <1>2, <1>7, <2>2, <2>3
  <1>10. CASE ~cut /\ ~(pos >= Len(input)) /\ pos = At(begun)
    <2> DEFINE k == begun + 1
               r == Requests[k]
    <2>1. k \in 1..Len(Requests) /\ k - 1 = begun /\ k > 0 /\ k \in 0..Len(Requests)
      BY <1>2, <1>6, <1>10
    <2>2. /\ r \in ClientRequests
          /\ Len(Heading(r)) \in Nat /\ Len(Heading(r)) >= 2
          /\ \A i \in 1..Len(Heading(r)) : input[At(k - 1) + i] = Heading(r)[i]
      BY <1>2, <2>1, Laid
    <2>3. Heading(r)[1] = Line("request", r)
      BY <1>2, <2>1, HeadingLines
    <2>4. line = Line("request", r)
      <3>1. 1 \in 1..Len(Heading(r)) /\ At(k - 1) = pos
        BY <1>10, <2>1, <2>2
      <3>2. line = input[pos + 1]
        BY <1>10 DEF line, LineAt
      <3> QED
        BY <2>2, <2>3, <3>1, <3>2
    <2>5. line.t = "request" /\ line.value = r
      BY <2>4 DEF Line
    <2>6. /\ begun' = k /\ pos' = pos + 1
          /\ good <=> r.bad # "line"
      BY <1>1, <2>5 DEF good, has_value, RequestLineOK, After, line
    <2> HIDE DEF k
    <2>7. CASE r.bad = "line"
      <3>1. NoRequestDropped'
        BY <1>3, <2>6, <2>7 DEF NoRequestDropped
      <3> QED
        BY <1>7, <2>1, <2>6, <2>7, <3>1
    <2>8. CASE r.bad # "line"
      <3>1. phase' = "headers" /\ req' = process_req_line(line)
        BY <1>1, <2>6, <2>8
      <3>2. /\ req'.version = r.version /\ req'.connection = ""
            /\ req'.chunked = FALSE /\ req'.length = ""
        BY <2>5, <3>1 DEF process_req_line, NoRequest
      <3>3. \A v : ~Seen(k, 1, Line("header", v))
        BY <1>2, <2>1, SeenLines
      <3>4. InHeading(1)'
        <4>1. pos' = At(k - 1) + 1
          BY <1>10, <2>1, <2>6
        <4> HIDE DEF r
        <4>2. /\ Requests'[begun'] = r /\ (At(begun - 1))' = At(k - 1)
              /\ \A v : ~Seen(begun, 1, Line("header", v))'
          BY <1>3, <2>6, <3>3 DEF r
        <4> QED
          BY <3>2, <4>1, <4>2 DEF InHeading
      <3>5. 1 \in 1..Len(Heading(Requests'[begun'])) - 1
        BY <1>3, <2>2, <2>6
      <3>6. Reading'
        BY <1>1, <2>1, <2>6, <3>1, <3>4, <3>5 DEF Reading, Serving
      <3>7. NoRequestDropped'
        BY <3>1 DEF NoRequestDropped
      <3>8. req' \in HttpRequests
        <4>1. /\ r.method \in STRING /\ r.version \in {"1.0", "1.1"}
              /\ r.path \in Seq(STRING)
          BY <2>2 DEF ClientRequests
        <4> HIDE DEF r
        <4> QED
          BY <2>5, <3>1, <4>1 DEF process_req_line, NoRequest, HttpRequests
      <3> QED
        BY <1>3, <1>4, <1>5, <2>1, <2>6, <3>6, <3>7, <3>8 DEF Received
    <2> QED
      BY <2>7, <2>8
  <1> QED
    BY <1>2, <1>8, <1>9, <1>10

\* on_connection reads a header line, or the blank line behind them.
LEMMA HeaderLineReceived ==
    ASSUME Received, ReadHeaderLine
    PROVE  Received'
  <1> DEFINE line == LineAt(pos)
             good == has_value(line) /\ HeaderLineOK(line)
             k == begun
             r == Requests[k]
             h == Len(Heading(r))
  <1>1. /\ phase = "headers"
        /\ pos' = After(pos)
        /\ phase' = CASE good                -> "headers"
                      [] is_last_line(line) -> "match"
                      [] OTHER              -> "closed"
        /\ req' = IF good THEN process_header_line(line) ELSE req
        /\ UNCHANGED <<scenario, input, body, call, cut, begun, taken>>
    BY DEF ReadHeaderLine, keeps
  <1>2. good => phase' = "headers" /\ req' = process_header_line(line)
    <2>1. good => line.t # "blank"
      BY DEF has_value
    <2> HIDE DEF line
    <2> QED
      BY <1>1, <2>1 DEF is_last_line, HeaderLineOK, has_value
  <1>3. /\ Given /\ begun \in 0..Len(Requests) /\ call = NoCall
        /\ req \in HttpRequests
    BY <1>1 DEF Received, Calls
  <1>4. /\ begun > 0 /\ taken = <<>>
        /\ \E n \in 1..h - 1 : InHeading(n)
    BY <1>1 DEF Received, Reading
  <1>5. PICK n \in 1..h - 1 : InHeading(n)
    BY <1>4
  <1>6. k \in 1..Len(Requests)
    BY <1>3, <1>4, RequestsGiven
  <1>7. /\ r \in ClientRequests /\ h \in Nat /\ h >= 2
        /\ At(k - 1) \in Nat /\ BodyFrom(k) = At(k - 1) + h
        /\ BodyFrom(k) \in Nat /\ BodyFrom(k) <= Len(input) /\ Len(input) \in Nat
        /\ \A i \in 1..h : input[At(k - 1) + i] = Heading(r)[i]
    <2> HIDE DEF line, good, k
    <2>1. /\ r \in ClientRequests /\ h \in Nat /\ h >= 2
          /\ At(k - 1) \in Nat /\ BodyFrom(k) = At(k - 1) + h
          /\ \A i \in 1..h : input[At(k - 1) + i] = Heading(r)[i]
      BY <1>3, <1>6, Laid
    <2>2. /\ BodyFrom(k) \in Nat /\ Len(Rest(k, r)) \in Nat
          /\ At(k) = BodyFrom(k) + Len(Rest(k, r))
          /\ At(k) <= Len(input) /\ Len(input) \in Nat
      BY <1>3, <1>6, Laid
    <2>3. BodyFrom(k) <= Len(input)
      BY <2>2
    <2> QED
      BY <2>1, <2>2, <2>3
  <1> HIDE DEF line, good, k, r, h
  <1>8. /\ Given' /\ Requests' = Requests
        /\ \A j : At(j)' = At(j)
        /\ \A j : BodyFrom(j)' = BodyFrom(j)
        /\ \A j, m, l : Seen(j, m, l)' <=> Seen(j, m, l)
    BY <1>1, <1>3, Frozen
  <1>9. /\ taken' \in Seq(Nat \X Nat)
        /\ \A i \in DOMAIN taken' : taken'[i] = <<begun', i>>
        /\ begun' \in 0..Len(Requests')
    BY <1>1, <1>3, <1>4, <1>8
  <1>10. phase' \in {"headers", "match", "closed"}
    BY <1>1
  <1>11. Calls'
    BY <1>1, <1>3, <1>9, <1>10, Uncalled
  <1>12. ASSUME req' \in HttpRequests, Reading', NoRequestDropped'
         PROVE  Received'
    BY <1>8, <1>9, <1>11, <1>12 DEF Received
  <1>13. pos = At(k - 1) + n /\ pos < Len(input) /\ pos \in Nat /\ n \in Nat
         /\ At(k - 1) + (n + 1) = pos + 1
    <2>1. pos = At(k - 1) + n
      BY <1>5 DEF InHeading, k
    <2> QED
      BY <1>7, <2>1
  <1>14. CASE cut
    <2>1. line.t = "none"
      BY <1>14 DEF line, LineAt, Line
    <2>2. phase' = "closed" /\ req' = req
      BY <1>1, <2>1 DEF good, has_value, is_last_line
    <2>3. Reading'
      BY <2>2 DEF Reading, Serving
    <2>4. NoRequestDropped'
      BY <1>1, <1>14 DEF NoRequestDropped
    <2> QED
      BY <1>3, <1>12, <2>2, <2>3, <2>4
  <1>15. CASE ~cut
    <2>1. line = Heading(r)[n + 1]
      <3>1. n + 1 \in 1..h
        BY <1>7
      <3>2. line = input[pos + 1]
        BY <1>7, <1>13, <1>15 DEF line, LineAt
      <3> QED
        BY <1>7, <1>13, <3>1, <3>2
    <2>2. line.t # "none" => pos' = pos + 1
      BY <1>1 DEF After, line
    <2>3. CASE n = h - 1
      <3>1. line = Blank
        <4>1. n + 1 = h
          BY <1>7, <2>3
        <4> QED
          BY <1>3, <1>6, <2>1, <4>1, HeadingLines DEF r, h
      <3>2. line.t = "blank"
        BY <3>1 DEF Blank, Line
      <3>3. phase' = "match" /\ req' = req /\ pos' = pos + 1
        BY <1>1, <2>2, <3>2 DEF good, has_value, is_last_line
      <3>4. pos' = BodyFrom(k)
        BY <1>7, <1>13, <2>3, <3>3
      <3>5. /\ r.connection # "" => Seen(k, n, Line("header", "connection"))
            /\ Seen(k, n, Line("header", "length")) <=> r.framing = "length"
            /\ Seen(k, n, Line("header", "chunked")) <=> r.framing = "chunked"
        BY <1>3, <1>6, <2>3, SeenLines DEF r, h
      <3>6. /\ req.version = r.version
            /\ req.connection = r.connection
            /\ req.chunked <=> r.framing = "chunked"
            /\ req.length = IF r.framing = "length"
                            THEN IF r.bad = "length" THEN "bad" ELSE "good"
                            ELSE ""
        BY <1>5, <3>5 DEF InHeading, k, r
      <3>7. Known'
        <4>1. Requests'[begun'] = r
          BY <1>1, <1>8 DEF r, k
        <4> QED
          BY <3>3, <3>6, <4>1 DEF Known
      <3>8. Reading'
        BY <1>1, <1>4, <1>8, <3>3, <3>4, <3>7 DEF Reading, Serving, k
      <3>9. NoRequestDropped'
        BY <3>3 DEF NoRequestDropped
      <3> QED
        BY <1>3, <1>12, <3>3, <3>8, <3>9
    <2>4. CASE n # h - 1
      <3>1. n \in 1..h - 2 /\ n + 1 \in 1..h - 1
        BY <1>7, <2>4
      <3>2. \/ \E v \in {"connection", "chunked", "length"} : line = Line("header", v)
            \/ line = Line("junk", 0) /\ r.bad = "header"
        BY <1>3, <1>6, <2>1, <3>1, HeadingLines DEF r, h
      <3>3. CASE line = Line("junk", 0) /\ r.bad = "header"
        <4>1. line.t = "junk"
          BY <3>3 DEF Line
        <4>2. phase' = "closed" /\ req' = req
          BY <1>1, <4>1 DEF good, HeaderLineOK, is_last_line
        <4>3. Reading'
          BY <4>2 DEF Reading, Serving
        <4>4. NoRequestDropped'
          <5>1. Requests'[begun'].bad # ""
            BY <1>1, <1>8, <3>3 DEF r, k
          <5> QED
            BY <5>1 DEF NoRequestDropped
        <4> QED
          BY <1>3, <1>12, <4>2, <4>3, <4>4
      <3>4. ASSUME NEW v \in {"connection", "chunked", "length"},
                   line = Line("header", v)
            PROVE  Received'
        <4>1. line.t = "header" /\ line.value = v
          BY <3>4 DEF Line
        <4>2. phase' = "headers" /\ req' = process_header_line(line) /\ pos' = pos + 1
          <5>1. good /\ line.t # "none"
            BY <4>1 DEF good, has_value, HeaderLineOK
          <5> QED
            BY <1>2, <2>2, <5>1
        <4>3. \A l : Seen(k, n + 1, l) <=> Seen(k, n, l) \/ line = l
          BY <1>3, <1>6, <2>1, SeenLines DEF r, h
        <4>4. \A w \in {"connection", "chunked", "length"} :
                  Seen(k, n + 1, Line("header", w)) <=> Seen(k, n, Line("header", w)) \/ w = v
          <5>1. \A w : Line("header", w).value = w
            BY DEF Line
          <5> QED
            BY <3>4, <4>3, <5>1
        <4>5. req' = CASE v = "connection" -> [req EXCEPT !.connection = r.connection]
                       [] v = "chunked"    -> [req EXCEPT !.chunked = TRUE]
                       [] v = "length"     ->
                              [req EXCEPT !.length = IF r.bad = "length" THEN "bad" ELSE "good"]
          BY <4>1, <4>2 DEF process_header_line, r, k, Requests
        <4>6. r.connection \in {"", "close", "keep-alive"}
          BY <1>7 DEF ClientRequests
        <4>7. req' \in HttpRequests
          BY <1>3, <4>5, <4>6 DEF HttpRequests
        <4>8. /\ req'.version = req.version
              /\ req'.connection = IF v = "connection" THEN r.connection ELSE req.connection
              /\ req'.chunked <=> req.chunked \/ v = "chunked"
              /\ req'.length = IF v = "length" THEN IF r.bad = "length" THEN "bad" ELSE "good"
                              ELSE req.length
          BY <1>3, <4>5 DEF HttpRequests
        <4>9. /\ req'.version = r.version
              /\ req'.connection = IF Seen(k, n + 1, Line("header", "connection"))
                                  THEN r.connection ELSE ""
              /\ req'.chunked <=> Seen(k, n + 1, Line("header", "chunked"))
              /\ req'.length = IF Seen(k, n + 1, Line("header", "length"))
                              THEN IF r.bad = "length" THEN "bad" ELSE "good"
                              ELSE ""
          BY <1>5, <4>4, <4>8 DEF InHeading, r, k
        <4>10. InHeading(n + 1)'
          <5>1. /\ Requests'[begun'] = r /\ (At(begun - 1))' = At(k - 1)
                /\ \A l : Seen(begun, n + 1, l)' <=> Seen(k, n + 1, l)
            BY <1>1, <1>8 DEF r, k
          <5>2. pos' = At(k - 1) + (n + 1)
            BY <1>13, <4>2
          <5> QED
            BY <4>9, <5>1, <5>2 DEF InHeading
        <4>11. Reading'
          <5>1. /\ n + 1 \in 1..Len(Heading(Requests'[begun'])) - 1
                /\ begun' > 0 /\ taken' = <<>>
            BY <1>1, <1>4, <1>8, <3>1 DEF h, r, k
          <5> QED
            BY <4>2, <4>10, <5>1 DEF Reading, Serving
        <4>12. NoRequestDropped'
          BY <4>2 DEF NoRequestDropped
        <4> QED
          BY <1>12, <4>7, <4>11, <4>12
      <3> QED
        BY <3>2, <3>3, <3>4
    <2> QED
      BY <2>3, <2>4
  <1> QED
    BY <1>14, <1>15

\* The body that the headers announce begins, or the request is malformed.
LEMMA MatchReceived ==
    ASSUME Received, Match
    PROVE  Received'
  <1> DEFINE k == begun
             r == Requests[k]
             n == IF req.length # "" THEN r.chunks[1] ELSE 0
  <1>1. /\ phase = "match"
        /\ body' = [m_incoming |-> n, m_ended |-> req.length # "" \/ ~req.chunked]
        /\ phase' \in {"closed", "dropped", "end", "serve"}
        /\ phase' = "closed" => req.length = "bad"
        /\ UNCHANGED <<scenario, input, pos, req, call, cut, begun, taken>>
    BY DEF Match, keeps, Requests
  <1>2. /\ Given /\ begun \in 0..Len(Requests) /\ call = NoCall
        /\ req \in HttpRequests
        /\ taken \in Seq(Nat \X Nat) /\ \A i \in DOMAIN taken : taken[i] = <<begun, i>>
    BY <1>1 DEF Received, Calls
  <1>3. begun > 0 /\ Known /\ taken = <<>> /\ pos = BodyFrom(begun)
    BY <1>1 DEF Received, Reading
  <1>4. k \in 1..Len(Requests)
    BY <1>2, <1>3, RequestsGiven
  <1>5. r \in ClientRequests /\ BodyFrom(k) \in Nat
    BY <1>2, <1>4, Laid
  <1>6. /\ r.framing \in {"none", "length", "chunked"}
        /\ req.chunked <=> r.framing = "chunked"
        /\ req.length = IF r.framing = "length"
                        THEN IF r.bad = "length" THEN "bad" ELSE "good"
                        ELSE ""
    BY <1>3, <1>5 DEF Known, ClientRequests
  <1> HIDE DEF k, r
  <1>7. /\ Given' /\ Requests' = Requests
        /\ \A j, p, b, m : InBody(j, p, b, m)' <=> InBody(j, p, b, m)
    BY <1>1, <1>2, Frozen
  <1>8. Known'
    BY <1>1, <1>3, <1>7 DEF Known
  <1>9. Calls'
    BY <1>1, <1>2, Uncalled
  <1>10. NoRequestDropped'
    <2> SUFFICES ASSUME phase' = "closed"
                 PROVE  NoRequestDropped'
      BY DEF NoRequestDropped
    <2>1. r.bad = "length"
      BY <1>1, <1>6
    <2>2. Requests'[begun'].bad # ""
      BY <1>1, <1>7, <2>1 DEF r, k
    <2> QED
      BY <2>2 DEF NoRequestDropped
  <1>11. InBody(k, pos, body', 0)
    <2>1. CASE r.framing = "none"
      <3>1. At(k) = pos
        BY <1>2, <1>3, <1>4, <2>1, LengthLaid DEF r, k
      <3>2. body' = [m_incoming |-> 0, m_ended |-> TRUE]
        BY <1>1, <1>6, <2>1
      <3>3. pos \in Nat
        BY <1>3, <1>5 DEF k
      <3> QED
        BY <2>1, <3>1, <3>2, <3>3 DEF InBody, r
    <2>2. CASE r.framing = "length"
      <3>1. /\ At(k) = pos + Total(k) /\ Total(k) \in Nat
            /\ Total(k) = r.chunks[1]
        BY <1>2, <1>3, <1>4, <2>2, LengthLaid DEF r, k
      <3>2. body' = [m_incoming |-> Total(k), m_ended |-> TRUE]
        BY <1>1, <1>6, <2>2, <3>1
      <3>3. pos \in Nat /\ 0 + Total(k) = Total(k)
        BY <1>3, <1>5, <3>1 DEF k
      <3> QED
        BY <2>2, <3>1, <3>2, <3>3 DEF InBody, r
    <2>3. CASE r.framing = "chunked"
      <3>1. /\ Before(r.chunks, 1) = 0 /\ Count(k) \in Nat
        BY <1>2, <1>4, <2>3, ChunksLaid DEF r
      <3>2. body' = [m_incoming |-> 0, m_ended |-> FALSE]
        BY <1>1, <1>6, <2>3
      <3>3. pos \in Nat /\ pos = BodyFrom(k) /\ 0 \in 0..Count(k)
        BY <1>3, <1>5, <3>1 DEF k
      <3>4. InChunk(k, 0, pos, 0, 0)
        <4>1. 0 + 0 = 0 /\ 0 + 1 = 1
          OBVIOUS
        <4> QED
          BY <3>1, <3>3, <4>1 DEF InChunk, r
      <3> QED
        BY <2>3, <3>2, <3>3, <3>4 DEF InBody, r
    <2> QED
      BY <1>6, <2>1, <2>2, <2>3
  <1>12. InBody(begun, pos, body, Len(taken))'
    <2>1. Len(taken') = 0
      BY <1>1, <1>3
    <2>2. InBody(begun', pos', body', Len(taken'))
      BY <1>1, <1>11, <2>1 DEF k
    <2> QED
      BY <1>7, <2>2
  <1>13. Reading'
    BY <1>1, <1>3, <1>8, <1>12 DEF Reading, Serving
  <1> QED
    BY <1>1, <1>2, <1>7, <1>9, <1>10, <1>13 DEF Received

\* A stretch of a sequence, place by place.
LEMMA SlicePlaces ==
    ASSUME NEW X, NEW s \in Seq(X), NEW i \in Nat \ {0}, NEW j \in Nat,
           i <= j + 1, j <= Len(s)
    PROVE  /\ SubSeq(s, i, j) \in Seq(X)
           /\ Len(SubSeq(s, i, j)) = j - i + 1
           /\ \A k \in 1..j - i + 1 : SubSeq(s, i, j)[k] = s[i + k - 1]
  <1> DEFINE b == SubSeq(s, i, j)
             l == j - i + 1
  <1>1. b = [k \in 1..l |-> s[i + k - 1]]
    OBVIOUS
  <1>2. l \in Nat /\ \A k \in 1..l : i + k - 1 \in 1..Len(s)
    OBVIOUS
  <1>3. \A k \in 1..l : s[i + k - 1] \in X
    BY <1>2
  <1> HIDE DEF b, l
  <1>4. b \in Seq(X) /\ Len(b) = l
    BY <1>1, <1>2, <1>3
  <1>5. \A k \in 1..l : b[k] = s[i + k - 1]
    BY <1>1
  <1> QED
    BY <1>4, <1>5 DEF b, l

\* Sequences of one length that agree at every place are one.
LEMMA SamePlaces ==
    ASSUME NEW X, NEW s \in Seq(X), NEW t \in Seq(X),
           Len(s) = Len(t), \A i \in 1..Len(s) : s[i] = t[i]
    PROVE  s = t
  OBVIOUS

\* The last of what has been read, when more is.
LEMMA LatestGrown ==
    ASSUME NEW X, NEW s \in Seq(X), NEW w \in Seq(X), NEW u \in 0..Len(s)
    PROVE  LET t == s \o w
           IN  SubSeq(t, Len(t) - (u + Len(w)) + 1, Len(t))
                   = SubSeq(s, Len(s) - u + 1, Len(s)) \o w
  <1> DEFINE t == s \o w
             n == Len(s)
             m == Len(w)
             p == n - u
             a == SubSeq(t, Len(t) - (u + m) + 1, Len(t))
             b == SubSeq(s, p + 1, n)
             c == b \o w
  <1>1. /\ t \in Seq(X) /\ Len(t) = n + m /\ n \in Nat /\ m \in Nat
        /\ \A i \in 1..n : t[i] = s[i]
        /\ \A i \in 1..m : t[n + i] = w[i]
    BY ConcatPlaces
  <1> HIDE DEF t
  <1>2. /\ p \in Nat /\ u \in Nat /\ p + u = n /\ p + 1 \in Nat \ {0}
        /\ p + 1 <= n + 1 /\ n - (p + 1) + 1 = u
        /\ p + 1 <= n + m + 1 /\ n + m - (p + 1) + 1 = u + m
        /\ n + m \in Nat /\ n + m - (u + m) + 1 = p + 1
        /\ \A i \in 1..u + m : p + 1 + i - 1 = p + i
        /\ \A i \in 1..u : p + 1 + i - 1 = p + i /\ p + i \in 1..n
    <2>1. u \in Nat /\ u <= n
      BY <1>1
    <2> HIDE DEF n, m
    <2>2. p \in Nat /\ p + u = n
      BY <1>1, <2>1
    <2> HIDE DEF p
    <2>3. /\ p + 1 \in Nat \ {0} /\ p + 1 <= n + 1 /\ n - (p + 1) + 1 = u
          /\ p + 1 <= n + m + 1 /\ n + m - (p + 1) + 1 = u + m
          /\ n + m \in Nat /\ n + m - (u + m) + 1 = p + 1
      BY <1>1, <2>1, <2>2
    <2>4. \A i \in 1..u + m : p + 1 + i - 1 = p + i
      BY <1>1, <2>1, <2>2
    <2>5. \A i \in 1..u : p + 1 + i - 1 = p + i /\ p + i \in 1..n
      BY <1>1, <2>1, <2>2
    <2> QED
      BY <2>1, <2>2, <2>3, <2>4, <2>5
  <1> HIDE DEF p, n, m
  <1>3. a = SubSeq(t, p + 1, n + m)
    <2>1. Len(t) = n + m /\ Len(t) - (u + m) + 1 = p + 1
      BY <1>1, <1>2
    <2> QED
      BY <2>1, Zenon
  <1>4. /\ b \in Seq(X) /\ Len(b) = u
        /\ \A i \in 1..u : b[i] = s[p + i]
    <2>1. n <= Len(s)
      BY <1>1 DEF n
    <2>2. /\ b \in Seq(X) /\ Len(b) = n - (p + 1) + 1
          /\ \A i \in 1..n - (p + 1) + 1 : b[i] = s[p + 1 + i - 1]
      BY <1>1, <1>2, <2>1, SlicePlaces
    <2> HIDE DEF b
    <2> QED
      BY <1>2, <2>2
  <1>5. /\ a \in Seq(X) /\ Len(a) = u + m
        /\ \A i \in 1..u + m : a[i] = t[p + i]
    <2>1. /\ SubSeq(t, p + 1, n + m) \in Seq(X)
          /\ Len(SubSeq(t, p + 1, n + m)) = n + m - (p + 1) + 1
          /\ \A i \in 1..n + m - (p + 1) + 1 :
                SubSeq(t, p + 1, n + m)[i] = t[p + 1 + i - 1]
      <3>1. n + m <= Len(t)
        BY <1>1, <1>2
      <3> QED
        BY <1>1, <1>2, <3>1, SlicePlaces
    <2> HIDE DEF a
    <2> QED
      BY <1>2, <1>3, <2>1
  <1> HIDE DEF a, b
  <1>6. /\ c \in Seq(X) /\ Len(c) = u + m
        /\ \A i \in 1..u : c[i] = b[i]
        /\ \A i \in 1..m : c[u + i] = w[i]
    <2>1. /\ c \in Seq(X) /\ Len(c) = Len(b) + Len(w)
          /\ \A i \in 1..Len(b) : c[i] = b[i]
          /\ \A i \in 1..Len(w) : c[Len(b) + i] = w[i]
      <3>1. w \in Seq(X) /\ b \in Seq(X)
        BY <1>4
      <3> HIDE DEF c
      <3>2. \A q \in Seq(X) :
              /\ q \o w \in Seq(X) /\ Len(q \o w) = Len(q) + Len(w)
              /\ \A i \in 1..Len(q) : (q \o w)[i] = q[i]
              /\ \A i \in 1..Len(w) : (q \o w)[Len(q) + i] = w[i]
        BY ConcatPlaces
      <3>3. /\ b \o w \in Seq(X) /\ Len(b \o w) = Len(b) + Len(w)
            /\ \A i \in 1..Len(b) : (b \o w)[i] = b[i]
            /\ \A i \in 1..Len(w) : (b \o w)[Len(b) + i] = w[i]
        BY <3>1, <3>2
      <3> QED
        BY <3>3 DEF c
    <2> HIDE DEF c
    <2> QED
      BY <1>4, <2>1 DEF m
  <1> HIDE DEF c
  <1>7. \A i \in 1..u + m : a[i] = c[i]
    <2> TAKE i \in 1..u + m
    <2>1. CASE i <= u
      <3>1. i \in 1..u
        BY <1>1, <1>2, <2>1
      <3>2. a[i] = s[p + i]
        BY <1>1, <1>2, <1>5, <3>1
      <3> QED
        BY <1>4, <1>6, <3>1, <3>2
    <2>2. CASE ~(i <= u)
      <3>1. i - u \in 1..m /\ u + (i - u) = i /\ p + i = n + (i - u)
        BY <1>1, <1>2, <2>2
      <3>2. a[i] = t[n + (i - u)]
        BY <1>5, <3>1
      <3>3. a[i] = w[i - u]
        BY <1>1, <3>1, <3>2
      <3> QED
        BY <1>6, <3>1, <3>3
    <2> QED
      BY <2>1, <2>2
  <1>8. a = c
    BY <1>5, <1>6, <1>7, SamePlaces
  <1> QED
    BY <1>8 DEF a, b, c, t, p, n, m

LEMMA MinOfTwo ==
    ASSUME NEW a \in Nat, NEW b \in Nat
    PROVE  Min({a, b}) \in Nat /\ Min({a, b}) \in {a, b}
           /\ Min({a, b}) <= a /\ Min({a, b}) <= b
  <1>1. \E x \in {a, b} : \A y \in {a, b} : x <= y
    OBVIOUS
  <1> QED
    BY <1>1 DEF Min

\* A call of the endpoint is begun.
LEMMA ReadReceived ==
    ASSUME Received, NEW kind \in {"string", "memory", "skip"}, NEW n \in Nat \ {0},
           Read(kind, n)
    PROVE  Received'
  <1>1. /\ phase = "serve" /\ phase' = "reading"
        /\ call' = [kind |-> kind, size |-> n, left |-> n, dest |-> <<>>, rounds |-> 0]
        /\ UNCHANGED <<scenario, input, pos, req, body, cut, begun, taken>>
    BY DEF Read, Calling, keeps
  <1>2. taken' \in Seq(Nat \X Nat)
    BY <1>1 DEF Received
  <1>3. \A X : <<>> \in Seq(X)
    OBVIOUS
  <1>4. /\ call' \in CallRecords
        /\ call'.size = n /\ call'.left = n /\ call'.dest = <<>> /\ call'.rounds = 0
        /\ call'.kind # "none"
        /\ n - n = 0 /\ n > 0 /\ n <= n
    BY <1>1, <1>3 DEF CallRecords
  <1>5. SubSeq(taken', Len(taken') - 0 + 1, Len(taken')) = <<>> /\ Len(taken') \in Nat
    <2>1. \A m \in Nat : m - 0 + 1 > m
      OBVIOUS
    <2>2. Len(taken') \in Nat
      BY <1>2
    <2> QED
      BY <1>2, <2>1, <2>2
  <1>6. Called'
    BY <1>4, <1>5 DEF Called, Latest
  <1>7. Calls'
    BY <1>1, <1>4, <1>6 DEF Calls
  <1> QED
    BY <1>1, <1>7, StillReceived DEF Serving

\* It returns.
LEMMA ReturnReceived ==
    ASSUME Received, ReadReturns
    PROVE  Received'
  <1>1. /\ phase = "read" /\ phase' = "serve" /\ call' = NoCall
        /\ UNCHANGED <<scenario, input, pos, req, body, cut, begun, taken>>
    BY DEF ReadReturns, keeps
  <1>2. taken' \in Seq(Nat \X Nat)
    BY <1>1 DEF Received
  <1>3. Calls'
    BY <1>1, <1>2, Uncalled
  <1> QED
    BY <1>1, <1>3, StillReceived DEF Serving

\* A round reads bytes, and puts them where they belong.
Takes(bytes) ==
    /\ Len(bytes) <= call.left
    /\ taken' = taken \o bytes
    /\ call' = [call EXCEPT !.left = @ - Len(bytes), !.dest = Store(call, bytes),
                            !.rounds = @ + 1]

\* What it stores.
LEMMA Storing ==
    ASSUME Called, taken \in Seq(Nat \X Nat), NEW bytes \in Seq(Nat \X Nat),
           call.kind # "none"
    PROVE  LET u == call.size - call.left
               s == Store(call, bytes)
           IN  /\ s \in Seq(Nat \X Nat)
               /\ call.kind = "string" \/ (call.kind = "memory" /\ call.rounds = 0) =>
                      s = Latest(u) \o bytes
  <1> DEFINE n == Len(bytes)
             u == call.size - call.left
             s == Store(call, bytes)
  <1>1. /\ call \in CallRecords
        /\ call.kind = "string" => call.dest = Latest(u)
        /\ call.kind = "memory" /\ call.rounds = 0 => u = 0 /\ call.dest = <<>>
    BY DEF Called
  <1>2. call.kind \in {"none", "string", "memory", "skip"} /\ call.dest \in Seq(Nat \X Nat)
    BY <1>1 DEF CallRecords
  <1>3. n \in Nat /\ Len(taken) \in Nat
    OBVIOUS
  <1> HIDE DEF u
  <1>4. CASE call.kind = "string"
    <2>1. s = call.dest \o bytes
      BY <1>4 DEF Store
    <2> HIDE DEF s
    <2>2. s \in Seq(Nat \X Nat)
      BY <1>2, <2>1
    <2>3. s = Latest(u) \o bytes
      BY <1>1, <1>4, <2>1
    <2> QED
      BY <2>2, <2>3 DEF s, u
  <1>5. CASE call.kind = "memory"
    <2> DEFINE rest == SubSeq(call.dest, n + 1, Len(call.dest))
    <2>1. s = bytes \o rest
      BY <1>5 DEF Store
    <2>2. rest \in Seq(Nat \X Nat)
      BY <1>2, <1>3
    <2> HIDE DEF s
    <2>3. s \in Seq(Nat \X Nat)
      <3> HIDE DEF rest
      <3> QED
        BY <2>1, <2>2
    <2>4. ASSUME call.rounds = 0
          PROVE  s = Latest(u) \o bytes
      <3>1. u = 0 /\ call.dest = <<>>
        BY <1>1, <1>5, <2>4
      <3>2. Latest(0) = <<>>
        <4>1. Len(taken) - 0 + 1 > Len(taken)
          BY <1>3
        <4> QED
          BY <1>3, <4>1 DEF Latest
      <3>3. rest = <<>>
        <4>1. SubSeq(<<>>, n + 1, 0) = <<>> /\ Len(<<>>) = 0
          BY <1>3
        <4> QED
          BY <3>1, <4>1
      <3> HIDE DEF rest
      <3>4. bytes \o <<>> = bytes /\ <<>> \o bytes = bytes
        OBVIOUS
      <3> QED
        BY <2>1, <3>1, <3>2, <3>3, <3>4
    <2> QED
      BY <1>5, <2>3, <2>4 DEF s, u
  <1>6. CASE call.kind = "skip"
    <2>1. s = <<>>
      BY <1>6 DEF Store
    <2>2. \A X : <<>> \in Seq(X)
      OBVIOUS
    <2> QED
      BY <1>6, <2>1, <2>2
  <1> QED
    BY <1>2, <1>4, <1>5, <1>6

LEMMA Stored ==
    ASSUME Called, taken \in Seq(Nat \X Nat), NEW bytes \in Seq(Nat \X Nat),
           call.kind # "none", Takes(bytes)
    PROVE  Called'
  <1> DEFINE n == Len(bytes)
             u == call.size - call.left
             s == Store(call, bytes)
  <1>1. /\ s \in Seq(Nat \X Nat)
        /\ call.kind = "string" \/ (call.kind = "memory" /\ call.rounds = 0) =>
               s = Latest(u) \o bytes
    BY Storing
  <1>2. /\ call \in CallRecords
        /\ call.left <= call.size /\ u <= Len(taken)
    BY DEF Called
  <1>3. n \in Nat /\ Len(taken) \in Nat
    OBVIOUS
  <1>4. n <= call.left /\ taken' = taken \o bytes
    BY DEF Takes
  <1>5. call.left \in Nat /\ call.size \in Nat /\ call.rounds \in Nat
    BY <1>2 DEF CallRecords
  <1> HIDE DEF n, s
  <1>6. /\ u \in 0..Len(taken) /\ u \in Nat
        /\ call.left - n \in Nat /\ call.size - (call.left - n) = u + n
        /\ call.left - n <= call.size
    BY <1>2, <1>3, <1>4, <1>5
  <1>7. /\ call' \in CallRecords
        /\ call'.kind = call.kind /\ call'.size = call.size
        /\ call'.left = call.left - n /\ call'.dest = s
        /\ call'.rounds = call.rounds + 1
    <2>1. call' = [call EXCEPT !.left = call.left - n, !.dest = s,
                               !.rounds = call.rounds + 1]
      BY DEF Takes, n, s
    <2>2. call.rounds + 1 \in Nat
      BY <1>5
    <2> QED
      BY <1>1, <1>2, <1>6, <2>1, <2>2 DEF CallRecords
  <1> HIDE DEF u
  <1>8. /\ Len(taken') = Len(taken) + n
        /\ SubSeq(taken', Len(taken') - (u + n) + 1, Len(taken')) = Latest(u) \o bytes
    <2>1. Len(taken \o bytes) = Len(taken) + n
      BY ConcatPlaces DEF n
    <2>2. SubSeq(taken \o bytes, Len(taken \o bytes) - (u + n) + 1, Len(taken \o bytes))
              = Latest(u) \o bytes
      BY <1>6, LatestGrown DEF Latest, n
    <2> QED
      BY <1>4, <2>1, <2>2
  <1>9. /\ call'.size - call'.left = u + n /\ call'.left <= call'.size
        /\ u + n <= Len(taken')
    <2>1. u <= Len(taken)
      BY <1>2, <1>6
    <2> QED
      BY <1>3, <1>6, <1>7, <1>8, <2>1
  <1>10. call'.rounds # 0 /\ (call'.rounds = 1 => call.rounds = 0)
    <2>1. call'.rounds = call.rounds + 1 /\ call.rounds \in Nat
      BY <1>5, <1>7
    <2> QED
      BY <2>1
  <1>11. /\ call'.kind = "string" => call'.dest = Latest(u) \o bytes
         /\ call'.kind = "memory" /\ call'.rounds = 1 => call'.dest = Latest(u) \o bytes
    BY <1>1, <1>7, <1>10 DEF u
  <1> QED
    BY <1>7, <1>8, <1>9, <1>10, <1>11 DEF Called, Latest

\* One round of a read or a skip.
LEMMA RoundReceived ==
    ASSUME Received, ReadRound
    PROVE  Received'
  <1> DEFINE h == HasIncoming
             n == Min({call.left, h.body.m_incoming})
             end == h.pos + n
             bytes == [i \in 1..n |-> input[h.pos + i].value]
             m == Len(taken)
  <1>1. phase = "reading" /\ UNCHANGED <<scenario, input, req, cut, begun>>
    BY DEF ReadRound, keeps
  <1>2. \/ phase' = "dropped" /\ UNCHANGED <<pos, body, call, taken>>
        \/ /\ ~h.throws
           /\ pos' = end
           /\ body' = [h.body EXCEPT !.m_incoming = @ - n]
           /\ taken' = taken \o bytes
           /\ call' = [call EXCEPT !.left = @ - n, !.dest = Store(call, bytes),
                                   !.rounds = @ + 1]
           /\ phase' = IF n = 0 \/ n = call.left THEN "read" ELSE "reading"
    BY DEF ReadRound
  <1> HIDE DEF h, n, end, bytes
  <1>3. /\ Given /\ begun \in 0..Len(Requests) /\ req \in HttpRequests
        /\ taken \in Seq(Nat \X Nat) /\ \A i \in DOMAIN taken : taken[i] = <<begun, i>>
        /\ Called /\ call.left > 0
    BY <1>1 DEF Received, Calls
  <1>4. begun > 0 /\ Known /\ InBody(begun, pos, body, m)
    BY <1>1 DEF Received, Reading, Serving
  <1>5. begun \in 1..Len(Requests) /\ begun \in Nat
    BY <1>3, <1>4, RequestsGiven
  <1>6. CASE phase' = "dropped" /\ UNCHANGED <<pos, body, call, taken>>
    <2>1. Calls'
      <3>1. Called'
        BY <1>3, <1>6 DEF Called, Latest
      <3> QED
        BY <1>6, <3>1 DEF Calls
    <2> QED
      BY <1>1, <1>6, <2>1, StillReceived DEF Serving
  <1>7. CASE /\ ~h.throws
             /\ pos' = end
             /\ body' = [h.body EXCEPT !.m_incoming = @ - n]
             /\ taken' = taken \o bytes
             /\ call' = [call EXCEPT !.left = @ - n, !.dest = Store(call, bytes),
                                     !.rounds = @ + 1]
             /\ phase' = IF n = 0 \/ n = call.left THEN "read" ELSE "reading"
    <2>1. /\ InBody(begun, h.pos, h.body, m)
          /\ h.body.m_incoming = 0 => h.body.m_ended
      BY <1>3, <1>4, <1>5, <1>7, Advances DEF h
    <2>2. h.body \in [m_incoming : Nat, m_ended : BOOLEAN] /\ h.pos \in Nat
      BY <2>1 DEF InBody
    <2>3. call.left \in Nat /\ call.kind \in {"none", "string", "memory", "skip"}
      BY <1>3 DEF Called, CallRecords
    <2>4. /\ n \in Nat /\ n <= call.left /\ n \in 0..h.body.m_incoming
          /\ n \in {call.left, h.body.m_incoming}
      <3>1. h.body.m_incoming \in Nat
        BY <2>2
      <3> QED
        BY <2>3, <3>1, MinOfTwo DEF n
    <2>5. /\ InBody(begun, end, body', m + n)
          /\ \A i \in 1..n : input[h.pos + i].value = <<begun, m + i>>
      <3>1. PICK p, b, l, g : p = h.pos /\ b = h.body /\ l = m /\ g = n
        OBVIOUS
      <3>2. InBody(begun, p, b, l) /\ g \in 0..b.m_incoming
        BY <2>1, <2>4, <3>1
      <3>3. /\ InBody(begun, p + g, [b EXCEPT !.m_incoming = @ - g], l + g)
            /\ \A i \in 1..g : input[p + i].value = <<begun, l + i>>
        BY <1>3, <1>5, <3>2, Taking
      <3>4. p + g = end /\ body' = [b EXCEPT !.m_incoming = @ - g]
        BY <1>7, <3>1 DEF end
      <3>5. InBody(begun, end, body', l + g)
        BY <3>3, <3>4
      <3> QED
        BY <3>1, <3>3, <3>5
    <2>6. /\ bytes \in Seq(Nat \X Nat) /\ Len(bytes) = n
          /\ \A i \in 1..n : bytes[i] = <<begun, m + i>>
      <3>1. m \in Nat
        BY <1>3
      <3> HIDE DEF m
      <3>2. \A i \in 1..n : <<begun, m + i>> \in Nat \X Nat
        BY <1>5, <2>4, <3>1
      <3>3. bytes = [i \in 1..n |-> <<begun, m + i>>]
        BY <2>5 DEF bytes
      <3> QED
        BY <2>4, <3>2, <3>3
    <2>7. /\ taken' \in Seq(Nat \X Nat) /\ Len(taken') = m + n
          /\ \A i \in 1..m : taken'[i] = taken[i]
          /\ \A i \in 1..n : taken'[m + i] = bytes[i]
          /\ m \in Nat
      <3>1. taken' = taken \o bytes
        BY <1>7
      <3>2. /\ taken \o bytes \in Seq(Nat \X Nat)
            /\ Len(taken \o bytes) = m + Len(bytes) /\ m \in Nat
            /\ \A i \in 1..m : (taken \o bytes)[i] = taken[i]
            /\ \A i \in 1..Len(bytes) : (taken \o bytes)[m + i] = bytes[i]
        BY <1>3, <2>6, ConcatPlaces
      <3> QED
        BY <2>6, <3>1, <3>2
    <2>8. \A i \in DOMAIN taken' : taken'[i] = <<begun', i>>
      <3> TAKE i \in DOMAIN taken'
      <3>1. i \in 1..m + n
        BY <2>7
      <3> HIDE DEF m
      <3>2. CASE i <= m
        <4>1. i \in 1..m
          BY <2>7, <3>1, <3>2
        <4>2. i \in DOMAIN taken
          BY <1>3, <4>1 DEF m
        <4> QED
          BY <1>1, <1>3, <2>7, <4>1, <4>2
      <3>3. CASE ~(i <= m)
        <4>1. i - m \in 1..n /\ m + (i - m) = i
          BY <2>4, <2>7, <3>1, <3>3
        <4> QED
          BY <1>1, <2>6, <2>7, <4>1
      <3> QED
        BY <3>2, <3>3
    <2>9. /\ Given' /\ Requests' = Requests
          /\ \A j, p, b, x : InBody(j, p, b, x)' <=> InBody(j, p, b, x)
          /\ \A j : Total(j)' = Total(j)
      BY <1>1, <1>3, Frozen
    <2>10. Called'
      <3>1. Len(bytes) = n
        BY <2>6
      <3>2. Takes(bytes)
        BY <1>7, <2>4, <3>1 DEF Takes
      <3>3. call.kind # "none"
        BY <1>1 DEF Received, Calls
      <3> QED
        BY <1>3, <2>6, <3>2, <3>3, Stored
    <2>11. Calls'
      <3>1. call'.kind = call.kind /\ call'.left = call.left - n
        BY <1>3, <1>7 DEF Called, CallRecords
      <3>2. phase' = "reading" => call'.left > 0
        BY <1>7, <2>3, <2>4, <3>1
      <3>3. ASSUME phase' = "read", call'.left > 0
            PROVE  Len(taken') = Total(begun)'
        <4>1. n = 0
          BY <1>7, <2>3, <3>1, <3>3
        <4>2. h.body.m_incoming = 0 /\ h.body.m_ended
          BY <1>3, <2>1, <2>4, <4>1
        <4>3. h.body = [m_incoming |-> 0, m_ended |-> TRUE]
          BY <2>2, <4>2
        <4>4. m = Total(begun)
          BY <1>3, <1>5, <2>1, <4>3, BodyBehind
        <4>5. m + n = m
          BY <2>7, <4>1
        <4>6. Total(begun)' = Total(begun)
          BY <1>1, <2>9
        <4> QED
          BY <2>7, <4>4, <4>5, <4>6
      <3>4. phase' \in {"read", "reading"}
        BY <1>7
      <3>5. call.kind # "none"
        BY <1>1 DEF Received, Calls
      <3> QED
        BY <2>10, <3>1, <3>2, <3>3, <3>4, <3>5 DEF Calls
    <2>12. Reading'
      <3>1. Known'
        BY <1>1, <1>4, <2>9 DEF Known
      <3>2. InBody(begun', pos', body', Len(taken'))
        BY <1>1, <1>7, <2>5, <2>7
      <3>3. InBody(begun, pos, body, Len(taken))'
        BY <2>9, <3>2
      <3>4. phase' \in {"read", "reading"} /\ begun' > 0
        BY <1>1, <1>4, <1>7
      <3> QED
        BY <3>1, <3>3, <3>4 DEF Reading, Serving
    <2>13. NoRequestDropped'
      BY <1>7 DEF NoRequestDropped
    <2> QED
      BY <1>1, <1>3, <2>7, <2>8, <2>9, <2>11, <2>12, <2>13 DEF Received
  <1> QED
    BY <1>2, <1>6, <1>7

\* keep_conn: the loop goes back, or the connection is closed.
LEMMA KeepReceived ==
    ASSUME Received, Keep
    PROVE  Received'
  <1> DEFINE h == HasIncoming
             m == Len(taken)
             r == Requests[begun]
  <1>1. /\ phase = "keep"
        /\ pos' = h.pos /\ body' = h.body
        /\ phase' = IF h.throws THEN "dropped"
                    ELSE IF body'.m_incoming = 0 /\ KeepAlive THEN "line" ELSE "closed"
        /\ UNCHANGED <<scenario, input, req, call, cut, begun, taken>>
    BY DEF Keep, keeps
  <1> HIDE DEF h
  <1>2. /\ Given /\ begun \in 0..Len(Requests) /\ req \in HttpRequests /\ call = NoCall
        /\ taken \in Seq(Nat \X Nat) /\ \A i \in DOMAIN taken : taken[i] = <<begun, i>>
    BY <1>1 DEF Received, Calls
  <1>3. begun > 0 /\ Known /\ InBody(begun, pos, body, m)
    BY <1>1 DEF Received, Reading, Serving
  <1>4. begun \in 1..Len(Requests)
    BY <1>2, <1>3, RequestsGiven
  <1>5. /\ Given' /\ Requests' = Requests
        /\ \A j : At(j)' = At(j)
    BY <1>1, <1>2, Frozen
  <1>6. Calls'
    BY <1>1, <1>2, Uncalled
  <1>7. ASSUME Reading', NoRequestDropped'
        PROVE  Received'
    BY <1>1, <1>2, <1>5, <1>6, <1>7 DEF Received
  <1>8. CASE h.throws
    <2>1. phase' = "dropped"
      BY <1>1, <1>8
    <2> QED
      BY <1>7, <2>1 DEF Reading, Serving, NoRequestDropped
  <1>9. CASE ~h.throws
    <2>1. /\ InBody(begun, h.pos, h.body, m)
          /\ h.body.m_incoming = 0 => h.body.m_ended
      BY <1>2, <1>3, <1>4, <1>9, Advances DEF h
    <2>2. h.body \in [m_incoming : Nat, m_ended : BOOLEAN] /\ h.pos \in Nat
      BY <2>1 DEF InBody
    <2>3. CASE h.body.m_incoming = 0 /\ KeepAlive
      <3>1. phase' = "line"
        BY <1>1, <1>9, <2>3
      <3>2. h.body = [m_incoming |-> 0, m_ended |-> TRUE]
        BY <2>1, <2>2, <2>3
      <3>3. \/ h.pos = At(begun)
            \/ /\ r.trailers > 0
               /\ h.pos < Len(input) /\ input[h.pos + 1].t \in {"trailer", "blank"}
        BY <1>2, <1>4, <2>1, <3>2, BodyBehind
      <3>4. pos' = At(begun)' \/ Strayed'
        BY <1>1, <1>3, <1>5, <3>3 DEF Strayed
      <3>5. Reading'
        BY <1>1, <2>2, <3>1, <3>4 DEF Reading, Serving
      <3>6. NoRequestDropped'
        BY <3>1 DEF NoRequestDropped
      <3> QED
        BY <1>7, <3>5, <3>6
    <2>4. CASE ~(h.body.m_incoming = 0 /\ KeepAlive)
      <3>1. phase' = "closed"
        BY <1>1, <1>9, <2>4
      <3>2. Reading'
        BY <3>1 DEF Reading, Serving
      <3>3. \/ body'.m_incoming > 0
            \/ r.connection = "close"
            \/ r.version = "1.0" /\ r.connection = ""
        <4>1. CASE h.body.m_incoming # 0
          <5>1. h.body.m_incoming \in Nat /\ body' = h.body
            BY <1>1, <2>2
          <5> DEFINE l == h.body.m_incoming
          <5>2. l > 0 /\ body'.m_incoming = l
            <6>1. l \in Nat /\ l # 0 /\ body'.m_incoming = l
              BY <4>1, <5>1
            <6> HIDE DEF l
            <6> QED
              BY <6>1
          <5> HIDE DEF l
          <5> QED
            BY <5>2
        <4>2. CASE ~KeepAlive
          <5>1. /\ req.version = r.version /\ req.connection = r.connection
                /\ req.connection \in {"", "close", "keep-alive"}
                /\ req.version \in {"1.0", "1.1"}
            BY <1>2, <1>3 DEF Known, HttpRequests
          <5> QED
            BY <4>2, <5>1 DEF KeepAlive, get_default_conn_type
        <4> QED
          BY <2>4, <4>1, <4>2
      <3>4. Requests'[begun'] = r
        BY <1>1, <1>5
      <3>5. NoRequestDropped'
        BY <3>3, <3>4 DEF NoRequestDropped
      <3> QED
        BY <1>7, <3>2, <3>5
    <2> QED
      BY <2>3, <2>4
  <1> QED
    BY <1>8, <1>9

\* Every step keeps the invariant.
LEMMA ReceivedStep ==
    ASSUME Received, [Next]_vars
    PROVE  Received'
  <1>1. CASE \/ Register \/ Connect \/ Cut \/ EndpointReturns \/ EndpointThrows
             \/ End \/ EndFails \/ RecvFails \/ SetHeader("chunked", 0) \/ UNCHANGED vars
             \/ \E n \in Sizes : Write(n) \/ SetHeader("length", n)
    <2>1. UNCHANGED <<scenario, input, pos, req, body, call, begun, taken>>
      BY <1>1 DEF Register, Connect, Cut, EndpointReturns, EndpointThrows, End,
                  EndFails, RecvFails, SetHeader, Write, Calling, vars, keeps
    <2>2. \/ phase' = phase /\ (phase = "closed" => cut' = cut)
          \/ phase = "setup" /\ phase' = "line"
          \/ phase = "serve" /\ phase' = "end"
          \/ phase = "end" /\ phase' = "keep"
          \/ phase' = "dropped"
      BY <1>1 DEF Register, Connect, Cut, EndpointReturns, EndpointThrows, End,
                  EndFails, RecvFails, SetHeader, Write, Calling, vars
    <2> QED
      BY <2>1, <2>2, QuietReceived
  <1>2. CASE ReadRequestLine
    BY <1>2, RequestLineReceived
  <1>3. CASE ReadHeaderLine
    BY <1>3, HeaderLineReceived
  <1>4. CASE Match
    BY <1>4, MatchReceived
  <1>5. CASE ReadRound
    BY <1>5, RoundReceived
  <1>6. CASE ReadReturns
    BY <1>6, ReturnReceived
  <1>7. ASSUME NEW n \in Sizes, NEW kind \in {"string", "memory", "skip"},
               Read(kind, n)
        PROVE  Received'
    <2>1. n \in Nat \ {0}
      BY HttpServerAssumption
    <2> QED
      BY <1>7, <2>1, ReadReceived
  <1>8. CASE Keep
    BY <1>8, KeepReceived
  <1> QED
    BY <1>1, <1>2, <1>3, <1>4, <1>5, <1>6, <1>7, <1>8 DEF Next

\* Where in the client's requests the connection is, what of the current one
\* is known and what of its body has been read, stay described by Received,
\* whatever the client sends and the endpoints call.
THEOREM ReceivedInductive == Spec => []Received
  <1>1. Init => Received
    <2> SUFFICES ASSUME Init
                 PROVE  Received
      OBVIOUS
    <2>1. /\ scenario \in Scenarios
          /\ phase = "setup" /\ pos = 0 /\ req = NoRequest /\ call = NoCall
          /\ begun = 0 /\ taken = <<>>
      BY DEF Init
    <2>2. input = FlattenSeq(Sent)
      BY DEF Init, Sent, Requests
    <2>3. Given
      BY <2>1, <2>2 DEF Given
    <2>4. Len(Requests) \in Nat /\ At(0) = 0
      BY <2>3, RequestsGiven, SentPlaces
    <2>5. Reading
      BY <2>1, <2>4 DEF Reading, Serving
    <2>6. \A X : <<>> \in Seq(X)
      OBVIOUS
    <2>7. Calls
      <3>1. /\ call.size = 0 /\ call.left = 0 /\ call.rounds = 0
            /\ call.kind = "none"
            /\ call \in CallRecords
        BY <2>1, <2>6 DEF NoCall, CallRecords
      <3>2. Len(taken) = 0
        BY <2>1
      <3> QED
        BY <2>1, <3>1, <3>2 DEF Calls, Called
    <2>8. NoRequestDropped
      BY <2>1 DEF NoRequestDropped
    <2>9. begun \in 0..Len(Requests) /\ req \in HttpRequests /\ taken \in Seq(Nat \X Nat)
          /\ \A i \in DOMAIN taken : taken[i] = <<begun, i>>
      BY <2>1, <2>4, <2>6, NoRequestTyped
    <2> QED
      BY <2>3, <2>5, <2>7, <2>8, <2>9 DEF Received
  <1>2. Received /\ [Next]_vars => Received'
    BY ReceivedStep
  <1> QED
    BY <1>1, <1>2, PTL DEF Spec

\* The loop goes back to read a request line only where a request starts, unless
\* the client sent trailers.
THEOREM BackAtBoundary == Spec => []AtBoundary
  <1>1. Received => AtBoundary
    <2> SUFFICES ASSUME Received, phase = "line"
                 PROVE  pos \in Starts \/ Strayed
      BY DEF AtBoundary, Strayed
    <2>1. pos = At(begun) \/ Strayed
      BY DEF Received, Reading
    <2>2. Given /\ begun \in 0..Len(Requests)
      BY DEF Received
    <2>3. At(begun) \in Starts
      <3>1. DOMAIN Requests = 1..Len(Requests) /\ Len(Requests) \in Nat
        BY <2>2, RequestsGiven
      <3>2. [j \in 1..begun |-> Sent[j]] = [j \in 1..begun |-> Tokens(j, Requests[j])]
        <4>1. \A j \in 1..begun : j \in DOMAIN Requests
          BY <2>2, <3>1
        <4> QED
          BY <4>1 DEF Sent
      <3>3. At(begun) = Len(FlattenSeq([j \in 1..begun |-> Tokens(j, Requests[j])]))
        BY <3>2 DEF At, Joint
      <3> QED
        BY <2>2, <3>3 DEF Starts
    <2> QED
      BY <2>1, <2>3
  <1> QED
    BY <1>1, ReceivedInductive, PTL

\* The connection is closed in good order only at the end of the client's
\* requests, or if the current one is malformed, asks for it, has trailers or was
\* left partly unread: no request behind a good one is dropped.
THEOREM NoneDropped == Spec => []NoRequestDropped
  <1>1. Received => NoRequestDropped
    BY DEF Received
  <1> QED
    BY <1>1, ReceivedInductive, PTL

\* For any chunks and any calls: what the calls of an endpoint consume is its own
\* request's body, in order, each byte once, and a call that gets less than it
\* asked for has come to the body's end.  A string holds just what its call
\* consumed.  Memory does so after a read of one round; of a read that spans two
\* chunks, whose rounds all write at the start, the theorem says nothing.
THEOREM BodiesInOrder == Spec => []BodyInOrder
  <1>1. Received => BodyInOrder
    <2> SUFFICES ASSUME Received
                 PROVE  BodyInOrder
      OBVIOUS
    <2>1. \A i \in DOMAIN taken : taken[i] = <<begun, i>>
      BY DEF Received
    <2>2. Called /\ taken \in Seq(Nat \X Nat)
      BY DEF Received, Calls
    <2>3. ASSUME call.kind = "string" \/ (call.kind = "memory" /\ call.rounds <= 1)
          PROVE  call.dest = Latest(call.size - call.left)
      <3>1. call.rounds \in Nat /\ Len(taken) \in Nat
        BY <2>2 DEF Called, CallRecords
      <3>2. call.rounds <= 1 => call.rounds \in {0, 1}
        BY <3>1
      <3>3. Latest(0) = <<>>
        <4>1. Len(taken) - 0 + 1 > Len(taken)
          BY <3>1
        <4> QED
          BY <2>2, <3>1, <4>1 DEF Latest
      <3> QED
        BY <2>2, <2>3, <3>2, <3>3 DEF Called
    <2>4. phase = "read" /\ call.left > 0 => Len(taken) = Total(begun)
      BY DEF Received, Calls
    <2> QED
      BY <2>1, <2>3, <2>4 DEF BodyInOrder, Latest, Total, Count
  <1> QED
    BY <1>1, ReceivedInductive, PTL

----------------------------------------------------------------------------
(* The tree of a router *)

\* The first i places of a sequence.
LEMMA PrefixPlaces ==
    ASSUME NEW X, NEW s \in Seq(X), NEW i \in 0..Len(s)
    PROVE  /\ SubSeq(s, 1, i) \in Seq(X) /\ Len(SubSeq(s, 1, i)) = i
           /\ \A k \in 1..i : SubSeq(s, 1, i)[k] = s[k]
  <1> DEFINE p == SubSeq(s, 1, i)
  <1>1. p = [k \in 1..i |-> s[k]]
    OBVIOUS
  <1>2. i \in Nat /\ \A k \in 1..i : k \in 1..Len(s)
    OBVIOUS
  <1>3. \A k \in 1..i : s[k] \in X
    BY <1>2
  <1> HIDE DEF p
  <1>4. p \in Seq(X) /\ Len(p) = i
    BY <1>1, <1>2, <1>3
  <1>5. \A k \in 1..i : p[k] = s[k]
    BY <1>1
  <1> QED
    BY <1>4, <1>5 DEF p

\* A prefix of a prefix is one of the whole.
LEMMA PrefixTwice ==
    ASSUME NEW X, NEW s \in Seq(X), NEW i \in 0..Len(s), NEW j \in 0..i
    PROVE  SubSeq(SubSeq(s, 1, i), 1, j) = SubSeq(s, 1, j)
  <1> DEFINE p == SubSeq(s, 1, i)
             q == SubSeq(p, 1, j)
             r == SubSeq(s, 1, j)
  <1>1. Len(s) \in Nat /\ j \in 0..Len(s) /\ \A k \in 1..j : k \in 1..i
    OBVIOUS
  <1>2. p \in Seq(X) /\ Len(p) = i /\ \A k \in 1..i : p[k] = s[k]
    BY PrefixPlaces
  <1> HIDE DEF p
  <1>3. q \in Seq(X) /\ Len(q) = j /\ \A k \in 1..j : q[k] = p[k]
    BY <1>2, PrefixPlaces
  <1>4. r \in Seq(X) /\ Len(r) = j /\ \A k \in 1..j : r[k] = s[k]
    BY <1>1, PrefixPlaces
  <1> HIDE DEF q, r
  <1>5. \A k \in 1..Len(q) : q[k] = r[k]
    BY <1>1, <1>2, <1>3, <1>4
  <1>6. q = r
    BY <1>3, <1>4, <1>5, SamePlaces
  <1> QED
    BY <1>6 DEF p, q, r

\* What follows n and one more edge.
LEMMA AppendPlaces ==
    ASSUME NEW X, NEW n \in Seq(X), NEW x \in X
    PROVE  /\ Append(n, x) \in Seq(X) /\ Len(Append(n, x)) = Len(n) + 1
           /\ Len(n) \in Nat /\ Append(n, x)[Len(n) + 1] = x
           /\ \A k \in 1..Len(n) : Append(n, x)[k] = n[k]
  OBVIOUS

\* Each prefix but the last goes on to the next.
LEMMA PrefixNext ==
    ASSUME NEW X, NEW s \in Seq(X), NEW i \in 1..Len(s)
    PROVE  Append(SubSeq(s, 1, i - 1), s[i]) = SubSeq(s, 1, i)
  <1> DEFINE p == SubSeq(s, 1, i - 1)
             q == SubSeq(s, 1, i)
             a == Append(p, s[i])
  <1>1. /\ Len(s) \in Nat /\ i \in 0..Len(s) /\ i - 1 \in 0..Len(s) /\ s[i] \in X
        /\ (i - 1) + 1 = i /\ \A k \in 1..i : k = i \/ k \in 1..i - 1
    OBVIOUS
  <1>2. p \in Seq(X) /\ Len(p) = i - 1 /\ \A k \in 1..i - 1 : p[k] = s[k]
    BY <1>1, PrefixPlaces
  <1>3. q \in Seq(X) /\ Len(q) = i /\ \A k \in 1..i : q[k] = s[k]
    BY <1>1, PrefixPlaces
  <1> HIDE DEF p, q
  <1>4. a \in Seq(X) /\ Len(a) = i /\ a[i] = s[i] /\ \A k \in 1..i - 1 : a[k] = p[k]
    BY <1>1, <1>2, AppendPlaces
  <1> HIDE DEF a
  <1>5. \A k \in 1..Len(a) : a[k] = q[k]
    BY <1>1, <1>2, <1>3, <1>4
  <1>6. a = q
    BY <1>3, <1>4, <1>5, SamePlaces
  <1> QED
    BY <1>6 DEF p, q, a

\* What comes before the last edge.
LEMMA AppendPrefix ==
    ASSUME NEW X, NEW n \in Seq(X), NEW x \in X
    PROVE  SubSeq(Append(n, x), 1, Len(n)) = n
  <1> DEFINE a == Append(n, x)
             p == SubSeq(a, 1, Len(n))
  <1>1. /\ a \in Seq(X) /\ Len(a) = Len(n) + 1 /\ Len(n) \in Nat
        /\ \A k \in 1..Len(n) : a[k] = n[k]
    BY AppendPlaces
  <1> HIDE DEF a
  <1>2. Len(n) \in 0..Len(a)
    BY <1>1
  <1>3. p \in Seq(X) /\ Len(p) = Len(n) /\ \A k \in 1..Len(n) : p[k] = a[k]
    BY <1>1, <1>2, PrefixPlaces
  <1> HIDE DEF p
  <1>4. \A k \in 1..Len(p) : p[k] = n[k]
    BY <1>1, <1>3
  <1>5. p = n
    BY <1>3, <1>4, SamePlaces
  <1> QED
    BY <1>5 DEF a, p

\* What an edge can be.
Names == STRING \cup {Param}

\* Segments and their edges.
LEMMA EdgesPlaces ==
    ASSUME NEW path \in Seq(Segments)
    PROVE  /\ Edges(path) \in Seq(Names) /\ Len(Edges(path)) = Len(path)
           /\ DOMAIN path = 1..Len(path) /\ Len(path) \in Nat
           /\ \A i \in 1..Len(path) : Edges(path)[i] = Param <=> path[i].param
  <1>1. DOMAIN path = 1..Len(path) /\ Len(path) \in Nat
        /\ \A i \in 1..Len(path) : path[i] \in Segments
    OBVIOUS
  <1>2. \A i \in 1..Len(path) : /\ path[i].name \in STRING /\ path[i].param \in BOOLEAN
                                /\ path[i].param \/ path[i].name # Param
    BY <1>1 DEF Segments
  <1>3. Edges(path) = [i \in 1..Len(path) |->
                         IF path[i].param THEN Param ELSE path[i].name]
    BY <1>1 DEF Edges
  <1>4. \A i \in 1..Len(path) : (IF path[i].param THEN Param ELSE path[i].name) \in Names
    BY <1>2 DEF Names
  <1>5. Edges(path) \in Seq(Names) /\ Len(Edges(path)) = Len(path)
    BY <1>1, <1>3, <1>4
  <1>6. \A i \in 1..Len(path) : Edges(path)[i] = Param <=> path[i].param
    BY <1>2, <1>3
  <1> QED
    BY <1>1, <1>5, <1>6

\* What registrations of these routes make of a router: the beginnings of its
\* nodes are nodes, a node has a parameter's name if it has the child for it,
\* and an endpoint is at the end of its route, whose parameters have the names
\* that the route gives them.
Planted(r, routes) ==
    /\ r.nodes \subseteq Seq(Names) /\ <<>> \in r.nodes
    /\ \A n \in r.nodes : \A i \in 0..Len(n) : SubSeq(n, 1, i) \in r.nodes
    /\ \A n \in r.nodes : r.m_path_param[n] # NoName <=> Append(n, Param) \in r.nodes
    /\ \A e \in r.endpoints :
           LET path == routes[e.to].path
           IN  /\ e.to \in 1..Len(routes)
               /\ e.node = Edges(path) /\ e.node \in r.nodes
               /\ \A i \in 1..Len(path) : path[i].param =>
                      r.m_path_param[NodeAt(path, i)] = path[i].name

\* No segment that is walked along clashes.
LEMMA WalkedPlaces ==
    ASSUME NEW r, NEW path \in Seq(Segments)
    PROVE  /\ Walked(r, path) \in 0..Len(path)
           /\ \A i \in 1..Walked(r, path) : ~Clash(r, path, i)
  <1> DEFINE C == {i \in DOMAIN path : Clash(r, path, i)}
  <1>1. DOMAIN path = 1..Len(path) /\ Len(path) \in Nat
    OBVIOUS
  <1>2. CASE C = {}
    <2>1. Walked(r, path) = Len(path)
      BY <1>2 DEF Walked
    <2>2. \A i \in DOMAIN path : ~Clash(r, path, i)
      BY <1>2
    <2> QED
      BY <1>1, <2>1, <2>2
  <1>3. CASE C # {}
    <2>1. C \subseteq 1..Len(path) /\ C \subseteq Nat
      BY <1>1
    <2>2. Walked(r, path) = Min(C) - 1
      BY <1>3 DEF Walked
    <2>3. \A i \in 1..Len(path) : i \notin C => ~Clash(r, path, i)
      BY <1>1
    <2> HIDE DEF C
    <2>4. \E x \in C : \A y \in C : x <= y
      BY <1>3, <2>1, Least
    <2>5. Min(C) \in C /\ \A y \in C : Min(C) <= y
      BY <2>4 DEF Min
    <2> DEFINE m == Min(C)
    <2>6. m \in 1..Len(path)
      BY <2>1, <2>5
    <2> HIDE DEF m
    <2>7. m \in 1..Len(path) /\ \A i \in 1..m - 1 : i \in 1..Len(path) /\ ~(m <= i)
      BY <1>1, <2>6
    <2>8. m - 1 \in 0..Len(path)
      BY <1>1, <2>7
    <2>9. \A i \in 1..m - 1 : i \notin C
      BY <2>5, <2>7 DEF m
    <2> QED
      BY <2>2, <2>3, <2>7, <2>8, <2>9 DEF m
  <1> QED
    BY <1>2, <1>3

\* What a registration does to a router: the nodes walked are there, those at
\* parameters have their names, and the others the names that they had.
LEMMA RegistrationPlaces ==
    ASSUME NEW r, NEW method, NEW to, NEW path \in Seq(Segments)
    PROVE  LET E == Edges(path)
               W == Walked(r, path)
               next == set_endpoint(r, method, path, to)
           IN  /\ next.nodes = r.nodes \cup {SubSeq(E, 1, i) : i \in 0..W}
               /\ \A i \in 1..W : path[i].param =>
                      /\ next.m_path_param[NodeAt(path, i)] = path[i].name
                      /\ path[i].name # NoName
                      /\ NodeAt(path, i) \in r.nodes =>
                             r.m_path_param[NodeAt(path, i)] \in {NoName, path[i].name}
               /\ \A n \in next.nodes :
                      \/ \E i \in 1..W : path[i].param /\ NodeAt(path, i) = n
                      \/ next.m_path_param[n] = IF n \in r.nodes THEN r.m_path_param[n]
                                               ELSE NoName
               /\ \A e \in next.endpoints :
                      \/ e \in r.endpoints
                      \/ W = Len(path) /\ e = [node |-> E, method |-> method, to |-> to]
  <1> DEFINE E == Edges(path)
             W == Walked(r, path)
             next == set_endpoint(r, method, path, to)
             new == {SubSeq(E, 1, i) : i \in 0..W}
             N == r.nodes \cup new
             named == {i \in 1..W : path[i].param}
             old(n) == IF n \in r.nodes THEN r.m_path_param[n] ELSE NoName
             m == [n \in N |-> IF \E i \in named : NodeAt(path, i) = n
                              THEN path[CHOOSE i \in named : NodeAt(path, i) = n].name
                              ELSE old(n)]
  <1>1. /\ W \in 0..Len(path) /\ Len(path) \in Nat
        /\ \A i \in 1..W : i \in 1..Len(path) /\ i - 1 \in 0..W /\ i - 1 \in 0..Len(E)
        /\ \A i \in 1..W : ~Clash(r, path, i)
        /\ E \in Seq(Names) /\ Len(E) = Len(path)
    <2>1. W \in 0..Len(path) /\ \A i \in 1..W : ~Clash(r, path, i)
      BY WalkedPlaces
    <2>2. E \in Seq(Names) /\ Len(E) = Len(path) /\ Len(path) \in Nat
      BY EdgesPlaces
    <2> HIDE DEF W, E
    <2>3. \A i \in 1..W : i \in 1..Len(path) /\ i - 1 \in 0..W /\ i - 1 \in 0..Len(E)
      BY <2>1, <2>2
    <2> QED
      BY <2>1, <2>2, <2>3
  <1>2. /\ next.nodes = N /\ next.m_path_param = m
        /\ \A e \in next.endpoints :
               \/ e \in r.endpoints
               \/ W = Len(path) /\ e = [node |-> E, method |-> method, to |-> to]
    <2>1. next = [nodes |-> N, m_path_param |-> m,
                  endpoints |-> r.endpoints \cup
                      IF Registered(r, method, path)
                      THEN {[node |-> E, method |-> method, to |-> to]} ELSE {}]
      BY DEF set_endpoint
    <2> HIDE DEF N, m, next
    <2>2. Registered(r, method, path) => W = Len(path)
      BY DEF Registered
    <2> HIDE DEF E, W
    <2>3. /\ next.nodes = N /\ next.m_path_param = m
          /\ next.endpoints = r.endpoints \cup
                 IF Registered(r, method, path)
                 THEN {[node |-> E, method |-> method, to |-> to]} ELSE {}
      BY <2>1
    <2> QED
      BY <2>2, <2>3
  <1>3. \A i \in 1..W : path[i].param =>
            /\ path[i].name # NoName
            /\ NodeAt(path, i) \in r.nodes =>
                   r.m_path_param[NodeAt(path, i)] \in {NoName, path[i].name}
    BY <1>1 DEF Clash
  <1>4. \A i \in 1..W : NodeAt(path, i) \in N /\ Len(NodeAt(path, i)) = i - 1
    <2> SUFFICES ASSUME NEW i \in 1..W
                 PROVE  NodeAt(path, i) \in N /\ Len(NodeAt(path, i)) = i - 1
      OBVIOUS
    <2>1. NodeAt(path, i) = SubSeq(E, 1, i - 1)
      BY DEF NodeAt
    <2>2. i - 1 \in 0..W /\ i - 1 \in 0..Len(E) /\ E \in Seq(Names)
      BY <1>1
    <2> HIDE DEF E, W
    <2>3. Len(SubSeq(E, 1, i - 1)) = i - 1
      BY <2>2, PrefixPlaces
    <2> QED
      BY <2>1, <2>2, <2>3
  <1> HIDE DEF N, E, W
  <1>5. \A i \in named : m[NodeAt(path, i)] = path[i].name
    <2> SUFFICES ASSUME NEW i \in named
                 PROVE  m[NodeAt(path, i)] = path[i].name
      OBVIOUS
    <2> DEFINE j == CHOOSE k \in named : NodeAt(path, k) = NodeAt(path, i)
    <2>1. j \in named /\ NodeAt(path, j) = NodeAt(path, i)
      OBVIOUS
    <2>2. m[NodeAt(path, i)] = path[j].name
      BY <1>4
    <2> HIDE DEF j, m
    <2>3. i \in 1..W /\ j \in 1..W
      BY <2>1
    <2>4. i - 1 = j - 1
      BY <1>4, <2>1, <2>3
    <2>5. i = j
      BY <1>1, <2>3, <2>4
    <2> QED
      BY <2>2, <2>5
  <1>6. \A n \in N : \/ \E i \in named : NodeAt(path, i) = n
                   \/ m[n] = old(n)
    OBVIOUS
  <1> HIDE DEF m, next
  <1>7. \A i \in 1..W : path[i].param => next.m_path_param[NodeAt(path, i)] = path[i].name
    BY <1>2, <1>5
  <1>8. \A n \in next.nodes :
            \/ \E i \in 1..W : path[i].param /\ NodeAt(path, i) = n
            \/ next.m_path_param[n] = old(n)
    BY <1>2, <1>6
  <1> QED
    BY <1>2, <1>3, <1>7, <1>8 DEF N, E, W, next

\* A registration keeps a router one that its routes have made.
LEMMA PlantsOn ==
    ASSUME NEW r, NEW routes \in Seq(Routes), Planted(r, routes),
           NEW to \in 1..Len(routes)
    PROVE  Planted(set_endpoint(r, routes[to].method, routes[to].path, to), routes)
  <1> DEFINE method == routes[to].method
             path == routes[to].path
             E == Edges(path)
             W == Walked(r, path)
             next == set_endpoint(r, method, path, to)
             new == {SubSeq(E, 1, i) : i \in 0..W}
  <1>1. path \in Seq(Segments)
    <2>1. routes[to] \in Routes
      OBVIOUS
    <2> QED
      BY <2>1 DEF Routes
  <1> HIDE DEF path, method
  <1>2. /\ E \in Seq(Names) /\ Len(E) = Len(path) /\ Len(path) \in Nat
        /\ \A i \in 1..Len(path) : E[i] = Param <=> path[i].param
    BY <1>1, EdgesPlaces
  <1>3. W \in 0..Len(path)
    BY <1>1, WalkedPlaces
  <1>4. /\ next.nodes = r.nodes \cup new
        /\ \A i \in 1..W : path[i].param =>
               /\ next.m_path_param[NodeAt(path, i)] = path[i].name
               /\ path[i].name # NoName
               /\ NodeAt(path, i) \in r.nodes =>
                      r.m_path_param[NodeAt(path, i)] \in {NoName, path[i].name}
        /\ \A n \in next.nodes :
               \/ \E i \in 1..W : path[i].param /\ NodeAt(path, i) = n
               \/ next.m_path_param[n] = IF n \in r.nodes THEN r.m_path_param[n] ELSE NoName
        /\ \A e \in next.endpoints :
               \/ e \in r.endpoints
               \/ W = Len(path) /\ e = [node |-> E, method |-> method, to |-> to]
    BY <1>1, RegistrationPlaces
  <1>5. \A i \in 1..W : NodeAt(path, i) = SubSeq(E, 1, i - 1)
    BY DEF NodeAt
  <1> HIDE DEF E, W, next
  <1>6. /\ \A i \in 0..W : i \in 0..Len(E) /\ SubSeq(E, 1, i) \in Seq(Names)
                           /\ Len(SubSeq(E, 1, i)) = i
        /\ \A i \in 0..W : \A j \in 0..i : /\ j \in 0..W
                                        /\ SubSeq(SubSeq(E, 1, i), 1, j) = SubSeq(E, 1, j)
    <2>1. \A i \in 0..W : i \in 0..Len(E)
      BY <1>2, <1>3
    <2>2. \A i \in 0..W : \A j \in 0..i : j \in 0..W
      BY <1>2, <1>3
    <2>3. \A i \in 0..W : SubSeq(E, 1, i) \in Seq(Names) /\ Len(SubSeq(E, 1, i)) = i
      BY <1>2, <2>1, PrefixPlaces
    <2>4. \A i \in 0..W : \A j \in 0..i : SubSeq(SubSeq(E, 1, i), 1, j) = SubSeq(E, 1, j)
      BY <1>2, <2>1, PrefixTwice
    <2> QED
      BY <2>1, <2>2, <2>3, <2>4
  <1>7. \A i \in 1..W : /\ i \in 0..W /\ i - 1 \in 0..W /\ i \in 1..Len(path) /\ i \in Nat
                       /\ Append(SubSeq(E, 1, i - 1), E[i]) = SubSeq(E, 1, i)
    <2>1. \A i \in 1..W : i \in 0..W /\ i - 1 \in 0..W /\ i \in 1..Len(E)
                         /\ i \in 1..Len(path) /\ i \in Nat
      BY <1>2, <1>3
    <2>2. \A i \in 1..W : Append(SubSeq(E, 1, i - 1), E[i]) = SubSeq(E, 1, i)
      BY <1>2, <2>1, PrefixNext
    <2> QED
      BY <2>1, <2>2
  <1>8. next.nodes \subseteq Seq(Names) /\ <<>> \in next.nodes
    BY <1>4, <1>6 DEF Planted
  <1>9. \A n \in next.nodes : \A i \in 0..Len(n) : SubSeq(n, 1, i) \in next.nodes
    <2> SUFFICES ASSUME NEW n \in next.nodes, NEW i \in 0..Len(n)
                 PROVE  SubSeq(n, 1, i) \in next.nodes
      OBVIOUS
    <2>1. CASE n \in r.nodes
      <3>1. SubSeq(n, 1, i) \in r.nodes
        BY <2>1 DEF Planted
      <3> QED
        BY <1>4, <3>1
    <2>2. CASE n \in new
      <3>1. PICK k \in 0..W : n = SubSeq(E, 1, k)
        BY <2>2
      <3>2. i \in 0..k
        BY <1>6, <3>1
      <3>3. SubSeq(n, 1, i) = SubSeq(E, 1, i) /\ i \in 0..W
        BY <1>6, <3>1, <3>2
      <3> QED
        BY <1>4, <3>3
    <2> QED
      BY <1>4, <2>1, <2>2
  \* A node that a parameter of this route leaves has its name and its child.
  <1>10. ASSUME NEW i \in 1..W, path[i].param
         PROVE  /\ next.m_path_param[NodeAt(path, i)] # NoName
                /\ Append(NodeAt(path, i), Param) \in next.nodes
    <2>1. next.m_path_param[NodeAt(path, i)] # NoName
      BY <1>4, <1>10
    <2>2. Append(NodeAt(path, i), Param) = SubSeq(E, 1, i) /\ i \in 0..W
      BY <1>2, <1>5, <1>7, <1>10
    <2> QED
      BY <1>4, <2>1, <2>2
  <1>11. ASSUME NEW n \in next.nodes
         PROVE  next.m_path_param[n] # NoName <=> Append(n, Param) \in next.nodes
    <2>1. CASE \E i \in 1..W : path[i].param /\ NodeAt(path, i) = n
      BY <1>10, <2>1
    <2>2. CASE ~\E i \in 1..W : path[i].param /\ NodeAt(path, i) = n
      <3>1. next.m_path_param[n] = IF n \in r.nodes THEN r.m_path_param[n] ELSE NoName
        BY <1>4, <2>2
      <3>2. n \in Seq(Names) /\ Param \in Names
        BY <1>8 DEF Names
      <3>3. /\ SubSeq(Append(n, Param), 1, Len(n)) = n /\ Len(Append(n, Param)) = Len(n) + 1
            /\ Len(n) \in Nat /\ Append(n, Param)[Len(n) + 1] = Param
        BY <3>2, AppendPrefix, AppendPlaces
      <3>4. Append(n, Param) \notin new
        <4> SUFFICES ASSUME NEW i \in 0..W, Append(n, Param) = SubSeq(E, 1, i)
                     PROVE  FALSE
          OBVIOUS
        <4>1. i = Len(n) + 1 /\ i - 1 = Len(n)
          BY <1>6, <3>3
        <4>2. i \in 1..W /\ i \in 1..i
          BY <3>3, <4>1
        <4>3. n = SubSeq(E, 1, i - 1)
          BY <1>6, <3>3, <4>1, <4>2
        <4>4. E[i] = Param
          <5>1. SubSeq(E, 1, i)[i] = E[i]
            BY <1>2, <1>6, <4>2, PrefixPlaces
          <5> QED
            BY <3>3, <4>1, <5>1
        <4>5. path[i].param
          BY <1>2, <1>7, <4>2, <4>4
        <4>6. NodeAt(path, i) = n
          BY <1>5, <4>2, <4>3
        <4> QED
          BY <2>2, <4>2, <4>5, <4>6
      <3>5. Append(n, Param) \in next.nodes <=> Append(n, Param) \in r.nodes
        BY <1>4, <3>4
      <3>6. CASE n \in r.nodes
        BY <3>1, <3>5, <3>6 DEF Planted
      <3>7. CASE n \notin r.nodes
        <4>1. Append(n, Param) \notin r.nodes
          <5>1. Len(n) \in 0..Len(Append(n, Param))
            BY <3>3
          <5>2. Append(n, Param) \in r.nodes => SubSeq(Append(n, Param), 1, Len(n)) \in r.nodes
            BY <5>1 DEF Planted
          <5> QED
            BY <3>3, <3>7, <5>2
        <4> QED
          BY <3>1, <3>5, <3>7, <4>1
      <3> QED
        BY <3>6, <3>7
    <2> QED
      BY <2>1, <2>2
  <1>12. ASSUME NEW e \in r.endpoints, NEW p, p = routes[e.to].path
         PROVE  /\ e.to \in 1..Len(routes)
                /\ e.node = Edges(p) /\ e.node \in next.nodes
                /\ \A i \in 1..Len(p) : p[i].param =>
                       next.m_path_param[NodeAt(p, i)] = p[i].name
    <2>1. /\ e.to \in 1..Len(routes)
          /\ e.node = Edges(p) /\ e.node \in r.nodes
          /\ \A i \in 1..Len(p) : p[i].param =>
                 r.m_path_param[NodeAt(p, i)] = p[i].name
      BY <1>12 DEF Planted
    <2>2. p \in Seq(Segments)
      <3>1. routes[e.to] \in Routes
        BY <2>1
      <3> QED
        BY <1>12, <3>1 DEF Routes
    <2>3. /\ e.node \in Seq(Names) /\ Len(e.node) = Len(p) /\ Len(p) \in Nat
          /\ \A i \in 1..Len(p) : e.node[i] = Param <=> p[i].param
      BY <2>1, <2>2, EdgesPlaces
    <2>4. ASSUME NEW i \in 1..Len(p), p[i].param
          PROVE  next.m_path_param[NodeAt(p, i)] = p[i].name
      <3> DEFINE n == SubSeq(e.node, 1, i - 1)
      <3>1. NodeAt(p, i) = n
        BY <2>1 DEF NodeAt
      <3>2. i \in 1..Len(e.node) /\ i \in 0..Len(e.node) /\ i - 1 \in 0..Len(e.node)
        BY <2>3
      <3>3. n \in r.nodes /\ SubSeq(e.node, 1, i) \in r.nodes
        BY <2>1, <3>2 DEF Planted
      <3>4. Append(n, e.node[i]) = SubSeq(e.node, 1, i)
        BY <2>3, <3>2, PrefixNext
      <3>5. e.node[i] = Param
        BY <2>3, <2>4
      <3>6. r.m_path_param[n] = p[i].name
        BY <2>1, <2>4, <3>1
      <3> HIDE DEF n
      <3>7. r.m_path_param[n] # NoName
        BY <3>3, <3>4, <3>5 DEF Planted
      <3>8. n \in next.nodes
        BY <1>4, <3>3
      <3>9. CASE \E j \in 1..W : path[j].param /\ NodeAt(path, j) = n
        <4>1. PICK j \in 1..W : path[j].param /\ NodeAt(path, j) = n
          BY <3>9
        <4>2. next.m_path_param[n] = path[j].name /\ r.m_path_param[n] \in {NoName, path[j].name}
          BY <1>4, <3>3, <4>1
        <4> QED
          BY <3>1, <3>6, <3>7, <4>2
      <3>10. CASE next.m_path_param[n] = IF n \in r.nodes THEN r.m_path_param[n] ELSE NoName
        BY <3>1, <3>3, <3>6, <3>10
      <3> QED
        BY <1>4, <3>8, <3>9, <3>10
    <2> QED
      BY <1>4, <2>1, <2>4
  <1>13. ASSUME W = Len(path), NEW p, p = routes[to].path
         PROVE  /\ E = Edges(p) /\ E \in next.nodes
                /\ \A i \in 1..Len(p) : p[i].param =>
                       next.m_path_param[NodeAt(p, i)] = p[i].name
    <2>1. p = path /\ E = Edges(p)
      BY <1>13 DEF path, E
    <2>2. SubSeq(E, 1, W) = E
      <3>1. W \in 0..W /\ W = Len(E)
        BY <1>2, <1>3, <1>13
      <3>2. SubSeq(E, 1, W) \in Seq(Names) /\ Len(SubSeq(E, 1, W)) = W
            /\ \A k \in 1..W : SubSeq(E, 1, W)[k] = E[k]
        BY <1>2, <1>6, <3>1, PrefixPlaces
      <3> QED
        BY <1>2, <3>1, <3>2, SamePlaces
    <2>3. E \in new
      <3>1. W \in 0..W
        BY <1>2, <1>3
      <3> QED
        BY <2>2, <3>1
    <2> QED
      BY <1>4, <1>13, <2>1, <2>3
  <1>14. ASSUME NEW e \in next.endpoints, NEW p, p = routes[e.to].path
         PROVE  /\ e.to \in 1..Len(routes)
                /\ e.node = Edges(p) /\ e.node \in next.nodes
                /\ \A i \in 1..Len(p) : p[i].param =>
                       next.m_path_param[NodeAt(p, i)] = p[i].name
    <2>1. CASE e \in r.endpoints
      BY <1>12, <1>14, <2>1
    <2>2. CASE W = Len(path) /\ e = [node |-> E, method |-> method, to |-> to]
      <3>1. e.to = to /\ e.node = E
        BY <2>2
      <3> QED
        BY <1>13, <1>14, <2>2, <3>1
    <2> QED
      BY <1>4, <2>1, <2>2
  <1>15. Planted(next, routes)
    BY <1>8, <1>9, <1>11, <1>14 DEF Planted
  <1> QED
    BY <1>15 DEF next, path, method

----------------------------------------------------------------------------
(* The walk along the tree *)

\* The next stage.
Onward(r, at, segment) == IF at = <<>> THEN <<>> ELSE Step(r, at[1], segment)

\* The recursive function inside Stages.
Stepped(r, s, n, f) ==
    f = [i \in 0..n |-> IF i = 0 THEN <<<<>>>> ELSE Onward(r, f[i - 1], s[i])]

\* It exists: a shorter one can be made longer.
LEMMA SteppedExists ==
    ASSUME NEW r, NEW s, NEW n \in Nat
    PROVE  \E f : Stepped(r, s, n, f)
  <1> DEFINE Bad == {m \in Nat : ~\E f : Stepped(r, s, m, f)}
  <1> SUFFICES ASSUME n \in Bad
               PROVE  FALSE
    OBVIOUS
  <1>1. PICK m \in Bad : \A y \in Bad : m <= y
    <2>1. Bad \subseteq Nat /\ Bad # {}
      OBVIOUS
    <2> HIDE DEF Bad
    <2> QED
      BY <2>1, Least
  <1>2. m \in Nat
    OBVIOUS
  <1>3. CASE m = 0
    <2> DEFINE e == [i \in 0..0 |-> <<<<>>>>]
    <2>1. Stepped(r, s, 0, e)
      BY DEF Stepped
    <2> QED
      BY <1>3, <2>1
  <1>4. CASE m # 0
    <2>1. m - 1 \in Nat /\ ~(m <= m - 1)
      BY <1>2, <1>4
    <2>2. m - 1 \notin Bad
      BY <1>1, <2>1
    <2>3. PICK f : Stepped(r, s, m - 1, f)
      BY <2>1, <2>2
    <2> DEFINE g == [i \in 0..m |-> IF i < m THEN f[i] ELSE Onward(r, f[m - 1], s[m])]
    <2>4. \A i \in 0..m : g[i] = IF i = 0 THEN <<<<>>>> ELSE Onward(r, g[i - 1], s[i])
      <3> TAKE i \in 0..m
      <3>1. CASE i < m
        <4>1. i \in 0..(m - 1)
          BY <1>2, <3>1
        <4>2. f[i] = IF i = 0 THEN <<<<>>>> ELSE Onward(r, f[i - 1], s[i])
          BY <2>3, <4>1 DEF Stepped
        <4>3. i # 0 => i - 1 \in 0..m /\ i - 1 < m
          BY <1>2, <3>1
        <4>4. g[i] = f[i] /\ (i # 0 => g[i - 1] = f[i - 1])
          BY <3>1, <4>3
        <4> HIDE DEF g
        <4> QED
          BY <4>2, <4>4
      <3>2. CASE i = m
        <4>1. m - 1 \in 0..m /\ m - 1 < m /\ m \in 0..m /\ ~(m < m)
          BY <1>2, <1>4
        <4>2. g[m - 1] = f[m - 1] /\ g[m] = Onward(r, f[m - 1], s[m])
          BY <4>1
        <4> HIDE DEF g
        <4> QED
          BY <1>4, <3>2, <4>2
      <3> QED
        BY <1>2, <3>1, <3>2
    <2>5. Stepped(r, s, m, g)
      <3>1. g = [i \in 0..m |-> g[i]]
        OBVIOUS
      <3> HIDE DEF g
      <3> QED
        BY <2>4, <3>1 DEF Stepped
    <2> QED
      BY <1>1, <2>5
  <1> QED
    BY <1>3, <1>4

\* The first stage is the root, and each other follows from the one before.
LEMMA StagePlaces ==
    ASSUME NEW r, NEW s, Len(s) \in Nat
    PROVE  /\ Stages(r, s)[0] = <<<<>>>>
           /\ \A i \in 1..Len(s) : Stages(r, s)[i] = Onward(r, Stages(r, s)[i - 1], s[i])
  <1> DEFINE g == CHOOSE f : f = [i \in 0..Len(s) |->
                                   IF i = 0 THEN <<<<>>>>
                                   ELSE IF f[i - 1] = <<>> THEN <<>>
                                   ELSE Step(r, f[i - 1][1], s[i])]
  <1>1. Stages(r, s) = g
    BY DEF Stages
  <1>2. Stepped(r, s, Len(s), g)
    <2>1. \E f : Stepped(r, s, Len(s), f)
      BY SteppedExists
    <2>2. \E f : f = [i \in 0..Len(s) |->
                       IF i = 0 THEN <<<<>>>>
                       ELSE IF f[i - 1] = <<>> THEN <<>>
                       ELSE Step(r, f[i - 1][1], s[i])]
      BY <2>1 DEF Stepped, Onward
    <2> QED
      BY <2>2 DEF Stepped, Onward
  <1> HIDE DEF g
  <1>3. \A i \in 0..Len(s) : g[i] = IF i = 0 THEN <<<<>>>> ELSE Onward(r, g[i - 1], s[i])
    BY <1>2 DEF Stepped
  <1>4. 0 \in 0..Len(s) /\ \A i \in 1..Len(s) : i \in 0..Len(s) /\ i # 0
    OBVIOUS
  <1> QED
    BY <1>1, <1>3, <1>4

\* All of a sequence.
LEMMA AllPlaces ==
    ASSUME NEW X, NEW s \in Seq(X)
    PROVE  SubSeq(s, 1, Len(s)) = s
  <1> DEFINE p == SubSeq(s, 1, Len(s))
  <1>1. Len(s) \in 0..Len(s)
    OBVIOUS
  <1>2. p \in Seq(X) /\ Len(p) = Len(s) /\ \A k \in 1..Len(s) : p[k] = s[k]
    BY <1>1, PrefixPlaces
  <1> HIDE DEF p
  <1>3. p = s
    BY <1>2, SamePlaces
  <1> QED
    BY <1>3 DEF p

\* match takes the child for a segment if there is one, else the parameter if
\* there is one.
LEMMA StepSound ==
    ASSUME NEW r, NEW routes, Planted(r, routes), NEW n \in r.nodes, NEW x
    PROVE  \/ /\ Step(r, n, x) = <<>>
              /\ Append(n, x) \notin r.nodes /\ Append(n, Param) \notin r.nodes
           \/ \E y \in {x, Param} : /\ Step(r, n, x) = <<Append(n, y)>>
                                    /\ Append(n, y) \in r.nodes
                                    /\ Append(n, x) \in r.nodes => y = x
  <1>1. r.m_path_param[n] # NoName <=> Append(n, Param) \in r.nodes
    BY DEF Planted
  <1>2. CASE Append(n, x) \in r.nodes
    <2>1. Step(r, n, x) = <<Append(n, x)>>
      BY <1>2 DEF Step
    <2> QED
      BY <1>2, <2>1
  <1>3. CASE Append(n, x) \notin r.nodes /\ r.m_path_param[n] # NoName
    <2>1. Step(r, n, x) = <<Append(n, Param)>>
      BY <1>3 DEF Step
    <2> QED
      BY <1>1, <1>3, <2>1
  <1>4. CASE Append(n, x) \notin r.nodes /\ r.m_path_param[n] = NoName
    <2>1. Step(r, n, x) = <<>>
      BY <1>4 DEF Step
    <2> QED
      BY <1>1, <1>4, <2>1
  <1> QED
    BY <1>2, <1>3, <1>4

\* Behind i segments match is at node n, along the beginnings of n.
Trodden(r, s, i, n) ==
    /\ Stages(r, s)[i] = <<n>> /\ n \in r.nodes /\ Len(n) = i
    /\ \A j \in 1..i : n[j] \in {Param, s[j]}
    /\ \A k \in 0..i : Stages(r, s)[k] = <<SubSeq(n, 1, k)>>

\* One step of match along the tree.
LEMMA TroddenOn ==
    ASSUME NEW r, NEW routes, Planted(r, routes), NEW s \in Seq(STRING),
           NEW i \in 1..Len(s), NEW n, Trodden(r, s, i - 1, n)
    PROVE  \/ Stages(r, s)[i] = <<>>
           \/ \E a \in r.nodes : Trodden(r, s, i, a)
  <1>1. /\ Len(s) \in Nat /\ i \in Nat /\ i - 1 \in Nat /\ (i - 1) + 1 = i /\ i # 0
        /\ s[i] \in Names /\ Param \in Names
        /\ \A k \in 0..i : k = i \/ k \in 0..i - 1
        /\ \A k \in 1..i : k = i \/ k \in 1..i - 1
    BY DEF Names
  <1>2. n \in r.nodes /\ n \in Seq(Names) /\ Len(n) = i - 1
    BY DEF Trodden, Planted
  <1>3. Stages(r, s)[i] = Step(r, n, s[i])
    <2>1. Stages(r, s)[i] = Onward(r, Stages(r, s)[i - 1], s[i])
      BY <1>1, StagePlaces
    <2>2. Stages(r, s)[i - 1] = <<n>>
      BY DEF Trodden
    <2>3. <<n>> # <<>> /\ <<n>>[1] = n
      OBVIOUS
    <2> QED
      BY <2>1, <2>2, <2>3 DEF Onward
  <1>4. CASE Step(r, n, s[i]) = <<>>
    BY <1>3, <1>4
  <1>5. ASSUME NEW y \in {s[i], Param}, Step(r, n, s[i]) = <<Append(n, y)>>,
               Append(n, y) \in r.nodes
        PROVE  Trodden(r, s, i, Append(n, y))
    <2> DEFINE a == Append(n, y)
    <2>1. Stages(r, s)[i] = <<a>>
      BY <1>3, <1>5
    <2>2. y \in Names
      BY <1>1, <1>5
    <2>3. a \in Seq(Names) /\ Len(a) = i /\ a[i] = y /\ \A k \in 1..i - 1 : a[k] = n[k]
      BY <1>1, <1>2, <2>2, AppendPlaces
    <2>4. SubSeq(a, 1, i - 1) = n
      BY <1>2, <2>2, AppendPrefix
    <2>5. a \in r.nodes
      BY <1>5
    <2> HIDE DEF a
    <2>6. \A j \in 1..i : a[j] \in {Param, s[j]}
      BY <1>1, <1>5, <2>3 DEF Trodden
    <2>7. ASSUME NEW k \in 0..i
          PROVE  Stages(r, s)[k] = <<SubSeq(a, 1, k)>>
      <3>1. CASE k = i
        <4>1. SubSeq(a, 1, i) = a
          BY <2>3, AllPlaces
        <4> QED
          BY <2>1, <3>1, <4>1
      <3>2. CASE k \in 0..i - 1
        <4>1. i - 1 \in 0..Len(a)
          BY <1>1, <2>3
        <4>2. SubSeq(n, 1, k) = SubSeq(a, 1, k)
          BY <2>3, <2>4, <3>2, <4>1, PrefixTwice
        <4>3. Stages(r, s)[k] = <<SubSeq(n, 1, k)>>
          BY <3>2 DEF Trodden
        <4> QED
          BY <4>2, <4>3
      <3> QED
        BY <1>1, <3>1, <3>2
    <2>8. Trodden(r, s, i, a)
      BY <2>1, <2>3, <2>5, <2>6, <2>7 DEF Trodden
    <2> QED
      BY <2>8 DEF a
  <1> QED
    BY <1>2, <1>4, <1>5, StepSound

\* Where match is behind any number of segments.
LEMMA StageNodes ==
    ASSUME NEW r, NEW routes, Planted(r, routes), NEW s \in Seq(STRING),
           NEW i \in 0..Len(s)
    PROVE  Stages(r, s)[i] = <<>> \/ \E n \in r.nodes : Trodden(r, s, i, n)
  <1> DEFINE OK(k) == Stages(r, s)[k] = <<>> \/ \E n \in r.nodes : Trodden(r, s, k, n)
             Bad == {k \in 0..Len(s) : ~OK(k)}
  <1> SUFFICES ASSUME i \in Bad
               PROVE  FALSE
    OBVIOUS
  <1>1. Len(s) \in Nat
    OBVIOUS
  <1>2. PICK m \in Bad : \A y \in Bad : m <= y
    <2>1. Bad \subseteq Nat /\ Bad # {}
      OBVIOUS
    <2> HIDE DEF Bad
    <2> QED
      BY <2>1, Least
  <1>3. m \in 0..Len(s) /\ ~OK(m)
    OBVIOUS
  <1>4. CASE m = 0
    <2>1. Stages(r, s)[0] = <<<<>>>>
      BY <1>1, StagePlaces
    <2>2. <<>> \in r.nodes /\ Len(<<>>) = 0 /\ 1..0 = {} /\ 0..0 = {0}
      BY DEF Planted
    <2>3. SubSeq(<<>>, 1, 0) = <<>>
      OBVIOUS
    <2>4. Trodden(r, s, 0, <<>>)
      BY <2>1, <2>2, <2>3 DEF Trodden
    <2> QED
      BY <1>3, <1>4, <2>2, <2>4
  <1>5. CASE m # 0
    <2>1. m \in 1..Len(s) /\ m - 1 \in 0..Len(s) /\ ~(m <= m - 1)
      BY <1>1, <1>3, <1>5
    <2>2. OK(m - 1)
      BY <1>2, <2>1
    <2>3. CASE Stages(r, s)[m - 1] = <<>>
      <3>1. Stages(r, s)[m] = Onward(r, Stages(r, s)[m - 1], s[m])
        BY <1>1, <2>1, StagePlaces
      <3>2. Stages(r, s)[m] = <<>>
        BY <2>3, <3>1 DEF Onward
      <3> QED
        BY <1>3, <3>2
    <2>4. ASSUME NEW n \in r.nodes, Trodden(r, s, m - 1, n)
          PROVE  FALSE
      <3>1. Stages(r, s)[m] = <<>> \/ \E a \in r.nodes : Trodden(r, s, m, a)
        BY <2>1, <2>4, TroddenOn
      <3> QED
        BY <1>3, <3>1
    <2> QED
      BY <2>2, <2>3, <2>4
  <1> QED
    BY <1>4, <1>5

\* What match has gone along when it gets to a registered path's end.
LEMMA WalkPlaces ==
    ASSUME NEW r, NEW routes, Planted(r, routes), NEW s \in Seq(STRING),
           NEW n, Walk(r, s) = <<n>>
    PROVE  Trodden(r, s, Len(s), n)
  <1>1. Len(s) \in 0..Len(s)
    OBVIOUS
  <1>2. Stages(r, s)[Len(s)] = <<n>>
    BY DEF Walk
  <1>3. PICK m \in r.nodes : Trodden(r, s, Len(s), m)
    <2>1. <<n>> # <<>>
      OBVIOUS
    <2> QED
      BY <1>1, <1>2, <2>1, StageNodes
  <1>4. <<m>> = <<n>>
    BY <1>2, <1>3 DEF Trodden
  <1>5. m = n
    BY <1>4
  <1> QED
    BY <1>3, <1>5

\* A registered path at whose end match is covers the request's.
LEMMA FoundCovers ==
    ASSUME NEW r, NEW routes, Planted(r, routes), NEW s \in Seq(STRING),
           NEW n \in Seq(Names), Walk(r, s) = <<n>>
    PROVE  Covers(n, s)
  <1>1. Trodden(r, s, Len(s), n)
    BY WalkPlaces
  <1>2. DOMAIN n = 1..Len(n)
    OBVIOUS
  <1> QED
    BY <1>1, <1>2 DEF Trodden, Covers

\* Where a covering path has a name and match the parameter, match would have
\* taken the name.
LEMMA FoundExact ==
    ASSUME NEW r, NEW routes, Planted(r, routes), NEW s \in Seq(STRING),
           NEW n \in r.nodes, Walk(r, s) = <<n>>,
           NEW f \in r.nodes, Covers(f, s)
    PROVE  ~Shadows(f, n)
  <1> SUFFICES ASSUME Shadows(f, n)
               PROVE  FALSE
    OBVIOUS
  <1>1. n \in Seq(Names) /\ f \in Seq(Names) /\ DOMAIN n = 1..Len(n) /\ Len(n) \in Nat
        /\ DOMAIN f = 1..Len(f) /\ Len(f) \in Nat
    BY DEF Planted
  <1>2. Trodden(r, s, Len(s), n)
    BY WalkPlaces
  <1>3. Len(n) = Len(s) /\ Len(f) = Len(s) /\ \A i \in 1..Len(s) : f[i] \in {Param, s[i]}
    BY <1>1, <1>2 DEF Trodden, Covers
  <1>4. PICK i \in 1..Len(s) : /\ SubSeq(f, 1, i - 1) = SubSeq(n, 1, i - 1)
                               /\ n[i] = Param /\ f[i] # Param
    BY <1>1, <1>3 DEF Shadows
  <1> DEFINE p == SubSeq(n, 1, i - 1)
  <1>5. /\ i \in 1..Len(n) /\ i \in 1..Len(f) /\ i \in 0..Len(f) /\ i - 1 \in 0..Len(n)
        /\ i \in 0..Len(s) /\ i - 1 \in 0..Len(s)
    BY <1>1, <1>3
  <1>6. p \in r.nodes /\ SubSeq(f, 1, i) \in r.nodes
    BY <1>5 DEF Planted
  <1>7. Append(p, Param) = SubSeq(n, 1, i)
    BY <1>1, <1>4, <1>5, PrefixNext
  <1>8. Append(p, s[i]) = SubSeq(f, 1, i) /\ s[i] # Param
    <2>1. Append(SubSeq(f, 1, i - 1), f[i]) = SubSeq(f, 1, i)
      BY <1>1, <1>5, PrefixNext
    <2>2. f[i] = s[i]
      BY <1>3, <1>4
    <2> QED
      BY <1>4, <2>1, <2>2
  <1>9. Stages(r, s)[i - 1] = <<p>> /\ Stages(r, s)[i] = <<SubSeq(n, 1, i)>>
    BY <1>2, <1>5 DEF Trodden
  <1> HIDE DEF p
  <1>10. Step(r, p, s[i]) = <<Append(p, Param)>>
    <2>1. Stages(r, s)[i] = Onward(r, Stages(r, s)[i - 1], s[i])
      <3>1. Len(s) \in Nat
        OBVIOUS
      <3> QED
        BY <3>1, StagePlaces
    <2>2. <<p>> # <<>> /\ <<p>>[1] = p
      OBVIOUS
    <2> QED
      BY <1>7, <1>9, <2>1, <2>2 DEF Onward
  <1>11. Step(r, p, s[i]) = <<Append(p, s[i])>>
    BY <1>6, <1>8 DEF Step
  <1>12. Append(p, Param) = Append(p, s[i])
    BY <1>10, <1>11
  <1>13. p \in Seq(Names) /\ Param \in Names /\ s[i] \in Names
    BY <1>6 DEF Planted, Names
  <1>14. Append(p, Param)[Len(p) + 1] = Param /\ Append(p, s[i])[Len(p) + 1] = s[i]
    BY <1>13, AppendPlaces
  <1> QED
    BY <1>8, <1>12, <1>14

\* match goes astray from a covering path only where it takes a name for a
\* parameter of that path.
LEMMA NoneExact ==
    ASSUME NEW r, NEW routes, Planted(r, routes), NEW s \in Seq(STRING),
           NEW e \in r.nodes, Covers(e, s), Walk(r, s) # <<e>>
    PROVE  \E n \in r.nodes : /\ Shadows(n, e) /\ Len(n) <= Len(s)
                              /\ Covers(n, SubSeq(s, 1, Len(n)))
  <1> DEFINE Bad == {k \in 0..Len(s) : Stages(r, s)[k] # <<SubSeq(e, 1, k)>>}
  <1>1. e \in Seq(Names) /\ DOMAIN e = 1..Len(e) /\ Len(e) \in Nat /\ Len(s) \in Nat
    BY DEF Planted
  <1>2. Len(e) = Len(s) /\ \A i \in 1..Len(s) : e[i] \in {Param, s[i]}
    BY <1>1 DEF Covers
  <1>3. Len(s) \in Bad
    <2>1. SubSeq(e, 1, Len(s)) = e
      BY <1>1, <1>2, AllPlaces
    <2> QED
      BY <1>1, <2>1 DEF Walk
  <1>4. PICK i \in Bad : \A y \in Bad : i <= y
    <2>1. Bad \subseteq Nat /\ Bad # {}
      BY <1>3
    <2> HIDE DEF Bad
    <2> QED
      BY <2>1, Least
  <1>5. i \in 0..Len(s) /\ Stages(r, s)[i] # <<SubSeq(e, 1, i)>>
    OBVIOUS
  <1>6. i # 0
    <2>1. Stages(r, s)[0] = <<<<>>>>
      BY <1>1, StagePlaces
    <2>2. SubSeq(e, 1, 0) = <<>>
      BY <1>1
    <2> QED
      BY <1>5, <2>1, <2>2
  <1>7. /\ i \in 1..Len(s) /\ i \in 1..Len(e) /\ i \in 0..Len(e) /\ i - 1 \in 0..Len(e)
        /\ i - 1 \in 0..Len(s) /\ ~(i <= i - 1) /\ i \in Nat /\ (i - 1) + 1 = i
        /\ \A j \in 1..i : j = i \/ j \in 1..i - 1
        /\ \A j \in 1..i : j \in 1..Len(s)
    BY <1>1, <1>2, <1>5, <1>6
  <1> DEFINE p == SubSeq(e, 1, i - 1)
             n == Append(p, s[i])
  <1>8. Stages(r, s)[i - 1] = <<p>>
    BY <1>4, <1>7
  <1>9. p \in r.nodes /\ SubSeq(e, 1, i) \in r.nodes
    BY <1>7 DEF Planted
  <1>10. Append(p, e[i]) = SubSeq(e, 1, i)
    BY <1>1, <1>7, PrefixNext
  <1>11. p \in Seq(Names) /\ Len(p) = i - 1 /\ \A k \in 1..i - 1 : p[k] = e[k]
    BY <1>1, <1>7, PrefixPlaces
  <1> HIDE DEF p, Bad
  <1>12. Stages(r, s)[i] = Step(r, p, s[i])
    <2>1. Stages(r, s)[i] = Onward(r, Stages(r, s)[i - 1], s[i])
      BY <1>1, <1>7, StagePlaces
    <2>2. <<p>> # <<>> /\ <<p>>[1] = p
      OBVIOUS
    <2> QED
      BY <1>8, <2>1, <2>2 DEF Onward
  <1>13. Step(r, p, s[i]) # <<Append(p, e[i])>>
    BY <1>5, <1>10, <1>12
  <1>14. e[i] \in {Param, s[i]} /\ Append(p, e[i]) \in r.nodes
    BY <1>2, <1>7, <1>9, <1>10
  <1>15. PICK y \in {s[i], Param} : /\ Step(r, p, s[i]) = <<Append(p, y)>>
                                    /\ Append(p, y) \in r.nodes
                                    /\ Append(p, s[i]) \in r.nodes => y = s[i]
    <2>1. \/ /\ Append(p, s[i]) \notin r.nodes /\ Append(p, Param) \notin r.nodes
          \/ \E y \in {s[i], Param} : /\ Step(r, p, s[i]) = <<Append(p, y)>>
                                      /\ Append(p, y) \in r.nodes
                                      /\ Append(p, s[i]) \in r.nodes => y = s[i]
      BY <1>9, StepSound
    <2>2. Append(p, s[i]) \in r.nodes \/ Append(p, Param) \in r.nodes
      BY <1>14
    <2> QED
      BY <2>1, <2>2
  <1>16. y # e[i]
    BY <1>13, <1>15
  <1>17. e[i] = Param /\ s[i] # Param /\ n \in r.nodes
    BY <1>14, <1>15, <1>16
  <1>18. s[i] \in Names
    BY <1>7 DEF Names
  <1>19. n \in Seq(Names) /\ Len(n) = i /\ n[i] = s[i] /\ \A k \in 1..i - 1 : n[k] = p[k]
    BY <1>7, <1>11, <1>18, AppendPlaces
  <1>20. SubSeq(n, 1, i - 1) = p
    BY <1>11, <1>18, AppendPrefix
  <1> HIDE DEF n
  <1>21. Shadows(n, e)
    <2>1. i \in DOMAIN e /\ Len(n) >= i
      BY <1>1, <1>7, <1>19
    <2> QED
      BY <1>17, <1>19, <1>20, <2>1 DEF Shadows, p
  <1>22. Covers(n, SubSeq(s, 1, Len(n)))
    <2> DEFINE t == SubSeq(s, 1, i)
    <2>1. Len(t) = i /\ \A k \in 1..i : t[k] = s[k]
      <3>1. i \in 0..Len(s)
        BY <1>5
      <3> QED
        BY <3>1, PrefixPlaces
    <2> HIDE DEF t
    <2>2. \A k \in 1..i : n[k] \in {Param, t[k]}
      <3> TAKE k \in 1..i
      <3>1. CASE k = i
        BY <1>19, <2>1, <3>1
      <3>2. CASE k \in 1..i - 1
        BY <1>2, <1>7, <1>11, <1>19, <2>1, <3>2
      <3> QED
        BY <1>7, <3>1, <3>2
    <2>3. DOMAIN n = 1..i
      BY <1>19
    <2>4. Covers(n, t)
      BY <1>19, <2>1, <2>2, <2>3 DEF Covers
    <2> QED
      BY <1>19, <2>4 DEF t
  <1>23. Len(n) <= Len(s)
    BY <1>1, <1>7, <1>19
  <1> QED
    BY <1>17, <1>21, <1>22, <1>23

\* What the parameters of a route stand for in the segments of a request.
Meant(path, s) ==
    LET params == {i \in DOMAIN path : path[i].param}
    IN  [k \in {path[i].name : i \in params} |->
            s[Max({i \in params : path[i].name = k})]]

\* The values that match finds are those of the route's parameters.
LEMMA FoundParams ==
    ASSUME NEW r, NEW routes \in Seq(Routes), Planted(r, routes),
           NEW s \in Seq(STRING), NEW e \in r.endpoints, Walk(r, s) = <<e.node>>
    PROVE  path_params(r, s) = Meant(routes[e.to].path, s)
  <1> DEFINE path == routes[e.to].path
             n == e.node
             params == {i \in DOMAIN path : path[i].param}
             node(i) == Stages(r, s)[i][1]
             passed == {i \in DOMAIN s : node(i)[i] = Param}
             name(i) == r.m_path_param[node(i - 1)]
  <1>1. /\ e.to \in 1..Len(routes) /\ n = Edges(path) /\ n \in r.nodes
        /\ \A i \in 1..Len(path) : path[i].param =>
               r.m_path_param[NodeAt(path, i)] = path[i].name
    BY DEF Planted
  <1>2. path \in Seq(Segments)
    <2>1. routes[e.to] \in Routes
      BY <1>1
    <2> QED
      BY <2>1 DEF Routes
  <1> HIDE DEF path
  <1>3. /\ n \in Seq(Names) /\ Len(n) = Len(path) /\ Len(path) \in Nat
        /\ DOMAIN path = 1..Len(path)
        /\ \A i \in 1..Len(path) : n[i] = Param <=> path[i].param
    BY <1>1, <1>2, EdgesPlaces
  <1>4. Trodden(r, s, Len(s), n)
    BY WalkPlaces
  <1>5. Len(s) = Len(path) /\ DOMAIN s = 1..Len(path)
    BY <1>3, <1>4 DEF Trodden
  <1>6. \A i \in 0..Len(path) : node(i) = SubSeq(n, 1, i)
    BY <1>4, <1>5 DEF Trodden
  <1> HIDE DEF n, node
  <1>7. passed = params
    <2>1. \A i \in 1..Len(path) : SubSeq(n, 1, i)[i] = n[i]
      <3>1. \A i \in 1..Len(path) : i \in 0..Len(n) /\ i \in 1..i
        BY <1>3
      <3> QED
        BY <1>3, <3>1, PrefixPlaces
    <2>2. \A i \in 1..Len(path) : i \in 0..Len(path)
      BY <1>3
    <2> QED
      BY <1>3, <1>5, <1>6, <2>1, <2>2
  <1>8. \A i \in params : name(i) = path[i].name
    <2>1. \A i \in 1..Len(path) : i - 1 \in 0..Len(path)
      BY <1>3
    <2>2. \A i \in 1..Len(path) : node(i - 1) = NodeAt(path, i)
      BY <1>1, <1>6, <2>1 DEF NodeAt
    <2> QED
      BY <1>1, <1>3, <2>2
  <1>9. path_params(r, s) = [k \in {name(i) : i \in passed} |->
                                s[Max({i \in passed : name(i) = k})]]
    BY DEF path_params, node
  <1> HIDE DEF name, params, passed
  <1>10. {name(i) : i \in params} = {path[i].name : i \in params}
    BY <1>8
  <1>11. \A k : {i \in params : name(i) = k} = {i \in params : path[i].name = k}
    BY <1>8
  <1> DEFINE u(k) == s[Max({i \in params : name(i) = k})]
             v(k) == s[Max({i \in params : path[i].name = k})]
             A == {name(i) : i \in params}
             B == {path[i].name : i \in params}
  <1>12. path_params(r, s) = [k \in A |-> u(k)]
    BY <1>7, <1>9
  <1>13. \A k : u(k) = v(k)
    <2> TAKE k
    <2>1. {i \in params : name(i) = k} = {i \in params : path[i].name = k}
      BY <1>11
    <2> QED
      BY <2>1
  <1>14. A = B
    BY <1>10
  <1> HIDE DEF u, v, A, B
  <1>15. path_params(r, s) = [k \in B |-> v(k)]
    BY <1>12, <1>13, <1>14
  <1> QED
    BY <1>15 DEF Meant, path, params, v, B

----------------------------------------------------------------------------
(* The router of a connection *)

\* A router without routes.
LEMMA EmptyPlanted ==
    ASSUME NEW routes
    PROVE  Planted(EmptyRouter, routes)
  <1> DEFINE r == EmptyRouter
  <1>1. r.nodes = {<<>>} /\ r.m_path_param[<<>>] = NoName /\ r.endpoints = {}
    BY DEF EmptyRouter
  <1> HIDE DEF r
  <1>2. <<>> \in Seq(Names) /\ Len(<<>>) = 0 /\ SubSeq(<<>>, 1, 0) = <<>> /\ Param \in Names
    BY DEF Names
  <1>3. Append(<<>>, Param) \notin {<<>>}
    <2>1. Len(Append(<<>>, Param)) = 1
      BY <1>2, AppendPlaces
    <2> QED
      BY <1>2, <2>1
  <1>4. \A i \in 0..0 : i = 0
    OBVIOUS
  <1>5. Planted(r, routes)
    BY <1>1, <1>2, <1>3, <1>4 DEF Planted
  <1> QED
    BY <1>5 DEF r

\* The router has grown from some of the scenario's routes.
Routing ==
    /\ scenario \in Scenarios
    /\ calls \in Nat
    /\ Planted(router, scenario.routes)

LEMMA RoutesGiven ==
    ASSUME scenario \in Scenarios
    PROVE  scenario.routes \in Seq(Routes) /\ Len(scenario.routes) \in Nat
  <1>1. scenario.routes \in Seq(Routes)
    BY HttpServerAssumption
  <1> QED
    BY <1>1

LEMMA RoutingStep ==
    ASSUME Routing, [Next]_vars
    PROVE  Routing'
  <1>1. scenario \in Scenarios /\ calls \in Nat /\ Planted(router, scenario.routes)
    BY DEF Routing
  <1>2. CASE Register
    <2>1. scenario.routes \in Seq(Routes) /\ Len(scenario.routes) \in Nat
      BY <1>1, RoutesGiven
    <2>2. calls < Len(scenario.routes) /\ calls' = calls + 1 /\ scenario' = scenario
      BY <1>2 DEF Register
    <2>3. calls + 1 \in 1..Len(scenario.routes) /\ calls + 1 \in Nat
      BY <1>1, <2>1, <2>2
    <2> DEFINE r == scenario.routes[calls + 1]
    <2>4. router' = set_endpoint(router, r.method, r.path, calls + 1)
      BY <1>2 DEF Register
    <2>5. Planted(set_endpoint(router, r.method, r.path, calls + 1), scenario.routes)
      BY <1>1, <2>1, <2>3, PlantsOn
    <2> HIDE DEF r
    <2>6. Planted(router', scenario.routes)
      BY <2>4, <2>5
    <2>7. Planted(router', scenario'.routes)
      BY <2>2, <2>6
    <2> QED
      BY <1>1, <2>2, <2>3, <2>7 DEF Routing
  <1>3. ASSUME UNCHANGED <<scenario, router>>, calls' \in {0, calls, calls + 1}
        PROVE  Routing'
    <2>1. calls' \in Nat
      BY <1>1, <1>3
    <2>2. Planted(router', scenario'.routes)
      BY <1>1, <1>3
    <2> QED
      BY <1>1, <1>3, <2>1, <2>2 DEF Routing
  <1>4. CASE Connect \/ UNCHANGED vars
    BY <1>3, <1>4 DEF Connect, vars, keeps
  <1>5. CASE Cut \/ ReadRequestLine \/ ReadHeaderLine \/ Match \/ ReadRound \/ ReadReturns
    BY <1>3, <1>5 DEF Cut, ReadRequestLine, ReadHeaderLine, Match, ReadRound,
                     ReadReturns, keeps
  <1>6. CASE EndpointReturns \/ EndpointThrows \/ End \/ EndFails \/ Keep \/ RecvFails
    BY <1>3, <1>6 DEF EndpointReturns, EndpointThrows, End, EndFails, Keep, RecvFails, keeps
  <1>7. ASSUME NEW n, \/ Write(n) \/ SetHeader("length", n) \/ SetHeader("chunked", 0)
                      \/ \E kind \in {"string", "memory", "skip"} : Read(kind, n)
        PROVE  Routing'
    BY <1>3, <1>7 DEF Write, SetHeader, Read, Calling, keeps
  <1> QED
    BY <1>2, <1>4, <1>5, <1>6, <1>7 DEF Next

\* The tree that requests are matched against stays one that registrations of
\* the server's routes have made, whichever of them failed on the way.
THEOREM RoutingInductive == Spec => []Routing
  <1>1. Init => Routing
    <2> SUFFICES ASSUME Init
                 PROVE  Routing
      OBVIOUS
    <2>1. scenario \in Scenarios /\ calls \in Nat /\ router = EmptyRouter
      BY DEF Init
    <2>2. Planted(router, scenario.routes)
      BY <2>1, EmptyPlanted
    <2> QED
      BY <2>1, <2>2 DEF Routing
  <1>2. Routing /\ [Next]_vars => Routing'
    BY RoutingStep
  <1> QED
    BY <1>1, <1>2, PTL DEF Spec

\* match finds the most exact of the registered paths that cover a request's,
\* and gives its endpoint the values of its parameters; where it finds none, each
\* covering path is shadowed by a branch along which match went astray.
THEOREM EndpointsRight == Spec => []RightEndpoint
  <1>1. Routing /\ req \in HttpRequests => RightEndpoint
    <2> SUFFICES ASSUME Routing, req \in HttpRequests
                 PROVE  RightEndpoint
      OBVIOUS
    <2> DEFINE routes == scenario.routes
               s == req.path
               method == req.method
               found == match(router, method, s)
               hits == {e \in router.endpoints : Walk(router, s) = <<e.node>>
                                                    /\ e.method = method}
               covering == {e \in router.endpoints : e.method = method /\ Covers(e.node, s)}
    <2>1. Planted(router, routes) /\ routes \in Seq(Routes) /\ Len(routes) \in Nat
      BY RoutesGiven DEF Routing
    <2>2. s \in Seq(STRING)
      BY DEF HttpRequests
    <2>3. found = IF hits = {} THEN NoEndpoint ELSE (CHOOSE e \in hits : TRUE).to
      BY DEF match
    <2>4. \A e \in router.endpoints : e.node \in router.nodes /\ e.node \in Seq(Names)
                                     /\ e.to \in 1..Len(routes)
      BY <2>1 DEF Planted
    <2> HIDE DEF routes, s, method, found
    <2>5. CASE hits = {}
      <3>1. found = NoEndpoint
        BY <2>3, <2>5
      <3>2. ASSUME NEW e \in covering
            PROVE  \E n \in router.nodes : /\ Shadows(n, e.node) /\ Len(n) <= Len(s)
                                           /\ Covers(n, SubSeq(s, 1, Len(n)))
        <4>1. e.node \in router.nodes /\ Covers(e.node, s)
          BY <2>4
        <4>2. Walk(router, s) # <<e.node>>
          BY <2>5
        <4> QED
          BY <2>1, <2>2, <4>1, <4>2, NoneExact
      <3> QED
        BY <3>1, <3>2 DEF RightEndpoint, s, method, found
    <2>6. CASE hits # {}
      <3> DEFINE e == CHOOSE e \in hits : TRUE
      <3>1. e \in hits
        BY <2>6
      <3>2. found = e.to
        BY <2>3, <2>6
      <3> HIDE DEF e
      <3>3. e \in router.endpoints /\ Walk(router, s) = <<e.node>> /\ e.method = method
        BY <3>1
      <3>4. e.node \in router.nodes /\ e.node \in Seq(Names) /\ e.to \in 1..Len(routes)
        BY <2>4, <3>3
      <3>5. found # NoEndpoint
        BY <2>1, <3>2, <3>4 DEF NoEndpoint
      <3>6. e \in covering
        <4>1. Covers(e.node, s)
          BY <2>1, <2>2, <3>3, <3>4, FoundCovers
        <4> QED
          BY <3>3, <4>1
      <3>7. \A f \in covering : ~Shadows(f.node, e.node)
        <4> TAKE f \in covering
        <4>1. f.node \in router.nodes /\ Covers(f.node, s)
          BY <2>4
        <4> QED
          BY <2>1, <2>2, <3>3, <3>4, <4>1, FoundExact
      <3>8. path_params(router, s) = Values(routes[found].path)
        <4>1. path_params(router, s) = Meant(routes[e.to].path, s)
          BY <2>1, <2>2, <3>3, FoundParams
        <4>2. Values(routes[e.to].path) = Meant(routes[e.to].path, s)
          BY DEF Values, Meant, s
        <4> QED
          BY <3>2, <4>1, <4>2
      <3> HIDE DEF hits
      <3> QED
        BY <3>2, <3>5, <3>6, <3>7, <3>8 DEF RightEndpoint, s, method, found, routes
    <2> QED
      BY <2>5, <2>6
  <1>2. Received => req \in HttpRequests
    BY DEF Received
  <1> QED
    BY <1>1, <1>2, ReceivedInductive, RoutingInductive, PTL

=============================================================================
